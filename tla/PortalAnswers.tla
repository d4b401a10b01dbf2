--------------------------- MODULE PortalAnswers ---------------------------
(***************************************************************************)
(* What one portal contributes to a search: its scraper reads cards        *)
(* (adapters/<portal>/live.py), its adapter filters them and counts what   *)
(* it dropped (adapters/common.py), and run_adapter turns a disabled or a  *)
(* crashing adapter into an answer (adapters/registry.py).                 *)
(*                                                                         *)
(* A card is what the portal's page shows: a link and an identifier, a     *)
(* type and the words that name it, a price, rooms, the locality it names, *)
(* the places and words of its title.  junk cards have no link, no         *)
(* identifier or are noise.  The scrapers make listings of them, and       *)
(* differ in what they believe: Zonaprop, Argenprop and MercadoLibre call  *)
(* everything a house of the place that was asked for; Century 21 reads    *)
(* type and place from the card; Remax reads the type and takes the place  *)
(* from the search.                                                        *)
(***************************************************************************)
EXTENDS ListingFilter, Sequences, Functions

CONSTANTS Cards,        \* the cards that the portals show
          Curated,      \* the listings of the fixtures
          MaxItems,     \* max_items: listings a scraper returns at most
          FixtureCap,   \* cap: listings curated_fixture_slice returns at most
          MaxScrolls,   \* max_scrolls of Century 21's _collect_rows
          RowTarget     \* its target, max_items * 8 in the code

Number == Int \cup {None}

ASSUME ScrapersAssumption ==
    /\ None \notin Int
    /\ \A c \in Cards \cup Curated : {c.price, c.rooms} \subseteq Number
    /\ MaxItems \in Nat \ {0}
    /\ FixtureCap \in Nat \ {0}
    /\ MaxScrolls \in Nat \ {0}
    /\ RowTarget \in Nat \ {0}

-----------------------------------------------------------------------------
(* A reading maps places, pairs of a page and a row, to the card or listing *)
(* that is there.  What is left of it keeps its place, and so its order.    *)

Lay(pages) ==
    [p \in UNION {{n} \X DOMAIN pages[n] : n \in DOMAIN pages} |-> pages[p[1]][p[2]]]

Earlier(p, q) ==
    \/ p[1] < q[1]
    \/ p[1] = q[1] /\ p[2] < q[2]

Before(p, reading) == {q \in DOMAIN reading : Earlier(q, p)}

FirstOf(reading, n) == RestrictDomain(reading, LAMBDA p : Cardinality(Before(p, reading)) < n)

\* Every page script skips a card it has seen: Zonaprop's knows cards by their
\* links ("href"), the others by their identifiers ("id").
Unseen(reading, key) ==
    RestrictDomain(reading,
                   LAMBDA p : \A q \in Before(p, reading) : reading[q][key] # reading[p][key])

Listing(c, type, locality, rooms) ==
    [id |-> c.id, type |-> type, price |-> c.price, currency |-> Currency(c), rooms |-> rooms,
     locality |-> locality, places |-> c.places, words |-> c.words]

\* The address of the search names the rooms: a card without rooms inherits them.
RoomsOr(c, asked) == IF c.rooms = None THEN asked ELSE c.rooms

ReadCards(pages, key) ==
    RestrictValues(FirstOf(Unseen(Lay(<<pages[1]>>), key), MaxItems), LAMBDA c : ~c.junk)

\* The fallback drops the rooms from the address, and with them the inheritance.
ScrapeZonaprop(pages, f, fellBack) ==
    LET read == ReadCards(pages, "href")
    IN  [p \in DOMAIN read |->
            LET c == read[p]
            IN  [Listing(c, "house",
                         IF f.location # None THEN f.location ELSE c.locality,
                         IF fellBack THEN c.rooms ELSE RoomsOr(c, f.rooms))
                 EXCEPT !.places = @ \cup ({c.locality} \ {None})]]

ScrapeArgenprop(pages, f) ==
    LET read == ReadCards(pages, "id")
    IN  [p \in DOMAIN read |-> Listing(read[p], "house", f.location, RoomsOr(read[p], f.rooms))]

ScrapeMercadolibre(pages, f) == ScrapeArgenprop(pages, f)

\* _collect_rows: scroll until the target, or until two scrolls show nothing new.
CollectRows(batches) ==
    LET rows == Unseen(Lay(batches), "id")
        new(n) == {p \in DOMAIN rows : p[1] = n}
        enough(n) == Cardinality({p \in DOMAIN rows : p[1] <= n}) >= RowTarget
        stagnant(n) == n > 1 /\ new(n) = {} /\ new(n - 1) = {}
    IN  RestrictDomain(rows, LAMBDA p : /\ p[1] <= MaxScrolls
                                        /\ \A n \in 1..(p[1] - 1) : ~enough(n) /\ ~stagnant(n))

\* Type and place are the card's own; with a minimum of rooms, the listings
\* that may pass it displace the others.
ScrapeCentury21(batches, f) ==
    LET own(c) == Listing(c, "house", c.locality, c.rooms)
        wanted(c) == /\ ~c.junk /\ c.type = "house"
                     /\ ResolveLocation(f) # None => LocationMatches(ResolveLocation(f), own(c))
        rows == FirstOf(RestrictValues(CollectRows(batches), wanted), MaxItems)
        items == [p \in DOMAIN rows |-> own(rows[p])]
        withRooms == RestrictValues(items, LAMBDA l : ~DroppedForRooms(l, f))
    IN  IF DOMAIN withRooms # {} THEN withRooms ELSE items

District(place) == IF place \in {"gonnet", "city bell", "la plata"} THEN "la plata" ELSE place

GeoTokens(f) ==
    IF f.location = None THEN {"la plata", "gonnet", "city bell"}
    ELSE {f.location, District(f.location)}
            \cup (IF f.location = "gonnet" THEN {"manuel b gonnet"} ELSE {})

MatchesGeo(c, tokens) == Hay(c) \cap tokens # {}

\* Remax drops what has no rooms when rooms are asked for.
HasRooms(c, f) == f.rooms # None => c.rooms # None /\ c.rooms >= f.rooms

\* The words of the type decide, whatever the type's number says.
TypeOf(c) ==
    IF "departamento" \in c.kinds THEN "apartment"
    ELSE IF "terreno" \in c.kinds THEN "land"
    ELSE "house"

\* Pages are read until one is empty or there are enough; listings shown on two
\* pages are taken twice.  Without any, the first page is read again, laxly.
ScrapeRemax(pages, f) ==
    LET takes(c) == /\ ~c.junk
                    /\ c.type \in {None, "house"} \/ c.kinds \cap {"casa", "ph"} # {}
                    /\ MatchesGeo(c, GeoTokens(f))
                    /\ HasRooms(c, f)
        takesLaxly(c) == /\ ~c.junk
                         /\ c.type = "house"
                         /\ HasRooms(c, f)
                         /\ f.location # None =>
                                MatchesGeo(c, GeoTokens(f) \cup {"la plata", "buenos aires"})
        read == FirstOf(RestrictDomain(RestrictValues(Lay(pages), takes),
                                       LAMBDA p : \A n \in 1..(p[1] - 1) : pages[n] # <<>>),
                        MaxItems)
        rows == IF DOMAIN read # {} THEN read
                ELSE FirstOf(RestrictValues(Lay(<<pages[1]>>), takesLaxly), MaxItems)
    IN  [p \in DOMAIN rows |-> Listing(rows[p], TypeOf(rows[p]), f.location, rows[p].rooms)]

Portals == {"zonaprop", "argenprop", "mercadolibre", "century21", "remax"}

Scrape(portal, f, o) ==
    CASE portal = "zonaprop" -> ScrapeZonaprop(o.pages, f, o.fellBack)
      [] portal = "argenprop" -> ScrapeArgenprop(o.pages, f)
      [] portal = "mercadolibre" -> ScrapeMercadolibre(o.pages, f)
      [] portal = "century21" -> ScrapeCentury21(o.pages, f)
      [] portal = "remax" -> ScrapeRemax(o.pages, f)

-----------------------------------------------------------------------------
(* Answers: the listings of a portal, its status and error, the counts of  *)
(* its diagnostics.  raised says that gather returns an exception in place *)
(* of an AdapterResult.                                                    *)

Empty(status, error) ==
    [items |-> <<>>, status |-> status, error |-> error, raw |-> 0, dropped |-> 0,
     wiped |-> FALSE, raised |-> FALSE]

Count(reading) == Cardinality(DOMAIN reading)

KeptOf(items, f) == RestrictValues(items, LAMBDA l : KeptByAdapter(l, f))

RoomsDropped(items, f) == Cardinality({p \in DOMAIN items : DroppedForRooms(items[p], f)})

\* A slip: any filter that empties the answer is blamed on the rooms.
BlameTheRooms(items, f) ==
    LET kept == KeptOf(items, f)
    IN  [items |-> kept,
         status |-> IF Count(kept) > 0 THEN "ok" ELSE "partial",
         error |-> None,
         raw |-> Count(items), dropped |-> RoomsDropped(items, f),
         wiped |-> f.rooms # None /\ Count(items) > 0 /\ Count(kept) = 0, raised |-> FALSE]

LiveOkResult(items, f) ==
    LET kept == KeptOf(items, f)
        wipe == /\ f.rooms # None
                /\ Count(items) > 0
                /\ Count(kept) = 0
                /\ RoomsDropped(items, f) = Count(items)
    IN  [items |-> kept,
         status |-> IF Count(kept) > 0 THEN "ok" ELSE "partial",
         error |-> IF wipe THEN "filtered_rooms_null" ELSE None,
         raw |-> Count(items), dropped |-> RoomsDropped(items, f), wiped |-> wipe, raised |-> FALSE]

\* Curated listings, no more of them than the pages asked for would hold.
CuratedSlice(items, f) == FirstOf(KeptOf(items, f), FixtureCap)

\* ADAPTER_USE_FIXTURES: they stand for the portal's.
FixtureResult(items, f) ==
    LET kept == CuratedSlice(items, f)
    IN  [items |-> kept,
         status |-> IF Count(kept) > 0 THEN "ok" ELSE "partial",
         error |-> "fixtures_only",
         raw |-> Count(items), dropped |-> 0, wiped |-> FALSE, raised |-> FALSE]

\* AdapterErrorCode, and those that a scraper gives up with.
Errors == {"bot_wall", "rate_limit", "parse", "network", "not_implemented", "fixtures_only",
           "auth_required", "filtered_rooms_null"}
Refusals == {"bot_wall", "rate_limit", "auth_required", "parse", "network"}

\* Only Remax and Century 21 call a login wall a partial answer.
RefusedResult(portal, code) ==
    Empty(IF \/ code \in {"bot_wall", "rate_limit"}
             \/ code = "auth_required" /\ portal \in {"remax", "century21"}
          THEN "partial" ELSE "error", code)

\* What run_search makes of an exception among the results.
RaisedResult == [Empty("error", "network") EXCEPT !.raised = TRUE]

\* What became of the adapter: read holds the pages it saw, the others name
\* how it ended; timeout is run_search's own, after adapter_timeout_seconds,
\* and cancelled an exception that is no Exception and passes every handler.
RunAdapter(portal, f, o) ==
    CASE o.kind = "disabled" -> Empty("skipped", "not_implemented")
      [] o.kind = "crashed" -> Empty("error", "network")
      [] o.kind = "refused" -> RefusedResult(portal, o.code)
      [] o.kind = "read" -> LiveOkResult(Scrape(portal, f, o), f)
      [] o.kind = "fixtures" -> FixtureResult(Lay(<<o.items>>), f)
      [] o.kind = "timeout" -> Empty("error", "network")
      [] o.kind = "cancelled" -> RaisedResult
=============================================================================
