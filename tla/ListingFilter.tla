--------------------------- MODULE ListingFilter ---------------------------
(***************************************************************************)
(* Which listings a search keeps.  Every adapter filters what it has read  *)
(* (adapters/common.py, filter_raw_items), and the search filters the      *)
(* merged listings again (search/postfilter.py), which its comments call   *)
(* the authoritative filter.  Both match places with geo/match.py.         *)
(*                                                                         *)
(* A listing is what the filters look at: its type, price and currency,    *)
(* its rooms, its normalised locality, the places its address or title     *)
(* name and the words of its title and description.  A missing datum is    *)
(* None.  Names are normalised: normalize_geo_text has been applied.       *)
(***************************************************************************)
EXTENDS Integers, FiniteSets

CONSTANT None

\* The part of GEO_SEED whose names contain one another or exclude one another.
Seed == {
    [locality |-> "gonnet",
     aliases |-> {"gonnet", "manuel b gonnet", "manuel belgrano gonnet"}],
    [locality |-> "city bell", aliases |-> {"city bell"}],
    [locality |-> "la plata", aliases |-> {"la plata"}],
    [locality |-> "pilar", aliases |-> {"pilar"}]}

LaPlataChildren == {"la plata", "gonnet", "city bell"}

ASSUME PlacesAssumption == None \notin LaPlataChildren

TokensForPlace(place) ==
    {place} \cup UNION {s.aliases \cup {s.locality} :
                            s \in {x \in Seed : place \in x.aliases \cup {x.locality}}}

\* A name is looked for inside the text that the listing's fields make together,
\* and so is found inside a longer name as well.
NamesInside(name) ==
    IF name \in {"manuel b gonnet", "manuel belgrano gonnet"} THEN {name, "gonnet"} ELSE {name}

Hay(l) == UNION {NamesInside(name) : name \in (l.places \cup {l.locality}) \ {None}}

\* La Plata takes its children in.  Gonnet does not take what lies in Pilar or
\* City Bell, whatever the title says.
LocationMatches(place, l) ==
    IF place = "la plata"
    THEN l.locality \in LaPlataChildren \/ Hay(l) \cap LaPlataChildren # {}
    ELSE \/ l.locality \in TokensForPlace(place)
         \/ /\ ~(place = "gonnet" /\ l.locality \in {"pilar", "city bell"})
            /\ Hay(l) \cap TokensForPlace(place) # {}

\* The location of the filter, or the locality of the older geo.custom.
ResolveLocation(f) == IF f.location # None THEN f.location ELSE f.custom

-----------------------------------------------------------------------------
(* The filter of the search.                                               *)

Currency(l) == IF l.currency = None THEN "USD" ELSE l.currency

PassesPrice(l, f) ==
    \/ f.price = None
    \/ f.price.min = None /\ f.price.max = None
    \/ l.price = None
    \/ /\ Currency(l) = f.price.currency
       /\ f.price.min # None => l.price >= f.price.min
       /\ f.price.max # None => l.price <= f.price.max

PassesRoomsMin(l, f) == f.rooms = None \/ l.rooms = None \/ l.rooms >= f.rooms

PassesLocation(l, place) == place = None \/ LocationMatches(place, l)

PassesType(l, f) == l.type = f.type

PassesPostFilters(l, f) ==
    /\ PassesType(l, f)
    /\ PassesLocation(l, ResolveLocation(f))
    /\ PassesPrice(l, f)
    /\ PassesRoomsMin(l, f)

-----------------------------------------------------------------------------
(* The filter of the adapters, which also looks for the words of a query.  *)

DroppedForPrice(l, f) ==
    /\ f.price # None
    /\ f.price.min # None \/ f.price.max # None
    /\ l.price # None
    /\ \/ Currency(l) # f.price.currency
       \/ f.price.min # None /\ l.price < f.price.min
       \/ f.price.max # None /\ l.price > f.price.max

DroppedForRooms(l, f) == f.rooms # None /\ l.rooms # None /\ l.rooms < f.rooms

\* A slip: the adapter leaves the price to the second filter.
KeepsAnyPrice(l, f) ==
    /\ l.type = f.type
    /\ ~DroppedForRooms(l, f)
    /\ ResolveLocation(f) # None => LocationMatches(ResolveLocation(f), l)
    /\ f.query # None => f.query \in l.words

KeptByAdapter(l, f) ==
    /\ l.type = f.type
    /\ ~DroppedForPrice(l, f)
    /\ ~DroppedForRooms(l, f)
    /\ ResolveLocation(f) # None => LocationMatches(ResolveLocation(f), l)
    /\ f.query # None => f.query \in l.words
=============================================================================
