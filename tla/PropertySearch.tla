-------------------------- MODULE PropertySearch ---------------------------
(***************************************************************************)
(* A search: run_search asks every portal at once, gives each of them      *)
(* adapter_timeout_seconds, and waits for all (search/service.py).  Then   *)
(* it merges the listings in the order of the portals, the first of two    *)
(* with the same portal and identifier winning, filters them again, and    *)
(* counts.  A reply without listings says why, and the web client can work *)
(* the reason out by itself (apps/web/src/lib/emptyState.ts).              *)
(*                                                                         *)
(* Writing the listings to the database is module PropertyStore's part.    *)
(***************************************************************************)
EXTENDS PortalAnswers

CONSTANTS Requests,        \* the requests: filters and portals asked, in order
          Outcomes(_, _)   \* what may become of a portal's adapter

EmptyStateKinds == {"rooms_filter_wipe", "all_skipped", "all_error", "all_partial", "no_inventory"}

IsOutcome(o) ==
    \/ o.kind \in {"disabled", "crashed", "cancelled"}
    \/ o.kind = "refused" /\ o.code \in Refusals
    \/ o.kind = "read" /\ o.pages \in Seq(Seq(Cards)) /\ o.pages # <<>>
    \/ o.kind = "fixtures" /\ o.items \in Seq(Curated)

ASSUME RequestsAssumption ==
    /\ None \notin EmptyStateKinds \cup Errors
    /\ \A r \in Requests :
          /\ r.filters.rooms \in Number
          /\ r.filters.price # None =>
                {r.filters.price.min, r.filters.price.max} \subseteq Number
          /\ r.portals \in Seq(Portals)
          /\ \A portal \in Portals : \A o \in Outcomes(r, portal) : IsOutcome(o)

VARIABLES request,    \* the request being served
          outcome,    \* what became of each portal that has ended
          answer,     \* and the answer that gather will return for it
          reply       \* the reply, None until it is sent

vars == <<request, outcome, answer, reply>>

f == request.filters
Asked == DOMAIN request.portals

-----------------------------------------------------------------------------
(* The reply.                                                              *)

Places(ans) == UNION {{i} \X DOMAIN ans[i].items : i \in Asked}

At(ans, p) == [portal |-> request.portals[p[1]], listing |-> ans[p[1]].items[p[2]]]

SameKey(r, s) == r.portal = s.portal /\ r.listing.id = s.listing.id

Sooner(p, q) ==
    \/ p[1] < q[1]
    \/ p[1] = q[1] /\ Earlier(p[2], q[2])

\* A slip: portals use the same identifiers.
MergedById(ans) ==
    {At(ans, p) : p \in {q \in Places(ans) :
        ~\E o \in Places(ans) : Sooner(o, q) /\ At(ans, o).listing.id = At(ans, q).listing.id}}

\* The listings that are written: the first of every key.
Merged(ans) ==
    {At(ans, p) : p \in {q \in Places(ans) :
        ~\E o \in Places(ans) : Sooner(o, q) /\ SameKey(At(ans, o), At(ans, q))}}

FilterMerged(rows) == {r \in rows : PassesPostFilters(r.listing, f)}

OfPortal(rows, portal) == {r \in rows : r.portal = portal}

BelowMin(rows) == {r \in rows : ~PassesRoomsMin(r.listing, f)}

\* A slip: the slice keeps the adapter's own count.
SliceUncounted(i, ans, merged, kept) ==
    [portal |-> request.portals[i], status |-> ans[i].status, error |-> ans[i].error,
     raw |-> ans[i].raw, after |-> Count(ans[i].items), dropped |-> ans[i].dropped,
     wiped |-> ans[i].wiped]

\* The slice of one portal, recounted after the second filter, which may find
\* that the rooms emptied it.
Slice(i, ans, merged, kept) ==
    LET portal == request.portals[i]
        a == ans[i]
        own == OfPortal(merged, portal)
        after == Cardinality(OfPortal(kept, portal))
        wipe == f.rooms # None /\ own # {} /\ after = 0 /\ BelowMin(own) = own
    IN  [portal |-> portal,
         status |-> IF wipe /\ a.status = "ok" THEN "partial" ELSE a.status,
         error |-> IF wipe /\ a.error = None THEN "filtered_rooms_null" ELSE a.error,
         raw |-> a.raw,
         after |-> after,
         dropped |-> IF wipe /\ a.dropped < Cardinality(own) THEN Cardinality(own) ELSE a.dropped,
         wiped |-> a.wiped \/ wipe]

\* _empty_state_for
EmptyStateFor(shown, slices, wiped, raw) ==
    LET every(S) == slices # <<>> /\ \A i \in DOMAIN slices : slices[i].status \in S
    IN  IF shown > 0 THEN None
        ELSE IF wiped /\ raw > 0 THEN "rooms_filter_wipe"
        ELSE IF every({"skipped"}) THEN "all_skipped"
        ELSE IF every({"error"}) THEN "all_error"
        ELSE IF every({"partial", "error"}) THEN "all_partial"
        ELSE IF raw = 0 THEN "no_inventory"
        ELSE "all_partial"

\* A later answer for the same portal: the count of listings read is kept by
\* portal, and an exception leaves none.
Overwritten(i, ans) ==
    \E j \in Asked : /\ j > i
                     /\ request.portals[j] = request.portals[i]
                     /\ ~ans[j].raised

\* adapter_raw_by_portal: what the last answer for the portal of slice i has read.
RawByPortal(i, ans) ==
    LET last == {j \in Asked : /\ request.portals[j] = request.portals[i]
                               /\ ~ans[j].raised /\ ~Overwritten(j, ans)}
    IN  IF last = {} THEN 0 ELSE ans[CHOOSE j \in last : TRUE].raw

SearchResponse(ans) ==
    LET merged == Merged(ans)
        kept == FilterMerged(merged)
        slices == [i \in Asked |-> Slice(i, ans, merged, kept)]
        read == SumFunction([i \in Asked |-> RawByPortal(i, ans)])
        raw == IF read = 0 THEN Cardinality(merged) ELSE read
        wiped == \/ \E i \in Asked : slices[i].wiped
                 \/ /\ f.rooms # None
                    /\ raw > 0
                    /\ kept = {}
                    /\ merged # {}
                    /\ BelowMin(merged) = merged
    IN  [items |-> kept, slices |-> slices, raw |-> raw, wiped |-> wiped,
         kind |-> EmptyStateFor(Cardinality(kept), slices, wiped, raw)]

-----------------------------------------------------------------------------
Init ==
    /\ request \in Requests
    /\ outcome = <<>>
    /\ answer = <<>>
    /\ reply = None

UnderWay == Asked \ DOMAIN outcome

With(fun, i, x) == [j \in DOMAIN fun \cup {i} |-> IF j = i THEN x ELSE fun[j]]

\* A slip: a cancelled adapter leaves no answer.
EndsMute(i, o) ==
    /\ i \in UnderWay
    /\ outcome' = With(outcome, i, o)
    /\ answer' = IF o.kind = "cancelled" THEN answer
                 ELSE With(answer, i, RunAdapter(request.portals[i], f, o))
    /\ UNCHANGED <<request, reply>>

Ends(i, o) ==
    /\ i \in UnderWay
    /\ outcome' = With(outcome, i, o)
    /\ answer' = With(answer, i, RunAdapter(request.portals[i], f, o))
    /\ UNCHANGED <<request, reply>>

\* The adapter of a portal ends, one way or another.
AdapterEnds(i) == \E o \in Outcomes(request, request.portals[i]) : Ends(i, o)

\* wait_for gives up on it.
TimesOut(i) == Ends(i, [kind |-> "timeout"])

\* A slip: gather raises what an adapter raised, and the request ends with it.
ReplyUnlessRaised ==
    /\ reply = None
    /\ DOMAIN answer = Asked /\ \A i \in Asked : outcome[i].kind # "cancelled"
    /\ reply' = SearchResponse(answer)
    /\ UNCHANGED <<request, outcome, answer>>

\* Once gather has them all.
Reply ==
    /\ reply = None
    /\ DOMAIN answer = Asked
    /\ reply' = SearchResponse(answer)
    /\ UNCHANGED <<request, outcome, answer>>

Next == Reply \/ \E i \in Asked : AdapterEnds(i) \/ TimesOut(i)

\* The timers of the event loop run out; no portal is assumed to answer.
Fairness == WF_vars(Reply) /\ WF_vars(\E i \in Asked : TimesOut(i))

Spec == Init /\ [][Next]_vars /\ Fairness

-----------------------------------------------------------------------------
(* The client's own reading of a reply without listings (deriveKind).      *)

\* A slip: the client takes its first portal for all of them.
FirstPortalsKind(r) ==
    IF r.wiped THEN "rooms_filter_wipe"
    ELSE IF r.slices[1].status = "skipped" THEN "all_skipped"
    ELSE IF r.slices[1].status = "error" THEN "all_error"
    ELSE "all_partial"

DerivedKind(r) ==
    LET every(S) == r.slices # <<>> /\ \A i \in DOMAIN r.slices : r.slices[i].status \in S
    IN  IF \/ r.wiped
           \/ \E i \in DOMAIN r.slices : r.slices[i].wiped
           \/ \E i \in DOMAIN r.slices : r.slices[i].error = "filtered_rooms_null"
        THEN "rooms_filter_wipe"
        ELSE IF every({"skipped"}) THEN "all_skipped"
        ELSE IF every({"error"}) THEN "all_error"
        ELSE IF every({"partial", "error", "skipped"}) THEN "all_partial"
        ELSE IF r.raw > 0 THEN "all_partial"
        ELSE "no_inventory"

-----------------------------------------------------------------------------
(* Properties.                                                             *)

\* Every portal asked has an answer once it has ended, however it ended, and there
\* is no reply before.
TypeOK ==
    /\ request \in Requests
    /\ DOMAIN answer = DOMAIN outcome
    /\ DOMAIN outcome \subseteq Asked
    /\ reply # None => UnderWay = {}

\* What a portal showed its adapter, whether or not it passed the filter.
Shown(portal, q, o) ==
    CASE o.kind = "read" -> Scrape(portal, q, o)
      [] o.kind = "fixtures" -> Lay(<<o.items>>)
      [] OTHER -> <<>>

ReadBy(i) == Range(Shown(request.portals[i], f, outcome[i]))

\* What the adapter had to keep of it: of curated listings, as many as fit.
Due(portal, q, o) ==
    IF o.kind = "fixtures" THEN CuratedSlice(Shown(portal, q, o), q)
    ELSE KeptOf(Shown(portal, q, o), q)

DueOf(i) == Range(Due(request.portals[i], f, outcome[i]))

\* One portal that fails, times out or is cancelled takes nothing away from the
\* others: a reply shows every listing read that passes the filters, and no
\* other.  (gather with return_exceptions, and the merge loop's continue.)
FailuresAreContained ==
    reply # None =>
        /\ \A i \in Asked : \A l \in DueOf(i) :
              \E r \in reply.items : r.portal = request.portals[i] /\ r.listing.id = l.id
        /\ \A r \in reply.items : /\ PassesPostFilters(r.listing, f)
                                  /\ \E i \in Asked : /\ request.portals[i] = r.portal
                                                      /\ r.listing \in ReadBy(i)

Total(slices, field) == SumFunction([i \in DOMAIN slices |-> slices[i][field]])

\* Every portal is accounted for, once and in the order it was asked.  The counts
\* of the portals add up to the listings shown and to the listings read, if none
\* is asked twice: of two answers of one portal the later one counts, twice.
CountsAddUp ==
    reply # None =>
        /\ [i \in DOMAIN reply.slices |-> reply.slices[i].portal] = request.portals
        /\ IsInjective(request.portals) =>
              /\ Total(reply.slices, "after") = Cardinality(reply.items)
              /\ Total(reply.slices, "raw") = reply.raw
              /\ \A i \in Asked :
                    reply.slices[i].after + reply.slices[i].dropped <= reply.slices[i].raw

Ended(i) == outcome[i].kind

Failed(i) == Ended(i) \in {"crashed", "timeout", "cancelled", "refused"}

\* The reason given for an empty reply is true of the portals: rooms wiped the
\* listings only if some portal read listings that all have too few rooms; all
\* skipped, all failed, and no inventory only if no portal read a listing, those
\* excepted that were asked again and answered the second time.
EmptyStateTells ==
    reply # None =>
        /\ (reply.kind = None) <=> (reply.items # {})
        /\ reply.kind = "rooms_filter_wipe" =>
              \E i \in Asked : ReadBy(i) # {} /\ \A l \in ReadBy(i) : DroppedForRooms(l, f)
        /\ reply.kind = "all_skipped" => \A i \in Asked : Ended(i) = "disabled"
        /\ reply.kind = "all_error" => \A i \in Asked : Failed(i)
        /\ reply.kind = "no_inventory" =>
              \A i \in Asked : ReadBy(i) = {} \/ Overwritten(i, answer)

\* The client's reading agrees with the server's, with two exceptions.  It calls
\* a reply incomplete that mixes switched-off portals with others that brought
\* nothing; and it blames the rooms for an answer whose count of listings read
\* a later answer for the same portal has overwritten.
ClientAgrees ==
    reply # None /\ reply.items = {} =>
        \/ DerivedKind(reply) = reply.kind
        \/ DerivedKind(reply) = "all_partial" /\ reply.kind = "no_inventory"
        \/ /\ DerivedKind(reply) = "rooms_filter_wipe" /\ reply.raw = 0
           /\ \E i \in Asked : reply.slices[i].wiped /\ Overwritten(i, answer)

\* The second filter, which the code calls authoritative, finds nothing the
\* adapters have left over: it is a second line of defence.
SecondFilterDropsNothing ==
    reply # None => reply.items = Merged(answer)

\* However portals behave, a search is answered: liveness rests on the timers.
SearchReplies == <>(reply # None)
=============================================================================
