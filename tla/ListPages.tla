----------------------------- MODULE ListPages ------------------------------
(***************************************************************************)
(* The pages of a signed-in user in one tab: the active list they share,   *)
(* the lists ActiveListContext has fetched, and what the page that is open *)
(* shows.  "list" stands for the interest and archived pages, which work   *)
(* alike, "calendar" for the calendar, "detail" for a property's page.     *)
(*                                                                         *)
(* A step is what a script does between two awaits, with the render and    *)
(* the effects it causes.  No call is ever cancelled, and answers come in  *)
(* any order.  Rows are told apart by the list they are of.                *)
(***************************************************************************)
EXTENDS Naturals

CONSTANTS
    Lists,
    Own,        \* the list the user owns
    None,       \* no list
    Refreshes,  \* slots for the calls of refreshLists
    MaxCalls    \* a bound on the page's calls under way

ASSUME PagesAssumption == Own \in Lists /\ None \notin Lists /\ MaxCalls \in Nat \ {0}

VARIABLES
    mine,     \* the lists the API finds the user a member of
    stored,   \* the list in localStorage, which the other tabs share
    active,   \* activeListId
    known,    \* the lists fetched last
    refresh,  \* refresh[r]: a call of refreshLists and its answer
    page,     \* the page that is open
    shown,    \* the lists whose rows the page holds
    item,     \* the list of the interest item that the detail page edits
    loading, error,
    loads,    \* loads[l]: how many loads of list l are under way
    seconds,  \* seconds[l]: how many of these have the property and ask for its item
    adds,     \* adds[l]: how many pasted URLs are on their way to list l
    save,     \* the write under way of the detail page, and the list of the click
    mixed     \* whether calls of the page for different lists have overlapped

tab == <<mine, stored, active, known, refresh>>
view == <<page, shown, item, loading, error, loads, seconds, adds, save, mixed>>
vars == <<tab, view>>

Asked == Lists \cup {None}

Pages == {"list", "calendar", "detail"}

NoCalls == [l \in Asked |-> 0]
NoSave == [at |-> "idle", list |-> None]
NoRefresh == [at |-> "idle", items |-> {}]

TypeOK ==
    /\ mine \in SUBSET Lists /\ Own \in mine
    /\ stored \in Asked /\ active \in Asked
    /\ known \in SUBSET Lists
    /\ refresh \in [Refreshes -> [at: {"idle", "asked", "answered"}, items: SUBSET Lists]]
    /\ page \in Pages \cup {"none"}
    /\ shown \in SUBSET Lists /\ item \in Asked
    /\ {loading, error, mixed} \subseteq BOOLEAN
    /\ loads \in [Asked -> 0 .. MaxCalls] /\ adds \in [Asked -> 0 .. MaxCalls]
    /\ seconds \in [Asked -> 0 .. MaxCalls] /\ \A l \in Asked : seconds[l] <= loads[l]
    /\ save \in [at: {"idle", "add", "patch", "last"}, list: Asked]
    /\ adds[None] = 0
    /\ page # "list" => adds = NoCalls
    /\ page # "detail" => save = NoSave /\ seconds = NoCalls /\ item = None

\* What is stored may be of an earlier session, or of another user's.
Init ==
    /\ mine \in {m \in SUBSET Lists : Own \in m}
    /\ stored \in Asked /\ active = stored
    /\ known = {}
    /\ \E r \in Refreshes : refresh = [q \in Refreshes |->
           IF q = r THEN [NoRefresh EXCEPT !.at = "asked"] ELSE NoRefresh]
    /\ page = "none" /\ shown = {} /\ item = None /\ loading = FALSE /\ error = FALSE
    /\ loads = NoCalls /\ seconds = NoCalls /\ adds = NoCalls /\ save = NoSave /\ mixed = FALSE

-----------------------------------------------------------------------------
(* Loads.                                                                  *)

\* The API takes a call that names no list for one of the user's own list.
ListOf(l) == IF l = None THEN Own ELSE l

UnderWay == {l \in Asked : loads[l] + adds[l] > 0 \/ (save.at # "idle" /\ save.list = l)}

Room == \A l \in Asked : loads[l] + adds[l] < MaxCalls

\* A page with rows shows them also when it has failed to load others.
Visible == page # "none" /\ ~loading /\ (error => page # "detail" /\ shown # {})

StartLoad(l) ==
    /\ loads' = [loads EXCEPT ![l] = @ + 1]
    /\ loading' = TRUE /\ error' = FALSE

Mount(p) ==
    /\ page' = p
    /\ shown' = {} /\ item' = None /\ loading' = TRUE /\ error' = FALSE
    /\ loads' = IF p # "detail" /\ active = None THEN NoCalls
                ELSE [NoCalls EXCEPT ![active] = 1]
    /\ seconds' = NoCalls /\ adds' = NoCalls /\ mixed' = FALSE
    /\ UNCHANGED tab

\* A slip: a save under way loads the page opened after it.
OpenPageSaving(p) == Mount(p) /\ UNCHANGED save

\* Answers to the calls of the page before change nothing any more.
OpenPage(p) == Mount(p) /\ save' = NoSave

\* A slip: load does not depend on the active list.
ActivateOnly(l) == active' = l /\ UNCHANGED view

\* The page loads again when the active list has changed under it.
Activate(l) ==
    /\ active' = l
    /\ IF page = "none" \/ l = active
         THEN UNCHANGED view
         ELSE /\ StartLoad(l)
              /\ mixed' = (mixed \/ UnderWay # {})
              /\ UNCHANGED <<page, shown, item, seconds, adds, save>>

\* What the last call brings is in order again when it is of the active list.
Settles(l) == l = active /\ UnderWay = {l} /\ loads[l] + adds[l] = 1 /\ save.at = "idle"

\* The rows of a list, or a property without an interest item.
LoadAnswered(l) ==
    /\ seconds[l] < loads[l]
    /\ loads' = [loads EXCEPT ![l] = @ - 1]
    /\ shown' = {ListOf(l)} /\ item' = None
    /\ loading' = FALSE
    /\ mixed' = (mixed /\ ~Settles(l))
    /\ UNCHANGED <<tab, page, error, seconds, adds, save>>

\* A property with an interest item, which is looked for among the list's.
PropertyAnswered(l) ==
    /\ page = "detail" /\ l # None /\ seconds[l] < loads[l]
    /\ seconds' = [seconds EXCEPT ![l] = @ + 1]
    /\ shown' = {l}
    /\ UNCHANGED <<tab, page, item, loading, error, loads, adds, save, mixed>>

\* The item may have been archived or restored since.
ItemAnswered(l) ==
    /\ seconds[l] > 0
    /\ loads' = [loads EXCEPT ![l] = @ - 1] /\ seconds' = [seconds EXCEPT ![l] = @ - 1]
    /\ item' \in {l, None}
    /\ loading' = FALSE
    /\ mixed' = (mixed /\ ~(Settles(l) /\ shown = {l}))
    /\ UNCHANGED <<tab, page, shown, error, adds, save>>

\* Either call of the load fails.
CallFails(l) ==
    /\ loads' = [loads EXCEPT ![l] = @ - 1]
    /\ \/ seconds[l] < loads[l] /\ UNCHANGED seconds
       \/ seconds[l] > 0 /\ seconds' = [seconds EXCEPT ![l] = @ - 1]
    /\ error' = TRUE
    /\ mixed' = (mixed \/ ~shown \cup {item} \subseteq {ListOf(active), None})
    /\ UNCHANGED <<tab, page, shown, item, adds, save>>

\* A slip: loading ends with an answer only.
LoadFailsOpen(l) == CallFails(l) /\ UNCHANGED loading

\* The rows of before stay.
LoadFails(l) == CallFails(l) /\ loading' = FALSE

Retry ==
    /\ page # "none" /\ ~loading /\ ~Visible /\ active # None
    /\ Room /\ StartLoad(active)
    /\ UNCHANGED <<tab, page, shown, item, seconds, adds, save, mixed>>

ChangeMonth ==
    /\ page = "calendar" /\ Visible /\ active # None
    /\ Room /\ StartLoad(active)
    /\ UNCHANGED <<tab, page, shown, item, seconds, adds, save, mixed>>

-----------------------------------------------------------------------------
(* Writes.                                                                 *)

StartAdd ==
    /\ page = "list" /\ Visible /\ Room
    /\ adds' = [adds EXCEPT ![active] = @ + 1]
    /\ UNCHANGED <<tab, page, shown, item, loading, error, loads, seconds, save, mixed>>

\* The item is put on top of whatever rows there are by now, also when the form
\* has been closed.
AddAnswered(l) ==
    /\ adds[l] > 0
    /\ adds' = [adds EXCEPT ![l] = @ - 1]
    /\ shown' = shown \cup {l}
    /\ error' = FALSE
    /\ UNCHANGED <<tab, page, item, loading, loads, seconds, save, mixed>>

AddFails(l) ==
    /\ adds[l] > 0
    /\ adds' = [adds EXCEPT ![l] = @ - 1]
    /\ UNCHANGED <<tab, page, shown, item, loading, error, loads, seconds, save, mixed>>

\* Saving is a patch of the item and then a visit in the list active by the time of
\* the click, adding and archiving are one call.
StartSave(at) ==
    /\ page = "detail" /\ Visible /\ save.at = "idle"
    /\ at # "add" => item # None
    /\ save' = [at |-> at, list |-> active]
    /\ UNCHANGED <<tab, page, shown, item, loading, error, loads, seconds, adds, mixed>>

Patched ==
    /\ save.at = "patch"
    /\ save' = [save EXCEPT !.at = "last"]
    /\ UNCHANGED <<tab, page, shown, item, loading, error, loads, seconds, adds, mixed>>

\* The page loads again, the list of the click.
Saved ==
    /\ save.at \in {"add", "last"} /\ Room
    /\ item' = IF save.at = "add" THEN ListOf(save.list) ELSE item
    /\ save' = NoSave
    /\ StartLoad(save.list)
    /\ UNCHANGED <<tab, page, shown, seconds, adds, mixed>>

SaveFails ==
    /\ save.at # "idle"
    /\ save' = NoSave
    /\ UNCHANGED <<tab, page, shown, item, loading, error, loads, seconds, adds, mixed>>

-----------------------------------------------------------------------------
(* Lists.                                                                  *)

SwitchTo(l) ==
    /\ page \in {"list", "calendar"} /\ Visible /\ Room
    /\ l \in known \ {active}
    /\ stored' = l
    /\ Activate(l)
    /\ UNCHANGED <<mine, known, refresh>>

\* After an invitation, which owners are offered.
Refresh(r) ==
    /\ refresh[r].at = "idle"
    /\ page = "list" /\ Visible /\ active = Own /\ Own \in known
    /\ refresh' = [refresh EXCEPT ![r].at = "asked"]
    /\ UNCHANGED <<mine, stored, active, known, view>>

ApiLists(r) ==
    /\ refresh[r].at = "asked"
    /\ refresh' = [refresh EXCEPT ![r] = [at |-> "answered", items |-> mine]]
    /\ UNCHANGED <<mine, stored, active, known, view>>

\* A slip: what is stored is taken without a look at the lists.
PickStored(items) == IF stored # None THEN stored ELSE Own

Pick(items) == IF stored \in items THEN stored ELSE Own

RefreshEnds(r) ==
    /\ refresh[r].at = "answered" /\ Room
    /\ known' = refresh[r].items
    /\ stored' = Pick(refresh[r].items)
    /\ Activate(Pick(refresh[r].items))
    /\ refresh' = [refresh EXCEPT ![r] = NoRefresh]
    /\ UNCHANGED mine

RefreshFails(r) ==
    /\ refresh[r].at # "idle"
    /\ refresh' = [refresh EXCEPT ![r] = NoRefresh]
    /\ UNCHANGED <<mine, stored, active, known, view>>

\* Other tabs and other users.
Elsewhere ==
    /\ \/ \E l \in mine : stored' = l /\ UNCHANGED mine
       \/ \E l \in Lists \ {Own} : mine' \in {mine \cup {l}, mine \ {l}} /\ UNCHANGED stored
    /\ UNCHANGED <<active, known, refresh, view>>

-----------------------------------------------------------------------------
LoadEnds(l) ==
    \/ LoadAnswered(l) \/ PropertyAnswered(l) \/ ItemAnswered(l)
    \/ LoadFails(l)
AddEnds(l)  == AddAnswered(l) \/ AddFails(l)
SaveEnds    == Patched \/ Saved \/ SaveFails
Refreshed(r) == ApiLists(r) \/ RefreshEnds(r) \/ RefreshFails(r)

Next ==
    \/ \E p \in Pages : OpenPage(p)
    \/ \E l \in Asked : LoadEnds(l) \/ AddEnds(l)
    \/ Retry \/ ChangeMonth \/ StartAdd
    \/ \E at \in {"add", "patch", "last"} : StartSave(at)
    \/ SaveEnds
    \/ \E l \in Lists : SwitchTo(l)
    \/ \E r \in Refreshes : Refresh(r) \/ Refreshed(r)
    \/ Elsewhere

\* Calls of apiRequest end.
Fairness ==
    /\ \A l \in Asked : WF_vars(LoadEnds(l)) /\ WF_vars(AddEnds(l))
    /\ WF_vars(SaveEnds)
    /\ \A r \in Refreshes : WF_vars(Refreshed(r))

Spec == Init /\ [][Next]_vars /\ Fairness

-----------------------------------------------------------------------------
\* The active list is one of those the selector offers, also when the user has
\* been removed from it or another tab has picked a list in the meantime.
ActiveIsKnown == known # {} => active \in known

\* What a page shows, and the item that a detail page patches, are of the active list,
\* to which its other writes go, unless the list has changed under calls of the page or
\* a load of it has failed; the next load that is alone puts that right.
ShowsActiveList ==
    (Visible /\ ~mixed) => shown = {ListOf(active)} /\ item \in {ListOf(active), None}

\* A page that is left open stops loading as soon as there is an active list; the user
\* may also go on opening pages for ever.
PageShows ==
    \/ []<><<\E p \in Pages : OpenPage(p)>>_vars
    \/ \A p \in Pages : (page = p /\ active # None) ~> (page # p \/ ~loading)
=============================================================================
