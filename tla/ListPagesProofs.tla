--------------------------- MODULE ListPagesProofs ---------------------------
(***************************************************************************)
(* Proofs about ListPages, for any lists, any number of calls and answers  *)
(* in any order: the active list is always one that is offered, and a page *)
(* shows the rows of the active list unless it says that calls overlapped. *)
(***************************************************************************)
EXTENDS ListPages, TLAPS

USE PagesAssumption

\* The API names the user's own list in every answer.
AnswersHaveOwn == \A r \in Refreshes : refresh[r].at = "answered" => Own \in refresh[r].items

\* Before a page is open nothing is under way, and without an active list a
\* list page waits.
Waits ==
    /\ page = "none" => shown = {} /\ ~loading /\ loads = NoCalls
    /\ (page \in {"list", "calendar"} /\ active = None) => loading /\ loads = NoCalls

\* No call for list l is under way.
Quiet(l) == loads[l] = 0 /\ adds[l] = 0 /\ (save.at # "idle" => save.list # l)

\* Unless calls have overlapped they are all for the active list, and so is what
\* the page holds when it does not load, also when a load has failed, and the
\* property whose item is being asked for.
Coherent ==
    ~mixed =>
        /\ \A l \in Asked \ {active} : Quiet(l)
        /\ \A l \in Asked : seconds[l] > 0 => shown = {ListOf(l)}
        /\ ~loading => /\ shown \cup {item} \subseteq {ListOf(active), None}
                       /\ (page # "none" /\ ~error) => shown = {ListOf(active)}

IInv == TypeOK /\ AnswersHaveOwn /\ ActiveIsKnown /\ Waits /\ Coherent

LEMMA QuietOrNot == TypeOK => \A l \in Asked : l \notin UnderWay <=> Quiet(l)
BY DEF TypeOK, UnderWay, Quiet

LEMMA CallRecords ==
    /\ NoCalls \in [Asked -> 0 .. MaxCalls] /\ \A l \in Asked : NoCalls[l] = 0
    /\ \A l \in Asked : [NoCalls EXCEPT ![l] = 1] \in [Asked -> 0 .. MaxCalls]
    /\ NoSave \in [at: {"idle", "add", "patch", "last"}, list: Asked] /\ NoSave.at = "idle"
    /\ NoRefresh \in [at: {"idle", "asked", "answered"}, items: SUBSET Lists]
    /\ NoRefresh.at = "idle" /\ None \in Asked /\ Own \in Asked
BY DEF NoCalls, NoSave, NoRefresh, Asked

LEMMA InitHolds == Init => IInv
<1> SUFFICES ASSUME Init PROVE IInv
  OBVIOUS
<1>1. refresh \in [Refreshes -> [at: {"idle", "asked", "answered"}, items: SUBSET Lists]]
      /\ \A r \in Refreshes : refresh[r].at # "answered"
  <2>1. [NoRefresh EXCEPT !.at = "asked"] \in [at: {"idle", "asked", "answered"}, items: SUBSET Lists]
        /\ [NoRefresh EXCEPT !.at = "asked"].at = "asked"
    BY DEF NoRefresh
  <2> QED
    BY <2>1, CallRecords DEF Init
<1>2. TypeOK
  <2>1. /\ loads = NoCalls /\ seconds = NoCalls /\ adds = NoCalls /\ save = NoSave
        /\ item = None /\ active = stored /\ stored \in Asked /\ page \in Pages \cup {"none"}
    BY DEF Init, Pages
  <2>2. \A l \in Asked : seconds[l] <= loads[l]
    BY <2>1, CallRecords
  <2>3. /\ mine \in SUBSET Lists /\ Own \in mine /\ known \in SUBSET Lists /\ shown \in SUBSET Lists
        /\ {loading, error, mixed} \subseteq BOOLEAN
    BY DEF Init
  <2> QED
    BY <1>1, <2>1, <2>2, <2>3, CallRecords DEF TypeOK
<1> QED
  BY <1>1, <1>2, CallRecords DEF Init, IInv, AnswersHaveOwn, ActiveIsKnown, Waits, Coherent, Quiet

-----------------------------------------------------------------------------
(* What happens outside the page.                                          *)

LEMMA TabSteps ==
    ASSUME IInv, UNCHANGED <<active, known, view>>,
           \/ \E r \in Refreshes : Refresh(r) \/ ApiLists(r) \/ RefreshFails(r)
           \/ Elsewhere
    PROVE  IInv'
<1> USE DEF IInv
<1>1. /\ mine' \in SUBSET Lists /\ Own \in mine' /\ stored' \in Asked
      /\ refresh' \in [Refreshes -> [at: {"idle", "asked", "answered"}, items: SUBSET Lists]]
      /\ AnswersHaveOwn'
  <2>1. CASE Elsewhere
    BY <2>1 DEF Elsewhere, TypeOK, AnswersHaveOwn, Asked
  <2>2. ASSUME NEW r \in Refreshes, Refresh(r)
        PROVE  /\ refresh' \in [Refreshes -> [at: {"idle", "asked", "answered"}, items: SUBSET Lists]]
               /\ AnswersHaveOwn' /\ UNCHANGED <<mine, stored>>
    BY <2>2 DEF Refresh, TypeOK, AnswersHaveOwn
  <2>3. ASSUME NEW r \in Refreshes, ApiLists(r)
        PROVE  /\ refresh' \in [Refreshes -> [at: {"idle", "asked", "answered"}, items: SUBSET Lists]]
               /\ AnswersHaveOwn' /\ UNCHANGED <<mine, stored>>
    BY <2>3 DEF ApiLists, TypeOK, AnswersHaveOwn
  <2>4. ASSUME NEW r \in Refreshes, RefreshFails(r)
        PROVE  /\ refresh' \in [Refreshes -> [at: {"idle", "asked", "answered"}, items: SUBSET Lists]]
               /\ AnswersHaveOwn' /\ UNCHANGED <<mine, stored>>
    BY <2>4, CallRecords DEF RefreshFails, TypeOK, AnswersHaveOwn
  <2> QED
    BY <2>1, <2>2, <2>3, <2>4 DEF TypeOK
<1>2. TypeOK'
  BY <1>1 DEF TypeOK, view
<1> QED
  BY <1>1, <1>2 DEF ActiveIsKnown, Waits, Coherent, Quiet, view

-----------------------------------------------------------------------------
(* The active list changes.                                                *)

LEMMA Activated ==
    ASSUME IInv, NEW l \in Lists, Room, Activate(l),
           mine' \in SUBSET Lists, Own \in mine', stored' \in Asked, known' \in SUBSET Lists,
           refresh' \in [Refreshes -> [at: {"idle", "asked", "answered"}, items: SUBSET Lists]],
           AnswersHaveOwn', l \in known'
    PROVE  IInv'
<1> USE DEF IInv
<1>1. active' = l /\ l \in Asked /\ l # None
  BY DEF Activate, Asked
<1>2. CASE UNCHANGED view /\ (page = "none" \/ l = active)
  <2>1. TypeOK'
    BY <1>1, <1>2 DEF TypeOK, view
  <2>2. Waits'
    BY <1>1, <1>2 DEF Waits, view
  <2>3. Coherent'
    BY <1>1, <1>2, CallRecords DEF Coherent, Quiet, Waits, TypeOK, view
  <2> QED
    BY <1>1, <2>1, <2>2, <2>3 DEF ActiveIsKnown
<1>3. CASE /\ page # "none" /\ l # active
           /\ StartLoad(l) /\ mixed' = (mixed \/ UnderWay # {})
           /\ UNCHANGED <<page, shown, item, seconds, adds, save>>
  <2>1. /\ loads' \in [Asked -> 0 .. MaxCalls] /\ loading' = TRUE /\ error' = FALSE
        /\ \A j \in Asked \ {l} : loads'[j] = loads[j]
        /\ \A j \in Asked : seconds[j] <= loads'[j]
    BY <1>1, <1>3 DEF StartLoad, Room, TypeOK
  <2>2. mixed' \in BOOLEAN /\ (~mixed' => UnderWay = {})
    BY <1>3 DEF TypeOK
  <2>3. TypeOK'
    BY <1>1, <1>3, <2>1, <2>2 DEF TypeOK
  <2>4. Coherent'
    BY <1>1, <1>3, <2>1, <2>2, QuietOrNot DEF Coherent, Quiet
  <2> QED
    BY <1>1, <1>3, <2>1, <2>3, <2>4 DEF ActiveIsKnown, Waits
<1> QED
  BY <1>2, <1>3 DEF Activate

LEMMA ListSteps ==
    ASSUME IInv, \/ \E l \in Lists : SwitchTo(l)
                 \/ \E r \in Refreshes : RefreshEnds(r)
    PROVE  IInv'
<1>1. CASE \E l \in Lists : SwitchTo(l)
  <2> PICK l \in Lists : SwitchTo(l)
    BY <1>1
  <2> QED
    BY Activated DEF SwitchTo, IInv, TypeOK, AnswersHaveOwn, Asked
<1>2. CASE \E r \in Refreshes : RefreshEnds(r)
  <2> PICK r \in Refreshes : RefreshEnds(r)
    BY <1>2
  <2> DEFINE got == refresh[r].items
  <2>1. got \in SUBSET Lists /\ Own \in got
    BY DEF RefreshEnds, IInv, TypeOK, AnswersHaveOwn
  <2>2. Pick(got) \in got /\ Pick(got) \in Lists
    BY <2>1 DEF Pick
  <2>3. refresh' \in [Refreshes -> [at: {"idle", "asked", "answered"}, items: SUBSET Lists]]
        /\ AnswersHaveOwn'
    BY CallRecords DEF RefreshEnds, IInv, TypeOK, AnswersHaveOwn
  <2>4. Room /\ Activate(Pick(got)) /\ known' = got /\ stored' = Pick(got) /\ UNCHANGED mine
    BY DEF RefreshEnds
  <2> HIDE DEF got
  <2> QED
    BY <2>1, <2>2, <2>3, <2>4, Activated DEF IInv, TypeOK, Asked
<1> QED
  BY <1>1, <1>2

-----------------------------------------------------------------------------
(* What happens on the page.                                               *)

LEMMA OpenSteps ==
    ASSUME IInv, NEW p \in Pages, OpenPage(p)
    PROVE  IInv'
<1> USE DEF IInv
<1>1. UNCHANGED tab /\ page' = p /\ shown' = {} /\ item' = None /\ loading' = TRUE /\ error' = FALSE
      /\ seconds' = NoCalls /\ adds' = NoCalls /\ mixed' = FALSE /\ save' = NoSave
  BY DEF OpenPage, Mount
<1>2. /\ loads' \in [Asked -> 0 .. MaxCalls]
      /\ \A l \in Asked \ {active} : loads'[l] = 0
      /\ p # "detail" /\ active = None => loads' = NoCalls
  BY CallRecords DEF OpenPage, Mount, TypeOK, NoCalls
<1>c. \A l \in Asked : seconds'[l] = 0 /\ adds'[l] = 0 /\ seconds'[l] <= loads'[l]
  BY <1>1, <1>2, CallRecords
<1>p. p # "none" /\ p \in Pages /\ save'.at = "idle"
  BY <1>1, CallRecords DEF Pages
<1>3. TypeOK'
  BY <1>1, <1>2, <1>c, <1>p, CallRecords DEF TypeOK, tab
<1> QED
  BY <1>1, <1>2, <1>3, <1>c, <1>p
  DEF AnswersHaveOwn, ActiveIsKnown, Waits, Coherent, Quiet, tab

\* One call more, or less, to one list.
LEMMA OneFewer ==
    ASSUME TypeOK, NEW l \in Asked, NEW calls \in [Asked -> 0 .. MaxCalls], calls[l] > 0
    PROVE  /\ [calls EXCEPT ![l] = @ - 1] \in [Asked -> 0 .. MaxCalls]
           /\ [calls EXCEPT ![l] = @ - 1][l] = calls[l] - 1
           /\ \A j \in Asked \ {l} : [calls EXCEPT ![l] = @ - 1][j] = calls[j]
OBVIOUS

LEMMA LoadSteps ==
    ASSUME IInv, NEW l \in Asked, LoadEnds(l)
    PROVE  IInv'
<1> USE DEF IInv
<1>1. loads[l] > 0 /\ UNCHANGED <<tab, page, adds, save>>
  BY DEF LoadEnds, LoadAnswered, PropertyAnswered, ItemAnswered, LoadFails, CallFails, TypeOK
<1>2. page # "none" /\ ~(page \in {"list", "calendar"} /\ active = None)
  BY <1>1, CallRecords DEF Waits
<1>3. /\ ~mixed => l = active
      /\ Settles(l) => l = active /\ save.at = "idle" /\ \A j \in Asked \ {l} : Quiet(j)
      /\ Settles(l) => loads[l] = 1
  BY <1>1, QuietOrNot DEF Coherent, Quiet, TypeOK, Settles
<1>4. ASSUME loads' = [loads EXCEPT ![l] = @ - 1]
      PROVE  /\ loads' \in [Asked -> 0 .. MaxCalls] /\ loads'[l] = loads[l] - 1
             /\ \A j \in Asked \ {l} : loads'[j] = loads[j]
  BY <1>1, <1>4, OneFewer DEF TypeOK
<1>5. ASSUME seconds[l] > 0, seconds' = [seconds EXCEPT ![l] = @ - 1]
      PROVE  /\ seconds' \in [Asked -> 0 .. MaxCalls] /\ seconds'[l] = seconds[l] - 1
             /\ \A j \in Asked \ {l} : seconds'[j] = seconds[j]
             /\ page = "detail"
  BY <1>5, OneFewer, CallRecords DEF TypeOK
<1>6. CASE LoadAnswered(l)
  <2>1. seconds[l] < loads[l] /\ loads' = [loads EXCEPT ![l] = @ - 1] /\ shown' = {ListOf(l)}
        /\ item' = None /\ loading' = FALSE /\ mixed' = (mixed /\ ~Settles(l))
        /\ UNCHANGED <<error, seconds>>
    BY <1>6 DEF LoadAnswered
  <2>2. mixed' \in BOOLEAN /\ (~mixed' => ~mixed \/ Settles(l))
    BY <2>1 DEF TypeOK
  <2>3. shown' \in SUBSET Lists /\ loading' \in BOOLEAN
    BY <2>1 DEF ListOf, Asked
  <2>4. TypeOK'
    BY <1>1, <1>4, <2>1, <2>2, <2>3, CallRecords DEF TypeOK, tab
  <2>5. ASSUME ~mixed \/ Settles(l) PROVE Coherent'
    <3>1. l = active /\ \A j \in Asked \ {l} : Quiet(j)
      BY <1>3, <2>5 DEF Coherent
    <3>2. \A j \in Asked : seconds[j] > 0 => j = l
      BY <3>1 DEF Quiet, TypeOK
    <3> QED
      BY <1>1, <1>4, <2>1, <3>1, <3>2 DEF Coherent, Quiet, tab, ListOf
  <2>6. Coherent'
    BY <2>2, <2>5 DEF Coherent
  <2> QED
    BY <1>1, <1>2, <2>1, <2>4, <2>6 DEF AnswersHaveOwn, ActiveIsKnown, Waits, tab
<1>7. CASE PropertyAnswered(l)
  <2>1. /\ page = "detail" /\ l # None /\ seconds[l] < loads[l]
        /\ seconds' = [seconds EXCEPT ![l] = @ + 1] /\ shown' = {l}
        /\ UNCHANGED <<item, loading, error, loads, mixed>>
    BY <1>7 DEF PropertyAnswered
  <2>2. /\ seconds' \in [Asked -> 0 .. MaxCalls] /\ seconds'[l] = seconds[l] + 1
        /\ \A j \in Asked \ {l} : seconds'[j] = seconds[j]
    BY <2>1 DEF TypeOK
  <2>3. TypeOK'
    BY <1>1, <2>1, <2>2 DEF TypeOK, tab, Asked
  <2>4. ASSUME ~mixed PROVE Coherent'
    <3>1. l = active /\ \A j \in Asked \ {l} : Quiet(j)
      BY <1>3, <2>4 DEF Coherent
    <3>2. \A j \in Asked : seconds'[j] > 0 => j = l
      BY <2>2, <3>1 DEF Quiet, TypeOK
    <3> QED
      BY <1>1, <2>1, <2>4, <3>1, <3>2 DEF Coherent, Quiet, tab, ListOf
  <2>5. Coherent'
    BY <2>1, <2>4 DEF Coherent
  <2> QED
    BY <1>1, <1>2, <2>1, <2>3, <2>5 DEF AnswersHaveOwn, ActiveIsKnown, Waits, tab
<1>8. CASE ItemAnswered(l)
  <2>1. /\ seconds[l] > 0 /\ loads' = [loads EXCEPT ![l] = @ - 1]
        /\ seconds' = [seconds EXCEPT ![l] = @ - 1] /\ item' \in {l, None} /\ loading' = FALSE
        /\ mixed' = (mixed /\ ~(Settles(l) /\ shown = {l}))
        /\ UNCHANGED <<shown, error>>
    BY <1>8 DEF ItemAnswered
  <2>2. mixed' \in BOOLEAN /\ (~mixed' => ~mixed \/ (Settles(l) /\ shown = {l}))
    BY <2>1 DEF TypeOK
  <2>3. TypeOK'
    <3>1. \A j \in Asked : seconds'[j] <= loads'[j]
      BY <1>4, <1>5, <2>1 DEF TypeOK
    <3>2. item' \in Asked /\ page = "detail"
      BY <1>5, <2>1 DEF Asked
    <3>3. page # "list" => adds = NoCalls
      BY DEF TypeOK
    <3> QED
      BY <1>1, <1>4, <1>5, <2>1, <2>2, <3>1, <3>2, <3>3 DEF TypeOK, tab
  <2>4. ASSUME ~mixed \/ (Settles(l) /\ shown = {l}) PROVE Coherent'
    <3>1. l = active /\ \A j \in Asked \ {l} : Quiet(j)
      BY <1>3, <2>4 DEF Coherent
    <3>2. \A j \in Asked : seconds'[j] > 0 => j = l
      BY <1>5, <2>1, <3>1 DEF Quiet, TypeOK
    <3>3. shown = {ListOf(l)}
      BY <2>1, <2>4 DEF Coherent, Settles, UnderWay, ListOf, TypeOK
    <3> QED
      BY <1>1, <1>4, <2>1, <3>1, <3>2, <3>3 DEF Coherent, Quiet, tab, ListOf
  <2>5. Coherent'
    BY <2>2, <2>4 DEF Coherent
  <2> QED
    BY <1>1, <1>2, <2>1, <2>3, <2>5 DEF AnswersHaveOwn, ActiveIsKnown, Waits, tab
<1>9. CASE LoadFails(l)
  <2>1. /\ loads' = [loads EXCEPT ![l] = @ - 1] /\ loading' = FALSE /\ error' = TRUE
        /\ \/ seconds[l] < loads[l] /\ UNCHANGED seconds
           \/ seconds[l] > 0 /\ seconds' = [seconds EXCEPT ![l] = @ - 1]
        /\ mixed' = (mixed \/ ~shown \cup {item} \subseteq {ListOf(active), None})
        /\ UNCHANGED <<shown, item>>
    BY <1>9 DEF LoadFails, CallFails
  <2>2. /\ mixed' \in BOOLEAN
        /\ ~mixed' => ~mixed /\ shown \cup {item} \subseteq {ListOf(active), None}
    BY <2>1 DEF TypeOK
  <2>3. /\ seconds' \in [Asked -> 0 .. MaxCalls]
        /\ \A j \in Asked : seconds'[j] <= loads'[j] /\ (seconds'[j] > 0 => seconds[j] > 0)
        /\ page # "detail" => seconds' = NoCalls
    BY <1>4, <1>5, <2>1 DEF TypeOK
  <2>4. TypeOK'
    BY <1>1, <1>4, <2>1, <2>2, <2>3 DEF TypeOK, tab
  <2>5. Coherent'
    BY <1>1, <1>4, <2>1, <2>2, <2>3 DEF Coherent, Quiet, TypeOK, tab, ListOf
  <2> QED
    BY <1>1, <1>2, <2>4, <2>5 DEF AnswersHaveOwn, ActiveIsKnown, Waits, tab
<1> QED
  BY <1>6, <1>7, <1>8, <1>9 DEF LoadEnds

\* A load that starts: of the active list, or of the list of the write before it.
LEMMA Loading ==
    ASSUME IInv, NEW l \in Asked, Room, StartLoad(l), page # "none",
           ~(page \in {"list", "calendar"} /\ active = None), ~mixed => l = active,
           UNCHANGED <<tab, page, shown, seconds, adds, mixed>>,
           save' = save \/ save' = NoSave,
           item' \in Asked, page # "detail" => item' = item
    PROVE  IInv'
<1> USE DEF IInv
<1>1. /\ loads' \in [Asked -> 0 .. MaxCalls] /\ loading' = TRUE /\ error' = FALSE
      /\ \A j \in Asked \ {l} : loads'[j] = loads[j]
      /\ \A j \in Asked : seconds[j] <= loads'[j]
  BY DEF StartLoad, Room, TypeOK
<1>2. TypeOK'
  <2>1. /\ save' \in [at: {"idle", "add", "patch", "last"}, list: Asked]
        /\ page # "detail" => save' = NoSave /\ item' = None
    BY CallRecords DEF TypeOK
  <2> QED
    BY <1>1, <2>1 DEF TypeOK, tab
<1>3. Coherent'
  BY <1>1, CallRecords DEF Coherent, Quiet, tab
<1> QED
  BY <1>1, <1>2, <1>3 DEF AnswersHaveOwn, ActiveIsKnown, Waits, tab

LEMMA AddSteps ==
    ASSUME IInv, StartAdd \/ \E l \in Asked : AddEnds(l)
    PROVE  IInv'
<1> USE DEF IInv
<1>1. CASE StartAdd
  <2>1. page = "list" /\ active # None /\ ~loading /\ UNCHANGED <<tab, page, shown, item, loading, error, loads, seconds, save, mixed>>
    BY <1>1 DEF StartAdd, Visible, Waits
  <2>2. adds' \in [Asked -> 0 .. MaxCalls] /\ \A j \in Asked \ {active} : adds'[j] = adds[j]
    BY <1>1 DEF StartAdd, Room, TypeOK
  <2>3. TypeOK'
    BY <2>1, <2>2, CallRecords DEF TypeOK, tab
  <2> QED
    BY <2>1, <2>2, <2>3 DEF AnswersHaveOwn, ActiveIsKnown, Waits, Coherent, Quiet, tab, ListOf
<1>2. ASSUME NEW l \in Asked, AddEnds(l) PROVE IInv'
  <2>1. adds[l] > 0 /\ adds' = [adds EXCEPT ![l] = @ - 1] /\ UNCHANGED <<tab, page, item, loading, loads, seconds, save, mixed>>
    BY <1>2 DEF AddEnds, AddAnswered, AddFails
  <2>2. /\ adds' \in [Asked -> 0 .. MaxCalls] /\ adds'[l] = adds[l] - 1
        /\ \A j \in Asked \ {l} : adds'[j] = adds[j]
    BY <2>1, OneFewer DEF TypeOK
  <2>3. l # None /\ l \in Lists /\ page = "list"
    BY <2>1, CallRecords DEF TypeOK, Asked
  <2>4. ~mixed => l = active
    BY <2>1 DEF Coherent, Quiet, TypeOK
  <2>5. \/ shown' = shown \cup {l} /\ error' = FALSE
        \/ UNCHANGED <<shown, error>>
    BY <1>2 DEF AddEnds, AddAnswered, AddFails
  <2>6. TypeOK'
    BY <2>1, <2>2, <2>3, <2>5, CallRecords DEF TypeOK, tab
  <2>7. Coherent'
    BY <2>1, <2>2, <2>3, <2>4, <2>5 DEF Coherent, Quiet, TypeOK, tab, ListOf
  <2> QED
    BY <2>1, <2>3, <2>6, <2>7 DEF AnswersHaveOwn, ActiveIsKnown, Waits, tab
<1> QED
  BY <1>1, <1>2

LEMMA SaveSteps ==
    ASSUME IInv, (\E at \in {"add", "patch", "last"} : StartSave(at)) \/ SaveEnds
    PROVE  IInv'
<1> USE DEF IInv
<1>1. ASSUME UNCHANGED <<tab, page, shown, item, loading, error, loads, seconds, adds, mixed>>, page = "detail",
             save' \in [at: {"idle", "add", "patch", "last"}, list: Asked],
             save'.at # "idle" => save'.list = active \/ (save.at # "idle" /\ save'.list = save.list)
      PROVE  IInv'
  <2>1. TypeOK'
    BY <1>1 DEF TypeOK, tab
  <2> QED
    BY <1>1, <2>1 DEF AnswersHaveOwn, ActiveIsKnown, Waits, Coherent, Quiet, tab, ListOf
<1>2. save \in [at: {"idle", "add", "patch", "last"}, list: Asked] /\ (save.at # "idle" => page = "detail")
  BY CallRecords DEF TypeOK
<1>3. ASSUME NEW at \in {"add", "patch", "last"}, StartSave(at) PROVE IInv'
  BY <1>1, <1>3 DEF StartSave, TypeOK
<1>4. CASE Patched
  BY <1>1, <1>2, <1>4 DEF Patched
<1>5. CASE SaveFails
  BY <1>1, <1>2, <1>5, CallRecords DEF SaveFails
<1>6. CASE Saved
  <2>1. save.list \in Asked /\ (~mixed => save.list = active)
    BY <1>2, <1>6 DEF Saved, Coherent, Quiet
  <2>2. item' \in Asked
    BY <1>6, <2>1 DEF Saved, TypeOK, ListOf, Asked
  <2> QED
    BY <1>2, <1>6, <2>1, <2>2, Loading DEF Saved
<1> QED
  BY <1>3, <1>4, <1>5, <1>6 DEF SaveEnds

LEMMA Step == IInv /\ [Next]_vars => IInv'
<1> SUFFICES ASSUME IInv, [Next]_vars PROVE IInv'
  OBVIOUS
<1>1. CASE Retry \/ ChangeMonth
  BY <1>1, Loading DEF Retry, ChangeMonth, IInv, TypeOK
<1>2. CASE (\E r \in Refreshes : Refresh(r) \/ Refreshed(r)) \/ Elsewhere
  <2>1. CASE \E r \in Refreshes : RefreshEnds(r)
    BY <2>1, ListSteps
  <2>2. CASE (\E r \in Refreshes : Refresh(r) \/ ApiLists(r) \/ RefreshFails(r)) \/ Elsewhere
    <3>1. UNCHANGED <<active, known, view>>
      BY <2>2 DEF Refresh, ApiLists, RefreshFails, Elsewhere
    <3> QED
      BY <2>2, <3>1, TabSteps
  <2> QED
    BY <1>2, <2>1, <2>2 DEF Refreshed
<1>3. CASE UNCHANGED vars
  <2>1. TypeOK'
    BY <1>3 DEF IInv, TypeOK, vars, tab, view
  <2> QED
    BY <1>3, <2>1
    DEF IInv, AnswersHaveOwn, ActiveIsKnown, Waits, Coherent, Quiet, vars, tab, view
<1> QED
  BY <1>1, <1>2, <1>3, OpenSteps, LoadSteps, AddSteps, SaveSteps, ListSteps DEF Next

THEOREM PagesInvariance == Spec => []IInv
BY InitHolds, Step, PTL DEF Spec

\* Every call, page and list keeps its type, within the bound on calls.
THEOREM PagesTypes == Spec => []TypeOK
<1>1. IInv => TypeOK
  BY DEF IInv
<1> QED
  BY <1>1, PagesInvariance, PTL

\* Whatever is stored, switched, refreshed or taken away, the active list is one
\* of those that were fetched last.
THEOREM ActiveStaysKnown == Spec => []ActiveIsKnown
<1>1. IInv => ActiveIsKnown
  BY DEF IInv
<1> QED
  BY <1>1, PagesInvariance, PTL

\* A page shows rows of another list than the active one only after its calls
\* have overlapped a change of the list, or a load has failed.
THEOREM PagesShowTheActiveList == Spec => []ShowsActiveList
<1>1. IInv => ShowsActiveList
  <2> SUFFICES ASSUME IInv, Visible, ~mixed
               PROVE  shown = {ListOf(active)} /\ item \in {ListOf(active), None}
    BY DEF ShowsActiveList
  <2>1. page # "none" /\ ~loading /\ shown \cup {item} \subseteq {ListOf(active), None}
    BY DEF IInv, Coherent, Visible
  <2>2. None \notin shown /\ (error => shown # {})
    BY DEF IInv, TypeOK, Visible
  <2>3. ~error => shown = {ListOf(active)}
    BY <2>1 DEF IInv, Coherent
  <2> QED
    BY <2>1, <2>2, <2>3
<1> QED
  BY <1>1, PagesInvariance, PTL
=============================================================================
