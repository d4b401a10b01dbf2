------------------------ MODULE SharedListsStepProofs -----------------------
(***************************************************************************)
(* What a step of SharedLists may do, for any users, properties, request   *)
(* slots and keys: columns are merged; only members write; dates and times *)
(* of archiving are only lost to overlapping requests; and every step is   *)
(* one of ListBoard on the lists as their members see them, or leaves that *)
(* view unchanged.                                                         *)
(***************************************************************************)
EXTENDS SharedListsProofs

-----------------------------------------------------------------------------
(* The action properties.                                                  *)

\* The steps that leave the tables of lists alone.
LEMMA ReadsOnly ==
    ASSUME NEW r \in Requests, Resolve(r) \/ Lookup(r) \/ Abort(r)
    PROVE  UNCHANGED db
  BY Zenon DEF Resolve, ResolveDefault, ResolveListed, ResolveOwner, LoadItem, Begin,
         Lookup, AuthorizeItem, LookupCreate, LookupExternal, LookupVisit, LookupInvite,
         LookupRemove, Prepare, Abort

LEMMA ColumnsStep == Core /\ [Next]_vars => MergeColumns
  <1> SUFFICES ASSUME Core, [Next]_vars PROVE MergeColumns
    OBVIOUS
  <1>1. CASE UNCHANGED items
    BY <1>1 DEF MergeColumns
  <1>2. ASSUME NEW r \in Requests, CommitInterest(r)
        PROVE  MergeColumns
    <2>1. CASE UNCHANGED items
      BY <2>1 DEF MergeColumns
    <2>2. CASE HasRoom(items) /\ \E row : items' = [items EXCEPT ![NewKey(items)] = row]
      BY <2>2, NewKeyIsFree DEF MergeColumns, Core, TypeOK
    <2> QED
      BY <1>2, <2>1, <2>2 DEF CommitInterest
  <1>3. ASSUME NEW r \in Requests, CommitItem(r)
        PROVE  MergeColumns
    <2> DEFINE x == req[r]
    <2>1. /\ items' = [items EXCEPT ![x.item] = FlushedItem(items[x.item], x.old, x.new)]
          /\ x.op \in RowOps /\ x.pc = "ready" /\ Finish(r)
      BY <1>3 DEF CommitItem
    <2>2. x.item \in ItemIds /\ items[x.item] \in ItemRow
      BY <2>1 DEF Core, TypeOK, RequestsFit, RowOpFits
    <2>3. req'[r].pc = "idle"
      BY <2>1 DEF Finish, NoRequest, Core, TypeOK
    <2> HIDE DEF x
    <2>4. ASSUME NEW i \in ItemIds, items[i] # None,
                 NEW c \in {"state", "archivedAt", "score", "comments"},
                 items'[i][c] # items[i][c]
          PROVE  i = x.item /\ x.new[c] # x.old[c] /\ items'[i][c] = x.new[c]
      <3>1. i = x.item
        BY <2>1, <2>4 DEF Core, TypeOK
      <3> DEFINE a  == items[i]
                 st == Column(a.state, x.old.state, x.new.state)
                 at == Column(a.archivedAt, x.old.archivedAt, x.new.archivedAt)
                 sc == Column(a.score, x.old.score, x.new.score)
                 cm == Column(a.comments, x.old.comments, x.new.comments)
                 f  == [a EXCEPT !.state = st, !.archivedAt = at, !.score = sc, !.comments = cm]
      <3>2. items'[i] = f
        BY <2>1, <2>2, <3>1 DEF Core, TypeOK, FlushedItem
      <3>3. a \in ItemRow
        BY <2>2, <3>1
      <3> HIDE DEF a, st, at, sc, cm
      <3>4. f.state = st /\ f.archivedAt = at /\ f.score = sc /\ f.comments = cm
        BY <3>3 DEF ItemRow
      <3> HIDE DEF f
      <3>5. CASE c = "state"
        BY <2>4, <3>1, <3>2, <3>4, <3>5 DEF st, a, Column
      <3>6. CASE c = "archivedAt"
        BY <2>4, <3>1, <3>2, <3>4, <3>6 DEF at, a, Column
      <3>7. CASE c = "score"
        BY <2>4, <3>1, <3>2, <3>4, <3>7 DEF sc, a, Column
      <3>8. CASE c = "comments"
        BY <2>4, <3>1, <3>2, <3>4, <3>8 DEF cm, a, Column
      <3> QED
        BY <3>5, <3>6, <3>7, <3>8
    <2> QED
      BY <2>1, <2>3, <2>4 DEF MergeColumns, x
  <1>4. ASSUME NEW r \in Requests,
               CommitOpen(r) \/ CommitVisit(r) \/ CommitInvite(r) \/ CommitRemove(r)
        PROVE  UNCHANGED items
    BY <1>4 DEF CommitOpen, CommitVisit, CommitInvite, CommitRemove
  <1>5. ASSUME NEW p \in Properties, StoreListing(p) PROVE UNCHANGED items
    BY <1>5 DEF StoreListing
  <1> QED
    BY <1>1, <1>2, <1>3, <1>4, <1>5, ReadsOnly DEF Next, Commit, db, vars

\* Whoever else commits to the item between a patch's load and its commit, the
\* patch writes the columns it changed and no others.
THEOREM ColumnsMerge == Spec => ColumnsAreMerged
  BY CoreInvariance, ColumnsStep, PTL DEF Spec, ColumnsAreMerged

\* A commit whose changes are all in list l, by a request entitled to it.
LEMMA WriteToOneList ==
    ASSUME NEW r \in Requests, NEW l \in ListIds, Entitled(r, l),
           req[r].pc \in {"resolved", "ready"}, req'[r].pc = "idle",
           \A m \in MemberIds : members[m] # members'[m] =>
               members'[m].list = l /\ (lists[l] = None \/ lists[l] = req[r].user),
           \A i \in ItemIds : items[i] # items'[i] => items'[i].list = l,
           \A v \in VisitIds : visits[v] # visits'[v] => visits'[v].list = l
    PROVE  MembersWrite
  BY DEF MembersWrite

\* A request past its check is entitled to its list.
LEMMA OwnListEntitled ==
    ASSUME Core, NEW r \in Requests, req[r].pc \in {"resolved", "ready"},
           req[r].list # None
    PROVE  Entitled(r, req[r].list) /\ req[r].list \in ListIds
  BY DEF Core, RequestsEntitled, Entitled, TypeOK, Request

\* What making the default list changes, and that the request is entitled to it.
LEMMA EnsureListWrites ==
    ASSUME Core, NEW r \in Requests, req[r].pc \in {"resolved", "ready"}, EnsureList(r)
    PROVE  /\ EnsuredList(r) \in ListIds /\ Entitled(r, EnsuredList(r))
           /\ \A m \in MemberIds : members[m] # members'[m] =>
                 members'[m].list = EnsuredList(r) /\ lists[EnsuredList(r)] = None
  <1>1. CASE req[r].list # None
    BY <1>1, OwnListEntitled DEF EnsureList, EnsuredList
  <1>2. CASE req[r].list = None
    <2>1. PICK l \in ListIds : l = EnsuredList(r) /\ lists[l] = None
      BY <1>2, NewKeyIsFree DEF EnsureList, EnsuredList, Core, TypeOK
    <2>2. PICK k \in MemberIds : k = NewKey(members) /\ members[k] = None
      BY <1>2, NewKeyIsFree DEF EnsureList, InsertList, Core, TypeOK
    <2> DEFINE row == [list |-> l, user |-> req[r].user, role |-> "owner"]
    <2>3. members' = [members EXCEPT ![k] = row] /\ row.list = l
      BY <1>2, <2>1, <2>2 DEF EnsureList, EnsuredList, InsertList
    <2> HIDE DEF row
    <2> QED
      BY <1>2, <2>1, <2>2, <2>3 DEF Entitled, Core, TypeOK
  <1> QED
    BY <1>1, <1>2

LEMMA MembersWriteStep == Core /\ [Next]_vars => MembersWrite
  <1> SUFFICES ASSUME Core, [Next]_vars PROVE MembersWrite
    OBVIOUS
  <1>1. CASE UNCHANGED <<members, items, visits>>
    BY <1>1 DEF MembersWrite
  <1>f. ASSUME NEW r \in Requests, Finish(r) PROVE req'[r].pc = "idle"
    BY <1>f DEF Finish, NoRequest, Core, TypeOK
  <1>2. ASSUME NEW r \in Requests, CommitOpen(r) PROVE MembersWrite
    BY <1>2, <1>f, EnsureListWrites, WriteToOneList DEF CommitOpen
  <1>3. ASSUME NEW r \in Requests, CommitInterest(r) PROVE MembersWrite
    <2>1. PICK l \in ListIds : l = EnsuredList(r)
      BY <1>3, EnsureListWrites DEF CommitInterest
    <2>2. \A i \in ItemIds : items[i] # items'[i] => items'[i].list = l
      <3>1. CASE UNCHANGED items
        BY <3>1
      <3> DEFINE row == [list |-> l, prop |-> req[r].prop, state |-> "active",
                         archivedAt |-> None, score |-> None, comments |-> None]
      <3>2. UNCHANGED items \/ (HasRoom(items) /\ items' = [items EXCEPT ![NewKey(items)] = row])
        BY <1>3, <2>1 DEF CommitInterest
      <3>3. row.list = l
        OBVIOUS
      <3> HIDE DEF row
      <3>4. CASE HasRoom(items) /\ items' = [items EXCEPT ![NewKey(items)] = row]
        BY <3>3, <3>4, NewKeyIsFree DEF Core, TypeOK
      <3> QED
        BY <3>1, <3>2, <3>4
    <2> QED
      BY <1>3, <1>f, <2>1, <2>2, EnsureListWrites, WriteToOneList DEF CommitInterest
  <1>4. ASSUME NEW r \in Requests, CommitItem(r) PROVE MembersWrite
    <2> DEFINE x == req[r]
               row == FlushedItem(items[x.item], x.old, x.new)
    <2>1. /\ items' = [items EXCEPT ![x.item] = row] /\ UNCHANGED <<lists, members, visits>>
          /\ x.op \in RowOps /\ x.pc = "ready"
      BY <1>4 DEF CommitItem
    <2>2. /\ x.item \in ItemIds /\ items[x.item] \in ItemRow /\ items[x.item].list = x.list
          /\ x.old \in ItemRow /\ x.new \in ItemRow
      BY <2>1 DEF Core, TypeOK, RequestsFit, RowOpFits
    <2>3. row.list = x.list /\ x.list # None
      BY <2>2, FlushedItemIsItem, NoneIsNoValue DEF ItemRow
    <2>4. Entitled(r, x.list) /\ x.list \in ListIds
      BY <2>1, <2>3, OwnListEntitled
    <2> HIDE DEF row
    <2>5. \A i \in ItemIds : items[i] # items'[i] => items'[i].list = x.list
      BY <2>1, <2>2, <2>3 DEF Core, TypeOK
    <2> QED
      BY <1>4, <1>f, <2>1, <2>4, <2>5, WriteToOneList DEF CommitItem
  <1>5. ASSUME NEW r \in Requests, CommitVisit(r) PROVE MembersWrite
    <2> DEFINE x == req[r]
    <2>1. /\ UNCHANGED <<lists, members, items>> /\ x.op = "visit" /\ x.pc = "ready"
          /\ VisitFits(x)
      BY <1>5 DEF CommitVisit, Core, RequestsFit
    <2>2. Entitled(r, x.list) /\ x.list \in ListIds
      BY <2>1, OwnListEntitled, NoneIsNoValue DEF VisitFits
    <2>3. \A v \in VisitIds : visits[v] # visits'[v] => visits'[v].list = x.list
      <3>1. CASE x.visit # None
        <4> DEFINE row == FlushedVisit(visits[x.visit], x.old, x.new)
        <4>1. visits' = [visits EXCEPT ![x.visit] = row]
          BY <1>5, <3>1 DEF CommitVisit
        <4>2. /\ visits[x.visit] \in VisitRow /\ visits[x.visit].list = x.list
              /\ x.visit \in VisitIds /\ x.old \in VisitRow /\ x.new \in VisitRow
          BY <2>1, <3>1 DEF VisitFits, Core, TypeOK
        <4> HIDE DEF x
        <4>3. row.list = x.list
          BY <4>2 DEF FlushedVisit, Column, VisitRow
        <4> HIDE DEF row
        <4> QED
          BY <4>1, <4>2, <4>3 DEF Core, TypeOK
      <3>2. CASE x.visit = None
        <4>1. /\ HasRoom(visits) /\ visits' = [visits EXCEPT ![NewKey(visits)] = x.new]
              /\ x.new.list = x.list
          BY <1>5, <2>1, <3>2 DEF CommitVisit, VisitFits
        <4>2. PICK k \in VisitIds : k = NewKey(visits) /\ visits[k] = None
          BY <4>1, NewKeyIsFree DEF Core, TypeOK
        <4> QED
          BY <4>1, <4>2 DEF Core, TypeOK
      <3> QED
        BY <3>1, <3>2
    <2> QED
      BY <1>5, <1>f, <2>1, <2>2, <2>3, WriteToOneList DEF CommitVisit
  <1>6. ASSUME NEW r \in Requests, CommitInvite(r) PROVE MembersWrite
    <2> DEFINE x == req[r]
               row == [list |-> x.list, user |-> x.who, role |-> "collaborator"]
    <2>1. /\ UNCHANGED <<lists, items, visits>> /\ x.op = "invite" /\ x.pc = "ready"
          /\ HasRoom(members) /\ members' = [members EXCEPT ![NewKey(members)] = row]
      BY <1>6 DEF CommitInvite
    <2>2. /\ Entitled(r, x.list) /\ x.list \in ListIds /\ lists[x.list] = x.user
      BY <2>1, OwnListEntitled, NoneIsNoValue DEF Core, RequestsFit, OwnerOpFits, OwnerOps
    <2>3. row.list = x.list
      OBVIOUS
    <2> HIDE DEF row
    <2>4. \A m \in MemberIds : members[m] # members'[m] => members'[m].list = x.list
      BY <2>1, <2>3, NewKeyIsFree DEF Core, TypeOK
    <2> QED
      BY <1>6, <1>f, <2>1, <2>2, <2>4, WriteToOneList DEF CommitInvite
  <1>7. ASSUME NEW r \in Requests, CommitRemove(r) PROVE MembersWrite
    <2> DEFINE x == req[r]
    <2>1. /\ UNCHANGED <<lists, items, visits>> /\ x.op = "remove" /\ x.pc = "ready"
          /\ members' = [members EXCEPT ![x.member].role = "deleted"]
          /\ req'[r] = NoRequest
      BY <1>7 DEF CommitRemove
    <2>2. /\ Entitled(r, x.list) /\ x.list \in ListIds /\ lists[x.list] = x.user
          /\ x.member \in MemberIds /\ members[x.member] \in MemberRow
          /\ members[x.member].list = x.list
      BY <2>1, OwnListEntitled, NoneIsNoValue
         DEF Core, TypeOK, RequestsFit, OwnerOpFits, OwnerOps
    <2>3. \A m \in MemberIds : members[m] # members'[m] => members'[m].list = x.list
      BY <2>1, <2>2 DEF Core, TypeOK, MemberRow
    <2> QED
      BY <2>1, <2>2, <2>3, WriteToOneList DEF NoRequest
  <1>8. ASSUME NEW p \in Properties, StoreListing(p) PROVE MembersWrite
    BY <1>1, <1>8 DEF StoreListing
  <1> QED
    BY <1>1, <1>2, <1>3, <1>4, <1>5, <1>6, <1>7, <1>8, ReadsOnly DEF Next, Commit, db, vars

\* For any users and requests, whatever changes in a list is the work of a
\* member, or of a user whose removal was committed after the request's check.
THEOREM OnlyMembersDo == Spec => OnlyMembersWrite
  BY CoreInvariance, MembersWriteStep, PTL DEF Spec, OnlyMembersWrite

-----------------------------------------------------------------------------
(* What a handler prepares is consistent in itself; the row it commits to  *)
(* is, unless the row is no longer what the handler has loaded.            *)

\* A visit to write has its date; a change of an item keeps state and time of
\* archiving together.
PreparedRequest(q) ==
    q.pc = "ready" =>
        /\ q.op = "visit" => Dated(q.new)
        /\ q.op \in RowOps => (Stamped(q.old) => Stamped(q.new))

Prepared == \A r \in Requests : PreparedRequest(req[r])

LEMMA PreparedSlot ==
    ASSUME TypeOK, Prepared, NEW r \in Requests, NEW q,
           req' = [req EXCEPT ![r] = q], PreparedRequest(q)
    PROVE  Prepared'
  BY DEF TypeOK, Prepared, PreparedRequest, Dated, Stamped

\* Patch, archive and restore set the state and the time together.
LEMMA EditKeepsStamp ==
    ASSUME NEW op, NEW row \in ItemRow, NEW new, Edit(op, row, new), Stamped(row)
    PROVE  Stamped(new)
  <1>1. row.state = "archived" <=> row.archivedAt # None
    <2>1. row # None
      BY NoneIsNoValue
    <2> QED
      BY <2>1 DEF Stamped
  <1>2. CASE op = "patch"
    <2>1. new.state = row.state /\ new.archivedAt = row.archivedAt
      BY <1>2 DEF Edit, Patched, ItemRow
    <2> QED
      BY <1>1, <2>1 DEF Stamped
  <1>3. CASE op = "archive"
    <2>1. PICK t \in Times : new = Archived(row, t)
      BY <1>3 DEF Edit
    <2>2. new.state = "archived" /\ new.archivedAt = t /\ t # None
      BY <2>1, NoneIsNoValue DEF Archived, ItemRow
    <2> QED
      BY <2>2 DEF Stamped
  <1>4. CASE op = "restore"
    <2>1. new.state = "active" /\ new.archivedAt = None
      BY <1>4 DEF Edit, Restored, ItemRow
    <2> QED
      BY <2>1 DEF Stamped
  <1> QED
    BY <1>2, <1>3, <1>4 DEF Edit

\* status none clears the date of a row, any other status brings one.
LEMMA UpsertIsDated ==
    ASSUME NEW status \in Statuses, NEW at, DateGiven(status, at)
    PROVE  /\ \A row \in VisitRow : Dated(Rescheduled(row, status, at))
           /\ \A l, p : Dated([list |-> l, prop |-> p, status |-> status, at |-> at])
  BY DEF DateGiven, Rescheduled, Dated, VisitRow

LEMMA PreparedStep == Core /\ Prepared /\ [Next]_vars => Prepared'
  <1> SUFFICES ASSUME Core, Prepared, [Next]_vars PROVE Prepared'
    OBVIOUS
  <1>t. TypeOK
    BY DEF Core
  <1>u. CASE UNCHANGED req
    BY <1>u DEF Prepared, PreparedRequest, Dated, Stamped
  <1>f. ASSUME NEW r \in Requests, Finish(r) PROVE Prepared'
    <2>1. PreparedRequest(NoRequest)
      BY DEF PreparedRequest, NoRequest
    <2> QED
      BY <1>f, <1>t, <2>1, PreparedSlot DEF Finish
  <1>1. ASSUME NEW r \in Requests, NEW op, NEW u, NEW l, Begin(r, "resolved", op, u, l)
        PROVE  Prepared'
    <2> DEFINE q == [NoRequest EXCEPT !.pc = "resolved", !.op = op, !.user = u, !.list = l]
    <2>1. PreparedRequest(q)
      BY DEF PreparedRequest, NoRequest
    <2>2. req' = [req EXCEPT ![r] = q]
      BY <1>1 DEF Begin
    <2> HIDE DEF q
    <2> QED
      BY <1>t, <2>1, <2>2, PreparedSlot
  <1>2. ASSUME NEW r \in Requests, Resolve(r) PROVE Prepared'
    <2>1. ASSUME NEW u \in Users, NEW op \in RowOps, NEW i \in ItemIds, LoadItem(r, u, op, i)
          PROVE  Prepared'
      <3> DEFINE q == [NoRequest EXCEPT !.pc = "loaded", !.op = op, !.user = u,
                          !.list = items[i].list, !.item = i, !.old = items[i]]
      <3>1. PreparedRequest(q)
        BY DEF PreparedRequest, NoRequest
      <3>2. req' = [req EXCEPT ![r] = q]
        BY <2>1 DEF LoadItem
      <3> HIDE DEF q
      <3> QED
        BY <1>t, <3>1, <3>2, PreparedSlot
    <2> QED
      BY <1>1, <1>2, <2>1 DEF Resolve, ResolveDefault, ResolveListed, ResolveOwner
  <1>3. ASSUME NEW r \in Requests, AuthorizeItem(r) PROVE Prepared'
    <2>1. PICK new \in ItemRow : /\ Edit(req[r].op, req[r].old, new)
                                 /\ req' = [req EXCEPT ![r] = [req[r] EXCEPT !.pc = "ready", !.new = new]]
      BY <1>3 DEF AuthorizeItem, Prepare
    <2>2. req[r] \in Request /\ req[r].pc = "loaded" /\ req[r].op \in RowOps /\ req[r].old \in ItemRow
      BY <1>3, <1>t DEF AuthorizeItem, Core, TypeOK, RequestsFit, ListFits, RowOpFits
    <2>3. Stamped(req[r].old) => Stamped(new)
      BY <2>1, <2>2, EditKeepsStamp
    <2> DEFINE q == [req[r] EXCEPT !.pc = "ready", !.new = new]
    <2>4. q.op = req[r].op /\ q.old = req[r].old /\ q.new = new
      BY <2>2 DEF Request
    <2>5. PreparedRequest(q)
      BY <2>2, <2>3, <2>4 DEF PreparedRequest, RowOps
    <2> HIDE DEF q
    <2> QED
      BY <1>t, <2>1, <2>5, PreparedSlot DEF q
  <1>4. ASSUME NEW r \in Requests, NEW q, Prepare(r, q), q.op \notin RowOps \cup {"visit"}
        PROVE  Prepared'
    <2>1. PreparedRequest(q)
      BY <1>4 DEF PreparedRequest
    <2> QED
      BY <1>4, <1>t, <2>1, PreparedSlot DEF Prepare
  <1>5. ASSUME NEW r \in Requests, NEW p \in Properties, NEW s \in Statuses,
               NEW t \in Times \cup {None}, LookupVisit(r, p, s, t)
        PROVE  Prepared'
    <2> DEFINE v == OneOrNone(VisitsOf(req[r].list, p))
               new == IF v = None THEN [list |-> req[r].list, prop |-> p,
                                        status |-> s, at |-> t]
                                  ELSE Rescheduled(visits[v], s, t)
               q == [req[r] EXCEPT !.pc = "ready", !.prop = p, !.visit = v,
                         !.old = IF v = None THEN None ELSE visits[v], !.new = new]
    <2>1. v # None => visits[v] \in VisitRow
      BY <1>t DEF OneOrNone, VisitsOf, TypeOK
    <2>2. DateGiven(s, t) /\ req[r].op = "visit" /\ req' = [req EXCEPT ![r] = q]
      BY <1>5 DEF LookupVisit, Prepare
    <2> HIDE DEF v
    <2>3. Dated(new)
      BY <2>1, <2>2, UpsertIsDated
    <2> HIDE DEF new
    <2>4. req[r] \in Request
      BY <1>t DEF TypeOK
    <2>5. PreparedRequest(q)
      BY <2>2, <2>3, <2>4 DEF PreparedRequest, Request, RowOps
    <2> HIDE DEF q
    <2> QED
      BY <1>t, <2>2, <2>5, PreparedSlot
  <1>6. ASSUME NEW r \in Requests, Lookup(r) PROVE Prepared'
    <2>1. req[r] \in Request
      BY <1>t DEF TypeOK
    <2>2. ASSUME NEW p \in Properties, LookupCreate(r, p) PROVE Prepared'
      BY <2>1, <2>2, <1>4 DEF LookupCreate, Request, RowOps
    <2>3. ASSUME NEW p \in Properties, LookupExternal(r, p) PROVE Prepared'
      BY <2>1, <2>3, <1>4 DEF LookupExternal, Request, RowOps
    <2>4. ASSUME NEW w \in Users, LookupInvite(r, w) PROVE Prepared'
      BY <2>1, <2>4, <1>4 DEF LookupInvite, Request, RowOps
    <2>5. ASSUME NEW m \in MemberIds, LookupRemove(r, m) PROVE Prepared'
      BY <2>1, <2>5, <1>4 DEF LookupRemove, Request, RowOps
    <2> QED
      BY <1>3, <1>5, <1>6, <2>2, <2>3, <2>4, <2>5 DEF Lookup
  <1>7. ASSUME NEW r \in Requests, CommitRemove(r) PROVE Prepared'
    <2>1. \A x \in Requests : \/ req'[x] = NoRequest
                              \/ /\ req'[x].pc = req[x].pc /\ req'[x].op = req[x].op
                                 /\ req'[x].old = req[x].old /\ req'[x].new = req[x].new
      BY <1>7, <1>t DEF CommitRemove, TypeOK, Request
    <2> QED
      BY <2>1 DEF Prepared, PreparedRequest, NoRequest, Dated, Stamped
  <1> QED
    BY <1>u, <1>f, <1>2, <1>6, <1>7
       DEF Next, Commit, CommitOpen, CommitInterest, CommitItem, CommitVisit, CommitInvite,
           Abort, StoreListing, vars

\* What every handler has prepared is consistent in itself.
THEOREM HandlersPrepare == Spec => [](Core /\ Prepared)
  <1>1. Init => Prepared
    BY DEF Init, Prepared, PreparedRequest, NoRequest
  <1> QED
    BY <1>1, CoreInvariance, PreparedStep, PTL DEF Spec

-----------------------------------------------------------------------------
KeepDates ==
    \A v \in VisitIds : Dated(visits[v]) /\ ~Dated(visits'[v]) =>
        \E r \in Requests : req[r].visit = v /\ Overtakes(r, visits[v])

KeepStamps ==
    \A i \in ItemIds : Stamped(items[i]) /\ ~Stamped(items'[i]) =>
        \E r \in Requests : req[r].item = i /\ Overtakes(r, items[i])

\* A flush to the row that was loaded writes what was prepared.
LEMMA FlushToLoaded ==
    /\ \A row, new \in VisitRow :
           /\ FlushedVisit(row, row, new).status = new.status
           /\ FlushedVisit(row, row, new).at = new.at
    /\ \A row, new \in ItemRow :
           /\ FlushedItem(row, row, new).state = new.state
           /\ FlushedItem(row, row, new).archivedAt = new.archivedAt
  BY DEF FlushedVisit, FlushedItem, Column, VisitRow, ItemRow

LEMMA KeepDatesStep == Core /\ Prepared /\ [Next]_vars => KeepDates
  <1> SUFFICES ASSUME Core, Prepared, [Next]_vars PROVE KeepDates
    OBVIOUS
  <1>1. CASE UNCHANGED visits
    BY <1>1 DEF KeepDates, Dated
  <1>2. ASSUME NEW r \in Requests, CommitVisit(r) PROVE KeepDates
    <2> DEFINE x == req[r]
    <2>1. x.pc = "ready" /\ x.op = "visit" /\ req'[r].pc = "idle" /\ VisitFits(x)
      BY <1>2 DEF CommitVisit, Finish, NoRequest, Core, TypeOK, RequestsFit
    <2>2. x.new \in VisitRow /\ x.new # None /\ Dated(x.new)
      BY <2>1, NoneIsNoValue DEF VisitFits, Prepared, PreparedRequest
    <2>3. CASE x.visit # None
      <3> DEFINE row == FlushedVisit(visits[x.visit], x.old, x.new)
      <3>1. visits' = [visits EXCEPT ![x.visit] = row]
        BY <1>2, <2>3 DEF CommitVisit
      <3>2. x.visit \in VisitIds /\ visits[x.visit] \in VisitRow
        BY <2>1, <2>3 DEF VisitFits, Core, TypeOK
      <3>3. x.old = visits[x.visit] => row.status = x.new.status /\ row.at = x.new.at
        BY <2>2, <3>2, FlushToLoaded
      <3> HIDE DEF row
      <3>4. x.old = visits[x.visit] => Dated(row)
        BY <2>2, <3>3 DEF Dated
      <3>5. visits'[x.visit] = row /\ \A v \in VisitIds \ {x.visit} : visits'[v] = visits[v]
        BY <3>1, <3>2 DEF Core, TypeOK
      <3>6. Overtakes(r, visits[x.visit]) \/ Dated(visits'[x.visit])
        BY <2>1, <3>4, <3>5 DEF Overtakes
      <3>7. \A v \in VisitIds \ {x.visit} : Dated(visits[v]) => Dated(visits'[v])
        BY <3>5
      <3> QED
        BY <3>6, <3>7 DEF KeepDates
    <2>4. CASE x.visit = None
      <3>1. HasRoom(visits) /\ visits' = [visits EXCEPT ![NewKey(visits)] = x.new]
        BY <1>2, <2>4 DEF CommitVisit
      <3>2. \A v \in VisitIds : visits'[v] \in {visits[v], x.new}
        BY <3>1 DEF Core, TypeOK
      <3> QED
        BY <2>2, <3>2 DEF KeepDates
    <2> QED
      BY <2>3, <2>4
  <1> QED
    BY <1>1, <1>2, ReadsOnly
       DEF Next, Commit, CommitOpen, CommitInterest, CommitItem, CommitInvite, CommitRemove,
           StoreListing, db, vars

\* Whoever plans visits to one property at the same time, a visit only loses the
\* date it needs to an upsert that has loaded an older row.
THEOREM DatesKept == Spec => DatesLostToRacesOnly
  BY HandlersPrepare, KeepDatesStep, PTL DEF Spec, DatesLostToRacesOnly, KeepDates

LEMMA KeepStampsStep == Core /\ Prepared /\ [Next]_vars => KeepStamps
  <1> SUFFICES ASSUME Core, Prepared, [Next]_vars PROVE KeepStamps
    OBVIOUS
  <1>1. CASE UNCHANGED items
    BY <1>1 DEF KeepStamps, Stamped
  <1>2. ASSUME NEW r \in Requests, CommitItem(r) PROVE KeepStamps
    <2> DEFINE x == req[r]
               row == FlushedItem(items[x.item], x.old, x.new)
    <2>1. x.pc = "ready" /\ x.op \in RowOps /\ req'[r].pc = "idle" /\ RowOpFits(x)
      BY <1>2 DEF CommitItem, Finish, NoRequest, Core, TypeOK, RequestsFit
    <2>2. /\ x.item \in ItemIds /\ items[x.item] \in ItemRow /\ x.new \in ItemRow
          /\ Stamped(x.old) => Stamped(x.new)
      BY <2>1 DEF RowOpFits, Core, TypeOK, Prepared, PreparedRequest
    <2>3. items' = [items EXCEPT ![x.item] = row]
      BY <1>2 DEF CommitItem
    <2>4. x.old = items[x.item] => row.state = x.new.state /\ row.archivedAt = x.new.archivedAt
      BY <2>2, FlushToLoaded
    <2> HIDE DEF row
    <2>5. x.new # None
      BY <2>2, NoneIsNoValue
    <2>6. x.old = items[x.item] /\ Stamped(items[x.item]) => Stamped(row)
      BY <2>2, <2>4, <2>5 DEF Stamped
    <2>7. items'[x.item] = row /\ \A i \in ItemIds \ {x.item} : items'[i] = items[i]
      BY <2>2, <2>3 DEF Core, TypeOK
    <2>8. \A i \in ItemIds \ {x.item} : Stamped(items[i]) => Stamped(items'[i])
      BY <2>7
    <2>9. Overtakes(r, items[x.item]) \/ (Stamped(items[x.item]) => Stamped(items'[x.item]))
      BY <2>1, <2>6, <2>7 DEF Overtakes
    <2> QED
      BY <2>8, <2>9 DEF KeepStamps
  <1>3. ASSUME NEW r \in Requests, CommitInterest(r) PROVE KeepStamps
    <2> DEFINE row == [list |-> EnsuredList(r), prop |-> req[r].prop, state |-> "active",
                       archivedAt |-> None, score |-> None, comments |-> None]
    <2>1. UNCHANGED items \/ items' = [items EXCEPT ![NewKey(items)] = row]
      BY <1>3 DEF CommitInterest
    <2>2. Stamped(row)
      BY DEF Stamped
    <2> HIDE DEF row
    <2>3. \A i \in ItemIds : items'[i] \in {items[i], row}
      BY <2>1 DEF Core, TypeOK
    <2> QED
      BY <2>2, <2>3 DEF KeepStamps
  <1> QED
    BY <1>1, <1>2, <1>3, ReadsOnly
       DEF Next, Commit, CommitOpen, CommitVisit, CommitInvite, CommitRemove,
           StoreListing, db, vars

\* Whoever changes one item at the same time, its state and its time of archiving
\* only come apart in a change that has loaded an older row.
THEOREM StampsKept == Spec => StampsLostToRacesOnly
  BY HandlersPrepare, KeepStampsStep, PTL DEF Spec, StampsLostToRacesOnly, KeepStamps

-----------------------------------------------------------------------------
(* The handlers implement ListBoard.                                       *)

\* What the members see of the three tables.
PeopleView  == [l \in ListIds |-> People(l)]
BoardView   == [l \in ListIds |-> OnBoard(l)]
PlannedView == [l \in ListIds |-> Planned(l)]

LEMMA SameMembers == UNCHANGED members => UNCHANGED PeopleView
  BY DEF PeopleView, People, IsMember, Membership, Live

LEMMA SameItems == UNCHANGED items => UNCHANGED BoardView
  BY DEF BoardView, OnBoard, ItemsOf

LEMMA SameVisits == UNCHANGED visits => UNCHANGED PlannedView
  BY DEF PlannedView, Planned, VisitsOf

LEMMA SameDb == UNCHANGED <<lists, members, items, visits>> => UNCHANGED Board!vars
  BY SameMembers, SameItems, SameVisits DEF Board!vars, PeopleView, BoardView, PlannedView

\* Key k gets a row and the others keep theirs.
Added(table, next, k) ==
    /\ table[k] = None /\ next[k] # None
    /\ \A i \in DOMAIN table \ {k} : next[i] = table[i]

MemberNew(k, l, u) ==
    /\ Added(members, members', k)
    /\ members'[k].list = l /\ members'[k].user = u /\ members'[k].role # "deleted"

ItemNew(k, l, p) ==
    Added(items, items', k) /\ items'[k].list = l /\ items'[k].prop = p

VisitNew(k, l, p) ==
    Added(visits, visits', k) /\ visits'[k].list = l /\ visits'[k].prop = p

\* A new membership of user u in list l adds u to the people of l.
LEMMA MemberAdded ==
    ASSUME TypeOK, NEW k \in MemberIds, NEW l \in ListIds, NEW u \in Users,
           MemberNew(k, l, u)
    PROVE  PeopleView' = [PeopleView EXCEPT ![l] = @ \cup {u}]
  <1>1. /\ members[k] = None /\ members'[k] # None
        /\ \A m \in MemberIds \ {k} : members'[m] = members[m]
    BY DEF MemberNew, Added, TypeOK
  <1>2. Live(k)' /\ \A m \in MemberIds \ {k} : Live(m)' <=> Live(m)
    BY <1>1 DEF Live, MemberNew
  <1>3. ~Live(k)
    BY <1>1 DEF Live
  <1>4. ASSUME NEW j \in ListIds, NEW w \in Users
        PROVE  IsMember(j, w)' <=> (IsMember(j, w) \/ (j = l /\ w = u))
    BY <1>1, <1>2, <1>3 DEF IsMember, Membership, MemberNew
  <1>5. ASSUME NEW j \in ListIds
        PROVE  People(j)' = IF j = l THEN People(j) \cup {u} ELSE People(j)
    BY <1>4 DEF People
  <1> QED
    BY <1>5 DEF PeopleView

\* A new item for property p in list l adds p to the board of l.
LEMMA ItemAdded ==
    ASSUME TypeOK, NEW k \in ItemIds, NEW l \in ListIds, NEW p \in Properties,
           ItemNew(k, l, p)
    PROVE  BoardView' = [BoardView EXCEPT ![l] = @ \cup {p}]
  <1>1. /\ items[k] = None /\ items'[k] # None
        /\ \A i \in ItemIds \ {k} : items'[i] = items[i]
    BY DEF ItemNew, Added, TypeOK
  <1>2. ASSUME NEW j \in ListIds, NEW q \in Properties
        PROVE  ItemsOf(j, q)' # {} <=> (ItemsOf(j, q) # {} \/ (j = l /\ q = p))
    BY <1>1 DEF ItemsOf, ItemNew
  <1>3. ASSUME NEW j \in ListIds
        PROVE  OnBoard(j)' = IF j = l THEN OnBoard(j) \cup {p} ELSE OnBoard(j)
    BY <1>2 DEF OnBoard
  <1> QED
    BY <1>3 DEF BoardView

\* The same for visits.
LEMMA VisitAdded ==
    ASSUME TypeOK, NEW k \in VisitIds, NEW l \in ListIds, NEW p \in Properties,
           VisitNew(k, l, p)
    PROVE  PlannedView' = [PlannedView EXCEPT ![l] = @ \cup {p}]
  <1>1. /\ visits[k] = None /\ visits'[k] # None
        /\ \A v \in VisitIds \ {k} : visits'[v] = visits[v]
    BY DEF VisitNew, Added, TypeOK
  <1>2. ASSUME NEW j \in ListIds, NEW q \in Properties
        PROVE  VisitsOf(j, q)' # {} <=> (VisitsOf(j, q) # {} \/ (j = l /\ q = p))
    BY <1>1 DEF VisitsOf, VisitNew
  <1>3. ASSUME NEW j \in ListIds
        PROVE  Planned(j)' = IF j = l THEN Planned(j) \cup {p} ELSE Planned(j)
    BY <1>2 DEF Planned
  <1> QED
    BY <1>3 DEF PlannedView

-----------------------------------------------------------------------------
\* The list of a request that writes to the board, and what is on it.
LEMMA EnsuredListView ==
    ASSUME Core, NEW r \in Requests, req[r].pc # "idle", req[r].list = None, EnsureList(r)
    PROVE  /\ EnsuredList(r) \in ListIds /\ lists[EnsuredList(r)] = None
           /\ req[r].user \in Users
           /\ lists' = [lists EXCEPT ![EnsuredList(r)] = req[r].user]
           /\ PeopleView' = [PeopleView EXCEPT ![EnsuredList(r)] = {req[r].user}]
           /\ OnBoard(EnsuredList(r)) = {}
  <1>1. PICK l \in ListIds : l = EnsuredList(r) /\ lists[l] = None
    BY NewKeyIsFree DEF EnsureList, EnsuredList, Core, TypeOK
  <1>2. PICK k \in MemberIds : k = NewKey(members) /\ members[k] = None
    BY NewKeyIsFree DEF EnsureList, InsertList, Core, TypeOK
  <1>3. PICK u \in Users : u = req[r].user
    BY DEF Core, RequestsFit, ListFits
  <1> DEFINE row == [list |-> l, user |-> u, role |-> "owner"]
  <1>4. /\ lists' = [lists EXCEPT ![l] = u] /\ members' = [members EXCEPT ![k] = row]
    BY <1>1, <1>2, <1>3 DEF EnsureList, EnsuredList, InsertList
  <1>5. row # None /\ row.list = l /\ row.user = u /\ row.role # "deleted"
    BY NoneIsNoValue DEF MemberRow, Roles
  <1> HIDE DEF row
  <1>6. PeopleView' = [PeopleView EXCEPT ![l] = @ \cup {u}]
    <2>1. TypeOK
      BY DEF Core
    <2>2. MemberNew(k, l, u)
      BY <1>2, <1>4, <1>5, <2>1 DEF MemberNew, Added, TypeOK
    <2> QED
      BY <2>1, <2>2, MemberAdded
  <1>7. People(l) = {}
    BY <1>1 DEF Core, ListHasItsOwner, People, IsMember, Membership
  <1>8. PeopleView' = [PeopleView EXCEPT ![l] = {u}]
    BY <1>6, <1>7 DEF PeopleView
  <1>9. OnBoard(l) = {}
    BY <1>1 DEF Core, ItemsHaveList, OnBoard, ItemsOf
  <1> QED
    BY <1>1, <1>3, <1>4, <1>8, <1>9

LEMMA OpenOnBoard ==
    ASSUME Core, NEW r \in Requests, CommitOpen(r)
    PROVE  [Board!Next]_(Board!vars)
  <1>1. EnsureList(r) /\ req[r].pc # "idle" /\ UNCHANGED <<items, visits>>
    BY DEF CommitOpen
  <1>2. CASE req[r].list # None
    BY <1>1, <1>2, SameDb DEF EnsureList
  <1>3. CASE req[r].list = None
    <2>1. PICK l \in ListIds : l = EnsuredList(r)
      BY <1>1, <1>3, EnsuredListView
    <2>2. PICK u \in Users : u = req[r].user
      BY <1>1, <1>3, EnsuredListView
    <2>3. /\ lists[l] = None /\ lists' = [lists EXCEPT ![l] = u]
          /\ PeopleView' = [PeopleView EXCEPT ![l] = {u}] /\ OnBoard(l) = {}
      BY <1>1, <1>3, <2>1, <2>2, EnsuredListView
    <2>4. BoardView' = [BoardView EXCEPT ![l] = {}]
      BY <1>1, <2>3, SameItems DEF BoardView
    <2>5. Board!Open(u, l, {})
      BY <1>1, <2>3, <2>4, SameVisits DEF Board!Open, PeopleView, BoardView, PlannedView
    <2> QED
      BY <2>5 DEF Board!Next
  <1> QED
    BY <1>2, <1>3

LEMMA InterestOnBoard ==
    ASSUME Core, NEW r \in Requests, CommitInterest(r)
    PROVE  [Board!Next]_(Board!vars)
  <1> DEFINE p == req[r].prop
  <1>1. /\ EnsureList(r) /\ UNCHANGED visits /\ req[r].pc = "ready"
        /\ \/ req[r].item # None /\ UNCHANGED items
           \/ /\ UniqueInterest(EnsuredList(r), p) /\ HasRoom(items)
              /\ items' = [items EXCEPT ![NewKey(items)] =
                     [list |-> EnsuredList(r), prop |-> p, state |-> "active",
                      archivedAt |-> None, score |-> None, comments |-> None]]
    BY DEF CommitInterest
  <1>p. PICK q \in Properties : q = p
    BY DEF CommitInterest, Core, RequestsFit, InterestFits
  <1>l. PICK l \in ListIds : l = EnsuredList(r)
    BY <1>1, EnsureListStep
  <1>2. \/ UNCHANGED BoardView
        \/ /\ ItemsOf(l, q) = {}
           /\ BoardView' = [BoardView EXCEPT ![l] = @ \cup {q}]
    <2>1. CASE UNCHANGED items
      BY <2>1, SameItems
    <2>2. CASE /\ UniqueInterest(l, q) /\ HasRoom(items)
               /\ items' = [items EXCEPT ![NewKey(items)] =
                     [list |-> l, prop |-> q, state |-> "active",
                      archivedAt |-> None, score |-> None, comments |-> None]]
      <3>1. PICK k \in ItemIds : k = NewKey(items) /\ items[k] = None
        BY <2>2, NewKeyIsFree DEF Core, TypeOK
      <3>2. PICK row : /\ items' = [items EXCEPT ![k] = row]
                       /\ row = [list |-> l, prop |-> q, state |-> "active",
                                 archivedAt |-> None, score |-> None, comments |-> None]
        BY <2>2, <3>1
      <3>3. row # None
        BY <3>2, NoneIsNoValue DEF ItemRow
      <3>4. row.list = l /\ row.prop = q
        BY <3>2
      <3>5. BoardView' = [BoardView EXCEPT ![l] = @ \cup {q}]
        <4>1. TypeOK
          BY DEF Core
        <4>2. ItemNew(k, l, q)
          BY <3>1, <3>2, <3>3, <3>4, <4>1 DEF ItemNew, Added, TypeOK
        <4> QED
          BY <4>1, <4>2, ItemAdded
      <3> QED
        BY <2>2, <3>5 DEF UniqueInterest
    <2> QED
      BY <1>1, <1>p, <1>l, <2>1, <2>2
  <1> HIDE DEF p
  <1>3. CASE req[r].list # None
    <2>1. UNCHANGED <<lists, members>> /\ lists[l] # None
      BY <1>1, <1>3, <1>l, EnsureListStep DEF EnsureList
    <2>2. CASE UNCHANGED BoardView
      BY <2>1, <2>2, <1>1, SameMembers, SameVisits
         DEF Board!vars, PeopleView, BoardView, PlannedView
    <2>3. CASE /\ ItemsOf(l, q) = {}
               /\ BoardView' = [BoardView EXCEPT ![l] = @ \cup {q}]
      <3>1. q \notin BoardView[l]
        BY <2>3 DEF BoardView, OnBoard
      <3>2. Board!Add(l, q)
        BY <2>1, <2>3, <3>1, <1>1, SameMembers, SameVisits
           DEF Board!Add, PeopleView, BoardView, PlannedView
      <3> QED
        BY <3>2 DEF Board!Next
    <2> QED
      BY <1>2, <2>2, <2>3
  <1>4. CASE req[r].list = None
    <2>1. PICK u \in Users : u = req[r].user
      BY <1>1, <1>4, EnsuredListView
    <2>2. /\ lists[l] = None /\ lists' = [lists EXCEPT ![l] = u]
          /\ PeopleView' = [PeopleView EXCEPT ![l] = {u}] /\ OnBoard(l) = {}
      BY <1>1, <1>4, <1>l, <2>1, EnsuredListView
    <2>3. CASE UNCHANGED BoardView
      <3>1. BoardView' = [BoardView EXCEPT ![l] = {}]
        BY <2>2, <2>3 DEF BoardView
      <3>2. Board!Open(u, l, {})
        BY <1>1, <2>2, <3>1, SameVisits DEF Board!Open, PeopleView, BoardView, PlannedView
      <3> QED
        BY <3>2 DEF Board!Next
    <2>4. CASE BoardView' = [BoardView EXCEPT ![l] = @ \cup {q}]
      <3>1. BoardView' = [BoardView EXCEPT ![l] = {q}]
        BY <2>2, <2>4 DEF BoardView
      <3>2. Board!Open(u, l, {q})
        BY <1>1, <2>2, <3>1, SameVisits DEF Board!Open, PeopleView, BoardView, PlannedView
      <3> QED
        BY <3>2 DEF Board!Next
    <2> QED
      BY <1>2, <2>3, <2>4
  <1> QED
    BY <1>3, <1>4

LEMMA ItemOnBoard ==
    ASSUME Core, NEW r \in Requests, CommitItem(r)
    PROVE  UNCHANGED Board!vars
  <1> DEFINE x == req[r]
             row == FlushedItem(items[x.item], x.old, x.new)
  <1>1. /\ items' = [items EXCEPT ![x.item] = row]
        /\ UNCHANGED <<lists, members, visits>>
        /\ x.op \in RowOps /\ x.pc = "ready"
    BY DEF CommitItem
  <1>2. /\ x.item \in ItemIds /\ items[x.item] \in ItemRow /\ x.old \in ItemRow
        /\ x.new \in ItemRow /\ items[x.item] # None
    BY <1>1 DEF Core, TypeOK, RequestsFit, RowOpFits
  <1>3. /\ row \in ItemRow /\ row.list = items[x.item].list /\ row.prop = items[x.item].prop
    BY <1>2, FlushedItemIsItem
  <1>4. row # None
    BY <1>3, NoneIsNoValue
  <1> HIDE DEF row
  <1>5. \A j \in ItemIds :
           /\ items'[j] # None <=> items[j] # None
           /\ items[j] # None =>
                 items'[j].list = items[j].list /\ items'[j].prop = items[j].prop
    BY <1>1, <1>2, <1>3, <1>4 DEF Core, TypeOK
  <1>6. UNCHANGED BoardView
    BY <1>5 DEF BoardView, OnBoard, ItemsOf
  <1> QED
    BY <1>1, <1>6, SameMembers, SameVisits DEF Board!vars, PeopleView, BoardView, PlannedView

LEMMA VisitOnBoard ==
    ASSUME Core, NEW r \in Requests, CommitVisit(r)
    PROVE  [Board!Next]_(Board!vars)
  <1> DEFINE x == req[r]
             v == x.visit
  <1>1. /\ UNCHANGED <<lists, members, items>> /\ x.op = "visit" /\ x.pc = "ready"
        /\ \/ /\ v # None
              /\ visits' = [visits EXCEPT ![v] = FlushedVisit(visits[v], x.old, x.new)]
           \/ /\ UniqueVisit(x.list, x.prop) /\ HasRoom(visits)
              /\ visits' = [visits EXCEPT ![NewKey(visits)] = x.new]
    BY DEF CommitVisit
  <1>2. VisitFits(x)
    BY DEF Core, RequestsFit
  <1> HIDE DEF x
  <1>3. PICK l \in ListIds, p \in Properties :
            l = x.list /\ p = x.prop /\ ItemsOf(l, p) # {}
    BY <1>1, <1>2 DEF VisitFits
  <1>4. CASE /\ v # None
             /\ visits' = [visits EXCEPT ![v] = FlushedVisit(visits[v], x.old, x.new)]
    <2> DEFINE row == FlushedVisit(visits[v], x.old, x.new)
    <2>1. /\ v \in VisitIds /\ visits[v] # None /\ visits[v] \in VisitRow
          /\ x.old \in VisitRow /\ x.new \in VisitRow
      BY <1>1, <1>2, <1>4 DEF VisitFits, Core, TypeOK
    <2>2. row \in VisitRow /\ row.list = visits[v].list /\ row.prop = visits[v].prop
      BY <2>1 DEF FlushedVisit, Column, VisitRow
    <2>3. row # None
      BY <2>2, NoneIsNoValue
    <2>4. visits' = [visits EXCEPT ![v] = row]
      BY <1>4
    <2> HIDE DEF row, v
    <2>5. \A w \in VisitIds :
             /\ visits'[w] # None <=> visits[w] # None
             /\ visits[w] # None =>
                   visits'[w].list = visits[w].list /\ visits'[w].prop = visits[w].prop
      BY <2>1, <2>2, <2>3, <2>4 DEF Core, TypeOK
    <2>6. UNCHANGED PlannedView
      BY <2>5 DEF PlannedView, Planned, VisitsOf
    <2> QED
      BY <1>1, <2>6, SameMembers, SameItems DEF Board!vars, PeopleView, BoardView, PlannedView
  <1>5. CASE /\ UniqueVisit(l, p) /\ HasRoom(visits)
             /\ visits' = [visits EXCEPT ![NewKey(visits)] = x.new]
    <2>1. PICK k \in VisitIds : k = NewKey(visits) /\ visits[k] = None
      BY <1>5, NewKeyIsFree DEF Core, TypeOK
    <2>2. PICK row \in VisitRow : row = x.new /\ row.list = l /\ row.prop = p
      BY <1>1, <1>2, <1>3 DEF VisitFits
    <2>3. row # None /\ visits' = [visits EXCEPT ![k] = row]
      BY <1>5, <2>1, <2>2, NoneIsNoValue
    <2> HIDE DEF v
    <2>4. PlannedView' = [PlannedView EXCEPT ![l] = @ \cup {p}]
      <3>1. TypeOK
        BY DEF Core
      <3>2. VisitNew(k, l, p)
        BY <2>1, <2>2, <2>3, <3>1 DEF VisitNew, Added, TypeOK
      <3> QED
        BY <3>1, <3>2, VisitAdded
    <2>5. p \in BoardView[l] \ PlannedView[l]
      BY <1>3, <1>5 DEF BoardView, PlannedView, OnBoard, Planned, UniqueVisit
    <2>6. Board!Plan(l, p)
      BY <1>1, <2>4, <2>5, SameMembers, SameItems
         DEF Board!Plan, PeopleView, BoardView, PlannedView
    <2> QED
      BY <2>6 DEF Board!Next
  <1> QED
    BY <1>1, <1>3, <1>4, <1>5

LEMMA InviteOnBoard ==
    ASSUME Core, NEW r \in Requests, CommitInvite(r)
    PROVE  [Board!Next]_(Board!vars)
  <1> DEFINE x == req[r]
             row == [list |-> x.list, user |-> x.who, role |-> "collaborator"]
  <1>1. /\ UNCHANGED <<lists, items, visits>> /\ x.pc = "ready" /\ x.op = "invite"
        /\ UniqueMember(x.list, x.who) /\ HasRoom(members)
        /\ members' = [members EXCEPT ![NewKey(members)] = row]
    BY DEF CommitInvite
  <1>2. PICK l \in ListIds, w \in Users : l = x.list /\ w = x.who /\ lists[l] # None
    BY <1>1, NoneIsNoValue DEF Core, TypeOK, Request, RequestsFit, OwnerOpFits, OwnerOps, ListFits
  <1>3. PICK k \in MemberIds : k = NewKey(members) /\ members[k] = None
    BY <1>1, NewKeyIsFree DEF Core, TypeOK
  <1>4. row # None /\ row.list = l /\ row.user = w /\ row.role # "deleted"
    BY <1>2, NoneIsNoValue DEF MemberRow, Roles
  <1> HIDE DEF row, x
  <1>5. PeopleView' = [PeopleView EXCEPT ![l] = @ \cup {w}]
    <2>1. TypeOK
      BY DEF Core
    <2>2. MemberNew(k, l, w)
      BY <1>1, <1>3, <1>4, <2>1 DEF MemberNew, Added, TypeOK
    <2> QED
      BY <2>1, <2>2, MemberAdded
  <1>6. w \notin PeopleView[l]
    BY <1>1, <1>2 DEF UniqueMember, PeopleView, People
  <1>7. Board!Join(l, w)
    BY <1>1, <1>2, <1>5, <1>6, SameItems, SameVisits
       DEF Board!Join, PeopleView, BoardView, PlannedView
  <1> QED
    BY <1>7 DEF Board!Next

LEMMA RemoveOnBoard ==
    ASSUME Core, NEW r \in Requests, CommitRemove(r)
    PROVE  [Board!Next]_(Board!vars)
  <1> DEFINE x == req[r]
  <1>1. /\ UNCHANGED <<lists, items, visits>> /\ x.pc = "ready" /\ x.op = "remove"
        /\ members' = [members EXCEPT ![x.member].role = "deleted"]
    BY DEF CommitRemove
  <1>2. PICK k \in MemberIds : /\ k = x.member /\ members[k] # None
                               /\ members[k] \in MemberRow /\ members[k].role # "owner"
    BY <1>1 DEF Core, TypeOK, RequestsFit, OwnerOpFits, OwnerOps
  <1>3. PICK l \in ListIds, u \in Users : l = members[k].list /\ u = members[k].user
    BY <1>2 DEF MemberRow
  <1> HIDE DEF x
  <1>4. /\ members'[k].role = "deleted"
        /\ \A n \in MemberIds \ {k} : members'[n] = members[n]
    BY <1>1, <1>2 DEF Core, TypeOK, MemberRow
  <1>5. \A n \in MemberIds :
           /\ Live(n)' <=> (Live(n) /\ n # k)
           /\ Live(n)' => members'[n] = members[n]
    BY <1>4 DEF Live
  <1>6. CASE ~Live(k)
    <2>1. UNCHANGED PeopleView
      BY <1>5, <1>6 DEF PeopleView, People, IsMember, Membership
    <2> QED
      BY <1>1, <2>1, SameItems, SameVisits DEF Board!vars, PeopleView, BoardView, PlannedView
  <1>7. CASE Live(k)
    <2>1. ASSUME NEW j \in ListIds, NEW w \in Users
          PROVE  IsMember(j, w)' <=> (IsMember(j, w) /\ ~(j = l /\ w = u))
      <3>1. IsMember(j, w)' <=>
               \E n \in MemberIds : /\ Live(n) /\ n # k
                                    /\ members[n].list = j /\ members[n].user = w
        BY <1>5 DEF IsMember, Membership
      <3>2. IsMember(j, w) <=>
               \E n \in MemberIds : Live(n) /\ members[n].list = j /\ members[n].user = w
        BY DEF IsMember, Membership
      <3>3. \A n \in MemberIds : (Live(n) /\ members[n].list = l /\ members[n].user = u) => n = k
        BY <1>3, <1>7 DEF Core, NoDuplicateRows
      <3> QED
        BY <1>3, <3>1, <3>2, <3>3
    <2>2. ASSUME NEW j \in ListIds
          PROVE  People(j)' = IF j = l THEN People(j) \ {u} ELSE People(j)
      BY <2>1 DEF People
    <2>3. PeopleView' = [PeopleView EXCEPT ![l] = @ \ {u}]
      BY <2>2 DEF PeopleView
    <2>4. u \in PeopleView[l]
      BY <1>3, <1>7 DEF PeopleView, People, IsMember, Membership
    <2>5. u # lists[l]
      <3>1. lists[l] # None
        BY <1>3, <1>7 DEF Core, ListHasItsOwner
      <3>2. IsOwner(l, lists[l])
        BY <3>1 DEF Core, ListHasItsOwner
      <3>3. PICK n \in MemberIds : /\ Live(n) /\ members[n].list = l
                                   /\ members[n].user = lists[l] /\ members[n].role = "owner"
        BY <3>2 DEF IsOwner, Membership
      <3> QED
        BY <1>2, <1>3, <1>7, <3>3 DEF Core, NoDuplicateRows
    <2>6. Board!Leave(l, u)
      BY <1>1, <2>3, <2>4, <2>5, SameItems, SameVisits
         DEF Board!Leave, PeopleView, BoardView, PlannedView
    <2> QED
      BY <2>6 DEF Board!Next
  <1> QED
    BY <1>6, <1>7

-----------------------------------------------------------------------------
LEMMA BoardInit == Init => Board!Init
  BY DEF Init, Board!Init, People, OnBoard, Planned, IsMember, Membership, Live, ItemsOf,
         VisitsOf

LEMMA BoardStep == Core /\ [Next]_vars => [Board!Next]_(Board!vars)
  <1> SUFFICES ASSUME Core, [Next]_vars PROVE [Board!Next]_(Board!vars)
    OBVIOUS
  <1>1. ASSUME NEW r \in Requests, Resolve(r) \/ Lookup(r) \/ Abort(r)
        PROVE  UNCHANGED db
    BY <1>1, ReadsOnly
  <1>2. ASSUME NEW r \in Requests, Commit(r)
        PROVE  [Board!Next]_(Board!vars)
    BY <1>2, OpenOnBoard, InterestOnBoard, ItemOnBoard, VisitOnBoard, InviteOnBoard,
       RemoveOnBoard DEF Commit
  <1>3. ASSUME NEW p \in Properties, StoreListing(p)
        PROVE  UNCHANGED Board!vars
    BY <1>3, SameDb DEF StoreListing
  <1>4. CASE UNCHANGED db
    BY <1>4, SameDb DEF db
  <1>5. CASE UNCHANGED vars
    BY <1>5, SameDb DEF vars
  <1> QED
    BY <1>1, <1>2, <1>3, <1>4, <1>5 DEF Next

\* The transactions of the API implement the one-step changes of ListBoard:
\* whatever other requests read or write between a handler's check and its
\* commit, a list gains people and properties once, keeps its owner, and plans
\* visits to what is on its board.
THEOREM HandlersImplementBoard == Spec => ImplementsBoard
  BY CoreInvariance, BoardInit, BoardStep, PTL DEF Spec, ImplementsBoard, Board!Spec
=============================================================================
