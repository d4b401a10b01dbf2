------------------------- MODULE SharedListsProofs -------------------------
(***************************************************************************)
(* What holds of SharedLists for any users, properties, request slots and  *)
(* keys.  The invariant the proofs go by is Core: the properties themselves *)
(* and, in RequestsFit, what a request in flight may still rely on of what *)
(* it read: rows do not move to another list or property, items and visits *)
(* are not deleted, an owner stays an owner, and a membership that is      *)
(* about to be deleted is not the owner's.                                 *)
(***************************************************************************)
EXTENDS SharedLists, TLAPS

\* The list of a request in flight exists, unless the request is making it.
ListFits(q) ==
    q.pc # "idle" =>
        /\ q.user \in Users
        /\ q.op # "none"
        /\ q.pc = "loaded" => q.op \in RowOps
        /\ IF q.list = None THEN q.op \in DefaultOps ELSE lists[q.list] # None

\* Inviting and removing is done by the owner; the row to delete is another's.
OwnerOpFits(q) ==
    (q.op \in OwnerOps /\ q.pc # "idle") =>
        /\ q.list \in ListIds /\ lists[q.list] = q.user
        /\ q.pc = "ready" /\ q.op = "invite" => q.who \in Users
        /\ q.pc = "ready" /\ q.op = "remove" =>
              /\ q.member \in MemberIds /\ members[q.member] # None
              /\ members[q.member].list = q.list
              /\ members[q.member].role # "owner"

\* The item to patch, archive or restore is where it was loaded from.
RowOpFits(q) ==
    (q.op \in RowOps /\ q.pc # "idle") =>
        /\ q.item \in ItemIds /\ items[q.item] # None
        /\ items[q.item].list = q.list
        /\ q.old \in ItemRow
        /\ q.pc = "ready" => q.new \in ItemRow

\* The item to add is of a known property, and the item found is still there.
InterestFits(q) ==
    (q.op \in {"create", "external"} /\ q.pc # "idle") =>
        /\ q.pc = "ready" => q.prop \in Properties
        /\ q.item # None => items[q.item] # None

\* The visit to write is to a property of the list's, in the row that was found.
VisitFits(q) ==
    (q.op = "visit" /\ q.pc = "ready") =>
        /\ q.prop \in Properties /\ q.list \in ListIds
        /\ ItemsOf(q.list, q.prop) # {}
        /\ q.new \in VisitRow
        /\ q.new.list = q.list /\ q.new.prop = q.prop
        /\ q.visit # None =>
              /\ q.visit \in VisitIds /\ visits[q.visit] # None
              /\ visits[q.visit].list = q.list /\ visits[q.visit].prop = q.prop
              /\ q.old \in VisitRow

\* Items and visits are in lists that exist.
ItemsHaveList == \A i \in ItemIds : items[i] # None => lists[items[i].list] # None

VisitsHaveList == \A v \in VisitIds : visits[v] # None => lists[visits[v].list] # None

RequestsFit ==
    \A r \in Requests :
        /\ ListFits(req[r])
        /\ OwnerOpFits(req[r])
        /\ RowOpFits(req[r])
        /\ InterestFits(req[r])
        /\ VisitFits(req[r])

\* A request past its membership check is a member's, or was overtaken by the
\* removal of its user.
RequestsEntitled ==
    \A r \in Requests :
        (req[r].pc \in {"resolved", "ready"} /\ req[r].list # None)
            => (IsMember(req[r].list, req[r].user) \/ req[r].overtaken)

Core ==
    /\ TypeOK
    /\ ListHasItsOwner
    /\ NoDuplicateRows
    /\ ItemsHaveList
    /\ VisitsHaveList
    /\ RequestsFit
    /\ RequestsEntitled

Inv == Core /\ VisitsHaveInterest

\* The visits that a migration brings may be to properties without interest, so
\* no other part of the invariant may rest on VisitsHaveInterest.
Preserved == Core' /\ (VisitsHaveInterest => VisitsHaveInterest')

-----------------------------------------------------------------------------
\* What the invariant asks of one request.
Fits(q) ==
    /\ q \in Request
    /\ ListFits(q) /\ OwnerOpFits(q) /\ RowOpFits(q)
    /\ InterestFits(q) /\ VisitFits(q)
    /\ (q.pc \in {"resolved", "ready"} /\ q.list # None)
           => (IsMember(q.list, q.user) \/ q.overtaken)

\* An idle slot is a request that fits.
LEMMA NoRequestFits == Fits(NoRequest)
  BY DEF Fits, NoRequest, Request, ListFits, OwnerOpFits, RowOpFits, InterestFits,
         VisitFits, DefaultOps, OwnerOps, RowOps

\* A step that only changes one request, into one that fits, keeps the
\* invariant.
LEMMA SlotStep ==
    ASSUME Core, UNCHANGED db, NEW r \in Requests,
           req' \in [Requests -> Request],
           \A x \in Requests \ {r} : req'[x] = req[x],
           Fits(req'[r])
    PROVE  Preserved
  <1>1. TypeOK'
    BY DEF Core, TypeOK, db
  <1>2. /\ ListHasItsOwner' /\ NoDuplicateRows' /\ (VisitsHaveInterest => VisitsHaveInterest')
        /\ ItemsHaveList' /\ VisitsHaveList'
    BY DEF Core, ListHasItsOwner, ItemsHaveList, VisitsHaveList, NoDuplicateRows, VisitsHaveInterest, Live,
           IsOwner, Membership, ItemsOf, db
  <1>3. RequestsFit'
    BY DEF Core, RequestsFit, Fits, ListFits, OwnerOpFits, RowOpFits, InterestFits,
           VisitFits, ItemsOf, db
  <1>4. RequestsEntitled'
    BY DEF Core, RequestsEntitled, Fits, IsMember, Membership, Live, db
  <1>5. QED
    BY <1>1, <1>2, <1>3, <1>4 DEF Core, Preserved

\* The same for a step that starts or ends a request.
LEMMA ReadStep ==
    ASSUME Core, UNCHANGED db, NEW r \in Requests, NEW q, Fits(q),
           req' = [req EXCEPT ![r] = q]
    PROVE  Preserved
  BY SlotStep DEF Core, TypeOK, Fits

-----------------------------------------------------------------------------
(* The steps that only read.                                               *)

LEMMA ResolveStep ==
    ASSUME Core, NEW r \in Requests, Resolve(r)
    PROVE  Preserved
  <1> USE NoneIsNoValue
  <1>1. ASSUME NEW u \in Users, NEW op \in DefaultOps, ResolveDefault(r, u, op)
        PROVE  Preserved
    <2>1. ASSUME NEW l \in ListIds \cup {None}, Begin(r, "resolved", op, u, l),
                 l # None => lists[l] = u
          PROVE  Preserved
      <3> DEFINE q == [NoRequest EXCEPT !.pc = "resolved", !.op = op, !.user = u, !.list = l]
      <3>1. l # None => IsMember(l, u)
        BY <2>1 DEF Core, ListHasItsOwner, IsOwner, IsMember, Membership
      <3>2. Fits(q)
        BY <2>1, <3>1 DEF Fits, NoRequest, Request, ListFits, OwnerOpFits, RowOpFits,
               InterestFits, VisitFits, DefaultOps, OwnerOps, RowOps
      <3> QED
        BY <2>1, <3>2, ReadStep DEF Begin
    <2> QED
      BY <1>1, <2>1 DEF ResolveDefault, Owned
  <1>2. ASSUME NEW u \in Users, NEW op \in ListedOps, NEW l \in ListIds,
               ResolveListed(r, u, op, l)
        PROVE  Preserved
    <2> DEFINE q == [NoRequest EXCEPT !.pc = "resolved", !.op = op, !.user = u, !.list = l]
    <2>1. IsMember(l, u) /\ lists[l] # None
      BY <1>2 DEF ResolveListed, Core, ListHasItsOwner, IsMember, Membership, Live
    <2>2. Fits(q)
      BY <2>1 DEF Fits, NoRequest, Request, ListFits, OwnerOpFits, RowOpFits,
             InterestFits, VisitFits, ListedOps, DefaultOps, OwnerOps, RowOps
    <2> QED
      BY <1>2, <2>2, ReadStep DEF ResolveListed, Begin
  <1>3. ASSUME NEW u \in Users, NEW op \in OwnerOps, NEW l \in ListIds,
               ResolveOwner(r, u, op, l)
        PROVE  Preserved
    <2> DEFINE q == [NoRequest EXCEPT !.pc = "resolved", !.op = op, !.user = u, !.list = l]
    <2>1. IsMember(l, u) /\ lists[l] = u
      BY <1>3 DEF ResolveOwner, Core, ListHasItsOwner, IsOwner, IsMember, Membership, Live
    <2>2. Fits(q)
      BY <2>1 DEF Fits, NoRequest, Request, ListFits, OwnerOpFits, RowOpFits,
             InterestFits, VisitFits, DefaultOps, OwnerOps, RowOps
    <2> QED
      BY <1>3, <2>2, ReadStep DEF ResolveOwner, Begin
  <1>4. ASSUME NEW u \in Users, NEW op \in RowOps, NEW i \in ItemIds,
               LoadItem(r, u, op, i)
        PROVE  Preserved
    <2> DEFINE q == [NoRequest EXCEPT !.pc = "loaded", !.op = op, !.user = u,
                         !.list = items[i].list, !.item = i, !.old = items[i]]
    <2>1. items[i] \in ItemRow /\ lists[items[i].list] # None
      BY <1>4 DEF LoadItem, Core, TypeOK, ItemsHaveList
    <2>2. Fits(q)
      BY <2>1, <1>4 DEF LoadItem, Fits, NoRequest, Request, ItemRow, ListFits, OwnerOpFits,
             RowOpFits, InterestFits, VisitFits, DefaultOps, OwnerOps, RowOps
    <2> QED
      BY <1>4, <2>2, ReadStep DEF LoadItem
  <1> QED
    BY <1>1, <1>2, <1>3, <1>4 DEF Resolve

\* What the invariant says of the request in slot r.
LEMMA SlotFits ==
    ASSUME Core, NEW r \in Requests
    PROVE  Fits(req[r])
  BY DEF Core, TypeOK, Fits, RequestsFit, RequestsEntitled

LEMMA EditKeepsList ==
    ASSUME NEW row \in ItemRow, NEW op, NEW new, Edit(op, row, new)
    PROVE  new.list = row.list
  BY DEF Edit, Patched, Archived, Restored, ItemRow

\* Giving a field of a request a value of its type makes a request.
LEMMA FieldsOfRequests ==
    ASSUME NEW x \in Request
    PROVE  /\ [x EXCEPT !.pc = "ready"] \in Request
           /\ \A p \in Properties : [x EXCEPT !.prop = p] \in Request
           /\ \A b \in BOOLEAN : [x EXCEPT !.newProp = b] \in Request
           /\ \A b \in BOOLEAN : [x EXCEPT !.overtaken = b] \in Request
           /\ \A i \in ItemIds \cup {None} : [x EXCEPT !.item = i] \in Request
           /\ \A v \in VisitIds \cup {None} : [x EXCEPT !.visit = v] \in Request
           /\ \A m \in MemberIds : [x EXCEPT !.member = m] \in Request
           /\ \A u \in Users : [x EXCEPT !.who = u] \in Request
           /\ \A o \in ItemRow \cup VisitRow \cup {None} : [x EXCEPT !.old = o] \in Request
           /\ \A n \in ItemRow \cup VisitRow : [x EXCEPT !.new = n] \in Request
  <1>1. [x EXCEPT !.pc = "ready"] \in Request
    BY DEF Request
  <1>2. ASSUME NEW p \in Properties PROVE [x EXCEPT !.prop = p] \in Request
    BY DEF Request
  <1>3. ASSUME NEW b \in BOOLEAN PROVE [x EXCEPT !.newProp = b] \in Request
    BY DEF Request
  <1>4. ASSUME NEW b \in BOOLEAN PROVE [x EXCEPT !.overtaken = b] \in Request
    BY DEF Request
  <1>5. ASSUME NEW i \in ItemIds \cup {None} PROVE [x EXCEPT !.item = i] \in Request
    BY DEF Request
  <1>6. ASSUME NEW v \in VisitIds \cup {None} PROVE [x EXCEPT !.visit = v] \in Request
    BY DEF Request
  <1>7. ASSUME NEW m \in MemberIds PROVE [x EXCEPT !.member = m] \in Request
    BY DEF Request
  <1>8. ASSUME NEW u \in Users PROVE [x EXCEPT !.who = u] \in Request
    BY DEF Request
  <1>9. ASSUME NEW o \in ItemRow \cup VisitRow \cup {None}
        PROVE  [x EXCEPT !.old = o] \in Request
    BY DEF Request
  <1>10. ASSUME NEW n \in ItemRow \cup VisitRow PROVE [x EXCEPT !.new = n] \in Request
    BY DEF Request
  <1> QED
    BY <1>1, <1>2, <1>3, <1>4, <1>5, <1>6, <1>7, <1>8, <1>9, <1>10

\* q is request x made ready, for the same user and list.
Readied(q, x) ==
    /\ q.pc = "ready"
    /\ q.op = x.op /\ q.user = x.user /\ q.list = x.list /\ q.overtaken = x.overtaken

LEMMA LookupStep ==
    ASSUME Core, NEW r \in Requests, Lookup(r)
    PROVE  Preserved
  <1> DEFINE x == req[r]
  <1>x. Fits(x)
    BY SlotFits
  <1>t. x \in Request
    BY <1>x DEF Fits
  <1> HIDE DEF x
  <1>1. CASE AuthorizeItem(r)
    <2> PICK row \in ItemRow :
             /\ Edit(req[r].op, req[r].old, row)
             /\ Prepare(r, [req[r] EXCEPT !.pc = "ready", !.new = row])
      BY <1>1 DEF AuthorizeItem
    <2> DEFINE q == [x EXCEPT !.pc = "ready", !.new = row]
    <2>1. q \in Request
      BY <1>t, FieldsOfRequests
    <2>2. Readied(q, x) /\ q.item = x.item /\ q.old = x.old /\ q.new = row
      BY <1>t DEF Readied, Request
    <2> HIDE DEF q
    <2>3. x.pc = "loaded" /\ IsMember(x.list, x.user)
      BY <1>1 DEF AuthorizeItem, x
    <2>4. Fits(q)
      BY <1>x, <2>1, <2>2, <2>3 DEF Readied, Fits, ListFits,
             OwnerOpFits, RowOpFits, InterestFits, VisitFits, OwnerOps, RowOps
    <2> QED
      BY <2>4, ReadStep DEF Prepare, x, q
  <1>2. ASSUME NEW p \in Properties, LookupCreate(r, p)
        PROVE  Preserved
    <2> DEFINE q == [x EXCEPT !.pc = "ready", !.prop = p]
    <2>1. q \in Request
      BY <1>t, FieldsOfRequests
    <2>2. Readied(q, x) /\ q.prop = p /\ q.item = x.item
      BY <1>t DEF Readied, Request
    <2> HIDE DEF q
    <2>3. x.pc = "resolved" /\ x.op = "create"
      BY <1>2 DEF LookupCreate, x
    <2>4. Fits(q)
      BY <1>x, <2>1, <2>2, <2>3 DEF Readied, Fits, ListFits,
             OwnerOpFits, RowOpFits, InterestFits, VisitFits, OwnerOps, RowOps
    <2> QED
      BY <1>2, <2>4, ReadStep DEF LookupCreate, Prepare, x, q
  <1>3. ASSUME NEW p \in Properties, LookupExternal(r, p)
        PROVE  Preserved
    <2> DEFINE b == p \notin catalog
               i == OneOrNone(ItemsOf(req[r].list, p))
               q == [x EXCEPT !.pc = "ready", !.prop = p, !.newProp = b, !.item = i]
    <2>1. i # None => i \in ItemIds /\ items[i] # None
      BY DEF OneOrNone, ItemsOf
    <2>2. Prepare(r, q) /\ x.pc = "resolved" /\ x.op = "external"
      BY <1>3 DEF LookupExternal, x
    <2> HIDE DEF i
    <2>b. b \in BOOLEAN
      OBVIOUS
    <2> HIDE DEF b
    <2>3. q \in Request
      BY <1>t, <2>1, <2>b, FieldsOfRequests
    <2>4. Readied(q, x) /\ q.prop = p /\ q.item = i
      BY <1>t DEF Readied, Request
    <2> HIDE DEF q
    <2>5. Fits(q)
      BY <1>x, <2>1, <2>2, <2>3, <2>4 DEF Readied, Fits, ListFits,
             OwnerOpFits, RowOpFits, InterestFits, VisitFits, OwnerOps, RowOps
    <2> QED
      BY <2>2, <2>5, ReadStep DEF Prepare
  <1>4. ASSUME NEW p \in Properties, NEW s \in Statuses, NEW t \in Times \cup {None},
               LookupVisit(r, p, s, t)
        PROVE  Preserved
    <2> DEFINE v   == OneOrNone(VisitsOf(req[r].list, p))
               old == IF v = None THEN None ELSE visits[v]
               new == IF v = None
                        THEN [list |-> req[r].list, prop |-> p, status |-> s, at |-> t]
                        ELSE Rescheduled(visits[v], s, t)
               q   == [x EXCEPT !.pc = "ready", !.prop = p, !.visit = v,
                                !.old = old, !.new = new]
    <2>1. v # None => /\ v \in VisitIds /\ visits[v] \in VisitRow /\ visits[v] # None
                      /\ visits[v].list = req[r].list /\ visits[v].prop = p
      BY DEF OneOrNone, VisitsOf, Core, TypeOK
    <2>2. req[r].list \in ListIds /\ ItemsOf(req[r].list, p) # {}
      BY <1>4 DEF LookupVisit, InterestInList, ItemsOf, Core, TypeOK, ItemRow
    <2>3. Prepare(r, q) /\ x.pc = "resolved" /\ x.op = "visit"
      BY <1>4 DEF LookupVisit, x
    <2> HIDE DEF v
    <2>4. new \in VisitRow /\ new.list = req[r].list /\ new.prop = p
      BY <2>1, <2>2 DEF Rescheduled, VisitRow
    <2>5. old \in VisitRow \cup {None} /\ (v # None => old \in VisitRow)
      BY <2>1
    <2> HIDE DEF new, old
    <2>6. q \in Request
      BY <1>t, <2>1, <2>4, <2>5, FieldsOfRequests
    <2>7. /\ Readied(q, x) /\ q.prop = p /\ q.visit = v /\ q.old = old
          /\ q.new = new
      BY <1>t DEF Readied, Request
    <2> HIDE DEF q
    <2>8. Fits(q)
      BY <1>x, <2>1, <2>2, <2>3, <2>4, <2>5, <2>6, <2>7 DEF Readied, Fits, ListFits,
             OwnerOpFits, RowOpFits, InterestFits, VisitFits, OwnerOps, RowOps, x
    <2> QED
      BY <2>3, <2>8, ReadStep DEF Prepare
  <1>5. ASSUME NEW w \in Users, LookupInvite(r, w)
        PROVE  Preserved
    <2> DEFINE q == [x EXCEPT !.pc = "ready", !.who = w]
    <2>1. q \in Request
      BY <1>t, FieldsOfRequests
    <2>2. Readied(q, x) /\ q.who = w
      BY <1>t DEF Readied, Request
    <2>3. Prepare(r, q) /\ x.pc = "resolved" /\ x.op = "invite"
      BY <1>5 DEF LookupInvite, x
    <2> HIDE DEF q
    <2>4. Fits(q)
      BY <1>x, <2>1, <2>2, <2>3 DEF Readied, Fits, ListFits,
             OwnerOpFits, RowOpFits, InterestFits, VisitFits, OwnerOps, RowOps
    <2> QED
      BY <2>3, <2>4, ReadStep DEF Prepare
  <1>6. ASSUME NEW m \in MemberIds, LookupRemove(r, m)
        PROVE  Preserved
    <2> DEFINE q == [x EXCEPT !.pc = "ready", !.member = m]
    <2>1. q \in Request
      BY <1>t, FieldsOfRequests
    <2>2. Readied(q, x) /\ q.member = m
      BY <1>t DEF Readied, Request
    <2>3. /\ Prepare(r, q) /\ x.pc = "resolved" /\ x.op = "remove"
          /\ members[m] # None /\ members[m].list = x.list
          /\ members[m].role # "owner"
      BY <1>6 DEF LookupRemove, Live, x
    <2> HIDE DEF q
    <2>4. Fits(q)
      BY <1>x, <2>1, <2>2, <2>3 DEF Readied, Fits, ListFits,
             OwnerOpFits, RowOpFits, InterestFits, VisitFits, OwnerOps, RowOps
    <2> QED
      BY <2>3, <2>4, ReadStep DEF Prepare
  <1> QED
    BY <1>1, <1>2, <1>3, <1>4, <1>5, <1>6 DEF Lookup

-----------------------------------------------------------------------------
(* The steps that write.                                                   *)

\* Lists and rows are added and changed; they do not move or vanish.
ListsGrow   == \A l \in ListIds : lists[l] # None => lists'[l] = lists[l]
MembersGrow ==
    \A m \in MemberIds : members[m] # None =>
        /\ members'[m] # None
        /\ members'[m].list = members[m].list /\ members'[m].user = members[m].user
        /\ members'[m].role \in {members[m].role, "deleted"}
ItemsGrow ==
    \A i \in ItemIds : items[i] # None =>
        /\ items'[i] # None
        /\ items'[i].list = items[i].list /\ items'[i].prop = items[i].prop
VisitsGrow ==
    \A v \in VisitIds : visits[v] # None =>
        /\ visits'[v] # None
        /\ visits'[v].list = visits[v].list /\ visits'[v].prop = visits[v].prop

\* The request in slot x goes on; it may be noted as overtaken.
GoesOn(x) ==
    /\ req'[x].pc = req[x].pc /\ req'[x].op = req[x].op /\ req'[x].user = req[x].user
    /\ req'[x].list = req[x].list /\ req'[x].prop = req[x].prop
    /\ req'[x].item = req[x].item /\ req'[x].visit = req[x].visit
    /\ req'[x].member = req[x].member /\ req'[x].who = req[x].who
    /\ req'[x].old = req[x].old /\ req'[x].new = req[x].new

\* What a request relies on survives such a step.
LEMMA OthersFit ==
    ASSUME Core, ListsGrow, MembersGrow, ItemsGrow, VisitsGrow,
           NEW x \in Requests, GoesOn(x)
    PROVE  (/\ ListFits(req[x]) /\ OwnerOpFits(req[x]) /\ RowOpFits(req[x])
            /\ InterestFits(req[x]) /\ VisitFits(req[x]))'
  <1> DEFINE q == req[x]
             p == req'[x]
  <1>1. Fits(q)
    BY SlotFits
  <1>2. /\ p.pc = q.pc /\ p.op = q.op /\ p.user = q.user /\ p.list = q.list
        /\ p.prop = q.prop /\ p.item = q.item /\ p.visit = q.visit
        /\ p.member = q.member /\ p.who = q.who /\ p.old = q.old /\ p.new = q.new
    BY DEF GoesOn
  <1>3. /\ p.list # None => p.list \in ListIds
        /\ p.item # None => p.item \in ItemIds
    BY <1>1, <1>2 DEF Fits, Request
  <1>4. \A l \in ListIds, y \in Properties : ItemsOf(l, y) # {} => ItemsOf(l, y)' # {}
    BY DEF ItemsGrow, ItemsOf
  <1> HIDE DEF q, p
  <1>5. ListFits(q) /\ OwnerOpFits(q) /\ RowOpFits(q) /\ InterestFits(q) /\ VisitFits(q)
    BY <1>1 DEF Fits
  <1>6. ListFits(req[x])'
    BY <1>2, <1>3, <1>5 DEF ListFits, ListsGrow, p
  <1>7. OwnerOpFits(req[x])'
    BY <1>2, <1>3, <1>5, NoneIsNoValue DEF OwnerOpFits, ListFits, ListsGrow, MembersGrow, p
  <1>8. RowOpFits(req[x])'
    BY <1>2, <1>3, <1>5 DEF RowOpFits, ItemsGrow, p
  <1>9. InterestFits(req[x])'
    BY <1>2, <1>3, <1>5 DEF InterestFits, ItemsGrow, p
  <1>10. VisitFits(req[x])'
    BY <1>2, <1>4, <1>5 DEF VisitFits, VisitsGrow, p
  <1> QED
    BY <1>6, <1>7, <1>8, <1>9, <1>10

\* So a commit that ends its own request keeps RequestsFit.
LEMMA FinishFits ==
    ASSUME Core, ListsGrow, MembersGrow, ItemsGrow, VisitsGrow,
           NEW r \in Requests, Finish(r)
    PROVE  req' \in [Requests -> Request] /\ RequestsFit'
  <1>1. req' \in [Requests -> Request]
    BY NoRequestFits DEF Finish, Fits, Core, TypeOK
  <1>2. ASSUME NEW x \in Requests
        PROVE  (/\ ListFits(req[x]) /\ OwnerOpFits(req[x]) /\ RowOpFits(req[x])
                /\ InterestFits(req[x]) /\ VisitFits(req[x]))'
    <2>1. CASE x = r
      <3>1. req'[x].pc = "idle" /\ req'[x].item = None
        BY <2>1 DEF Finish, Core, TypeOK, NoRequest
      <3> QED
        BY <3>1 DEF ListFits, OwnerOpFits, RowOpFits, InterestFits, VisitFits
    <2>2. CASE x # r
      BY <2>2, OthersFit DEF Finish, GoesOn, Core, TypeOK
    <2> QED
      BY <2>1, <2>2
  <1> QED
    BY <1>1, <1>2 DEF RequestsFit

\* And RequestsEntitled, as long as nobody loses a membership.
LEMMA FinishEntitled ==
    ASSUME Core, NEW r \in Requests, Finish(r),
           \A l \in ListIds, u \in Users : IsMember(l, u) => IsMember(l, u)'
    PROVE  RequestsEntitled'
  <1> SUFFICES ASSUME NEW x \in Requests,
                      req'[x].pc \in {"resolved", "ready"}, req'[x].list # None
               PROVE  IsMember(req[x].list, req[x].user)' \/ req'[x].overtaken
    BY DEF RequestsEntitled
  <1>1. req'[x] = req[x]
    BY DEF Finish, NoRequest, Core, TypeOK
  <1>2. req[x].list \in ListIds /\ req[x].user \in Users
    BY <1>1 DEF Core, TypeOK, Request, RequestsFit, ListFits
  <1> QED
    BY <1>1, <1>2 DEF Core, RequestsEntitled

LEMMA NewKeyIsFree ==
    ASSUME NEW table, HasRoom(table)
    PROVE  NewKey(table) \in DOMAIN table /\ table[NewKey(table)] = None
  BY DEF HasRoom, NewKey

\* Making the default list keeps what the invariant says of lists and members.
LEMMA EnsureListStep ==
    ASSUME Core, NEW r \in Requests, req[r].pc # "idle", EnsureList(r)
    PROVE  /\ lists' \in [ListIds -> Users \cup {None}]
           /\ members' \in [MemberIds -> MemberRow \cup {None}]
           /\ ListsGrow /\ MembersGrow /\ ListHasItsOwner'
           /\ \A m, n \in MemberIds :
                  (/\ Live(m)' /\ Live(n)' /\ members'[m].list = members'[n].list
                   /\ members'[m].user = members'[n].user) => m = n
           /\ \A l \in ListIds, u \in Users : IsMember(l, u) => IsMember(l, u)'
           /\ EnsuredList(r) \in ListIds /\ lists'[EnsuredList(r)] # None
  <1> DEFINE u == req[r].user
             l == EnsuredList(r)
  <1>u. u \in Users
    BY DEF Core, RequestsFit, ListFits
  <1>1. CASE req[r].list # None
    <2>1. UNCHANGED <<lists, members>> /\ l = req[r].list
      BY <1>1 DEF EnsureList, EnsuredList
    <2>2. l \in ListIds /\ lists[l] # None
      BY <1>1, <2>1 DEF Core, TypeOK, Request, RequestsFit, ListFits
    <2> HIDE DEF l
    <2> QED
      BY <2>1, <2>2, <1>1 DEF l, Core, TypeOK, ListsGrow, MembersGrow, ListHasItsOwner,
             NoDuplicateRows, IsOwner, IsMember, Membership, Live, MemberRow
  <1>2. CASE req[r].list = None
    <2> DEFINE row == [list |-> l, user |-> u, role |-> "owner"]
    <2>1. l \in ListIds /\ lists[l] = None
      BY <1>2, NewKeyIsFree DEF EnsureList, EnsuredList, Core, TypeOK
    <2>2. PICK k \in MemberIds : k = NewKey(members) /\ members[k] = None
      BY <1>2, NewKeyIsFree DEF EnsureList, InsertList, Core, TypeOK
    <2>3. /\ lists' = [lists EXCEPT ![l] = u]
          /\ members' = [members EXCEPT ![k] = row]
      BY <1>2, <2>2 DEF EnsureList, EnsuredList, InsertList
    <2>4. row \in MemberRow /\ row # None /\ row.list = l /\ row.user = u /\ row.role = "owner"
      BY <2>1, <1>u, NoneIsNoValue DEF MemberRow, Roles
    <2> HIDE DEF l, row
    <2>5. /\ lists' \in [ListIds -> Users \cup {None}]
          /\ members' \in [MemberIds -> MemberRow \cup {None}]
      BY <2>1, <2>2, <2>3, <2>4, <1>u DEF Core, TypeOK
    <2>6. /\ lists'[l] = u /\ members'[k] = row
          /\ \A j \in ListIds \ {l} : lists'[j] = lists[j]
          /\ \A m \in MemberIds \ {k} : members'[m] = members[m]
      BY <2>1, <2>2, <2>3 DEF Core, TypeOK
    <2> HIDE DEF u
    <2>7. ListsGrow /\ MembersGrow
      BY <2>1, <2>2, <2>6 DEF ListsGrow, MembersGrow
    <2>8. \A m \in MemberIds : Live(m) => members[m].list # l
      BY <2>1 DEF Core, ListHasItsOwner
    <2>9. /\ Live(k)' /\ \A m \in MemberIds \ {k} : Live(m)' <=> Live(m)
      BY <2>4, <2>6 DEF Live
    <2>10. ListHasItsOwner'
      <3> SUFFICES ASSUME NEW j \in ListIds
                   PROVE  (IF lists[j] = None
                             THEN \A m \in MemberIds : Live(m) => members[m].list # j
                             ELSE /\ IsOwner(j, lists[j])
                                  /\ \A m \in MemberIds :
                                        (/\ Live(m) /\ members[m].list = j
                                         /\ members[m].role = "owner")
                                            => members[m].user = lists[j])'
        BY DEF ListHasItsOwner, IsOwner, Membership
      <3>1. CASE j = l
        <4>1. lists'[j] = u /\ lists'[j] # None
          BY <3>1, <2>6, <1>u, NoneIsNoValue
        <4>2. IsOwner(j, lists[j])'
          <5>1. k \in MemberIds /\ Live(k)' /\ members'[k].list = j
                /\ members'[k].user = lists'[j] /\ members'[k].role = "owner"
            BY <3>1, <4>1, <2>2, <2>4, <2>6, <2>9
          <5> QED
            BY <5>1 DEF IsOwner, Membership
        <4>3. \A m \in MemberIds : (Live(m)' /\ members'[m].list = j) => members'[m].user = u
          BY <3>1, <2>4, <2>6, <2>8, <2>9
        <4> QED
          BY <4>1, <4>2, <4>3
      <3>2. CASE j # l
        <4>1. lists'[j] = lists[j]
          BY <3>2, <2>6
        <4>2. \A m \in MemberIds : (Live(m)' /\ members'[m].list = j) =>
                  (m # k /\ Live(m) /\ members[m] = members'[m])
          BY <3>2, <2>4, <2>6, <2>9
        <4>3. \A m \in MemberIds : Live(m) => (Live(m)' /\ members[m] = members'[m])
          BY <2>2, <2>6, <2>9 DEF Live
        <4> QED
          BY <4>1, <4>2, <4>3 DEF Core, ListHasItsOwner, IsOwner, Membership
      <3> QED
        BY <3>1, <3>2
    <2>11. \A m, n \in MemberIds :
               (/\ Live(m)' /\ Live(n)' /\ members'[m].list = members'[n].list
                /\ members'[m].user = members'[n].user) => m = n
      BY <2>4, <2>6, <2>8, <2>9 DEF Core, NoDuplicateRows
    <2>12. ASSUME NEW j \in ListIds, NEW w \in Users, IsMember(j, w)
           PROVE  IsMember(j, w)'
      BY <2>12, <2>2, <2>6, <2>9 DEF IsMember, Membership, Live
    <2>13. lists'[l] # None
      BY <2>6, <1>u, NoneIsNoValue
    <2> QED
      BY <2>1, <2>5, <2>7, <2>10, <2>11, <2>12, <2>13 DEF l
  <1> QED
    BY <1>1, <1>2

LEMMA CommitOpenStep ==
    ASSUME Core, NEW r \in Requests, CommitOpen(r)
    PROVE  Preserved
  <1>1. EnsureList(r) /\ Finish(r) /\ UNCHANGED <<items, visits, catalog>> /\ req[r].pc # "idle"
    BY DEF CommitOpen
  <1>2. ItemsGrow /\ VisitsGrow
    BY <1>1 DEF ItemsGrow, VisitsGrow
  <1>3. TypeOK' /\ RequestsFit'
    BY <1>1, <1>2, EnsureListStep, FinishFits DEF Core, TypeOK
  <1>4. ListHasItsOwner' /\ NoDuplicateRows'
    BY <1>1, EnsureListStep DEF Core, NoDuplicateRows
  <1>5. (VisitsHaveInterest => VisitsHaveInterest') /\ ItemsHaveList' /\ VisitsHaveList'
    BY <1>1, EnsureListStep DEF Core, TypeOK, ItemRow, VisitRow, VisitsHaveInterest, ItemsHaveList, VisitsHaveList,
           ItemsOf, ListsGrow
  <1>6. RequestsEntitled'
    BY <1>1, EnsureListStep, FinishEntitled
  <1> QED
    BY <1>3, <1>4, <1>5, <1>6 DEF Core, Preserved

LEMMA CommitInterestStep ==
    ASSUME Core, NEW r \in Requests, CommitInterest(r)
    PROVE  Preserved
  <1> DEFINE p == req[r].prop
             l == EnsuredList(r)
             row == [list |-> l, prop |-> p, state |-> "active",
                     archivedAt |-> None, score |-> None, comments |-> None]
  <1>1. /\ EnsureList(r) /\ Finish(r) /\ UNCHANGED visits /\ req[r].pc = "ready"
        /\ catalog' = catalog \cup {p}
        /\ \/ req[r].item # None /\ UNCHANGED items
           \/ /\ UniqueInterest(l, p) /\ HasRoom(items)
              /\ items' = [items EXCEPT ![NewKey(items)] = row]
    BY DEF CommitInterest
  <1>p. p \in Properties
    BY DEF CommitInterest, Core, RequestsFit, InterestFits
  <1>l. l \in ListIds /\ lists'[l] # None
    BY <1>1, EnsureListStep
  <1>2. /\ items' \in [ItemIds -> ItemRow \cup {None}]
        /\ \A i \in ItemIds : items[i] # None => items'[i] = items[i]
        /\ \A i \in ItemIds : items[i] = None =>
              \/ items'[i] = None
              \/ items'[i].list = l /\ items'[i].prop = p /\ UniqueInterest(l, p)
        /\ \A i, j \in ItemIds :
              (items[i] = None /\ items[j] = None /\ items'[i] # None /\ items'[j] # None)
                  => i = j
    <2>1. CASE UNCHANGED items
      BY <2>1 DEF Core, TypeOK
    <2>2. CASE /\ UniqueInterest(l, p) /\ HasRoom(items)
               /\ items' = [items EXCEPT ![NewKey(items)] = row]
      <3> PICK k \in ItemIds : k = NewKey(items) /\ items[k] = None
        BY <2>2, NewKeyIsFree DEF Core, TypeOK
      <3>1. row \in ItemRow /\ row.list = l /\ row.prop = p
        BY <1>p, <1>l DEF ItemRow
      <3> HIDE DEF row
      <3> QED
        BY <2>2, <3>1 DEF Core, TypeOK
    <2> QED
      BY <1>1, <2>1, <2>2
  <1> HIDE DEF p, l
  <1>3. ItemsGrow /\ VisitsGrow
    BY <1>1, <1>2 DEF ItemsGrow, VisitsGrow
  <1>4. TypeOK'
    BY <1>1, <1>2, <1>3, <1>p, EnsureListStep, FinishFits DEF Core, TypeOK
  <1>5. RequestsFit'
    BY <1>1, <1>3, EnsureListStep, FinishFits
  <1>6. ListHasItsOwner'
    BY <1>1, EnsureListStep
  <1>7. NoDuplicateRows'
    BY <1>1, <1>2, EnsureListStep DEF Core, NoDuplicateRows, UniqueInterest, ItemsOf
  <1>8. (VisitsHaveInterest => VisitsHaveInterest') /\ VisitsHaveList'
    BY <1>1, <1>3, EnsureListStep DEF Core, TypeOK, VisitRow, VisitsHaveInterest, VisitsHaveList,
           ItemsOf, ItemsGrow, ListsGrow
  <1>9. ItemsHaveList'
    <2> SUFFICES ASSUME NEW i \in ItemIds, items'[i] # None
                 PROVE  lists'[items'[i].list] # None
      BY DEF ItemsHaveList
    <2>1. CASE items[i] # None
      BY <2>1, <1>1, <1>2, EnsureListStep DEF Core, TypeOK, ItemRow, ItemsHaveList, ListsGrow
    <2>2. CASE items[i] = None
      BY <2>2, <1>2, <1>l
    <2> QED
      BY <2>1, <2>2
  <1>10. RequestsEntitled'
    BY <1>1, EnsureListStep, FinishEntitled
  <1> QED
    BY <1>4, <1>5, <1>6, <1>7, <1>8, <1>9, <1>10 DEF Core, Preserved

\* A step that changes no list and no membership.
LEMMA SamePeople ==
    ASSUME Core, UNCHANGED <<lists, members>>
    PROVE  /\ ListsGrow /\ MembersGrow /\ ListHasItsOwner'
           /\ \A l \in ListIds, u \in Users : IsMember(l, u) => IsMember(l, u)'
  BY DEF Core, TypeOK, MemberRow, ListsGrow, MembersGrow, ListHasItsOwner, IsOwner, IsMember,
         Membership, Live

\* Flushing an item leaves an item of the same list and property.
LEMMA FlushedItemIsItem ==
    ASSUME NEW a \in ItemRow, NEW b \in ItemRow, NEW c \in ItemRow
    PROVE  /\ FlushedItem(a, b, c) \in ItemRow
           /\ FlushedItem(a, b, c).list = a.list /\ FlushedItem(a, b, c).prop = a.prop
  <1> DEFINE st == Column(a.state, b.state, c.state)
             at == Column(a.archivedAt, b.archivedAt, c.archivedAt)
             sc == Column(a.score, b.score, c.score)
             cm == Column(a.comments, b.comments, c.comments)
  <1>1. /\ st \in {"active", "archived"} /\ at \in Times \cup {None}
        /\ sc \in Scores \cup {None} /\ cm \in Notes \cup {None}
    BY DEF Column, ItemRow
  <1>2. FlushedItem(a, b, c) =
            [a EXCEPT !.state = st, !.archivedAt = at, !.score = sc, !.comments = cm]
    BY DEF FlushedItem
  <1> HIDE DEF st, at, sc, cm
  <1> QED
    BY <1>1, <1>2 DEF ItemRow

LEMMA CommitItemStep ==
    ASSUME Core, NEW r \in Requests, CommitItem(r)
    PROVE  Preserved
  <1> DEFINE x == req[r]
             i == x.item
             row == FlushedItem(items[i], x.old, x.new)
  <1>1. /\ items' = [items EXCEPT ![i] = row]
        /\ Finish(r) /\ UNCHANGED <<lists, members, visits, catalog>>
        /\ x.op \in RowOps /\ x.pc = "ready"
    BY DEF CommitItem
  <1>2. /\ i \in ItemIds /\ items[i] \in ItemRow /\ x.old \in ItemRow /\ x.new \in ItemRow
        /\ items[i] # None
    BY <1>1 DEF Core, TypeOK, RequestsFit, RowOpFits
  <1> HIDE DEF x
  <1>3. row \in ItemRow /\ row.list = items[i].list /\ row.prop = items[i].prop
    BY <1>2, FlushedItemIsItem
  <1>r. items' = [items EXCEPT ![i] = row] /\ i \in ItemIds /\ items[i] # None
        /\ row # None
    BY <1>1, <1>2, <1>3, NoneIsNoValue
  <1> HIDE DEF row, i
  <1>4. /\ items' \in [ItemIds -> ItemRow \cup {None}]
        /\ \A j \in ItemIds : items'[j] # None <=> items[j] # None
        /\ \A j \in ItemIds : items[j] # None =>
              items'[j].list = items[j].list /\ items'[j].prop = items[j].prop
    BY <1>r, <1>3 DEF Core, TypeOK
  <1>5. ItemsGrow /\ VisitsGrow
    BY <1>1, <1>4 DEF ItemsGrow, VisitsGrow
  <1>6. TypeOK' /\ RequestsFit'
    BY <1>1, <1>4, <1>5, SamePeople, FinishFits DEF Core, TypeOK
  <1>7. NoDuplicateRows'
    BY <1>1, <1>4 DEF Core, NoDuplicateRows, Live
  <1>8. (VisitsHaveInterest => VisitsHaveInterest') /\ ItemsHaveList' /\ VisitsHaveList'
    BY <1>1, <1>4 DEF Core, VisitsHaveInterest, ItemsHaveList, VisitsHaveList, ItemsOf
  <1>9. RequestsEntitled' /\ ListHasItsOwner'
    BY <1>1, SamePeople, FinishEntitled
  <1> QED
    BY <1>6, <1>7, <1>8, <1>9 DEF Core, Preserved

LEMMA CommitVisitStep ==
    ASSUME Core, NEW r \in Requests, CommitVisit(r)
    PROVE  Preserved
  <1> DEFINE x == req[r]
             v == x.visit
  <1>1. /\ Finish(r) /\ UNCHANGED <<lists, members, items, catalog>>
        /\ x.op = "visit" /\ x.pc = "ready"
        /\ \/ /\ v # None
              /\ visits' = [visits EXCEPT ![v] = FlushedVisit(visits[v], x.old, x.new)]
           \/ /\ v = None /\ UniqueVisit(x.list, x.prop) /\ HasRoom(visits)
              /\ visits' = [visits EXCEPT ![NewKey(visits)] = x.new]
    BY DEF CommitVisit
  <1>2. VisitFits(x)
    BY DEF Core, RequestsFit
  <1> HIDE DEF x
  <1>3. /\ x.new \in VisitRow /\ x.new.list = x.list /\ x.new.prop = x.prop
        /\ ItemsOf(x.list, x.prop) # {}
        /\ v # None =>
              /\ v \in VisitIds /\ visits[v] # None /\ visits[v] \in VisitRow
              /\ visits[v].list = x.list /\ visits[v].prop = x.prop /\ x.old \in VisitRow
    BY <1>1, <1>2 DEF VisitFits, Core, TypeOK
  <1> HIDE DEF v
  <1>4. /\ visits' \in [VisitIds -> VisitRow \cup {None}]
        /\ \A w \in VisitIds : visits[w] # None =>
              /\ visits'[w] # None
              /\ visits'[w].list = visits[w].list /\ visits'[w].prop = visits[w].prop
        /\ \A w \in VisitIds : visits[w] = None =>
              \/ visits'[w] = None
              \/ visits'[w].list = x.list /\ visits'[w].prop = x.prop
                    /\ UniqueVisit(x.list, x.prop)
        /\ \A w, z \in VisitIds :
              (visits[w] = None /\ visits[z] = None /\ visits'[w] # None /\ visits'[z] # None)
                  => w = z
    <2>1. CASE v # None /\ visits' = [visits EXCEPT ![v] = FlushedVisit(visits[v], x.old, x.new)]
      <3> DEFINE row == FlushedVisit(visits[v], x.old, x.new)
      <3>1. row \in VisitRow /\ row.list = x.list /\ row.prop = x.prop
        BY <2>1, <1>3 DEF FlushedVisit, Column, VisitRow
      <3> HIDE DEF row
      <3>2. visits' = [visits EXCEPT ![v] = row]
        BY <2>1 DEF row
      <3> QED
        BY <2>1, <3>1, <3>2, <1>3, NoneIsNoValue DEF Core, TypeOK
    <2>2. CASE /\ UniqueVisit(x.list, x.prop) /\ HasRoom(visits)
               /\ visits' = [visits EXCEPT ![NewKey(visits)] = x.new]
      <3> PICK k \in VisitIds : k = NewKey(visits) /\ visits[k] = None
        BY <2>2, NewKeyIsFree DEF Core, TypeOK
      <3> QED
        BY <2>2, <1>3 DEF Core, TypeOK
    <2> QED
      BY <1>1, <2>1, <2>2
  <1>5. ItemsGrow /\ VisitsGrow
    BY <1>1, <1>4 DEF ItemsGrow, VisitsGrow
  <1>6. TypeOK' /\ RequestsFit'
    BY <1>1, <1>4, <1>5, SamePeople, FinishFits DEF Core, TypeOK
  <1>7. NoDuplicateRows'
    <2>1. \A a, b \in VisitIds :
             (/\ visits'[a] # None /\ visits'[b] # None
              /\ visits'[a].list = visits'[b].list /\ visits'[a].prop = visits'[b].prop) => a = b
      BY <1>4 DEF Core, NoDuplicateRows, UniqueVisit, VisitsOf
    <2> QED
      BY <1>1, <2>1 DEF Core, NoDuplicateRows, Live
  <1>8. VisitsHaveInterest => VisitsHaveInterest'
    <2> SUFFICES ASSUME VisitsHaveInterest, NEW w \in VisitIds, visits'[w] # None
                 PROVE  ItemsOf(visits'[w].list, visits'[w].prop) # {}
      BY <1>1 DEF VisitsHaveInterest, ItemsOf
    <2> QED
      BY <1>3, <1>4 DEF VisitsHaveInterest
  <1>9. ItemsHaveList' /\ VisitsHaveList'
    <2>1. x.list \in ListIds /\ lists[x.list] # None
      BY <1>1, <1>2, NoneIsNoValue DEF Core, RequestsFit, ListFits, VisitFits, x
    <2> QED
      BY <1>1, <1>4, <2>1 DEF Core, ItemsHaveList, VisitsHaveList
  <1>10. RequestsEntitled' /\ ListHasItsOwner'
    BY <1>1, SamePeople, FinishEntitled
  <1> QED
    BY <1>6, <1>7, <1>8, <1>9, <1>10 DEF Core, Preserved

LEMMA CommitInviteStep ==
    ASSUME Core, NEW r \in Requests, CommitInvite(r)
    PROVE  Preserved
  <1> DEFINE x == req[r]
             row == [list |-> x.list, user |-> x.who, role |-> "collaborator"]
  <1>1. /\ Finish(r) /\ UNCHANGED <<lists, items, visits, catalog>>
        /\ x.pc = "ready" /\ x.op = "invite" /\ UniqueMember(x.list, x.who)
        /\ HasRoom(members) /\ members' = [members EXCEPT ![NewKey(members)] = row]
    BY DEF CommitInvite
  <1>2. x.list \in ListIds /\ x.who \in Users /\ lists[x.list] # None
    BY <1>1, NoneIsNoValue DEF Core, TypeOK, Request, RequestsFit, OwnerOpFits, OwnerOps, ListFits
  <1>3. PICK k \in MemberIds : k = NewKey(members) /\ members[k] = None
    BY <1>1, NewKeyIsFree DEF Core, TypeOK
  <1>4. /\ row \in MemberRow /\ row # None /\ row.list = x.list /\ row.user = x.who
        /\ row.role = "collaborator"
    BY <1>2, NoneIsNoValue DEF MemberRow, Roles
  <1> HIDE DEF row, x
  <1>5. /\ members' \in [MemberIds -> MemberRow \cup {None}]
        /\ members'[k] = row /\ \A m \in MemberIds \ {k} : members'[m] = members[m]
    BY <1>1, <1>3, <1>4 DEF Core, TypeOK
  <1>6. ListsGrow /\ MembersGrow /\ ItemsGrow /\ VisitsGrow
    BY <1>1, <1>3, <1>5 DEF ListsGrow, MembersGrow, ItemsGrow, VisitsGrow
  <1>7. TypeOK' /\ RequestsFit'
    BY <1>1, <1>5, <1>6, FinishFits DEF Core, TypeOK
  <1>8. Live(k)' /\ \A m \in MemberIds \ {k} : Live(m)' <=> Live(m)
    BY <1>4, <1>5 DEF Live
  <1>9. \A m \in MemberIds : Live(m) => (Live(m)' /\ members'[m] = members[m])
    BY <1>3, <1>5, <1>8 DEF Live
  <1>10. ListHasItsOwner'
    <2>1. \A l \in ListIds : lists[l] # None => IsOwner(l, lists[l])'
      BY <1>1, <1>9 DEF Core, ListHasItsOwner, IsOwner, Membership
    <2>2. \A m \in MemberIds, l \in ListIds :
              (Live(m)' /\ members'[m].list = l /\ members'[m].role = "owner")
                  => (Live(m) /\ members'[m] = members[m])
      BY <1>4, <1>5, <1>8
    <2>3. \A m \in MemberIds : Live(m)' => lists[members'[m].list] # None
      BY <1>2, <1>4, <1>5, <1>8 DEF Core, ListHasItsOwner, TypeOK, MemberRow, Live
    <2> QED
      BY <1>1, <2>1, <2>2, <2>3 DEF Core, ListHasItsOwner
  <1>11. NoDuplicateRows'
    <2>1. \A m, n \in MemberIds :
              (/\ Live(m)' /\ Live(n)' /\ members'[m].list = members'[n].list
               /\ members'[m].user = members'[n].user) => m = n
      BY <1>1, <1>4, <1>5, <1>8 DEF Core, NoDuplicateRows, UniqueMember, IsMember, Membership
    <2> QED
      BY <1>1, <2>1 DEF Core, NoDuplicateRows
  <1>12. (VisitsHaveInterest => VisitsHaveInterest') /\ ItemsHaveList' /\ VisitsHaveList'
    BY <1>1 DEF Core, VisitsHaveInterest, ItemsHaveList, VisitsHaveList, ItemsOf
  <1>13. RequestsEntitled'
    <2>1. ASSUME NEW l \in ListIds, NEW u \in Users, IsMember(l, u)
          PROVE  IsMember(l, u)'
      BY <1>9, <2>1 DEF IsMember, Membership
    <2> QED
      BY <1>1, <2>1, FinishEntitled
  <1> QED
    BY <1>7, <1>10, <1>11, <1>12, <1>13 DEF Core, Preserved

LEMMA CommitRemoveStep ==
    ASSUME Core, NEW r \in Requests, CommitRemove(r)
    PROVE  Preserved
  <1> DEFINE x == req[r]
             m == x.member
             Hit(q) == /\ Live(m)
                       /\ req[q].pc \in {"resolved", "ready"}
                       /\ req[q].list = members[m].list
                       /\ req[q].user = members[m].user
  <1>1. /\ UNCHANGED <<lists, items, visits, catalog>>
        /\ x.pc = "ready" /\ x.op = "remove"
        /\ members' = [members EXCEPT ![m].role = "deleted"]
        /\ req' = [q \in Requests |->
               IF q = r THEN NoRequest
               ELSE [req[q] EXCEPT !.overtaken = req[q].overtaken \/ Hit(q)]]
    BY DEF CommitRemove
  <1>2. /\ m \in MemberIds /\ members[m] # None /\ members[m] \in MemberRow
        /\ members[m].role # "owner"
    BY <1>1 DEF Core, TypeOK, RequestsFit, OwnerOpFits, OwnerOps
  <1> HIDE DEF x, m
  <1>3. PICK k \in MemberIds : k = m
    BY <1>2
  <1>4. /\ members' \in [MemberIds -> MemberRow \cup {None}]
        /\ members'[k].list = members[k].list /\ members'[k].user = members[k].user
        /\ members'[k].role = "deleted" /\ members'[k] # None
        /\ \A n \in MemberIds \ {k} : members'[n] = members[n]
    <2> DEFINE row == [members[k] EXCEPT !.role = "deleted"]
    <2>1. /\ row \in MemberRow /\ row # None
          /\ row.list = members[k].list /\ row.user = members[k].user /\ row.role = "deleted"
      BY <1>2, <1>3, NoneIsNoValue DEF MemberRow
    <2>2. members' = [members EXCEPT ![k] = row]
      BY <1>1, <1>3
    <2> HIDE DEF row
    <2> QED
      BY <2>1, <2>2 DEF Core, TypeOK
  <1>5. ListsGrow /\ MembersGrow /\ ItemsGrow /\ VisitsGrow
    BY <1>1, <1>4 DEF ListsGrow, MembersGrow, ItemsGrow, VisitsGrow
  <1>6. ASSUME NEW q \in Requests, q # r
        PROVE  /\ req'[q] \in Request /\ GoesOn(q)
               /\ req'[q].overtaken = (req[q].overtaken \/ Hit(q))
    <2> DEFINE b == req[q].overtaken \/ Hit(q)
               y == req[q]
    <2>1. req'[q] = [y EXCEPT !.overtaken = b]
      BY <1>1, <1>6
    <2>2. y \in Request
      BY DEF Core, TypeOK
    <2>3. b \in BOOLEAN
      BY <2>2 DEF Request
    <2> HIDE DEF b, y
    <2>4. req'[q] \in Request
      BY <2>1, <2>2, <2>3, FieldsOfRequests
    <2>5. req'[q].overtaken = b
      BY <2>1, <2>2 DEF Request
    <2>6. GoesOn(q)
      BY <2>1, <2>2 DEF Request, GoesOn, y
    <2> QED
      BY <2>4, <2>5, <2>6 DEF b, y
  <1> HIDE DEF Hit
  <1>7. req'[r] = NoRequest /\ req' \in [Requests -> Request]
    BY <1>1, <1>6, NoRequestFits DEF Fits
  <1>8. TypeOK'
    BY <1>1, <1>4, <1>7 DEF Core, TypeOK
  <1>9. RequestsFit'
    <2> SUFFICES ASSUME NEW q \in Requests
                 PROVE  (/\ ListFits(req[q]) /\ OwnerOpFits(req[q]) /\ RowOpFits(req[q])
                         /\ InterestFits(req[q]) /\ VisitFits(req[q]))'
      BY DEF RequestsFit
    <2>1. CASE q = r
      BY <2>1, <1>7 DEF NoRequest, ListFits, OwnerOpFits, RowOpFits, InterestFits, VisitFits
    <2>2. CASE q # r
      BY <2>2, <1>5, <1>6, OthersFit
    <2> QED
      BY <2>1, <2>2
  <1>10. \A n \in MemberIds :
            /\ Live(n)' <=> (Live(n) /\ n # k)
            /\ Live(n)' => members'[n] = members[n]
    BY <1>4 DEF Live
  <1>11. ListHasItsOwner' /\ NoDuplicateRows'
    <2>1. \A l \in ListIds : lists[l] # None => IsOwner(l, lists[l])'
      BY <1>1, <1>2, <1>3, <1>10 DEF Core, ListHasItsOwner, IsOwner, Membership
    <2>2. ListHasItsOwner'
      BY <1>1, <1>10, <2>1 DEF Core, ListHasItsOwner
    <2>3. NoDuplicateRows'
      BY <1>1, <1>10 DEF Core, NoDuplicateRows
    <2> QED
      BY <2>2, <2>3
  <1>12. (VisitsHaveInterest => VisitsHaveInterest') /\ ItemsHaveList' /\ VisitsHaveList'
    BY <1>1 DEF Core, VisitsHaveInterest, ItemsHaveList, VisitsHaveList, ItemsOf
  <1>13. RequestsEntitled'
    <2> SUFFICES ASSUME NEW q \in Requests,
                        req'[q].pc \in {"resolved", "ready"}, req'[q].list # None
                 PROVE  IsMember(req[q].list, req[q].user)' \/ req'[q].overtaken
      BY DEF RequestsEntitled
    <2>1. q # r
      BY <1>7 DEF NoRequest
    <2>2. /\ req'[q].pc = req[q].pc /\ req'[q].list = req[q].list
          /\ req'[q].user = req[q].user
          /\ req'[q].overtaken = (req[q].overtaken \/ Hit(q))
      BY <2>1, <1>6 DEF GoesOn
    <2>3. req[q].overtaken \/ \E n \in MemberIds : n \in Membership(req[q].list, req[q].user)
      BY <2>2 DEF Core, RequestsEntitled, IsMember, Membership
    <2>4. ASSUME NEW n \in MemberIds, n \in Membership(req[q].list, req[q].user)
          PROVE  IsMember(req[q].list, req[q].user)' \/ Hit(q)
      <3>1. Live(n) /\ members[n].list = req[q].list /\ members[n].user = req[q].user
        BY <2>4 DEF Membership
      <3>2. CASE n = k
        BY <3>1, <3>2, <1>3, <2>2 DEF Hit
      <3>3. CASE n # k
        BY <3>1, <3>3, <1>10, <2>2 DEF IsMember, Membership
      <3> QED
        BY <3>2, <3>3
    <2> QED
      BY <2>2, <2>3, <2>4
  <1> QED
    BY <1>8, <1>9, <1>11, <1>12, <1>13 DEF Core, Preserved

-----------------------------------------------------------------------------
LEMMA InvInit == Init => Inv
  <1> SUFFICES ASSUME Init PROVE Inv
    OBVIOUS
  <1>1. TypeOK
    BY NoRequestFits DEF Init, TypeOK, Fits
  <1>2. ListHasItsOwner /\ NoDuplicateRows /\ VisitsHaveInterest /\ ItemsHaveList /\ VisitsHaveList
    BY DEF Init, ListHasItsOwner, NoDuplicateRows, VisitsHaveInterest, ItemsHaveList, VisitsHaveList, Live
  <1>3. RequestsFit /\ RequestsEntitled
    BY NoRequestFits DEF Init, Fits, RequestsFit, RequestsEntitled, NoRequest
  <1> QED
    BY <1>1, <1>2, <1>3 DEF Inv, Core

\* Every step keeps the invariant, whether or not visits have interest.
LEMMA CoreStep == Core /\ [Next]_vars => Preserved
  <1> SUFFICES ASSUME Core, [Next]_vars PROVE Preserved
    OBVIOUS
  <1>1. ASSUME NEW r \in Requests, Commit(r) PROVE Preserved
    BY <1>1, CommitOpenStep, CommitInterestStep, CommitItemStep, CommitVisitStep,
       CommitInviteStep, CommitRemoveStep DEF Commit
  <1>2. ASSUME NEW r \in Requests, Abort(r) PROVE Preserved
    BY <1>2, ReadStep, NoRequestFits DEF Abort, Finish
  <1>3. ASSUME NEW p \in Properties, StoreListing(p) PROVE Preserved
    <2>1. TypeOK'
      BY <1>3 DEF StoreListing, Core, TypeOK
    <2>2. /\ ListHasItsOwner' /\ NoDuplicateRows' /\ (VisitsHaveInterest => VisitsHaveInterest')
          /\ ItemsHaveList' /\ VisitsHaveList'
          /\ RequestsFit' /\ RequestsEntitled'
      BY <1>3 DEF StoreListing, Core, ListHasItsOwner, NoDuplicateRows, VisitsHaveInterest,
             ItemsHaveList, VisitsHaveList, RequestsFit, RequestsEntitled, ListFits, OwnerOpFits, RowOpFits,
             InterestFits, VisitFits, IsOwner, IsMember, Membership, Live, ItemsOf
    <2> QED
      BY <2>1, <2>2 DEF Core, Preserved
  <1>4. CASE UNCHANGED vars
    <2>1. TypeOK'
      BY <1>4 DEF vars, Core, TypeOK
    <2>2. /\ ListHasItsOwner' /\ NoDuplicateRows' /\ (VisitsHaveInterest => VisitsHaveInterest')
          /\ ItemsHaveList' /\ VisitsHaveList'
          /\ RequestsFit' /\ RequestsEntitled'
      BY <1>4 DEF vars, Core, ListHasItsOwner, NoDuplicateRows, VisitsHaveInterest,
             ItemsHaveList, VisitsHaveList, RequestsFit, RequestsEntitled, ListFits, OwnerOpFits, RowOpFits,
             InterestFits, VisitFits, IsOwner, IsMember, Membership, Live, ItemsOf
    <2> QED
      BY <2>1, <2>2 DEF Core, Preserved
  <1> QED
    BY <1>1, <1>2, <1>3, <1>4, ResolveStep, LookupStep DEF Next

LEMMA InvStep == Inv /\ [Next]_vars => Inv'
  BY CoreStep DEF Inv, Preserved

\* Inv holds in every state of every execution: the row and request types, the
\* constraints on rows, and what requests in flight rely on.
THEOREM Invariance == Spec => []Inv
  BY InvInit, InvStep, PTL DEF Spec

\* The part of it that the step proofs go by.
LEMMA CoreInvariance == Spec => []Core
  <1>1. Inv => Core
    BY DEF Inv
  <1> QED
    BY <1>1, Invariance, PTL

\* Every column and every request field keeps its type.
THEOREM TypeCorrect == Spec => []TypeOK
  <1>1. Inv => TypeOK
    BY DEF Inv, Core
  <1> QED
    BY <1>1, Invariance, PTL

\* For any users and any number of requests in flight, ensure_default_list,
\* invite_member and remove_member leave each list with the one owner it was
\* made for.
THEOREM OwnersStay == Spec => []ListHasItsOwner
  <1>1. Inv => ListHasItsOwner
    BY DEF Inv, Core
  <1> QED
    BY <1>1, Invariance, PTL

\* No list gets a member, a property or a visit to a property twice, however
\* many requests have checked for the row before one of them inserts it.
THEOREM RowsAreUnique == Spec => []NoDuplicateRows
  <1>1. Inv => NoDuplicateRows
    BY DEF Inv, Core
  <1> QED
    BY <1>1, Invariance, PTL

\* Every visit upsert_visit has stored is to a property its list holds an
\* interest in: items are archived, never deleted, and never change list.
THEOREM VisitsAreOfInterest == Spec => []VisitsHaveInterest
  <1>1. Inv => VisitsHaveInterest
    BY Zenon DEF Inv, Core
  <1> QED
    BY <1>1, Invariance, PTL
-----------------------------------------------------------------------------
(* While no user has two requests in flight.                               *)

\* A user for whom a default list is being made has none yet.
MakersOwnNothing ==
    \A r \in Requests : (req[r].pc # "idle" /\ req[r].list = None) => Owned(req[r].user) = {}

OneListInv == OneOwnedList /\ OneRequestPerUser /\ MakersOwnNothing

\* Every request in flight goes on for its user and list, or ends.
NoneBegins ==
    \A x \in Requests :
        \/ req'[x].pc = "idle"
        \/ /\ req[x].pc # "idle"
           /\ req'[x].user = req[x].user /\ req'[x].list = req[x].list

\* The first step of a request: it has no list only when its user owns none.
LEMMA ResolveOwnsNothing ==
    ASSUME Core, NEW r \in Requests, Resolve(r)
    PROVE  /\ UNCHANGED lists
           /\ \A x \in Requests \ {r} : req'[x] = req[x]
           /\ req'[r].list = None => Owned(req'[r].user) = {}
  <1> USE NoneIsNoValue
  <1>1. ASSUME NEW pc, NEW op, NEW u, NEW l, Begin(r, pc, op, u, l),
               l = None => Owned(u) = {}
        PROVE  /\ UNCHANGED lists
               /\ \A x \in Requests \ {r} : req'[x] = req[x]
               /\ req'[r].list = None => Owned(req'[r].user) = {}
    BY <1>1 DEF Begin, NoRequest, db, Core, TypeOK
  <1>2. ASSUME NEW u \in Users, NEW op \in RowOps, NEW i \in ItemIds, LoadItem(r, u, op, i)
        PROVE  /\ UNCHANGED lists
               /\ \A x \in Requests \ {r} : req'[x] = req[x]
               /\ req'[r].list = None => Owned(req'[r].user) = {}
    <2>1. items[i].list \in ListIds
      BY <1>2 DEF LoadItem, Core, TypeOK, ItemRow
    <2> QED
      BY <1>2, <2>1 DEF LoadItem, NoRequest, db, Core, TypeOK
  <1>3. ASSUME NEW u \in Users, NEW op \in DefaultOps, ResolveDefault(r, u, op)
        PROVE  /\ UNCHANGED lists
               /\ \A x \in Requests \ {r} : req'[x] = req[x]
               /\ req'[r].list = None => Owned(req'[r].user) = {}
    BY <1>1, <1>3 DEF ResolveDefault
  <1>4. ASSUME NEW u \in Users, NEW op, NEW l \in ListIds,
               ResolveListed(r, u, op, l) \/ ResolveOwner(r, u, op, l)
        PROVE  /\ UNCHANGED lists
               /\ \A x \in Requests \ {r} : req'[x] = req[x]
               /\ req'[r].list = None => Owned(req'[r].user) = {}
    BY <1>1, <1>4 DEF ResolveListed, ResolveOwner
  <1> QED
    BY <1>2, <1>3, <1>4 DEF Resolve

\* Later steps read on, or end the request; only one that makes its user's
\* default list changes the lists.
LEMMA LaterSteps ==
    ASSUME Core, NEW r \in Requests, Lookup(r) \/ Commit(r) \/ Abort(r)
    PROVE  /\ NoneBegins
           /\ \/ UNCHANGED lists
              \/ /\ req[r].pc # "idle" /\ req[r].list = None /\ req'[r].pc = "idle"
                 /\ \E l \in ListIds : /\ lists[l] = None
                                       /\ lists' = [lists EXCEPT ![l] = req[r].user]
  <1>t. req \in [Requests -> Request]
    BY DEF Core, TypeOK
  <1>1. ASSUME NEW q, Prepare(r, q), req[r].pc # "idle",
               q.user = req[r].user, q.list = req[r].list
        PROVE  NoneBegins /\ UNCHANGED lists
    BY <1>1, <1>t DEF Prepare, NoneBegins, db
  <1>2. ASSUME Lookup(r) PROVE NoneBegins /\ UNCHANGED lists
    BY <1>1, <1>2, <1>t DEF Lookup, AuthorizeItem, LookupCreate, LookupExternal, LookupVisit,
       LookupInvite, LookupRemove, Request
  <1>3. ASSUME Finish(r) PROVE NoneBegins /\ req'[r].pc = "idle"
    BY <1>3, <1>t DEF Finish, NoneBegins, NoRequest
  <1>4. ASSUME EnsureList(r), req[r].pc # "idle", Finish(r)
        PROVE  \/ UNCHANGED lists
               \/ /\ req[r].pc # "idle" /\ req[r].list = None /\ req'[r].pc = "idle"
                  /\ \E l \in ListIds : /\ lists[l] = None
                                        /\ lists' = [lists EXCEPT ![l] = req[r].user]
    BY <1>3, <1>4, NewKeyIsFree DEF EnsureList, InsertList, Core, TypeOK
  <1>5. ASSUME CommitRemove(r) PROVE NoneBegins /\ UNCHANGED lists
    BY <1>5, <1>t DEF CommitRemove, NoneBegins, NoRequest, Request
  <1>6. ASSUME CommitItem(r) \/ CommitVisit(r) \/ CommitInvite(r) \/ Abort(r)
        PROVE  Finish(r) /\ UNCHANGED lists
    BY <1>6 DEF CommitItem, CommitVisit, CommitInvite, Abort, db
  <1>7. ASSUME CommitOpen(r) \/ CommitInterest(r)
        PROVE  Finish(r) /\ EnsureList(r) /\ req[r].pc # "idle"
    BY <1>7 DEF CommitOpen, CommitInterest
  <1> QED
    BY <1>2, <1>3, <1>4, <1>5, <1>6, <1>7 DEF Commit

\* The list a request makes is its user's first, and nobody else makes one for
\* the same user.
LEMMA OneListStep ==
    Core /\ OneListInv /\ [Next]_vars /\ OneRequestPerUser' => OneListInv'
  <1> SUFFICES ASSUME Core, OneListInv, [Next]_vars, OneRequestPerUser'
               PROVE  OneOwnedList' /\ MakersOwnNothing'
    BY DEF OneListInv
  <1>1. ASSUME UNCHANGED lists PROVE OneOwnedList' /\ \A u : Owned(u)' = Owned(u)
    BY <1>1 DEF OneListInv, OneOwnedList, Owned
  <1>2. ASSUME UNCHANGED lists, NoneBegins PROVE OneOwnedList' /\ MakersOwnNothing'
    BY <1>1, <1>2 DEF OneListInv, MakersOwnNothing, NoneBegins
  <1>3. ASSUME NEW r \in Requests, Resolve(r) PROVE OneOwnedList' /\ MakersOwnNothing'
    <2>1. ASSUME NEW x \in Requests, req'[x].pc # "idle", req'[x].list = None
          PROVE  Owned(req'[x].user) = {}
      BY <1>3, <2>1, ResolveOwnsNothing DEF OneListInv, MakersOwnNothing
    <2> QED
      BY <1>1, <1>3, <2>1, ResolveOwnsNothing DEF MakersOwnNothing
  <1>4. ASSUME NEW r \in Requests, NEW l \in ListIds, NoneBegins,
               req[r].pc # "idle", req[r].list = None, req'[r].pc = "idle",
               lists[l] = None, lists' = [lists EXCEPT ![l] = req[r].user]
        PROVE  OneOwnedList' /\ MakersOwnNothing'
    <2> DEFINE u == req[r].user
    <2>1. u \in Users /\ Owned(u) = {}
      BY <1>4 DEF Core, RequestsFit, ListFits, OneListInv, MakersOwnNothing
    <2>2. \A k \in ListIds : lists'[k] = IF k = l THEN u ELSE lists[k]
      BY <1>4 DEF Core, TypeOK
    <2>3. OneOwnedList'
      BY <2>1, <2>2 DEF OneListInv, OneOwnedList, Owned
    <2>4. ASSUME NEW x \in Requests, req'[x].pc # "idle", req'[x].list = None
          PROVE  (Owned(req[x].user) = {})'
      <3>1. x # r /\ req[x].pc # "idle" /\ req[x].list = None /\ req'[x].user = req[x].user
        BY <1>4, <2>4 DEF NoneBegins
      <3>2. req[x].user # u /\ Owned(req[x].user) = {}
        BY <1>4, <3>1 DEF OneListInv, OneRequestPerUser, MakersOwnNothing
      <3> QED
        BY <2>2, <3>1, <3>2 DEF Owned
    <2> QED
      BY <2>3, <2>4 DEF MakersOwnNothing
  <1>5. ASSUME NEW p \in Properties, StoreListing(p) PROVE OneOwnedList' /\ MakersOwnNothing'
    BY <1>2, <1>5 DEF StoreListing, NoneBegins
  <1>6. CASE UNCHANGED vars
    BY <1>2, <1>6 DEF vars, NoneBegins
  <1> QED
    BY <1>2, <1>3, <1>4, <1>5, <1>6, LaterSteps DEF Next

\* ensure_default_list gives nobody a second list as long as the requests of
\* one user follow one another.
THEOREM OneListEach == SpecOneRequestPerUser => []OneOwnedList
  <1>1. Init => Core /\ OneListInv
    <2>1. Init => Core
      BY InvInit DEF Inv
    <2>2. Init => OneListInv
      BY DEF Init, OneListInv, OneOwnedList, OneRequestPerUser, MakersOwnNothing, NoRequest
    <2> QED
      BY <2>1, <2>2
  <1>2. Core /\ OneListInv /\ [Next /\ OneRequestPerUser']_vars => Core' /\ OneListInv'
    <2>1. UNCHANGED vars /\ OneListInv => OneListInv'
      BY DEF vars, OneListInv, OneOwnedList, OneRequestPerUser, MakersOwnNothing, Owned
    <2> QED
      BY <2>1, CoreStep, OneListStep DEF Preserved
  <1>3. OneListInv => OneOwnedList
    BY DEF OneListInv
  <1> QED
    BY <1>1, <1>2, <1>3, PTL DEF SpecOneRequestPerUser
=============================================================================
