---------------------------- MODULE SharedLists ----------------------------
(***************************************************************************)
(* The shared interest lists of the API: lists, members, interest items    *)
(* and visits, the HTTP handlers that change them, and the transactions    *)
(* those handlers run in.                                                  *)
(*                                                                         *)
(* A request is one transaction of get_db: it commits when the handler     *)
(* returns and rolls back when it raises.  The database runs at READ       *)
(* COMMITTED, so a handler's SELECTs see what others have committed up to  *)
(* then, and nothing it read is locked.  A request therefore has up to     *)
(* three steps: it resolves its list and checks membership (or loads the   *)
(* row it was given), it looks up the row it will insert, update or        *)
(* delete, and it flushes and commits.  Reads that directly follow one     *)
(* another in a handler are one step.  The flush and the commit are one    *)
(* step as well: the handlers write last, an UPDATE waits for the row's    *)
(* lock, and an INSERT that meets a uniqueness constraint waits for the    *)
(* other transaction and then fails.                                       *)
(*                                                                         *)
(* A request that ends in an error before it wrote anything changes        *)
(* nothing.  One that fails on its first read is not a step at all; every  *)
(* later error, a violated constraint, a cancelled request and a crash of  *)
(* the server are Abort.                                                   *)
(***************************************************************************)
EXTENDS FiniteSets

CONSTANTS
    Users,       \* registered users
    Properties,  \* listings that can be found or pasted
    Times,       \* timestamps: dates of a visit, moments of archiving
    Scores,      \* values a member gives as userScore
    Notes,       \* texts a member gives as comments
    Requests,    \* request slots: how many requests are in flight at once
    ListIds, MemberIds, ItemIds, VisitIds, \* primary keys of the four tables
    None         \* SQL NULL, and a key no row has yet

Roles    == {"owner", "collaborator"}
Statuses == {"none", "scheduled", "visited"}

MemberRow == [list: ListIds, user: Users, role: Roles \cup {"deleted"}]

ItemRow == [list: ListIds, prop: Properties,
            state: {"active", "archived"}, archivedAt: Times \cup {None},
            score: Scores \cup {None}, comments: Notes \cup {None}]

VisitRow == [list: ListIds, prop: Properties,
             status: Statuses, at: Times \cup {None}]

ASSUME NoneIsNoValue ==
    /\ None \notin Users \cup Properties \cup Times \cup Scores \cup Notes
    /\ None \notin ListIds \cup MemberIds \cup ItemIds \cup VisitIds
    /\ None \notin MemberRow \cup ItemRow \cup VisitRow

VARIABLES
    lists,    \* lists[l]: the owner_user_id of list l, None before it exists
    members,  \* members[m]: a membership row; "deleted" once removed
    items,    \* items[i]: an interest item row
    visits,   \* visits[v]: a visit row
    catalog,  \* the rows of table properties
    req       \* req[r]: the request in slot r

db   == <<lists, members, items, visits, catalog>>
vars == <<lists, members, items, visits, catalog, req>>

-----------------------------------------------------------------------------
(***************************************************************************)
(* What a request carries from one statement to the next.  list = None in  *)
(* a request past its first step is the default list it has inserted and   *)
(* not committed.  old is the row as the session loaded it and new the     *)
(* same object after the handler's assignments.                            *)
(***************************************************************************)
DefaultOps == {"open", "create", "external", "visit"}
ListedOps  == {"create", "external", "visit"}
OwnerOps   == {"invite", "remove"}
RowOps     == {"patch", "archive", "restore"}

Request ==
    [pc: {"idle", "loaded", "resolved", "ready"},
     op: DefaultOps \cup OwnerOps \cup RowOps \cup {"none"},
     user: Users \cup {None}, list: ListIds \cup {None},
     prop: Properties \cup {None}, newProp: BOOLEAN,
     item: ItemIds \cup {None}, visit: VisitIds \cup {None},
     member: MemberIds \cup {None}, who: Users \cup {None},
     old: ItemRow \cup VisitRow \cup {None},
     new: ItemRow \cup VisitRow \cup {None},
     overtaken: BOOLEAN]

NoRequest ==
    [pc |-> "idle", op |-> "none", user |-> None, list |-> None,
     prop |-> None, newProp |-> FALSE, item |-> None, visit |-> None,
     member |-> None, who |-> None, old |-> None, new |-> None,
     overtaken |-> FALSE]

TypeOK ==
    /\ lists   \in [ListIds -> Users \cup {None}]
    /\ members \in [MemberIds -> MemberRow \cup {None}]
    /\ items   \in [ItemIds -> ItemRow \cup {None}]
    /\ visits  \in [VisitIds -> VisitRow \cup {None}]
    /\ catalog \in SUBSET Properties
    /\ req     \in [Requests -> Request]

Init ==
    /\ lists   = [l \in ListIds |-> None]
    /\ members = [m \in MemberIds |-> None]
    /\ items   = [i \in ItemIds |-> None]
    /\ visits  = [v \in VisitIds |-> None]
    /\ catalog = {}
    /\ req     = [r \in Requests |-> NoRequest]

-----------------------------------------------------------------------------
(* Queries of the handlers, and the key a new row gets.                    *)

HasRoom(table) == \E k \in DOMAIN table : table[k] = None
NewKey(table)  == CHOOSE k \in DOMAIN table : table[k] = None

Live(m) == members[m] # None /\ members[m].role # "deleted"

\* The membership rows of user u in list l.
Membership(l, u) ==
    {m \in MemberIds : Live(m) /\ members[m].list = l /\ members[m].user = u}

IsMember(l, u) == Membership(l, u) # {}
IsOwner(l, u)  == \E m \in Membership(l, u) : members[m].role = "owner"

Owned(u) == {l \in ListIds : lists[l] = u}

ItemsOf(l, p)  == {i \in ItemIds : items[i] # None /\ items[i].list = l /\ items[i].prop = p}
VisitsOf(l, p) == {v \in VisitIds : visits[v] # None /\ visits[v].list = l /\ visits[v].prop = p}

\* A slip: the constraint is not there.
NoInterestConstraint(l, p) == TRUE

\* uq_list_member, uq_list_property_interest and uq_list_property_visit let
\* the row in.
UniqueMember(l, u)   == ~IsMember(l, u)
UniqueInterest(l, p) == ItemsOf(l, p) = {}
UniqueVisit(l, p)    == VisitsOf(l, p) = {}

\* A slip: an item in any list will do.
InterestInAnyList(l, p) == \E k \in ListIds : ItemsOf(k, p) # {}

InterestInList(l, p) == ItemsOf(l, p) # {}

\* A slip: the rows of a query are taken where one row is meant.
AllRows(keys) == keys

\* The one row of a query, or None.
OneOrNone(keys) == IF keys = {} THEN None ELSE CHOOSE k \in keys : TRUE

\* A slip: the whole object is written.
WholeRow(stored, loaded, assigned) == assigned

\* Flushing an object writes only the columns whose value differs from the one
\* that was loaded; the others keep what the row holds by then.
Column(stored, loaded, assigned) == IF assigned = loaded THEN stored ELSE assigned

FlushedItem(row, old, new) ==
    [row EXCEPT !.state      = Column(row.state, old.state, new.state),
                !.archivedAt = Column(row.archivedAt, old.archivedAt, new.archivedAt),
                !.score      = Column(row.score, old.score, new.score),
                !.comments   = Column(row.comments, old.comments, new.comments)]

FlushedVisit(row, old, new) ==
    [row EXCEPT !.status = Column(row.status, old.status, new.status),
                !.at     = Column(row.at, old.at, new.at)]

-----------------------------------------------------------------------------
(* First step: the list is resolved, or the row is loaded.                 *)

Begin(r, pc, op, u, l) ==
    /\ req[r].pc = "idle"
    /\ req' = [req EXCEPT ![r] = [NoRequest EXCEPT
                   !.pc = pc, !.op = op, !.user = u, !.list = l]]
    /\ UNCHANGED db

\* A slip: the owned list is not looked for.
AlwaysANewList(r, u, op) ==
    /\ op \in DefaultOps
    /\ Begin(r, "resolved", op, u, None)

\* No list id was given: the owned list, or a new one.  Two owned lists make
\* scalar_one_or_none raise.
ResolveDefault(r, u, op) ==
    /\ op \in DefaultOps
    /\ \/ Owned(u) = {} /\ Begin(r, "resolved", op, u, None)
       \/ \E l \in ListIds : Owned(u) = {l} /\ Begin(r, "resolved", op, u, l)

\* A slip: the membership is not checked.
ResolveUnchecked(r, u, op, l) ==
    /\ op \in ListedOps
    /\ lists[l] # None
    /\ Begin(r, "resolved", op, u, l)

\* A list id was given: 403 unless the user is a member.
ResolveListed(r, u, op, l) ==
    /\ op \in ListedOps
    /\ IsMember(l, u)
    /\ Begin(r, "resolved", op, u, l)

\* Inviting and removing: 403 unless the user is the owner.
ResolveOwner(r, u, op, l) ==
    /\ op \in OwnerOps
    /\ IsOwner(l, u)
    /\ Begin(r, "resolved", op, u, l)

\* Patch, archive and restore name the item, and load it before any check.
LoadItem(r, u, op, i) ==
    /\ req[r].pc = "idle"
    /\ op \in RowOps
    /\ items[i] # None
    /\ req' = [req EXCEPT ![r] = [NoRequest EXCEPT
                   !.pc = "loaded", !.op = op, !.user = u,
                   !.list = items[i].list, !.item = i, !.old = items[i]]]
    /\ UNCHANGED db

-----------------------------------------------------------------------------
(* Second step: the row to write is looked up and prepared.                *)

\* A slip: restoring leaves the time of archiving.
RestoredWithStamp(row) == [row EXCEPT !.state = "active"]

Patched(row, s, c) == [row EXCEPT !.score = s, !.comments = c]
Archived(row, t)   == [row EXCEPT !.state = "archived", !.archivedAt = t]
Restored(row)      == [row EXCEPT !.state = "active", !.archivedAt = None]

\* What the handler may assign to the item it loaded.  The timestamp of
\* archiving is the current time, which the row does not hold yet.
Edit(op, row, new) ==
    \/ op = "patch" /\ \E s \in Scores \cup {None}, c \in Notes \cup {None} :
                          new = Patched(row, s, c)
    \/ op = "archive" /\ \E t \in Times \ {row.archivedAt} : new = Archived(row, t)
    \/ op = "restore" /\ new = Restored(row)

Prepare(r, q) ==
    /\ req' = [req EXCEPT ![r] = q]
    /\ UNCHANGED db

AuthorizeItem(r) ==
    /\ req[r].pc = "loaded"
    /\ IsMember(req[r].list, req[r].user)
    /\ \E new \in ItemRow :
           /\ Edit(req[r].op, req[r].old, new)
           /\ Prepare(r, [req[r] EXCEPT !.pc = "ready", !.new = new])

\* 404 without the property, 409 with an item for it.
LookupCreate(r, p) ==
    /\ req[r].pc = "resolved" /\ req[r].op = "create"
    /\ p \in catalog
    /\ UniqueInterest(req[r].list, p)
    /\ Prepare(r, [req[r] EXCEPT !.pc = "ready", !.prop = p])

\* The page of the pasted URL has been extracted, long after the membership
\* check: p is the listing found there.
LookupExternal(r, p) ==
    /\ req[r].pc = "resolved" /\ req[r].op = "external"
    /\ Prepare(r, [req[r] EXCEPT !.pc = "ready", !.prop = p,
                       !.newProp = (p \notin catalog),
                       !.item = OneOrNone(ItemsOf(req[r].list, p))])

\* A slip: only a scheduled visit needs its date.
DateGivenIfScheduled(status, at) == status = "scheduled" => at # None

DateGiven(status, at) == status # "none" => at # None

Rescheduled(row, status, at) ==
    [row EXCEPT !.status = status, !.at = IF status = "none" THEN None ELSE at]

\* 403 without an item in the same list, 400 without the date a scheduled or
\* visited visit needs.  A new row keeps the date it was sent whatever the
\* status; an existing one is emptied by status none.
LookupVisit(r, p, status, at) ==
    LET v == OneOrNone(VisitsOf(req[r].list, p))
    IN  /\ req[r].pc = "resolved" /\ req[r].op = "visit"
        /\ InterestInList(req[r].list, p)
        /\ DateGiven(status, at)
        /\ Prepare(r, [req[r] EXCEPT
               !.pc = "ready", !.prop = p, !.visit = v,
               !.old = IF v = None THEN None ELSE visits[v],
               !.new = IF v = None THEN [list |-> req[r].list, prop |-> p,
                                         status |-> status, at |-> at]
                                   ELSE Rescheduled(visits[v], status, at)])

\* 409 when the invitee is a member already.
LookupInvite(r, w) ==
    /\ req[r].pc = "resolved" /\ req[r].op = "invite"
    /\ UniqueMember(req[r].list, w)
    /\ Prepare(r, [req[r] EXCEPT !.pc = "ready", !.who = w])

\* A slip: the owner may be removed too.
LookupRemoveAnyone(r, m) ==
    /\ req[r].pc = "resolved" /\ req[r].op = "remove"
    /\ Live(m) /\ members[m].list = req[r].list
    /\ Prepare(r, [req[r] EXCEPT !.pc = "ready", !.member = m])

\* 400 for the owner himself and for a row of role owner, 404 without a row.
LookupRemove(r, m) ==
    /\ req[r].pc = "resolved" /\ req[r].op = "remove"
    /\ Live(m) /\ members[m].list = req[r].list
    /\ members[m].user # req[r].user
    /\ members[m].role # "owner"
    /\ Prepare(r, [req[r] EXCEPT !.pc = "ready", !.member = m])

-----------------------------------------------------------------------------
(* Last step: flush and commit.                                            *)

Finish(r) == req' = [req EXCEPT ![r] = NoRequest]

\* ensure_default_list's two INSERTs: the list and its owner's membership.
InsertList(l, u) ==
    /\ HasRoom(members)
    /\ lists'   = [lists EXCEPT ![l] = u]
    /\ members' = [members EXCEPT ![NewKey(members)] =
                       [list |-> l, user |-> u, role |-> "owner"]]

\* The list a request writes to, inserted now if the request made it.
EnsuredList(r) == IF req[r].list = None THEN NewKey(lists) ELSE req[r].list

EnsureList(r) ==
    IF req[r].list = None
      THEN HasRoom(lists) /\ InsertList(NewKey(lists), req[r].user)
      ELSE UNCHANGED <<lists, members>>

CommitOpen(r) ==
    /\ req[r].pc = "resolved" /\ req[r].op = "open"
    /\ EnsureList(r)
    /\ Finish(r)
    /\ UNCHANGED <<items, visits, catalog>>

\* uq_portal_external and uq_list_property_interest make the flush fail
\* when another request has inserted the same row since the lookup.
CommitInterest(r) ==
    LET l == EnsuredList(r)
        p == req[r].prop
    IN  /\ req[r].pc = "ready" /\ req[r].op \in {"create", "external"}
        /\ EnsureList(r)
        /\ req[r].newProp => p \notin catalog
        /\ catalog' = catalog \cup {p}
        /\ IF req[r].item # None
             THEN UNCHANGED items
             ELSE /\ UniqueInterest(l, p)
                  /\ HasRoom(items)
                  /\ items' = [items EXCEPT ![NewKey(items)] =
                         [list |-> l, prop |-> p, state |-> "active",
                          archivedAt |-> None, score |-> None, comments |-> None]]
        /\ Finish(r)
        /\ UNCHANGED visits

CommitItem(r) ==
    LET i == req[r].item
    IN  /\ req[r].pc = "ready" /\ req[r].op \in RowOps
        /\ items' = [items EXCEPT ![i] = FlushedItem(items[i], req[r].old, req[r].new)]
        /\ Finish(r)
        /\ UNCHANGED <<lists, members, visits, catalog>>

\* uq_list_property_visit guards the INSERT.
CommitVisit(r) ==
    LET v == req[r].visit
    IN  /\ req[r].pc = "ready" /\ req[r].op = "visit"
        /\ IF v # None
             THEN visits' = [visits EXCEPT ![v] =
                                 FlushedVisit(visits[v], req[r].old, req[r].new)]
             ELSE /\ UniqueVisit(req[r].list, req[r].prop)
                  /\ HasRoom(visits)
                  /\ visits' = [visits EXCEPT ![NewKey(visits)] = req[r].new]
        /\ Finish(r)
        /\ UNCHANGED <<lists, members, items, catalog>>

\* uq_list_member guards the INSERT.
CommitInvite(r) ==
    /\ req[r].pc = "ready" /\ req[r].op = "invite"
    /\ UniqueMember(req[r].list, req[r].who)
    /\ HasRoom(members)
    /\ members' = [members EXCEPT ![NewKey(members)] =
           [list |-> req[r].list, user |-> req[r].who, role |-> "collaborator"]]
    /\ Finish(r)
    /\ UNCHANGED <<lists, items, visits, catalog>>

\* The row is deleted by its key; deleting it twice deletes nothing.  The
\* member's requests that are past their check go on: overtaken records them.
CommitRemove(r) ==
    LET m == req[r].member
    IN  /\ req[r].pc = "ready" /\ req[r].op = "remove"
        /\ members' = [members EXCEPT ![m].role = "deleted"]
        /\ req' = [q \in Requests |->
               IF q = r THEN NoRequest
               ELSE [req[q] EXCEPT !.overtaken = @ \/
                        (/\ Live(m)
                         /\ req[q].pc \in {"resolved", "ready"}
                         /\ req[q].list = members[m].list
                         /\ req[q].user = members[m].user)]]
        /\ UNCHANGED <<lists, items, visits, catalog>>

Abort(r) ==
    /\ req[r].pc # "idle"
    /\ Finish(r)
    /\ UNCHANGED db

\* A search stores a listing it found.
StoreListing(p) ==
    /\ p \notin catalog
    /\ catalog' = catalog \cup {p}
    /\ UNCHANGED <<lists, members, items, visits, req>>

-----------------------------------------------------------------------------
Resolve(r) ==
    \E u \in Users :
        \/ \E op \in DefaultOps : ResolveDefault(r, u, op)
        \/ \E op \in ListedOps, l \in ListIds : ResolveListed(r, u, op, l)
        \/ \E op \in OwnerOps, l \in ListIds : ResolveOwner(r, u, op, l)
        \/ \E op \in RowOps, i \in ItemIds : LoadItem(r, u, op, i)

Lookup(r) ==
    \/ AuthorizeItem(r)
    \/ \E p \in Properties : LookupCreate(r, p) \/ LookupExternal(r, p)
    \/ \E p \in Properties, s \in Statuses, t \in Times \cup {None} :
           LookupVisit(r, p, s, t)
    \/ \E w \in Users : LookupInvite(r, w)
    \/ \E m \in MemberIds : LookupRemove(r, m)

Commit(r) ==
    \/ CommitOpen(r) \/ CommitInterest(r) \/ CommitItem(r)
    \/ CommitVisit(r) \/ CommitInvite(r) \/ CommitRemove(r)

Next ==
    \/ \E r \in Requests : Resolve(r) \/ Lookup(r) \/ Commit(r) \/ Abort(r)
    \/ \E p \in Properties : StoreListing(p)

Spec == Init /\ [][Next]_vars

\* The same system where no user has two requests in flight.
OneRequestPerUser ==
    \A q, r \in Requests :
        (q # r /\ req[q].pc # "idle" /\ req[r].pc # "idle")
            => req[q].user # req[r].user

SpecOneRequestPerUser == Init /\ [][Next /\ OneRequestPerUser']_vars

-----------------------------------------------------------------------------
(***************************************************************************)
(* Properties that hold whatever the requests in flight do.                *)
(***************************************************************************)

\* Every list has exactly one membership of role owner, and it is that of its
\* owner_user_id: no interleaving of default-list creation, invitations and
\* removals leaves a list without its owner or with a second one.
ListHasItsOwner ==
    \A l \in ListIds :
        IF lists[l] = None
          THEN \A m \in MemberIds : Live(m) => members[m].list # l
          ELSE /\ IsOwner(l, lists[l])
               /\ \A m \in MemberIds :
                      (/\ Live(m) /\ members[m].list = l
                       /\ members[m].role = "owner") => members[m].user = lists[l]

\* A list never has the same user, the same property or a visit to the same
\* property twice, although every handler checks for the row in one statement
\* and inserts it in a later one.
NoDuplicateRows ==
    /\ \A m, n \in MemberIds :
           (/\ Live(m) /\ Live(n) /\ members[m].list = members[n].list
            /\ members[m].user = members[n].user) => m = n
    /\ \A i, j \in ItemIds :
           (/\ items[i] # None /\ items[j] # None
            /\ items[i].list = items[j].list /\ items[i].prop = items[j].prop) => i = j
    /\ \A v, w \in VisitIds :
           (/\ visits[v] # None /\ visits[w] # None
            /\ visits[v].list = visits[w].list /\ visits[v].prop = visits[w].prop) => v = w

\* A visit is always to a property the same list holds an interest in, so that
\* the calendar, which drops visits without interest, shows every visit.
VisitsHaveInterest ==
    \A v \in VisitIds :
        visits[v] # None => ItemsOf(visits[v].list, visits[v].prop) # {}

\* The requests past their check belong to members, except those whose user was
\* removed while they ran.
Entitled(r, l) ==
    \/ req[r].list = None /\ lists[l] = None
    \/ req[r].list = l /\ (IsMember(l, req[r].user) \/ req[r].overtaken)

\* What changes in a list in a step is one request's, that its user may make.
MembersWrite ==
    \A l \in ListIds :
        \/ /\ \A m \in MemberIds : members[m] # members'[m] => members'[m].list # l
           /\ \A i \in ItemIds : items[i] # items'[i] => items'[i].list # l
           /\ \A v \in VisitIds : visits[v] # visits'[v] => visits'[v].list # l
        \/ \E r \in Requests :
               /\ req[r].pc \in {"resolved", "ready"} /\ req'[r].pc = "idle"
               /\ Entitled(r, l)
               /\ \A m \in MemberIds : members[m] # members'[m] =>
                      (lists[l] = None \/ lists[l] = req[r].user)

\* Whatever a list gains, loses or has changed in it is the work of one
\* committing request of a member of that list, or of a user removed after the
\* request had passed its membership check: once a removal is committed, a
\* request begun later changes nothing.
OnlyMembersWrite == [][MembersWrite]_vars

\* A column that changes in a step gets the value a request changed it to.
MergeColumns ==
    \A i \in ItemIds : items[i] # None =>
        \A c \in {"state", "archivedAt", "score", "comments"} :
            items'[i][c] # items[i][c] =>
                \E r \in Requests :
                    /\ req[r].pc = "ready" /\ req'[r].pc = "idle"
                    /\ req[r].op \in RowOps /\ req[r].item = i
                    /\ req[r].new[c] # req[r].old[c]
                    /\ items'[i][c] = req[r].new[c]

\* Two members who edit different columns of one item both keep their edit: a
\* column only changes to what a committing request assigned to it, and only
\* when that request changed it.
ColumnsAreMerged == [][MergeColumns]_vars

Dated(row)   == row # None => (row.status # "none" => row.at # None)
Stamped(row) == row # None => (row.state = "archived" <=> row.archivedAt # None)

\* Request r commits a change of a row that is not what r has loaded.
Overtakes(r, row) == req[r].pc = "ready" /\ req'[r].pc = "idle" /\ req[r].old # row

\* A visit that has the date its status needs only loses it in one way: two
\* upserts overlap, and the second to commit has loaded the row before the first
\* wrote it.  No order of requests one after the other does it.
DatesLostToRacesOnly ==
    [][\A v \in VisitIds : Dated(visits[v]) /\ ~Dated(visits'[v]) =>
           \E r \in Requests : req[r].visit = v /\ Overtakes(r, visits[v])]_vars

\* An item has a time of archiving exactly while it is archived, until a change
\* of it overlaps another: then one may keep the state, the other the time.
StampsLostToRacesOnly ==
    [][\A i \in ItemIds : Stamped(items[i]) /\ ~Stamped(items'[i]) =>
           \E r \in Requests : req[r].item = i /\ Overtakes(r, items[i])]_vars

\* The lists as their members see them: what ListBoard speaks of.
People(l)  == {u \in Users : IsMember(l, u)}
OnBoard(l) == {p \in Properties : ItemsOf(l, p) # {}}
Planned(l) == {p \in Properties : VisitsOf(l, p) # {}}

Board == INSTANCE ListBoard WITH
    owner   <- lists,
    people  <- [l \in ListIds |-> People(l)],
    board   <- [l \in ListIds |-> OnBoard(l)],
    planned <- [l \in ListIds |-> Planned(l)]

\* The handlers implement ListBoard: a commit is one of its steps, whatever
\* other requests read or wrote between the handler's check and its commit.
ImplementsBoard == Board!Spec

(***************************************************************************)
(* Properties that hold only while certain requests do not overlap.        *)
(***************************************************************************)

\* ensure_default_list: "Each user gets one owned list (MVP)."
OneOwnedList ==
    \A k, l \in ListIds : (lists[k] # None /\ lists[k] = lists[l]) => k = l

\* upsert_visit: "Visit datetime required for scheduled/visited".
VisitIsDated == \A v \in VisitIds : Dated(visits[v])
=============================================================================
