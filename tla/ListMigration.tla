--------------------------- MODULE ListMigration ---------------------------
(***************************************************************************)
(* Migration 0003: interest items and visits that belong to a user move to *)
(* a shared list of that user, and back (alembic/versions/                 *)
(* 0003_interest_lists.py).  At schema 0002 a row has a user_id and no     *)
(* list_id, at 0003 it is the other way round; a column that is not there  *)
(* is None.  Alembic runs a migration as one transaction, whose DDL waits  *)
(* for every other transaction on the tables: either it changes all that   *)
(* it says, or a constraint fails and it changes nothing.                  *)
(* At 0003 the API of SharedLists is at work, with any requests in flight. *)
(***************************************************************************)
EXTENDS SharedLists, Functions

\* The rows at 0002.
LegacyItem  == [list: {None}, prop: Properties, state: {"active", "archived"},
                archivedAt: Times \cup {None}, score: Scores \cup {None},
                comments: Notes \cup {None}]
LegacyVisit == [list: {None}, prop: Properties, status: Statuses, at: Times \cup {None}]

\* upgrade draws new keys, uuid4, as many as it needs.
ASSUME KeysForAll == Injection(Users, ListIds) # {} /\ Injection(Users, MemberIds) # {}

ASSUME NoneIsNoLegacyRow == None \notin LegacyItem \cup LegacyVisit

VARIABLES
    schema,     \* alembic_version
    itemUser,   \* interest_items.user_id
    visitUser,  \* visits.user_id
    inTurn      \* whether no user has had two requests in flight since the last migration

migrationVars == <<schema, itemUser, visitUser, inTurn>>

ItemRows  == {i \in ItemIds : items[i] # None}
VisitRows == {v \in VisitIds : visits[v] # None}

NoUser(keys) == [k \in keys |-> None]

\* uq_user_property_interest and uq_user_property_visit; NOT NULL of user_id.
UniquePerUser(table, user) ==
    \A k \in DOMAIN table : table[k] # None =>
        /\ user[k] # None
        /\ \A h \in DOMAIN table \ {k} :
              table[h] # None => <<user[h], table[h].prop>> # <<user[k], table[k].prop>>

FirstItem(p, state, t) == [list |-> None, prop |-> p, state |-> state, archivedAt |-> t,
                           score |-> None, comments |-> None]

FirstItems == {None} \cup {FirstItem(p, "active", None) : p \in Properties}
                     \cup {FirstItem(p, "archived", t) : p \in Properties, t \in Times}

FirstVisits == {None} \cup [list : {None}, prop : Properties, status : {"none"}, at : {None}]

\* Any tables that the constraints of schema 0002 allow.
InitLegacy ==
    /\ schema = "0002" /\ inTurn = TRUE
    /\ lists = [l \in ListIds |-> None] /\ members = [m \in MemberIds |-> None]
    /\ items \in [ItemIds -> FirstItems] /\ visits \in [VisitIds -> FirstVisits]
    /\ itemUser \in [ItemIds -> Users \cup {None}] /\ visitUser \in [VisitIds -> Users \cup {None}]
    /\ \A i \in ItemIds : items[i] = None => itemUser[i] = None
    /\ \A v \in VisitIds : visits[v] = None => visitUser[v] = None
    /\ UniquePerUser(items, itemUser) /\ UniquePerUser(visits, visitUser)
    /\ catalog = Properties
    /\ req = [r \in Requests |-> NoRequest]

-----------------------------------------------------------------------------
\* A slip: the users who have planned a visit only are forgotten.
UsersOfItems == {itemUser[i] : i \in ItemRows}

\* The users who get a list: SELECT DISTINCT user_id of both tables.
UsersOfRows == {itemUser[i] : i \in ItemRows} \cup {visitUser[v] : v \in VisitRows}

\* The list of each of them, which gets a new key.
ListOf == CHOOSE f \in Injection(UsersOfRows, ListIds) : TRUE
MemberOf == CHOOSE f \in Injection(UsersOfRows, MemberIds) : TRUE

\* A slip: the UPDATE has no WHERE, so the last list gets all the rows.
AllIntoOneList(u) == CHOOSE l \in Range(ListOf) : TRUE

\* UPDATE ... SET list_id = :list_id WHERE user_id = :user_id, for each of them.
ListId(u) == IF u \in UsersOfRows THEN ListOf[u] ELSE None

\* A slip: the owner is no member of the list.
NoMembers == [m \in MemberIds |-> None]

\* INSERT INTO interest_list_members, one for each list.
OwnerMembers ==
    [m \in MemberIds |->
        IF m \in Range(MemberOf)
        THEN LET u == CHOOSE u \in UsersOfRows : MemberOf[u] = m
             IN  [list |-> ListOf[u], user |-> u, role |-> "owner"]
        ELSE None]

\* The NOT NULL and the uniqueness constraints added at the end of upgrade.
ListIdsHold(table, user) ==
    \A k \in DOMAIN table : table[k] # None =>
        /\ ListId(user[k]) # None
        /\ \A h \in DOMAIN table \ {k} : table[h] # None =>
              <<ListId(user[h]), table[h].prop>> # <<ListId(user[k]), table[k].prop>>

UpgradeHolds == ListIdsHold(items, itemUser) /\ ListIdsHold(visits, visitUser)

\* A slip: list_id is not written, or not dropped.
Unmoved(table, listOf) == table

Moved(table, listOf) ==
    [k \in DOMAIN table |-> IF table[k] = None THEN None ELSE [table[k] EXCEPT !.list = listOf[k]]]

Upgrade ==
    /\ schema = "0002" /\ UpgradeHolds
    /\ schema' = "0003"
    /\ lists' = [l \in ListIds |-> IF l \in Range(ListOf)
                                   THEN CHOOSE u \in UsersOfRows : ListOf[u] = l ELSE None]
    /\ members' = OwnerMembers
    /\ items' = Moved(items, [i \in ItemIds |-> ListId(itemUser[i])])
    /\ visits' = Moved(visits, [v \in VisitIds |-> ListId(visitUser[v])])
    /\ itemUser' = NoUser(ItemIds) /\ visitUser' = NoUser(VisitIds)
    /\ UNCHANGED <<catalog, req, inTurn>>

\* SET user_id = il.owner_user_id FROM interest_lists il WHERE list_id = il.id
OwnerOf(row) == IF row = None THEN None ELSE lists[row.list]

OwnersOf(table) == [k \in DOMAIN table |-> OwnerOf(table[k])]

DowngradeHolds ==
    UniquePerUser(items, OwnersOf(items)) /\ UniquePerUser(visits, OwnersOf(visits))

Downgrade ==
    /\ schema = "0003" /\ DowngradeHolds
    /\ \A r \in Requests : req[r].pc = "idle"
    /\ schema' = "0002"
    /\ itemUser' = OwnersOf(items) /\ visitUser' = OwnersOf(visits)
    /\ items' = Moved(items, NoUser(ItemIds)) /\ visits' = Moved(visits, NoUser(VisitIds))
    /\ lists' = [l \in ListIds |-> None] /\ members' = [m \in MemberIds |-> None]
    /\ inTurn' = TRUE
    /\ UNCHANGED <<catalog, req>>

\* The API of this code runs on schema 0003.
Serve ==
    /\ schema = "0003" /\ Next
    /\ inTurn' = (inTurn /\ OneRequestPerUser')
    /\ UNCHANGED <<schema, itemUser, visitUser>>

MigrationNext == Upgrade \/ Downgrade \/ Serve

MigrationSpec == InitLegacy /\ [][MigrationNext]_<<vars, migrationVars>>

-----------------------------------------------------------------------------
(* Properties.                                                             *)

\* At 0003 the tables are those of SharedLists and no row has a user, at 0002 no
\* row has a list.
MigrationTypeOK ==
    /\ schema \in {"0002", "0003"} /\ inTurn \in BOOLEAN
    /\ itemUser \in [ItemIds -> Users \cup {None}] /\ visitUser \in [VisitIds -> Users \cup {None}]
    /\ schema = "0003" => TypeOK /\ itemUser = NoUser(ItemIds) /\ visitUser = NoUser(VisitIds)
    /\ schema = "0002" => /\ items \in [ItemIds -> LegacyItem \cup {None}]
                          /\ visits \in [VisitIds -> LegacyVisit \cup {None}]

\* An upgrade leaves no row without a list.  A downgrade never meets two rows of one
\* user for one property as long as no user owns two lists: with two, which requests
\* of one user that overlap can make, rows of both may be for one property.
CanMigrate ==
    /\ schema = "0002" => UpgradeHolds
    /\ schema = "0003" /\ OneOwnedList => DowngradeHolds

\* As long as the requests of each user have followed one another, the lists of the
\* migration and those of ensure_default_list together are one for each user.
OneListInTurn == inTurn => OneOwnedList

\* Whose row it is, and what it says.
OwnedItems ==
    {<<i, IF schema = "0002" THEN itemUser[i] ELSE OwnerOf(items[i]), [items[i] EXCEPT !.list = None]>> :
        i \in ItemRows}
OwnedVisits ==
    {<<v, IF schema = "0002" THEN visitUser[v] ELSE OwnerOf(visits[v]), [visits[v] EXCEPT !.list = None]>> :
        v \in VisitRows}

\* A migration takes no row from the user it belongs to, or from the owner of its
\* list, and changes nothing else of it.
RowsKeepTheirOwner ==
    [][schema' # schema => OwnedItems' = OwnedItems /\ OwnedVisits' = OwnedVisits]_<<vars, migrationVars>>
=============================================================================
