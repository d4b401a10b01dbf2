------------------------ MODULE ListMigrationProofs ------------------------
(***************************************************************************)
(* Migration 0003 for any users, properties and keys, run up and down      *)
(* around any work of the API: no row changes its owner, an upgrade always *)
(* succeeds, and so does a downgrade while no user owns two lists.  That   *)
(* follows from what SharedLists keeps on the way: rows are unique in      *)
(* their list and every row has a list.  While the requests of one user    *)
(* follow one another, no user ever owns two.  The API starts from lists   *)
(* that a migration has made, where a visit may be to a property without   *)
(* interest: so this rests on Core, not on the Inv of SharedListsProofs.   *)
(***************************************************************************)
EXTENDS ListMigration, SharedListsProofs

\* Before 0003: no lists, and each row has its user.
Legacy ==
    /\ lists = [l \in ListIds |-> None] /\ members = [m \in MemberIds |-> None]
    /\ items \in [ItemIds -> LegacyItem \cup {None}]
    /\ visits \in [VisitIds -> LegacyVisit \cup {None}]
    /\ itemUser \in [ItemIds -> Users \cup {None}] /\ visitUser \in [VisitIds -> Users \cup {None}]
    /\ \A i \in ItemIds : items[i] = None => itemUser[i] = None
    /\ \A v \in VisitIds : visits[v] = None => visitUser[v] = None
    /\ UniquePerUser(items, itemUser) /\ UniquePerUser(visits, visitUser)
    /\ catalog \in SUBSET Properties
    /\ inTurn = TRUE
    /\ req \in [Requests -> Request] /\ \A r \in Requests : req[r].pc = "idle"

\* From 0003 on: what SharedLists keeps, and no row has a user.
Shared ==
    /\ Core
    /\ itemUser = NoUser(ItemIds) /\ visitUser = NoUser(VisitIds)
    /\ inTurn \in BOOLEAN

MigrationInv == (schema = "0002" /\ Legacy) \/ (schema = "0003" /\ Shared)

-----------------------------------------------------------------------------
(* Rows with and without a list.                                           *)

\* The row with another list.
Relisted(row, l) == [row EXCEPT !.list = l]

\* Giving a row a list, and taking it away again.
LEMMA RowsMove ==
    /\ \A row \in LegacyItem, l \in ListIds :
          /\ Relisted(row, l) \in ItemRow /\ Relisted(row, l) # None
          /\ Relisted(row, l).list = l /\ Relisted(row, l).prop = row.prop
          /\ Relisted(Relisted(row, l), None) = row
    /\ \A row \in LegacyVisit, l \in ListIds :
          /\ Relisted(row, l) \in VisitRow /\ Relisted(row, l) # None
          /\ Relisted(row, l).list = l /\ Relisted(row, l).prop = row.prop
          /\ Relisted(Relisted(row, l), None) = row
  BY NoneIsNoValue DEF Relisted, LegacyItem, LegacyVisit, ItemRow, VisitRow

LEMMA RowsLeave ==
    /\ \A row \in ItemRow :
          /\ Relisted(row, None) \in LegacyItem /\ Relisted(row, None) # None
          /\ Relisted(row, None).prop = row.prop
    /\ \A row \in VisitRow :
          /\ Relisted(row, None) \in LegacyVisit /\ Relisted(row, None) # None
          /\ Relisted(row, None).prop = row.prop
    /\ \A row \in LegacyItem \cup LegacyVisit : Relisted(row, None) = row
  BY NoneIsNoLegacyRow DEF Relisted, LegacyItem, LegacyVisit, ItemRow, VisitRow

LEMMA LegacyInit == InitLegacy => MigrationInv
  <1> SUFFICES ASSUME InitLegacy PROVE schema = "0002" /\ Legacy
    BY DEF MigrationInv
  <1>1. FirstItems \subseteq LegacyItem \cup {None}
    <2>1. \A p \in Properties : FirstItem(p, "active", None) \in LegacyItem
      BY DEF FirstItem, LegacyItem
    <2>2. \A p \in Properties, t \in Times : FirstItem(p, "archived", t) \in LegacyItem
      BY DEF FirstItem, LegacyItem
    <2> QED
      BY <2>1, <2>2 DEF FirstItems
  <1>2. FirstVisits \subseteq LegacyVisit \cup {None}
    BY DEF FirstVisits, LegacyVisit, Statuses
  <1>3. items \in [ItemIds -> LegacyItem \cup {None}]
    BY <1>1 DEF InitLegacy
  <1>4. visits \in [VisitIds -> LegacyVisit \cup {None}]
    BY <1>2 DEF InitLegacy
  <1>5. req \in [Requests -> Request] /\ \A r \in Requests : req[r].pc = "idle"
    BY NoRequestFits DEF InitLegacy, Fits, NoRequest
  <1>6. catalog \in SUBSET Properties
    BY DEF InitLegacy
  <1>7. /\ schema = "0002" /\ UniquePerUser(items, itemUser) /\ UniquePerUser(visits, visitUser)
        /\ lists = [l \in ListIds |-> None] /\ members = [m \in MemberIds |-> None]
        /\ itemUser \in [ItemIds -> Users \cup {None}] /\ visitUser \in [VisitIds -> Users \cup {None}]
        /\ \A i \in ItemIds : items[i] = None => itemUser[i] = None
        /\ \A v \in VisitIds : visits[v] = None => visitUser[v] = None
        /\ inTurn = TRUE
    BY DEF InitLegacy
  <1> QED
    BY <1>3, <1>4, <1>5, <1>6, <1>7, Zenon DEF Legacy

-----------------------------------------------------------------------------
(* The way up.                                                             *)

\* There are keys for a part of the users if there are for all.
LEMMA KeysForSome ==
    ASSUME NEW S, NEW T, NEW R, R \subseteq S, Injection(S, T) # {}
    PROVE  Injection(R, T) # {}
  <1> PICK f \in Injection(S, T) : TRUE
    OBVIOUS
  <1> DEFINE g == [x \in R |-> f[x]]
  <1>1. g \in Injection(R, T)
    BY DEF Injection, IsInjective
  <1> QED
    BY <1>1

\* Each user of a row gets a list of his own, and one membership in it.
LEMMA KeysOfUsers ==
    ASSUME Legacy
    PROVE  /\ UsersOfRows \subseteq Users
           /\ ListOf \in [UsersOfRows -> ListIds]
           /\ MemberOf \in [UsersOfRows -> MemberIds]
           /\ \A u, w \in UsersOfRows : ListOf[u] = ListOf[w] => u = w
           /\ \A u, w \in UsersOfRows : MemberOf[u] = MemberOf[w] => u = w
  <1>1. UsersOfRows \subseteq Users
    BY DEF Legacy, UsersOfRows, ItemRows, VisitRows, UniquePerUser
  <1>2. ListOf \in Injection(UsersOfRows, ListIds)
    BY <1>1, KeysForAll, KeysForSome DEF ListOf
  <1>3. MemberOf \in Injection(UsersOfRows, MemberIds)
    BY <1>1, KeysForAll, KeysForSome DEF MemberOf
  <1> HIDE DEF ListOf, MemberOf
  <1> QED
    BY <1>1, <1>2, <1>3 DEF Injection, IsInjective

\* The list of a row's user.
LEMMA ListOfRow ==
    ASSUME Legacy
    PROVE  /\ \A i \in ItemIds : items[i] # None =>
                 /\ itemUser[i] \in UsersOfRows
                 /\ ListId(itemUser[i]) = ListOf[itemUser[i]] /\ ListId(itemUser[i]) \in ListIds
           /\ \A v \in VisitIds : visits[v] # None =>
                 /\ visitUser[v] \in UsersOfRows
                 /\ ListId(visitUser[v]) = ListOf[visitUser[v]] /\ ListId(visitUser[v]) \in ListIds
  <1>1. /\ \A i \in ItemIds : items[i] # None => itemUser[i] \in UsersOfRows
        /\ \A v \in VisitIds : visits[v] # None => visitUser[v] \in UsersOfRows
    BY DEF UsersOfRows, ItemRows, VisitRows
  <1>2. \A u \in UsersOfRows : ListId(u) = ListOf[u] /\ ListId(u) \in ListIds
    BY KeysOfUsers DEF ListId
  <1> QED
    BY <1>1, <1>2

\* Two rows of one property have different users, so they get different lists.
LEMMA UpgradeSucceeds == Legacy => UpgradeHolds
  <1> SUFFICES ASSUME Legacy PROVE UpgradeHolds
    OBVIOUS
  <1>1. ListIdsHold(items, itemUser)
    BY ListOfRow, KeysOfUsers, NoneIsNoValue DEF Legacy, ListIdsHold, UniquePerUser
  <1>2. ListIdsHold(visits, visitUser)
    BY ListOfRow, KeysOfUsers, NoneIsNoValue DEF Legacy, ListIdsHold, UniquePerUser
  <1> QED
    BY <1>1, <1>2 DEF UpgradeHolds

\* The tables after an upgrade.
LEMMA ListsMade ==
    ASSUME Legacy, Upgrade
    PROVE  /\ lists' \in [ListIds -> Users \cup {None}]
           /\ \A u \in UsersOfRows : lists'[ListOf[u]] = u
           /\ \A l \in ListIds : lists'[l] # None => \E u \in UsersOfRows : l = ListOf[u]
  <1> DEFINE S == UsersOfRows
             f == ListOf
  <1>1. /\ S \subseteq Users /\ f \in [S -> ListIds] /\ \A u, w \in S : f[u] = f[w] => u = w
    BY KeysOfUsers
  <1>2. lists' = [l \in ListIds |-> IF l \in Range(f) THEN CHOOSE u \in S : f[u] = l ELSE None]
    BY DEF Upgrade
  <1> HIDE DEF S, f
  <1>3. \A l \in Range(f) : \E u \in S : f[u] = l
    BY <1>1 DEF Range
  <1>4. \A u \in S : f[u] \in Range(f)
    BY <1>1 DEF Range
  <1>5. \A l \in Range(f) : (CHOOSE u \in S : f[u] = l) \in S /\ f[CHOOSE u \in S : f[u] = l] = l
    BY <1>3
  <1>6. lists' \in [ListIds -> Users \cup {None}]
    BY <1>1, <1>2, <1>5
  <1>7. \A u \in S : lists'[f[u]] = u
    BY <1>1, <1>2, <1>4, <1>5
  <1>8. \A l \in ListIds : lists'[l] # None => \E u \in S : l = f[u]
    BY <1>2, <1>3
  <1> QED
    BY <1>6, <1>7, <1>8 DEF S, f

LEMMA MembersMade ==
    ASSUME Legacy, Upgrade
    PROVE  /\ members' \in [MemberIds -> MemberRow \cup {None}]
           /\ \A u \in UsersOfRows :
                 members'[MemberOf[u]] = [list |-> ListOf[u], user |-> u, role |-> "owner"]
           /\ \A m \in MemberIds : members'[m] # None => \E u \in UsersOfRows : m = MemberOf[u]
  <1> DEFINE S == UsersOfRows
             f == ListOf
             g == MemberOf
             Row(u) == [list |-> f[u], user |-> u, role |-> "owner"]
  <1>1. /\ S \subseteq Users /\ f \in [S -> ListIds] /\ g \in [S -> MemberIds]
        /\ \A u, w \in S : g[u] = g[w] => u = w
    BY KeysOfUsers
  <1>2. members' = [m \in MemberIds |->
                       IF m \in Range(g) THEN Row(CHOOSE u \in S : g[u] = m) ELSE None]
    BY DEF Upgrade, OwnerMembers
  <1>r. \A u \in S : Row(u) \in MemberRow
    BY <1>1 DEF MemberRow, Roles
  <1> HIDE DEF S, f, g, Row
  <1>3. \A m \in Range(g) : \E u \in S : g[u] = m
    BY <1>1 DEF Range
  <1>4. \A u \in S : g[u] \in Range(g)
    BY <1>1 DEF Range
  <1>5. \A m \in Range(g) : (CHOOSE u \in S : g[u] = m) \in S /\ g[CHOOSE u \in S : g[u] = m] = m
    BY <1>3
  <1>6. members' \in [MemberIds -> MemberRow \cup {None}]
    BY <1>1, <1>2, <1>5, <1>r
  <1>7. \A u \in S : members'[g[u]] = Row(u)
    BY <1>1, <1>2, <1>4, <1>5
  <1>8. \A m \in MemberIds : members'[m] # None => \E u \in S : m = g[u]
    BY <1>2, <1>3
  <1> QED
    BY <1>6, <1>7, <1>8 DEF S, f, g, Row

LEMMA RowsMoved ==
    ASSUME Legacy, Upgrade
    PROVE  /\ items' \in [ItemIds -> ItemRow \cup {None}]
           /\ visits' \in [VisitIds -> VisitRow \cup {None}]
           /\ \A i \in ItemIds :
                 IF items[i] = None THEN items'[i] = None
                 ELSE /\ items'[i] = Relisted(items[i], ListOf[itemUser[i]])
                      /\ items[i] \in LegacyItem /\ ListOf[itemUser[i]] \in ListIds
                      /\ itemUser[i] \in UsersOfRows
           /\ \A v \in VisitIds :
                 IF visits[v] = None THEN visits'[v] = None
                 ELSE /\ visits'[v] = Relisted(visits[v], ListOf[visitUser[v]])
                      /\ visits[v] \in LegacyVisit /\ ListOf[visitUser[v]] \in ListIds
                      /\ visitUser[v] \in UsersOfRows
  <1>1. /\ items' = [i \in ItemIds |-> IF items[i] = None THEN None
                        ELSE Relisted(items[i], ListId(itemUser[i]))]
        /\ visits' = [v \in VisitIds |-> IF visits[v] = None THEN None
                        ELSE Relisted(visits[v], ListId(visitUser[v]))]
    BY DEF Legacy, Upgrade, Moved, Relisted
  <1>2. /\ \A i \in ItemIds : items[i] # None => items[i] \in LegacyItem
        /\ \A v \in VisitIds : visits[v] # None => visits[v] \in LegacyVisit
    BY DEF Legacy
  <1>3. \A i \in ItemIds :
            IF items[i] = None THEN items'[i] = None
            ELSE /\ items'[i] = Relisted(items[i], ListOf[itemUser[i]])
                 /\ items[i] \in LegacyItem /\ ListOf[itemUser[i]] \in ListIds
                 /\ itemUser[i] \in UsersOfRows
    BY <1>1, <1>2, ListOfRow
  <1>4. \A v \in VisitIds :
            IF visits[v] = None THEN visits'[v] = None
            ELSE /\ visits'[v] = Relisted(visits[v], ListOf[visitUser[v]])
                 /\ visits[v] \in LegacyVisit /\ ListOf[visitUser[v]] \in ListIds
                 /\ visitUser[v] \in UsersOfRows
    BY <1>1, <1>2, ListOfRow
  <1>5. /\ \A i \in ItemIds : items'[i] \in ItemRow \cup {None}
        /\ \A v \in VisitIds : visits'[v] \in VisitRow \cup {None}
    <2>1. ASSUME NEW i \in ItemIds, items[i] # None PROVE items'[i] \in ItemRow
      BY <1>3, <2>1, RowsMove
    <2>2. ASSUME NEW v \in VisitIds, visits[v] # None PROVE visits'[v] \in VisitRow
      BY <1>4, <2>2, RowsMove
    <2> QED
      BY <1>3, <1>4, <2>1, <2>2
  <1>6. items' \in [ItemIds -> ItemRow \cup {None}] /\ visits' \in [VisitIds -> VisitRow \cup {None}]
    BY <1>1, <1>5
  <1> QED
    BY <1>3, <1>4, <1>6

\* The lists of an upgrade have their owner as only member, and their rows are as
\* unique as the users' were.
LEMMA UpgradeMakesShared ==
    ASSUME Legacy, Upgrade
    PROVE  Shared' /\ OneListInv'
  <1> DEFINE S == UsersOfRows
             f == ListOf
             g == MemberOf
  <1>1. /\ S \subseteq Users /\ f \in [S -> ListIds] /\ g \in [S -> MemberIds]
        /\ \A u, w \in S : f[u] = f[w] => u = w
        /\ \A u, w \in S : g[u] = g[w] => u = w
    BY KeysOfUsers
  <1>2. /\ lists' \in [ListIds -> Users \cup {None}]
        /\ \A u \in S : lists'[f[u]] = u
        /\ \A l \in ListIds : lists'[l] # None => \E u \in S : l = f[u]
    BY ListsMade
  <1>3. /\ members' \in [MemberIds -> MemberRow \cup {None}]
        /\ \A u \in S : members'[g[u]] = [list |-> f[u], user |-> u, role |-> "owner"]
        /\ \A m \in MemberIds : members'[m] # None => \E u \in S : m = g[u]
    BY MembersMade
  <1>4. /\ \A i \in ItemIds : items'[i] # None =>
              /\ items[i] # None /\ itemUser[i] \in S
              /\ items'[i].list = f[itemUser[i]] /\ items'[i].prop = items[i].prop
        /\ \A v \in VisitIds : visits'[v] # None =>
              /\ visits[v] # None /\ visitUser[v] \in S
              /\ visits'[v].list = f[visitUser[v]] /\ visits'[v].prop = visits[v].prop
    BY RowsMoved, RowsMove
  <1>5. UniquePerUser(items, itemUser) /\ UniquePerUser(visits, visitUser)
        /\ DOMAIN items = ItemIds /\ DOMAIN visits = VisitIds
    BY DEF Legacy
  <1>6. /\ req' = req /\ req \in [Requests -> Request] /\ \A r \in Requests : req[r].pc = "idle"
        /\ catalog' \in SUBSET Properties
        /\ itemUser' = NoUser(ItemIds) /\ visitUser' = NoUser(VisitIds)
    BY DEF Legacy, Upgrade
  <1> HIDE DEF S, f, g
  <1>7. TypeOK'
    BY <1>2, <1>3, <1>6, RowsMoved DEF TypeOK
  <1>8. /\ \A u \in S : /\ members'[g[u]].list = f[u] /\ members'[g[u]].user = u
                        /\ members'[g[u]].role = "owner"
        /\ \A m \in MemberIds : Live(m)' <=> \E u \in S : m = g[u]
    <2>1. ASSUME NEW u \in S
          PROVE  /\ members'[g[u]].list = f[u] /\ members'[g[u]].user = u
                 /\ members'[g[u]].role = "owner" /\ members'[g[u]] # None
      <3>1. [list |-> f[u], user |-> u, role |-> "owner"] \in MemberRow
        BY <1>1 DEF MemberRow, Roles
      <3> QED
        BY <1>3, <3>1, NoneIsNoValue
    <2> QED
      BY <1>3, <2>1 DEF Live
  <1>9. ListHasItsOwner'
    <2>1. ASSUME NEW l \in ListIds, lists'[l] # None
          PROVE  /\ IsOwner(l, lists[l])'
                 /\ \A m \in MemberIds : (Live(m)' /\ members'[m].list = l) => members'[m].user = lists'[l]
      <3>1. PICK u \in S : l = f[u]
        BY <1>2, <2>1
      <3>2. lists'[l] = u /\ g[u] \in MemberIds
        BY <1>1, <1>2, <3>1
      <3>3. IsOwner(l, lists[l])'
        BY <1>8, <3>1, <3>2 DEF IsOwner, Membership
      <3>4. \A m \in MemberIds : (Live(m)' /\ members'[m].list = l) => members'[m].user = u
        BY <1>1, <1>8, <3>1
      <3> QED
        BY <3>2, <3>3, <3>4
    <2>2. ASSUME NEW m \in MemberIds, Live(m)'
          PROVE  lists'[members'[m].list] # None
      BY <1>1, <1>2, <1>8, <2>2, NoneIsNoValue
    <2> QED
      BY <2>1, <2>2 DEF ListHasItsOwner
  <1>10. NoDuplicateRows'
    <2>1. \A m, n \in MemberIds :
             (/\ Live(m)' /\ Live(n)' /\ members'[m].list = members'[n].list
              /\ members'[m].user = members'[n].user) => m = n
      BY <1>8
    <2>2. \A i, j \in ItemIds :
             (/\ items'[i] # None /\ items'[j] # None
              /\ items'[i].list = items'[j].list /\ items'[i].prop = items'[j].prop) => i = j
      BY <1>1, <1>4, <1>5 DEF UniquePerUser
    <2>3. \A v, w \in VisitIds :
             (/\ visits'[v] # None /\ visits'[w] # None
              /\ visits'[v].list = visits'[w].list /\ visits'[v].prop = visits'[w].prop) => v = w
      BY <1>1, <1>4, <1>5 DEF UniquePerUser
    <2> QED
      BY <2>1, <2>2, <2>3 DEF NoDuplicateRows
  <1>11. ItemsHaveList' /\ VisitsHaveList'
    BY <1>1, <1>2, <1>4, NoneIsNoValue DEF ItemsHaveList, VisitsHaveList
  <1>12. RequestsFit' /\ RequestsEntitled'
    BY <1>6 DEF RequestsFit, RequestsEntitled, ListFits, OwnerOpFits, RowOpFits, InterestFits,
           VisitFits
  <1>13. OneListInv'
    <2>1. \A k, l \in ListIds : (lists'[k] # None /\ lists'[k] = lists'[l]) => k = l
      BY <1>1, <1>2
    <2> QED
      BY <1>6, <2>1 DEF OneListInv, OneOwnedList, OneRequestPerUser, MakersOwnNothing
  <1>14. inTurn' \in BOOLEAN
    BY DEF Upgrade, Legacy
  <1> QED
    BY <1>6, <1>7, <1>9, <1>10, <1>11, <1>12, <1>13, <1>14 DEF Shared, Core

-----------------------------------------------------------------------------
(* The way down.                                                           *)

\* Two rows of one owner and one property are in the one list of that owner.
LEMMA DowngradeSucceeds == Shared /\ OneOwnedList => DowngradeHolds
  <1> SUFFICES ASSUME Shared, OneOwnedList PROVE DowngradeHolds
    OBVIOUS
  <1>1. DOMAIN items = ItemIds /\ DOMAIN visits = VisitIds
    BY DEF Shared, Core, TypeOK
  <1>2. /\ \A i \in ItemIds : items[i] # None => items[i] \in ItemRow
        /\ \A v \in VisitIds : visits[v] # None => visits[v] \in VisitRow
    BY DEF Shared, Core, TypeOK
  <1>3. \A k, l \in ListIds : (lists[k] # None /\ lists[k] = lists[l]) => k = l
    BY DEF OneOwnedList
  <1>4. UniquePerUser(items, OwnersOf(items))
    <2>1. \A i \in ItemIds : items[i] # None =>
              OwnersOf(items)[i] = lists[items[i].list] /\ lists[items[i].list] # None
      BY <1>1 DEF OwnersOf, OwnerOf, Shared, Core, ItemsHaveList
    <2>2. \A i \in ItemIds : items[i] # None => items[i].list \in ListIds
      BY <1>2 DEF ItemRow
    <2>3. \A i, j \in ItemIds :
             (/\ items[i] # None /\ items[j] # None
              /\ items[i].list = items[j].list /\ items[i].prop = items[j].prop) => i = j
      BY DEF Shared, Core, NoDuplicateRows
    <2> QED
      BY <1>1, <1>3, <2>1, <2>2, <2>3 DEF UniquePerUser
  <1>5. UniquePerUser(visits, OwnersOf(visits))
    <2>1. \A v \in VisitIds : visits[v] # None =>
              OwnersOf(visits)[v] = lists[visits[v].list] /\ lists[visits[v].list] # None
      BY <1>1 DEF OwnersOf, OwnerOf, Shared, Core, VisitsHaveList
    <2>2. \A v \in VisitIds : visits[v] # None => visits[v].list \in ListIds
      BY <1>2 DEF VisitRow
    <2>3. \A v, w \in VisitIds :
             (/\ visits[v] # None /\ visits[w] # None
              /\ visits[v].list = visits[w].list /\ visits[v].prop = visits[w].prop) => v = w
      BY DEF Shared, Core, NoDuplicateRows
    <2> QED
      BY <1>1, <1>3, <2>1, <2>2, <2>3 DEF UniquePerUser
  <1> QED
    BY <1>4, <1>5 DEF DowngradeHolds

\* The tables after a downgrade.
LEMMA RowsReturned ==
    ASSUME Shared, Downgrade
    PROVE  /\ \A i \in ItemIds :
                 IF items[i] = None THEN items'[i] = None /\ itemUser'[i] = None
                 ELSE /\ items'[i] = Relisted(items[i], None) /\ items[i] \in ItemRow
                      /\ itemUser'[i] = lists[items[i].list] /\ itemUser'[i] \in Users
           /\ \A v \in VisitIds :
                 IF visits[v] = None THEN visits'[v] = None /\ visitUser'[v] = None
                 ELSE /\ visits'[v] = Relisted(visits[v], None) /\ visits[v] \in VisitRow
                      /\ visitUser'[v] = lists[visits[v].list] /\ visitUser'[v] \in Users
           /\ DOMAIN items' = ItemIds /\ DOMAIN visits' = VisitIds
           /\ DOMAIN itemUser' = ItemIds /\ DOMAIN visitUser' = VisitIds
           /\ items' = [i \in ItemIds |-> items'[i]] /\ visits' = [v \in VisitIds |-> visits'[v]]
           /\ itemUser' = [i \in ItemIds |-> itemUser'[i]]
           /\ visitUser' = [v \in VisitIds |-> visitUser'[v]]
  <1>1. /\ items \in [ItemIds -> ItemRow \cup {None}] /\ visits \in [VisitIds -> VisitRow \cup {None}]
        /\ lists \in [ListIds -> Users \cup {None}]
    BY DEF Shared, Core, TypeOK
  <1>2. /\ items' = [i \in ItemIds |-> IF items[i] = None THEN None ELSE Relisted(items[i], None)]
        /\ visits' = [v \in VisitIds |-> IF visits[v] = None THEN None ELSE Relisted(visits[v], None)]
    BY <1>1 DEF Downgrade, Moved, NoUser, Relisted
  <1>3. /\ itemUser' = [i \in ItemIds |-> IF items[i] = None THEN None ELSE lists[items[i].list]]
        /\ visitUser' = [v \in VisitIds |-> IF visits[v] = None THEN None ELSE lists[visits[v].list]]
    BY <1>1 DEF Downgrade, OwnersOf, OwnerOf
  <1>4. /\ \A i \in ItemIds : items[i] # None => items[i] \in ItemRow /\ lists[items[i].list] \in Users
        /\ \A v \in VisitIds : visits[v] # None => visits[v] \in VisitRow /\ lists[visits[v].list] \in Users
    BY <1>1 DEF Shared, Core, ItemsHaveList, VisitsHaveList, ItemRow, VisitRow
  <1> QED
    BY <1>2, <1>3, <1>4

LEMMA DowngradeMakesLegacy ==
    ASSUME Shared, Downgrade
    PROVE  Legacy'
  <1>1. /\ \A i \in ItemIds : items'[i] \in LegacyItem \cup {None}
        /\ \A v \in VisitIds : visits'[v] \in LegacyVisit \cup {None}
    BY RowsReturned, RowsLeave
  <1>2. items' \in [ItemIds -> LegacyItem \cup {None}] /\ visits' \in [VisitIds -> LegacyVisit \cup {None}]
    BY <1>1, RowsReturned
  <1>3. /\ \A i \in ItemIds : itemUser'[i] \in Users \cup {None}
        /\ \A v \in VisitIds : visitUser'[v] \in Users \cup {None}
        /\ \A i \in ItemIds : items'[i] = None => itemUser'[i] = None
        /\ \A v \in VisitIds : visits'[v] = None => visitUser'[v] = None
    BY RowsReturned, RowsLeave
  <1>4. /\ itemUser' \in [ItemIds -> Users \cup {None}] /\ visitUser' \in [VisitIds -> Users \cup {None}]
    BY <1>3, RowsReturned
  <1>5. UniquePerUser(items, itemUser)'
    <2>1. UniquePerUser(items, OwnersOf(items)) /\ itemUser' = OwnersOf(items)
          /\ DOMAIN items = ItemIds
      BY DEF Downgrade, DowngradeHolds, Shared, Core, TypeOK
    <2>2. \A i \in ItemIds : items'[i] # None => items[i] # None /\ items'[i].prop = items[i].prop
      BY RowsReturned, RowsLeave
    <2> QED
      BY <2>1, <2>2, RowsReturned DEF UniquePerUser
  <1>6. UniquePerUser(visits, visitUser)'
    <2>1. UniquePerUser(visits, OwnersOf(visits)) /\ visitUser' = OwnersOf(visits)
          /\ DOMAIN visits = VisitIds
      BY DEF Downgrade, DowngradeHolds, Shared, Core, TypeOK
    <2>2. \A v \in VisitIds : visits'[v] # None => visits[v] # None /\ visits'[v].prop = visits[v].prop
      BY RowsReturned, RowsLeave
    <2> QED
      BY <2>1, <2>2, RowsReturned DEF UniquePerUser
  <1>7. /\ lists' = [l \in ListIds |-> None] /\ members' = [m \in MemberIds |-> None]
        /\ catalog' \in SUBSET Properties
        /\ req' \in [Requests -> Request] /\ \A r \in Requests : req'[r].pc = "idle"
        /\ inTurn' = TRUE
    BY DEF Downgrade, Shared, Core, TypeOK
  <1> QED
    BY <1>2, <1>3, <1>4, <1>5, <1>6, <1>7 DEF Legacy

-----------------------------------------------------------------------------
\* Migrations take each state to the other; in between the API keeps Shared.
LEMMA MigrationStep ==
    MigrationInv /\ [MigrationNext]_<<vars, migrationVars>> => MigrationInv'
  <1> SUFFICES ASSUME MigrationInv, [MigrationNext]_<<vars, migrationVars>>
               PROVE  MigrationInv'
    OBVIOUS
  <1>1. CASE Upgrade
    <2>1. Legacy /\ schema' = "0003"
      BY <1>1 DEF Upgrade, MigrationInv
    <2> QED
      BY <1>1, <2>1, UpgradeMakesShared DEF MigrationInv
  <1>2. CASE Downgrade
    <2>1. Shared /\ schema' = "0002"
      BY <1>2 DEF Downgrade, MigrationInv
    <2> QED
      BY <1>2, <2>1, DowngradeMakesLegacy DEF MigrationInv
  <1>3. CASE Serve
    <2>1. /\ Shared /\ schema' = "0003" /\ Next
          /\ itemUser' = itemUser /\ visitUser' = visitUser
          /\ inTurn' \in BOOLEAN
      BY <1>3 DEF Serve, MigrationInv, Shared
    <2>2. Core'
      BY <2>1, CoreStep DEF Shared, Preserved
    <2> QED
      BY <2>1, <2>2 DEF Shared, MigrationInv
  <1>4. CASE UNCHANGED <<vars, migrationVars>>
    <2>1. UNCHANGED <<lists, members, items, visits, catalog, req, schema, itemUser, visitUser, inTurn>>
      BY <1>4 DEF vars, migrationVars
    <2>2. CASE schema = "0002" /\ Legacy
      BY <2>1, <2>2 DEF Legacy, UniquePerUser, MigrationInv
    <2>3. CASE schema = "0003" /\ Shared
      <3>1. Core'
        BY <1>4, <2>3, CoreStep DEF Shared, Preserved
      <3> QED
        BY <2>1, <2>3, <3>1 DEF Shared, MigrationInv
    <2> QED
      BY <2>2, <2>3 DEF MigrationInv
  <1> QED
    BY <1>1, <1>2, <1>3, <1>4 DEF MigrationNext

LEMMA MigrationInvariance == MigrationSpec => []MigrationInv
  BY LegacyInit, MigrationStep, PTL DEF MigrationSpec

\* At either schema the columns have their types, and only the one column of
\* user_id and list_id that the schema has is filled.
THEOREM MigrationTypeCorrect == MigrationSpec => []MigrationTypeOK
  <1>1. MigrationInv => MigrationTypeOK
    <2>1. Legacy => /\ itemUser \in [ItemIds -> Users \cup {None}]
                    /\ visitUser \in [VisitIds -> Users \cup {None}]
                    /\ items \in [ItemIds -> LegacyItem \cup {None}]
                    /\ visits \in [VisitIds -> LegacyVisit \cup {None}]
                    /\ inTurn \in BOOLEAN
      BY DEF Legacy
    <2>2. Shared => /\ itemUser \in [ItemIds -> Users \cup {None}]
                    /\ visitUser \in [VisitIds -> Users \cup {None}]
                    /\ itemUser = NoUser(ItemIds) /\ visitUser = NoUser(VisitIds) /\ TypeOK
                    /\ inTurn \in BOOLEAN
      BY DEF Shared, Core, NoUser
    <2> QED
      BY <2>1, <2>2 DEF MigrationInv, MigrationTypeOK
  <1> QED
    BY <1>1, MigrationInvariance, PTL

\* However often the migration has been run up and down, and whatever the API did in
\* between: the next upgrade meets no row that a constraint refuses, and neither does
\* the next downgrade unless a user owns two lists by then.
THEOREM BothWaysSucceed == MigrationSpec => []CanMigrate
  <1>1. MigrationInv => CanMigrate
    BY UpgradeSucceeds, DowngradeSucceeds DEF MigrationInv, CanMigrate
  <1> QED
    BY <1>1, MigrationInvariance, PTL

\* As long as the requests of each user have followed one another since the last
\* migration, its lists and those of ensure_default_list are one for each user.
THEOREM MigratedListsAreOneEach == MigrationSpec => []OneListInTurn
  <1>1. InitLegacy => MigrationInv /\ (inTurn => OneListInv)
    <2>1. InitLegacy => OneListInv
      BY DEF InitLegacy, OneListInv, OneOwnedList, OneRequestPerUser, MakersOwnNothing, NoRequest
    <2> QED
      BY <2>1, LegacyInit
  <1>2. MigrationInv /\ (inTurn => OneListInv) /\ [MigrationNext]_<<vars, migrationVars>>
           => MigrationInv' /\ (inTurn => OneListInv)'
    <2> SUFFICES ASSUME MigrationInv, inTurn => OneListInv,
                        [MigrationNext]_<<vars, migrationVars>>, inTurn'
                 PROVE  OneListInv'
      BY MigrationStep
    <2>1. CASE Upgrade
      BY <2>1, UpgradeMakesShared DEF Upgrade, MigrationInv
    <2>2. CASE Downgrade
      BY <2>2 DEF Downgrade, OneListInv, OneOwnedList, OneRequestPerUser, MakersOwnNothing
    <2>3. CASE Serve
      <3>1. inTurn /\ OneRequestPerUser'
        BY <2>3 DEF Serve
      <3> QED
        BY <2>3, <3>1, OneListStep DEF Serve, MigrationInv, Shared
    <2>4. CASE UNCHANGED <<vars, migrationVars>>
      <3>1. inTurn
        BY <2>4 DEF migrationVars
      <3> QED
        BY <2>4, <3>1 DEF vars, OneListInv, OneOwnedList, OneRequestPerUser, MakersOwnNothing, Owned
    <2> QED
      BY <2>1, <2>2, <2>3, <2>4 DEF MigrationNext
  <1>3. (inTurn => OneListInv) => OneListInTurn
    BY DEF OneListInv, OneListInTurn
  <1> QED
    BY <1>1, <1>2, <1>3, PTL DEF MigrationSpec

\* A migrated list has its user as owner and member, and keeps him.
THEOREM MigratedListsHaveOwners == MigrationSpec => []ListHasItsOwner
  <1>1. MigrationInv => ListHasItsOwner
    BY DEF MigrationInv, Legacy, Shared, Core, ListHasItsOwner, Live
  <1> QED
    BY <1>1, MigrationInvariance, PTL

\* What an upgrade and a downgrade write is who owned the row before.
LEMMA UpgradeKeepsOwners ==
    ASSUME Legacy, schema = "0002", Upgrade
    PROVE  OwnedItems' = OwnedItems /\ OwnedVisits' = OwnedVisits
  <1> DEFINE itemOf(i)  == <<i, itemUser[i], items[i]>>
             visitOf(v) == <<v, visitUser[v], visits[v]>>
  <1>1. /\ \A i \in ItemIds : items[i] # None => items[i] \in LegacyItem
        /\ \A v \in VisitIds : visits[v] # None => visits[v] \in LegacyVisit
    BY DEF Legacy
  <1>2. OwnedItems = {itemOf(i) : i \in ItemRows} /\ OwnedVisits = {visitOf(v) : v \in VisitRows}
    BY <1>1, RowsLeave DEF OwnedItems, OwnedVisits, ItemRows, VisitRows, Relisted
  <1>3. \A i \in ItemIds :
            /\ items'[i] # None <=> items[i] # None
            /\ items'[i] # None => /\ lists'[items'[i].list] = itemUser[i]
                                   /\ Relisted(items'[i], None) = items[i]
    BY RowsMoved, RowsMove, ListsMade
  <1>4. \A v \in VisitIds :
            /\ visits'[v] # None <=> visits[v] # None
            /\ visits'[v] # None => /\ lists'[visits'[v].list] = visitUser[v]
                                    /\ Relisted(visits'[v], None) = visits[v]
    BY RowsMoved, RowsMove, ListsMade
  <1>5. schema' = "0003"
    BY DEF Upgrade
  <1>6. OwnedItems' = {itemOf(i) : i \in ItemRows}
    <2> DEFINE now(i) == <<i, lists'[items'[i].list], Relisted(items'[i], None)>>
    <2>1. ItemRows' = ItemRows /\ \A i \in ItemRows : items'[i] # None
      BY <1>3 DEF ItemRows
    <2>2. OwnedItems' = {now(i) : i \in ItemRows}
      BY <1>5, <2>1 DEF OwnedItems, OwnerOf, Relisted
    <2>3. \A i \in ItemRows : now(i) = itemOf(i)
      BY <1>3, <2>1 DEF ItemRows
    <2> HIDE DEF now, itemOf
    <2> QED
      BY <2>2, <2>3
  <1>7. OwnedVisits' = {visitOf(v) : v \in VisitRows}
    <2> DEFINE now(v) == <<v, lists'[visits'[v].list], Relisted(visits'[v], None)>>
    <2>1. VisitRows' = VisitRows /\ \A v \in VisitRows : visits'[v] # None
      BY <1>4 DEF VisitRows
    <2>2. OwnedVisits' = {now(v) : v \in VisitRows}
      BY <1>5, <2>1 DEF OwnedVisits, OwnerOf, Relisted
    <2>3. \A v \in VisitRows : now(v) = visitOf(v)
      BY <1>4, <2>1 DEF VisitRows
    <2> HIDE DEF now, visitOf
    <2> QED
      BY <2>2, <2>3
  <1> QED
    BY <1>2, <1>6, <1>7

LEMMA DowngradeKeepsOwners ==
    ASSUME Shared, schema = "0003", Downgrade
    PROVE  OwnedItems' = OwnedItems /\ OwnedVisits' = OwnedVisits
  <1> DEFINE itemOf(i)  == <<i, lists[items[i].list], Relisted(items[i], None)>>
             visitOf(v) == <<v, lists[visits[v].list], Relisted(visits[v], None)>>
  <1>1. OwnedItems = {itemOf(i) : i \in ItemRows} /\ OwnedVisits = {visitOf(v) : v \in VisitRows}
    BY DEF OwnedItems, OwnedVisits, ItemRows, VisitRows, OwnerOf, Relisted
  <1>2. \A i \in ItemIds :
            /\ items'[i] # None <=> items[i] # None
            /\ items'[i] # None => /\ itemUser'[i] = lists[items[i].list]
                                   /\ items'[i] = Relisted(items[i], None)
                                   /\ Relisted(items'[i], None) = items'[i]
    BY RowsReturned, RowsLeave
  <1>3. \A v \in VisitIds :
            /\ visits'[v] # None <=> visits[v] # None
            /\ visits'[v] # None => /\ visitUser'[v] = lists[visits[v].list]
                                    /\ visits'[v] = Relisted(visits[v], None)
                                    /\ Relisted(visits'[v], None) = visits'[v]
    BY RowsReturned, RowsLeave
  <1>4. schema' = "0002"
    BY DEF Downgrade
  <1>5. OwnedItems' = {itemOf(i) : i \in ItemRows}
    <2> DEFINE now(i) == <<i, itemUser'[i], Relisted(items'[i], None)>>
    <2>1. ItemRows' = ItemRows /\ \A i \in ItemRows : items'[i] # None
      BY <1>2 DEF ItemRows
    <2>2. OwnedItems' = {now(i) : i \in ItemRows}
      BY <1>4, <2>1 DEF OwnedItems, Relisted
    <2>3. \A i \in ItemRows : now(i) = itemOf(i)
      BY <1>2, <2>1 DEF ItemRows
    <2> HIDE DEF now, itemOf
    <2> QED
      BY <2>2, <2>3
  <1>6. OwnedVisits' = {visitOf(v) : v \in VisitRows}
    <2> DEFINE now(v) == <<v, visitUser'[v], Relisted(visits'[v], None)>>
    <2>1. VisitRows' = VisitRows /\ \A v \in VisitRows : visits'[v] # None
      BY <1>3 DEF VisitRows
    <2>2. OwnedVisits' = {now(v) : v \in VisitRows}
      BY <1>4, <2>1 DEF OwnedVisits, Relisted
    <2>3. \A v \in VisitRows : now(v) = visitOf(v)
      BY <1>3, <2>1 DEF VisitRows
    <2> HIDE DEF now, visitOf
    <2> QED
      BY <2>2, <2>3
  <1> QED
    BY <1>1, <1>5, <1>6

\* No run of the migration, up or down, takes a row from its owner or changes
\* what the row says.
THEOREM MigrationKeepsOwners == MigrationSpec => RowsKeepTheirOwner
  <1>1. MigrationInv /\ [MigrationNext]_<<vars, migrationVars>>
           => [schema' # schema => OwnedItems' = OwnedItems /\ OwnedVisits' = OwnedVisits]_<<vars, migrationVars>>
    <2> SUFFICES ASSUME MigrationInv, MigrationNext, schema' # schema
                 PROVE  OwnedItems' = OwnedItems /\ OwnedVisits' = OwnedVisits
      OBVIOUS
    <2>1. CASE Upgrade
      BY <2>1, UpgradeKeepsOwners DEF Upgrade, MigrationInv
    <2>2. CASE Downgrade
      BY <2>2, DowngradeKeepsOwners DEF Downgrade, MigrationInv
    <2> QED
      BY <2>1, <2>2 DEF MigrationNext, Serve, migrationVars
  <1> QED
    BY <1>1, MigrationInvariance, PTL DEF MigrationSpec, RowsKeepTheirOwner
=============================================================================
