----------------------------- MODULE ListBoard -----------------------------
(***************************************************************************)
(* What the shared lists promise, without rows, requests or transactions.  *)
(* A list has an owner for good and a set of people the owner belongs to;  *)
(* it holds properties, each at most once and for good, and plans visits   *)
(* to some of them.  Every change is one step.                             *)
(***************************************************************************)
CONSTANTS Users, Properties, ListIds, None

VARIABLES
    owner,   \* owner[l]: the owner of list l, None before it is opened
    people,  \* people[l]: the users who share list l
    board,   \* board[l]: the properties of list l
    planned  \* planned[l]: the properties list l keeps a visit for

vars == <<owner, people, board, planned>>

Init ==
    /\ owner   = [l \in ListIds |-> None]
    /\ people  = [l \in ListIds |-> {}]
    /\ board   = [l \in ListIds |-> {}]
    /\ planned = [l \in ListIds |-> {}]

\* User u gets a list, with nothing on it or with the property it was opened for.
Open(u, l, ps) ==
    /\ owner[l] = None
    /\ owner'  = [owner EXCEPT ![l] = u]
    /\ people' = [people EXCEPT ![l] = {u}]
    /\ board'  = [board EXCEPT ![l] = ps]
    /\ UNCHANGED planned

Add(l, p) ==
    /\ owner[l] # None
    /\ p \notin board[l]
    /\ board' = [board EXCEPT ![l] = @ \cup {p}]
    /\ UNCHANGED <<owner, people, planned>>

Plan(l, p) ==
    /\ p \in board[l] \ planned[l]
    /\ planned' = [planned EXCEPT ![l] = @ \cup {p}]
    /\ UNCHANGED <<owner, people, board>>

Join(l, u) ==
    /\ owner[l] # None
    /\ u \notin people[l]
    /\ people' = [people EXCEPT ![l] = @ \cup {u}]
    /\ UNCHANGED <<owner, board, planned>>

Leave(l, u) ==
    /\ u \in people[l] \ {owner[l]}
    /\ people' = [people EXCEPT ![l] = @ \ {u}]
    /\ UNCHANGED <<owner, board, planned>>

Next ==
    \E l \in ListIds :
        \/ \E u \in Users : Open(u, l, {}) \/ Join(l, u) \/ Leave(l, u)
        \/ \E u \in Users, p \in Properties : Open(u, l, {p})
        \/ \E p \in Properties : Add(l, p) \/ Plan(l, p)

Spec == Init /\ [][Next]_vars
=============================================================================
