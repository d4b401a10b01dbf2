-------------------------- MODULE MCPropertyStore --------------------------
(* Two listings, two jobs at once, MaxStarted in all, and readings that     *)
(* differ in both columns, so that a row can be torn; one of them is thin.  *)
EXTENDS PropertyStore

CONSTANT MaxStarted

VARIABLE started

Reading(price, rooms) == [c \in {"price", "rooms"} |-> IF c = "price" THEN price ELSE rooms]

MCReadings == {Reading(1, 1), Reading(2, 2), Reading(None, 2)}

Stored(source, score) == [data |-> Reading(1, 1), source |-> source, score |-> score]

MCFirstRows ==
    [Keys -> {None, Stored("external", Reading(1, 1)), Stored("external", None)}]

MCInit == Init /\ started = 0

Busy == \E j \in Jobs : job[j].pc # "idle"

MCNext ==
    \/ /\ Next
       /\ started' = started + Cardinality({j \in Jobs : job[j].pc = "idle" /\ job'[j].pc # "idle"})
       /\ started' <= MaxStarted
    \/ ~Busy /\ started = MaxStarted /\ UNCHANGED <<vars, started>>

MCSpec == MCInit /\ [][MCNext]_<<vars, started>> /\ Fairness
=============================================================================
