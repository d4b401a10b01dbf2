---------------------------- MODULE MCWebSession ----------------------------
(* Small instances of WebSession for TLC.                                  *)
EXTENDS WebSession

CONSTANT Spare  \* the token that is there when no page calls the API

VARIABLE usesPages  \* whether the pages of the behaviour call the API

Small == IF usesPages THEN tokens[Spare] = "revoked"
         ELSE \A t \in Tabs, c \in PageCalls : call[t][c].pc = "idle"

MCInit == Init /\ usesPages \in BOOLEAN

MCNext == NextUnhurried /\ UNCHANGED usesPages /\ Small'

MCSpec == MCInit /\ [][MCNext]_<<vars, usesPages>> /\ Fairness
=============================================================================
