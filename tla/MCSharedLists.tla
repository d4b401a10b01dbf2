--------------------------- MODULE MCSharedLists ---------------------------
(* Small instances of SharedLists for TLC.                                 *)
EXTENDS SharedLists, TLC

\* Users and request slots are interchangeable.
Symmetry == Permutations(Users) \cup Permutations(Requests)
=============================================================================
