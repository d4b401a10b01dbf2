-------------------------- MODULE MCListMigration --------------------------
(* Small instances of ListMigration for TLC.                               *)
EXTENDS ListMigration, TLC

\* Request slots are interchangeable.  So are item keys: a new item takes one that is
\* free, and free keys occur nowhere else.  The migration chooses lists for users.
Symmetry == Permutations(Requests) \cup Permutations(ItemIds)
=============================================================================
