--------------------------- MODULE MCTaskDispatch ---------------------------
(* Small instances of TaskDispatch for TLC. *)
EXTENDS TaskDispatch

CONSTANTS r1, r2, b1

\* All runs are targets of one task.
OneBatch == [r \in Runs |-> b1]
=============================================================================
