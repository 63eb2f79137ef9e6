--------------------------- MODULE MCTaskScheduler ---------------------------
(* A small instance of TaskScheduler for TLC. *)
EXTENDS TaskScheduler, TLC

CONSTANTS often, seldom, broken

\* One expression occurs at every time, one once; the broken one means nothing.
OccursMC == (often :> 0..MaxTime) @@ (seldom :> {2}) @@ (broken :> {})
=============================================================================
