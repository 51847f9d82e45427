----------------------------- MODULE MCExecutor -----------------------------
(* Instance of Executor for TLC: two callers of the attempt loop and one   *)
(* that sends a prebuilt transaction.                                      *)
EXTENDS Executor

CONSTANTS c1, c2, c3

MCCallers   == {c1, c2, c3}
MCPrebuilt  == {c3}

=============================================================================
