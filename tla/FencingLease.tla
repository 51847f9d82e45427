----------------------------- MODULE FencingLease -----------------------------
(***************************************************************************)
(* What an execution-claim store promises its callers, whatever backend it *)
(* runs on: numbered grants (the fencing token of ownership.rs), at most   *)
(* one of them live, each number granted once and never revived.           *)
(***************************************************************************)
EXTENDS Naturals

VARIABLES
    token,   \* the newest token granted (0 = none yet)
    active   \* the newest token is still entitled to act

lvars == <<token, active>>

Init == token = 0 /\ active = FALSE

\* A new owner is admitted only when the previous grant is dead.
Grant ==
    /\ active = FALSE
    /\ token' = token + 1
    /\ active' = TRUE

\* The grant dies: its lease lapses, or its owner gives it up.
Lapse ==
    /\ active = TRUE
    /\ active' = FALSE
    /\ UNCHANGED token

Next == Grant \/ Lapse

Spec == Init /\ [][Next]_lvars

=============================================================================
