----------------------------- MODULE MCStaking ------------------------------
(***************************************************************************)
(* Instances of Staking for TLC.  Two tokens staked at rate 1 earn one     *)
(* token in a second; the fee is nothing or half.  The proposals charge    *)
(* the fee, raise rate and minimum while they drop both delays, and raise  *)
(* the rate above its cap.                                                 *)
(***************************************************************************)
EXTENDS Staking, TLC

CONSTANTS s1, s2, k1, typo, zero

Settled == {[f \in Fields |-> CASE f \in {"fee", "min"} -> 0 [] f = "delay" -> 3
                                [] OTHER -> 1]}

Updates == {[f \in {"fee"} |-> 1],
            [f \in Fields \ {"fee"} |-> CASE f = "rate" -> 2 [] f = "min" -> 1 [] OTHER -> 0],
            [f \in {"rate"} |-> 3]}

\* Nothing tells the stakers apart.
Interchangeable == Permutations(Stakers)

=============================================================================
