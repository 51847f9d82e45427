------------------------------ MODULE MCHaLease ------------------------------
(* Instances of HaLease for TLC.                                           *)
EXTENDS HaLease

CONSTANTS w1, w2

=============================================================================
