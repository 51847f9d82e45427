-------------------------- MODULE MCRiskAdmission --------------------------
(* Instance of RiskAdmission for TLC: two modules in one process, a third  *)
(* in another; entries of one or two units.                                *)
EXTENDS RiskAdmission, TLC

CONSTANTS e1, e2, e3, r1, r2

MCHomeOf == e1 :> r1 @@ e2 :> r2 @@ e3 :> r1
MCSize   == e1 :> 1 @@ e2 :> 1 @@ e3 :> 2

=============================================================================
