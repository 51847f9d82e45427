----------------------------- MODULE MCFlagSync -----------------------------
(***************************************************************************)
(* Instances of FlagSync for TLC: two replicas, one module, two requests.  *)
(***************************************************************************)
EXTENDS FlagSync

CONSTANT sniper

MCTrading == <<sniper>>
=============================================================================
