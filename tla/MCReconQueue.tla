---------------------------- MODULE MCReconQueue ----------------------------
(* Instance of ReconQueue for TLC: the workers of three replicas.          *)
EXTENDS ReconQueue

CONSTANTS w1, w2, w3

MCWorkers == {w1, w2, w3}

=============================================================================
