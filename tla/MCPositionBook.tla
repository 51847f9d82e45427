--------------------------- MODULE MCPositionBook ---------------------------
(* Instance of PositionBook for TLC: replicas, the first of them the opener. *)
EXTENDS PositionBook

CONSTANTS r1, r2

=============================================================================
