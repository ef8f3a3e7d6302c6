------------------------------ MODULE MCLifeIr ------------------------------
(***************************************************************************)
(* LifeIr for TLC, on a map wider than it is high.                         *)
(***************************************************************************)
EXTENDS LifeIr
=============================================================================
