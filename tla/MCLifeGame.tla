---------------------------- MODULE MCLifeGame ----------------------------
(***************************************************************************)
(* LifeGame for TLC, on a map wider than it is high.                       *)
(***************************************************************************)
EXTENDS LifeGame
=============================================================================
