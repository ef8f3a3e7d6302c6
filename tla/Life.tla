-------------------------------- MODULE Life --------------------------------
(***************************************************************************)
(* What a game of life promises, whoever computes it and however: a board  *)
(* chosen at random is shown and replaced by its next generation, for as   *)
(* long as the window is open.  The programs that play it (LifeGame and    *)
(* LifeIr) are shown to implement this specification.                      *)
(***************************************************************************)
EXTENDS LifeRule

VARIABLES
  board,   \* the living cells
  screen,  \* the picture in the window: the colour of each cell
  phase    \* what the game does next

lifeVars == << board, screen, phase >>

Init ==
  /\ board = {}
  /\ screen = Blank
  /\ phase = "seed"

Seed ==
  /\ phase = "seed"
  /\ board' \in SUBSET Cells
  /\ phase' = "show"
  /\ UNCHANGED screen

(* The user may close the window when a picture has been shown. *)
Show ==
  /\ phase = "show"
  /\ screen' = Picture(board)
  /\ phase' \in { "evolve", "closed" }
  /\ UNCHANGED board

Evolve ==
  /\ phase = "evolve"
  /\ board' = NextGeneration(board)
  /\ phase' = "show"
  /\ UNCHANGED screen

Next == Seed \/ Show \/ Evolve

SafeSpec == Init /\ [][Next]_lifeVars

(* The game goes on: it neither stops nor skips a generation. *)
Spec == SafeSpec /\ WF_lifeVars(Next)
=============================================================================
