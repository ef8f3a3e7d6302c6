------------------------------ MODULE LifeRule ------------------------------
(***************************************************************************)
(* The map of the game of life, a torus, and the rule of the game, as a    *)
(* definition to compare its programs with.                                *)
(***************************************************************************)
EXTENDS Integers

CONSTANTS MAP_WIDTH, MAP_HEIGHT

ASSUME MapAssumption ==
  /\ MAP_WIDTH \in Nat \ {0}
  /\ MAP_HEIGHT \in Nat \ {0}

Rows  == 0 .. MAP_HEIGHT - 1
Cols  == 0 .. MAP_WIDTH - 1
Cells == Rows \X Cols

(* The neighbours of a cell are the eight around it, counted as often as   *)
(* they occur there.                                                       *)
One(b, y, x) == IF << y % MAP_HEIGHT, x % MAP_WIDTH >> \in b THEN 1 ELSE 0

Neighbours(b, c) ==
  LET y == c[1]
      x == c[2]
  IN  One(b, y - 1, x - 1) + One(b, y - 1, x) + One(b, y - 1, x + 1)
        + One(b, y, x - 1) + One(b, y, x + 1)
        + One(b, y + 1, x - 1) + One(b, y + 1, x) + One(b, y + 1, x + 1)

(* Survival with two or three neighbours, birth with three. *)
Lives(alive, n) == n = 3 \/ (alive /\ n = 2)

NextGeneration(b) == { c \in Cells : Lives(c \in b, Neighbours(b, c)) }

(* A living cell has the colour of the number of its neighbours, which is  *)
(* the index of that colour.                                               *)
Background == 9
Picture(b) == [ c \in Cells |-> IF c \in b THEN Neighbours(b, c) ELSE Background ]
Blank      == [ c \in Cells |-> Background ]
=============================================================================
