------------------------------- MODULE LifeIr -------------------------------
(***************************************************************************)
(* The game of life that irgen/main.cpp builds out of LLVM instructions: a *)
(* step per basic block.  Its functions share one skeleton of blocks, two  *)
(* nested loops whose variables i and j live in allocas.  A block that     *)
(* works on a cell does not read them again: it uses the values ival and   *)
(* jval that the block of the loop's condition has loaded.                 *)
(*                                                                         *)
(* A colour is its index in @color_scheme.  sim_rand is a choice, bounded  *)
(* by MaxSeeds, and so is the moment the user closes the window.           *)
(***************************************************************************)
EXTENDS LifeRule, Sequences, FiniteSets

CONSTANT MaxSeeds   \* cells alive at first, at most

VARIABLES
  stack,            \* the activations of functions, main's first
  is_alive,         \* %struct.map_t
  neighbour_count,
  hidden,           \* the hidden buffer of the window
  shown             \* what the window shows

vars == << stack, is_alive, neighbour_count, hidden, shown >>

Undefined == 255   \* what an alloca, or a value not yet computed, holds

(* An activation: its block, its two allocas, the values it has loaded.    *)
Enter(fn, bb) ==
  [ fn |-> fn, bb |-> bb, i |-> Undefined, j |-> Undefined,
    ival |-> Undefined, jval |-> Undefined ]

Top  == stack[Len(stack)]
Cell == << Top.ival, Top.jval >>
At(bb)     == stack # << >> /\ Top.bb = bb
In(fn, bb) == At(bb) /\ Top.fn = fn

Assign(frame) == stack' = [ stack EXCEPT ![Len(stack)] = frame ]
Branch(bb)    == Assign([ Top EXCEPT !.bb = bb ])

(* Call fn and go on in the block after, then. *)
Call(fn, after) ==
  stack' = Append([ stack EXCEPT ![Len(stack)].bb = after ], Enter(fn, "entry"))
Ret == stack' = SubSeq(stack, 1, Len(stack) - 1)

-----------------------------------------------------------------------------
(* The skeleton *)

Entry ==
  /\ At("entry") /\ Len(stack) > 1
  /\ Assign([ Top EXCEPT !.i = 0, !.bb = "cond_i" ])
  /\ UNCHANGED << is_alive, neighbour_count, hidden, shown >>

CondI ==
  /\ At("cond_i")
  /\ Assign([ Top EXCEPT !.ival = Top.i,
                         !.bb = IF Top.i < MAP_HEIGHT THEN "loop_i" ELSE "exit_i" ])
  /\ UNCHANGED << is_alive, neighbour_count, hidden, shown >>

LoopI ==
  /\ At("loop_i")
  /\ Assign([ Top EXCEPT !.j = 0, !.bb = "cond_j" ])
  /\ UNCHANGED << is_alive, neighbour_count, hidden, shown >>

(* Seeded fault: the loop tests the value before the one it has. *)
CondJTooLate ==
  /\ At("cond_j")
  /\ Assign([ Top EXCEPT !.jval = Top.j,
                         !.bb = IF Top.j <= MAP_WIDTH THEN "loop_j" ELSE "exit_j" ])
  /\ UNCHANGED << is_alive, neighbour_count, hidden, shown >>

CondJ ==
  /\ At("cond_j")
  /\ Assign([ Top EXCEPT !.jval = Top.j,
                         !.bb = IF Top.j < MAP_WIDTH THEN "loop_j" ELSE "exit_j" ])
  /\ UNCHANGED << is_alive, neighbour_count, hidden, shown >>

(* The end of a block that has worked on a cell: jval + 1 is stored. *)
IncrementJ == Assign([ Top EXCEPT !.j = Top.jval + 1, !.bb = "cond_j" ])

ExitJ ==
  /\ At("exit_j")
  /\ Assign([ Top EXCEPT !.i = Top.ival + 1, !.bb = "cond_i" ])
  /\ UNCHANGED << is_alive, neighbour_count, hidden, shown >>

(* Seeded fault: the callers are expected to count the neighbours. *)
ExitIWithoutCall ==
  /\ At("exit_i") /\ Ret
  /\ UNCHANGED << is_alive, neighbour_count, hidden, shown >>

(* All but update_neighbour_count itself end with a call to it, draw_map   *)
(* needlessly.                                                             *)
ExitI ==
  /\ At("exit_i")
  /\ IF Top.fn = "update_neighbour_count" THEN Ret
     ELSE Call("update_neighbour_count", "ret")
  /\ UNCHANGED << is_alive, neighbour_count, hidden, shown >>

Return ==
  /\ At("ret") /\ Ret
  /\ UNCHANGED << is_alive, neighbour_count, hidden, shown >>

-----------------------------------------------------------------------------
(* The work on a cell *)

Alive == { c \in Cells : is_alive[c] = 1 }

init_map ==
  /\ In("init_map", "loop_j")
  /\ \E alive \in IF Cardinality(Alive) < MaxSeeds THEN { 0, 1 } ELSE { 0 } :
       is_alive' = [ is_alive EXCEPT ![Cell] = alive ]
  /\ IncrementJ
  /\ UNCHANGED << neighbour_count, hidden, shown >>

(* Seeded fault: the index of the row below is not reduced. *)
LastRowIdx == IF Top.ival + 1 < MAP_HEIGHT THEN Top.ival + 1 ELSE Top.ival

LeftIdx   == (Top.jval + (MAP_WIDTH - 1)) % MAP_WIDTH
RightIdx  == (Top.jval + 1) % MAP_WIDTH
TopIdx    == (Top.ival + (MAP_HEIGHT - 1)) % MAP_HEIGHT
BottomIdx == (Top.ival + 1) % MAP_HEIGHT

update_neighbour_count ==
  /\ In("update_neighbour_count", "loop_j")
  /\ LET Tmp12 == (is_alive[<<TopIdx, LeftIdx>>] + is_alive[<<TopIdx, Top.jval>>])
                    + (is_alive[<<TopIdx, RightIdx>>] + is_alive[<<Top.ival, LeftIdx>>])
         Tmp34 == (is_alive[<<Top.ival, RightIdx>>] + is_alive[<<BottomIdx, LeftIdx>>])
                    + (is_alive[<<BottomIdx, Top.jval>>] + is_alive[<<BottomIdx, RightIdx>>])
     IN  neighbour_count' = [ neighbour_count EXCEPT ![Cell] = Tmp12 + Tmp34 ]
  /\ IncrementJ
  /\ UNCHANGED << is_alive, hidden, shown >>

(* Seeded fault: a living cell survives with three neighbours only. *)
SetAliveByThree(alive, n) == (alive /\ n = 3) \/ (~alive /\ n = 3)

SetAlive(alive, n) == (alive /\ n = 2) \/ (alive /\ n = 3) \/ (~alive /\ n = 3)

update_map ==
  /\ In("update_map", "loop_j")
  /\ is_alive' = [ is_alive EXCEPT ![Cell] =
                     IF SetAlive(@ # 0, neighbour_count[Cell]) THEN 1 ELSE 0 ]
  /\ IncrementJ
  /\ UNCHANGED << neighbour_count, hidden, shown >>

draw_map ==
  /\ In("draw_map", "loop_j")
  /\ Branch(IF is_alive[Cell] # 0 THEN "draw" ELSE "inc_j")
  /\ UNCHANGED << is_alive, neighbour_count, hidden, shown >>

Draw ==
  /\ At("draw")
  /\ hidden' = [ hidden EXCEPT ![Cell] = neighbour_count[Cell] ]
  /\ Branch("inc_j")
  /\ UNCHANGED << is_alive, neighbour_count, shown >>

IncJ ==
  /\ At("inc_j")
  /\ IncrementJ
  /\ UNCHANGED << is_alive, neighbour_count, hidden, shown >>

-----------------------------------------------------------------------------
(* The blocks of main, cut at its calls *)

Main ==
  /\ Len(stack) = 1
  /\ \/ /\ At("entry") /\ Call("init_map", "loop")
        /\ UNCHANGED << hidden, shown >>
     \/ /\ At("loop") /\ Call("draw_map", "display")
        /\ hidden' = Blank
        /\ UNCHANGED shown
     \/ /\ At("display")
        /\ shown' = hidden
        /\ stack' \in { << Enter("main", "update") >>, << >> }
        /\ UNCHANGED hidden
     \/ /\ At("update") /\ Call("update_map", "loop")
        /\ UNCHANGED << hidden, shown >>
  /\ UNCHANGED << is_alive, neighbour_count >>

Init ==
  /\ stack = << Enter("main", "entry") >>
  /\ is_alive = [ c \in Cells |-> Undefined ]
  /\ neighbour_count = [ c \in Cells |-> Undefined ]
  /\ hidden = Blank
  /\ shown = Blank

Step ==
  \/ Entry \/ CondI \/ LoopI \/ CondJ \/ ExitJ \/ ExitI \/ Return
  \/ init_map \/ update_neighbour_count \/ update_map \/ draw_map \/ Draw \/ IncJ
  \/ Main

Exited == stack = << >> /\ UNCHANGED vars

Next == Step \/ Exited

(* One thread, which waits for nothing but the display. *)
Spec == Init /\ [][Next]_vars /\ WF_vars(Step)

-----------------------------------------------------------------------------
Blocks == { "entry", "cond_i", "loop_i", "cond_j", "loop_j", "draw", "inc_j", "exit_j",
            "exit_i", "ret", "loop", "display", "update" }

(* The type invariant.  In particular a count is an index of @color_scheme.*)
TypeOK ==
  /\ Len(stack) \in 0 .. 3
  /\ \A k \in 1 .. Len(stack) :
       /\ stack[k].bb \in Blocks
       /\ { stack[k].i, stack[k].ival } \subseteq 0 .. MAP_HEIGHT \cup { Undefined }
       /\ { stack[k].j, stack[k].jval } \subseteq 0 .. MAP_WIDTH \cup { Undefined }
  /\ is_alive \in [ Cells -> { 0, 1, Undefined } ]
  /\ neighbour_count \in [ Cells -> 0 .. 8 \cup { Undefined } ]
  /\ hidden \in [ Cells -> 0 .. Background ]
  /\ shown \in [ Cells -> 0 .. Background ]

(* The values a block works with were loaded by another block, on every    *)
(* path to it: they are defined, they are what the allocas still hold, and *)
(* they are indices of the map, without which inbounds would be undefined  *)
(* behaviour.                                                              *)
IndicesAreCurrent ==
  \A k \in 2 .. Len(stack) :
    LET f == stack[k]
    IN  /\ f.bb \in { "loop_i", "cond_j", "loop_j", "draw", "inc_j", "exit_j" } =>
             f.ival = f.i /\ f.ival \in Rows
        /\ f.bb \in { "loop_j", "draw", "inc_j" } => f.jval = f.j /\ f.jval \in Cols

(* The cells that the loops of the activation f have passed. *)
Passed(f, c) ==
  /\ f.bb # "entry"
  /\ \/ f.bb \in { "exit_i", "ret" }
     \/ c[1] < f.i
     \/ c[1] = f.i /\ f.bb = "exit_j"
     \/ c[1] = f.i /\ f.bb \notin { "cond_i", "loop_i" } /\ c[2] < f.j

Activations(fn) == { k \in 1 .. Len(stack) : stack[k].fn = fn }
Updating(k) == Passed(stack[k], << 0, 0 >>)

Phase ==
  IF stack = << >> THEN "closed"
  ELSE IF Activations("init_map") # {} \/ stack[1].bb = "entry" THEN "seed"
  ELSE IF \/ stack[1].bb = "update"
          \/ \E k \in Activations("update_map") : ~Updating(k) THEN "evolve"
  ELSE "show"

(* The board, also in the middle of update_map. *)
Board ==
  LET updates == { k \in Activations("update_map") : Updating(k) }
  IN  IF Phase = "seed" THEN {}
      ELSE IF updates = {} THEN Alive
      ELSE { c \in Cells : IF \A k \in updates : Passed(stack[k], c)
                             THEN c \in Alive
                             ELSE Lives(c \in Alive, neighbour_count[c]) }

(* The program that irgen builds plays the game: its pictures are whole    *)
(* generations, each follows from the one before by the rule, and they are *)
(* shown until the window is closed.                                       *)
Game ==
  INSTANCE Life WITH
    board  <- Board,
    screen <- shown,
    phase  <- Phase

PlaysLife == Game!Spec
=============================================================================
