---------------------------- MODULE LifeIrProofs ----------------------------
(***************************************************************************)
(* Theorems about the game that irgen builds, for maps of every width and  *)
(* height: the values that one block loads and another uses are the ones   *)
(* it should use, nothing undefined is read, and the program implements    *)
(* Life.  The inductive invariant says which activations there can be and, *)
(* for each place in them, what has been written and counted so far.       *)
(***************************************************************************)
EXTENDS LifeIr, SequenceTheorems, TLAPS

Functions == { "main", "init_map", "update_map", "draw_map", "update_neighbour_count" }

Frame ==
  [ fn : Functions, bb : Blocks,
    i : 0 .. MAP_HEIGHT \cup { Undefined }, j : 0 .. MAP_WIDTH \cup { Undefined },
    ival : 0 .. MAP_HEIGHT \cup { Undefined }, jval : 0 .. MAP_WIDTH \cup { Undefined } ]

(* An activation of a function with loops. *)
Looping(f) ==
  /\ f \in Frame /\ f.fn # "main"
  /\ f.bb \notin { "loop", "display", "update" }
  /\ f.bb \in { "draw", "inc_j" } => f.fn = "draw_map"
  /\ f.bb # "entry" => f.i \in 0 .. MAP_HEIGHT
  /\ f.bb \in { "loop_i", "cond_j", "loop_j", "draw", "inc_j", "exit_j" } =>
       f.ival = f.i /\ f.ival \in Rows
  /\ f.bb \in { "cond_j", "loop_j", "draw", "inc_j", "exit_j" } => f.j \in 0 .. MAP_WIDTH
  /\ f.bb \in { "loop_j", "draw", "inc_j" } => f.jval = f.j /\ f.jval \in Cols

(* main calls one of three functions, each of which ends with a call.      *)
Shape ==
  /\ stack \in Seq(Frame)
  /\ Len(stack) \in 0 .. 3
  /\ Len(stack) >= 1 => stack[1].fn = "main" /\ stack[1].bb \in { "entry", "loop", "display", "update" }
  /\ Len(stack) >= 2 =>
       /\ Looping(stack[2]) /\ stack[2].fn # "update_neighbour_count"
       /\ stack[1].bb = IF stack[2].fn = "draw_map" THEN "display" ELSE "loop"
  /\ Len(stack) = 3 =>
       /\ Looping(stack[3]) /\ stack[3].fn = "update_neighbour_count"
       /\ stack[3].bb # "ret" /\ stack[2].bb = "ret"

Started == stack = << >> \/ stack[1].bb # "entry"

(* The activation that main has called, if its function is fn. *)
Calls(fn) == Len(stack) >= 2 /\ stack[2].fn = fn

(* The cell c of the map has been set; it has been counted since. *)
IsSet(c) == Started /\ (Calls("init_map") => Passed(stack[2], c))

IsCounted(c) ==
  /\ Started
  /\ Len(stack) = 2 /\ stack[2].bb # "ret" => stack[2].fn # "init_map"
  /\ Len(stack) = 3 /\ stack[2].fn = "init_map" => Passed(stack[3], c)

(* No cell has been overwritten since the count of c was taken. *)
IsFresh(c) ==
  /\ IsCounted(c)
  /\ Len(stack) = 2 /\ stack[2].bb # "ret" /\ stack[2].fn = "update_map" => ~Updating(2)
  /\ Len(stack) = 3 /\ stack[2].fn = "update_map" => Passed(stack[3], c)

MapIsTyped ==
  /\ is_alive \in [ Cells -> { 0, 1, Undefined } ]
  /\ neighbour_count \in [ Cells -> 0 .. 8 \cup { Undefined } ]
  /\ hidden \in [ Cells -> 0 .. Background ]
  /\ shown \in [ Cells -> 0 .. Background ]

MapIsWritten ==
  \A c \in Cells :
    /\ IsSet(c) => is_alive[c] \in { 0, 1 }
    /\ IsCounted(c) => neighbour_count[c] \in 0 .. 8
    /\ IsFresh(c) => neighbour_count[c] = Neighbours(Alive, c)

(* What has been drawn. *)
IsDrawn(f, c) == Passed(f, c) \/ (f.bb = "inc_j" /\ c = << f.i, f.j >>)

Drawn ==
  /\ Calls("draw_map") =>
       /\ \A c \in Cells :
            hidden[c] = IF IsDrawn(stack[2], c) /\ c \in Alive THEN neighbour_count[c] ELSE Background
       /\ stack[2].bb = "draw" => << stack[2].i, stack[2].j >> \in Alive
  /\ Len(stack) = 1 /\ stack[1].bb = "display" => hidden = Picture(Alive)

IInv == Shape /\ MapIsTyped /\ MapIsWritten /\ Drawn
-----------------------------------------------------------------------------
(* The stack *)

LEMMA TopFrame ==
  ASSUME Shape, stack # << >>
  PROVE  /\ Len(stack) \in 1 .. 3 /\ Top = stack[Len(stack)] /\ Top \in Frame
         /\ \A k \in 1 .. Len(stack) : stack[k] \in Frame
<1>1. stack \in Seq(Frame) /\ Len(stack) \in 1 .. 3
  BY EmptySeq, LenProperties DEF Shape
<1>2. \A k \in 1 .. Len(stack) : stack[k] \in Frame
  BY <1>1, ElementOfSeq
<1> QED
  BY <1>1, <1>2 DEF Top

LEMMA AssignStep ==
  ASSUME Shape, stack # << >>, NEW f \in Frame, Assign(f)
  PROVE  /\ stack' \in Seq(Frame) /\ Len(stack') = Len(stack)
         /\ stack'[Len(stack)] = f
         /\ \A k \in 1 .. Len(stack) - 1 : stack'[k] = stack[k]
<1>1. stack \in Seq(Frame) /\ Len(stack) \in 1 .. 3
  BY TopFrame DEF Shape
<1>2. stack' = [ stack EXCEPT ![Len(stack)] = f ]
  BY DEF Assign
<1> QED
  BY <1>1, <1>2, ExceptSeq

LEMMA CallStep ==
  ASSUME Shape, stack # << >>, NEW fn \in Functions, NEW after \in Blocks, Call(fn, after)
  PROVE  /\ stack' \in Seq(Frame) /\ Len(stack') = Len(stack) + 1
         /\ stack'[Len(stack) + 1] = Enter(fn, "entry")
         /\ Enter(fn, "entry") \in Frame
         /\ stack'[Len(stack)] = [ Top EXCEPT !.bb = after ]
         /\ \A k \in 1 .. Len(stack) - 1 : stack'[k] = stack[k]
<1>1. stack \in Seq(Frame) /\ Len(stack) \in 1 .. 3 /\ Top \in Frame /\ Top = stack[Len(stack)]
  BY TopFrame DEF Shape
<1>2. Enter(fn, "entry") \in Frame /\ [ Top EXCEPT !.bb = after ] \in Frame
  BY <1>1 DEF Enter, Frame, Blocks
<1> DEFINE resumed == [ stack EXCEPT ![Len(stack)] = [ Top EXCEPT !.bb = after ] ]
<1>3. resumed = [ stack EXCEPT ![Len(stack)].bb = after ]
  BY <1>1
<1>4. /\ resumed \in Seq(Frame) /\ Len(resumed) = Len(stack)
      /\ resumed[Len(stack)] = [ Top EXCEPT !.bb = after ]
      /\ \A k \in 1 .. Len(stack) - 1 : resumed[k] = stack[k]
  BY <1>1, <1>2, ExceptSeq
<1>5. stack' = Append(resumed, Enter(fn, "entry"))
  BY <1>3 DEF Call
<1> HIDE DEF resumed
<1> QED
  BY <1>1, <1>2, <1>4, <1>5, AppendProperties

LEMMA RetStep ==
  ASSUME Shape, stack # << >>, Ret
  PROVE  /\ stack' \in Seq(Frame) /\ Len(stack') = Len(stack) - 1
         /\ \A k \in 1 .. Len(stack) - 1 : stack'[k] = stack[k]
<1>1. stack \in Seq(Frame) /\ Len(stack) \in 1 .. 3
  BY TopFrame DEF Shape
<1>2. stack' = SubSeq(stack, 1, Len(stack) - 1)
  BY DEF Ret
<1>3. /\ 1 \in Int /\ Len(stack) - 1 \in Int
      /\ \A k \in 1 .. Len(stack) - 1 : stack[k] \in Frame /\ 1 + k - 1 = k
      /\ (Len(stack) - 1) - 1 + 1 = Len(stack) - 1
  BY <1>1, TopFrame
<1>4. /\ SubSeq(stack, 1, Len(stack) - 1) \in Seq(Frame)
      /\ Len(SubSeq(stack, 1, Len(stack) - 1)) = Len(stack) - 1
      /\ \A k \in 1 .. Len(stack) - 1 : SubSeq(stack, 1, Len(stack) - 1)[k] = stack[k]
  BY <1>1, <1>3, SubSeqProperties
<1> QED
  BY <1>2, <1>4

-----------------------------------------------------------------------------
(* The loops *)

(* The blocks without work move from cell to cell and pass none. *)
LEMMA SkeletonPassesNone ==
  ASSUME NEW f, Looping(f), NEW g,
         \/ f.bb = "entry" /\ g = [ f EXCEPT !.i = 0, !.bb = "cond_i" ]
         \/ f.bb = "cond_i" /\ g = [ f EXCEPT !.ival = f.i,
                                 !.bb = IF f.i < MAP_HEIGHT THEN "loop_i" ELSE "exit_i" ]
         \/ f.bb = "loop_i" /\ g = [ f EXCEPT !.j = 0, !.bb = "cond_j" ]
         \/ f.bb = "cond_j" /\ g = [ f EXCEPT !.jval = f.j,
                                 !.bb = IF f.j < MAP_WIDTH THEN "loop_j" ELSE "exit_j" ]
         \/ f.bb = "exit_j" /\ g = [ f EXCEPT !.i = f.ival + 1, !.bb = "cond_i" ]
  PROVE  /\ Looping(g) /\ g.fn = f.fn /\ g.bb \notin { "ret", "draw", "inc_j" }
         /\ \A c \in Cells : Passed(g, c) <=> Passed(f, c)
<1>1. \A c \in Cells : c[1] \in Rows /\ c[2] \in Cols
  BY DEF Cells
<1>2. /\ f \in Frame /\ MAP_HEIGHT \in Nat \ {0} /\ MAP_WIDTH \in Nat \ {0}
      /\ 0 \in 0 .. MAP_HEIGHT /\ 0 \in 0 .. MAP_WIDTH
  BY MapAssumption DEF Looping
<1>3. { "cond_i", "loop_i", "exit_i", "cond_j", "loop_j", "exit_j" } \subseteq Blocks
  BY DEF Blocks
<1>4. CASE f.bb = "entry" /\ g = [ f EXCEPT !.i = 0, !.bb = "cond_i" ]
  <2>1. g \in Frame /\ g.i = 0 /\ g.bb = "cond_i" /\ g.fn = f.fn
    BY <1>2, <1>3, <1>4 DEF Frame
  <2> QED
    BY <1>1, <1>2, <1>4, <2>1 DEF Looping, Passed, Rows
<1>5. CASE f.bb = "cond_i" /\ g = [ f EXCEPT !.ival = f.i,
                                 !.bb = IF f.i < MAP_HEIGHT THEN "loop_i" ELSE "exit_i" ]
  <2>1. f.i \in 0 .. MAP_HEIGHT
    BY <1>5 DEF Looping
  <2>2. /\ g \in Frame /\ g.i = f.i /\ g.ival = f.i /\ g.j = f.j /\ g.fn = f.fn
        /\ g.bb = IF f.i < MAP_HEIGHT THEN "loop_i" ELSE "exit_i"
    BY <1>2, <1>3, <1>5, <2>1 DEF Frame
  <2> QED
    BY <1>1, <1>2, <1>5, <2>1, <2>2 DEF Looping, Passed, Rows
<1>6. CASE f.bb = "loop_i" /\ g = [ f EXCEPT !.j = 0, !.bb = "cond_j" ]
  <2>1. g \in Frame /\ g.i = f.i /\ g.ival = f.ival /\ g.j = 0 /\ g.bb = "cond_j" /\ g.fn = f.fn
    BY <1>2, <1>3, <1>6 DEF Frame
  <2> QED
    BY <1>1, <1>2, <1>6, <2>1 DEF Looping, Passed, Rows, Cols
<1>7. CASE f.bb = "cond_j" /\ g = [ f EXCEPT !.jval = f.j,
                                 !.bb = IF f.j < MAP_WIDTH THEN "loop_j" ELSE "exit_j" ]
  <2>1. f.i \in Rows /\ f.ival = f.i /\ f.j \in 0 .. MAP_WIDTH
    BY <1>7 DEF Looping
  <2>2. /\ g \in Frame /\ g.i = f.i /\ g.ival = f.ival /\ g.j = f.j /\ g.jval = f.j /\ g.fn = f.fn
        /\ g.bb = IF f.j < MAP_WIDTH THEN "loop_j" ELSE "exit_j"
    BY <1>2, <1>3, <1>7, <2>1 DEF Frame
  <2> QED
    BY <1>1, <1>2, <1>7, <2>1, <2>2 DEF Looping, Passed, Rows, Cols
<1>8. CASE f.bb = "exit_j" /\ g = [ f EXCEPT !.i = f.ival + 1, !.bb = "cond_i" ]
  <2>1. f.i \in Rows /\ f.ival = f.i /\ f.i + 1 \in 0 .. MAP_HEIGHT
    BY <1>2, <1>8 DEF Looping, Rows
  <2>2. g \in Frame /\ g.i = f.i + 1 /\ g.bb = "cond_i" /\ g.fn = f.fn
    BY <1>2, <1>3, <1>8, <2>1 DEF Frame
  <2> QED
    BY <1>1, <1>2, <1>8, <2>1, <2>2 DEF Looping, Passed, Rows, Cols
<1> QED
  BY <1>4, <1>5, <1>6, <1>7, <1>8

(* A block that has worked on a cell passes it. *)
Incremented(f) == [ f EXCEPT !.j = f.jval + 1, !.bb = "cond_j" ]

LEMMA IncrementPasses ==
  ASSUME NEW f, Looping(f), f.bb \in { "loop_j", "inc_j" }
  PROVE  /\ Looping(Incremented(f)) /\ Incremented(f).fn = f.fn /\ Incremented(f).bb = "cond_j"
         /\ << f.ival, f.jval >> \in Cells
         /\ ~Passed(f, << f.ival, f.jval >>)
         /\ \A c \in Cells : Passed(Incremented(f), c) <=> Passed(f, c) \/ c = << f.ival, f.jval >>
         /\ Passed(Incremented(f), << 0, 0 >>)
<1> DEFINE g == Incremented(f)
<1>1. \A c \in Cells : c[1] \in Rows /\ c[2] \in Cols /\ c = << c[1], c[2] >>
  BY DEF Cells
<1>2. /\ f.ival \in Rows /\ f.jval \in Cols /\ f.i = f.ival /\ f.j = f.jval
      /\ << f.ival, f.jval >> \in Cells
  BY DEF Looping, Cells
<1>3. /\ g.i = f.ival /\ g.j = f.jval + 1 /\ g.bb = "cond_j" /\ g.fn = f.fn /\ Looping(g)
  <2>1. f \in Frame /\ "cond_j" \in Blocks /\ f.jval + 1 \in 0 .. MAP_WIDTH
    BY <1>2, MapAssumption DEF Looping, Blocks, Cols
  <2>2. /\ g \in Frame /\ g.i = f.ival /\ g.ival = f.ival /\ g.j = f.jval + 1 /\ g.bb = "cond_j"
        /\ g.fn = f.fn
    BY <1>2, <2>1 DEF Frame, Incremented
  <2> HIDE DEF g
  <2> QED
    BY <1>2, <2>1, <2>2, MapAssumption DEF Looping, Rows
<1> HIDE DEF g
<1>4. \A c \in Cells : Passed(g, c) <=> Passed(f, c) \/ (c[1] = f.ival /\ c[2] = f.jval)
  BY <1>1, <1>2, <1>3, MapAssumption DEF Passed, Rows, Cols
<1>5. ~Passed(f, << f.ival, f.jval >>) /\ Passed(g, << 0, 0 >>)
  BY <1>2, <1>3, MapAssumption DEF Passed, Rows, Cols
<1> USE DEF g
<1> QED
  BY <1>1, <1>2, <1>3, <1>4, <1>5

-----------------------------------------------------------------------------
(* The activation that works is one of a function with loops, unless it is *)
(* main's.                                                                 *)
LEMMA InLoop ==
  ASSUME Shape, stack # << >>,
         Len(stack) >= 2 \/ Top.bb \notin { "entry", "loop", "display", "update" }
  PROVE  /\ Looping(Top) /\ Top \in Frame /\ Top = stack[Len(stack)] /\ Started
         /\ \/ Len(stack) = 2 /\ Top.fn # "update_neighbour_count"
            \/ Len(stack) = 3 /\ Top.fn = "update_neighbour_count" /\ Top.bb # "ret" /\ stack[2].bb = "ret"
<1>1. Len(stack) \in 1 .. 3 /\ Top = stack[Len(stack)] /\ Top \in Frame
  BY TopFrame
<1>2. Len(stack) # 1
  BY <1>1 DEF Shape
<1>3. Len(stack) = 2 \/ Len(stack) = 3
  BY <1>1, <1>2
<1> QED
  BY <1>1, <1>3 DEF Shape, Started

(* An assignment to the activation that works leaves the others alone.     *)
LEMMA AssignKeepsShape ==
  ASSUME Shape, stack # << >>, Len(stack) >= 2, NEW g, Looping(g), Assign(g),
         g.fn = Top.fn, g.bb # "ret"
  PROVE  /\ Shape' /\ Len(stack') = Len(stack) /\ stack'[1] = stack[1] /\ Started'
         /\ Len(stack) = 2 => stack[2] = Top /\ stack'[2] = g
         /\ Len(stack) = 3 => stack[3] = Top /\ stack'[3] = g /\ stack'[2] = stack[2]
<1>1. g \in Frame
  BY DEF Looping
<1>2. /\ stack' \in Seq(Frame) /\ Len(stack') = Len(stack) /\ stack'[Len(stack)] = g
      /\ \A k \in 1 .. Len(stack) - 1 : stack'[k] = stack[k]
  BY <1>1, AssignStep
<1>3. \/ Len(stack) = 2 /\ Top.fn # "update_neighbour_count"
      \/ Len(stack) = 3 /\ Top.fn = "update_neighbour_count" /\ stack[2].bb = "ret"
  BY InLoop
<1>4. Top = stack[Len(stack)] /\ Started
  BY InLoop
<1>5. CASE Len(stack) = 2
  <2>1. Len(stack') = 2 /\ stack'[2] = g /\ stack'[1] = stack[1] /\ stack[2] = Top
    BY <1>2, <1>4, <1>5
  <2> QED
    BY <1>2, <1>3, <1>4, <1>5, <2>1 DEF Shape, Started
<1>6. CASE Len(stack) = 3
  <2>1. /\ Len(stack') = 3 /\ stack'[3] = g /\ stack'[2] = stack[2] /\ stack'[1] = stack[1]
        /\ stack[3] = Top
    BY <1>2, <1>4, <1>6
  <2> QED
    BY <1>2, <1>3, <1>4, <1>6, <2>1 DEF Shape, Started
<1> QED
  BY <1>3, <1>5, <1>6

(* A step that works on no cell. *)
LEMMA MoveKeeps ==
  ASSUME IInv, stack # << >>, Len(stack) >= 2, Top.bb # "ret",
         NEW g, Looping(g), Assign(g), g.fn = Top.fn, g.bb # "ret",
         UNCHANGED << is_alive, neighbour_count, hidden, shown >>,
         Top.fn # "draw_map" => \A c \in Cells : Passed(g, c) <=> Passed(Top, c),
         Top.fn = "draw_map" => \A c \in Alive : IsDrawn(g, c) <=> IsDrawn(Top, c),
         g.bb = "draw" => << g.i, g.j >> \in Alive
  PROVE  IInv'
<1>1. /\ Shape' /\ Len(stack') = Len(stack) /\ stack'[1] = stack[1] /\ Started' /\ Started
      /\ Len(stack) = 2 => stack[2] = Top /\ stack'[2] = g
      /\ Len(stack) = 3 => stack[3] = Top /\ stack'[3] = g /\ stack'[2] = stack[2]
      /\ Len(stack) = 2 \/ (Len(stack) = 3 /\ Top.fn # "draw_map")
  <2>1. Shape
    BY DEF IInv
  <2>2. Started /\ (Len(stack) = 2 \/ (Len(stack) = 3 /\ Top.fn # "draw_map"))
    BY <2>1, InLoop
  <2>3. /\ Shape' /\ Len(stack') = Len(stack) /\ stack'[1] = stack[1] /\ Started'
        /\ Len(stack) = 2 => stack[2] = Top /\ stack'[2] = g
        /\ Len(stack) = 3 => stack[3] = Top /\ stack'[3] = g /\ stack'[2] = stack[2]
    BY <2>1, AssignKeepsShape
  <2> QED
    BY <2>2, <2>3
<1>2. Alive' = Alive /\ << 0, 0 >> \in Cells
  BY MapAssumption DEF Alive, Cells, Rows, Cols
<1>3. ASSUME NEW c \in Cells
      PROVE  /\ IsSet(c)' => IsSet(c)
             /\ IsCounted(c)' => IsCounted(c)
             /\ IsFresh(c)' => IsFresh(c)
  BY <1>1, <1>2 DEF IsSet, IsCounted, IsFresh, Calls, Updating
<1>4. MapIsTyped' /\ MapIsWritten'
  BY <1>2, <1>3 DEF IInv, MapIsTyped, MapIsWritten
<1>5. Drawn'
  BY <1>1, <1>2 DEF IInv, Drawn, Calls
<1> QED
  BY <1>1, <1>4, <1>5 DEF IInv
LEMMA SkeletonMoves ==
  ASSUME IInv, Entry \/ CondI \/ LoopI \/ CondJ \/ ExitJ
  PROVE  /\ stack # << >> /\ Len(stack) >= 2 /\ Looping(Top)
         /\ Top.bb \notin { "ret", "draw", "inc_j" }
         /\ UNCHANGED << is_alive, neighbour_count, hidden, shown >>
         /\ \E g : /\ Assign(g) /\ Looping(g) /\ g.fn = Top.fn
                  /\ g.bb \notin { "ret", "draw", "inc_j" }
                  /\ \A c \in Cells : Passed(g, c) <=> Passed(Top, c)
<1> DEFINE f == Top
<1>1. PICK g :
        /\ Assign(g)
        /\ \/ f.bb = "entry" /\ g = [ f EXCEPT !.i = 0, !.bb = "cond_i" ]
           \/ f.bb = "cond_i" /\ g = [ f EXCEPT !.ival = f.i,
                                   !.bb = IF f.i < MAP_HEIGHT THEN "loop_i" ELSE "exit_i" ]
           \/ f.bb = "loop_i" /\ g = [ f EXCEPT !.j = 0, !.bb = "cond_j" ]
           \/ f.bb = "cond_j" /\ g = [ f EXCEPT !.jval = f.j,
                                   !.bb = IF f.j < MAP_WIDTH THEN "loop_j" ELSE "exit_j" ]
           \/ f.bb = "exit_j" /\ g = [ f EXCEPT !.i = f.ival + 1, !.bb = "cond_i" ]
  BY DEF Entry, CondI, LoopI, CondJ, ExitJ, At
<1>2. /\ Shape /\ stack # << >>
      /\ Len(stack) >= 2 \/ Top.bb \notin { "entry", "loop", "display", "update" }
      /\ UNCHANGED << is_alive, neighbour_count, hidden, shown >>
  <2>1. Shape
    BY DEF IInv
  <2>2. stack # << >> /\ UNCHANGED << is_alive, neighbour_count, hidden, shown >>
    BY DEF Entry, CondI, LoopI, CondJ, ExitJ, At
  <2>3. Len(stack) > 1 => Len(stack) >= 2
    BY <2>1, <2>2, TopFrame
  <2>4. Len(stack) >= 2 \/ Top.bb \notin { "entry", "loop", "display", "update" }
    BY <2>3 DEF Entry, CondI, LoopI, CondJ, ExitJ, At
  <2> QED
    BY <2>1, <2>2, <2>4
<1>3. Looping(f) /\ Len(stack) >= 2 /\ f.bb \notin { "ret", "draw", "inc_j" }
  BY <1>1, <1>2, InLoop
<1> HIDE DEF f
<1>4. /\ Looping(g) /\ g.fn = f.fn /\ g.bb \notin { "ret", "draw", "inc_j" }
      /\ \A c \in Cells : Passed(g, c) <=> Passed(f, c)
  BY <1>1, <1>3, SkeletonPassesNone
<1> USE DEF f
<1> QED
  BY <1>1, <1>2, <1>3, <1>4

LEMMA SkeletonKeeps == IInv /\ (Entry \/ CondI \/ LoopI \/ CondJ \/ ExitJ) => IInv'
<1> SUFFICES ASSUME IInv, Entry \/ CondI \/ LoopI \/ CondJ \/ ExitJ PROVE IInv'
  OBVIOUS
<1>1. /\ stack # << >> /\ Len(stack) >= 2 /\ Top.bb \notin { "ret", "draw", "inc_j" }
      /\ UNCHANGED << is_alive, neighbour_count, hidden, shown >>
  BY SkeletonMoves
<1>2. PICK g : /\ Assign(g) /\ Looping(g) /\ g.fn = Top.fn /\ g.bb \notin { "ret", "draw", "inc_j" }
               /\ \A c \in Cells : Passed(g, c) <=> Passed(Top, c)
  BY SkeletonMoves
<1>3. \A c \in Alive : IsDrawn(g, c) <=> IsDrawn(Top, c)
  BY <1>1, <1>2 DEF IsDrawn, Alive
<1> QED
  BY <1>1, <1>2, <1>3, MoveKeeps

-----------------------------------------------------------------------------
(* The work on a cell *)

(* Where a block that works on a cell is, and which cell it is.            *)
LEMMA AtCell ==
  ASSUME IInv, stack # << >>, Top.bb \in { "loop_j", "draw", "inc_j" }
  PROVE  /\ Shape /\ Len(stack) >= 2 /\ Looping(Top) /\ Top = stack[Len(stack)] /\ Started
         /\ Cell \in Cells /\ Cell = << Top.i, Top.j >>
         /\ Top.ival \in Rows /\ Top.jval \in Cols
         /\ \/ Len(stack) = 2 /\ Top.fn # "update_neighbour_count"
            \/ Len(stack) = 3 /\ Top.fn = "update_neighbour_count" /\ stack[2].bb = "ret"
<1>1. Shape
  BY DEF IInv
<1>2. /\ Looping(Top) /\ Top = stack[Len(stack)] /\ Started
      /\ \/ Len(stack) = 2 /\ Top.fn # "update_neighbour_count"
         \/ Len(stack) = 3 /\ Top.fn = "update_neighbour_count" /\ stack[2].bb = "ret"
  BY <1>1, InLoop
<1>3. /\ Top.ival \in Rows /\ Top.jval \in Cols /\ Top.i = Top.ival /\ Top.j = Top.jval
  BY <1>2 DEF Looping
<1> QED
  BY <1>1, <1>2, <1>3 DEF Cell, Cells

LEMMA IncJKeeps == IInv /\ IncJ => IInv'
<1> SUFFICES ASSUME IInv, IncJ PROVE IInv'
  OBVIOUS
<1> DEFINE f == Top
           g == Incremented(f)
<1>1. /\ stack # << >> /\ f.bb = "inc_j" /\ Assign(g)
      /\ UNCHANGED << is_alive, neighbour_count, hidden, shown >>
  BY DEF IncJ, At, IncrementJ, Incremented
<1>2. /\ Len(stack) >= 2 /\ Looping(f) /\ f.fn = "draw_map"
      /\ << f.ival, f.jval >> = << f.i, f.j >>
  BY <1>1, AtCell DEF Looping, Cell
<1> HIDE DEF f
<1>3. /\ Looping(g) /\ g.fn = f.fn /\ g.bb = "cond_j"
      /\ \A c \in Cells : Passed(g, c) <=> Passed(f, c) \/ c = << f.ival, f.jval >>
  BY <1>1, <1>2, IncrementPasses
<1>4. \A c \in Alive : IsDrawn(g, c) <=> IsDrawn(f, c)
  BY <1>1, <1>2, <1>3 DEF IsDrawn, Alive
<1> USE DEF f
<1> QED
  BY <1>1, <1>2, <1>3, <1>4, MoveKeeps

LEMMA DrawMapKeeps == IInv /\ draw_map => IInv'
<1> SUFFICES ASSUME IInv, draw_map PROVE IInv'
  OBVIOUS
<1> DEFINE f == Top
           g == [ f EXCEPT !.bb = IF is_alive[Cell] # 0 THEN "draw" ELSE "inc_j" ]
<1>1. /\ stack # << >> /\ f.bb = "loop_j" /\ f.fn = "draw_map" /\ Assign(g)
      /\ UNCHANGED << is_alive, neighbour_count, hidden, shown >>
  BY DEF draw_map, In, At, Branch
<1>2. /\ Len(stack) >= 2 /\ Looping(f) /\ Cell \in Cells /\ Cell = << f.i, f.j >> /\ Started
      /\ stack[2].fn = "draw_map"
  BY <1>1, AtCell
<1>3. is_alive[Cell] \in { 0, 1 }
  BY <1>2 DEF IInv, MapIsWritten, IsSet, Calls
<1> HIDE DEF f
<1>4. /\ Looping(g) /\ g.fn = f.fn /\ g.bb \in { "draw", "inc_j" } /\ g.i = f.i /\ g.j = f.j
      /\ g.bb = "draw" <=> Cell \in Alive
  <2>1. g \in Frame /\ g.fn = f.fn /\ g.i = f.i /\ g.j = f.j /\ g.ival = f.ival /\ g.jval = f.jval
        /\ g.bb = IF is_alive[Cell] # 0 THEN "draw" ELSE "inc_j"
    BY <1>2 DEF Looping, Frame, Blocks
  <2> HIDE DEF g
  <2>2. g.bb = "draw" <=> Cell \in Alive
    BY <1>2, <1>3, <2>1 DEF Alive
  <2>3. Looping(g)
    BY <1>1, <1>2, <2>1 DEF Looping
  <2> QED
    BY <2>1, <2>2, <2>3
<1> HIDE DEF g
<1>5. \A c \in Cells : Passed(g, c) <=> Passed(f, c)
  BY <1>1, <1>4 DEF Passed
<1>6. \A c \in Alive : IsDrawn(g, c) <=> IsDrawn(f, c)
  BY <1>1, <1>2, <1>4, <1>5 DEF IsDrawn, Alive
<1> USE DEF f
<1> QED
  BY <1>1, <1>2, <1>4, <1>5, <1>6, MoveKeeps

(* A block that sets, counts or updates a cell goes on to the next.        *)
LEMMA WorkPasses ==
  ASSUME IInv, stack # << >>, Top.bb = "loop_j", IncrementJ
  PROVE  \E g :
           /\ Shape' /\ Len(stack') = Len(stack) /\ stack'[1] = stack[1] /\ Started'
           /\ Len(stack) = 2 => stack[2] = Top /\ stack'[2] = g
           /\ Len(stack) = 3 => stack[3] = Top /\ stack'[3] = g /\ stack'[2] = stack[2]
           /\ g.fn = Top.fn /\ g.bb = "cond_j"
           /\ ~Passed(Top, Cell) /\ Passed(g, << 0, 0 >>)
           /\ \A c \in Cells : Passed(g, c) <=> Passed(Top, c) \/ c = Cell
<1> DEFINE f == Top
           g == Incremented(f)
<1>1. Shape /\ Len(stack) >= 2 /\ Looping(f) /\ Cell = << f.ival, f.jval >> /\ f.bb = "loop_j"
  BY AtCell DEF Cell
<1>2. Assign(g)
  BY DEF IncrementJ, Incremented
<1> HIDE DEF f
<1>4. /\ Looping(g) /\ g.fn = f.fn /\ g.bb = "cond_j"
      /\ ~Passed(f, Cell) /\ Passed(g, << 0, 0 >>)
      /\ \A c \in Cells : Passed(g, c) <=> Passed(f, c) \/ c = Cell
  BY <1>1, IncrementPasses
<1> USE DEF f
<1>5. /\ Shape' /\ Len(stack') = Len(stack) /\ stack'[1] = stack[1] /\ Started'
      /\ Len(stack) = 2 => stack[2] = Top /\ stack'[2] = g
      /\ Len(stack) = 3 => stack[3] = Top /\ stack'[3] = g /\ stack'[2] = stack[2]
  BY <1>1, <1>2, <1>4, AssignKeepsShape
<1> QED
  BY <1>4, <1>5

LEMMA InitMapKeeps == IInv /\ init_map => IInv'
<1> SUFFICES ASSUME IInv, init_map PROVE IInv'
  OBVIOUS
<1>1. /\ stack # << >> /\ Top.bb = "loop_j" /\ Top.fn = "init_map" /\ IncrementJ
      /\ UNCHANGED << neighbour_count, hidden, shown >>
  BY DEF init_map, In, At
<1>2. Len(stack) = 2 /\ stack[2] = Top /\ Cell \in Cells /\ Started
  BY <1>1, AtCell
<1>3. PICK g :
        /\ Shape' /\ Len(stack') = 2 /\ stack'[2] = g /\ g.fn = "init_map" /\ g.bb = "cond_j"
        /\ \A c \in Cells : Passed(g, c) <=> Passed(Top, c) \/ c = Cell
  BY <1>1, <1>2, WorkPasses
<1>4. PICK alive \in { 0, 1 } : is_alive' = [ is_alive EXCEPT ![Cell] = alive ]
  BY DEF init_map
<1>5. /\ is_alive' \in [ Cells -> { 0, 1, Undefined } ]
      /\ \A c \in Cells : is_alive'[c] = IF c = Cell THEN alive ELSE is_alive[c]
  BY <1>2, <1>4 DEF IInv, MapIsTyped
<1>6. \A c \in Cells : ~IsCounted(c)' /\ ~IsFresh(c)' /\ (IsSet(c)' => IsSet(c) \/ c = Cell)
  BY <1>2, <1>3 DEF IsSet, IsCounted, IsFresh, Calls
<1>7. MapIsTyped' /\ MapIsWritten'
  BY <1>1, <1>5, <1>6 DEF IInv, MapIsTyped, MapIsWritten
<1>8. Drawn'
  BY <1>3 DEF Drawn, Calls
<1> QED
  BY <1>3, <1>7, <1>8 DEF IInv
(* One step left or up, as the program computes it without negative        *)
(* numbers.                                                                *)
LEMMA Wrap ==
  ASSUME NEW n \in Nat \ {0}, NEW k \in 0 .. n - 1
  PROVE  /\ k % n = k
         /\ (k + (n - 1)) % n = (k - 1) % n
         /\ (k - 1) % n \in 0 .. n - 1
         /\ (k + 1) % n \in 0 .. n - 1
OBVIOUS

(* The count of a cell whose neighbours are alive or dead. *)
LEMMA Counted ==
  ASSUME Top.ival \in Rows, Top.jval \in Cols, is_alive \in [ Cells -> { 0, 1 } ]
  PROVE  /\ Neighbours(Alive, Cell) =
              ((is_alive[<<TopIdx, LeftIdx>>] + is_alive[<<TopIdx, Top.jval>>])
                + (is_alive[<<TopIdx, RightIdx>>] + is_alive[<<Top.ival, LeftIdx>>]))
              + ((is_alive[<<Top.ival, RightIdx>>] + is_alive[<<BottomIdx, LeftIdx>>])
                + (is_alive[<<BottomIdx, Top.jval>>] + is_alive[<<BottomIdx, RightIdx>>]))
         /\ Neighbours(Alive, Cell) \in 0 .. 8
<1> DEFINE y == Top.ival
           x == Top.jval
           Value(v, u) == is_alive[<< v % MAP_HEIGHT, u % MAP_WIDTH >>]
<1>1. /\ y \in Int /\ x \in Int /\ y - 1 \in Int /\ y + 1 \in Int /\ x - 1 \in Int /\ x + 1 \in Int
  BY MapAssumption DEF Rows, Cols
<1>2. ASSUME NEW v \in Int, NEW u \in Int
      PROVE  One(Alive, v, u) = Value(v, u) /\ Value(v, u) \in { 0, 1 }
  <2>1. << v % MAP_HEIGHT, u % MAP_WIDTH >> \in Cells
    BY MapAssumption DEF Cells, Rows, Cols
  <2> QED
    BY <2>1 DEF One, Alive
<1>3. /\ y % MAP_HEIGHT = y /\ (y - 1) % MAP_HEIGHT = TopIdx /\ (y + 1) % MAP_HEIGHT = BottomIdx
      /\ x % MAP_WIDTH = x /\ (x - 1) % MAP_WIDTH = LeftIdx /\ (x + 1) % MAP_WIDTH = RightIdx
  BY Wrap, MapAssumption DEF Rows, Cols, TopIdx, BottomIdx, LeftIdx, RightIdx
<1>4. /\ Value(y - 1, x - 1) = is_alive[<<TopIdx, LeftIdx>>]
      /\ Value(y - 1, x) = is_alive[<<TopIdx, Top.jval>>]
      /\ Value(y - 1, x + 1) = is_alive[<<TopIdx, RightIdx>>]
      /\ Value(y, x - 1) = is_alive[<<Top.ival, LeftIdx>>]
      /\ Value(y, x + 1) = is_alive[<<Top.ival, RightIdx>>]
      /\ Value(y + 1, x - 1) = is_alive[<<BottomIdx, LeftIdx>>]
      /\ Value(y + 1, x) = is_alive[<<BottomIdx, Top.jval>>]
      /\ Value(y + 1, x + 1) = is_alive[<<BottomIdx, RightIdx>>]
  BY <1>3
<1>5. Neighbours(Alive, Cell) =
        One(Alive, y - 1, x - 1) + One(Alive, y - 1, x) + One(Alive, y - 1, x + 1)
          + One(Alive, y, x - 1) + One(Alive, y, x + 1)
          + One(Alive, y + 1, x - 1) + One(Alive, y + 1, x) + One(Alive, y + 1, x + 1)
  BY DEF Neighbours, Cell
<1> HIDE DEF Value, x, y
<1>6. /\ One(Alive, y - 1, x - 1) = Value(y - 1, x - 1) /\ Value(y - 1, x - 1) \in { 0, 1 }
      /\ One(Alive, y - 1, x) = Value(y - 1, x) /\ Value(y - 1, x) \in { 0, 1 }
      /\ One(Alive, y - 1, x + 1) = Value(y - 1, x + 1) /\ Value(y - 1, x + 1) \in { 0, 1 }
      /\ One(Alive, y, x - 1) = Value(y, x - 1) /\ Value(y, x - 1) \in { 0, 1 }
      /\ One(Alive, y, x + 1) = Value(y, x + 1) /\ Value(y, x + 1) \in { 0, 1 }
      /\ One(Alive, y + 1, x - 1) = Value(y + 1, x - 1) /\ Value(y + 1, x - 1) \in { 0, 1 }
      /\ One(Alive, y + 1, x) = Value(y + 1, x) /\ Value(y + 1, x) \in { 0, 1 }
      /\ One(Alive, y + 1, x + 1) = Value(y + 1, x + 1) /\ Value(y + 1, x + 1) \in { 0, 1 }
  BY <1>1, <1>2
<1> QED
  BY <1>4, <1>5, <1>6

(* A map all of whose cells have been set.                                 *)
LEMMA AllSet ==
  ASSUME IInv, \A c \in Cells : IsSet(c)
  PROVE  is_alive \in [ Cells -> { 0, 1 } ]
<1>1. is_alive \in [ Cells -> { 0, 1, Undefined } ] /\ \A c \in Cells : is_alive[c] \in { 0, 1 }
  BY DEF IInv, MapIsTyped, MapIsWritten
<1> QED
  BY <1>1

LEMMA CountKeeps == IInv /\ update_neighbour_count => IInv'
<1> SUFFICES ASSUME IInv, update_neighbour_count PROVE IInv'
  OBVIOUS
<1>1. /\ stack # << >> /\ Top.bb = "loop_j" /\ Top.fn = "update_neighbour_count" /\ IncrementJ
      /\ UNCHANGED << is_alive, hidden, shown >>
  BY DEF update_neighbour_count, In, At
<1>2. /\ Len(stack) = 3 /\ stack[3] = Top /\ stack[2].bb = "ret" /\ Cell \in Cells /\ Started
      /\ Top.ival \in Rows /\ Top.jval \in Cols
  BY <1>1, AtCell
<1>3. PICK g :
        /\ Shape' /\ Len(stack') = 3 /\ stack'[3] = g /\ stack'[2] = stack[2] /\ stack'[1] = stack[1]
        /\ Started'
        /\ \A c \in Cells : Passed(g, c) <=> Passed(Top, c) \/ c = Cell
  BY <1>1, <1>2, WorkPasses
<1>4. is_alive \in [ Cells -> { 0, 1 } ]
  <2>1. \A c \in Cells : IsSet(c)
    BY <1>2 DEF IsSet, Passed
  <2> QED
    BY <2>1, AllSet
<1>5. /\ neighbour_count' = [ neighbour_count EXCEPT ![Cell] = Neighbours(Alive, Cell) ]
      /\ Neighbours(Alive, Cell) \in 0 .. 8
  BY <1>2, <1>4, Counted DEF update_neighbour_count
<1>6. /\ neighbour_count' \in [ Cells -> 0 .. 8 \cup { Undefined } ]
      /\ \A c \in Cells :
           neighbour_count'[c] = IF c = Cell THEN Neighbours(Alive, c) ELSE neighbour_count[c]
  BY <1>2, <1>5 DEF IInv, MapIsTyped
<1>7. \A c \in Cells :
        /\ IsSet(c)' => IsSet(c)
        /\ IsCounted(c)' => IsCounted(c) \/ c = Cell
        /\ IsFresh(c)' => IsFresh(c) \/ c = Cell
  BY <1>2, <1>3 DEF IsSet, IsCounted, IsFresh, Calls, Updating
<1>8. Alive' = Alive
  BY <1>1 DEF Alive
<1>9. MapIsTyped' /\ MapIsWritten'
  BY <1>1, <1>5, <1>6, <1>7, <1>8 DEF IInv, MapIsTyped, MapIsWritten
<1>10. Drawn'
  <2> SUFFICES ASSUME Calls("draw_map") PROVE Drawn'
    BY <1>2, <1>3 DEF Drawn, Calls
  <2>1. \A c \in Cells : IsFresh(c)
    BY <1>2 DEF IsFresh, IsCounted, Calls
  <2>2. \A c \in Cells : neighbour_count'[c] = neighbour_count[c]
    BY <1>6, <2>1 DEF IInv, MapIsWritten
  <2> QED
    BY <1>1, <1>2, <1>3, <1>8, <2>2 DEF IInv, Drawn, Calls, IsDrawn
<1> QED
  BY <1>3, <1>9, <1>10 DEF IInv
(* Once a cell has been overwritten nothing is claimed of the counts.      *)
LEMMA UpdateKeeps == IInv /\ update_map => IInv'
<1> SUFFICES ASSUME IInv, update_map PROVE IInv'
  OBVIOUS
<1>1. /\ stack # << >> /\ Top.bb = "loop_j" /\ Top.fn = "update_map" /\ IncrementJ
      /\ UNCHANGED << neighbour_count, hidden, shown >>
  BY DEF update_map, In, At
<1>2. Len(stack) = 2 /\ stack[2] = Top /\ Cell \in Cells /\ Started
  BY <1>1, AtCell
<1>3. PICK g :
        /\ Shape' /\ Len(stack') = 2 /\ stack'[2] = g /\ g.fn = "update_map" /\ g.bb = "cond_j"
        /\ Passed(g, << 0, 0 >>)
  BY <1>1, <1>2, WorkPasses
<1>4. is_alive \in [ Cells -> { 0, 1 } ] /\ \A c \in Cells : IsCounted(c)
  <2>1. \A c \in Cells : IsSet(c) /\ IsCounted(c)
    BY <1>1, <1>2 DEF IsSet, IsCounted, Calls
  <2> QED
    BY <2>1, AllSet
<1>5. is_alive' \in [ Cells -> { 0, 1 } ]
  BY <1>2, <1>4 DEF update_map
<1>6. \A c \in Cells : ~IsFresh(c)'
  BY <1>3 DEF IsFresh, Updating
<1>7. MapIsTyped' /\ MapIsWritten'
  BY <1>1, <1>4, <1>5, <1>6 DEF IInv, MapIsTyped, MapIsWritten
<1>8. Drawn'
  BY <1>3 DEF Drawn, Calls
<1> QED
  BY <1>3, <1>7, <1>8 DEF IInv

LEMMA DrawKeeps == IInv /\ Draw => IInv'
<1> SUFFICES ASSUME IInv, Draw PROVE IInv'
  OBVIOUS
<1> DEFINE g == [ Top EXCEPT !.bb = "inc_j" ]
<1>1. /\ stack # << >> /\ Top.bb = "draw" /\ Assign(g)
      /\ UNCHANGED << is_alive, neighbour_count, shown >>
      /\ hidden' = [ hidden EXCEPT ![Cell] = neighbour_count[Cell] ]
  BY DEF Draw, At, Branch
<1>2. /\ Shape /\ Len(stack) = 2 /\ stack[2] = Top /\ Looping(Top) /\ Top.fn = "draw_map"
      /\ Cell \in Cells /\ Cell = << Top.i, Top.j >> /\ Started
  BY <1>1, AtCell DEF Looping
<1>3. Looping(g) /\ g.fn = Top.fn /\ g.bb = "inc_j" /\ g.i = Top.i /\ g.j = Top.j
  <2>1. g \in Frame /\ g.fn = Top.fn /\ g.i = Top.i /\ g.j = Top.j /\ g.ival = Top.ival
        /\ g.jval = Top.jval /\ g.bb = "inc_j"
    BY <1>2 DEF Looping, Frame, Blocks
  <2> HIDE DEF g
  <2> QED
    BY <1>1, <1>2, <2>1 DEF Looping
<1> HIDE DEF g
<1>4. /\ Shape' /\ Len(stack') = 2 /\ stack'[2] = g /\ Started'
  BY <1>1, <1>2, <1>3, AssignKeepsShape
<1>5. \A c \in Cells : IsSet(c) /\ IsCounted(c) /\ IsFresh(c)
  BY <1>2 DEF IsSet, IsCounted, IsFresh, Calls
<1>6. /\ hidden' \in [ Cells -> 0 .. Background ]
      /\ \A c \in Cells : hidden'[c] = IF c = Cell THEN neighbour_count[c] ELSE hidden[c]
  <2>1. neighbour_count[Cell] \in 0 .. Background /\ hidden \in [ Cells -> 0 .. Background ]
    BY <1>2, <1>5 DEF IInv, MapIsTyped, MapIsWritten, Background
  <2> QED
    BY <1>1, <1>2, <2>1
<1>7. Alive' = Alive
  BY <1>1 DEF Alive
<1>8. MapIsTyped' /\ MapIsWritten'
  BY <1>1, <1>5, <1>6, <1>7 DEF IInv, MapIsTyped, MapIsWritten
<1>9. \A c \in Cells : IsDrawn(g, c) <=> IsDrawn(Top, c) \/ c = Cell
  BY <1>1, <1>2, <1>3 DEF IsDrawn, Passed
<1>10. Drawn'
  <2>1. Cell \in Alive
    BY <1>1, <1>2 DEF IInv, Drawn, Calls
  <2>2. \A c \in Cells :
          hidden[c] = IF IsDrawn(Top, c) /\ c \in Alive THEN neighbour_count[c] ELSE Background
    BY <1>2 DEF IInv, Drawn, Calls
  <2>3. \A c \in Cells :
          hidden'[c] = IF IsDrawn(g, c) /\ c \in Alive THEN neighbour_count[c] ELSE Background
    BY <1>6, <1>9, <2>1, <2>2
  <2> QED
    BY <1>1, <1>3, <1>4, <1>7, <2>3 DEF Drawn, Calls
<1> QED
  BY <1>4, <1>8, <1>10 DEF IInv

-----------------------------------------------------------------------------
(* Calls and returns *)

(* A function has passed the whole map when it counts the neighbours.      *)
LEMMA ExitIKeeps == IInv /\ ExitI => IInv'
<1> SUFFICES ASSUME IInv, ExitI PROVE IInv'
  OBVIOUS
<1>1. /\ Shape /\ stack # << >> /\ Top.bb = "exit_i"
      /\ UNCHANGED << is_alive, neighbour_count, hidden, shown >> /\ Alive' = Alive
  BY DEF IInv, ExitI, At, Alive
<1>2. /\ Looping(Top) /\ Top \in Frame /\ Top = stack[Len(stack)] /\ Started
      /\ \A c \in Cells : Passed(Top, c)
      /\ \/ Len(stack) = 2 /\ Top.fn # "update_neighbour_count"
         \/ Len(stack) = 3 /\ Top.fn = "update_neighbour_count" /\ stack[2].bb = "ret"
  BY <1>1, InLoop DEF Passed
<1>3. CASE Len(stack) = 3
  <2>1. Ret
    BY <1>2, <1>3 DEF ExitI
  <2>2. stack' \in Seq(Frame) /\ Len(stack') = 2 /\ stack'[1] = stack[1] /\ stack'[2] = stack[2]
    BY <1>1, <1>3, <2>1, RetStep
  <2>3. Shape' /\ Started'
    BY <1>1, <1>2, <1>3, <2>2 DEF Shape, Started
  <2>4. \A c \in Cells :
          /\ IsSet(c)' => IsSet(c)
          /\ IsCounted(c)' => IsCounted(c)
          /\ IsFresh(c)' => IsFresh(c)
    BY <1>2, <1>3, <2>2, <2>3 DEF IsSet, IsCounted, IsFresh, Calls, Updating
  <2>5. MapIsTyped' /\ MapIsWritten'
    BY <1>1, <2>4 DEF IInv, MapIsTyped, MapIsWritten
  <2>6. Drawn'
    BY <1>1, <1>3, <2>2 DEF IInv, Drawn, Calls
  <2> QED
    BY <2>3, <2>5, <2>6 DEF IInv
<1>4. CASE Len(stack) = 2
  <2> DEFINE g == [ Top EXCEPT !.bb = "ret" ]
             e == Enter("update_neighbour_count", "entry")
  <2>1. Call("update_neighbour_count", "ret")
    BY <1>2, <1>4 DEF ExitI
  <2>2. /\ stack' \in Seq(Frame) /\ Len(stack') = 3 /\ stack'[1] = stack[1]
        /\ stack'[2] = g /\ stack'[3] = e /\ e \in Frame
    BY <1>1, <1>4, <2>1, CallStep DEF Functions, Blocks
  <2>3. g \in Frame /\ g.fn = Top.fn /\ g.bb = "ret" /\ g.i = Top.i
    BY <1>2 DEF Frame, Blocks
  <2>4. e.fn = "update_neighbour_count" /\ e.bb = "entry"
    BY DEF Enter
  <2> HIDE DEF g, e
  <2>5. Looping(g) /\ Looping(e) /\ \A c \in Cells : Passed(g, c) /\ ~Passed(e, c)
    BY <1>1, <1>2, <2>2, <2>3, <2>4 DEF Looping, Passed
  <2>6. Shape' /\ Started'
    <3>1. /\ stack[2] = Top /\ Top.fn # "update_neighbour_count"
          /\ stack[1].fn = "main" /\ stack[1].bb # "entry"
          /\ stack[1].bb \in { "entry", "loop", "display", "update" }
          /\ stack[1].bb = IF Top.fn = "draw_map" THEN "display" ELSE "loop"
      BY <1>1, <1>2, <1>4 DEF Shape
    <3> QED
      BY <2>2, <2>3, <2>4, <2>5, <3>1 DEF Shape, Started
  <2>7. \A c \in Cells :
          /\ IsSet(c)' => IsSet(c)
          /\ IsCounted(c)' => IsCounted(c)
          /\ IsFresh(c)' => IsFresh(c)
    BY <1>1, <1>2, <1>4, <2>2, <2>3, <2>4, <2>5, <2>6
       DEF IsSet, IsCounted, IsFresh, Calls, Updating
  <2>8. MapIsTyped' /\ MapIsWritten'
    BY <1>1, <2>7 DEF IInv, MapIsTyped, MapIsWritten
  <2>9. Drawn'
    <3>1. \A c \in Cells : IsDrawn(g, c) /\ IsDrawn(Top, c)
      BY <1>2, <2>5 DEF IsDrawn
    <3>2. Calls("draw_map")' => Calls("draw_map") /\ stack[2] = Top
      BY <1>2, <1>4, <2>2, <2>3 DEF Calls
    <3> QED
      BY <1>1, <2>2, <2>3, <3>1, <3>2 DEF IInv, Drawn
  <2> QED
    BY <2>6, <2>8, <2>9 DEF IInv
<1> QED
  BY <1>2, <1>3, <1>4
(* What a function has left when it returns to main: all of the map is set *)
(* and counted, and a picture is complete.                                 *)
LEMMA ReturnKeeps == IInv /\ Return => IInv'
<1> SUFFICES ASSUME IInv, Return PROVE IInv'
  OBVIOUS
<1>1. /\ Shape /\ stack # << >> /\ Top.bb = "ret" /\ Ret
      /\ UNCHANGED << is_alive, neighbour_count, hidden, shown >> /\ Alive' = Alive
  BY DEF IInv, Return, At, Alive
<1>2. Len(stack) = 2 /\ stack[2] = Top /\ Started
  BY <1>1, InLoop
<1>3. stack' \in Seq(Frame) /\ Len(stack') = 1 /\ stack'[1] = stack[1]
  BY <1>1, <1>2, RetStep
<1>4. Shape' /\ Started'
  BY <1>1, <1>2, <1>3 DEF Shape, Started
<1>5. \A c \in Cells : IsSet(c) /\ IsCounted(c) /\ IsFresh(c)
  BY <1>1, <1>2 DEF IsSet, IsCounted, IsFresh, Passed
<1>6. MapIsTyped' /\ MapIsWritten'
  BY <1>1, <1>5 DEF IInv, MapIsTyped, MapIsWritten
<1>7. Drawn'
  <2> SUFFICES ASSUME stack[1].bb = "display" PROVE hidden = Picture(Alive)
    BY <1>1, <1>3 DEF Drawn, Calls
  <2>1. Calls("draw_map")
    BY <1>1, <1>2 DEF Shape, Calls
  <2>2. \A c \in Cells : IsDrawn(stack[2], c)
    BY <1>1, <1>2 DEF IsDrawn, Passed
  <2>3. \A c \in Cells : hidden[c] = IF c \in Alive THEN Neighbours(Alive, c) ELSE Background
    BY <1>5, <2>1, <2>2 DEF IInv, Drawn, MapIsWritten
  <2>4. hidden \in [ Cells -> 0 .. Background ]
    BY DEF IInv, MapIsTyped
  <2> QED
    BY <2>3, <2>4 DEF Picture
<1> QED
  BY <1>4, <1>6, <1>7 DEF IInv

(* main calls fn, to go on at after. *)
LEMMA MainCalls ==
  ASSUME Shape, Len(stack) = 1, NEW fn \in { "init_map", "draw_map", "update_map" }, NEW after,
         after = IF fn = "draw_map" THEN "display" ELSE "loop",
         Call(fn, after)
  PROVE  /\ Shape' /\ Started' /\ Len(stack') = 2 /\ stack'[2].fn = fn /\ stack'[2].bb = "entry"
         /\ \A c \in Cells : ~Passed(stack'[2], c) /\ ~IsDrawn(stack'[2], c)
         /\ ~Passed(stack'[2], << 0, 0 >>)
<1> DEFINE e == Enter(fn, "entry")
           m == [ Top EXCEPT !.bb = after ]
<1>1. stack # << >> /\ Top = stack[1] /\ Top \in Frame /\ Top.fn = "main"
  <2>1. stack # << >>
    BY EmptySeq
  <2> QED
    BY <2>1, TopFrame DEF Shape
<1>2. /\ stack' \in Seq(Frame) /\ Len(stack') = 2 /\ stack'[1] = m /\ stack'[2] = e /\ e \in Frame
  BY <1>1, CallStep DEF Functions, Blocks
<1>3. m.fn = "main" /\ m.bb = after
  BY <1>1 DEF Frame
<1>4. e.fn = fn /\ e.bb = "entry"
  BY DEF Enter
<1> HIDE DEF e, m
<1>5. Looping(e)
  BY <1>2, <1>4 DEF Looping
<1> QED
  BY <1>2, <1>3, <1>4, <1>5 DEF Shape, Started, IsDrawn, Passed

LEMMA MainKeeps == IInv /\ Main => IInv'
<1> SUFFICES ASSUME IInv, Main PROVE IInv'
  OBVIOUS
<1>1. /\ Shape /\ Len(stack) = 1 /\ stack # << >> /\ Top = stack[1] /\ Alive' = Alive
      /\ UNCHANGED << is_alive, neighbour_count >>
  <2>1. Shape /\ Len(stack) = 1 /\ UNCHANGED << is_alive, neighbour_count >>
    BY DEF IInv, Main
  <2>2. stack # << >>
    BY <2>1, EmptySeq
  <2> QED
    BY <2>1, <2>2, TopFrame DEF Alive
<1>2. CASE At("entry") /\ Call("init_map", "loop") /\ UNCHANGED << hidden, shown >>
  <2>1. /\ Shape' /\ Started' /\ Len(stack') = 2 /\ stack'[2].fn = "init_map" /\ stack'[2].bb = "entry"
        /\ \A c \in Cells : ~Passed(stack'[2], c)
    BY <1>1, <1>2, MainCalls
  <2>2. \A c \in Cells : ~IsSet(c)' /\ ~IsCounted(c)' /\ ~IsFresh(c)'
    BY <2>1 DEF IsSet, IsCounted, IsFresh, Calls
  <2>3. MapIsTyped' /\ MapIsWritten' /\ Drawn'
    BY <1>1, <1>2, <2>1, <2>2 DEF IInv, MapIsTyped, MapIsWritten, Drawn, Calls
  <2> QED
    BY <2>1, <2>3 DEF IInv
<1>3. CASE At("loop") /\ Call("draw_map", "display") /\ hidden' = Blank /\ UNCHANGED shown
  <2>1. /\ Shape' /\ Started' /\ Len(stack') = 2 /\ stack'[2].fn = "draw_map" /\ stack'[2].bb = "entry"
        /\ \A c \in Cells : ~IsDrawn(stack'[2], c)
    BY <1>1, <1>3, MainCalls
  <2>2. \A c \in Cells : IsSet(c) /\ IsCounted(c) /\ IsFresh(c)
    BY <1>1, <1>3 DEF IsSet, IsCounted, IsFresh, Calls, At, Started
  <2>3. MapIsTyped' /\ MapIsWritten'
    BY <1>1, <1>3, <2>2 DEF IInv, MapIsTyped, MapIsWritten, Blank, Background
  <2>4. Drawn'
    BY <1>3, <2>1 DEF Drawn, Blank
  <2> QED
    BY <2>1, <2>3, <2>4 DEF IInv
<1>4. CASE /\ At("display") /\ shown' = hidden /\ UNCHANGED hidden
           /\ stack' \in { << Enter("main", "update") >>, << >> }
  <2>1. Shape' /\ Started' /\ Len(stack') \in { 0, 1 } /\ (Len(stack') = 1 => stack'[1].bb = "update")
    <3>1. CASE stack' = << Enter("main", "update") >>
      <4>1. Enter("main", "update") \in Frame
        BY DEF Enter, Frame, Functions, Blocks
      <4>2. stack' \in Seq(Frame) /\ Len(stack') = 1 /\ stack'[1] = Enter("main", "update")
        BY <3>1, <4>1
      <4> QED
        BY <4>2 DEF Shape, Started, Enter
    <3>2. CASE stack' = << >>
      BY <3>2 DEF Shape, Started
    <3> QED
      BY <1>4, <3>1, <3>2
  <2>2. \A c \in Cells : IsSet(c) /\ IsCounted(c) /\ IsFresh(c)
    BY <1>1, <1>4 DEF IsSet, IsCounted, IsFresh, Calls, At, Started
  <2>3. MapIsTyped' /\ MapIsWritten'
    BY <1>1, <1>4, <2>2 DEF IInv, MapIsTyped, MapIsWritten
  <2>4. Drawn'
    BY <2>1 DEF Drawn, Calls
  <2> QED
    BY <2>1, <2>3, <2>4 DEF IInv
<1>5. CASE At("update") /\ Call("update_map", "loop") /\ UNCHANGED << hidden, shown >>
  <2>1. /\ Shape' /\ Started' /\ Len(stack') = 2 /\ stack'[2].fn = "update_map"
    BY <1>1, <1>5, MainCalls
  <2>2. \A c \in Cells : IsSet(c) /\ IsCounted(c) /\ IsFresh(c)
    BY <1>1, <1>5 DEF IsSet, IsCounted, IsFresh, Calls, At, Started
  <2>3. MapIsTyped' /\ MapIsWritten'
    BY <1>1, <1>5, <2>2 DEF IInv, MapIsTyped, MapIsWritten
  <2>4. Drawn'
    BY <2>1 DEF Drawn, Calls
  <2> QED
    BY <2>1, <2>3, <2>4 DEF IInv
<1> QED
  BY <1>2, <1>3, <1>4, <1>5 DEF Main
-----------------------------------------------------------------------------
(* The invariant *)

LEMMA InitIInv == Init => IInv
<1> SUFFICES ASSUME Init PROVE IInv
  OBVIOUS
<1>1. Enter("main", "entry") \in Frame
  BY DEF Enter, Frame, Functions, Blocks
<1>2. stack \in Seq(Frame) /\ Len(stack) = 1 /\ stack[1] = Enter("main", "entry")
  BY <1>1 DEF Init
<1>3. Shape
  BY <1>2 DEF Shape, Enter
<1>4. stack # << >> /\ ~Started
  BY <1>2 DEF Started, Enter, Init
<1>5. MapIsTyped
  BY DEF Init, MapIsTyped, Blank, Background, Undefined
<1>6. MapIsWritten
  BY <1>4 DEF MapIsWritten, IsSet, IsCounted, IsFresh
<1>7. Drawn
  BY <1>2 DEF Drawn, Calls, Enter
<1> QED
  BY <1>3, <1>5, <1>6, <1>7 DEF IInv

LEMMA StepKeepsIInv == IInv /\ [Next]_vars => IInv'
<1> SUFFICES ASSUME IInv, [Next]_vars PROVE IInv'
  OBVIOUS
<1>1. CASE Step
  BY <1>1, SkeletonKeeps, ExitIKeeps, ReturnKeeps, InitMapKeeps, CountKeeps, UpdateKeeps,
     DrawMapKeeps, DrawKeeps, IncJKeeps, MainKeeps DEF Step
<1>2. CASE UNCHANGED vars
  <2>1. Shape' /\ MapIsTyped'
    BY <1>2 DEF vars, IInv, Shape, MapIsTyped
  <2>2. Alive' = Alive
    BY <1>2 DEF vars, Alive
  <2>3. MapIsWritten'
    BY <1>2, <2>2 DEF vars, IInv, MapIsWritten, IsSet, IsCounted, IsFresh, Started, Calls, Updating
  <2>4. Drawn'
    BY <1>2, <2>2 DEF vars, IInv, Drawn, Calls
  <2> QED
    BY <2>1, <2>3, <2>4 DEF IInv
<1> QED
  BY <1>1, <1>2 DEF Next, Exited

LEMMA Invariance == Spec => []IInv
<1>1. Init => IInv
  BY InitIInv
<1>2. IInv /\ [Next]_vars => IInv'
  BY StepKeepsIInv
<1> QED
  BY <1>1, <1>2, PTL DEF Spec

(* On a map of any size main calls at most two deep, every alloca and every *)
(* loaded value is a number of the loops or not yet defined, and a count is *)
(* an index of @color_scheme.                                               *)
THEOREM TypeCorrect == Spec => []TypeOK
<1>1. IInv => TypeOK
  <2> SUFFICES ASSUME IInv PROVE TypeOK
    OBVIOUS
  <2>1. Len(stack) \in 0 .. 3 /\ \A k \in 1 .. Len(stack) : stack[k] \in Frame
    BY ElementOfSeq DEF IInv, Shape
  <2> QED
    BY <2>1 DEF IInv, MapIsTyped, TypeOK, Frame
<1> QED
  BY <1>1, Invariance, PTL

(* On a map of any size the values that a block has from another one are   *)
(* those of the allocas and indices of the map: getelementptr inbounds     *)
(* stays in bounds.                                                        *)
THEOREM IndicesCurrent == Spec => []IndicesAreCurrent
<1>1. IInv => IndicesAreCurrent
  <2> SUFFICES ASSUME IInv, NEW k \in 2 .. Len(stack) PROVE Looping(stack[k])
    BY DEF IndicesAreCurrent, Looping
  <2>1. Len(stack) \in 0 .. 3
    BY DEF IInv, Shape
  <2>2. \A n \in 0 .. 3 : \A m \in 2 .. n : (m = 2 /\ n >= 2) \/ (m = 3 /\ n = 3)
    OBVIOUS
  <2>3. (k = 2 /\ Len(stack) >= 2) \/ (k = 3 /\ Len(stack) = 3)
    BY <2>1, <2>2
  <2> QED
    BY <2>2 DEF IInv, Shape
<1> QED
  BY <1>1, Invariance, PTL
-----------------------------------------------------------------------------
(* The program implements Life *)

(* Life speaks of the same map and the same rule. *)
LEMMA SameRule ==
  /\ Game!Cells = Cells /\ Game!Blank = Blank
  /\ \A b : Game!Picture(b) = Picture(b) /\ Game!NextGeneration(b) = NextGeneration(b)
<1>1. Game!Cells = Cells
  BY DEF Game!Cells, Cells, Game!Rows, Rows, Game!Cols, Cols
<1>2. \A b, c : Game!Neighbours(b, c) = Neighbours(b, c)
  BY DEF Game!Neighbours, Neighbours, Game!One, One
<1>3. \A a, n : Game!Lives(a, n) = Lives(a, n)
  BY DEF Game!Lives, Lives
<1>4. Game!Background = Background
  BY DEF Game!Background, Background
<1>5. ASSUME NEW b PROVE Game!Picture(b) = Picture(b)
  BY <1>1, <1>2, <1>4 DEF Game!Picture, Picture
<1>6. ASSUME NEW b PROVE Game!NextGeneration(b) = NextGeneration(b)
  BY <1>1, <1>2, <1>3 DEF Game!NextGeneration, NextGeneration
<1>7. Game!Blank = Blank
  BY <1>1, <1>4 DEF Game!Blank, Blank
<1> QED
  BY <1>1, <1>5, <1>6, <1>7

Seeding  == Calls("init_map") \/ (Len(stack) = 1 /\ stack[1].bb = "entry")
Halfway  == Calls("update_map") /\ Updating(2)
ToEvolve == (Calls("update_map") /\ ~Updating(2)) \/ (Len(stack) = 1 /\ stack[1].bb = "update")

(* The board and the phase, by where main is. *)
View ==
  /\ stack = << >> => Phase = "closed"
  /\ Seeding => Phase = "seed" /\ Board = {}
  /\ ToEvolve => Phase = "evolve"
  /\ stack # << >> /\ ~Seeding /\ ~ToEvolve => Phase = "show"
  /\ Halfway => Board = { c \in Cells : IF Passed(stack[2], c) THEN c \in Alive
                                        ELSE Lives(c \in Alive, neighbour_count[c]) }
  /\ ~Seeding /\ ~Halfway => Board = Alive

LEMMA ViewHolds == Shape => View
<1> SUFFICES ASSUME Shape PROVE View
  OBVIOUS
<1>1. /\ Len(stack) \in 0 .. 3
      /\ Len(stack) >= 1 => stack # << >> /\ stack[1].fn = "main"
      /\ Len(stack) = 0 => stack = << >>
      /\ Len(stack) = 3 => stack[3].fn = "update_neighbour_count"
  BY EmptySeq DEF Shape
<1>2. ASSUME NEW fn \in { "init_map", "update_map" }
      PROVE  Activations(fn) = IF Calls(fn) THEN { 2 } ELSE {}
  BY <1>1 DEF Activations, Calls
<1>3. /\ Activations("init_map") = IF Calls("init_map") THEN { 2 } ELSE {}
      /\ Activations("update_map") = IF Calls("update_map") THEN { 2 } ELSE {}
  BY <1>2
<1>4. Calls("init_map") \/ Calls("update_map") =>
        Len(stack) >= 2 /\ ~(Calls("init_map") /\ Calls("update_map"))
  BY DEF Calls
<1>5. Len(stack) >= 2 => stack[1].bb \in { "display", "loop" }
  BY DEF Shape
<1>6. /\ stack = << >> => Phase = "closed"
      /\ Seeding => Phase = "seed"
      /\ ToEvolve => Phase = "evolve"
      /\ stack # << >> /\ ~Seeding /\ ~ToEvolve => Phase = "show"
  <2>1. CASE Len(stack) = 0
    BY <1>1, <2>1 DEF Phase, Seeding, ToEvolve, Calls
  <2>2. CASE Len(stack) = 1
    BY <1>1, <1>3, <2>2 DEF Phase, Seeding, ToEvolve, Calls
  <2>3. CASE Len(stack) >= 2
    BY <1>1, <1>3, <1>4, <1>5, <2>3 DEF Phase, Seeding, ToEvolve
  <2> QED
    BY <1>1, <2>1, <2>2, <2>3
<1> DEFINE updates == { k \in Activations("update_map") : Updating(k) }
<1>7. updates = IF Halfway THEN { 2 } ELSE {}
  BY <1>3 DEF Halfway
<1>12. Phase = "seed" <=> Seeding
  <2>1. stack = << >> \/ Seeding \/ ToEvolve \/ (stack # << >> /\ ~Seeding /\ ~ToEvolve)
    OBVIOUS
  <2>2. stack = << >> => ~Seeding
    BY <1>1 DEF Seeding, Calls
  <2> QED
    BY <1>6, <2>1, <2>2
<1>8. Board = IF Phase = "seed" THEN {}
              ELSE IF updates = {} THEN Alive
              ELSE { c \in Cells : IF \A k \in updates : Passed(stack[k], c)
                                     THEN c \in Alive
                                     ELSE Lives(c \in Alive, neighbour_count[c]) }
  BY DEF Board
<1>9. Halfway => ~Seeding
  BY <1>1 DEF Halfway, Seeding, Calls
<1> HIDE DEF updates
<1>10. Halfway => Board = { c \in Cells : IF Passed(stack[2], c) THEN c \in Alive
                                           ELSE Lives(c \in Alive, neighbour_count[c]) }
  <2> SUFFICES ASSUME Halfway
               PROVE  Board = { c \in Cells : IF Passed(stack[2], c) THEN c \in Alive
                                               ELSE Lives(c \in Alive, neighbour_count[c]) }
    OBVIOUS
  <2>1. Board = { c \in Cells : IF \A k \in updates : Passed(stack[k], c)
                                     THEN c \in Alive
                                     ELSE Lives(c \in Alive, neighbour_count[c]) }
    BY <1>12, <1>7, <1>8, <1>9
  <2> QED
    BY <1>7, <2>1
<1>11. /\ Seeding => Board = {}
       /\ ~Seeding /\ ~Halfway => Board = Alive
  BY <1>12, <1>7, <1>8
<1> QED
  BY <1>6, <1>10, <1>11 DEF View

LEMMA ViewHoldsNext == Shape' => View'
<1>1. Shape => View
  BY ViewHolds
<1> QED
  BY <1>1, PTL
(* A step that neither main nor update_map notices. *)
LEMMA Unseen ==
  ASSUME Shape, Shape', stack # << >>, stack' # << >>,
         Seeding' <=> Seeding, ToEvolve' <=> ToEvolve, Halfway' <=> Halfway,
         UNCHANGED << is_alive, shown >>,
         Halfway => \A c \in Cells :
                      \/ Passed(stack'[2], c) /\ Passed(stack[2], c)
                      \/ /\ Passed(stack'[2], c) <=> Passed(stack[2], c)
                         /\ neighbour_count'[c] = neighbour_count[c]
  PROVE  UNCHANGED << Board, shown, Phase >>
<1>1. View /\ View' /\ Alive' = Alive
  BY ViewHolds, ViewHoldsNext DEF Alive
<1>2. Phase' = Phase
  BY <1>1 DEF View
<1>3. CASE Halfway
  <2>1. /\ Board = { c \in Cells : IF Passed(stack[2], c) THEN c \in Alive
                                   ELSE Lives(c \in Alive, neighbour_count[c]) }
        /\ Board' = { c \in Cells : IF Passed(stack'[2], c) THEN c \in Alive
                                    ELSE Lives(c \in Alive, neighbour_count'[c]) }
    BY <1>1, <1>3 DEF View
  <2> QED
    BY <1>2, <1>3, <2>1
<1>4. CASE ~Halfway
  BY <1>1, <1>2, <1>4 DEF View
<1> QED
  BY <1>3, <1>4

(* Moving on, counting and drawing. *)
LEMMA LoopsStutter ==
  IInv /\ IInv' /\ (Entry \/ CondI \/ LoopI \/ CondJ \/ ExitJ) => UNCHANGED << Board, shown, Phase >>
<1> SUFFICES ASSUME IInv, IInv', Entry \/ CondI \/ LoopI \/ CondJ \/ ExitJ
             PROVE  UNCHANGED << Board, shown, Phase >>
  OBVIOUS
<1>1. Shape /\ Shape' /\ << 0, 0 >> \in Cells
  BY MapAssumption DEF IInv, Cells, Rows, Cols
<1>2. /\ stack # << >> /\ Len(stack) >= 2
      /\ UNCHANGED << is_alive, neighbour_count, hidden, shown >>
  BY SkeletonMoves
<1>3. PICK g : /\ Assign(g) /\ Looping(g) /\ g.fn = Top.fn /\ g.bb # "ret"
               /\ \A c \in Cells : Passed(g, c) <=> Passed(Top, c)
  BY SkeletonMoves
<1>4. /\ Len(stack') = Len(stack) /\ stack'[1] = stack[1]
      /\ Len(stack) = 2 => stack[2] = Top /\ stack'[2] = g
      /\ Len(stack) = 3 => stack'[2] = stack[2]
      /\ Len(stack) = 2 \/ Len(stack) = 3
  <2>1. Len(stack) = 2 \/ Len(stack) = 3
    BY <1>1, <1>2, InLoop
  <2> QED
    BY <1>1, <1>2, <1>3, <2>1, AssignKeepsShape
<1>5. /\ stack'[2].fn = stack[2].fn
      /\ \A c \in Cells : Passed(stack'[2], c) <=> Passed(stack[2], c)
  BY <1>3, <1>4
<1>6. stack' # << >>
  BY <1>4, EmptySeq
<1>7. /\ Seeding' <=> Seeding
      /\ ToEvolve' <=> ToEvolve
      /\ Halfway' <=> Halfway
  BY <1>1, <1>4, <1>5 DEF Seeding, ToEvolve, Halfway, Calls, Updating
<1> QED
  BY <1>1, <1>2, <1>5, <1>6, <1>7, Unseen

LEMMA CountStutters ==
  IInv /\ IInv' /\ update_neighbour_count => UNCHANGED << Board, shown, Phase >>
<1> SUFFICES ASSUME IInv, IInv', update_neighbour_count PROVE UNCHANGED << Board, shown, Phase >>
  OBVIOUS
<1>1. /\ stack # << >> /\ Top.bb = "loop_j" /\ Top.fn = "update_neighbour_count" /\ IncrementJ
      /\ UNCHANGED << is_alive, hidden, shown >> /\ Shape /\ Shape'
  BY DEF IInv, update_neighbour_count, In, At
<1>2. Len(stack) = 3 /\ stack[2].bb = "ret"
  BY <1>1, AtCell
<1>3. Len(stack') = 3 /\ stack'[2] = stack[2] /\ stack'[1] = stack[1]
  BY <1>1, <1>2, WorkPasses
<1>4. \A c : Passed(stack[2], c)
  BY <1>2 DEF Passed
<1>5. stack' # << >>
  BY <1>3, EmptySeq
<1>6. /\ Seeding' <=> Seeding
      /\ ToEvolve' <=> ToEvolve
      /\ Halfway' <=> Halfway
  BY <1>2, <1>3 DEF Seeding, ToEvolve, Halfway, Calls, Updating
<1> QED
  BY <1>1, <1>3, <1>4, <1>5, <1>6, Unseen

LEMMA DrawStutters ==
  IInv /\ IInv' /\ (draw_map \/ Draw \/ IncJ) => UNCHANGED << Board, shown, Phase >>
<1> SUFFICES ASSUME IInv, IInv', draw_map \/ Draw \/ IncJ PROVE UNCHANGED << Board, shown, Phase >>
  OBVIOUS
<1>1. /\ stack # << >> /\ Top.bb \in { "loop_j", "draw", "inc_j" } /\ Shape /\ Shape'
      /\ Top.bb = "loop_j" => Top.fn = "draw_map"
      /\ UNCHANGED << is_alive, neighbour_count, shown >>
  BY DEF IInv, draw_map, Draw, IncJ, In, At
<1>2. Top \in Frame /\ Top.fn = "draw_map" /\ Len(stack) = 2 /\ stack[2] = Top
  BY <1>1, AtCell DEF Looping
<1>3. PICK g : Assign(g) /\ g.fn = "draw_map"
  <2>1. \A b : [ Top EXCEPT !.bb = b ].fn = "draw_map"
    BY <1>2 DEF Frame
  <2>2. \A n, b : [ Top EXCEPT !.j = n, !.bb = b ].fn = "draw_map"
    BY <1>2 DEF Frame
  <2> QED
    BY <2>1, <2>2 DEF draw_map, Draw, IncJ, Branch, IncrementJ
<1>4. Len(stack') = 2 /\ stack'[2] = g /\ stack' # << >>
  <2>1. stack \in Seq(Frame)
    BY <1>1 DEF Shape
  <2>2. stack' = [ stack EXCEPT ![2] = g ]
    BY <1>2, <1>3 DEF Assign
  <2>3. Len(stack') = 2 /\ stack'[2] = g
    BY <1>2, <2>1, <2>2, ExceptSeq
  <2> QED
    BY <2>3, EmptySeq
<1> QED
  BY <1>1, <1>2, <1>3, <1>4, Unseen DEF Seeding, ToEvolve, Halfway, Calls
LEMMA ExitIStutters == IInv /\ IInv' /\ ExitI => UNCHANGED << Board, shown, Phase >>
<1> SUFFICES ASSUME IInv, IInv', ExitI PROVE UNCHANGED << Board, shown, Phase >>
  OBVIOUS
<1>1. /\ stack # << >> /\ Top.bb = "exit_i" /\ Shape /\ Shape'
      /\ UNCHANGED << is_alive, neighbour_count, shown >>
  BY DEF IInv, ExitI, At
<1>2. /\ Top \in Frame /\ Top = stack[Len(stack)]
      /\ \/ Len(stack) = 2 /\ Top.fn # "update_neighbour_count"
         \/ Len(stack) = 3 /\ Top.fn = "update_neighbour_count" /\ stack[2].bb = "ret"
  BY <1>1, InLoop
<1>3. /\ Len(stack) >= 2 /\ Len(stack') >= 2
      /\ stack'[2].fn = stack[2].fn /\ stack'[2].bb = "ret" /\ stack[2].bb \in { "exit_i", "ret" }
  <2>1. CASE Len(stack) = 3
    <3>1. Ret
      BY <1>2, <2>1 DEF ExitI
    <3>2. Len(stack') = 2 /\ stack'[2] = stack[2]
      BY <1>1, <2>1, <3>1, RetStep
    <3> QED
      BY <1>2, <2>1, <3>2
  <2>2. CASE Len(stack) = 2
    <3>1. Call("update_neighbour_count", "ret")
      BY <1>2, <2>2 DEF ExitI
    <3>2. Len(stack') = 3 /\ stack'[2] = [ Top EXCEPT !.bb = "ret" ]
      BY <1>1, <2>2, <3>1, CallStep DEF Functions, Blocks
    <3>3. stack[2] = Top
      BY <1>2, <2>2
    <3>4. [ Top EXCEPT !.bb = "ret" ].fn = Top.fn /\ [ Top EXCEPT !.bb = "ret" ].bb = "ret"
      BY <1>2 DEF Frame
    <3> QED
      BY <1>1, <2>2, <3>2, <3>3, <3>4
  <2> QED
    BY <1>2, <2>1, <2>2
<1>4. \A c : Passed(stack[2], c) /\ Passed(stack'[2], c)
  BY <1>3 DEF Passed
<1>5. stack' # << >> /\ Len(stack) # 1 /\ Len(stack') # 1
  BY <1>1, <1>3, EmptySeq DEF Shape
<1> QED
  BY <1>1, <1>3, <1>4, <1>5, Unseen DEF Seeding, ToEvolve, Halfway, Calls, Updating

(* The random map is the board when init_map returns. *)
LEMMA ReturnSeeds ==
  IInv /\ IInv' /\ Return => Game!Seed \/ UNCHANGED << Board, shown, Phase >>
<1> SUFFICES ASSUME IInv, IInv', Return
             PROVE  Game!Seed \/ UNCHANGED << Board, shown, Phase >>
  OBVIOUS
<1>1. /\ stack # << >> /\ Top.bb = "ret" /\ Ret /\ Shape /\ Shape'
      /\ UNCHANGED << is_alive, neighbour_count, shown >> /\ Alive' = Alive
  BY DEF IInv, Return, At, Alive
<1>2. Len(stack) = 2 /\ stack[2] = Top
  BY <1>1, InLoop
<1>3. /\ Len(stack') = 1 /\ stack'[1] = stack[1] /\ stack' # << >>
      /\ stack[1].bb \in { "display", "loop" }
  <2>1. Len(stack') = 1 /\ stack'[1] = stack[1]
    BY <1>1, <1>2, RetStep
  <2>2. stack[1].bb \in { "display", "loop" }
    BY <1>1, <1>2 DEF Shape
  <2> QED
    BY <2>1, <2>2, EmptySeq
<1>4. \A c : Passed(stack[2], c)
  BY <1>1, <1>2 DEF Passed
<1>5. View /\ View'
  BY <1>1, ViewHolds, ViewHoldsNext
<1>6. ~Seeding' /\ ~ToEvolve' /\ ~Halfway' /\ ~ToEvolve
  BY <1>2, <1>3, <1>4 DEF Seeding, ToEvolve, Halfway, Calls, Updating
<1>7. Board' = Alive /\ Phase' = "show" /\ Alive \in SUBSET Cells
  BY <1>1, <1>3, <1>5, <1>6 DEF View, Alive
<1>8. CASE Seeding
  <2>1. Phase = "seed"
    BY <1>5, <1>8 DEF View
  <2> QED
    BY <1>1, <1>7, <2>1, SameRule DEF Game!Seed
<1>9. CASE ~Seeding
  <2>1. Phase = "show"
    BY <1>1, <1>5, <1>6, <1>9 DEF View
  <2>2. Board = Alive
    <3>1. CASE Halfway
      <4>1. Board = { c \in Cells : IF Passed(stack[2], c) THEN c \in Alive
                                    ELSE Lives(c \in Alive, neighbour_count[c]) }
        BY <1>5, <3>1 DEF View
      <4> QED
        BY <1>4, <1>7, <4>1
    <3>2. CASE ~Halfway
      BY <1>5, <1>9, <3>2 DEF View
    <3> QED
      BY <3>1, <3>2
  <2> QED
    BY <1>1, <1>7, <2>1, <2>2
<1> QED
  BY <1>8, <1>9

LEMMA InitMapStutters ==
  IInv /\ IInv' /\ init_map => UNCHANGED << Board, shown, Phase >>
<1> SUFFICES ASSUME IInv, IInv', init_map PROVE UNCHANGED << Board, shown, Phase >>
  OBVIOUS
<1>1. /\ stack # << >> /\ Top.bb = "loop_j" /\ Top.fn = "init_map" /\ IncrementJ
      /\ UNCHANGED << neighbour_count, hidden, shown >> /\ Shape /\ Shape'
  BY DEF IInv, init_map, In, At
<1>2. Len(stack) = 2 /\ stack[2] = Top
  BY <1>1, AtCell
<1>3. Len(stack') = 2 /\ stack'[2].fn = "init_map"
  BY <1>1, <1>2, WorkPasses
<1>4. Seeding /\ Seeding' /\ View /\ View'
  BY <1>1, <1>2, <1>3, ViewHolds, ViewHoldsNext DEF Seeding, Calls
<1> QED
  BY <1>1, <1>4 DEF View

(* What is displayed is the whole board. *)
LEMMA MainShows ==
  IInv /\ IInv' /\ Main => Game!Show \/ UNCHANGED << Board, shown, Phase >>
<1> SUFFICES ASSUME IInv, IInv', Main PROVE Game!Show \/ UNCHANGED << Board, shown, Phase >>
  OBVIOUS
<1>1. /\ Shape /\ Shape' /\ Len(stack) = 1 /\ stack # << >> /\ Top = stack[1] /\ Alive' = Alive
      /\ UNCHANGED << is_alive, neighbour_count >>
  <2>1. Shape /\ Shape' /\ Len(stack) = 1 /\ UNCHANGED << is_alive, neighbour_count >>
    BY DEF IInv, Main
  <2>2. stack # << >>
    BY <2>1, EmptySeq
  <2> QED
    BY <2>1, <2>2, TopFrame DEF Alive
<1>2. CASE At("entry") /\ Call("init_map", "loop") /\ UNCHANGED << hidden, shown >>
  <2>1. Len(stack') = 2 /\ stack'[2].fn = "init_map"
    BY <1>1, <1>2, MainCalls
  <2>2. Seeding /\ Seeding' /\ View /\ View'
    BY <1>1, <1>2, <2>1, ViewHolds, ViewHoldsNext DEF Seeding, Calls, At
  <2> QED
    BY <1>2, <2>2 DEF View
<1>3. CASE At("loop") /\ Call("draw_map", "display") /\ hidden' = Blank /\ UNCHANGED shown
  <2>1. Len(stack') = 2 /\ stack'[2].fn = "draw_map"
    BY <1>1, <1>3, MainCalls
  <2>2. stack' # << >>
    BY <2>1, EmptySeq
  <2> QED
    BY <1>1, <1>3, <2>1, <2>2, Unseen DEF Seeding, ToEvolve, Halfway, Calls, At
<1>4. CASE /\ At("display") /\ shown' = hidden /\ UNCHANGED hidden
           /\ stack' \in { << Enter("main", "update") >>, << >> }
  <2>1. View /\ View' /\ ~Seeding /\ ~ToEvolve /\ ~Halfway
    BY <1>1, <1>4, ViewHolds, ViewHoldsNext DEF Seeding, ToEvolve, Halfway, Calls, At
  <2>2. Board = Alive /\ Phase = "show" /\ hidden = Picture(Alive)
    BY <1>1, <1>4, <2>1 DEF View, IInv, Drawn, At
  <2>3. Board' = Alive /\ Phase' \in { "evolve", "closed" }
    <3>1. CASE stack' = << >>
      <4>1. ~Seeding' /\ ~Halfway'
        BY <3>1 DEF Seeding, Halfway, Calls
      <4> QED
        BY <1>1, <2>1, <3>1, <4>1 DEF View
    <3>2. CASE stack' = << Enter("main", "update") >>
      <4>1. Len(stack') = 1 /\ stack'[1].bb = "update"
        BY <3>2 DEF Enter
      <4>2. ~Seeding' /\ ~Halfway' /\ ToEvolve'
        BY <4>1 DEF Seeding, Halfway, ToEvolve, Calls
      <4> QED
        BY <1>1, <2>1, <4>2 DEF View
    <3> QED
      BY <1>4, <3>1, <3>2
  <2> QED
    BY <1>4, <2>2, <2>3, SameRule DEF Game!Show
<1>5. CASE At("update") /\ Call("update_map", "loop") /\ UNCHANGED << hidden, shown >>
  <2>1. Len(stack') = 2 /\ stack'[2].fn = "update_map" /\ ~Passed(stack'[2], << 0, 0 >>)
    BY <1>1, <1>5, MainCalls
  <2>2. stack' # << >>
    BY <2>1, EmptySeq
  <2> QED
    BY <1>1, <1>5, <2>1, <2>2, Unseen DEF Seeding, ToEvolve, Halfway, Calls, At, Updating
<1> QED
  BY <1>2, <1>3, <1>4, <1>5 DEF Main
(* The first cell that is overwritten takes the board to its next          *)
(* generation; the counts have decided on all the others.                  *)
LEMMA UpdateEvolves ==
  IInv /\ IInv' /\ update_map => Game!Evolve \/ UNCHANGED << Board, shown, Phase >>
<1> SUFFICES ASSUME IInv, IInv', update_map
             PROVE  Game!Evolve \/ UNCHANGED << Board, shown, Phase >>
  OBVIOUS
<1> DEFINE n == neighbour_count
           Decided(c) == IF Passed(Top, c) THEN c \in Alive ELSE Lives(c \in Alive, n[c])
<1>1. /\ stack # << >> /\ Top.bb = "loop_j" /\ Top.fn = "update_map" /\ IncrementJ
      /\ UNCHANGED << neighbour_count, hidden, shown >> /\ Shape /\ Shape'
  BY DEF IInv, update_map, In, At
<1>2. Len(stack) = 2 /\ stack[2] = Top /\ Cell \in Cells /\ Started /\ View /\ View'
  BY <1>1, AtCell, ViewHolds, ViewHoldsNext
<1>3. PICK g :
        /\ Len(stack') = 2 /\ stack'[2] = g /\ g.fn = "update_map"
        /\ ~Passed(Top, Cell) /\ Passed(g, << 0, 0 >>)
        /\ \A c \in Cells : Passed(g, c) <=> Passed(Top, c) \/ c = Cell
  BY <1>1, <1>2, WorkPasses
<1>4. is_alive \in [ Cells -> { 0, 1 } ]
  <2>1. \A c \in Cells : IsSet(c)
    BY <1>1, <1>2 DEF IsSet, Calls
  <2> QED
    BY <2>1, AllSet
<1>5. \A c \in Cells : c \in Alive' <=> IF c = Cell THEN Lives(c \in Alive, n[c]) ELSE c \in Alive
  BY <1>2, <1>4 DEF update_map, Alive, SetAlive, Lives
<1>6. ~Seeding' /\ ~ToEvolve' /\ Halfway' /\ ~Seeding
  BY <1>1, <1>2, <1>3 DEF Seeding, ToEvolve, Halfway, Calls, Updating
<1>7. Phase' = "show"
  <2>1. stack' # << >>
    BY <1>3, EmptySeq
  <2> QED
    BY <1>2, <1>6, <2>1 DEF View
<1>8. Board' = { c \in Cells : Decided(c) }
  <2>1. Board' = { c \in Cells : IF Passed(g, c) THEN c \in Alive' ELSE Lives(c \in Alive', n[c]) }
    BY <1>1, <1>2, <1>3, <1>6 DEF View
  <2>2. ASSUME NEW c \in Cells
        PROVE  (IF Passed(g, c) THEN c \in Alive' ELSE Lives(c \in Alive', n[c])) <=> Decided(c)
    <3>1. CASE c = Cell
      BY <1>3, <1>5, <3>1
    <3>2. CASE c # Cell
      <4>1. (c \in Alive' <=> c \in Alive) /\ (Passed(g, c) <=> Passed(Top, c))
        BY <1>3, <1>5, <3>2
      <4> QED
        BY <4>1 DEF Lives
    <3> QED
      BY <3>1, <3>2
  <2> QED
    BY <2>1, <2>2
<1>9. CASE Halfway
  <2>1. Board = { c \in Cells : Decided(c) }
    BY <1>2, <1>9 DEF View
  <2>2. Phase = "show"
    BY <1>1, <1>2, <1>6, <1>9 DEF View, Halfway, ToEvolve
  <2> QED
    BY <1>1, <1>7, <1>8, <2>1, <2>2
<1>10. CASE ~Halfway
  <2>1. Board = Alive /\ Phase = "evolve"
    BY <1>1, <1>2, <1>6, <1>10 DEF View, Halfway, ToEvolve, Calls
  <2>2. \A c \in Cells : ~Passed(Top, c) /\ n[c] = Neighbours(Alive, c)
    <3>1. ~Passed(Top, << 0, 0 >>)
      BY <1>1, <1>2, <1>10 DEF Halfway, Calls, Updating
    <3>2. \A c \in Cells : ~Passed(Top, c)
      <4>1. Top.i \in Nat /\ Top.j \in Nat
        BY <1>1, AtCell, MapAssumption DEF Looping, Rows, Cols
      <4>2. \A c \in Cells : c[1] \in Nat /\ c[2] \in Nat
        BY DEF Cells, Rows, Cols
      <4> QED
        BY <1>1, <3>1, <4>1, <4>2 DEF Passed
    <3>3. \A c \in Cells : IsFresh(c)
      BY <1>1, <1>2, <3>1 DEF IsFresh, IsCounted, Updating
    <3> QED
      BY <3>2, <3>3 DEF IInv, MapIsWritten
  <2>3. Board' = NextGeneration(Alive)
    BY <1>8, <2>2 DEF NextGeneration
  <2> QED
    BY <1>1, <1>7, <2>1, <2>3, SameRule DEF Game!Evolve
<1> QED
  BY <1>9, <1>10

(* Every step of the program is one of the game or none of it.             *)
LEMMA StepImplements == IInv /\ [Next]_vars => [Game!Next]_(Game!lifeVars)
<1> SUFFICES ASSUME IInv, [Next]_vars PROVE Game!Next \/ UNCHANGED << Board, shown, Phase >>
  BY DEF Game!lifeVars
<1>1. IInv'
  BY StepKeepsIInv
<1>2. CASE Step
  BY <1>1, <1>2, LoopsStutter, CountStutters, DrawStutters, ExitIStutters, InitMapStutters,
     ReturnSeeds, MainShows, UpdateEvolves DEF Step, Game!Next
<1>3. CASE UNCHANGED vars
  BY <1>3 DEF vars, Board, Phase, Alive, Activations, Updating
<1> QED
  BY <1>2, <1>3 DEF Next, Exited

(* On a map of any size the program that irgen builds plays the game, the  *)
(* same as life.c: its pictures are whole generations and each follows     *)
(* from the one before by the rule.                                        *)
THEOREM ImplementsLife == Spec => Game!SafeSpec
<1>1. Init => Game!Init
  <2> SUFFICES ASSUME Init PROVE Game!Init
    OBVIOUS
  <2>1. Shape /\ Len(stack) = 1 /\ stack[1].bb = "entry"
    BY InitIInv DEF IInv, Init, Enter
  <2>2. Board = {} /\ Phase = "seed"
    BY <2>1, ViewHolds DEF View, Seeding
  <2> QED
    BY <2>2, SameRule DEF Init, Game!Init
<1>2. IInv /\ [Next]_vars => [Game!Next]_(Game!lifeVars)
  BY StepImplements
<1> QED
  BY <1>1, <1>2, Invariance, PTL DEF Spec, Game!SafeSpec
=============================================================================
