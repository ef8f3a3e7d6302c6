------------------------------ MODULE LifeGame ------------------------------
(***************************************************************************)
(* The game of life of life_game/src/life.c, a cell per step, on the       *)
(* window of life_game/sim.  The map is updated in place, from counts      *)
(* taken before, and counted anew afterwards.                              *)
(*                                                                         *)
(* A colour is its index in color_scheme, whose entries differ.  sim_rand  *)
(* is a choice, and so is the moment the user closes the window.           *)
(***************************************************************************)
EXTENDS LifeRule

VARIABLES
  pc,               \* the function that runs, "exited" after exit(0)
  i, j,             \* the variables of its loops
  is_alive,         \* map_t
  neighbour_count,
  hidden,           \* the hidden buffer of the window
  shown             \* what the window shows

vars == << pc, i, j, is_alive, neighbour_count, hidden, shown >>

Undefined == 255   \* what the stack holds before it is written
Cell      == << i, j >>

-----------------------------------------------------------------------------
(* Two nested for loops, then the function named next. *)
ForLoops(next) ==
  IF j + 1 < MAP_WIDTH
    THEN j' = j + 1 /\ UNCHANGED << i, pc >>
    ELSE /\ j' = 0
         /\ IF i + 1 < MAP_HEIGHT
              THEN i' = i + 1 /\ UNCHANGED pc
              ELSE i' = 0 /\ pc' = next

(* Seeded fault: the neighbours of the first generation are not counted. *)
init_map_without_counts ==
  /\ pc = "init_map"
  /\ \E alive \in { 0, 1 } : is_alive' = [ is_alive EXCEPT ![Cell] = alive ]
  /\ ForLoops("sim_clear")
  /\ UNCHANGED << neighbour_count, hidden, shown >>

init_map ==
  /\ pc = "init_map"
  /\ \E alive \in { 0, 1 } : is_alive' = [ is_alive EXCEPT ![Cell] = alive ]
  /\ ForLoops("update_neighbour_count")
  /\ UNCHANGED << neighbour_count, hidden, shown >>

(* Seeded fault: the map does not wrap around at its left edge. *)
left_of_flat_map == IF j = 0 THEN 0 ELSE j - 1

left   == (j + MAP_WIDTH - 1) % MAP_WIDTH
right  == (j + 1) % MAP_WIDTH
top    == (i + MAP_HEIGHT - 1) % MAP_HEIGHT
bottom == (i + 1) % MAP_HEIGHT

(* Called last by init_map and by update_map. *)
update_neighbour_count ==
  /\ pc = "update_neighbour_count"
  /\ neighbour_count' =
       [ neighbour_count EXCEPT ![Cell] =
           is_alive[<<top, left>>] + is_alive[<<top, j>>] + is_alive[<<top, right>>]
             + is_alive[<<i, left>>] + is_alive[<<i, right>>]
             + is_alive[<<bottom, left>>] + is_alive[<<bottom, j>>]
             + is_alive[<<bottom, right>>] ]
  /\ ForLoops("sim_clear")
  /\ UNCHANGED << is_alive, hidden, shown >>

sim_clear ==
  /\ pc = "sim_clear"
  /\ hidden' = Blank
  /\ pc' = "draw_map"
  /\ UNCHANGED << i, j, is_alive, neighbour_count, shown >>

draw_map ==
  /\ pc = "draw_map"
  /\ hidden' = IF is_alive[Cell] # 0
                 THEN [ hidden EXCEPT ![Cell] = neighbour_count[Cell] ]
                 ELSE hidden
  /\ ForLoops("sim_display")
  /\ UNCHANGED << is_alive, neighbour_count, shown >>

(* The buffers are swapped, then handle_events may see the window closed.  *)
sim_display ==
  /\ pc = "sim_display"
  /\ shown' = hidden
  /\ pc' \in { "update_map", "exited" }
  /\ UNCHANGED << i, j, is_alive, neighbour_count, hidden >>

(* Seeded fault: the count of the cell on the right is brought up to date at once. *)
update_map_and_count ==
  /\ pc = "update_map"
  /\ LET alive == IF neighbour_count[Cell] = 3 \/ (is_alive[Cell] # 0 /\ neighbour_count[Cell] = 2)
                    THEN 1 ELSE 0
         next  == << i, right >>
     IN  /\ is_alive' = [ is_alive EXCEPT ![Cell] = alive ]
         /\ neighbour_count' =
              [ neighbour_count EXCEPT ![next] = @ + alive - is_alive[Cell] ]
  /\ ForLoops("update_neighbour_count")
  /\ UNCHANGED << hidden, shown >>

update_map ==
  /\ pc = "update_map"
  /\ is_alive' = [ is_alive EXCEPT ![Cell] =
                     IF \/ @ # 0 /\ neighbour_count[Cell] = 2
                        \/ neighbour_count[Cell] = 3
                       THEN 1 ELSE 0 ]
  /\ ForLoops("update_neighbour_count")
  /\ UNCHANGED << neighbour_count, hidden, shown >>

-----------------------------------------------------------------------------
Init ==
  /\ pc = "init_map"
  /\ i = 0 /\ j = 0
  /\ is_alive = [ c \in Cells |-> Undefined ]
  /\ neighbour_count = [ c \in Cells |-> Undefined ]
  /\ hidden = Blank
  /\ shown = Blank

main == init_map \/ update_neighbour_count \/ sim_clear \/ draw_map \/ sim_display \/ update_map

Exited == pc = "exited" /\ UNCHANGED vars

Next == main \/ Exited

(* One thread, which waits for nothing but the display. *)
Spec == Init /\ [][Next]_vars /\ WF_vars(main)

-----------------------------------------------------------------------------
(* Cells the loops have passed. *)
Passed(c) == c[1] < i \/ (c[1] = i /\ c[2] < j)

(* The type invariant: the loops stay on the map, nothing undefined is     *)
(* read, and a count is an index of color_scheme.                          *)
TypeOK ==
  /\ pc \in { "init_map", "update_neighbour_count", "sim_clear", "draw_map",
              "sim_display", "update_map", "exited" }
  /\ << i, j >> \in Cells
  /\ is_alive \in [ Cells -> { 0, 1, Undefined } ]
  /\ neighbour_count \in [ Cells -> 0 .. 8 \cup { Undefined } ]
  /\ hidden \in [ Cells -> 0 .. Background ]
  /\ shown \in [ Cells -> 0 .. Background ]
  /\ \A c \in Cells :
       /\ (pc = "init_map" => Passed(c)) => is_alive[c] # Undefined
       /\ (pc = "update_neighbour_count" => Passed(c)) /\ pc # "init_map"
            => neighbour_count[c] # Undefined

(* The board, also in the middle of update_map, where a cell not reached   *)
(* yet is taken for what its count will make of it.                        *)
Updating == pc = "update_map" /\ Cell # << 0, 0 >>

Board ==
  IF pc = "init_map" THEN {}
  ELSE { c \in Cells : IF Updating /\ ~Passed(c)
                         THEN Lives(is_alive[c] = 1, neighbour_count[c])
                         ELSE is_alive[c] = 1 }

(* A count that is used is that of the board as it was when the generation *)
(* began, however much of the map has been overwritten since.  While the   *)
(* map is drawn that is the board; while it is updated in place it is the  *)
(* board in the window, and the cells that are still to be decided have    *)
(* the state and the count they had in it.                                 *)
Pictured == { c \in Cells : shown[c] # Background }

CountsAreCurrent ==
  /\ pc \in { "sim_clear", "draw_map", "sim_display" } =>
       \A c \in Cells : neighbour_count[c] = Neighbours(Board, c)
  /\ pc = "update_neighbour_count" =>
       \A c \in Cells : Passed(c) => neighbour_count[c] = Neighbours(Board, c)
  /\ pc = "update_map" =>
       \A c \in Cells : ~Passed(c) =>
         /\ neighbour_count[c] = Neighbours(Pictured, c)
         /\ is_alive[c] = 1 <=> c \in Pictured

Phase ==
  IF pc = "init_map" THEN "seed"
  ELSE IF pc = "exited" THEN "closed"
  ELSE IF pc = "update_map" /\ ~Updating THEN "evolve"
  ELSE "show"

Game == INSTANCE Life WITH board <- Board, screen <- shown, phase <- Phase

(* life.c plays the game: every picture is the whole of a generation, the  *)
(* next one follows by the rule although the map is updated in place, and  *)
(* pictures are shown until the window is closed.                          *)
PlaysLife == Game!Spec
=============================================================================
