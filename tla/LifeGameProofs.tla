--------------------------- MODULE LifeGameProofs ---------------------------
(***************************************************************************)
(* Theorems about life.c, for maps of every width and height: nothing      *)
(* undefined is read, the counts that are used are those of the board, and *)
(* the program implements Life.  The inductive invariant adds to the first *)
(* two where the loops start and what has been drawn.                      *)
(***************************************************************************)
EXTENDS LifeGame, TLAPS

AliveCells == { c \in Cells : is_alive[c] = 1 }

AtOrigin == pc \in { "sim_clear", "sim_display", "exited" } => i = 0 /\ j = 0

Drawn ==
  /\ pc = "draw_map" =>
       \A c \in Cells :
         hidden[c] = IF Passed(c) /\ is_alive[c] = 1 THEN neighbour_count[c] ELSE Background
  /\ pc = "sim_display" => hidden = Picture(AliveCells)

IInv == TypeOK /\ CountsAreCurrent /\ AtOrigin /\ Drawn

-----------------------------------------------------------------------------
(* The torus *)

(* One step left or up, as C computes it without negative numbers. *)
LEMMA Wrap ==
  ASSUME NEW n \in Nat \ {0}, NEW k \in 0 .. n - 1
  PROVE  /\ k % n = k
         /\ (k + n - 1) % n = (k - 1) % n
         /\ (k - 1) % n \in 0 .. n - 1
         /\ (k + 1) % n \in 0 .. n - 1
OBVIOUS

(* The indices of the neighbours are on the map. *)
LEMMA Around ==
  ASSUME TypeOK
  PROVE  /\ i \in Rows /\ j \in Cols
         /\ top = (i - 1) % MAP_HEIGHT /\ bottom = (i + 1) % MAP_HEIGHT
         /\ left = (j - 1) % MAP_WIDTH /\ right = (j + 1) % MAP_WIDTH
         /\ top \in Rows /\ bottom \in Rows /\ left \in Cols /\ right \in Cols
         /\ i % MAP_HEIGHT = i /\ j % MAP_WIDTH = j
<1>1. i \in Rows /\ j \in Cols
  BY DEF TypeOK, Cells
<1>2. i \in 0 .. MAP_HEIGHT - 1 /\ j \in 0 .. MAP_WIDTH - 1
  BY <1>1 DEF Rows, Cols
<1> QED
  BY <1>1, <1>2, Wrap, MapAssumption DEF top, bottom, left, right, Rows, Cols

(* What a pass over the map counts, if every cell is alive or dead. *)
LEMMA OneIsAlive ==
  ASSUME is_alive \in [ Cells -> { 0, 1 } ],
         NEW y \in Int, NEW x \in Int
  PROVE  One(AliveCells, y, x) = is_alive[<< y % MAP_HEIGHT, x % MAP_WIDTH >>]
<1>1. << y % MAP_HEIGHT, x % MAP_WIDTH >> \in Cells
  BY MapAssumption DEF Cells, Rows, Cols
<1> QED
  BY <1>1 DEF One, AliveCells

-----------------------------------------------------------------------------
(* The loops *)

(* A step of the loops passes one cell, and leaves them when it was last.  *)
LEMMA LoopStep ==
  ASSUME NEW next, TypeOK, ForLoops(next)
  PROVE  /\ << i', j' >> \in Cells
         /\ \/ /\ pc' = pc
               /\ << i', j' >> # << 0, 0 >>
               /\ \A c \in Cells : Passed(c)' <=> Passed(c) \/ c = Cell
            \/ /\ pc' = next /\ i' = 0 /\ j' = 0
               /\ \A c \in Cells : Passed(c) \/ c = Cell
<1>1. i \in Rows /\ j \in Cols /\ MAP_WIDTH \in Nat \ {0} /\ MAP_HEIGHT \in Nat \ {0}
  BY Around, MapAssumption
<1>2. ASSUME NEW c \in Cells
      PROVE  c[1] \in Rows /\ c[2] \in Cols /\ (c = Cell <=> c[1] = i /\ c[2] = j)
  BY DEF Cells, Cell
<1>3. CASE j + 1 < MAP_WIDTH
  <2>1. j' = j + 1 /\ i' = i /\ pc' = pc
    BY <1>3 DEF ForLoops
  <2> QED
    BY <1>1, <1>2, <1>3, <2>1 DEF Passed, Rows, Cols, Cells
<1>4. CASE ~(j + 1 < MAP_WIDTH) /\ i + 1 < MAP_HEIGHT
  <2>1. j' = 0 /\ i' = i + 1 /\ pc' = pc
    BY <1>4 DEF ForLoops
  <2> QED
    BY <1>1, <1>2, <1>4, <2>1 DEF Passed, Rows, Cols, Cells
<1>5. CASE ~(j + 1 < MAP_WIDTH) /\ ~(i + 1 < MAP_HEIGHT)
  <2>1. j' = 0 /\ i' = 0 /\ pc' = next
    BY <1>5 DEF ForLoops
  <2> QED
    BY <1>1, <1>2, <1>5, <2>1 DEF Passed, Rows, Cols, Cells
<1> QED
  BY <1>3, <1>4, <1>5
-----------------------------------------------------------------------------
(* What the invariant says of the map and of the board *)

(* Once a part of the map has been written it can be read. *)
LEMMA Defined ==
  ASSUME TypeOK
  PROVE  /\ Cell \in Cells
         /\ pc # "init_map" => is_alive \in [ Cells -> { 0, 1 } ]
         /\ pc \notin { "init_map", "update_neighbour_count" }
              => neighbour_count \in [ Cells -> 0 .. 8 ]
<1>1. Cell \in Cells
  BY DEF TypeOK, Cell
<1>2. ASSUME pc # "init_map"
      PROVE  is_alive \in [ Cells -> { 0, 1 } ]
  <2>1. \A c \in Cells : is_alive[c] \in { 0, 1, Undefined } /\ is_alive[c] # Undefined
    BY <1>2 DEF TypeOK
  <2> QED
    BY <2>1 DEF TypeOK
<1>3. ASSUME pc \notin { "init_map", "update_neighbour_count" }
      PROVE  neighbour_count \in [ Cells -> 0 .. 8 ]
  <2>1. \A c \in Cells : neighbour_count[c] \in 0 .. 8 \cup { Undefined }
                            /\ neighbour_count[c] # Undefined
    BY <1>3 DEF TypeOK
  <2> QED
    BY <2>1 DEF TypeOK
<1> QED
  BY <1>1, <1>2, <1>3

(* The board is what is alive, but for the time of an update. *)
LEMMA BoardIsAlive ==
  /\ pc = "init_map" => Board = {}
  /\ pc # "init_map" /\ ~Updating => Board = AliveCells
BY DEF Board, AliveCells

LEMMA BoardIsAliveNext ==
  /\ pc' = "init_map" => Board' = {}
  /\ pc' # "init_map" /\ ~Updating' => Board' = AliveCells'
BY DEF Board, AliveCells

(* The count of a cell whose neighbours are alive or dead. *)
LEMMA Counted ==
  ASSUME TypeOK, is_alive \in [ Cells -> { 0, 1 } ]
  PROVE  /\ Neighbours(AliveCells, Cell) =
              is_alive[<<top, left>>] + is_alive[<<top, j>>] + is_alive[<<top, right>>]
                + is_alive[<<i, left>>] + is_alive[<<i, right>>]
                + is_alive[<<bottom, left>>] + is_alive[<<bottom, j>>]
                + is_alive[<<bottom, right>>]
         /\ Neighbours(AliveCells, Cell) \in 0 .. 8
<1>1. /\ i \in Int /\ j \in Int /\ i - 1 \in Int /\ i + 1 \in Int /\ j - 1 \in Int /\ j + 1 \in Int
      /\ i \in Rows /\ j \in Cols /\ top \in Rows /\ bottom \in Rows /\ left \in Cols /\ right \in Cols
  BY Around, MapAssumption DEF Rows, Cols
<1>2. \A y \in Rows : \A x \in Cols : is_alive[<< y, x >>] \in { 0, 1 }
  BY DEF Cells
<1>3. /\ One(AliveCells, i - 1, j - 1) = is_alive[<<top, left>>]
      /\ One(AliveCells, i - 1, j) = is_alive[<<top, j>>]
      /\ One(AliveCells, i - 1, j + 1) = is_alive[<<top, right>>]
      /\ One(AliveCells, i, j - 1) = is_alive[<<i, left>>]
      /\ One(AliveCells, i, j + 1) = is_alive[<<i, right>>]
      /\ One(AliveCells, i + 1, j - 1) = is_alive[<<bottom, left>>]
      /\ One(AliveCells, i + 1, j) = is_alive[<<bottom, j>>]
      /\ One(AliveCells, i + 1, j + 1) = is_alive[<<bottom, right>>]
  <2>1. \A y, x \in Int :
          One(AliveCells, y, x) = is_alive[<< y % MAP_HEIGHT, x % MAP_WIDTH >>]
    BY OneIsAlive
  <2>2. /\ (i - 1) % MAP_HEIGHT = top /\ (i + 1) % MAP_HEIGHT = bottom
        /\ (j - 1) % MAP_WIDTH = left /\ (j + 1) % MAP_WIDTH = right
        /\ i % MAP_HEIGHT = i /\ j % MAP_WIDTH = j
    BY Around
  <2>3. /\ One(AliveCells, i - 1, j - 1) = is_alive[<< (i - 1) % MAP_HEIGHT, (j - 1) % MAP_WIDTH >>]
        /\ One(AliveCells, i - 1, j) = is_alive[<< (i - 1) % MAP_HEIGHT, j % MAP_WIDTH >>]
        /\ One(AliveCells, i - 1, j + 1) = is_alive[<< (i - 1) % MAP_HEIGHT, (j + 1) % MAP_WIDTH >>]
        /\ One(AliveCells, i, j - 1) = is_alive[<< i % MAP_HEIGHT, (j - 1) % MAP_WIDTH >>]
        /\ One(AliveCells, i, j + 1) = is_alive[<< i % MAP_HEIGHT, (j + 1) % MAP_WIDTH >>]
        /\ One(AliveCells, i + 1, j - 1) = is_alive[<< (i + 1) % MAP_HEIGHT, (j - 1) % MAP_WIDTH >>]
        /\ One(AliveCells, i + 1, j) = is_alive[<< (i + 1) % MAP_HEIGHT, j % MAP_WIDTH >>]
        /\ One(AliveCells, i + 1, j + 1) = is_alive[<< (i + 1) % MAP_HEIGHT, (j + 1) % MAP_WIDTH >>]
    BY <1>1, <2>1
  <2> QED
    BY <2>2, <2>3
<1>4. Neighbours(AliveCells, Cell) =
        One(AliveCells, i - 1, j - 1) + One(AliveCells, i - 1, j) + One(AliveCells, i - 1, j + 1)
          + One(AliveCells, i, j - 1) + One(AliveCells, i, j + 1)
          + One(AliveCells, i + 1, j - 1) + One(AliveCells, i + 1, j)
          + One(AliveCells, i + 1, j + 1)
  BY DEF Neighbours, Cell
<1>5. Neighbours(AliveCells, Cell) =
              is_alive[<<top, left>>] + is_alive[<<top, j>>] + is_alive[<<top, right>>]
                + is_alive[<<i, left>>] + is_alive[<<i, right>>]
                + is_alive[<<bottom, left>>] + is_alive[<<bottom, j>>]
                + is_alive[<<bottom, right>>]
  BY <1>3, <1>4
<1> HIDE DEF Cell
<1> QED
  BY <1>1, <1>2, <1>5

-----------------------------------------------------------------------------
(* The invariant *)

LEMMA InitIInv == Init => IInv
<1> SUFFICES ASSUME Init PROVE IInv
  OBVIOUS
<1>1. \A c \in Cells : ~Passed(c)
  BY MapAssumption DEF Init, Passed, Cells, Rows, Cols
<1>2. TypeOK
  BY <1>1, MapAssumption DEF Init, TypeOK, Cells, Rows, Cols, Blank, Background, Undefined
<1> QED
  BY <1>2 DEF Init, IInv, CountsAreCurrent, AtOrigin, Drawn

(* Every cell of the map gets a value, all are counted afterwards. *)
LEMMA InitMapKeeps == IInv /\ init_map => IInv'
<1> SUFFICES ASSUME IInv, init_map PROVE IInv'
  OBVIOUS
<1>1. TypeOK /\ pc = "init_map" /\ Cell \in Cells
  BY Defined DEF IInv, init_map
<1>2. PICK alive \in { 0, 1 } : is_alive' = [ is_alive EXCEPT ![Cell] = alive ]
  BY DEF init_map
<1>3. UNCHANGED << neighbour_count, hidden, shown >>
  BY DEF init_map
<1>4. \A c \in Cells : is_alive'[c] = IF c = Cell THEN alive ELSE is_alive[c]
  BY <1>1, <1>2 DEF TypeOK
<1>5. ForLoops("update_neighbour_count")
  BY DEF init_map
<1>6. /\ << i', j' >> \in Cells
      /\ \/ /\ pc' = "init_map"
            /\ \A c \in Cells : Passed(c)' <=> Passed(c) \/ c = Cell
         \/ /\ pc' = "update_neighbour_count" /\ i' = 0 /\ j' = 0
            /\ \A c \in Cells : Passed(c) \/ c = Cell
  BY <1>1, <1>5, LoopStep
<1>7. \A c \in Cells : i' = 0 /\ j' = 0 => ~Passed(c)'
  BY DEF Passed, Cells, Rows, Cols
<1>8. TypeOK'
  <2>1. is_alive' \in [ Cells -> { 0, 1, Undefined } ]
    BY <1>1, <1>2 DEF TypeOK
  <2>2. \A c \in Cells : (pc' = "init_map" => Passed(c)') => is_alive'[c] # Undefined
    BY <1>1, <1>4, <1>6 DEF TypeOK, Undefined
  <2>3. pc' # "init_map" => \A c \in Cells : ~Passed(c)'
    BY <1>6, <1>7
  <2> QED
    BY <1>1, <1>3, <1>6, <2>1, <2>2, <2>3 DEF TypeOK
<1> QED
  BY <1>6, <1>7, <1>8 DEF IInv, CountsAreCurrent, AtOrigin, Drawn

(* One more count is that of the board, which does not change meanwhile.   *)
LEMMA CountKeeps == IInv /\ update_neighbour_count => IInv'
<1> SUFFICES ASSUME IInv, update_neighbour_count PROVE IInv'
  OBVIOUS
<1>1. /\ TypeOK /\ pc = "update_neighbour_count" /\ Cell \in Cells
      /\ is_alive \in [ Cells -> { 0, 1 } ]
  BY Defined DEF IInv, update_neighbour_count
<1>2. UNCHANGED << is_alive, hidden, shown >> /\ AliveCells' = AliveCells
  BY DEF update_neighbour_count, AliveCells
<1>3. neighbour_count' = [ neighbour_count EXCEPT ![Cell] = Neighbours(AliveCells, Cell) ]
  BY <1>1, Counted DEF update_neighbour_count
<1>4. /\ Neighbours(AliveCells, Cell) \in 0 .. 8
      /\ \A c \in Cells : neighbour_count'[c] = IF c = Cell THEN Neighbours(AliveCells, c)
                                                 ELSE neighbour_count[c]
  BY <1>1, <1>3, Counted DEF TypeOK
<1>5. ForLoops("sim_clear")
  BY DEF update_neighbour_count
<1>6. /\ << i', j' >> \in Cells
      /\ \/ /\ pc' = "update_neighbour_count"
            /\ \A c \in Cells : Passed(c)' <=> Passed(c) \/ c = Cell
         \/ /\ pc' = "sim_clear" /\ i' = 0 /\ j' = 0
            /\ \A c \in Cells : Passed(c) \/ c = Cell
  BY <1>1, <1>5, LoopStep
<1>7. \A c \in Cells : Passed(c) => neighbour_count[c] = Neighbours(AliveCells, c)
  BY <1>1, BoardIsAlive DEF IInv, CountsAreCurrent, Updating
<1>8. \A c \in Cells : (pc' = "update_neighbour_count" => Passed(c)')
                          => neighbour_count'[c] = Neighbours(AliveCells, c)
  BY <1>4, <1>6, <1>7
<1>9. Board' = AliveCells'
  BY <1>6, BoardIsAliveNext DEF Updating
<1>10. TypeOK'
  <2>1. neighbour_count' \in [ Cells -> 0 .. 8 \cup { Undefined } ]
    BY <1>1, <1>3, <1>4 DEF TypeOK
  <2>2. \A c \in Cells : (pc' = "update_neighbour_count" => Passed(c)')
                            => neighbour_count'[c] # Undefined
    BY <1>1, <1>4, <1>6 DEF TypeOK, Undefined
  <2> QED
    BY <1>1, <1>2, <1>6, <2>1, <2>2 DEF TypeOK
<1>11. CountsAreCurrent'
  BY <1>2, <1>6, <1>8, <1>9 DEF CountsAreCurrent
<1> QED
  BY <1>6, <1>10, <1>11 DEF IInv, AtOrigin, Drawn

(* An empty buffer shows what has been drawn when nothing has been.        *)
LEMMA ClearKeeps == IInv /\ sim_clear => IInv'
<1> SUFFICES ASSUME IInv, sim_clear PROVE IInv'
  OBVIOUS
<1>1. /\ TypeOK /\ pc = "sim_clear" /\ pc' = "draw_map" /\ hidden' = Blank
      /\ UNCHANGED << i, j, is_alive, neighbour_count, shown >>
      /\ i = 0 /\ j = 0
  BY DEF IInv, sim_clear, AtOrigin
<1>2. TypeOK'
  BY <1>1 DEF TypeOK, Blank, Background
<1>3. Board' = Board
  BY <1>1 DEF Board, Updating
<1>4. CountsAreCurrent'
  BY <1>1, <1>3 DEF IInv, CountsAreCurrent
<1>5. \A c \in Cells : ~Passed(c)' /\ hidden'[c] = Background
  BY <1>1 DEF Passed, Cells, Rows, Cols, Blank
<1> QED
  BY <1>1, <1>2, <1>4, <1>5 DEF IInv, AtOrigin, Drawn

(* A cell is drawn in the colour of its count; the last completes the      *)
(* picture.                                                                *)
LEMMA DrawKeeps == IInv /\ draw_map => IInv'
<1> SUFFICES ASSUME IInv, draw_map PROVE IInv'
  OBVIOUS
<1>1. /\ TypeOK /\ pc = "draw_map" /\ Cell \in Cells
      /\ is_alive \in [ Cells -> { 0, 1 } ]
      /\ neighbour_count \in [ Cells -> 0 .. 8 ]
      /\ hidden \in [ Cells -> 0 .. Background ]
  BY Defined DEF IInv, draw_map, TypeOK
<1>2. UNCHANGED << is_alive, neighbour_count, shown >> /\ AliveCells' = AliveCells
  BY DEF draw_map, AliveCells
<1>3. ForLoops("sim_display")
  BY DEF draw_map
<1>4. /\ << i', j' >> \in Cells
      /\ \/ /\ pc' = "draw_map"
            /\ \A c \in Cells : Passed(c)' <=> Passed(c) \/ c = Cell
         \/ /\ pc' = "sim_display" /\ i' = 0 /\ j' = 0
            /\ \A c \in Cells : Passed(c) \/ c = Cell
  BY <1>1, <1>3, LoopStep
<1>5. /\ hidden' \in [ Cells -> 0 .. Background ]
      /\ \A c \in Cells :
           hidden'[c] = IF c = Cell /\ is_alive[c] = 1 THEN neighbour_count[c] ELSE hidden[c]
  BY <1>1 DEF draw_map, Background
<1>6. \A c \in Cells :
        hidden[c] = IF Passed(c) /\ is_alive[c] = 1 THEN neighbour_count[c] ELSE Background
  BY <1>1 DEF IInv, Drawn
<1>7. \A c \in Cells :
        hidden'[c] = IF (Passed(c) \/ c = Cell) /\ is_alive[c] = 1
                       THEN neighbour_count[c] ELSE Background
  BY <1>5, <1>6
<1>8. Board' = AliveCells /\ Board = AliveCells
  BY <1>1, <1>2, <1>4, BoardIsAlive, BoardIsAliveNext DEF Updating
<1>9. \A c \in Cells : neighbour_count[c] = Neighbours(AliveCells, c)
  BY <1>1, <1>8 DEF IInv, CountsAreCurrent
<1>10. TypeOK'
  BY <1>1, <1>2, <1>4, <1>5 DEF TypeOK
<1>11. CountsAreCurrent'
  BY <1>2, <1>4, <1>8, <1>9 DEF CountsAreCurrent
<1>12. pc' = "sim_display" => hidden' = Picture(AliveCells')
  <2> SUFFICES ASSUME pc' = "sim_display" PROVE hidden' = Picture(AliveCells)
    BY <1>2
  <2>1. \A c \in Cells : hidden'[c] = IF c \in AliveCells THEN Neighbours(AliveCells, c) ELSE Background
    BY <1>4, <1>7, <1>9 DEF AliveCells
  <2> QED
    BY <1>5, <2>1 DEF Picture
<1>13. pc' = "draw_map" =>
         \A c \in Cells :
           hidden'[c] = IF Passed(c)' /\ is_alive'[c] = 1 THEN neighbour_count'[c] ELSE Background
  BY <1>2, <1>4, <1>7
<1> QED
  BY <1>4, <1>10, <1>11, <1>12, <1>13 DEF IInv, AtOrigin, Drawn

(* A complete picture tells which cells were alive. *)
LEMMA PictureTells ==
  ASSUME \A c \in Cells : Neighbours(AliveCells, c) \in 0 .. 8
  PROVE  { c \in Cells : Picture(AliveCells)[c] # Background } = AliveCells
<1>1. \A c \in Cells : Picture(AliveCells)[c] # Background <=> c \in AliveCells
  BY DEF Picture, Background
<1> QED
  BY <1>1 DEF AliveCells

(* When the picture is shown the map and its counts are those it shows.    *)
LEMMA DisplayKeeps == IInv /\ sim_display => IInv'
<1> SUFFICES ASSUME IInv, sim_display PROVE IInv'
  OBVIOUS
<1>1. /\ TypeOK /\ pc = "sim_display" /\ pc' \in { "update_map", "exited" } /\ shown' = hidden
      /\ UNCHANGED << i, j, is_alive, neighbour_count, hidden >>
      /\ i = 0 /\ j = 0 /\ AliveCells' = AliveCells
      /\ hidden = Picture(AliveCells)
  BY DEF IInv, sim_display, AtOrigin, AliveCells, Drawn
<1>2. TypeOK'
  BY <1>1 DEF TypeOK
<1>3. \A c \in Cells : neighbour_count[c] = Neighbours(AliveCells, c)
  BY <1>1, BoardIsAlive DEF IInv, CountsAreCurrent, Updating
<1>4. Pictured' = AliveCells
  <2>1. \A c \in Cells : Neighbours(AliveCells, c) \in 0 .. 8
    BY <1>1, <1>3, Defined
  <2>2. { c \in Cells : Picture(AliveCells)[c] # Background } = AliveCells
    BY <2>1, PictureTells
  <2> QED
    BY <1>1, <2>2 DEF Pictured
<1>5. \A c \in Cells : is_alive[c] = 1 <=> c \in AliveCells
  BY DEF AliveCells
<1>6. CountsAreCurrent'
  BY <1>1, <1>3, <1>4, <1>5 DEF CountsAreCurrent
<1> QED
  BY <1>1, <1>2, <1>6 DEF IInv, AtOrigin, Drawn

(* The update takes the cell it overwrites out of those still to be        *)
(* decided, and touches neither the others nor their counts.               *)
LEMMA UpdateKeeps == IInv /\ update_map => IInv'
<1> SUFFICES ASSUME IInv, update_map PROVE IInv'
  OBVIOUS
<1>1. /\ TypeOK /\ pc = "update_map" /\ Cell \in Cells
      /\ is_alive \in [ Cells -> { 0, 1 } ]
      /\ UNCHANGED << neighbour_count, hidden, shown >>
      /\ ForLoops("update_neighbour_count")
  BY Defined DEF IInv, update_map
<1>2. /\ is_alive' \in [ Cells -> { 0, 1 } ]
      /\ \A c \in Cells : c # Cell => is_alive'[c] = is_alive[c]
  BY <1>1 DEF update_map
<1>3. /\ << i', j' >> \in Cells
      /\ \/ /\ pc' = "update_map"
            /\ \A c \in Cells : Passed(c)' <=> Passed(c) \/ c = Cell
         \/ pc' = "update_neighbour_count" /\ \A c \in Cells : ~Passed(c)'
  <2>1. \A c \in Cells : i' = 0 /\ j' = 0 => ~Passed(c)'
    BY DEF Passed, Cells, Rows, Cols
  <2> QED
    BY <1>1, <2>1, LoopStep
<1>4. TypeOK'
  <2>1. is_alive' \in [ Cells -> { 0, 1, Undefined } ] /\ \A c \in Cells : is_alive'[c] # Undefined
    BY <1>2 DEF Undefined
  <2> QED
    BY <1>1, <1>3, <2>1 DEF TypeOK
<1>5. Pictured' = Pictured
  BY <1>1 DEF Pictured
<1>6. CountsAreCurrent'
  <2>1. CASE pc' = "update_neighbour_count" /\ \A c \in Cells : ~Passed(c)'
    BY <2>1 DEF CountsAreCurrent
  <2>2. CASE pc' = "update_map" /\ \A c \in Cells : Passed(c)' <=> Passed(c) \/ c = Cell
    <3>1. \A c \in Cells : ~Passed(c)' => ~Passed(c) /\ is_alive'[c] = is_alive[c]
      BY <1>2, <2>2
    <3>2. \A c \in Cells : ~Passed(c) => /\ neighbour_count[c] = Neighbours(Pictured, c)
                                         /\ is_alive[c] = 1 <=> c \in Pictured
      BY <1>1 DEF IInv, CountsAreCurrent
    <3>3. \A c \in Cells : ~Passed(c)' => /\ neighbour_count'[c] = Neighbours(Pictured', c)
                                          /\ is_alive'[c] = 1 <=> c \in Pictured'
      BY <1>1, <1>5, <3>1, <3>2
    <3> QED
      BY <2>2, <3>3 DEF CountsAreCurrent
  <2> QED
    BY <1>3, <2>1, <2>2
<1> QED
  BY <1>3, <1>4, <1>6 DEF IInv, AtOrigin, Drawn

LEMMA StepKeepsIInv == IInv /\ [Next]_vars => IInv'
<1> SUFFICES ASSUME IInv, [Next]_vars PROVE IInv'
  OBVIOUS
<1>1. CASE main
  BY <1>1, InitMapKeeps, CountKeeps, ClearKeeps, DrawKeeps, DisplayKeeps, UpdateKeeps DEF main
<1>2. CASE UNCHANGED vars
  BY <1>2 DEF vars, IInv, TypeOK, Passed, CountsAreCurrent, Board, Updating, Cell, AtOrigin,
              Pictured, AliveCells, Drawn
<1> QED
  BY <1>1, <1>2 DEF Next, Exited

LEMMA Invariance == Spec => []IInv
<1>1. Init => IInv
  BY InitIInv
<1>2. IInv /\ [Next]_vars => IInv'
  BY StepKeepsIInv
<1> QED
  BY <1>1, <1>2, PTL DEF Spec

(* On a map of any size the loops stay on the map, no cell and no count is *)
(* read before it is written, and every count is an index of color_scheme. *)
THEOREM TypeCorrect == Spec => []TypeOK
<1>1. IInv => TypeOK
  BY DEF IInv
<1> QED
  BY <1>1, Invariance, PTL

(* What is drawn, and what an update decides each of its cells by, are the *)
(* states and the counts of the board in the picture, taken before the     *)
(* first cell was overwritten.                                             *)
THEOREM CountsCurrent == Spec => []CountsAreCurrent
<1>1. IInv => CountsAreCurrent
  BY DEF IInv
<1> QED
  BY <1>1, Invariance, PTL

-----------------------------------------------------------------------------
(* life.c implements Life *)

(* Life speaks of the same map and the same rule. *)
LEMMA SameRule ==
  /\ Game!Cells = Cells /\ Game!Blank = Blank
  /\ \A b : Game!Picture(b) = Picture(b) /\ Game!NextGeneration(b) = NextGeneration(b)
<1>1. Game!Cells = Cells
  BY DEF Game!Cells, Cells, Game!Rows, Rows, Game!Cols, Cols
<1>2. \A b, c : Game!Neighbours(b, c) = Neighbours(b, c)
  BY DEF Game!Neighbours, Neighbours, Game!One, One
<1>3. \A a, n : Game!Lives(a, n) = Lives(a, n)
  BY DEF Game!Lives, Lives
<1>4. Game!Background = Background
  BY DEF Game!Background, Background
<1>5. ASSUME NEW b PROVE Game!Picture(b) = Picture(b)
  BY <1>1, <1>2, <1>4 DEF Game!Picture, Picture
<1>6. ASSUME NEW b PROVE Game!NextGeneration(b) = NextGeneration(b)
  BY <1>1, <1>2, <1>3 DEF Game!NextGeneration, NextGeneration
<1>7. Game!Blank = Blank
  BY <1>1, <1>4 DEF Game!Blank, Blank
<1> QED
  BY <1>1, <1>5, <1>6, <1>7

(* The random map appears on the board when it is complete.                *)
LEMMA InitMapSeeds == IInv /\ init_map => Game!Seed \/ UNCHANGED << Board, shown, Phase >>
<1> SUFFICES ASSUME IInv, init_map PROVE Game!Seed \/ UNCHANGED << Board, shown, Phase >>
  OBVIOUS
<1>1. TypeOK /\ pc = "init_map" /\ ForLoops("update_neighbour_count") /\ shown' = shown
  BY DEF IInv, init_map
<1>2. pc' = "init_map" \/ pc' = "update_neighbour_count"
  BY <1>1, LoopStep
<1>3. Phase = "seed"
  BY <1>1 DEF Phase
<1>4. CASE pc' = "init_map"
  BY <1>1, <1>3, <1>4, BoardIsAlive, BoardIsAliveNext DEF Phase
<1>5. CASE pc' = "update_neighbour_count"
  <2>1. Board' = AliveCells' /\ Phase' = "show"
    BY <1>5, BoardIsAliveNext DEF Updating, Phase
  <2>2. Board' \in SUBSET Cells
    BY <2>1 DEF AliveCells
  <2> QED
    BY <1>1, <1>3, <2>1, <2>2, SameRule DEF Game!Seed
<1> QED
  BY <1>2, <1>4, <1>5

(* Counting and drawing is no step of the game. *)
LEMMA CountAndDrawStutter ==
  IInv /\ (update_neighbour_count \/ sim_clear \/ draw_map)
    => UNCHANGED << Board, shown, Phase >>
<1> SUFFICES ASSUME IInv, update_neighbour_count \/ sim_clear \/ draw_map
             PROVE  UNCHANGED << Board, shown, Phase >>
  OBVIOUS
<1>1. is_alive' = is_alive /\ shown' = shown
  BY DEF update_neighbour_count, sim_clear, draw_map
<1>2. /\ pc \in { "update_neighbour_count", "sim_clear", "draw_map" }
      /\ pc' \in { "update_neighbour_count", "sim_clear", "draw_map", "sim_display" }
  <2>1. TypeOK
    BY DEF IInv
  <2> QED
    BY <2>1, LoopStep DEF update_neighbour_count, sim_clear, draw_map
<1>3. Phase = "show" /\ Phase' = "show"
  BY <1>2 DEF Phase
<1>4. Board = AliveCells /\ Board' = AliveCells'
  BY <1>2, BoardIsAlive, BoardIsAliveNext DEF Updating
<1> QED
  BY <1>1, <1>3, <1>4 DEF AliveCells

(* What is displayed is the whole board. *)
LEMMA DisplayShows == IInv /\ sim_display => Game!Show
<1> SUFFICES ASSUME IInv, sim_display PROVE Game!Show
  OBVIOUS
<1>1. /\ pc = "sim_display" /\ pc' \in { "update_map", "exited" } /\ shown' = hidden
      /\ i = 0 /\ j = 0 /\ UNCHANGED << i, j, is_alive >>
      /\ hidden = Picture(AliveCells)
  BY DEF IInv, sim_display, AtOrigin, Drawn
<1>2. ~Updating /\ ~Updating'
  BY <1>1 DEF Updating, Cell
<1>3. Board = AliveCells /\ Board' = AliveCells'
  BY <1>1, <1>2, BoardIsAlive, BoardIsAliveNext
<1>4. Board' = Board
  BY <1>1, <1>3 DEF AliveCells
<1>5. Phase = "show" /\ Phase' \in { "evolve", "closed" }
  BY <1>1, <1>2 DEF Phase
<1> QED
  BY <1>1, <1>3, <1>4, <1>5, SameRule DEF Game!Show

(* The first cell that is overwritten takes the board to its next          *)
(* generation: the counts have decided on all the others.                  *)
LEMMA UpdateEvolves == IInv /\ update_map => Game!Evolve \/ UNCHANGED << Board, shown, Phase >>
<1> SUFFICES ASSUME IInv, update_map PROVE Game!Evolve \/ UNCHANGED << Board, shown, Phase >>
  OBVIOUS
<1>1. /\ TypeOK /\ pc = "update_map" /\ Cell \in Cells
      /\ is_alive \in [ Cells -> { 0, 1 } ]
      /\ UNCHANGED << neighbour_count, hidden, shown >>
      /\ ForLoops("update_neighbour_count")
  BY Defined DEF IInv, update_map
<1> DEFINE Decided(c) == Lives(is_alive[c] = 1, neighbour_count[c])
<1>2. /\ is_alive'[Cell] = 1 <=> Decided(Cell)
      /\ \A c \in Cells : c # Cell => is_alive'[c] = is_alive[c]
  BY <1>1 DEF update_map, Lives
<1>3. ~Passed(Cell)
  BY <1>1 DEF Passed, Cell, TypeOK, Cells, Rows, Cols
<1>4. \/ /\ pc' = "update_map" /\ Cell' # << 0, 0 >>
         /\ \A c \in Cells : Passed(c)' <=> Passed(c) \/ c = Cell
      \/ /\ pc' = "update_neighbour_count"
         /\ \A c \in Cells : Passed(c) \/ c = Cell
  BY <1>1, LoopStep DEF Cell
<1>5. Board' = { c \in Cells : IF Passed(c) THEN is_alive[c] = 1 ELSE Decided(c) }
  <2>1. CASE pc' = "update_map" /\ Cell' # << 0, 0 >>
    <3>1. Board' = { c \in Cells : IF ~(Passed(c)') THEN Lives(is_alive'[c] = 1, neighbour_count'[c])
                                                     ELSE is_alive'[c] = 1 }
      BY <2>1 DEF Board, Updating
    <3>2. \A c \in Cells : Passed(c)' <=> Passed(c) \/ c = Cell
      BY <1>4, <2>1
    <3> HIDE DEF Cell
    <3>3. \A c \in Cells :
            (IF ~(Passed(c)') THEN Lives(is_alive'[c] = 1, neighbour_count'[c]) ELSE is_alive'[c] = 1)
              <=> (IF Passed(c) THEN is_alive[c] = 1 ELSE Decided(c))
      BY <1>1, <1>2, <1>3, <3>2
    <3> QED
      BY <3>1, <3>3
  <2>2. CASE pc' = "update_neighbour_count"
    <3>1. Board' = AliveCells'
      BY <2>2, BoardIsAliveNext DEF Updating
    <3>2. \A c \in Cells :
            is_alive'[c] = 1 <=> (IF Passed(c) THEN is_alive[c] = 1 ELSE Decided(c))
      BY <1>2, <1>3, <1>4, <2>2
    <3> QED
      BY <3>1, <3>2 DEF AliveCells
  <2> QED
    BY <1>4, <2>1, <2>2
<1>6. Phase' = "show"
  BY <1>4 DEF Phase, Updating
<1>7. CASE Cell = << 0, 0 >>
  <2>1. \A c \in Cells : neighbour_count[c] = Neighbours(AliveCells, c) /\ ~Passed(c)
    <3>1. \A c \in Cells : ~Passed(c)
      BY <1>7 DEF Passed, Cell, Cells, Rows, Cols
    <3>2. \A c \in Cells : /\ neighbour_count[c] = Neighbours(Pictured, c)
                           /\ is_alive[c] = 1 <=> c \in Pictured
      BY <1>1, <3>1 DEF IInv, CountsAreCurrent
    <3>3. Pictured = AliveCells
      BY <3>2 DEF Pictured, AliveCells
    <3> QED
      BY <3>1, <3>2, <3>3
  <2>2. Board = AliveCells /\ Phase = "evolve"
    BY <1>1, <1>7, BoardIsAlive DEF Updating, Phase
  <2>3. Board' = NextGeneration(AliveCells)
    BY <1>5, <2>1 DEF NextGeneration, AliveCells
  <2> QED
    BY <1>1, <1>6, <2>2, <2>3, SameRule DEF Game!Evolve
<1>8. CASE Cell # << 0, 0 >>
  <2>1. Phase = "show"
    BY <1>1, <1>8 DEF Phase, Updating
  <2>2. Board = { c \in Cells : IF Passed(c) THEN is_alive[c] = 1 ELSE Decided(c) }
    BY <1>1, <1>8 DEF Board, Updating
  <2> QED
    BY <1>1, <1>5, <1>6, <2>1, <2>2
<1> QED
  BY <1>7, <1>8

(* Every step of the program is one of the game or none of it.             *)
LEMMA StepImplements == IInv /\ [Next]_vars => [Game!Next]_(Game!lifeVars)
<1> SUFFICES ASSUME IInv, [Next]_vars PROVE Game!Next \/ UNCHANGED << Board, shown, Phase >>
  BY DEF Game!lifeVars
<1>1. CASE main
  BY <1>1, InitMapSeeds, CountAndDrawStutter, DisplayShows, UpdateEvolves DEF main, Game!Next
<1>2. CASE UNCHANGED vars
  BY <1>2 DEF vars, Board, Updating, Passed, Cell, Phase
<1> QED
  BY <1>1, <1>2 DEF Next, Exited

(* On a map of any size life.c plays the game: a picture is shown when it  *)
(* is that of a whole board, and a board gives way to its next generation  *)
(* and to nothing else, although the map is updated in place.              *)
THEOREM ImplementsLife == Spec => Game!SafeSpec
<1>1. Init => Game!Init
  BY SameRule DEF Init, Game!Init, Board, Phase
<1>2. IInv /\ [Next]_vars => [Game!Next]_(Game!lifeVars)
  BY StepImplements
<1> QED
  BY <1>1, <1>2, Invariance, PTL DEF Spec, Game!SafeSpec
=============================================================================
