---------------------------- MODULE TraceProofs ----------------------------
(***************************************************************************)
(* Theorems about the trace, for every program LLVM's verifier accepts:    *)
(* the pass keeps the phi nodes first, and what the instrumented program   *)
(* writes is the history of its run.  The inductive invariant says where in*)
(* a block every instruction and every call stands at every stage of the   *)
(* pass and, for every place, how many events and lines of the block lie   *)
(* behind it.  The profile the script makes of a part of the trace is one  *)
(* of that part of the run: every entry counts the places its key stands   *)
(* at, and every line that is read is one of an event of the run.          *)
(***************************************************************************)
EXTENDS Trace, SequenceTheorems, FiniteSetTheorems, WellFoundedInduction, TLAPS

-----------------------------------------------------------------------------
(* Sequences, whatever their elements. *)
IsRow(s) == Len(s) \in Nat /\ s = [ j \in 1 .. Len(s) |-> s[j] ]

-----------------------------------------------------------------------------
(* The blocks of the program *)

Code(f)     == program[f].blocks
Size(f, b)  == Len(Code(f)[b])
(* The phi nodes of a block, ... *)
Phis(f, b)  ==
  CHOOSE h \in 0 .. Size(f, b) - 1 :
    \A k \in 1 .. Size(f, b) : Code(f)[b][k].op = "phi" <=> k <= h
(* ... and whether a function is entered and left there. *)
Enters(b)   == IF b = 1 THEN 1 ELSE 0
Exits(f, b) == IF Code(f)[b][Size(f, b)].op = "ret" THEN 1 ELSE 0

(* What happens from the entry of a block to its end, event by event. *)
EventAt(f, b, j) ==
  IF j <= Enters(b) THEN << "begin", f >>
  ELSE IF j = Enters(b) + 1 THEN << "bb", f, b >>
  ELSE IF j <= Enters(b) + 1 + Size(f, b) THEN << "instr", f, << b, j - Enters(b) - 1 >> >>
  ELSE << "end", f >>

-----------------------------------------------------------------------------
(* The blocks as the pass changes them                                     *)

(* In a block of n instructions, h of them phi nodes, c calls have been    *)
(* inserted for the block and its instructions, in their order, before     *)
(* them e for the entry of the function, and at last r for its exit.       *)
InstrAt(h, n, m, c, e, r) ==
  IF m <= h THEN m
  ELSE m + e + (IF c <= m + 1 THEN c ELSE m + 1) + (IF m = n THEN r ELSE 0)
CallAt(h, i, e) == IF i <= h + 1 THEN h + e + i ELSE 2 * i - 2 + e

LaidOut(B, f, b, c, e, r) ==
  LET n == Size(f, b)
      h == Phis(f, b)
  IN  /\ IsRow(B) /\ Len(B) = n + c + e + r
      /\ \A m \in 1 .. n : B[InstrAt(h, n, m, c, e, r)] = Code(f)[b][m]
      /\ \A i \in 1 .. c : B[CallAt(h, i, e)] = CallPuts(Text(EventAt(f, b, Enters(b) + i)))
      /\ e = 1 => B[h + 1] = CallPuts(beginFunction(f))
      /\ r = 1 => B[Len(B) - 1] = CallPuts(endFunction(f))
Laid(f, b, c, e, r) == LaidOut(ir[f][b], f, b, c, e, r)

(* A function the pass is done with. *)
Traced(f) ==
  \A b \in 1 .. Len(Code(f)) : Laid(f, b, Size(f, b) + 1, Enters(b), Exits(f, b))

-----------------------------------------------------------------------------
(* The calls that wait to be inserted: those of the blocks from a to z - 1 *)
(* but for the first c of a.  off[b] is where those of b begin.            *)
Place(f, b, i) == IF i - 1 <= Phis(f, b) THEN Phis(f, b) + 1 ELSE i - 1
Prepare(f, b, i) ==
  [ at |-> << b, Place(f, b, i) >>, text |-> Text(EventAt(f, b, Enters(b) + i)) ]

Queued(off, a, c, z) ==
  /\ off[a] + c = 0 /\ Len(TraceCalls) = off[z]
  /\ \A b \in a .. z - 1 : off[b + 1] = off[b] + Size(F, b) + 1
  /\ \A b, d \in a .. z : b < d => off[b] + Size(F, b) + 1 <= off[d]
  /\ \A b \in a .. z - 1 : \A i \in 1 .. Size(F, b) + 1 :
       off[b] + i >= 1 => TraceCalls[off[b] + i] = Prepare(F, b, i)
Queue(a, c, z) == \E off \in [ a .. z -> Int ] : Queued(off, a, c, z)

InsertedUpTo(a, c) ==
  \A b \in 1 .. Len(Code(F)) :
    Laid(F, b, IF b < a THEN Size(F, b) + 1 ELSE IF b = a THEN c ELSE 0, Enters(b), 0)

(* What has a value at all. *)
Shaped ==
  /\ program \in Programs
  /\ DOMAIN ir = 1 .. Len(program)
  /\ \A f \in 1 .. Len(program) : IsRow(ir[f]) /\ Len(ir[f]) = Len(Code(f))
  /\ F \in 1 .. Len(program) /\ bb \in 1 .. Len(Code(F))
  /\ pc \in { "gather", "begin", "insert", "end", "run", "ended", "analyze" }
  /\ IsRow(TraceCalls)

(* How far the pass has come. *)
Instrumented ==
  LET done == IF pc \in { "run", "ended", "analyze" } THEN 1 .. Len(program) ELSE 1 .. F - 1
  IN  /\ \A f \in done : Traced(f)
      /\ \A f \in F + 1 .. Len(program) : f \notin done => ir[f] = Code(f)
      /\ pc \in { "gather", "begin" } => ir[F] = Code(F)
      /\ pc = "gather" => Queue(1, 0, bb)
      /\ pc = "begin"  => bb = 1 /\ Queue(1, 0, Len(Code(F)) + 1)
      /\ pc = "insert" =>
           /\ bb = 1
           /\ \E a \in 1 .. Len(Code(F)) + 1 : \E c \in Nat :
                /\ c <= IF a = Len(Code(F)) + 1 THEN 0 ELSE Size(F, a)
                /\ Queue(a, c, Len(Code(F)) + 1)
                /\ InsertedUpTo(a, c)
      /\ pc = "end" =>
           \A b \in 1 .. Len(Code(F)) :
             Laid(F, b, Size(F, b) + 1, Enters(b), IF b < bb THEN Exits(F, b) ELSE 0)
      /\ pc \in { "end", "run", "ended", "analyze" } => TraceCalls = << >>

-----------------------------------------------------------------------------
(* The run                                                                 *)

(* Where a run can be in a block that has had j events and written k lines:*)
(* before a phi node, the call of the function's entry, ...                *)
PhiSpot(h, e, p, j, k)   == p \in 1 .. h /\ j = e + p /\ k = 0
BeginSpot(h, e, p, j, k) == e = 1 /\ p = h + 1 /\ j = h + 2 /\ k = 0
(* a call of the block or of an instruction, ...                           *)
CallSpot(h, n, e, p, j, k) ==
  \E i \in 1 .. n + 1 :
    /\ p = CallAt(h, i, e)
    /\ j = e + 1 + IF i <= h + 1 THEN h ELSE i - 2
    /\ k = e + i - 1
(* an instruction that is no phi node, ...                                 *)
InstrSpot(h, n, e, r, p, j, k) ==
  \E m \in h + 1 .. n :
    LET x == IF m = n THEN r ELSE 0
    IN  p = 2 * m + 1 + e + x /\ j = e + m /\ k = e + 1 + m + x
(* or the call of the exit.                                                *)
EndSpot(n, e, r, p, j, k) == r = 1 /\ p = 2 * n + 1 + e /\ j = e + n /\ k = e + 1 + n

PutsSpot(h, n, e, r, p, j, k) ==
  BeginSpot(h, e, p, j, k) \/ CallSpot(h, n, e, p, j, k) \/ EndSpot(n, e, r, p, j, k)
Spot(h, n, e, r, p, j, k) ==
  PhiSpot(h, e, p, j, k) \/ PutsSpot(h, n, e, r, p, j, k) \/ InstrSpot(h, n, e, r, p, j, k)
(* Behind a call of a function, everything told.                           *)
WaitSpot(h, n, e, p) == \E m \in h + 1 .. n - 1 : p = 2 * m + 2 + e

Progress(g, j, k) ==
  Spot(Phis(g.f, g.b), Size(g.f, g.b), Enters(g.b), Exits(g.f, g.b), g.k, j, k)
Waits(g) == WaitSpot(Phis(g.f, g.b), Size(g.f, g.b), Enters(g.b), g.k)

(* The lines and events that are there agree, ... *)
Agree(t, r) == \A n \in 1 .. Len(t) : n <= Len(r) => t[n] = Text(r[n])
(* ... and what only one of them has is of the block at hand.              *)
Told(t, r, f, b, j, k) ==
  /\ Len(r) - Len(t) = j - k
  /\ \A n \in k + 1 .. j : r[Len(t) - k + n] = EventAt(f, b, n)
  /\ \A n \in j + 1 .. k : t[Len(r) - j + n] = Text(EventAt(f, b, n))

IsFrame(g) ==
  /\ g = [ f |-> g.f, b |-> g.b, k |-> g.k ]
  /\ g.f \in 1 .. Len(program) /\ g.b \in 1 .. Len(Code(g.f)) /\ g.k \in Nat

(* All frames but the top wait.                                            *)
IsStack(fs) ==
  /\ IsRow(fs) /\ fs # << >>
  /\ \A n \in 1 .. Len(fs) : IsFrame(fs[n])
  /\ \A n \in 1 .. Len(fs) - 1 : Waits(fs[n])

(* How the trace is related to the run. *)
Reported ==
  /\ IsRow(trace) /\ IsRow(ran) /\ Len(trace) <= MaxLog
  /\ pc \in { "gather", "begin", "insert", "end" } => trace = << >> /\ ran = << >>
  /\ pc = "run" =>
       /\ IsStack(frames)
       /\ Agree(trace, ran)
       /\ \E j, k \in Nat :
            Progress(Frame, j, k) /\ Told(trace, ran, Frame.f, Frame.b, j, k)
  /\ pc = "ended" =>
       /\ Agree(trace, ran) /\ Len(trace) <= Len(ran) + 2
       /\ Len(trace) < MaxLog => Len(trace) = Len(ran)
-----------------------------------------------------------------------------
(* Lemmas about sequences                                                  *)

(* A row is a sequence over the set of its elements, ... *)
LEMMA RowSeq ==
  ASSUME NEW s, IsRow(s)
  PROVE  s \in Seq({ s[j] : j \in 1 .. Len(s) })
<1> DEFINE S == { s[j] : j \in 1 .. Len(s) }
<1>1. \A j \in 1 .. Len(s) : s[j] \in S
  OBVIOUS
<1> HIDE DEF S
<1>2. [ j \in 1 .. Len(s) |-> s[j] ] \in Seq(S)
  BY <1>1, IsASeq DEF IsRow
<1>3. s \in Seq(S)
  BY <1>2 DEF IsRow
<1> QED
  BY <1>3 DEF S

(* ... and a sequence is a row. *)
LEMMA SeqRow ==
  ASSUME NEW S, NEW s \in Seq(S)
  PROVE  IsRow(s)
BY DEF IsRow

(* Two rows can be seen as sequences over one set, and an element joined.  *)
LEMMA RowsSeq ==
  ASSUME NEW s, NEW t, NEW x, IsRow(s), IsRow(t)
  PROVE  \E S : s \in Seq(S) /\ t \in Seq(S) /\ x \in S
<1> DEFINE A == { s[j] : j \in 1 .. Len(s) }
           B == { t[j] : j \in 1 .. Len(t) }
           S == A \cup B \cup { x }
<1>1. s \in Seq(A) /\ t \in Seq(B)
  BY RowSeq
<1> HIDE DEF A, B
<1>2. s \in Seq(S) /\ t \in Seq(S) /\ x \in S
  BY <1>1, SeqMonotonic
<1> QED
  BY <1>2

(* Rows are equal that have the same elements. *)
LEMMA RowsEqual ==
  ASSUME NEW s, NEW t, IsRow(s), IsRow(t), Len(s) = Len(t), \A j \in 1 .. Len(s) : s[j] = t[j]
  PROVE  s = t
BY DEF IsRow

(* The empty sequence is a row. *)
LEMMA EmptyRow == IsRow(<< >>) /\ Len(<< >>) = 0
BY EmptySeq DEF IsRow

(* The row of length 0 is the empty one. *)
LEMMA RowEmpty ==
  ASSUME NEW s, IsRow(s)
  PROVE  s = << >> <=> Len(s) = 0
<1>1. s \in Seq({ s[j] : j \in 1 .. Len(s) })
  BY RowSeq
<1> QED
  BY <1>1, EmptySeq

(* A row of one element. *)
LEMMA OneRow ==
  ASSUME NEW x
  PROVE  IsRow(<< x >>) /\ Len(<< x >>) = 1 /\ << x >>[1] = x
BY DEF IsRow

(* What appending, inserting and overwriting an element make of a row. *)
IsAppended(t, s, x) ==
  /\ IsRow(t) /\ Len(t) = Len(s) + 1 /\ t # << >>
  /\ \A j \in 1 .. Len(s) : t[j] = s[j]
  /\ t[Len(s) + 1] = x
IsInserted(t, s, p, x) ==
  /\ IsRow(t) /\ Len(t) = Len(s) + 1 /\ t[p] = x
  /\ \A j \in 1 .. p - 1 : t[j] = s[j]
  /\ \A j \in p .. Len(s) : t[j + 1] = s[j]
IsReplaced(t, s, p, x) ==
  /\ IsRow(t) /\ Len(t) = Len(s)
  /\ \A j \in 1 .. Len(s) : t[j] = IF j = p THEN x ELSE s[j]

(* An element appended. *)
LEMMA RowAppend ==
  ASSUME NEW s, NEW x, NEW t, IsRow(s), t = Append(s, x)
  PROVE  IsAppended(t, s, x)
<1>1. PICK S : s \in Seq(S) /\ x \in S
  BY RowsSeq
<1>2. t \in Seq(S)
  BY <1>1, AppendProperties
<1>3. IsRow(t)
  BY <1>2, SeqRow
<1>4. Len(t) = Len(s) + 1 /\ \A j \in 1 .. Len(s) : t[j] = s[j]
  BY <1>1, AppendProperties
<1>5. t[Len(s) + 1] = x
  BY <1>1, AppendProperties
<1>6. t # << >>
  BY <1>3, <1>4, RowEmpty DEF IsRow
<1> QED
  BY <1>3, <1>4, <1>5, <1>6 DEF IsAppended

(* Two rows joined. *)
LEMMA RowConcat ==
  ASSUME NEW s, NEW t, IsRow(s), IsRow(t)
  PROVE  /\ IsRow(s \o t) /\ Len(s \o t) = Len(s) + Len(t)
         /\ \A j \in 1 .. Len(s) : (s \o t)[j] = s[j]
         /\ \A j \in 1 .. Len(t) : (s \o t)[Len(s) + j] = t[j]
<1>1. PICK S : s \in Seq(S) /\ t \in Seq(S)
  BY RowsSeq
<1>2. s \o t \in Seq(S)
  BY <1>1, ConcatProperties
<1>3. IsRow(s \o t)
  BY <1>2, SeqRow
<1>4. /\ Len(s \o t) = Len(s) + Len(t) /\ Len(s) \in Nat /\ Len(t) \in Nat
      /\ \A j \in 1 .. Len(s) + Len(t) : (s \o t)[j] = IF j <= Len(s) THEN s[j] ELSE t[j - Len(s)]
  BY <1>1, ConcatProperties
<1> DEFINE u == s \o t
<1> HIDE DEF u
<1>5. \A j \in 1 .. Len(t) : u[Len(s) + j] = t[j]
  <2> TAKE j \in 1 .. Len(t)
  <2>1. Len(s) + j \in 1 .. Len(s) + Len(t) /\ ~(Len(s) + j <= Len(s)) /\ Len(s) + j - Len(s) = j
    BY <1>4
  <2> QED
    BY <1>4, <2>1 DEF u
<1>6. \A j \in 1 .. Len(s) : u[j] = s[j]
  BY <1>4 DEF u
<1> QED
  BY <1>3, <1>4, <1>5, <1>6 DEF u

(* The same for a name of the concatenation. *)
LEMMA RowJoined ==
  ASSUME NEW s, NEW t, NEW u, IsRow(s), IsRow(t), u = s \o t
  PROVE  /\ IsRow(u) /\ Len(u) = Len(s) + Len(t)
         /\ \A j \in 1 .. Len(s) : u[j] = s[j]
         /\ \A j \in 1 .. Len(t) : u[Len(s) + j] = t[j]
BY RowConcat

(* A row without its first element. *)
LEMMA RowTail ==
  ASSUME NEW s, IsRow(s), s # << >>
  PROVE  /\ IsRow(Tail(s)) /\ Len(Tail(s)) = Len(s) - 1 /\ Head(s) = s[1]
         /\ \A j \in 1 .. Len(s) - 1 : Tail(s)[j] = s[j + 1]
<1>1. PICK S : s \in Seq(S)
  BY RowsSeq
<1>2. /\ Tail(s) \in Seq(S) /\ Len(Tail(s)) = Len(s) - 1
      /\ \A j \in 1 .. Len(Tail(s)) : Tail(s)[j] = s[j + 1]
  BY <1>1, HeadTailProperties
<1>3. IsRow(Tail(s))
  BY <1>2, SeqRow
<1>4. Head(s) = s[1]
  BY <1>1
<1> QED
  BY <1>2, <1>3, <1>4

(* A part of a row. *)
LEMMA RowSub ==
  ASSUME NEW s, IsRow(s), NEW m \in 1 .. Len(s) + 1, NEW n \in m - 1 .. Len(s)
  PROVE  LET t == SubSeq(s, m, n)
         IN  IsRow(t) /\ Len(t) = n - m + 1 /\ \A j \in 1 .. n - m + 1 : t[j] = s[m + j - 1]
<1>1. PICK S : s \in Seq(S)
  BY RowsSeq
<1>2. Len(s) \in Nat
  BY DEF IsRow
<1>3. SubSeq(s, m, n) \in Seq(S)
  BY <1>1, <1>2, SubSeqProperties
<1>4. IsRow(SubSeq(s, m, n))
  BY <1>3, SeqRow
<1>5. /\ Len(SubSeq(s, m, n)) = n - m + 1
      /\ \A j \in 1 .. n - m + 1 : SubSeq(s, m, n)[j] = s[m + j - 1]
  BY <1>1, <1>2, SubSeqProperties
<1> QED
  BY <1>4, <1>5

(* An element inserted. *)
LEMMA RowInsert ==
  ASSUME NEW s, IsRow(s), NEW p \in 1 .. Len(s), NEW x, NEW u, u = InsertAt(s, p, x)
  PROVE  IsInserted(u, s, p, x)
<1> DEFINE a == SubSeq(s, 1, p - 1)
           z == SubSeq(s, p, Len(s))
           o == << x >>
<1>1. Len(s) \in Nat
  BY DEF IsRow
<1>2. IsRow(a) /\ Len(a) = p - 1 /\ \A j \in 1 .. p - 1 : a[j] = s[j]
  BY <1>1, RowSub
<1>3. IsRow(z) /\ Len(z) = Len(s) - p + 1 /\ \A j \in 1 .. Len(s) - p + 1 : z[j] = s[p + j - 1]
  BY <1>1, RowSub
<1>4. IsRow(o) /\ Len(o) = 1 /\ o[1] = x
  BY OneRow
<1>5. InsertAt(s, p, x) = (a \o o) \o z
  BY DEF InsertAt
<1> HIDE DEF a, z, o
<1> DEFINE y == a \o o
<1>20. y = a \o o
  OBVIOUS
<1> HIDE DEF y
<1>6. /\ IsRow(y) /\ Len(y) = p
      /\ \A j \in 1 .. p - 1 : y[j] = s[j]
      /\ y[p] = x
  <2>1. /\ IsRow(y) /\ Len(y) = Len(a) + Len(o)
        /\ \A j \in 1 .. Len(a) : y[j] = a[j]
        /\ \A j \in 1 .. Len(o) : y[Len(a) + j] = o[j]
    <3>1. IsRow(a) /\ IsRow(o)
      BY <1>2, <1>4
    <3>2. IsRow(y) /\ Len(y) = Len(a) + Len(o)
      BY <3>1, <1>20, RowJoined
    <3>3. \A j \in 1 .. Len(a) : y[j] = a[j]
      BY <3>1, <1>20, RowJoined
    <3>4. \A j \in 1 .. Len(o) : y[Len(a) + j] = o[j]
      BY <3>1, <1>20, RowJoined
    <3> QED
      BY <3>2, <3>3, <3>4
  <2>2. Len(a) + Len(o) = p /\ 1 \in 1 .. Len(o) /\ Len(a) + 1 = p
    BY <1>2, <1>4
  <2> QED
    BY <1>2, <1>4, <2>1, <2>2
<1> DEFINE t == y \o z
<1>21. t = y \o z
  OBVIOUS
<1> HIDE DEF t
<1>7. /\ IsRow(t) /\ Len(t) = Len(y) + Len(z)
      /\ \A j \in 1 .. Len(y) : t[j] = y[j]
      /\ \A j \in 1 .. Len(z) : t[Len(y) + j] = z[j]
  <2>1. IsRow(y) /\ IsRow(z)
    BY <1>3, <1>6
  <2>2. IsRow(t) /\ Len(t) = Len(y) + Len(z)
    BY <2>1, <1>21, RowJoined
  <2>3. \A j \in 1 .. Len(y) : t[j] = y[j]
    BY <2>1, <1>21, RowJoined
  <2>4. \A j \in 1 .. Len(z) : t[Len(y) + j] = z[j]
    BY <2>1, <1>21, RowJoined
  <2> QED
    BY <2>2, <2>3, <2>4
<1>8. InsertAt(s, p, x) = t
  BY <1>5, <1>21, <1>20
<1>9. \A j \in p .. Len(s) : t[j + 1] = s[j]
  <2> TAKE j \in p .. Len(s)
  <2>1. j - p + 1 \in 1 .. Len(z) /\ Len(y) + (j - p + 1) = j + 1 /\ p + (j - p + 1) - 1 = j
        /\ j - p + 1 \in 1 .. Len(s) - p + 1
    BY <1>1, <1>3, <1>6
  <2>2. t[Len(y) + (j - p + 1)] = z[j - p + 1]
    BY <1>7, <2>1
  <2>3. z[j - p + 1] = s[p + (j - p + 1) - 1]
    BY <1>3, <2>1
  <2> QED
    BY <2>1, <2>2, <2>3
<1>10. /\ Len(t) = Len(s) + 1 /\ t[p] = x
       /\ \A j \in 1 .. p - 1 : t[j] = s[j]
  BY <1>1, <1>3, <1>6, <1>7
<1> QED
  BY <1>7, <1>8, <1>9, <1>10 DEF IsInserted

(* An element overwritten. *)
LEMMA RowExcept ==
  ASSUME NEW s, IsRow(s), NEW p \in 1 .. Len(s), NEW x, NEW t, t = [ s EXCEPT ![p] = x ]
  PROVE  IsReplaced(t, s, p, x)
<1>1. PICK S : s \in Seq(S) /\ x \in S
  BY RowsSeq
<1>2. t \in Seq(S)
  BY <1>1
<1>3. IsRow(t)
  BY <1>2, SeqRow
<1>4. Len(t) = Len(s)
  BY <1>1
<1>5. \A j \in 1 .. Len(s) : t[j] = IF j = p THEN x ELSE s[j]
  BY <1>1
<1> QED
  BY <1>3, <1>4, <1>5 DEF IsReplaced

-----------------------------------------------------------------------------
(* Lemmas about the program                                                *)

(* A set of numbers has a least one. *)
LEMMA Least ==
  ASSUME NEW T, T \subseteq Nat, T # {}
  PROVE  \E x \in T : \A y \in T : x <= y
<1>1. PICK x \in T : \A y \in T : ~(<< y, x >> \in OpToRel(<, Nat))
  BY WFMin, NatLessThanWellFounded
<1>2. \A y \in T : << y, x >> \in Nat \X Nat /\ << y, x >>[1] = y /\ << y, x >>[2] = x
  OBVIOUS
<1>3. \A y \in T : ~(y < x)
  BY <1>1, <1>2 DEF OpToRel
<1> QED
  BY <1>3

(* A program is what the verifier of LLVM has accepted. *)
LEMMA ProgramShape ==
  ASSUME program \in Programs
  PROVE  /\ IsRow(program) /\ Len(program) \in Nat \ { 0 }
         /\ \A f \in 1 .. Len(program) :
              /\ IsRow(Code(f)) /\ Len(Code(f)) \in Nat \ { 0 }
              /\ \A b \in 1 .. Len(Code(f)) :
                   /\ IsRow(Code(f)[b]) /\ Size(f, b) \in Nat \ { 0 }
                   /\ IsBlock(program, f, b)
                   /\ \A k \in 1 .. Size(f, b) : Code(f)[b][k] \in Instructions
<1> DEFINE Functions == [ params : Nat, blocks : Seq(Seq(Instructions)) ]
<1>1. IsModule(program)
  BY ProgramsAssumption
<1>2. /\ program \in Seq(Functions) /\ program # << >>
      /\ \A f \in 1 .. Len(program) :
           Code(f) # << >> /\ \A b \in 1 .. Len(Code(f)) : IsBlock(program, f, b)
  BY <1>1 DEF IsModule, Code
<1>3. IsRow(program) /\ Len(program) \in Nat \ { 0 }
  <2> HIDE DEF Functions
  <2> QED
    BY <1>2, SeqRow, EmptySeq
<1>4. ASSUME NEW f \in 1 .. Len(program)
      PROVE  /\ IsRow(Code(f)) /\ Len(Code(f)) \in Nat \ { 0 }
             /\ \A b \in 1 .. Len(Code(f)) : Code(f)[b] \in Seq(Instructions)
  <2>1. program[f] \in Functions
    <3> HIDE DEF Functions
    <3> QED
      BY <1>2
  <2>2. Code(f) \in Seq(Seq(Instructions))
    BY <2>1 DEF Code
  <2>3. \A b \in 1 .. Len(Code(f)) : Code(f)[b] \in Seq(Instructions)
    BY <2>2
  <2>4. IsRow(Code(f)) /\ Len(Code(f)) \in Nat \ { 0 }
    BY <1>2, <2>2, SeqRow, EmptySeq
  <2> QED
    BY <2>3, <2>4
<1>5. ASSUME NEW f \in 1 .. Len(program), NEW b \in 1 .. Len(Code(f))
      PROVE  /\ IsRow(Code(f)[b]) /\ Size(f, b) \in Nat \ { 0 }
             /\ \A k \in 1 .. Size(f, b) : Code(f)[b][k] \in Instructions
  <2>1. Code(f)[b] \in Seq(Instructions)
    BY <1>4
  <2>2. Code(f)[b] # << >>
    BY <1>2 DEF IsBlock, Code
  <2>3. \A k \in 1 .. Size(f, b) : Code(f)[b][k] \in Instructions
    BY <2>1 DEF Size
  <2>4. IsRow(Code(f)[b]) /\ Size(f, b) \in Nat \ { 0 }
    BY <2>1, <2>2, SeqRow, EmptySeq DEF Size
  <2> QED
    BY <2>3, <2>4
<1> QED
  BY <1>2, <1>3, <1>4, <1>5

(* The instructions of a block. *)
LEMMA BlockShape ==
  ASSUME program \in Programs, NEW f \in 1 .. Len(program), NEW b \in 1 .. Len(Code(f)),
         NEW k \in 1 .. Size(f, b)
  PROVE  LET I == Code(f)[b][k]
         IN  /\ I.id = << b, k >>
             /\ I.op \in Terminators <=> k = Size(f, b)
             /\ I.op = "phi" => b # 1 /\ \A j \in 1 .. k : Code(f)[b][j].op = "phi"
             /\ I.op = "call" => I.callee \in 1 .. Len(program)
             /\ I.op \in { "br", "switch" } =>
                  \A r \in 1 .. Len(I.refs) :
                    I.refs[r][2] = 0 => I.refs[r][1] \in 2 .. Len(Code(f))
<1>1. IsBlock(program, f, b)
  BY ProgramShape
<1> QED
  BY <1>1 DEF IsBlock, Code, Size

(* The phi nodes are the first of a block, all but the last one at most. *)
LEMMA PhisShape ==
  ASSUME program \in Programs, NEW f \in 1 .. Len(program), NEW b \in 1 .. Len(Code(f))
  PROVE  /\ Phis(f, b) \in 0 .. Size(f, b) - 1
         /\ \A k \in 1 .. Size(f, b) : Code(f)[b][k].op = "phi" <=> k <= Phis(f, b)
         /\ b = 1 => Phis(f, b) = 0
<1> DEFINE n == Size(f, b)
           Op(k) == Code(f)[b][k].op
           T == { k \in 1 .. n : Op(k) # "phi" }
<1>1. n \in Nat \ { 0 } /\ n \in 1 .. n
  BY ProgramShape
<1>2. Op(n) \in Terminators
  BY <1>1, BlockShape
<1>3. n \in T
  BY <1>1, <1>2 DEF Terminators
<1>4. \A k \in 1 .. n : Op(k) = "phi" => b # 1 /\ \A j \in 1 .. k : Op(j) = "phi"
  BY BlockShape
<1> HIDE DEF n, Op
<1>5. PICK x \in T : \A y \in T : x <= y
  <2>1. T \subseteq Nat /\ T # {}
    BY <1>1, <1>3
  <2> HIDE DEF T
  <2> QED
    BY <2>1, Least
<1>6. x - 1 \in 0 .. n - 1 /\ \A k \in 1 .. n : Op(k) = "phi" <=> k <= x - 1
  <2>1. ASSUME NEW k \in 1 .. n, k <= x - 1 PROVE Op(k) = "phi"
    BY <1>1, <1>5, <2>1
  <2>2. ASSUME NEW k \in 1 .. n, ~(k <= x - 1) PROVE Op(k) # "phi"
    <3>1. x \in 1 .. k
      BY <1>1, <1>5, <2>2
    <3> QED
      BY <1>4, <1>5, <3>1
  <2> QED
    BY <1>1, <1>5, <2>1, <2>2
<1>7. \E h \in 0 .. n - 1 : \A k \in 1 .. n : Op(k) = "phi" <=> k <= h
  BY <1>6
<1>8. Phis(f, b) \in 0 .. n - 1 /\ \A k \in 1 .. n : Op(k) = "phi" <=> k <= Phis(f, b)
  BY <1>7 DEF Phis, n, Op
<1>9. b = 1 => Phis(f, b) = 0
  <2> SUFFICES ASSUME b = 1, Phis(f, b) # 0 PROVE FALSE
    OBVIOUS
  <2>1. 1 \in 1 .. n /\ 1 <= Phis(f, b)
    BY <1>1, <1>8
  <2> QED
    BY <1>4, <1>8, <2>1
<1> QED
  BY <1>8, <1>9 DEF n, Op

-----------------------------------------------------------------------------
(* Lemmas about the layout of blocks                                       *)

(* Every place of a block is one of those the layout names. *)
IsPlace(h, n, c, e, r, j) ==
  \/ \E m \in 1 .. n : j = InstrAt(h, n, m, c, e, r)
  \/ \E i \in 1 .. c : j = CallAt(h, i, e)
  \/ e = 1 /\ j = h + 1
  \/ r = 1 /\ j = n + c + e + r - 1

(* The layout leaves no place out. *)
LEMMA PlacesCover ==
  ASSUME NEW n \in Nat, NEW h \in 0 .. n - 1, NEW c \in 0 .. n + 1, NEW e \in 0 .. 1, NEW r \in 0 .. 1,
         r = 1 => c = n + 1, NEW j \in 1 .. n + c + e + r
  PROVE  IsPlace(h, n, c, e, r, j)
<1> USE DEF IsPlace
<1>1. CASE j <= h
  <2>1. j \in 1 .. n /\ j = InstrAt(h, n, j, c, e, r)
    BY <1>1 DEF InstrAt
  <2> QED
    BY <2>1
<1>2. CASE e = 1 /\ j = h + 1
  BY <1>2
<1>3. CASE j > h + e /\ j <= h + e + c /\ j <= h + e + h + 1
  <2>1. j - h - e \in 1 .. c /\ j = CallAt(h, j - h - e, e)
    BY <1>3 DEF CallAt
  <2> QED
    BY <2>1
<1>4. CASE c <= h + 1 /\ j > h + e + c
  <2>1. r = 0
    BY <1>4
  <2>2. j - e - c \in 1 .. n /\ j - e - c > h
    BY <1>4, <2>1
  <2>3. j = InstrAt(h, n, j - e - c, c, e, r)
    BY <1>4, <2>1, <2>2 DEF InstrAt
  <2> QED
    BY <2>2, <2>3
<1>5. CASE c > h + 1 /\ j > h + e + h + 1
  <2> DEFINE y == j - e
  <2>1. y \in Nat /\ y > 2 * h + 1 /\ j = y + e
    BY <1>5
  <2>2. PICK m \in Nat : y = 2 * m \/ y = 2 * m + 1
    <3>1. y = 2 * (y \div 2) \/ y = 2 * (y \div 2) + 1
      BY <2>1
    <3>2. y \div 2 \in Nat
      BY <2>1
    <3> HIDE DEF y
    <3> QED
      BY <3>1, <3>2
  <2> HIDE DEF y
  <2>3. CASE y = 2 * m /\ m + 1 <= c
    <3>1. m + 1 \in 1 .. c /\ j = CallAt(h, m + 1, e)
      BY <2>1, <2>3 DEF CallAt
    <3> QED
      BY <3>1
  <2>4. CASE y = 2 * m + 1 /\ m + 1 <= c
    <3>1. m \in 1 .. n /\ m > h
      BY <2>1, <2>4
    <3>2. CASE m = n /\ r = 1
      BY <2>1, <2>4, <3>2
    <3>3. CASE ~(m = n /\ r = 1)
      <4>1. j = InstrAt(h, n, m, c, e, r)
        BY <2>1, <2>4, <3>1, <3>3 DEF InstrAt
      <4> QED
        BY <3>1, <4>1
    <3> QED
      BY <3>2, <3>3
  <2>5. CASE m + 1 > c
    <3>1. y >= 2 * c
      BY <2>2, <2>5
    <3>2. CASE r = 0
      <4>1. y - c \in 1 .. n /\ y - c > h /\ y - c >= c
        BY <1>5, <2>1, <3>1, <3>2
      <4>2. j = InstrAt(h, n, y - c, c, e, r)
        BY <2>1, <3>2, <4>1 DEF InstrAt
      <4> QED
        BY <4>1, <4>2
    <3>3. CASE r = 1
      <4>1. n \in 1 .. n /\ j = 2 * n + 2 + e /\ c = n + 1
        BY <1>5, <2>1, <3>1, <3>3
      <4>2. j = InstrAt(h, n, n, c, e, r)
        BY <3>3, <4>1 DEF InstrAt
      <4> QED
        BY <4>1, <4>2
    <3> QED
      BY <3>2, <3>3
  <2> QED
    BY <2>2, <2>3, <2>4, <2>5
<1> QED
  BY <1>1, <1>2, <1>3, <1>4, <1>5

(* The numbers a layout is made of. *)
LEMMA LayoutNumbers ==
  ASSUME program \in Programs, NEW f \in 1 .. Len(program), NEW b \in 1 .. Len(Code(f))
  PROVE  /\ Size(f, b) \in Nat \ { 0 } /\ Phis(f, b) \in 0 .. Size(f, b) - 1
         /\ Enters(b) \in 0 .. 1 /\ Exits(f, b) \in 0 .. 1 /\ b \in Nat /\ f \in Nat
         /\ Enters(b) = 1 <=> b = 1
         /\ b = 1 => Phis(f, b) = 0
BY PhisShape, ProgramShape DEF Enters, Exits

(* A block that has not been changed. *)
LEMMA FreshLayout ==
  ASSUME program \in Programs, NEW f \in 1 .. Len(program), NEW b \in 1 .. Len(Code(f))
  PROVE  LaidOut(Code(f)[b], f, b, 0, 0, 0)
<1> DEFINE n == Size(f, b)
           h == Phis(f, b)
           B == Code(f)[b]
<1>1. n \in Nat /\ h \in Nat /\ IsRow(B) /\ Len(B) = n
  BY LayoutNumbers, ProgramShape DEF Size
<1> HIDE DEF n, h, B
<1>2. \A m \in 1 .. n : InstrAt(h, n, m, 0, 0, 0) = m
  BY <1>1 DEF InstrAt
<1>3. \A m \in 1 .. n : B[InstrAt(h, n, m, 0, 0, 0)] = B[m]
  BY <1>2
<1>4. Len(B) = n + 0 + 0 + 0
  BY <1>1
<1>5. \A i \in 1 .. 0 : FALSE
  OBVIOUS
<1> QED
  BY <1>1, <1>3, <1>4, <1>5 DEF LaidOut, n, h, B

(* An instruction of the program is found by its identity, the calls that  *)
(* were inserted have none.                                                *)
FoundAt(B, id) == CHOOSE k \in 1 .. Len(B) : B[k].id = id

(* The instruction that is looked for by its id is found where it was moved. *)
LEMMA FoundById ==
  ASSUME program \in Programs, NEW f \in 1 .. Len(program), NEW b \in 1 .. Len(Code(f)),
         NEW c \in 0 .. Size(f, b) + 1, NEW e \in 0 .. 1, NEW r \in 0 .. 1, r = 1 => c = Size(f, b) + 1,
         NEW B, LaidOut(B, f, b, c, e, r), NEW m \in 1 .. Size(f, b)
  PROVE  /\ InstrAt(Phis(f, b), Size(f, b), m, c, e, r) \in 1 .. Len(B)
         /\ FoundAt(B, << b, m >>) = InstrAt(Phis(f, b), Size(f, b), m, c, e, r)
<1> DEFINE n == Size(f, b)
           h == Phis(f, b)
           at(x) == InstrAt(h, n, x, c, e, r)
<1>1. /\ n \in Nat \ { 0 } /\ h \in 0 .. n - 1
      /\ c \in 0 .. n + 1 /\ m \in 1 .. n /\ (r = 1 => c = n + 1)
      /\ b # 0
  BY LayoutNumbers
<1>2. /\ Len(B) = n + c + e + r
      /\ \A x \in 1 .. n : B[at(x)] = Code(f)[b][x]
      /\ \A i \in 1 .. c : B[CallAt(h, i, e)] = CallPuts(Text(EventAt(f, b, Enters(b) + i)))
      /\ e = 1 => B[h + 1] = CallPuts(beginFunction(f))
      /\ r = 1 => B[Len(B) - 1] = CallPuts(endFunction(f))
  BY DEF LaidOut
<1>3. \A x \in 1 .. n : Code(f)[b][x].id = << b, x >>
  BY BlockShape
<1>4. \A t : CallPuts(t).id = << 0, 0 >>
  BY DEF CallPuts
<1>5. << 0, 0 >> # << b, m >>
  BY <1>1
<1> HIDE DEF n, h
<1>6. at(m) \in 1 .. Len(B)
  BY <1>1, <1>2 DEF InstrAt
<1> HIDE DEF at
<1>7. B[at(m)].id = << b, m >>
  BY <1>1, <1>2, <1>3
<1>8. ASSUME NEW k \in 1 .. Len(B), B[k].id = << b, m >> PROVE k = at(m)
  <2>1. \/ \E x \in 1 .. n : k = at(x)
        \/ \E i \in 1 .. c : k = CallAt(h, i, e)
        \/ e = 1 /\ k = h + 1
        \/ r = 1 /\ k = n + c + e + r - 1
    <3>1. k \in 1 .. n + c + e + r
      BY <1>2
    <3>2. IsPlace(h, n, c, e, r, k)
      BY <1>1, <3>1, PlacesCover
    <3> QED
      BY <3>2 DEF IsPlace, at
  <2>2. CASE \E x \in 1 .. n : k = at(x)
    <3>1. PICK x \in 1 .. n : k = at(x)
      BY <2>2
    <3>2. << b, x >> = << b, m >>
      BY <1>2, <1>3, <1>8, <3>1
    <3>3. x = m
      BY <3>2
    <3> QED
      BY <3>1, <3>3
  <2>3. CASE \E i \in 1 .. c : k = CallAt(h, i, e)
    BY <1>2, <1>4, <1>5, <1>8, <2>3
  <2>4. CASE e = 1 /\ k = h + 1
    BY <1>2, <1>4, <1>5, <1>8, <2>4
  <2>5. CASE r = 1 /\ k = n + c + e + r - 1
    <3>1. k = Len(B) - 1
      <4>1. Len(B) = n + c + e + r
        BY <1>2
      <4> QED
        BY <1>1, <2>5, <4>1
    <3> QED
      BY <1>2, <1>4, <1>5, <1>8, <2>5, <3>1
  <2> QED
    BY <2>1, <2>2, <2>3, <2>4, <2>5
<1>9. FoundAt(B, << b, m >>) = at(m)
  BY <1>6, <1>7, <1>8 DEF FoundAt
<1> QED
  BY <1>6, <1>9 DEF at, n, h

(* Inserting the next call of a block keeps its layout: everything behind  *)
(* moves by one.                                                           *)
MovesBehind(h, n, c, e, p) ==
  /\ p = CallAt(h, c + 1, e)
  /\ \A m \in 1 .. n :
       LET x == InstrAt(h, n, m, c, e, 0)
       IN  /\ x \in 1 .. n + c + e
           /\ InstrAt(h, n, m, c + 1, e, 0) = IF x < p THEN x ELSE x + 1
  /\ \A i \in 1 .. c : CallAt(h, i, e) \in 1 .. p - 1

(* Where the next call goes, and what it moves. *)
LEMMA InsertCallArithmetic ==
  ASSUME NEW n \in Nat, NEW h \in 0 .. n - 1, NEW c \in 0 .. n, NEW e \in 0 .. 1,
         NEW q, q = IF c <= h THEN h + 1 ELSE c,
         NEW p, p = InstrAt(h, n, q, c, e, 0)
  PROVE  /\ q \in 1 .. n /\ p \in 1 .. n + c + e /\ p > h + e
         /\ MovesBehind(h, n, c, e, p)
<1>1. q \in 1 .. n /\ p = q + e + c
  BY DEF InstrAt
<1>2. p \in 1 .. n + c + e /\ p > h + e
  BY <1>1
<1>3. p = CallAt(h, c + 1, e)
  BY <1>1 DEF CallAt
<1>4. ASSUME NEW m \in 1 .. n
      PROVE  LET x == InstrAt(h, n, m, c, e, 0)
             IN  /\ x \in 1 .. n + c + e
                 /\ InstrAt(h, n, m, c + 1, e, 0) = IF x < p THEN x ELSE x + 1
  <2>1. CASE m <= h
    BY <1>1, <2>1 DEF InstrAt
  <2>2. CASE m > h /\ m < q
    BY <1>1, <2>2 DEF InstrAt
  <2>3. CASE m > h /\ m >= q
    BY <1>1, <2>3 DEF InstrAt
  <2> QED
    BY <1>1, <2>1, <2>2, <2>3
<1>5. \A i \in 1 .. c : CallAt(h, i, e) \in 1 .. p - 1
  BY <1>1 DEF CallAt
<1> QED
  BY <1>1, <1>2, <1>3, <1>4, <1>5 DEF MovesBehind

(* The next call inserted before its instruction. *)
LEMMA InsertCall ==
  ASSUME program \in Programs, NEW f \in 1 .. Len(program), NEW b \in 1 .. Len(Code(f)),
         NEW c \in 0 .. Size(f, b), NEW e \in 0 .. 1, NEW B, LaidOut(B, f, b, c, e, 0),
         NEW p, p = InstrAt(Phis(f, b), Size(f, b), Place(f, b, c + 1), c, e, 0),
         NEW C, C = InsertAt(B, p, CallPuts(Text(EventAt(f, b, Enters(b) + (c + 1)))))
  PROVE  LaidOut(C, f, b, c + 1, e, 0)
<1> DEFINE n == Size(f, b)
           h == Phis(f, b)
           q == Place(f, b, c + 1)
           at(x) == InstrAt(h, n, x, c, e, 0)
           on(x) == InstrAt(h, n, x, c + 1, e, 0)
           call(i) == CallPuts(Text(EventAt(f, b, Enters(b) + i)))
<1>1. n \in Nat \ { 0 } /\ h \in 0 .. n - 1 /\ c \in 0 .. n
  BY LayoutNumbers
<1>2. /\ IsRow(B) /\ Len(B) = n + c + e
      /\ \A x \in 1 .. n : B[at(x)] = Code(f)[b][x]
      /\ \A i \in 1 .. c : B[CallAt(h, i, e)] = call(i)
      /\ e = 1 => B[h + 1] = CallPuts(beginFunction(f))
  BY <1>1 DEF LaidOut
<1>3. q = IF c <= h THEN h + 1 ELSE c
  BY <1>1 DEF Place
<1> HIDE DEF n, h, q, call
<1>4. p = InstrAt(h, n, q, c, e, 0) /\ C = InsertAt(B, p, call(c + 1))
  BY DEF q, n, h, call
<1>5. /\ q \in 1 .. n /\ p \in 1 .. n + c + e /\ p > h + e
      /\ p = CallAt(h, c + 1, e)
      /\ \A m \in 1 .. n : /\ at(m) \in 1 .. n + c + e
                           /\ on(m) = IF at(m) < p THEN at(m) ELSE at(m) + 1
      /\ \A i \in 1 .. c : CallAt(h, i, e) \in 1 .. p - 1
  <2>1. q \in 1 .. n /\ p \in 1 .. n + c + e /\ p > h + e
    BY <1>1, <1>3, <1>4, InsertCallArithmetic
  <2>2. MovesBehind(h, n, c, e, p)
    BY <1>1, <1>3, <1>4, InsertCallArithmetic
  <2> QED
    BY <2>1, <2>2 DEF MovesBehind
<1> HIDE DEF at, on
<1>6. IsInserted(C, B, p, call(c + 1))
  BY <1>2, <1>4, <1>5, RowInsert
<1>7. /\ IsRow(C) /\ Len(C) = Len(B) + 1 /\ C[p] = call(c + 1)
      /\ \A j \in 1 .. p - 1 : C[j] = B[j]
      /\ \A j \in p .. Len(B) : C[j + 1] = B[j]
  BY <1>6 DEF IsInserted
<1>8. \A m \in 1 .. n : C[on(m)] = Code(f)[b][m]
  <2> TAKE m \in 1 .. n
  <2>1. CASE at(m) < p
    <3>1. at(m) \in 1 .. p - 1
      BY <1>5, <2>1
    <3> QED
      BY <1>2, <1>5, <1>7, <2>1, <3>1
  <2>2. CASE ~(at(m) < p)
    <3>1. at(m) \in p .. Len(B)
      BY <1>2, <1>5, <2>2
    <3> QED
      BY <1>2, <1>5, <1>7, <2>2, <3>1
  <2> QED
    BY <2>1, <2>2
<1>9. \A i \in 1 .. c + 1 : C[CallAt(h, i, e)] = call(i)
  <2> TAKE i \in 1 .. c + 1
  <2>1. CASE i = c + 1
    BY <1>5, <1>7, <2>1
  <2>2. CASE i # c + 1
    <3>1. i \in 1 .. c
      BY <2>2
    <3> QED
      BY <1>2, <1>5, <1>7, <3>1
  <2> QED
    BY <2>1, <2>2
<1>10. e = 1 => C[h + 1] = CallPuts(beginFunction(f))
  <2>1. e = 1 => h + 1 \in 1 .. p - 1
    BY <1>1, <1>5
  <2> QED
    BY <1>2, <1>7, <2>1
<1>11. Len(C) = n + (c + 1) + e + 0
  <2>1. Len(B) = n + c + e
    BY <1>2
  <2> QED
    BY <1>1, <1>7, <2>1
<1> QED
  BY <1>7, <1>8, <1>9, <1>10, <1>11 DEF LaidOut, on, call, n, h

(* The call for the entry of the function, before everything else.         *)
LEMMA InsertBegin ==
  ASSUME program \in Programs, NEW f \in 1 .. Len(program), NEW b \in 1 .. Len(Code(f)), b = 1,
         NEW B, LaidOut(B, f, b, 0, 0, 0),
         NEW C, C = << CallPuts(beginFunction(f)) >> \o B
  PROVE  LaidOut(C, f, b, 0, 1, 0)
<1> DEFINE n == Size(f, b)
           h == Phis(f, b)
           x == CallPuts(beginFunction(f))
           o == << x >>
<1>1. n \in Nat \ { 0 } /\ h = 0
  BY LayoutNumbers
<1>2. IsRow(B) /\ Len(B) = n /\ \A m \in 1 .. n : B[InstrAt(h, n, m, 0, 0, 0)] = Code(f)[b][m]
  BY <1>1 DEF LaidOut
<1> HIDE DEF n, h
<1>3. \A m \in 1 .. n : InstrAt(h, n, m, 0, 0, 0) = m /\ InstrAt(h, n, m, 0, 1, 0) = 1 + m
  BY <1>1 DEF InstrAt
<1>4. IsRow(o) /\ Len(o) = 1 /\ o[1] = x
  BY OneRow
<1>5. C = o \o B
  OBVIOUS
<1> HIDE DEF o, x
<1>13. IsRow(o) /\ IsRow(B)
  BY <1>2, <1>4
<1>6. IsRow(C) /\ Len(C) = Len(o) + Len(B)
  BY <1>5, <1>13, RowJoined
<1>7. \A j \in 1 .. Len(o) : C[j] = o[j]
  BY <1>2, <1>4, <1>5, RowJoined
<1>8. \A j \in 1 .. Len(B) : C[Len(o) + j] = B[j]
  BY <1>2, <1>4, <1>5, RowJoined
<1>9. \A m \in 1 .. n : C[InstrAt(h, n, m, 0, 1, 0)] = Code(f)[b][m]
  <2> TAKE m \in 1 .. n
  <2>1. C[1 + m] = B[m]
    BY <1>2, <1>4, <1>8
  <2> QED
    BY <1>2, <1>3, <2>1
<1>10. C[h + 1] = CallPuts(beginFunction(f))
  <2>1. 1 \in 1 .. Len(o) /\ h + 1 = 1
    BY <1>1, <1>4
  <2>2. C[h + 1] = x
    BY <1>4, <1>7, <2>1
  <2> QED
    BY <2>2 DEF x
<1>11. Len(C) = n + 0 + 1 + 0
  BY <1>1, <1>2, <1>4, <1>6
<1>12. \A i \in 1 .. 0 : C[CallAt(h, i, 1)] = CallPuts(Text(EventAt(f, b, Enters(b) + i)))
  OBVIOUS
<1>14. 0 = 1 => C[Len(C) - 1] = CallPuts(endFunction(f))
  OBVIOUS
<1> QED
  BY <1>6, <1>9, <1>10, <1>11, <1>12, <1>14, Zenon DEF LaidOut, n, h

(* The call for the exit of the function, before the last instruction.     *)
LEMMA InsertEnd ==
  ASSUME program \in Programs, NEW f \in 1 .. Len(program), NEW b \in 1 .. Len(Code(f)),
         NEW e \in 0 .. 1, NEW B, LaidOut(B, f, b, Size(f, b) + 1, e, 0),
         NEW C, C = InsertAt(B, Len(B), CallPuts(endFunction(f)))
  PROVE  LaidOut(C, f, b, Size(f, b) + 1, e, 1)
<1> DEFINE n == Size(f, b)
           h == Phis(f, b)
           c == n + 1
           at(x) == InstrAt(h, n, x, c, e, 0)
           on(x) == InstrAt(h, n, x, c, e, 1)
           call(i) == CallPuts(Text(EventAt(f, b, Enters(b) + i)))
           new == CallPuts(endFunction(f))
<1>1. n \in Nat \ { 0 } /\ h \in 0 .. n - 1
  BY LayoutNumbers
<1>2. /\ IsRow(B) /\ Len(B) = n + c + e
      /\ \A x \in 1 .. n : B[at(x)] = Code(f)[b][x]
      /\ \A i \in 1 .. c : B[CallAt(h, i, e)] = call(i)
      /\ e = 1 => B[h + 1] = CallPuts(beginFunction(f))
  BY <1>1 DEF LaidOut
<1> HIDE DEF n, h, call, new
<1>3. Len(B) = 2 * n + 1 + e
  BY <1>1, <1>2
<1>4. /\ \A m \in 1 .. n : /\ at(m) \in 1 .. Len(B)
                           /\ on(m) = IF at(m) < Len(B) THEN at(m) ELSE at(m) + 1
      /\ \A i \in 1 .. c : CallAt(h, i, e) \in 1 .. Len(B) - 1
  BY <1>1, <1>3 DEF InstrAt, CallAt
<1> HIDE DEF at, on
<1>5. IsInserted(C, B, Len(B), new)
  <2>1. Len(B) \in 1 .. Len(B)
    BY <1>1, <1>3
  <2>2. C = InsertAt(B, Len(B), new)
    BY DEF new
  <2> QED
    BY <1>2, <2>1, <2>2, RowInsert
<1>6. /\ IsRow(C) /\ Len(C) = Len(B) + 1 /\ C[Len(B)] = new
      /\ \A j \in 1 .. Len(B) - 1 : C[j] = B[j]
      /\ \A j \in Len(B) .. Len(B) : C[j + 1] = B[j]
  BY <1>5 DEF IsInserted
<1>7. \A m \in 1 .. n : C[on(m)] = Code(f)[b][m]
  <2> TAKE m \in 1 .. n
  <2>1. CASE at(m) < Len(B)
    <3>1. at(m) \in 1 .. Len(B) - 1
      BY <1>3, <1>4, <2>1
    <3> QED
      BY <1>2, <1>4, <1>6, <2>1, <3>1
  <2>2. CASE ~(at(m) < Len(B))
    <3>1. at(m) = Len(B) /\ at(m) \in Len(B) .. Len(B)
      BY <1>3, <1>4, <2>2
    <3> QED
      BY <1>2, <1>4, <1>6, <2>2, <3>1
  <2> QED
    BY <2>1, <2>2
<1>8. \A i \in 1 .. c : C[CallAt(h, i, e)] = call(i)
  <2> HIDE DEF c
  <2> QED
    BY <1>2, <1>4, <1>6
<1>9. e = 1 => C[h + 1] = CallPuts(beginFunction(f))
  <2>1. e = 1 => h + 1 \in 1 .. Len(B) - 1
    BY <1>1, <1>3
  <2> QED
    BY <1>2, <1>6, <2>1
<1>10. Len(C) = n + c + e + 1
  <2>1. Len(B) = n + c + e
    BY <1>2
  <2> QED
    BY <1>1, <1>6, <2>1
<1>11. C[Len(C) - 1] = new
  <2>1. Len(C) - 1 = Len(B)
    BY <1>1, <1>3, <1>6
  <2> QED
    BY <1>6, <2>1
<1> QED
  BY <1>6, <1>7, <1>8, <1>9, <1>10, <1>11 DEF LaidOut, on, call, n, h, new

-----------------------------------------------------------------------------
(* The pass                                                                *)

(* What depends on the program alone does not change. *)
LEMMA Unchanging ==
  ASSUME program' = program
  PROVE  /\ \A f : Code(f)' = Code(f)
         /\ \A f, b : Size(f, b)' = Size(f, b) /\ Phis(f, b)' = Phis(f, b) /\ Exits(f, b)' = Exits(f, b)
         /\ \A e : Text(e)' = Text(e)
         /\ \A f, b, i : Prepare(f, b, i)' = Prepare(f, b, i)
         /\ \A B, f, b, c, e, r : LaidOut(B, f, b, c, e, r)' <=> LaidOut(B, f, b, c, e, r)
<1>1. \A f : Code(f)' = Code(f)
  BY DEF Code
<1>2. ASSUME NEW f, NEW b
      PROVE  Size(f, b)' = Size(f, b) /\ Phis(f, b)' = Phis(f, b) /\ Exits(f, b)' = Exits(f, b)
  <2>1. Size(f, b)' = Size(f, b)
    BY <1>1 DEF Size
  <2>2. Phis(f, b)' = Phis(f, b)
    BY <1>1, <2>1 DEF Phis
  <2>3. Exits(f, b)' = Exits(f, b)
    BY <1>1, <2>1 DEF Exits
  <2> QED
    BY <2>1, <2>2, <2>3
<1>3. ASSUME NEW e PROVE Text(e)' = Text(e)
  <2>1. \A f, code, id : Slot(f, code, id)' = Slot(f, code, id)
    BY DEF Slot
  <2>2. \A f, code, b : getLabel(f, code, b)' = getLabel(f, code, b)
    BY <2>1 DEF getLabel
  <2>3. \A f, code, I : toString(f, code, I)' = toString(f, code, I)
    BY <2>1 DEF toString
  <2> QED
    BY <2>2, <2>3 DEF Text
<1>4. ASSUME NEW B, NEW f, NEW b, NEW c, NEW e, NEW r
      PROVE  LaidOut(B, f, b, c, e, r)' <=> LaidOut(B, f, b, c, e, r)
  <2>1. \A i : EventAt(f, b, i)' = EventAt(f, b, i)
    BY <1>2 DEF EventAt
  <2> QED
    BY <1>1, <1>2, <1>3, <2>1 DEF LaidOut
<1>5. ASSUME NEW f, NEW b, NEW i PROVE Prepare(f, b, i)' = Prepare(f, b, i)
  <2>1. PICK x : x = EventAt(f, b, Enters(b) + i)
    OBVIOUS
  <2>2. x = EventAt(f, b, Enters(b) + i)'
    BY <1>2, <2>1 DEF EventAt, Enters
  <2>3. Text(EventAt(f, b, Enters(b) + i))' = Text(EventAt(f, b, Enters(b) + i))
    BY <1>3, <2>1, <2>2
  <2>4. Place(f, b, i)' = Place(f, b, i)
    BY <1>2 DEF Place
  <2> QED
    BY <2>3, <2>4 DEF Prepare
<1> QED
  BY <1>1, <1>2, <1>3, <1>4, <1>5

(* One block of the function at hand is replaced. *)
IsChanged(b, C) ==
  /\ DOMAIN ir' = 1 .. Len(program)
  /\ \A f \in 1 .. Len(program) : IsRow(ir'[f]) /\ Len(ir'[f]) = Len(Code(f))
  /\ \A f \in 1 .. Len(program) : f # F => ir'[f] = ir[f]
  /\ ir'[F][b] = C
  /\ \A d \in 1 .. Len(Code(F)) : d # b => ir'[F][d] = ir[F][d]

(* What the assignment to one block leaves alone. *)
LEMMA BlockReplaced ==
  ASSUME Shaped, NEW b \in 1 .. Len(Code(F)), NEW C, ir' = [ ir EXCEPT ![F][b] = C ]
  PROVE  IsChanged(b, C)
<1> DEFINE new == [ ir[F] EXCEPT ![b] = C ]
<1>1. /\ DOMAIN ir = 1 .. Len(program) /\ F \in 1 .. Len(program)
      /\ \A f \in 1 .. Len(program) : IsRow(ir[f]) /\ Len(ir[f]) = Len(Code(f))
  BY DEF Shaped
<1>2. IsReplaced(new, ir[F], b, C)
  BY <1>1, RowExcept
<1> HIDE DEF new
<1>3. ir' = [ ir EXCEPT ![F] = new ]
  BY DEF new
<1>4. DOMAIN ir' = 1 .. Len(program) /\ ir'[F] = new
      /\ \A f \in 1 .. Len(program) : f # F => ir'[f] = ir[f]
  BY <1>1, <1>3
<1>5. IsRow(new) /\ Len(new) = Len(Code(F))
      /\ \A d \in 1 .. Len(Code(F)) : new[d] = IF d = b THEN C ELSE ir[F][d]
  BY <1>1, <1>2 DEF IsReplaced
<1> QED
  BY <1>1, <1>4, <1>5 DEF IsChanged

(* The calls that are prepared for a block: one for each of its lines. *)
LEMMA PreparedCalls ==
  ASSUME Shaped, ir[F] = Code(F), NEW P, P = Prepared(ir[F][bb], bb)
  PROVE  /\ IsRow(P) /\ Len(P) = Size(F, bb) + 1
         /\ \A i \in 1 .. Size(F, bb) + 1 : P[i] = Prepare(F, bb, i)
<1> DEFINE B == Code(F)[bb]
           n == Size(F, bb)
           h == Phis(F, bb)
           one == [ at |-> B[FirstNonPhi(B, 1)].id, text |-> getLabel(F, Code(F), bb) ]
           call(k) == [ at |-> B[FirstNonPhi(B, k)].id, text |-> toString(F, Code(F), B[k]) ]
           rest == [ k \in 1 .. Len(B) |-> call(k) ]
<1>1. program \in Programs /\ F \in 1 .. Len(program) /\ bb \in 1 .. Len(Code(F))
  BY DEF Shaped
<1>2. n \in Nat \ { 0 } /\ h \in 0 .. n - 1 /\ Enters(bb) \in 0 .. 1
  BY <1>1, LayoutNumbers
<1>3. Len(B) = n
  BY DEF Size
<1>4. \A k \in 1 .. n : B[k].id = << bb, k >> /\ (B[k].op = "phi" <=> k <= h)
  BY <1>1, BlockShape, PhisShape
<1>5. ASSUME NEW k \in 1 .. n PROVE FirstNonPhi(B, k) = IF k <= h THEN h + 1 ELSE k
  <2> DEFINE x == IF k <= h THEN h + 1 ELSE k
             T(y) == B[y].op # "phi" /\ \A m \in k .. y - 1 : B[m].op = "phi"
  <2> HIDE DEF n, h, B
  <2>1. x \in k .. n /\ T(x)
    BY <1>2, <1>4
  <2>2. ASSUME NEW y \in k .. n, T(y) PROVE y = x
    BY <1>2, <1>4, <2>2
  <2> HIDE DEF x, T
  <2>3. (CHOOSE y \in k .. n : T(y)) = x
    BY <2>1, <2>2
  <2> QED
    BY <1>3, <2>3 DEF FirstNonPhi, T, x
<1>6. one = Prepare(F, bb, 1)
  <2>1. FirstNonPhi(B, 1) = h + 1 /\ Place(F, bb, 1) = h + 1 /\ h + 1 \in 1 .. n
    BY <1>2, <1>5 DEF Place
  <2>2. B[FirstNonPhi(B, 1)].id = << bb, Place(F, bb, 1) >>
    BY <1>4, <2>1
  <2>3. Text(EventAt(F, bb, Enters(bb) + 1)) = getLabel(F, Code(F), bb)
    BY <1>2 DEF EventAt, Text, Code
  <2> QED
    BY <2>2, <2>3 DEF Prepare
<1>7. ASSUME NEW k \in 1 .. n PROVE call(k) = Prepare(F, bb, k + 1)
  <2>1. FirstNonPhi(B, k) = Place(F, bb, k + 1) /\ FirstNonPhi(B, k) \in 1 .. n
    BY <1>2, <1>5 DEF Place
  <2>2. B[FirstNonPhi(B, k)].id = << bb, Place(F, bb, k + 1) >>
    BY <1>4, <2>1
  <2>3. EventAt(F, bb, Enters(bb) + (k + 1)) = << "instr", F, << bb, k >> >>
    BY <1>2 DEF EventAt
  <2>4. Text(<< "instr", F, << bb, k >> >>) = toString(F, Code(F), B[k])
    BY DEF Text, Code
  <2> QED
    BY <2>2, <2>3, <2>4 DEF Prepare
<1>8. P = << one >> \o rest
  <2>1. ir[F][bb] = B
    OBVIOUS
  <2> QED
    BY <2>1 DEF Prepared
<1> HIDE DEF one, call, B, n, h
<1> DEFINE o == << one >>
<1>9. IsRow(o) /\ Len(o) = 1 /\ o[1] = one
  BY OneRow
<1>10. IsRow(rest) /\ Len(rest) = n /\ \A k \in 1 .. n : rest[k] = call(k)
  BY <1>2, <1>3 DEF IsRow
<1>11. P = o \o rest
  BY <1>8
<1> HIDE DEF rest, o
<1>17. IsRow(o) /\ IsRow(rest)
  BY <1>9, <1>10
<1>12. IsRow(P) /\ Len(P) = Len(o) + Len(rest)
  BY <1>11, <1>17, RowJoined
<1>13. \A j \in 1 .. Len(o) : P[j] = o[j]
  BY <1>11, <1>17, RowJoined
<1>14. \A j \in 1 .. Len(rest) : P[Len(o) + j] = rest[j]
  BY <1>11, <1>17, RowJoined
<1>16. Len(P) = n + 1 /\ P[1] = one /\ \A k \in 1 .. n : P[k + 1] = call(k)
  BY <1>2, <1>9, <1>10, <1>12, <1>13, <1>14
<1>15. ASSUME NEW i \in 1 .. n + 1 PROVE P[i] = Prepare(F, bb, i)
  <2>1. CASE i = 1
    BY <1>6, <1>16, <2>1
  <2>2. CASE i # 1
    <3>1. i - 1 \in 1 .. n /\ i = (i - 1) + 1
      BY <1>2, <2>2
    <3> QED
      BY <1>7, <1>16, <3>1
  <2> QED
    BY <2>1, <2>2
<1> QED
  BY <1>12, <1>16, <1>15 DEF n

(* A block laid out in the next state. *)
LEMMA LaidNext ==
  ASSUME program' = program, NEW f, NEW b, NEW c, NEW e, NEW r, NEW k, k = ir'[f][b],
         LaidOut(k, f, b, c, e, r)
  PROVE  Laid(f, b, c, e, r)'
<1>1. LaidOut(k, f, b, c, e, r)'
  BY Unchanging
<1> QED
  BY <1>1 DEF Laid

(* The functions that are not at hand stay as they are. *)
LEMMA TracedStays ==
  ASSUME program' = program, NEW f, ir'[f] = ir[f], Traced(f)
  PROVE  Traced(f)'
<1> SUFFICES ASSUME NEW b \in 1 .. Len(Code(f))
             PROVE  Laid(f, b, Size(f, b) + 1, Enters(b), Exits(f, b))'
  BY Unchanging DEF Traced, Enters
<1>1. Laid(f, b, Size(f, b) + 1, Enters(b), Exits(f, b))
  BY DEF Traced
<1>2. PICK c, e, r : c = Size(f, b) + 1 /\ e = Enters(b) /\ r = Exits(f, b)
  OBVIOUS
<1>3. Laid(f, b, c, e, r)'
  BY <1>1, <1>2, LaidNext DEF Laid
<1> QED
  BY <1>2, <1>3, Unchanging DEF Enters

(* Gathering appends the calls of a block to those that wait. *)
LEMMA QueueGrows ==
  ASSUME Shaped, ir[F] = Code(F), NEW z, z = bb, NEW off \in [ 1 .. z -> Int ], Queued(off, 1, 0, z),
         program' = program, F' = F, TraceCalls' = TraceCalls \o Prepared(ir[F][bb], bb)
  PROVE  IsRow(TraceCalls') /\ Queue(1, 0, z + 1)'
<1>1. program \in Programs /\ F \in 1 .. Len(program) /\ z \in 1 .. Len(Code(F)) /\ IsRow(TraceCalls)
  BY DEF Shaped
<1>2. z \in Nat \ { 0 } /\ \A b \in 1 .. z : Size(F, b) \in Nat
  BY <1>1, LayoutNumbers, ProgramShape
<1>3. PICK P : P = Prepared(ir[F][bb], bb)
  OBVIOUS
<1>4. IsRow(P) /\ Len(P) = Size(F, z) + 1 /\ \A i \in 1 .. Size(F, z) + 1 : P[i] = Prepare(F, z, i)
  BY <1>3, PreparedCalls
<1>5. PICK T : T = TraceCalls'
  OBVIOUS
<1>16. T = TraceCalls \o P /\ IsRow(TraceCalls) /\ IsRow(P)
  BY <1>1, <1>3, <1>4, <1>5
<1>6. IsRow(T) /\ Len(T) = Len(TraceCalls) + Len(P)
  BY <1>16, RowJoined
<1>7. \A j \in 1 .. Len(TraceCalls) : T[j] = TraceCalls[j]
  BY <1>16, RowJoined
<1>8. \A j \in 1 .. Len(P) : T[Len(TraceCalls) + j] = P[j]
  BY <1>16, RowJoined
<1>17. off[1] + 0 = 0 /\ \A b \in 1 .. z : off[b] \in Int
  BY <1>2 DEF Queued
<1>9. /\ off[1] = 0 /\ Len(TraceCalls) = off[z]
      /\ \A b \in 1 .. z - 1 : off[b + 1] = off[b] + Size(F, b) + 1
      /\ \A b, d \in 1 .. z : b < d => off[b] + Size(F, b) + 1 <= off[d]
      /\ \A b \in 1 .. z - 1 : \A i \in 1 .. Size(F, b) + 1 :
           off[b] + i >= 1 => TraceCalls[off[b] + i] = Prepare(F, b, i)
      /\ \A b \in 1 .. z : off[b] \in Int
  BY <1>2, <1>17 DEF Queued
<1>10. Len(TraceCalls) \in Nat /\ Len(T) = Len(TraceCalls) + Size(F, z) + 1
  <2>1. Len(TraceCalls) \in Nat /\ Size(F, z) \in Nat
    BY <1>1, <1>2 DEF IsRow
  <2>2. Len(T) = Len(TraceCalls) + (Size(F, z) + 1)
    BY <1>4, <1>6
  <2> QED
    BY <2>1, <2>2
<1>18. PICK new : new = [ b \in 1 .. z + 1 |-> IF b <= z THEN off[b] ELSE Len(T) ]
  OBVIOUS
<1>11. new \in [ 1 .. z + 1 -> Int ] /\ (\A b \in 1 .. z : new[b] = off[b]) /\ new[z + 1] = Len(T)
  BY <1>2, <1>9, <1>10, <1>18
<1>12. \A b \in 1 .. z : new[b + 1] = new[b] + Size(F, b) + 1
  <2> TAKE b \in 1 .. z
  <2>1. CASE b = z
    BY <1>2, <1>9, <1>10, <1>11, <2>1
  <2>2. CASE b # z
    <3>1. b \in 1 .. z - 1 /\ b + 1 \in 1 .. z
      BY <1>2, <2>2
    <3> QED
      BY <1>9, <1>11, <3>1
  <2> QED
    BY <2>1, <2>2
<1>13. \A b, d \in 1 .. z + 1 : b < d => new[b] + Size(F, b) + 1 <= new[d]
  <2> TAKE b, d \in 1 .. z + 1
  <2> HAVE b < d
  <2>4. b \in 1 .. z /\ new[b] = off[b] /\ off[b] \in Int /\ Size(F, b) \in Nat
    <3>1. b \in 1 .. z
      BY <1>2
    <3> QED
      BY <1>2, <1>9, <1>11, <3>1
  <2>1. CASE d <= z
    <3>1. d \in 1 .. z /\ new[d] = off[d]
      BY <1>2, <1>11, <2>1
    <3>2. off[b] + Size(F, b) + 1 <= off[d]
      BY <1>9, <2>4, <3>1
    <3> QED
      BY <2>4, <3>1, <3>2
  <2>2. CASE d = z + 1 /\ b = z
    <3>1. new[b + 1] = new[b] + Size(F, b) + 1
      BY <1>12, <2>4
    <3> QED
      BY <1>9, <2>2, <2>4, <3>1
  <2>3. CASE d = z + 1 /\ b < z
    <3>1. z \in 1 .. z /\ off[z] \in Int
      BY <1>2, <1>9
    <3>2. off[b] + Size(F, b) + 1 <= off[z]
      BY <1>9, <2>3, <2>4, <3>1
    <3>3. new[d] = off[z] + Size(F, z) + 1 /\ Size(F, z) \in Nat
      BY <1>2, <1>9, <1>10, <1>11, <2>3, <3>1
    <3> QED
      BY <2>4, <3>1, <3>2, <3>3
  <2> QED
    BY <1>2, <2>1, <2>2, <2>3
<1>14. \A b \in 1 .. z : \A i \in 1 .. Size(F, b) + 1 :
         new[b] + i >= 1 => T[new[b] + i] = Prepare(F, b, i)
  <2> TAKE b \in 1 .. z
  <2> TAKE i \in 1 .. Size(F, b) + 1
  <2> HAVE new[b] + i >= 1
  <2>1. CASE b = z
    <3>1. new[b] = Len(TraceCalls) /\ i \in 1 .. Len(P) /\ i \in 1 .. Size(F, z) + 1
      BY <1>2, <1>4, <1>9, <1>11, <2>1
    <3>2. T[Len(TraceCalls) + i] = P[i]
      BY <1>8, <3>1
    <3>3. P[i] = Prepare(F, z, i)
      BY <1>4, <3>1
    <3>4. new[b] + i = Len(TraceCalls) + i
      BY <3>1
    <3>5. Prepare(F, z, i) = Prepare(F, b, i)
      BY <2>1
    <3> QED
      BY <3>2, <3>3, <3>4, <3>5, Zenon
  <2>2. CASE b # z
    <3>1. b \in 1 .. z - 1 /\ b < z
      BY <1>2, <2>2
    <3>2. off[b] + Size(F, b) + 1 <= Len(TraceCalls) /\ off[b] \in Int
      BY <1>2, <1>9, <3>1
    <3>4. PICK x \in Int, y \in Int, l \in Int :
            x = off[b] /\ y = Size(F, b) /\ l = Len(TraceCalls)
      BY <1>2, <1>10, <3>2
    <3>5. x + y + 1 <= l /\ x + i >= 1 /\ i \in 1 .. y + 1
      BY <1>11, <3>2, <3>4
    <3>6. x + i \in 1 .. l
      BY <3>5
    <3>3. off[b] + i \in 1 .. Len(TraceCalls)
      BY <3>4, <3>6
    <3> QED
      BY <1>7, <1>9, <1>11, <3>1, <3>3
  <2> QED
    BY <2>1, <2>2
<1>15. Queued(new, 1, 0, z + 1)'
  <2>1. \A b : Size(F, b)' = Size(F, b)
    BY Unchanging
  <2>2. \A b, i : Prepare(F, b, i)' = Prepare(F, b, i)
    BY Unchanging
  <2>3. PICK y : y = z + 1
    OBVIOUS
  <2>4. y - 1 = z /\ new[1] + 0 = 0 /\ T = TraceCalls' /\ Len(TraceCalls') = new[y]
    BY <1>2, <1>5, <1>9, <1>11, <2>3
  <2>5. \A b \in 1 .. y - 1 : new[b + 1] = new[b] + Size(F, b)' + 1
    BY <1>12, <2>1, <2>4
  <2>6. \A b, d \in 1 .. y : b < d => new[b] + Size(F, b)' + 1 <= new[d]
    BY <1>13, <2>1, <2>3
  <2>7. \A b \in 1 .. y - 1 : \A i \in 1 .. Size(F, b)' + 1 :
          new[b] + i >= 1 => TraceCalls'[new[b] + i] = Prepare(F, b, i)'
    <3> TAKE b \in 1 .. y - 1
    <3> TAKE i \in 1 .. Size(F, b)' + 1
    <3> HAVE new[b] + i >= 1
    <3>1. b \in 1 .. z /\ i \in 1 .. Size(F, b) + 1
      BY <2>1, <2>4
    <3>2. T[new[b] + i] = Prepare(F, b, i)
      BY <1>14, <3>1
    <3> QED
      BY <2>2, <2>4, <3>2
  <2>8. Queued(new, 1, 0, y)'
    BY <2>4, <2>5, <2>6, <2>7 DEF Queued
  <2> QED
    BY <2>3, <2>8
<1> QED
  BY <1>5, <1>6, <1>11, <1>15 DEF Queue

(* The first call of the queue is the next of block a. *)
LEMMA QueueFirst ==
  ASSUME Shaped, NEW z, z = Len(Code(F)) + 1, NEW a \in 1 .. z, NEW c \in Nat,
         c <= IF a = z THEN 0 ELSE Size(F, a), NEW off \in [ a .. z -> Int ], Queued(off, a, c, z),
         TraceCalls # << >>
  PROVE  /\ a \in 1 .. Len(Code(F)) /\ c \in 0 .. Size(F, a)
         /\ Head(TraceCalls) = Prepare(F, a, c + 1)
<1>1. program \in Programs /\ F \in 1 .. Len(program) /\ IsRow(TraceCalls)
  BY DEF Shaped
<1>2. z \in Nat \ { 0 }
  BY <1>1, ProgramShape
<1>3. Len(TraceCalls) \in Nat \ { 0 } /\ Head(TraceCalls) = TraceCalls[1]
  <2>1. Len(TraceCalls) \in Nat
    BY <1>1 DEF IsRow
  <2> QED
    BY <1>1, <2>1, RowEmpty, RowTail
<1>4. off[a] + c = 0 /\ Len(TraceCalls) = off[z] /\ off[a] \in Int
  BY <1>2 DEF Queued
<1>5. a # z
  BY <1>3, <1>4
<1>6. a \in 1 .. Len(Code(F)) /\ a \in a .. z - 1 /\ z - 1 = Len(Code(F))
  BY <1>1, <1>2, <1>5, ProgramShape
<1>7. Size(F, a) \in Nat
  BY <1>1, <1>6, LayoutNumbers
<1>8. c + 1 \in 1 .. Size(F, a) + 1 /\ off[a] + (c + 1) = 1
  BY <1>4, <1>5, <1>7
<1>9. \A i \in 1 .. Size(F, a) + 1 : off[a] + i >= 1 => TraceCalls[off[a] + i] = Prepare(F, a, i)
  BY <1>6 DEF Queued
<1>10. TraceCalls[1] = Prepare(F, a, c + 1)
  BY <1>8, <1>9
<1> QED
  BY <1>3, <1>5, <1>6, <1>7, <1>10

(* The queue without its first call. *)
LEMMA QueueShrinks ==
  ASSUME Shaped, NEW z, z = Len(Code(F)) + 1, NEW a \in 1 .. z, NEW c \in Nat,
         c <= IF a = z THEN 0 ELSE Size(F, a), Queue(a, c, z),
         TraceCalls # << >>, TraceCalls' = Tail(TraceCalls), program' = program, F' = F,
         NEW d, d = IF c = Size(F, a) THEN a + 1 ELSE a,
         NEW g, g = IF c = Size(F, a) THEN 0 ELSE c + 1
  PROVE  IsRow(TraceCalls') /\ Queue(d, g, z)'
<1>1. program \in Programs /\ F \in 1 .. Len(program) /\ IsRow(TraceCalls)
  BY DEF Shaped
<1>2. PICK off \in [ a .. z -> Int ] : Queued(off, a, c, z)
  BY DEF Queue
<1>3. a \in 1 .. Len(Code(F)) /\ c \in 0 .. Size(F, a)
  BY <1>2, QueueFirst
<1>4. z \in Nat \ { 0 } /\ a \in Nat /\ a < z /\ \A b \in 1 .. z - 1 : Size(F, b) \in Nat
  BY <1>1, <1>3, LayoutNumbers, ProgramShape
<1>5. /\ off[a] + c = 0 /\ Len(TraceCalls) = off[z]
      /\ \A b \in a .. z - 1 : off[b + 1] = off[b] + Size(F, b) + 1
      /\ \A b, x \in a .. z : b < x => off[b] + Size(F, b) + 1 <= off[x]
      /\ \A b \in a .. z - 1 : \A i \in 1 .. Size(F, b) + 1 :
           off[b] + i >= 1 => TraceCalls[off[b] + i] = Prepare(F, b, i)
  BY <1>2 DEF Queued
<1>6. \A b \in a .. z : off[b] \in Int
  BY <1>2
<1>7. PICK T : T = TraceCalls'
  OBVIOUS
<1>8. /\ IsRow(T) /\ Len(T) = Len(TraceCalls) - 1
      /\ \A j \in 1 .. Len(TraceCalls) - 1 : T[j] = TraceCalls[j + 1]
  BY <1>1, <1>7, RowTail
<1>9. PICK new : new = [ b \in d .. z |-> off[b] - 1 ]
  OBVIOUS
<1>10. d \in a .. z /\ d \in Nat
  BY <1>3, <1>4
<1>11. new \in [ d .. z -> Int ] /\ (\A b \in d .. z : new[b] = off[b] - 1 /\ b \in a .. z)
  BY <1>4, <1>6, <1>9, <1>10
<1>12. new[d] + g = 0
  <2>1. CASE c = Size(F, a)
    <3>1. d = a + 1 /\ g = 0 /\ d \in d .. z /\ a \in a .. z - 1 /\ a \in a .. z
      BY <1>3, <1>4, <2>1
    <3>2. off[a + 1] = off[a] + Size(F, a) + 1 /\ off[a] \in Int /\ new[d] = off[d] - 1
      BY <1>5, <1>6, <1>11, <3>1
    <3>3. off[a] + c = 0 /\ off[d] = off[a] + c + 1 /\ off[a] \in Int
      BY <1>5, <2>1, <3>1, <3>2
    <3> QED
      BY <3>1, <3>2, <3>3
  <2>2. CASE c # Size(F, a)
    <3>1. d = a /\ g = c + 1 /\ d \in d .. z /\ a \in a .. z
      BY <1>3, <1>4, <2>2
    <3>2. off[a] \in Int /\ new[d] = off[d] - 1
      BY <1>6, <1>11, <3>1
    <3> QED
      BY <1>3, <1>5, <3>1, <3>2
  <2> QED
    BY <2>1, <2>2
<1>13. Len(T) = new[z]
  <2>1. z \in d .. z
    BY <1>4, <1>10
  <2> QED
    BY <1>5, <1>8, <1>11, <2>1
<1>14. ASSUME NEW b \in d .. z - 1 PROVE new[b + 1] = new[b] + Size(F, b) + 1
  <2>1. b \in a .. z - 1 /\ b \in d .. z /\ b + 1 \in d .. z /\ b \in 1 .. z - 1
    BY <1>4, <1>10
  <2>2. off[b + 1] = off[b] + Size(F, b) + 1 /\ off[b] \in Int /\ off[b + 1] \in Int
    BY <1>5, <1>6, <1>11, <2>1
  <2>3. new[b] = off[b] - 1 /\ new[b + 1] = off[b + 1] - 1 /\ Size(F, b) \in Nat
    BY <1>4, <1>11, <2>1
  <2> QED
    BY <2>2, <2>3
<1>15. ASSUME NEW b \in d .. z, NEW x \in d .. z, b < x
       PROVE  new[b] + Size(F, b) + 1 <= new[x]
  <2>1. b \in a .. z /\ x \in a .. z /\ b \in 1 .. z - 1
    BY <1>4, <1>10, <1>11, <1>15
  <2>2. off[b] + Size(F, b) + 1 <= off[x] /\ off[b] \in Int /\ off[x] \in Int
    BY <1>5, <1>6, <1>15, <2>1
  <2>3. new[b] = off[b] - 1 /\ new[x] = off[x] - 1 /\ Size(F, b) \in Nat
    BY <1>4, <1>11, <2>1
  <2> QED
    BY <2>2, <2>3
<1>16. ASSUME NEW b \in d .. z - 1, NEW i \in 1 .. Size(F, b) + 1, new[b] + i >= 1
       PROVE  T[new[b] + i] = Prepare(F, b, i)
  <2>1. b \in a .. z - 1 /\ b \in d .. z /\ b \in 1 .. z - 1 /\ z \in a .. z /\ b < z /\ b \in a .. z
    BY <1>4, <1>10
  <2>2. /\ off[b] + Size(F, b) + 1 <= off[z] /\ off[b] \in Int /\ off[z] \in Int
        /\ Size(F, b) \in Nat /\ new[b] = off[b] - 1
    BY <1>4, <1>5, <1>6, <1>11, <2>1
  <2>3. PICK k \in Int : k = off[b] + i
    BY <2>2
  <2>7. Len(TraceCalls) = off[z]
    BY <1>5
  <2>4. k - 1 \in 1 .. Len(TraceCalls) - 1 /\ new[b] + i = k - 1 /\ k >= 1
    <3>1. new[b] + i = k - 1 /\ i \in Int
      BY <2>2, <2>3
    <3>2. k - 1 >= 1
      BY <1>16, <3>1
    <3>3. k <= off[z]
      BY <2>2, <2>3
    <3>4. PICK l \in Int : l = Len(TraceCalls) /\ l = off[z]
      BY <2>2, <2>7
    <3>5. k - 1 \in 1 .. l - 1 /\ k >= 1
      BY <3>2, <3>3, <3>4
    <3> QED
      BY <3>1, <3>4, <3>5
  <2>5. TraceCalls[k] = Prepare(F, b, i)
    BY <1>5, <2>1, <2>3, <2>4
  <2>6. T[k - 1] = TraceCalls[(k - 1) + 1] /\ (k - 1) + 1 = k
    BY <1>8, <2>3, <2>4
  <2> QED
    BY <2>4, <2>5, <2>6
<1>17. Queued(new, d, g, z)'
  <2>1. (\A b : Size(F, b)' = Size(F, b)) /\ \A b, i : Prepare(F, b, i)' = Prepare(F, b, i)
    BY Unchanging
  <2>2. \A b \in d .. z - 1 : \A i \in 1 .. Size(F, b)' + 1 :
          new[b] + i >= 1 => TraceCalls'[new[b] + i] = Prepare(F, b, i)'
    <3> TAKE b \in d .. z - 1
    <3> TAKE i \in 1 .. Size(F, b)' + 1
    <3> HAVE new[b] + i >= 1
    <3>1. T[new[b] + i] = Prepare(F, b, i)
      BY <1>16, <2>1
    <3> QED
      BY <1>7, <2>1, <3>1
  <2>3. new[d] + g = 0 /\ Len(TraceCalls') = new[z]
    BY <1>7, <1>12, <1>13
  <2>4. \A b \in d .. z - 1 : new[b + 1] = new[b] + Size(F, b)' + 1
    BY <1>14, <2>1
  <2>5. \A b, x \in d .. z : b < x => new[b] + Size(F, b)' + 1 <= new[x]
    BY <1>15, <2>1
  <2> QED
    BY <2>2, <2>3, <2>4, <2>5 DEF Queued
<1> QED
  BY <1>7, <1>8, <1>11, <1>17 DEF Queue

(* The functions before and after the one at hand. *)
LEMMA OthersKept ==
  ASSUME Shaped, Instrumented, pc \in { "gather", "begin", "insert", "end" }, program' = program,
         \A f \in 1 .. Len(program) : f # F => ir'[f] = ir[f]
  PROVE  /\ \A f \in 1 .. F - 1 : Traced(f)'
         /\ \A f \in F + 1 .. Len(program) : ir'[f] = Code(f)'
<1>1. F \in 1 .. Len(program) /\ Len(program) \in Nat
  BY ProgramShape DEF Shaped
<1>2. /\ \A f \in 1 .. F - 1 : Traced(f)
      /\ \A f \in F + 1 .. Len(program) : ir[f] = Code(f)
  BY <1>1 DEF Instrumented
<1>3. ASSUME NEW f \in 1 .. F - 1 PROVE Traced(f)'
  <2>1. f \in 1 .. Len(program) /\ f # F
    BY <1>1
  <2> QED
    BY <1>2, <2>1, TracedStays
<1>4. ASSUME NEW f \in F + 1 .. Len(program) PROVE ir'[f] = Code(f)'
  <2>1. f \in 1 .. Len(program) /\ f # F
    BY <1>1
  <2> QED
    BY <1>2, <2>1, Unchanging
<1> QED
  BY <1>3, <1>4

(* The blocks of the function at hand in the next state. *)
LEMMA InsertedNext ==
  ASSUME program' = program, F' = F, NEW a, NEW c,
         \A b \in 1 .. Len(Code(F)) : \E k : k = ir'[F][b] /\
           LaidOut(k, F, b, IF b < a THEN Size(F, b) + 1 ELSE IF b = a THEN c ELSE 0, Enters(b), 0)
  PROVE  InsertedUpTo(a, c)'
<1> SUFFICES ASSUME NEW b \in 1 .. Len(Code(F))
             PROVE  Laid(F, b, IF b < a THEN Size(F, b) + 1 ELSE IF b = a THEN c ELSE 0, Enters(b), 0)'
  BY Unchanging DEF InsertedUpTo
<1>1. PICK k, x, e, f :
        /\ k = ir'[F][b] /\ f = F /\ e = Enters(b)
        /\ x = IF b < a THEN Size(F, b) + 1 ELSE IF b = a THEN c ELSE 0
        /\ LaidOut(k, f, b, x, e, 0)
  OBVIOUS
<1>2. Laid(f, b, x, e, 0)'
  BY <1>1, LaidNext
<1>3. x = (IF b < a THEN Size(F, b) + 1 ELSE IF b = a THEN c ELSE 0)' /\ e = Enters(b)' /\ f = F'
  BY <1>1, Unchanging DEF Enters
<1> QED
  BY <1>2, <1>3

(* Gathering keeps the code and lengthens the queue. *)
LEMMA GatherKeeps ==
  ASSUME Shaped, Instrumented, Gather
  PROVE  Shaped' /\ Instrumented'
<1>1. /\ pc = "gather" /\ program' = program /\ ir' = ir /\ F' = F
      /\ TraceCalls' = TraceCalls \o Prepared(ir[F][bb], bb)
      /\ IF bb < Blocks THEN bb' = bb + 1 /\ pc' = "gather" ELSE bb' = 1 /\ pc' = "begin"
  BY DEF Gather
<1>2. /\ program \in Programs /\ F \in 1 .. Len(program) /\ bb \in 1 .. Len(Code(F))
      /\ Blocks = Len(Code(F)) /\ DOMAIN ir = 1 .. Len(program)
      /\ \A f \in 1 .. Len(program) : IsRow(ir[f]) /\ Len(ir[f]) = Len(Code(f))
  BY DEF Shaped, Blocks
<1>3. Len(Code(F)) \in Nat /\ Len(program) \in Nat /\ \A f : Code(f)' = Code(f)
  BY <1>1, <1>2, ProgramShape, Unchanging
<1>4. ir[F] = Code(F) /\ Queue(1, 0, bb)
  BY <1>1 DEF Instrumented
<1>5. PICK z : z = bb
  OBVIOUS
<1>6. IsRow(TraceCalls') /\ Queue(1, 0, z + 1)'
  <2>1. PICK off \in [ 1 .. z -> Int ] : Queued(off, 1, 0, z)
    BY <1>4, <1>5 DEF Queue
  <2> QED
    BY <1>1, <1>4, <1>5, <2>1, QueueGrows
<1>7. Shaped'
  <2>1. bb' \in 1 .. Len(Code(F)) /\ pc' \in { "gather", "begin" }
    BY <1>1, <1>2, <1>3
  <2> QED
    BY <1>1, <1>2, <1>3, <1>6, <2>1 DEF Shaped
<1>8. /\ \A f \in 1 .. F - 1 : Traced(f)'
      /\ \A f \in F + 1 .. Len(program) : ir'[f] = Code(f)'
  BY <1>1, OthersKept
<1>9. CASE bb < Blocks
  <2>1. pc' = "gather" /\ bb' = z + 1
    BY <1>1, <1>5, <1>9
  <2>2. Queue(1, 0, bb)'
    BY <1>6, <2>1
  <2> QED
    BY <1>1, <1>3, <1>4, <1>7, <1>8, <2>1, <2>2 DEF Instrumented
<1>10. CASE ~(bb < Blocks)
  <2>1. pc' = "begin" /\ bb' = 1 /\ z + 1 = (Len(Code(F)) + 1)'
    BY <1>1, <1>2, <1>3, <1>5, <1>10
  <2>2. Queue(1, 0, Len(Code(F)) + 1)'
    BY <1>6, <2>1
  <2> QED
    BY <1>1, <1>3, <1>4, <1>7, <1>8, <2>1, <2>2 DEF Instrumented
<1> QED
  BY <1>9, <1>10

(* The call of the function's entry stands first in its first block. *)
LEMMA EntranceKeeps ==
  ASSUME Shaped, Instrumented, TraceEntrance
  PROVE  Shaped' /\ Instrumented'
<1>1. /\ pc = "begin" /\ pc' = "insert" /\ program' = program /\ F' = F /\ bb' = bb
      /\ TraceCalls' = TraceCalls
      /\ ir' = [ ir EXCEPT ![F][1] = << CallPuts(beginFunction(F)) >> \o ir[F][1] ]
  BY DEF TraceEntrance
<1>2. /\ program \in Programs /\ F \in 1 .. Len(program) /\ bb \in 1 .. Len(Code(F))
      /\ IsRow(TraceCalls)
  BY DEF Shaped
<1>3. /\ Len(Code(F)) \in Nat \ { 0 } /\ Len(program) \in Nat /\ \A f : Code(f)' = Code(f)
      /\ 1 \in 1 .. Len(Code(F))
  BY <1>1, <1>2, ProgramShape, Unchanging
<1>4. ir[F] = Code(F) /\ Queue(1, 0, Len(Code(F)) + 1) /\ bb = 1
  BY <1>1 DEF Instrumented
<1>5. PICK C : C = << CallPuts(beginFunction(F)) >> \o ir[F][1]
  OBVIOUS
<1>6. IsChanged(1, C)
  BY <1>1, <1>3, <1>5, BlockReplaced
<1>7. Shaped'
  BY <1>1, <1>2, <1>3, <1>6 DEF Shaped, IsChanged
<1>8. /\ \A f \in 1 .. F - 1 : Traced(f)'
      /\ \A f \in F + 1 .. Len(program) : ir'[f] = Code(f)'
  BY <1>1, <1>6, OthersKept DEF IsChanged
<1>9. InsertedUpTo(1, 0)'
  <2>1. ASSUME NEW b \in 1 .. Len(Code(F))
        PROVE  \E k : k = ir'[F][b] /\
          LaidOut(k, F, b, IF b < 1 THEN Size(F, b) + 1 ELSE IF b = 1 THEN 0 ELSE 0, Enters(b), 0)
    <3>1. LaidOut(Code(F)[b], F, b, 0, 0, 0)
      BY <1>2, FreshLayout
    <3>2. CASE b = 1
      <4>1. C = << CallPuts(beginFunction(F)) >> \o Code(F)[b]
        BY <1>4, <1>5, <3>2
      <4>2. LaidOut(C, F, b, 0, 1, 0)
        BY <1>2, <3>1, <3>2, <4>1, InsertBegin
      <4> QED
        BY <1>6, <3>2, <4>2 DEF IsChanged, Enters
    <3>3. CASE b # 1
      <4>1. Enters(b) = 0 /\ ~(b < 1)
        BY <3>3 DEF Enters
      <4>2. ir'[F][b] = Code(F)[b]
        BY <1>4, <1>6, <3>3 DEF IsChanged
      <4> QED
        BY <3>1, <4>1, <4>2
    <3> QED
      BY <3>2, <3>3
  <2> QED
    BY <1>1, <2>1, InsertedNext
<1>10. Queue(1, 0, Len(Code(F)) + 1)'
  <2>1. PICK z : z = Len(Code(F)) + 1
    OBVIOUS
  <2>2. PICK off \in [ 1 .. z -> Int ] : Queued(off, 1, 0, z)
    BY <1>4, <2>1 DEF Queue
  <2>3. (\A b : Size(F, b)' = Size(F, b)) /\ \A b, i : Prepare(F, b, i)' = Prepare(F, b, i)
    BY <1>1, Unchanging
  <2>4. Queued(off, 1, 0, z)'
    BY <1>1, <2>2, <2>3 DEF Queued
  <2> QED
    BY <1>1, <1>3, <2>1, <2>2, <2>4 DEF Queue
<1>11. /\ 1 \in 1 .. Len(Code(F)) + 1 /\ 0 \in Nat
       /\ 0 <= IF 1 = Len(Code(F)) + 1 THEN 0 ELSE Size(F, 1)'
  <2>1. Size(F, 1) \in Nat /\ Size(F, 1)' = Size(F, 1)
    BY <1>1, <1>2, <1>3, LayoutNumbers, Unchanging
  <2> QED
    BY <1>3, <2>1
<1> QED
  BY <1>1, <1>3, <1>4, <1>7, <1>8, <1>9, <1>10, <1>11 DEF Instrumented

(* The first call of the queue is inserted, or the queue is empty. *)
LEMMA InsertKeeps ==
  ASSUME Shaped, Instrumented, InsertPrepared
  PROVE  Shaped' /\ Instrumented'
<1>1. pc = "insert" /\ program' = program /\ F' = F /\ bb' = bb
  BY DEF InsertPrepared
<1>2. /\ program \in Programs /\ F \in 1 .. Len(program) /\ bb \in 1 .. Len(Code(F))
      /\ IsRow(TraceCalls) /\ DOMAIN ir = 1 .. Len(program)
      /\ \A f \in 1 .. Len(program) : IsRow(ir[f]) /\ Len(ir[f]) = Len(Code(f))
  BY DEF Shaped
<1>3. /\ Len(Code(F)) \in Nat \ { 0 } /\ Len(program) \in Nat /\ \A f : Code(f)' = Code(f)
      /\ \A b : Size(F, b)' = Size(F, b)
  BY <1>1, <1>2, ProgramShape, Unchanging
<1>4. PICK z : z = Len(Code(F)) + 1
  OBVIOUS
<1>5. bb = 1 /\ \E a \in 1 .. z : \E c \in Nat :
        c <= (IF a = z THEN 0 ELSE Size(F, a)) /\ Queue(a, c, z) /\ InsertedUpTo(a, c)
  BY <1>1, <1>4 DEF Instrumented
<1>6. PICK a \in 1 .. z, c \in Nat :
        c <= (IF a = z THEN 0 ELSE Size(F, a)) /\ Queue(a, c, z) /\ InsertedUpTo(a, c)
  BY <1>5
<1>7. a \in Nat /\ \A b \in 1 .. Len(Code(F)) :
        LaidOut(ir[F][b], F, b, IF b < a THEN Size(F, b) + 1 ELSE IF b = a THEN c ELSE 0, Enters(b), 0)
  BY <1>6 DEF InsertedUpTo, Laid
<1>8. CASE TraceCalls = << >>
  <2>1. pc' = "end" /\ ir' = ir /\ TraceCalls' = << >>
    BY <1>8 DEF InsertPrepared
  <2>2. Shaped'
    BY <1>1, <1>2, <1>3, <1>8, <2>1 DEF Shaped
  <2>3. /\ \A f \in 1 .. F - 1 : Traced(f)'
        /\ \A f \in F + 1 .. Len(program) : ir'[f] = Code(f)'
    BY <1>1, <2>1, OthersKept
  <2>4. a = z
    <3> SUFFICES ASSUME a # z PROVE FALSE
      OBVIOUS
    <3>1. PICK off \in [ a .. z -> Int ] : Queued(off, a, c, z)
      BY <1>6 DEF Queue
    <3>2. a \in 1 .. Len(Code(F)) /\ a \in a .. z /\ z \in a .. z /\ a < z
      BY <1>3, <1>4
    <3>3. Size(F, a) \in Nat
      BY <1>2, <3>2, LayoutNumbers
    <3>4. off[a] + c = 0 /\ off[a] + Size(F, a) + 1 <= off[z] /\ off[z] = 0
      BY <1>8, <3>1, <3>2, EmptyRow DEF Queued
    <3> QED
      BY <1>6, <3>1, <3>2, <3>3, <3>4
  <2>5. ASSUME NEW b \in 1 .. Len(Code(F))
        PROVE  Laid(F, b, Size(F, b) + 1, Enters(b), IF b < bb THEN Exits(F, b) ELSE 0)'
    <3>1. b < a /\ ~(b < bb)
      BY <1>3, <1>4, <1>5, <2>4
    <3>2. PICK f, x, e : f = F /\ x = Size(F, b) + 1 /\ e = Enters(b)
      OBVIOUS
    <3>3. LaidOut(ir[F][b], f, b, x, e, 0)
      BY <1>7, <3>1, <3>2
    <3>4. Laid(f, b, x, e, 0)'
      BY <1>1, <2>1, <3>2, <3>3, LaidNext
    <3>5. f = F' /\ x = (Size(F, b) + 1)' /\ e = Enters(b)' /\ ~(b < bb')
      BY <1>1, <1>3, <3>1, <3>2 DEF Enters
    <3>6. 0 = (IF b < bb THEN Exits(F, b) ELSE 0)'
      BY <3>5
    <3> QED
      BY <3>4, <3>5, <3>6
  <2> QED
    BY <1>1, <1>3, <2>1, <2>2, <2>3, <2>5 DEF Instrumented
<1>9. CASE TraceCalls # << >>
  <2> DEFINE e == Enters(a)
             at == << a, Place(F, a, c + 1) >>
             call == CallPuts(Text(EventAt(F, a, Enters(a) + (c + 1))))
             p == InstrAt(Phis(F, a), Size(F, a), Place(F, a, c + 1), c, e, 0)
  <2>1. PICK off \in [ a .. z -> Int ] : Queued(off, a, c, z)
    BY <1>6 DEF Queue
  <2>2. a \in 1 .. Len(Code(F)) /\ c \in 0 .. Size(F, a) /\ Head(TraceCalls) = Prepare(F, a, c + 1)
    BY <1>4, <1>6, <1>9, <2>1, QueueFirst
  <2>3. PICK C : C = InsertAt(ir[F][a], p, call)
    OBVIOUS
  <2>4. PICK B : B = ir[F][a]
    OBVIOUS
  <2>5. LaidOut(B, F, a, c, e, 0)
    BY <1>7, <2>2, <2>4
  <2>6. /\ Size(F, a) \in Nat \ { 0 } /\ e \in 0 .. 1 /\ Place(F, a, c + 1) \in 1 .. Size(F, a)
        /\ c \in 0 .. Size(F, a) + 1
    BY <1>2, <2>2, LayoutNumbers DEF Place
  <2>7. FoundAt(B, at) = p
    <3>1. PICK m \in 1 .. Size(F, a) : m = Place(F, a, c + 1)
      BY <2>6
    <3>2. PICK r \in 0 .. 1 : r = 0
      OBVIOUS
    <3> HIDE DEF e
    <3>3. LaidOut(B, F, a, c, e, r) /\ (r = 1 => c = Size(F, a) + 1)
      BY <2>5, <3>2
    <3>4. FoundAt(B, << a, m >>) = InstrAt(Phis(F, a), Size(F, a), m, c, e, r)
      BY <1>2, <2>2, <2>6, <3>3, FoundById
    <3> QED
      BY <3>1, <3>2, <3>4
  <2>8. pc' = "insert" /\ TraceCalls' = Tail(TraceCalls) /\ ir' = [ ir EXCEPT ![F][a] = C ]
    <3>1. Head(TraceCalls).at = at /\ Head(TraceCalls).text = Text(EventAt(F, a, Enters(a) + (c + 1)))
          /\ Head(TraceCalls).at[1] = a
      BY <2>2 DEF Prepare
    <3>2. Before(B, at, call) = C
      BY <2>3, <2>4, <2>7 DEF Before, FoundAt
    <3>3. /\ ir' = [ ir EXCEPT ![F][Head(TraceCalls).at[1]] =
                       Before(ir[F][Head(TraceCalls).at[1]], Head(TraceCalls).at,
                              CallPuts(Head(TraceCalls).text)) ]
          /\ TraceCalls' = Tail(TraceCalls) /\ pc' = pc
      BY <1>9 DEF InsertPrepared
    <3>4. ir' = [ ir EXCEPT ![F][a] = Before(ir[F][a], at, call) ]
      BY <3>1, <3>3
    <3> QED
      BY <1>1, <2>4, <3>2, <3>3, <3>4
  <2>9. LaidOut(C, F, a, c + 1, e, 0)
    <3>1. PICK q : q = p
      OBVIOUS
    <3>2. C = InsertAt(B, q, call)
      BY <2>3, <2>4, <3>1
    <3> HIDE DEF e
    <3> QED
      BY <1>2, <2>2, <2>5, <2>6, <3>1, <3>2, InsertCall
  <2>10. IsChanged(a, C)
    BY <2>2, <2>8, BlockReplaced
  <2>11. PICK d, g : d = (IF c = Size(F, a) THEN a + 1 ELSE a) /\ g = (IF c = Size(F, a) THEN 0 ELSE c + 1)
    OBVIOUS
  <2>12. IsRow(TraceCalls') /\ Queue(d, g, z)'
    BY <1>1, <1>4, <1>6, <1>9, <2>8, <2>11, QueueShrinks
  <2>13. Shaped'
    BY <1>1, <1>2, <1>3, <2>8, <2>10, <2>12 DEF Shaped, IsChanged
  <2>14. /\ \A f \in 1 .. F - 1 : Traced(f)'
         /\ \A f \in F + 1 .. Len(program) : ir'[f] = Code(f)'
    BY <1>1, <2>10, OthersKept DEF IsChanged
  <2>15. InsertedUpTo(d, g)'
    <3>1. ASSUME NEW b \in 1 .. Len(Code(F))
          PROVE  \E k : k = ir'[F][b] /\
            LaidOut(k, F, b, IF b < d THEN Size(F, b) + 1 ELSE IF b = d THEN g ELSE 0, Enters(b), 0)
      <4>1. CASE b = a
        <5>1. c + 1 = IF b < d THEN Size(F, b) + 1 ELSE IF b = d THEN g ELSE 0
          BY <2>2, <2>6, <2>11, <4>1
        <5> QED
          BY <2>9, <2>10, <4>1, <5>1 DEF IsChanged
      <4>2. CASE b # a
        <5>1. ir'[F][b] = ir[F][b]
          BY <2>10, <4>2 DEF IsChanged
        <5>2. (IF b < d THEN Size(F, b) + 1 ELSE IF b = d THEN g ELSE 0)
                = IF b < a THEN Size(F, b) + 1 ELSE IF b = a THEN c ELSE 0
          BY <1>7, <2>11, <4>2
        <5> QED
          BY <1>7, <5>1, <5>2
      <4> QED
        BY <4>1, <4>2
    <3> QED
      BY <1>1, <3>1, InsertedNext
  <2>16. /\ d \in 1 .. (Len(Code(F)) + 1)' /\ g \in Nat
         /\ g <= IF d = (Len(Code(F)) + 1)' THEN 0 ELSE Size(F, d)'
    <3>1. CASE c = Size(F, a)
      <4>1. d = a + 1 /\ g = 0
        BY <2>11, <3>1
      <4>2. d \in 1 .. Len(Code(F)) + 1
        BY <1>3, <2>2, <4>1
      <4>3. d # Len(Code(F)) + 1 => Size(F, d) \in Nat
        <5> SUFFICES ASSUME d # Len(Code(F)) + 1 PROVE Size(F, d) \in Nat
          OBVIOUS
        <5>1. d \in 1 .. Len(Code(F))
          BY <1>3, <4>2
        <5> QED
          BY <1>2, <5>1, LayoutNumbers
      <4> QED
        BY <1>1, <1>3, <4>1, <4>2, <4>3
    <3>2. CASE c # Size(F, a)
      <4>1. d = a /\ g = c + 1 /\ d # Len(Code(F)) + 1
        BY <1>3, <2>2, <2>11, <3>2
      <4>2. g <= Size(F, d) /\ g \in Nat /\ d \in 1 .. Len(Code(F)) + 1
        BY <1>3, <2>2, <2>6, <3>2, <4>1
      <4> QED
        BY <1>1, <1>3, <4>1, <4>2
    <3> QED
      BY <3>1, <3>2
  <2>17. Queue(d, g, Len(Code(F)) + 1)'
    BY <1>1, <1>3, <1>4, <2>12
  <2> QED
    BY <1>1, <1>3, <1>5, <2>8, <2>13, <2>14, <2>15, <2>16, <2>17 DEF Instrumented
<1> QED
  BY <1>8, <1>9

(* The call of the exit stands before the return. *)
LEMMA ExitsKeep ==
  ASSUME Shaped, Instrumented, TraceExits
  PROVE  Shaped' /\ Instrumented'
<1>1. /\ pc = "end" /\ program' = program /\ TraceCalls' = TraceCalls
      /\ TraceCalls = << >> /\ trace' = trace
  BY DEF TraceExits, Instrumented
<1>2. /\ program \in Programs /\ F \in 1 .. Len(program) /\ bb \in 1 .. Len(Code(F))
      /\ IsRow(TraceCalls) /\ DOMAIN ir = 1 .. Len(program)
      /\ \A f \in 1 .. Len(program) : IsRow(ir[f]) /\ Len(ir[f]) = Len(Code(f))
      /\ Blocks = Len(Code(F))
  BY DEF Shaped, Blocks
<1>3. /\ Len(Code(F)) \in Nat \ { 0 } /\ Len(program) \in Nat /\ \A f : Code(f)' = Code(f)
      /\ \A f \in 1 .. Len(program) : Len(Code(f)) \in Nat \ { 0 }
  BY <1>1, <1>2, ProgramShape, Unchanging
<1>4. \A b \in 1 .. Len(Code(F)) :
        LaidOut(ir[F][b], F, b, Size(F, b) + 1, Enters(b), IF b < bb THEN Exits(F, b) ELSE 0)
  BY <1>1 DEF Instrumented, Laid
<1> DEFINE n == Size(F, bb)
           e == Enters(bb)
           h == Phis(F, bb)
<1>5. PICK B : B = ir[F][bb]
  OBVIOUS
<1>6. n \in Nat \ { 0 } /\ e \in 0 .. 1 /\ Exits(F, bb) \in 0 .. 1 /\ h \in 0 .. n - 1
  BY <1>2, LayoutNumbers
<1>7. LaidOut(B, F, bb, n + 1, e, 0)
  BY <1>2, <1>3, <1>4, <1>5
<1> HIDE DEF n, e, h
<1>8. /\ Len(B) = 2 * n + 1 + e /\ Len(B) \in 1 .. Len(B)
      /\ InstrAt(h, n, n, n + 1, e, 0) = Len(B)
  <2>1. Len(B) = n + (n + 1) + e + 0
    BY <1>7 DEF LaidOut, n
  <2> QED
    BY <1>6, <2>1 DEF InstrAt
<1>9. Last(B) = Code(F)[bb][n]
  <2>1. B[InstrAt(h, n, n, n + 1, e, 0)] = Code(F)[bb][n]
    BY <1>6, <1>7 DEF LaidOut, n, h
  <2> QED
    BY <1>8, <2>1 DEF Last
<1>10. Last(B).id = << bb, n >>
  <2>1. n \in 1 .. Size(F, bb)
    BY <1>6 DEF n
  <2> QED
    BY <1>2, <1>9, <2>1, BlockShape
<1>11. FoundAt(B, << bb, n >>) = Len(B)
  <2>1. PICK r \in 0 .. 1 : r = 0
    OBVIOUS
  <2>2. LaidOut(B, F, bb, n + 1, e, r) /\ (r = 1 => n + 1 = Size(F, bb) + 1) /\ n + 1 \in 0 .. Size(F, bb) + 1
        /\ n \in 1 .. Size(F, bb)
    BY <1>6, <1>7, <2>1 DEF n
  <2>3. FoundAt(B, << bb, n >>) = InstrAt(Phis(F, bb), Size(F, bb), n, n + 1, e, r)
    BY <1>2, <1>6, <2>2, FoundById
  <2> QED
    BY <1>8, <2>1, <2>3 DEF n, h
<1>12. PICK C : C = IF Last(B).op = "ret" THEN Before(B, Last(B).id, CallPuts(endFunction(F))) ELSE B
  OBVIOUS
<1>13. LaidOut(C, F, bb, n + 1, e, Exits(F, bb))
  <2>1. CASE Last(B).op = "ret"
    <3>1. C = InsertAt(B, Len(B), CallPuts(endFunction(F)))
      BY <1>10, <1>11, <1>12, <2>1 DEF Before, FoundAt
    <3>2. Exits(F, bb) = 1
      BY <1>9, <2>1 DEF Exits, n
    <3>3. LaidOut(B, F, bb, Size(F, bb) + 1, e, 0)
      BY <1>7 DEF n
    <3>4. LaidOut(C, F, bb, Size(F, bb) + 1, e, 1)
      BY <1>2, <1>6, <3>1, <3>3, InsertEnd
    <3> QED
      BY <3>2, <3>4 DEF n
  <2>2. CASE Last(B).op # "ret"
    <3>1. C = B /\ Exits(F, bb) = 0
      BY <1>9, <1>12, <2>2 DEF Exits, n
    <3> QED
      BY <1>7, <3>1
  <2> QED
    BY <2>1, <2>2
<1>14. ir' = [ ir EXCEPT ![F][bb] = C ]
  BY <1>5, <1>12 DEF TraceExits
<1>15. IsChanged(bb, C)
  BY <1>2, <1>14, BlockReplaced
<1>16. /\ \A f \in 1 .. F - 1 : Traced(f)'
       /\ \A f \in F + 1 .. Len(program) : ir'[f] = Code(f)'
  BY <1>1, <1>15, OthersKept DEF IsChanged
<1>17. ASSUME NEW f, f = F, NEW b \in 1 .. Len(Code(f)), NEW x, x = Size(f, b) + 1,
              NEW y, y = Enters(b), NEW r, r = IF b <= bb THEN Exits(f, b) ELSE 0
       PROVE  Laid(f, b, x, y, r)'
  <2>1. CASE b = bb
    <3>1. LaidOut(C, f, b, x, y, r) /\ C = ir'[f][b]
      BY <1>2, <1>13, <1>15, <1>17, <2>1 DEF IsChanged, n, e
    <3> QED
      BY <1>1, <3>1, LaidNext
  <2>2. CASE b # bb
    <3>1. ir'[f][b] = ir[f][b] /\ r = IF b < bb THEN Exits(f, b) ELSE 0
      BY <1>2, <1>15, <1>17, <2>2 DEF IsChanged
    <3>2. LaidOut(ir[f][b], f, b, x, y, r)
      BY <1>4, <1>17, <3>1
    <3> QED
      BY <1>1, <3>1, <3>2, LaidNext
  <2> QED
    BY <2>1, <2>2
<1>18. \A f, b : Size(f, b)' = Size(f, b) /\ Exits(f, b)' = Exits(f, b) /\ Enters(b)' = Enters(b)
  BY <1>1, Unchanging DEF Enters
<1>19. CASE bb < Blocks
  <2>1. bb' = bb + 1 /\ F' = F /\ pc' = "end"
    BY <1>1, <1>2, <1>3, <1>19 DEF TraceExits
  <2>2. Shaped'
    BY <1>1, <1>2, <1>3, <1>15, <1>19, <2>1 DEF Shaped, IsChanged
  <2>3. ASSUME NEW b \in 1 .. Len(Code(F))
        PROVE  Laid(F, b, Size(F, b) + 1, Enters(b), IF b < bb THEN Exits(F, b) ELSE 0)'
    <3>1. PICK f, x, y, r : f = F /\ x = Size(f, b) + 1 /\ y = Enters(b)
                            /\ r = IF b <= bb THEN Exits(f, b) ELSE 0
      OBVIOUS
    <3>2. Laid(f, b, x, y, r)'
      BY <1>17, <3>1
    <3>3. b <= bb <=> b < bb'
      BY <1>2, <1>3, <2>1
    <3>4. f = F' /\ x = (Size(F, b) + 1)' /\ y = Enters(b)'
      BY <1>18, <2>1, <3>1
    <3>5. r = (IF b < bb THEN Exits(F, b) ELSE 0)'
      BY <1>18, <2>1, <3>1, <3>3
    <3> QED
      BY <3>2, <3>4, <3>5
  <2> QED
    BY <1>1, <1>3, <1>16, <2>1, <2>2, <2>3 DEF Instrumented
<1>20. CASE ~(bb < Blocks)
  <2>1. bb = Blocks
    BY <1>2, <1>3, <1>20
  <2>2. PICK f : f = F
    OBVIOUS
  <2>3. Traced(f)'
    <3>1. ASSUME NEW b \in 1 .. Len(Code(f))
          PROVE  Laid(f, b, Size(f, b) + 1, Enters(b), Exits(f, b))'
      <4>1. PICK x, y, r : x = Size(f, b) + 1 /\ y = Enters(b) /\ r = Exits(f, b)
        OBVIOUS
      <4>2. b <= bb
        BY <1>2, <1>3, <2>1, <2>2
      <4>3. Laid(f, b, x, y, r)'
        BY <1>17, <2>2, <4>1, <4>2
      <4>4. x = (Size(f, b) + 1)' /\ y = Enters(b)' /\ r = Exits(f, b)'
        BY <1>18, <4>1
      <4> QED
        BY <4>3, <4>4
    <3> QED
      BY <1>3, <3>1 DEF Traced
  <2>4. \A g \in 1 .. F : Traced(g)'
    <3> TAKE g \in 1 .. F
    <3>1. g = f \/ g \in 1 .. F - 1
      BY <1>2, <1>3, <2>2
    <3> QED
      BY <1>16, <2>3, <3>1
  <2>5. CASE F < Len(program)
    <3>1. bb' = 1 /\ F' = F + 1 /\ pc' = "gather"
      BY <1>2, <1>3, <2>1, <2>5 DEF TraceExits
    <3>2. F + 1 \in 1 .. Len(program) /\ F + 1 \in F + 1 .. Len(program) /\ F' - 1 = F
      BY <1>2, <1>3, <2>5, <3>1
    <3>3. Shaped'
      BY <1>1, <1>2, <1>3, <1>15, <3>1, <3>2 DEF Shaped, IsChanged
    <3>4. ir'[F'] = Code(F)'
      BY <1>16, <3>1, <3>2
    <3>5. \A g \in F' + 1 .. Len(program) : ir'[g] = Code(g)'
      <4> TAKE g \in F' + 1 .. Len(program)
      <4>1. g \in F + 1 .. Len(program)
        BY <1>2, <1>3, <3>1
      <4> QED
        BY <1>16, <4>1
    <3>6. Queue(1, 0, bb)'
      <4>1. PICK off : off = [ b \in 1 .. 1 |-> 0 ]
        OBVIOUS
      <4>2. off \in [ 1 .. 1 -> Int ] /\ off[1] = 0
        BY <4>1
      <4>3. Len(TraceCalls') = 0
        BY <1>1, EmptyRow
      <4>4. (1 .. 0) = {} /\ \A b, d \in 1 .. 1 : ~(b < d)
        OBVIOUS
      <4>5. PICK z : z = 1 /\ z - 1 = 0
        OBVIOUS
      <4>6. Queued(off, 1, 0, z)'
        BY <4>2, <4>3, <4>4, <4>5 DEF Queued
      <4> QED
        BY <3>1, <4>2, <4>5, <4>6 DEF Queue
    <3> QED
      BY <1>1, <2>4, <3>1, <3>2, <3>3, <3>4, <3>5, <3>6 DEF Instrumented
  <2>6. CASE ~(F < Len(program))
    <3>1. F = Len(program)
      BY <1>2, <1>3, <2>6
    <3>2. bb' = bb /\ F' = F /\ pc' = "run"
      BY <1>2, <1>3, <2>1, <3>1 DEF TraceExits
    <3>3. Shaped'
      BY <1>1, <1>2, <1>3, <1>15, <3>2 DEF Shaped, IsChanged
    <3> QED
      BY <1>1, <1>2, <1>3, <2>4, <3>1, <3>2, <3>3 DEF Instrumented
  <2> QED
    BY <2>5, <2>6
<1> QED
  BY <1>19, <1>20

(* Before the pass. *)
LEMMA ShapeBegins ==
  ASSUME Init
  PROVE  Shaped /\ Instrumented
<1>1. /\ program \in Programs /\ ir = [ f \in 1 .. Len(program) |-> program[f].blocks ]
      /\ F = 1 /\ bb = 1 /\ TraceCalls = << >> /\ pc = "gather"
  BY DEF Init, TraceGenInit
<1>2. /\ Len(program) \in Nat \ { 0 }
      /\ \A f \in 1 .. Len(program) : IsRow(Code(f)) /\ Len(Code(f)) \in Nat \ { 0 }
  BY <1>1, ProgramShape
<1>3. DOMAIN ir = 1 .. Len(program) /\ \A f \in 1 .. Len(program) : ir[f] = Code(f)
  BY <1>1 DEF Code
<1>4. F \in 1 .. Len(program) /\ bb \in 1 .. Len(Code(F))
  BY <1>1, <1>2
<1>5. Queue(1, 0, 1)
  <2>1. PICK off : off = [ b \in 1 .. 1 |-> 0 ]
    OBVIOUS
  <2>2. off \in [ 1 .. 1 -> Int ] /\ off[1] = 0
    BY <2>1
  <2>3. Len(TraceCalls) = 0
    BY <1>1, EmptyRow
  <2>4. (1 .. 0) = {} /\ \A b, d \in 1 .. 1 : ~(b < d)
    OBVIOUS
  <2>5. PICK z : z = 1 /\ z - 1 = 0
    OBVIOUS
  <2>6. Queued(off, 1, 0, z)
    BY <2>2, <2>3, <2>4, <2>5 DEF Queued
  <2> QED
    BY <2>2, <2>5, <2>6 DEF Queue
<1>6. \A f \in 1 .. F - 1 : FALSE
  BY <1>1
<1>7. Shaped
  BY <1>1, <1>2, <1>3, <1>4, EmptyRow DEF Shaped
<1> QED
  BY <1>1, <1>2, <1>3, <1>4, <1>5, <1>6, <1>7 DEF Instrumented

(* The run and the script leave the code alone. *)
LEMMA ShapeStays ==
  ASSUME Shaped, Instrumented, pc \in { "run", "ended", "analyze" }, pc' \in { "run", "ended", "analyze" },
         program' = program, UNCHANGED passVars
  PROVE  Shaped' /\ Instrumented'
<1>1. ir' = ir /\ F' = F /\ bb' = bb /\ TraceCalls' = TraceCalls
  BY DEF passVars
<1>2. \A f : Code(f)' = Code(f)
  BY Unchanging
<1>3. Shaped'
  BY <1>1, <1>2 DEF Shaped
<1>4. \A f \in 1 .. Len(program) : Traced(f)'
  BY <1>1, TracedStays DEF Instrumented
<1>5. TraceCalls' = << >>
  BY <1>1 DEF Instrumented
<1>6. \A f \in 1 .. Len(program') : Traced(f)'
  BY <1>4
<1>7. \A f \in F' + 1 .. Len(program') : f \in 1 .. Len(program')
  <2>1. F \in 1 .. Len(program) /\ Len(program) \in Nat
    BY ProgramShape DEF Shaped
  <2>2. ASSUME NEW x, NEW l \in Nat, x \in 1 .. l PROVE \A f \in x + 1 .. l : f \in 1 .. l
    BY <2>2
  <2> QED
    BY <1>1, <2>1, <2>2
<1> QED
  BY <1>3, <1>5, <1>6, <1>7 DEF Instrumented

-----------------------------------------------------------------------------
(* Places in a block                                                       *)

(* Where a run can be in a block, and how far its two histories can be apart. *)
LEMMA SpotBounds ==
  ASSUME NEW n \in Nat \ { 0 }, NEW h \in 0 .. n - 1, NEW e \in 0 .. 1, NEW r \in 0 .. 1,
         NEW p, NEW j, NEW k, Spot(h, n, e, r, p, j, k)
  PROVE  j \in Nat /\ k \in Nat /\ k <= j + 2 /\ p \in 1 .. 2 * n + 1 + e + r
<1>1. CASE PhiSpot(h, e, p, j, k)
  BY <1>1 DEF PhiSpot
<1>2. CASE BeginSpot(h, e, p, j, k)
  BY <1>2 DEF BeginSpot
<1>3. CASE CallSpot(h, n, e, p, j, k)
  BY <1>3 DEF CallSpot, CallAt
<1>4. CASE EndSpot(n, e, r, p, j, k)
  BY <1>4 DEF EndSpot
<1>5. CASE InstrSpot(h, n, e, r, p, j, k)
  <2>1. PICK m \in h + 1 .. n, x \in 0 .. r :
          /\ m # n => x = 0
          /\ p = 2 * m + 1 + e + x /\ j = e + m /\ k = e + 1 + m + x
    BY <1>5 DEF InstrSpot
  <2> QED
    BY <2>1
<1> QED
  BY <1>1, <1>2, <1>3, <1>4, <1>5 DEF Spot, PutsSpot

(* What follows a line that is written, ...                                *)
LEMMA SpotAfterPuts ==
  ASSUME NEW n \in Nat \ { 0 }, NEW h \in 0 .. n - 1, NEW e \in 0 .. 1, NEW r \in 0 .. 1,
         NEW p, NEW j, NEW k, PutsSpot(h, n, e, r, p, j, k)
  PROVE  Spot(h, n, e, r, p + 1, j, k + 1)
<1>1. CASE BeginSpot(h, e, p, j, k)
  <2>1. CallSpot(h, n, e, p + 1, j, k + 1)
    <3>1. 1 \in 1 .. n + 1 /\ p + 1 = CallAt(h, 1, e) /\ k + 1 = e + 1 - 1
          /\ j = e + 1 + IF 1 <= h + 1 THEN h ELSE 1 - 2
      BY <1>1 DEF BeginSpot, CallAt
    <3> QED
      BY <3>1 DEF CallSpot
  <2> QED
    BY <2>1 DEF Spot, PutsSpot
<1>2. CASE EndSpot(n, e, r, p, j, k)
  <2>1. InstrSpot(h, n, e, r, p + 1, j, k + 1)
    <3>1. n \in h + 1 .. n /\ p + 1 = 2 * n + 1 + e + r /\ j = e + n /\ k + 1 = e + 1 + n + r
      BY <1>2 DEF EndSpot
    <3> QED
      BY <3>1 DEF InstrSpot
  <2> QED
    BY <2>1 DEF Spot
<1>3. CASE CallSpot(h, n, e, p, j, k)
  <2>1. PICK i \in 1 .. n + 1 :
          /\ p = CallAt(h, i, e)
          /\ j = e + 1 + IF i <= h + 1 THEN h ELSE i - 2
          /\ k = e + i - 1
    BY <1>3 DEF CallSpot
  <2>2. CASE i <= h + 1
    <3>1. i + 1 \in 1 .. n + 1 /\ p + 1 = CallAt(h, i + 1, e) /\ k + 1 = e + (i + 1) - 1
          /\ j = e + 1 + IF i + 1 <= h + 1 THEN h ELSE (i + 1) - 2
      BY <2>1, <2>2 DEF CallAt
    <3>2. CallSpot(h, n, e, p + 1, j, k + 1)
      BY <3>1 DEF CallSpot
    <3> QED
      BY <3>2 DEF Spot, PutsSpot
  <2>3. CASE i > h + 1 /\ ~(i = n + 1 /\ r = 1)
    <3> DEFINE m == i - 1
    <3>1. /\ m \in h + 1 .. n /\ (m = n => r = 0)
          /\ p + 1 = 2 * m + 1 + e + 0 /\ j = e + m /\ k + 1 = e + 1 + m + 0
      BY <2>1, <2>3 DEF CallAt
    <3> HIDE DEF m
    <3>2. InstrSpot(h, n, e, r, p + 1, j, k + 1)
      BY <3>1 DEF InstrSpot
    <3> QED
      BY <3>2 DEF Spot
  <2>4. CASE i = n + 1 /\ r = 1
    <3>1. EndSpot(n, e, r, p + 1, j, k + 1)
      BY <2>1, <2>4 DEF EndSpot, CallAt
    <3> QED
      BY <3>1 DEF Spot, PutsSpot
  <2> QED
    BY <2>2, <2>3, <2>4
<1> QED
  BY <1>1, <1>2, <1>3 DEF PutsSpot

(* ... a phi node ...                                                      *)
LEMMA SpotAfterPhi ==
  ASSUME NEW n \in Nat \ { 0 }, NEW h \in 0 .. n - 1, NEW e \in 0 .. 1, NEW r \in 0 .. 1,
         NEW p, NEW j, NEW k, PhiSpot(h, e, p, j, k), e = 1 => h = 0
  PROVE  Spot(h, n, e, r, p + 1, j + 1, k)
<1>1. e = 0 /\ p \in 1 .. h /\ j = p /\ k = 0
  BY DEF PhiSpot
<1>2. CASE p < h
  <2>1. PhiSpot(h, e, p + 1, j + 1, k)
    BY <1>1, <1>2 DEF PhiSpot
  <2> QED
    BY <2>1 DEF Spot
<1>3. CASE p = h
  <2>1. 1 \in 1 .. n + 1 /\ p + 1 = CallAt(h, 1, e) /\ k = e + 1 - 1
        /\ j + 1 = e + 1 + IF 1 <= h + 1 THEN h ELSE 1 - 2
    BY <1>1, <1>3 DEF CallAt
  <2>2. CallSpot(h, n, e, p + 1, j + 1, k)
    BY <2>1 DEF CallSpot
  <2> QED
    BY <2>2 DEF Spot, PutsSpot
<1> QED
  BY <1>1, <1>2, <1>3

(* ... and another instruction: everything is told, and a function that was*)
(* called can return there.                                                *)
LEMMA SpotAfterInstr ==
  ASSUME NEW n \in Nat \ { 0 }, NEW h \in 0 .. n - 1, NEW e \in 0 .. 1, NEW r \in 0 .. 1,
         NEW m \in h + 1 .. n - 1
  PROVE  /\ WaitSpot(h, n, e, 2 * m + 1 + e + 1)
         /\ Spot(h, n, e, r, 2 * m + 1 + e + 1, e + m + 1, e + m + 1)
<1>1. WaitSpot(h, n, e, 2 * m + 1 + e + 1)
  <2>1. 2 * m + 1 + e + 1 = 2 * m + 2 + e
    OBVIOUS
  <2> QED
    BY <2>1 DEF WaitSpot
<1>2. CallSpot(h, n, e, 2 * m + 1 + e + 1, e + m + 1, e + m + 1)
  <2>1. /\ m + 2 \in 1 .. n + 1 /\ 2 * m + 1 + e + 1 = CallAt(h, m + 2, e)
        /\ e + m + 1 = e + 1 + IF m + 2 <= h + 1 THEN h ELSE (m + 2) - 2
        /\ e + m + 1 = e + (m + 2) - 1
    BY DEF CallAt
  <2> QED
    BY <2>1 DEF CallSpot
<1> QED
  BY <1>1, <1>2 DEF Spot, PutsSpot

(* A function that waits for another can go on. *)
LEMMA SpotOfWaiting ==
  ASSUME NEW n \in Nat \ { 0 }, NEW h \in 0 .. n - 1, NEW e \in 0 .. 1, NEW r \in 0 .. 1,
         NEW p, WaitSpot(h, n, e, p)
  PROVE  p \in 1 .. 2 * n + 1 + e + r /\ \E j \in Nat : Spot(h, n, e, r, p, j, j)
<1>1. PICK m \in h + 1 .. n - 1 : p = 2 * m + 1 + e + 1
  BY DEF WaitSpot
<1>2. Spot(h, n, e, r, p, e + m + 1, e + m + 1)
  BY <1>1, SpotAfterInstr
<1>3. e + m + 1 \in Nat /\ p \in 1 .. 2 * n + 1 + e + r
  BY <1>1
<1> QED
  BY <1>2, <1>3

(* The first place of a block. *)
LEMMA SpotAtEntry ==
  ASSUME NEW n \in Nat \ { 0 }, NEW h \in 0 .. n - 1, NEW e \in 0 .. 1, NEW r \in 0 .. 1, e = 1 => h = 0
  PROVE  Spot(h, n, e, r, 1, e + 1, 0)
<1>1. CASE h > 0
  <2>1. PhiSpot(h, e, 1, e + 1, 0)
    BY <1>1 DEF PhiSpot
  <2> QED
    BY <2>1 DEF Spot
<1>2. CASE e = 1
  <2>1. BeginSpot(h, e, 1, e + 1, 0)
    BY <1>2 DEF BeginSpot
  <2> QED
    BY <2>1 DEF Spot, PutsSpot
<1>3. CASE h = 0 /\ e = 0
  <2>1. 1 \in 1 .. n + 1 /\ 1 = CallAt(h, 1, e) /\ 0 = e + 1 - 1
        /\ e + 1 = e + 1 + IF 1 <= h + 1 THEN h ELSE 1 - 2
    BY <1>3 DEF CallAt
  <2>2. CallSpot(h, n, e, 1, e + 1, 0)
    BY <2>1 DEF CallSpot
  <2> QED
    BY <2>2 DEF Spot, PutsSpot
<1> QED
  BY <1>1, <1>2, <1>3

-----------------------------------------------------------------------------
(* What stands at a place                                                  *)

EventOfInstr(f, b, m) == << "instr", f, << b, m >> >>

(* The events of a block by the names of the run. *)
LEMMA InstrEvents ==
  ASSUME program \in Programs, NEW f \in 1 .. Len(program), NEW b \in 1 .. Len(Code(f)),
         NEW m \in 1 .. Size(f, b)
  PROVE  /\ EventAt(f, b, Enters(b) + m + 1) = EventOfInstr(f, b, m)
         /\ Text(EventAt(f, b, Enters(b) + 1)) = Text(<< "bb", f, b >>)
         /\ Text(EventAt(f, b, Enters(b) + Size(f, b) + 2)) = endFunction(f)
<1>1. Size(f, b) \in Nat /\ Enters(b) \in 0 .. 1
  BY LayoutNumbers
<1> QED
  BY <1>1 DEF EventAt, EventOfInstr, Text

(* I, at position p with j events executed, is the phi node p of its block. *)
IsPhi(I, f, b, p, j) ==
  /\ p \in 1 .. Phis(f, b)
  /\ I = Code(f)[b][p]
  /\ EventAt(f, b, j + 1) = EventOfInstr(f, b, p)

(* Before a phi node stands that node, ... *)
LEMMA CodeAtPhi ==
  ASSUME program \in Programs, NEW f \in 1 .. Len(program), NEW b \in 1 .. Len(Code(f)),
         NEW B, LaidOut(B, f, b, Size(f, b) + 1, Enters(b), Exits(f, b)),
         NEW p, NEW j, NEW k, PhiSpot(Phis(f, b), Enters(b), p, j, k)
  PROVE  IsPhi(B[p], f, b, p, j)
<1> DEFINE n == Size(f, b)
           h == Phis(f, b)
           e == Enters(b)
<1>1. n \in Nat \ { 0 } /\ h \in 0 .. n - 1 /\ e \in 0 .. 1
  BY LayoutNumbers
<1>2. p \in 1 .. h /\ j = e + p
  BY DEF PhiSpot
<1>3. p \in 1 .. n
  BY <1>1, <1>2
<1>4. B[InstrAt(h, n, p, n + 1, e, Exits(f, b))] = Code(f)[b][p]
  BY <1>3 DEF LaidOut
<1>5. EventAt(f, b, e + p + 1) = EventOfInstr(f, b, p)
  BY <1>3, InstrEvents
<1>6. B[p] = Code(f)[b][p]
  BY <1>2, <1>4 DEF InstrAt
<1>7. EventAt(f, b, j + 1) = EventOfInstr(f, b, p)
  BY <1>2, <1>5
<1> QED
  BY <1>2, <1>6, <1>7 DEF IsPhi

(* ... where a line is due, the call that writes it, ... *)
LEMMA CodeAtPuts ==
  ASSUME program \in Programs, NEW f \in 1 .. Len(program), NEW b \in 1 .. Len(Code(f)),
         NEW B, LaidOut(B, f, b, Size(f, b) + 1, Enters(b), Exits(f, b)),
         NEW p, NEW j, NEW k,
         PutsSpot(Phis(f, b), Size(f, b), Enters(b), Exits(f, b), p, j, k)
  PROVE  B[p] = CallPuts(Text(EventAt(f, b, k + 1)))
<1> DEFINE n == Size(f, b)
           h == Phis(f, b)
           e == Enters(b)
           r == Exits(f, b)
<1>1. n \in Nat \ { 0 } /\ h \in 0 .. n - 1 /\ e \in 0 .. 1 /\ r \in 0 .. 1
  BY LayoutNumbers
<1>2. /\ Len(B) = n + (n + 1) + e + r
      /\ \A i \in 1 .. n + 1 : B[CallAt(h, i, e)] = CallPuts(Text(EventAt(f, b, e + i)))
      /\ e = 1 => B[h + 1] = CallPuts(beginFunction(f))
      /\ r = 1 => B[Len(B) - 1] = CallPuts(endFunction(f))
  BY DEF LaidOut
<1>3. CASE BeginSpot(h, e, p, j, k)
  <2>1. e = 1 /\ p = h + 1 /\ k = 0
    BY <1>3 DEF BeginSpot
  <2>2. EventAt(f, b, 1) = << "begin", f >>
    BY <2>1 DEF EventAt
  <2>3. Text(<< "begin", f >>) = beginFunction(f)
    BY DEF Text
  <2> QED
    BY <1>2, <2>1, <2>2, <2>3
<1>4. CASE CallSpot(h, n, e, p, j, k)
  <2>1. PICK i \in 1 .. n + 1 : p = CallAt(h, i, e) /\ k = e + i - 1
    BY <1>4 DEF CallSpot
  <2>2. B[CallAt(h, i, e)] = CallPuts(Text(EventAt(f, b, e + i)))
    BY <1>2
  <2>3. PICK x : x = k + 1 /\ x = e + i
    BY <1>1, <2>1
  <2>4. B[p] = CallPuts(Text(EventAt(f, b, x)))
    BY <2>1, <2>2, <2>3
  <2> QED
    BY <2>3, <2>4
<1>5. CASE EndSpot(n, e, r, p, j, k)
  <2>1. r = 1 /\ p = 2 * n + 1 + e /\ k + 1 = e + n + 2
    <3>1. r = 1 /\ p = 2 * n + 1 + e /\ k = e + 1 + n
      BY <1>5 DEF EndSpot
    <3> HIDE DEF n, h, e, r
    <3>2. k + 1 = e + n + 2
      BY <1>1, <3>1
    <3> QED
      BY <3>1, <3>2
  <2>2. Text(EventAt(f, b, e + n + 2)) = endFunction(f)
    <3>1. n \in 1 .. Size(f, b)
      BY <1>1
    <3> QED
      BY <3>1, InstrEvents
  <2> HIDE DEF n, h, e, r
  <2>3. Len(B) - 1 = p
    <3>1. Len(B) = n + (n + 1) + e + r
      BY <1>2
    <3> QED
      BY <1>1, <2>1, <3>1
  <2> QED
    BY <1>2, <2>1, <2>2, <2>3
<1> QED
  BY <1>3, <1>4, <1>5 DEF PutsSpot

IsInstr(I, f, b, p, j, k) ==
  \E m \in Phis(f, b) + 1 .. Size(f, b) :
    /\ I = Code(f)[b][m]
    /\ j = Enters(b) + m
    /\ m # Size(f, b) => p = 2 * m + 1 + Enters(b) /\ k = j + 1
    /\ m = Size(f, b) => k = j + 1 + Exits(f, b)

(* ... and everywhere else that instruction. *)
LEMMA CodeAtInstr ==
  ASSUME program \in Programs, NEW f \in 1 .. Len(program), NEW b \in 1 .. Len(Code(f)),
         NEW B, LaidOut(B, f, b, Size(f, b) + 1, Enters(b), Exits(f, b)),
         NEW p, NEW j, NEW k,
         InstrSpot(Phis(f, b), Size(f, b), Enters(b), Exits(f, b), p, j, k)
  PROVE  IsInstr(B[p], f, b, p, j, k)
<1> DEFINE n == Size(f, b)
           h == Phis(f, b)
           e == Enters(b)
           r == Exits(f, b)
<1>1. n \in Nat \ { 0 } /\ h \in 0 .. n - 1 /\ e \in 0 .. 1 /\ r \in 0 .. 1
  BY LayoutNumbers
<1>2. PICK m \in h + 1 .. n : LET x == IF m = n THEN r ELSE 0
                              IN  p = 2 * m + 1 + e + x /\ j = e + m /\ k = e + 1 + m + x
  BY DEF InstrSpot
<1>3. B[InstrAt(h, n, m, n + 1, e, r)] = Code(f)[b][m]
  <2>1. m \in 1 .. n
    BY <1>1
  <2> QED
    BY <2>1 DEF LaidOut
<1> HIDE DEF n, h, e, r
<1>4. InstrAt(h, n, m, n + 1, e, r) = p
  BY <1>1, <1>2 DEF InstrAt
<1>5. /\ m # n => p = 2 * m + 1 + e /\ k = j + 1
      /\ m = n => k = j + 1 + r
  BY <1>1, <1>2
<1> QED
  BY <1>2, <1>3, <1>4, <1>5 DEF n, h, e, r, IsInstr

-----------------------------------------------------------------------------
(* The history                                                             *)

(* The next event of the block happens. *)
LEMMA EventHappens ==
  ASSUME NEW t, NEW r, IsRow(t), IsRow(r), Agree(t, r), NEW f, NEW b, NEW j \in Nat, NEW k \in Nat,
         Told(t, r, f, b, j, k), NEW u, u = Append(r, EventAt(f, b, j + 1))
  PROVE  IsRow(u) /\ Agree(t, u) /\ Told(t, u, f, b, j + 1, k) /\ Len(u) = Len(r) + 1
<1> DEFINE x == EventAt(f, b, j + 1)
<1>1. IsAppended(u, r, x)
  BY RowAppend
<1>2. PICK lt \in Nat, lr \in Nat : lt = Len(t) /\ lr = Len(r)
  BY DEF IsRow
<1>3. IsRow(u) /\ Len(u) = lr + 1 /\ u[lr + 1] = x /\ \A n \in 1 .. lr : u[n] = r[n]
  BY <1>1, <1>2 DEF IsAppended
<1>4. /\ lr - lt = j - k
      /\ \A n \in k + 1 .. j : r[lt - k + n] = EventAt(f, b, n)
      /\ \A n \in j + 1 .. k : t[lr - j + n] = Text(EventAt(f, b, n))
  BY <1>2 DEF Told
<1>5. \A n \in 1 .. lt : n <= lr => t[n] = Text(r[n])
  BY <1>2 DEF Agree
<1>6. Agree(t, u)
  <2> SUFFICES ASSUME NEW n \in 1 .. lt, n <= lr + 1 PROVE t[n] = Text(u[n])
    BY <1>2, <1>3 DEF Agree
  <2>1. CASE n <= lr
    BY <1>3, <1>5, <2>1
  <2>2. CASE n = lr + 1
    <3>1. j + 1 \in j + 1 .. k /\ lr - j + (j + 1) = n
      BY <1>4, <2>2
    <3> QED
      BY <1>3, <1>4, <2>2, <3>1
  <2> QED
    BY <1>2, <2>1, <2>2
<1>7. Told(t, u, f, b, j + 1, k)
  <2>1. \A n \in k + 1 .. j + 1 : u[lt - k + n] = EventAt(f, b, n)
    <3> TAKE n \in k + 1 .. j + 1
    <3>1. CASE n = j + 1
      <4>1. lt - k + n = lr + 1
        BY <1>4, <3>1
      <4> QED
        BY <1>3, <3>1, <4>1
    <3>2. CASE n # j + 1
      <4>1. n \in k + 1 .. j /\ lt - k + n \in 1 .. lr
        BY <1>4, <3>2
      <4> QED
        BY <1>3, <1>4, <4>1
    <3> QED
      BY <3>1, <3>2
  <2>2. \A n \in (j + 1) + 1 .. k : t[(lr + 1) - (j + 1) + n] = Text(EventAt(f, b, n))
    <3> TAKE n \in (j + 1) + 1 .. k
    <3>1. n \in j + 1 .. k /\ (lr + 1) - (j + 1) + n = lr - j + n
      OBVIOUS
    <3> QED
      BY <1>4, <3>1
  <2>3. (lr + 1) - lt = (j + 1) - k
    BY <1>4
  <2>4. Len(u) = lr + 1
    BY <1>3
  <2> HIDE DEF x
  <2> QED
    BY <1>2, <2>1, <2>2, <2>3, <2>4 DEF Told
<1> QED
  BY <1>2, <1>3, <1>6, <1>7

(* The next line of the block is written. *)
LEMMA LineWritten ==
  ASSUME NEW t, NEW r, IsRow(t), IsRow(r), Agree(t, r), NEW f, NEW b, NEW j \in Nat, NEW k \in Nat,
         Told(t, r, f, b, j, k), NEW u, u = Append(t, Text(EventAt(f, b, k + 1)))
  PROVE  IsRow(u) /\ Agree(u, r) /\ Told(u, r, f, b, j, k + 1) /\ Len(u) = Len(t) + 1
<1> DEFINE x == Text(EventAt(f, b, k + 1))
<1>1. IsAppended(u, t, x)
  BY RowAppend
<1>2. PICK lt \in Nat, lr \in Nat : lt = Len(t) /\ lr = Len(r)
  BY DEF IsRow
<1>3. IsRow(u) /\ Len(u) = lt + 1 /\ u[lt + 1] = x /\ \A n \in 1 .. lt : u[n] = t[n]
  BY <1>1, <1>2 DEF IsAppended
<1>4. /\ lr - lt = j - k
      /\ \A n \in k + 1 .. j : r[lt - k + n] = EventAt(f, b, n)
      /\ \A n \in j + 1 .. k : t[lr - j + n] = Text(EventAt(f, b, n))
  BY <1>2 DEF Told
<1>5. \A n \in 1 .. lt : n <= lr => t[n] = Text(r[n])
  BY <1>2 DEF Agree
<1>6. Agree(u, r)
  <2> SUFFICES ASSUME NEW n \in 1 .. lt + 1, n <= lr PROVE u[n] = Text(r[n])
    BY <1>2, <1>3 DEF Agree
  <2>1. CASE n <= lt
    BY <1>3, <1>5, <2>1
  <2>2. CASE n = lt + 1
    <3>1. k + 1 \in k + 1 .. j /\ lt - k + (k + 1) = n
      BY <1>4, <2>2
    <3> QED
      BY <1>3, <1>4, <2>2, <3>1
  <2> QED
    BY <1>2, <2>1, <2>2
<1>7. Told(u, r, f, b, j, k + 1)
  <2>1. \A n \in j + 1 .. k + 1 : u[lr - j + n] = Text(EventAt(f, b, n))
    <3> TAKE n \in j + 1 .. k + 1
    <3>1. CASE n = k + 1
      <4>1. lr - j + n = lt + 1
        BY <1>4, <3>1
      <4> QED
        BY <1>3, <3>1, <4>1
    <3>2. CASE n # k + 1
      <4>1. n \in j + 1 .. k /\ lr - j + n \in 1 .. lt
        BY <1>4, <3>2
      <4> QED
        BY <1>3, <1>4, <4>1
    <3> QED
      BY <3>1, <3>2
  <2>2. \A n \in (k + 1) + 1 .. j : r[(lt + 1) - (k + 1) + n] = EventAt(f, b, n)
    <3> TAKE n \in (k + 1) + 1 .. j
    <3>1. n \in k + 1 .. j /\ (lt + 1) - (k + 1) + n = lt - k + n
      OBVIOUS
    <3> QED
      BY <1>4, <3>1
  <2>3. lr - (lt + 1) = j - (k + 1)
    BY <1>4
  <2>4. Len(u) = lt + 1
    BY <1>3
  <2> HIDE DEF x
  <2> QED
    BY <1>2, <2>1, <2>2, <2>3, <2>4 DEF Told
<1> QED
  BY <1>2, <1>3, <1>6, <1>7

(* When both have the same length nothing is left to tell. *)
LEMMA NothingLeft ==
  ASSUME NEW t, NEW r, IsRow(t), IsRow(r), NEW f, NEW b, NEW j \in Nat
  PROVE  Len(t) = Len(r) <=> Told(t, r, f, b, j, j)
<1>1. PICK lt \in Nat, lr \in Nat : lt = Len(t) /\ lr = Len(r)
  BY DEF IsRow
<1>2. \A n \in j + 1 .. j : FALSE
  OBVIOUS
<1> QED
  BY <1>1, <1>2 DEF Told

(* Two elements appended, ... *)
LEMMA RowTwo ==
  ASSUME NEW s, IsRow(s), NEW x, NEW y
  PROVE  s \o << x, y >> = Append(Append(s, x), y)
<1> DEFINE S == { s[j] : j \in 1 .. Len(s) } \cup { x, y }
<1>1. s \in Seq(S)
  <2>1. Len(s) \in Nat /\ s = [ j \in 1 .. Len(s) |-> s[j] ]
    BY DEF IsRow
  <2>2. \A j \in 1 .. Len(s) : s[j] \in S
    OBVIOUS
  <2> HIDE DEF S
  <2> QED
    BY <2>1, <2>2
<1>2. x \in S /\ y \in S
  OBVIOUS
<1> HIDE DEF S
<1> QED
  BY <1>1, <1>2

(* ... and three. *)
LEMMA RowThree ==
  ASSUME NEW s, IsRow(s), NEW x, NEW y, NEW z
  PROVE  s \o << x, y, z >> = Append(Append(Append(s, x), y), z)
<1> DEFINE S == { s[j] : j \in 1 .. Len(s) } \cup { x, y, z }
<1>1. s \in Seq(S)
  <2>1. Len(s) \in Nat /\ s = [ j \in 1 .. Len(s) |-> s[j] ]
    BY DEF IsRow
  <2>2. \A j \in 1 .. Len(s) : s[j] \in S
    OBVIOUS
  <2> HIDE DEF S
  <2> QED
    BY <2>1, <2>2
<1>2. x \in S /\ y \in S /\ z \in S
  OBVIOUS
<1> HIDE DEF S
<1> QED
  BY <1>1, <1>2

-----------------------------------------------------------------------------
(* The run                                                                 *)

(* What depends on nothing but the program stays. *)
LEMMA RunUnchanging ==
  ASSUME program' = program
  PROVE  /\ \A g, j, k : Progress(g, j, k)' <=> Progress(g, j, k)
         /\ \A fs : IsStack(fs)' <=> IsStack(fs)
         /\ \A t, r : Agree(t, r)' <=> Agree(t, r)
         /\ \A t, r, f, b, j, k : Told(t, r, f, b, j, k)' <=> Told(t, r, f, b, j, k)
<1>1. /\ \A f : Code(f)' = Code(f)
      /\ \A f, b : Size(f, b)' = Size(f, b) /\ Phis(f, b)' = Phis(f, b) /\ Exits(f, b)' = Exits(f, b)
      /\ \A e : Text(e)' = Text(e)
  BY Unchanging
<1>2. \A f, b, j : EventAt(f, b, j)' = EventAt(f, b, j)
  BY <1>1 DEF EventAt
<1>3. ASSUME NEW g, NEW j, NEW k PROVE Progress(g, j, k)' <=> Progress(g, j, k)
  BY <1>1 DEF Progress
<1>4. ASSUME NEW g PROVE (Waits(g)' <=> Waits(g)) /\ (IsFrame(g)' <=> IsFrame(g))
  BY <1>1 DEF Waits, IsFrame
<1>5. ASSUME NEW fs PROVE IsStack(fs)' <=> IsStack(fs)
  BY <1>4 DEF IsStack
<1>6. ASSUME NEW t, NEW r PROVE Agree(t, r)' <=> Agree(t, r)
  <2>1. \A n : Text(r[n])' = Text(r[n])
    BY <1>1
  <2> QED
    BY <2>1 DEF Agree
<1>7. ASSUME NEW t, NEW r, NEW f, NEW b, NEW j, NEW k
      PROVE  Told(t, r, f, b, j, k)' <=> Told(t, r, f, b, j, k)
  <2>1. ASSUME NEW n PROVE Text(EventAt(f, b, n))' = Text(EventAt(f, b, n))
    <3>1. PICK x : x = EventAt(f, b, n)
      OBVIOUS
    <3>2. x = EventAt(f, b, n)' /\ Text(x)' = Text(x)
      BY <1>1, <1>2, <3>1
    <3> QED
      BY <3>1, <3>2
  <2> QED
    BY <1>2, <2>1 DEF Told
<1> QED
  BY <1>3, <1>5, <1>6, <1>7

(* The invariant of the run in the next state. *)
LEMMA ReportedNext ==
  ASSUME program' = program, pc' = "run", NEW fs, fs = frames', NEW t, t = trace', NEW r, r = ran',
         IsRow(t), IsRow(r), Len(t) <= MaxLog, IsStack(fs), Agree(t, r),
         NEW g, g = Last(fs), NEW j \in Nat, NEW k \in Nat, Progress(g, j, k),
         Told(t, r, g.f, g.b, j, k)
  PROVE  Reported'
<1>1. /\ IsStack(fs)' /\ Agree(t, r)' /\ Progress(g, j, k)'
      /\ \A f, b : Told(t, r, f, b, j, k)' <=> Told(t, r, f, b, j, k)
  BY RunUnchanging
<1>2. PICK f, b : f = g.f /\ b = g.b
  OBVIOUS
<1>3. Told(t, r, f, b, j, k)'
  BY <1>1, <1>2
<1>4. g = Frame' /\ f = Frame.f' /\ b = Frame.b'
  BY <1>2 DEF Frame
<1>5. IsStack(frames)'
  BY <1>1
<1>6. Agree(trace, ran)'
  BY <1>1
<1>7. Progress(Frame, j, k)' /\ Told(trace, ran, Frame.f, Frame.b, j, k)'
  BY <1>1, <1>3, <1>4
<1> QED
  BY <1>5, <1>6, <1>7 DEF Reported

(* The stack *)
LEMMA StackTop ==
  ASSUME NEW fs, IsStack(fs)
  PROVE  /\ Len(fs) \in Nat \ { 0 } /\ Last(fs) = fs[Len(fs)] /\ IsFrame(Last(fs))
<1>1. IsRow(fs) /\ fs # << >> /\ Len(fs) \in Nat
  BY DEF IsStack, IsRow
<1>2. Len(fs) # 0
  BY <1>1, RowEmpty
<1> QED
  BY <1>1, <1>2 DEF IsStack, Last

(* The frame on top moves on, ... *)
LEMMA StackMoves ==
  ASSUME NEW fs, IsStack(fs), NEW x, IsFrame(x), NEW gs, gs = [ fs EXCEPT ![Len(fs)] = x ]
  PROVE  IsStack(gs) /\ Last(gs) = x /\ Len(gs) = Len(fs)
<1>1. Len(fs) \in Nat \ { 0 } /\ IsRow(fs)
  BY StackTop DEF IsStack
<1>2. IsReplaced(gs, fs, Len(fs), x)
  <2>1. Len(fs) \in 1 .. Len(fs)
    BY <1>1
  <2> QED
    BY <1>1, <2>1, RowExcept
<1>3. IsRow(gs) /\ Len(gs) = Len(fs) /\ \A n \in 1 .. Len(fs) : gs[n] = IF n = Len(fs) THEN x ELSE fs[n]
  BY <1>2 DEF IsReplaced
<1>4. gs # << >> /\ Last(gs) = x
  BY <1>1, <1>3, RowEmpty DEF Last
<1>5. \A n \in 1 .. Len(fs) - 1 : gs[n] = fs[n]
  <2>1. \A n \in 1 .. Len(fs) - 1 : n \in 1 .. Len(fs) /\ n # Len(fs)
    BY <1>1
  <2> QED
    BY <1>3, <2>1
<1>6. \A n \in 1 .. Len(gs) : IsFrame(gs[n])
  BY <1>3 DEF IsStack
<1>7. \A n \in 1 .. Len(gs) - 1 : Waits(gs[n])
  BY <1>3, <1>5 DEF IsStack
<1> QED
  BY <1>3, <1>4, <1>6, <1>7 DEF IsStack

(* ... a function is called ... *)
LEMMA StackPushes ==
  ASSUME NEW fs, IsStack(fs), Waits(Last(fs)), NEW x, IsFrame(x), NEW gs, gs = Append(fs, x)
  PROVE  IsStack(gs) /\ Last(gs) = x
<1>1. Len(fs) \in Nat \ { 0 } /\ IsRow(fs) /\ Waits(fs[Len(fs)])
  BY StackTop DEF IsStack
<1>2. IsAppended(gs, fs, x)
  BY <1>1, RowAppend
<1>3. /\ IsRow(gs) /\ Len(gs) = Len(fs) + 1 /\ gs # << >>
      /\ gs[Len(fs) + 1] = x /\ \A n \in 1 .. Len(fs) : gs[n] = fs[n]
  BY <1>2 DEF IsAppended
<1>4. \A n \in 1 .. Len(fs) : IsFrame(gs[n]) /\ Waits(gs[n])
  <2> TAKE n \in 1 .. Len(fs)
  <2>1. n = Len(fs) \/ n \in 1 .. Len(fs) - 1
    BY <1>1
  <2> QED
    BY <1>1, <1>3, <2>1 DEF IsStack
<1>5. PICK l \in Nat : l = Len(fs) /\ Len(gs) = l + 1
  BY <1>1, <1>3
<1>6. \A n \in 1 .. l + 1 : n \in 1 .. l \/ n = l + 1
  BY <1>5
<1>7. Last(gs) = x
  BY <1>3 DEF Last
<1>8. \A n \in 1 .. Len(gs) : IsFrame(gs[n])
  BY <1>3, <1>4, <1>5, <1>6
<1>9. \A n \in 1 .. Len(gs) - 1 : Waits(gs[n])
  <2>1. Len(gs) - 1 = l
    BY <1>5
  <2> QED
    BY <1>4, <1>5, <2>1
<1> QED
  BY <1>3, <1>7, <1>8, <1>9 DEF IsStack

(* ... and left. *)
LEMMA StackPops ==
  ASSUME NEW fs, IsStack(fs), Len(fs) # 1, NEW gs, gs = Front(fs)
  PROVE  IsStack(gs) /\ Waits(Last(gs))
<1>1. Len(fs) \in Nat \ { 0 } /\ IsRow(fs)
  BY StackTop DEF IsStack
<1>2. PICK l \in Nat : l = Len(fs) - 1 /\ l > 0 /\ Len(fs) = l + 1
  <2>1. ASSUME NEW x \in Nat \ { 0 }, x # 1 PROVE x - 1 \in Nat /\ x - 1 > 0 /\ x = (x - 1) + 1
    BY <2>1
  <2>2. Len(fs) - 1 \in Nat /\ Len(fs) - 1 > 0 /\ Len(fs) = (Len(fs) - 1) + 1
    BY <1>1, <2>1
  <2> QED
    BY <2>2
<1>3. gs = SubSeq(fs, 1, l)
  BY <1>2 DEF Front
<1>4. IsRow(gs) /\ Len(gs) = l /\ \A n \in 1 .. l : gs[n] = fs[n]
  <2>1. 1 \in 1 .. Len(fs) + 1 /\ l \in 1 - 1 .. Len(fs) /\ l - 1 + 1 = l
    BY <1>2
  <2>2. IsRow(gs) /\ Len(gs) = l - 1 + 1 /\ \A n \in 1 .. l - 1 + 1 : gs[n] = fs[1 + n - 1]
    BY <1>1, <1>3, <2>1, RowSub
  <2>3. \A n \in 1 .. l : 1 + n - 1 = n
    OBVIOUS
  <2> QED
    BY <2>1, <2>2, <2>3
<1>5. \A n \in 1 .. l : IsFrame(gs[n]) /\ Waits(gs[n])
  <2>1. \A n \in 1 .. l : n \in 1 .. Len(fs) /\ n \in 1 .. Len(fs) - 1
    BY <1>2
  <2> QED
    BY <1>4, <2>1 DEF IsStack
<1>6. gs # << >> /\ Last(gs) = gs[l] /\ l \in 1 .. l
  BY <1>2, <1>4, EmptyRow DEF Last
<1>7. \A n \in 1 .. l - 1 : n \in 1 .. l
  BY <1>2
<1> QED
  BY <1>4, <1>5, <1>6, <1>7 DEF IsStack

(* Where the run is. *)
LEMMA Here ==
  ASSUME Shaped, Instrumented, Reported, pc = "run", NEW g, g = Frame
  PROVE  /\ program \in Programs
         /\ IsStack(frames) /\ g = Last(frames) /\ Len(frames) \in Nat \ { 0 }
         /\ g = [ f |-> g.f, b |-> g.b, k |-> g.k ]
         /\ g.f \in 1 .. Len(program) /\ g.b \in 1 .. Len(Code(g.f)) /\ g.k \in Nat
         /\ LaidOut(ir[g.f][g.b], g.f, g.b, Size(g.f, g.b) + 1, Enters(g.b), Exits(g.f, g.b))
         /\ Instr = ir[g.f][g.b][g.k]
         /\ IsRow(trace) /\ IsRow(ran) /\ Len(trace) <= MaxLog /\ Agree(trace, ran)
<1>1. IsStack(frames) /\ IsRow(trace) /\ IsRow(ran) /\ Len(trace) <= MaxLog /\ Agree(trace, ran)
  BY DEF Reported
<1>2. g = Last(frames) /\ IsFrame(g) /\ Len(frames) \in Nat \ { 0 }
  BY <1>1, StackTop DEF Frame
<1>3. Traced(g.f)
  BY <1>2 DEF Instrumented, IsFrame
<1>4. LaidOut(ir[g.f][g.b], g.f, g.b, Size(g.f, g.b) + 1, Enters(g.b), Exits(g.f, g.b))
  BY <1>2, <1>3 DEF Traced, Laid, IsFrame
<1> QED
  BY <1>1, <1>2, <1>4 DEF IsFrame, Shaped, Instr

(* The numbers of the block a frame is in. *)
LEMMA Numbers ==
  ASSUME program \in Programs, NEW g, g.f \in 1 .. Len(program), g.b \in 1 .. Len(Code(g.f))
  PROVE  /\ Size(g.f, g.b) \in Nat \ { 0 } /\ Phis(g.f, g.b) \in 0 .. Size(g.f, g.b) - 1
         /\ Enters(g.b) \in 0 .. 1 /\ Exits(g.f, g.b) \in 0 .. 1
         /\ Enters(g.b) = 1 => Phis(g.f, g.b) = 0
BY LayoutNumbers

(* An instruction of the program is no call of puts, ... *)
IsOwn(I, f, b, m) ==
  /\ I.op # "puts"
  /\ I.id = << b, m >>
  /\ I.op \in Terminators <=> m = Size(f, b)
  /\ I.op = "phi" <=> m <= Phis(f, b)
  /\ I.op = "call" => I.callee \in 1 .. Len(program)
  /\ I.op \in { "br", "switch" } =>
       \A r \in 1 .. Len(I.refs) : I.refs[r][2] = 0 => I.refs[r][1] \in 2 .. Len(Code(f))

(* The instructions of the program are such. *)
LEMMA OwnInstr ==
  ASSUME program \in Programs, NEW f \in 1 .. Len(program), NEW b \in 1 .. Len(Code(f)),
         NEW m \in 1 .. Size(f, b), NEW I, I = Code(f)[b][m]
  PROVE  IsOwn(I, f, b, m)
<1>1. Code(f)[b][m] \in Instructions
  BY ProgramShape
<1> QED
  BY <1>1, BlockShape, PhisShape DEF Instructions, Terminators, IsOwn

(* ... so that a call of puts is one for the next line, ... *)
LEMMA HerePuts ==
  ASSUME Shaped, Instrumented, Reported, pc = "run", NEW g, g = Frame, Instr.op = "puts",
         NEW j \in Nat, NEW k \in Nat, Progress(g, j, k),
         NEW x, x = [ f |-> g.f, b |-> g.b, k |-> g.k + 1 ]
  PROVE  Instr.text = Text(EventAt(g.f, g.b, k + 1)) /\ Progress(x, j, k + 1)
<1> DEFINE n == Size(g.f, g.b)
           h == Phis(g.f, g.b)
           e == Enters(g.b)
           r == Exits(g.f, g.b)
<1>1. /\ program \in Programs /\ g.f \in 1 .. Len(program) /\ g.b \in 1 .. Len(Code(g.f))
      /\ LaidOut(ir[g.f][g.b], g.f, g.b, n + 1, e, r)
      /\ Instr = ir[g.f][g.b][g.k]
  BY Here
<1>2. n \in Nat \ { 0 } /\ h \in 0 .. n - 1 /\ e \in 0 .. 1 /\ r \in 0 .. 1
  BY <1>1, Numbers
<1>3. ~PhiSpot(h, e, g.k, j, k)
  <2> SUFFICES ASSUME PhiSpot(h, e, g.k, j, k) PROVE FALSE
    OBVIOUS
  <2>1. IsPhi(Instr, g.f, g.b, g.k, j)
    BY <1>1, CodeAtPhi
  <2>2. g.k \in 1 .. h /\ Instr = Code(g.f)[g.b][g.k]
    BY <2>1 DEF IsPhi
  <2>3. g.k \in 1 .. Size(g.f, g.b)
    BY <1>2, <2>2
  <2>4. IsOwn(Instr, g.f, g.b, g.k)
    BY <1>1, <2>2, <2>3, OwnInstr
  <2> QED
    BY <2>4 DEF IsOwn
<1>4. ~InstrSpot(h, n, e, r, g.k, j, k)
  <2> SUFFICES ASSUME InstrSpot(h, n, e, r, g.k, j, k) PROVE FALSE
    OBVIOUS
  <2>0. IsInstr(Instr, g.f, g.b, g.k, j, k)
    BY <1>1, CodeAtInstr
  <2>1. PICK m \in h + 1 .. n : Instr = Code(g.f)[g.b][m]
    BY <2>0 DEF IsInstr
  <2>2. m \in 1 .. Size(g.f, g.b)
    BY <1>2
  <2>3. IsOwn(Instr, g.f, g.b, m)
    BY <1>1, <2>1, <2>2, OwnInstr
  <2> QED
    BY <2>3 DEF IsOwn
<1>5. PutsSpot(h, n, e, r, g.k, j, k)
  BY <1>3, <1>4 DEF Progress, Spot
<1>6. Instr = CallPuts(Text(EventAt(g.f, g.b, k + 1)))
  BY <1>1, <1>5, CodeAtPuts
<1> HIDE DEF n, h, e, r
<1>7. Spot(h, n, e, r, g.k + 1, j, k + 1)
  BY <1>2, <1>5, SpotAfterPuts
<1>8. Progress(x, j, k + 1)
  BY <1>7 DEF Progress, n, h, e, r
<1> QED
  BY <1>6, <1>8 DEF CallPuts

(* ... and anything else is the instruction of the next event. *)
IsEvent(g, x, j, k) ==
  \E m \in 1 .. Size(g.f, g.b) :
    /\ Instr = Code(g.f)[g.b][m] /\ IsOwn(Instr, g.f, g.b, m)
    /\ Executed = EventAt(g.f, g.b, j + 1)
    /\ Instr.op \notin Terminators => Progress(x, j + 1, k)
    /\ Instr.op \notin Terminators \cup { "phi" } => k = j + 1 /\ Waits(x)
    /\ Instr.op \in Terminators =>
         m = Size(g.f, g.b) /\ j = Enters(g.b) + m /\ k = j + 1 + Exits(g.f, g.b)

(* Where no line is due, an event is. *)
LEMMA HereInstr ==
  ASSUME Shaped, Instrumented, Reported, pc = "run", NEW g, g = Frame, Instr.op # "puts",
         NEW j \in Nat, NEW k \in Nat, Progress(g, j, k),
         NEW x, x = [ f |-> g.f, b |-> g.b, k |-> g.k + 1 ]
  PROVE  IsEvent(g, x, j, k)
<1> DEFINE n == Size(g.f, g.b)
           h == Phis(g.f, g.b)
           e == Enters(g.b)
           r == Exits(g.f, g.b)
<1>1. /\ program \in Programs /\ g.f \in 1 .. Len(program) /\ g.b \in 1 .. Len(Code(g.f))
      /\ LaidOut(ir[g.f][g.b], g.f, g.b, n + 1, e, r)
      /\ Instr = ir[g.f][g.b][g.k]
  BY Here
<1>2. n \in Nat \ { 0 } /\ h \in 0 .. n - 1 /\ e \in 0 .. 1 /\ r \in 0 .. 1 /\ (e = 1 => h = 0)
  BY <1>1, Numbers
<1>3. ~PutsSpot(h, n, e, r, g.k, j, k)
  <2> SUFFICES ASSUME PutsSpot(h, n, e, r, g.k, j, k) PROVE FALSE
    OBVIOUS
  <2>1. Instr = CallPuts(Text(EventAt(g.f, g.b, k + 1)))
    BY <1>1, CodeAtPuts
  <2> QED
    BY <2>1 DEF CallPuts
<1>4. CASE PhiSpot(h, e, g.k, j, k)
  <2>1. IsPhi(Instr, g.f, g.b, g.k, j)
    BY <1>1, <1>4, CodeAtPhi
  <2>2. /\ g.k \in 1 .. h /\ Instr = Code(g.f)[g.b][g.k]
        /\ EventAt(g.f, g.b, j + 1) = EventOfInstr(g.f, g.b, g.k)
    BY <2>1 DEF IsPhi
  <2>3. g.k \in 1 .. n
    BY <1>2, <2>2
  <2>4. IsOwn(Instr, g.f, g.b, g.k)
    BY <1>1, <2>2, <2>3, OwnInstr
  <2>5. Instr.op = "phi" /\ Instr.id = << g.b, g.k >>
    <3>1. Instr.op = "phi" <=> g.k <= h
      BY <2>4 DEF IsOwn
    <3>2. Instr.id = << g.b, g.k >>
      BY <2>4 DEF IsOwn
    <3> QED
      BY <1>2, <2>2, <3>1, <3>2
  <2>6. Spot(h, n, e, r, g.k + 1, j + 1, k)
    BY <1>2, <1>4, SpotAfterPhi
  <2>7. Progress(x, j + 1, k)
    BY <2>6 DEF Progress
  <2>8. Executed = EventAt(g.f, g.b, j + 1)
    BY <2>2, <2>5 DEF Executed, EventOfInstr
  <2> QED
    BY <2>2, <2>3, <2>4, <2>5, <2>7, <2>8 DEF Terminators, IsEvent
<1>5. CASE InstrSpot(h, n, e, r, g.k, j, k)
  <2>1. PICK m \in h + 1 .. n :
          /\ Instr = Code(g.f)[g.b][m]
          /\ j = e + m
          /\ m # n => g.k = 2 * m + 1 + e /\ k = j + 1
          /\ m = n => k = j + 1 + r
    <3>1. IsInstr(Instr, g.f, g.b, g.k, j, k)
      BY <1>1, <1>5, CodeAtInstr
    <3> QED
      BY <3>1 DEF IsInstr
  <2>2. m \in 1 .. Size(g.f, g.b)
    BY <1>2
  <2>0. IsOwn(Instr, g.f, g.b, m)
    BY <1>1, <2>1, <2>2, OwnInstr
  <2>3. Instr.id = << g.b, m >> /\ (Instr.op \in Terminators <=> m = n)
    BY <2>0 DEF IsOwn
  <2>4. Executed = EventAt(g.f, g.b, j + 1)
    <3>1. EventAt(g.f, g.b, e + m + 1) = EventOfInstr(g.f, g.b, m)
      BY <1>1, <2>2, InstrEvents
    <3> QED
      BY <2>1, <2>3, <3>1 DEF Executed, EventOfInstr
  <2>5. m # n => Progress(x, j + 1, k) /\ k = j + 1 /\ Waits(x)
    <3> SUFFICES ASSUME m # n PROVE Progress(x, j + 1, k) /\ k = j + 1 /\ Waits(x)
      OBVIOUS
    <3>1. m \in h + 1 .. n - 1 /\ g.k = 2 * m + 1 + e /\ k = e + m + 1 /\ j + 1 = e + m + 1
      BY <1>2, <2>1
    <3> HIDE DEF n, h, e, r
    <3>2. /\ WaitSpot(h, n, e, 2 * m + 1 + e + 1)
          /\ Spot(h, n, e, r, 2 * m + 1 + e + 1, e + m + 1, e + m + 1)
      BY <1>2, <3>1, SpotAfterInstr
    <3>3. WaitSpot(h, n, e, g.k + 1) /\ Spot(h, n, e, r, g.k + 1, j + 1, k)
      BY <3>1, <3>2
    <3> QED
      BY <3>1, <3>3 DEF Progress, Waits, n, h, e, r
  <2> QED
    BY <2>0, <2>1, <2>2, <2>3, <2>4, <2>5 DEF IsEvent
<1> QED
  BY <1>3, <1>4, <1>5 DEF Progress, Spot

(* The invariant when the program has ended. *)
LEMMA ReportedEnds ==
  ASSUME program' = program, pc' = "ended", NEW t, t = trace', NEW r, r = ran',
         IsRow(t), IsRow(r), Len(t) <= MaxLog, Agree(t, r), Len(t) <= Len(r) + 2,
         Len(t) < MaxLog => Len(t) = Len(r)
  PROVE  Reported'
<1>1. Agree(t, r)'
  BY RunUnchanging
<1>2. Agree(trace, ran)'
  BY <1>1
<1> QED
  BY <1>2 DEF Reported

(* The frame one instruction on. *)
LEMMA NextFrame ==
  ASSUME Shaped, Instrumented, Reported, pc = "run", NEW g, g = Frame,
         NEW x, x = [ f |-> g.f, b |-> g.b, k |-> g.k + 1 ], NEW fs, fs = NextInstr
  PROVE  /\ IsFrame(x) /\ x.f = g.f /\ x.b = g.b
         /\ IsStack(fs) /\ Last(fs) = x
<1>1. /\ IsStack(frames) /\ g = Last(frames)
      /\ g = [ f |-> g.f, b |-> g.b, k |-> g.k ]
      /\ g.f \in 1 .. Len(program) /\ g.b \in 1 .. Len(Code(g.f)) /\ g.k \in Nat
  BY Here
<1>2. IsFrame(x) /\ x.f = g.f /\ x.b = g.b
  BY <1>1 DEF IsFrame
<1>3. frames[Len(frames)] = g /\ IsRow(frames) /\ Len(frames) \in 1 .. Len(frames)
  BY <1>1, StackTop DEF IsStack
<1>4. [ g EXCEPT !.k = @ + 1 ] = x
  BY <1>1
<1>5. fs = [ frames EXCEPT ![Len(frames)] = x ]
  BY <1>3, <1>4 DEF NextInstr
<1>6. PICK os : os = frames
  OBVIOUS
<1>7. IsStack(os) /\ IsFrame(x) /\ fs = [ os EXCEPT ![Len(os)] = x ]
  BY <1>1, <1>2, <1>5, <1>6
<1>8. IsStack(fs) /\ Last(fs) = x
  BY <1>7, StackMoves
<1> QED
  BY <1>2, <1>8

(* A call of puts writes the line that is due. *)
LEMMA PutsReports ==
  ASSUME Shaped, Instrumented, Reported, Puts
  PROVE  Reported'
<1>1. pc = "run" /\ Len(trace) < MaxLog /\ Instr.op = "puts"
  BY DEF Puts, Running
<1>2. PICK g : g = Frame
  OBVIOUS
<1>3. PICK j \in Nat, k \in Nat : Progress(g, j, k) /\ Told(trace, ran, g.f, g.b, j, k)
  BY <1>1, <1>2 DEF Reported
<1>4. PICK x : x = [ f |-> g.f, b |-> g.b, k |-> g.k + 1 ]
  OBVIOUS
<1>5. IsRow(trace) /\ IsRow(ran) /\ Agree(trace, ran)
  BY <1>1 DEF Reported
<1>6. PICK t : t = trace'
  OBVIOUS
<1>7. Instr.text = Text(EventAt(g.f, g.b, k + 1)) /\ Progress(x, j, k + 1)
  BY <1>1, <1>2, <1>3, <1>4, HerePuts
<1>8. t = Append(trace, Text(EventAt(g.f, g.b, k + 1)))
  BY <1>6, <1>7 DEF Puts
<1>9. IsRow(t) /\ Agree(t, ran) /\ Told(t, ran, g.f, g.b, j, k + 1) /\ Len(t) = Len(trace) + 1
  <2>1. PICK f, b, r, s : f = g.f /\ b = g.b /\ r = ran /\ s = trace
    OBVIOUS
  <2>2. /\ IsRow(s) /\ IsRow(r)
        /\ Told(s, r, f, b, j, k) /\ Agree(s, r) /\ t = Append(s, Text(EventAt(f, b, k + 1)))
    BY <1>3, <1>5, <1>8, <2>1
  <2>3. IsRow(t) /\ Agree(t, r) /\ Told(t, r, f, b, j, k + 1)
    BY <2>2, LineWritten
  <2>4. Len(t) = Len(s) + 1
    BY <2>2, LineWritten
  <2> QED
    BY <2>1, <2>3, <2>4
<1>10. PICK fs : fs = frames' /\ fs = NextInstr
  BY DEF Puts
<1>11. x.f = g.f /\ x.b = g.b /\ IsStack(fs) /\ x = Last(fs)
  BY <1>1, <1>2, <1>4, <1>10, NextFrame
<1>12. Len(t) <= MaxLog
  BY <1>1, <1>5, <1>9, ProgramsAssumption DEF IsRow
<1>13. program' = program /\ pc' = "run" /\ ran = ran' /\ k + 1 \in Nat
  BY <1>1 DEF Puts
<1> QED
  BY <1>5, <1>6, <1>7, <1>9, <1>10, <1>11, <1>12, <1>13, ReportedNext

(* An instruction without control flow is the event that is due. *)
LEMMA ComputeReports ==
  ASSUME Shaped, Instrumented, Reported, Compute
  PROVE  Reported'
<1>1. pc = "run" /\ Instr.op # "puts" /\ Instr.op \notin Terminators
  BY DEF Compute, Running, Terminators
<1>2. PICK g : g = Frame
  OBVIOUS
<1>3. PICK j \in Nat, k \in Nat : Progress(g, j, k) /\ Told(trace, ran, g.f, g.b, j, k)
  BY <1>1, <1>2 DEF Reported
<1>4. PICK x : x = [ f |-> g.f, b |-> g.b, k |-> g.k + 1 ]
  OBVIOUS
<1>5. IsRow(trace) /\ IsRow(ran) /\ Agree(trace, ran) /\ Len(trace) <= MaxLog
  BY <1>1 DEF Reported
<1>6. PICK r : r = ran'
  OBVIOUS
<1>7. Executed = EventAt(g.f, g.b, j + 1) /\ Progress(x, j + 1, k)
  <2>1. IsEvent(g, x, j, k)
    BY <1>1, <1>2, <1>3, <1>4, HereInstr
  <2> QED
    BY <1>1, <2>1 DEF IsEvent
<1>8. r = Append(ran, EventAt(g.f, g.b, j + 1))
  BY <1>6, <1>7 DEF Compute
<1>9. IsRow(r) /\ Agree(trace, r) /\ Told(trace, r, g.f, g.b, j + 1, k)
  BY <1>3, <1>5, <1>8, EventHappens
<1>10. PICK fs : fs = frames' /\ fs = NextInstr
  BY DEF Compute
<1>11. x.f = g.f /\ x.b = g.b /\ IsStack(fs) /\ x = Last(fs)
  BY <1>1, <1>2, <1>4, <1>10, NextFrame
<1>13. program' = program /\ pc' = "run" /\ trace = trace' /\ j + 1 \in Nat
  BY <1>1 DEF Compute
<1> QED
  BY <1>5, <1>6, <1>7, <1>9, <1>10, <1>11, <1>13, ReportedNext

(* An exit ends the run with everything told. *)
LEMMA ExitReports ==
  ASSUME Shaped, Instrumented, Reported, Exit
  PROVE  Reported'
<1>1. pc = "run" /\ Instr.op # "puts" /\ Instr.op \notin Terminators \cup { "phi" }
  BY DEF Exit, Running, Terminators
<1>2. PICK g : g = Frame
  OBVIOUS
<1>3. PICK j \in Nat, k \in Nat : Progress(g, j, k) /\ Told(trace, ran, g.f, g.b, j, k)
  BY <1>1, <1>2 DEF Reported
<1>4. PICK x : x = [ f |-> g.f, b |-> g.b, k |-> g.k + 1 ]
  OBVIOUS
<1>5. IsRow(trace) /\ IsRow(ran) /\ Agree(trace, ran) /\ Len(trace) <= MaxLog
  BY <1>1 DEF Reported
<1>6. PICK r : r = ran'
  OBVIOUS
<1>7. Executed = EventAt(g.f, g.b, j + 1) /\ k = j + 1
  <2>1. IsEvent(g, x, j, k)
    BY <1>1, <1>2, <1>3, <1>4, HereInstr
  <2> QED
    BY <1>1, <2>1 DEF IsEvent
<1>8. r = Append(ran, EventAt(g.f, g.b, j + 1))
  BY <1>6, <1>7 DEF Exit
<1>9. IsRow(r) /\ Agree(trace, r) /\ Told(trace, r, g.f, g.b, j + 1, k)
  BY <1>3, <1>5, <1>8, EventHappens
<1>10. Len(trace) = Len(r)
  BY <1>5, <1>7, <1>9, NothingLeft
<1>11. program' = program /\ pc' = "ended" /\ trace = trace'
  BY DEF Exit
<1> QED
  BY <1>5, <1>6, <1>9, <1>10, <1>11, ReportedEnds DEF IsRow

(* Where a function or a block is entered. *)
LEMMA EntryFrame ==
  ASSUME program \in Programs, NEW f \in 1 .. Len(program), NEW b \in 1 .. Len(Code(f)),
         NEW y, y = [ f |-> f, b |-> b, k |-> 1 ]
  PROVE  IsFrame(y) /\ Progress(y, Enters(b) + 1, 0)
<1> DEFINE n == Size(f, b)
           h == Phis(f, b)
           e == Enters(b)
           r == Exits(f, b)
<1>1. n \in Nat \ { 0 } /\ h \in 0 .. n - 1 /\ e \in 0 .. 1 /\ r \in 0 .. 1 /\ (e = 1 => h = 0)
  BY LayoutNumbers
<1> HIDE DEF n, h, e, r
<1>2. Spot(h, n, e, r, 1, e + 1, 0)
  BY <1>1, SpotAtEntry
<1>3. y.f = f /\ y.b = b /\ y.k = 1 /\ y = [ f |-> y.f, b |-> y.b, k |-> y.k ]
  OBVIOUS
<1> QED
  BY <1>2, <1>3 DEF IsFrame, Progress, n, h, e, r

(* The first events of a function and of another block. *)
LEMMA EntryEvents ==
  ASSUME NEW f, NEW b \in Nat \ { 0 }
  PROVE  /\ EventAt(f, 1, 0 + 1) = << "begin", f >> /\ EventAt(f, 1, 1 + 1) = << "bb", f, 1 >>
         /\ b # 1 => EventAt(f, b, 0 + 1) = << "bb", f, b >>
BY DEF EventAt, Enters

(* A call enters a function after its own line and event. *)
LEMMA CallReports ==
  ASSUME Shaped, Instrumented, Reported, Call
  PROVE  Reported'
<1>1. pc = "run" /\ Instr.op = "call" /\ Instr.op # "puts" /\ Instr.op \notin Terminators \cup { "phi" }
  BY DEF Call, Running, Terminators
<1>2. PICK g : g = Frame
  OBVIOUS
<1>3. PICK j \in Nat, k \in Nat : Progress(g, j, k) /\ Told(trace, ran, g.f, g.b, j, k)
  BY <1>1, <1>2 DEF Reported
<1>4. PICK x : x = [ f |-> g.f, b |-> g.b, k |-> g.k + 1 ]
  OBVIOUS
<1>5. IsRow(trace) /\ IsRow(ran) /\ Agree(trace, ran) /\ Len(trace) <= MaxLog
  BY <1>1 DEF Reported
<1>6. Executed = EventAt(g.f, g.b, j + 1) /\ k = j + 1 /\ Waits(x) /\ Instr.callee \in 1 .. Len(program)
  <2>1. IsEvent(g, x, j, k)
    BY <1>1, <1>2, <1>3, <1>4, HereInstr
  <2> QED
    BY <1>1, <2>1 DEF IsEvent, IsOwn
<1>7. PICK f \in 1 .. Len(program) : f = Instr.callee
  BY <1>6
(* The call is executed and told, ... *)
<1>8. PICK r1 : r1 = Append(ran, EventAt(g.f, g.b, j + 1))
  OBVIOUS
<1>9. IsRow(r1) /\ Agree(trace, r1) /\ Told(trace, r1, g.f, g.b, j + 1, k)
  BY <1>3, <1>5, <1>8, EventHappens
<1>10. Len(trace) = Len(r1)
  BY <1>5, <1>6, <1>9, NothingLeft
(* ... the function and its first block entered. *)
<1>11. Told(trace, r1, f, 1, 0, 0)
  BY <1>5, <1>9, <1>10, NothingLeft
<1>12. PICK r2 : r2 = Append(r1, EventAt(f, 1, 0 + 1))
  OBVIOUS
<1>13. IsRow(r2) /\ Agree(trace, r2) /\ Told(trace, r2, f, 1, 0 + 1, 0)
  BY <1>5, <1>9, <1>11, <1>12, EventHappens
<1>14. PICK r : r = Append(r2, EventAt(f, 1, 1 + 1))
  OBVIOUS
<1>15. IsRow(r) /\ Agree(trace, r) /\ Told(trace, r, f, 1, 1 + 1, 0)
  <2>1. Told(trace, r2, f, 1, 1, 0)
    BY <1>13
  <2> QED
    BY <1>5, <1>13, <2>1, <1>14, EventHappens
<1>16. r = ran'
  <2>1. ran' = ran \o << Executed, << "begin", f >>, << "bb", f, 1 >> >>
    BY <1>7 DEF Call
  <2>2. PICK u, v, w : u = Executed /\ v = << "begin", f >> /\ w = << "bb", f, 1 >>
    OBVIOUS
  <2>3. ran' = Append(Append(Append(ran, u), v), w)
    <3>1. ran \o << u, v, w >> = Append(Append(Append(ran, u), v), w)
      BY <1>5, RowThree
    <3> QED
      BY <2>1, <2>2, <3>1
  <2>4. u = EventAt(g.f, g.b, j + 1) /\ v = EventAt(f, 1, 0 + 1) /\ w = EventAt(f, 1, 1 + 1)
    BY <1>6, <2>2, EntryEvents
  <2> QED
    BY <2>3, <2>4, <1>8, <1>12, <1>14
<1>17. PICK y : y = [ f |-> f, b |-> 1, k |-> 1 ]
  OBVIOUS
<1>18. IsFrame(y) /\ Progress(y, 1 + 1, 0)
  <2>1. program \in Programs /\ 1 \in 1 .. Len(Code(f))
    BY ProgramShape DEF Shaped
  <2>2. IsFrame(y) /\ Progress(y, Enters(1) + 1, 0)
    BY <1>17, <2>1, EntryFrame
  <2> QED
    BY <2>2 DEF Enters
<1>19. PICK gs, fs : gs = NextInstr /\ fs = frames' /\ fs = Append(gs, y)
  BY <1>7, <1>17 DEF Call
<1>20. IsStack(gs) /\ Last(gs) = x
  BY <1>1, <1>2, <1>4, <1>19, NextFrame
<1>21. IsStack(fs) /\ y = Last(fs)
  BY <1>6, <1>18, <1>19, <1>20, StackPushes
<1>22. program' = program /\ pc' = "run" /\ trace = trace' /\ y.f = f /\ y.b = 1
  BY <1>1, <1>17 DEF Call
<1>23. PICK c \in Nat, d \in Nat : c = 1 + 1 /\ d = 0
  OBVIOUS
<1>24. Told(trace, r, y.f, y.b, c, d) /\ Progress(y, c, d)
  BY <1>15, <1>18, <1>22, <1>23
<1> QED
  BY <1>5, <1>15, <1>16, <1>19, <1>21, <1>22, <1>24, ReportedNext

(* What ends a block: by then there is nothing left to tell of it but, where *)
(* a function is left, that. *)
LEMMA HereLast ==
  ASSUME Shaped, Instrumented, Reported, pc = "run", NEW g, g = Frame, Instr.op \in Terminators,
         NEW j \in Nat, NEW k \in Nat, Progress(g, j, k)
  PROVE  /\ Executed = EventAt(g.f, g.b, j + 1)
         /\ Instr.op # "ret" => k = j + 1
         /\ Instr.op = "ret" => k = j + 2 /\ EventAt(g.f, g.b, j + 2) = << "end", g.f >>
         /\ Instr.op \in { "br", "switch" } =>
              \A r \in 1 .. Len(Instr.refs) :
                Instr.refs[r][2] = 0 => Instr.refs[r][1] \in 2 .. Len(Code(g.f))
<1>1. PICK x : x = [ f |-> g.f, b |-> g.b, k |-> g.k + 1 ]
  OBVIOUS
<1>2. Instr.op # "puts"
  BY DEF Terminators
<1>3. IsEvent(g, x, j, k)
  BY <1>1, <1>2, HereInstr
<1>4. PICK m \in 1 .. Size(g.f, g.b) :
        /\ Instr = Code(g.f)[g.b][m] /\ IsOwn(Instr, g.f, g.b, m)
        /\ Executed = EventAt(g.f, g.b, j + 1)
        /\ m = Size(g.f, g.b) /\ j = Enters(g.b) + m /\ k = j + 1 + Exits(g.f, g.b)
  BY <1>3 DEF IsEvent
<1>5. Exits(g.f, g.b) = IF Instr.op = "ret" THEN 1 ELSE 0
  BY <1>4 DEF Exits
<1>6. EventAt(g.f, g.b, j + 2) = << "end", g.f >>
  <2>1. PICK n \in Nat, e \in 0 .. 1 : n = Size(g.f, g.b) /\ e = Enters(g.b)
    BY <1>4, Here, Numbers
  <2>2. ~(j + 2 <= e) /\ j + 2 # e + 1 /\ ~(j + 2 <= e + 1 + n)
    BY <1>4, <2>1
  <2> QED
    BY <2>1, <2>2 DEF EventAt
<1>7. Instr.op \in { "br", "switch" } =>
        \A r \in 1 .. Len(Instr.refs) :
          Instr.refs[r][2] = 0 => Instr.refs[r][1] \in 2 .. Len(Code(g.f))
  BY <1>4 DEF IsOwn
<1>8. k = j + 1 + Exits(g.f, g.b)
  BY <1>4
<1>9. (Instr.op # "ret" => k = j + 1) /\ (Instr.op = "ret" => k = j + 2)
  BY <1>5, <1>8
<1>10. Executed = EventAt(g.f, g.b, j + 1)
  BY <1>4
<1> QED
  BY <1>6, <1>7, <1>9, <1>10

Moved(fs, n, b, k) == [ fs EXCEPT ![n].b = b, ![n].k = k ]

(* Two components of a frame overwritten. *)
LEMMA FrameUpdate ==
  ASSUME NEW fs, IsRow(fs), NEW n \in 1 .. Len(fs), NEW B, NEW K, NEW g, g = fs[n],
         g = [ f |-> g.f, b |-> g.b, k |-> g.k ], NEW y, y = [ f |-> g.f, b |-> B, k |-> K ],
         NEW u, u = Moved(fs, n, B, K)
  PROVE  u = [ fs EXCEPT ![n] = y ]
<1>1. PICK x : x = [ g EXCEPT !.b = B ]
  OBVIOUS
<1>2. PICK hs : hs = [ fs EXCEPT ![n] = x ]
  OBVIOUS
<1>3. hs[n] = x /\ DOMAIN hs = DOMAIN fs /\ \A m \in DOMAIN fs : m # n => hs[m] = fs[m]
  BY <1>2 DEF IsRow
<1>4. [ x EXCEPT !.k = K ] = y
  <2>1. x = [ f |-> g.f, b |-> B, k |-> g.k ]
    BY <1>1
  <2> QED
    BY <2>1
<1>5. [ fs EXCEPT ![n].b = B, ![n].k = K ] = [ hs EXCEPT ![n].k = K ]
  BY <1>1, <1>2
<1>6. [ hs EXCEPT ![n].k = K ] = [ hs EXCEPT ![n] = y ]
  BY <1>3, <1>4
<1>7. [ hs EXCEPT ![n] = y ] = [ fs EXCEPT ![n] = y ]
  BY <1>2, <1>3
<1> QED
  BY <1>5, <1>6, <1>7 DEF Moved

(* A branch enters a block after its own line and event. *)
LEMMA BranchReports ==
  ASSUME Shaped, Instrumented, Reported, Branch
  PROVE  Reported'
<1>1. pc = "run" /\ Instr.op \in { "br", "switch" } /\ Instr.op \in Terminators /\ Instr.op # "ret"
  BY DEF Branch, Running, Terminators
<1>2. PICK g : g = Frame
  OBVIOUS
<1>3. PICK j \in Nat, k \in Nat : Progress(g, j, k) /\ Told(trace, ran, g.f, g.b, j, k)
  BY <1>1, <1>2 DEF Reported
<1>4. /\ IsStack(frames) /\ IsRow(frames) /\ Len(frames) \in 1 .. Len(frames) /\ g = frames[Len(frames)]
      /\ g = [ f |-> g.f, b |-> g.b, k |-> g.k ] /\ g.f \in 1 .. Len(program) /\ program \in Programs
  <2>1. IsStack(frames) /\ g = Last(frames) /\ program \in Programs
    BY <1>1, <1>2, Here
  <2> QED
    BY <2>1, StackTop DEF IsStack, IsFrame
<1>5. IsRow(trace) /\ IsRow(ran) /\ Agree(trace, ran) /\ Len(trace) <= MaxLog
  BY <1>1 DEF Reported
<1>6. /\ Executed = EventAt(g.f, g.b, j + 1) /\ k = j + 1
      /\ \A r \in 1 .. Len(Instr.refs) :
           Instr.refs[r][2] = 0 => Instr.refs[r][1] \in 2 .. Len(Code(g.f))
  BY <1>1, <1>2, <1>3, HereLast
<1>7. PICK b \in 2 .. Len(Code(g.f)) :
        /\ ran' = ran \o << Executed, << "bb", g.f, b >> >>
        /\ frames' = [ frames EXCEPT ![Len(frames)].b = b, ![Len(frames)].k = 1 ]
  BY <1>2, <1>6 DEF Branch
<1>8. PICK f \in 1 .. Len(program) : f = g.f /\ b \in 1 .. Len(Code(f)) /\ b \in Nat \ { 0 } /\ b # 1
  <2>1. Len(Code(g.f)) \in Nat
    BY <1>4, ProgramShape
  <2> QED
    BY <1>4, <2>1
(* The branch is executed and told, and a block entered. *)
<1>9. PICK r1 : r1 = Append(ran, EventAt(g.f, g.b, j + 1))
  OBVIOUS
<1>10. IsRow(r1) /\ Agree(trace, r1) /\ Told(trace, r1, g.f, g.b, j + 1, k)
  BY <1>3, <1>5, <1>9, EventHappens
<1>11. Len(trace) = Len(r1)
  BY <1>5, <1>6, <1>10, NothingLeft
<1>12. Told(trace, r1, f, b, 0, 0)
  BY <1>5, <1>10, <1>11, NothingLeft
<1>13. PICK r : r = Append(r1, EventAt(f, b, 0 + 1))
  OBVIOUS
<1>14. IsRow(r) /\ Agree(trace, r) /\ Told(trace, r, f, b, 0 + 1, 0)
  BY <1>5, <1>10, <1>12, <1>13, EventHappens
<1>15. r = ran'
  <2>1. PICK u, v : u = Executed /\ v = << "bb", f, b >>
    OBVIOUS
  <2>2. ran' = Append(Append(ran, u), v)
    <3>1. ran \o << u, v >> = Append(Append(ran, u), v)
      BY <1>5, RowTwo
    <3> QED
      BY <1>7, <1>8, <2>1, <3>1
  <2>3. u = EventAt(g.f, g.b, j + 1) /\ v = EventAt(f, b, 0 + 1)
    BY <1>6, <1>8, <2>1, EntryEvents
  <2> QED
    BY <2>2, <2>3, <1>9, <1>13
<1>16. PICK y : y = [ f |-> f, b |-> b, k |-> 1 ]
  OBVIOUS
<1>17. IsFrame(y) /\ Progress(y, 0 + 1, 0)
  <2>1. IsFrame(y) /\ Progress(y, Enters(b) + 1, 0)
    BY <1>4, <1>8, <1>16, EntryFrame
  <2> QED
    BY <1>8, <2>1 DEF Enters
<1>18. PICK gs, fs : gs = frames /\ fs = frames' /\ fs = [ gs EXCEPT ![Len(gs)] = y ]
  <2>1. frames' = [ frames EXCEPT ![Len(frames)] = y ]
    <3>1. PICK l, K, fs, u : l = Len(frames) /\ K = 1 /\ fs = frames /\ u = frames'
      OBVIOUS
    <3>2. /\ IsRow(fs) /\ l \in 1 .. Len(fs) /\ g = fs[l]
          /\ g = [ f |-> g.f, b |-> g.b, k |-> g.k ] /\ y = [ f |-> g.f, b |-> b, k |-> K ]
          /\ u = Moved(fs, l, b, K)
      BY <1>4, <1>7, <1>8, <1>16, <3>1 DEF Moved
    <3>3. u = [ fs EXCEPT ![l] = y ]
      BY <3>2, FrameUpdate
    <3> QED
      BY <3>1, <3>3
  <2> QED
    BY <2>1
<1>19. IsStack(fs) /\ y = Last(fs)
  BY <1>4, <1>17, <1>18, StackMoves
<1>20. program' = program /\ pc' = "run" /\ trace = trace' /\ y.f = f /\ y.b = b
  BY <1>1, <1>16 DEF Branch
<1>21. PICK c \in Nat, d \in Nat : c = 0 + 1 /\ d = 0
  OBVIOUS
<1>22. Told(trace, r, y.f, y.b, c, d) /\ Progress(y, c, d)
  BY <1>14, <1>17, <1>20, <1>21
<1> QED
  BY <1>5, <1>14, <1>15, <1>18, <1>19, <1>20, <1>22, ReportedNext

(* A return leaves a function with everything told. *)
LEMMA ReturnReports ==
  ASSUME Shaped, Instrumented, Reported, Return
  PROVE  Reported'
<1>1. pc = "run" /\ Instr.op = "ret" /\ Instr.op \in Terminators
  BY DEF Return, Running, Terminators
<1>2. PICK g : g = Frame
  OBVIOUS
<1>3. PICK j \in Nat, k \in Nat : Progress(g, j, k) /\ Told(trace, ran, g.f, g.b, j, k)
  BY <1>1, <1>2 DEF Reported
<1>4. PICK gs : gs = frames /\ IsStack(gs) /\ program \in Programs
  BY <1>1, <1>2, Here
<1>5. IsRow(trace) /\ IsRow(ran) /\ Agree(trace, ran) /\ Len(trace) <= MaxLog
  BY <1>1 DEF Reported
<1>6. /\ Executed = EventAt(g.f, g.b, j + 1) /\ k = j + 2
      /\ EventAt(g.f, g.b, j + 2) = << "end", g.f >>
  BY <1>1, <1>2, <1>3, HereLast
(* The return is executed and the function left, all of which is told. *)
<1>7. PICK r1 : r1 = Append(ran, EventAt(g.f, g.b, j + 1))
  OBVIOUS
<1>8. IsRow(r1) /\ Agree(trace, r1) /\ Told(trace, r1, g.f, g.b, j + 1, k)
  BY <1>3, <1>5, <1>7, EventHappens
<1>9. PICK i \in Nat : i = j + 1 /\ i + 1 = j + 2
  OBVIOUS
<1>10. PICK r : r = Append(r1, EventAt(g.f, g.b, i + 1))
  OBVIOUS
<1>11. IsRow(r) /\ Agree(trace, r) /\ Told(trace, r, g.f, g.b, i + 1, k)
  BY <1>5, <1>8, <1>9, <1>10, EventHappens
<1>12. Len(trace) = Len(r)
  BY <1>5, <1>6, <1>9, <1>11, NothingLeft
<1>13. r = ran'
  <2>1. PICK u, v : u = Executed /\ v = << "end", g.f >>
    OBVIOUS
  <2>2. ran' = Append(Append(ran, u), v)
    <3>1. ran \o << u, v >> = Append(Append(ran, u), v)
      BY <1>5, RowTwo
    <3> QED
      BY <1>2, <2>1, <3>1 DEF Return
  <2> QED
    BY <2>1, <2>2, <1>6, <1>7, <1>9, <1>10
<1>14. program' = program /\ trace = trace'
  BY DEF Return
<1>15. CASE Len(frames) = 1
  <2>1. pc' = "ended"
    BY <1>15 DEF Return
  <2>2. Len(trace) <= Len(r) + 2
    BY <1>5, <1>12 DEF IsRow
  <2> QED
    BY <1>5, <1>11, <1>12, <1>13, <1>14, <2>1, <2>2, ReportedEnds
<1>16. CASE Len(frames) # 1
  <2>1. PICK fs : fs = frames' /\ fs = Front(gs)
    BY <1>4 DEF Return
  <2>2. PICK y : y = Last(fs)
    OBVIOUS
  <2>3. IsStack(fs) /\ Waits(y)
    BY <1>4, <1>16, <2>1, <2>2, StackPops
  <2>4. y.f \in 1 .. Len(program) /\ y.b \in 1 .. Len(Code(y.f))
    <3>1. IsFrame(Last(fs))
      BY <2>3, StackTop
    <3> QED
      BY <2>2, <3>1 DEF IsFrame
  <2>5. PICK c \in Nat : Progress(y, c, c)
    BY <1>4, <2>3, <2>4, Numbers, SpotOfWaiting DEF Waits, Progress
  <2>6. Told(trace, r, y.f, y.b, c, c)
    BY <1>5, <1>11, <1>12, NothingLeft
  <2>7. pc' = "run"
    BY <1>1, <1>16 DEF Return
  <2> QED
    BY <1>5, <1>11, <1>13, <1>14, <2>1, <2>2, <2>3, <2>5, <2>6, <2>7, ReportedNext
<1> QED
  BY <1>15, <1>16

(* A program that is stopped has told two lines too many at most. *)
LEMMA StoppedReports ==
  ASSUME Shaped, Instrumented, Reported, Stopped
  PROVE  Reported'
<1>1. pc = "run" /\ Len(trace) = MaxLog
  BY DEF Stopped
<1>2. PICK g : g = Frame
  OBVIOUS
<1>3. PICK j \in Nat, k \in Nat : Progress(g, j, k) /\ Told(trace, ran, g.f, g.b, j, k)
  BY <1>1, <1>2 DEF Reported
<1>4. program \in Programs /\ g.f \in 1 .. Len(program) /\ g.b \in 1 .. Len(Code(g.f))
  BY <1>1, <1>2, Here
<1>5. k <= j + 2
  BY <1>3, <1>4, Numbers, SpotBounds DEF Progress
<1>6. IsRow(trace) /\ IsRow(ran) /\ Agree(trace, ran)
  BY <1>1 DEF Reported
<1>7. PICK lt \in Nat, lr \in Nat : lt = Len(trace) /\ lr = Len(ran)
  BY <1>6 DEF IsRow
<1>8. lr - lt = j - k
  BY <1>3, <1>7 DEF Told
<1>9. Len(trace) <= Len(ran) + 2
  BY <1>5, <1>7, <1>8
<1>10. ~(Len(trace) < MaxLog) /\ Len(trace) <= MaxLog
  BY <1>1, ProgramsAssumption
<1>11. program' = program /\ pc' = "ended" /\ trace = trace' /\ ran = ran'
  BY DEF Stopped, runVars
<1> QED
  BY <1>6, <1>9, <1>10, <1>11, ReportedEnds

(* The pass leaves both histories empty, ...                               *)
LEMMA PassReports ==
  ASSUME Shaped, Instrumented, Reported, Instrument, pc' # "run"
  PROVE  Reported'
<1>1. /\ pc \in { "gather", "begin", "insert", "end" }
      /\ pc' \in { "gather", "begin", "insert", "end" }
      /\ trace' = trace /\ ran' = ran
  <2>1. CASE Gather
    BY <2>1 DEF Gather, runVars
  <2>2. CASE TraceEntrance
    BY <2>2 DEF TraceEntrance, runVars
  <2>3. CASE InsertPrepared
    <3>1. pc = "insert" /\ pc' \in { "insert", "end" } /\ UNCHANGED runVars
      BY <2>3 DEF InsertPrepared
    <3> QED
      BY <3>1 DEF runVars
  <2>4. CASE TraceExits
    BY <2>4 DEF TraceExits
  <2> QED
    BY <2>1, <2>2, <2>3, <2>4 DEF Instrument
<1>2. trace = << >> /\ ran = << >> /\ Len(trace) <= MaxLog
  BY <1>1 DEF Reported
<1> QED
  BY <1>1, <1>2, EmptyRow DEF Reported

(* ... and the run starts with the first block of the first function.      *)
LEMMA StartReports ==
  ASSUME Shaped, Instrumented, Reported, Instrument, pc' = "run"
  PROVE  Reported'
<1>1. TraceExits
  <2>1. ~Gather
    BY DEF Gather
  <2>2. ~TraceEntrance
    BY DEF TraceEntrance
  <2>3. ~InsertPrepared
    BY DEF InsertPrepared
  <2> QED
    BY <2>1, <2>2, <2>3 DEF Instrument
<1>2. /\ pc = "end" /\ program' = program /\ trace' = trace
      /\ frames' = Start /\ ran' = << << "begin", 1 >>, << "bb", 1, 1 >> >>
  BY <1>1 DEF TraceExits
<1>3. trace = << >> /\ IsRow(trace) /\ Len(trace) <= MaxLog
  BY <1>2 DEF Reported
<1>4. PICK y, fs : y = [ f |-> 1, b |-> 1, k |-> 1 ] /\ fs = << y >> /\ fs = frames'
  BY <1>2 DEF Start
<1>5. PICK f : f = 1 /\ f \in 1 .. Len(program) /\ 1 \in 1 .. Len(Code(f)) /\ program \in Programs
  BY ProgramShape DEF Shaped
<1>6. IsFrame(y) /\ Progress(y, 1 + 1, 0)
  <2>1. IsFrame(y) /\ Progress(y, Enters(1) + 1, 0)
    BY <1>4, <1>5, EntryFrame
  <2> QED
    BY <2>1 DEF Enters
<1>7. IsStack(fs) /\ Last(fs) = y
  <2>1. IsRow(fs) /\ Len(fs) = 1 /\ fs[1] = y
    BY <1>4, OneRow
  <2>2. fs # << >> /\ Last(fs) = y
    BY <2>1, EmptyRow DEF Last
  <2>3. (1 .. Len(fs) - 1) = {} /\ \A n \in 1 .. Len(fs) : n = 1
    BY <2>1
  <2> QED
    BY <1>6, <2>1, <2>2, <2>3 DEF IsStack
<1>8. PICK r0 : r0 = << >>
  OBVIOUS
<1>9. Len(trace) = Len(r0) /\ IsRow(r0) /\ Agree(trace, r0)
  <2>1. Len(trace) = 0 /\ Len(r0) = 0 /\ IsRow(r0)
    BY <1>3, <1>8, EmptyRow
  <2> QED
    BY <2>1 DEF Agree
<1>10. Told(trace, r0, f, 1, 0, 0)
  BY <1>3, <1>9, NothingLeft
<1>11. PICK r1 : r1 = Append(r0, EventAt(f, 1, 0 + 1))
  OBVIOUS
<1>12. IsRow(r1) /\ Agree(trace, r1) /\ Told(trace, r1, f, 1, 0 + 1, 0)
  BY <1>3, <1>9, <1>10, <1>11, EventHappens
<1>13. PICK r : r = Append(r1, EventAt(f, 1, 1 + 1))
  OBVIOUS
<1>14. IsRow(r) /\ Agree(trace, r) /\ Told(trace, r, f, 1, 1 + 1, 0)
  <2>1. Told(trace, r1, f, 1, 1, 0)
    BY <1>12
  <2> QED
    BY <1>3, <1>12, <1>13, <2>1, EventHappens
<1>15. r = ran'
  <2>1. PICK u, v : u = << "begin", 1 >> /\ v = << "bb", 1, 1 >>
    OBVIOUS
  <2>2. u = EventAt(f, 1, 0 + 1) /\ v = EventAt(f, 1, 1 + 1)
    BY <1>5, <2>1, EntryEvents
  <2>3. Append(Append(<< >>, u), v) = << u, v >>
    <3>3. Append(<< >>, u) = << u >>
      <4>1. PICK o, t : o = << >> /\ t = Append(o, u)
        OBVIOUS
      <4>2. IsAppended(t, o, u) /\ Len(o) = 0
        BY <4>1, EmptyRow, RowAppend
      <4>3. IsRow(t) /\ Len(t) = 1 /\ t[1] = u
        BY <4>2 DEF IsAppended
      <4>4. IsRow(<< u >>) /\ Len(<< u >>) = 1 /\ << u >>[1] = u
        BY OneRow
      <4> QED
        BY <4>1, <4>3, <4>4, RowsEqual
    <3>4. Append(<< u >>, v) = << u, v >>
      <4>1. PICK o, t : o = << u >> /\ t = Append(o, v)
        OBVIOUS
      <4>2. IsAppended(t, o, v) /\ Len(o) = 1 /\ o[1] = u
        BY <4>1, OneRow, RowAppend
      <4>3. IsRow(t) /\ Len(t) = 2 /\ t[2] = v /\ t[1] = u
        BY <4>2 DEF IsAppended
      <4>4. IsRow(<< u, v >>) /\ Len(<< u, v >>) = 2 /\ << u, v >>[1] = u /\ << u, v >>[2] = v
        BY DEF IsRow
      <4>5. PICK w : w = << u, v >>
        OBVIOUS
      <4>6. \A n \in 1 .. 2 : n = 1 \/ n = 2
        OBVIOUS
      <4>7. \A n \in 1 .. 2 : t[n] = w[n]
        BY <4>3, <4>4, <4>5, <4>6
      <4>8. t = w
        BY <4>3, <4>4, <4>5, <4>7, RowsEqual
      <4> QED
        BY <4>1, <4>5, <4>8
    <3> QED
      BY <3>3, <3>4
  <2> QED
    BY <1>2, <1>8, <1>11, <1>13, <2>1, <2>2, <2>3
<1>16. y.f = f /\ y.b = 1
  BY <1>4, <1>5
<1>17. PICK c \in Nat, d \in Nat : c = 1 + 1 /\ d = 0
  OBVIOUS
<1>18. Told(trace, r, y.f, y.b, c, d) /\ Progress(y, c, d)
  BY <1>6, <1>14, <1>16, <1>17
<1>19. trace = trace'
  BY <1>2
<1> QED
  BY <1>2, <1>3, <1>4, <1>7, <1>14, <1>15, <1>18, <1>19, ReportedNext

(* Before the run. *)
LEMMA ReportBegins ==
  ASSUME Init
  PROVE  Reported
<1>1. pc = "gather" /\ trace = << >> /\ ran = << >>
  BY DEF Init, TraceGenInit
<1> QED
  BY <1>1, EmptyRow, ProgramsAssumption DEF Reported

(* Every step of the run keeps trace and run together. *)
LEMMA RunReports ==
  ASSUME Shaped, Instrumented, Reported, Run
  PROVE  Reported'
BY PutsReports, ComputeReports, CallReports, ExitReports, BranchReports, ReturnReports,
   StoppedReports DEF Run

(* The script reads the trace.                                             *)
LEMMA ScriptReports ==
  ASSUME Shaped, Reported, pc \in { "ended", "analyze" }, pc' = "analyze", program' = program,
         UNCHANGED runVars
  PROVE  Reported'
BY DEF Reported, runVars

(* What changes neither. *)
LEMMA OtherReports ==
  ASSUME Reported, UNCHANGED << program, pc, runVars >>
  PROVE  Reported'
<1>1. program' = program /\ pc' = pc /\ frames' = frames /\ trace' = trace /\ ran' = ran
  BY DEF runVars
<1>2. PICK fs, t, r, g : fs = frames /\ t = trace /\ r = ran /\ g = Frame
  OBVIOUS
<1>3. fs = frames' /\ t = trace' /\ r = ran' /\ g = Frame'
  BY <1>1, <1>2 DEF Frame
<1>4. CASE pc = "run"
  <2>1. /\ IsRow(t) /\ IsRow(r) /\ Len(t) <= MaxLog /\ IsStack(fs) /\ Agree(t, r) /\ g = Last(fs)
        /\ \E j, k \in Nat : Progress(g, j, k) /\ Told(t, r, g.f, g.b, j, k)
    BY <1>2, <1>4 DEF Reported, Frame
  <2>2. PICK j \in Nat, k \in Nat : Progress(g, j, k) /\ Told(t, r, g.f, g.b, j, k)
    BY <2>1
  <2> QED
    BY <1>1, <1>3, <1>4, <2>1, <2>2, ReportedNext
<1>5. CASE pc # "run"
  <2>1. Agree(t, r)' <=> Agree(t, r)
    BY <1>1, RunUnchanging
  <2>2. Agree(trace, ran)' <=> Agree(trace, ran)
    BY <1>2, <1>3, <2>1
  <2> QED
    BY <1>1, <1>5, <2>2 DEF Reported
<1> QED
  BY <1>4, <1>5

-----------------------------------------------------------------------------
(* What is claimed of the trace                                            *)

(* The invariant is enough for the history that is claimed. *)
LEMMA ReportTold ==
  ASSUME Shaped, Instrumented, Reported
  PROVE  LogsWhatRuns
<1> SUFFICES ASSUME pc \in { "run", "ended" }
             PROVE  /\ IsPrefix(trace, RanLines) \/ IsPrefix(RanLines, trace)
                    /\ Len(trace) <= Len(ran) + 2
                    /\ pc = "ended" /\ Len(trace) < MaxLog => trace = RanLines
  BY DEF LogsWhatRuns
<1>1. IsRow(trace) /\ IsRow(ran) /\ Agree(trace, ran)
  BY DEF Reported
<1>2. PICK lt \in Nat, lr \in Nat : lt = Len(trace) /\ lr = Len(ran)
  BY <1>1 DEF IsRow
<1>3. IsRow(RanLines) /\ Len(RanLines) = lr /\ \A n \in 1 .. lr : RanLines[n] = Text(ran[n])
  BY <1>2 DEF RanLines, IsRow
<1>4. \A n \in 1 .. lt : n <= lr => trace[n] = RanLines[n]
  BY <1>1, <1>2, <1>3 DEF Agree
<1>5. IsPrefix(trace, RanLines) \/ IsPrefix(RanLines, trace)
  <2>1. ASSUME NEW s, NEW t, IsRow(s), IsRow(t), NEW l \in Nat, NEW m \in Nat, l = Len(s), m = Len(t),
               l <= m, \A n \in 1 .. l : s[n] = t[n]
        PROVE  IsPrefix(s, t)
    <3>1. PICK u, v : u = SubSeq(s, 1, Len(s)) /\ v = SubSeq(t, 1, Len(s))
      OBVIOUS
    <3>2. 1 \in 1 .. l + 1 /\ l \in 1 - 1 .. l /\ 1 \in 1 .. m + 1 /\ l \in 1 - 1 .. m /\ l - 1 + 1 = l
      BY <2>1
    <3>3. IsRow(u) /\ Len(u) = l - 1 + 1 /\ \A n \in 1 .. l - 1 + 1 : u[n] = s[1 + n - 1]
      BY <2>1, <3>1, <3>2, RowSub
    <3>4. IsRow(v) /\ Len(v) = l - 1 + 1 /\ \A n \in 1 .. l - 1 + 1 : v[n] = t[1 + n - 1]
      BY <2>1, <3>1, <3>2, RowSub
    <3>5. \A n \in 1 .. l : 1 + n - 1 = n
      OBVIOUS
    <3>6. u = v
      BY <2>1, <3>2, <3>3, <3>4, <3>5, RowsEqual
    <3> QED
      BY <2>1, <3>1, <3>6 DEF IsPrefix
  <2>2. CASE lt <= lr
    BY <1>1, <1>2, <1>3, <1>4, <2>1, <2>2
  <2>3. CASE lr <= lt
    BY <1>1, <1>2, <1>3, <1>4, <2>1, <2>3
  <2> QED
    BY <1>2, <2>2, <2>3
<1>6. Len(trace) <= Len(ran) + 2
  <2>1. CASE pc = "ended"
    BY <2>1 DEF Reported
  <2>2. CASE pc = "run"
    <3>1. PICK g : g = Frame
      OBVIOUS
    <3>2. PICK j \in Nat, k \in Nat : Progress(g, j, k) /\ Told(trace, ran, g.f, g.b, j, k)
      BY <2>2, <3>1 DEF Reported
    <3>3. program \in Programs /\ g.f \in 1 .. Len(program) /\ g.b \in 1 .. Len(Code(g.f))
      BY <2>2, <3>1, Here
    <3>4. k <= j + 2
      BY <3>2, <3>3, Numbers, SpotBounds DEF Progress
    <3>5. lr - lt = j - k
      BY <1>2, <3>2 DEF Told
    <3> QED
      BY <1>2, <3>4, <3>5
  <2> QED
    BY <2>1, <2>2
<1>7. pc = "ended" /\ Len(trace) < MaxLog => trace = RanLines
  <2> SUFFICES ASSUME pc = "ended", Len(trace) < MaxLog PROVE trace = RanLines
    OBVIOUS
  <2>1. lt = lr
    BY <1>2 DEF Reported
  <2>2. PICK s, t : s = trace /\ t = RanLines
    OBVIOUS
  <2>3. IsRow(s) /\ IsRow(t) /\ Len(s) = lr /\ Len(t) = lr
    BY <1>1, <1>2, <1>3, <2>1, <2>2
  <2>5. \A n \in 1 .. lr : s[n] = t[n]
    BY <1>4, <2>1, <2>2
  <2>4. s = t
    BY <2>3, <2>5, RowsEqual
  <2> QED
    BY <2>2, <2>4
<1> QED
  BY <1>5, <1>6, <1>7

-----------------------------------------------------------------------------
(* The script *)

(* Nothing is counted that was not read, and no window from beyond the end. *)
Examined ==
  /\ result \in { "waiting", "reading", "counting", "printed", "died" }
  /\ result = "waiting" <=> pc # "analyze"
  /\ IsRow(input) /\ IsRow(opcodes) /\ IsRow(count) /\ pos \in Nat /\ window_sz \in Nat
  /\ Len(opcodes) <= Len(input) /\ Len(count) <= Len(input)
  /\ result = "waiting" => pos = 0 /\ input = << >> /\ opcodes = << >> /\ count = << >>
  /\ result = "reading" =>
       /\ pos <= Len(input) /\ Len(opcodes) <= pos /\ Len(count) <= pos
       /\ mode = "opcode" => count = << >>
  /\ result = "counting" =>
       pos <= Len(input) /\ Len(count) <= pos /\ total \in Int /\ total <= Len(input)

(* An occurrence counted. *)
LEMMA CountedRow ==
  ASSUME IsRow(count), NEW key, NEW c, c = Counted(key)
  PROVE  IsRow(c) /\ Len(c) <= Len(count) + 1
<1>1. CASE \E d \in 1 .. Len(count) : count[d].key = key
  <2>1. c = [ d \in 1 .. Len(count) |->
                IF count[d].key = key THEN [ count[d] EXCEPT !.count = @ + 1 ] ELSE count[d] ]
    BY <1>1 DEF Counted
  <2> QED
    BY <2>1 DEF IsRow
<1>2. CASE ~\E d \in 1 .. Len(count) : count[d].key = key
  <2>1. PICK x : x = [ key |-> key, count |-> 1 ]
    OBVIOUS
  <2>2. c = Append(count, x)
    BY <1>2, <2>1 DEF Counted
  <2>3. IsAppended(c, count, x)
    BY <2>2, RowAppend
  <2> QED
    BY <2>3 DEF IsAppended, IsRow
<1> QED
  BY <1>1, <1>2

(* Before the script is run. *)
LEMMA ScriptBegins ==
  ASSUME Init
  PROVE  Examined
BY EmptyRow DEF Init, TraceGenInit, Examined

(* A part of the trace is piped into the script. *)
LEMMA OptionsExamine ==
  ASSUME Examined, GetOptions
  PROVE  Examined'
<1>1. PICK file : \E from, to \in 1 .. Len(file) : from <= to /\ input' = SubSeq(file, from, to)
  BY DEF GetOptions
<1>2. PICK from \in 1 .. Len(file), to \in 1 .. Len(file) :
        from <= to /\ input' = SubSeq(file, from, to)
  BY <1>1
<1>3. PICK s : s = SubSeq(file, from, to)
  OBVIOUS
<1>4. IsRow(s)
  BY <1>2, <1>3 DEF IsRow
<1>5. /\ pc = "ended" /\ pc' = "analyze" /\ result' = "reading"
      /\ pos' = pos /\ opcodes' = opcodes /\ count' = count /\ window_sz' \in Nat
  BY DEF GetOptions
<1>6. pos = 0 /\ opcodes = << >> /\ count = << >>
  BY <1>5 DEF Examined
<1>7. Len(s) \in Nat /\ IsRow(input') /\ Len(input') = Len(s)
  BY <1>2, <1>3, <1>4 DEF IsRow
<1> QED
  BY <1>5, <1>6, <1>7, EmptyRow DEF Examined

(* A line is read and counted. *)
LEMMA PatternExamine ==
  ASSUME Examined, ReadPattern
  PROVE  Examined'
<1>1. /\ result = "reading" /\ mode # "opcode" /\ pos < Len(input) /\ pos' = pos + 1
      /\ result' = result /\ mode' = mode /\ input' = input /\ opcodes' = opcodes /\ pc' = pc
      /\ window_sz' = window_sz
  BY DEF ReadPattern, traceGenVars
<1>2. count' = count \/ count' = Counted(Line)
  BY DEF ReadPattern
<1>3. IsRow(count') /\ Len(count') <= Len(count) + 1
  <2>1. PICK c : c = count'
    OBVIOUS
  <2>2. CASE c = count
    BY <2>1, <2>2 DEF Examined, IsRow
  <2>3. CASE c = Counted(Line)
    BY <2>1, <2>3, CountedRow DEF Examined
  <2> QED
    BY <1>2, <2>1, <2>2, <2>3
<1>4. Len(input) \in Nat /\ Len(opcodes) \in Nat /\ Len(count) \in Nat /\ Len(count') \in Nat
  BY <1>3 DEF Examined, IsRow
<1> QED
  BY <1>1, <1>3, <1>4 DEF Examined

(* An opcode is read. *)
LEMMA OpcodeExamine ==
  ASSUME Examined, ReadOpcode
  PROVE  Examined'
<1>1. /\ result = "reading" /\ mode = "opcode" /\ pos < Len(input) /\ pos' = pos + 1
      /\ mode' = mode /\ input' = input /\ count' = count /\ pc' = pc
      /\ window_sz' = window_sz
  BY DEF ReadOpcode, traceGenVars
<1>2. \/ opcodes' = Append(opcodes, Line.op) /\ result' = result
      \/ result' \in { "died", "reading" } /\ opcodes' = opcodes
  <2>1. CASE Line.line = "instr"
    BY <2>1 DEF ReadOpcode
  <2>2. CASE Line.line = "more"
    BY <2>2 DEF ReadOpcode
  <2>3. CASE Line.line \notin { "instr", "more" }
    BY <1>1, <2>3 DEF ReadOpcode
  <2> QED
    BY <2>1, <2>2, <2>3
<1>3. IsRow(opcodes') /\ Len(opcodes') <= Len(opcodes) + 1
  <2>1. PICK c : c = opcodes'
    OBVIOUS
  <2>2. CASE c = opcodes
    BY <2>1, <2>2 DEF Examined, IsRow
  <2>3. CASE c = Append(opcodes, Line.op)
    <3>1. IsAppended(c, opcodes, Line.op)
      BY <2>3, RowAppend DEF Examined
    <3> QED
      BY <2>1, <3>1 DEF IsAppended, Examined, IsRow
  <2> QED
    BY <1>2, <2>1, <2>2, <2>3
<1>4. Len(input) \in Nat /\ Len(opcodes) \in Nat /\ Len(count) \in Nat /\ Len(opcodes') \in Nat
  BY <1>3 DEF Examined, IsRow
<1> QED
  BY <1>1, <1>2, <1>3, <1>4 DEF Examined

(* The number of windows is taken from the opcodes that were read. *)
LEMMA SequencesExamine ==
  ASSUME Examined, CountSequences
  PROVE  Examined'
<1>1. /\ result = "reading" /\ mode = "opcode" /\ pos = Len(input) /\ pos' = 0
      /\ total' = Len(opcodes) - 1 - window_sz /\ result' = "counting"
      /\ mode' = mode /\ input' = input /\ count' = count /\ opcodes' = opcodes /\ pc' = pc
      /\ window_sz' = window_sz
  BY DEF CountSequences, traceGenVars
<1>2. Len(input) \in Nat /\ Len(opcodes) \in Nat /\ Len(count) = 0 /\ window_sz \in Nat
  BY <1>1, EmptyRow DEF Examined, IsRow
<1>3. total' \in Int /\ total' <= Len(input)
  BY <1>1, <1>2 DEF Examined
<1> QED
  BY <1>1, <1>2, <1>3 DEF Examined

(* A window is counted. *)
LEMMA WindowExamine ==
  ASSUME Examined, CountWindow
  PROVE  Examined'
<1>1. /\ result = "counting" /\ pos < total /\ pos' = pos + 1
      /\ result' = result /\ mode' = mode /\ input' = input /\ opcodes' = opcodes /\ pc' = pc
      /\ window_sz' = window_sz /\ total' = total
  BY DEF CountWindow, traceGenVars
<1>2. IsRow(count') /\ Len(count') <= Len(count) + 1
  <2>1. PICK c, key : c = count' /\ c = Counted(key)
    BY DEF CountWindow
  <2> QED
    BY <2>1, CountedRow DEF Examined
<1>3. Len(input) \in Nat /\ Len(opcodes) \in Nat /\ Len(count) \in Nat /\ Len(count') \in Nat
  BY <1>2 DEF Examined, IsRow
<1> QED
  BY <1>1, <1>2, <1>3 DEF Examined

(* The list is printed. *)
LEMMA PrintExamine ==
  ASSUME Examined, PrettyPrint
  PROVE  Examined'
<1>1. /\ result \in { "reading", "counting" } /\ result' = "printed"
      /\ input' = input /\ opcodes' = opcodes /\ count' = count /\ pc' = pc
      /\ window_sz' = window_sz /\ pos' = pos
  BY DEF PrettyPrint, traceGenVars
<1> QED
  BY <1>1 DEF Examined

(* Nothing else touches what the script has. *)
LEMMA OtherExamine ==
  ASSUME Examined, UNCHANGED analyzeVars, pc # "analyze" <=> pc' # "analyze"
  PROVE  Examined'
BY DEF Examined, analyzeVars

(* Nothing changes when nothing happens. *)
LEMMA StutterKeeps ==
  ASSUME Shaped, Instrumented, program' = program, pc' = pc, ir' = ir, F' = F, bb' = bb,
         TraceCalls' = TraceCalls
  PROVE  Shaped' /\ Instrumented'
<1>1. /\ \A f : Code(f)' = Code(f)
      /\ \A f, b : Size(f, b)' = Size(f, b) /\ Exits(f, b)' = Exits(f, b)
      /\ \A f, b, i : Prepare(f, b, i)' = Prepare(f, b, i)
      /\ \A B, f, b, c, e, r : LaidOut(B, f, b, c, e, r)' <=> LaidOut(B, f, b, c, e, r)
  BY Unchanging
<1>2. Shaped'
  BY <1>1 DEF Shaped
<1>3. \A f, b, c, e, r : Laid(f, b, c, e, r)' <=> Laid(f, b, c, e, r)
  <2> TAKE f, b, c, e, r
  <2>1. PICK B : B = ir[f][b]
    OBVIOUS
  <2>2. B = ir'[f][b] /\ (LaidOut(B, f, b, c, e, r)' <=> LaidOut(B, f, b, c, e, r))
    BY <1>1, <2>1
  <2> QED
    BY <2>1, <2>2 DEF Laid
<1>4. \A f : Traced(f)' <=> Traced(f)
  <2> TAKE f
  <2>1. \A b : Size(f, b)' = Size(f, b) /\ Exits(f, b)' = Exits(f, b) /\ Enters(b)' = Enters(b)
    BY <1>1 DEF Enters
  <2>2. ASSUME NEW b
        PROVE  Laid(f, b, Size(f, b) + 1, Enters(b), Exits(f, b))'
                 <=> Laid(f, b, Size(f, b) + 1, Enters(b), Exits(f, b))
    <3>1. PICK c, e, r : c = Size(f, b) + 1 /\ e = Enters(b) /\ r = Exits(f, b)
      OBVIOUS
    <3>2. c = (Size(f, b) + 1)' /\ e = Enters(b)' /\ r = Exits(f, b)'
      BY <2>1, <3>1
    <3>3. Laid(f, b, c, e, r)' <=> Laid(f, b, c, e, r)
      BY <1>3
    <3> QED
      BY <3>1, <3>2, <3>3
  <2> QED
    BY <1>1, <2>2 DEF Traced
<1>5. \A a, c, z : Queue(a, c, z)' <=> Queue(a, c, z)
  <2> TAKE a, c, z
  <2>1. \A off : Queued(off, a, c, z)' <=> Queued(off, a, c, z)
    <3> TAKE off
    <3>1. PICK g : g = F
      OBVIOUS
    <3>2. \A b : Size(g, b)' = Size(g, b) /\ \A i : Prepare(g, b, i)' = Prepare(g, b, i)
      BY <1>1
    <3>3. \A b : Size(F, b)' = Size(F, b) /\ \A i : Prepare(F, b, i)' = Prepare(F, b, i)
      BY <3>1, <3>2
    <3> QED
      BY <3>3 DEF Queued
  <2> QED
    BY <2>1 DEF Queue
<1>6. PICK g : g = F /\ g = F'
  OBVIOUS
<1>7. /\ Len(Code(F))' = Len(Code(F))
      /\ \A b : Size(F, b)' = Size(F, b) /\ Exits(F, b)' = Exits(F, b) /\ Enters(b)' = Enters(b)
  <2>1. Code(g)' = Code(g) /\ \A b : Size(g, b)' = Size(g, b) /\ Exits(g, b)' = Exits(g, b)
    BY <1>1
  <2> QED
    BY <1>6, <2>1 DEF Enters
<1>8. \A a, c : InsertedUpTo(a, c)' <=> InsertedUpTo(a, c)
  <2> TAKE a, c
  <2>1. ASSUME NEW b
        PROVE  Laid(F, b, IF b < a THEN Size(F, b) + 1 ELSE IF b = a THEN c ELSE 0, Enters(b), 0)'
                 <=> Laid(F, b, IF b < a THEN Size(F, b) + 1 ELSE IF b = a THEN c ELSE 0, Enters(b), 0)
    <3>1. PICK d, e, r : d = (IF b < a THEN Size(F, b) + 1 ELSE IF b = a THEN c ELSE 0)
                         /\ e = Enters(b) /\ r = 0
      OBVIOUS
    <3>2. d = (IF b < a THEN Size(F, b) + 1 ELSE IF b = a THEN c ELSE 0)' /\ e = Enters(b)'
      BY <1>7, <3>1
    <3>3. Laid(g, b, d, e, r)' <=> Laid(g, b, d, e, r)
      BY <1>3
    <3> QED
      BY <1>6, <3>1, <3>2, <3>3
  <2> QED
    BY <1>7, <2>1 DEF InsertedUpTo
<1>9. ir'[F'] = ir[F] /\ Code(F)' = Code(F)
  BY <1>1, <1>6
<1> QED
  BY <1>1, <1>2, <1>3, <1>4, <1>5, <1>7, <1>8, <1>9 DEF Instrumented

-----------------------------------------------------------------------------
(* What is claimed of the code                                             *)

(* However far the pass has come, a block is laid out in some way. *)
IsLaid(B, f, b) ==
  \E c \in 0 .. Size(f, b) + 1, e \in 0 .. 1, r \in 0 .. 1 :
    (r = 1 => c = Size(f, b) + 1) /\ LaidOut(B, f, b, c, e, r)

(* Laid out in any way, a block has its phi nodes first. *)
LEMMA PhisStayFirst ==
  ASSUME program \in Programs, NEW f \in 1 .. Len(program), NEW b \in 1 .. Len(Code(f)),
         NEW B, IsLaid(B, f, b), NEW j \in 2 .. Len(B), B[j].op = "phi"
  PROVE  B[j - 1].op = "phi"
<1>1. PICK c \in 0 .. Size(f, b) + 1, e \in 0 .. 1, r \in 0 .. 1 :
        (r = 1 => c = Size(f, b) + 1) /\ LaidOut(B, f, b, c, e, r)
  BY DEF IsLaid
<1> DEFINE n == Size(f, b)
           h == Phis(f, b)
<1>2. n \in Nat \ { 0 } /\ h \in 0 .. n - 1
  BY LayoutNumbers
<1>3. /\ Len(B) = n + c + e + r
      /\ \A m \in 1 .. n : B[InstrAt(h, n, m, c, e, r)] = Code(f)[b][m]
      /\ \A i \in 1 .. c : B[CallAt(h, i, e)] = CallPuts(Text(EventAt(f, b, Enters(b) + i)))
      /\ e = 1 => B[h + 1] = CallPuts(beginFunction(f))
      /\ r = 1 => B[Len(B) - 1] = CallPuts(endFunction(f))
  BY <1>1 DEF LaidOut
<1>4. \A x : CallPuts(x).op = "puts"
  BY DEF CallPuts
<1>5. \A m \in 1 .. n : Code(f)[b][m].op = "phi" <=> m <= h
  BY PhisShape
<1> HIDE DEF n, h
<1>6. IsPlace(h, n, c, e, r, j)
  <2>1. j \in 1 .. n + c + e + r /\ (r = 1 => c = n + 1) /\ c \in 0 .. n + 1
    BY <1>1, <1>2, <1>3 DEF n
  <2> QED
    BY <1>1, <1>2, <2>1, PlacesCover
<1>7. PICK m \in 1 .. n : j = InstrAt(h, n, m, c, e, r)
  <2>1. \A i \in 1 .. c : j # CallAt(h, i, e)
    BY <1>3, <1>4
  <2>2. ~(e = 1 /\ j = h + 1)
    BY <1>3, <1>4
  <2>3. ~(r = 1 /\ j = n + c + e + r - 1)
    <3>1. Len(B) - 1 = n + c + e + r - 1
      <4>1. Len(B) = n + c + e + r
        BY <1>3
      <4>2. n \in Int /\ c \in Int /\ e \in Int /\ r \in Int
        BY <1>1, <1>2
      <4>3. ASSUME NEW l, NEW x \in Int, l = x PROVE l - 1 = x - 1
        BY <4>3
      <4>4. PICK x \in Int : x = n + c + e + r
        BY <4>2
      <4>5. Len(B) - 1 = x - 1
        BY <4>1, <4>3, <4>4
      <4>6. x - 1 = n + c + e + r - 1
        BY <4>2, <4>4
      <4> QED
        BY <4>5, <4>6
    <3> QED
      BY <1>3, <1>4, <3>1
  <2> QED
    BY <1>6, <2>1, <2>2, <2>3 DEF IsPlace
<1>8. Code(f)[b][m].op = "phi"
  BY <1>3, <1>7
<1>9. m <= h /\ j = m
  BY <1>2, <1>5, <1>7, <1>8 DEF InstrAt
<1>10. j - 1 \in 1 .. n /\ j - 1 <= h
  BY <1>2, <1>9
<1>11. InstrAt(h, n, j - 1, c, e, r) = j - 1
  BY <1>10 DEF InstrAt
<1> QED
  BY <1>3, <1>5, <1>10, <1>11

(* Every block is laid out, throughout the pass and the run. *)
LEMMA AlwaysLaid ==
  ASSUME Shaped, Instrumented, NEW f \in 1 .. Len(program), NEW b \in 1 .. Len(Code(f))
  PROVE  IsLaid(ir[f][b], f, b)
<1>1. program \in Programs /\ F \in 1 .. Len(program) /\ Len(program) \in Nat
      /\ pc \in { "gather", "begin", "insert", "end", "run", "ended", "analyze" }
  BY ProgramShape DEF Shaped
<1>2. PICK n \in Nat \ { 0 } : n = Size(f, b) /\ Enters(b) \in 0 .. 1 /\ Exits(f, b) \in 0 .. 1
  BY <1>1, LayoutNumbers
<1>3. PICK o : o = 0 /\ o \in 0 .. 1 /\ o \in 0 .. n + 1
  BY <1>2
<1>4. ASSUME ir[f] = Code(f) PROVE IsLaid(ir[f][b], f, b)
  <2>1. LaidOut(ir[f][b], f, b, o, o, o)
    BY <1>1, <1>3, <1>4, FreshLayout
  <2> QED
    BY <1>2, <1>3, <2>1 DEF IsLaid
<1>5. ASSUME Traced(f) PROVE IsLaid(ir[f][b], f, b)
  <2>1. LaidOut(ir[f][b], f, b, Size(f, b) + 1, Enters(b), Exits(f, b))
    BY <1>5 DEF Traced, Laid
  <2>2. Size(f, b) + 1 \in 0 .. Size(f, b) + 1
    BY <1>2
  <2> QED
    BY <1>2, <2>1, <2>2 DEF IsLaid
<1>6. CASE pc \in { "run", "ended", "analyze" }
  BY <1>5, <1>6 DEF Instrumented
<1>7. CASE pc \notin { "run", "ended", "analyze" } /\ f # F
  <2>1. f \in 1 .. F - 1 \/ f \in F + 1 .. Len(program)
    BY <1>1, <1>7
  <2>2. CASE f \in 1 .. F - 1
    BY <1>5, <1>7, <2>2 DEF Instrumented
  <2>3. CASE f \in F + 1 .. Len(program)
    <3>1. f \notin 1 .. F - 1
      BY <1>1, <2>3
    <3> QED
      BY <1>4, <1>7, <2>3, <3>1 DEF Instrumented
  <2> QED
    BY <2>1, <2>2, <2>3
<1>8. CASE pc \in { "gather", "begin" } /\ f = F
  BY <1>4, <1>8 DEF Instrumented
<1>9. CASE pc = "insert" /\ f = F
  <2>1. PICK a \in 1 .. Len(Code(F)) + 1, d \in Nat :
          d <= (IF a = Len(Code(F)) + 1 THEN 0 ELSE Size(F, a)) /\ InsertedUpTo(a, d)
    BY <1>9 DEF Instrumented
  <2>2. PICK c : c = IF b < a THEN Size(F, b) + 1 ELSE IF b = a THEN d ELSE 0
    OBVIOUS
  <2>3. LaidOut(ir[f][b], f, b, c, Enters(b), o)
    BY <1>3, <1>9, <2>1, <2>2 DEF InsertedUpTo, Laid
  <2>4. c \in 0 .. Size(f, b) + 1
    <3>1. b = a => a # Len(Code(F)) + 1
      <4>1. b \in 1 .. Len(Code(F)) /\ Len(Code(F)) \in Nat
        BY <1>1, <1>9, ProgramShape
      <4> QED
        BY <4>1
    <3> QED
      BY <1>2, <1>9, <2>1, <2>2, <3>1
  <2> QED
    BY <1>2, <1>3, <2>3, <2>4 DEF IsLaid
<1>10. CASE pc = "end" /\ f = F
  <2>1. PICK r : r = IF b < bb THEN Exits(F, b) ELSE 0
    OBVIOUS
  <2>2. LaidOut(ir[f][b], f, b, Size(f, b) + 1, Enters(b), r)
    BY <1>10, <2>1 DEF Instrumented, Laid
  <2>3. Size(f, b) + 1 \in 0 .. Size(f, b) + 1 /\ r \in 0 .. 1
    BY <1>2, <1>10, <2>1
  <2> QED
    BY <1>2, <2>2, <2>3 DEF IsLaid
<1> QED
  BY <1>1, <1>6, <1>7, <1>8, <1>9, <1>10

(* Every frame of the stack is at an instruction. *)
LEMMA FrameInside ==
  ASSUME Shaped, Instrumented, Reported, pc = "run", NEW i \in 1 .. Len(frames), NEW g, g = frames[i]
  PROVE  /\ g.f \in 1 .. Len(program) /\ g.b \in 1 .. Len(ir[g.f])
         /\ g.k \in 1 .. Len(ir[g.f][g.b])
<1>1. program \in Programs /\ IsStack(frames) /\ Len(frames) \in Nat \ { 0 }
      /\ Frame = frames[Len(frames)]
  BY StackTop DEF Reported, Shaped, Frame
<1>2. g.f \in 1 .. Len(program) /\ g.b \in 1 .. Len(Code(g.f)) /\ Len(ir[g.f]) = Len(Code(g.f))
  BY <1>1 DEF IsStack, IsFrame, Shaped
<1>3. PICK n \in Nat \ { 0 }, h \in Nat, e \in 0 .. 1, r \in 0 .. 1 :
        h \in 0 .. n - 1 /\ n = Size(g.f, g.b) /\ h = Phis(g.f, g.b) /\ e = Enters(g.b) /\ r = Exits(g.f, g.b)
  BY <1>1, <1>2, Numbers
<1>4. Len(ir[g.f][g.b]) = n + (n + 1) + e + r
  <2>1. LaidOut(ir[g.f][g.b], g.f, g.b, Size(g.f, g.b) + 1, Enters(g.b), Exits(g.f, g.b))
    BY <1>2 DEF Instrumented, Traced, Laid
  <2> QED
    BY <1>3, <2>1 DEF LaidOut
<1>5. g.k \in 1 .. 2 * n + 1 + e + r
  <2>1. CASE i = Len(frames)
    <3>1. PICK j, k : Progress(g, j, k)
      BY <1>1, <2>1 DEF Reported
    <3> QED
      BY <1>3, <3>1, SpotBounds DEF Progress
  <2>2. CASE i # Len(frames)
    <3>1. i \in 1 .. Len(frames) - 1
      BY <1>1, <2>2
    <3>2. Waits(g)
      BY <1>1, <3>1 DEF IsStack
    <3> QED
      BY <1>3, <3>2, SpotOfWaiting DEF Waits
  <2> QED
    BY <2>1, <2>2
<1>6. n + (n + 1) + e + r = 2 * n + 1 + e + r
  BY <1>3
<1>7. g.k \in 1 .. Len(ir[g.f][g.b])
  BY <1>4, <1>5, <1>6
<1> QED
  BY <1>2, <1>7

(* The invariant is enough for the type invariant. *)
LEMMA AllInside ==
  ASSUME Shaped, Instrumented, Reported, Examined
  PROVE  TypeOK
<1>1. /\ program \in Programs /\ F \in 1 .. Len(program) /\ bb \in 1 .. Len(Code(F))
      /\ DOMAIN ir = 1 .. Len(program) /\ Len(program) \in Nat
      /\ \A f \in 1 .. Len(program) : Len(ir[f]) = Len(Code(f))
  BY ProgramShape DEF Shaped
<1>2. Len(ir) = Len(program)
  BY <1>1
<1>3. ASSUME NEW f \in 1 .. Len(ir), NEW b \in 1 .. Len(ir[f]), NEW k \in 2 .. Len(ir[f][b]),
             ir[f][b][k].op = "phi"
      PROVE  ir[f][b][k - 1].op = "phi"
  <2>1. f \in 1 .. Len(program) /\ b \in 1 .. Len(Code(f))
    BY <1>1, <1>2
  <2>2. PICK B : B = ir[f][b]
    OBVIOUS
  <2>3. IsLaid(B, f, b)
    BY <2>1, <2>2, AlwaysLaid
  <2> QED
    BY <1>1, <1>3, <2>1, <2>2, <2>3, PhisStayFirst
<1>4. F \in 1 .. Len(program) /\ bb \in 1 .. Len(ir[F])
  BY <1>1
<1>5. pc \in { "run", "ended" } => TraceCalls = << >>
  BY DEF Instrumented
<1>6. ASSUME pc = "run", NEW n \in 1 .. Len(frames)
      PROVE  /\ frames[n].f \in 1 .. Len(program)
             /\ frames[n].b \in 1 .. Len(ir[frames[n].f])
             /\ frames[n].k \in 1 .. Len(ir[frames[n].f][frames[n].b])
  <2>1. PICK g : g = frames[n]
    OBVIOUS
  <2> QED
    BY <1>6, <2>1, FrameInside
<1>7. Len(trace) <= MaxLog
  BY DEF Reported
<1>8. /\ result \in { "reading", "counting" } => pos <= Len(input)
      /\ Len(opcodes) <= Len(input) /\ Len(count) <= Len(input)
      /\ result = "waiting" <=> pc # "analyze"
  BY DEF Examined
<1> QED
  BY <1>3, <1>4, <1>5, <1>6, <1>7, <1>8 DEF TypeOK

-----------------------------------------------------------------------------
(* The inductive invariant *)

IInv == Shaped /\ Instrumented /\ Reported /\ Examined

(* The invariant holds at first, ... *)
LEMMA Initially == Init => IInv
BY ShapeBegins, ReportBegins, ScriptBegins DEF IInv

(* ... every step of the pass and of the run keeps it, ... *)
LEMMA GenerateKeeps ==
  ASSUME IInv, Generate
  PROVE  IInv'
<1>1. Shaped /\ Instrumented /\ Reported /\ Examined /\ UNCHANGED analyzeVars
  BY DEF IInv, Generate
<1>2. CASE Instrument
  <2>1. Shaped' /\ Instrumented'
    BY <1>1, <1>2, GatherKeeps, EntranceKeeps, InsertKeeps, ExitsKeep DEF Instrument
  <2>2. Reported'
    BY <1>1, <1>2, PassReports, StartReports
  <2>3. pc # "analyze" /\ pc' # "analyze"
    <3>1. Gather \/ TraceEntrance \/ InsertPrepared => pc # "analyze" /\ pc' # "analyze"
      BY DEF Gather, TraceEntrance, InsertPrepared
    <3>2. TraceExits => pc # "analyze" /\ pc' # "analyze"
      BY DEF TraceExits
    <3> QED
      BY <1>2, <3>1, <3>2 DEF Instrument
  <2> QED
    BY <1>1, <2>1, <2>2, <2>3, OtherExamine DEF IInv
<1>3. CASE Run
  <2>1. /\ pc = "run" /\ pc' \in { "run", "ended" } /\ program' = program /\ UNCHANGED passVars
    <3>1. Puts \/ Compute \/ Call \/ Exit \/ Branch => pc = "run" /\ pc' \in { "run", "ended" }
                                                   /\ program' = program /\ UNCHANGED passVars
      BY DEF Puts, Compute, Call, Exit, Branch, Running
    <3>2. Return => pc = "run" /\ pc' \in { "run", "ended" }
                    /\ program' = program /\ UNCHANGED passVars
      BY DEF Return, Running
    <3>3. Stopped => pc = "run" /\ pc' \in { "run", "ended" }
                     /\ program' = program /\ UNCHANGED passVars
      BY DEF Stopped
    <3> QED
      BY <1>3, <3>1, <3>2, <3>3 DEF Run
  <2>2. Shaped' /\ Instrumented'
    BY <1>1, <2>1, ShapeStays
  <2>3. Reported'
    BY <1>1, <1>3, RunReports
  <2>4. pc # "analyze" /\ pc' # "analyze"
    BY <2>1
  <2> QED
    BY <1>1, <2>2, <2>3, <2>4, OtherExamine DEF IInv
<1> QED
  BY <1>2, <1>3 DEF Generate

(* ... every step of the script ... *)
LEMMA AnalyzeKeeps ==
  ASSUME IInv, Analyze
  PROVE  IInv'
<1>1. Shaped /\ Instrumented /\ Reported /\ Examined
  BY DEF IInv
<1>2. Examined'
  BY <1>1, OptionsExamine, PatternExamine, OpcodeExamine, SequencesExamine, WindowExamine,
     PrintExamine DEF Analyze
<1>3. /\ pc \in { "ended", "analyze" } /\ pc' = "analyze" /\ program' = program
      /\ UNCHANGED passVars /\ UNCHANGED runVars
  <2>1. CASE GetOptions
    BY <2>1 DEF GetOptions
  <2>2. CASE ~GetOptions
    <3>1. result # "waiting"
      BY <2>2 DEF Analyze, ReadPattern, ReadOpcode, CountSequences, CountWindow, PrettyPrint
    <3>2. pc = "analyze"
      BY <1>1, <3>1 DEF Examined
    <3>3. UNCHANGED traceGenVars
      BY <2>2 DEF Analyze, ReadPattern, ReadOpcode, CountSequences, CountWindow, PrettyPrint
    <3> QED
      BY <3>2, <3>3 DEF traceGenVars
  <2> QED
    BY <2>1, <2>2
<1>4. Shaped' /\ Instrumented'
  <2>1. pc \in { "run", "ended", "analyze" } /\ pc' \in { "run", "ended", "analyze" }
    BY <1>3
  <2> QED
    BY <1>1, <1>3, <2>1, ShapeStays
<1>5. Reported'
  BY <1>1, <1>3, ScriptReports
<1> QED
  BY <1>2, <1>4, <1>5 DEF IInv

(* ... and every step at all. *)
LEMMA Inductive == IInv /\ [Next]_vars => IInv'
<1> SUFFICES ASSUME IInv, [Next]_vars
             PROVE  IInv'
  OBVIOUS
<1>1. CASE UNCHANGED vars
  <2>1. UNCHANGED << program, pc, runVars >> /\ UNCHANGED passVars /\ UNCHANGED analyzeVars
    BY <1>1 DEF vars, traceGenVars
  <2>2. Reported' /\ Examined'
    BY <2>1, OtherReports, OtherExamine DEF IInv
  <2>3. Shaped' /\ Instrumented'
    <3>1. program' = program /\ pc' = pc /\ ir' = ir /\ F' = F /\ bb' = bb /\ TraceCalls' = TraceCalls
      BY <2>1 DEF passVars
    <3> QED
      BY <3>1, StutterKeeps DEF IInv
  <2> QED
    BY <2>2, <2>3 DEF IInv
<1>2. CASE Generate
  BY <1>2, GenerateKeeps
<1>3. CASE Analyze
  BY <1>3, AnalyzeKeeps
<1>4. CASE Done
  BY <1>1, <1>4 DEF Done
<1> QED
  BY <1>1, <1>2, <1>3, <1>4 DEF Next

(* The inductive invariant holds throughout: every block is laid out as far *)
(* as the pass of trace/TraceGenPass.cpp has come, the calls that wait are *)
(* those still to be inserted, the run is at a place where its two         *)
(* histories differ by what that place says, and the script has counted no *)
(* more than it has read.                                                  *)
THEOREM Invariant == Spec => []IInv
BY Initially, Inductive, PTL DEF Spec

(* The code the pass of trace/TraceGenPass.cpp leaves has its phi nodes    *)
(* first, the run stays in it, and analyze.pl stays inside its input, for  *)
(* every program the verifier accepts and every length of the trace.       *)
THEOREM TraceTypeOK == Spec => []TypeOK
<1>1. IInv => TypeOK
  BY AllInside DEF IInv
<1> QED
  BY <1>1, Invariant, PTL

(* The trace that a program instrumented by trace/TraceGenPass.cpp writes  *)
(* is the history of its run, each event reported once, in order and under *)
(* the name it had before, for every program, of any number of functions,  *)
(* blocks and instructions, and wherever the run is stopped.               *)
THEOREM TraceLogsWhatRuns == Spec => []LogsWhatRuns
<1>1. IInv => LogsWhatRuns
  BY ReportTold DEF IInv
<1> QED
  BY <1>1, Invariant, PTL

-----------------------------------------------------------------------------
(* Recursion, and sequences of sequences                                    *)

(* A sequence of values can be computed one from the other. *)
IsComputed(g, n, S, b, h) ==
  g \in [ 0 .. n -> S ] /\ g[0] = b /\ \A l \in 1 .. n : g[l] = h[<< l, g[l - 1] >>]

(* There is one for every rule. *)
LEMMA ByRecursion ==
  ASSUME NEW n \in Nat, NEW S, NEW b \in S, NEW h, h \in [ (1 .. n) \X S -> S ]
  PROVE  \E g : IsComputed(g, n, S, b, h)
<1> DEFINE Is(g, m) == g \in [ 0 .. m -> S ] /\ g[0] = b
                       /\ \A l \in 1 .. m : g[l] = h[<< l, g[l - 1] >>]
<1> DEFINE T == { m \in 0 .. n : ~ \E g : Is(g, m) }
<1>1. T = {}
  <2> SUFFICES ASSUME T # {} PROVE FALSE
    OBVIOUS
  <2>1. PICK m \in T : \A x \in T : m <= x
    <3> HIDE DEF Is
    <3>1. T \subseteq Nat
      OBVIOUS
    <3> HIDE DEF T
    <3> QED
      BY <3>1, Least
  <2>2. m \in 0 .. n /\ ~ \E g : Is(g, m)
    <3> HIDE DEF Is
    <3> QED
      BY <2>1
  <2>3. CASE m = 0
    <3> DEFINE g == [ l \in 0 .. 0 |-> b ]
    <3>1. Is(g, 0)
      OBVIOUS
    <3> HIDE DEF Is
    <3> QED
      BY <2>2, <2>3, <3>1
  <2>4. CASE m # 0
    <3>1. m - 1 \in 0 .. n /\ m \in 1 .. n /\ m - 1 \notin T
      <4> HIDE DEF Is
      <4> QED
        BY <2>1, <2>4
    <3>2. PICK f : Is(f, m - 1)
      <4> HIDE DEF Is
      <4> QED
        BY <3>1
    <3>3. PICK y \in S : y = h[<< m, f[m - 1] >>]
      <4>1. m - 1 \in 0 .. m - 1 /\ f[m - 1] \in S
        BY <3>1, <3>2
      <4>2. << m, f[m - 1] >> \in (1 .. n) \X S
        BY <3>1, <4>1
      <4> QED
        BY <4>2
    <3> DEFINE g == [ l \in 0 .. m |-> IF l = m THEN y ELSE f[l] ]
    <3>4. g \in [ 0 .. m -> S ]
      BY <3>1, <3>2, <3>3
    <3>5. \A l \in 0 .. m - 1 : g[l] = f[l]
      BY <3>1
    <3>6. g[m] = y /\ g[0] = b
      BY <3>1, <3>2
    <3>7. ASSUME NEW l \in 1 .. m PROVE g[l] = h[<< l, g[l - 1] >>]
      <4>1. CASE l = m
        <5>1. g[m - 1] = f[m - 1]
          BY <3>1, <3>5
        <5> HIDE DEF g
        <5> QED
          BY <3>3, <3>6, <4>1, <5>1
      <4>2. CASE l # m
        <5>1. l \in 1 .. m - 1 /\ l - 1 \in 0 .. m - 1 /\ l \in 0 .. m - 1
          BY <3>1, <4>2
        <5>2. g[l - 1] = f[l - 1] /\ g[l] = f[l]
          BY <3>5, <5>1
        <5> HIDE DEF g
        <5> QED
          BY <3>2, <5>1, <5>2
      <4> QED
        BY <4>1, <4>2
    <3> HIDE DEF g
    <3>8. Is(g, m)
      BY <3>4, <3>6, <3>7
    <3> HIDE DEF Is
    <3> QED
      BY <2>2, <3>8
  <2> QED
    BY <2>3, <2>4
<1>2. n \in 0 .. n
  OBVIOUS
<1>3. \E g : Is(g, n)
  <2> HIDE DEF Is
  <2> QED
    BY <1>1, <1>2
<1> QED
  BY <1>3 DEF IsComputed

(* What flattening a row of rows is built from, ... *)
Joined(ss) ==
  LET flatten[i \in 1 .. Len(ss)] == IF i = 1 THEN ss[i] ELSE flatten[i - 1] \o ss[i]
  IN  flatten

(* ... is what its recursive equation says, ... *)
LEMMA JoinedDef ==
  ASSUME NEW ss, IsRow(ss), \A i \in 1 .. Len(ss) : IsRow(ss[i]), Len(ss) # 0
  PROVE  Joined(ss) = [ i \in 1 .. Len(ss) |-> IF i = 1 THEN ss[i] ELSE Joined(ss)[i - 1] \o ss[i] ]
<1>1. PICK n \in Nat : n = Len(ss)
  BY DEF IsRow
<1> DEFINE X == UNION { { ss[i][j] : j \in 1 .. Len(ss[i]) } : i \in 1 .. n }
<1>2. \A i \in 1 .. n : ss[i] \in Seq(X)
  <2> TAKE i \in 1 .. n
  <2>1. ss[i] \in Seq({ ss[i][j] : j \in 1 .. Len(ss[i]) })
    BY <1>1, RowSeq
  <2>2. { ss[i][j] : j \in 1 .. Len(ss[i]) } \subseteq X
    OBVIOUS
  <2> HIDE DEF X
  <2> QED
    BY <2>1, <2>2, SeqMonotonic
<1> HIDE DEF X
<1>3. PICK S : S = Seq(X)
  OBVIOUS
<1>10. PICK q \in Nat : q = n - 1
  BY <1>1
<1> DEFINE h == [ p \in (1 .. q) \X S |-> p[2] \o ss[p[1] + 1] ]
<1>4. h \in [ (1 .. q) \X S -> S ]
  <2> SUFFICES ASSUME NEW p \in (1 .. q) \X S PROVE p[2] \o ss[p[1] + 1] \in S
    OBVIOUS
  <2>1. p[1] \in 1 .. n - 1 /\ p[2] \in Seq(X)
    BY <1>3, <1>10
  <2>2. ss[p[1] + 1] \in Seq(X)
    BY <1>1, <1>2, <2>1
  <2> QED
    BY <1>3, <2>1, <2>2, ConcatProperties
<1>5. PICK b \in S : b = ss[1]
  BY <1>1, <1>2, <1>3
<1>6. PICK g \in [ 0 .. q -> S ] :
        g[0] = ss[1] /\ \A l \in 1 .. q : g[l] = h[<< l, g[l - 1] >>]
  <2> HIDE DEF h
  <2>1. PICK g : IsComputed(g, q, S, b, h)
    BY <1>4, ByRecursion
  <2> QED
    BY <1>5, <2>1 DEF IsComputed
<1> DEFINE f == [ i \in 1 .. n |-> g[i - 1] ]
<1>7. ASSUME NEW i \in 1 .. n PROVE f[i] = IF i = 1 THEN ss[i] ELSE f[i - 1] \o ss[i]
  <2>1. CASE i = 1
    BY <1>6, <2>1
  <2>2. CASE i # 1
    <3>1. i - 1 \in 1 .. q /\ i - 1 - 1 \in 0 .. q /\ i - 1 + 1 = i /\ i - 1 \in 1 .. n
      BY <1>1, <1>10, <2>2
    <3>2. PICK a \in S : a = g[i - 1 - 1]
      BY <3>1
    <3>3. PICK m \in 1 .. q : m = i - 1
      BY <3>1
    <3>4. << m, a >> \in (1 .. q) \X S
      BY <3>2, <3>3
    <3>5. g[m] = h[<< m, a >>]
      BY <1>6, <3>2, <3>3
    <3>6. h[<< m, a >>] = a \o ss[m + 1]
      BY <3>4
    <3>7. f[i] = g[m] /\ f[i - 1] = a
      BY <3>1, <3>2, <3>3
    <3> HIDE DEF f, h
    <3> QED
      BY <2>2, <3>1, <3>3, <3>5, <3>6, <3>7
  <2> QED
    BY <2>1, <2>2
<1>8. f = [ i \in 1 .. n |-> f[i] ]
  OBVIOUS
<1> HIDE DEF f
<1>9. f = [ i \in 1 .. Len(ss) |-> IF i = 1 THEN ss[i] ELSE f[i - 1] \o ss[i] ]
  BY <1>1, <1>7, <1>8
<1> QED
  BY <1>9, Zenon DEF Joined

(* ... namely a row whose elements are theirs. *)
IsFlattened(t, ss) ==
  /\ IsRow(t)
  /\ \A l \in 1 .. Len(t) : \E i \in 1 .. Len(ss) : \E j \in 1 .. Len(ss[i]) : t[l] = ss[i][j]

(* FlattenSeq makes one of them. *)
LEMMA Flattened ==
  ASSUME NEW ss, IsRow(ss), \A i \in 1 .. Len(ss) : IsRow(ss[i]), NEW t, t = FlattenSeq(ss)
  PROVE  IsFlattened(t, ss)
<1>1. PICK n \in Nat : n = Len(ss)
  BY DEF IsRow
<1>2. CASE n = 0
  <2>1. t = ss
    BY <1>1, <1>2 DEF FlattenSeq
  <2>2. IsRow(t) /\ Len(t) = 0
    <3>1. Len(ss) = 0
      BY <1>1, <1>2
    <3> QED
      BY <2>1, <3>1
  <2> QED
    BY <2>2 DEF IsFlattened
<1>3. CASE n # 0
  <2>1. t = Joined(ss)[n]
    BY <1>1, <1>3, Zenon DEF FlattenSeq, Joined
  <2>2. PICK f : f = Joined(ss)
    OBVIOUS
  <2>3. \A i \in 1 .. n : f[i] = IF i = 1 THEN ss[i] ELSE f[i - 1] \o ss[i]
    <3>1. Joined(ss) = [ i \in 1 .. Len(ss) |-> IF i = 1 THEN ss[i] ELSE Joined(ss)[i - 1] \o ss[i] ]
      BY <1>1, <1>3, JoinedDef
    <3>2. f = [ i \in 1 .. n |-> IF i = 1 THEN ss[i] ELSE f[i - 1] \o ss[i] ]
      BY <1>1, <2>2, <3>1
    <3> QED
      BY <3>2
  <2> DEFINE Of(s) == \A l \in 1 .. Len(s) :
               \E i \in 1 .. Len(ss) : \E j \in 1 .. Len(ss[i]) : s[l] = ss[i][j]
  <2> DEFINE T == { i \in 1 .. n : ~(IsRow(f[i]) /\ Of(f[i])) }
  <2>4. T = {}
    <3> SUFFICES ASSUME T # {} PROVE FALSE
      OBVIOUS
    <3>1. PICK m \in T : \A x \in T : m <= x
      <4> HIDE DEF Of
      <4>1. T \subseteq Nat
        OBVIOUS
      <4> HIDE DEF T
      <4> QED
        BY <4>1, Least
    <3>2. m \in 1 .. n /\ ~(IsRow(f[m]) /\ Of(f[m]))
      <4> HIDE DEF Of
      <4> QED
        BY <3>1
    <3>3. IsRow(ss[m]) /\ Of(ss[m])
      BY <1>1, <3>2
    <3>4. CASE m = 1
      <4>1. f[m] = ss[m]
        BY <2>3, <3>2, <3>4
      <4> HIDE DEF Of
      <4> QED
        BY <3>2, <3>3, <4>1
    <3>5. CASE m # 1
      <4>1. m - 1 \in 1 .. n /\ m - 1 \notin T
        <5> HIDE DEF Of
        <5> QED
          BY <3>1, <3>2, <3>5
      <4>2. PICK a, c : a = f[m - 1] /\ c = f[m]
        OBVIOUS
      <4>3. IsRow(a) /\ Of(a)
        <5> HIDE DEF Of
        <5> QED
          BY <4>1, <4>2
      <4>4. c = a \o ss[m]
        BY <2>3, <3>2, <3>5, <4>2
      <4>5. PICK d : d = ss[m]
        OBVIOUS
      <4>6. /\ IsRow(c) /\ Len(c) = Len(a) + Len(d)
            /\ \A j \in 1 .. Len(a) : c[j] = a[j]
            /\ \A j \in 1 .. Len(d) : c[Len(a) + j] = d[j]
        <5>1. IsRow(a) /\ IsRow(d) /\ c = a \o d
          BY <3>3, <4>3, <4>4, <4>5
        <5> HIDE DEF Of
        <5>2. IsRow(c) /\ Len(c) = Len(a) + Len(d)
          BY <5>1, RowJoined
        <5>3. \A j \in 1 .. Len(a) : c[j] = a[j]
          BY <5>1, RowJoined
        <5>4. \A j \in 1 .. Len(d) : c[Len(a) + j] = d[j]
          BY <5>1, RowJoined
        <5> QED
          BY <5>2, <5>3, <5>4
      <4>7. Of(c)
        <5> SUFFICES ASSUME NEW l \in 1 .. Len(c)
                     PROVE  \E i \in 1 .. Len(ss) : \E j \in 1 .. Len(ss[i]) : c[l] = ss[i][j]
          OBVIOUS
        <5>1. Len(a) \in Nat /\ Len(d) \in Nat
          BY <3>3, <4>3, <4>5 DEF IsRow
        <5>2. CASE l <= Len(a)
          <6>1. l \in 1 .. Len(a) /\ c[l] = a[l]
            BY <4>6, <5>1, <5>2
          <6> QED
            BY <4>3, <6>1
        <5>3. CASE ~(l <= Len(a))
          <6>1. PICK j \in 1 .. Len(d) : Len(a) + j = l
            <7>1. l - Len(a) \in 1 .. Len(d) /\ Len(a) + (l - Len(a)) = l
              BY <4>6, <5>1, <5>3
            <7> QED
              BY <7>1
          <6>2. c[l] = ss[m][j] /\ j \in 1 .. Len(ss[m])
            BY <4>5, <4>6, <6>1
          <6> QED
            BY <1>1, <3>2, <6>2
        <5> QED
          BY <5>2, <5>3
      <4> HIDE DEF Of
      <4> QED
        BY <3>2, <4>2, <4>6, <4>7
    <3> QED
      BY <3>4, <3>5
  <2>5. n \in 1 .. n
    BY <1>3
  <2>6. IsRow(f[n]) /\ Of(f[n])
    <3> HIDE DEF Of
    <3> QED
      BY <2>4, <2>5
  <2>7. PICK e : e = f[n] /\ e = t
    BY <2>1, <2>2
  <2>8. IsRow(e) /\ Of(e)
    <3> HIDE DEF Of
    <3> QED
      BY <2>6, <2>7
  <2>9. IsFlattened(e, ss)
    BY <2>8 DEF IsFlattened
  <2> QED
    BY <2>7, <2>9
<1> QED
  BY <1>2, <1>3

-----------------------------------------------------------------------------
(* Sorting                                                                 *)

IsCounts(s) == IsRow(s) /\ \A c \in 1 .. Len(s) : s[c].count \in Nat

(* The entries that come before one, and how many these are. *)
Preceding(s, d) == { c \in 1 .. Len(s) : MoreFrequent(s, c, d) }
Rank(s, d)      == Cardinality(Preceding(s, d))

(* Entries are in one order or the other. *)
LEMMA OrderTotal ==
  ASSUME NEW s, IsCounts(s), NEW c \in 1 .. Len(s), NEW d \in 1 .. Len(s)
  PROVE  /\ MoreFrequent(s, c, d) \/ MoreFrequent(s, d, c) \/ c = d
         /\ ~MoreFrequent(s, c, c)
         /\ \A x \in 1 .. Len(s) :
              MoreFrequent(s, x, c) /\ MoreFrequent(s, c, d) => MoreFrequent(s, x, d)
         /\ MoreFrequent(s, c, d) => s[c].count >= s[d].count
<1>1. Len(s) \in Nat /\ c \in Int /\ d \in Int /\ s[c].count \in Nat /\ s[d].count \in Nat
  BY DEF IsCounts, IsRow
<1>2. MoreFrequent(s, c, d) \/ MoreFrequent(s, d, c) \/ c = d
  BY <1>1 DEF MoreFrequent
<1>3. ~MoreFrequent(s, c, c)
  BY <1>1 DEF MoreFrequent
<1>4. ASSUME NEW x \in 1 .. Len(s), MoreFrequent(s, x, c), MoreFrequent(s, c, d)
      PROVE  MoreFrequent(s, x, d)
  <2>1. s[x].count \in Nat /\ x \in Int
    BY <1>1 DEF IsCounts
  <2> QED
    BY <1>1, <1>4, <2>1 DEF MoreFrequent
<1>5. MoreFrequent(s, c, d) => s[c].count >= s[d].count
  BY <1>1 DEF MoreFrequent
<1> QED
  BY <1>2, <1>3, <1>4, <1>5

(* An interval from 1 has as many elements as its last says. *)
LEMMA IntervalSize ==
  ASSUME NEW l \in Nat, NEW S, S = 1 .. l
  PROVE  IsFiniteSet(S) /\ Cardinality(S) = l
<1>1. PICK o \in Int, n \in Int : o = 1 /\ n = l
  OBVIOUS
<1>2. S = o .. n
  BY <1>1
<1>3. IsFiniteSet(o .. n)
  BY FS_Interval
<1>4. Cardinality(o .. n) = IF o > n THEN 0 ELSE n - o + 1
  BY FS_Interval
<1>5. Cardinality(o .. n) = l
  BY <1>1, <1>4
<1> QED
  BY <1>2, <1>3, <1>5

(* The rank of an entry is that of one of as many places. *)
LEMMA RankBound ==
  ASSUME NEW s, IsCounts(s), NEW d \in 1 .. Len(s)
  PROVE  IsFiniteSet(Preceding(s, d)) /\ Rank(s, d) \in 0 .. Len(s) - 1
<1>1. PICK n \in Nat : n = Len(s)
  BY DEF IsCounts, IsRow
<1>2. PICK I : I = 1 .. n
  OBVIOUS
<1>5. IsFiniteSet(I) /\ Cardinality(I) = n /\ d \in I
  BY <1>1, <1>2, IntervalSize
<1>6. IsFiniteSet(I \ { d }) /\ Cardinality(I \ { d }) = n - 1
  BY <1>5, FS_RemoveElement
<1>7. Preceding(s, d) \in SUBSET (I \ { d })
  BY <1>1, <1>2, OrderTotal DEF Preceding
<1>8. IsFiniteSet(Preceding(s, d)) /\ Cardinality(Preceding(s, d)) <= Cardinality(I \ { d })
  BY <1>6, <1>7, FS_Subset
<1>9. Cardinality(Preceding(s, d)) \in Nat
  BY <1>8, FS_CardinalityType
<1> QED
  BY <1>1, <1>6, <1>8, <1>9 DEF Rank

(* The earlier the entry, the lower its rank. *)
LEMMA RankLess ==
  ASSUME NEW s, IsCounts(s), NEW c \in 1 .. Len(s), NEW d \in 1 .. Len(s), MoreFrequent(s, c, d)
  PROVE  Rank(s, c) < Rank(s, d)
<1>1. Preceding(s, c) \in SUBSET Preceding(s, d)
  BY OrderTotal DEF Preceding
<1>2. c \in Preceding(s, d) /\ c \notin Preceding(s, c)
  BY OrderTotal DEF Preceding
<1>3. /\ IsFiniteSet(Preceding(s, d))
      /\ Rank(s, c) \in 0 .. Len(s) - 1 /\ Rank(s, d) \in 0 .. Len(s) - 1
  BY RankBound
<1>4. Cardinality(Preceding(s, c)) <= Cardinality(Preceding(s, d))
  BY <1>1, <1>3, FS_Subset
<1>5. Cardinality(Preceding(s, d)) # Cardinality(Preceding(s, c))
  BY <1>1, <1>2, <1>3, FS_Subset
<1> QED
  BY <1>3, <1>4, <1>5 DEF Rank

(* Every rank is one of exactly one entry. *)
LEMMA RankOnto ==
  ASSUME NEW s, IsCounts(s), NEW n \in 1 .. Len(s)
  PROVE  \E d \in 1 .. Len(s) : /\ Rank(s, d) = n - 1
                                /\ \A c \in 1 .. Len(s) : Rank(s, c) = n - 1 => c = d
<1>1. PICK l \in Nat : l = Len(s)
  BY DEF IsCounts, IsRow
<1>2. \A c, d \in 1 .. l : Rank(s, c) \in 0 .. l - 1 /\ (Rank(s, c) = Rank(s, d) => c = d)
  <2> SUFFICES ASSUME NEW c \in 1 .. l, NEW d \in 1 .. l
               PROVE  Rank(s, c) \in 0 .. l - 1 /\ (Rank(s, c) = Rank(s, d) => c = d)
    OBVIOUS
  <2>1. Rank(s, c) \in 0 .. l - 1 /\ Rank(s, d) \in 0 .. l - 1
    BY <1>1, RankBound
  <2>2. MoreFrequent(s, c, d) \/ MoreFrequent(s, d, c) \/ c = d
    BY <1>1, OrderTotal
  <2>3. MoreFrequent(s, c, d) => Rank(s, c) < Rank(s, d)
    BY <1>1, RankLess
  <2>4. MoreFrequent(s, d, c) => Rank(s, d) < Rank(s, c)
    BY <1>1, RankLess
  <2> QED
    BY <2>1, <2>2, <2>3, <2>4
<1> DEFINE f == [ d \in 1 .. l |-> Rank(s, d) ]
<1>3. PICK S, T : S = 1 .. l /\ T = 0 .. l - 1
  OBVIOUS
<1>4. IsFiniteSet(S) /\ IsFiniteSet(T) /\ Cardinality(S) = l /\ Cardinality(T) = l
  <2>1. IsFiniteSet(S) /\ Cardinality(S) = l
    BY <1>3, IntervalSize
  <2>2. l # 0
    BY <1>1
  <2>3. PICK z \in Int, m \in Int : z = 0 /\ m = l - 1
    OBVIOUS
  <2>4. IsFiniteSet(z .. m)
    BY FS_Interval
  <2>5. Cardinality(z .. m) = IF z > m THEN 0 ELSE m - z + 1
    BY FS_Interval
  <2>6. Cardinality(z .. m) = l /\ T = z .. m
    BY <1>3, <2>2, <2>3, <2>5
  <2> QED
    BY <2>1, <2>4, <2>6
<1>5. f \in [ S -> T ] /\ \A c, d \in S : f[c] = f[d] => c = d
  BY <1>2, <1>3
<1>6. f \in Injection(S, T)
  BY <1>5 DEF Injection, IsInjective
<1> HIDE DEF f
<1>7. f \in Surjection(S, T)
  BY <1>4, <1>6, FS_Injection
<1>8. n - 1 \in T
  BY <1>1, <1>3
<1>9. PICK d \in S : f[d] = n - 1
  BY <1>7, <1>8 DEF Surjection
<1>10. d \in 1 .. l /\ Rank(s, d) = n - 1
  BY <1>3, <1>9 DEF f
<1> QED
  BY <1>1, <1>2, <1>10

(* So that sorting puts every entry at its rank. *)
IsRanked(t, s, l) ==
  /\ IsRow(t) /\ Len(t) = l
  /\ \A n \in 1 .. l : \E d \in 1 .. l : Rank(s, d) = n - 1 /\ t[n] = s[d]
  /\ \A d \in 1 .. l : Rank(s, d) + 1 \in 1 .. l /\ t[Rank(s, d) + 1] = s[d]

(* Every entry is at the place its rank says. *)
LEMMA SortedAt ==
  ASSUME NEW s, IsCounts(s), NEW t, t = Sorted(s)
  PROVE  IsRanked(t, s, Len(s))
<1>1. PICK l \in Nat : l = Len(s)
  BY DEF IsCounts, IsRow
<1>2. t = [ n \in 1 .. l |-> s[CHOOSE d \in 1 .. l : Rank(s, d) = n - 1] ]
  BY <1>1 DEF Sorted, Rank, Preceding
<1>3. IsRow(t) /\ Len(t) = l
  BY <1>2 DEF IsRow
<1>4. ASSUME NEW n \in 1 .. l
      PROVE  \E d \in 1 .. l : /\ Rank(s, d) = n - 1 /\ t[n] = s[d]
                               /\ \A c \in 1 .. l : Rank(s, c) = n - 1 => c = d
  <2>1. PICK d \in 1 .. l : /\ Rank(s, d) = n - 1
                            /\ \A c \in 1 .. l : Rank(s, c) = n - 1 => c = d
    BY <1>1, RankOnto
  <2>2. (CHOOSE x \in 1 .. l : Rank(s, x) = n - 1) = d
    BY <2>1
  <2>3. t[n] = s[CHOOSE x \in 1 .. l : Rank(s, x) = n - 1]
    BY <1>2
  <2> QED
    BY <2>1, <2>2, <2>3
<1>5. ASSUME NEW d \in 1 .. l
      PROVE  Rank(s, d) + 1 \in 1 .. l /\ t[Rank(s, d) + 1] = s[d]
  <2>1. PICK r \in 0 .. l - 1 : r = Rank(s, d)
    BY <1>1, RankBound
  <2>2. PICK n : n = r + 1 /\ n \in 1 .. l /\ n - 1 = r
    BY <1>1, <2>1
  <2>3. t[n] = s[d]
    BY <1>4, <2>1, <2>2
  <2> QED
    BY <2>1, <2>2, <2>3
<1> QED
  BY <1>1, <1>3, <1>4, <1>5 DEF IsRanked

(* What is printed is in order, and what is not is no more frequent. *)
LEMMA CutInOrder ==
  ASSUME NEW s, IsCounts(s), output_sz \in Int, NEW u, u = SortAndCut(s)
  PROVE  /\ IsRow(u)
         /\ \A n \in 2 .. Len(u) : u[n - 1].count >= u[n].count
         /\ \A c \in 1 .. Len(s) : \/ \E n \in 1 .. Len(u) : u[n] = s[c]
                                   \/ \A n \in 1 .. Len(u) : u[n].count >= s[c].count
<1>1. PICK l \in Nat : l = Len(s)
  BY DEF IsCounts, IsRow
<1>2. PICK t : t = Sorted(s)
  OBVIOUS
<1>10. IsRanked(t, s, l)
  BY <1>1, <1>2, SortedAt
<1>3. IsRow(t) /\ Len(t) = l
  BY <1>10 DEF IsRanked
<1>4. \A n \in 1 .. l : \E d \in 1 .. l : Rank(s, d) = n - 1 /\ t[n] = s[d]
  BY <1>10 DEF IsRanked
<1>5. \A d \in 1 .. l : Rank(s, d) + 1 \in 1 .. l /\ t[Rank(s, d) + 1] = s[d]
  BY <1>10 DEF IsRanked
<1>6. ASSUME NEW m \in 1 .. l, NEW n \in 1 .. l, m <= n
      PROVE  t[m].count >= t[n].count
  <2>1. PICK c \in 1 .. l : Rank(s, c) = m - 1 /\ t[m] = s[c]
    BY <1>4
  <2>2. PICK d \in 1 .. l : Rank(s, d) = n - 1 /\ t[n] = s[d]
    BY <1>4
  <2>3. MoreFrequent(s, c, d) \/ MoreFrequent(s, d, c) \/ c = d
    BY <1>1, OrderTotal
  <2>4. CASE MoreFrequent(s, d, c)
    <3>1. Rank(s, d) < Rank(s, c)
      BY <1>1, <2>4, RankLess
    <3> QED
      BY <1>6, <2>1, <2>2, <3>1
  <2>5. CASE MoreFrequent(s, c, d)
    <3>1. s[c].count >= s[d].count
      BY <1>1, <2>5, OrderTotal
    <3> QED
      BY <2>1, <2>2, <3>1
  <2>6. CASE c = d
    <3>1. s[c].count \in Nat
      BY <1>1 DEF IsCounts
    <3> QED
      BY <2>1, <2>2, <2>6, <3>1
  <2> QED
    BY <2>3, <2>4, <2>5, <2>6
<1>7. PICK k \in 0 .. l : IsRow(u) /\ Len(u) = k /\ \A n \in 1 .. k : u[n] = t[n]
  <2>1. CASE output_sz > 0 /\ l - 1 > output_sz
    <3>1. u = SubSeq(t, 1, output_sz) /\ output_sz \in 0 .. l
      BY <1>1, <1>2, <2>1 DEF SortAndCut
    <3>2. PICK x, o : x = output_sz /\ o = 1 /\ o \in 1 .. l + 1 /\ x \in o - 1 .. l /\ x - o + 1 = x
      BY <1>1, <3>1
    <3>3. u = SubSeq(t, o, x)
      BY <3>1, <3>2
    <3>4. IsRow(u) /\ Len(u) = x - o + 1 /\ \A j \in 1 .. x - o + 1 : u[j] = t[o + j - 1]
      BY <1>3, <3>2, <3>3, RowSub
    <3>5. x \in 0 .. l /\ \A j \in 1 .. x : o + j - 1 = j
      BY <1>1, <3>2
    <3> QED
      BY <3>2, <3>4, <3>5
  <2>2. CASE ~(output_sz > 0 /\ l - 1 > output_sz)
    <3>1. u = t
      BY <1>1, <1>2, <2>2 DEF SortAndCut
    <3>2. l \in 0 .. l
      BY <1>1
    <3> QED
      BY <1>3, <3>1, <3>2
  <2> QED
    BY <2>1, <2>2
<1>8. ASSUME NEW n \in 2 .. k PROVE u[n - 1].count >= u[n].count
  <2>1. n \in 1 .. l /\ n - 1 \in 1 .. l /\ n \in 1 .. k /\ n - 1 \in 1 .. k /\ n - 1 <= n
    BY <1>1, <1>7
  <2> QED
    BY <1>6, <1>7, <2>1
<1>9. ASSUME NEW c \in 1 .. l
      PROVE  \/ \E n \in 1 .. k : u[n] = s[c]
             \/ \A n \in 1 .. k : u[n].count >= s[c].count
  <2>1. PICK m \in 1 .. l : t[m] = s[c]
    BY <1>5
  <2>2. CASE m <= k
    <3>1. m \in 1 .. k
      BY <1>7, <2>2
    <3> QED
      BY <1>7, <2>1, <3>1
  <2>3. CASE ~(m <= k)
    <3>1. ASSUME NEW n \in 1 .. k PROVE n \in 1 .. l /\ n <= m
      BY <1>1, <1>7, <2>3
    <3> QED
      BY <1>6, <1>7, <2>1, <3>1
  <2> QED
    BY <2>2, <2>3
<1> QED
  BY <1>1, <1>7, <1>8, <1>9

-----------------------------------------------------------------------------
(* Counting                                                                *)

Units(s) == UNION { { c } \X (1 .. s[c].count) : c \in 1 .. Len(s) }
Occurrences(S, k, key) == { l \in S : k[l] = key }

(* What was counted are the keys k of the places S, each at one entry.     *)
Entry(key, n) == [ key |-> key, count |-> n ]
IsEntry(e, S, k) ==
  /\ e = Entry(e.key, e.count)
  /\ e.count = Cardinality(Occurrences(S, k, e.key))
IsTally(c, S, k) ==
  /\ IsRow(c) /\ IsFiniteSet(S) /\ IsFiniteSet(Units(c))
  /\ \A i \in 1 .. Len(c) : IsEntry(c[i], S, k)
  /\ \A i, j \in 1 .. Len(c) : c[i].key = c[j].key => i = j
  /\ \A l \in S : \E i \in 1 .. Len(c) : c[i].key = k[l]

(* An entry has the key and the count it is made of. *)
LEMMA EntryFields == \A a, b : Entry(a, b).key = a /\ Entry(a, b).count = b
BY DEF Entry

(* Nothing is counted at first. *)
LEMMA TallyEmpty ==
  ASSUME NEW k, NEW c, c = << >>, NEW S, S = {}
  PROVE  IsTally(c, S, k) /\ Sum(c) = 0
<1>1. IsRow(c) /\ Len(c) = 0 /\ 1 .. Len(c) = {}
  <2>1. IsRow(c) /\ Len(c) = 0
    BY EmptyRow
  <2> QED
    BY <2>1
<1>2. Units(c) = {}
  BY <1>1 DEF Units
<1>3. IsFiniteSet({}) /\ Cardinality({}) = 0
  BY FS_EmptySet
<1>4. Sum(c) = 0
  BY <1>2, <1>3 DEF Sum, Units
<1>5. IsFiniteSet(S) /\ IsFiniteSet(Units(c))
  BY <1>2, <1>3
<1> QED
  BY <1>1, <1>4, <1>5 DEF IsTally

(* A unit is one of an entry. *)
IsUnit(p, s) == \E i \in 1 .. Len(s) : \E n \in 1 .. s[i].count : p = << i, n >>

(* There are no other units. *)
LEMMA UnitOf ==
  ASSUME NEW s, NEW p
  PROVE  p \in Units(s) <=> IsUnit(p, s)
<1>1. p \in Units(s) <=> \E i \in 1 .. Len(s) : p \in { i } \X (1 .. s[i].count)
  BY Zenon DEF Units
<1>2. ASSUME NEW i PROVE p \in { i } \X (1 .. s[i].count) <=> \E n \in 1 .. s[i].count : p = << i, n >>
  OBVIOUS
<1> QED
  BY <1>1, <1>2 DEF IsUnit

(* The occurrences of a key at one place more. *)
LEMMA OccurrencesNext ==
  ASSUME NEW S, IsFiniteSet(S), NEW k, NEW x, x \notin S, NEW key, NEW T, T = S \cup { x }
  PROVE  /\ Cardinality(Occurrences(S, k, key)) \in Nat
         /\ Cardinality(Occurrences(T, k, key))
              = Cardinality(Occurrences(S, k, key)) + IF k[x] = key THEN 1 ELSE 0
<1>1. PICK O : O = Occurrences(S, k, key)
  OBVIOUS
<1>2. O \in SUBSET S
  BY <1>1 DEF Occurrences
<1>3. IsFiniteSet(O)
  BY <1>2, FS_Subset
<1>4. Cardinality(O) \in Nat
  BY <1>3, FS_CardinalityType
<1>5. CASE k[x] = key
  <2>1. Occurrences(T, k, key) = O \cup { x } /\ x \notin O
    BY <1>1, <1>5 DEF Occurrences
  <2>2. Cardinality(O \cup { x }) = Cardinality(O) + 1
    BY <1>3, <2>1, FS_AddElement
  <2> QED
    BY <1>1, <1>4, <1>5, <2>1, <2>2
<1>6. CASE k[x] # key
  <2>1. Occurrences(T, k, key) = O
    BY <1>1, <1>6 DEF Occurrences
  <2> QED
    BY <1>1, <1>4, <1>6, <2>1
<1> QED
  BY <1>5, <1>6

(* A count has an entry's place. *)
LEMMA EntryNumber ==
  ASSUME NEW S, IsFiniteSet(S), NEW k, NEW e, IsEntry(e, S, k)
  PROVE  e.count \in Nat
<1>1. PICK O : O = Occurrences(S, k, e.key)
  OBVIOUS
<1>2. O \in SUBSET S
  BY <1>1 DEF Occurrences
<1>3. IsFiniteSet(O)
  BY <1>2, FS_Subset
<1>4. Cardinality(O) \in Nat
  BY <1>3, FS_CardinalityType
<1> QED
  BY <1>1, <1>4 DEF IsEntry

(* A tally has numbers for its counts. *)
LEMMA TallyCounts ==
  ASSUME NEW c, NEW S, NEW k, IsTally(c, S, k)
  PROVE  IsCounts(c)
<1>1. IsRow(c) /\ IsFiniteSet(S) /\ \A i \in 1 .. Len(c) : IsEntry(c[i], S, k)
  BY DEF IsTally
<1>2. ASSUME NEW i \in 1 .. Len(c) PROVE c[i].count \in Nat
  <2>1. PICK e : e = c[i]
    OBVIOUS
  <2>2. IsEntry(e, S, k)
    BY <1>1, <2>1
  <2>3. e.count \in Nat
    BY <1>1, <2>2, EntryNumber
  <2> QED
    BY <2>1, <2>3
<1> QED
  BY <1>1, <1>2 DEF IsCounts

(* One more unit. *)
LEMMA SumNext ==
  ASSUME NEW s, NEW t, IsFiniteSet(Units(s)), NEW p, p \notin Units(s), Units(t) = Units(s) \cup { p }
  PROVE  IsFiniteSet(Units(t)) /\ Sum(t) = Sum(s) + 1 /\ Sum(s) \in Nat
<1>1. PICK U : U = Units(s) /\ IsFiniteSet(U)
  OBVIOUS
<1>2. IsFiniteSet(U \cup { p }) /\ Cardinality(U \cup { p }) = Cardinality(U) + 1
  BY <1>1, FS_AddElement
<1>3. Cardinality(U) \in Nat
  BY <1>1, FS_CardinalityType
<1> QED
  BY <1>1, <1>2, <1>3 DEF Sum, Units

(* What counting one occurrence more makes of the entry d. *)
IsRaised(c, s, d) ==
  /\ IsRow(c) /\ Len(c) = Len(s)
  /\ \A i \in 1 .. Len(s) :
       c[i] = Entry(s[i].key, IF i = d THEN s[i].count + 1 ELSE s[i].count)

(* Counted does that for a key it knows. *)
LEMMA Raised ==
  ASSUME NEW S, NEW k, NEW s, IsTally(s, S, k), NEW key, NEW d \in 1 .. Len(s), s[d].key = key,
         NEW c, c = [ i \in 1 .. Len(s) |->
                        IF s[i].key = key THEN [ s[i] EXCEPT !.count = @ + 1 ] ELSE s[i] ]
  PROVE  IsRaised(c, s, d)
<1>1. /\ IsRow(s)
      /\ \A i \in 1 .. Len(s) : IsEntry(s[i], S, k)
      /\ \A i, j \in 1 .. Len(s) : s[i].key = s[j].key => i = j
  BY DEF IsTally
<1>3. PICK n \in Nat : n = Len(s)
  BY <1>1 DEF IsRow
<1>4. IsRow(c) /\ Len(c) = n
  BY <1>3 DEF IsRow
<1>5. ASSUME NEW i \in 1 .. n
      PROVE  c[i] = Entry(s[i].key, IF i = d THEN s[i].count + 1 ELSE s[i].count)
  <2>1. PICK e, a, b : e = s[i] /\ a = e.key /\ b = e.count /\ e = Entry(a, b)
    BY <1>1, <1>3 DEF IsEntry
  <2>2. s[i].key = key <=> i = d
    BY <1>1, <1>3
  <2>3. c[i] = IF i = d THEN [ e EXCEPT !.count = @ + 1 ] ELSE e
    BY <1>3, <2>1, <2>2
  <2>4. [ e EXCEPT !.count = @ + 1 ] = Entry(a, b + 1)
    BY <2>1 DEF Entry
  <2> QED
    BY <2>1, <2>3, <2>4
<1> QED
  BY <1>3, <1>4, <1>5 DEF IsRaised

(* A tally of one occurrence more. *)
IsNext(c, s, T, k) == IsTally(c, T, k) /\ Sum(c) = Sum(s) + 1 /\ Sum(s) \in Nat

(* One occurrence more is counted, at the entry of its key ... *)
LEMMA TallyKnown ==
  ASSUME NEW S, NEW k, NEW x, x \notin S, NEW s, IsTally(s, S, k), NEW key, key = k[x],
         NEW d \in 1 .. Len(s), s[d].key = key, NEW T, T = S \cup { x },
         NEW c, IsRaised(c, s, d)
  PROVE  IsNext(c, s, T, k)
<1>1. /\ IsRow(s) /\ IsFiniteSet(S) /\ IsFiniteSet(Units(s))
      /\ \A i \in 1 .. Len(s) : IsEntry(s[i], S, k)
      /\ \A i, j \in 1 .. Len(s) : s[i].key = s[j].key => i = j
      /\ \A l \in S : \E i \in 1 .. Len(s) : s[i].key = k[l]
  BY DEF IsTally
<1>2. IsCounts(s)
  BY TallyCounts
<1>3. PICK n \in Nat : n = Len(s)
  BY <1>1 DEF IsRow
<1>4. IsRow(c) /\ Len(c) = n
  BY <1>3 DEF IsRaised
<1>5. \A i \in 1 .. n : c[i] = Entry(s[i].key, IF i = d THEN s[i].count + 1 ELSE s[i].count)
  BY <1>3 DEF IsRaised
<1>6. \A i \in 1 .. n : c[i].key = s[i].key
  BY <1>5, EntryFields
<1>7. ASSUME NEW i \in 1 .. n
      PROVE  /\ s[i].count \in Nat
             /\ c[i].count = IF i = d THEN s[i].count + 1 ELSE s[i].count
  BY <1>2, <1>3, <1>5, EntryFields DEF IsCounts
<1>8. ASSUME NEW i \in 1 .. n PROVE IsEntry(c[i], T, k)
  <2>1. PICK a, b : a = s[i].key /\ b = s[i].count
    OBVIOUS
  <2>2. b = Cardinality(Occurrences(S, k, a))
    BY <1>1, <1>3, <2>1 DEF IsEntry
  <2>3. /\ Cardinality(Occurrences(S, k, a)) \in Nat
        /\ Cardinality(Occurrences(T, k, a))
             = Cardinality(Occurrences(S, k, a)) + IF k[x] = a THEN 1 ELSE 0
    BY <1>1, OccurrencesNext
  <2>4. k[x] = a <=> i = d
    BY <1>1, <1>3, <2>1
  <2>5. c[i].count = Cardinality(Occurrences(T, k, a))
    <3>1. CASE i = d
      BY <1>7, <2>1, <2>2, <2>3, <2>4, <3>1
    <3>2. CASE i # d
      <4>1. c[i].count = b /\ Cardinality(Occurrences(T, k, a)) = Cardinality(Occurrences(S, k, a)) + 0
        BY <1>7, <2>1, <2>3, <2>4, <3>2
      <4> QED
        BY <2>2, <2>3, <4>1
    <3> QED
      BY <3>1, <3>2
  <2>6. c[i].key = a /\ c[i] = Entry(c[i].key, c[i].count)
    <3>1. PICK w : c[i] = Entry(a, w)
      BY <1>5, <2>1
    <3> QED
      BY <3>1, EntryFields
  <2> QED
    BY <2>5, <2>6 DEF IsEntry
<1>9. \A i, j \in 1 .. n : c[i].key = c[j].key => i = j
  BY <1>1, <1>3, <1>6
<1>10. \A l \in T : \E i \in 1 .. n : c[i].key = k[l]
  BY <1>1, <1>3, <1>6
<1>11. PICK b \in Nat : b = s[d].count
  BY <1>3, <1>7
<1>12. PICK p : p = << d, b + 1 >>
  OBVIOUS
<1>13. p \notin Units(s) /\ Units(c) = Units(s) \cup { p }
  <2>1. p \notin Units(s)
    <3> SUFFICES ASSUME p \in Units(s) PROVE FALSE
      OBVIOUS
    <3>1. PICK i \in 1 .. Len(s) : \E m \in 1 .. s[i].count : p = << i, m >>
      BY UnitOf DEF IsUnit
    <3>2. PICK m \in 1 .. s[i].count : p = << i, m >>
      BY <3>1
    <3>3. i = d /\ m = b + 1
      BY <1>12, <3>2
    <3> QED
      BY <1>11, <3>2, <3>3
  <2>2. ASSUME NEW q PROVE q \in Units(c) <=> q \in Units(s) \/ q = p
    <3>1. q \in Units(c) <=> \E i \in 1 .. n : \E m \in 1 .. c[i].count : q = << i, m >>
      <4>1. q \in Units(c) <=> IsUnit(q, c)
        BY UnitOf
      <4> QED
        BY <1>4, <4>1 DEF IsUnit
    <3>2. q \in Units(s) <=> \E i \in 1 .. n : \E m \in 1 .. s[i].count : q = << i, m >>
      <4>1. q \in Units(s) <=> IsUnit(q, s)
        BY UnitOf
      <4> QED
        BY <1>3, <4>1 DEF IsUnit
    <3>3. ASSUME NEW i \in 1 .. n
          PROVE (\E m \in 1 .. c[i].count : q = << i, m >>)
                  <=> (\E m \in 1 .. s[i].count : q = << i, m >>) \/ (i = d /\ q = p)
      <4>1. CASE i = d
        <5>1. PICK u \in Nat : u = s[i].count /\ u + 1 = c[i].count /\ p = << i, u + 1 >>
          BY <1>7, <1>11, <1>12, <4>1
        <5>2. 1 .. u + 1 = (1 .. u) \cup { u + 1 }
          OBVIOUS
        <5> QED
          BY <4>1, <5>1, <5>2
      <4>2. CASE i # d
        <5>1. c[i].count = s[i].count
          BY <1>7, <4>2
        <5> QED
          BY <4>2, <5>1
      <4> QED
        BY <4>1, <4>2
    <3>4. d \in 1 .. n
      BY <1>3
    <3> QED
      BY <3>1, <3>2, <3>3, <3>4
  <2> QED
    BY <2>1, <2>2
<1>14. IsFiniteSet(Units(c)) /\ Sum(c) = Sum(s) + 1 /\ Sum(s) \in Nat
  BY <1>1, <1>13, SumNext
<1>15. IsFiniteSet(T)
  BY <1>1, FS_AddElement
<1> QED
  BY <1>4, <1>8, <1>9, <1>10, <1>14, <1>15 DEF IsTally, IsNext

(* ... or a new one. *)
LEMMA TallyNew ==
  ASSUME NEW S, NEW k, NEW x, x \notin S, NEW s, IsTally(s, S, k), NEW key, key = k[x],
         \A d \in 1 .. Len(s) : s[d].key # key, NEW T, T = S \cup { x },
         NEW o, o = 1, NEW e, e = Entry(key, o), NEW c, IsAppended(c, s, e)
  PROVE  IsNext(c, s, T, k)
<1>1. /\ IsRow(s) /\ IsFiniteSet(S) /\ IsFiniteSet(Units(s))
      /\ \A i \in 1 .. Len(s) : IsEntry(s[i], S, k)
      /\ \A i, j \in 1 .. Len(s) : s[i].key = s[j].key => i = j
      /\ \A l \in S : \E i \in 1 .. Len(s) : s[i].key = k[l]
  BY DEF IsTally
<1>3. PICK n \in Nat : n = Len(s)
  BY <1>1 DEF IsRow
<1>4. e.key = key /\ e.count = o /\ e = Entry(e.key, e.count)
  BY EntryFields
<1>5. IsRow(c) /\ Len(c) = n + 1 /\ c[n + 1] = e /\ \A i \in 1 .. n : c[i] = s[i]
  BY <1>3 DEF IsAppended
<1>6. ASSUME NEW i \in 1 .. n + 1, i \notin 1 .. n PROVE i = n + 1
  BY <1>6
<1>7. PICK y : y = n + 1 /\ y \in 1 .. n + 1 /\ y \notin 1 .. n /\ c[y] = e
  BY <1>5
<1>8. ASSUME NEW i \in 1 .. n + 1 PROVE IsEntry(c[i], T, k)
  <2>1. CASE i \in 1 .. n
    <3>1. PICK a, b : a = s[i].key /\ b = s[i].count
      OBVIOUS
    <3>2. b = Cardinality(Occurrences(S, k, a)) /\ s[i] = Entry(a, b)
      BY <1>1, <1>3, <2>1, <3>1 DEF IsEntry
    <3>3. /\ Cardinality(Occurrences(S, k, a)) \in Nat
          /\ Cardinality(Occurrences(T, k, a))
               = Cardinality(Occurrences(S, k, a)) + IF k[x] = a THEN 1 ELSE 0
      BY <1>1, OccurrencesNext
    <3>4. k[x] # a
      BY <1>3, <2>1, <3>1
    <3>5. b = Cardinality(Occurrences(T, k, a))
      BY <3>2, <3>3, <3>4
    <3>6. c[i] = s[i] /\ c[i].key = a /\ c[i].count = b
      BY <1>5, <2>1, <3>1
    <3> QED
      BY <3>2, <3>5, <3>6 DEF IsEntry
  <2>2. CASE i \notin 1 .. n
    <3>1. c[i] = e
      BY <1>6, <1>7, <2>2
    <3>2. /\ Cardinality(Occurrences(S, k, key)) \in Nat
          /\ Cardinality(Occurrences(T, k, key)) = Cardinality(Occurrences(S, k, key)) + 1
      <4>1. PICK a : a = key /\ k[x] = a
        OBVIOUS
      <4>2. /\ Cardinality(Occurrences(S, k, a)) \in Nat
            /\ Cardinality(Occurrences(T, k, a))
                 = Cardinality(Occurrences(S, k, a)) + IF k[x] = a THEN 1 ELSE 0
        BY <1>1, OccurrencesNext
      <4>3. Cardinality(Occurrences(T, k, a)) = Cardinality(Occurrences(S, k, a)) + 1
        BY <4>1, <4>2
      <4> QED
        BY <4>1, <4>2, <4>3
    <3>3. Occurrences(S, k, key) = {}
      BY <1>1 DEF Occurrences
    <3>4. Cardinality(Occurrences(S, k, key)) = 0
      BY <3>3, FS_EmptySet
    <3>5. Cardinality(Occurrences(T, k, key)) = o
      BY <3>2, <3>4
    <3> QED
      BY <1>4, <3>1, <3>5 DEF IsEntry
  <2> QED
    BY <2>1, <2>2
<1>9. ASSUME NEW i \in 1 .. n + 1, NEW j \in 1 .. n + 1, c[i].key = c[j].key PROVE i = j
  <2>1. ASSUME NEW m \in 1 .. n PROVE c[m].key = s[m].key /\ s[m].key # key
    BY <1>3, <1>5
  <2>2. ASSUME NEW m \in 1 .. n + 1, m \notin 1 .. n PROVE c[m].key = key /\ m = y
    BY <1>4, <1>6, <1>7, <2>2
  <2>3. CASE i \in 1 .. n /\ j \in 1 .. n
    BY <1>1, <1>3, <1>9, <2>1, <2>3
  <2>4. CASE ~(i \in 1 .. n /\ j \in 1 .. n)
    BY <1>9, <2>1, <2>2, <2>4
  <2> QED
    BY <2>3, <2>4
<1>10. ASSUME NEW l \in T PROVE \E i \in 1 .. n + 1 : c[i].key = k[l]
  <2>1. CASE l \in S
    <3>1. PICK i \in 1 .. n : s[i].key = k[l]
      BY <1>1, <1>3, <2>1
    <3>2. i \in 1 .. n + 1 /\ c[i] = s[i]
      BY <1>5
    <3> QED
      BY <3>1, <3>2
  <2>2. CASE l \notin S
    <3>1. l = x /\ c[y].key = key /\ y \in 1 .. n + 1
      BY <1>4, <1>7, <2>2
    <3> QED
      BY <3>1
  <2> QED
    BY <2>1, <2>2
<1>12. PICK p : p = << y, o >>
  OBVIOUS
<1>13. p \notin Units(s) /\ Units(c) = Units(s) \cup { p }
  <2>1. p \notin Units(s)
    <3> SUFFICES ASSUME p \in Units(s) PROVE FALSE
      OBVIOUS
    <3>1. PICK i \in 1 .. Len(s) : \E m \in 1 .. s[i].count : p = << i, m >>
      BY UnitOf DEF IsUnit
    <3>2. i = y
      BY <1>12, <3>1
    <3> QED
      BY <1>3, <1>7, <3>2
  <2>2. ASSUME NEW q PROVE q \in Units(c) <=> q \in Units(s) \/ q = p
    <3>1. q \in Units(c) <=> \E i \in 1 .. n + 1 : \E m \in 1 .. c[i].count : q = << i, m >>
      <4>1. q \in Units(c) <=> IsUnit(q, c)
        BY UnitOf
      <4> QED
        BY <1>5, <4>1 DEF IsUnit
    <3>2. q \in Units(s) <=> \E i \in 1 .. n : \E m \in 1 .. s[i].count : q = << i, m >>
      <4>1. q \in Units(s) <=> IsUnit(q, s)
        BY UnitOf
      <4> QED
        BY <1>3, <4>1 DEF IsUnit
    <3>3. \A i \in 1 .. n : c[i].count = s[i].count /\ i \in 1 .. n + 1
      BY <1>5
    <3>4. (\E m \in 1 .. c[y].count : q = << y, m >>) <=> q = p
      <4>1. c[y].count = o /\ 1 .. o = { o }
        BY <1>4, <1>7
      <4> QED
        BY <1>12, <4>1
    <3>5. \A i \in 1 .. n + 1 : i \in 1 .. n \/ i = y
      BY <1>6, <1>7
    <3> QED
      BY <1>7, <3>1, <3>2, <3>3, <3>4, <3>5
  <2> QED
    BY <2>1, <2>2
<1>14. IsFiniteSet(Units(c)) /\ Sum(c) = Sum(s) + 1 /\ Sum(s) \in Nat
  BY <1>1, <1>13, SumNext
<1>15. IsFiniteSet(T)
  BY <1>1, FS_AddElement
<1> QED
  BY <1>5, <1>8, <1>9, <1>10, <1>14, <1>15 DEF IsTally, IsNext

(* So that counting the key of one more place makes the tally of them.     *)
LEMMA TallyNext ==
  ASSUME NEW S, NEW k, NEW x, x \notin S, IsTally(count, S, k), NEW key, key = k[x],
         NEW T, T = S \cup { x }, NEW c, c = Counted(key)
  PROVE  IsNext(c, count, T, k)
<1>1. PICK s : s = count
  OBVIOUS
<1>2. CASE \E d \in 1 .. Len(s) : s[d].key = key
  <2>1. PICK d \in 1 .. Len(s) : s[d].key = key
    BY <1>2
  <2>2. c = [ i \in 1 .. Len(s) |->
                IF s[i].key = key THEN [ s[i] EXCEPT !.count = @ + 1 ] ELSE s[i] ]
    BY <1>1, <1>2 DEF Counted
  <2>3. IsTally(s, S, k)
    BY <1>1
  <2>5. IsRaised(c, s, d)
    BY <2>1, <2>2, <2>3, Raised
  <2>4. IsNext(c, s, T, k)
    BY <2>1, <2>3, <2>5, TallyKnown
  <2> QED
    BY <1>1, <2>4
<1>3. CASE ~\E d \in 1 .. Len(s) : s[d].key = key
  <2>1. PICK o, e : o = 1 /\ e = Entry(key, o)
    OBVIOUS
  <2>2. c = Append(s, e)
    BY <1>1, <1>3, <2>1 DEF Counted, Entry
  <2>3. IsTally(s, S, k) /\ IsRow(s) /\ \A d \in 1 .. Len(s) : s[d].key # key
    BY <1>1, <1>3 DEF IsTally
  <2>5. IsAppended(c, s, e)
    BY <2>2, <2>3, RowAppend
  <2>4. IsNext(c, s, T, k)
    BY <2>1, <2>3, <2>5, TallyNew
  <2> QED
    BY <1>1, <2>4
<1> QED
  BY <1>2, <1>3

(* What is counted of a key is how often it occurred. *)
LEMMA TallyFound ==
  ASSUME NEW S, NEW k, IsTally(count, S, k), NEW key
  PROVE  CountOf(key) = Cardinality(Occurrences(S, k, key))
<1>1. PICK s : s = count
  OBVIOUS
<1>2. /\ \A i \in 1 .. Len(s) : IsEntry(s[i], S, k)
      /\ \A i, j \in 1 .. Len(s) : s[i].key = s[j].key => i = j
      /\ \A l \in S : \E i \in 1 .. Len(s) : s[i].key = k[l]
  BY <1>1 DEF IsTally
<1>3. CASE \E c \in 1 .. Len(s) : s[c].key = key
  <2>1. PICK d \in 1 .. Len(s) : s[d].key = key
    BY <1>3
  <2> DEFINE E == { s[c] : c \in 1 .. Len(s) }
  <2>2. s[d] \in E /\ \A e \in E : e.key = key => e = s[d]
    BY <1>2, <2>1
  <2>3. CountOf(key) = (CHOOSE e \in E : e.key = key).count
    BY <1>1, <1>3 DEF CountOf
  <2> HIDE DEF E
  <2>4. (CHOOSE e \in E : e.key = key) = s[d]
    BY <2>1, <2>2
  <2> QED
    BY <1>2, <2>1, <2>3, <2>4 DEF IsEntry
<1>4. CASE ~\E c \in 1 .. Len(s) : s[c].key = key
  <2>1. CountOf(key) = 0
    BY <1>1, <1>4 DEF CountOf
  <2>2. Occurrences(S, k, key) = {}
    BY <1>2, <1>4 DEF Occurrences
  <2> QED
    BY <2>1, <2>2, FS_EmptySet
<1> QED
  BY <1>3, <1>4

-----------------------------------------------------------------------------
(* What the run has done                                                   *)

(* The events there can be: functions entered and left, ...                *)
FunctionEvent(e, f) == e = << "begin", f >> \/ e = << "end", f >>
(* ... blocks entered and instructions executed.                           *)
BlockEvent(e, f) ==
  \E b \in 1 .. Len(Code(f)) :
    e = << "bb", f, b >> \/ \E m \in 1 .. Size(f, b) : e = EventOfInstr(f, b, m)
Happens(e) == \E f \in 1 .. Len(program) : FunctionEvent(e, f) \/ BlockEvent(e, f)
Happened(r) == IsRow(r) /\ \A n \in 1 .. Len(r) : Happens(r[n])

(* Another one of them. *)
LEMMA HappenedNext ==
  ASSUME NEW r, NEW e, Happened(r), Happens(e), NEW u, u = Append(r, e)
  PROVE  Happened(u)
<1>1. IsRow(r) /\ \A n \in 1 .. Len(r) : Happens(r[n])
  BY DEF Happened
<1>2. IsAppended(u, r, e)
  BY <1>1, RowAppend
<1>3. PICK l \in Nat : l = Len(r)
  BY <1>1 DEF IsRow
<1>4. IsRow(u) /\ Len(u) = l + 1 /\ u[l + 1] = e /\ \A n \in 1 .. l : u[n] = r[n]
  BY <1>2, <1>3 DEF IsAppended
<1>5. ASSUME NEW n \in 1 .. l + 1 PROVE Happens(u[n])
  <2>1. CASE n \in 1 .. l
    <3>1. u[n] = r[n] /\ Happens(r[n])
      BY <1>1, <1>3, <1>4, <2>1
    <3> QED
      BY <3>1
  <2>2. CASE n \notin 1 .. l
    <3>1. n = l + 1
      BY <2>2
    <3>2. u[n] = e
      BY <1>4, <3>1
    <3> QED
      BY <3>2
  <2> QED
    BY <2>1, <2>2
<1> QED
  BY <1>4, <1>5 DEF Happened

(* Events stay events. *)
LEMMA HappenedStays ==
  ASSUME program' = program, NEW r, Happened(r)
  PROVE  Happened(r)'
<1>1. (\A f : Code(f)' = Code(f)) /\ \A f, b : Size(f, b)' = Size(f, b)
  BY Unchanging
<1>2. ASSUME NEW e PROVE Happens(e)' <=> Happens(e)
  <2>1. \A f : BlockEvent(e, f)' <=> BlockEvent(e, f)
    BY <1>1 DEF BlockEvent
  <2> QED
    BY <2>1 DEF Happens
<1>3. IsRow(r) /\ \A n \in 1 .. Len(r) : Happens(r[n])
  BY DEF Happened
<1>4. ASSUME NEW n \in 1 .. Len(r) PROVE Happens(r[n])'
  <2>1. Happens(r[n])' <=> Happens(r[n])
    <3>1. PICK e : e = r[n]
      OBVIOUS
    <3>2. Happens(e)' <=> Happens(e)
      BY <1>2
    <3> QED
      BY <3>1, <3>2
  <2> QED
    BY <1>3, <2>1
<1> QED
  BY <1>3, <1>4 DEF Happened

(* An instruction that is executed is one of the program. *)
LEMMA ExecutedHappens ==
  ASSUME Shaped, Instrumented, Reported, pc = "run", Instr.op # "puts", NEW g, g = Frame
  PROVE  /\ Happens(Executed) /\ g.f \in 1 .. Len(program)
         /\ Instr.op = "call" => Instr.callee \in 1 .. Len(program)
         /\ Instr.op \in { "br", "switch" } =>
              \A r \in 1 .. Len(Instr.refs) :
                Instr.refs[r][2] = 0 => Instr.refs[r][1] \in 2 .. Len(Code(g.f))
<1>1. PICK j \in Nat, k \in Nat : Progress(g, j, k)
  BY DEF Reported
<1>2. PICK x : x = [ f |-> g.f, b |-> g.b, k |-> g.k + 1 ]
  OBVIOUS
<1>3. IsEvent(g, x, j, k)
  BY <1>1, <1>2, HereInstr
<1>4. PICK m \in 1 .. Size(g.f, g.b) : IsOwn(Instr, g.f, g.b, m)
  BY <1>3 DEF IsEvent
<1>5. g.f \in 1 .. Len(program) /\ g.b \in 1 .. Len(Code(g.f))
  BY Here
<1>6. Executed = EventOfInstr(g.f, g.b, m)
  BY <1>4 DEF Executed, EventOfInstr, IsOwn
<1>7. BlockEvent(Executed, g.f)
  BY <1>4, <1>5, <1>6 DEF BlockEvent
<1>8. Happens(Executed)
  BY <1>5, <1>7 DEF Happens
<1>9. Instr.op = "call" => Instr.callee \in 1 .. Len(program)
  BY <1>4 DEF IsOwn
<1>10. Instr.op \in { "br", "switch" } =>
         \A r \in 1 .. Len(Instr.refs) :
           Instr.refs[r][2] = 0 => Instr.refs[r][1] \in 2 .. Len(Code(g.f))
  BY <1>4 DEF IsOwn
<1> QED
  BY <1>5, <1>8, <1>9, <1>10

(* What the run does are events. *)
LEMMA RunHappens ==
  ASSUME Shaped, Instrumented, Reported, Happened(ran), Run
  PROVE  Happened(ran)'
<1>1. pc = "run" /\ program' = program
  BY DEF Run, Puts, Compute, Call, Exit, Branch, Return, Stopped, Running
<1>2. PICK r, u : r = ran /\ u = ran' /\ Happened(r)
  OBVIOUS
<1>3. Happened(u) => Happened(u)'
  BY <1>1, HappenedStays
<1>4. Happened(u)' <=> Happened(ran)'
  BY <1>2
<1>5. PICK g : g = Frame
  OBVIOUS
<1>6. ASSUME u = r PROVE Happened(u)
  BY <1>2, <1>6
<1>7. ASSUME Instr.op # "puts"
      PROVE  /\ Happens(Executed) /\ g.f \in 1 .. Len(program)
             /\ Instr.op = "call" => Instr.callee \in 1 .. Len(program)
             /\ Instr.op \in { "br", "switch" } =>
                  \A i \in 1 .. Len(Instr.refs) :
                    Instr.refs[i][2] = 0 => Instr.refs[i][1] \in 2 .. Len(Code(g.f))
  BY <1>1, <1>5, <1>7, ExecutedHappens
<1>8. PICK x : x = Executed
  OBVIOUS
<1>9. ASSUME Happens(x), NEW y, Happens(y), u = r \o << x, y >> PROVE Happened(u)
  <2>1. PICK v : v = Append(r, x)
    OBVIOUS
  <2>2. Happened(v)
    BY <1>2, <1>9, <2>1, HappenedNext
  <2>3. u = Append(v, y)
    <3>1. IsRow(r)
      BY <1>2 DEF Happened
    <3>2. r \o << x, y >> = Append(Append(r, x), y)
      BY <3>1, RowTwo
    <3> QED
      BY <1>9, <2>1, <3>2
  <2> QED
    BY <1>9, <2>2, <2>3, HappenedNext
<1>10. CASE Puts
  <2>1. u = r
    BY <1>2, <1>10 DEF Puts
  <2> QED
    BY <1>3, <1>4, <1>6, <2>1
<1>11. CASE Compute \/ Exit
  <2>1. Instr.op # "puts" /\ u = Append(r, x)
    BY <1>2, <1>8, <1>11 DEF Compute, Exit, Running
  <2>2. Happens(x)
    BY <1>7, <1>8, <2>1
  <2>3. Happened(u)
    BY <1>2, <2>1, <2>2, HappenedNext
  <2> QED
    BY <1>3, <1>4, <2>3
<1>12. CASE Call
  <2>1. Instr.op = "call" /\ Instr.op # "puts"
    BY <1>12 DEF Call, Running
  <2>2. PICK f \in 1 .. Len(program) : f = Instr.callee
    BY <1>7, <2>1
  <2>3. PICK y, z : y = << "begin", f >> /\ z = << "bb", f, 1 >>
    OBVIOUS
  <2>4. Happens(x) /\ Happens(y) /\ Happens(z)
    <3>1. Happens(x)
      BY <1>7, <1>8, <2>1
    <3>2. Happens(y)
      BY <2>3 DEF Happens, FunctionEvent
    <3>3. program \in Programs /\ 1 \in 1 .. Len(Code(f))
      BY ProgramShape DEF Shaped
    <3>4. BlockEvent(z, f)
      BY <2>3, <3>3 DEF BlockEvent
    <3> QED
      BY <3>1, <3>2, <3>4 DEF Happens
  <2>5. u = r \o << x, y, z >>
    BY <1>2, <1>8, <1>12, <2>2, <2>3 DEF Call
  <2>6. PICK v, w : v = Append(r, x) /\ w = Append(v, y)
    OBVIOUS
  <2>7. u = Append(w, z)
    <3>1. IsRow(r)
      BY <1>2 DEF Happened
    <3>2. r \o << x, y, z >> = Append(Append(Append(r, x), y), z)
      BY <3>1, RowThree
    <3> QED
      BY <2>5, <2>6, <3>2
  <2>8. Happened(v)
    BY <1>2, <2>4, <2>6, HappenedNext
  <2>9. Happened(w)
    BY <2>4, <2>6, <2>8, HappenedNext
  <2>10. Happened(u)
    BY <2>4, <2>7, <2>9, HappenedNext
  <2> QED
    BY <1>3, <1>4, <2>10
<1>13. CASE Branch
  <2>1. Instr.op \in { "br", "switch" } /\ Instr.op # "puts"
    BY <1>13 DEF Branch, Running
  <2>2. PICK i \in 1 .. Len(Instr.refs) :
          Instr.refs[i][2] = 0 /\ ran' = ran \o << Executed, << "bb", Frame.f, Instr.refs[i][1] >> >>
    BY <1>13 DEF Branch
  <2>3. PICK b : b = Instr.refs[i][1] /\ b \in 2 .. Len(Code(g.f))
    BY <1>7, <2>1, <2>2
  <2>4. PICK y : y = << "bb", g.f, b >>
    OBVIOUS
  <2>5. u = r \o << x, y >>
    BY <1>2, <1>5, <1>8, <2>2, <2>3, <2>4
  <2>6. Happens(x) /\ Happens(y)
    <3>1. Happens(x) /\ g.f \in 1 .. Len(program)
      BY <1>7, <1>8, <2>1
    <3>2. b \in 1 .. Len(Code(g.f))
      <4>1. Len(Code(g.f)) \in Nat
        BY <3>1, ProgramShape DEF Shaped
      <4> QED
        BY <2>3, <4>1
    <3>3. BlockEvent(y, g.f)
      BY <2>4, <3>2 DEF BlockEvent
    <3> QED
      BY <3>1, <3>3 DEF Happens
  <2>7. Happened(u)
    BY <1>9, <2>5, <2>6
  <2> QED
    BY <1>3, <1>4, <2>7
<1>14. CASE Return
  <2>1. Instr.op # "puts"
    BY <1>14 DEF Return, Running
  <2>2. PICK y : y = << "end", g.f >>
    OBVIOUS
  <2>3. u = r \o << x, y >>
    BY <1>2, <1>5, <1>8, <1>14, <2>2 DEF Return
  <2>4. Happens(x) /\ Happens(y)
    BY <1>7, <1>8, <2>1, <2>2 DEF Happens, FunctionEvent
  <2>5. Happened(u)
    BY <1>9, <2>3, <2>4
  <2> QED
    BY <1>3, <1>4, <2>5
<1>15. CASE Stopped
  <2>1. u = r
    BY <1>2, <1>15 DEF Stopped, runVars
  <2> QED
    BY <1>3, <1>4, <1>6, <2>1
<1> QED
  BY <1>10, <1>11, <1>12, <1>13, <1>14, <1>15 DEF Run

(* The pass does nothing but start the run. *)
LEMMA PassHappens ==
  ASSUME Shaped, Happened(ran), Instrument
  PROVE  Happened(ran)'
<1>1. program' = program
  BY DEF Instrument, Gather, TraceEntrance, InsertPrepared, TraceExits
<1>2. PICK r, u : r = ran /\ u = ran' /\ Happened(r)
  OBVIOUS
<1>3. Happened(u) => Happened(u)'
  BY <1>1, HappenedStays
<1>4. Happened(u)' <=> Happened(ran)'
  BY <1>2
<1>5. CASE u = r
  BY <1>2, <1>3, <1>4, <1>5
<1>6. CASE u # r
  <2>1. TraceExits /\ u = << << "begin", 1 >>, << "bb", 1, 1 >> >>
    BY <1>2, <1>6 DEF Instrument, Gather, TraceEntrance, InsertPrepared, TraceExits, runVars
  <2>2. PICK f : f = 1 /\ f \in 1 .. Len(program) /\ 1 \in 1 .. Len(Code(f)) /\ program \in Programs
    BY ProgramShape DEF Shaped
  <2>3. PICK y, z : y = << "begin", f >> /\ z = << "bb", f, 1 >> /\ u = << y, z >>
    BY <2>1, <2>2
  <2>4. Happens(y) /\ Happens(z)
    <3>1. BlockEvent(z, f)
      BY <2>2, <2>3 DEF BlockEvent
    <3> QED
      BY <2>2, <2>3, <3>1 DEF Happens, FunctionEvent
  <2>5. IsRow(u) /\ Len(u) = 2 /\ u[1] = y /\ u[2] = z
    BY <2>3 DEF IsRow
  <2>6. Happened(u)
    <3>1. \A n \in 1 .. 2 : n = 1 \/ n = 2
      OBVIOUS
    <3> QED
      BY <2>4, <2>5, <3>1 DEF Happened
  <2> QED
    BY <1>3, <1>4, <2>6
<1> QED
  BY <1>5, <1>6

-----------------------------------------------------------------------------
(* The names of blocks                                                     *)

(* There are finitely many of them. *)
LEMMA NamesFinite ==
  ASSUME NEW code, NEW n \in Nat, n = Len(code), \A b \in 1 .. n : Len(code[b]) \in Nat
  PROVE  IsFiniteSet(Names(code))
<1> DEFINE K(b) == { 0 } \cup { k \in 1 .. Len(code[b]) : code[b][k].value }
           g    == [ b \in 1 .. n |-> { b } \X K(b) ]
           E    == { g[b] : b \in 1 .. n }
<1>1. ASSUME NEW b \in 1 .. n PROVE IsFiniteSet(g[b])
  <2>1. PICK l \in Nat : l = Len(code[b])
    OBVIOUS
  <2>2. PICK I : I = 1 .. l
    OBVIOUS
  <2>3. IsFiniteSet(I)
    BY <2>2, IntervalSize
  <2>4. PICK J : J = { k \in 1 .. Len(code[b]) : code[b][k].value }
    OBVIOUS
  <2>5. J \in SUBSET I
    BY <2>1, <2>2, <2>4
  <2>6. IsFiniteSet(J)
    BY <2>3, <2>5, FS_Subset
  <2>7. PICK z : z = 0
    OBVIOUS
  <2>8. IsFiniteSet(J \cup { z })
    BY <2>6, FS_AddElement
  <2>9. K(b) = J \cup { z }
    BY <2>4, <2>7
  <2>10. IsFiniteSet({ b })
    BY FS_Singleton
  <2> HIDE DEF K
  <2>11. IsFiniteSet({ b } \X K(b))
    BY <2>8, <2>9, <2>10, FS_Product
  <2> QED
    BY <2>11
<1>2. PICK I : I = 1 .. n
  OBVIOUS
<1>3. IsFiniteSet(I)
  BY <1>2, IntervalSize
<1> HIDE DEF K
<1>4. g \in [ I -> E ] /\ \A T \in E : \E b \in I : g[b] = T
  BY <1>2
<1>5. Names(code) = UNION E
  BY DEF Names, K
<1>6. \A T \in E : IsFiniteSet(T)
  BY <1>1
<1> HIDE DEF g, E
<1>7. g \in Surjection(I, E)
  BY <1>4 DEF Surjection
<1>8. IsFiniteSet(E)
  BY <1>3, <1>7, FS_Surjection
<1> QED
  BY <1>5, <1>6, <1>8, FS_UNION

(* The name a block is known by is before a later one. *)
LEMMA NameOfBlock ==
  ASSUME NEW code, NEW b \in 1 .. Len(code)
  PROVE  << b, 0 >> \in Names(code)
BY DEF Names

(* So that no two blocks of a function have the same name. *)
LEMMA SlotLess ==
  ASSUME program \in Programs, NEW f \in 1 .. Len(program), NEW b \in 1 .. Len(Code(f)),
         NEW d \in 1 .. Len(Code(f)), b < d
  PROVE  Slot(f, Code(f), << b, 0 >>) # Slot(f, Code(f), << d, 0 >>)
<1>1. PICK code : code = Code(f)
  OBVIOUS
<1>2. PICK n \in Nat : n = Len(code)
  BY <1>1, ProgramShape
<1>3. PICK N : N = Names(code)
  OBVIOUS
<1>4. IsFiniteSet(N)
  <2>1. \A c \in 1 .. n : Len(code[c]) \in Nat
    BY <1>1, <1>2, ProgramShape DEF Size
  <2> QED
    BY <1>2, <1>3, <2>1, NamesFinite
<1> DEFINE P(x) == { p \in N : p[1] < x \/ (p[1] = x /\ p[2] < 0) }
<1>5. ASSUME NEW x
      PROVE  Slot(f, Code(f), << x, 0 >>) = program[f].params + Cardinality(P(x))
  <2>4. PICK id : id = << x, 0 >>
    OBVIOUS
  <2>1. id = << x, 0 >> /\ id[1] = x /\ id[2] = 0
    BY <2>4
  <2>2. PlaceOf(code, id) = 0
    BY <2>1 DEF PlaceOf
  <2>3. Slot(f, code, id) = program[f].params + Cardinality({ p \in N : p[1] < x \/ (p[1] = x /\ p[2] < 0) })
    BY <1>3, <2>1, <2>2 DEF Slot
  <2> QED
    BY <1>1, <2>1, <2>3
<1>6. ASSUME NEW p \in N PROVE p[1] \in 1 .. n /\ p[2] \in Nat
  BY <1>2, <1>3 DEF Names
<1>7. PICK p : p = << b, 0 >> /\ p[1] = b /\ p[2] = 0 /\ p \in N
  BY <1>1, <1>3, NameOfBlock
<1>8. P(b) \in SUBSET P(d) /\ p \in P(d) /\ p \notin P(b) /\ P(d) \in SUBSET N
  <2>1. b \in Int /\ d \in Int
    BY <1>1, <1>2
  <2>2. P(b) \in SUBSET P(d)
    BY <1>2, <1>6, <2>1
  <2>3. p \in P(d) /\ p \notin P(b)
    BY <1>7, <2>1
  <2> QED
    BY <2>2, <2>3
<1> HIDE DEF P
<1>9. IsFiniteSet(P(d))
  BY <1>4, <1>8, FS_Subset
<1>10. IsFiniteSet(P(b)) /\ Cardinality(P(b)) <= Cardinality(P(d))
  BY <1>8, <1>9, FS_Subset
<1>11. Cardinality(P(d)) # Cardinality(P(b))
  BY <1>8, <1>9, FS_Subset
<1>12. Cardinality(P(b)) \in Nat /\ Cardinality(P(d)) \in Nat
  BY <1>9, <1>10, FS_CardinalityType
<1>13. program[f].params \in Nat
  <2>1. program \in Seq([ params : Nat, blocks : Seq(Seq(Instructions)) ])
    BY ProgramsAssumption DEF IsModule
  <2>2. PICK D : D = Seq(Seq(Instructions))
    OBVIOUS
  <2>3. PICK R : R = [ params : Nat, blocks : D ]
    OBVIOUS
  <2>5. program \in Seq(R)
    BY <2>1, <2>2, <2>3
  <2>4. program[f] \in R
    BY <2>5
  <2> QED
    BY <2>3, <2>4
<1> QED
  BY <1>5, <1>11, <1>12, <1>13

(* A block is known by its name. *)
LEMMA SlotOfBlock ==
  ASSUME program \in Programs, NEW f \in 1 .. Len(program), NEW b \in 1 .. Len(Code(f)),
         NEW d \in 1 .. Len(Code(f)), Slot(f, Code(f), << b, 0 >>) = Slot(f, Code(f), << d, 0 >>)
  PROVE  b = d
<1>1. b \in Int /\ d \in Int
  BY ProgramShape
<1>2. ~(b < d) /\ ~(d < b)
  <2>1. b < d => Slot(f, Code(f), << b, 0 >>) # Slot(f, Code(f), << d, 0 >>)
    BY SlotLess
  <2>2. d < b => Slot(f, Code(f), << d, 0 >>) # Slot(f, Code(f), << b, 0 >>)
    BY SlotLess
  <2> QED
    BY <2>1, <2>2
<1> QED
  BY <1>1, <1>2

-----------------------------------------------------------------------------
(* The lines of an event                                                   *)

(* A line tells the kind of its event, ... *)
LEMMA LineOfEvent ==
  ASSUME NEW e, Happens(e)
  PROVE  /\ e[1] \in { "begin", "end", "bb", "instr" } /\ Text(e).line = e[1]
         /\ e[2] \in 1 .. Len(program)
         /\ e[1] = "bb" => \E b \in 1 .. Len(Code(e[2])) : e = << "bb", e[2], b >>
         /\ e[1] = "instr" => \E b \in 1 .. Len(Code(e[2])) : \E m \in 1 .. Size(e[2], b) :
                                e = EventOfInstr(e[2], b, m)
<1>1. PICK f \in 1 .. Len(program) : FunctionEvent(e, f) \/ BlockEvent(e, f)
  BY DEF Happens
<1>2. CASE FunctionEvent(e, f)
  <2>1. e[1] \in { "begin", "end" } /\ e[2] = f
    BY <1>2 DEF FunctionEvent
  <2>2. Text(e).line = e[1]
    BY <2>1 DEF Text, beginFunction, endFunction
  <2> QED
    BY <2>1, <2>2
<1>3. CASE BlockEvent(e, f)
  <2>1. PICK b \in 1 .. Len(Code(f)) :
          e = << "bb", f, b >> \/ \E m \in 1 .. Size(f, b) : e = EventOfInstr(f, b, m)
    BY <1>3 DEF BlockEvent
  <2>2. CASE e = << "bb", f, b >>
    <3>1. e[1] = "bb" /\ e[2] = f
      BY <2>2
    <3>2. Text(e).line = "bb"
      BY <3>1 DEF Text, getLabel
    <3> QED
      BY <2>2, <3>1, <3>2
  <2>3. CASE \E m \in 1 .. Size(f, b) : e = EventOfInstr(f, b, m)
    <3>1. PICK m \in 1 .. Size(f, b) : e = EventOfInstr(f, b, m)
      BY <2>3
    <3>2. e[1] = "instr" /\ e[2] = f
      BY <3>1 DEF EventOfInstr
    <3>3. Text(e).line = "instr"
      BY <3>2 DEF Text, toString
    <3> QED
      BY <3>1, <3>2, <3>3
  <2> QED
    BY <2>1, <2>2, <2>3
<1> QED
  BY <1>1, <1>2, <1>3

(* ... and one of a block its place. *)
LEMMA LineOfBlock ==
  ASSUME program \in Programs, NEW e, Happens(e), NEW f \in 1 .. Len(program),
         NEW b \in 1 .. Len(Code(f))
  PROVE  Text(e) = getLabel(f, Code(f), b) <=> e = << "bb", f, b >>
<1>1. Text(<< "bb", f, b >>) = getLabel(f, Code(f), b)
  BY DEF Text, Code
<1>2. ASSUME Text(e) = getLabel(f, Code(f), b) PROVE e = << "bb", f, b >>
  <2>1. Text(e).line = "bb"
    BY <1>2 DEF getLabel
  <2>2. e[1] = "bb" /\ e[2] \in 1 .. Len(program)
    BY <2>1, LineOfEvent
  <2>3. PICK g \in 1 .. Len(program) : g = e[2]
    BY <2>2
  <2>4. PICK d \in 1 .. Len(Code(g)) : e = << "bb", g, d >>
    BY <2>2, <2>3, LineOfEvent
  <2>5. Text(e) = getLabel(g, Code(g), d)
    BY <2>4 DEF Text, Code
  <2>6. getLabel(g, Code(g), d) = getLabel(f, Code(f), b)
    BY <1>2, <2>5
  <2>7. g = f
    BY <2>6 DEF getLabel
  <2>8. Slot(f, Code(f), << d, 0 >>) = Slot(f, Code(f), << b, 0 >>)
    BY <2>6, <2>7 DEF getLabel
  <2>9. d = b
    BY <2>4, <2>7, <2>8, SlotOfBlock
  <2> QED
    BY <2>4, <2>7, <2>9
<1> QED
  BY <1>1, <1>2

(* A line that is read is the line of an event or one more of a switch.    *)
IsLineOf(x, n, e) == x.n = n /\ (x.text.line = "more" \/ x.text = Text(e))
LinesAre(L, n, e) == IsRow(L) /\ \A j \in 1 .. Len(L) : IsLineOf(L[j], n, e)

(* Whatever an event is, it is written on lines of its own. *)
LEMMA LinesOf ==
  ASSUME program \in Programs, NEW e, Happens(e), NEW n, NEW L, L = Lines(n, Text(e))
  PROVE  LinesAre(L, n, e)
<1>1. PICK t : t = Text(e)
  OBVIOUS
<1> DEFINE first == << [ n |-> n, text |-> t ] >>
           more(r) == [ n |-> n, text |-> [ line |-> "more", refs |-> r ] ]
<1>2. LinesAre(first, n, e)
  <2>1. IsRow(first) /\ Len(first) = 1 /\ first[1] = [ n |-> n, text |-> t ]
    BY DEF IsRow
  <2>2. PICK y : y = first[1] /\ y = [ n |-> n, text |-> t ]
    BY <2>1
  <2>3. IsLineOf(y, n, e)
    BY <1>1, <2>2 DEF IsLineOf
  <2>4. \A j \in 1 .. 1 : j = 1
    OBVIOUS
  <2> HIDE DEF first
  <2>5. \A j \in 1 .. Len(first) : IsLineOf(first[j], n, e)
    BY <2>1, <2>2, <2>3, <2>4
  <2> QED
    BY <2>1, <2>5 DEF LinesAre
<1>3. ASSUME NEW r PROVE IsLineOf(more(r), n, e)
  BY DEF IsLineOf
<1>4. CASE t.line = "instr" /\ t.op = "switch"
  <2>1. t.line = e[1]
    BY <1>1, LineOfEvent
  <2>2. e[1] = "instr"
    BY <1>4, <2>1
  <2>3. PICK f \in 1 .. Len(program) : f = e[2]
    BY LineOfEvent
  <2>17. PICK b \in 1 .. Len(Code(f)) : \E m \in 1 .. Size(f, b) : e = EventOfInstr(f, b, m)
    BY <2>2, <2>3, LineOfEvent
  <2>4. PICK m \in 1 .. Size(f, b) : e = EventOfInstr(f, b, m)
    BY <2>17
  <2>5. PICK I : I = Code(f)[b][m] /\ I \in Instructions
    BY <2>4, ProgramShape
  <2>6. t = toString(f, Code(f), I)
    BY <1>1, <2>4, <2>5 DEF Text, EventOfInstr, Code
  <2>7. PICK k \in Nat : k = Len(I.refs)
    BY <2>5 DEF Instructions
  <2>8. Len(t.refs) = k
    BY <2>6, <2>7 DEF toString
  <2>9. PICK mid, last : /\ mid = [ r \in 1 .. Len(t.refs) - 1 |-> more(<< t.refs[r + 1] >>) ]
                         /\ last = << more(<< >>) >>
    OBVIOUS
  <2>10. LinesAre(mid, n, e)
    <3>1. PICK l \in Nat : l = IF k = 0 THEN 0 ELSE k - 1
      OBVIOUS
    <3>2. 1 .. Len(t.refs) - 1 = 1 .. l
      BY <2>7, <2>8, <3>1
    <3>3. mid = [ r \in 1 .. l |-> more(<< t.refs[r + 1] >>) ]
      BY <2>9, <3>2
    <3>4. IsRow(mid) /\ Len(mid) = l /\ \A r \in 1 .. l : mid[r] = more(<< t.refs[r + 1] >>)
      BY <3>3 DEF IsRow
    <3> HIDE DEF more
    <3> QED
      BY <1>3, <3>4 DEF LinesAre
  <2>11. LinesAre(last, n, e)
    <3>1. PICK y : y = more(<< >>)
      OBVIOUS
    <3>2. IsRow(last) /\ Len(last) = 1 /\ last[1] = y
      BY <2>9, <3>1 DEF IsRow
    <3>3. IsLineOf(y, n, e)
      BY <1>3, <3>1
    <3>4. \A j \in 1 .. 1 : j = 1
      OBVIOUS
    <3>5. \A j \in 1 .. Len(last) : IsLineOf(last[j], n, e)
      BY <3>2, <3>3, <3>4
    <3> QED
      BY <3>2, <3>5 DEF LinesAre
  <2>12. ASSUME NEW A, NEW B, LinesAre(A, n, e), LinesAre(B, n, e), NEW C, C = A \o B
         PROVE  LinesAre(C, n, e)
    <3>1. IsRow(A) /\ IsRow(B)
      BY <2>12 DEF LinesAre
    <3>2. PICK a \in Nat, c \in Nat : a = Len(A) /\ c = Len(B)
      BY <3>1 DEF IsRow
    <3>3. IsRow(C) /\ Len(C) = Len(A) + Len(B)
      BY <2>12, <3>1, RowJoined
    <3>4. \A j \in 1 .. Len(A) : C[j] = A[j]
      BY <2>12, <3>1, RowJoined
    <3>5. \A j \in 1 .. Len(B) : C[Len(A) + j] = B[j]
      BY <2>12, <3>1, RowJoined
    <3>6. ASSUME NEW j \in 1 .. a + c PROVE IsLineOf(C[j], n, e)
      <4>1. CASE j <= a
        <5>1. j \in 1 .. a /\ C[j] = A[j] /\ IsLineOf(A[j], n, e)
          BY <2>12, <3>2, <3>4, <4>1 DEF LinesAre
        <5> QED
          BY <5>1
      <4>2. CASE ~(j <= a)
        <5>3. j - a \in 1 .. c /\ a + (j - a) = j
          BY <3>2, <4>2
        <5>1. PICK i \in 1 .. c : a + i = j
          BY <5>3
        <5>2. C[j] = B[i] /\ IsLineOf(B[i], n, e)
          BY <2>12, <3>2, <3>5, <5>1 DEF LinesAre
        <5> QED
          BY <5>2
      <4> QED
        BY <4>1, <4>2
    <3> QED
      BY <3>2, <3>3, <3>6 DEF LinesAre
  <2>13. L = first \o mid \o last
    BY <1>1, <1>4, <2>9 DEF Lines
  <2> HIDE DEF first
  <2>14. PICK u : u = first \o mid
    OBVIOUS
  <2>15. LinesAre(u, n, e)
    BY <1>2, <2>10, <2>12, <2>14
  <2>16. L = u \o last
    BY <2>13, <2>14
  <2> QED
    BY <2>11, <2>12, <2>15, <2>16
<1>5. CASE ~(t.line = "instr" /\ t.op = "switch")
  <2>1. L = first
    BY <1>1, <1>5 DEF Lines
  <2> QED
    BY <1>2, <2>1
<1> QED
  BY <1>4, <1>5

-----------------------------------------------------------------------------
(* What the script has read and counted                                    *)

(* Every line is of an event of the run. *)
IsRead(x, r) == x.n \in 1 .. Len(r) /\ IsLineOf(x, x.n, r[x.n])
Read(i, r)   == \A l \in 1 .. Len(i) : IsRead(i[l], r)

(* What is counted of the lines, by the lines themselves, ... *)
Kept(i, m, l) == (m = "bb" /\ i[l].text.line = "bb") \/ (m = "instr" /\ ~Comment(i[l].text))
KeptOf(i, m, n) == { l \in 1 .. n : Kept(i, m, l) }
Keys(i)       == [ l \in 1 .. Len(i) |-> i[l].text ]

(* ... what is left of them in mode opcode, and the windows counted then. *)
History(g, i, n) ==
  /\ g[0] = << >>
  /\ \A l \in 1 .. n :
       g[l] = IF i[l].text.line = "instr" THEN Append(g[l - 1], i[l].text.op) ELSE g[l - 1]
HasRead(o, i, n) == \E g : History(g, i, n) /\ o = g[n]
Windows(o, w, n) == [ l \in 1 .. n |-> SubSeq(o, l, l + w - 1) ]

TalliedLines ==
  IsTally(count, KeptOf(input, mode, pos), Keys(input)) /\ total = Sum(count)
TalliedWindows ==
  /\ HasRead(opcodes, input, Len(input))
  /\ IsTally(count, 1 .. pos, Windows(opcodes, window_sz, Len(input)))
  /\ total = Len(opcodes) - 1 - window_sz
  /\ pos <= Len(input) /\ (pos = 0 \/ pos <= total)
  /\ Sum(count) = pos /\ (pos = 0 => count = << >>)

Tallied ==
  /\ output_sz \in Int /\ mode \in { "instr", "bb", "opcode" }
  /\ result = "waiting" => total = 0
  /\ result = "counting" => mode = "opcode"
  /\ result \in { "reading", "printed" } /\ mode # "opcode" => TalliedLines
  /\ result = "reading" /\ mode = "opcode" => HasRead(opcodes, input, pos)
  /\ result \in { "counting", "printed" } /\ mode = "opcode" => TalliedWindows
  /\ result = "printed" =>
       /\ output = SortAndCut(count)
       /\ mode # "opcode" => pos = Len(input)
       /\ mode = "opcode" => pos >= total

(* The lines of the part that is piped into the script. *)
LEMMA OptionsRead ==
  ASSUME Shaped, Reported, Happened(ran), GetOptions
  PROVE  Read(input', ran)
<1>1. pc = "ended" /\ program \in Programs
  BY DEF GetOptions, Shaped
<1>2. PICK t, r : t = trace /\ r = ran /\ IsRow(t) /\ IsRow(r) /\ Agree(t, r) /\ Happened(r)
  BY <1>1 DEF Reported
<1>3. PICK lt \in Nat, lr \in Nat : lt = Len(t) /\ lr = Len(r)
  BY <1>2 DEF IsRow
<1>4. PICK m \in Nat : m = (IF lt <= lr THEN lt ELSE lr) /\ m <= lt /\ m <= lr
  OBVIOUS
<1>5. PICK texts : texts = SubSeq(t, 1, m)
  OBVIOUS
<1>6. PICK from, to : input' = SubSeq(FileOf(texts), from, to) /\ from <= to
                      /\ from \in 1 .. Len(FileOf(texts)) /\ to \in 1 .. Len(FileOf(texts))
  <2>1. texts = SubSeq(trace, 1, IF Len(trace) <= Len(ran) THEN Len(trace) ELSE Len(ran))
    BY <1>2, <1>3, <1>4, <1>5
  <2> QED
    BY <2>1 DEF GetOptions
<1>7. IsRow(texts) /\ Len(texts) = m /\ \A j \in 1 .. m : texts[j] = t[j]
  <2>1. PICK o : o = 1 /\ o \in 1 .. Len(t) + 1 /\ m \in o - 1 .. Len(t) /\ m - o + 1 = m
    BY <1>3, <1>4
  <2>2. texts = SubSeq(t, o, m)
    BY <1>5, <2>1
  <2>3. IsRow(texts) /\ Len(texts) = m - o + 1 /\ \A j \in 1 .. m - o + 1 : texts[j] = t[o + j - 1]
    BY <1>2, <2>1, <2>2, RowSub
  <2>4. \A j \in 1 .. m : o + j - 1 = j
    BY <2>1
  <2> QED
    BY <2>1, <2>3, <2>4
<1>8. PICK ss : ss = [ n \in 1 .. m |-> Lines(n, texts[n]) ]
  OBVIOUS
<1>9. IsRow(ss) /\ Len(ss) = m /\ \A i \in 1 .. m : ss[i] = Lines(i, texts[i])
  BY <1>8 DEF IsRow
<1>10. ASSUME NEW i \in 1 .. m PROVE LinesAre(ss[i], i, r[i])
  <2>1. i \in 1 .. lt /\ i \in 1 .. lr /\ i <= lr
    BY <1>3, <1>4
  <2>2. texts[i] = Text(r[i])
    BY <1>2, <1>3, <1>7, <2>1 DEF Agree
  <2>3. PICK e, L : e = r[i] /\ L = ss[i]
    OBVIOUS
  <2>4. Happens(e) /\ L = Lines(i, Text(e))
    BY <1>2, <1>3, <1>9, <2>1, <2>2, <2>3 DEF Happened
  <2>5. LinesAre(L, i, e)
    BY <1>1, <2>4, LinesOf
  <2> QED
    BY <2>3, <2>5
<1>11. PICK file : file = FlattenSeq(ss)
  OBVIOUS
<1>12. file = FileOf(texts)
  BY <1>7, <1>8, <1>11 DEF FileOf
<1>13. \A i \in 1 .. Len(ss) : IsRow(ss[i])
  BY <1>9, <1>10 DEF LinesAre
<1>21. IsFlattened(file, ss)
  BY <1>9, <1>11, <1>13, Flattened
<1>14. IsRow(file)
  BY <1>21 DEF IsFlattened
<1>15. \A l \in 1 .. Len(file) : \E i \in 1 .. Len(ss) : \E j \in 1 .. Len(ss[i]) : file[l] = ss[i][j]
  BY <1>21 DEF IsFlattened
<1>16. ASSUME NEW l \in 1 .. Len(file) PROVE IsRead(file[l], r)
  <2>1. PICK i \in 1 .. m : \E j \in 1 .. Len(ss[i]) : file[l] = ss[i][j]
    BY <1>9, <1>15
  <2>2. PICK x : x = file[l]
    OBVIOUS
  <2>3. IsLineOf(x, i, r[i])
    BY <1>10, <2>1, <2>2 DEF LinesAre
  <2>4. x.n = i
    BY <2>3 DEF IsLineOf
  <2>5. i \in 1 .. lr
    BY <1>4
  <2> QED
    BY <1>3, <2>2, <2>3, <2>4, <2>5 DEF IsRead
<1>17. PICK part : part = SubSeq(file, from, to) /\ part = input'
  BY <1>6, <1>12
<1>18. PICK l \in Nat, a \in Nat, b \in Nat :
         l = Len(file) /\ a = from /\ b = to /\ a \in 1 .. l /\ b \in 1 .. l /\ a <= b
  BY <1>6, <1>12, <1>14 DEF IsRow
<1>19. Len(part) = b - a + 1 /\ \A j \in 1 .. b - a + 1 : part[j] = file[a + j - 1]
  <2>2. a \in 1 .. l + 1 /\ b \in a - 1 .. l
    BY <1>18
  <2>3. part = SubSeq(file, a, b)
    BY <1>17, <1>18
  <2>1. a \in 1 .. Len(file) + 1 /\ b \in a - 1 .. Len(file) /\ part = SubSeq(file, a, b)
    BY <1>18, <2>2, <2>3
  <2> QED
    BY <1>14, <2>1, RowSub
<1>20. ASSUME NEW j \in 1 .. Len(part) PROVE IsRead(part[j], r)
  <2>1. j \in 1 .. b - a + 1 /\ a + j - 1 \in 1 .. Len(file)
    BY <1>18, <1>19
  <2>2. part[j] = file[a + j - 1]
    BY <1>19, <2>1
  <2> QED
    BY <1>16, <2>1, <2>2
<1> QED
  BY <1>2, <1>17, <1>20 DEF Read

(* They stay such. *)
LEMMA ReadStays ==
  ASSUME program' = program, NEW i, NEW r, Read(i, r)
  PROVE  Read(i, r)'
<1>1. \A e : Text(e)' = Text(e)
  BY Unchanging
<1>2. ASSUME NEW x, IsRead(x, r) PROVE IsRead(x, r)'
  <2>1. PICK e : e = r[x.n]
    OBVIOUS
  <2>2. x.n \in 1 .. Len(r) /\ IsLineOf(x, x.n, e)
    BY <1>2, <2>1 DEF IsRead
  <2>3. IsLineOf(x, x.n, e)'
    BY <1>1, <2>2 DEF IsLineOf
  <2> QED
    BY <2>1, <2>2, <2>3 DEF IsRead
<1>3. ASSUME NEW l \in 1 .. Len(i) PROVE IsRead(i[l], r)'
  <2>1. PICK x : x = i[l]
    OBVIOUS
  <2>2. IsRead(x, r)
    BY <2>1 DEF Read
  <2>3. IsRead(x, r)'
    BY <1>2, <2>2
  <2> QED
    BY <2>1, <2>3
<1> QED
  BY <1>3 DEF Read

(* Nothing is counted when the script is started. *)
LEMMA OptionsTally ==
  ASSUME Examined, Tallied, GetOptions
  PROVE  Tallied'
<1>1. /\ pc = "ended" /\ result' = "reading" /\ output_sz' \in Int
      /\ mode' \in { "instr", "bb", "opcode" }
      /\ pos' = pos /\ opcodes' = opcodes /\ count' = count /\ total' = total
  BY DEF GetOptions
<1>2. pos = 0 /\ opcodes = << >> /\ count = << >> /\ total = 0
  BY <1>1 DEF Examined, Tallied
<1>3. PICK c, S, k : c = << >> /\ S = {} /\ k = Keys(input)'
  OBVIOUS
<1>4. IsTally(c, S, k) /\ Sum(c) = 0
  BY <1>3, TallyEmpty
<1>5. KeptOf(input, mode, pos)' = S /\ count' = c
  <2>1. 1 .. pos' = {}
    BY <1>1, <1>2
  <2> QED
    BY <1>1, <1>2, <1>3, <2>1 DEF KeptOf
<1>6. TalliedLines'
  <2>1. IsTally(count', KeptOf(input, mode, pos)', Keys(input)')
    BY <1>3, <1>4, <1>5
  <2>2. total' = Sum(count')
    BY <1>1, <1>2, <1>4, <1>5
  <2> QED
    BY <2>1, <2>2 DEF TalliedLines
<1>7. HasRead(opcodes, input, pos)'
  <2>1. PICK g : g = [ l \in 0 .. 0 |-> << >> ]
    OBVIOUS
  <2>2. g[0] = << >> /\ \A l \in 1 .. pos' : FALSE
    BY <1>1, <1>2, <2>1
  <2>3. PICK i, n, o : i = input' /\ n = pos' /\ o = opcodes' /\ o = g[n]
    BY <1>1, <1>2, <2>2
  <2>4. History(g, i, n)
    BY <2>2, <2>3 DEF History
  <2> QED
    BY <2>3, <2>4 DEF HasRead
<1> QED
  BY <1>1, <1>6, <1>7 DEF Tallied

(* A line is counted, or not. *)
LEMMA PatternTally ==
  ASSUME Examined, Tallied, ReadPattern
  PROVE  Tallied'
<1>1. /\ result = "reading" /\ mode # "opcode" /\ pos < Len(input) /\ pos' = pos + 1
      /\ result' = result /\ mode' = mode /\ input' = input
      /\ output_sz' = output_sz
  BY DEF ReadPattern
<1>2. PICK i, m, n : i = input /\ m = mode /\ n = pos + 1 /\ n = pos'
  BY <1>1
<1>3. n \in 1 .. Len(i) /\ pos \in Nat /\ n \in Nat
  BY <1>1, <1>2 DEF Examined, IsRow
<1>4. PICK S, T, k : S = KeptOf(i, m, pos) /\ T = KeptOf(i, m, n) /\ k = Keys(i)
  OBVIOUS
<1>5. IsTally(count, S, k) /\ total = Sum(count)
  BY <1>1, <1>2, <1>4 DEF Tallied, TalliedLines
<1>6. k[n] = Line
  BY <1>2, <1>3, <1>4 DEF Keys, Line
<1>7. 1 .. n = (1 .. pos) \cup { n } /\ n \notin 1 .. pos
  BY <1>2, <1>3
<1>8. PICK c : c = count'
  OBVIOUS
<1>9. IsTally(c, T, k) /\ total' = Sum(c)
  <2>1. CASE Kept(i, m, n)
    <3>1. count' = Counted(Line) /\ total' = total + 1
      BY <1>2, <2>1 DEF ReadPattern, Kept, Line
    <3>2. T = S \cup { n } /\ n \notin S
      BY <1>4, <1>7, <2>1 DEF KeptOf
    <3>3. PICK key : key = k[n] /\ c = Counted(key)
      BY <1>6, <1>8, <3>1
    <3>4. IsNext(c, count, T, k)
      BY <1>5, <3>2, <3>3, TallyNext
    <3> QED
      BY <1>5, <3>1, <3>4 DEF IsNext
  <2>2. CASE ~Kept(i, m, n)
    <3>1. count' = count /\ total' = total
      BY <1>2, <2>2 DEF ReadPattern, Kept, Line
    <3>2. T = S
      BY <1>4, <1>7, <2>2 DEF KeptOf
    <3> QED
      BY <1>5, <1>8, <3>1, <3>2
  <2> QED
    BY <2>1, <2>2
<1>10. TalliedLines'
  <2>1. T = KeptOf(input, mode, pos)' /\ k = Keys(input)' /\ c = count'
    BY <1>1, <1>2, <1>4, <1>8
  <2> QED
    BY <1>9, <2>1 DEF TalliedLines
<1> QED
  BY <1>1, <1>10 DEF Tallied

(* An opcode is read, or a line without one. *)
LEMMA OpcodeTally ==
  ASSUME Examined, Tallied, ReadOpcode
  PROVE  Tallied'
<1>1. /\ result = "reading" /\ mode = "opcode" /\ pos < Len(input) /\ pos' = pos + 1
      /\ mode' = mode /\ input' = input /\ output_sz' = output_sz
  BY DEF ReadOpcode
<1>2. PICK i, n : i = input /\ n = pos + 1 /\ n = pos'
  BY <1>1
<1>3. n \in 1 .. Len(i) /\ pos \in Nat /\ n \in Nat /\ n - 1 = pos
  BY <1>1, <1>2 DEF Examined, IsRow
<1>4. result' \in { "died", "reading" }
      /\ opcodes' = IF i[n].text.line = "instr" THEN Append(opcodes, i[n].text.op) ELSE opcodes
  <2>1. Line = i[n].text
    BY <1>2 DEF Line
  <2>2. CASE Line.line = "instr"
    BY <1>1, <2>1, <2>2 DEF ReadOpcode
  <2>3. CASE Line.line = "more"
    BY <1>1, <2>1, <2>3 DEF ReadOpcode
  <2>4. CASE Line.line \notin { "instr", "more" }
    BY <1>1, <2>1, <2>4 DEF ReadOpcode
  <2> QED
    BY <2>2, <2>3, <2>4
<1>5. PICK g : History(g, i, pos) /\ opcodes = g[pos]
  BY <1>1, <1>2 DEF Tallied, HasRead
<1>6. PICK o : o = opcodes'
  OBVIOUS
<1>7. PICK f : f = [ l \in 0 .. n |-> IF l = n THEN o ELSE g[l] ]
  OBVIOUS
<1>8. f[n] = o /\ \A l \in 0 .. n - 1 : f[l] = g[l]
  BY <1>3, <1>7
<1>9. f[0] = << >>
  BY <1>3, <1>5, <1>8 DEF History
<1>10. ASSUME NEW l \in 1 .. n
       PROVE  f[l] = IF i[l].text.line = "instr" THEN Append(f[l - 1], i[l].text.op) ELSE f[l - 1]
  <2>1. CASE l = n
    <3>1. f[l - 1] = opcodes /\ f[l] = o
      BY <1>3, <1>5, <1>8, <2>1
    <3> QED
      BY <1>4, <1>6, <2>1, <3>1
  <2>2. CASE l # n
    <3>1. l \in 1 .. pos /\ l \in 0 .. n - 1 /\ l - 1 \in 0 .. n - 1
      BY <1>3, <2>2
    <3>2. f[l] = g[l] /\ f[l - 1] = g[l - 1]
      BY <1>8, <3>1
    <3> QED
      BY <1>5, <3>1, <3>2 DEF History
  <2> QED
    BY <2>1, <2>2
<1>11. History(f, i, n)
  BY <1>9, <1>10 DEF History
<1>12. HasRead(o, i, n)
  BY <1>8, <1>11 DEF HasRead
<1>13. HasRead(opcodes, input, pos)'
  BY <1>1, <1>2, <1>6, <1>12
<1> QED
  BY <1>1, <1>4, <1>13 DEF Tallied

(* No window is counted when all has been read. *)
LEMMA SequencesTally ==
  ASSUME Examined, Tallied, CountSequences
  PROVE  Tallied'
<1>1. /\ result = "reading" /\ mode = "opcode" /\ pos = Len(input)
      /\ total' = Len(opcodes) - 1 - window_sz /\ pos' = 0 /\ result' = "counting"
      /\ mode' = mode /\ output_sz' = output_sz /\ window_sz' = window_sz /\ input' = input
      /\ opcodes' = opcodes /\ count' = count
  BY DEF CountSequences
<1>2. count = << >> /\ HasRead(opcodes, input, Len(input)) /\ IsRow(input) /\ output_sz \in Int
  BY <1>1 DEF Examined, Tallied
<1>3. PICK c, S, k, n : c = count /\ n = pos' /\ S = 1 .. n /\ k = Windows(opcodes, window_sz, Len(input))
  OBVIOUS
<1>4. S = {} /\ c = << >>
  BY <1>1, <1>2, <1>3
<1>5. IsTally(c, S, k) /\ Sum(c) = 0
  BY <1>4, TallyEmpty
<1>6. IsTally(count', 1 .. pos', Windows(opcodes', window_sz', Len(input'))) /\ Sum(count') = pos'
  BY <1>1, <1>3, <1>5
<1>7. pos' <= Len(input')
  BY <1>1, <1>2 DEF IsRow
<1>8. TalliedWindows'
  BY <1>1, <1>2, <1>6, <1>7 DEF TalliedWindows
<1> QED
  BY <1>1, <1>2, <1>8 DEF Tallied

(* The next one is. *)
LEMMA WindowTally ==
  ASSUME Examined, Tallied, CountWindow
  PROVE  Tallied'
<1>1. /\ result = "counting" /\ pos < total
      /\ count' = Counted(SubSeq(opcodes, pos + 1, pos + window_sz)) /\ pos' = pos + 1
      /\ mode' = mode /\ output_sz' = output_sz /\ window_sz' = window_sz /\ input' = input
      /\ opcodes' = opcodes /\ total' = total /\ result' = result
  BY DEF CountWindow
<1>2. mode = "opcode" /\ TalliedWindows /\ output_sz \in Int
  BY <1>1 DEF Tallied
<1>3. PICK l \in Nat, p \in Nat, t \in Int, w \in Nat :
        l = Len(input) /\ p = pos /\ t = total /\ w = window_sz /\ t <= l /\ p < t
  BY <1>1 DEF Examined, IsRow
<1>4. PICK c, S, T, k, x : c = count' /\ S = 1 .. p /\ T = 1 .. x /\ x = p + 1 /\ k = Windows(opcodes, w, l)
  OBVIOUS
<1>5. IsTally(count, S, k) /\ Sum(count) = p /\ HasRead(opcodes, input, Len(input))
      /\ total = Len(opcodes) - 1 - window_sz
  BY <1>2, <1>3, <1>4 DEF TalliedWindows
<1>6. x \notin S /\ T = S \cup { x } /\ x \in 1 .. l
  BY <1>3, <1>4
<1>7. PICK key : key = SubSeq(opcodes, pos + 1, pos + window_sz)
  OBVIOUS
<1>8. key = k[x]
  <2>1. k[x] = SubSeq(opcodes, x, x + w - 1)
    BY <1>4, <1>6 DEF Windows
  <2>2. x + w - 1 = p + w
    BY <1>4, <1>6
  <2>3. k[x] = SubSeq(opcodes, p + 1, p + w)
    BY <1>4, <2>1, <2>2
  <2> QED
    BY <1>3, <1>7, <2>3
<1>9. c = Counted(key)
  BY <1>1, <1>4, <1>7
<1>10. IsNext(c, count, T, k)
  BY <1>5, <1>6, <1>8, <1>9, TallyNext
<1>11. IsTally(c, T, k) /\ Sum(c) = x
  BY <1>4, <1>5, <1>10 DEF IsNext
<1>12. x = pos' /\ T = 1 .. pos' /\ k = Windows(opcodes', window_sz', Len(input')) /\ c = count'
  BY <1>1, <1>3, <1>4
<1>13. pos' <= Len(input') /\ pos' <= total' /\ pos' # 0
  BY <1>1, <1>3
<1>14. TalliedWindows'
  <2>1. IsTally(count', 1 .. pos', Windows(opcodes', window_sz', Len(input'))) /\ Sum(count') = pos'
    BY <1>11, <1>12
  <2> QED
    BY <1>1, <1>5, <1>13, <2>1 DEF TalliedWindows
<1> QED
  BY <1>1, <1>2, <1>14 DEF Tallied

(* What has been counted is printed when all is. *)
LEMMA PrintTally ==
  ASSUME Examined, Tallied, PrettyPrint
  PROVE  Tallied'
<1>1. /\ \/ result = "reading" /\ mode # "opcode" /\ pos = Len(input)
         \/ result = "counting" /\ pos >= total
      /\ output' = SortAndCut(count) /\ result' = "printed"
      /\ mode' = mode /\ output_sz' = output_sz /\ window_sz' = window_sz /\ input' = input
      /\ pos' = pos /\ opcodes' = opcodes /\ count' = count /\ total' = total
  BY DEF PrettyPrint
<1>2. output_sz \in Int
  BY DEF Tallied
<1>3. output' = SortAndCut(count)'
  BY <1>1 DEF SortAndCut, Sorted, MoreFrequent
<1>4. TalliedLines' <=> TalliedLines
  BY <1>1 DEF TalliedLines
<1>5. TalliedWindows' <=> TalliedWindows
  BY <1>1 DEF TalliedWindows
<1>6. CASE mode = "opcode"
  <2>1. TalliedWindows /\ pos >= total
    BY <1>1, <1>6 DEF Tallied
  <2> QED
    BY <1>1, <1>2, <1>3, <1>5, <1>6, <2>1 DEF Tallied
<1>7. CASE mode # "opcode"
  <2>1. TalliedLines /\ pos = Len(input)
    BY <1>1, <1>7 DEF Tallied
  <2> QED
    BY <1>1, <1>2, <1>3, <1>4, <1>7, <2>1 DEF Tallied
<1> QED
  BY <1>6, <1>7

(* Nobody else touches it. *)
LEMMA OtherTally ==
  ASSUME Tallied, UNCHANGED analyzeVars
  PROVE  Tallied'
<1>1. /\ result' = result /\ mode' = mode /\ output_sz' = output_sz /\ window_sz' = window_sz
      /\ input' = input /\ pos' = pos /\ opcodes' = opcodes /\ count' = count
      /\ total' = total /\ output' = output
  BY DEF analyzeVars
<1>2. SortAndCut(count)' = SortAndCut(count)
  BY <1>1 DEF SortAndCut, Sorted, MoreFrequent
<1>3. TalliedLines' <=> TalliedLines
  BY <1>1 DEF TalliedLines
<1>4. TalliedWindows' <=> TalliedWindows
  BY <1>1 DEF TalliedWindows
<1>5. HasRead(opcodes, input, pos)' <=> HasRead(opcodes, input, pos)
  BY <1>1
<1> QED
  BY <1>1, <1>2, <1>3, <1>4, <1>5 DEF Tallied

-----------------------------------------------------------------------------
(* The profile                                                             *)

(* What has happened, what was read of it, and what was counted of that. *)
Profiled ==
  /\ Happened(ran)
  /\ pc = "analyze" => Read(input, ran)
  /\ Tallied

(* At first nothing has happened. *)
LEMMA ProfileBegins == Init => Profiled
<1> SUFFICES ASSUME Init PROVE Profiled
  OBVIOUS
<1>1. ran = << >> /\ pc = "gather" /\ output_sz = 0 /\ total = 0 /\ result = "waiting"
      /\ mode = "instr"
  BY DEF Init, TraceGenInit
<1>2. Happened(ran)
  <2>1. PICK r : r = ran /\ r = << >>
    BY <1>1
  <2>2. IsRow(r) /\ Len(r) = 0
    BY <2>1, EmptyRow
  <2>3. \A n \in 1 .. Len(r) : FALSE
    BY <2>2
  <2> QED
    BY <2>1, <2>2, <2>3 DEF Happened
<1>3. Tallied
  BY <1>1 DEF Tallied
<1> QED
  BY <1>1, <1>2, <1>3 DEF Profiled

(* Every step keeps the record of what has. *)
LEMMA ProfileKept ==
  ASSUME IInv, Profiled, [Next]_vars
  PROVE  Profiled'
<1>1. Shaped /\ Instrumented /\ Reported /\ Examined /\ Happened(ran) /\ Tallied
  BY DEF IInv, Profiled
<1>2. CASE Generate
  <2>1. Tallied'
    BY <1>1, <1>2, OtherTally DEF Generate
  <2>2. Happened(ran)'
    BY <1>1, <1>2, PassHappens, RunHappens DEF Generate
  <2>3. pc' # "analyze"
    BY <1>2 DEF Generate, Instrument, Run, Gather, TraceEntrance, InsertPrepared, TraceExits,
                Puts, Compute, Call, Exit, Branch, Return, Stopped, Running
  <2> QED
    BY <2>1, <2>2, <2>3 DEF Profiled
<1>3. CASE GetOptions
  <2>1. program' = program /\ ran' = ran
    BY <1>3 DEF GetOptions, runVars
  <2>2. PICK r, i : r = ran /\ i = input'
    OBVIOUS
  <2>3. Happened(r)' /\ r = ran'
    BY <1>1, <2>1, <2>2, HappenedStays
  <2>4. Read(i, r)
    BY <1>1, <1>3, <2>2, OptionsRead
  <2>5. Read(i, r)'
    BY <2>1, <2>4, ReadStays
  <2>6. Happened(ran)' /\ Read(input, ran)'
    BY <2>2, <2>3, <2>5
  <2>7. Tallied'
    BY <1>1, <1>3, OptionsTally
  <2> QED
    BY <2>6, <2>7 DEF Profiled
<1>4. CASE ReadPattern \/ ReadOpcode \/ CountSequences \/ CountWindow \/ PrettyPrint
  <2>1. program' = program /\ ran' = ran /\ input' = input /\ pc' = pc
    BY <1>4 DEF ReadPattern, ReadOpcode, CountSequences, CountWindow, PrettyPrint,
                traceGenVars, runVars
  <2>2. PICK r, i : r = ran /\ i = input
    OBVIOUS
  <2>3. Happened(r)' /\ r = ran' /\ i = input'
    BY <1>1, <2>1, <2>2, HappenedStays
  <2>4. Happened(ran)'
    BY <2>3
  <2>5. ASSUME pc' = "analyze" PROVE Read(input, ran)'
    <3>1. Read(i, r)
      BY <2>1, <2>2, <2>5 DEF Profiled
    <3>2. Read(i, r)'
      BY <2>1, <3>1, ReadStays
    <3> QED
      BY <2>3, <3>2
  <2>6. Tallied'
    BY <1>1, <1>4, PatternTally, OpcodeTally, SequencesTally, WindowTally, PrintTally
  <2> QED
    BY <2>4, <2>5, <2>6 DEF Profiled
<1>5. CASE UNCHANGED vars
  <2>1. program' = program /\ ran' = ran /\ input' = input /\ pc' = pc /\ UNCHANGED analyzeVars
    BY <1>5 DEF vars, traceGenVars, runVars, analyzeVars
  <2>2. PICK r, i : r = ran /\ i = input
    OBVIOUS
  <2>3. Happened(r)' /\ r = ran' /\ i = input'
    BY <1>1, <2>1, <2>2, HappenedStays
  <2>4. Happened(ran)'
    BY <2>3
  <2>5. ASSUME pc' = "analyze" PROVE Read(input, ran)'
    <3>1. Read(i, r)
      BY <2>1, <2>2, <2>5 DEF Profiled
    <3>2. Read(i, r)'
      BY <2>1, <3>1, ReadStays
    <3> QED
      BY <2>3, <3>2
  <2>6. Tallied'
    BY <1>1, <2>1, OtherTally
  <2> QED
    BY <2>4, <2>5, <2>6 DEF Profiled
<1> QED
  BY <1>2, <1>3, <1>4, <1>5 DEF Next, Analyze, Done

(* What has been counted are the lines analyze.pl has read, and these are  *)
(* lines of events of the run.                                             *)
THEOREM ProfileInvariant == Spec => []Profiled
<1>1. IInv /\ Profiled /\ [Next]_vars => Profiled'
  BY ProfileKept
<1> QED
  BY <1>1, Invariant, ProfileBegins, PTL DEF Spec

(* What is counted in mode opcode are all the windows there are to count. *)
LEMMA WindowsCounted ==
  ASSUME Examined, Tallied, result = "printed", mode = "opcode", count # << >>
  PROVE  Sum(count) = total
<1>1. TalliedWindows /\ pos >= total
  BY DEF Tallied
<1>2. PICK l : l = Len(opcodes)
  OBVIOUS
<1>3. /\ total = Len(opcodes) - 1 - window_sz /\ Sum(count) = pos
      /\ pos = 0 \/ pos <= total
      /\ pos = 0 => count = << >>
  BY <1>1 DEF TalliedWindows
<1>4. l \in Nat /\ window_sz \in Nat /\ pos \in Nat
  BY <1>2 DEF Examined, IsRow
<1>5. PICK t \in Int : t = total
  <2>1. PICK t : t = total
    OBVIOUS
  <2>2. t = l - 1 - window_sz
    BY <1>2, <1>3, <2>1
  <2>3. t \in Int
    BY <1>4, <2>2
  <2> QED
    BY <2>1, <2>3
<1>6. pos <= t /\ pos >= t
  BY <1>1, <1>3, <1>5
<1>7. pos = t
  BY <1>4, <1>5, <1>6
<1> QED
  BY <1>3, <1>5, <1>7

(* What is printed comes from a tally, whose list is sorted and cut. *)
LEMMA FrequentFirst ==
  ASSUME IInv, Profiled
  PROVE  MostFrequentFirst
<1> SUFFICES ASSUME result = "printed"
             PROVE  /\ count # << >> => Sum(count) = total
                    /\ \A n \in 2 .. Len(output) : output[n - 1].count >= output[n].count
                    /\ \A c \in 1 .. Len(count) :
                         \/ \E n \in 1 .. Len(output) : output[n] = count[c]
                         \/ \A n \in 1 .. Len(output) : output[n].count >= count[c].count
  BY DEF MostFrequentFirst
<1>1. Examined /\ Tallied /\ output = SortAndCut(count) /\ output_sz \in Int
  BY DEF IInv, Profiled, Tallied
<1>2. IsCounts(count)
  <2>1. CASE mode = "opcode"
    BY <1>1, <2>1, TallyCounts DEF Tallied, TalliedWindows
  <2>2. CASE mode # "opcode"
    BY <1>1, <2>2, TallyCounts DEF Tallied, TalliedLines
  <2> QED
    BY <2>1, <2>2
<1>3. PICK s, u : s = count /\ u = output
  OBVIOUS
<1>4. IsCounts(s) /\ u = SortAndCut(s)
  BY <1>1, <1>2, <1>3
<1>5. /\ \A n \in 2 .. Len(u) : u[n - 1].count >= u[n].count
      /\ \A c \in 1 .. Len(s) : \/ \E n \in 1 .. Len(u) : u[n] = s[c]
                                \/ \A n \in 1 .. Len(u) : u[n].count >= s[c].count
  BY <1>1, <1>4, CutInOrder
<1>6. count # << >> => Sum(count) = total
  <2>1. CASE mode = "opcode"
    BY <1>1, <2>1, WindowsCounted
  <2>2. CASE mode # "opcode"
    BY <1>1, <2>2 DEF Tallied, TalliedLines
  <2> QED
    BY <2>1, <2>2
<1> QED
  BY <1>3, <1>5, <1>6

(* The percentages of trace/analyze.pl are of all that was counted, and the*)
(* list it prints is in order and leaves nothing out that is more frequent *)
(* than what it tells, for every part of every trace and every -n.         *)
THEOREM TraceMostFrequentFirst == Spec => []MostFrequentFirst
<1>1. IInv /\ Profiled => MostFrequentFirst
  BY FrequentFirst
<1> QED
  BY <1>1, Invariant, ProfileInvariant, PTL

(* A line that was read, and the event it is of. *)
LEMMA EventRead ==
  ASSUME IInv, Profiled, result = "printed", NEW l \in 1 .. Len(input), NEW e, e = EventOf[l]
  PROVE  /\ Happens(e) /\ e = ran[input[l].n]
         /\ input[l].text.line = "more" \/ input[l].text = Text(e)
<1>1. Happened(ran) /\ Read(input, ran)
  BY DEF IInv, Profiled, Examined
<1>2. PICK x : x = input[l]
  OBVIOUS
<1>3. IsRead(x, ran)
  BY <1>1, <1>2 DEF Read
<1>4. e = ran[x.n]
  BY <1>2 DEF EventOf
<1>5. x.n \in 1 .. Len(ran) /\ IsLineOf(x, x.n, e)
  BY <1>3, <1>4 DEF IsRead
<1>6. Happens(e)
  BY <1>1, <1>4, <1>5 DEF Happened
<1> QED
  BY <1>2, <1>4, <1>5, <1>6 DEF IsLineOf

(* A block is counted as often as it was entered. *)
LEMMA BlocksCounted ==
  ASSUME IInv, Profiled, result = "printed", mode = "bb",
         NEW f \in 1 .. Len(program), NEW b \in 1 .. Len(Code(f))
  PROVE  CountOf(getLabel(f, Code(f), b))
           = Cardinality({ l \in DoneInPart("bb") : EventOf[l] = << "bb", f, b >> })
<1>1. program \in Programs
  BY DEF IInv, Shaped
<1>2. IsTally(count, KeptOf(input, mode, pos), Keys(input)) /\ pos = Len(input)
  BY DEF Profiled, Tallied, TalliedLines
<1>3. PICK key : key = getLabel(f, Code(f), b)
  OBVIOUS
<1>4. PICK S, k : S = KeptOf(input, "bb", Len(input)) /\ k = Keys(input)
  OBVIOUS
<1>5. CountOf(key) = Cardinality(Occurrences(S, k, key))
  <2>1. IsTally(count, S, k)
    BY <1>2, <1>4
  <2> QED
    BY <2>1, TallyFound
<1>6. ASSUME NEW l \in 1 .. Len(input)
      PROVE  Kept(input, "bb", l) /\ input[l].text = key
               <=> Begins(l) /\ EventOf[l][1] = "bb" /\ EventOf[l] = << "bb", f, b >>
  <2>1. PICK e, x : e = EventOf[l] /\ x = input[l].text
    OBVIOUS
  <2>2. Happens(e) /\ (x.line = "more" \/ x = Text(e))
    BY <2>1, EventRead
  <2>3. Text(e) = key <=> e = << "bb", f, b >>
    BY <1>1, <1>3, <2>2, LineOfBlock
  <2>4. key.line = "bb"
    BY <1>3 DEF getLabel
  <2>5. Kept(input, "bb", l) <=> x.line = "bb"
    BY <2>1 DEF Kept
  <2>6. Begins(l) <=> x.line # "more"
    BY <2>1 DEF Begins
  <2> QED
    BY <2>1, <2>2, <2>3, <2>4, <2>5, <2>6
<1>7. Occurrences(S, k, key) = { l \in DoneInPart("bb") : EventOf[l] = << "bb", f, b >> }
  <2>1. \A l : l \in Occurrences(S, k, key)
                 <=> l \in 1 .. Len(input) /\ Kept(input, "bb", l) /\ input[l].text = key
    BY <1>4 DEF Occurrences, KeptOf, Keys
  <2>2. \A l : l \in { m \in DoneInPart("bb") : EventOf[m] = << "bb", f, b >> }
                 <=> /\ l \in 1 .. Len(input)
                     /\ Begins(l) /\ EventOf[l][1] = "bb" /\ EventOf[l] = << "bb", f, b >>
    BY DEF DoneInPart
  <2> QED
    BY <1>6, <2>1, <2>2
<1> QED
  BY <1>3, <1>5, <1>7

(* An instruction is counted as often as it was executed. *)
LEMMA InstructionsCounted ==
  ASSUME IInv, Profiled, result = "printed", mode = "instr", NEW n \in DoneInPart("instr")
  PROVE  CountOf(Text(EventOf[n]))
           = Cardinality({ m \in DoneInPart("instr") : Text(EventOf[m]) = Text(EventOf[n]) })
<1>2. IsTally(count, KeptOf(input, mode, pos), Keys(input)) /\ pos = Len(input)
  BY DEF Profiled, Tallied, TalliedLines
<1>3. PICK key : key = Text(EventOf[n])
  OBVIOUS
<1>4. PICK S, k : S = KeptOf(input, "instr", Len(input)) /\ k = Keys(input)
  OBVIOUS
<1>5. CountOf(key) = Cardinality(Occurrences(S, k, key))
  <2>1. IsTally(count, S, k)
    BY <1>2, <1>4
  <2> QED
    BY <2>1, TallyFound
<1>8. key.line = "instr"
  <2>1. PICK e : e = EventOf[n]
    OBVIOUS
  <2>2. Happens(e) /\ e[1] = "instr"
    BY <2>1, EventRead DEF DoneInPart
  <2>3. Text(e).line = e[1]
    BY <2>2, LineOfEvent
  <2> QED
    BY <1>3, <2>1, <2>2, <2>3
<1>6. ASSUME NEW l \in 1 .. Len(input)
      PROVE  Kept(input, "instr", l) /\ input[l].text = key
               <=> Begins(l) /\ EventOf[l][1] = "instr" /\ Text(EventOf[l]) = key
  <2>1. PICK e, x : e = EventOf[l] /\ x = input[l].text
    OBVIOUS
  <2>2. Happens(e) /\ (x.line = "more" \/ x = Text(e))
    BY <2>1, EventRead
  <2>3. Text(e).line = e[1]
    BY <2>2, LineOfEvent
  <2>5. Kept(input, "instr", l) <=> x.line \notin { "begin", "end", "bb" }
    BY <2>1 DEF Kept, Comment
  <2>6. Begins(l) <=> x.line # "more"
    BY <2>1 DEF Begins
  <2> QED
    BY <1>8, <2>1, <2>2, <2>3, <2>5, <2>6
<1>7. Occurrences(S, k, key) = { m \in DoneInPart("instr") : Text(EventOf[m]) = key }
  <2>1. \A l : l \in Occurrences(S, k, key)
                 <=> l \in 1 .. Len(input) /\ Kept(input, "instr", l) /\ input[l].text = key
    BY <1>4 DEF Occurrences, KeptOf, Keys
  <2>2. \A l : l \in { m \in DoneInPart("instr") : Text(EventOf[m]) = key }
                 <=> /\ l \in 1 .. Len(input)
                     /\ Begins(l) /\ EventOf[l][1] = "instr" /\ Text(EventOf[l]) = key
    BY DEF DoneInPart
  <2> QED
    BY <1>6, <2>1, <2>2
<1> QED
  BY <1>3, <1>5, <1>7

(* The opcodes of the instructions executed, as a function of the lines. *)
IsUpTo(u, n) ==
  u = [ l \in 0 .. n |->
          IF l = 0 THEN << >>
          ELSE IF input[l].text.line = "instr"
                 THEN Append(u[l - 1], Text(ran[input[l].n]).op) ELSE u[l - 1] ]

(* The script has read these. *)
LEMMA OpcodesRead ==
  ASSUME IInv, Profiled, result = "printed", mode = "opcode"
  PROVE  OpcodeSequence = opcodes
<1>1. PICK n \in Nat : n = Len(input)
  BY DEF IInv, Examined, IsRow
<1>2. HasRead(opcodes, input, n)
  BY <1>1 DEF Profiled, Tallied, TalliedWindows
<1>3. PICK g : History(g, input, n) /\ opcodes = g[n]
  BY <1>2 DEF HasRead
<1>4. ASSUME NEW l \in 1 .. n, input[l].text.line = "instr"
      PROVE  input[l].text.op = Text(ran[input[l].n]).op
  <2>1. PICK e, x : e = EventOf[l] /\ x = input[l].text
    OBVIOUS
  <2>2. e = ran[input[l].n] /\ (x.line = "more" \/ x = Text(e))
    BY <1>1, <2>1, EventRead
  <2> QED
    BY <1>4, <2>1, <2>2
<1>5. /\ g[0] = << >>
      /\ \A l \in 1 .. n :
           g[l] = IF input[l].text.line = "instr"
                    THEN Append(g[l - 1], Text(ran[input[l].n]).op) ELSE g[l - 1]
  BY <1>3, <1>4 DEF History
<1>6. PICK f : f = [ l \in 0 .. n |-> g[l] ]
  OBVIOUS
<1>7. IsUpTo(f, n)
  <2>1. \A l \in 0 .. n : f[l] = g[l]
    BY <1>6
  <2>2. ASSUME NEW l \in 0 .. n
        PROVE  g[l] = IF l = 0 THEN << >>
                      ELSE IF input[l].text.line = "instr"
                             THEN Append(f[l - 1], Text(ran[input[l].n]).op) ELSE f[l - 1]
    <3>1. CASE l = 0
      BY <1>5, <3>1
    <3>2. CASE l # 0
      <4>1. l \in 1 .. n /\ l - 1 \in 0 .. n
        BY <3>2
      <4>2. f[l - 1] = g[l - 1]
        BY <2>1, <4>1
      <4> QED
        BY <1>5, <3>2, <4>1, <4>2
    <3> QED
      BY <3>1, <3>2
  <2> QED
    BY <1>6, <2>2 DEF IsUpTo
<1>8. ASSUME NEW u, IsUpTo(u, n) PROVE u[n] = opcodes
  <2> DEFINE T == { l \in 0 .. n : u[l] # g[l] }
  <2>1. T = {}
    <3> SUFFICES ASSUME T # {} PROVE FALSE
      OBVIOUS
    <3>1. PICK m \in T : \A x \in T : m <= x
      <4>1. T \subseteq Nat
        OBVIOUS
      <4> HIDE DEF T
      <4> QED
        BY <4>1, Least
    <3>2. m \in 0 .. n /\ u[m] # g[m]
      OBVIOUS
    <3>3. u[m] = IF m = 0 THEN << >>
                 ELSE IF input[m].text.line = "instr"
                        THEN Append(u[m - 1], Text(ran[input[m].n]).op) ELSE u[m - 1]
      BY <1>8, <3>2 DEF IsUpTo
    <3>4. CASE m = 0
      BY <1>5, <3>2, <3>3, <3>4
    <3>5. CASE m # 0
      <4>1. m \in 1 .. n /\ m - 1 \in 0 .. n /\ m - 1 \notin T
        BY <3>1, <3>5
      <4>2. u[m - 1] = g[m - 1]
        BY <4>1
      <4> QED
        BY <1>5, <3>2, <3>3, <3>5, <4>1, <4>2
    <3> QED
      BY <3>4, <3>5
  <2> QED
    BY <1>3, <2>1
<1>9. PICK u : u = CHOOSE v : IsUpTo(v, n)
  OBVIOUS
<1>10. IsUpTo(u, n)
  BY <1>7, <1>9
<1>11. OpcodeSequence = u[n]
  BY <1>1, <1>9 DEF OpcodeSequence, IsUpTo
<1> QED
  BY <1>8, <1>10, <1>11

(* No window is counted more often than it was executed, and two at most   *)
(* are left out.                                                           *)
LEMMA WindowsOfRun ==
  ASSUME IInv, Profiled, result = "printed", mode = "opcode",
         NEW last, last = Len(opcodes) - window_sz + 1
  PROVE  /\ \A n \in 1 .. last :
              CountOf(SubSeq(opcodes, n, n + window_sz - 1))
                <= Cardinality({ m \in 1 .. last :
                     SubSeq(opcodes, m, m + window_sz - 1) = SubSeq(opcodes, n, n + window_sz - 1) })
         /\ Sum(count) >= last - 2
<1>1. PICK p \in Nat, w \in Nat, l \in Nat, z \in Int :
        p = pos /\ w = window_sz /\ l = Len(input) /\ z = last
  <2>1. PICK o \in Nat : o = Len(opcodes)
    BY DEF IInv, Examined, IsRow
  <2>2. window_sz \in Nat
    BY DEF IInv, Examined
  <2>3. last \in Int
    BY <2>1, <2>2
  <2> QED
    BY <2>3 DEF IInv, Examined, IsRow
<1>2. TalliedWindows /\ pos >= total
  BY DEF Profiled, Tallied
<1>3. total = z - 2
  <2>1. PICK o \in Nat : o = Len(opcodes)
    BY DEF IInv, Examined, IsRow
  <2>2. total = o - 1 - w
    BY <1>1, <1>2, <2>1 DEF TalliedWindows
  <2> QED
    BY <1>1, <2>1, <2>2
<1>4. PICK S, k : S = 1 .. p /\ k = Windows(opcodes, w, l)
  OBVIOUS
<1>5. IsTally(count, S, k) /\ Sum(count) = p /\ p <= l /\ (p = 0 \/ p <= z - 2) /\ p >= z - 2
  BY <1>1, <1>2, <1>3, <1>4 DEF TalliedWindows
<1>6. ASSUME NEW n \in 1 .. z
      PROVE  CountOf(SubSeq(opcodes, n, n + w - 1))
               <= Cardinality({ m \in 1 .. z :
                    SubSeq(opcodes, m, m + w - 1) = SubSeq(opcodes, n, n + w - 1) })
  <2>1. PICK key : key = SubSeq(opcodes, n, n + w - 1)
    OBVIOUS
  <2>2. PICK E, O : E = { m \in 1 .. z : SubSeq(opcodes, m, m + w - 1) = key }
                    /\ O = Occurrences(S, k, key)
    OBVIOUS
  <2>3. CountOf(key) = Cardinality(O)
    BY <1>5, <2>2, TallyFound
  <2>4. O \in SUBSET E
    <3>1. ASSUME NEW m \in 1 .. p PROVE m \in 1 .. z /\ k[m] = SubSeq(opcodes, m, m + w - 1)
      <4>1. m \in 1 .. z /\ m \in 1 .. l
        BY <1>5
      <4> QED
        BY <1>4, <4>1 DEF Windows
    <3> QED
      BY <1>4, <2>2, <3>1 DEF Occurrences
  <2>5. IsFiniteSet(E)
    <3>1. PICK N \in Nat : N = z
      OBVIOUS
    <3>2. PICK I : I = 1 .. N
      OBVIOUS
    <3>3. IsFiniteSet(I) /\ E \in SUBSET I
      BY <2>2, <3>1, <3>2, IntervalSize
    <3> QED
      BY <3>3, FS_Subset
  <2>6. Cardinality(O) <= Cardinality(E)
    BY <2>4, <2>5, FS_Subset
  <2> QED
    BY <2>1, <2>2, <2>3, <2>6
<1> QED
  BY <1>1, <1>5, <1>6

(* The profile is the run's in each of the modes. *)
LEMMA ProfileTold ==
  ASSUME IInv, Profiled
  PROVE  ProfileOfRun
<1>1. CASE result = "printed" /\ mode = "bb"
  <2>1. \A f \in 1 .. Len(program) : \A b \in 1 .. Len(program[f].blocks) :
          CountOf(getLabel(f, program[f].blocks, b))
            = Cardinality({ l \in DoneInPart("bb") : EventOf[l] = << "bb", f, b >> })
    BY <1>1, BlocksCounted DEF Code
  <2> QED
    BY <1>1, <2>1, Zenon DEF ProfileOfRun
<1>2. CASE result = "printed" /\ mode = "instr"
  <2>1. \A l \in DoneInPart("instr") :
          CountOf(Text(EventOf[l]))
            = Cardinality({ m \in DoneInPart("instr") : Text(EventOf[m]) = Text(EventOf[l]) })
    BY <1>2, InstructionsCounted
  <2> QED
    BY <1>2, <2>1, Zenon DEF ProfileOfRun
<1>3. CASE result = "printed" /\ mode = "opcode"
  <2> DEFINE last  == Len(OpcodeSequence) - window_sz + 1
             at(n) == SubSeq(OpcodeSequence, n, n + window_sz - 1)
  <2>1. (\A n \in 1 .. last : CountOf(at(n)) <= Cardinality({ m \in 1 .. last : at(m) = at(n) }))
        /\ Sum(count) >= last - 2
    BY <1>3, OpcodesRead, WindowsOfRun
  <2> QED
    BY <1>3, <2>1, Zenon DEF ProfileOfRun
<1>4. mode \in { "instr", "bb", "opcode" }
  BY DEF Profiled, Tallied
<1> QED
  BY <1>1, <1>2, <1>3, <1>4 DEF ProfileOfRun

(* trace/analyze.pl counts what the program did in the part of the run it  *)
(* was given: a block as often as it was entered, an instruction as often  *)
(* as it was executed, no sequence of opcodes more often and two of them at*)
(* most not at all, for every program, every part and every window.        *)
THEOREM TraceProfileOfRun == Spec => []ProfileOfRun
<1>1. IInv /\ Profiled => ProfileOfRun
  BY ProfileTold
<1> QED
  BY <1>1, Invariant, ProfileInvariant, PTL
=============================================================================
