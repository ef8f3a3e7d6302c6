------------------------------- MODULE Trace -------------------------------
(***************************************************************************)
(* trace/analyze.pl, on what TraceGen has written: it counts instructions, *)
(* basic blocks or sequences of opcodes of a part of the trace and prints  *)
(* the most frequent ones.                                                 *)
(*                                                                         *)
(* The keys of a hash come in the order they were inserted, where Perl     *)
(* leaves the order open.                                                  *)
(***************************************************************************)
EXTENDS TraceGen

CONSTANTS
  MaxOutputSz,  \* the largest -n
  MaxWindowSz   \* the largest -c

VARIABLES
  mode, output_sz, window_sz,  \* the options
  input,     \* the lines that head and tail let through
  pos,       \* lines read
  opcodes,   \* of the lines read, in mode opcode
  count,     \* what was counted, in order of first occurrence
  total,     \* what percentages are of: line_count or sequence_count
  output,    \* the entries printed
  result     \* "reading", "counting" windows, "printed" or "died"

analyzeVars == << mode, output_sz, window_sz, input, pos, opcodes, count, total, output, result >>
vars == << traceGenVars, analyzeVars >>

-----------------------------------------------------------------------------
(* The lines of trace.txt.  A switch is printed on several: a line for each*)
(* case, indented, and a bracket.  Every line knows which event it is of.  *)
Lines(n, text) ==
  LET first == << [ n |-> n, text |-> text ] >>
      more(r) == [ n |-> n, text |-> [ line |-> "more", refs |-> r ] ]
  IN  IF text.line = "instr" /\ text.op = "switch"
        THEN first \o [ r \in 1 .. Len(text.refs) - 1 |-> more(<< text.refs[r + 1] >>) ]
                   \o << more(<< >>) >>
        ELSE first

FileOf(texts) == FlattenSeq([ n \in 1 .. Len(texts) |-> Lines(n, texts[n]) ])

(* A part of the trace is piped into the script.  What head has taken is   *)
(* executed before the program is stopped.                                 *)
GetOptions ==
  /\ pc = "ended"
  /\ mode' \in { "instr", "bb", "opcode" }
  /\ output_sz' \in 0 .. MaxOutputSz
  /\ window_sz' \in IF mode' = "opcode" THEN 1 .. MaxWindowSz ELSE { 1 }
  /\ LET file == FileOf(SubSeq(trace, 1, IF Len(trace) <= Len(ran) THEN Len(trace) ELSE Len(ran)))
     IN  \E from, to \in 1 .. Len(file) :
           from <= to /\ input' = SubSeq(file, from, to)
  /\ pc' = "analyze" /\ result' = "reading"
  /\ UNCHANGED << program, passVars, runVars, pos, opcodes, count, total, output >>

Counted(key) ==
  IF \E c \in 1 .. Len(count) : count[c].key = key
    THEN [ c \in 1 .. Len(count) |->
             IF count[c].key = key THEN [ count[c] EXCEPT !.count = @ + 1 ] ELSE count[c] ]
    ELSE Append(count, [ key |-> key, count |-> 1 ])

Line == input[pos + 1].text
Comment(line) == line.line \in { "begin", "end", "bb" }

ReadPattern ==
  /\ result = "reading" /\ mode # "opcode" /\ pos < Len(input)
  /\ IF (mode = "bb" /\ Line.line = "bb") \/ (mode = "instr" /\ ~Comment(Line))
       THEN count' = Counted(Line) /\ total' = total + 1
       ELSE UNCHANGED << count, total >>
  /\ pos' = pos + 1
  /\ UNCHANGED << traceGenVars, mode, output_sz, window_sz, input, opcodes, output, result >>

(* get_next_opcode, which dies of a line that starts with a blank. *)
ReadOpcode ==
  /\ result = "reading" /\ mode = "opcode" /\ pos < Len(input)
  /\ CASE Line.line = "instr" -> opcodes' = Append(opcodes, Line.op) /\ UNCHANGED result
       [] Line.line = "more"  -> result' = "died" /\ UNCHANGED opcodes
       [] OTHER               -> UNCHANGED << opcodes, result >>
  /\ pos' = pos + 1
  /\ UNCHANGED << traceGenVars, mode, output_sz, window_sz, input, count, total, output >>

(* sequence_count is taken from $#opcodes, the last index. *)
CountSequences ==
  /\ result = "reading" /\ mode = "opcode" /\ pos = Len(input)
  /\ total' = Len(opcodes) - 1 - window_sz
  /\ pos' = 0
  /\ result' = "counting"
  /\ UNCHANGED << traceGenVars, mode, output_sz, window_sz, input, opcodes, count, output >>

CountWindow ==
  /\ result = "counting" /\ pos < total
  /\ count' = Counted(SubSeq(opcodes, pos + 1, pos + window_sz))
  /\ pos' = pos + 1
  /\ UNCHANGED << traceGenVars, mode, output_sz, window_sz, input, opcodes, total, output, result >>

(* Sorted by frequency, entries of one frequency in the order they had, ... *)
MoreFrequent(s, c, d) == s[c].count > s[d].count \/ (s[c].count = s[d].count /\ c < d)

Sorted(s) ==
  LET before(d) == { c \in 1 .. Len(s) : MoreFrequent(s, c, d) }
  IN  [ n \in 1 .. Len(s) |-> s[CHOOSE d \in 1 .. Len(s) : Cardinality(before(d)) = n - 1] ]

(* Seeded fault: the list cut before it is sorted. *)
CutThenSort(patterns) ==
  Sorted(IF output_sz > 0 /\ Len(patterns) - 1 > output_sz
           THEN SubSeq(patterns, 1, output_sz) ELSE patterns)

(* ... and trimmed. *)
SortAndCut(patterns) ==
  IF output_sz > 0 /\ Len(patterns) - 1 > output_sz
    THEN SubSeq(Sorted(patterns), 1, output_sz) ELSE Sorted(patterns)

PrettyPrint ==
  /\ \/ result = "reading" /\ mode # "opcode" /\ pos = Len(input)
     \/ result = "counting" /\ pos >= total
  /\ output' = SortAndCut(count)
  /\ result' = "printed"
  /\ UNCHANGED << traceGenVars, mode, output_sz, window_sz, input, pos, opcodes, count, total >>

-----------------------------------------------------------------------------
Init ==
  /\ TraceGenInit
  /\ mode = "instr" /\ output_sz = 0 /\ window_sz = 1
  /\ input = << >>
  /\ pos = 0
  /\ opcodes = << >>
  /\ count = << >>
  /\ total = 0
  /\ output = << >>
  /\ result = "waiting"

Generate == (Instrument \/ Run) /\ UNCHANGED analyzeVars

Analyze ==
  GetOptions \/ ReadPattern \/ ReadOpcode \/ CountSequences \/ CountWindow \/ PrettyPrint

Done == result \in { "printed", "died" } /\ UNCHANGED vars

Next == Generate \/ Analyze \/ Done

Spec == Init /\ [][Next]_vars

-----------------------------------------------------------------------------
(* The type invariant: phi nodes stay at the head of their block, where the*)
(* verifier wants them, the run stays in the program, which is run when no *)
(* call is waiting to be inserted, and the script stays inside its input.  *)
TypeOK ==
  /\ \A f \in 1 .. Len(ir) : \A b \in 1 .. Len(ir[f]) : \A k \in 2 .. Len(ir[f][b]) :
       ir[f][b][k].op = "phi" => ir[f][b][k - 1].op = "phi"
  /\ F \in 1 .. Len(program) /\ bb \in 1 .. Len(ir[F])
  /\ pc \in { "run", "ended" } => TraceCalls = << >>
  /\ pc = "run" =>
       \A n \in 1 .. Len(frames) :
         /\ frames[n].f \in 1 .. Len(program)
         /\ frames[n].b \in 1 .. Len(ir[frames[n].f])
         /\ frames[n].k \in 1 .. Len(ir[frames[n].f][frames[n].b])
  /\ Len(trace) <= MaxLog
  /\ result \in { "reading", "counting" } => pos <= Len(input)
  /\ Len(opcodes) <= Len(input)
  /\ Len(count) <= Len(input)
  /\ result = "waiting" <=> pc # "analyze"

(* What the program did in the part of the run that was read. *)
EventOf == [ l \in 1 .. Len(input) |-> ran[input[l].n] ]
Begins(l) == input[l].text.line # "more"
DoneInPart(kind) ==
  { l \in 1 .. Len(input) : Begins(l) /\ EventOf[l][1] = kind }

CountOf(key) ==
  IF \E c \in 1 .. Len(count) : count[c].key = key
    THEN (CHOOSE c \in { count[d] : d \in 1 .. Len(count) } : c.key = key).count ELSE 0

(* Everything that was counted, each occurrence by itself. *)
Sum(s) == Cardinality(UNION { { c } \X (1 .. s[c].count) : c \in 1 .. Len(s) })

OpcodeSequence ==
  LET upTo[l \in 0 .. Len(input)] ==
        IF l = 0 THEN << >>
        ELSE IF input[l].text.line = "instr"
               THEN Append(upTo[l - 1], Text(ran[input[l].n]).op) ELSE upTo[l - 1]
  IN  upTo[Len(input)]

(* The profile is one of the program that was compiled, not of the one     *)
(* that was run: a block is counted as often as it was entered, whatever   *)
(* its name has become, an instruction as often as it was executed, and no *)
(* sequence of opcodes more often than it was, with two at most left out.  *)
ProfileOfRun ==
  result = "printed" =>
    CASE mode = "bb" ->
           \A f \in 1 .. Len(program) : \A b \in 1 .. Len(program[f].blocks) :
             CountOf(getLabel(f, program[f].blocks, b))
               = Cardinality({ l \in DoneInPart("bb") : EventOf[l] = << "bb", f, b >> })
      [] mode = "instr" ->
           \A l \in DoneInPart("instr") :
             CountOf(Text(EventOf[l]))
               = Cardinality({ m \in DoneInPart("instr") : Text(EventOf[m]) = Text(EventOf[l]) })
      [] mode = "opcode" ->
           LET last  == Len(OpcodeSequence) - window_sz + 1
               at(n) == SubSeq(OpcodeSequence, n, n + window_sz - 1)
           IN  /\ \A n \in 1 .. last :
                    CountOf(at(n)) <= Cardinality({ m \in 1 .. last : at(m) = at(n) })
               /\ Sum(count) >= last - 2

(* Percentages are of the whole that was counted, and the list tells the   *)
(* truth about it: what is not printed is no more frequent than what is.   *)
MostFrequentFirst ==
  result = "printed" =>
    /\ count # << >> => Sum(count) = total
    /\ \A n \in 2 .. Len(output) : output[n - 1].count >= output[n].count
    /\ \A c \in 1 .. Len(count) :
         \/ \E n \in 1 .. Len(output) : output[n] = count[c]
         \/ \A n \in 1 .. Len(output) : output[n].count >= count[c].count
=============================================================================
