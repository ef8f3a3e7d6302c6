------------------------------ MODULE TraceGen ------------------------------
(***************************************************************************)
(* The instrumentation pass of trace/TraceGenPass.cpp and a run of the     *)
(* program it instrumented, whose output is the trace.                     *)
(*                                                                         *)
(* A function is a sequence of blocks of instructions.  Values and blocks  *)
(* have no names of their own: LLVM prints the number of their slot, which *)
(* it counts anew at every print, so that an inserted call, having a value,*)
(* renames everything behind it.                                           *)
(***************************************************************************)
EXTENDS Integers, Sequences, FiniteSets, SequencesExt

CONSTANTS
  Programs,  \* sequences of functions [params, blocks], main the first
  MaxLog     \* lines of the trace after which the program is stopped, as by head

VARIABLES
  program,     \* the module as clang hands it to the pass
  ir,          \* its functions as they have become
  F, bb,       \* the function runOnFunction works on, and the block
  TraceCalls,  \* insertion place -> string to dump
  pc,          \* the phase of runOnFunction, then "run", "ended" and "analyze"
  frames,      \* the stack of the run
  trace,       \* what the run has written
  ran          \* what it has executed

(* Modules as the verifier of LLVM has them: the phi nodes of a block stand *)
(* at its head, a terminator at its end and nowhere else, and no branch    *)
(* leads to the entry block, which has no phi nodes for that reason.       *)
Terminators == { "ret", "br", "switch" }
Instructions ==
  [ op : Terminators \cup { "phi", "add", "store", "call", "exit" }, value : BOOLEAN,
    refs : Seq(Nat \X Nat), callee : Nat, id : Nat \X Nat ]

IsBlock(p, f, b) ==
  LET code == p[f].blocks
      I(k) == code[b][k]
  IN  /\ code[b] # << >>
      /\ \A k \in 1 .. Len(code[b]) :
           /\ I(k).id = << b, k >>
           /\ I(k).op \in Terminators <=> k = Len(code[b])
           /\ I(k).op = "phi" => b # 1 /\ \A j \in 1 .. k : I(j).op = "phi"
           /\ I(k).op = "call" => I(k).callee \in 1 .. Len(p)
           /\ I(k).op \in { "br", "switch" } =>
                \A r \in 1 .. Len(I(k).refs) :
                  I(k).refs[r][2] = 0 => I(k).refs[r][1] \in 2 .. Len(code)

IsModule(p) ==
  /\ p \in Seq([ params : Nat, blocks : Seq(Seq(Instructions)) ]) /\ p # << >>
  /\ \A f \in 1 .. Len(p) :
       p[f].blocks # << >> /\ \A b \in 1 .. Len(p[f].blocks) : IsBlock(p, f, b)

ASSUME ProgramsAssumption == MaxLog \in Nat /\ \A p \in Programs : IsModule(p)

passVars == << ir, F, bb, TraceCalls >>
runVars  == << frames, trace, ran >>
traceGenVars == << program, passVars, pc, runVars >>

-----------------------------------------------------------------------------
(* Names.  An instruction is known by its block and place in the program,  *)
(* a block by place 0; refs are the values and blocks it is printed with.  *)
(* Blocks and values are numbered behind the parameters, as they stand.    *)
Names(code) ==
  UNION { { b } \X ({ 0 } \cup { k \in 1 .. Len(code[b]) : code[b][k].value }) :
          b \in 1 .. Len(code) }

PlaceOf(code, id) ==
  IF id[2] = 0 THEN 0 ELSE CHOOSE k \in 1 .. Len(code[id[1]]) : code[id[1]][k].id = id

Slot(f, code, id) ==
  program[f].params
    + Cardinality({ p \in Names(code) :
                      p[1] < id[1] \/ (p[1] = id[1] /\ p[2] < PlaceOf(code, id)) })

(* Seeded fault: the function left out of a block's line. *)
getLabelAlone(f, code, b) == [ line |-> "bb", f |-> 1, name |-> Slot(f, code, << b, 0 >>) ]

(* The lines of the trace.  An instruction's does not tell its function.   *)
getLabel(f, code, b) == [ line |-> "bb", f |-> f, name |-> Slot(f, code, << b, 0 >>) ]

toString(f, code, I) ==
  [ line |-> "instr", op |-> I.op,
    name |-> IF I.value THEN << Slot(f, code, I.id) >> ELSE << >>,
    refs |-> [ r \in 1 .. Len(I.refs) |-> Slot(f, code, I.refs[r]) ] ]

beginFunction(f) == [ line |-> "begin", f |-> f ]
endFunction(f)   == [ line |-> "end", f |-> f ]

(* The call of puts, which returns an int. *)
CallPuts(text) == [ op |-> "puts", value |-> TRUE, id |-> << 0, 0 >>, text |-> text ]

-----------------------------------------------------------------------------
(* The pass *)

Blocks == Len(ir[F])

(* Seeded fault: phi nodes are traced where they stand. *)
FirstNonPhiAnywhere(block, k) == k

(* The first instruction from place k on that is no phi node. *)
FirstNonPhi(block, k) ==
  CHOOSE n \in k .. Len(block) :
    block[n].op # "phi" /\ \A m \in k .. n - 1 : block[m].op = "phi"

(* Insert call before the instruction id. *)
Before(block, id, call) ==
  InsertAt(block, CHOOSE n \in 1 .. Len(block) : block[n].id = id, call)

Prepared(block, b) ==
  << [ at |-> block[FirstNonPhi(block, 1)].id, text |-> getLabel(F, ir[F], b) ] >>
    \o [ k \in 1 .. Len(block) |->
           [ at |-> block[FirstNonPhi(block, k)].id, text |-> toString(F, ir[F], block[k]) ] ]

(* Seeded fault: the line of a block inserted as soon as it is known. *)
GatherAndInsert ==
  /\ pc = "gather"
  /\ LET calls == Prepared(ir[F][bb], bb)
     IN  /\ TraceCalls' = TraceCalls \o Tail(calls)
         /\ ir' = [ ir EXCEPT ![F][bb] = Before(@, calls[1].at, CallPuts(calls[1].text)) ]
  /\ IF bb < Blocks
       THEN bb' = bb + 1 /\ UNCHANGED pc
       ELSE bb' = 1 /\ pc' = "begin"
  /\ UNCHANGED << program, F, runVars >>

(* The program is not changed before everything has been printed.          *)
Gather ==
  /\ pc = "gather"
  /\ TraceCalls' = TraceCalls \o Prepared(ir[F][bb], bb)
  /\ IF bb < Blocks
       THEN bb' = bb + 1 /\ UNCHANGED pc
       ELSE bb' = 1 /\ pc' = "begin"
  /\ UNCHANGED << program, ir, F, runVars >>

TraceEntrance ==
  /\ pc = "begin"
  /\ ir' = [ ir EXCEPT ![F][1] = << CallPuts(beginFunction(F)) >> \o @ ]
  /\ pc' = "insert"
  /\ UNCHANGED << program, F, bb, TraceCalls, runVars >>

InsertPrepared ==
  /\ pc = "insert"
  /\ IF TraceCalls = << >>
       THEN pc' = "end" /\ UNCHANGED << ir, TraceCalls >>
       ELSE LET call == Head(TraceCalls)
            IN  /\ ir' = [ ir EXCEPT ![F][call.at[1]] = Before(@, call.at, CallPuts(call.text)) ]
                /\ TraceCalls' = Tail(TraceCalls)
                /\ UNCHANGED pc
  /\ UNCHANGED << program, F, bb, runVars >>

Start == << [ f |-> 1, b |-> 1, k |-> 1 ] >>

TraceExits ==
  /\ pc = "end"
  /\ ir' = [ ir EXCEPT ![F][bb] =
               IF Last(@).op = "ret" THEN Before(@, Last(@).id, CallPuts(endFunction(F))) ELSE @ ]
  /\ \/ /\ bb < Blocks
        /\ bb' = bb + 1
        /\ UNCHANGED << F, pc, frames, ran >>
     \/ /\ bb = Blocks /\ F < Len(program)
        /\ bb' = 1 /\ F' = F + 1
        /\ pc' = "gather"
        /\ UNCHANGED << frames, ran >>
     \/ /\ bb = Blocks /\ F = Len(program)
        /\ pc' = "run"
        /\ frames' = Start
        /\ ran' = << << "begin", 1 >>, << "bb", 1, 1 >> >>
        /\ UNCHANGED << F, bb >>
  /\ UNCHANGED << program, TraceCalls, trace >>

-----------------------------------------------------------------------------
(* The run.  ran holds what the program does: which functions it enters and*)
(* leaves, which blocks it enters and which instructions it executes.      *)

Frame == Last(frames)
Instr == ir[Frame.f][Frame.b][Frame.k]
Running(ops) == pc = "run" /\ Len(trace) < MaxLog /\ Instr.op \in ops

NextInstr == [ frames EXCEPT ![Len(frames)].k = @ + 1 ]
Executed  == << "instr", Frame.f, Instr.id >>

Puts ==
  /\ Running({ "puts" })
  /\ trace' = Append(trace, Instr.text)
  /\ frames' = NextInstr
  /\ UNCHANGED << program, passVars, pc, ran >>

(* Everything without control flow, functions of other modules included.   *)
Compute ==
  /\ Running({ "phi", "add", "store" })
  /\ ran' = Append(ran, Executed)
  /\ frames' = NextInstr
  /\ UNCHANGED << program, passVars, pc, trace >>

Call ==
  /\ Running({ "call" })
  /\ ran' = ran \o << Executed, << "begin", Instr.callee >>, << "bb", Instr.callee, 1 >> >>
  /\ frames' = Append(NextInstr, [ f |-> Instr.callee, b |-> 1, k |-> 1 ])
  /\ UNCHANGED << program, passVars, pc, trace >>

(* A call of exit. *)
Exit ==
  /\ Running({ "exit" })
  /\ ran' = Append(ran, Executed)
  /\ pc' = "ended"
  /\ UNCHANGED << program, passVars, frames, trace >>

Branch ==
  /\ Running({ "br", "switch" })
  /\ \E r \in 1 .. Len(Instr.refs) :
       LET to == Instr.refs[r]
       IN  /\ to[2] = 0
           /\ ran' = ran \o << Executed, << "bb", Frame.f, to[1] >> >>
           /\ frames' = [ frames EXCEPT ![Len(frames)].b = to[1], ![Len(frames)].k = 1 ]
  /\ UNCHANGED << program, passVars, pc, trace >>

Return ==
  /\ Running({ "ret" })
  /\ ran' = ran \o << Executed, << "end", Frame.f >> >>
  /\ frames' = Front(frames)
  /\ pc' = IF Len(frames) = 1 THEN "ended" ELSE pc
  /\ UNCHANGED << program, passVars, trace >>

Stopped ==
  /\ pc = "run" /\ Len(trace) = MaxLog
  /\ pc' = "ended"
  /\ UNCHANGED << program, passVars, runVars >>

-----------------------------------------------------------------------------
TraceGenInit ==
  /\ program \in Programs
  /\ ir = [ f \in 1 .. Len(program) |-> program[f].blocks ]
  /\ F = 1 /\ bb = 1
  /\ TraceCalls = << >>
  /\ pc = "gather"
  /\ frames = << >>
  /\ trace = << >>
  /\ ran = << >>

Instrument == Gather \/ TraceEntrance \/ InsertPrepared \/ TraceExits
Run == Puts \/ Compute \/ Call \/ Exit \/ Branch \/ Return \/ Stopped

-----------------------------------------------------------------------------
(* How the trace shows an event of the run: by the names the program had   *)
(* before it was instrumented.                                             *)
Text(e) ==
  LET f    == e[2]
      code == program[f].blocks
  IN  CASE e[1] = "begin" -> beginFunction(f)
        [] e[1] = "end"   -> endFunction(f)
        [] e[1] = "bb"    -> getLabel(f, code, e[3])
        [] e[1] = "instr" -> toString(f, code, code[e[3][1]][e[3][2]])

RanLines == [ n \in 1 .. Len(ran) |-> Text(ran[n]) ]

(* The trace is the history of the run: instrumented as it is, with calls  *)
(* that have values of their own, every event is reported once, in order   *)
(* and under its original name, and none that did not happen.              *)
LogsWhatRuns ==
  pc \in { "run", "ended" } =>
    /\ IsPrefix(trace, RanLines) \/ IsPrefix(RanLines, trace)
    /\ Len(trace) <= Len(ran) + 2
    /\ pc = "ended" /\ Len(trace) < MaxLog => trace = RanLines
=============================================================================
