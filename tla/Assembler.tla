----------------------------- MODULE Assembler -----------------------------
(***************************************************************************)
(* The one-pass assembler shared by the three qrisc tools: the grammar     *)
(* actions of asm/src/parser.y and the class Assembler they call           *)
(* (asm/src/Assembler.cpp).  A source is the sequence of items the grammar *)
(* reduces to instr; reading an item is one action, and so is one round of *)
(* the loop of finalize that resolves the forward references.              *)
(*                                                                         *)
(* The scanner and the tables of bison are abstracted to what they do to   *)
(* the assembler: an item has so many tokens, may fail to scan or to parse *)
(* and stays on the parser's stack, because instr_list is right-recursive. *)
(***************************************************************************)
EXTENDS QriscIsa, Sequences, FiniteSets

CONSTANTS
  Sources,       \* the sources to assemble: sequences of items
  Names,         \* label names
  YYMAXDEPTH     \* bison's limit on its stack, 10000

I_OPCODES == SI_OPCODES \cup UI_OPCODES

RItems     == [ kind : { "r_instr" }, op : R_OPCODES, r1 : Reg, r2 : Reg, r3 : Reg ]
ImmItems   == [ kind : { "i_instr" }, op : I_OPCODES, r1 : Reg, r2 : Reg, imm : Int ]
RefItems   == [ kind : { "i_label" }, op : I_OPCODES, r1 : Reg, r2 : Reg, label : Names ]
WordItems  == [ kind : { "word" }, word : Word ]
LabelItems == [ kind : { "label" }, label : Names ]
OtherItems == [ kind : { "newline", "bad_symbol", "bad_syntax" } ]

Items == RItems \cup ImmItems \cup RefItems \cup WordItems \cup LabelItems \cup OtherItems

ASSUME AssemblerAssumption ==
  /\ \A s \in Sources : Len(s) \in Nat /\ \A i \in 1 .. Len(s) : s[i] \in Items
  /\ YYMAXDEPTH \in Nat /\ YYMAXDEPTH > 8 /\ 2 * YYMAXDEPTH <= IMM_BASE

UnresolvedLabel == [ Label : Names, InstrIdx : Nat ]

VARIABLES
  src,               \* the source file
  pos,               \* the item the parser reads next
  Instrs,            \* the vector of encoded instructions
  Labels,            \* label -> index of the instruction it names
  UnresolvedLabels,  \* references in the order they were read
  fin,               \* the reference the loop of finalize is at
  status             \* "parsing", "finalizing", or how parse ended

vars == << src, pos, Instrs, Labels, UnresolvedLabels, fin, status >>

(* "failed" is exit(1).  "abandoned" is parse returning to the tool after  *)
(* a scanner error: yyparse gives 1, which ends the loop and is not looked *)
(* at again, so the tool goes on with what was read so far.                *)
Ended == status \in { "done", "failed", "abandoned" }

getNextInstrIdx == Len(Instrs)

Init ==
  /\ src \in Sources
  /\ pos = 1
  /\ Instrs = << >>
  /\ Labels = << >>
  /\ UnresolvedLabels = << >>
  /\ fin = 1
  /\ status = "parsing"

-----------------------------------------------------------------------------
(* Reading an item *)

(* Tokens of an item, all on the stack before it is reduced.               *)
Tokens(kind) ==
  CASE kind \in { "r_instr", "i_instr", "i_label" } -> 6
    [] kind \in { "label", "word" }                 -> 2
    [] kind \in { "newline", "bad_syntax" }         -> 1
    [] kind = "bad_symbol"                          -> 0

Item == src[pos]

Reading(kind) ==
  /\ status = "parsing" /\ pos <= Len(src)
  /\ Item.kind = kind
  /\ pos + Tokens(kind) < YYMAXDEPTH

Exit(how) ==
  /\ status' = how
  /\ UNCHANGED << src, pos, Instrs, Labels, UnresolvedLabels, fin >>

AppendInstr(ins) ==
  /\ Instrs' = Append(Instrs, ins)
  /\ pos' = pos + 1
  /\ UNCHANGED << src, Labels, fin, status >>

appendRInstr ==
  /\ Reading("r_instr")
  /\ AppendInstr(makeRInstr(Item.op, Item.r1, Item.r2, Item.r3))
  /\ UNCHANGED UnresolvedLabels

appendIInstr ==
  /\ Reading("i_instr")
  /\ AppendInstr(makeIInstr(Item.op, Item.r1, Item.r2, Item.imm))
  /\ UNCHANGED UnresolvedLabels

(* Seeded fault: the reference recorded after the instruction is appended. *)
appendIInstrLabelLate ==
  /\ Reading("i_label")
  /\ UnresolvedLabels' = Append(UnresolvedLabels,
                                [ Label |-> Item.label, InstrIdx |-> getNextInstrIdx + 1 ])
  /\ AppendInstr(makeIInstr(Item.op, Item.r1, Item.r2, 0))

(* The reference is recorded and the immediate left zero until finalize.   *)
appendIInstrLabel ==
  /\ Reading("i_label")
  /\ UnresolvedLabels' = Append(UnresolvedLabels,
                                [ Label |-> Item.label, InstrIdx |-> getNextInstrIdx ])
  /\ AppendInstr(makeIInstr(Item.op, Item.r1, Item.r2, 0))

appendWord ==
  /\ Reading("word")
  /\ AppendInstr(Item.word)
  /\ UNCHANGED UnresolvedLabels

(* Seeded fault: no check for a redefinition.                              *)
appendLabelUnchecked ==
  /\ Reading("label")
  /\ Labels' = [ l \in DOMAIN Labels \cup { Item.label } |->
                   IF l = Item.label THEN getNextInstrIdx ELSE Labels[l] ]
  /\ pos' = pos + 1
  /\ UNCHANGED << src, Instrs, UnresolvedLabels, fin, status >>

appendLabel ==
  /\ Reading("label")
  /\ Item.label \notin DOMAIN Labels
  /\ Labels' = [ l \in DOMAIN Labels \cup { Item.label } |->
                   IF l = Item.label THEN getNextInstrIdx ELSE Labels[l] ]
  /\ pos' = pos + 1
  /\ UNCHANGED << src, Instrs, UnresolvedLabels, fin, status >>

LabelRedefined ==
  /\ Reading("label")
  /\ Item.label \in DOMAIN Labels
  /\ Exit("failed")

Newline ==
  /\ Reading("newline")
  /\ pos' = pos + 1
  /\ UNCHANGED << src, Instrs, Labels, UnresolvedLabels, fin, status >>

(* yyerror exits.  (The default reductions of bison may run finalize just  *)
(* before it does; nothing of that outlives the process.)                  *)
SyntaxError == Reading("bad_syntax") /\ Exit("failed")

(* Seeded fault: a scanner error taken for a syntax error.                 *)
ScannerErrorExits == Reading("bad_symbol") /\ Exit("failed")

(* The scanner prints a message and returns YYerror: no yyerror, no exit,  *)
(* and no reduction to program, hence no finalize.                         *)
ScannerError == Reading("bad_symbol") /\ Exit("abandoned")

(* "memory exhausted": the stack is full before the item is complete.      *)
StackExhausted ==
  /\ status = "parsing"
  /\ pos + (IF pos <= Len(src) THEN Tokens(Item.kind) ELSE 1) >= YYMAXDEPTH
  /\ Exit("failed")

(* The end of file reduces instr_list to program, whose action is finalize.*)
EndOfFile ==
  /\ status = "parsing" /\ pos > Len(src)
  /\ pos + 1 < YYMAXDEPTH
  /\ status' = "finalizing"
  /\ UNCHANGED << src, pos, Instrs, Labels, UnresolvedLabels, fin >>

-----------------------------------------------------------------------------
(* finalize *)

Current == UnresolvedLabels[fin]
User    == Instrs[Current.InstrIdx + 1]

(* Seeded faults: the distance reversed; never scaled to bytes.            *)
OffsetBackwards(ref, ins) ==
  (ref.InstrIdx - Labels[ref.Label]) * (IF isJump(ins) \/ isBranch(ins) THEN 1 ELSE 4)
OffsetUnscaled(ref, ins) == Labels[ref.Label] - ref.InstrIdx

(* Distance to the label: in instructions for a branch or a jump, in bytes *)
(* for anything else.                                                      *)
Offset(ref, ins) ==
  (Labels[ref.Label] - ref.InstrIdx) * (IF isJump(ins) \/ isBranch(ins) THEN 1 ELSE 4)

(* Seeded faults: the registers swapped; the loop does not move on.        *)
ResolveSwapped ==
  /\ status = "finalizing" /\ fin <= Len(UnresolvedLabels)
  /\ Current.Label \in DOMAIN Labels
  /\ Instrs' = [ Instrs EXCEPT ![Current.InstrIdx + 1] =
                   makeIInstr(getOpcode(User), r2Of(User), r1Of(User),
                              Offset(Current, User)) ]
  /\ fin' = fin + 1
  /\ UNCHANGED << src, pos, Labels, UnresolvedLabels, status >>
ResolveStays ==
  /\ status = "finalizing" /\ fin <= Len(UnresolvedLabels)
  /\ Current.Label \in DOMAIN Labels
  /\ Instrs' = [ Instrs EXCEPT ![Current.InstrIdx + 1] =
                   makeIInstr(getOpcode(User), r1Of(User), r2Of(User),
                              Offset(Current, User)) ]
  /\ UNCHANGED << src, pos, fin, Labels, UnresolvedLabels, status >>

Resolve ==
  /\ status = "finalizing" /\ fin <= Len(UnresolvedLabels)
  /\ Current.Label \in DOMAIN Labels
  /\ Instrs' = [ Instrs EXCEPT ![Current.InstrIdx + 1] =
                   makeIInstr(getOpcode(User), r1Of(User), r2Of(User),
                              Offset(Current, User)) ]
  /\ fin' = fin + 1
  /\ UNCHANGED << src, pos, Labels, UnresolvedLabels, status >>

UndefinedLabel ==
  /\ status = "finalizing" /\ fin <= Len(UnresolvedLabels)
  /\ Current.Label \notin DOMAIN Labels
  /\ Exit("failed")

Finished ==
  /\ status = "finalizing" /\ fin > Len(UnresolvedLabels)
  /\ Exit("done")

-----------------------------------------------------------------------------

Step ==
  \/ appendRInstr \/ appendIInstr \/ appendIInstrLabel \/ appendWord \/ appendLabel
  \/ LabelRedefined \/ Newline \/ SyntaxError \/ ScannerError \/ StackExhausted
  \/ EndOfFile \/ Resolve \/ UndefinedLabel \/ Finished

Parsed == Ended /\ UNCHANGED vars

Next == Step \/ Parsed

(* parse is a sequential loop over a file: it takes every step it can.     *)
Spec == Init /\ [][Next]_vars /\ WF_vars(Step)

-----------------------------------------------------------------------------
(* The type invariant; indices stay inside the vector they refer to. *)
TypeOK ==
  /\ src \in Sources
  /\ pos \in 1 .. Len(src) + 1
  /\ Instrs \in Seq(Word)
  /\ DOMAIN Labels \subseteq Names
  /\ \A l \in DOMAIN Labels : Labels[l] \in 0 .. Len(Instrs)
  /\ UnresolvedLabels \in Seq(UnresolvedLabel)
  /\ \A u \in 1 .. Len(UnresolvedLabels) : UnresolvedLabels[u].InstrIdx < Len(Instrs)
  /\ fin \in 1 .. Len(UnresolvedLabels) + 1
  /\ status \in { "parsing", "finalizing", "done", "failed", "abandoned" }

(* A branch or a jump to a label, in an assembled program, has the distance*)
(* to that label in its immediate: the sixteen bits the offset is cut to   *)
(* in finalize never change it, because a source with labels further apart *)
(* exhausts the parser's stack first.                                      *)
BranchesReachLabels ==
  status = "done" =>
    \A u \in 1 .. Len(UnresolvedLabels) :
      LET ref == UnresolvedLabels[u]
          ins == Instrs[ref.InstrIdx + 1]
      IN  isJump(ins) \/ isBranch(ins)
            => ref.InstrIdx + Signed(immOf(ins)) = Labels[ref.Label]

(* The instruction that follows label l in the source, and what an item    *)
(* assembles to: a definition of the whole translation, made from the      *)
(* source alone, without the vectors and the second pass.                  *)
InstrPositions == { i \in 1 .. Len(src) :
                      src[i].kind \in { "r_instr", "i_instr", "i_label", "word" } }
AddressOf(i) == Cardinality({ j \in InstrPositions : j < i })
LabelPositions(l) == { i \in 1 .. Len(src) : src[i].kind = "label" /\ src[i].label = l }
AddressOfLabel(l) == AddressOf(CHOOSE i \in LabelPositions(l) : TRUE)

Meaning(i) ==
  LET it == src[i]
      distance == AddressOfLabel(it.label) - AddressOf(i)
  IN  CASE it.kind = "word"    -> it.word
        [] it.kind = "r_instr" -> makeRInstr(it.op, it.r1, it.r2, it.r3)
        [] it.kind = "i_instr" -> makeIInstr(it.op, it.r1, it.r2, it.imm)
        [] it.kind = "i_label" ->
             makeIInstr(it.op, it.r1, it.r2,
                        IF it.op \in BRANCHES \cup { OPCODE.JALR } THEN distance
                                                                  ELSE 4 * distance)

(* An assembled program is the translation of its source, instruction by   *)
(* instruction: each reference patched once, with its own label, in its    *)
(* own place, and nothing else touched.                                    *)
AssemblesSource ==
  status = "done" =>
    /\ Len(Instrs) = Cardinality(InstrPositions)
    /\ \A i \in InstrPositions : Instrs[AddressOf(i) + 1] = Meaning(i)

(* How parse ends is decided by the source: by the first item that does    *)
(* not scan, does not parse, overflows the stack or repeats a label, and   *)
(* otherwise by whether every referenced label is defined.                 *)
Refused(i) ==
  \/ src[i].kind \in { "bad_symbol", "bad_syntax" }
  \/ i + Tokens(src[i].kind) >= YYMAXDEPTH
  \/ src[i].kind = "label" /\ \E j \in LabelPositions(src[i].label) : j < i
Undefined == \E i \in 1 .. Len(src) :
               src[i].kind = "i_label" /\ LabelPositions(src[i].label) = {}

OutcomeFollowsSource ==
  LET bad   == { i \in 1 .. Len(src) : Refused(i) }
      first == CHOOSE i \in bad : \A j \in bad : i <= j
  IN  Ended =>
        status = IF bad # {}
                   THEN IF src[first].kind = "bad_symbol" THEN "abandoned" ELSE "failed"
                   ELSE IF Len(src) + 2 >= YYMAXDEPTH \/ Undefined THEN "failed" ELSE "done"

(* A label, once defined, keeps its address to the end. *)
LabelsAreFinal ==
  [][ \A l \in DOMAIN Labels : l \in DOMAIN Labels' /\ Labels'[l] = Labels[l] ]_vars

(* Resolving a reference rewrites the immediate of one instruction and     *)
(* leaves its opcode and registers, and every other instruction, alone.    *)
FinalizePatchesImmediates ==
  [][ status = "finalizing" =>
        /\ Len(Instrs') = Len(Instrs)
        /\ \A i \in 1 .. Len(Instrs) :
             /\ Instrs'[i] \div IMM_BASE = Instrs[i] \div IMM_BASE
             /\ Instrs'[i] # Instrs[i] => Current.InstrIdx = i - 1 ]_vars

(* Liveness: every source is assembled or refused. *)
AssemblyEnds == <>Ended
=============================================================================
