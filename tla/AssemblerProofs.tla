-------------------------- MODULE AssemblerProofs --------------------------
(***************************************************************************)
(* Theorems about the assembler, for every width, every source and every   *)
(* stack limit of at most half the range of an immediate.                  *)
(*                                                                         *)
(* The invariant relates the two passes: references are recorded at        *)
(* strictly increasing indices of I-instructions (so that no round of      *)
(* finalize disturbs the work of another), the vector is no longer than    *)
(* the items read, and those are bounded by the parser's stack; the        *)
(* references before fin carry their offset.                               *)
(*                                                                         *)
(* A second invariant relates the tables to the source: what the parser    *)
(* has accepted, that every label and every reference stands where its item*)
(* says, and that the vector is the translation of the items read, but for *)
(* the immediates that finalize has still to fill in.                      *)
(***************************************************************************)
EXTENDS Assembler, QriscIsaProofs, FiniteSetTheorems

RefsOrdered ==
  \A u, v \in 1 .. Len(UnresolvedLabels) :
    u < v => UnresolvedLabels[u].InstrIdx < UnresolvedLabels[v].InstrIdx

RefsAreIInstrs ==
  \A u \in 1 .. Len(UnresolvedLabels) :
    getOpcode(Instrs[UnresolvedLabels[u].InstrIdx + 1]) \in I_OPCODES

StackBound == Len(Instrs) < pos /\ pos <= YYMAXDEPTH

RefResolved(u) ==
  LET ref == UnresolvedLabels[u]
      ins == Instrs[ref.InstrIdx + 1]
  IN  /\ ref.Label \in DOMAIN Labels
      /\ ins % IMM_BASE = Offset(ref, ins) % IMM_BASE

Progress ==
  /\ status = "parsing" => fin = 1
  /\ \A u \in 1 .. Len(UnresolvedLabels) : u < fin => RefResolved(u)
  /\ status = "done" => fin = Len(UnresolvedLabels) + 1

IInv == TypeOK /\ RefsOrdered /\ RefsAreIInstrs /\ StackBound /\ Progress

-----------------------------------------------------------------------------

(* Items of the source are items. *)
LEMMA ItemsTyped ==
  ASSUME TypeOK, pos <= Len(src)
  PROVE  Item \in Items /\ pos \in 1 .. Len(src)
BY AssemblerAssumption DEF TypeOK, Item

(* The parser does not read past a full stack. *)
LEMMA ReadingBound ==
  ASSUME NEW kind \in { "r_instr", "i_instr", "i_label", "word", "label", "newline" },
         TypeOK, Reading(kind)
  PROVE  /\ pos \in Nat /\ pos + 1 <= YYMAXDEPTH /\ pos + 1 \in 1 .. Len(src) + 1
         /\ Item \in Items /\ Item.kind = kind
         /\ status = "parsing"
<1>1. Tokens(kind) \in Nat /\ Tokens(kind) >= 1
  BY DEF Tokens
<1>2. Len(src) \in Nat
  BY AssemblerAssumption DEF TypeOK
<1> QED
  BY <1>1, <1>2, ItemsTyped, AssemblerAssumption DEF Reading, TypeOK

(* A recorded reference points into the vector. *)
LEMMA RefsInRange ==
  ASSUME TypeOK
  PROVE  \A u \in 1 .. Len(UnresolvedLabels) :
           /\ UnresolvedLabels[u].Label \in Names
           /\ UnresolvedLabels[u].InstrIdx \in Nat
           /\ UnresolvedLabels[u].InstrIdx < Len(Instrs)
           /\ UnresolvedLabels[u].InstrIdx + 1 \in 1 .. Len(Instrs)
<1> TAKE u \in 1 .. Len(UnresolvedLabels)
<1>1. UnresolvedLabels[u] \in UnresolvedLabel /\ UnresolvedLabels[u].InstrIdx < Len(Instrs)
  BY DEF TypeOK
<1>2. UnresolvedLabels[u].Label \in Names /\ UnresolvedLabels[u].InstrIdx \in Nat
  BY <1>1 DEF UnresolvedLabel
<1>3. Len(Instrs) \in Nat
  BY DEF TypeOK
<1> QED
  BY <1>1, <1>2, <1>3

(* An assembler that has read nothing satisfies the invariant. *)
LEMMA InitIInv == Init => IInv
<1> SUFFICES ASSUME Init PROVE IInv
  OBVIOUS
<1>1. Len(src) \in Nat
  BY AssemblerAssumption DEF Init
<1>2. DOMAIN Labels = {}
  BY DEF Init
<1> QED
  BY <1>1, <1>2, AssemblerAssumption
     DEF Init, IInv, TypeOK, RefsOrdered, RefsAreIInstrs, StackBound, Progress

-----------------------------------------------------------------------------
(* Reading *)

(* Appending an instruction that refers to no label. *)
LEMMA AppendKeeps ==
  ASSUME IInv, NEW ins \in Word,
         NEW kind \in { "r_instr", "i_instr", "word" }, Reading(kind),
         AppendInstr(ins), UNCHANGED UnresolvedLabels
  PROVE  IInv'
<1>1. TypeOK
  BY DEF IInv
<1>2. /\ pos' = pos + 1 /\ pos \in Nat /\ pos + 1 <= YYMAXDEPTH /\ pos + 1 \in 1 .. Len(src) + 1
      /\ status = "parsing" /\ status' = status /\ src' = src /\ Labels' = Labels /\ fin' = fin
      /\ UnresolvedLabels' = UnresolvedLabels
  BY <1>1, ReadingBound DEF AppendInstr
<1>3. /\ Instrs' = Append(Instrs, ins) /\ Instrs' \in Seq(Word)
      /\ Len(Instrs') = Len(Instrs) + 1 /\ Len(Instrs) \in Nat
      /\ \A i \in 1 .. Len(Instrs) : Instrs'[i] = Instrs[i]
  BY <1>1 DEF AppendInstr, TypeOK
<1>4. TypeOK'
  <2>1. \A u \in 1 .. Len(UnresolvedLabels) : UnresolvedLabels[u].InstrIdx < Len(Instrs')
    BY <1>1, <1>3, RefsInRange
  <2>2. \A l \in DOMAIN Labels : Labels[l] \in 0 .. Len(Instrs')
    BY <1>1, <1>3 DEF TypeOK
  <2> QED
    BY <1>1, <1>2, <1>3, <2>1, <2>2 DEF TypeOK
<1>5. RefsOrdered'
  BY <1>2 DEF IInv, RefsOrdered
<1>6. RefsAreIInstrs'
  <2> SUFFICES ASSUME NEW u \in 1 .. Len(UnresolvedLabels)
               PROVE  getOpcode(Instrs'[UnresolvedLabels[u].InstrIdx + 1]) \in I_OPCODES
    BY <1>2 DEF RefsAreIInstrs
  <2>1. UnresolvedLabels[u].InstrIdx + 1 \in 1 .. Len(Instrs)
    BY <1>1, RefsInRange
  <2> QED
    BY <1>3, <2>1 DEF IInv, RefsAreIInstrs
<1>7. StackBound'
  BY <1>2, <1>3 DEF IInv, StackBound
<1>8. Progress'
  BY <1>2 DEF IInv, Progress
<1> QED
  BY <1>4, <1>5, <1>6, <1>7, <1>8 DEF IInv

(* Instructions without a label and .word keep the invariant. *)
LEMMA PlainItemsKeep ==
  ASSUME IInv, appendRInstr \/ appendIInstr \/ appendWord
  PROVE  IInv'
<1>1. TypeOK
  BY DEF IInv
<1>2. CASE appendRInstr
  <2>1. Item \in RItems
    BY <1>1, <1>2, ReadingBound
       DEF appendRInstr, Items, RItems, ImmItems, RefItems, WordItems, LabelItems, OtherItems
  <2>2. /\ Item.op \in OPCODES /\ Item.r1 \in Reg /\ Item.r2 \in Reg /\ Item.r3 \in Reg
    BY <2>1 DEF RItems, OPCODES
  <2>3. makeRInstr(Item.op, Item.r1, Item.r2, Item.r3) \in Word
    BY <2>2, RInstrRoundTrip
  <2> QED
    BY <1>2, <2>3, AppendKeeps DEF appendRInstr
<1>3. CASE appendIInstr
  <2>1. Item \in ImmItems
    BY <1>1, <1>3, ReadingBound
       DEF appendIInstr, Items, RItems, ImmItems, RefItems, WordItems, LabelItems, OtherItems
  <2>2. Item.op \in OPCODES /\ Item.r1 \in Reg /\ Item.r2 \in Reg /\ Item.imm \in Int
    BY <2>1 DEF ImmItems, I_OPCODES, OPCODES
  <2>3. makeIInstr(Item.op, Item.r1, Item.r2, Item.imm) \in Word
    BY <2>2, IInstrRoundTrip
  <2> QED
    BY <1>3, <2>3, AppendKeeps DEF appendIInstr
<1>4. CASE appendWord
  <2>1. Item \in WordItems
    BY <1>1, <1>4, ReadingBound
       DEF appendWord, Items, RItems, ImmItems, RefItems, WordItems, LabelItems, OtherItems
  <2> QED
    BY <1>4, <2>1, AppendKeeps DEF appendWord, WordItems
<1> QED
  BY <1>2, <1>3, <1>4

(* A reference is recorded past every earlier one, at an I-instruction. *)
LEMMA ReferenceKeeps ==
  ASSUME IInv, appendIInstrLabel
  PROVE  IInv'
<1> DEFINE ins == makeIInstr(Item.op, Item.r1, Item.r2, 0)
           ref == [ Label |-> Item.label, InstrIdx |-> Len(Instrs) ]
<1>1. TypeOK /\ Len(Instrs) \in Nat /\ Len(UnresolvedLabels) \in Nat
  BY DEF IInv, TypeOK
<1>2. /\ pos' = pos + 1 /\ pos \in Nat /\ pos + 1 <= YYMAXDEPTH /\ pos + 1 \in 1 .. Len(src) + 1
      /\ status = "parsing" /\ status' = status /\ src' = src /\ Labels' = Labels /\ fin' = fin
  BY <1>1, ReadingBound DEF appendIInstrLabel, AppendInstr
<1>3. Item \in RefItems
  BY <1>1, ReadingBound
     DEF appendIInstrLabel, Items, RItems, ImmItems, RefItems, WordItems, LabelItems, OtherItems
<1>4. ins \in Word /\ getOpcode(ins) \in I_OPCODES /\ ref \in UnresolvedLabel
  <2>1. /\ Item.op \in I_OPCODES /\ Item.op \in OPCODES /\ Item.r1 \in Reg /\ Item.r2 \in Reg
        /\ Item.label \in Names
    BY <1>3 DEF RefItems, I_OPCODES, OPCODES
  <2> QED
    BY <1>1, <2>1, IInstrRoundTrip DEF UnresolvedLabel
<1> HIDE DEF ins
<1>5. /\ Instrs' = Append(Instrs, ins) /\ Instrs' \in Seq(Word)
      /\ Len(Instrs') = Len(Instrs) + 1
      /\ Instrs'[Len(Instrs) + 1] = ins
      /\ \A i \in 1 .. Len(Instrs) : Instrs'[i] = Instrs[i]
  BY <1>1, <1>4 DEF appendIInstrLabel, AppendInstr, TypeOK, ins
<1>6. /\ UnresolvedLabels' = Append(UnresolvedLabels, ref)
      /\ Len(UnresolvedLabels') = Len(UnresolvedLabels) + 1
      /\ UnresolvedLabels'[Len(UnresolvedLabels) + 1] = ref
      /\ \A u \in 1 .. Len(UnresolvedLabels) : UnresolvedLabels'[u] = UnresolvedLabels[u]
      /\ UnresolvedLabels' \in Seq(UnresolvedLabel)
  BY <1>1, <1>4 DEF appendIInstrLabel, getNextInstrIdx, TypeOK
<1>7. \A u \in 1 .. Len(UnresolvedLabels) :
        UnresolvedLabels[u].InstrIdx \in Nat /\ UnresolvedLabels[u].InstrIdx < Len(Instrs)
  BY <1>1, RefsInRange
<1>8. ref.InstrIdx = Len(Instrs)
  OBVIOUS
<1> HIDE DEF ref
<1>9. TypeOK'
  <2>1. \A u \in 1 .. Len(UnresolvedLabels') : UnresolvedLabels'[u].InstrIdx < Len(Instrs')
    <3> TAKE u \in 1 .. Len(UnresolvedLabels')
    <3>1. CASE u \in 1 .. Len(UnresolvedLabels)
      BY <1>1, <1>5, <1>6, <1>7, <3>1
    <3>2. CASE u = Len(UnresolvedLabels) + 1
      BY <1>1, <1>5, <1>6, <1>8, <3>2
    <3> QED
      BY <1>1, <1>6, <3>1, <3>2
  <2>2. fin' \in 1 .. Len(UnresolvedLabels') + 1
    BY <1>1, <1>2, <1>6 DEF TypeOK
  <2>3. \A l \in DOMAIN Labels : Labels[l] \in 0 .. Len(Instrs')
    BY <1>1, <1>5 DEF TypeOK
  <2> QED
    BY <1>1, <1>2, <1>5, <1>6, <2>1, <2>2, <2>3 DEF TypeOK
<1>10. RefsOrdered'
  <2> SUFFICES ASSUME NEW u \in 1 .. Len(UnresolvedLabels) + 1,
                      NEW v \in 1 .. Len(UnresolvedLabels) + 1, u < v
               PROVE  UnresolvedLabels'[u].InstrIdx < UnresolvedLabels'[v].InstrIdx
    BY <1>6 DEF RefsOrdered
  <2>1. u \in 1 .. Len(UnresolvedLabels)
    BY <1>1
  <2>2. CASE v \in 1 .. Len(UnresolvedLabels)
    BY <1>6, <2>1, <2>2 DEF IInv, RefsOrdered
  <2>3. CASE v = Len(UnresolvedLabels) + 1
    BY <1>6, <1>7, <1>8, <2>1, <2>3
  <2> QED
    BY <1>1, <2>2, <2>3
<1>11. RefsAreIInstrs'
  <2> SUFFICES ASSUME NEW u \in 1 .. Len(UnresolvedLabels) + 1
               PROVE  getOpcode(Instrs'[UnresolvedLabels'[u].InstrIdx + 1]) \in I_OPCODES
    BY <1>6 DEF RefsAreIInstrs
  <2>1. CASE u \in 1 .. Len(UnresolvedLabels)
    <3>1. UnresolvedLabels[u].InstrIdx + 1 \in 1 .. Len(Instrs)
      BY <1>1, <1>7, <2>1
    <3> QED
      BY <1>5, <1>6, <2>1, <3>1 DEF IInv, RefsAreIInstrs
  <2>2. CASE u = Len(UnresolvedLabels) + 1
    BY <1>4, <1>5, <1>6, <1>8, <2>2
  <2> QED
    BY <1>1, <2>1, <2>2
<1>12. StackBound'
  BY <1>1, <1>2, <1>5 DEF IInv, StackBound
<1>13. Progress'
  BY <1>1, <1>2, <1>6 DEF IInv, Progress
<1> QED
  BY <1>9, <1>10, <1>11, <1>12, <1>13 DEF IInv

(* A definition keeps it: the new address is at most the vector's length. *)
LEMMA LabelKeeps ==
  ASSUME IInv, appendLabel
  PROVE  IInv'
<1>1. TypeOK
  BY DEF IInv
<1>2. /\ pos' = pos + 1 /\ pos \in Nat /\ pos + 1 <= YYMAXDEPTH /\ pos + 1 \in 1 .. Len(src) + 1
      /\ status = "parsing" /\ status' = status /\ src' = src /\ fin' = fin
      /\ Instrs' = Instrs /\ UnresolvedLabels' = UnresolvedLabels
  BY <1>1, ReadingBound DEF appendLabel
<1>3. Item.label \in Names
  BY <1>1, ReadingBound
     DEF appendLabel, Items, RItems, ImmItems, RefItems, WordItems, LabelItems, OtherItems
<1>4. /\ DOMAIN Labels' = DOMAIN Labels \cup { Item.label }
      /\ \A l \in DOMAIN Labels' :
           Labels'[l] = IF l = Item.label THEN Len(Instrs) ELSE Labels[l]
  BY DEF appendLabel, getNextInstrIdx
<1>5. TypeOK'
  BY <1>1, <1>2, <1>3, <1>4 DEF TypeOK
<1>6. RefsOrdered' /\ RefsAreIInstrs' /\ StackBound'
  BY <1>2 DEF IInv, RefsOrdered, RefsAreIInstrs, StackBound
<1>7. Progress'
  BY <1>2 DEF IInv, Progress
<1> QED
  BY <1>5, <1>6, <1>7 DEF IInv

-----------------------------------------------------------------------------
(* finalize *)

(* What a round of finalize writes: the instruction it found with the      *)
(* offset in its immediate. *)
LEMMA PatchedInstr ==
  ASSUME IInv, Resolve
  PROVE  LET i   == Current.InstrIdx + 1
             new == Instrs'[i]
         IN  /\ fin \in 1 .. Len(UnresolvedLabels) /\ i \in 1 .. Len(Instrs)
             /\ Current.Label \in DOMAIN Labels
             /\ Instrs' \in Seq(Word) /\ Len(Instrs') = Len(Instrs)
             /\ \A k \in 1 .. Len(Instrs) : k # i => Instrs'[k] = Instrs[k]
             /\ User \in Word
             /\ new \in Word
             /\ getOpcode(new) = getOpcode(User) /\ getOpcode(User) \in I_OPCODES
             /\ r1Of(new) = r1Of(User) /\ r2Of(new) = r2Of(User)
             /\ new % IMM_BASE = Offset(Current, new) % IMM_BASE
<1> DEFINE i   == Current.InstrIdx + 1
           off == Offset(Current, User)
           ins == makeIInstr(getOpcode(User), r1Of(User), r2Of(User), off)
<1>1. TypeOK /\ Instrs \in Seq(Word) /\ Len(UnresolvedLabels) \in Nat /\ Len(Instrs) \in Nat
  BY DEF IInv, TypeOK
<1>2. fin \in 1 .. Len(UnresolvedLabels) /\ Current.Label \in DOMAIN Labels
  BY <1>1 DEF Resolve, TypeOK
<1>3. i \in 1 .. Len(Instrs) /\ Current.InstrIdx \in Nat
  BY <1>1, <1>2, RefsInRange DEF Current
<1>4. User \in Word /\ getOpcode(User) \in I_OPCODES
  BY <1>1, <1>2, <1>3 DEF User, Current, IInv, RefsAreIInstrs
<1>5. off \in Int
  <2>1. Labels[Current.Label] \in Int
    BY <1>1, <1>2 DEF TypeOK
  <2> QED
    BY <1>3, <2>1 DEF Offset
<1> HIDE DEF off
<1>6. /\ ins \in Word /\ getOpcode(ins) = getOpcode(User)
      /\ r1Of(ins) = r1Of(User) /\ r2Of(ins) = r2Of(User)
      /\ ins % IMM_BASE = off % IMM_BASE
  <2>1. getOpcode(User) \in OPCODES
    BY <1>4 DEF I_OPCODES, OPCODES
  <2> QED
    BY <1>4, <1>5, <2>1, FieldsAreRegisters, IInstrRoundTrip
<1>7. Offset(Current, ins) = off
  BY <1>6 DEF Offset, off, isJump, isBranch
<1>8. Instrs' = [ Instrs EXCEPT ![i] = ins ]
  BY DEF Resolve, off
<1> HIDE DEF ins, i
<1>9. /\ Instrs' \in Seq(Word) /\ Len(Instrs') = Len(Instrs)
      /\ Instrs'[i] = ins
      /\ \A k \in 1 .. Len(Instrs) : k # i => Instrs'[k] = Instrs[k]
  BY <1>1, <1>3, <1>6, <1>8
<1> QED
  BY <1>2, <1>3, <1>4, <1>6, <1>7, <1>9 DEF i

(* A round resolves its own reference and leaves the others as they were,  *)
(* because no two references are to one instruction. *)
LEMMA ResolveKeeps ==
  ASSUME IInv, Resolve
  PROVE  IInv'
<1> DEFINE i == Current.InstrIdx + 1
<1>1. TypeOK /\ Len(Instrs) \in Nat /\ Len(UnresolvedLabels) \in Nat
  BY DEF IInv, TypeOK
<1>2. /\ src' = src /\ pos' = pos /\ Labels' = Labels /\ status' = status
      /\ UnresolvedLabels' = UnresolvedLabels /\ status = "finalizing" /\ fin' = fin + 1
  BY DEF Resolve
<1>3. /\ fin \in 1 .. Len(UnresolvedLabels) /\ i \in 1 .. Len(Instrs)
      /\ Instrs' \in Seq(Word) /\ Len(Instrs') = Len(Instrs)
      /\ \A k \in 1 .. Len(Instrs) : k # i => Instrs'[k] = Instrs[k]
      /\ getOpcode(Instrs'[i]) \in I_OPCODES
  BY PatchedInstr
<1>4. TypeOK'
  BY <1>1, <1>2, <1>3 DEF TypeOK
<1>5. RefsOrdered' /\ StackBound'
  BY <1>2, <1>3 DEF IInv, RefsOrdered, StackBound
<1>6. RefsAreIInstrs'
  <2> SUFFICES ASSUME NEW u \in 1 .. Len(UnresolvedLabels)
               PROVE  getOpcode(Instrs'[UnresolvedLabels[u].InstrIdx + 1]) \in I_OPCODES
    BY <1>2 DEF RefsAreIInstrs
  <2>1. UnresolvedLabels[u].InstrIdx + 1 \in 1 .. Len(Instrs)
    BY <1>1, RefsInRange
  <2> HIDE DEF i
  <2>2. CASE UnresolvedLabels[u].InstrIdx + 1 = i
    BY <1>3, <2>2
  <2>3. CASE UnresolvedLabels[u].InstrIdx + 1 # i
    BY <1>3, <2>1, <2>3 DEF IInv, RefsAreIInstrs
  <2> QED
    BY <2>2, <2>3
<1>7. \A u \in 1 .. Len(UnresolvedLabels) : u < fin + 1 => RefResolved(u)'
  <2> SUFFICES ASSUME NEW u \in 1 .. Len(UnresolvedLabels), u < fin + 1
               PROVE  RefResolved(u)'
    OBVIOUS
  <2>1. CASE u = fin
    <3>1. /\ Current.Label \in DOMAIN Labels
          /\ Instrs'[i] % IMM_BASE = Offset(Current, Instrs'[i]) % IMM_BASE
      BY PatchedInstr
    <3> QED
      BY <1>2, <2>1, <3>1 DEF RefResolved, Offset, Current
  <2>2. CASE u < fin
    <3>1. RefResolved(u)
      BY <2>2 DEF IInv, Progress
    <3>2. UnresolvedLabels[u].InstrIdx < Current.InstrIdx
      BY <1>3, <2>2 DEF IInv, RefsOrdered, Current
    <3>3. /\ UnresolvedLabels[u].InstrIdx + 1 \in 1 .. Len(Instrs)
          /\ UnresolvedLabels[u].InstrIdx + 1 # i
      BY <1>1, <1>3, <3>2, RefsInRange DEF Current
    <3>4. Instrs'[UnresolvedLabels[u].InstrIdx + 1] = Instrs[UnresolvedLabels[u].InstrIdx + 1]
      BY <1>3, <3>3
    <3> QED
      BY <1>2, <3>1, <3>4 DEF RefResolved, Offset
  <2> QED
    BY <1>3, <2>1, <2>2
<1>8. Progress'
  BY <1>2, <1>7 DEF Progress
<1> QED
  BY <1>4, <1>5, <1>6, <1>8 DEF IInv

(* Steps that change only status, or status and the parser's position. *)
LEMMA OthersKeep ==
  ASSUME IInv,
         \/ LabelRedefined \/ Newline \/ SyntaxError \/ ScannerError \/ StackExhausted
         \/ EndOfFile \/ UndefinedLabel \/ Finished
  PROVE  IInv'
<1>1. TypeOK /\ Len(UnresolvedLabels) \in Nat
  BY DEF IInv, TypeOK
<1>2. CASE Newline
  <2>1. /\ pos' = pos + 1 /\ pos \in Nat /\ pos + 1 <= YYMAXDEPTH
        /\ pos + 1 \in 1 .. Len(src) + 1
    BY <1>1, <1>2, ReadingBound DEF Newline
  <2>2. UNCHANGED << src, Instrs, Labels, UnresolvedLabels, fin, status >>
    BY <1>2 DEF Newline
  <2>3. TypeOK' /\ RefsOrdered' /\ RefsAreIInstrs' /\ Progress'
    BY <1>1, <2>1, <2>2 DEF IInv, TypeOK, RefsOrdered, RefsAreIInstrs, Progress, RefResolved,
                            Offset
  <2>4. StackBound'
    BY <1>1, <2>1, <2>2 DEF IInv, StackBound, TypeOK
  <2> QED
    BY <2>3, <2>4 DEF IInv
<1>3. CASE LabelRedefined \/ SyntaxError \/ ScannerError \/ StackExhausted \/ EndOfFile
            \/ UndefinedLabel \/ Finished
  <2>1. UNCHANGED << src, pos, Instrs, Labels, UnresolvedLabels, fin >>
    BY <1>3 DEF LabelRedefined, SyntaxError, ScannerError, StackExhausted, EndOfFile,
                UndefinedLabel, Finished, Exit
  <2>2. /\ status' \in { "failed", "abandoned", "finalizing", "done" }
        /\ status' = "done" => fin > Len(UnresolvedLabels)
    BY <1>3 DEF LabelRedefined, SyntaxError, ScannerError, StackExhausted, EndOfFile,
                UndefinedLabel, Finished, Exit
  <2>3. status' = "done" => fin = Len(UnresolvedLabels) + 1
    BY <1>1, <2>2 DEF TypeOK
  <2> QED
    BY <2>1, <2>2, <2>3 DEF IInv, TypeOK, RefsOrdered, RefsAreIInstrs, StackBound, Progress,
                            RefResolved, Offset
<1> QED
  BY <1>2, <1>3

(* Every step of the assembler keeps the invariant. *)
LEMMA StepKeepsIInv == IInv /\ [Next]_vars => IInv'
<1> SUFFICES ASSUME IInv, [Next]_vars PROVE IInv'
  OBVIOUS
<1>1. CASE UNCHANGED vars \/ Parsed
  BY <1>1 DEF Parsed, vars, IInv, TypeOK, RefsOrdered, RefsAreIInstrs, StackBound, Progress,
              RefResolved, Offset
<1>2. CASE Step
  BY <1>2, PlainItemsKeep, ReferenceKeeps, LabelKeeps, ResolveKeeps, OthersKeep DEF Step
<1> QED
  BY <1>1, <1>2 DEF Next

(* The invariant holds of every assembly. *)
THEOREM Invariance == Spec => []IInv
BY InitIInv, StepKeepsIInv, PTL DEF Spec

(* Indices stay in the vectors they refer to, and every encoded            *)
(* instruction is a word. *)
THEOREM TypeCorrect == Spec => []TypeOK
<1>1. IInv => TypeOK
  BY DEF IInv
<1> QED
  BY <1>1, Invariance, PTL

-----------------------------------------------------------------------------

(* Sign extension recovers a distance smaller than half the range of the   *)
(* immediate, forwards and backwards. *)
LEMMA SignedOffset ==
  ASSUME NEW ins \in Word, getOpcode(ins) \in SI_OPCODES,
         NEW d \in Int, -d < IMM_BASE \div 2, d < IMM_BASE \div 2,
         ins % IMM_BASE = d % IMM_BASE
  PROVE  Signed(immOf(ins)) = d
<1> DEFINE h == IMM_BASE \div 2
<1>1. IMM_BASE \in Nat /\ IMM_BASE = 2 * h /\ h \in Nat /\ h > 0
  BY WidthAssumption, Widths
<1>2. WORD \in Nat /\ WORD >= 2 * IMM_BASE
  <2>1. IMM_BASE >= 2
    BY <1>1
  <2> QED
    BY <2>1, Widths
<1>3. WORD \div 2 \in Nat /\ WORD \div 2 >= IMM_BASE /\ WORD \div 2 <= WORD - IMM_BASE
  BY <1>1, <1>2
<1> HIDE DEF h
<1>4. CASE d >= 0
  <2>1. d % IMM_BASE = d
    BY <1>1, <1>4, DivModUnique DEF h
  <2>2. immOf(ins) = d
    BY <1>1, <2>1 DEF immOf, h
  <2> QED
    BY <1>1, <1>3, <1>4, <2>2 DEF Signed, h
<1>5. CASE d < 0
  <2>1. d + IMM_BASE \in 0 .. IMM_BASE - 1 /\ d = (-1) * IMM_BASE + (d + IMM_BASE)
    BY <1>1, <1>5 DEF h
  <2>2. d % IMM_BASE = d + IMM_BASE
    BY <1>1, <2>1, DivModUnique
  <2>3. d + IMM_BASE >= h
    BY <1>1 DEF h
  <2>4. immOf(ins) = WORD + d
    BY <1>1, <1>2, <2>2, <2>3 DEF immOf, h
  <2>5. WORD + d >= WORD \div 2
    BY <1>1, <1>2, <1>3 DEF h
  <2> QED
    BY <1>2, <2>4, <2>5 DEF Signed
<1> QED
  BY <1>4, <1>5

(* Every branch and jump to a label of an assembled program leads there:   *)
(* the offset finalize cuts to the width of an immediate fits it, because  *)
(* the parser's stack bounds the length of a program. *)
THEOREM BranchesExact == Spec => []BranchesReachLabels
<1>1. IInv => BranchesReachLabels
  <2> SUFFICES ASSUME IInv, status = "done",
                      NEW u \in 1 .. Len(UnresolvedLabels),
                      NEW ins, ins = Instrs[UnresolvedLabels[u].InstrIdx + 1],
                      isJump(ins) \/ isBranch(ins)
               PROVE  UnresolvedLabels[u].InstrIdx + Signed(immOf(ins))
                        = Labels[UnresolvedLabels[u].Label]
    BY DEF BranchesReachLabels
  <2> DEFINE idx == UnresolvedLabels[u].InstrIdx
             lab == Labels[UnresolvedLabels[u].Label]
             d   == lab - idx
  <2>1. TypeOK /\ Len(Instrs) \in Nat /\ Len(UnresolvedLabels) \in Nat
    BY DEF IInv, TypeOK
  <2>2. RefResolved(u)
    BY <2>1 DEF IInv, Progress
  <2>3. idx \in Nat /\ idx < Len(Instrs) /\ ins \in Word
    BY <2>1, RefsInRange DEF TypeOK
  <2>4. lab \in 0 .. Len(Instrs)
    BY <2>1, <2>2 DEF RefResolved, TypeOK
  <2>5. ins % IMM_BASE = d % IMM_BASE
    <3>1. Offset(UnresolvedLabels[u], ins) = d
      BY <2>3, <2>4 DEF Offset
    <3> QED
      BY <2>2, <3>1 DEF RefResolved
  <2>6. getOpcode(ins) \in SI_OPCODES
    BY DEF isJump, isBranch, BRANCHES, SI_OPCODES
  <2>7. Len(Instrs) < YYMAXDEPTH /\ YYMAXDEPTH \in Nat /\ 2 * YYMAXDEPTH <= IMM_BASE
    <3>1. pos \in Int
      BY <2>1, AssemblerAssumption DEF TypeOK
    <3> QED
      BY <2>1, <3>1, AssemblerAssumption DEF IInv, StackBound
  <2> HIDE DEF idx, lab
  <2>8. d \in Int /\ -d < IMM_BASE \div 2 /\ d < IMM_BASE \div 2
    BY <2>1, <2>3, <2>4, <2>7, Widths
  <2>9. Signed(immOf(ins)) = d
    BY <2>3, <2>5, <2>6, <2>8, SignedOffset
  <2> QED
    BY <2>3, <2>4, <2>9 DEF idx, lab
<1> QED
  BY <1>1, Invariance, PTL

(* A label keeps the address it was defined with. *)
THEOREM LabelsFinal == Spec => LabelsAreFinal
<1>1. [Next]_vars
        => [ \A l \in DOMAIN Labels : l \in DOMAIN Labels' /\ Labels'[l] = Labels[l] ]_vars
  <2> SUFFICES ASSUME Next, NEW l \in DOMAIN Labels
               PROVE  l \in DOMAIN Labels' /\ Labels'[l] = Labels[l]
    OBVIOUS
  <2>1. CASE appendLabel
    BY <2>1 DEF appendLabel
  <2>2. CASE ~appendLabel
    <3>1. Labels' = Labels
      BY <2>2 DEF Next, Step, Parsed, vars, appendRInstr, appendIInstr, appendIInstrLabel,
                  appendWord, AppendInstr, LabelRedefined, Newline, SyntaxError, ScannerError,
                  StackExhausted, EndOfFile, Resolve, UndefinedLabel, Finished, Exit
    <3> QED
      BY <3>1
  <2> QED
    BY <2>1, <2>2
<1> QED
  BY <1>1, PTL DEF Spec, LabelsAreFinal

(* The bits above the immediate are the opcode and the two registers.      *)
LEMMA UpperBits ==
  ASSUME NEW v \in Word, NEW w \in Word,
         getOpcode(v) = getOpcode(w), r1Of(v) = r1Of(w), r2Of(v) = r2Of(w)
  PROVE  v \div IMM_BASE = w \div IMM_BASE
<1>1. /\ REG_COUNT \in Nat /\ REG_COUNT > 0 /\ IMM_BASE \in Nat /\ IMM_BASE > 0
      /\ v \in Nat /\ w \in Nat
  BY WidthAssumption, Widths DEF Word
<1>2. ASSUME NEW x \in Nat
      PROVE  /\ x \div IMM_BASE \in Nat
             /\ (x \div IMM_BASE) \div REG_COUNT = x \div (REG_COUNT * IMM_BASE)
             /\ ((x \div IMM_BASE) \div REG_COUNT) \div REG_COUNT = getOpcode(x)
  BY <1>1 DEF getOpcode
<1>3. ASSUME NEW q \in Nat
      PROVE  q = (((q \div REG_COUNT) \div REG_COUNT) * REG_COUNT + ((q \div REG_COUNT) % REG_COUNT))
                   * REG_COUNT + (q % REG_COUNT)
  <2> DEFINE p == q \div REG_COUNT
  <2>1. q = p * REG_COUNT + (q % REG_COUNT) /\ p \in Int
    BY <1>1, DivMod
  <2> HIDE DEF p
  <2>2. p = (p \div REG_COUNT) * REG_COUNT + (p % REG_COUNT)
    BY <1>1, <2>1, DivMod
  <2>3. q = ((p \div REG_COUNT) * REG_COUNT + (p % REG_COUNT)) * REG_COUNT + (q % REG_COUNT)
    BY <2>1, <2>2
  <2> QED
    BY <2>3 DEF p
<1>4. ASSUME NEW x \in Nat
      PROVE  x \div IMM_BASE = (getOpcode(x) * REG_COUNT + r1Of(x)) * REG_COUNT + r2Of(x)
  <2>1. /\ r1Of(x) = ((x \div IMM_BASE) \div REG_COUNT) % REG_COUNT
        /\ r2Of(x) = (x \div IMM_BASE) % REG_COUNT
    BY <1>2 DEF r1Of, r2Of
  <2> DEFINE q == x \div IMM_BASE
  <2>2. q \in Nat /\ getOpcode(x) = (q \div REG_COUNT) \div REG_COUNT
    BY <1>2
  <2> HIDE DEF q
  <2>3. q = (((q \div REG_COUNT) \div REG_COUNT) * REG_COUNT + ((q \div REG_COUNT) % REG_COUNT))
              * REG_COUNT + (q % REG_COUNT)
    BY <1>3, <2>2
  <2> QED
    BY <2>1, <2>2, <2>3 DEF q
<1> QED
  BY <1>1, <1>4

(* A round of finalize changes the immediate of the one instruction that   *)
(* holds the reference: opcode and registers, and every other instruction, *)
(* come out of it as they went in. *)
THEOREM PatchesImmediates == Spec => FinalizePatchesImmediates
<1> DEFINE Patches ==
      status = "finalizing" =>
        /\ Len(Instrs') = Len(Instrs)
        /\ \A i \in 1 .. Len(Instrs) :
             /\ Instrs'[i] \div IMM_BASE = Instrs[i] \div IMM_BASE
             /\ Instrs'[i] # Instrs[i] => Current.InstrIdx = i - 1
<1>1. IInv /\ [Next]_vars => [ Patches ]_vars
  <2> SUFFICES ASSUME IInv, Next, status = "finalizing"
               PROVE  Patches
    OBVIOUS
  <2>1. TypeOK /\ Len(Instrs) \in Nat
    BY DEF IInv, TypeOK
  <2>2. CASE Resolve
    <3> DEFINE n == Current.InstrIdx + 1
    <3>1. /\ n \in 1 .. Len(Instrs) /\ Len(Instrs') = Len(Instrs)
          /\ \A k \in 1 .. Len(Instrs) : k # n => Instrs'[k] = Instrs[k]
          /\ Instrs'[n] \div IMM_BASE = Instrs[n] \div IMM_BASE
          /\ Current.InstrIdx \in Int
      <4>1. Instrs'[n] \div IMM_BASE = User \div IMM_BASE
        BY <2>2, PatchedInstr, UpperBits
      <4>2. fin \in 1 .. Len(UnresolvedLabels)
        BY <2>2, PatchedInstr
      <4> QED
        BY <2>1, <2>2, <4>1, <4>2, PatchedInstr, RefsInRange DEF User, Current
    <3> HIDE DEF n
    <3>2. n = Current.InstrIdx + 1
      BY DEF n
    <3> QED
      BY <3>1, <3>2
  <2>3. CASE ~Resolve
    <3>1. Instrs' = Instrs
      BY <2>3 DEF Next, Step, Parsed, vars, appendRInstr, appendIInstr, appendIInstrLabel,
                  appendWord, appendLabel, Reading, LabelRedefined, Newline, SyntaxError,
                  ScannerError, StackExhausted, EndOfFile, UndefinedLabel, Finished, Exit
    <3> QED
      BY <3>1
  <2> QED
    BY <2>2, <2>3
<1> QED
  BY <1>1, Invariance, PTL DEF Spec, FinalizePatchesImmediates

-----------------------------------------------------------------------------
(* The source *)

(* What the parser has accepted: the items before pos, which leave room on *)
(* the stack; at the end of the file, all of them.                         *)
Accepted ==
  /\ pos < YYMAXDEPTH
  /\ \A i \in 1 .. pos - 1 : ~ Refused(i)
  /\ status \in { "finalizing", "done" } => pos = Len(src) + 1 /\ Len(src) + 2 < YYMAXDEPTH

(* Why parse ended.                                                        *)
Reasoned ==
  /\ status = "abandoned" => pos <= Len(src) /\ src[pos].kind = "bad_symbol"
  /\ status = "failed" =>
       IF pos <= Len(src) THEN Refused(pos) /\ src[pos].kind # "bad_symbol"
                          ELSE Len(src) + 2 >= YYMAXDEPTH \/ Undefined

(* The labels are those of the label items read, at the addresses of the   *)
(* instructions that follow them.                                          *)
LabelsMeant ==
  /\ \A l \in DOMAIN Labels :
       \E i \in LabelPositions(l) : i < pos /\ Labels[l] = AddressOf(i)
  /\ \A i \in 1 .. pos - 1 : src[i].kind = "label" => src[i].label \in DOMAIN Labels

(* Reference u is the one of the item at position i.                       *)
RefOf(u, i) ==
  /\ src[i].kind = "i_label"
  /\ UnresolvedLabels[u].Label = src[i].label
  /\ UnresolvedLabels[u].InstrIdx = AddressOf(i)

RefsMeant ==
  /\ \A u \in 1 .. Len(UnresolvedLabels) : \E i \in 1 .. pos - 1 : RefOf(u, i)
  /\ \A i \in 1 .. pos - 1 :
       src[i].kind = "i_label" => \E u \in 1 .. Len(UnresolvedLabels) : RefOf(u, i)

Unpatched(i) == makeIInstr(src[i].op, src[i].r1, src[i].r2, 0)

(* The vector holds the translation of the items read, save that an        *)
(* instruction whose reference is not resolved yet has a zero immediate.   *)
Translated ==
  /\ Len(Instrs) = AddressOf(pos)
  /\ \A i \in InstrPositions : i < pos /\ src[i].kind # "i_label" =>
       Instrs[AddressOf(i) + 1] = Meaning(i)
  /\ \A i \in 1 .. pos - 1, u \in 1 .. Len(UnresolvedLabels) : RefOf(u, i) =>
       Instrs[AddressOf(i) + 1] = IF u < fin THEN Meaning(i) ELSE Unpatched(i)

SourceInv == Accepted /\ Reasoned /\ LabelsMeant /\ RefsMeant /\ Translated

-----------------------------------------------------------------------------
(* The source is fixed, and so is what it means. *)
LEMMA SourceFixed ==
  ASSUME src' = src
  PROVE  /\ InstrPositions' = InstrPositions
         /\ Undefined' <=> Undefined
         /\ \A i : /\ AddressOf(i)' = AddressOf(i)
                   /\ Meaning(i)' = Meaning(i)
                   /\ Unpatched(i)' = Unpatched(i)
                   /\ Refused(i)' <=> Refused(i)
         /\ \A l : LabelPositions(l)' = LabelPositions(l)
BY DEF InstrPositions, Undefined, AddressOf, AddressOfLabel, Meaning, Unpatched, Refused,
       LabelPositions

(* The elements of a set of integers below i + 1 are those below i and i.  *)
LEMMA BelowNext ==
  ASSUME NEW S \in SUBSET Int, NEW i \in Int
  PROVE  /\ i \in S => { j \in S : j < i + 1 } = { j \in S : j < i } \cup { i }
         /\ i \notin S => { j \in S : j < i + 1 } = { j \in S : j < i }
<1>1. \A j \in S : j < i + 1 <=> j < i \/ j = i
  OBVIOUS
<1> QED
  BY <1>1

(* The addresses count the instructions before a position.                 *)
LEMMA SetsFinite ==
  ASSUME TypeOK, NEW i \in Int
  PROVE  /\ Len(src) \in Nat
         /\ IsFiniteSet({ j \in InstrPositions : j < i })
         /\ AddressOf(i) \in Nat
<1>1. Len(src) \in Nat
  BY AssemblerAssumption DEF TypeOK
<1>2. IsFiniteSet(1 .. Len(src))
  BY <1>1, FS_Interval
<1>3. { j \in InstrPositions : j < i } \in SUBSET (1 .. Len(src))
  BY DEF InstrPositions
<1>4. IsFiniteSet({ j \in InstrPositions : j < i })
  BY <1>2, <1>3, FS_Subset
<1> QED
  BY <1>1, <1>4, FS_CardinalityType DEF AddressOf

(* The first item is at address 0.                                        *)
LEMMA FirstAddress ==
  AddressOf(1) = 0
<1>1. { j \in InstrPositions : j < 1 } = {}
  BY DEF InstrPositions
<1> QED
  BY <1>1, FS_EmptySet DEF AddressOf

(* The address behind the last item is the number of instructions.         *)
LEMMA LastAddress ==
  ASSUME TypeOK
  PROVE  AddressOf(Len(src) + 1) = Cardinality(InstrPositions)
<1>1. Len(src) \in Nat
  BY AssemblerAssumption DEF TypeOK
<1>2. { j \in InstrPositions : j < Len(src) + 1 } = InstrPositions
  BY <1>1 DEF InstrPositions
<1> QED
  BY <1>2 DEF AddressOf

(* An instruction moves the address by one, any other item not at all.     *)
LEMMA NextAddress ==
  ASSUME TypeOK, NEW i \in Int
  PROVE  AddressOf(i + 1) = IF i \in InstrPositions THEN AddressOf(i) + 1 ELSE AddressOf(i)
<1> DEFINE before(k) == { j \in InstrPositions : j < k }
<1>1. InstrPositions \in SUBSET Int
  BY DEF InstrPositions
<1>2. CASE i \in InstrPositions
  <2>1. before(i + 1) = before(i) \cup { i }
    BY <1>1, <1>2, BelowNext
  <2>2. IsFiniteSet(before(i)) /\ i \notin before(i)
    BY SetsFinite
  <2>3. Cardinality(before(i) \cup { i }) = Cardinality(before(i)) + 1
    BY <2>1, <2>2, FS_AddElement
  <2> QED
    BY <1>2, <2>1, <2>3 DEF AddressOf
<1>3. CASE i \notin InstrPositions
  <2>1. before(i + 1) = before(i)
    BY <1>1, <1>3, BelowNext
  <2> QED
    BY <1>3, <2>1 DEF AddressOf
<1> QED
  BY <1>2, <1>3

(* Two instructions never have one address.                                *)
LEMMA AddressGrows ==
  ASSUME TypeOK, NEW i \in InstrPositions, NEW k \in Int, i < k
  PROVE  AddressOf(i) < AddressOf(k) /\ AddressOf(i) \in Nat /\ AddressOf(k) \in Nat
<1> DEFINE before(n) == { j \in InstrPositions : j < n }
<1>1. InstrPositions \subseteq Int /\ i \in Int
  BY DEF InstrPositions
<1>2. AddressOf(i) \in Nat /\ AddressOf(k) \in Nat /\ AddressOf(i + 1) \in Nat
  <2>1. i + 1 \in Int
    BY <1>1
  <2>2. \A n \in Int : AddressOf(n) \in Nat
    BY SetsFinite
  <2> QED
    BY <1>1, <2>1, <2>2
<1>3. AddressOf(i + 1) = AddressOf(i) + 1
  BY <1>1, NextAddress
<1>4. before(i + 1) \in SUBSET before(k)
  <2>1. \A j \in InstrPositions : j < i + 1 => j < k
    BY <1>1
  <2> QED
    BY <2>1
<1>5. IsFiniteSet(before(k))
  BY SetsFinite
<1>6. Cardinality(before(i + 1)) <= Cardinality(before(k))
  BY <1>4, <1>5, FS_Subset
<1>7. AddressOf(i + 1) <= AddressOf(k)
  BY <1>6 DEF AddressOf
<1> QED
  BY <1>2, <1>3, <1>7

-----------------------------------------------------------------------------
(* Reading *)

(* An assembler that has read nothing has translated that much. *)
LEMMA InitSource == Init => SourceInv
<1> SUFFICES ASSUME Init PROVE SourceInv
  OBVIOUS
<1>1. /\ src \in Sources /\ Len(src) \in Nat /\ pos = 1 /\ Len(Instrs) = 0
      /\ DOMAIN Labels = {} /\ Len(UnresolvedLabels) = 0 /\ status = "parsing"
  BY AssemblerAssumption DEF Init
<1>2. Accepted /\ Reasoned
  BY <1>1, AssemblerAssumption DEF Accepted, Reasoned
<1>3. LabelsMeant /\ RefsMeant
  BY <1>1 DEF LabelsMeant, RefsMeant
<1>4. Translated
  <2>1. AddressOf(pos) = 0
    BY <1>1, FirstAddress
  <2>2. \A i \in InstrPositions : i \in Int /\ ~ (i < 1)
    BY DEF InstrPositions
  <2> QED
    BY <1>1, <2>1, <2>2 DEF Translated
<1> QED
  BY <1>2, <1>3, <1>4 DEF SourceInv

(* A step that reads an item accepts it. *)
LEMMA ReadAccepts ==
  ASSUME IInv, SourceInv,
         NEW kind \in { "r_instr", "i_instr", "i_label", "word", "label", "newline" },
         Reading(kind), kind = "label" => Item.label \notin DOMAIN Labels,
         pos' = pos + 1, UNCHANGED << src, status >>
  PROVE  /\ pos \in 1 .. Len(src) /\ Len(src) \in Nat
         /\ Item \in Items /\ src[pos] = Item /\ Item.kind = kind
         /\ ~ Refused(pos)
         /\ Accepted' /\ Reasoned'
<1>1. /\ TypeOK /\ Item \in Items /\ Item.kind = kind /\ src[pos] = Item /\ status = "parsing"
      /\ pos \in 1 .. Len(src) /\ Len(src) \in Nat
  BY ItemsTyped, AssemblerAssumption DEF IInv, TypeOK, Reading, Item
<1>2. Tokens(kind) \in Nat /\ Tokens(kind) >= 1 /\ pos + Tokens(kind) < YYMAXDEPTH
  BY DEF Tokens, Reading
<1>3. ~ Refused(pos)
  <2>1. ASSUME kind = "label", NEW j \in LabelPositions(Item.label), j < pos
        PROVE  FALSE
    <3>1. j \in 1 .. pos - 1 /\ src[j].kind = "label" /\ src[j].label = Item.label
      BY <1>1, <2>1 DEF LabelPositions
    <3>2. Item.label \in DOMAIN Labels
      BY <3>1 DEF SourceInv, LabelsMeant
    <3> QED
      BY <2>1, <3>2
  <2>2. ~ (pos + Tokens(kind) >= YYMAXDEPTH)
    BY <1>1, <1>2, AssemblerAssumption
  <2> QED
    BY <1>1, <2>1, <2>2 DEF Refused
<1>4. Accepted'
  <2>1. \A i : Refused(i)' <=> Refused(i)
    BY SourceFixed
  <2>2. pos + 1 < YYMAXDEPTH
    BY <1>1, <1>2, AssemblerAssumption
  <2>3. \A i \in 1 .. pos' - 1 : i \in 1 .. pos - 1 \/ i = pos
    BY <1>1
  <2> QED
    BY <1>1, <1>3, <2>1, <2>2, <2>3 DEF SourceInv, Accepted
<1>5. Reasoned'
  BY <1>1 DEF Reasoned
<1> QED
  BY <1>1, <1>3, <1>4, <1>5

(* References recorded before keep their place when only the vector grows.  *)
LEMMA RefOfFixed ==
  ASSUME src' = src, NEW u, UnresolvedLabels'[u] = UnresolvedLabels[u], NEW i
  PROVE  RefOf(u, i)' <=> RefOf(u, i)
<1>1. AddressOf(i)' = AddressOf(i)
  BY SourceFixed
<1> QED
  BY <1>1 DEF RefOf

(* The vector holds the instructions of the items before pos. *)
LEMMA AddressesInVector ==
  ASSUME IInv, SourceInv, NEW i \in InstrPositions, i < pos
  PROVE  /\ AddressOf(i) \in Nat /\ AddressOf(i) < Len(Instrs)
         /\ AddressOf(i) + 1 \in 1 .. Len(Instrs)
<1>1. TypeOK /\ pos \in Int /\ Len(Instrs) \in Nat
  BY AssemblerAssumption DEF IInv, TypeOK
<1>2. AddressOf(i) < AddressOf(pos) /\ AddressOf(i) \in Nat
  BY <1>1, AddressGrows
<1> QED
  BY <1>1, <1>2 DEF SourceInv, Translated

(* An item with an i_label is an instruction. *)
LEMMA RefPositions ==
  ASSUME TypeOK, NEW i \in 1 .. pos - 1, src[i].kind = "i_label"
  PROVE  i \in InstrPositions /\ i < pos /\ i \in 1 .. Len(src) /\ src[i] \in RefItems
<1>1. i \in 1 .. Len(src) /\ i < pos /\ src[i] \in Items
  BY AssemblerAssumption DEF TypeOK
<1> QED
  BY <1>1
     DEF InstrPositions, Items, RItems, ImmItems, RefItems, WordItems, LabelItems, OtherItems

(* Labels and references of the items before pos survive a step that reads *)
(* an item that is neither. *)
LEMMA OtherItemMeans ==
  ASSUME IInv, SourceInv, pos \in 1 .. Len(src), Len(src) \in Nat,
         pos' = pos + 1, UNCHANGED << src, UnresolvedLabels, Labels >>,
         src[pos].kind \notin { "label", "i_label" }
  PROVE  LabelsMeant' /\ RefsMeant'
<1>1. /\ \A i : AddressOf(i)' = AddressOf(i)
      /\ \A l : LabelPositions(l)' = LabelPositions(l)
  BY SourceFixed
<1>2. \A i \in 1 .. pos' - 1 : i \in 1 .. pos - 1 \/ i = pos
  OBVIOUS
<1>3. \A i \in 1 .. pos - 1 : i \in 1 .. pos' - 1
  OBVIOUS
<1>4. LabelsMeant'
  <2>1. \A l \in DOMAIN Labels :
          \E i \in LabelPositions(l) : i < pos' /\ Labels[l] = AddressOf(i)
    <3> TAKE l \in DOMAIN Labels
    <3>1. PICK i \in LabelPositions(l) : i < pos /\ Labels[l] = AddressOf(i)
      BY DEF SourceInv, LabelsMeant
    <3>2. i < pos'
      BY <3>1 DEF LabelPositions
    <3> QED
      BY <3>1, <3>2
  <2>2. \A i \in 1 .. pos' - 1 : src[i].kind = "label" => src[i].label \in DOMAIN Labels
    BY <1>2 DEF SourceInv, LabelsMeant
  <2> QED
    BY <1>1, <2>1, <2>2 DEF LabelsMeant
<1>5. RefsMeant'
  <2>1. \A u \in 1 .. Len(UnresolvedLabels) : \E i \in 1 .. pos' - 1 : RefOf(u, i)
    BY <1>3 DEF SourceInv, RefsMeant
  <2>2. \A i \in 1 .. pos' - 1 :
          src[i].kind = "i_label" => \E u \in 1 .. Len(UnresolvedLabels) : RefOf(u, i)
    BY <1>2 DEF SourceInv, RefsMeant
  <2>3. \A u, i : RefOf(u, i)' <=> RefOf(u, i)
    BY RefOfFixed
  <2> QED
    BY <2>1, <2>2, <2>3 DEF RefsMeant
<1> QED
  BY <1>4, <1>5

(* An instruction without a label is translated where it is read. *)
LEMMA AppendTranslates ==
  ASSUME IInv, SourceInv, NEW ins \in Word,
         NEW kind \in { "r_instr", "i_instr", "word" }, Reading(kind),
         AppendInstr(ins), UNCHANGED UnresolvedLabels, ins = Meaning(pos)
  PROVE  SourceInv'
<1>1. /\ pos' = pos + 1 /\ Instrs' = Append(Instrs, ins)
      /\ UNCHANGED << src, status, Labels, fin >>
  BY DEF AppendInstr
<1>2. /\ pos \in 1 .. Len(src) /\ Len(src) \in Nat /\ src[pos].kind = kind
      /\ Accepted' /\ Reasoned'
  BY <1>1, ReadAccepts
<1>3. LabelsMeant' /\ RefsMeant'
  BY <1>1, <1>2, OtherItemMeans
<1>4. TypeOK /\ pos \in InstrPositions /\ pos \in Int
  BY <1>2 DEF IInv, InstrPositions
<1>5. AddressOf(pos) = Len(Instrs) /\ AddressOf(pos + 1) = AddressOf(pos) + 1
  BY <1>4, NextAddress DEF SourceInv, Translated
<1>6. /\ Len(Instrs) \in Nat /\ Len(Instrs') = Len(Instrs) + 1
      /\ Instrs'[Len(Instrs) + 1] = ins
      /\ \A n \in 1 .. Len(Instrs) : Instrs'[n] = Instrs[n]
  BY <1>1, <1>4 DEF TypeOK
<1>7. /\ \A i : /\ AddressOf(i)' = AddressOf(i) /\ Meaning(i)' = Meaning(i)
                /\ Unpatched(i)' = Unpatched(i)
      /\ InstrPositions' = InstrPositions
  BY <1>1, SourceFixed
<1>8. Len(Instrs)' = AddressOf(pos)'
  <2>1. AddressOf(pos)' = AddressOf(pos + 1)
    BY <1>1, <1>7 DEF AddressOf
  <2> QED
    BY <1>5, <1>6, <2>1
<1>9. ASSUME NEW i \in InstrPositions, i < pos + 1, src[i].kind # "i_label"
      PROVE  Instrs'[AddressOf(i) + 1] = Meaning(i)
  <2>1. CASE i = pos
    BY <1>5, <1>6, <2>1
  <2>2. CASE i < pos
    <3>1. AddressOf(i) + 1 \in 1 .. Len(Instrs)
      BY <2>2, AddressesInVector
    <3> QED
      BY <1>6, <1>9, <2>2, <3>1 DEF SourceInv, Translated
  <2> QED
    BY <1>4, <1>9, <2>1, <2>2 DEF InstrPositions
<1>10. ASSUME NEW i \in 1 .. pos, NEW u \in 1 .. Len(UnresolvedLabels), RefOf(u, i)
       PROVE  Instrs'[AddressOf(i) + 1] = IF u < fin THEN Meaning(i) ELSE Unpatched(i)
  <2>1. i \in 1 .. pos - 1 /\ src[i].kind = "i_label"
    BY <1>2, <1>10 DEF RefOf
  <2>2. AddressOf(i) + 1 \in 1 .. Len(Instrs)
    BY <1>4, <2>1, RefPositions, AddressesInVector
  <2> QED
    BY <1>6, <1>10, <2>1, <2>2 DEF SourceInv, Translated
<1>11. Translated'
  <2>1. \A u, i : RefOf(u, i)' <=> RefOf(u, i)
    BY <1>1, RefOfFixed
  <2>2. pos' - 1 = pos /\ pos' = pos + 1
    BY <1>1, <1>4
  <2> QED
    BY <1>1, <1>7, <1>8, <1>9, <1>10, <2>1, <2>2 DEF Translated
<1> QED
  BY <1>2, <1>3, <1>11 DEF SourceInv

(* Registers, an immediate, a word of data.                                *)
LEMMA PlainItemsTranslate ==
  ASSUME IInv, SourceInv, appendRInstr \/ appendIInstr \/ appendWord
  PROVE  SourceInv'
<1>1. TypeOK
  BY DEF IInv
<1>2. CASE appendRInstr
  <2>1. Item \in RItems /\ Item.kind = "r_instr" /\ src[pos] = Item
    BY <1>1, <1>2, ReadingBound
       DEF appendRInstr, Items, RItems, ImmItems, RefItems, WordItems, LabelItems, OtherItems, Item
  <2>2. /\ Item.op \in OPCODES /\ Item.r1 \in Reg /\ Item.r2 \in Reg /\ Item.r3 \in Reg
    BY <2>1 DEF RItems, OPCODES
  <2>3. makeRInstr(Item.op, Item.r1, Item.r2, Item.r3) \in Word
    BY <2>2, RInstrRoundTrip
  <2>4. Meaning(pos) = makeRInstr(Item.op, Item.r1, Item.r2, Item.r3)
    BY <2>1 DEF Meaning
  <2> QED
    BY <1>2, <2>3, <2>4, AppendTranslates DEF appendRInstr
<1>3. CASE appendIInstr
  <2>1. Item \in ImmItems /\ Item.kind = "i_instr" /\ src[pos] = Item
    BY <1>1, <1>3, ReadingBound
       DEF appendIInstr, Items, RItems, ImmItems, RefItems, WordItems, LabelItems, OtherItems, Item
  <2>2. Item.op \in OPCODES /\ Item.r1 \in Reg /\ Item.r2 \in Reg /\ Item.imm \in Int
    BY <2>1 DEF ImmItems, I_OPCODES, OPCODES
  <2>3. makeIInstr(Item.op, Item.r1, Item.r2, Item.imm) \in Word
    BY <2>2, IInstrRoundTrip
  <2>4. Meaning(pos) = makeIInstr(Item.op, Item.r1, Item.r2, Item.imm)
    BY <2>1 DEF Meaning
  <2> QED
    BY <1>3, <2>3, <2>4, AppendTranslates DEF appendIInstr
<1>4. CASE appendWord
  <2>1. Item \in WordItems /\ Item.kind = "word" /\ src[pos] = Item
    BY <1>1, <1>4, ReadingBound
       DEF appendWord, Items, RItems, ImmItems, RefItems, WordItems, LabelItems, OtherItems, Item
  <2>2. Item.word \in Word
    BY <2>1 DEF WordItems
  <2>3. Meaning(pos) = Item.word
    BY <2>1 DEF Meaning
  <2> QED
    BY <1>4, <2>2, <2>3, AppendTranslates DEF appendWord
<1> QED
  BY <1>2, <1>3, <1>4

(* A reference is recorded at the address of its item, where a zero        *)
(* immediate stands until it is resolved. *)
LEMMA ReferenceTranslates ==
  ASSUME IInv, SourceInv, appendIInstrLabel
  PROVE  SourceInv'
<1> DEFINE ins == makeIInstr(Item.op, Item.r1, Item.r2, 0)
           ref == [ Label |-> Item.label, InstrIdx |-> Len(Instrs) ]
           N   == Len(UnresolvedLabels)
<1>1. /\ pos' = pos + 1 /\ Instrs' = Append(Instrs, ins)
      /\ UnresolvedLabels' = Append(UnresolvedLabels, ref)
      /\ UNCHANGED << src, status, Labels, fin >> /\ Reading("i_label")
  BY DEF appendIInstrLabel, AppendInstr, getNextInstrIdx
<1>2. /\ pos \in 1 .. Len(src) /\ Len(src) \in Nat /\ src[pos].kind = "i_label"
      /\ src[pos] = Item /\ Accepted' /\ Reasoned'
  BY <1>1, ReadAccepts
<1>3. TypeOK /\ pos \in InstrPositions /\ pos \in Int /\ N \in Nat
  BY <1>2 DEF IInv, InstrPositions, TypeOK
<1>4. AddressOf(pos) = Len(Instrs) /\ AddressOf(pos + 1) = AddressOf(pos) + 1
  BY <1>3, NextAddress DEF SourceInv, Translated
<1>5. /\ Len(Instrs) \in Nat /\ Len(Instrs') = Len(Instrs) + 1
      /\ Instrs'[Len(Instrs) + 1] = Unpatched(pos)
      /\ \A n \in 1 .. Len(Instrs) : Instrs'[n] = Instrs[n]
  BY <1>1, <1>2, <1>3 DEF TypeOK, Unpatched
<1>6. /\ Len(UnresolvedLabels') = N + 1 /\ UnresolvedLabels'[N + 1] = ref
      /\ \A u \in 1 .. N : UnresolvedLabels'[u] = UnresolvedLabels[u]
  BY <1>1, <1>3 DEF TypeOK
<1>7. ref.Label = Item.label /\ ref.InstrIdx = Len(Instrs)
  OBVIOUS
<1>8. /\ \A i : /\ AddressOf(i)' = AddressOf(i) /\ Meaning(i)' = Meaning(i)
                /\ Unpatched(i)' = Unpatched(i)
      /\ \A l : LabelPositions(l)' = LabelPositions(l)
      /\ InstrPositions' = InstrPositions
  BY <1>1, SourceFixed
<1>9. \A u \in 1 .. N : \A i : RefOf(u, i)' <=> RefOf(u, i)
  BY <1>1, <1>6, RefOfFixed
<1>10. fin = 1
  <2>1. status = "parsing"
    BY <1>1 DEF Reading
  <2> QED
    BY <2>1 DEF IInv, Progress
<1> HIDE DEF ins, ref, N
<1>11. ASSUME NEW i, i = pos, NEW u, u = N + 1
       PROVE  RefOf(u, i)'
  BY <1>11, <1>1, <1>2, <1>4, <1>6, <1>7, <1>8 DEF RefOf
<1>12. ASSUME NEW i \in 1 .. pos, NEW u \in 1 .. N + 1, RefOf(u, i)'
       PROVE  (i = pos /\ u = N + 1) \/ (i \in 1 .. pos - 1 /\ u \in 1 .. N)
  <2>1. UnresolvedLabels'[u].InstrIdx = AddressOf(i) /\ src[i].kind = "i_label"
    BY <1>1, <1>8, <1>12 DEF RefOf
  <2>2. CASE i = pos /\ u \in 1 .. N
    <3>1. UnresolvedLabels[u].InstrIdx < Len(Instrs) /\ UnresolvedLabels[u].InstrIdx \in Nat
      BY <1>3, <2>2, RefsInRange DEF N
    <3> QED
      BY <1>4, <1>5, <1>6, <2>1, <2>2, <3>1
  <2>3. CASE i \in 1 .. pos - 1 /\ u = N + 1
    <3>1. AddressOf(i) < Len(Instrs) /\ AddressOf(i) \in Nat
      BY <1>3, <2>1, <2>3, RefPositions, AddressesInVector
    <3> QED
      BY <1>5, <1>6, <1>7, <2>1, <2>3, <3>1
  <2> QED
    BY <1>3, <2>2, <2>3
<1>13. LabelsMeant'
  <2>1. \A l \in DOMAIN Labels :
          \E i \in LabelPositions(l) : i < pos + 1 /\ Labels[l] = AddressOf(i)
    <3> TAKE l \in DOMAIN Labels
    <3>1. PICK i \in LabelPositions(l) : i < pos /\ Labels[l] = AddressOf(i)
      BY DEF SourceInv, LabelsMeant
    <3>2. i < pos + 1
      BY <1>3, <3>1 DEF LabelPositions
    <3> QED
      BY <3>1, <3>2
  <2>2. \A i \in 1 .. pos' - 1 : i \in 1 .. pos - 1 \/ i = pos
    BY <1>1, <1>3
  <2>3. \A i \in 1 .. pos' - 1 : src[i].kind = "label" => src[i].label \in DOMAIN Labels
    BY <1>2, <2>2 DEF SourceInv, LabelsMeant
  <2> QED
    BY <1>1, <1>8, <2>1, <2>3 DEF LabelsMeant
<1>14. RefsMeant'
  <2>1. ASSUME NEW u \in 1 .. N + 1
        PROVE  \E i \in 1 .. pos : RefOf(u, i)'
    <3>1. CASE u \in 1 .. N
      <4>1. PICK i \in 1 .. pos - 1 : RefOf(u, i)
        BY <3>1 DEF SourceInv, RefsMeant, N
      <4>2. i \in 1 .. pos
        BY <1>3
      <4> QED
        BY <1>9, <3>1, <4>1, <4>2
    <3>2. CASE u = N + 1
      BY <1>2, <1>11, <3>2
    <3> QED
      BY <1>3, <3>1, <3>2
  <2>2. ASSUME NEW i \in 1 .. pos, src[i].kind = "i_label"
        PROVE  \E u \in 1 .. N + 1 : RefOf(u, i)'
    <3>1. CASE i \in 1 .. pos - 1
      <4>1. PICK u \in 1 .. N : RefOf(u, i)
        BY <2>2, <3>1 DEF SourceInv, RefsMeant, N
      <4>2. u \in 1 .. N + 1
        BY <1>3
      <4> QED
        BY <1>9, <4>1, <4>2
    <3>2. CASE i = pos
      <4>1. N + 1 \in 1 .. N + 1
        BY <1>3
      <4> QED
        BY <1>11, <3>2, <4>1
    <3> QED
      BY <1>3, <3>1, <3>2
  <2>3. pos' - 1 = pos
    BY <1>1, <1>3
  <2> QED
    BY <1>1, <1>6, <2>1, <2>2, <2>3 DEF RefsMeant
<1>15. Translated'
  <2>1. Len(Instrs)' = AddressOf(pos)'
    <3>1. AddressOf(pos)' = AddressOf(pos + 1)
      BY <1>1, <1>8 DEF AddressOf
    <3> QED
      BY <1>4, <1>5, <3>1
  <2>2. ASSUME NEW i \in InstrPositions, i < pos + 1, src[i].kind # "i_label"
        PROVE  Instrs'[AddressOf(i) + 1] = Meaning(i)
    <3>1. i < pos
      BY <1>2, <1>3, <2>2 DEF InstrPositions
    <3>2. AddressOf(i) + 1 \in 1 .. Len(Instrs)
      BY <3>1, AddressesInVector
    <3> QED
      BY <1>5, <2>2, <3>1, <3>2 DEF SourceInv, Translated
  <2>3. ASSUME NEW i \in 1 .. pos, NEW u \in 1 .. N + 1, RefOf(u, i)'
        PROVE  Instrs'[AddressOf(i) + 1] = IF u < fin THEN Meaning(i) ELSE Unpatched(i)
    <3>1. CASE i = pos /\ u = N + 1
      <4>1. ~ (u < fin)
        BY <1>3, <1>10, <3>1
      <4> QED
        BY <1>4, <1>5, <3>1, <4>1
    <3>2. CASE i \in 1 .. pos - 1 /\ u \in 1 .. N
      <4>1. RefOf(u, i) /\ src[i].kind = "i_label"
        BY <1>9, <2>3, <3>2 DEF RefOf
      <4>2. AddressOf(i) + 1 \in 1 .. Len(Instrs)
        BY <1>3, <3>2, <4>1, RefPositions, AddressesInVector
      <4> QED
        BY <1>5, <3>2, <4>1, <4>2 DEF SourceInv, Translated, N
    <3> QED
      BY <1>12, <2>3, <3>1, <3>2
  <2>4. pos' - 1 = pos /\ pos' = pos + 1
    BY <1>1, <1>3
  <2> QED
    BY <1>1, <1>6, <1>8, <2>1, <2>2, <2>3, <2>4 DEF Translated
<1> QED
  BY <1>2, <1>13, <1>14, <1>15 DEF SourceInv

(* A label is defined at the address of the instruction that follows it.   *)
LEMMA LabelTranslates ==
  ASSUME IInv, SourceInv, appendLabel
  PROVE  SourceInv'
<1>1. /\ pos' = pos + 1 /\ Reading("label") /\ Item.label \notin DOMAIN Labels
      /\ DOMAIN Labels' = DOMAIN Labels \cup { Item.label }
      /\ \A l \in DOMAIN Labels' :
           Labels'[l] = IF l = Item.label THEN Len(Instrs) ELSE Labels[l]
      /\ UNCHANGED << src, status, Instrs, UnresolvedLabels, fin >>
  BY DEF appendLabel, getNextInstrIdx
<1>2. /\ pos \in 1 .. Len(src) /\ Len(src) \in Nat /\ src[pos].kind = "label"
      /\ src[pos] = Item /\ Accepted' /\ Reasoned'
  BY <1>1, ReadAccepts
<1>3. TypeOK /\ pos \in Int /\ pos \notin InstrPositions
  BY <1>2 DEF IInv, InstrPositions
<1>4. AddressOf(pos) = Len(Instrs) /\ AddressOf(pos + 1) = AddressOf(pos)
  BY <1>3, NextAddress DEF SourceInv, Translated
<1>5. /\ \A i : /\ AddressOf(i)' = AddressOf(i) /\ Meaning(i)' = Meaning(i)
                /\ Unpatched(i)' = Unpatched(i)
      /\ \A l : LabelPositions(l)' = LabelPositions(l)
      /\ InstrPositions' = InstrPositions
      /\ \A u, i : RefOf(u, i)' <=> RefOf(u, i)
  BY <1>1, SourceFixed, RefOfFixed
<1>6. /\ pos' - 1 = pos
      /\ \A i \in 1 .. pos : i \in 1 .. pos - 1 \/ i = pos
      /\ \A i \in 1 .. pos - 1 : i \in 1 .. pos
  BY <1>1, <1>3
<1>7. LabelsMeant'
  <2>1. ASSUME NEW l \in DOMAIN Labels'
        PROVE  \E i \in LabelPositions(l) : i < pos + 1 /\ Labels'[l] = AddressOf(i)
    <3>1. CASE l = Item.label
      <4>1. pos \in LabelPositions(l) /\ pos < pos + 1
        BY <1>2, <1>3, <3>1 DEF LabelPositions
      <4> QED
        BY <1>1, <1>4, <2>1, <3>1, <4>1
    <3>2. CASE l # Item.label
      <4>1. PICK i \in LabelPositions(l) : i < pos /\ Labels[l] = AddressOf(i)
        BY <1>1, <3>2 DEF SourceInv, LabelsMeant
      <4>2. i < pos + 1
        BY <1>3, <4>1 DEF LabelPositions
      <4> QED
        BY <1>1, <2>1, <3>2, <4>1, <4>2
    <3> QED
      BY <3>1, <3>2
  <2>2. ASSUME NEW i \in 1 .. pos, src[i].kind = "label"
        PROVE  src[i].label \in DOMAIN Labels'
    BY <1>1, <1>2, <1>6, <2>2 DEF SourceInv, LabelsMeant
  <2> QED
    BY <1>1, <1>5, <1>6, <2>1, <2>2 DEF LabelsMeant
<1>8. RefsMeant'
  <2>1. \A u \in 1 .. Len(UnresolvedLabels) : \E i \in 1 .. pos : RefOf(u, i)
    BY <1>6 DEF SourceInv, RefsMeant
  <2>2. \A i \in 1 .. pos :
          src[i].kind = "i_label" => \E u \in 1 .. Len(UnresolvedLabels) : RefOf(u, i)
    BY <1>2, <1>6 DEF SourceInv, RefsMeant
  <2> QED
    BY <1>1, <1>5, <1>6, <2>1, <2>2 DEF RefsMeant
<1>9. Translated'
  <2>1. AddressOf(pos)' = AddressOf(pos + 1)
    BY <1>1, <1>5 DEF AddressOf
  <2>2. \A i \in InstrPositions : i < pos + 1 => i < pos
    BY <1>3 DEF InstrPositions
  <2>3. \A i \in 1 .. pos, u \in 1 .. Len(UnresolvedLabels) :
          RefOf(u, i) => i \in 1 .. pos - 1
    BY <1>2, <1>6 DEF RefOf
  <2> QED
    BY <1>1, <1>4, <1>5, <1>6, <2>1, <2>2, <2>3 DEF SourceInv, Translated
<1> QED
  BY <1>2, <1>7, <1>8, <1>9 DEF SourceInv

(* An empty line adds nothing. *)
LEMMA NewlineTranslates ==
  ASSUME IInv, SourceInv, Newline
  PROVE  SourceInv'
<1>1. /\ pos' = pos + 1 /\ Reading("newline")
      /\ UNCHANGED << src, status, Instrs, Labels, UnresolvedLabels, fin >>
  BY DEF Newline
<1>2. /\ pos \in 1 .. Len(src) /\ Len(src) \in Nat /\ src[pos].kind = "newline"
      /\ Accepted' /\ Reasoned'
  BY <1>1, ReadAccepts
<1>3. LabelsMeant' /\ RefsMeant'
  BY <1>1, <1>2, OtherItemMeans
<1>4. TypeOK /\ pos \in Int /\ pos \notin InstrPositions
  BY <1>2 DEF IInv, InstrPositions
<1>5. AddressOf(pos) = Len(Instrs) /\ AddressOf(pos + 1) = AddressOf(pos)
  BY <1>4, NextAddress DEF SourceInv, Translated
<1>6. /\ \A i : /\ AddressOf(i)' = AddressOf(i) /\ Meaning(i)' = Meaning(i)
                /\ Unpatched(i)' = Unpatched(i)
      /\ InstrPositions' = InstrPositions
      /\ \A u, i : RefOf(u, i)' <=> RefOf(u, i)
  BY <1>1, SourceFixed, RefOfFixed
<1>7. /\ pos' - 1 = pos
      /\ \A i \in 1 .. pos : i \in 1 .. pos - 1 \/ i = pos
  BY <1>1, <1>4
<1>8. Translated'
  <2>1. AddressOf(pos)' = AddressOf(pos + 1)
    BY <1>1, <1>6 DEF AddressOf
  <2>2. \A i \in InstrPositions : i < pos + 1 => i < pos
    BY <1>4 DEF InstrPositions
  <2>3. \A i \in 1 .. pos, u \in 1 .. Len(UnresolvedLabels) :
          RefOf(u, i) => i \in 1 .. pos - 1
    BY <1>2, <1>7 DEF RefOf
  <2> QED
    BY <1>1, <1>5, <1>6, <1>7, <2>1, <2>2, <2>3 DEF SourceInv, Translated
<1> QED
  BY <1>2, <1>3, <1>8 DEF SourceInv

-----------------------------------------------------------------------------
(* finalize *)

(* The address of a label at the end of the file is that of its only       *)
(* definition. *)
LEMMA LabelAddress ==
  ASSUME TypeOK, SourceInv, pos = Len(src) + 1, NEW l \in DOMAIN Labels
  PROVE  Labels[l] = AddressOfLabel(l)
<1> DEFINE k == CHOOSE i \in LabelPositions(l) : TRUE
<1>1. PICK i \in LabelPositions(l) : Labels[l] = AddressOf(i)
  BY DEF SourceInv, LabelsMeant
<1>2. k \in LabelPositions(l)
  BY <1>1
<1> HIDE DEF k
<1>3. Len(src) \in Nat
  BY AssemblerAssumption DEF TypeOK
<1>4. ASSUME NEW m \in LabelPositions(l), NEW n \in LabelPositions(l), m < n
      PROVE  FALSE
  <2>1. n \in 1 .. pos - 1 /\ src[n].kind = "label" /\ src[n].label = l
    BY <1>3 DEF LabelPositions
  <2>2. Refused(n)
    BY <1>4, <2>1 DEF Refused
  <2> QED
    BY <2>1, <2>2 DEF SourceInv, Accepted
<1>5. i = k
  <2>1. i \in Int /\ k \in Int
    BY <1>2, <1>3 DEF LabelPositions
  <2> QED
    BY <1>2, <1>4, <2>1
<1> QED
  BY <1>1, <1>5 DEF AddressOfLabel, k

(* A resolved reference has the meaning of its item. *)
LEMMA ResolvedMeaning ==
  ASSUME IInv, SourceInv, Resolve, NEW i \in 1 .. pos - 1, RefOf(fin, i)
  PROVE  Instrs'[AddressOf(i) + 1] = Meaning(i)
<1> DEFINE it == src[i]
<1>1. /\ TypeOK /\ fin \in 1 .. Len(UnresolvedLabels) /\ Current.Label \in DOMAIN Labels
      /\ Current.InstrIdx + 1 \in 1 .. Len(Instrs)
  BY PatchedInstr DEF IInv
<1>2. /\ it.kind = "i_label" /\ Current.Label = it.label /\ Current.InstrIdx = AddressOf(i)
  BY DEF RefOf, Current
<1>3. /\ i \in InstrPositions /\ i < pos /\ it \in RefItems
  BY <1>1, <1>2, RefPositions
<1>4. /\ it.op \in I_OPCODES /\ it.op \in OPCODES /\ it.r1 \in Reg /\ it.r2 \in Reg
  BY <1>3 DEF RefItems, I_OPCODES, OPCODES
<1>5. User = makeIInstr(it.op, it.r1, it.r2, 0)
  <2>1. ~ (fin < fin) /\ fin \in 1 .. Len(UnresolvedLabels)
    BY <1>1
  <2>2. Instrs[AddressOf(i) + 1] = Unpatched(i)
    BY <2>1 DEF SourceInv, Translated
  <2> QED
    BY <1>2, <2>2 DEF User, Unpatched
<1>6. getOpcode(User) = it.op /\ r1Of(User) = it.r1 /\ r2Of(User) = it.r2
  BY <1>4, <1>5, IInstrRoundTrip
<1>7. Labels[it.label] = AddressOfLabel(it.label)
  <2>1. pos = Len(src) + 1
    BY DEF Resolve, SourceInv, Accepted
  <2> QED
    BY <1>1, <1>2, <2>1, LabelAddress
<1>8. AddressOf(i) \in Int /\ AddressOfLabel(it.label) \in Int
  <2>1. AddressOf(i) \in Int
    BY <1>3, AddressesInVector
  <2>2. Labels[it.label] \in Int
    BY <1>1, <1>2 DEF TypeOK
  <2> QED
    BY <1>7, <2>1, <2>2
<1> DEFINE distance == AddressOfLabel(it.label) - AddressOf(i)
<1>9. Offset(Current, User) = IF it.op \in BRANCHES \cup { OPCODE.JALR } THEN distance
                                                                      ELSE 4 * distance
  <2>1. Offset(Current, User)
          = distance * (IF it.op \in BRANCHES \cup { OPCODE.JALR } THEN 1 ELSE 4)
    BY <1>2, <1>6, <1>7 DEF Offset, isJump, isBranch
  <2>2. distance \in Int
    BY <1>8
  <2> HIDE DEF distance
  <2>3. distance * 1 = distance /\ distance * 4 = 4 * distance
    BY <2>2
  <2> QED
    BY <2>1, <2>3
<1>10. Instrs'[Current.InstrIdx + 1]
         = makeIInstr(it.op, it.r1, it.r2, Offset(Current, User))
  <2>1. Instrs' = [ Instrs EXCEPT ![Current.InstrIdx + 1] =
                      makeIInstr(it.op, it.r1, it.r2, Offset(Current, User)) ]
    BY <1>6 DEF Resolve
  <2>2. Current.InstrIdx + 1 \in DOMAIN Instrs
    BY <1>1 DEF TypeOK
  <2> QED
    BY <2>1, <2>2
<1>11. Meaning(i) = makeIInstr(it.op, it.r1, it.r2,
                      IF it.op \in BRANCHES \cup { OPCODE.JALR } THEN distance
                                                                ELSE 4 * distance)
  BY <1>2 DEF Meaning
<1> QED
  BY <1>2, <1>9, <1>10, <1>11

(* A round of finalize gives one instruction its meaning and leaves the    *)
(* others with theirs: no two references are at one address. *)
LEMMA ResolveTranslates ==
  ASSUME IInv, SourceInv, Resolve
  PROVE  SourceInv'
<1>1. /\ UNCHANGED << src, pos, Labels, UnresolvedLabels, status >> /\ fin' = fin + 1
      /\ status = "finalizing"
  BY DEF Resolve
<1>2. /\ TypeOK /\ fin \in 1 .. Len(UnresolvedLabels) /\ Len(UnresolvedLabels) \in Nat
      /\ Len(Instrs') = Len(Instrs)
      /\ \A k \in 1 .. Len(Instrs) : k # Current.InstrIdx + 1 => Instrs'[k] = Instrs[k]
  BY PatchedInstr DEF IInv, TypeOK
<1>3. /\ \A i : /\ AddressOf(i)' = AddressOf(i) /\ Meaning(i)' = Meaning(i)
                /\ Unpatched(i)' = Unpatched(i)
                /\ Refused(i)' <=> Refused(i)
      /\ \A l : LabelPositions(l)' = LabelPositions(l)
      /\ InstrPositions' = InstrPositions
      /\ \A u, i : RefOf(u, i)' <=> RefOf(u, i)
  BY <1>1, SourceFixed, RefOfFixed
<1>4. Accepted' /\ Reasoned'
  BY <1>1, <1>3 DEF SourceInv, Accepted, Reasoned
<1>5. LabelsMeant' /\ RefsMeant'
  BY <1>1, <1>3 DEF SourceInv, LabelsMeant, RefsMeant
<1>6. Current.InstrIdx \in Nat
  BY <1>2, RefsInRange DEF Current
<1>7. PICK p \in 1 .. pos - 1 : RefOf(fin, p)
  BY <1>2 DEF SourceInv, RefsMeant
<1>8. /\ p \in InstrPositions /\ p < pos /\ src[p].kind = "i_label"
      /\ Current.InstrIdx = AddressOf(p)
  BY <1>2, <1>7, RefPositions DEF RefOf, Current
<1>9. ASSUME NEW i \in InstrPositions, i < pos, i # p
      PROVE  Instrs'[AddressOf(i) + 1] = Instrs[AddressOf(i) + 1]
  <2>1. i \in Int /\ p \in Int
    BY DEF InstrPositions
  <2>2. AddressOf(i) \in Nat /\ AddressOf(i) + 1 \in 1 .. Len(Instrs)
    BY <1>9, AddressesInVector
  <2>3. AddressOf(i) # AddressOf(p)
    <3>1. CASE i < p
      BY <1>2, <2>1, <3>1, AddressGrows
    <3>2. CASE p < i
      BY <1>2, <1>8, <2>1, <3>2, AddressGrows
    <3> QED
      BY <1>9, <2>1, <3>1, <3>2
  <2>4. AddressOf(i) + 1 # Current.InstrIdx + 1
    BY <1>6, <1>8, <2>2, <2>3
  <2> QED
    BY <1>2, <2>2, <2>4
<1>10. ASSUME NEW i \in InstrPositions, i < pos, src[i].kind # "i_label"
       PROVE  Instrs'[AddressOf(i) + 1] = Meaning(i)
  BY <1>8, <1>9, <1>10 DEF SourceInv, Translated
<1>11. ASSUME NEW i \in 1 .. pos - 1, NEW u \in 1 .. Len(UnresolvedLabels), RefOf(u, i)
       PROVE  Instrs'[AddressOf(i) + 1] = IF u < fin + 1 THEN Meaning(i) ELSE Unpatched(i)
  <2>1. i \in InstrPositions /\ i < pos /\ src[i].kind = "i_label" /\ i \in Int
    BY <1>2, <1>11, RefPositions DEF RefOf, InstrPositions
  <2>2. CASE u = fin
    <3>1. Instrs'[AddressOf(i) + 1] = Meaning(i)
      BY <1>11, <2>2, ResolvedMeaning
    <3> QED
      BY <1>2, <2>2, <3>1
  <2>3. CASE u # fin
    <3>1. i # p
      <4>1. UnresolvedLabels[u].InstrIdx \in Nat /\ UnresolvedLabels[fin].InstrIdx \in Nat
        BY <1>2, RefsInRange
      <4>2. UnresolvedLabels[u].InstrIdx # UnresolvedLabels[fin].InstrIdx
        BY <1>2, <2>3, <4>1 DEF IInv, RefsOrdered
      <4> QED
        BY <1>7, <1>11, <4>2 DEF RefOf
    <3>2. Instrs'[AddressOf(i) + 1] = Instrs[AddressOf(i) + 1]
      BY <1>9, <2>1, <3>1
    <3>3. Instrs[AddressOf(i) + 1] = IF u < fin THEN Meaning(i) ELSE Unpatched(i)
      BY <1>11 DEF SourceInv, Translated
    <3>4. u < fin + 1 <=> u < fin
      BY <1>2, <2>3
    <3> QED
      BY <3>2, <3>3, <3>4
  <2> QED
    BY <2>2, <2>3
<1>12. Translated'
  <2>1. AddressOf(pos)' = AddressOf(pos)
    BY <1>1, <1>3 DEF AddressOf
  <2> QED
    BY <1>1, <1>2, <1>3, <1>10, <1>11, <2>1 DEF SourceInv, Translated
<1> QED
  BY <1>4, <1>5, <1>12 DEF SourceInv

(* A step that ends the parse, or hands over to finalize, has the reason   *)
(* the source gives for it. *)
LEMMA EndingTranslates ==
  ASSUME IInv, SourceInv,
         \/ LabelRedefined \/ SyntaxError \/ ScannerError \/ StackExhausted
         \/ EndOfFile \/ UndefinedLabel \/ Finished
  PROVE  SourceInv'
<1>1. UNCHANGED << src, pos, Instrs, Labels, UnresolvedLabels, fin >>
  BY DEF LabelRedefined, SyntaxError, ScannerError, StackExhausted, EndOfFile,
         UndefinedLabel, Finished, Exit
<1>2. /\ TypeOK /\ Len(src) \in Nat /\ pos \in 1 .. Len(src) + 1
      /\ pos < YYMAXDEPTH /\ YYMAXDEPTH \in Nat
  BY AssemblerAssumption DEF IInv, TypeOK, SourceInv, Accepted
<1>3. /\ \A i : /\ AddressOf(i)' = AddressOf(i) /\ Meaning(i)' = Meaning(i)
                /\ Unpatched(i)' = Unpatched(i)
                /\ Refused(i)' <=> Refused(i)
      /\ \A l : LabelPositions(l)' = LabelPositions(l)
      /\ InstrPositions' = InstrPositions
      /\ \A u, i : RefOf(u, i)' <=> RefOf(u, i)
      /\ Undefined' <=> Undefined
  BY <1>1, SourceFixed, RefOfFixed
<1>4. LabelsMeant' /\ RefsMeant'
  BY <1>1, <1>3 DEF SourceInv, LabelsMeant, RefsMeant
<1>5. Translated'
  <2>1. AddressOf(pos)' = AddressOf(pos)
    BY <1>1, <1>3 DEF AddressOf
  <2> QED
    BY <1>1, <1>3, <2>1 DEF SourceInv, Translated
<1>6. Accepted'
  <2>1. status' \in { "finalizing", "done" } => pos = Len(src) + 1 /\ Len(src) + 2 < YYMAXDEPTH
    <3>1. CASE EndOfFile
      BY <1>2, <3>1 DEF EndOfFile
    <3>2. CASE Finished
      BY <3>2 DEF Finished, SourceInv, Accepted
    <3>3. CASE LabelRedefined \/ SyntaxError \/ ScannerError \/ StackExhausted
                 \/ UndefinedLabel
      BY <3>3 DEF LabelRedefined, SyntaxError, ScannerError, StackExhausted, UndefinedLabel, Exit
    <3> QED
      BY <3>1, <3>2, <3>3
  <2> QED
    BY <1>1, <1>3, <2>1 DEF SourceInv, Accepted
<1>7. Reasoned'
  <2>1. ASSUME status' = "abandoned"
        PROVE  pos <= Len(src) /\ src[pos].kind = "bad_symbol"
    BY <2>1 DEF LabelRedefined, SyntaxError, ScannerError, StackExhausted, EndOfFile,
                UndefinedLabel, Finished, Exit, Reading, Item
  <2>2. ASSUME status' = "failed", pos <= Len(src)
        PROVE  Refused(pos) /\ src[pos].kind # "bad_symbol"
    <3>1. CASE LabelRedefined
      <4>1. src[pos].kind = "label" /\ src[pos].label \in DOMAIN Labels
        BY <3>1 DEF LabelRedefined, Reading, Item
      <4>2. \E i \in LabelPositions(src[pos].label) : i < pos
        BY <4>1 DEF SourceInv, LabelsMeant
      <4> QED
        BY <4>1, <4>2 DEF Refused
    <3>2. CASE SyntaxError
      BY <3>2 DEF SyntaxError, Reading, Item, Refused
    <3>3. CASE StackExhausted
      <4>1. pos + Tokens(src[pos].kind) >= YYMAXDEPTH
        BY <2>2, <3>3 DEF StackExhausted, Item
      <4>2. src[pos].kind # "bad_symbol"
        BY <1>2, <4>1 DEF Tokens
      <4> QED
        BY <4>1, <4>2 DEF Refused
    <3>4. CASE UndefinedLabel
      BY <1>2, <2>2, <3>4 DEF UndefinedLabel, SourceInv, Accepted
    <3>5. CASE ScannerError \/ EndOfFile \/ Finished
      BY <2>2, <3>5 DEF ScannerError, EndOfFile, Finished, Exit
    <3> QED
      BY <3>1, <3>2, <3>3, <3>4, <3>5
  <2>3. ASSUME status' = "failed", ~ (pos <= Len(src))
        PROVE  Len(src) + 2 >= YYMAXDEPTH \/ Undefined
    <3>1. pos = Len(src) + 1
      BY <1>2, <2>3
    <3>2. CASE StackExhausted
      BY <1>2, <2>3, <3>1, <3>2 DEF StackExhausted
    <3>3. CASE UndefinedLabel
      <4>1. fin \in 1 .. Len(UnresolvedLabels) /\ Current.Label \notin DOMAIN Labels
        BY <1>2, <3>3 DEF UndefinedLabel, TypeOK
      <4>2. PICK p \in 1 .. pos - 1 : RefOf(fin, p)
        BY <4>1 DEF SourceInv, RefsMeant
      <4>3. p \in 1 .. Len(src) /\ src[p].kind = "i_label" /\ src[p].label \notin DOMAIN Labels
        BY <1>2, <3>1, <4>1, <4>2 DEF RefOf, Current
      <4>4. ASSUME NEW i \in LabelPositions(src[p].label) PROVE FALSE
        <5>1. i \in 1 .. pos - 1 /\ src[i].kind = "label" /\ src[i].label = src[p].label
          BY <1>2, <3>1 DEF LabelPositions
        <5> QED
          BY <4>3, <5>1 DEF SourceInv, LabelsMeant
      <4> QED
        BY <4>3, <4>4 DEF Undefined
    <3>4. CASE LabelRedefined \/ SyntaxError
      BY <2>3, <3>4 DEF LabelRedefined, SyntaxError, Reading
    <3>5. CASE ScannerError \/ EndOfFile \/ Finished
      BY <2>3, <3>5 DEF ScannerError, EndOfFile, Finished, Exit
    <3> QED
      BY <3>2, <3>3, <3>4, <3>5
  <2> QED
    BY <1>1, <1>3, <2>1, <2>2, <2>3 DEF Reasoned
<1> QED
  BY <1>4, <1>5, <1>6, <1>7 DEF SourceInv

(* Every step of the assembler keeps what it has of the source. *)
LEMMA StepKeepsSource == IInv /\ SourceInv /\ [Next]_vars => SourceInv'
<1> SUFFICES ASSUME IInv, SourceInv, [Next]_vars PROVE SourceInv'
  OBVIOUS
<1>1. CASE UNCHANGED vars \/ Parsed
  <2>1. UNCHANGED << src, pos, Instrs, Labels, UnresolvedLabels, fin, status >>
    BY <1>1 DEF Parsed, vars
  <2>2. /\ \A i : /\ AddressOf(i)' = AddressOf(i) /\ Meaning(i)' = Meaning(i)
                  /\ Unpatched(i)' = Unpatched(i)
                  /\ Refused(i)' <=> Refused(i)
        /\ \A l : LabelPositions(l)' = LabelPositions(l)
        /\ InstrPositions' = InstrPositions
        /\ \A u, i : RefOf(u, i)' <=> RefOf(u, i)
        /\ Undefined' <=> Undefined
    BY <2>1, SourceFixed, RefOfFixed
  <2>3. Accepted' /\ LabelsMeant' /\ RefsMeant'
    BY <2>1, <2>2 DEF SourceInv, Accepted, LabelsMeant, RefsMeant
  <2>4. Reasoned'
    <3>1. Refused(pos)' <=> Refused(pos)
      BY <2>1, <2>2 DEF Refused, LabelPositions
    <3> QED
      BY <2>1, <2>2, <3>1 DEF SourceInv, Reasoned
  <2>5. Translated'
    <3>1. AddressOf(pos)' = AddressOf(pos)
      BY <2>1, <2>2 DEF AddressOf
    <3> QED
      BY <2>1, <2>2, <3>1 DEF SourceInv, Translated
  <2> QED
    BY <2>3, <2>4, <2>5 DEF SourceInv
<1>2. CASE Step
  BY <1>2, PlainItemsTranslate, ReferenceTranslates, LabelTranslates, NewlineTranslates,
     ResolveTranslates, EndingTranslates DEF Step
<1> QED
  BY <1>1, <1>2 DEF Next

(* What the assembler has, of every source and at every moment.            *)
THEOREM SourceInvariance == Spec => []SourceInv
BY InitSource, StepKeepsSource, Invariance, PTL DEF Spec

(* An assembled program is the translation of its source. *)
THEOREM AssemblesEverySource == Spec => []AssemblesSource
<1>1. IInv /\ SourceInv => AssemblesSource
  <2> SUFFICES ASSUME IInv, SourceInv, status = "done"
               PROVE  /\ Len(Instrs) = Cardinality(InstrPositions)
                      /\ \A i \in InstrPositions : Instrs[AddressOf(i) + 1] = Meaning(i)
    BY DEF AssemblesSource
  <2>1. /\ TypeOK /\ pos = Len(src) + 1 /\ Len(src) \in Nat
        /\ fin = Len(UnresolvedLabels) + 1 /\ Len(UnresolvedLabels) \in Nat
    BY AssemblerAssumption DEF IInv, TypeOK, SourceInv, Accepted, Progress
  <2>2. Len(Instrs) = Cardinality(InstrPositions)
    BY <2>1, LastAddress DEF SourceInv, Translated
  <2>3. ASSUME NEW i \in InstrPositions
        PROVE  Instrs[AddressOf(i) + 1] = Meaning(i)
    <3>1. i \in 1 .. pos - 1 /\ i < pos
      BY <2>1 DEF InstrPositions
    <3>2. CASE src[i].kind # "i_label"
      BY <3>1, <3>2 DEF SourceInv, Translated
    <3>3. CASE src[i].kind = "i_label"
      <4>1. PICK u \in 1 .. Len(UnresolvedLabels) : RefOf(u, i)
        BY <3>1, <3>3 DEF SourceInv, RefsMeant
      <4>2. u < fin
        BY <2>1
      <4> QED
        BY <3>1, <4>1, <4>2 DEF SourceInv, Translated
    <3> QED
      BY <3>2, <3>3
  <2> QED
    BY <2>2, <2>3
<1> QED
  BY <1>1, Invariance, SourceInvariance, PTL

(* How parse ends is decided by the source. *)
THEOREM OutcomeDecided == Spec => []OutcomeFollowsSource
<1>1. IInv /\ SourceInv => OutcomeFollowsSource
  <2> SUFFICES ASSUME IInv, SourceInv, Ended PROVE OutcomeFollowsSource
    BY DEF OutcomeFollowsSource
  <2> DEFINE bad   == { i \in 1 .. Len(src) : Refused(i) }
             first == CHOOSE i \in bad : \A j \in bad : i <= j
  <2>1. TypeOK /\ Len(src) \in Nat /\ pos \in 1 .. Len(src) + 1 /\ YYMAXDEPTH \in Nat
    BY AssemblerAssumption DEF IInv, TypeOK
  <2>2. \A i \in bad : i \in Int /\ pos <= i
    <3> SUFFICES ASSUME NEW i \in bad PROVE i \in Int /\ pos <= i
      OBVIOUS
    <3>1. i \in 1 .. Len(src) /\ i \notin 1 .. pos - 1
      BY DEF SourceInv, Accepted
    <3> QED
      BY <2>1, <3>1
  <2>3. CASE pos <= Len(src)
    <3>1. status \in { "abandoned", "failed" }
      BY <2>1, <2>3 DEF Ended, SourceInv, Accepted
    <3>2. Refused(pos)
      <4>1. CASE status = "abandoned"
        BY <4>1 DEF SourceInv, Reasoned, Refused
      <4>2. CASE status = "failed"
        BY <2>3, <4>2 DEF SourceInv, Reasoned
      <4> QED
        BY <3>1, <4>1, <4>2
    <3>3. pos \in bad
      BY <2>1, <2>3, <3>2
    <3>4. first \in bad /\ \A j \in bad : first <= j
      BY <2>2, <3>3
    <3>5. first = pos
      <4> HIDE DEF bad, first
      <4>1. first <= pos /\ pos <= first /\ first \in Int
        BY <2>2, <3>3, <3>4
      <4> QED
        BY <2>1, <4>1
    <3>6. status = IF src[pos].kind = "bad_symbol" THEN "abandoned" ELSE "failed"
      BY <2>3, <3>1 DEF SourceInv, Reasoned
    <3>7. bad # {}
      BY <3>3
    <3> HIDE DEF first
    <3>8. status = IF bad # {}
                     THEN IF src[first].kind = "bad_symbol" THEN "abandoned" ELSE "failed"
                     ELSE IF Len(src) + 2 >= YYMAXDEPTH \/ Undefined THEN "failed" ELSE "done"
      BY <3>5, <3>6, <3>7
    <3> QED
      BY <3>8 DEF OutcomeFollowsSource, first
  <2>4. CASE ~ (pos <= Len(src))
    <3>1. pos = Len(src) + 1
      BY <2>1, <2>4
    <3>2. bad = {}
      <4>1. \A i \in 1 .. Len(src) : ~ (pos <= i)
        BY <2>1, <3>1
      <4> QED
        BY <2>2, <4>1
    <3>3. status = "failed" => Len(src) + 2 >= YYMAXDEPTH \/ Undefined
      BY <2>4 DEF SourceInv, Reasoned
    <3>4. status # "abandoned"
      BY <2>4 DEF SourceInv, Reasoned
    <3>5. ASSUME status = "done"
          PROVE  ~ (Len(src) + 2 >= YYMAXDEPTH) /\ ~ Undefined
      <4>1. Len(src) + 2 < YYMAXDEPTH
        BY <3>5 DEF SourceInv, Accepted
      <4>2. ASSUME NEW i \in 1 .. Len(src), src[i].kind = "i_label"
            PROVE  LabelPositions(src[i].label) # {}
        <5>1. i \in 1 .. pos - 1
          BY <2>1, <3>1
        <5>2. PICK u \in 1 .. Len(UnresolvedLabels) : RefOf(u, i)
          BY <4>2, <5>1 DEF SourceInv, RefsMeant
        <5>3. fin = Len(UnresolvedLabels) + 1 /\ Len(UnresolvedLabels) \in Nat
          BY <2>1, <3>5 DEF IInv, Progress, TypeOK
        <5>4. RefResolved(u)
          BY <5>3 DEF IInv, Progress
        <5>5. src[i].label \in DOMAIN Labels
          BY <5>2, <5>4 DEF RefOf, RefResolved
        <5> QED
          BY <5>5 DEF SourceInv, LabelsMeant
      <4> QED
        BY <2>1, <4>1, <4>2 DEF Undefined
    <3>6. status = IF Len(src) + 2 >= YYMAXDEPTH \/ Undefined THEN "failed" ELSE "done"
      BY <3>3, <3>4, <3>5 DEF Ended
    <3> QED
      BY <3>2, <3>6 DEF OutcomeFollowsSource
  <2> QED
    BY <2>3, <2>4
<1> QED
  BY <1>1, Invariance, SourceInvariance, PTL
=============================================================================
