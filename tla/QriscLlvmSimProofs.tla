------------------------- MODULE QriscLlvmSimProofs -------------------------
(***************************************************************************)
(* Proofs about QriscLlvmSim, for every binary, memory size and width: the *)
(* blocks that the two loops of simulate build are the basic blocks of the *)
(* binary, the verifier accepts them exactly when control stays inside it, *)
(* execution never runs off a block, and the translation of a portable     *)
(* binary steps as the interpreter does.                                   *)
(***************************************************************************)
EXTENDS QriscLlvmSim, QriscIsaProofs, SequenceTheorems

-----------------------------------------------------------------------------
(* The inductive invariant.  Its first half is about the code being built  *)
(* and never changes once the function is complete.                        *)

Gathers == status \in { "gather", "unsupported" }
Emits   == status \in { "emit", "assert" }

(* The transfers whose targets have been given a block.                    *)
Found == { t \in Transfers : Gathers => t < InstrPC }

IsArrival(a) == a = 0 \/ \E t \in Found : a = Dest(t) \/ a = t + 4

Loaded ==
  /\ Instrs \in Programs
  /\ InstrPC \in 0 .. BinarySize /\ InstrPC % 4 = 0
  /\ \A t \in Found : Translatable(InsAt(t))
  /\ \A a \in DOMAIN BBJumpDest : a \in Word /\ IsArrival(a)
  /\ 0 \in DOMAIN BBJumpDest
  /\ \A t \in Found : Dest(t) \in DOMAIN BBJumpDest /\ t + 4 \in DOMAIN BBJumpDest
  /\ BBJumpDest \in [ DOMAIN BBJumpDest -> Seq(Item) ]
  /\ InsertPoint \in DOMAIN BBJumpDest

(* Where the interpreter is when an item is about to be executed.          *)
At(item) == CASE item.kind = "ret"                                  -> BinarySize
              [] item.kind = "br" /\ ~isJump(InsAt(item.addr)) -> item.to
              [] OTHER                                              -> item.addr

(* What an item says of the instruction it was emitted for.                *)
Emitted(item) ==
  /\ item.kind = "ret" => item.addr = BinarySize
  /\ item.kind # "ret" => item.addr \in Addresses
  /\ item.kind = "ins" => IsCode(item.addr)
  /\ item.kind = "condbr" => /\ isBranch(InsAt(item.addr))
                             /\ item.to = Dest(item.addr) /\ item.else = item.addr + 4
  /\ item.kind = "br" => item.to = IF isJump(InsAt(item.addr)) THEN Dest(item.addr)
                                                               ELSE item.addr + 4
  /\ item.kind \in { "br", "condbr" } => item.to \in Leaders
  /\ item.kind = "condbr" => item.else \in Leaders

(* In a binary of instructions only, the items of a block are consecutive. *)
AllCode == \A a \in Addresses : getOpcode(InsAt(a)) \in OPCODES
Consecutive(l, block) ==
  AllCode => \A i \in 1 .. Len(block) : At(block[i]) = l + 4 * (i - 1)

CodeIn(l, end) == { Code(a) : a \in { b \in Addresses : l <= b /\ b < end /\ IsCode(b) } }

(* A block the second loop is still adding to: the code from l up to end.  *)
Open(block, l, end) ==
  /\ Items(block) = CodeIn(l, end)
  /\ InOrder(block)
  /\ \A i \in 1 .. Len(block) : Emitted(block[i])
  /\ Consecutive(l, block)
  /\ AllCode => end = l + 4 * Len(block)

(* A finished block; one outside the binary has nothing in it.             *)
Closed(block, l) ==
  /\ Items(block) = Block(l)
  /\ InOrder(block)
  /\ \A i \in 1 .. Len(block) : Emitted(block[i])
  /\ Consecutive(l, block)
  /\ l <= BinarySize => block # << >> /\ IsTerminator(block[Len(block)])

(* The transfer at t has reached the block of its leader.                  *)
Sent(t) ==
  \E l \in DOMAIN BBJumpDest : \E i \in 1 .. Len(BBJumpDest[l]) :
    BBJumpDest[l][i].kind \in { "br", "condbr" } /\ BBJumpDest[l][i].to = Dest(t)

Filled ==
  /\ Gathers => InsertPoint = 0 /\ \A l \in DOMAIN BBJumpDest : BBJumpDest[l] = << >>
  /\ Emits =>
       /\ InsertPoint <= InstrPC /\ InsertPoint % 4 = 0
       /\ \A l \in DOMAIN BBJumpDest : /\ l < InsertPoint => Closed(BBJumpDest[l], l)
                                       /\ l > InstrPC => BBJumpDest[l] = << >>
                                       /\ ~(InsertPoint < l /\ l <= InstrPC)
       /\ Open(BBJumpDest[InsertPoint], InsertPoint, InstrPC)
       /\ \A t \in Transfers : t < InstrPC => Sent(t)
  /\ ~Gathers /\ ~Emits =>
       /\ \A l \in DOMAIN BBJumpDest : Closed(BBJumpDest[l], l)
       /\ \A t \in Transfers : Sent(t)

(* The second half is about the machine the function runs on.              *)
Machine ==
  /\ SimRegFile \in [ Reg -> Word ] /\ SimRegFile[REG_ZERO] = 0
  /\ SimMemory = << >> \/ SimMemory \in [ 0 .. MemorySize - 1 -> Byte ]
  /\ SimPixelColor \in Word /\ SimPixelShape \in Word
  /\ Ended \/ status \in { "gather", "emit", "built", "running" }
  /\ event \in Events

Running ==
  /\ Compiling => ip = [ block |-> 0, item |-> 1 ]
  /\ ip \in [ block : DOMAIN BBJumpDest, item : Nat ]
  /\ status = "running" =>
       /\ VerifierAccepts
       /\ BinarySize <= MemorySize
       /\ ip.item \in 1 .. Len(BBJumpDest[ip.block])
       /\ SimMemory \in [ 0 .. MemorySize - 1 -> Byte ]

IInv == Loaded /\ Filled /\ Machine /\ Running

-----------------------------------------------------------------------------
(* Addresses *)

(* There is no aligned address between two instructions. *)
LEMMA NoneBetween ==
  ASSUME NEW x \in Nat, NEW y \in Nat, x % 4 = 0, y % 4 = 0, x < y + 4
  PROVE  x <= y
OBVIOUS

(* A binary's addresses and branch targets are aligned words. *)
LEMMA AddressesAreWords ==
  ASSUME Loaded
  PROVE  /\ Instrs \in Seq(Word) /\ Len(Instrs) \in Nat /\ BinarySize = 4 * Len(Instrs)
         /\ BinarySize \in Word /\ BinarySize \in Nat /\ BinarySize % 4 = 0
         /\ InstrPC \in Word /\ InstrPC \in Nat
         /\ \A a \in Addresses :
              /\ a \in Nat /\ a % 4 = 0 /\ a + 4 <= BinarySize
              /\ a \in Word /\ a + 4 \in Word
              /\ InsAt(a) \in Word
              /\ Dest(a) \in Word /\ Dest(a) % 4 = 0
<1>1. Instrs \in Seq(Word) /\ 4 * Len(Instrs) < WORD /\ Len(Instrs) \in Nat
  BY LlvmSimAssumption DEF Loaded
<1>2. BinarySize \in Word /\ BinarySize \in Nat /\ BinarySize % 4 = 0
  BY <1>1, Widths DEF BinarySize, Word
<1>3. InstrPC \in Word /\ InstrPC \in Nat
  BY <1>1, <1>2, Widths DEF Loaded, BinarySize, Word
<1>4. ASSUME NEW a \in Addresses
      PROVE  /\ a \in Nat /\ a % 4 = 0 /\ a + 4 <= BinarySize
             /\ a \in Word /\ a + 4 \in Word
             /\ InsAt(a) \in Word
             /\ Dest(a) \in Word /\ Dest(a) % 4 = 0
  <2>1. a \in Nat /\ a < BinarySize /\ a % 4 = 0
    BY <1>2 DEF Addresses
  <2>2. a + 4 <= BinarySize /\ (a \div 4) + 1 \in 1 .. Len(Instrs)
    BY <2>1, <1>1, <1>2 DEF BinarySize
  <2>3. InsAt(a) \in Word
    BY <1>1, <2>2, ElementOfSeq DEF InsAt
  <2>4. a \in Word /\ a + 4 \in Word
    BY <2>1, <2>2, <1>2, Widths DEF Word
  <2>5. immOf(InsAt(a)) \in Nat
    BY <2>3, ImmIsWord, Widths DEF Word
  <2> DEFINE x == a + immOf(InsAt(a)) * 4
  <2>6. x \in Int /\ x % 4 = 0
    BY <2>1, <2>5
  <2> HIDE DEF x
  <2>7. x % WORD \in Word /\ (x % WORD) % 4 = 0
    BY <2>6, WordIsAligned, Widths, ModRange DEF Word
  <2> QED
    BY <2>1, <2>2, <2>3, <2>4, <2>7 DEF Dest, Target, x
<1> QED
  BY <1>1, <1>2, <1>3, <1>4 DEF BinarySize

(* So are the leaders. *)
LEMMA ArrivalsAreAligned ==
  ASSUME Loaded, NEW l \in DOMAIN BBJumpDest
  PROVE  l \in Nat /\ l % 4 = 0
<1>1. IsArrival(l) /\ l \in Word
  BY DEF Loaded
<1>2. l \in Nat
  BY <1>1, Widths DEF Word
<1>3. \A t \in Found : t \in Addresses
  BY DEF Found, Transfers
<1> QED
  BY <1>1, <1>2, <1>3, AddressesAreWords DEF IsArrival

(* Once every instruction has been looked at the blocks are the leaders'.  *)
LEMMA ArrivalsAreLeaders ==
  ASSUME Loaded, ~Gathers
  PROVE  DOMAIN BBJumpDest = Leaders
<1>1. Found = Transfers
  BY DEF Found
<1>2. \A a : a \in Leaders <=> a = 0 \/ \E t \in Transfers : a = Dest(t) \/ a = t + 4
  BY DEF Leaders
<1>3. \A a \in DOMAIN BBJumpDest : a \in Leaders
  BY <1>1, <1>2 DEF Loaded, IsArrival
<1>4. \A a \in Leaders : a \in DOMAIN BBJumpDest
  BY <1>1, <1>2 DEF Loaded
<1> QED
  BY <1>3, <1>4

(* The instruction a loop is at. *)
LEMMA AtAnInstruction ==
  ASSUME Loaded, InstrPC < BinarySize
  PROVE  InstrPC \in Addresses /\ InstrPC + 4 \in 0 .. BinarySize /\ (InstrPC + 4) % 4 = 0
<1>1. InstrPC \in Addresses
  BY AddressesAreWords DEF Addresses, Loaded
<1> QED
  BY <1>1, AddressesAreWords

-----------------------------------------------------------------------------
(* Blocks as sequences of items *)

(* What appending an item to a block does. *)
LEMMA AppendItem ==
  ASSUME NEW block \in Seq(Item), NEW x \in Item
  PROVE  /\ Append(block, x) \in Seq(Item)
         /\ Len(block) \in Nat /\ Len(Append(block, x)) = Len(block) + 1
         /\ Append(block, x)[Len(block) + 1] = x
         /\ \A i \in 1 .. Len(block) : Append(block, x)[i] = block[i]
         /\ Items(Append(block, x)) = Items(block) \cup { x }
         /\ Append(block, x) # << >>
<1> DEFINE new == Append(block, x)
<1>1. /\ new \in Seq(Item) /\ Len(new) = Len(block) + 1 /\ Len(block) \in Nat
      /\ new[Len(block) + 1] = x
      /\ \A i \in 1 .. Len(block) : new[i] = block[i]
  BY AppendProperties, LenProperties
<1>2. new # << >>
  BY <1>1, EmptySeq
<1> HIDE DEF new
<1>3. Items(new) = Items(block) \cup { x }
  BY <1>1 DEF Items
<1> QED
  BY <1>1, <1>2, <1>3 DEF new

(* A block stays in order when what is appended belongs at its end. *)
LEMMA AppendInOrder ==
  ASSUME NEW block \in Seq(Item), NEW x \in Item, InOrder(block),
         \A y \in Items(block) : ~IsTerminator(y) /\ (IsTerminator(x) \/ y.addr < x.addr)
  PROVE  InOrder(Append(block, x))
<1> DEFINE new == Append(block, x)
<1>1. /\ Len(block) \in Nat /\ Len(new) = Len(block) + 1
      /\ new[Len(block) + 1] = x
      /\ \A i \in 1 .. Len(block) : new[i] = block[i]
  BY AppendItem
<1> HIDE DEF new
<1>2. \A i \in 1 .. Len(block) : block[i] \in Items(block)
  BY DEF Items
<1>3. ASSUME NEW j \in 1 .. Len(new), NEW i \in 1 .. j - 1
      PROVE  ~IsTerminator(new[i]) /\ (IsTerminator(new[j]) \/ new[i].addr < new[j].addr)
  <2>1. i \in 1 .. Len(block) /\ new[i] = block[i]
    BY <1>1
  <2>2. CASE j = Len(block) + 1
    BY <1>1, <1>2, <2>1, <2>2
  <2>3. CASE j \in 1 .. Len(block)
    BY <1>1, <2>1, <2>3 DEF InOrder
  <2> QED
    BY <1>1, <2>2, <2>3
<1> QED
  BY <1>3 DEF InOrder, new

(* The code of one more instruction. *)
LEMMA CodeGrows ==
  ASSUME Loaded, NEW block \in Seq(Item), NEW l \in Nat, NEW pc \in Addresses, l <= pc,
         Open(block, l, pc), IsCode(pc)
  PROVE  Code(pc) \in Item /\ Open(Append(block, Code(pc)), l, pc + 4)
<1> DEFINE new == Append(block, Code(pc))
<1>1. pc \in Nat /\ pc \in Word /\ \A a \in Addresses : a \in Nat /\ a % 4 = 0
  BY AddressesAreWords
<1>2. Code(pc) \in Item /\ Code(pc).addr = pc /\ Code(pc).kind = "ins"
  BY <1>1, Widths DEF Code, Terminator, Item
<1>3. \A y \in Items(block) : y.kind = "ins" /\ y.addr < pc
  <2>1. \A y \in CodeIn(l, pc) : y.kind = "ins" /\ y.addr < pc
    BY DEF CodeIn, Code, Terminator
  <2> QED
    BY <2>1 DEF Open
<1>4. /\ new \in Seq(Item)
      /\ Len(block) \in Nat /\ Len(new) = Len(block) + 1
      /\ new[Len(block) + 1] = Code(pc)
      /\ \A i \in 1 .. Len(block) : new[i] = block[i]
      /\ Items(new) = Items(block) \cup { Code(pc) }
  BY <1>2, AppendItem
<1>5. InOrder(new)
  BY <1>2, <1>3, AppendInOrder DEF Open, IsTerminator
<1> HIDE DEF new
<1>6. Items(new) = CodeIn(l, pc + 4)
  <2>1. Items(block) = CodeIn(l, pc)
    BY DEF Open
  <2>2. \A b \in Addresses : b < pc + 4 <=> b < pc \/ b = pc
    BY <1>1
  <2>3. CodeIn(l, pc + 4) = CodeIn(l, pc) \cup { Code(pc) }
    BY <1>1, <2>2 DEF CodeIn
  <2> QED
    BY <1>4, <2>1, <2>3
<1>7. Emitted(Code(pc)) /\ At(Code(pc)) = pc
  BY <1>2 DEF Emitted, At
<1> HIDE DEF Code
<1>8. \A i \in 1 .. Len(new) : i \in 1 .. Len(block) \/ i = Len(block) + 1
  BY <1>4
<1>9. \A i \in 1 .. Len(new) : Emitted(new[i])
  BY <1>4, <1>7, <1>8 DEF Open
<1>10. Consecutive(l, new) /\ (AllCode => pc + 4 = l + 4 * Len(new))
  <2> SUFFICES ASSUME AllCode
               PROVE  /\ \A i \in 1 .. Len(new) : At(new[i]) = l + 4 * (i - 1)
                      /\ pc + 4 = l + 4 * Len(new)
    BY DEF Consecutive
  <2>1. pc = l + 4 * Len(block) /\ \A i \in 1 .. Len(block) : At(block[i]) = l + 4 * (i - 1)
    BY DEF Open, Consecutive
  <2>2. \A i \in 1 .. Len(block) : At(new[i]) = l + 4 * (i - 1)
    BY <1>4, <2>1
  <2>3. At(new[Len(block) + 1]) = l + 4 * ((Len(block) + 1) - 1)
    BY <1>4, <1>7, <2>1
  <2> QED
    BY <1>4, <1>8, <2>1, <2>2, <2>3
<1> QED
  BY <1>2, <1>5, <1>6, <1>9, <1>10 DEF Open, new

(* Nothing is emitted for data, and a binary with data is not all code. *)
LEMMA DataSkipped ==
  ASSUME Loaded, NEW block \in Seq(Item), NEW l \in Nat, NEW pc \in Addresses, l <= pc,
         Open(block, l, pc), getOpcode(InsAt(pc)) \notin OPCODES
  PROVE  Open(block, l, pc + 4)
<1>1. pc \in Nat /\ \A a \in Addresses : a \in Nat /\ a % 4 = 0
  BY AddressesAreWords
<1>2. ~IsCode(pc) /\ ~AllCode
  BY DEF IsCode, AllCode, ALU_OPCODES, OPCODES, SI_OPCODES
<1>3. CodeIn(l, pc + 4) = CodeIn(l, pc)
  <2>1. \A b \in Addresses : b < pc + 4 <=> b < pc \/ b = pc
    BY <1>1
  <2> QED
    BY <1>1, <1>2, <2>1 DEF CodeIn
<1> QED
  BY <1>2, <1>3 DEF Open, Consecutive

(* A terminator finishes a block. *)
LEMMA BlockCloses ==
  ASSUME NEW block \in Seq(Item), NEW l, NEW end, NEW t \in Item,
         Open(block, l, end), IsTerminator(t), Emitted(t), At(t) = end,
         Block(l) = CodeIn(l, end) \cup { t }
  PROVE  Closed(Append(block, t), l)
<1> DEFINE new == Append(block, t)
<1>1. /\ new \in Seq(Item) /\ new # << >>
      /\ Len(block) \in Nat /\ Len(new) = Len(block) + 1
      /\ new[Len(block) + 1] = t
      /\ \A i \in 1 .. Len(block) : new[i] = block[i]
      /\ Items(new) = Items(block) \cup { t }
  BY AppendItem
<1>2. \A y \in Items(block) : ~IsTerminator(y)
  BY DEF Open, CodeIn, Code, Terminator, IsTerminator
<1>3. InOrder(new)
  BY <1>2, AppendInOrder DEF Open
<1> HIDE DEF new
<1>4. Items(new) = Block(l)
  BY <1>1 DEF Open
<1>5. \A i \in 1 .. Len(new) : i \in 1 .. Len(block) \/ i = Len(block) + 1
  BY <1>1
<1>6. \A i \in 1 .. Len(new) : Emitted(new[i])
  BY <1>1, <1>5 DEF Open
<1>7. Consecutive(l, new)
  <2> SUFFICES ASSUME AllCode
               PROVE  \A i \in 1 .. Len(new) : At(new[i]) = l + 4 * (i - 1)
    BY DEF Consecutive
  <2>1. end = l + 4 * Len(block) /\ \A i \in 1 .. Len(block) : At(block[i]) = l + 4 * (i - 1)
    BY DEF Open, Consecutive
  <2>2. \A i \in 1 .. Len(block) : At(new[i]) = l + 4 * (i - 1)
    BY <1>1, <2>1
  <2>3. (Len(block) + 1) - 1 = Len(block)
    BY <1>1
  <2> QED
    BY <1>1, <1>5, <2>1, <2>2, <2>3
<1> QED
  BY <1>1, <1>3, <1>4, <1>6, <1>7 DEF Closed, new

-----------------------------------------------------------------------------
(* The blocks of the textbook definition *)

(* Transfers are not code, and a branch is not a jump. *)
LEMMA KindsOfInstructions ==
  ASSUME NEW a
  PROVE  /\ isBranch(InsAt(a)) => ~isJump(InsAt(a)) /\ ~IsCode(a)
         /\ isJump(InsAt(a)) => ~IsCode(a)
         /\ getOpcode(InsAt(a)) \notin OPCODES => ~isBranch(InsAt(a)) /\ ~isJump(InsAt(a))
         /\ getOpcode(InsAt(a)) \in HANDLED \ (BRANCHES \cup { OPCODE.JALR })
              => IsCode(a) /\ ~isBranch(InsAt(a)) /\ ~isJump(InsAt(a))
BY DEF isBranch, isJump, IsCode, HANDLED, ALU_OPCODES, BRANCHES, OPCODES, R_OPCODES,
       SI_OPCODES, UI_OPCODES, OPCODE

(* The instructions of a block run from its leader to the instruction      *)
(* before the next one. *)
LEMMA SpanUpTo ==
  ASSUME Loaded, ~Gathers,
         NEW l \in Nat, NEW pc \in Addresses, l % 4 = 0, l <= pc,
         \A m \in Leaders : ~(l < m /\ m <= pc),
         pc + 4 \in Leaders \/ pc + 4 = BinarySize
  PROVE  /\ Span(l) # {}
         /\ (CHOOSE a \in Span(l) : a + 4 \notin Span(l)) = pc
         /\ { Code(a) : a \in { b \in Span(l) : IsCode(b) } } = CodeIn(l, pc + 4)
<1>1. /\ \A a \in Addresses : a \in Nat /\ a % 4 = 0 /\ a + 4 <= BinarySize
      /\ BinarySize \in Nat
  BY AddressesAreWords
<1>2. \A m \in Leaders : m \in Nat
  BY ArrivalsAreLeaders, ArrivalsAreAligned
<1>3. \A a \in Addresses : l <= a /\ a <= pc => a \in Span(l)
  <2> SUFFICES ASSUME NEW a \in Addresses, l <= a, a <= pc, NEW m \in Leaders, m \in l + 1 .. a
               PROVE  FALSE
    BY DEF Span
  <2> QED
    BY <1>1, <1>2
<1>4. \A a \in Span(l) : a \in Addresses /\ l <= a /\ a <= pc
  <2> SUFFICES ASSUME NEW a \in Span(l), ~(a <= pc)
               PROVE  FALSE
    BY DEF Span
  <2>1. a \in Addresses /\ l <= a /\ Leaders \cap (l + 1 .. a) = {}
    BY DEF Span
  <2>2. pc + 4 <= a
    BY <1>1, <2>1
  <2>3. pc + 4 \in l + 1 .. a
    BY <1>1, <2>1, <2>2
  <2> QED
    BY <1>1, <2>1, <2>2, <2>3
<1>5. pc \in Span(l) /\ pc + 4 \notin Span(l)
  BY <1>1, <1>3, <1>4
<1>6. ASSUME NEW a \in Span(l), a + 4 \notin Span(l)
      PROVE  a = pc
  <2> SUFFICES ASSUME a < pc
               PROVE  FALSE
    BY <1>1, <1>4
  <2>1. a + 4 <= pc /\ (a + 4) % 4 = 0 /\ a + 4 < BinarySize /\ l <= a + 4 /\ a + 4 \in Nat
    BY <1>1, <1>4
  <2>2. a + 4 \in Addresses
    BY <1>1, <2>1 DEF Addresses
  <2> QED
    BY <1>3, <1>6, <2>1, <2>2
<1>7. (CHOOSE a \in Span(l) : a + 4 \notin Span(l)) = pc
  BY <1>5, <1>6
<1>8. { b \in Span(l) : IsCode(b) } = { b \in Addresses : l <= b /\ b < pc + 4 /\ IsCode(b) }
  <2>1. \A b \in Addresses : b < pc + 4 <=> b <= pc
    BY <1>1
  <2> QED
    BY <1>3, <1>4, <2>1
<1> QED
  BY <1>5, <1>7, <1>8 DEF CodeIn

(* A block that ends in a transfer. *)
LEMMA BlockOfTransfer ==
  ASSUME Loaded, ~Gathers,
         NEW l \in Nat, NEW pc \in Transfers, l % 4 = 0, l <= pc,
         \A m \in Leaders : ~(l < m /\ m <= pc)
  PROVE  Block(l) = CodeIn(l, pc)
                      \cup { IF isJump(InsAt(pc))
                               THEN Terminator("br", pc, Dest(pc), 0)
                               ELSE Terminator("condbr", pc, Dest(pc), pc + 4) }
<1>1. pc \in Addresses /\ pc + 4 \in Leaders
  BY DEF Transfers, Leaders
<1>2. /\ Span(l) # {}
      /\ (CHOOSE a \in Span(l) : a + 4 \notin Span(l)) = pc
      /\ { Code(a) : a \in { b \in Span(l) : IsCode(b) } } = CodeIn(l, pc + 4)
  BY <1>1, SpanUpTo
<1>3. isJump(InsAt(pc)) \/ (isBranch(InsAt(pc)) /\ ~isJump(InsAt(pc)))
  BY KindsOfInstructions DEF Transfers
<1>4. CodeIn(l, pc + 4) = CodeIn(l, pc)
  <2>1. \A b \in Addresses : b < pc + 4 <=> b < pc \/ b = pc
    BY <1>1, AddressesAreWords
  <2>2. ~IsCode(pc)
    BY <1>3, KindsOfInstructions
  <2> QED
    BY <2>1, <2>2 DEF CodeIn
<1>5. BlockEnd(l) = { IF isJump(InsAt(pc)) THEN Terminator("br", pc, Dest(pc), 0)
                                          ELSE Terminator("condbr", pc, Dest(pc), pc + 4) }
  BY <1>2, <1>3, KindsOfInstructions DEF BlockEnd
<1> QED
  BY <1>2, <1>4, <1>5 DEF Block

(* A block that falls into the next one. *)
LEMMA BlockThatFalls ==
  ASSUME Loaded, ~Gathers,
         NEW l \in Nat, NEW pc \in Addresses, l % 4 = 0, l <= pc,
         \A m \in Leaders : ~(l < m /\ m <= pc),
         pc + 4 \in Leaders, pc \notin Transfers
  PROVE  Block(l) = CodeIn(l, pc + 4) \cup { Terminator("br", pc, pc + 4, 0) }
<1>1. /\ Span(l) # {}
      /\ (CHOOSE a \in Span(l) : a + 4 \notin Span(l)) = pc
      /\ { Code(a) : a \in { b \in Span(l) : IsCode(b) } } = CodeIn(l, pc + 4)
  BY SpanUpTo
<1>2. ~isJump(InsAt(pc)) /\ ~isBranch(InsAt(pc))
  BY DEF Transfers
<1>3. BlockEnd(l) = { Terminator("br", pc, pc + 4, 0) }
  BY <1>1, <1>2 DEF BlockEnd
<1> QED
  BY <1>1, <1>3 DEF Block

(* The block the binary ends in: the last of its leaders. *)
LEMMA BlockAtTheEnd ==
  ASSUME Loaded, ~Gathers,
         NEW l \in 0 .. BinarySize, l % 4 = 0,
         \A m \in Leaders : ~(l < m /\ m <= BinarySize)
  PROVE  Block(l) = CodeIn(l, BinarySize) \cup { Terminator("ret", BinarySize, 0, 0) }
<1> DEFINE pc == BinarySize - 4
<1>1. BinarySize \in Nat /\ BinarySize % 4 = 0 /\ l \in Nat
  BY AddressesAreWords
<1>2. \A a \in Addresses : a \in Nat /\ a < BinarySize
  BY AddressesAreWords
<1>3. CASE l = BinarySize
  <2>1. Span(l) = {} /\ CodeIn(l, BinarySize) = {}
    BY <1>1, <1>2, <1>3 DEF Span, CodeIn
  <2>2. BlockEnd(l) = { Terminator("ret", BinarySize, 0, 0) }
    BY <1>3, <2>1 DEF BlockEnd
  <2> QED
    BY <2>1, <2>2 DEF Block
<1>4. CASE l < BinarySize
  <2>1. pc \in Nat /\ pc % 4 = 0 /\ l <= pc /\ pc + 4 = BinarySize /\ pc < BinarySize
    BY <1>1, <1>4
  <2>2. pc \in Addresses
    BY <1>1, <2>1 DEF Addresses
  <2>3. BinarySize \notin Leaders
    BY <1>1, <1>4
  <2>4. \A m \in Leaders : ~(l < m /\ m <= pc)
    BY <1>1, <2>1, ArrivalsAreLeaders, ArrivalsAreAligned
  <2>5. ~isJump(InsAt(pc)) /\ ~isBranch(InsAt(pc))
    BY <2>1, <2>2, <2>3 DEF Transfers, Leaders
  <2> HIDE DEF pc
  <2>6. /\ Span(l) # {}
        /\ (CHOOSE a \in Span(l) : a + 4 \notin Span(l)) = pc
        /\ { Code(a) : a \in { b \in Span(l) : IsCode(b) } } = CodeIn(l, BinarySize)
    BY <1>1, <2>1, <2>2, <2>4, SpanUpTo
  <2>7. BlockEnd(l) = { Terminator("ret", BinarySize, 0, 0) }
    BY <2>1, <2>3, <2>5, <2>6 DEF BlockEnd
  <2> QED
    BY <2>6, <2>7 DEF Block
<1> QED
  BY <1>1, <1>3, <1>4

(* A target outside the binary has a block that nothing fills. *)
LEMMA BlockOutside ==
  ASSUME Loaded, NEW l \in Nat, l > BinarySize
  PROVE  Block(l) = {} /\ Closed(<< >>, l)
<1>1. Span(l) = {}
  BY AddressesAreWords DEF Span
<1>2. Block(l) = {}
  BY <1>1, AddressesAreWords DEF Block, BlockEnd
<1>3. Len(<< >>) = 0 /\ Items(<< >>) = {}
  BY EmptySeq DEF Items
<1>4. InOrder(<< >>) /\ Consecutive(l, << >>) /\ \A i \in 1 .. Len(<< >>) : Emitted(<< >>[i])
  BY <1>3 DEF InOrder, Consecutive
<1> QED
  BY <1>2, <1>3, <1>4, AddressesAreWords DEF Closed

-----------------------------------------------------------------------------
(* Everything said of the binary stays true of it *)

(* The operators that read only the binary keep their values. *)
LEMMA SameBinary ==
  ASSUME Instrs' = Instrs
  PROVE  /\ BinarySize' = BinarySize /\ Addresses' = Addresses
         /\ Transfers' = Transfers /\ Leaders' = Leaders /\ AllCode' = AllCode
         /\ \A a : InsAt(a)' = InsAt(a) /\ Dest(a)' = Dest(a)
         /\ \A b, l : Closed(b, l)' <=> Closed(b, l)
         /\ \A b, l, end : Open(b, l, end)' <=> Open(b, l, end)
<1>1. BinarySize' = BinarySize
  BY DEF BinarySize
<1>2. Addresses' = Addresses
  BY <1>1 DEF Addresses
<1>3. ASSUME NEW a
      PROVE  InsAt(a)' = InsAt(a) /\ Dest(a)' = Dest(a) /\ IsCode(a)' = IsCode(a)
  BY DEF InsAt, Dest, IsCode
<1>4. Transfers' = Transfers
  BY <1>2, <1>3 DEF Transfers
<1>5. Leaders' = Leaders
  BY <1>3, <1>4 DEF Leaders
<1>6. AllCode' = AllCode
  BY <1>2, <1>3 DEF AllCode
<1>7. ASSUME NEW l
      PROVE  Block(l)' = Block(l)
  <2>1. Span(l)' = Span(l)
    BY <1>2, <1>5 DEF Span
  <2>2. BlockEnd(l)' = BlockEnd(l)
    <3> DEFINE last == CHOOSE a \in Span(l) : a + 4 \notin Span(l)
    <3>1. last' = last
      BY <2>1
    <3> HIDE DEF last
    <3> QED
      BY <1>1, <1>3, <1>5, <2>1, <3>1 DEF BlockEnd, last
  <2>3. { b \in Span(l) : IsCode(b) }' = { b \in Span(l) : IsCode(b) }
    BY <1>3, <2>1
  <2> QED
    BY <2>2, <2>3 DEF Block
<1>8. ASSUME NEW item
      PROVE  At(item)' = At(item) /\ Emitted(item)' = Emitted(item)
  BY <1>1, <1>2, <1>3, <1>5 DEF At, Emitted
<1>9. ASSUME NEW b, NEW l
      PROVE  Consecutive(l, b)' = Consecutive(l, b)
  BY <1>6, <1>8 DEF Consecutive
<1>10. ASSUME NEW b, NEW l
       PROVE  Closed(b, l)' <=> Closed(b, l)
  BY <1>1, <1>7, <1>8, <1>9 DEF Closed
<1>11. ASSUME NEW b, NEW l, NEW end
       PROVE  Open(b, l, end)' <=> Open(b, l, end)
  <2>1. CodeIn(l, end)' = CodeIn(l, end)
    BY <1>2, <1>3 DEF CodeIn
  <2> QED
    BY <1>6, <1>8, <1>9, <2>1 DEF Open
<1> QED
  BY <1>1, <1>2, <1>3, <1>4, <1>5, <1>6, <1>10, <1>11

(* A block nothing has been added to. *)
LEMMA EmptyBlock ==
  ASSUME Loaded, NEW l \in Nat
  PROVE  << >> \in Seq(Item) /\ Len(<< >>) = 0 /\ Open(<< >>, l, l)
<1>1. << >> \in Seq(Item) /\ Len(<< >>) = 0
  BY EmptySeq
<1>2. Items(<< >>) = {}
  BY <1>1 DEF Items
<1>3. CodeIn(l, l) = {}
  BY AddressesAreWords DEF CodeIn
<1> QED
  BY <1>1, <1>2, <1>3 DEF Open, InOrder, Consecutive

-----------------------------------------------------------------------------
(* The two loops keep the invariant of the code *)

(* simulate starts with the entry block and nothing in it. *)
LEMMA InitCode == Init => Loaded /\ Filled
<1> SUFFICES ASSUME Init
             PROVE  Loaded /\ Filled
  OBVIOUS
<1>1. Len(Instrs) \in Nat
  BY LlvmSimAssumption DEF Init
<1>2. BinarySize \in Nat
  BY <1>1 DEF BinarySize
<1>3. Found = {}
  BY <1>2 DEF Init, Found, Transfers, Addresses, Gathers
<1>4. << >> \in Seq(Item)
  BY EmptySeq
<1> QED
  BY <1>2, <1>3, <1>4, Widths DEF Init, Loaded, Filled, IsArrival, Gathers, Emits

(* The first loop gives a block to every place the instruction may go to. *)
LEMMA GatherCode ==
  ASSUME Loaded, Filled, Gather
  PROVE  Loaded' /\ Filled'
<1> DEFINE old == DOMAIN BBJumpDest
           arrivals == IF isBranch(Gathered) \/ isJump(Gathered)
                         THEN { Dest(InstrPC), InstrPC + 4 } ELSE {}
<1>1. /\ status = "gather" /\ InstrPC < BinarySize /\ Translatable(InsAt(InstrPC))
      /\ InstrPC' = InstrPC + 4 /\ Instrs' = Instrs /\ status' = status
      /\ InsertPoint' = InsertPoint
      /\ BBJumpDest' = [ a \in old \cup arrivals |->
                           IF a \in old THEN BBJumpDest[a] ELSE << >> ]
  BY DEF Gather, Gathering, Gathered
<1>2. /\ InstrPC \in Addresses /\ InstrPC + 4 \in 0 .. BinarySize
      /\ (InstrPC + 4) % 4 = 0 /\ InstrPC \in Nat /\ InstrPC % 4 = 0
  BY <1>1, AtAnInstruction, AddressesAreWords
<1>3. /\ BinarySize' = BinarySize /\ Transfers' = Transfers
      /\ \A a : InsAt(a)' = InsAt(a) /\ Dest(a)' = Dest(a)
  BY <1>1, SameBinary
<1>4. InstrPC \in Transfers <=> isBranch(Gathered) \/ isJump(Gathered)
  BY <1>2 DEF Transfers, Gathered
<1>5. Found' = IF InstrPC \in Transfers THEN Found \cup { InstrPC } ELSE Found
  <2>1. \A t \in Transfers : t \in Nat /\ t % 4 = 0
    BY AddressesAreWords DEF Transfers
  <2>2. \A t \in Transfers : t < InstrPC + 4 <=> t < InstrPC \/ t = InstrPC
    BY <1>2, <2>1
  <2>3. \A t : t \in Found' <=> t \in Transfers /\ (t < InstrPC \/ t = InstrPC)
    BY <1>1, <1>3, <2>2 DEF Found, Gathers
  <2>4. \A t : t \in Found <=> t \in Transfers /\ t < InstrPC
    BY <1>1 DEF Found, Gathers
  <2> QED
    BY <2>3, <2>4
<1>6. \A a \in arrivals : a \in Word
  BY <1>2, AddressesAreWords
<1>7. DOMAIN BBJumpDest' = old \cup arrivals
  BY <1>1
<1>8. \A a \in old : BBJumpDest[a] = << >>
  BY <1>1 DEF Filled, Gathers
<1>9. << >> \in Seq(Item)
  BY EmptySeq
<1>10. BBJumpDest' = [ a \in DOMAIN BBJumpDest' |-> << >> ]
  BY <1>1, <1>7, <1>8
<1>11. BBJumpDest' \in [ DOMAIN BBJumpDest' -> Seq(Item) ]
  BY <1>9, <1>10
<1>12. \A a \in DOMAIN BBJumpDest' : a \in Word /\ IsArrival(a)'
  <2>1. ASSUME NEW a \in old
        PROVE  a \in Word /\ IsArrival(a)'
    <3>1. a \in Word /\ IsArrival(a)
      BY DEF Loaded
    <3> QED
      BY <1>3, <1>5, <3>1 DEF IsArrival
  <2>2. ASSUME NEW a \in arrivals
        PROVE  IsArrival(a)'
    <3>1. InstrPC \in Transfers /\ (a = Dest(InstrPC) \/ a = InstrPC + 4)
      BY <1>4
    <3>2. PICK t : t = InstrPC /\ t \in Found'
      BY <1>5, <3>1
    <3> QED
      BY <1>3, <3>1, <3>2 DEF IsArrival
  <2> QED
    BY <1>6, <1>7, <2>1, <2>2
<1>13. /\ 0 \in DOMAIN BBJumpDest' /\ InsertPoint' \in DOMAIN BBJumpDest'
       /\ \A t \in Found' : Dest(t)' \in DOMAIN BBJumpDest' /\ t + 4 \in DOMAIN BBJumpDest'
  BY <1>1, <1>3, <1>4, <1>5, <1>7 DEF Loaded
<1>14. \A t \in Found' : Translatable(InsAt(t))'
  BY <1>1, <1>3, <1>5 DEF Loaded
<1> HIDE DEF old, arrivals
<1>15. Loaded'
  BY <1>1, <1>2, <1>3, <1>11, <1>12, <1>13, <1>14 DEF Loaded
<1>16. Filled'
  BY <1>1, <1>10 DEF Filled, Gathers, Emits
<1> QED
  BY <1>15, <1>16

(* The second loop starts in the entry block. *)
LEMMA GatherEndsCode ==
  ASSUME Loaded, Filled, GatherEnds
  PROVE  Loaded' /\ Filled'
<1>1. /\ status = "gather" /\ InstrPC = BinarySize /\ InstrPC' = 0 /\ status' = "emit"
      /\ Instrs' = Instrs /\ BBJumpDest' = BBJumpDest /\ InsertPoint' = InsertPoint
      /\ BinarySize \in Nat
  BY AddressesAreWords DEF GatherEnds, Loaded
<1>2. /\ BinarySize' = BinarySize /\ Transfers' = Transfers
      /\ \A a : InsAt(a)' = InsAt(a) /\ Dest(a)' = Dest(a)
      /\ \A b, l, end : Open(b, l, end)' <=> Open(b, l, end)
  BY <1>1, SameBinary
<1>3. \A t \in Transfers : t \in Nat /\ t < BinarySize
  BY AddressesAreWords DEF Transfers
<1>4. Found' = Found
  BY <1>1, <1>2, <1>3 DEF Found, Gathers
<1>5. Loaded'
  BY <1>1, <1>2, <1>4 DEF Loaded, IsArrival
<1>6. InsertPoint = 0 /\ \A l \in DOMAIN BBJumpDest : BBJumpDest[l] = << >>
  BY <1>1 DEF Filled, Gathers
<1>7. Open(BBJumpDest[InsertPoint], InsertPoint, 0)
  BY <1>6, EmptyBlock DEF Loaded
<1>8. Filled'
  BY <1>1, <1>2, <1>3, <1>6, <1>7, ArrivalsAreAligned DEF Filled, Gathers, Emits
<1> QED
  BY <1>5, <1>8

(* Adding to a block keeps what the first loop established. *)
LEMMA EmissionKeepsLoaded ==
  ASSUME Loaded, ~Gathers, ~Gathers', Instrs' = Instrs,
         NEW block \in Seq(Item),
         BBJumpDest' = [ BBJumpDest EXCEPT ![InsertPoint] = block ],
         InsertPoint' \in DOMAIN BBJumpDest,
         InstrPC' \in 0 .. BinarySize, InstrPC' % 4 = 0
  PROVE  /\ Loaded'
         /\ DOMAIN BBJumpDest' = DOMAIN BBJumpDest
         /\ BBJumpDest'[InsertPoint] = block
         /\ \A l \in DOMAIN BBJumpDest : l # InsertPoint => BBJumpDest'[l] = BBJumpDest[l]
<1>1. /\ BinarySize' = BinarySize /\ Transfers' = Transfers
      /\ \A a : InsAt(a)' = InsAt(a) /\ Dest(a)' = Dest(a)
  BY SameBinary
<1>2. Found' = Found
  BY <1>1 DEF Found
<1>3. /\ BBJumpDest' \in [ DOMAIN BBJumpDest -> Seq(Item) ]
      /\ BBJumpDest'[InsertPoint] = block
      /\ \A l \in DOMAIN BBJumpDest : l # InsertPoint => BBJumpDest'[l] = BBJumpDest[l]
  BY DEF Loaded
<1>4. DOMAIN BBJumpDest' = DOMAIN BBJumpDest
  BY <1>3
<1> QED
  BY <1>1, <1>2, <1>3, <1>4 DEF Loaded, IsArrival

(* Code that stays in its block: the next instruction is no leader. *)
LEMMA StayingKeepsCode ==
  ASSUME Loaded, Filled, status = "emit", InstrPC < BinarySize,
         InstrPC + 4 \notin DOMAIN BBJumpDest, InstrPC \notin Transfers,
         NEW block \in Seq(Item), Open(block, InsertPoint, InstrPC + 4),
         BBJumpDest' = [ BBJumpDest EXCEPT ![InsertPoint] = block ],
         InsertPoint' = InsertPoint, InstrPC' = InstrPC + 4,
         Instrs' = Instrs, status' = status
  PROVE  Loaded' /\ Filled'
<1>1. /\ InstrPC \in Addresses /\ InstrPC + 4 \in 0 .. BinarySize
      /\ (InstrPC + 4) % 4 = 0 /\ InstrPC \in Nat /\ InstrPC % 4 = 0
  BY AtAnInstruction, AddressesAreWords
<1>2. /\ Transfers' = Transfers
      /\ \A a : Dest(a)' = Dest(a)
      /\ \A b, l : Closed(b, l)' <=> Closed(b, l)
      /\ \A b, l, end : Open(b, l, end)' <=> Open(b, l, end)
  BY SameBinary
<1>3. ~Gathers /\ Emits /\ ~Gathers' /\ Emits'
  BY DEF Gathers, Emits
<1>4. /\ Loaded'
      /\ DOMAIN BBJumpDest' = DOMAIN BBJumpDest
      /\ BBJumpDest'[InsertPoint] = block
      /\ \A l \in DOMAIN BBJumpDest : l # InsertPoint => BBJumpDest'[l] = BBJumpDest[l]
  BY <1>1, <1>3, EmissionKeepsLoaded DEF Loaded
<1>5. /\ InsertPoint <= InstrPC /\ InsertPoint % 4 = 0
      /\ \A l \in DOMAIN BBJumpDest : /\ l < InsertPoint => Closed(BBJumpDest[l], l)
                                      /\ l > InstrPC => BBJumpDest[l] = << >>
                                      /\ ~(InsertPoint < l /\ l <= InstrPC)
      /\ Open(BBJumpDest[InsertPoint], InsertPoint, InstrPC)
      /\ \A t \in Transfers : t < InstrPC => Sent(t)
  BY <1>3 DEF Filled
<1>6. /\ InsertPoint \in DOMAIN BBJumpDest
      /\ \A l \in DOMAIN BBJumpDest : l \in Nat /\ l % 4 = 0
  BY ArrivalsAreAligned DEF Loaded
<1>7. InsertPoint' <= InstrPC' /\ InsertPoint' % 4 = 0
  BY <1>1, <1>5, <1>6
<1>8. ASSUME NEW l \in DOMAIN BBJumpDest
      PROVE  /\ l < InsertPoint' => Closed(BBJumpDest'[l], l)
             /\ l > InstrPC' => BBJumpDest'[l] = << >>
             /\ ~(InsertPoint' < l /\ l <= InstrPC')
  <2>1. l < InsertPoint => l # InsertPoint
    BY <1>6
  <2>2. l > InstrPC' => l > InstrPC /\ l # InsertPoint
    BY <1>1, <1>5, <1>6
  <2>3. l <= InstrPC' => l <= InstrPC
    <3>1. l \in Nat /\ l % 4 = 0 /\ l # InstrPC + 4
      BY <1>6
    <3>2. l < InstrPC + 4 => l <= InstrPC
      BY <1>1, <3>1, NoneBetween
    <3> QED
      BY <1>1, <3>1, <3>2
  <2> QED
    BY <1>4, <1>5, <2>1, <2>2, <2>3
<1>9. ASSUME NEW t \in Transfers, t < InstrPC'
      PROVE  Sent(t)'
  <2>1. t \in Nat /\ t % 4 = 0
    BY AddressesAreWords DEF Transfers
  <2>2. Sent(t)
    BY <1>1, <1>5, <1>9, <2>1
  <2>3. PICK l \in DOMAIN BBJumpDest : \E i \in 1 .. Len(BBJumpDest[l]) :
           BBJumpDest[l][i].kind \in { "br", "condbr" } /\ BBJumpDest[l][i].to = Dest(t)
    BY <2>2 DEF Sent
  <2>4. l # InsertPoint
    <3>1. \A y \in Items(BBJumpDest[InsertPoint]) : y.kind = "ins"
      BY <1>5 DEF Open, CodeIn, Code, Terminator
    <3> QED
      BY <2>3, <3>1 DEF Items
  <2>5. l \in DOMAIN BBJumpDest' /\ BBJumpDest'[l] = BBJumpDest[l] /\ Dest(t)' = Dest(t)
    BY <1>2, <1>4, <2>4
  <2> QED
    BY <2>3, <2>5 DEF Sent
<1>10. Open(BBJumpDest'[InsertPoint'], InsertPoint', InstrPC')
  BY <1>4
<1>11. Filled'
  BY <1>2, <1>3, <1>4, <1>7, <1>8, <1>9, <1>10 DEF Filled
<1> QED
  BY <1>4, <1>11

(* Code that finishes its block and moves on to the next one. *)
LEMMA MovingKeepsCode ==
  ASSUME Loaded, Filled, status = "emit", InstrPC < BinarySize,
         InstrPC + 4 \in DOMAIN BBJumpDest,
         NEW block \in Seq(Item), Closed(block, InsertPoint),
         InstrPC \in Transfers =>
           \E i \in 1 .. Len(block) :
             block[i].kind \in { "br", "condbr" } /\ block[i].to = Dest(InstrPC),
         BBJumpDest' = [ BBJumpDest EXCEPT ![InsertPoint] = block ],
         InsertPoint' = InstrPC + 4, InstrPC' = InstrPC + 4,
         Instrs' = Instrs, status' = status
  PROVE  Loaded' /\ Filled'
<1>1. /\ InstrPC \in Addresses /\ InstrPC + 4 \in 0 .. BinarySize
      /\ (InstrPC + 4) % 4 = 0 /\ InstrPC \in Nat /\ InstrPC % 4 = 0
  BY AtAnInstruction, AddressesAreWords
<1>2. /\ Transfers' = Transfers
      /\ \A a : Dest(a)' = Dest(a)
      /\ \A b, l : Closed(b, l)' <=> Closed(b, l)
      /\ \A b, l, end : Open(b, l, end)' <=> Open(b, l, end)
  BY SameBinary
<1>3. ~Gathers /\ Emits /\ ~Gathers' /\ Emits'
  BY DEF Gathers, Emits
<1>4. /\ Loaded'
      /\ DOMAIN BBJumpDest' = DOMAIN BBJumpDest
      /\ BBJumpDest'[InsertPoint] = block
      /\ \A l \in DOMAIN BBJumpDest : l # InsertPoint => BBJumpDest'[l] = BBJumpDest[l]
  BY <1>1, <1>3, EmissionKeepsLoaded DEF Loaded
<1>5. /\ InsertPoint <= InstrPC
      /\ \A l \in DOMAIN BBJumpDest : /\ l < InsertPoint => Closed(BBJumpDest[l], l)
                                      /\ l > InstrPC => BBJumpDest[l] = << >>
                                      /\ ~(InsertPoint < l /\ l <= InstrPC)
      /\ Open(BBJumpDest[InsertPoint], InsertPoint, InstrPC)
      /\ \A t \in Transfers : t < InstrPC => Sent(t)
  BY <1>3 DEF Filled
<1>6. /\ InsertPoint \in DOMAIN BBJumpDest
      /\ \A l \in DOMAIN BBJumpDest : l \in Nat /\ l % 4 = 0
  BY ArrivalsAreAligned DEF Loaded
<1>7. InsertPoint' <= InstrPC' /\ InsertPoint' % 4 = 0
  BY <1>1
<1>8. ASSUME NEW l \in DOMAIN BBJumpDest
      PROVE  /\ l < InsertPoint' => Closed(BBJumpDest'[l], l)
             /\ l > InstrPC' => BBJumpDest'[l] = << >>
             /\ ~(InsertPoint' < l /\ l <= InstrPC')
  <2>1. CASE l < InsertPoint'
    <3>1. l <= InstrPC
      BY <1>1, <1>6, <2>1, NoneBetween
    <3>2. l < InsertPoint \/ l = InsertPoint
      BY <1>5, <1>6, <3>1
    <3> QED
      BY <1>1, <1>4, <1>5, <1>6, <2>1, <3>2
  <2>2. CASE ~(l < InsertPoint')
    <3>1. l > InstrPC /\ l # InsertPoint
      BY <1>1, <1>5, <1>6, <2>2
    <3> QED
      BY <1>1, <1>4, <1>5, <1>6, <2>2, <3>1
  <2> QED
    BY <2>1, <2>2
<1>9. ASSUME NEW t \in Transfers, t < InstrPC'
      PROVE  Sent(t)'
  <2>1. t \in Nat /\ t % 4 = 0
    BY AddressesAreWords DEF Transfers
  <2>2. CASE t = InstrPC
    <3>1. InsertPoint \in DOMAIN BBJumpDest' /\ BBJumpDest'[InsertPoint] = block
      BY <1>4, <1>6
    <3>2. PICK i \in 1 .. Len(block) :
             block[i].kind \in { "br", "condbr" } /\ block[i].to = Dest(t)
      BY <2>2
    <3> QED
      BY <1>2, <3>1, <3>2 DEF Sent
  <2>3. CASE t # InstrPC
    <3>1. Sent(t)
      BY <1>1, <1>5, <1>9, <2>1, <2>3
    <3>2. PICK l \in DOMAIN BBJumpDest : \E i \in 1 .. Len(BBJumpDest[l]) :
             BBJumpDest[l][i].kind \in { "br", "condbr" } /\ BBJumpDest[l][i].to = Dest(t)
      BY <3>1 DEF Sent
    <3>3. l # InsertPoint
      <4>1. \A y \in Items(BBJumpDest[InsertPoint]) : y.kind = "ins"
        BY <1>5 DEF Open, CodeIn, Code, Terminator
      <4> QED
        BY <3>2, <4>1 DEF Items
    <3>4. l \in DOMAIN BBJumpDest' /\ BBJumpDest'[l] = BBJumpDest[l] /\ Dest(t)' = Dest(t)
      BY <1>2, <1>4, <3>3
    <3> QED
      BY <3>2, <3>4 DEF Sent
  <2> QED
    BY <2>2, <2>3
<1>10. Open(BBJumpDest'[InsertPoint'], InsertPoint', InstrPC')
  <2>1. InstrPC + 4 > InstrPC /\ InstrPC + 4 # InsertPoint /\ InstrPC + 4 \in Nat
    BY <1>1, <1>5, <1>6
  <2>2. BBJumpDest'[InstrPC + 4] = << >>
    BY <1>4, <1>5, <2>1
  <2> QED
    BY <2>1, <2>2, EmptyBlock
<1>11. Filled'
  BY <1>2, <1>3, <1>4, <1>7, <1>8, <1>9, <1>10 DEF Filled
<1> QED
  BY <1>4, <1>11

(* Straight code falls into the next block or stays in its own. *)
LEMMA StraightKeepsCode ==
  ASSUME Loaded, Filled, status = "emit", InstrPC < BinarySize, InstrPC \notin Transfers,
         NEW items \in Seq(Item),
         Open(BBJumpDest[InsertPoint] \o items, InsertPoint, InstrPC + 4),
         EmitStraight(items)
  PROVE  Loaded' /\ Filled'
<1> DEFINE old   == BBJumpDest[InsertPoint]
           block == old \o items
           t     == Terminator("br", InstrPC, InstrPC + 4, 0)
<1>1. /\ InstrPC \in Addresses /\ InstrPC + 4 \in Word /\ InstrPC \in Word
      /\ InstrPC % 4 = 0 /\ InstrPC \in Nat
  BY AtAnInstruction, AddressesAreWords
<1>2. ~Gathers /\ Emits
  BY DEF Gathers, Emits
<1>3. old \in Seq(Item) /\ block \in Seq(Item)
  <2>1. old \in Seq(Item)
    BY DEF Loaded
  <2> QED
    BY <2>1, ConcatProperties
<1>4. Instrs' = Instrs /\ status' = status /\ InstrPC' = InstrPC + 4
  BY DEF EmitStraight, Emit
<1>5. CASE InstrPC + 4 \notin DOMAIN BBJumpDest
  <2>1. /\ InsertPoint' = InsertPoint
        /\ BBJumpDest' = [ BBJumpDest EXCEPT ![InsertPoint] = block ]
    BY <1>5 DEF EmitStraight, Emit
  <2> HIDE DEF block
  <2>2. Open(block, InsertPoint, InstrPC + 4)
    BY DEF block
  <2> QED
    BY <1>3, <1>4, <1>5, <2>1, <2>2, StayingKeepsCode
<1>6. CASE InstrPC + 4 \in DOMAIN BBJumpDest
  <2>1. t \in Item /\ IsTerminator(t)
    BY <1>1, Widths DEF Terminator, Item, IsTerminator
  <2>2. Emitted(t) /\ At(t) = InstrPC + 4
    <3>1. ~isJump(InsAt(InstrPC)) /\ InstrPC + 4 \in Leaders
      BY <1>1, <1>2, <1>6, ArrivalsAreLeaders DEF Transfers
    <3> QED
      BY <1>1, <3>1 DEF Emitted, At, Terminator
  <2> HIDE DEF t
  <2>3. old \o (items \o << t >>) = Append(block, t)
    <3>1. << t >> \in Seq(Item)
      BY <2>1
    <3>2. old \o (items \o << t >>) = (old \o items) \o << t >>
      <4>1. old \in Seq(Item)
        BY <1>3
      <4> HIDE DEF old
      <4> QED
        BY <3>1, <4>1, ConcatAssociative
    <3> QED
      BY <1>3, <2>1, <3>2, AppendIsConcat
  <2>4. /\ InsertPoint' = InstrPC + 4
        /\ BBJumpDest' = [ BBJumpDest EXCEPT ![InsertPoint] = old \o (items \o << t >>) ]
    BY <1>6 DEF EmitStraight, Emit, t
  <2> HIDE DEF block
  <2>5. /\ InsertPoint \in DOMAIN BBJumpDest /\ InsertPoint \in Nat /\ InsertPoint % 4 = 0
        /\ InsertPoint <= InstrPC
        /\ InstrPC + 4 \in Leaders
        /\ \A m \in Leaders : ~(InsertPoint < m /\ m <= InstrPC)
    BY <1>2, <1>6, ArrivalsAreAligned, ArrivalsAreLeaders DEF Loaded, Filled
  <2>6. Block(InsertPoint) = CodeIn(InsertPoint, InstrPC + 4) \cup { t }
    BY <1>1, <1>2, <2>5, BlockThatFalls DEF t
  <2>7. Append(block, t) \in Seq(Item)
    BY <1>3, <2>1, AppendItem
  <2>8. Open(block, InsertPoint, InstrPC + 4)
    BY DEF block
  <2>9. Closed(Append(block, t), InsertPoint)
    BY <1>3, <2>1, <2>2, <2>6, <2>8, BlockCloses
  <2> HIDE DEF old
  <2> QED
    BY <1>4, <1>6, <2>3, <2>4, <2>7, <2>9, MovingKeepsCode
<1> QED
  BY <1>5, <1>6

(* Data: nothing is emitted. *)
LEMMA EmitDataCode ==
  ASSUME Loaded, Filled, EmitData
  PROVE  Loaded' /\ Filled'
<1> DEFINE old == BBJumpDest[InsertPoint]
<1>1. /\ status = "emit" /\ InstrPC < BinarySize
      /\ getOpcode(InsAt(InstrPC)) \notin OPCODES
      /\ EmitStraight(<< >>)
  BY DEF EmitData, Emitting
<1>2. InstrPC \in Addresses /\ InstrPC \notin Transfers
  BY <1>1, AtAnInstruction, KindsOfInstructions DEF Transfers
<1>3. /\ Open(old, InsertPoint, InstrPC) /\ InsertPoint <= InstrPC
      /\ old \in Seq(Item) /\ InsertPoint \in Nat
  BY <1>1, ArrivalsAreAligned DEF Filled, Emits, Loaded
<1>4. old \o << >> = old /\ << >> \in Seq(Item)
  BY <1>3, ConcatEmptySeq, EmptySeq
<1> HIDE DEF old
<1>5. Open(old, InsertPoint, InstrPC + 4)
  BY <1>1, <1>2, <1>3, DataSkipped
<1> QED
  BY <1>1, <1>2, <1>4, <1>5, StraightKeepsCode DEF old

(* Arithmetic, loads and stores. *)
LEMMA EmitCodeCode ==
  ASSUME Loaded, Filled, EmitCode
  PROVE  Loaded' /\ Filled'
<1> DEFINE old == BBJumpDest[InsertPoint]
           x   == Code(InstrPC)
<1>1. /\ status = "emit" /\ InstrPC < BinarySize
      /\ getOpcode(InsAt(InstrPC)) \in HANDLED \ (BRANCHES \cup { OPCODE.JALR })
      /\ EmitStraight(<< x >>)
  BY DEF EmitCode, Emitting
<1>2. InstrPC \in Addresses /\ InstrPC \notin Transfers /\ IsCode(InstrPC)
  BY <1>1, AtAnInstruction, KindsOfInstructions DEF Transfers
<1>3. /\ Open(old, InsertPoint, InstrPC) /\ InsertPoint <= InstrPC
      /\ old \in Seq(Item) /\ InsertPoint \in Nat
  BY <1>1, ArrivalsAreAligned DEF Filled, Emits, Loaded
<1>4. x \in Item /\ Open(Append(old, x), InsertPoint, InstrPC + 4)
  BY <1>2, <1>3, CodeGrows
<1> HIDE DEF old, x
<1>5. old \o << x >> = Append(old, x) /\ << x >> \in Seq(Item)
  BY <1>3, <1>4, AppendIsConcat
<1> QED
  BY <1>1, <1>2, <1>4, <1>5, StraightKeepsCode DEF old

(* A branch or a jump ends its block; what follows it has a block.         *)
LEMMA EmitTransferCode ==
  ASSUME Loaded, Filled, EmitBranch \/ EmitJump
  PROVE  Loaded' /\ Filled'
<1> DEFINE old == BBJumpDest[InsertPoint]
           t   == IF isJump(InsAt(InstrPC))
                    THEN Terminator("br", InstrPC, Dest(InstrPC), 0)
                    ELSE Terminator("condbr", InstrPC, Dest(InstrPC), InstrPC + 4)
<1>1. /\ status = "emit" /\ InstrPC < BinarySize
      /\ isBranch(InsAt(InstrPC)) \/ isJump(InsAt(InstrPC))
      /\ Emit(<< t >>, InstrPC + 4)
  <2>1. CASE EmitBranch
    BY <2>1, KindsOfInstructions DEF EmitBranch, Emitting, isBranch
  <2>2. CASE EmitJump
    BY <2>2 DEF EmitJump, Emitting, isJump
  <2> QED
    BY <2>1, <2>2
<1>2. /\ InstrPC \in Addresses /\ InstrPC \in Transfers /\ InstrPC + 4 \in Word
      /\ InstrPC \in Word /\ Dest(InstrPC) \in Word
  BY <1>1, AtAnInstruction, AddressesAreWords DEF Transfers
<1>3. ~Gathers /\ Emits
  BY <1>1 DEF Gathers, Emits
<1>4. t \in Item /\ IsTerminator(t) /\ t.kind \in { "br", "condbr" } /\ t.to = Dest(InstrPC)
  BY <1>2, Widths DEF Terminator, Item, IsTerminator
<1>5. Emitted(t) /\ At(t) = InstrPC
  <2>1. Dest(InstrPC) \in Leaders /\ InstrPC + 4 \in Leaders
    BY <1>2 DEF Leaders
  <2> QED
    BY <1>1, <1>2, <2>1 DEF Emitted, At, Terminator
<1>6. InstrPC + 4 \in DOMAIN BBJumpDest
  BY <1>2, <1>3 DEF Loaded, Found
<1>7. /\ InsertPoint \in DOMAIN BBJumpDest /\ InsertPoint \in Nat /\ InsertPoint % 4 = 0
      /\ InsertPoint <= InstrPC
      /\ \A m \in Leaders : ~(InsertPoint < m /\ m <= InstrPC)
      /\ Open(old, InsertPoint, InstrPC)
      /\ old \in Seq(Item)
  BY <1>3, ArrivalsAreAligned, ArrivalsAreLeaders DEF Loaded, Filled
<1>8. Block(InsertPoint) = CodeIn(InsertPoint, InstrPC) \cup { t }
  BY <1>2, <1>3, <1>7, BlockOfTransfer
<1>9. /\ InsertPoint' = InstrPC + 4 /\ InstrPC' = InstrPC + 4
      /\ Instrs' = Instrs /\ status' = status
      /\ BBJumpDest' = [ BBJumpDest EXCEPT ![InsertPoint] = old \o << t >> ]
  BY <1>1 DEF Emit
<1> HIDE DEF old, t
<1>10. old \o << t >> = Append(old, t)
  BY <1>4, <1>7, AppendIsConcat
<1>11. /\ Append(old, t) \in Seq(Item)
       /\ Append(old, t)[Len(old) + 1] = t
       /\ Len(Append(old, t)) = Len(old) + 1 /\ Len(old) \in Nat
  BY <1>4, <1>7, AppendItem
<1>12. Closed(Append(old, t), InsertPoint)
  BY <1>4, <1>5, <1>7, <1>8, BlockCloses
<1>13. \E i \in 1 .. Len(Append(old, t)) :
          Append(old, t)[i].kind \in { "br", "condbr" } /\ Append(old, t)[i].to = Dest(InstrPC)
  <2>1. Len(old) + 1 \in 1 .. Len(Append(old, t))
    BY <1>11
  <2> QED
    BY <1>4, <1>11, <2>1
<1> QED
  BY <1>1, <1>6, <1>9, <1>10, <1>11, <1>12, <1>13, MovingKeepsCode

(* The return after the last instruction ends the last block. *)
LEMMA EmitReturnCode ==
  ASSUME Loaded, Filled, EmitReturn
  PROVE  Loaded' /\ Filled'
<1> DEFINE old == BBJumpDest[InsertPoint]
           t   == Terminator("ret", InstrPC, 0, 0)
<1>1. /\ status = "emit" /\ InstrPC = BinarySize /\ status' = "built"
      /\ BBJumpDest' = [ BBJumpDest EXCEPT ![InsertPoint] = Append(old, t) ]
      /\ Instrs' = Instrs /\ InsertPoint' = InsertPoint /\ InstrPC' = InstrPC
      /\ BinarySize \in Nat /\ BinarySize \in Word
  BY AddressesAreWords DEF EmitReturn, Loaded
<1>2. ~Gathers /\ Emits /\ ~Gathers' /\ ~Emits'
  BY <1>1 DEF Gathers, Emits
<1>3. t \in Item /\ IsTerminator(t) /\ Emitted(t) /\ At(t) = BinarySize
      /\ t = Terminator("ret", BinarySize, 0, 0)
  BY <1>1, Widths DEF Terminator, Item, IsTerminator, Emitted, At
<1>4. /\ InsertPoint \in DOMAIN BBJumpDest /\ InsertPoint \in Nat /\ InsertPoint % 4 = 0
      /\ InsertPoint <= BinarySize
      /\ \A m \in Leaders : ~(InsertPoint < m /\ m <= BinarySize)
      /\ Open(old, InsertPoint, BinarySize)
      /\ old \in Seq(Item)
      /\ \A l \in DOMAIN BBJumpDest : l \in Nat
      /\ \A l \in DOMAIN BBJumpDest : /\ l < InsertPoint => Closed(BBJumpDest[l], l)
                                      /\ l > BinarySize => BBJumpDest[l] = << >>
                                      /\ ~(InsertPoint < l /\ l <= BinarySize)
      /\ \A u \in Transfers : u < BinarySize => Sent(u)
  BY <1>1, <1>2, ArrivalsAreAligned, ArrivalsAreLeaders DEF Loaded, Filled
<1>5. Block(InsertPoint) = CodeIn(InsertPoint, BinarySize) \cup { t }
  BY <1>1, <1>2, <1>3, <1>4, BlockAtTheEnd
<1> HIDE DEF old, t
<1>6. Append(old, t) \in Seq(Item)
  BY <1>3, <1>4, AppendItem
<1>7. Closed(Append(old, t), InsertPoint)
  BY <1>3, <1>4, <1>5, BlockCloses
<1>8. /\ Transfers' = Transfers
      /\ \A a : Dest(a)' = Dest(a)
      /\ \A b, l : Closed(b, l)' <=> Closed(b, l)
  BY <1>1, SameBinary
<1>9. /\ Loaded'
      /\ DOMAIN BBJumpDest' = DOMAIN BBJumpDest
      /\ BBJumpDest'[InsertPoint] = Append(old, t)
      /\ \A l \in DOMAIN BBJumpDest : l # InsertPoint => BBJumpDest'[l] = BBJumpDest[l]
  BY <1>1, <1>2, <1>4, <1>6, EmissionKeepsLoaded DEF Loaded
<1>10. ASSUME NEW l \in DOMAIN BBJumpDest
       PROVE  Closed(BBJumpDest'[l], l)
  <2>1. l < InsertPoint \/ l = InsertPoint \/ l > BinarySize
    BY <1>1, <1>4
  <2>2. CASE l < InsertPoint
    BY <1>4, <1>9, <2>2
  <2>3. CASE l = InsertPoint
    BY <1>7, <1>9, <2>3
  <2>4. CASE l > BinarySize
    <3>1. l # InsertPoint
      BY <1>1, <1>4, <2>4
    <3> QED
      BY <1>4, <1>9, <2>4, <3>1, BlockOutside
  <2> QED
    BY <2>1, <2>2, <2>3, <2>4
<1>11. ASSUME NEW u \in Transfers
       PROVE  Sent(u)'
  <2>1. u < BinarySize
    BY <1>1, AddressesAreWords DEF Transfers
  <2>2. PICK l \in DOMAIN BBJumpDest : \E i \in 1 .. Len(BBJumpDest[l]) :
           BBJumpDest[l][i].kind \in { "br", "condbr" } /\ BBJumpDest[l][i].to = Dest(u)
    BY <1>4, <2>1 DEF Sent
  <2>3. l # InsertPoint
    <3>1. \A y \in Items(BBJumpDest[InsertPoint]) : y.kind = "ins"
      BY <1>4 DEF old, Open, CodeIn, Code, Terminator
    <3> QED
      BY <2>2, <3>1 DEF Items
  <2>4. l \in DOMAIN BBJumpDest' /\ BBJumpDest'[l] = BBJumpDest[l] /\ Dest(u)' = Dest(u)
    BY <1>8, <1>9, <2>3
  <2> QED
    BY <2>2, <2>4 DEF Sent
<1>12. Filled'
  BY <1>2, <1>8, <1>9, <1>10, <1>11 DEF Filled
<1> QED
  BY <1>9, <1>12

(* Code that is not changed stays as it is. *)
LEMMA SameCode ==
  ASSUME Loaded, Filled, UNCHANGED code, Gathers' = Gathers, Emits' = Emits
  PROVE  Loaded' /\ Filled'
<1>1. /\ Instrs' = Instrs /\ InstrPC' = InstrPC /\ BBJumpDest' = BBJumpDest
      /\ InsertPoint' = InsertPoint
  BY DEF code
<1>2. /\ BinarySize' = BinarySize /\ Transfers' = Transfers
      /\ \A a : InsAt(a)' = InsAt(a) /\ Dest(a)' = Dest(a)
      /\ \A b, l : Closed(b, l)' <=> Closed(b, l)
      /\ \A b, l, end : Open(b, l, end)' <=> Open(b, l, end)
  BY <1>1, SameBinary
<1>3. Found' = Found
  BY <1>1, <1>2 DEF Found
<1>4. Loaded'
  BY <1>1, <1>2, <1>3 DEF Loaded, IsArrival
<1>5. Filled'
  BY <1>1, <1>2 DEF Filled, Sent
<1> QED
  BY <1>4, <1>5

(* Once the function is built nothing writes to it again. *)
LEMMA StepKeepsCode ==
  ASSUME Loaded, Filled, [Next]_vars
  PROVE  Loaded' /\ Filled'
<1>1. CASE UNCHANGED vars \/ Exited
  BY <1>1, SameCode DEF Exited, vars, Gathers, Emits
<1>2. CASE Unsupported \/ Unhandled
  BY <1>2, SameCode DEF Unsupported, Unhandled, Gathering, Emitting, Gathers, Emits
<1>3. CASE Gather \/ GatherEnds
  BY <1>3, GatherCode, GatherEndsCode
<1>4. CASE EmitData \/ EmitCode \/ EmitBranch \/ EmitJump \/ EmitReturn
  BY <1>4, EmitDataCode, EmitCodeCode, EmitTransferCode, EmitReturnCode
<1>5. CASE RunUnchecked \/ Prepare
  BY <1>5, SameCode DEF RunUnchecked, Prepare, Gathers, Emits
<1>6. CASE DivideByZero \/ AccessFails \/ Return
  BY <1>6, SameCode DEF DivideByZero, AccessFails, Return, Executing, Stop, Gathers, Emits
<1>7. CASE ExecAlu \/ handleLoad \/ handleStore \/ CloseWindow
  BY <1>7, SameCode DEF ExecAlu, handleLoad, handleStore, CloseWindow, Executing, Gathers, Emits
<1>8. CASE ExecBranch \/ ExecBr
  BY <1>8, SameCode DEF ExecBranch, ExecBr, Gathers, Emits
<1> QED
  BY <1>1, <1>2, <1>3, <1>4, <1>5, <1>6, <1>7, <1>8 DEF Next, Step

-----------------------------------------------------------------------------
(* The machine *)

(* What is to be executed next, and where control goes from there.         *)
LEMMA Current ==
  ASSUME Loaded, Filled, Running, status = "running"
  PROVE  /\ Cur \in Item /\ Emitted(Cur)
         /\ Cur.kind = "ins" =>
              /\ ip.item + 1 \in 1 .. Len(BBJumpDest[ip.block])
              /\ Cur.addr \in Addresses /\ Ins \in Word /\ IsCode(Cur.addr)
         /\ Cur.kind \in { "br", "condbr" } =>
              /\ Cur.addr \in Addresses /\ Ins \in Word
              /\ Cur.to \in DOMAIN BBJumpDest /\ 1 \in 1 .. Len(BBJumpDest[Cur.to])
         /\ Cur.kind = "condbr" =>
              Cur.else \in DOMAIN BBJumpDest /\ 1 \in 1 .. Len(BBJumpDest[Cur.else])
<1> DEFINE block == BBJumpDest[ip.block]
<1>1. /\ ip.block \in DOMAIN BBJumpDest /\ ip.item \in 1 .. Len(block)
      /\ VerifierAccepts
  BY DEF Running
<1>2. block \in Seq(Item) /\ Cur = block[ip.item] /\ Len(block) \in Nat
  BY <1>1, LenProperties DEF Loaded, Cur
<1>3. /\ Closed(block, ip.block)
      /\ DOMAIN BBJumpDest = Leaders
  BY <1>1, ArrivalsAreLeaders DEF Filled, Gathers, Emits
<1>4. IsTerminator(Cur) <=> ip.item = Len(block)
  BY <1>1, <1>2 DEF VerifierAccepts
<1>5. Cur \in Item /\ Emitted(Cur)
  BY <1>1, <1>2, <1>3, ElementOfSeq DEF Closed
<1>6. \A l \in DOMAIN BBJumpDest : 1 \in 1 .. Len(BBJumpDest[l])
  BY <1>1, EmptySeq DEF VerifierAccepts, Loaded
<1>7. Cur.kind = "ins" => ip.item + 1 \in 1 .. Len(block)
  BY <1>1, <1>2, <1>4 DEF IsTerminator
<1>8. \A a \in Addresses : InsAt(a) \in Word
  BY AddressesAreWords
<1> QED
  BY <1>3, <1>5, <1>6, <1>7, <1>8 DEF Emitted, Ins

(* Reads of a register give words, rpc the address of the instruction.     *)
LEMMA RegistersAreWords ==
  ASSUME Machine, Loaded, Cur.addr \in Addresses, Ins \in Word
  PROVE  /\ r1Of(Ins) \in Reg /\ r2Of(Ins) \in Reg /\ r3Of(Ins) \in Reg
         /\ \A r \in Reg : readReg(r) \in Word
         /\ Operand \in Word /\ Addr \in Word /\ immOf(Ins) \in Word
<1>1. /\ r1Of(Ins) \in Reg /\ r2Of(Ins) \in Reg /\ r3Of(Ins) \in Reg
      /\ immOf(Ins) \in Word
  BY FieldsAreRegisters, ImmIsWord
<1>2. \A r \in Reg : readReg(r) \in Word
  BY AddressesAreWords, Widths DEF readReg, Machine
<1>3. Addr \in Word
  <2> DEFINE x == readReg(r2Of(Ins)) + immOf(Ins)
  <2>1. x \in Int
    BY <1>1, <1>2, Widths DEF Word
  <2> HIDE DEF x
  <2> QED
    BY <2>1, Widths, ModRange DEF Addr, Word, x
<1> QED
  BY <1>1, <1>2, <1>3 DEF Operand

(* A write to a register keeps r0 zero. *)
LEMMA WriteKeepsRegisters ==
  ASSUME Machine, NEW idx \in Reg, NEW value \in Word, writeReg(idx, value)
  PROVE  SimRegFile' \in [ Reg -> Word ] /\ SimRegFile'[REG_ZERO] = 0
BY DEF Machine, writeReg

(* The result of an arithmetic instruction is a word here too. *)
LEMMA ResultIsWord ==
  ASSUME BitsStayInWord(Word), Machine, Loaded, Cur.addr \in Addresses, Ins \in Word,
         getOpcode(Ins) \in ALU_OPCODES,
         ~(Divides(getOpcode(Ins)) /\ Operand = 0)
  PROVE  Result \in Word
<1> DEFINE op == getOpcode(Ins)
           a  == readReg(r1Of(Ins))
           b  == readReg(r2Of(Ins))
<1>1. a \in Word /\ b \in Word /\ Operand \in Word /\ immOf(Ins) \in Word
  BY RegistersAreWords
<1>2. Alu(op, b, Operand) \in Word
  BY <1>1, AluIsWord DEF ALU_OPCODES
<1>3. b % IMM_BASE \in Word /\ (immOf(Ins) * IMM_BASE) % WORD \in Word
  <2>1. b % IMM_BASE \in 0 .. IMM_BASE - 1 /\ IMM_BASE <= WORD
    BY <1>1, Widths, ModRange DEF Word
  <2> DEFINE x == immOf(Ins) * IMM_BASE
  <2>2. x \in Int
    BY <1>1, Widths DEF Word
  <2> HIDE DEF x
  <2>3. x % WORD \in 0 .. WORD - 1
    BY <2>2, Widths, ModRange
  <2> QED
    BY <2>1, <2>3, Widths DEF Word, x
<1>4. BitOr(b % IMM_BASE, (immOf(Ins) * IMM_BASE) % WORD) \in Word
  BY <1>3 DEF BitsStayInWord
<1> HIDE DEF a, b, op
<1>5. /\ Flag(Signed(a) < Signed(b)) \in Word /\ Flag(a < b) \in Word
      /\ Flag(Signed(a) < Signed(immOf(Ins))) \in Word /\ Flag(a < immOf(Ins)) \in Word
  BY Widths DEF Flag
<1> QED
  BY <1>2, <1>4, <1>5 DEF Result, a, b, op

-----------------------------------------------------------------------------
(* Every step keeps the whole invariant *)

LEMMA InitIInv == Init => IInv
<1> SUFFICES ASSUME Init
             PROVE  IInv
  OBVIOUS
<1>1. Loaded /\ Filled
  BY InitCode
<1>2. Machine
  BY Widths DEF Init, Machine, Events, NoEvent
<1>3. Running
  BY DEF Init, Running, Compiling
<1> QED
  BY <1>1, <1>2, <1>3 DEF IInv

(* Translating touches nothing of the machine. *)
LEMMA CompileKeeps ==
  ASSUME IInv, Loaded', Compiling, UNCHANGED machine,
         status' \in { "gather", "emit", "built", "unsupported", "assert", "ub" }
  PROVE  Machine' /\ Running'
<1>1. /\ ip' = ip /\ SimRegFile' = SimRegFile /\ SimMemory' = SimMemory /\ event' = event
      /\ SimPixelColor' = SimPixelColor /\ SimPixelShape' = SimPixelShape
  BY DEF machine, pixel
<1>2. Machine'
  BY <1>1 DEF IInv, Machine, Ended
<1>3. ip = [ block |-> 0, item |-> 1 ]
  BY DEF IInv, Running
<1>4. Running'
  BY <1>1, <1>3 DEF Running, Loaded
<1> QED
  BY <1>2, <1>4

(* The registers and the memory get their first values. *)
LEMMA PrepareKeeps ==
  ASSUME IInv, Prepare
  PROVE  Machine' /\ Running'
<1>1. Loaded /\ Filled /\ Machine /\ Running
  BY DEF IInv
<1>2. SimRegFile' \in [ Reg -> Word ] /\ SimRegFile'[REG_ZERO] = 0
  BY LlvmSimAssumption, Widths DEF Prepare
<1>3. SimMemory' \in [ 0 .. MemorySize - 1 -> Byte ]
  <2>1. MemorySize \in Nat /\ BinarySize \in Nat /\ Len(Instrs) \in Nat
        /\ BinarySize = 4 * Len(Instrs) /\ Instrs \in Seq(Word)
    BY <1>1, AddressesAreWords, LlvmSimAssumption, Widths DEF Word
  <2>2. ASSUME NEW a \in 0 .. MemorySize - 1, a < BinarySize
        PROVE  ByteOf(InsAt(a), a % 4) \in Byte
    <3>1. (a \div 4) + 1 \in 1 .. Len(Instrs) /\ a % 4 \in 0 .. 3
      BY <2>1, <2>2
    <3>2. InsAt(a) \in Word
      BY <2>1, <3>1, ElementOfSeq DEF InsAt
    <3> QED
      BY <3>1, <3>2, BytesAreBytes
  <2>3. 0 \in Byte
    BY Widths DEF Byte
  <2>4. SimMemory' = [ a \in 0 .. MemorySize - 1 |->
                         IF a < BinarySize THEN ByteOf(InsAt(a), a % 4) ELSE 0 ]
    BY DEF Prepare
  <2> QED
    BY <2>2, <2>3, <2>4
<1>4. /\ SimPixelColor' \in Word /\ SimPixelShape' \in Word
      /\ event' = event /\ status' = "running" /\ ip' = ip /\ UNCHANGED code
  BY Widths DEF Prepare, Word
<1>5. Machine'
  BY <1>1, <1>2, <1>3, <1>4 DEF Machine
<1>6. ip = [ block |-> 0, item |-> 1 ] /\ VerifierAccepts /\ BinarySize <= MemorySize
  BY <1>1 DEF Prepare, Running, Compiling
<1>7. 0 \in DOMAIN BBJumpDest /\ 1 \in 1 .. Len(BBJumpDest[0])
  <2>1. 0 \in DOMAIN BBJumpDest /\ BBJumpDest[0] \in Seq(Item) /\ BBJumpDest[0] # << >>
    BY <1>1, <1>6 DEF VerifierAccepts, Loaded
  <2> QED
    BY <2>1, EmptySeq
<1>8. VerifierAccepts' /\ BinarySize' <= MemorySize
  BY <1>4, <1>6 DEF VerifierAccepts, BinarySize, code
<1>9. Running'
  BY <1>3, <1>4, <1>6, <1>7, <1>8 DEF Running, Compiling, code
<1> QED
  BY <1>5, <1>9

(* An exit keeps registers, memory and the place it happened at. *)
LEMMA StopKeeps ==
  ASSUME IInv, status = "running",
         NEW how \in { "ub", "trap_memory", "trap_mmio", "halted" }, Stop(how)
  PROVE  Machine' /\ Running'
<1>1. /\ ip' = ip /\ SimRegFile' = SimRegFile /\ SimMemory' = SimMemory
      /\ event' = NoEvent /\ status' = how
      /\ SimPixelColor' = SimPixelColor /\ SimPixelShape' = SimPixelShape
      /\ BBJumpDest' = BBJumpDest
  BY DEF Stop, pixel, code
<1>2. Machine'
  BY <1>1 DEF IInv, Machine, Ended, Events
<1>3. Running'
  BY <1>1 DEF IInv, Running, Compiling
<1> QED
  BY <1>2, <1>3

(* So does the exit of a store whose window was closed. *)
LEMMA CloseKeeps ==
  ASSUME IInv, CloseWindow
  PROVE  Machine' /\ Running'
<1>1. /\ ip' = ip /\ SimRegFile' = SimRegFile /\ SimMemory' = SimMemory
      /\ event' = << "display" >> /\ status' = "closed" /\ status = "running"
      /\ SimPixelColor' = SimPixelColor /\ SimPixelShape' = SimPixelShape
      /\ BBJumpDest' = BBJumpDest
  BY DEF CloseWindow, Executing, pixel, code
<1>2. Machine'
  BY <1>1 DEF IInv, Machine, Ended, Events
<1>3. Running'
  BY <1>1 DEF IInv, Running, Compiling
<1> QED
  BY <1>2, <1>3

(* Execution that goes on stays on an item of a block. *)
LEMMA GoingOnKeeps ==
  ASSUME IInv, status = "running", status' = "running", UNCHANGED code, Machine',
         ip' \in [ block : DOMAIN BBJumpDest, item : Nat ],
         ip'.item \in 1 .. Len(BBJumpDest[ip'.block]),
         SimMemory' \in [ 0 .. MemorySize - 1 -> Byte ]
  PROVE  Running'
<1>1. Instrs' = Instrs /\ BBJumpDest' = BBJumpDest
  BY DEF code
<1>2. VerifierAccepts' /\ BinarySize' <= MemorySize
  BY <1>1 DEF IInv, Running, VerifierAccepts, BinarySize
<1> QED
  BY <1>1, <1>2 DEF Running, Compiling

(* Going on to the next item of the block. *)
LEMMA NextItemKeeps ==
  ASSUME IInv, status = "running", Cur.kind = "ins", NextItem
  PROVE  /\ ip' \in [ block : DOMAIN BBJumpDest, item : Nat ]
         /\ ip'.item \in 1 .. Len(BBJumpDest[ip'.block])
         /\ ip'.block = ip.block /\ ip'.item = ip.item + 1
<1>1. ip.item + 1 \in 1 .. Len(BBJumpDest[ip.block])
  BY Current DEF IInv
<1>2. ip \in [ block : DOMAIN BBJumpDest, item : Nat ]
  BY DEF IInv, Running
<1>3. ip' = [ block |-> ip.block, item |-> ip.item + 1 ]
  BY <1>2 DEF NextItem
<1> QED
  BY <1>1, <1>2, <1>3

(* An arithmetic instruction writes a word to its register. *)
LEMMA AluKeeps ==
  ASSUME BitsStayInWord(Word), IInv, ExecAlu
  PROVE  Machine' /\ Running'
<1>1. /\ Loaded /\ Filled /\ Machine /\ Running
      /\ status = "running" /\ Cur.kind = "ins" /\ getOpcode(Ins) \in ALU_OPCODES
  BY DEF IInv, ExecAlu, Executing
<1>2. Cur.addr \in Addresses /\ Ins \in Word
  BY <1>1, Current
<1>3. r1Of(Ins) \in Reg /\ Result \in Word
  BY <1>1, <1>2, RegistersAreWords, ResultIsWord DEF ExecAlu
<1>4. SimRegFile' \in [ Reg -> Word ] /\ SimRegFile'[REG_ZERO] = 0
  BY <1>1, <1>3, WriteKeepsRegisters DEF ExecAlu
<1>5. /\ SimMemory' = SimMemory /\ event' = NoEvent /\ status' = status
      /\ SimPixelColor' = SimPixelColor /\ SimPixelShape' = SimPixelShape /\ UNCHANGED code
  BY DEF ExecAlu, pixel
<1>6. Machine'
  BY <1>1, <1>4, <1>5 DEF Machine, Events
<1>7. NextItem /\ SimMemory' \in [ 0 .. MemorySize - 1 -> Byte ]
  BY <1>1, <1>5 DEF ExecAlu, Running
<1>8. Running'
  BY <1>1, <1>5, <1>6, <1>7, NextItemKeeps, GoingOnKeeps
<1> QED
  BY <1>6, <1>8

(* A load writes what the memory or the device holds, a word. *)
LEMMA LoadKeeps ==
  ASSUME IInv, handleLoad
  PROVE  Machine' /\ Running'
<1>1. /\ Loaded /\ Filled /\ Machine /\ Running
      /\ status = "running" /\ Cur.kind = "ins"
  BY DEF IInv, handleLoad, Executing
<1>2. Cur.addr \in Addresses /\ Ins \in Word
  BY <1>1, Current
<1>3. r1Of(Ins) \in Reg /\ Addr \in Word
  BY <1>1, <1>2, RegistersAreWords
<1>4. PICK Res \in CASE Addr = MMIO_IO_STDIN        -> StdinValues
                     [] Addr = MMIO_SIM_RAND        -> RandValues
                     [] Addr = MMIO_SIM_PIXEL_COLOR -> { SimPixelColor }
                     [] Addr = MMIO_SIM_PIXEL_SHAPE -> { SimPixelShape }
                     [] OTHER                       -> { ReadWord(SimMemory, Addr) } :
             writeReg(r1Of(Ins), Res)
  BY DEF handleLoad
<1>5. Res \in Word
  <2>1. InMemory \/ Addr \in READABLE
    BY DEF handleLoad
  <2>2. CASE Addr \in READABLE
    BY <1>1, <1>4, <2>2, LlvmSimAssumption DEF READABLE, Machine
  <2>3. CASE InMemory /\ Addr \notin READABLE
    <3>1. Res = ReadWord(SimMemory, Addr)
      BY <1>4, <2>3 DEF READABLE
    <3>2. Addr \in Nat /\ MemorySize \in Nat /\ Addr + 4 <= MemorySize
      BY <1>3, <2>3, LlvmSimAssumption, Widths DEF Word, InMemory
    <3>3. SimMemory \in [ 0 .. MemorySize - 1 -> Byte ]
      BY <1>1 DEF Running
    <3> QED
      BY <3>1, <3>2, <3>3, ReadIsWord
  <2> QED
    BY <2>1, <2>2, <2>3
<1>6. SimRegFile' \in [ Reg -> Word ] /\ SimRegFile'[REG_ZERO] = 0
  BY <1>1, <1>3, <1>4, <1>5, WriteKeepsRegisters
<1>7. /\ SimMemory' = SimMemory /\ event' = NoEvent /\ status' = status
      /\ SimPixelColor' = SimPixelColor /\ SimPixelShape' = SimPixelShape /\ UNCHANGED code
  BY DEF handleLoad, pixel
<1>8. Machine'
  BY <1>1, <1>6, <1>7 DEF Machine, Events
<1>9. NextItem /\ SimMemory' \in [ 0 .. MemorySize - 1 -> Byte ]
  BY <1>1, <1>7 DEF handleLoad, Running
<1>10. Running'
  BY <1>1, <1>7, <1>8, <1>9, NextItemKeeps, GoingOnKeeps
<1> QED
  BY <1>8, <1>10

(* A store writes bytes into the memory or a word to a device. *)
LEMMA StoreKeeps ==
  ASSUME IInv, handleStore
  PROVE  Machine' /\ Running'
<1> DEFINE Value == readReg(r1Of(Ins))
<1>1. /\ Loaded /\ Filled /\ Machine /\ Running
      /\ status = "running" /\ Cur.kind = "ins"
  BY DEF IInv, handleStore, Executing
<1>2. Cur.addr \in Addresses /\ Ins \in Word
  BY <1>1, Current
<1>3. Value \in Word /\ Addr \in Word
  BY <1>1, <1>2, RegistersAreWords
<1>4. /\ SimMemory' = IF InMemory THEN WriteWord(SimMemory, Addr, Value) ELSE SimMemory
      /\ SimPixelColor' = IF Addr = MMIO_SIM_PIXEL_COLOR THEN Value ELSE SimPixelColor
      /\ SimPixelShape' = IF Addr = MMIO_SIM_PIXEL_SHAPE THEN Value ELSE SimPixelShape
      /\ event' = CASE Addr = MMIO_IO_STDOUT     -> << "stdout", Value % BYTE >>
                    [] Addr = MMIO_SIM_CLEAR     -> << "clear", Value >>
                    [] Addr = MMIO_SIM_DISPLAY   -> << "display" >>
                    [] Addr = MMIO_SIM_SET_PIXEL -> << "set_pixel", Value \div IMM_BASE,
                                                      Value % IMM_BASE, SimPixelColor,
                                                      SimPixelShape >>
                    [] OTHER                     -> NoEvent
      /\ NextItem /\ SimRegFile' = SimRegFile /\ status' = status /\ UNCHANGED code
  BY DEF handleStore
<1> HIDE DEF Value
<1>5. SimMemory' \in [ 0 .. MemorySize - 1 -> Byte ]
  <2>1. SimMemory \in [ 0 .. MemorySize - 1 -> Byte ]
    BY <1>1 DEF Running
  <2>2. CASE InMemory
    <3>1. Addr \in Nat /\ MemorySize \in Nat /\ Addr + 4 <= MemorySize
      BY <1>3, <2>2, LlvmSimAssumption, Widths DEF Word, InMemory
    <3> QED
      BY <1>3, <1>4, <2>1, <2>2, <3>1, LoadSeesStore
  <2> QED
    BY <1>4, <2>1, <2>2
<1>6. SimPixelColor \in Word /\ SimPixelShape \in Word
  BY <1>1 DEF Machine
<1>7. event' \in Events
  <2>1. Value % BYTE \in Byte
    BY <1>3, Widths, ModRange DEF Byte, Word
  <2>2. Value \div IMM_BASE \in 0 .. IMM_BASE - 1 /\ Value % IMM_BASE \in 0 .. IMM_BASE - 1
    <3>1. Value \in 0 .. IMM_BASE * IMM_BASE - 1 /\ IMM_BASE \in Nat /\ IMM_BASE > 0
      BY <1>3, Widths DEF Word
    <3> QED
      BY <3>1, DivRange, ModRange
  <2> QED
    BY <1>3, <1>4, <1>6, <2>1, <2>2 DEF Events, NoEvent
<1>8. Machine'
  BY <1>1, <1>3, <1>4, <1>5, <1>6, <1>7 DEF Machine
<1>9. Running'
  BY <1>1, <1>4, <1>5, <1>8, NextItemKeeps, GoingOnKeeps
<1> QED
  BY <1>8, <1>9

(* A branch continues at the first item of a block that has one. *)
LEMMA GoToKeeps ==
  ASSUME IInv, ExecBranch \/ ExecBr
  PROVE  /\ Machine' /\ Running'
         /\ ip'.item = 1 /\ ip'.block \in DOMAIN BBJumpDest
<1>1. /\ Loaded /\ Filled /\ Machine /\ Running
      /\ status = "running" /\ Cur.kind \in { "br", "condbr" }
  BY DEF IInv, ExecBranch, ExecBr
<1>2. PICK l : l \in { Cur.to, Cur.else } /\ GoTo(l) /\ (Cur.kind = "br" => l = Cur.to)
  BY DEF ExecBranch, ExecBr
<1>3. l \in DOMAIN BBJumpDest /\ 1 \in 1 .. Len(BBJumpDest[l])
  BY <1>1, <1>2, Current
<1>4. ip' = [ block |-> l, item |-> 1 ]
  BY <1>2 DEF GoTo
<1>5. /\ SimMemory' = SimMemory /\ event' \in { event, NoEvent } /\ status' = status
      /\ SimRegFile' = SimRegFile
      /\ SimPixelColor' = SimPixelColor /\ SimPixelShape' = SimPixelShape /\ UNCHANGED code
  BY DEF ExecBranch, ExecBr, pixel
<1>6. Machine'
  BY <1>1, <1>5 DEF Machine, Events
<1>7. SimMemory' \in [ 0 .. MemorySize - 1 -> Byte ]
  BY <1>1, <1>5 DEF Running
<1>8. Running'
  BY <1>1, <1>3, <1>4, <1>5, <1>6, <1>7, GoingOnKeeps
<1> QED
  BY <1>3, <1>4, <1>6, <1>8

LEMMA StepKeepsIInv ==
  ASSUME BitsStayInWord(Word)
  PROVE  IInv /\ [Next]_vars => IInv'
<1> SUFFICES ASSUME IInv, [Next]_vars
             PROVE  Machine' /\ Running'
  <2>1. ASSUME IInv, [Next]_vars
        PROVE  Loaded' /\ Filled'
    BY <2>1, StepKeepsCode DEF IInv
  <2> QED
    BY <2>1 DEF IInv
<1>1. Loaded'
  BY StepKeepsCode DEF IInv
<1>2. CASE UNCHANGED vars \/ Exited
  <2>1. /\ ip' = ip /\ SimRegFile' = SimRegFile /\ SimMemory' = SimMemory
        /\ event' = event /\ status' = status
        /\ SimPixelColor' = SimPixelColor /\ SimPixelShape' = SimPixelShape
        /\ BBJumpDest' = BBJumpDest /\ Instrs' = Instrs
    BY <1>2 DEF Exited, vars, machine, code, pixel
  <2>2. Machine'
    BY <2>1 DEF IInv, Machine, Ended
  <2>3. VerifierAccepts' = VerifierAccepts
    BY <2>1 DEF VerifierAccepts
  <2>4. Running'
    BY <2>1, <2>3 DEF IInv, Running, Compiling, BinarySize
  <2> QED
    BY <2>2, <2>4
<1>3. CASE Unsupported \/ Gather \/ GatherEnds \/ Unhandled \/ EmitData \/ EmitCode
             \/ EmitBranch \/ EmitJump \/ EmitReturn \/ RunUnchecked
  <2>1. /\ Compiling /\ UNCHANGED machine
        /\ status' \in { "gather", "emit", "built", "unsupported", "assert", "ub" }
    BY <1>3 DEF Compiling, Unsupported, Gather, Gathering, GatherEnds, Unhandled, Emitting,
                EmitData, EmitCode, EmitBranch, EmitJump, EmitReturn, EmitStraight, Emit,
                RunUnchecked
  <2> QED
    BY <1>1, <2>1, CompileKeeps
<1>4. CASE Prepare
  BY <1>4, PrepareKeeps
<1>5. CASE DivideByZero \/ AccessFails \/ Return
  BY <1>5, StopKeeps DEF DivideByZero, AccessFails, Return, Executing
<1>6. CASE ExecAlu \/ handleLoad \/ handleStore \/ CloseWindow \/ ExecBranch \/ ExecBr
  BY <1>6, AluKeeps, LoadKeeps, StoreKeeps, CloseKeeps, GoToKeeps
<1> QED
  BY <1>2, <1>3, <1>4, <1>5, <1>6 DEF Next, Step

(* The invariant holds of every execution, given only that the bitwise     *)
(* operators of the host return 32-bit words. *)
THEOREM Invariance ==
  ASSUME BitsStayInWord(Word)
  PROVE  Spec => []IInv
<1>1. Init => IInv
  BY InitIInv
<1>2. IInv /\ [Next]_vars => IInv'
  BY StepKeepsIInv
<1> QED
  BY <1>1, <1>2, PTL DEF Spec

(* What the two loops build does not depend on the machine at all. *)
THEOREM CodeInvariance == Spec => [](Loaded /\ Filled)
<1>1. Init => Loaded /\ Filled
  BY InitCode
<1>2. (Loaded /\ Filled) /\ [Next]_vars => (Loaded /\ Filled)'
  BY StepKeepsCode
<1> QED
  BY <1>1, <1>2, PTL DEF Spec

(* Registers, memory, code and the place execution is at have their types: *)
(* in particular the translated function never runs off a block. *)
THEOREM TypeCorrect ==
  ASSUME BitsStayInWord(Word)
  PROVE  Spec => []TypeOK
<1>1. IInv => TypeOK
  <2> SUFFICES ASSUME IInv
               PROVE  TypeOK
    OBVIOUS
  <2>1. Loaded /\ Machine /\ Running
    BY DEF IInv
  <2>2. Instrs \in Seq(Word)
    BY <2>1, AddressesAreWords
  <2>3. /\ DOMAIN BBJumpDest \subseteq Word
        /\ \A a \in DOMAIN BBJumpDest : BBJumpDest[a] \in Seq(Item)
        /\ InstrPC \in 0 .. BinarySize /\ InstrPC % 4 = 0
        /\ InsertPoint \in DOMAIN BBJumpDest
    BY <2>1 DEF Loaded
  <2>4. /\ ip.block \in DOMAIN BBJumpDest
        /\ status = "running" => ip.item \in 1 .. Len(BBJumpDest[ip.block])
    BY <2>1 DEF Running
  <2> QED
    BY <2>1, <2>2, <2>3, <2>4 DEF Machine, TypeOK
<1> QED
  BY <1>1, Invariance, PTL

(* The blocks of the built function are the basic blocks of the binary:    *)
(* simulate's two loops agree with the textbook for every binary. *)
THEOREM BlocksCorrect == Spec => []BlocksFollowLeaders
<1>1. Loaded /\ Filled => BlocksFollowLeaders
  <2> SUFFICES ASSUME Loaded, Filled, status = "built"
               PROVE  /\ DOMAIN BBJumpDest = Leaders
                      /\ \A l \in Leaders : /\ Items(BBJumpDest[l]) = Block(l)
                                            /\ InOrder(BBJumpDest[l])
    BY DEF BlocksFollowLeaders
  <2>1. ~Gathers /\ ~Emits
    BY DEF Gathers, Emits
  <2> QED
    BY <2>1, ArrivalsAreLeaders DEF Filled, Closed
<1> QED
  BY <1>1, CodeInvariance, PTL

(* A block of the finished function ends in its only terminator.           *)
LEMMA ClosedBlockEnds ==
  ASSUME Loaded, NEW l \in DOMAIN BBJumpDest, l <= BinarySize,
         Closed(BBJumpDest[l], l), NEW i \in 1 .. Len(BBJumpDest[l])
  PROVE  IsTerminator(BBJumpDest[l][i]) <=> i = Len(BBJumpDest[l])
<1> DEFINE block == BBJumpDest[l]
<1>1. Len(block) \in Nat
  BY LenProperties DEF Loaded
<1>2. IsTerminator(block[Len(block)]) /\ InOrder(block)
  BY DEF Closed
<1>3. ASSUME i # Len(block)
      PROVE  ~IsTerminator(block[i])
  <2>1. i \in 1 .. Len(block) - 1 /\ Len(block) \in 1 .. Len(block)
    BY <1>1, <1>3
  <2> QED
    BY <1>2, <2>1 DEF InOrder
<1> QED
  BY <1>2, <1>3

(* The verdict is about the transfers of the binary alone. *)
LEMMA VerifierVerdict == Loaded /\ Filled => VerifierAcceptsInRange
<1> SUFFICES ASSUME Loaded, Filled, status = "built"
             PROVE  VerifierAccepts <=> \A a \in Transfers : Dest(a) \in 4 .. BinarySize
  BY DEF VerifierAcceptsInRange
<1>1. /\ DOMAIN BBJumpDest = Leaders
      /\ \A l \in DOMAIN BBJumpDest : Closed(BBJumpDest[l], l)
      /\ \A t \in Transfers : Sent(t)
  BY ArrivalsAreLeaders DEF Filled, Gathers, Emits
<1>2. /\ \A t \in Transfers : /\ Dest(t) \in DOMAIN BBJumpDest /\ Dest(t) \in Nat
                              /\ Dest(t) % 4 = 0
                              /\ t \in Nat /\ t + 4 <= BinarySize
      /\ BinarySize \in Nat
  BY <1>1, AddressesAreWords, ArrivalsAreAligned DEF Transfers, Leaders
<1>3. ASSUME VerifierAccepts, NEW a \in Transfers
      PROVE  Dest(a) \in 4 .. BinarySize
  <2>1. Dest(a) <= BinarySize
    <3> SUFFICES ASSUME Dest(a) > BinarySize
                 PROVE  FALSE
      BY <1>2
    <3> DEFINE block == BBJumpDest[Dest(a)]
    <3>1. block # << >> /\ block \in Seq(Item)
      BY <1>2, <1>3 DEF VerifierAccepts, Loaded
    <3>2. block[1] \in Items(block)
      BY <3>1, EmptySeq DEF Items
    <3>3. Items(block) = {}
      BY <1>1, <1>2, BlockOutside DEF Closed
    <3> QED
      BY <3>2, <3>3
  <2>2. Dest(a) # 0
    BY <1>1, <1>3 DEF Sent, VerifierAccepts
  <2> QED
    BY <1>2, <2>1, <2>2
<1>4. ASSUME \A a \in Transfers : Dest(a) \in 4 .. BinarySize
      PROVE  VerifierAccepts
  <2> SUFFICES ASSUME NEW l \in DOMAIN BBJumpDest
               PROVE  LET block == BBJumpDest[l] IN
                        /\ block # << >>
                        /\ \A i \in 1 .. Len(block) :
                             /\ IsTerminator(block[i]) <=> i = Len(block)
                             /\ block[i].kind \in { "br", "condbr" } => block[i].to # 0
                             /\ block[i].kind = "condbr" => block[i].else # 0
    BY DEF VerifierAccepts
  <2> DEFINE block == BBJumpDest[l]
  <2>1. l <= BinarySize
    BY <1>1, <1>2, <1>4 DEF Leaders
  <2>2. Closed(block, l)
    BY <1>1
  <2>3. block # << >> /\ \A i \in 1 .. Len(block) : Emitted(block[i])
    BY <2>1, <2>2 DEF Closed
  <2>4. \A a \in Addresses : a + 4 # 0
    BY AddressesAreWords
  <2>5. ASSUME NEW i \in 1 .. Len(block)
        PROVE  /\ block[i].kind \in { "br", "condbr" } => block[i].to # 0
               /\ block[i].kind = "condbr" => block[i].else # 0
    <3> DEFINE item == block[i]
    <3>1. Emitted(item)
      BY <2>3
    <3> HIDE DEF item
    <3>2. /\ item.kind = "condbr" => item.addr \in Transfers
          /\ item.kind = "br" /\ isJump(InsAt(item.addr)) => item.addr \in Transfers
      BY <3>1 DEF Emitted, Transfers
    <3>3. \A t \in Transfers : Dest(t) # 0
      BY <1>4
    <3> QED
      BY <2>4, <3>1, <3>2, <3>3 DEF Emitted, item
  <2> QED
    BY <2>1, <2>2, <2>3, <2>5, ClosedBlockEnds
<1> QED
  BY <1>3, <1>4

(* LLVM's verifier accepts the function exactly when every transfer stays  *)
(* inside the binary and none goes back to its first word. *)
THEOREM VerifierInRange == Spec => []VerifierAcceptsInRange
BY CodeInvariance, VerifierVerdict, PTL

-----------------------------------------------------------------------------
(* The refinement: the interpreter seen in the translated function         *)

RegView    == IF Compiling \/ status = "built" THEN SimRegFile
                                               ELSE [ SimRegFile EXCEPT ![REG_PC] = rpc ]
StatusView == IF Compiling \/ status = "built" THEN "start" ELSE status

(* The interpreter is of the same machine: its instruction set is this one. *)
LEMMA SameIsa ==
  /\ Interpreter!REG_PC = REG_PC /\ Interpreter!REG_ZERO = REG_ZERO
  /\ Interpreter!REG_SP = REG_SP /\ Interpreter!REG_BP = REG_BP
  /\ Interpreter!Reg = Reg /\ Interpreter!WORD = WORD
  /\ Interpreter!OPCODE = OPCODE
  /\ Interpreter!OPCODES = OPCODES /\ Interpreter!BRANCHES = BRANCHES
  /\ Interpreter!ALU_OPCODES = ALU_OPCODES /\ Interpreter!R_OPCODES = R_OPCODES
  /\ \A w : /\ Interpreter!getOpcode(w) = getOpcode(w)
            /\ Interpreter!r1Of(w) = r1Of(w)
            /\ Interpreter!r2Of(w) = r2Of(w)
            /\ Interpreter!r3Of(w) = r3Of(w)
            /\ Interpreter!immOf(w) = immOf(w)
  /\ \A base, w : Interpreter!Target(base, w) = Target(base, w)
  /\ \A op : Interpreter!Divides(op) <=> Divides(op)
  /\ \A op, a, b : Interpreter!Taken(op, a, b) <=> Taken(op, a, b)
  /\ \A mem, addr : Interpreter!ReadWord(mem, addr) = ReadWord(mem, addr)
  /\ \A w, i : Interpreter!ByteOf(w, i) = ByteOf(w, i)
  /\ \A mem, addr, w : Interpreter!WriteWord(mem, addr, w) = WriteWord(mem, addr, w)
  /\ \A addr : Interpreter!IsMmio(addr) <=> IsMmio(addr)
  /\ Interpreter!MMIO_BASE = MMIO_BASE
  /\ Interpreter!NoEvent = NoEvent
<1>1. /\ Interpreter!REG_PC = REG_PC /\ Interpreter!REG_ZERO = REG_ZERO
      /\ Interpreter!REG_SP = REG_SP /\ Interpreter!REG_BP = REG_BP
      /\ Interpreter!Reg = Reg /\ Interpreter!WORD = WORD
      /\ Interpreter!MMIO_BASE = MMIO_BASE
      /\ Interpreter!NoEvent = NoEvent
  BY DEF Interpreter!REG_PC, REG_PC, Interpreter!REG_ZERO, REG_ZERO, Interpreter!REG_SP,
         REG_SP, Interpreter!REG_BP, REG_BP, Interpreter!Reg, Reg, Interpreter!WORD, WORD,
         Interpreter!OPCODE_BASE, OPCODE_BASE, Interpreter!MMIO_BASE, MMIO_BASE,
         Interpreter!NoEvent, NoEvent
<1>2. Interpreter!OPCODE = OPCODE
  BY DEF Interpreter!OPCODE, OPCODE
<1>3. /\ Interpreter!R_OPCODES = R_OPCODES /\ Interpreter!SI_OPCODES = SI_OPCODES
      /\ Interpreter!UI_OPCODES = UI_OPCODES /\ Interpreter!BRANCHES = BRANCHES
  BY <1>2 DEF Interpreter!R_OPCODES, R_OPCODES, Interpreter!SI_OPCODES, SI_OPCODES,
              Interpreter!UI_OPCODES, UI_OPCODES, Interpreter!BRANCHES, BRANCHES
<1>4. Interpreter!OPCODES = OPCODES /\ Interpreter!ALU_OPCODES = ALU_OPCODES
  BY <1>2, <1>3 DEF Interpreter!OPCODES, OPCODES, Interpreter!ALU_OPCODES, ALU_OPCODES
<1>5. ASSUME NEW w
      PROVE  /\ Interpreter!getOpcode(w) = getOpcode(w)
             /\ Interpreter!r1Of(w) = r1Of(w)
             /\ Interpreter!r2Of(w) = r2Of(w)
             /\ Interpreter!r3Of(w) = r3Of(w)
  BY DEF Interpreter!getOpcode, getOpcode, Interpreter!r1Of, r1Of, Interpreter!r2Of, r2Of,
         Interpreter!r3Of, r3Of
<1>6. ASSUME NEW w
      PROVE  Interpreter!immOf(w) = immOf(w)
  BY <1>1, <1>3, <1>5 DEF Interpreter!immOf, immOf
<1>7. ASSUME NEW base, NEW w
      PROVE  Interpreter!Target(base, w) = Target(base, w)
  BY <1>1, <1>6 DEF Interpreter!Target, Target
<1>8. ASSUME NEW op
      PROVE  Interpreter!Divides(op) <=> Divides(op)
  BY <1>2 DEF Interpreter!Divides, Divides
<1>9. ASSUME NEW op, NEW a, NEW b
      PROVE  Interpreter!Taken(op, a, b) <=> Taken(op, a, b)
  BY <1>1, <1>2 DEF Interpreter!Taken, Taken, Interpreter!Signed, Signed
<1>10. ASSUME NEW w, NEW i
       PROVE  Interpreter!ByteOf(w, i) = ByteOf(w, i)
  BY DEF Interpreter!ByteOf, ByteOf
<1>11. ASSUME NEW mem, NEW addr
       PROVE  Interpreter!ReadWord(mem, addr) = ReadWord(mem, addr)
  BY DEF Interpreter!ReadWord, ReadWord
<1>12. ASSUME NEW mem, NEW addr, NEW w
       PROVE  Interpreter!WriteWord(mem, addr, w) = WriteWord(mem, addr, w)
  BY <1>10 DEF Interpreter!WriteWord, WriteWord
<1>13. ASSUME NEW addr
       PROVE  Interpreter!IsMmio(addr) <=> IsMmio(addr)
  BY <1>1 DEF Interpreter!IsMmio, IsMmio
<1> QED
  BY <1>1, <1>2, <1>3, <1>4, <1>5, <1>6, <1>7, <1>8, <1>9, <1>10, <1>11, <1>12, <1>13

LEMMA PortableFacts ==
  ASSUME Loaded, Portable
  PROVE  /\ AllCode
         /\ \A a \in Transfers : Dest(a) \in 4 .. BinarySize
         /\ BinarySize \in Nat /\ MemorySize \in Nat /\ BinarySize < MemorySize
         /\ MemorySize < WORD
BY AddressesAreWords, LlvmSimAssumption, Widths DEF Portable, Same, AllCode, Word

(* While the function runs, rpc counts the items of a block from its leader. *)
Counting   == Loaded /\ Filled /\ Running /\ AllCode /\ status = "running"
RpcCounted == rpc = ip.block + 4 * (ip.item - 1)

LEMMA RpcCounts == Counting => RpcCounted
<1> SUFFICES ASSUME Loaded, Filled, Running, AllCode, status = "running"
             PROVE  rpc = ip.block + 4 * (ip.item - 1)
  BY DEF Counting, RpcCounted
<1>1. ip.block \in DOMAIN BBJumpDest /\ ip.item \in 1 .. Len(BBJumpDest[ip.block])
  BY DEF Running
<1>2. Closed(BBJumpDest[ip.block], ip.block)
  BY <1>1 DEF Filled, Gathers, Emits
<1>3. At(Cur) = ip.block + 4 * (ip.item - 1)
  BY <1>1, <1>2 DEF Closed, Consecutive, Cur
<1>4. rpc = At(Cur)
  BY DEF rpc, At, Falls, Ins
<1> QED
  BY <1>3, <1>4

(* What the interpreter sees of an instruction that is about to be executed. *)
LEMMA Seen ==
  ASSUME IInv, Portable, ImageIntact, status = "running",
         \/ Cur.kind = "ins"
         \/ Cur.kind = "condbr"
         \/ Cur.kind = "br" /\ ~Falls
  PROVE  /\ Cur.addr \in Addresses /\ Ins \in Word /\ rpc = Cur.addr
         /\ Same(Ins)
         /\ RegView = [ SimRegFile EXCEPT ![REG_PC] = Cur.addr ]
         /\ RegView \in [ Reg -> Word ] /\ RegView[REG_PC] = Cur.addr
         /\ StatusView = "running"
         /\ \A r \in Reg : RegView[r] = readReg(r)
         /\ Interpreter!PC = Cur.addr /\ Interpreter!Ins = Ins
         /\ \A opcodes : getOpcode(Ins) \in opcodes => Interpreter!Executing(opcodes)
         /\ Interpreter!Sequential = Cur.addr + 4 /\ Cur.addr + 4 <= BinarySize
<1>1. Loaded /\ Filled /\ Machine /\ Running
  BY DEF IInv
<1>2. Cur.addr \in Addresses /\ Ins \in Word
  BY <1>1, Current
<1>3. rpc = Cur.addr
  BY DEF rpc
<1>4. /\ Cur.addr \in Nat /\ Cur.addr \in Word /\ Cur.addr + 4 <= BinarySize
      /\ BinarySize \in Nat /\ MemorySize \in Nat /\ BinarySize < MemorySize
      /\ Cur.addr + 4 \in Word /\ BinarySize = 4 * Len(Instrs)
  BY <1>1, <1>2, AddressesAreWords, PortableFacts
<1>5. Same(Ins)
  BY <1>2 DEF Portable, Ins
<1>6. /\ RegView = [ SimRegFile EXCEPT ![REG_PC] = Cur.addr ]
      /\ StatusView = "running"
  BY <1>3 DEF RegView, StatusView, Compiling
<1>7. RegView \in [ Reg -> Word ] /\ RegView[REG_PC] = Cur.addr
  BY <1>1, <1>4, <1>6, Widths DEF Machine
<1>8. ASSUME NEW r \in Reg
      PROVE  RegView[r] = readReg(r)
  <2>1. SimRegFile[REG_ZERO] = 0 /\ SimRegFile \in [ Reg -> Word ]
    BY <1>1 DEF Machine
  <2> QED
    BY <1>6, <2>1, Widths DEF readReg
<1>9. Interpreter!PC = Cur.addr
  BY <1>7, SameIsa DEF Interpreter!PC, RegView
<1>10. Interpreter!Ins = Ins
  BY <1>2, <1>9, SameIsa DEF Interpreter!Ins, ImageIntact, Ins
<1>11. ASSUME NEW opcodes, getOpcode(Ins) \in opcodes
       PROVE  Interpreter!Executing(opcodes)
  <2>1. Cur.addr # 4 * Len(Instrs) /\ Cur.addr + 4 <= MemorySize
    BY <1>4
  <2> QED
    BY <1>6, <1>9, <1>10, <1>11, <2>1, SameIsa
       DEF Interpreter!Executing, Interpreter!BinarySize, StatusView
<1>12. Interpreter!Sequential = Cur.addr + 4
  <2> DEFINE x == Cur.addr + 4
  <2>1. x % WORD = x
    <3>1. x \in 0 .. WORD - 1 /\ WORD \in Nat
      BY <1>4, Widths DEF Word
    <3> HIDE DEF x
    <3> QED
      BY <3>1
  <2> QED
    BY <1>9, <2>1, SameIsa DEF Interpreter!Sequential, x
<1> QED
  BY <1>2, <1>3, <1>4, <1>5, <1>6, <1>7, <1>8, <1>9, <1>10, <1>11, <1>12

(* ... and its arithmetic. *)
LEMMA SameAlu ==
  ASSUME NEW op, NEW a, NEW b
  PROVE  Interpreter!Alu(op, a, b) = Alu(op, a, b)
<1>1. Interpreter!Product(a, b) = Product(a, b)
  BY SameIsa DEF Interpreter!Product, Product
<1>2. /\ Interpreter!Flag(Interpreter!Signed(a) < Interpreter!Signed(b))
           = Flag(Signed(a) < Signed(b))
      /\ Interpreter!Flag(a < b) = Flag(a < b)
  BY SameIsa DEF Interpreter!Flag, Flag, Interpreter!Signed, Signed
<1> QED
  BY <1>1, <1>2, SameIsa DEF Interpreter!Alu, Alu

(* An exit of the interpreter. *)
LEMMA InterpreterStops ==
  ASSUME NEW how, StatusView' = how, event' = NoEvent, RegView' = RegView,
         Instrs' = Instrs, SimMemory' = SimMemory, pixel' = pixel
  PROVE  Interpreter!Stop(how)
BY SameIsa DEF Interpreter!Stop, Interpreter!pixel, pixel, RegView, StatusView

(* The end of one of its iterations. *)
LEMMA InterpreterAdvances ==
  ASSUME NEW regs, NEW next, next < MemorySize, StatusView' = StatusView,
         RegView' = [ regs EXCEPT ![REG_PC] = next ]
  PROVE  Interpreter!Advance(regs, next)
BY SameIsa DEF Interpreter!Advance, RegView, StatusView

LEMMA InterpreterWrites ==
  ASSUME NEW idx, NEW value, NEW next, next < MemorySize, StatusView' = StatusView,
         idx # REG_PC,
         RegView' = [ (IF idx = REG_ZERO THEN RegView ELSE [ RegView EXCEPT ![idx] = value ])
                        EXCEPT ![REG_PC] = next ]
  PROVE  Interpreter!WriteReg(idx, value, next)
<1> DEFINE regs == IF idx = REG_ZERO THEN RegView ELSE [ RegView EXCEPT ![idx] = value ]
<1>1. Interpreter!Advance(regs, next)
  BY InterpreterAdvances
<1> QED
  BY <1>1, SameIsa DEF Interpreter!WriteReg, RegView

(* rpc after a step of the running function. *)
LEMMA RpcAfter ==
  ASSUME IInv, IInv', Portable, status = "running", status' = "running", Instrs' = Instrs
  PROVE  rpc' = ip'.block + 4 * (ip'.item - 1)
<1>1. AllCode'
  BY SameBinary, PortableFacts DEF IInv
<1>2. Counting'
  BY <1>1 DEF IInv, Counting
<1>3. Counting' => RpcCounted'
  BY RpcCounts, PTL
<1> QED
  BY <1>2, <1>3 DEF RpcCounted

LEMMA RpcOfNextItem ==
  ASSUME IInv, IInv', Portable, status = "running", status' = "running", Instrs' = Instrs,
         Cur.kind = "ins", NextItem
  PROVE  rpc' = Cur.addr + 4
<1>1. Loaded /\ Filled /\ Running /\ AllCode
  BY PortableFacts DEF IInv
<1>2. rpc = ip.block + 4 * (ip.item - 1) /\ rpc = Cur.addr
  BY <1>1, RpcCounts DEF rpc, Counting, RpcCounted
<1>3. rpc' = ip'.block + 4 * (ip'.item - 1)
  BY RpcAfter
<1>4. ip'.block = ip.block /\ ip'.item = ip.item + 1
  BY NextItemKeeps
<1>5. ip.block \in Nat /\ ip.item \in Nat
  BY <1>1, ArrivalsAreAligned DEF Running
<1> QED
  BY <1>2, <1>3, <1>4, <1>5

(* A write of an instruction to a register, and the step to the next one. *)
LEMMA WriteSimulated ==
  ASSUME IInv, Portable, status = "running", status' = status,
         NEW idx \in Reg, idx # REG_PC, NEW value, writeReg(idx, value),
         NEW addr \in Nat, addr + 4 <= BinarySize,
         RegView = [ SimRegFile EXCEPT ![REG_PC] = addr ], rpc' = addr + 4
  PROVE  Interpreter!WriteReg(idx, value, addr + 4)
<1> DEFINE regs == IF idx = REG_ZERO THEN RegView ELSE [ RegView EXCEPT ![idx] = value ]
<1>1. Machine /\ status' = "running"
  BY DEF IInv
<1>2. RegView' = [ regs EXCEPT ![REG_PC] = addr + 4 ]
  <2>1. RegView' = [ SimRegFile' EXCEPT ![REG_PC] = addr + 4 ]
    BY <1>1 DEF RegView, Compiling
  <2>2. SimRegFile' = IF idx = REG_ZERO THEN SimRegFile
                                        ELSE [ SimRegFile EXCEPT ![idx] = value ]
    BY DEF writeReg
  <2>3. SimRegFile \in [ Reg -> Word ] /\ REG_PC \in Reg
    BY <1>1, Widths DEF Machine
  <2>4. CASE idx = REG_ZERO
    BY <2>1, <2>2, <2>3, <2>4
  <2>5. CASE idx # REG_ZERO
    <3> DEFINE new == [ SimRegFile EXCEPT ![idx] = value ]
               old == [ SimRegFile EXCEPT ![REG_PC] = addr ]
    <3>1. RegView' = [ new EXCEPT ![REG_PC] = addr + 4 ]
      BY <2>1, <2>2, <2>5
    <3>2. [ new EXCEPT ![REG_PC] = addr + 4 ]
            = [ [ old EXCEPT ![idx] = value ] EXCEPT ![REG_PC] = addr + 4 ]
      BY <2>3
    <3> QED
      BY <2>5, <3>1, <3>2
  <2> QED
    BY <2>4, <2>5
<1>3. addr + 4 < MemorySize
  BY PortableFacts DEF IInv
<1>4. StatusView' = StatusView
  BY DEF StatusView, Compiling
<1> QED
  BY <1>2, <1>3, <1>4, InterpreterWrites

(* The operand of an arithmetic instruction is the same in both. *)
LEMMA SameOperand ==
  ASSUME IInv, Portable, ImageIntact, status = "running", Cur.kind = "ins"
  PROVE  Interpreter!AluOperand = Operand /\ Interpreter!Addr = Addr
<1>1. /\ Ins \in Word /\ Interpreter!Ins = Ins
      /\ \A r \in Reg : RegView[r] = readReg(r)
  BY Seen
<1>2. r2Of(Ins) \in Reg /\ r3Of(Ins) \in Reg
  BY <1>1, FieldsAreRegisters
<1> QED
  BY <1>1, <1>2, SameIsa
     DEF Interpreter!AluOperand, Operand, Interpreter!Addr, Addr, RegView

(* The arithmetic of portable instructions is that of the interpreter. *)
LEMMA SameResult ==
  ASSUME IInv, Portable, ImageIntact, status = "running", Cur.kind = "ins",
         getOpcode(Ins) \in ALU_OPCODES
  PROVE  Result = Alu(getOpcode(Ins), readReg(r2Of(Ins)), Operand)
<1> DEFINE op == getOpcode(Ins)
           b  == readReg(r2Of(Ins))
<1>1. Same(Ins) /\ Ins \in Word
  BY Seen
<1>2. op \notin { OPCODE.SLT, OPCODE.SLTU, OPCODE.SLTI, OPCODE.SLTIU }
  BY <1>1 DEF Same
<1>3. CASE op # OPCODE.LUI
  BY <1>2, <1>3 DEF Result
<1>4. CASE op = OPCODE.LUI
  <2>1. b = 0
    <3>1. r2Of(Ins) = REG_ZERO
      BY <1>1, <1>4 DEF Same
    <3>2. readReg(REG_ZERO) = 0
      BY Widths DEF readReg
    <3> QED
      BY <3>1, <3>2
  <2>2. b % IMM_BASE = b
    BY <2>1, Widths
  <2>3. Operand = immOf(Ins)
    BY <1>4 DEF Operand, R_OPCODES, OPCODE
  <2>4. Result = BitOr(b % IMM_BASE, (immOf(Ins) * IMM_BASE) % WORD)
    BY <1>4 DEF Result, OPCODE
  <2>5. Alu(OPCODE.LUI, b, Operand) = BitOr(b, (Operand * IMM_BASE) % WORD)
    BY DEF Alu, OPCODE
  <2> QED
    BY <1>4, <2>2, <2>3, <2>4, <2>5
<1> QED
  BY <1>3, <1>4

LEMMA DivideByZeroSimulated ==
  ASSUME IInv, Portable, ImageIntact, DivideByZero
  PROVE  Interpreter!DivideByZero
<1>1. /\ status = "running" /\ Cur.kind = "ins" /\ Operand = 0
      /\ getOpcode(Ins) \in { op \in ALU_OPCODES : Divides(op) }
      /\ Stop("ub")
  BY DEF DivideByZero, Executing
<1>2. /\ StatusView' = "ub" /\ event' = NoEvent /\ RegView' = RegView
      /\ Instrs' = Instrs /\ SimMemory' = SimMemory /\ pixel' = pixel
  <2>1. rpc' = rpc
    BY <1>1 DEF Stop, code, rpc, Cur, Falls, Ins, InsAt, BinarySize
  <2> QED
    BY <1>1, <2>1 DEF Stop, code, StatusView, RegView, Compiling
<1>3. Interpreter!Stop("ub")
  BY <1>2, InterpreterStops
<1>4. Interpreter!Executing({ op \in Interpreter!ALU_OPCODES : Interpreter!Divides(op) })
  BY <1>1, Seen, SameIsa
<1> QED
  BY <1>1, <1>3, <1>4, SameOperand DEF Interpreter!DivideByZero, Interpreter!DIVIDING

LEMMA AluSimulated ==
  ASSUME IInv, IInv', Portable, ImageIntact, ExecAlu
  PROVE  Interpreter!ExecAlu
<1>1. /\ status = "running" /\ status' = status /\ Cur.kind = "ins"
      /\ getOpcode(Ins) \in ALU_OPCODES
      /\ ~(Divides(getOpcode(Ins)) /\ Operand = 0)
      /\ writeReg(r1Of(Ins), Result)
      /\ NextItem /\ event' = NoEvent
      /\ Instrs' = Instrs /\ SimMemory' = SimMemory /\ pixel' = pixel
  BY DEF ExecAlu, Executing, code
<1>2. /\ Ins \in Word /\ Same(Ins) /\ Cur.addr + 4 <= BinarySize
      /\ RegView = [ SimRegFile EXCEPT ![REG_PC] = Cur.addr ]
      /\ \A r \in Reg : RegView[r] = readReg(r)
      /\ Interpreter!Ins = Ins /\ Interpreter!Sequential = Cur.addr + 4
      /\ Interpreter!Executing(Interpreter!ALU_OPCODES)
      /\ Cur.addr \in Nat
  BY <1>1, Seen, SameIsa, AddressesAreWords DEF IInv
<1>3. r1Of(Ins) \in Reg /\ r2Of(Ins) \in Reg /\ r1Of(Ins) # REG_PC
  BY <1>1, <1>2, FieldsAreRegisters DEF Same
<1>4. rpc' = Cur.addr + 4
  BY <1>1, RpcOfNextItem
<1>5. Cur.addr + 4 < MemorySize
  BY <1>2, PortableFacts DEF IInv
<1>6. StatusView' = StatusView
  BY <1>1 DEF StatusView, Compiling
<1>7. Interpreter!WriteReg(r1Of(Ins), Result, Cur.addr + 4)
  BY <1>1, <1>2, <1>3, <1>4, WriteSimulated
<1>8. Result = Interpreter!Alu(getOpcode(Ins), RegView[r2Of(Ins)], Interpreter!AluOperand)
  BY <1>1, <1>2, <1>3, SameResult, SameOperand, SameAlu
<1>9. Interpreter!WriteReg(Interpreter!r1Of(Interpreter!Ins),
                           Interpreter!Alu(Interpreter!getOpcode(Interpreter!Ins),
                                           RegView[Interpreter!r2Of(Interpreter!Ins)],
                                           Interpreter!AluOperand),
                           Interpreter!Sequential)
  BY <1>2, <1>7, <1>8, SameIsa
<1>10. ~(Interpreter!Divides(Interpreter!getOpcode(Interpreter!Ins))
           /\ Interpreter!AluOperand = 0)
  BY <1>1, <1>2, SameOperand, SameIsa
<1> QED
  BY <1>1, <1>2, <1>9, <1>10, SameIsa DEF Interpreter!ExecAlu, Interpreter!pixel, pixel, RegView

(* An instruction that leaves the registers alone moves rpc on. *)
LEMMA MoveSimulated ==
  ASSUME IInv, Portable, status = "running", status' = status, SimRegFile' = SimRegFile,
         NEW addr, RegView = [ SimRegFile EXCEPT ![REG_PC] = addr ],
         NEW next \in Nat, next <= BinarySize, rpc' = next
  PROVE  Interpreter!Advance(RegView, next)
<1>1. SimRegFile \in [ Reg -> Word ] /\ REG_PC \in Reg
  BY Widths DEF IInv, Machine
<1>2. RegView' = [ SimRegFile EXCEPT ![REG_PC] = next ]
  BY DEF RegView, Compiling
<1>3. RegView' = [ RegView EXCEPT ![REG_PC] = next ]
  BY <1>1, <1>2
<1>4. next < MemorySize
  BY PortableFacts DEF IInv
<1>5. StatusView' = StatusView
  BY DEF StatusView, Compiling
<1> QED
  BY <1>3, <1>4, <1>5, InterpreterAdvances

(* The devices are the same in both. *)
LoadResults(addr) ==
  CASE addr = MMIO_IO_STDIN        -> StdinValues
    [] addr = MMIO_SIM_RAND        -> RandValues
    [] addr = MMIO_SIM_PIXEL_COLOR -> { SimPixelColor }
    [] addr = MMIO_SIM_PIXEL_SHAPE -> { SimPixelShape }
    [] OTHER                       -> { ReadWord(SimMemory, addr) }

StoreEvent(addr, value) ==
  CASE addr = MMIO_IO_STDOUT     -> << "stdout", value % BYTE >>
    [] addr = MMIO_SIM_CLEAR     -> << "clear", value >>
    [] addr = MMIO_SIM_DISPLAY   -> << "display" >>
    [] addr = MMIO_SIM_SET_PIXEL -> << "set_pixel", value \div IMM_BASE, value % IMM_BASE,
                                       SimPixelColor, SimPixelShape >>
    [] OTHER                     -> NoEvent

LEMMA SameDevices ==
  /\ Interpreter!READABLE = READABLE /\ Interpreter!WRITABLE = WRITABLE
  /\ Interpreter!MMIO_SIM_DISPLAY = MMIO_SIM_DISPLAY
  /\ Interpreter!MMIO_SIM_PIXEL_COLOR = MMIO_SIM_PIXEL_COLOR
  /\ Interpreter!MMIO_SIM_PIXEL_SHAPE = MMIO_SIM_PIXEL_SHAPE
  /\ \A addr : Interpreter!LoadResults(addr) = LoadResults(addr)
  /\ \A addr, value : Interpreter!StoreEvent(addr, value) = StoreEvent(addr, value)
  /\ Interpreter!InMemory(Addr) <=> InMemory
<1>1. /\ Interpreter!MMIO_IO_STDIN = MMIO_IO_STDIN
      /\ Interpreter!MMIO_IO_STDOUT = MMIO_IO_STDOUT
      /\ Interpreter!MMIO_SIM_CLEAR = MMIO_SIM_CLEAR
      /\ Interpreter!MMIO_SIM_DISPLAY = MMIO_SIM_DISPLAY
      /\ Interpreter!MMIO_SIM_PIXEL_COLOR = MMIO_SIM_PIXEL_COLOR
      /\ Interpreter!MMIO_SIM_PIXEL_SHAPE = MMIO_SIM_PIXEL_SHAPE
      /\ Interpreter!MMIO_SIM_SET_PIXEL = MMIO_SIM_SET_PIXEL
      /\ Interpreter!MMIO_SIM_RAND = MMIO_SIM_RAND
  BY SameIsa
     DEF Interpreter!MMIO_IO_STDIN, MMIO_IO_STDIN, Interpreter!MMIO_IO_STDOUT,
         MMIO_IO_STDOUT, Interpreter!MMIO_SIM_CLEAR, MMIO_SIM_CLEAR,
         Interpreter!MMIO_SIM_DISPLAY, MMIO_SIM_DISPLAY, Interpreter!MMIO_SIM_PIXEL_COLOR,
         MMIO_SIM_PIXEL_COLOR, Interpreter!MMIO_SIM_PIXEL_SHAPE, MMIO_SIM_PIXEL_SHAPE,
         Interpreter!MMIO_SIM_SET_PIXEL, MMIO_SIM_SET_PIXEL, Interpreter!MMIO_SIM_RAND,
         MMIO_SIM_RAND
<1>2. Interpreter!READABLE = READABLE /\ Interpreter!WRITABLE = WRITABLE
  BY <1>1 DEF Interpreter!READABLE, READABLE, Interpreter!WRITABLE, WRITABLE
<1>3. ASSUME NEW addr
      PROVE  Interpreter!LoadResults(addr) = LoadResults(addr)
  BY <1>1, SameIsa DEF Interpreter!LoadResults, LoadResults
<1>4. ASSUME NEW addr, NEW value
      PROVE  Interpreter!StoreEvent(addr, value) = StoreEvent(addr, value)
  BY <1>1, SameIsa DEF Interpreter!StoreEvent, StoreEvent
<1>5. Interpreter!InMemory(Addr) <=> InMemory
  BY SameIsa DEF Interpreter!InMemory, InMemory
<1> QED
  BY <1>1, <1>2, <1>3, <1>4, <1>5

LEMMA LoadSimulated ==
  ASSUME IInv, IInv', Portable, ImageIntact, handleLoad
  PROVE  Interpreter!ExecLoad
<1>1. PICK Res \in LoadResults(Addr) : writeReg(r1Of(Ins), Res)
  BY DEF handleLoad, LoadResults
<1>2. /\ status = "running" /\ status' = status /\ Cur.kind = "ins"
      /\ getOpcode(Ins) \in { OPCODE.LOAD }
      /\ InMemory \/ Addr \in READABLE
      /\ NextItem /\ event' = NoEvent
      /\ Instrs' = Instrs /\ SimMemory' = SimMemory /\ pixel' = pixel
  BY DEF handleLoad, Executing, code
<1>3. /\ Ins \in Word /\ Same(Ins) /\ Cur.addr + 4 <= BinarySize
      /\ RegView = [ SimRegFile EXCEPT ![REG_PC] = Cur.addr ]
      /\ Interpreter!Ins = Ins /\ Interpreter!Sequential = Cur.addr + 4
      /\ Interpreter!Executing({ Interpreter!OPCODE.LOAD })
      /\ Cur.addr \in Nat
  BY <1>2, Seen, SameIsa, AddressesAreWords DEF IInv
<1>4. r1Of(Ins) \in Reg /\ r1Of(Ins) # REG_PC
  BY <1>2, <1>3, FieldsAreRegisters DEF Same
<1>5. rpc' = Cur.addr + 4
  BY <1>2, RpcOfNextItem
<1>6. Interpreter!WriteReg(r1Of(Ins), Res, Cur.addr + 4)
  BY <1>1, <1>2, <1>3, <1>4, <1>5, WriteSimulated
<1>7. Interpreter!Addr = Addr
  BY <1>2, SameOperand
<1>8. /\ Interpreter!InMemory(Interpreter!Addr) \/ Interpreter!Addr \in Interpreter!READABLE
      /\ Res \in Interpreter!LoadResults(Interpreter!Addr)
  BY <1>1, <1>2, <1>7, SameDevices
<1>9. Interpreter!WriteReg(Interpreter!r1Of(Interpreter!Ins), Res, Interpreter!Sequential)
  BY <1>3, <1>6, SameIsa
<1> QED
  BY <1>2, <1>3, <1>8, <1>9, SameIsa DEF Interpreter!ExecLoad, Interpreter!pixel, pixel

LEMMA StoreSimulated ==
  ASSUME IInv, IInv', Portable, ImageIntact, handleStore
  PROVE  Interpreter!ExecStore
<1> DEFINE Value == readReg(r1Of(Ins))
<1>1. /\ status = "running" /\ status' = status /\ Cur.kind = "ins"
      /\ getOpcode(Ins) \in { OPCODE.STORE }
      /\ InMemory \/ Addr \in WRITABLE
      /\ SimMemory' = IF InMemory THEN WriteWord(SimMemory, Addr, Value) ELSE SimMemory
      /\ SimPixelColor' = IF Addr = MMIO_SIM_PIXEL_COLOR THEN Value ELSE SimPixelColor
      /\ SimPixelShape' = IF Addr = MMIO_SIM_PIXEL_SHAPE THEN Value ELSE SimPixelShape
      /\ event' = StoreEvent(Addr, Value)
      /\ NextItem
      /\ Instrs' = Instrs /\ SimRegFile' = SimRegFile
  BY DEF handleStore, Executing, code, StoreEvent
<1>2. /\ Ins \in Word /\ Cur.addr + 4 <= BinarySize
      /\ RegView = [ SimRegFile EXCEPT ![REG_PC] = Cur.addr ]
      /\ \A r \in Reg : RegView[r] = readReg(r)
      /\ Interpreter!Ins = Ins /\ Interpreter!Sequential = Cur.addr + 4
      /\ Interpreter!Executing({ Interpreter!OPCODE.STORE })
      /\ Cur.addr + 4 \in Nat
  BY <1>1, Seen, SameIsa, AddressesAreWords DEF IInv
<1>3. rpc' = Cur.addr + 4
  BY <1>1, RpcOfNextItem
<1>4. Interpreter!Advance(RegView, Cur.addr + 4)
  BY <1>1, <1>2, <1>3, MoveSimulated
<1>5. /\ Interpreter!Addr = Addr
      /\ RegView[Interpreter!r1Of(Interpreter!Ins)] = Value
  BY <1>1, <1>2, SameOperand, SameIsa, FieldsAreRegisters
<1> HIDE DEF Value
<1>6. Interpreter!InMemory(Addr) \/ Addr \in Interpreter!WRITABLE
  BY <1>1, SameDevices
<1>7. /\ SimMemory' = IF Interpreter!InMemory(Addr)
                        THEN Interpreter!WriteWord(SimMemory, Addr, Value) ELSE SimMemory
      /\ SimPixelColor' = IF Addr = Interpreter!MMIO_SIM_PIXEL_COLOR THEN Value
                                                                    ELSE SimPixelColor
      /\ SimPixelShape' = IF Addr = Interpreter!MMIO_SIM_PIXEL_SHAPE THEN Value
                                                                    ELSE SimPixelShape
      /\ event' = Interpreter!StoreEvent(Addr, Value)
  BY <1>1, SameIsa, SameDevices
<1> QED
  BY <1>1, <1>2, <1>4, <1>5, <1>6, <1>7 DEF Interpreter!ExecStore, RegView

(* A transfer: rpc becomes the address of the block it goes to. *)
LEMMA RpcOfTransfer ==
  ASSUME IInv, IInv', Portable, ExecBranch \/ ExecBr
  PROVE  rpc' = ip'.block /\ status = "running" /\ status' = status /\ Instrs' = Instrs
<1>1. status = "running" /\ status' = status /\ Instrs' = Instrs
  BY DEF ExecBranch, ExecBr, code
<1>2. rpc' = ip'.block + 4 * (ip'.item - 1)
  BY <1>1, RpcAfter
<1>3. ip'.item = 1 /\ ip'.block \in DOMAIN BBJumpDest
  BY GoToKeeps
<1>4. ip'.block \in Nat
  BY <1>3, ArrivalsAreAligned DEF IInv
<1> QED
  BY <1>1, <1>2, <1>3, <1>4

LEMMA BranchSimulated ==
  ASSUME IInv, IInv', Portable, ImageIntact, ExecBranch
  PROVE  Interpreter!ExecBranch
<1> DEFINE next == IF Taken(getOpcode(Ins), readReg(r1Of(Ins)), readReg(r2Of(Ins)))
                     THEN Cur.to ELSE Cur.else
<1>1. /\ status = "running" /\ status' = status /\ Cur.kind = "condbr"
      /\ GoTo(next) /\ event' = NoEvent
      /\ Instrs' = Instrs /\ SimMemory' = SimMemory /\ pixel' = pixel
      /\ SimRegFile' = SimRegFile
  BY DEF ExecBranch, code
<1>2. /\ Emitted(Cur) /\ getOpcode(Ins) \in BRANCHES
      /\ Cur.to = Dest(Cur.addr) /\ Cur.else = Cur.addr + 4
      /\ Dest(Cur.addr) = Target(Cur.addr, Ins)
  BY <1>1, Current DEF IInv, Emitted, Ins, isBranch, Dest
<1>3. /\ Ins \in Word /\ Cur.addr \in Addresses /\ Cur.addr + 4 <= BinarySize
      /\ RegView = [ SimRegFile EXCEPT ![REG_PC] = Cur.addr ]
      /\ \A r \in Reg : RegView[r] = readReg(r)
      /\ Interpreter!PC = Cur.addr /\ Interpreter!Ins = Ins
      /\ Interpreter!Sequential = Cur.addr + 4
      /\ Interpreter!Executing(Interpreter!BRANCHES)
  BY <1>1, <1>2, Seen, SameIsa
<1>4. r1Of(Ins) \in Reg /\ r2Of(Ins) \in Reg
  BY <1>3, FieldsAreRegisters
<1>5. next \in Nat /\ next <= BinarySize
  <2>1. Cur.addr \in Transfers
    BY <1>2, <1>3 DEF Transfers, isBranch, Ins
  <2>2. Dest(Cur.addr) \in 4 .. BinarySize /\ BinarySize \in Nat
    BY <2>1, PortableFacts DEF IInv
  <2>3. Cur.addr + 4 \in Nat
    BY <1>3, AddressesAreWords DEF IInv
  <2> QED
    BY <1>2, <1>3, <2>2, <2>3
<1>6. rpc' = next
  BY <1>1, RpcOfTransfer DEF GoTo
<1>7. next = IF Interpreter!Taken(Interpreter!getOpcode(Interpreter!Ins),
                                  RegView[Interpreter!r1Of(Interpreter!Ins)],
                                  RegView[Interpreter!r2Of(Interpreter!Ins)])
               THEN Interpreter!Target(Interpreter!PC, Interpreter!Ins)
               ELSE Interpreter!Sequential
  BY <1>2, <1>3, <1>4, SameIsa
<1> HIDE DEF next
<1>8. Interpreter!Advance(RegView, next)
  BY <1>1, <1>3, <1>5, <1>6, MoveSimulated
<1> QED
  BY <1>1, <1>3, <1>7, <1>8, SameIsa DEF Interpreter!ExecBranch, Interpreter!pixel, pixel, RegView

(* The br of a jalr is the interpreter's jump; what it links is never read. *)
LEMMA JumpSimulated ==
  ASSUME IInv, IInv', Portable, ImageIntact, ExecBr, ~Falls
  PROVE  Interpreter!ExecJalr
<1>1. /\ status = "running" /\ status' = status /\ Cur.kind = "br"
      /\ GoTo(Cur.to) /\ event' = NoEvent
      /\ Instrs' = Instrs /\ SimMemory' = SimMemory /\ pixel' = pixel
      /\ SimRegFile' = SimRegFile
  BY DEF ExecBr, code
<1>2. /\ Emitted(Cur) /\ isJump(Ins) /\ getOpcode(Ins) = OPCODE.JALR
      /\ Cur.to = Dest(Cur.addr) /\ Dest(Cur.addr) = Target(Cur.addr, Ins)
  BY <1>1, Current DEF IInv, Emitted, Ins, isJump, Dest, Falls
<1>3. /\ Ins \in Word /\ Cur.addr \in Addresses
      /\ RegView = [ SimRegFile EXCEPT ![REG_PC] = Cur.addr ]
      /\ RegView[REG_PC] = Cur.addr
      /\ Interpreter!PC = Cur.addr /\ Interpreter!Ins = Ins
      /\ Interpreter!Executing({ Interpreter!OPCODE.JALR })
  BY <1>1, <1>2, Seen, SameIsa
<1>4. Cur.addr \in Transfers
  BY <1>2, <1>3 DEF Transfers, Ins
<1>5. r1Of(Ins) = REG_ZERO /\ r2Of(Ins) = REG_PC
  <2>1. Cur.addr \in Found
    BY <1>1, <1>4 DEF Found, Gathers
  <2> QED
    BY <1>2, <2>1 DEF IInv, Loaded, Translatable, Ins
<1>6. Cur.to \in Nat /\ Cur.to <= BinarySize
  BY <1>2, <1>4, PortableFacts DEF IInv
<1>7. rpc' = Cur.to
  BY <1>1, RpcOfTransfer DEF GoTo
<1>8. Interpreter!Advance(RegView, Cur.to)
  BY <1>1, <1>3, <1>6, <1>7, MoveSimulated
<1>9. Interpreter!r1Of(Interpreter!Ins) = REG_ZERO /\ REG_ZERO # REG_PC
  BY <1>3, <1>5, SameIsa, Widths
<1>10. Interpreter!Target(RegView[Interpreter!r2Of(Interpreter!Ins)], Interpreter!Ins) = Cur.to
  BY <1>2, <1>3, <1>5, SameIsa
<1>11. Interpreter!WriteReg(REG_ZERO, Interpreter!PC, Cur.to)
  BY <1>8, <1>9, SameIsa DEF Interpreter!WriteReg, RegView
<1> QED
  BY <1>1, <1>3, <1>9, <1>10, <1>11, SameIsa
     DEF Interpreter!ExecJalr, Interpreter!pixel, pixel, RegView

(* The interpreter does not see the br into the next block. *)
LEMMA FallUnseen ==
  ASSUME IInv, IInv', Portable, ExecBr, Falls
  PROVE  UNCHANGED Interpreter!vars
<1>1. /\ Cur.kind = "br" /\ GoTo(Cur.to) /\ event' = event
      /\ Instrs' = Instrs /\ SimMemory' = SimMemory
      /\ SimPixelColor' = SimPixelColor /\ SimPixelShape' = SimPixelShape
      /\ SimRegFile' = SimRegFile
  BY DEF ExecBr, code, pixel
<1>2. rpc' = Cur.to /\ status = "running" /\ status' = status
  BY <1>1, RpcOfTransfer DEF GoTo
<1>3. rpc = Cur.to
  BY <1>1 DEF rpc
<1>4. RegView' = RegView /\ StatusView' = StatusView
  BY <1>1, <1>2, <1>3 DEF RegView, StatusView, Compiling
<1> QED
  BY <1>1, <1>4 DEF Interpreter!vars, RegView, StatusView

(* An exit of the running function, as the interpreter sees it. *)
LEMMA StopSimulated ==
  ASSUME status = "running", NEW how \in { "ub", "trap_memory", "trap_mmio", "halted" },
         Stop(how)
  PROVE  Interpreter!Stop(how)
<1>1. /\ status' = how /\ event' = NoEvent /\ Instrs' = Instrs /\ BBJumpDest' = BBJumpDest
      /\ ip' = ip /\ SimRegFile' = SimRegFile /\ SimMemory' = SimMemory /\ pixel' = pixel
  BY DEF Stop, code
<1>2. rpc' = rpc
  BY <1>1 DEF rpc, Cur, Falls, Ins, InsAt, BinarySize
<1>3. StatusView' = how /\ RegView' = RegView
  BY <1>1, <1>2 DEF StatusView, RegView, Compiling
<1> QED
  BY <1>1, <1>3, InterpreterStops

LEMMA AccessSimulated ==
  ASSUME IInv, Portable, ImageIntact, AccessFails
  PROVE  Interpreter!AccessTrap \/ Interpreter!AccessOverrun
<1>1. /\ status = "running" /\ Cur.kind = "ins"
      /\ getOpcode(Ins) \in { OPCODE.LOAD, OPCODE.STORE }
  BY DEF AccessFails, Executing
<1>2. /\ Interpreter!Executing({ Interpreter!OPCODE.LOAD, Interpreter!OPCODE.STORE })
      /\ Interpreter!Ins = Ins /\ Interpreter!Addr = Addr
  BY <1>1, Seen, SameOperand, SameIsa
<1>3. CASE ~IsMmio(Addr) /\ Addr >= MemorySize /\ Stop("trap_memory")
  <2>1. Interpreter!Stop("trap_memory")
    BY <1>1, <1>3, StopSimulated
  <2> QED
    BY <1>2, <1>3, <2>1, SameIsa DEF Interpreter!AccessTrap
<1>4. CASE ~IsMmio(Addr) /\ Addr < MemorySize /\ Addr + 4 > MemorySize /\ Stop("ub")
  <2>1. Interpreter!Stop("ub")
    BY <1>1, <1>4, StopSimulated
  <2> QED
    BY <1>2, <1>4, <2>1, SameIsa DEF Interpreter!AccessOverrun
<1>5. CASE /\ IsMmio(Addr)
           /\ Addr \notin (IF getOpcode(Ins) = OPCODE.LOAD THEN READABLE ELSE WRITABLE)
           /\ Stop("trap_mmio")
  <2>1. Interpreter!Stop("trap_mmio")
    BY <1>1, <1>5, StopSimulated
  <2> QED
    BY <1>2, <1>5, <2>1, SameIsa, SameDevices DEF Interpreter!AccessTrap
<1> QED
  BY <1>3, <1>4, <1>5 DEF AccessFails

(* A window closed under the translation is one closed under the interpreter. *)
LEMMA CloseSimulated ==
  ASSUME IInv, Portable, ImageIntact, CloseWindow
  PROVE  Interpreter!CloseWindow
<1>1. /\ status = "running" /\ Cur.kind = "ins" /\ getOpcode(Ins) = OPCODE.STORE
      /\ Addr = MMIO_SIM_DISPLAY /\ status' = "closed" /\ event' = << "display" >>
      /\ Instrs' = Instrs /\ BBJumpDest' = BBJumpDest /\ ip' = ip
      /\ SimRegFile' = SimRegFile /\ SimMemory' = SimMemory /\ pixel' = pixel
  BY DEF CloseWindow, Executing, code
<1>2. /\ Interpreter!Executing({ Interpreter!OPCODE.STORE })
      /\ Interpreter!Addr = Interpreter!MMIO_SIM_DISPLAY
  BY <1>1, Seen, SameOperand, SameIsa, SameDevices
<1>3. rpc' = rpc
  BY <1>1 DEF rpc, Cur, Falls, Ins, InsAt, BinarySize
<1>4. StatusView' = "closed" /\ RegView' = RegView
  BY <1>1, <1>3 DEF StatusView, RegView, Compiling
<1> QED
  BY <1>1, <1>2, <1>4
     DEF Interpreter!CloseWindow, Interpreter!pixel, pixel, RegView, StatusView

LEMMA ReturnSimulated ==
  ASSUME IInv, Return
  PROVE  Interpreter!Halt
<1>1. status = "running" /\ Cur.kind = "ret" /\ Stop("halted")
  BY DEF Return
<1>2. Interpreter!Stop("halted")
  BY <1>1, StopSimulated
<1>3. rpc = BinarySize
  BY <1>1 DEF rpc
<1>4. StatusView = "running" /\ RegView = [ SimRegFile EXCEPT ![REG_PC] = BinarySize ]
  BY <1>1, <1>3 DEF StatusView, RegView, Compiling
<1>5. RegView[REG_PC] = BinarySize
  BY <1>4, Widths DEF IInv, Machine
<1>6. Interpreter!PC = Interpreter!BinarySize
  BY <1>5, SameIsa DEF Interpreter!PC, Interpreter!BinarySize, BinarySize, RegView
<1> QED
  BY <1>2, <1>4, <1>6 DEF Interpreter!Halt, StatusView

(* The function starts where the interpreter does, in the same machine. *)
LEMMA PrepareSimulated ==
  ASSUME IInv, IInv', Portable, Prepare
  PROVE  Interpreter!Start
<1>1. /\ status = "built" /\ status' = "running" /\ BinarySize <= MemorySize
      /\ SimPixelColor' = WORD - 1 /\ SimPixelShape' = 32
      /\ SimRegFile' = [ r \in Reg |-> IF r \in { REG_SP, REG_BP } THEN StackAddr ELSE 0 ]
      /\ SimMemory' = [ a \in 0 .. MemorySize - 1 |->
                          IF a < BinarySize THEN ByteOf(InsAt(a), a % 4) ELSE 0 ]
      /\ Instrs' = Instrs /\ BBJumpDest' = BBJumpDest /\ ip' = ip /\ event' = event
  BY DEF Prepare, code
<1>2. ip = [ block |-> 0, item |-> 1 ]
  BY <1>1 DEF IInv, Running, Compiling
<1>3. rpc' = 0
  <2>1. AllCode'
    BY <1>1, SameBinary, PortableFacts DEF IInv
  <2>2. Counting'
    BY <1>1, <2>1 DEF IInv, Counting
  <2>3. Counting' => RpcCounted'
    BY RpcCounts, PTL
  <2>4. rpc' = ip'.block + 4 * (ip'.item - 1)
    BY <2>2, <2>3 DEF RpcCounted
  <2> QED
    BY <1>1, <1>2, <2>4
<1>4. RegView' = [ r \in Reg |-> IF r \in { REG_SP, REG_BP } THEN StackAddr ELSE 0 ]
  <2>1. RegView' = [ SimRegFile' EXCEPT ![REG_PC] = 0 ]
    BY <1>1, <1>3 DEF RegView, Compiling
  <2>2. REG_PC \in Reg /\ REG_PC \notin { REG_SP, REG_BP }
    BY Widths DEF REG_PC, REG_SP, REG_BP
  <2> QED
    BY <1>1, <2>1, <2>2
<1>5. StatusView = "start" /\ StatusView' = "running"
  BY <1>1 DEF StatusView, Compiling
<1>6. SimMemory' = Interpreter!LoadImage
  BY <1>1, SameIsa DEF Interpreter!LoadImage, Interpreter!BinarySize, BinarySize, InsAt
<1> QED
  BY <1>1, <1>4, <1>5, <1>6, SameIsa
     DEF Interpreter!Start, Interpreter!BinarySize, BinarySize, StatusView, RegView

(* The interpreter sees nothing of the compilation. *)
LEMMA CompilingUnseen ==
  ASSUME Unsupported \/ Gather \/ GatherEnds \/ Unhandled \/ EmitData \/ EmitCode
           \/ EmitBranch \/ EmitJump \/ EmitReturn
  PROVE  UNCHANGED Interpreter!vars
<1>1. /\ Compiling /\ UNCHANGED machine /\ Instrs' = Instrs
      /\ status' \in { "gather", "emit", "built", "unsupported", "assert" }
  BY DEF Compiling, Unsupported, Gather, Gathering, GatherEnds, Unhandled, Emitting,
         EmitData, EmitCode, EmitBranch, EmitJump, EmitReturn, EmitStraight, Emit, code
<1>2. RegView' = RegView /\ StatusView' = StatusView
  BY <1>1 DEF RegView, StatusView, Compiling, machine
<1> QED
  BY <1>1, <1>2 DEF Interpreter!vars, RegView, StatusView, machine, pixel

LEMMA StandingUnseen ==
  ASSUME UNCHANGED vars
  PROVE  UNCHANGED Interpreter!vars
<1>1. /\ Instrs' = Instrs /\ BBJumpDest' = BBJumpDest /\ ip' = ip
      /\ SimRegFile' = SimRegFile /\ SimMemory' = SimMemory
      /\ SimPixelColor' = SimPixelColor /\ SimPixelShape' = SimPixelShape
      /\ status' = status /\ event' = event
  BY DEF vars, code, machine, pixel
<1>2. rpc' = rpc
  BY <1>1 DEF rpc, Cur, Falls, Ins, InsAt, BinarySize
<1>3. RegView' = RegView /\ StatusView' = StatusView
  BY <1>1, <1>2 DEF RegView, StatusView, Compiling
<1> QED
  BY <1>1, <1>3 DEF Interpreter!vars, RegView, StatusView

(* A portable binary is never run against the verdict of the verifier. *)
LEMMA NotUnchecked ==
  ASSUME IInv, Portable
  PROVE  ~RunUnchecked
<1>1. VerifierAcceptsInRange
  BY VerifierVerdict DEF IInv
<1>2. (\A a \in Transfers : Dest(a) \in 4 .. BinarySize) /\ ~(BinarySize > MemorySize)
  BY PortableFacts DEF IInv
<1> QED
  BY <1>1, <1>2 DEF RunUnchecked, VerifierAcceptsInRange

LEMMA InitSimulated == Init => Interpreter!Init
<1> SUFFICES ASSUME Init
             PROVE  Interpreter!Init
  OBVIOUS
<1>1. RegView = SimRegFile /\ StatusView = "start"
  BY DEF Init, RegView, StatusView, Compiling
<1> QED
  BY <1>1, SameIsa DEF Init, Interpreter!Init, RegView, StatusView

LEMMA StepSimulated ==
  ASSUME IInv, IInv', [Next]_vars, Portable, status = "running" => ImageIntact
  PROVE  Interpreter!Next \/ UNCHANGED Interpreter!vars
<1>1. CASE UNCHANGED vars \/ Exited
  BY <1>1, StandingUnseen DEF Exited
<1>2. CASE Unsupported \/ Gather \/ GatherEnds \/ Unhandled \/ EmitData \/ EmitCode
             \/ EmitBranch \/ EmitJump \/ EmitReturn
  BY <1>2, CompilingUnseen
<1>3. CASE RunUnchecked
  BY <1>3, NotUnchecked
<1>4. CASE Prepare
  BY <1>4, PrepareSimulated DEF Interpreter!Next, Interpreter!Step
<1>5. CASE \/ DivideByZero \/ ExecAlu \/ AccessFails \/ handleLoad \/ handleStore
           \/ CloseWindow \/ Return
  <2>1. status = "running"
    BY <1>5 DEF DivideByZero, ExecAlu, AccessFails, handleLoad, handleStore, CloseWindow,
                Return, Executing
  <2> QED
    BY <1>5, <2>1, DivideByZeroSimulated, AluSimulated, AccessSimulated, LoadSimulated,
       StoreSimulated, CloseSimulated, ReturnSimulated DEF Interpreter!Next, Interpreter!Step
<1>6. CASE ExecBranch
  <2>1. status = "running"
    BY <1>6 DEF ExecBranch
  <2> QED
    BY <1>6, <2>1, BranchSimulated DEF Interpreter!Next, Interpreter!Step
<1>7. CASE ExecBr
  <2>1. status = "running"
    BY <1>7 DEF ExecBr
  <2> QED
    BY <1>7, <2>1, JumpSimulated, FallUnseen DEF Interpreter!Next, Interpreter!Step
<1> QED
  BY <1>1, <1>2, <1>3, <1>4, <1>5, <1>6, <1>7 DEF Next, Step

(* The translation of a portable binary does what the interpreter does, as *)
(* long as the binary has not written over itself: each of its steps is a  *)
(* step of the interpreter, or one the interpreter does not see.           *)
THEOREM ImplementsInterpreter ==
  ASSUME BitsStayInWord(Word)
  PROVE  Spec => RefinesInterpreter
<1>1. Init => Interpreter!Init
  BY InitSimulated
<1>2. IInv /\ IInv' /\ [Next]_vars
        => [ Portable /\ (status = "running" => ImageIntact)
               => Interpreter!Next ]_(Interpreter!vars)
  BY StepSimulated
<1>3. Spec => []IInv
  BY Invariance
<1> QED
  BY <1>1, <1>2, <1>3, PTL DEF Spec, RefinesInterpreter

=============================================================================
