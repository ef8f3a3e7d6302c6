---------------------------- MODULE QriscLlvmSim ----------------------------
(***************************************************************************)
(* The compiling simulator qrisc-llvm-sim (asm/src/qrisc-llvm-sim.cpp).    *)
(* Function simulate translates the binary to one LLVM function and runs   *)
(* it: a first loop over the instructions creates a basic block for every  *)
(* address a branch or a jump may continue at, a second loop emits code    *)
(* into the blocks, the verifier looks at the result and the function is   *)
(* executed against the memory and the devices.                            *)
(*                                                                         *)
(* A block is the address it is keyed by in BBJumpDest, its code a         *)
(* sequence of items: the code of one instruction, or a terminator.  The   *)
(* verifier and the execution engine belong to LLVM and are modelled by    *)
(* what this program relies on.  The program is built with its assertions, *)
(* as the CMake files do unless told otherwise.                            *)
(***************************************************************************)
EXTENDS QriscIsa, Sequences

CONSTANTS
  Programs,     \* binaries the assembler may hand over: sequences of words
  MemorySize,   \* --memory-size, in bytes
  StackAddr,    \* --stack-addr
  StdinValues,  \* what getchar() may return
  RandValues    \* what sim_rand() may return

ASSUME LlvmSimAssumption ==
  /\ Programs \subseteq Seq(Word)
  /\ \A p \in Programs : 4 * Len(p) < WORD
  /\ MemorySize \in Word /\ StackAddr \in Word
  /\ StdinValues \subseteq Word /\ RandValues \subseteq Word

VARIABLES
  Instrs,         \* the binary, parameter of simulate
  InstrPC,        \* address of the instruction a loop of simulate is at
  BBJumpDest,     \* address -> code of the block created for it
  InsertPoint,    \* the block Builder appends to
  ip,             \* the item to execute: its block and its index there
  SimRegFile,     \* register index -> word; the slots of r0 and rpc are never read
  SimMemory,      \* address -> byte
  SimPixelColor,
  SimPixelShape,
  status,         \* the phase of simulate, or how the process ended
  event           \* what the last instruction did to a device

pixel   == << SimPixelColor, SimPixelShape >>
code    == << Instrs, InstrPC, BBJumpDest, InsertPoint >>
machine == << ip, SimRegFile, SimMemory, pixel, event >>
vars    == << code, machine, status >>

Ended == status \in { "unsupported", "assert", "ub", "trap_memory", "trap_mmio", "closed", "halted" }
Compiling == status \in { "gather", "emit", "built", "unsupported", "assert" }

BinarySize == 4 * Len(Instrs)
InsAt(addr) == Instrs[(addr \div 4) + 1]

Item == [ kind : { "ins", "condbr", "br", "ret" },
          addr : Word,      \* the instruction the item was emitted for
          to   : Word,      \* where a terminator goes (the condition holds)
          else : Word ]     \* where it goes otherwise
Terminator(kind, addr, to, else) ==
  [ kind |-> kind, addr |-> addr, to |-> to, else |-> else ]
Code(addr) == Terminator("ins", addr, 0, 0)

Init ==
  /\ Instrs \in Programs
  /\ InstrPC = 0
  /\ BBJumpDest = [ a \in { 0 } |-> << >> ]       \* BBEntry
  /\ InsertPoint = 0
  /\ ip = [ block |-> 0, item |-> 1 ]
  /\ SimRegFile = [ r \in Reg |-> 0 ]
  /\ SimMemory = << >>
  /\ SimPixelColor = 0 /\ SimPixelShape = 0
  /\ status = "gather"
  /\ event = NoEvent

-----------------------------------------------------------------------------
(* The first loop: where control may arrive *)

Gathering == status = "gather" /\ InstrPC < BinarySize
Gathered  == InsAt(InstrPC)

(* Only jalr zero, rpc, imm is translated.                                 *)
Translatable(ins) == isJump(ins) => r1Of(ins) = REG_ZERO /\ r2Of(ins) = REG_PC

Unsupported ==
  /\ Gathering /\ ~Translatable(Gathered)
  /\ status' = "unsupported"
  /\ UNCHANGED << code, machine >>

Dest(addr) == Target(addr, InsAt(addr))

(* Seeded fault: no block for what follows a transfer.                     *)
GatherTargetsOnly ==
  /\ Gathering /\ Translatable(Gathered)
  /\ LET arrivals == IF isBranch(Gathered) \/ isJump(Gathered)
                       THEN { Dest(InstrPC) } ELSE {}
     IN  BBJumpDest' = [ a \in DOMAIN BBJumpDest \cup arrivals |->
                           IF a \in DOMAIN BBJumpDest THEN BBJumpDest[a] ELSE << >> ]
  /\ InstrPC' = InstrPC + 4
  /\ UNCHANGED << Instrs, InsertPoint, machine, status >>

Gather ==
  /\ Gathering /\ Translatable(Gathered)
  /\ LET arrivals == IF isBranch(Gathered) \/ isJump(Gathered)
                       THEN { Dest(InstrPC), InstrPC + 4 } ELSE {}
     IN  BBJumpDest' = [ a \in DOMAIN BBJumpDest \cup arrivals |->
                           IF a \in DOMAIN BBJumpDest THEN BBJumpDest[a] ELSE << >> ]
  /\ InstrPC' = InstrPC + 4
  /\ UNCHANGED << Instrs, InsertPoint, machine, status >>

GatherEnds ==
  /\ status = "gather" /\ InstrPC >= BinarySize
  /\ InstrPC' = 0
  /\ status' = "emit"
  /\ UNCHANGED << Instrs, BBJumpDest, InsertPoint, machine >>

-----------------------------------------------------------------------------
(* The second loop: the code of the blocks *)

Emitting(opcodes) ==
  /\ status = "emit" /\ InstrPC < BinarySize
  /\ getOpcode(InsAt(InstrPC)) \in opcodes

(* BEQ is tested for twice and BNE never: it reaches the assertion.        *)
HANDLED == OPCODES \ { OPCODE.BNE }

Unhandled ==
  /\ Emitting(OPCODES \ HANDLED)
  /\ status' = "assert"
  /\ UNCHANGED << code, machine >>

Emit(items, next) ==
  /\ BBJumpDest' = [ BBJumpDest EXCEPT ![InsertPoint] = @ \o items ]
  /\ InsertPoint' = next
  /\ InstrPC' = InstrPC + 4
  /\ UNCHANGED << Instrs, machine, status >>

(* Seeded faults: no branch into the next block; a branch back to its own. *)
EmitStraightOpen(items) ==
  Emit(items, IF InstrPC + 4 \in DOMAIN BBJumpDest THEN InstrPC + 4 ELSE InsertPoint)
EmitStraightLooped(items) ==
  IF InstrPC + 4 \in DOMAIN BBJumpDest
    THEN Emit(items \o << Terminator("br", InstrPC, InsertPoint, 0) >>, InstrPC + 4)
    ELSE Emit(items, InsertPoint)

(* Code that does not transfer control falls into the next block, if one   *)
(* starts at the next instruction.                                         *)
EmitStraight(items) ==
  IF InstrPC + 4 \in DOMAIN BBJumpDest
    THEN Emit(items \o << Terminator("br", InstrPC, InstrPC + 4, 0) >>, InstrPC + 4)
    ELSE Emit(items, InsertPoint)

(* Words that are no instruction may be data: nothing is emitted for them. *)
EmitData == Emitting((0 .. OPCODE_BASE - 1) \ OPCODES) /\ EmitStraight(<< >>)

EmitCode ==
  /\ Emitting(HANDLED \ (BRANCHES \cup { OPCODE.JALR }))
  /\ EmitStraight(<< Code(InstrPC) >>)

EmitBranch ==
  /\ Emitting(HANDLED \cap BRANCHES)
  /\ Emit(<< Terminator("condbr", InstrPC, Dest(InstrPC), InstrPC + 4) >>, InstrPC + 4)

(* Seeded fault: code after a jump is added to the block the jump ended.   *)
EmitJumpInPlace ==
  /\ Emitting({ OPCODE.JALR })
  /\ Emit(<< Terminator("br", InstrPC, Dest(InstrPC), 0) >>, InsertPoint)

EmitJump ==
  /\ Emitting({ OPCODE.JALR })
  /\ Emit(<< Terminator("br", InstrPC, Dest(InstrPC), 0) >>, InstrPC + 4)

EmitReturn ==
  /\ status = "emit" /\ InstrPC >= BinarySize
  /\ BBJumpDest' = [ BBJumpDest EXCEPT ![InsertPoint] =
                       Append(@, Terminator("ret", InstrPC, 0, 0)) ]
  /\ status' = "built"
  /\ UNCHANGED << Instrs, InstrPC, InsertPoint, machine >>

-----------------------------------------------------------------------------
(* The hand-over to LLVM *)

IsTerminator(item) == item.kind # "ins"

(* verifyModule: a block ends in its only terminator, and nothing branches *)
(* to the entry.                                                           *)
VerifierAccepts ==
  \A a \in DOMAIN BBJumpDest :
    LET block == BBJumpDest[a] IN
      /\ block # << >>
      /\ \A i \in 1 .. Len(block) :
           /\ IsTerminator(block[i]) <=> i = Len(block)
           /\ block[i].kind \in { "br", "condbr" } => block[i].to # 0
           /\ block[i].kind = "condbr" => block[i].else # 0

(* The verdict is only printed: a module the verifier refuses goes to the  *)
(* code generator, and a binary larger than the memory is copied into it.  *)
RunUnchecked ==
  /\ status = "built"
  /\ ~VerifierAccepts \/ BinarySize > MemorySize
  /\ status' = "ub"
  /\ UNCHANGED << code, machine >>

Prepare ==
  /\ status = "built"
  /\ VerifierAccepts /\ BinarySize <= MemorySize
  /\ status' = "running"
  /\ SimPixelColor' = WORD - 1
  /\ SimPixelShape' = 32
  /\ SimRegFile' = [ r \in Reg |-> IF r \in { REG_SP, REG_BP } THEN StackAddr ELSE 0 ]
  /\ SimMemory' = [ a \in 0 .. MemorySize - 1 |->
                      IF a < BinarySize THEN ByteOf(InsAt(a), a % 4) ELSE 0 ]
  /\ UNCHANGED << code, ip, event >>

-----------------------------------------------------------------------------
(* The translated function *)

Cur == BBJumpDest[ip.block][ip.item]
Ins == InsAt(Cur.addr)

Executing(opcodes) ==
  /\ status = "running" /\ Cur.kind = "ins"
  /\ getOpcode(Ins) \in opcodes

NextItem   == ip' = [ ip EXCEPT !.item = @ + 1 ]
GoTo(addr) == ip' = [ block |-> addr, item |-> 1 ]

(* Seeded fault: rpc read from its slot in the register file.              *)
readRegSlot(idx) == IF idx = REG_ZERO THEN 0 ELSE SimRegFile[idx]

(* rpc is a constant of the instruction, fixed when its code is emitted.   *)
readReg(idx) == CASE idx = REG_ZERO -> 0
                  [] idx = REG_PC   -> Cur.addr
                  [] OTHER          -> SimRegFile[idx]

(* A write to rpc goes to a slot nothing reads.                            *)
writeReg(idx, value) ==
  SimRegFile' = IF idx = REG_ZERO THEN SimRegFile ELSE [ SimRegFile EXCEPT ![idx] = value ]

Stop(how) ==
  /\ status' = how
  /\ event' = NoEvent
  /\ UNCHANGED << code, ip, SimRegFile, SimMemory, pixel >>

Operand == IF getOpcode(Ins) \in R_OPCODES THEN readReg(r3Of(Ins)) ELSE immOf(Ins)

(* The comparisons take r1 for their first operand (and r2 for the second  *)
(* of slt and sltu); lui keeps the low half of r2; the rest is as in Alu.  *)
Result ==
  LET op == getOpcode(Ins)
      a  == readReg(r1Of(Ins))
      b  == readReg(r2Of(Ins))
  IN  CASE op = OPCODE.SLT   -> Flag(Signed(a) < Signed(b))
        [] op = OPCODE.SLTU  -> Flag(a < b)
        [] op = OPCODE.SLTI  -> Flag(Signed(a) < Signed(immOf(Ins)))
        [] op = OPCODE.SLTIU -> Flag(a < immOf(Ins))
        [] op = OPCODE.LUI   -> BitOr(b % IMM_BASE, (immOf(Ins) * IMM_BASE) % WORD)
        [] OTHER             -> Alu(op, b, Operand)

DivideByZero ==
  /\ Executing({ op \in ALU_OPCODES : Divides(op) })
  /\ Operand = 0
  /\ Stop("ub")

ExecAlu ==
  /\ Executing(ALU_OPCODES)
  /\ ~(Divides(getOpcode(Ins)) /\ Operand = 0)
  /\ writeReg(r1Of(Ins), Result)
  /\ NextItem
  /\ event' = NoEvent
  /\ UNCHANGED << code, SimMemory, pixel, status >>

Addr == (readReg(r2Of(Ins)) + immOf(Ins)) % WORD

READABLE == { MMIO_IO_STDIN, MMIO_SIM_PIXEL_COLOR, MMIO_SIM_PIXEL_SHAPE, MMIO_SIM_RAND }
WRITABLE == { MMIO_IO_STDOUT, MMIO_SIM_CLEAR, MMIO_SIM_DISPLAY, MMIO_SIM_PIXEL_COLOR,
              MMIO_SIM_PIXEL_SHAPE, MMIO_SIM_SET_PIXEL }
InMemory == ~IsMmio(Addr) /\ Addr + 4 <= MemorySize

AccessFails ==
  /\ Executing({ OPCODE.LOAD, OPCODE.STORE })
  /\ \/ ~IsMmio(Addr) /\ Addr >= MemorySize /\ Stop("trap_memory")
     \/ ~IsMmio(Addr) /\ Addr < MemorySize /\ Addr + 4 > MemorySize /\ Stop("ub")
     \/ /\ IsMmio(Addr)
        /\ Addr \notin (IF getOpcode(Ins) = OPCODE.LOAD THEN READABLE ELSE WRITABLE)
        /\ Stop("trap_mmio")

handleLoad ==
  /\ Executing({ OPCODE.LOAD })
  /\ InMemory \/ Addr \in READABLE
  /\ \E Res \in CASE Addr = MMIO_IO_STDIN        -> StdinValues
                  [] Addr = MMIO_SIM_RAND        -> RandValues
                  [] Addr = MMIO_SIM_PIXEL_COLOR -> { SimPixelColor }
                  [] Addr = MMIO_SIM_PIXEL_SHAPE -> { SimPixelShape }
                  [] OTHER                       -> { ReadWord(SimMemory, Addr) } :
       writeReg(r1Of(Ins), Res)
  /\ NextItem
  /\ event' = NoEvent
  /\ UNCHANGED << code, SimMemory, pixel, status >>

(* A store changes the memory, never the code translated from it.          *)
handleStore ==
  /\ Executing({ OPCODE.STORE })
  /\ InMemory \/ Addr \in WRITABLE
  /\ LET Value == readReg(r1Of(Ins)) IN
       /\ SimMemory' = IF InMemory THEN WriteWord(SimMemory, Addr, Value) ELSE SimMemory
       /\ SimPixelColor' = IF Addr = MMIO_SIM_PIXEL_COLOR THEN Value ELSE SimPixelColor
       /\ SimPixelShape' = IF Addr = MMIO_SIM_PIXEL_SHAPE THEN Value ELSE SimPixelShape
       /\ event' = CASE Addr = MMIO_IO_STDOUT     -> << "stdout", Value % BYTE >>
                     [] Addr = MMIO_SIM_CLEAR     -> << "clear", Value >>
                     [] Addr = MMIO_SIM_DISPLAY   -> << "display" >>
                     [] Addr = MMIO_SIM_SET_PIXEL -> << "set_pixel", Value \div IMM_BASE,
                                                       Value % IMM_BASE, SimPixelColor,
                                                       SimPixelShape >>
                     [] OTHER                     -> NoEvent
  /\ NextItem
  /\ UNCHANGED << code, SimRegFile, status >>

(* The window was closed: sim_display does not return.                     *)
CloseWindow ==
  /\ Executing({ OPCODE.STORE })
  /\ Addr = MMIO_SIM_DISPLAY
  /\ status' = "closed"
  /\ event' = << "display" >>
  /\ UNCHANGED << code, ip, SimRegFile, SimMemory, pixel >>

ExecBranch ==
  /\ status = "running" /\ Cur.kind = "condbr"
  /\ GoTo(IF Taken(getOpcode(Ins), readReg(r1Of(Ins)), readReg(r2Of(Ins)))
            THEN Cur.to ELSE Cur.else)
  /\ event' = NoEvent
  /\ UNCHANGED << code, SimRegFile, SimMemory, pixel, status >>

Falls == ~isJump(Ins)       \* a br into the next block, not the br of a jalr

ExecBr ==
  /\ status = "running" /\ Cur.kind = "br"
  /\ GoTo(Cur.to)
  /\ event' = IF Falls THEN event ELSE NoEvent
  /\ UNCHANGED << code, SimRegFile, SimMemory, pixel, status >>

Return ==
  /\ status = "running" /\ Cur.kind = "ret"
  /\ Stop("halted")

-----------------------------------------------------------------------------

Step ==
  \/ Unsupported \/ Gather \/ GatherEnds
  \/ Unhandled \/ EmitData \/ EmitCode \/ EmitBranch \/ EmitJump \/ EmitReturn
  \/ RunUnchecked \/ Prepare
  \/ DivideByZero \/ ExecAlu \/ AccessFails \/ handleLoad \/ handleStore
  \/ CloseWindow \/ ExecBranch \/ ExecBr \/ Return

Exited == Ended /\ UNCHANGED vars

Next == Step \/ Exited

(* One thread that nothing can block: a step that can be taken is taken.   *)
Spec == Init /\ [][Next]_vars /\ WF_vars(Step)

-----------------------------------------------------------------------------
(* The type invariant; control never runs off the end of a block.          *)
TypeOK ==
  /\ Instrs \in Seq(Word)
  /\ InstrPC \in 0 .. BinarySize /\ InstrPC % 4 = 0
  /\ DOMAIN BBJumpDest \subseteq Word
  /\ \A a \in DOMAIN BBJumpDest : BBJumpDest[a] \in Seq(Item)
  /\ InsertPoint \in DOMAIN BBJumpDest
  /\ ip.block \in DOMAIN BBJumpDest
  /\ status = "running" => ip.item \in 1 .. Len(BBJumpDest[ip.block])
  /\ SimRegFile \in [ Reg -> Word ]
  /\ SimMemory = << >> \/ SimMemory \in [ 0 .. MemorySize - 1 -> Byte ]
  /\ SimPixelColor \in Word /\ SimPixelShape \in Word
  /\ Ended \/ status \in { "gather", "emit", "built", "running" }
  /\ event \in Events

(* The blocks of a binary by their textbook definition: a leader is the    *)
(* entry, the target of a transfer or what follows one; a block holds the  *)
(* instructions from its leader up to the next one, and ends as the last   *)
(* of them says.                                                           *)
Addresses == { a \in 0 .. BinarySize - 1 : a % 4 = 0 }
Transfers == { a \in Addresses : isBranch(InsAt(a)) \/ isJump(InsAt(a)) }
Leaders   == { 0 } \cup UNION { { Dest(a), a + 4 } : a \in Transfers }
Span(l)   == { a \in Addresses : l <= a /\ Leaders \cap (l + 1 .. a) = {} }

BlockEnd(l) ==
  LET last == CHOOSE a \in Span(l) : a + 4 \notin Span(l)
  IN  CASE Span(l) = {} ->
             IF l = BinarySize THEN { Terminator("ret", l, 0, 0) } ELSE {}
        [] Span(l) # {} /\ isBranch(InsAt(last)) ->
             { Terminator("condbr", last, Dest(last), last + 4) }
        [] Span(l) # {} /\ isJump(InsAt(last)) ->
             { Terminator("br", last, Dest(last), 0) }
        [] OTHER ->
             { IF last + 4 \in Leaders THEN Terminator("br", last, last + 4, 0)
                                       ELSE Terminator("ret", last + 4, 0, 0) }

IsCode(addr) == getOpcode(InsAt(addr)) \in ALU_OPCODES \cup { OPCODE.LOAD, OPCODE.STORE }
Block(l)     == { Code(a) : a \in { b \in Span(l) : IsCode(b) } } \cup BlockEnd(l)

Items(block) == { block[i] : i \in 1 .. Len(block) }

(* Code by ascending address, the terminator after it.                     *)
InOrder(block) ==
  \A j \in 1 .. Len(block) : \A i \in 1 .. j - 1 :
    ~IsTerminator(block[i]) /\ (IsTerminator(block[j]) \/ block[i].addr < block[j].addr)

(* The two loops of simulate together build exactly those blocks, whatever *)
(* the order in which branches forwards, backwards and into each other's   *)
(* blocks, and data between the code, come.                                *)
BlocksFollowLeaders ==
  status = "built" =>
    /\ DOMAIN BBJumpDest = Leaders
    /\ \A l \in Leaders : Items(BBJumpDest[l]) = Block(l) /\ InOrder(BBJumpDest[l])

(* The module is one LLVM accepts exactly when every transfer stays inside *)
(* the binary (its end included) and none goes back to its first word: a   *)
(* target elsewhere has a block that no instruction fills.                 *)
VerifierAcceptsInRange ==
  status = "built" =>
    (VerifierAccepts <=> \A a \in Transfers : Dest(a) \in 4 .. BinarySize)

-----------------------------------------------------------------------------
(* The interpreter qrisc-sim, seen in the execution of the translated      *)
(* function: rpc is the address of the instruction to execute next.        *)

rpc == CASE Cur.kind = "ret"          -> BinarySize
         [] Cur.kind = "br" /\ Falls  -> Cur.to
         [] OTHER                     -> Cur.addr

Interpreter == INSTANCE QriscSim WITH
  RegFile <- IF Compiling \/ status = "built" THEN SimRegFile
                                              ELSE [ SimRegFile EXCEPT ![REG_PC] = rpc ],
  Memory  <- SimMemory,
  status  <- IF Compiling \/ status = "built" THEN "start" ELSE status

(* Binaries both tools are meant for: instructions only, none of those     *)
(* that the translation treats otherwise (bne, the comparisons, lui on a   *)
(* register), no write to rpc, transfers inside the binary, and a memory   *)
(* that is larger than it.                                                 *)
Same(ins) ==
  /\ getOpcode(ins) \in OPCODES \ { OPCODE.BNE, OPCODE.SLT, OPCODE.SLTU, OPCODE.SLTI,
                                    OPCODE.SLTIU }
  /\ getOpcode(ins) = OPCODE.LUI => r2Of(ins) = REG_ZERO
  /\ getOpcode(ins) \in ALU_OPCODES \cup { OPCODE.LOAD } => r1Of(ins) # REG_PC
Portable ==
  /\ \A a \in Addresses : Same(InsAt(a))
  /\ \A a \in Transfers : Dest(a) \in 4 .. BinarySize
  /\ BinarySize < MemorySize

ImageIntact == \A a \in Addresses : ReadWord(SimMemory, a) = InsAt(a)

(* The two simulators agree: as long as a portable binary has not written  *)
(* over itself, every step of its translation is a step of the interpreter *)
(* or leaves it where it is, traps and device calls included.              *)
RefinesInterpreter ==
  /\ Interpreter!Init
  /\ [][ Portable /\ (status = "running" => ImageIntact) => Interpreter!Next ]_(Interpreter!vars)

(* Liveness: a translated binary whose transfers all go forward ends: the  *)
(* branches added between blocks never form a loop of their own.           *)
ForwardProgramsStop ==
  (status = "gather" /\ \A a \in Transfers : Dest(a) > a) ~> Ended
=============================================================================
