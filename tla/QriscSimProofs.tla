--------------------------- MODULE QriscSimProofs ---------------------------
(***************************************************************************)
(* Theorems about qrisc-sim, for every width, memory size, stack address   *)
(* and set of binaries.  The inductive invariant is the type invariant     *)
(* with the facts that bound the fetch: r0 is zero, the binary fits the    *)
(* memory, and PC is inside the memory unless both are empty.              *)
(***************************************************************************)
EXTENDS QriscSim, QriscIsaProofs

FetchBound ==
  status = "running" =>
    /\ BinarySize <= MemorySize
    /\ PC < MemorySize \/ (PC = 0 /\ Instrs = << >>)

IInv == TypeOK /\ ZeroIsHardwired /\ FetchBound

-----------------------------------------------------------------------------

(* The memory holds an image of bytes once the binary is loaded. *)
LEMMA ImageOfBytes ==
  ASSUME Instrs \in Seq(Word)
  PROVE  LoadImage \in [ 0 .. MemorySize - 1 -> Byte ]
<1> SUFFICES ASSUME NEW a \in 0 .. MemorySize - 1
             PROVE  (IF a < BinarySize THEN ByteOf(Instrs[(a \div 4) + 1], a % 4) ELSE 0)
                      \in Byte
  BY DEF LoadImage
<1>1. CASE a < BinarySize
  <2>1. (a \div 4) + 1 \in 1 .. Len(Instrs) /\ a % 4 \in 0 .. 3
    BY <1>1, SimAssumption DEF BinarySize, Word
  <2>2. Instrs[(a \div 4) + 1] \in Word
    BY <2>1
  <2> QED
    BY <1>1, <2>1, <2>2, BytesAreBytes
<1>2. CASE ~(a < BinarySize)
  BY <1>2, Widths DEF Byte
<1> QED
  BY <1>1, <1>2

(* What an iteration fetches is a word with well-formed fields. *)
LEMMA Fetched ==
  ASSUME TypeOK, NEW opcodes, Executing(opcodes)
  PROVE  /\ status = "running"
         /\ PC \in Word /\ Ins \in Word /\ getOpcode(Ins) \in opcodes
         /\ r1Of(Ins) \in Reg /\ r2Of(Ins) \in Reg /\ r3Of(Ins) \in Reg
         /\ RegFile[r1Of(Ins)] \in Word /\ RegFile[r2Of(Ins)] \in Word
         /\ RegFile[r3Of(Ins)] \in Word
         /\ immOf(Ins) \in Word
         /\ Sequential \in Word /\ Target(PC, Ins) \in Word
         /\ Target(RegFile[r2Of(Ins)], Ins) \in Word
         /\ Addr \in Word
         /\ Memory \in [ 0 .. MemorySize - 1 -> Byte ]
<1>1. /\ status = "running" /\ getOpcode(Ins) \in opcodes /\ PC + 4 <= MemorySize
      /\ RegFile \in [ Reg -> Word ] /\ Memory \in [ 0 .. MemorySize - 1 -> Byte ]
  BY DEF Executing, TypeOK
<1>2. PC \in Word
  BY <1>1, Widths DEF PC
<1>3. Ins \in Word
  <2>1. PC \in Nat /\ MemorySize \in Nat
    BY <1>2, SimAssumption, Widths DEF Word
  <2> QED
    BY <1>1, <2>1, ReadIsWord DEF Ins
<1>4. r1Of(Ins) \in Reg /\ r2Of(Ins) \in Reg /\ r3Of(Ins) \in Reg /\ immOf(Ins) \in Word
  BY <1>3, FieldsAreRegisters, ImmIsWord
<1>5. /\ RegFile[r1Of(Ins)] \in Word /\ RegFile[r2Of(Ins)] \in Word
      /\ RegFile[r3Of(Ins)] \in Word
  BY <1>1, <1>4
<1>6. \A x \in Int : x % WORD \in Word
  BY Widths, ModRange DEF Word
<1>7. \A x \in Word : x \in Int
  BY Widths DEF Word
<1>8. Sequential \in Word
  BY <1>2, <1>6, <1>7 DEF Sequential
<1>9. Target(PC, Ins) \in Word /\ Target(RegFile[r2Of(Ins)], Ins) \in Word
  <2>1. /\ PC + immOf(Ins) * 4 \in Int
        /\ RegFile[r2Of(Ins)] + immOf(Ins) * 4 \in Int
    BY <1>2, <1>4, <1>5, <1>7
  <2> QED
    BY <2>1, <1>6 DEF Target
<1>10. Addr \in Word
  <2>1. RegFile[r2Of(Ins)] + immOf(Ins) \in Int
    BY <1>4, <1>5, <1>7
  <2> QED
    BY <2>1, <1>6 DEF Addr
<1> QED
  BY <1>1, <1>2, <1>3, <1>4, <1>5, <1>8, <1>9, <1>10

(* The end of an iteration keeps the register file and the bound on PC.    *)
LEMMA AdvanceKeeps ==
  ASSUME status = "running", NEW regs \in [ Reg -> Word ], regs[REG_ZERO] = 0,
         NEW NextPC \in Word, Advance(regs, NextPC)
  PROVE  /\ RegFile' \in [ Reg -> Word ]
         /\ RegFile'[REG_ZERO] = 0
         /\ status' \in { "running", "trap_pc" }
         /\ status' = "running" => PC' = NextPC /\ NextPC < MemorySize
<1>1. REG_ZERO \in Reg /\ REG_PC \in Reg /\ REG_PC # REG_ZERO
  BY Widths DEF REG_ZERO
<1>2. CASE /\ NextPC < MemorySize
           /\ RegFile' = [ regs EXCEPT ![REG_PC] = NextPC ]
           /\ status' = status
  <2>1. /\ RegFile' \in [ Reg -> Word ]
        /\ RegFile'[REG_ZERO] = 0
        /\ RegFile'[REG_PC] = NextPC
    BY <1>1, <1>2
  <2> QED
    BY <1>2, <2>1 DEF PC
<1>3. CASE RegFile' = regs /\ status' = "trap_pc"
  BY <1>3
<1> QED
  BY <1>2, <1>3 DEF Advance

(* writeReg keeps r0 and never touches rpc. *)
LEMMA WriteRegKeeps ==
  ASSUME TypeOK, ZeroIsHardwired, status = "running",
         NEW idx \in Reg, NEW value \in Word, NEW NextPC \in Word,
         WriteReg(idx, value, NextPC)
  PROVE  /\ RegFile' \in [ Reg -> Word ]
         /\ RegFile'[REG_ZERO] = 0
         /\ status' \in { "running", "trap_pc", "trap_rpc" }
         /\ status' = "running" => PC' = NextPC /\ NextPC < MemorySize
<1> DEFINE regs == IF idx = REG_ZERO THEN RegFile ELSE [ RegFile EXCEPT ![idx] = value ]
<1>1. regs \in [ Reg -> Word ] /\ regs[REG_ZERO] = 0
  BY DEF TypeOK, ZeroIsHardwired
<1>2. CASE idx = REG_PC /\ status' = "trap_rpc" /\ RegFile' = RegFile
  BY <1>2 DEF TypeOK, ZeroIsHardwired
<1>3. CASE idx # REG_PC /\ Advance(regs, NextPC)
  <2> HIDE DEF regs
  <2> QED
    BY <1>1, <1>3, AdvanceKeeps
<1> QED
  BY <1>2, <1>3 DEF WriteReg

(* The conclusion of every step that keeps the binary running or traps. *)
LEMMA KeepsIInv ==
  ASSUME IInv, status = "running",
         RegFile' \in [ Reg -> Word ], RegFile'[REG_ZERO] = 0,
         status' \in TRAPS \cup { "running" },
         status' = "running" => PC' < MemorySize,
         Memory' \in [ 0 .. MemorySize - 1 -> Byte ],
         SimPixelColor' \in Word, SimPixelShape' \in Word, event' \in Events,
         Instrs' = Instrs
  PROVE  IInv'
BY DEF IInv, TypeOK, ZeroIsHardwired, FetchBound, BinarySize, TRAPS, PC

(* An exit that changes nothing but status. *)
LEMMA StopKeepsIInv ==
  ASSUME IInv, NEW how \in TRAPS \cup { "halted", "ub" }, status = "running", Stop(how)
  PROVE  IInv'
BY DEF IInv, TypeOK, ZeroIsHardwired, FetchBound, BinarySize, TRAPS, PC, Stop, pixel,
       Events, NoEvent

(* So is the exit of a store whose window was closed. *)
LEMMA CloseKeeps ==
  ASSUME IInv, CloseWindow
  PROVE  IInv'
BY DEF CloseWindow, Executing, IInv, TypeOK, ZeroIsHardwired, FetchBound, BinarySize, TRAPS,
       pixel, Events

-----------------------------------------------------------------------------

(* The simulator before run satisfies the invariant. *)
LEMMA InitIInv == Init => IInv
<1> SUFFICES ASSUME Init PROVE IInv
  OBVIOUS
<1>1. Instrs \in Seq(Word)
  BY SimAssumption DEF Init
<1> QED
  BY <1>1, Widths DEF Init, IInv, TypeOK, ZeroIsHardwired, FetchBound, Events, TRAPS,
                     REG_ZERO

(* So does the machine that run sets up, and a refused binary. *)
LEMMA StartKeeps == IInv /\ (TooSmall \/ Start) => IInv'
<1> SUFFICES ASSUME IInv, TooSmall \/ Start PROVE IInv'
  OBVIOUS
<1>1. CASE TooSmall
  BY <1>1 DEF TooSmall, Stop, pixel, IInv, TypeOK, ZeroIsHardwired, FetchBound, TRAPS,
              Events, NoEvent
<1>2. CASE Start
  <2>1. /\ Instrs' = Instrs /\ Instrs \in Seq(Word) /\ event' \in Events
        /\ status' = "running"
    BY <1>2 DEF Start, IInv, TypeOK
  <2>2. RegFile' \in [ Reg -> Word ] /\ RegFile'[REG_ZERO] = 0 /\ RegFile'[REG_PC] = 0
    BY <1>2, Widths, SimAssumption DEF Start, REG_SP, REG_BP, REG_PC, REG_ZERO, Reg
  <2>3. Memory' \in [ 0 .. MemorySize - 1 -> Byte ]
    BY <1>2, <2>1, ImageOfBytes DEF Start
  <2>4. SimPixelColor' \in Word /\ SimPixelShape' \in Word
    BY <1>2, Widths DEF Start, Word
  <2>5. /\ BinarySize <= MemorySize
        /\ 0 < MemorySize \/ Instrs = << >>
    <3>1. BinarySize <= MemorySize /\ MemorySize \in Nat /\ Len(Instrs) \in Nat
      BY <1>2, <2>1, SimAssumption, Widths DEF Start, BinarySize, Word
    <3>2. Len(Instrs) = 0 => Instrs = << >>
      BY <2>1
    <3> QED
      BY <3>1, <3>2 DEF BinarySize
  <2> QED
    BY <2>1, <2>2, <2>3, <2>4, <2>5
       DEF IInv, TypeOK, ZeroIsHardwired, FetchBound, BinarySize, PC, TRAPS
<1> QED
  BY <1>1, <1>2

(* The iterations that end in an exit before they change anything. *)
LEMMA ExitsKeep ==
  IInv /\ (Halt \/ FetchOverrun \/ IllegalOpcode \/ DivideByZero \/ AccessTrap \/ AccessOverrun)
    => IInv'
BY StopKeepsIInv DEF Halt, FetchOverrun, IllegalOpcode, DivideByZero, AccessTrap,
                     AccessOverrun, Executing, TRAPS

(* Arithmetic results go through writeReg and stay words. *)
LEMMA AluKeeps ==
  ASSUME BitsStayInWord(Word), IInv, ExecAlu
  PROVE  IInv'
<1>1. TypeOK /\ ZeroIsHardwired
  BY DEF IInv
<1>2. Executing(ALU_OPCODES)
  BY DEF ExecAlu
<1>3. AluOperand \in Word
  BY <1>1, <1>2, Fetched DEF AluOperand
<1>4. Alu(getOpcode(Ins), RegFile[r2Of(Ins)], AluOperand) \in Word
  <2>1. getOpcode(Ins) \in OPCODES
    BY <1>1, <1>2, Fetched DEF ALU_OPCODES
  <2> QED
    BY <1>1, <1>2, <1>3, <2>1, Fetched, AluIsWord DEF ExecAlu
<1>5. /\ RegFile' \in [ Reg -> Word ] /\ RegFile'[REG_ZERO] = 0
      /\ status' \in { "running", "trap_pc", "trap_rpc" }
      /\ status' = "running" => PC' < MemorySize
  BY <1>1, <1>2, <1>4, Fetched, WriteRegKeeps DEF ExecAlu
<1> QED
  BY <1>1, <1>2, <1>5, Fetched, KeepsIInv DEF ExecAlu, pixel, TypeOK, TRAPS, Events

(* A branch, taken or not, changes rpc only. *)
LEMMA BranchKeeps ==
  ASSUME IInv, ExecBranch
  PROVE  IInv'
<1> DEFINE taken == Taken(getOpcode(Ins), RegFile[r1Of(Ins)], RegFile[r2Of(Ins)])
           NextPC == IF taken THEN Target(PC, Ins) ELSE Sequential
<1>1. TypeOK /\ ZeroIsHardwired
  BY DEF IInv
<1>2. Executing(BRANCHES) /\ Advance(RegFile, NextPC)
  BY DEF ExecBranch
<1>3. NextPC \in Word
  BY <1>1, <1>2, Fetched
<1> HIDE DEF NextPC
<1>4. /\ RegFile' \in [ Reg -> Word ] /\ RegFile'[REG_ZERO] = 0
      /\ status' \in { "running", "trap_pc" }
      /\ status' = "running" => PC' < MemorySize
  BY <1>1, <1>2, <1>3, Fetched, AdvanceKeeps DEF TypeOK, ZeroIsHardwired
<1> QED
  BY <1>1, <1>2, <1>4, Fetched, KeepsIInv DEF ExecBranch, pixel, TypeOK, TRAPS, Events

(* A jump changes its link register and rpc. *)
LEMMA JalrKeeps ==
  ASSUME IInv, ExecJalr
  PROVE  IInv'
<1>1. TypeOK /\ ZeroIsHardwired
  BY DEF IInv
<1>2. Executing({ OPCODE.JALR })
  BY DEF ExecJalr
<1>3. /\ RegFile' \in [ Reg -> Word ] /\ RegFile'[REG_ZERO] = 0
      /\ status' \in { "running", "trap_pc", "trap_rpc" }
      /\ status' = "running" => PC' < MemorySize
  BY <1>1, <1>2, Fetched, WriteRegKeeps DEF ExecJalr
<1> QED
  BY <1>1, <1>2, <1>3, Fetched, KeepsIInv DEF ExecJalr, pixel, TypeOK, TRAPS, Events

(* What a load returns, from memory or from a device, is a word. *)
LEMMA LoadKeeps ==
  ASSUME IInv, ExecLoad
  PROVE  IInv'
<1>1. TypeOK /\ ZeroIsHardwired
  BY DEF IInv
<1>2. Executing({ OPCODE.LOAD })
  BY DEF ExecLoad
<1>3. PICK Res \in LoadResults(Addr) : WriteReg(r1Of(Ins), Res, Sequential)
  BY DEF ExecLoad
<1>4. Res \in Word
  <2>1. InMemory(Addr) \/ Addr \in READABLE
    BY DEF ExecLoad
  <2>2. CASE Addr \in READABLE
    BY <1>1, <1>3, <2>2, SimAssumption DEF LoadResults, READABLE, TypeOK
  <2>3. CASE InMemory(Addr) /\ Addr \notin READABLE
    <3>1. Res = ReadWord(Memory, Addr)
      BY <1>3, <2>3 DEF LoadResults, READABLE
    <3>2. Addr \in Nat /\ MemorySize \in Nat /\ Addr + 4 <= MemorySize
      BY <1>1, <1>2, <2>3, Fetched, SimAssumption, Widths DEF Word, InMemory
    <3> QED
      BY <1>1, <1>2, <3>1, <3>2, Fetched, ReadIsWord
  <2> QED
    BY <2>1, <2>2, <2>3
<1>5. /\ RegFile' \in [ Reg -> Word ] /\ RegFile'[REG_ZERO] = 0
      /\ status' \in { "running", "trap_pc", "trap_rpc" }
      /\ status' = "running" => PC' < MemorySize
  BY <1>1, <1>2, <1>3, <1>4, Fetched, WriteRegKeeps
<1> QED
  BY <1>1, <1>2, <1>5, Fetched, KeepsIInv DEF ExecLoad, pixel, TypeOK, TRAPS, Events

(* A store keeps memory made of bytes, whatever its alignment. *)
LEMMA StoreKeeps ==
  ASSUME IInv, ExecStore
  PROVE  IInv'
<1> DEFINE value == RegFile[r1Of(Ins)]
<1>1. TypeOK /\ ZeroIsHardwired
  BY DEF IInv
<1>2. Executing({ OPCODE.STORE })
  BY DEF ExecStore
<1>3. value \in Word /\ Addr \in Word
  BY <1>1, <1>2, Fetched
<1>4. Memory' \in [ 0 .. MemorySize - 1 -> Byte ]
  <2>1. CASE InMemory(Addr)
    <3>1. Addr \in Nat /\ MemorySize \in Nat /\ Addr + 4 <= MemorySize
      BY <1>3, <2>1, SimAssumption, Widths DEF Word, InMemory
    <3> QED
      BY <1>1, <1>2, <1>3, <2>1, <3>1, Fetched, LoadSeesStore DEF ExecStore
  <2>2. CASE ~InMemory(Addr)
    BY <1>1, <1>2, <2>2, Fetched DEF ExecStore
  <2> QED
    BY <2>1, <2>2
<1>5. event' \in Events
  <2>1. event' = StoreEvent(Addr, value)
    BY DEF ExecStore
  <2>2. value % BYTE \in Byte
    BY <1>3, Widths, ModRange DEF Byte, Word
  <2>3. value \div IMM_BASE \in 0 .. IMM_BASE - 1 /\ value % IMM_BASE \in 0 .. IMM_BASE - 1
    <3>1. value \in 0 .. IMM_BASE * IMM_BASE - 1 /\ IMM_BASE \in Nat /\ IMM_BASE > 0
      BY <1>3, Widths DEF Word
    <3> QED
      BY <3>1, DivRange, ModRange
  <2>4. SimPixelColor \in Word /\ SimPixelShape \in Word
    BY <1>1 DEF TypeOK
  <2> HIDE DEF value
  <2> QED
    BY <1>3, <2>1, <2>2, <2>3, <2>4 DEF StoreEvent, Events, NoEvent
<1>6. SimPixelColor' \in Word /\ SimPixelShape' \in Word
  BY <1>1, <1>3 DEF ExecStore, TypeOK
<1>7. /\ RegFile' \in [ Reg -> Word ] /\ RegFile'[REG_ZERO] = 0
      /\ status' \in { "running", "trap_pc" }
      /\ status' = "running" => PC' < MemorySize
  <2>1. Advance(RegFile, Sequential)
    BY DEF ExecStore
  <2> QED
    BY <1>1, <1>2, <2>1, Fetched, AdvanceKeeps DEF TypeOK, ZeroIsHardwired
<1> QED
  BY <1>1, <1>2, <1>4, <1>5, <1>6, <1>7, Fetched, KeepsIInv DEF ExecStore, TRAPS

(* Every step of the simulator keeps the invariant. *)
LEMMA StepKeepsIInv ==
  ASSUME BitsStayInWord(Word)
  PROVE  IInv /\ [Next]_vars => IInv'
<1> SUFFICES ASSUME IInv, [Next]_vars PROVE IInv'
  OBVIOUS
<1>1. CASE UNCHANGED vars
  BY <1>1 DEF vars, IInv, TypeOK, ZeroIsHardwired, FetchBound, BinarySize, PC
<1>2. CASE Exited
  BY <1>2 DEF Exited, vars, IInv, TypeOK, ZeroIsHardwired, FetchBound, BinarySize, PC
<1>3. CASE Step
  BY <1>3, StartKeeps, ExitsKeep, AluKeeps, BranchKeeps, JalrKeeps, LoadKeeps, StoreKeeps,
         CloseKeeps
     DEF Step
<1> QED
  BY <1>1, <1>2, <1>3 DEF Next

(* The inductive invariant holds of every execution, given only that the   *)
(* bitwise operators of the host return 32-bit words. *)
THEOREM Invariance ==
  ASSUME BitsStayInWord(Word)
  PROVE  Spec => []IInv
<1>1. Init => IInv
  BY InitIInv
<1>2. IInv /\ [Next]_vars => IInv'
  BY StepKeepsIInv
<1> QED
  BY <1>1, <1>2, PTL DEF Spec

(* Registers and memory stay in range and a status is one of the known     *)
(* ways to end; while the binary runs it fits the memory, and the program  *)
(* counter is an address of the memory (or nothing was loaded at all).     *)
THEOREM TypeCorrect ==
  ASSUME BitsStayInWord(Word)
  PROVE  Spec => [](TypeOK /\ FetchBound)
<1>1. IInv => TypeOK /\ FetchBound
  BY DEF IInv
<1> QED
  BY <1>1, Invariance, PTL

-----------------------------------------------------------------------------

(* r0 is zero in every execution. *)
THEOREM ZeroRegister ==
  ASSUME BitsStayInWord(Word)
  PROVE  Spec => []ZeroIsHardwired
<1>1. IInv => ZeroIsHardwired
  BY DEF IInv
<1> QED
  BY <1>1, Invariance, PTL

(* A binary that fills the memory never ends normally: it is accepted by   *)
(* the size check of run, but the address that would end the loop is the   *)
(* first one the range check refuses. *)
THEOREM FullMemory ==
  ASSUME BitsStayInWord(Word)
  PROVE  Spec => []FullMemoryNeverHalts
<1>1. Init => FullMemoryNeverHalts
  BY DEF Init, FullMemoryNeverHalts
<1>2. IInv /\ FullMemoryNeverHalts /\ [Next]_vars => FullMemoryNeverHalts'
  <2> SUFFICES ASSUME IInv, FullMemoryNeverHalts, [Next]_vars, status' = "halted",
                      Instrs' # << >>
               PROVE  BinarySize' < MemorySize
    BY DEF FullMemoryNeverHalts
  <2>1. CASE Halt
    BY <2>1 DEF Halt, Stop, IInv, FetchBound, BinarySize
  <2>2. CASE UNCHANGED vars \/ Exited
    BY <2>2 DEF vars, Exited, FullMemoryNeverHalts, BinarySize
  <2>3. CASE TooSmall \/ Start \/ FetchOverrun \/ IllegalOpcode \/ DivideByZero
               \/ AccessTrap \/ AccessOverrun \/ CloseWindow
    BY <2>3 DEF TooSmall, Start, FetchOverrun, IllegalOpcode, DivideByZero, AccessTrap,
                AccessOverrun, CloseWindow, Stop
  <2>4. CASE ExecAlu \/ ExecBranch \/ ExecJalr \/ ExecLoad \/ ExecStore
    BY <2>4 DEF ExecAlu, ExecBranch, ExecJalr, ExecLoad, ExecStore, Executing, WriteReg,
                Advance
  <2> QED
    BY <2>1, <2>2, <2>3, <2>4 DEF Next, Step
<1> QED
  BY <1>1, <1>2, Invariance, PTL DEF Spec

(* One step into undefined behaviour: the fetch, an access, or a division. *)
LEMMA WaysIntoUB ==
  ASSUME IInv, [Next]_vars, status' = "ub", status # "ub", MemorySize % 4 = 0
  PROVE  \/ PC % 4 # 0
         \/ Executing({ OPCODE.LOAD, OPCODE.STORE }) /\ Addr % 4 # 0
         \/ Executing(DIVIDING) /\ AluOperand = 0
<1>1. CASE FetchOverrun
  <2>1. PC \in Nat /\ MemorySize \in Nat
    BY Widths, SimAssumption DEF IInv, TypeOK, PC, Word
  <2>2. PC < MemorySize /\ PC + 4 > MemorySize
    BY <1>1 DEF FetchOverrun, IInv, FetchBound, BinarySize
  <2> QED
    BY <2>1, <2>2
<1>2. CASE DivideByZero
  BY <1>2 DEF DivideByZero
<1>3. CASE AccessOverrun
  <2>1. /\ Executing({ OPCODE.LOAD, OPCODE.STORE })
        /\ Addr < MemorySize /\ Addr + 4 > MemorySize
    BY <1>3 DEF AccessOverrun
  <2>2. Addr \in Nat /\ MemorySize \in Nat
    BY <2>1, Fetched, Widths, SimAssumption DEF IInv, Word
  <2>3. Addr % 4 # 0
    BY <2>1, <2>2
  <2> QED
    BY <2>1, <2>3
<1>4. CASE TooSmall \/ Start \/ Halt \/ IllegalOpcode \/ AccessTrap \/ CloseWindow
  BY <1>4 DEF TooSmall, Start, Halt, IllegalOpcode, AccessTrap, CloseWindow, Stop
<1>5. CASE ExecAlu \/ ExecBranch \/ ExecJalr \/ ExecLoad \/ ExecStore
  BY <1>5 DEF ExecAlu, ExecBranch, ExecJalr, ExecLoad, ExecStore, WriteReg, Advance
<1>6. CASE UNCHANGED vars \/ Exited
  BY <1>6 DEF Exited, vars
<1> QED
  BY <1>1, <1>2, <1>3, <1>4, <1>5, <1>6 DEF Next, Step

(* In a memory of whole words the machine reaches undefined behaviour only *)
(* by an unaligned fetch, an unaligned access or a divisor of zero.        *)
THEOREM OverrunUnaligned ==
  ASSUME BitsStayInWord(Word)
  PROVE  Spec => OverrunIsUnaligned
<1>1. IInv /\ [Next]_vars
        => [ status' = "ub" /\ status # "ub" /\ MemorySize % 4 = 0 =>
               \/ PC % 4 # 0
               \/ Executing({ OPCODE.LOAD, OPCODE.STORE }) /\ Addr % 4 # 0
               \/ Executing(DIVIDING) /\ AluOperand = 0 ]_vars
  BY WaysIntoUB
<1> QED
  BY <1>1, Invariance, PTL DEF Spec, OverrunIsUnaligned

(* The next instruction and a branch target are aligned when PC is. *)
LEMMA SuccessorsAligned ==
  ASSUME TypeOK, NEW opcodes, Executing(opcodes), PC % 4 = 0
  PROVE  Sequential % 4 = 0 /\ Target(PC, Ins) % 4 = 0
<1>1. PC \in Int /\ immOf(Ins) \in Int
  BY Fetched, Widths DEF Word
<1>2. (PC + 4) % 4 = 0 /\ PC + 4 \in Int
  BY <1>1
<1>3. (PC + immOf(Ins) * 4) % 4 = 0 /\ PC + immOf(Ins) * 4 \in Int
  BY <1>1
<1> QED
  BY <1>2, <1>3, WordIsAligned DEF Sequential, Target

(* One step from an aligned PC, jalr apart, leaves it aligned. *)
LEMMA StepKeepsAlignment ==
  ASSUME IInv, [Next]_vars, PC % 4 = 0, ~Executing({ OPCODE.JALR })
  PROVE  PC' % 4 = 0
<1>1. TypeOK /\ ZeroIsHardwired
  BY DEF IInv
<1>2. CASE UNCHANGED RegFile
  BY <1>2 DEF PC
<1>3. CASE Start
  BY <1>3, Widths DEF Start, PC, REG_PC, REG_SP, REG_BP
<1>4. CASE ExecAlu
  BY <1>1, <1>2, <1>4, SuccessorsAligned, Widths DEF ExecAlu, WriteReg, Advance, PC, TypeOK
<1>5. CASE ExecBranch
  <2> DEFINE taken == Taken(getOpcode(Ins), RegFile[r1Of(Ins)], RegFile[r2Of(Ins)])
  <2>1. Executing(BRANCHES)
        /\ Advance(RegFile, IF taken THEN Target(PC, Ins) ELSE Sequential)
    BY <1>5 DEF ExecBranch
  <2> HIDE DEF taken
  <2>2. Sequential % 4 = 0 /\ Target(PC, Ins) % 4 = 0
    BY <1>1, <2>1, SuccessorsAligned
  <2> QED
    BY <1>1, <1>2, <2>1, <2>2, Widths DEF Advance, PC, TypeOK
<1>6. CASE ExecLoad
  BY <1>1, <1>2, <1>6, SuccessorsAligned, Widths DEF ExecLoad, WriteReg, Advance, PC, TypeOK
<1>7. CASE ExecStore
  BY <1>1, <1>2, <1>7, SuccessorsAligned, Widths DEF ExecStore, Advance, PC, TypeOK
<1>8. CASE TooSmall \/ Halt \/ FetchOverrun \/ IllegalOpcode \/ DivideByZero
             \/ AccessTrap \/ AccessOverrun \/ CloseWindow \/ Exited
  BY <1>2, <1>8 DEF TooSmall, Halt, FetchOverrun, IllegalOpcode, DivideByZero, AccessTrap,
                    AccessOverrun, CloseWindow, Exited, Stop, vars
<1> QED
  BY <1>2, <1>3, <1>4, <1>5, <1>6, <1>7, <1>8 DEF Next, Step, ExecJalr, vars

(* Only jalr takes PC off a word boundary. *)
THEOREM Alignment ==
  ASSUME BitsStayInWord(Word)
  PROVE  Spec => AlignmentLostOnlyByJalr
<1>1. IInv /\ [Next]_vars
        => [ PC % 4 = 0 /\ PC' % 4 # 0 => Executing({ OPCODE.JALR }) ]_vars
  BY StepKeepsAlignment
<1> QED
  BY <1>1, Invariance, PTL DEF Spec, AlignmentLostOnlyByJalr

-----------------------------------------------------------------------------
(* The image of the binary *)

(* A word of the image that run loads is the word of the binary.           *)
LEMMA LoadedWord ==
  ASSUME Instrs \in Seq(Word), BinarySize <= MemorySize, NEW k \in 1 .. Len(Instrs)
  PROVE  ReadWord(LoadImage, 4 * (k - 1)) = Instrs[k]
<1> DEFINE pc == 4 * (k - 1)
<1>1. Len(Instrs) \in Nat /\ MemorySize \in Nat /\ k \in Nat /\ pc \in Nat /\ k - 1 \in Nat
  BY Widths, SimAssumption DEF Word
<1>2. pc + 4 <= BinarySize
  BY <1>1 DEF BinarySize
<1>3. \A i \in 0 .. 3 : /\ pc + i \in 0 .. MemorySize - 1 /\ pc + i < BinarySize
                        /\ (pc + i) \div 4 = k - 1 /\ (pc + i) % 4 = i
  BY <1>1, <1>2 DEF BinarySize
<1>4. ASSUME NEW i \in 0 .. 3
      PROVE  LoadImage[pc + i] = ByteOf(Instrs[k], i)
  <2> DEFINE a == pc + i
  <2>1. /\ a \in 0 .. MemorySize - 1 /\ a < BinarySize
        /\ (a \div 4) + 1 = k /\ a % 4 = i
    BY <1>1, <1>3
  <2> HIDE DEF a
  <2>2. LoadImage[a] = ByteOf(Instrs[(a \div 4) + 1], a % 4)
    BY <2>1 DEF LoadImage
  <2> QED
    BY <2>1, <2>2 DEF a
<1> HIDE DEF pc
<1>5. /\ LoadImage[pc]     = ByteOf(Instrs[k], 0)
      /\ LoadImage[pc + 1] = ByteOf(Instrs[k], 1)
      /\ LoadImage[pc + 2] = ByteOf(Instrs[k], 2)
      /\ LoadImage[pc + 3] = ByteOf(Instrs[k], 3)
  <2>1. pc + 0 = pc
    BY <1>1
  <2> QED
    BY <1>4, <2>1
<1>6. Instrs[k] \in Word
  BY <1>1
<1> QED
  BY <1>5, <1>6, BytesRebuildWord DEF ReadWord, pc

(* A store beside the binary leaves every word of it.                      *)
LEMMA StoreBesideImage ==
  ASSUME IInv, ImageIntact, ExecStore, ~StoresToImage
  PROVE  \A k \in 1 .. Len(Instrs) : ReadWord(Memory', 4 * (k - 1)) = Instrs[k]
<1> DEFINE value == RegFile[r1Of(Ins)]
<1>1. Executing({ OPCODE.STORE }) /\ TypeOK
  BY DEF ExecStore, IInv
<1>2. /\ value \in Word /\ Addr \in Nat /\ MemorySize \in Nat /\ Len(Instrs) \in Nat
      /\ Memory \in [ 0 .. MemorySize - 1 -> Byte ] /\ BinarySize <= MemorySize
  BY <1>1, Fetched, Widths, SimAssumption DEF Word, IInv, FetchBound, TypeOK
<1>3. Memory' = IF InMemory(Addr) THEN WriteWord(Memory, Addr, value) ELSE Memory
  BY DEF ExecStore
<1>4. CASE ~InMemory(Addr)
  BY <1>3, <1>4 DEF ImageIntact
<1>5. CASE InMemory(Addr)
  <2>1. Addr >= BinarySize /\ Addr + 4 <= MemorySize
    BY <1>1, <1>2, <1>5 DEF StoresToImage, InMemory, BinarySize
  <2> SUFFICES ASSUME NEW k \in 1 .. Len(Instrs)
               PROVE  ReadWord(WriteWord(Memory, Addr, value), 4 * (k - 1)) = Instrs[k]
    BY <1>3, <1>5
  <2>2. 4 * (k - 1) \in Nat /\ 4 * (k - 1) + 4 <= Addr /\ 4 * (k - 1) + 4 <= MemorySize
    BY <1>2, <2>1 DEF BinarySize
  <2> HIDE DEF value
  <2>3. ReadWord(WriteWord(Memory, Addr, value), 4 * (k - 1)) = ReadWord(Memory, 4 * (k - 1))
    BY <1>2, <2>1, <2>2, LoadSeesStore
  <2> QED
    BY <2>3 DEF ImageIntact
<1> QED
  BY <1>4, <1>5

(* What keeps the binary in memory through one step. *)
LEMMA ImageKept ==
  ASSUME IInv, [Next]_vars, status' = "running", status = "running" => ImageIntact,
         ~StoresToImage
  PROVE  ImageIntact'
<1>1. Instrs' = Instrs
  BY DEF Next, Step, TooSmall, Start, Halt, FetchOverrun, IllegalOpcode, DivideByZero,
         ExecAlu, ExecBranch, ExecJalr, AccessTrap, AccessOverrun, ExecLoad, ExecStore,
         CloseWindow, Exited, Stop, vars
<1> SUFFICES ASSUME NEW k \in 1 .. Len(Instrs)
             PROVE  ReadWord(Memory', 4 * (k - 1)) = Instrs[k]
  BY <1>1 DEF ImageIntact
<1>2. CASE Start
  BY <1>2, LoadedWord, SimAssumption, Widths DEF Start, IInv, TypeOK, BinarySize, Word
<1>3. CASE ExecStore
  BY <1>3, StoreBesideImage DEF ExecStore, Executing
<1>4. CASE ExecAlu \/ ExecBranch \/ ExecJalr \/ ExecLoad
  BY <1>4 DEF ExecAlu, ExecBranch, ExecJalr, ExecLoad, Executing, ImageIntact
<1>5. CASE UNCHANGED vars \/ Exited
  BY <1>5 DEF vars, Exited, ImageIntact
<1>6. CASE TooSmall \/ Halt \/ FetchOverrun \/ IllegalOpcode \/ DivideByZero
             \/ AccessTrap \/ AccessOverrun \/ CloseWindow
  BY <1>6 DEF TooSmall, Halt, FetchOverrun, IllegalOpcode, DivideByZero, AccessTrap,
              AccessOverrun, CloseWindow, Stop, TRAPS
<1> QED
  BY <1>2, <1>3, <1>4, <1>5, <1>6 DEF Next, Step

(* The machine executes the words of the binary until a store at an        *)
(* address inside it: from run's set-up on, every other step leaves each   *)
(* of them in memory where the fetch reads it.                             *)
THEOREM BinaryIntact ==
  ASSUME BitsStayInWord(Word)
  PROVE  Spec => ImageChangesOnlyByStore
<1>1. IInv /\ [Next]_vars
        => [ status' = "running" /\ (status = "running" => ImageIntact) /\ ~StoresToImage
               => ImageIntact' ]_vars
  BY ImageKept
<1> QED
  BY <1>1, Invariance, PTL DEF Spec, ImageChangesOnlyByStore
=============================================================================
