------------------------------ MODULE QriscSim ------------------------------
(***************************************************************************)
(* The interpreter qrisc-sim (asm/src/qrisc-sim.cpp): class Simulator and  *)
(* its loop Simulator::run.  One action is one iteration of the loop, from *)
(* the fetch to the write of rpc, for one class of instructions; each exit *)
(* of the program is a terminal value of status.                           *)
(*                                                                         *)
(* Undefined behaviour (a division by zero, a four-byte access that        *)
(* overruns the vector Memory) ends the behaviour in status "ub": nothing  *)
(* is said of what the process does after it.                              *)
(***************************************************************************)
EXTENDS QriscIsa, Sequences

CONSTANTS
  Programs,     \* binaries the assembler may hand over: sequences of words
  MemorySize,   \* --memory-size, in bytes
  StackAddr,    \* --stack-addr
  StdinValues,  \* what getchar() may return: a byte, or EOF = -1
  RandValues    \* what sim_rand() may return

ASSUME SimAssumption ==
  /\ Programs \subseteq Seq(Word)
  /\ MemorySize \in Word /\ StackAddr \in Word
  /\ StdinValues \subseteq Word /\ RandValues \subseteq Word

VARIABLES
  Instrs,         \* the binary, parameter of run
  RegFile,        \* register index -> word
  Memory,         \* address -> byte
  SimPixelColor,
  SimPixelShape,
  status,         \* "start", "running", or how the process ended
  event           \* what the last iteration did to a device

vars == << Instrs, RegFile, Memory, SimPixelColor, SimPixelShape, status, event >>
pixel == << SimPixelColor, SimPixelShape >>

TRAPS   == { "trap_memory", "trap_mmio", "trap_opcode", "trap_rpc", "trap_pc" }
Stopped == status \in TRAPS \cup { "halted", "too_small", "closed", "ub" }

BinarySize == 4 * Len(Instrs)
PC         == RegFile[REG_PC]
Ins        == ReadWord(Memory, PC)

-----------------------------------------------------------------------------

(* Seeded faults: a vector one byte too long; the bytes of a word reversed.*)
LoadImageTooLong ==
  [ a \in 0 .. MemorySize |->
      IF a < BinarySize THEN ByteOf(Instrs[(a \div 4) + 1], a % 4) ELSE 0 ]
LoadImageBigEndian ==
  [ a \in 0 .. MemorySize - 1 |->
      IF a < BinarySize THEN ByteOf(Instrs[(a \div 4) + 1], 3 - (a % 4)) ELSE 0 ]

LoadImage ==
  [ a \in 0 .. MemorySize - 1 |->
      IF a < BinarySize THEN ByteOf(Instrs[(a \div 4) + 1], a % 4) ELSE 0 ]

Init ==
  /\ Instrs \in Programs
  /\ RegFile = [ r \in Reg |-> 0 ]
  /\ Memory = << >>
  /\ SimPixelColor = 0 /\ SimPixelShape = 0     \* indeterminate, set by run before any read
  /\ status = "start"
  /\ event = NoEvent

Stop(how) ==
  /\ status' = how
  /\ event' = NoEvent
  /\ UNCHANGED << Instrs, RegFile, Memory, pixel >>

(* The set-up of run: the size check, the registers and the image.         *)
TooSmall == status = "start" /\ MemorySize < BinarySize /\ Stop("too_small")

Start ==
  /\ status = "start"
  /\ MemorySize >= BinarySize
  /\ status' = "running"
  /\ SimPixelColor' = WORD - 1
  /\ SimPixelShape' = 32
  /\ RegFile' = [ r \in Reg |-> IF r \in { REG_SP, REG_BP } THEN StackAddr ELSE 0 ]
  /\ Memory' = LoadImage
  /\ UNCHANGED << Instrs, event >>

Halt == status = "running" /\ PC = BinarySize /\ Stop("halted")

(* readUintFromMemory(PC) reads four bytes wherever PC is.                 *)
FetchOverrun ==
  /\ status = "running" /\ PC # BinarySize
  /\ PC + 4 > MemorySize
  /\ Stop("ub")

Executing(opcodes) ==
  /\ status = "running" /\ PC # BinarySize
  /\ PC + 4 <= MemorySize
  /\ getOpcode(Ins) \in opcodes

-----------------------------------------------------------------------------
(* The end of an iteration: the range check of NextPC, then rpc.           *)

(* Seeded faults: the check off by one; no check at all.                   *)
AdvanceOffByOne(regs, NextPC) ==
  \/ /\ NextPC <= MemorySize
     /\ RegFile' = [ regs EXCEPT ![REG_PC] = NextPC ]
     /\ UNCHANGED status
  \/ /\ NextPC > MemorySize
     /\ RegFile' = regs
     /\ status' = "trap_pc"
AdvanceUnchecked(regs, NextPC) ==
  RegFile' = [ regs EXCEPT ![REG_PC] = NextPC ] /\ UNCHANGED status

Advance(regs, NextPC) ==
  \/ /\ NextPC < MemorySize
     /\ RegFile' = [ regs EXCEPT ![REG_PC] = NextPC ]
     /\ UNCHANGED status
  \/ /\ NextPC >= MemorySize
     /\ RegFile' = regs
     /\ status' = "trap_pc"

(* Seeded fault: r0 is written like any other register.                    *)
WriteRegEvenZero(idx, value, NextPC) ==
  \/ /\ idx = REG_PC
     /\ status' = "trap_rpc"
     /\ UNCHANGED RegFile
  \/ /\ idx # REG_PC
     /\ Advance([ RegFile EXCEPT ![idx] = value ], NextPC)

(* writeReg: r0 ignores the write, rpc traps before anything else happens. *)
WriteReg(idx, value, NextPC) ==
  \/ /\ idx = REG_PC
     /\ status' = "trap_rpc"
     /\ UNCHANGED RegFile
  \/ /\ idx # REG_PC
     /\ Advance(IF idx = REG_ZERO THEN RegFile ELSE [ RegFile EXCEPT ![idx] = value ],
                NextPC)

Sequential == (PC + 4) % WORD

-----------------------------------------------------------------------------
(* One iteration per class of instruction *)

IllegalOpcode == Executing((0 .. OPCODE_BASE - 1) \ OPCODES) /\ Stop("trap_opcode")

AluOperand ==
  IF getOpcode(Ins) \in R_OPCODES THEN RegFile[r3Of(Ins)] ELSE immOf(Ins)

DIVIDING == { op \in ALU_OPCODES : Divides(op) }

DivideByZero ==
  /\ Executing(DIVIDING)
  /\ AluOperand = 0
  /\ Stop("ub")

ExecAlu ==
  /\ Executing(ALU_OPCODES)
  /\ ~(Divides(getOpcode(Ins)) /\ AluOperand = 0)
  /\ WriteReg(r1Of(Ins), Alu(getOpcode(Ins), RegFile[r2Of(Ins)], AluOperand), Sequential)
  /\ event' = NoEvent
  /\ UNCHANGED << Instrs, Memory, pixel >>

(* Seeded fault: a branch not taken does not move on.                      *)
ExecBranchStays ==
  /\ Executing(BRANCHES)
  /\ Advance(RegFile,
             IF Taken(getOpcode(Ins), RegFile[r1Of(Ins)], RegFile[r2Of(Ins)])
               THEN Target(PC, Ins) ELSE PC)
  /\ event' = NoEvent
  /\ UNCHANGED << Instrs, Memory, pixel >>

ExecBranch ==
  /\ Executing(BRANCHES)
  /\ Advance(RegFile,
             IF Taken(getOpcode(Ins), RegFile[r1Of(Ins)], RegFile[r2Of(Ins)])
               THEN Target(PC, Ins) ELSE Sequential)
  /\ event' = NoEvent
  /\ UNCHANGED << Instrs, Memory, pixel >>

(* The target is computed before the link register is written, and the     *)
(* link is the address of the jalr itself.                                 *)
ExecJalr ==
  /\ Executing({ OPCODE.JALR })
  /\ WriteReg(r1Of(Ins), PC, Target(RegFile[r2Of(Ins)], Ins))
  /\ event' = NoEvent
  /\ UNCHANGED << Instrs, Memory, pixel >>

-----------------------------------------------------------------------------
(* Loads and stores *)

Addr == (RegFile[r2Of(Ins)] + immOf(Ins)) % WORD

READABLE == { MMIO_IO_STDIN, MMIO_SIM_PIXEL_COLOR, MMIO_SIM_PIXEL_SHAPE, MMIO_SIM_RAND }
WRITABLE == { MMIO_IO_STDOUT, MMIO_SIM_CLEAR, MMIO_SIM_DISPLAY, MMIO_SIM_PIXEL_COLOR,
              MMIO_SIM_PIXEL_SHAPE, MMIO_SIM_SET_PIXEL }

AccessTrap ==
  /\ Executing({ OPCODE.LOAD, OPCODE.STORE })
  /\ \/ ~IsMmio(Addr) /\ Addr >= MemorySize /\ Stop("trap_memory")
     \/ /\ IsMmio(Addr)
        /\ Addr \notin (IF getOpcode(Ins) = OPCODE.LOAD THEN READABLE ELSE WRITABLE)
        /\ Stop("trap_mmio")

(* The check is on the first byte only: an access at one of the last three *)
(* addresses reaches past the end of the vector.                           *)
InMemory(addr)  == ~IsMmio(addr) /\ addr + 4 <= MemorySize
AccessOverrun ==
  /\ Executing({ OPCODE.LOAD, OPCODE.STORE })
  /\ ~IsMmio(Addr) /\ Addr < MemorySize /\ Addr + 4 > MemorySize
  /\ Stop("ub")

LoadResults(addr) ==
  CASE addr = MMIO_IO_STDIN        -> StdinValues
    [] addr = MMIO_SIM_RAND        -> RandValues
    [] addr = MMIO_SIM_PIXEL_COLOR -> { SimPixelColor }
    [] addr = MMIO_SIM_PIXEL_SHAPE -> { SimPixelShape }
    [] OTHER                       -> { ReadWord(Memory, addr) }

ExecLoad ==
  /\ Executing({ OPCODE.LOAD })
  /\ InMemory(Addr) \/ Addr \in READABLE
  /\ \E Res \in LoadResults(Addr) : WriteReg(r1Of(Ins), Res, Sequential)
  /\ event' = NoEvent
  /\ UNCHANGED << Instrs, Memory, pixel >>

StoreEvent(addr, value) ==
  CASE addr = MMIO_IO_STDOUT     -> << "stdout", value % BYTE >>
    [] addr = MMIO_SIM_CLEAR     -> << "clear", value >>
    [] addr = MMIO_SIM_DISPLAY   -> << "display" >>
    [] addr = MMIO_SIM_SET_PIXEL -> << "set_pixel", value \div IMM_BASE, value % IMM_BASE,
                                       SimPixelColor, SimPixelShape >>
    [] OTHER                     -> NoEvent

(* A store into the binary changes what is executed next.                  *)
ExecStore ==
  /\ Executing({ OPCODE.STORE })
  /\ InMemory(Addr) \/ Addr \in WRITABLE
  /\ LET value == RegFile[r1Of(Ins)] IN
       /\ Memory' = IF InMemory(Addr) THEN WriteWord(Memory, Addr, value) ELSE Memory
       /\ SimPixelColor' = IF Addr = MMIO_SIM_PIXEL_COLOR THEN value ELSE SimPixelColor
       /\ SimPixelShape' = IF Addr = MMIO_SIM_PIXEL_SHAPE THEN value ELSE SimPixelShape
       /\ event' = StoreEvent(Addr, value)
  /\ Advance(RegFile, Sequential)
  /\ UNCHANGED Instrs

(* sim_display shows the frame and then handles the window's events: if    *)
(* the user has closed it, the store does not return.                      *)
CloseWindow ==
  /\ Executing({ OPCODE.STORE })
  /\ Addr = MMIO_SIM_DISPLAY
  /\ status' = "closed"
  /\ event' = << "display" >>
  /\ UNCHANGED << Instrs, RegFile, Memory, pixel >>

-----------------------------------------------------------------------------

Step ==
  \/ TooSmall \/ Start \/ Halt \/ FetchOverrun
  \/ IllegalOpcode \/ DivideByZero \/ ExecAlu \/ ExecBranch \/ ExecJalr
  \/ AccessTrap \/ AccessOverrun \/ ExecLoad \/ ExecStore \/ CloseWindow

Exited == Stopped /\ UNCHANGED vars         \* the process is gone

Next == Step \/ Exited

(* One thread that nothing can block: a step that can be taken is taken.   *)
Spec == Init /\ [][Next]_vars /\ WF_vars(Step)

-----------------------------------------------------------------------------
(* The type invariant. *)
TypeOK ==
  /\ Instrs \in Seq(Word)
  /\ RegFile \in [ Reg -> Word ]
  /\ IF status \in { "start", "too_small" } THEN Memory = << >>
                                            ELSE Memory \in [ 0 .. MemorySize - 1 -> Byte ]
  /\ SimPixelColor \in Word /\ SimPixelShape \in Word
  /\ status \in TRAPS \cup { "start", "running", "halted", "too_small", "closed", "ub" }
  /\ event \in Events

(* r0 reads as zero whatever an instruction, a load or a link writes to it *)
(* (writeReg is the only writer besides run's own update of rpc).          *)
ZeroIsHardwired == RegFile[REG_ZERO] = 0

(* The loop ends at PC = BinarySize, but the range check of NextPC comes   *)
(* first: a binary that fills the memory, which the size check of run      *)
(* accepts, can trap or run for ever and can never end normally.           *)
FullMemoryNeverHalts ==
  status = "halted" /\ Instrs # << >> => BinarySize < MemorySize

(* The checks of run, handleLoad and handleStore look at one byte and none *)
(* looks at a divisor.  In a memory of whole words that leaves three ways  *)
(* into undefined behaviour and no other: a fetch or an access off a word  *)
(* boundary, and a divisor of zero.                                        *)
OverrunIsUnaligned ==
  [][ status' = "ub" /\ status # "ub" /\ MemorySize % 4 = 0 =>
        \/ PC % 4 # 0
        \/ Executing({ OPCODE.LOAD, OPCODE.STORE }) /\ Addr % 4 # 0
        \/ Executing(DIVIDING) /\ AluOperand = 0 ]_vars

(* Only jalr can take the machine off word alignment: branches, the        *)
(* wrap-around of 32-bit addresses included, keep PC a multiple of four.   *)
AlignmentLostOnlyByJalr ==
  [][ PC % 4 = 0 /\ PC' % 4 # 0 => Executing({ OPCODE.JALR }) ]_vars

(* The machine executes the words the assembler produced until a store at *)
(* an address inside the binary replaces one: the set-up of run, the other *)
(* stores (next to the binary and unaligned ones included) and every other *)
(* instruction leave them in memory as they were.                          *)
ImageIntact   == \A k \in 1 .. Len(Instrs) : ReadWord(Memory, 4 * (k - 1)) = Instrs[k]
StoresToImage == Executing({ OPCODE.STORE }) /\ InMemory(Addr) /\ Addr < BinarySize

ImageChangesOnlyByStore ==
  [][ status' = "running" /\ (status = "running" => ImageIntact) /\ ~StoresToImage
        => ImageIntact' ]_vars

(* Liveness: a binary whose only control flow is branches forward ends, by *)
(* falling off its end or by a trap, in whatever order its branches fall.  *)
ForwardOnly ==
  \A i \in 1 .. Len(Instrs) :
    /\ getOpcode(Instrs[i]) \notin { OPCODE.STORE, OPCODE.JALR }
    /\ isBranch(Instrs[i]) => immOf(Instrs[i]) \in 1 .. IMM_BASE \div 2

ForwardProgramsStop == (status = "start" /\ ForwardOnly) ~> Stopped

-----------------------------------------------------------------------------
(* What asm/qrisc.md says of an instruction that the simulator executes    *)
(* otherwise.  TLC refutes it.                                             *)

(* "(r1, next_pc) = (pc + 4, ...)": a jalr links to the next instruction,  *)
(* so that ret (jalr zero, ra, 0) resumes after the call.                  *)
DocJalrLinksNext ==
  [][ Executing({ OPCODE.JALR }) /\ status' = "running" /\ r1Of(Ins) # REG_ZERO
        => RegFile'[r1Of(Ins)] = Sequential ]_vars
=============================================================================
