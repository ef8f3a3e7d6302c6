---------------------------- MODULE MCQriscSim ----------------------------
(***************************************************************************)
(* Instances of QriscSim for TLC: a machine of four registers (zero, sp,   *)
(* bp, pc), ten-bit immediates, 20-bit words and a memory of a few words.  *)
(***************************************************************************)
EXTENDS QriscSim, Bitwise

CONSTANT RegBound       \* states whose registers leave it are not expanded

MCAnd(a, b) == a & b
MCOr(a, b)  == a | b
MCXor(a, b) == a ^^ b

EOFWord  == WORD - 1
MCStdin  == { 7, EOFWord }
MCRand   == { 3, WORD - 5 }

R(op, r1, r2, r3)  == makeRInstr(op, r1, r2, r3)
I(op, r1, r2, imm) == makeIInstr(op, r1, r2, imm)
Device(addr)       == addr - WORD       \* reached from r0 by a negative immediate

zero == 0
sp   == 1
bp   == 2
rpc  == 3

Arithmetic ==
  { I(OPCODE.ADDI, sp, sp, 4),       I(OPCODE.ADDI, bp, zero, 2),
    I(OPCODE.ADDI, sp, sp, 1),       I(OPCODE.SUBI, bp, bp, 3),
    R(OPCODE.SUB, sp, bp, sp),       R(OPCODE.MUL, bp, bp, bp),
    I(OPCODE.MULI, zero, sp, 3),     R(OPCODE.DIVU, sp, sp, bp),
    I(OPCODE.DIVIU, sp, sp, 0),      I(OPCODE.DIVIU, bp, sp, -1),
    I(OPCODE.REMIU, bp, sp, -3),     R(OPCODE.SLT, sp, sp, bp),
    I(OPCODE.SLTIU, bp, sp, -1),     I(OPCODE.LUI, bp, sp, 3),
    I(OPCODE.ANDI, sp, bp, 6),       I(OPCODE.ORI, bp, sp, 3),
    R(OPCODE.XOR, sp, sp, bp),       R(OPCODE.ADD, bp, rpc, zero),
    I(OPCODE.ADDI, rpc, zero, 4) }

Accesses ==
  { I(OPCODE.LOAD, bp, sp, 0),       I(OPCODE.LOAD, zero, bp, 2),
    I(OPCODE.LOAD, sp, zero, 0),     I(OPCODE.STORE, bp, sp, 0),
    I(OPCODE.STORE, sp, zero, 4),    I(OPCODE.STORE, sp, bp, 2),
    I(OPCODE.LOAD, sp, zero, Device(MMIO_IO_STDIN)),
    I(OPCODE.LOAD, bp, zero, Device(MMIO_SIM_RAND)),
    I(OPCODE.LOAD, bp, zero, Device(MMIO_SIM_PIXEL_COLOR)),
    I(OPCODE.LOAD, rpc, zero, Device(MMIO_SIM_PIXEL_SHAPE)),
    I(OPCODE.LOAD, sp, zero, Device(MMIO_IO_STDOUT)),
    I(OPCODE.STORE, sp, zero, Device(MMIO_IO_STDOUT)),
    I(OPCODE.STORE, sp, zero, Device(MMIO_SIM_CLEAR)),
    I(OPCODE.STORE, sp, zero, Device(MMIO_SIM_DISPLAY)),
    I(OPCODE.STORE, bp, zero, Device(MMIO_SIM_PIXEL_COLOR)),
    I(OPCODE.STORE, bp, zero, Device(MMIO_SIM_PIXEL_SHAPE)),
    I(OPCODE.STORE, sp, zero, Device(MMIO_SIM_SET_PIXEL)),
    I(OPCODE.STORE, sp, zero, Device(MMIO_SIM_RAND)) }

Control ==
  { I(OPCODE.BEQ, zero, zero, 2),    I(OPCODE.BNE, sp, bp, -1),
    I(OPCODE.BGT, sp, bp, 2),        I(OPCODE.BGE, bp, sp, 3),
    I(OPCODE.BLT, bp, sp, -2),       I(OPCODE.BLE, sp, bp, -1),
    I(OPCODE.JALR, sp, zero, 2),     I(OPCODE.JALR, zero, sp, 0),
    I(OPCODE.JALR, zero, sp, 1),     I(OPCODE.JALR, rpc, zero, 0),
    0 }

Pool == Arithmetic \cup Accesses \cup Control

(* Three-instruction programs are drawn from a smaller pool: what builds   *)
(* addresses, what stores into the image, and every kind of transfer.      *)
Core ==
  { I(OPCODE.ADDI, sp, sp, 4),       I(OPCODE.ADDI, bp, zero, 2),
    I(OPCODE.SUBI, bp, bp, 3),       R(OPCODE.DIVU, sp, sp, bp),
    I(OPCODE.LOAD, bp, sp, 0),       I(OPCODE.LOAD, sp, zero, 0),
    I(OPCODE.STORE, bp, sp, 0),      I(OPCODE.STORE, sp, zero, 4) } \cup Control

(* Longer programs: two that fill the memory, a call and its return and a  *)
(* straight line, a counted loop, a program that copies its own first      *)
(* instruction over its last, and one that is too large.                   *)
Routines ==
  { << I(OPCODE.ADDI, bp, zero, 2), I(OPCODE.BNE, sp, bp, 1),
       I(OPCODE.SUBI, bp, bp, 3), I(OPCODE.ADDI, sp, sp, 4) >>,
    << I(OPCODE.JALR, sp, zero, 3), I(OPCODE.ADDI, bp, zero, 2), 0,
       I(OPCODE.JALR, zero, sp, 1) >>,
    << I(OPCODE.ADDI, bp, zero, 3), I(OPCODE.SUBI, bp, bp, 1),
       I(OPCODE.BNE, bp, zero, -1) >>,
    << I(OPCODE.LOAD, bp, zero, 0), I(OPCODE.STORE, bp, zero, 8), 0 >>,
    << 0, 0, 0, 0, 0 >> }

(* Programs that only go forward: these must end, whatever they load.      *)
Forward ==
  { I(OPCODE.BEQ, zero, zero, 2),    I(OPCODE.BNE, sp, bp, 1),
    I(OPCODE.BGT, sp, bp, 2),        I(OPCODE.BGE, bp, sp, 3),
    I(OPCODE.BLE, sp, bp, 511) }
ForwardPrograms ==
  LET Loads == { ins \in Accesses : getOpcode(ins) = OPCODE.LOAD }
      Any   == Forward \cup Loads \cup Arithmetic
  IN  { << a, b, c >> : a \in Any, b \in Forward \cup Loads, c \in Any }

MCPrograms ==
  { << >> } \cup { << a >> : a \in Pool } \cup { << a, b >> : a, b \in Pool }
    \cup { << a, b, c >> : a, b, c \in Core } \cup Routines \cup ForwardPrograms

(* The liveness property is about programs that the bound leaves alone.    *)
RegistersBounded ==
  ~ForwardOnly =>
    \A r \in Reg : LET v == RegFile[r] IN
      v <= RegBound \/ v >= WORD - RegBound \/ v \in Pool \/ v \div IMM_BASE = 3
=============================================================================
