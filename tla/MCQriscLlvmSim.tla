--------------------------- MODULE MCQriscLlvmSim ---------------------------
(***************************************************************************)
(* Instances of QriscLlvmSim for TLC, on the machine of MCQriscSim: four   *)
(* registers, ten-bit immediates, a memory of a few words.                 *)
(***************************************************************************)
EXTENDS QriscLlvmSim, Bitwise

CONSTANT RegBound       \* a looping program whose registers leave it is not followed

MCAnd(a, b) == a & b
MCOr(a, b)  == a | b
MCXor(a, b) == a ^^ b

MCStdin == { 7, WORD - 1 }
MCRand  == { 3 }

R(op, r1, r2, r3)  == makeRInstr(op, r1, r2, r3)
I(op, r1, r2, imm) == makeIInstr(op, r1, r2, imm)
Device(addr)       == addr - WORD

zero == 0
sp   == 1
bp   == 2
pc   == 3

Straight ==
  { I(OPCODE.ADDI, sp, sp, 4),       I(OPCODE.ADDI, bp, zero, 2),
    R(OPCODE.SUB, bp, pc, sp),       R(OPCODE.DIVU, sp, sp, bp),
    I(OPCODE.LUI, bp, zero, 3),      I(OPCODE.SUBI, bp, bp, 1),
    I(OPCODE.LOAD, sp, bp, 8),       I(OPCODE.STORE, sp, zero, 16),
    I(OPCODE.STORE, bp, sp, 8),
    I(OPCODE.LOAD, zero, zero, Device(MMIO_IO_STDIN)),
    I(OPCODE.STORE, bp, zero, Device(MMIO_SIM_PIXEL_SHAPE)),
    I(OPCODE.STORE, sp, zero, Device(MMIO_SIM_SET_PIXEL)),
    I(OPCODE.STORE, sp, zero, Device(MMIO_SIM_DISPLAY)),
    I(OPCODE.STORE, sp, zero, Device(MMIO_SIM_RAND)) }

Transfer ==
  { I(OPCODE.BEQ, zero, zero, 2),    I(OPCODE.BGT, sp, bp, 1),
    I(OPCODE.BGE, bp, sp, -1),       I(OPCODE.BLE, sp, bp, 0),
    I(OPCODE.JALR, zero, pc, 2),     I(OPCODE.JALR, zero, pc, -1),
    I(OPCODE.BLT, bp, sp, 3) }

Special ==
  { 0, I(OPCODE.BNE, sp, bp, 1),     I(OPCODE.JALR, zero, sp, 1),
    I(OPCODE.JALR, sp, pc, 1),       R(OPCODE.SLT, bp, sp, zero),
    I(OPCODE.SLTI, bp, sp, -2),      R(OPCODE.SLTU, sp, sp, bp),
    I(OPCODE.ADDI, pc, sp, 1),       I(OPCODE.STORE, sp, zero, 0),
    I(OPCODE.LUI, sp, bp, 3) }

Pool == Straight \cup Transfer \cup Special

Core == Transfer \cup { 0, I(OPCODE.ADDI, sp, sp, 4), I(OPCODE.SUBI, bp, bp, 1) }

Loops ==
  { I(OPCODE.BLE, sp, bp, 0),        I(OPCODE.BGE, bp, sp, -1),
    I(OPCODE.JALR, zero, pc, -1),    I(OPCODE.BEQ, zero, zero, 2) }

MCPrograms ==
  UNION { { << >> }, { << a >> : a \in Pool }, { << a, b >> : a, b \in Pool },
          { << a, b, c >> : a, b, c \in Core },
          { << I(OPCODE.SUBI, bp, bp, 1), a, b, c >> : a, b, c \in Loops } }

(* Programs that only go forward end whatever their registers hold.        *)
RegistersBounded ==
  (\E a \in Transfers : Dest(a) <= a) =>
    \A r \in Reg : LET v == SimRegFile[r] IN
      v <= RegBound \/ v >= WORD - RegBound \/ v \in Pool \/ v \div IMM_BASE = 3
=============================================================================
