------------------------------ MODULE QriscIsa ------------------------------
(***************************************************************************)
(* The qrisc instruction set as asm/src/Instr.h defines it: opcodes, the   *)
(* two encodings, the decoding of every field, the arithmetic of the       *)
(* instructions and the layout of a word in byte memory.  The assembler    *)
(* and both simulators are built from these operators.                     *)
(*                                                                         *)
(* A machine word is the number it encodes, in Word, so that an address, a *)
(* register value and an instruction are the same thing here as in the     *)
(* C++ (reg_t, instr_t = uint32_t): a program may store an instruction and *)
(* then execute it.  The widths are constants.  The real machine is        *)
(* REG_COUNT = 32, IMM_BASE = 2^16, BYTE = 2^8, MMIO_SIZE = 2^8; the       *)
(* theorems hold for all widths, TLC runs a narrow one.                    *)
(***************************************************************************)
EXTENDS Integers

CONSTANTS
  REG_COUNT,      \* number of registers, 32 in the code
  IMM_BASE,       \* INSTR_IMM_MASK + 1: values of an immediate field
  BYTE,           \* values of a byte of memory; a word is four bytes
  MMIO_SIZE,      \* size of the window ~MMIO_MASK + 1 at the top of memory
  BitAnd(_, _),   \* the C++ operators & | ^ on uint32_t
  BitOr(_, _),
  BitXor(_, _)

OPCODE_BASE == 64                       \* an opcode is the top six bits

WORD == OPCODE_BASE * REG_COUNT * REG_COUNT * IMM_BASE
Word == 0 .. WORD - 1
Reg  == 0 .. REG_COUNT - 1

ASSUME WidthAssumption ==
  /\ REG_COUNT \in Nat /\ REG_COUNT >= 4
  /\ IMM_BASE \in Nat /\ IMM_BASE % REG_COUNT = 0 /\ IMM_BASE >= REG_COUNT
  /\ IMM_BASE % 2 = 0 /\ IMM_BASE * IMM_BASE = WORD
  /\ BYTE \in Nat /\ BYTE >= 2 /\ BYTE * BYTE * BYTE * BYTE = WORD
  /\ MMIO_SIZE \in 22 .. WORD - 1

(* What the theorems need of the bitwise operators: they stay inside a     *)
(* word.  TLC cannot enumerate pairs of words; it evaluates this on the    *)
(* values its programs use.                                                *)
BitsStayInWord(values) ==
  \A a, b \in values : /\ BitAnd(a, b) \in Word
                       /\ BitOr(a, b)  \in Word
                       /\ BitXor(a, b) \in Word

-----------------------------------------------------------------------------
(* Registers and opcodes *)

REG_ZERO == 0
REG_SP   == REG_COUNT - 3
REG_BP   == REG_COUNT - 2
REG_PC   == REG_COUNT - 1

OPCODE == [ ADD  |-> 1,  ADDI |-> 2,  AND  |-> 3,  ANDI  |-> 4,  OR    |-> 5,
            ORI  |-> 6,  XOR  |-> 7,  XORI |-> 8,  SUB   |-> 9,  SUBI  |-> 10,
            MUL  |-> 11, MULI |-> 12, DIVU |-> 13, DIVIU |-> 14, REMU  |-> 15,
            REMIU |-> 16, SLT |-> 17, SLTU |-> 18, SLTI  |-> 19, SLTIU |-> 20,
            LUI  |-> 21, LOAD |-> 22, STORE |-> 23,
            BEQ  |-> 40, BNE  |-> 41, BGT  |-> 42, BGE   |-> 43, BLT   |-> 44,
            BLE  |-> 45, JALR |-> 46 ]

R_OPCODES  == { OPCODE.ADD, OPCODE.AND, OPCODE.OR, OPCODE.XOR, OPCODE.SUB,
                OPCODE.MUL, OPCODE.DIVU, OPCODE.REMU, OPCODE.SLT, OPCODE.SLTU }
SI_OPCODES == { OPCODE.ADDI, OPCODE.ANDI, OPCODE.ORI, OPCODE.XORI, OPCODE.SUBI,
                OPCODE.MULI, OPCODE.SLTI, OPCODE.BEQ, OPCODE.BNE, OPCODE.BGT,
                OPCODE.BGE, OPCODE.BLT, OPCODE.BLE, OPCODE.JALR, OPCODE.LOAD,
                OPCODE.STORE }
UI_OPCODES == { OPCODE.DIVIU, OPCODE.REMIU, OPCODE.SLTIU, OPCODE.LUI }
OPCODES    == R_OPCODES \cup SI_OPCODES \cup UI_OPCODES
BRANCHES   == { OPCODE.BEQ, OPCODE.BNE, OPCODE.BGT, OPCODE.BGE, OPCODE.BLT, OPCODE.BLE }

(* The instructions whose only effect is r1 = r2 <op> (r3 or imm).         *)
ALU_OPCODES == OPCODES \ (BRANCHES \cup { OPCODE.LOAD, OPCODE.STORE, OPCODE.JALR })

-----------------------------------------------------------------------------
(* Encoding *)

makeRInstr(opcode, r1, r2, r3) ==
  ((opcode * REG_COUNT + r1) * REG_COUNT + r2) * IMM_BASE + r3 * (IMM_BASE \div REG_COUNT)

(* The immediate is masked to its field, whatever its sign.                *)
makeIInstr(opcode, r1, r2, imm) ==
  ((opcode * REG_COUNT + r1) * REG_COUNT + r2) * IMM_BASE + (imm % IMM_BASE)

(* Decoding *)

getOpcode(ins) == ins \div (REG_COUNT * REG_COUNT * IMM_BASE)
r1Of(ins)      == (ins \div (REG_COUNT * IMM_BASE)) % REG_COUNT
r2Of(ins)      == (ins \div IMM_BASE) % REG_COUNT
r3Of(ins)      == (ins \div (IMM_BASE \div REG_COUNT)) % REG_COUNT

(* The immediate as a word: UI instructions zero-extend it, SI ones        *)
(* sign-extend it.                                                         *)
immOf(ins) ==
  LET imm == ins % IMM_BASE
  IN  IF getOpcode(ins) \in SI_OPCODES /\ imm >= IMM_BASE \div 2
        THEN WORD - IMM_BASE + imm
        ELSE imm

isJump(ins)   == getOpcode(ins) = OPCODE.JALR
isBranch(ins) == getOpcode(ins) \in BRANCHES

-----------------------------------------------------------------------------
(* Arithmetic *)

Signed(w) == IF w >= WORD \div 2 THEN w - WORD ELSE w       \* (int32_t)w

Flag(p) == IF p THEN 1 ELSE 0

(* a * b modulo WORD, by halves of a: TLC's integers have 32 bits.         *)
Product(a, b) ==
  ((((a \div IMM_BASE) * b) % IMM_BASE) * IMM_BASE + (a % IMM_BASE) * b) % WORD

Alu(op, a, b) ==
  CASE op \in { OPCODE.ADD,  OPCODE.ADDI }  -> (a + b) % WORD
    [] op \in { OPCODE.SUB,  OPCODE.SUBI }  -> (a - b) % WORD
    [] op \in { OPCODE.MUL,  OPCODE.MULI }  -> Product(a, b)
    [] op \in { OPCODE.DIVU, OPCODE.DIVIU } -> a \div b
    [] op \in { OPCODE.REMU, OPCODE.REMIU } -> a % b
    [] op \in { OPCODE.AND,  OPCODE.ANDI }  -> BitAnd(a, b)
    [] op \in { OPCODE.OR,   OPCODE.ORI }   -> BitOr(a, b)
    [] op \in { OPCODE.XOR,  OPCODE.XORI }  -> BitXor(a, b)
    [] op \in { OPCODE.SLT,  OPCODE.SLTI }  -> Flag(Signed(a) < Signed(b))
    [] op \in { OPCODE.SLTU, OPCODE.SLTIU } -> Flag(a < b)
    [] OTHER                                -> BitOr(a, (b * IMM_BASE) % WORD)  \* LUI

Divides(op) == op \in { OPCODE.DIVU, OPCODE.DIVIU, OPCODE.REMU, OPCODE.REMIU }

Taken(op, a, b) ==
  \/ op = OPCODE.BEQ /\ a = b
  \/ op = OPCODE.BNE /\ a # b
  \/ op = OPCODE.BGT /\ Signed(a) > Signed(b)
  \/ op = OPCODE.BGE /\ Signed(a) >= Signed(b)
  \/ op = OPCODE.BLT /\ Signed(a) < Signed(b)
  \/ op = OPCODE.BLE /\ Signed(a) <= Signed(b)

(* Seeded fault: the offset counted in bytes.                              *)
TargetInBytes(base, ins) == (base + immOf(ins)) % WORD

(* base + imm * 4 in 32-bit arithmetic, the target of a branch or a jump.  *)
Target(base, ins) == (base + immOf(ins) * 4) % WORD

-----------------------------------------------------------------------------
(* Words in byte memory, least significant byte first *)

Byte == 0 .. BYTE - 1

ReadWord(mem, addr) ==
  ((mem[addr + 3] * BYTE + mem[addr + 2]) * BYTE + mem[addr + 1]) * BYTE + mem[addr]

ByteOf(w, i) == CASE i = 0 -> w % BYTE
                  [] i = 1 -> (w \div BYTE) % BYTE
                  [] i = 2 -> ((w \div BYTE) \div BYTE) % BYTE
                  [] i = 3 -> ((w \div BYTE) \div BYTE) \div BYTE

WriteWord(mem, addr, w) ==
  [ a \in DOMAIN mem |-> IF a \in addr .. addr + 3 THEN ByteOf(w, a - addr) ELSE mem[a] ]

-----------------------------------------------------------------------------
(* Memory-mapped devices *)

MMIO_BASE == WORD - MMIO_SIZE

IsMmio(addr) == addr >= MMIO_BASE           \* (addr & MMIO_MASK) == MMIO_MASK

MMIO_IO_STDIN        == MMIO_BASE
MMIO_IO_STDOUT       == MMIO_BASE + 1
MMIO_SIM_CLEAR       == MMIO_BASE + 16
MMIO_SIM_DISPLAY     == MMIO_BASE + 17
MMIO_SIM_PIXEL_COLOR == MMIO_BASE + 18
MMIO_SIM_PIXEL_SHAPE == MMIO_BASE + 19
MMIO_SIM_SET_PIXEL   == MMIO_BASE + 20
MMIO_SIM_RAND        == MMIO_BASE + 21

(* What a device shows of one store: the call it makes and its arguments.  *)
NoEvent == << "none" >>

Events ==
  { NoEvent, << "display" >> }
    \cup ({ "stdout" } \X Byte) \cup ({ "clear" } \X Word)
    \cup ({ "set_pixel" } \X (0 .. IMM_BASE - 1) \X (0 .. IMM_BASE - 1) \X Word \X Word)
=============================================================================
