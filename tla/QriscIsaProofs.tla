--------------------------- MODULE QriscIsaProofs ---------------------------
(***************************************************************************)
(* Lemmas about the operators of QriscIsa, for every width: what the field *)
(* extractors return, that a word survives being stored byte by byte and   *)
(* that an encoded instruction decodes to its fields.                      *)
(***************************************************************************)
EXTENDS QriscIsa, TLAPS

-----------------------------------------------------------------------------
(* Division and remainder by a symbolic positive number *)

(* A remainder is below its modulus. *)
LEMMA ModRange ==
  ASSUME NEW x \in Int, NEW m \in Nat, m > 0
  PROVE  x % m \in 0 .. m - 1
OBVIOUS

(* Quotient and remainder rebuild the number. *)
LEMMA DivMod ==
  ASSUME NEW x \in Int, NEW m \in Nat, m > 0
  PROVE  x = (x \div m) * m + (x % m) /\ x \div m \in Int
OBVIOUS

(* A number of the form q*m + r, with r in range, has quotient q and       *)
(* remainder r. *)
LEMMA DivModUnique ==
  ASSUME NEW q \in Int, NEW m \in Nat, m > 0, NEW r \in 0 .. m - 1
  PROVE  (q * m + r) \div m = q /\ (q * m + r) % m = r
OBVIOUS

(* The quotient of a number below a * m is below a. *)
LEMMA DivRange ==
  ASSUME NEW m \in Nat, m > 0, NEW a \in Nat, NEW x \in 0 .. a * m - 1
  PROVE  x \div m \in 0 .. a - 1
OBVIOUS

(* Below a * m again when the digit is put back. *)
LEMMA DigitRange ==
  ASSUME NEW m \in Nat, m > 0, NEW a \in Nat, NEW q \in 0 .. a - 1, NEW r \in 0 .. m - 1
  PROVE  q * m + r \in 0 .. a * m - 1
<1>1. q * m + r >= 0
  OBVIOUS
<1>2. q + 1 <= a
  OBVIOUS
<1>3. (q + 1) * m <= a * m
  BY <1>2
<1> QED
  BY <1>1, <1>3

(* A multiple of four stays one modulo a multiple of four. *)
LEMMA ModKeepsAlignment ==
  ASSUME NEW x \in Int, NEW k \in Nat, k > 0, x % 4 = 0
  PROVE  (x % (4 * k)) % 4 = 0
<1> DEFINE q == x \div (4 * k)
           j == x \div 4
<1>1. 4 * k \in Nat /\ 4 * k > 0
  OBVIOUS
<1>2. x = q * (4 * k) + (x % (4 * k)) /\ q \in Int
  BY <1>1, DivMod
<1>3. x = j * 4 /\ j \in Int
  OBVIOUS
<1> HIDE DEF q, j
<1>4. x % (4 * k) = (j - q * k) * 4 + 0
  BY <1>2, <1>3
<1>5. j - q * k \in Int
  BY <1>2, <1>3
<1> QED
  BY <1>4, <1>5, DivModUnique

-----------------------------------------------------------------------------
(* Widths and fields *)

(* The widths are positive numbers, and a word is a whole number of them.  *)
LEMMA Widths ==
  /\ WORD \in Nat /\ WORD >= 64
  /\ REG_COUNT \in Nat /\ REG_COUNT >= 4
  /\ IMM_BASE \in Nat /\ IMM_BASE > 0
  /\ BYTE \in Nat /\ BYTE > 1
  /\ IMM_BASE * IMM_BASE = WORD
  /\ BYTE * BYTE * BYTE * BYTE = WORD
  /\ 0 \in Word /\ 1 \in Word /\ 32 \in Word
  /\ 0 \in Reg /\ REG_PC \in Reg /\ REG_SP \in Reg /\ REG_BP \in Reg
  /\ REG_PC # REG_ZERO /\ REG_SP # REG_ZERO /\ REG_BP # REG_ZERO
<1>1. /\ REG_COUNT \in Nat /\ REG_COUNT >= 4
      /\ IMM_BASE \in Nat /\ IMM_BASE >= REG_COUNT
      /\ BYTE \in Nat /\ BYTE > 1
  BY WidthAssumption
<1>2. REG_COUNT * REG_COUNT * IMM_BASE \in Nat /\ REG_COUNT * REG_COUNT * IMM_BASE >= 1
  BY <1>1
<1>3. WORD = 64 * (REG_COUNT * REG_COUNT * IMM_BASE)
  BY <1>1 DEF WORD, OPCODE_BASE
<1>4. WORD \in Nat /\ WORD >= 64
  BY <1>2, <1>3
<1> QED
  BY <1>1, <1>4, WidthAssumption DEF Word, Reg, REG_PC, REG_SP, REG_BP, REG_ZERO

(* A word is a whole number of instructions. *)
LEMMA WordIsAligned ==
  ASSUME NEW x \in Int, x % 4 = 0
  PROVE  (x % WORD) % 4 = 0
<1> DEFINE m == REG_COUNT * REG_COUNT * IMM_BASE
<1>1. m \in Nat /\ m > 0
  BY Widths
<1>2. WORD = 64 * m
  BY Widths DEF WORD, OPCODE_BASE
<1> HIDE DEF m
<1>3. WORD = 4 * (16 * m) /\ 16 * m \in Nat /\ 16 * m > 0
  BY <1>1, <1>2
<1> QED
  BY <1>3, ModKeepsAlignment

(* Every register field names a register. *)
LEMMA FieldsAreRegisters ==
  ASSUME NEW ins \in Word
  PROVE  r1Of(ins) \in Reg /\ r2Of(ins) \in Reg /\ r3Of(ins) \in Reg
<1>1. REG_COUNT * IMM_BASE \in Nat /\ REG_COUNT * IMM_BASE > 0
  BY Widths
<1>2. IMM_BASE \div REG_COUNT \in Nat /\ IMM_BASE \div REG_COUNT > 0
  BY Widths, WidthAssumption
<1>3. ins \in Int
  BY Widths DEF Word
<1> QED
  BY <1>1, <1>2, <1>3, Widths, ModRange DEF r1Of, r2Of, r3Of, Reg

(* An opcode has six bits. *)
LEMMA OpcodeRange ==
  ASSUME NEW ins \in Word
  PROVE  getOpcode(ins) \in 0 .. OPCODE_BASE - 1
<1> DEFINE m == REG_COUNT * REG_COUNT * IMM_BASE
<1>1. m \in Nat /\ m > 0
  BY Widths
<1>2. WORD = 64 * m
  BY Widths DEF WORD, OPCODE_BASE
<1>3. ins \in 0 .. 64 * m - 1
  BY <1>2 DEF Word
<1> HIDE DEF m
<1>4. ins \div m \in 0 .. 63
  BY <1>1, <1>3, DivRange
<1> QED
  BY <1>4 DEF getOpcode, m, OPCODE_BASE

(* An extended immediate is a word. *)
LEMMA ImmIsWord ==
  ASSUME NEW ins \in Word
  PROVE  immOf(ins) \in Word
<1>1. ins % IMM_BASE \in 0 .. IMM_BASE - 1
  BY Widths DEF Word
<1>2. IMM_BASE <= WORD
  BY Widths
<1> QED
  BY <1>1, <1>2, Widths DEF immOf, Word

-----------------------------------------------------------------------------
(* Arithmetic *)

(* Multiplying by halves gives the product modulo WORD. *)
LEMMA ProductIsProduct ==
  ASSUME NEW a \in Word, NEW b \in Word
  PROVE  Product(a, b) = (a * b) % WORD
<1> DEFINE h == a \div IMM_BASE
           l == a % IMM_BASE
           q == (h * b) \div IMM_BASE
           r == (h * b) % IMM_BASE
<1>1. a \in Nat /\ b \in Nat
  BY Widths DEF Word
<1>2. a = h * IMM_BASE + l /\ h \in Nat /\ l \in Nat
  BY <1>1, Widths
<1>3. h * b \in Nat
  BY <1>1, <1>2
<1> HIDE DEF h, l
<1>4. h * b = q * IMM_BASE + r /\ q \in Int /\ r \in Int
  <2>1. IMM_BASE \in Nat /\ IMM_BASE > 0
    BY Widths
  <2> DEFINE x == h * b
  <2>2. x \in Int
    BY <1>3
  <2> HIDE DEF x
  <2>3. x = (x \div IMM_BASE) * IMM_BASE + (x % IMM_BASE) /\ x \div IMM_BASE \in Int
    BY <2>1, <2>2, DivMod
  <2>4. x % IMM_BASE \in Int
    BY <2>1, <2>2
  <2> QED
    BY <2>3, <2>4 DEF x
<1> HIDE DEF q, r
<1>5. a * b = (h * b) * IMM_BASE + l * b
  BY <1>1, <1>2, Widths
<1>6. a * b = q * WORD + (r * IMM_BASE + l * b)
  BY <1>4, <1>5, <1>1, <1>2, Widths
<1>7. r * IMM_BASE + l * b \in Int
  BY <1>4, <1>1, <1>2, Widths
<1>8. (a * b) % WORD = (r * IMM_BASE + l * b) % WORD
  <2> DEFINE y == r * IMM_BASE + l * b
             p == y \div WORD
             z == y % WORD
  <2>1. y = p * WORD + z /\ p \in Int /\ z \in 0 .. WORD - 1
    BY <1>7, Widths, DivMod, ModRange
  <2> HIDE DEF p, z
  <2>2. a * b = (q + p) * WORD + z
    BY <1>6, <2>1, <1>4, Widths
  <2>3. (a * b) % WORD = z
    BY <2>1, <2>2, <1>4, Widths, DivModUnique
  <2> QED
    BY <2>3 DEF z
<1> QED
  BY <1>8 DEF Product, h, l, r

(* The result of an arithmetic instruction is a word, division by zero     *)
(* apart. *)
LEMMA AluIsWord ==
  ASSUME BitsStayInWord(Word), NEW a \in Word, NEW b \in Word, NEW op \in OPCODES,
         ~(Divides(op) /\ b = 0)
  PROVE  Alu(op, a, b) \in Word
<1>1. /\ (a + b) % WORD \in Word
      /\ (a - b) % WORD \in Word
      /\ (b * IMM_BASE) % WORD \in Word
  BY Widths DEF Word
<1>2. Product(a, b) \in Word
  <2> DEFINE p == a * b
  <2>1. p \in Int
    BY Widths DEF Word
  <2> HIDE DEF p
  <2>2. p % WORD \in Word
    BY <2>1, Widths, ModRange DEF Word
  <2> QED
    BY <2>2, ProductIsProduct DEF p
<1>3. /\ BitAnd(a, b) \in Word
      /\ BitOr(a, b)  \in Word
      /\ BitXor(a, b) \in Word
      /\ BitOr(a, (b * IMM_BASE) % WORD) \in Word
  BY <1>1 DEF BitsStayInWord
<1>4. Flag(Signed(a) < Signed(b)) \in Word /\ Flag(a < b) \in Word
  BY Widths DEF Flag
<1>5. b # 0 => a \div b \in Word /\ a % b \in Word
  BY Widths DEF Word
<1>6. Divides(op) <=> op \in { OPCODE.DIVU, OPCODE.DIVIU } \/ op \in { OPCODE.REMU, OPCODE.REMIU }
  BY DEF Divides
<1> QED
  BY <1>1, <1>2, <1>3, <1>4, <1>5, <1>6 DEF Alu

-----------------------------------------------------------------------------
(* Words in memory *)

(* The four bytes of a word are bytes. *)
LEMMA BytesAreBytes ==
  ASSUME NEW w \in Word, NEW i \in 0 .. 3
  PROVE  ByteOf(w, i) \in Byte
<1> DEFINE w1 == w \div BYTE
           w2 == w1 \div BYTE
           w3 == w2 \div BYTE
<1>1. BYTE \in Nat /\ BYTE > 0
  BY Widths
<1>2. BYTE * BYTE \in Nat /\ BYTE * BYTE * BYTE \in Nat
  BY <1>1
<1>3. w \in 0 .. (BYTE * BYTE * BYTE) * BYTE - 1
  BY Widths DEF Word
<1>4. w1 \in 0 .. (BYTE * BYTE) * BYTE - 1
  BY <1>1, <1>2, <1>3, DivRange
<1> HIDE DEF w1
<1>5. w2 \in 0 .. BYTE * BYTE - 1
  BY <1>1, <1>2, <1>4, DivRange
<1> HIDE DEF w2
<1>6. w3 \in 0 .. BYTE - 1
  BY <1>1, <1>5, DivRange
<1> HIDE DEF w3
<1>7. /\ w % BYTE \in 0 .. BYTE - 1
      /\ w1 % BYTE \in 0 .. BYTE - 1
      /\ w2 % BYTE \in 0 .. BYTE - 1
  BY <1>1, <1>3, <1>4, <1>5, ModRange
<1>8. i = 0 \/ i = 1 \/ i = 2 \/ i = 3
  OBVIOUS
<1> QED
  BY <1>6, <1>7, <1>8 DEF ByteOf, Byte, w1, w2, w3

(* Reading four bytes gives a word. *)
LEMMA ReadIsWord ==
  ASSUME NEW n \in Nat, NEW mem \in [ 0 .. n - 1 -> Byte ],
         NEW addr \in Nat, addr + 4 <= n
  PROVE  ReadWord(mem, addr) \in Word
<1>1. /\ mem[addr] \in 0 .. BYTE - 1
      /\ mem[addr + 1] \in 0 .. BYTE - 1
      /\ mem[addr + 2] \in 0 .. BYTE - 1
      /\ mem[addr + 3] \in 0 .. BYTE - 1
  BY DEF Byte
<1>2. BYTE \in Nat /\ BYTE > 0 /\ BYTE * BYTE \in Nat /\ BYTE * BYTE * BYTE \in Nat
  BY Widths
<1>3. mem[addr + 3] * BYTE + mem[addr + 2] \in 0 .. BYTE * BYTE - 1
  BY <1>1, <1>2, DigitRange
<1>4. (mem[addr + 3] * BYTE + mem[addr + 2]) * BYTE + mem[addr + 1]
        \in 0 .. BYTE * BYTE * BYTE - 1
  BY <1>1, <1>2, <1>3, DigitRange
<1>5. ReadWord(mem, addr) \in 0 .. BYTE * BYTE * BYTE * BYTE - 1
  BY <1>1, <1>2, <1>4, DigitRange DEF ReadWord
<1> QED
  BY <1>5, Widths DEF Word

(* The four bytes of a word rebuild it. *)
LEMMA BytesRebuildWord ==
  ASSUME NEW w \in Word
  PROVE  ((ByteOf(w, 3) * BYTE + ByteOf(w, 2)) * BYTE + ByteOf(w, 1)) * BYTE + ByteOf(w, 0) = w
<1> DEFINE w1 == w \div BYTE
           w2 == w1 \div BYTE
           w3 == w2 \div BYTE
<1>0. BYTE \in Nat /\ BYTE > 0 /\ w \in Int
  BY Widths DEF Word
<1> HIDE DEF w1, w2, w3
<1>1. w = w1 * BYTE + (w % BYTE) /\ w1 \in Int
  BY <1>0, DivMod DEF w1
<1>2. w1 = w2 * BYTE + (w1 % BYTE) /\ w2 \in Int
  BY <1>0, <1>1, DivMod DEF w2
<1>3. w2 = w3 * BYTE + (w2 % BYTE)
  BY <1>0, <1>2, DivMod DEF w3
<1>4. /\ ByteOf(w, 0) = w % BYTE
      /\ ByteOf(w, 1) = w1 % BYTE
      /\ ByteOf(w, 2) = w2 % BYTE
      /\ ByteOf(w, 3) = w3
  BY DEF ByteOf, w1, w2, w3
<1> QED
  BY <1>1, <1>2, <1>3, <1>4

(* A load sees the last store to its address, for every width of word and  *)
(* every alignment, and a store changes its own four bytes only: every     *)
(* byte beside them, and every word that does not overlap them, is what it *)
(* was (handleStore, then handleLoad). *)
THEOREM LoadSeesStore ==
  ASSUME NEW n \in Nat, NEW mem \in [ 0 .. n - 1 -> Byte ],
         NEW addr \in Nat, addr + 4 <= n, NEW w \in Word
  PROVE  /\ WriteWord(mem, addr, w) \in [ 0 .. n - 1 -> Byte ]
         /\ ReadWord(WriteWord(mem, addr, w), addr) = w
         /\ \A a \in 0 .. n - 1 :
              a \notin addr .. addr + 3 => WriteWord(mem, addr, w)[a] = mem[a]
         /\ \A other \in Nat :
              other + 4 <= n /\ (other + 4 <= addr \/ addr + 4 <= other)
                => ReadWord(WriteWord(mem, addr, w), other) = ReadWord(mem, other)
<1> DEFINE new == WriteWord(mem, addr, w)
<1>1. new \in [ 0 .. n - 1 -> Byte ]
  BY BytesAreBytes DEF WriteWord
<1>2. /\ new[addr]     = ByteOf(w, 0)
      /\ new[addr + 1] = ByteOf(w, 1)
      /\ new[addr + 2] = ByteOf(w, 2)
      /\ new[addr + 3] = ByteOf(w, 3)
  BY DEF WriteWord
<1>3. \A a \in 0 .. n - 1 : a \notin addr .. addr + 3 => new[a] = mem[a]
  BY DEF WriteWord
<1> HIDE DEF new
<1>4. ReadWord(new, addr) = w
  BY <1>2, BytesRebuildWord DEF ReadWord
<1>5. ASSUME NEW other \in Nat, other + 4 <= n, other + 4 <= addr \/ addr + 4 <= other
      PROVE  ReadWord(new, other) = ReadWord(mem, other)
  <2>1. new[other] = mem[other] /\ new[other + 1] = mem[other + 1]
        /\ new[other + 2] = mem[other + 2] /\ new[other + 3] = mem[other + 3]
    BY <1>3, <1>5
  <2> QED
    BY <2>1 DEF ReadWord
<1> QED
  BY <1>1, <1>3, <1>4, <1>5 DEF new

-----------------------------------------------------------------------------
(* Encoding and decoding *)

(* A word with a given opcode, given registers and given low bits decodes  *)
(* to them. *)
LEMMA FieldsOfWord ==
  ASSUME NEW op \in 0 .. OPCODE_BASE - 1, NEW r1 \in Reg, NEW r2 \in Reg,
         NEW low \in 0 .. IMM_BASE - 1,
         NEW ins, ins = ((op * REG_COUNT + r1) * REG_COUNT + r2) * IMM_BASE + low
  PROVE  /\ ins \in Word
         /\ getOpcode(ins) = op
         /\ r1Of(ins) = r1
         /\ r2Of(ins) = r2
         /\ ins % IMM_BASE = low
<1> DEFINE R == REG_COUNT
           I == IMM_BASE
           hi == op * R + r1
<1>1. R \in Nat /\ R > 0 /\ I \in Nat /\ I > 0 /\ op \in Nat /\ r1 \in Nat /\ r2 \in Nat
  BY Widths DEF Reg, OPCODE_BASE
<1>2. /\ R * I \in Nat /\ R * I > 0
      /\ R * R \in Nat /\ R * R > 0
      /\ R * R * I \in Nat /\ R * R * I > 0
  BY <1>1
<1>3. r2 * I + low \in 0 .. R * I - 1
  BY <1>1, DigitRange DEF Reg
<1>4. r1 * R + r2 \in 0 .. R * R - 1
  BY <1>1, DigitRange DEF Reg
<1>5. (r1 * R + r2) * I + low \in 0 .. (R * R) * I - 1
  BY <1>1, <1>2, <1>4, DigitRange
<1>6. hi \in Nat /\ hi * R + r2 \in Nat
  BY <1>1
<1>7. ins = (hi * R + r2) * I + low
  BY DEF hi
<1>8. ins = hi * (R * I) + (r2 * I + low)
  BY <1>1, <1>6, <1>7
<1>9. ins = op * (R * R * I) + ((r1 * R + r2) * I + low)
  BY <1>1, <1>7
<1>10. ins \div I = hi * R + r2 /\ ins % I = low
  BY <1>1, <1>6, <1>7, DivModUnique
<1>11. ins \div (R * I) = hi
  BY <1>2, <1>3, <1>6, <1>8, DivModUnique
<1>12. ins \div (R * R * I) = op
  BY <1>1, <1>2, <1>5, <1>9, DivModUnique
<1>13. (hi * R + r2) % R = r2 /\ hi % R = r1
  BY <1>1, <1>6, DivModUnique DEF Reg
<1>14. ins \in Word
  <2>1. op * (R * R * I) + ((r1 * R + r2) * I + low) \in 0 .. 64 * (R * R * I) - 1
    BY <1>1, <1>2, <1>5, DigitRange DEF OPCODE_BASE
  <2>2. WORD = 64 * (R * R * I)
    BY <1>1 DEF WORD, OPCODE_BASE
  <2> QED
    BY <1>9, <2>1, <2>2 DEF Word
<1> QED
  BY <1>10, <1>11, <1>12, <1>13, <1>14 DEF getOpcode, r1Of, r2Of

(* Every opcode fits the opcode field. *)
LEMMA OpcodesFit == OPCODES \subseteq 0 .. OPCODE_BASE - 1
BY DEF OPCODES, R_OPCODES, SI_OPCODES, UI_OPCODES, OPCODE, OPCODE_BASE

(* Decoding undoes Instr::makeIInstr, the immediate up to the width of its *)
(* field. *)
THEOREM IInstrRoundTrip ==
  ASSUME NEW op \in OPCODES, NEW r1 \in Reg, NEW r2 \in Reg, NEW imm \in Int
  PROVE  LET ins == makeIInstr(op, r1, r2, imm) IN
           /\ ins \in Word
           /\ getOpcode(ins) = op
           /\ r1Of(ins) = r1
           /\ r2Of(ins) = r2
           /\ ins % IMM_BASE = imm % IMM_BASE
<1>1. imm % IMM_BASE \in 0 .. IMM_BASE - 1
  BY Widths, ModRange
<1> QED
  BY <1>1, OpcodesFit, FieldsOfWord DEF makeIInstr

(* Decoding undoes Instr::makeRInstr. *)
THEOREM RInstrRoundTrip ==
  ASSUME NEW op \in OPCODES, NEW r1 \in Reg, NEW r2 \in Reg, NEW r3 \in Reg
  PROVE  LET ins == makeRInstr(op, r1, r2, r3) IN
           /\ ins \in Word
           /\ getOpcode(ins) = op
           /\ r1Of(ins) = r1
           /\ r2Of(ins) = r2
           /\ r3Of(ins) = r3
<1> DEFINE k   == IMM_BASE \div REG_COUNT
           low == r3 * k
           ins == makeRInstr(op, r1, r2, r3)
           up  == (op * REG_COUNT + r1) * REG_COUNT + r2
<1>1. /\ k \in Nat /\ k > 0 /\ IMM_BASE = REG_COUNT * k
      /\ REG_COUNT \in Nat /\ REG_COUNT > 0
  BY WidthAssumption, Widths, DivMod
<1>2. r3 \in Nat /\ r3 <= REG_COUNT - 1 /\ op \in Nat /\ r1 \in Nat /\ r2 \in Nat
  BY <1>1, OpcodesFit DEF Reg, OPCODE_BASE
<1> HIDE DEF k
<1>3. low \in 0 .. IMM_BASE - 1
  <2>1. r3 * k + 0 \in 0 .. REG_COUNT * k - 1
    BY <1>1, DigitRange DEF Reg
  <2> QED
    BY <2>1, <1>1, <1>2
<1>4. ins = up * IMM_BASE + low
  BY DEF makeRInstr, k
<1>5. /\ ins \in Word
      /\ getOpcode(ins) = op
      /\ r1Of(ins) = r1
      /\ r2Of(ins) = r2
  BY <1>3, <1>4, OpcodesFit, FieldsOfWord
<1>6. up \in Nat
  BY <1>1, <1>2
<1> HIDE DEF ins, up
<1>7. ins = (up * REG_COUNT + r3) * k + 0
  BY <1>1, <1>2, <1>4, <1>6
<1>8. up * REG_COUNT + r3 \in Int
  BY <1>1, <1>2, <1>6
<1>9. ins \div k = up * REG_COUNT + r3
  BY <1>1, <1>7, <1>8, DivModUnique
<1>10. (up * REG_COUNT + r3) % REG_COUNT = r3
  BY <1>1, <1>6, DivModUnique DEF Reg
<1> QED
  BY <1>5, <1>9, <1>10 DEF r3Of, k, ins
=============================================================================
