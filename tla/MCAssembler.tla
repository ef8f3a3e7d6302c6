---------------------------- MODULE MCAssembler ----------------------------
(***************************************************************************)
(* Instances of Assembler for TLC: sources of up to five items over every  *)
(* kind of item and two labels, with a stack that is full at five.         *)
(***************************************************************************)
EXTENDS Assembler

CONSTANTS a, b        \* two label names

MCNames == { a, b }
NoBits(x, y) == 0     \* the assembler does no bitwise arithmetic of its own

Reference(op, label) ==
  [ kind |-> "i_label", op |-> op, r1 |-> 1, r2 |-> 3, label |-> label ]
Define(label) == [ kind |-> "label", label |-> label ]

Linking ==
  { Reference(OPCODE.ADDI, a), Reference(OPCODE.BEQ, a), Reference(OPCODE.JALR, b),
    Define(a), Define(b),
    [ kind |-> "word", word |-> WORD - 1 ] }

Others ==
  { [ kind |-> "r_instr", op |-> OPCODE.SUB, r1 |-> 1, r2 |-> 2, r3 |-> 3 ],
    [ kind |-> "i_instr", op |-> OPCODE.LOAD, r1 |-> 2, r2 |-> 0, imm |-> -3 ],
    Reference(OPCODE.REMIU, b),
    [ kind |-> "newline" ], [ kind |-> "bad_symbol" ], [ kind |-> "bad_syntax" ] }

SourcesOf(items, n) == UNION { [ 1 .. k -> items ] : k \in 0 .. n }

MCSources == SourcesOf(Linking \cup Others, 3) \cup SourcesOf(Linking, 5)
=============================================================================
