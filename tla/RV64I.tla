-------------------------------- MODULE RV64I --------------------------------
(***************************************************************************)
(* The encodings of the RV64I base instruction set, as the architecture    *)
(* defines them.  It is the reference the decoder is compared with, not    *)
(* part of the repository.                                                 *)
(*                                                                         *)
(* A number is the set of the positions of its bits that are 1: a word, a  *)
(* field of it, a 64-bit operand.  Each instruction fixes some positions   *)
(* of its word (Fixed) to a value (Ones) and spreads the bits of its       *)
(* operands over the others (Encode).                                      *)
(***************************************************************************)
EXTENDS Integers

\* A field of a word, whose lowest bit stands at lo.
At(bits, lo) == {p \in lo .. 31 : p - lo \in bits}

\* op |-> its format, opcode, funct3 and funct7 (or funct12); {}: zero or none.
Row(fmt, opc, f3, f7) == [fmt |-> fmt, opc |-> opc, f3 |-> f3, f7 |-> f7]

Table ==
  [LUI   |-> Row("U", {0, 1, 2, 4, 5}, {}, {}),
   AUIPC |-> Row("U", {0, 1, 2, 4}, {}, {}),
   JAL   |-> Row("J", {0, 1, 2, 3, 5, 6}, {}, {}),
   JALR  |-> Row("I", {0, 1, 2, 5, 6}, {}, {}),
   BEQ   |-> Row("B", {0, 1, 5, 6}, {}, {}),
   BNE   |-> Row("B", {0, 1, 5, 6}, {0}, {}),
   BLT   |-> Row("B", {0, 1, 5, 6}, {2}, {}),
   BGE   |-> Row("B", {0, 1, 5, 6}, {0, 2}, {}),
   BLTU  |-> Row("B", {0, 1, 5, 6}, {1, 2}, {}),
   BGEU  |-> Row("B", {0, 1, 5, 6}, {0, 1, 2}, {}),
   LB    |-> Row("I", {0, 1}, {}, {}),
   LH    |-> Row("I", {0, 1}, {0}, {}),
   LW    |-> Row("I", {0, 1}, {1}, {}),
   LD    |-> Row("I", {0, 1}, {0, 1}, {}),
   LBU   |-> Row("I", {0, 1}, {2}, {}),
   LHU   |-> Row("I", {0, 1}, {0, 2}, {}),
   LWU   |-> Row("I", {0, 1}, {1, 2}, {}),
   SB    |-> Row("S", {0, 1, 5}, {}, {}),
   SH    |-> Row("S", {0, 1, 5}, {0}, {}),
   SW    |-> Row("S", {0, 1, 5}, {1}, {}),
   SD    |-> Row("S", {0, 1, 5}, {0, 1}, {}),
   ADDI  |-> Row("I", {0, 1, 4}, {}, {}),
   SLTI  |-> Row("I", {0, 1, 4}, {1}, {}),
   SLTIU |-> Row("I", {0, 1, 4}, {0, 1}, {}),
   XORI  |-> Row("I", {0, 1, 4}, {2}, {}),
   ORI   |-> Row("I", {0, 1, 4}, {1, 2}, {}),
   ANDI  |-> Row("I", {0, 1, 4}, {0, 1, 2}, {}),
   SLLI  |-> Row("Sh6", {0, 1, 4}, {0}, {}),
   SRLI  |-> Row("Sh6", {0, 1, 4}, {0, 2}, {}),
   SRAI  |-> Row("Sh6", {0, 1, 4}, {0, 2}, {5}),
   ADD   |-> Row("R", {0, 1, 4, 5}, {}, {}),
   SUB   |-> Row("R", {0, 1, 4, 5}, {}, {5}),
   SLL   |-> Row("R", {0, 1, 4, 5}, {0}, {}),
   SLT   |-> Row("R", {0, 1, 4, 5}, {1}, {}),
   SLTU  |-> Row("R", {0, 1, 4, 5}, {0, 1}, {}),
   XOR   |-> Row("R", {0, 1, 4, 5}, {2}, {}),
   SRL   |-> Row("R", {0, 1, 4, 5}, {0, 2}, {}),
   SRA   |-> Row("R", {0, 1, 4, 5}, {0, 2}, {5}),
   OR    |-> Row("R", {0, 1, 4, 5}, {1, 2}, {}),
   AND   |-> Row("R", {0, 1, 4, 5}, {0, 1, 2}, {}),
   ADDIW |-> Row("I", {0, 1, 3, 4}, {}, {}),
   SLLIW |-> Row("Sh5", {0, 1, 3, 4}, {0}, {}),
   SRLIW |-> Row("Sh5", {0, 1, 3, 4}, {0, 2}, {}),
   SRAIW |-> Row("Sh5", {0, 1, 3, 4}, {0, 2}, {5}),
   ADDW  |-> Row("R", {0, 1, 3, 4, 5}, {}, {}),
   SUBW  |-> Row("R", {0, 1, 3, 4, 5}, {}, {5}),
   SLLW  |-> Row("R", {0, 1, 3, 4, 5}, {0}, {}),
   SRLW  |-> Row("R", {0, 1, 3, 4, 5}, {0, 2}, {}),
   SRAW  |-> Row("R", {0, 1, 3, 4, 5}, {0, 2}, {5}),
   FENCE |-> Row("F", {0, 1, 2, 3}, {}, {}),
   ECALL |-> Row("Sys", {0, 1, 4, 5, 6}, {}, {}),
   EBREAK |-> Row("Sys", {0, 1, 4, 5, 6}, {}, {0})]

Op == DOMAIN Table

\* The positions a format fixes.
FixedBy(fmt) ==
  CASE fmt \in {"U", "J"} -> 0 .. 6
    [] fmt \in {"I", "B", "S", "F"} -> 0 .. 6 \cup 12 .. 14
    [] fmt = "Sh6" -> 0 .. 6 \cup 12 .. 14 \cup 26 .. 31
    [] fmt \in {"Sh5", "R"} -> 0 .. 6 \cup 12 .. 14 \cup 25 .. 31
    [] fmt = "Sys" -> 0 .. 31

\* The positions an instruction fixes, and those of them that are 1.
Fixed(op) == FixedBy(Table[op].fmt)

Ones(op) ==
  LET r == Table[op] IN
    r.opc \cup At(r.f3, 12) \cup At(r.f7, IF r.fmt = "Sys" THEN 20 ELSE 25)

\* The word is one of the instruction's encodings.
Matches(op, w) == w \cap Fixed(op) = Ones(op)

\* Which bit of the immediate stands at a position of the word, by format.
ImmediateBit(fmt) ==
  CASE fmt = "I"   -> [p \in 20 .. 31 |-> p - 20]
    [] fmt = "S"   -> [p \in 7 .. 11 \cup 25 .. 31 |-> IF p < 12 THEN p - 7 ELSE p - 20]
    [] fmt = "B"   -> [p \in 7 .. 11 \cup 25 .. 31 |->
                         CASE p = 31 -> 12 [] p = 7 -> 11
                           [] p \in 8 .. 11 -> p - 7 [] OTHER -> p - 20]
    [] fmt = "U"   -> [p \in 12 .. 31 |-> p]
    [] fmt = "J"   -> [p \in 12 .. 31 |->
                         CASE p = 31 -> 20 [] p = 20 -> 11
                           [] p \in 12 .. 19 -> p [] OTHER -> p - 20]
    [] fmt = "Sh6" -> [p \in 20 .. 25 |-> p - 20]
    [] fmt = "Sh5" -> [p \in 20 .. 24 |-> p - 20]
    [] OTHER -> [p \in {} |-> p]

\* The bits an immediate of a format has, and its sign: the bits from there to
\* the 63rd are alike.  The amount of a shift has no sign.
ImmediateBits(fmt) ==
  CASE fmt \in {"I", "S"} -> 0 .. 11
    [] fmt = "B" -> 1 .. 12 [] fmt = "U" -> 12 .. 31 [] fmt = "J" -> 1 .. 20
    [] fmt = "Sh6" -> 0 .. 5 [] fmt = "Sh5" -> 0 .. 4 [] OTHER -> {}

Sign(fmt) ==
  CASE fmt \in {"I", "S"} -> 11 [] fmt = "B" -> 12 [] fmt = "U" -> 31
    [] fmt = "J" -> 20 [] OTHER -> 64

\* n is an operand that an instruction of the format can have.
IsImmediate(fmt, n) ==
  \A i \in 0 .. 63 :
    i \in n <=> IF i > Sign(fmt) THEN Sign(fmt) \in n ELSE i \in n \cap ImmediateBits(fmt)

\* The formats with the operands.
HasRd  == {"U", "J", "I", "R", "Sh6", "Sh5"}
HasRs1 == {"I", "B", "S", "R", "Sh6", "Sh5"}
HasRs2 == {"B", "S", "R"}

\* The word of an instruction.
Encode(inst) ==
  LET fmt == Table[inst.op].fmt
      bit == ImmediateBit(fmt)
      Reg(r, lo, fmts) == IF fmt \in fmts THEN At(r, lo) ELSE {}
  IN Ones(inst.op)
     \cup Reg(inst.rd, 7, HasRd) \cup Reg(inst.rs1, 15, HasRs1) \cup Reg(inst.rs2, 20, HasRs2)
     \cup {p \in DOMAIN bit : bit[p] \in inst.imm}
=============================================================================
