------------------------------- MODULE Decoder -------------------------------
(***************************************************************************)
(* The decoding of one 32-bit word (Decoder::decodeNext behind its read).  *)
(*                                                                         *)
(* A number is the set of the positions of its bits that are 1: the word,  *)
(* the fields cut out of it and the 64-bit operands, the sign being bit    *)
(* 63; "or" is \cup and "and" is \cap.  A decoded instruction is a record  *)
(* [op, rd, rs1, rs2, imm]: rs1 is also the base of a Mem operand and imm  *)
(* its offset; fields that are no operand of the instruction are 0.        *)
(***************************************************************************)
EXTENDS Integers

RawWord == SUBSET (0 .. 31)

Opcode ==
  {"LUI", "AUIPC", "JAL", "JALR", "BEQ", "BNE", "BLT", "BGE", "BLTU", "BGEU",
   "LB", "LH", "LW", "LD", "LBU", "LHU", "LWU", "SB", "SH", "SW", "SD",
   "ADDI", "SLTI", "SLTIU", "XORI", "ORI", "ANDI", "SLLI", "SRLI", "SRAI",
   "ADD", "SUB", "SLL", "SLT", "SLTU", "XOR", "SRL", "SRA", "OR", "AND",
   "ADDIW", "SLLIW", "SRLIW", "SRAIW", "ADDW", "SUBW", "SLLW", "SRLW", "SRAW",
   "FENCE", "ECALL", "EBREAK", "UNKNOWN"}

\* The bits hi down to lo, as a number.
getBits(w, hi, lo) == {i \in 0 .. hi - lo : i + lo \in w}

\* n << by, in 64 bits.
Shl(n, by) == {i \in by .. 63 : i - by \in n}

\* A number of so many bits as a two's complement number of 64.
sext(n, bits) == IF bits - 1 \in n THEN n \cup (bits .. 63) ELSE n

rd(w)     == getBits(w, 11, 7)
rs1(w)    == getBits(w, 19, 15)

\* Mutant of rs2: one bit too many.
rs2Wide(w) == getBits(w, 25, 20)

rs2(w)    == getBits(w, 24, 20)
funct3(w) == getBits(w, 14, 12)
funct7(w) == getBits(w, 31, 25)

(***************************************************************************)
(* The operands, by the shape of the instruction.                          *)
(***************************************************************************)
Decoded(op, d, s, t, n) == [op |-> op, rd |-> d, rs1 |-> s, rs2 |-> t, imm |-> n]

NoOperands(op) == Decoded(op, {}, {}, {}, {})

UpperImmediate(op, w) == Decoded(op, rd(w), {}, {}, sext(w \cap (12 .. 31), 32))

\* Immediate forms, loads and JALR.
Immediate(op, w) == Decoded(op, rd(w), rs1(w), {}, sext(getBits(w, 31, 20), 12))

ShiftAmount(op, w, hi) == Decoded(op, rd(w), rs1(w), {}, getBits(w, hi, 20))

Register(op, w) == Decoded(op, rd(w), rs1(w), rs2(w), {})

StoreTo(op, w) ==
  Decoded(op, {}, rs1(w), rs2(w),
          sext(Shl(getBits(w, 31, 25), 5) \cup getBits(w, 11, 7), 12))

\* Mutant of Branch: bit 7 is read where it stands instead of as bit 11.
BranchPlain(op, w) ==
  Decoded(op, {}, rs1(w), rs2(w),
          sext(Shl(getBits(w, 31, 31), 12) \cup Shl(getBits(w, 30, 25), 5)
               \cup getBits(w, 11, 7), 13))

Branch(op, w) ==
  Decoded(op, {}, rs1(w), rs2(w),
          sext(Shl(getBits(w, 31, 31), 12) \cup Shl(getBits(w, 7, 7), 11)
               \cup Shl(getBits(w, 30, 25), 5) \cup Shl(getBits(w, 11, 8), 1), 13))

Jump(op, w) ==
  Decoded(op, rd(w), {}, {},
          sext(Shl(getBits(w, 31, 31), 20) \cup Shl(getBits(w, 19, 12), 12)
               \cup Shl(getBits(w, 20, 20), 11) \cup Shl(getBits(w, 30, 21), 1), 21))

(***************************************************************************)
(* The opcodes by funct3 (f) and funct7 (f7); UNKNOWN is refused.          *)
(***************************************************************************)
BranchOps(f) ==
  CASE f = {} -> "BEQ" [] f = {0} -> "BNE" [] f = {2} -> "BLT"
    [] f = {0, 2} -> "BGE" [] f = {1, 2} -> "BLTU" [] f = {0, 1, 2} -> "BGEU"
    [] OTHER -> "UNKNOWN"

LoadOps(f) ==
  CASE f = {} -> "LB" [] f = {0} -> "LH" [] f = {1} -> "LW" [] f = {0, 1} -> "LD"
    [] f = {2} -> "LBU" [] f = {0, 2} -> "LHU" [] f = {1, 2} -> "LWU"
    [] OTHER -> "UNKNOWN"

\* Mutant of StoreOps: the double word is forgotten.
StoreOps32(f) ==
  CASE f = {} -> "SB" [] f = {0} -> "SH" [] f = {1} -> "SW" [] OTHER -> "UNKNOWN"

StoreOps(f) ==
  CASE f = {} -> "SB" [] f = {0} -> "SH" [] f = {1} -> "SW" [] f = {0, 1} -> "SD"
    [] OTHER -> "UNKNOWN"

ImmediateOps(f) ==
  CASE f = {} -> "ADDI" [] f = {1} -> "SLTI" [] f = {0, 1} -> "SLTIU"
    [] f = {2} -> "XORI" [] f = {1, 2} -> "ORI" [] f = {0, 1, 2} -> "ANDI"
    [] OTHER -> "UNKNOWN"

RegisterOps(f, f7) ==
  CASE f = {} -> IF f7 = {5} THEN "SUB" ELSE "ADD"
    [] f = {0} -> "SLL" [] f = {1} -> "SLT" [] f = {0, 1} -> "SLTU"
    [] f = {2} -> "XOR"
    [] f = {0, 2} -> IF f7 = {5} THEN "SRA" ELSE "SRL"
    [] f = {1, 2} -> "OR" [] f = {0, 1, 2} -> "AND"
    [] OTHER -> "UNKNOWN"

RegisterWordOps(f, f7) ==
  CASE f = {} -> IF f7 = {5} THEN "SUBW" ELSE "ADDW"
    [] f = {0} -> "SLLW"
    [] f = {0, 2} -> IF f7 = {5} THEN "SRAW" ELSE "SRLW"
    [] OTHER -> "UNKNOWN"

\* The right shifts with an immediate test all seven bits of funct7.
RightShift(f7, logical, arithmetic) ==
  CASE f7 = {} -> logical [] f7 = {5} -> arithmetic [] OTHER -> "UNKNOWN"

OpImm(w) ==
  CASE funct3(w) = {0} -> ShiftAmount("SLLI", w, 25)
    [] funct3(w) = {0, 2} -> ShiftAmount(RightShift(funct7(w), "SRLI", "SRAI"), w, 25)
    [] OTHER -> Immediate(ImmediateOps(funct3(w)), w)

OpImm32(w) ==
  CASE funct3(w) = {} -> Immediate("ADDIW", w)
    [] funct3(w) = {0} -> ShiftAmount(RightShift(funct7(w), "SLLIW", "UNKNOWN"), w, 24)
    [] funct3(w) = {0, 2} -> ShiftAmount(RightShift(funct7(w), "SRLIW", "SRAIW"), w, 24)
    [] OTHER -> NoOperands("UNKNOWN")

System(w) ==
  CASE funct3(w) = {} /\ getBits(w, 31, 20) = {}  -> NoOperands("ECALL")
    [] funct3(w) = {} /\ getBits(w, 31, 20) = {0} -> NoOperands("EBREAK")
    [] OTHER -> NoOperands("UNKNOWN")

\* The switch over the low seven bits.
ByOpcode(w) ==
  LET opc == getBits(w, 6, 0) IN
    CASE opc = {0, 1, 2, 4, 5}    -> UpperImmediate("LUI", w)
      [] opc = {0, 1, 2, 4}       -> UpperImmediate("AUIPC", w)
      [] opc = {0, 1, 2, 3, 5, 6} -> Jump("JAL", w)
      [] opc = {0, 1, 2, 5, 6}    -> Immediate("JALR", w)
      [] opc = {0, 1, 5, 6}       -> Branch(BranchOps(funct3(w)), w)
      [] opc = {0, 1}             -> Immediate(LoadOps(funct3(w)), w)
      [] opc = {0, 1, 5}          -> StoreTo(StoreOps(funct3(w)), w)
      [] opc = {0, 1, 4}          -> OpImm(w)
      [] opc = {0, 1, 3, 4}       -> OpImm32(w)
      [] opc = {0, 1, 4, 5}       -> Register(RegisterOps(funct3(w), funct7(w)), w)
      [] opc = {0, 1, 3, 4, 5}    -> Register(RegisterWordOps(funct3(w), funct7(w)), w)
      [] opc = {0, 1, 2, 3}       -> NoOperands("FENCE")
      [] opc = {0, 1, 4, 5, 6}    -> System(w)
      [] OTHER                    -> NoOperands("UNKNOWN")

\* What a word decodes to; op is UNKNOWN where decodeNext says InvalidOpcode,
\* and the operands are empty then.
Decode(w) ==
  IF ByOpcode(w).op = "UNKNOWN" THEN NoOperands("UNKNOWN") ELSE ByOpcode(w)
=============================================================================
