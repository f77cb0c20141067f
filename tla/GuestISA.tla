------------------------------- MODULE GuestISA -------------------------------
(***************************************************************************)
(* What the guest's instructions mean: the RV64I semantics translated code *)
(* is compared with.  It is the reference, not part of the repository; the *)
(* byte and halfword accesses are left out.                                *)
(*                                                                         *)
(* A guest state is [x, mem, pc].  A decoded instruction carries its pc.   *)
(***************************************************************************)
EXTENDS Words, SequencesExt

DecodedAt(inst, pc) ==
  [op |-> inst.op, rd |-> inst.rd, rs1 |-> inst.rs1, rs2 |-> inst.rs2,
   imm |-> inst.imm, pc |-> pc]

SetReg(x, rd, v) == IF rd = 0 THEN x ELSE [x EXCEPT ![rd] = v]

\* The operation of the register and immediate forms.
AluOp(op) ==
  CASE op \in {"ADD", "ADDI", "ADDW", "ADDIW"} -> "Add"
    [] op \in {"SUB", "SUBW"}                  -> "Sub"
    [] op \in {"AND", "ANDI"}                  -> "And"
    [] op \in {"OR", "ORI"}                    -> "Or"
    [] op \in {"XOR", "XORI"}                  -> "Xor"
    [] op \in {"SLL", "SLLI"}                  -> "Shl"
    [] op \in {"SRL", "SRLI"}                  -> "LShr"
    [] op \in {"SRA", "SRAI"}                  -> "AShr"

RegisterForms == {"ADD", "SUB", "AND", "OR", "XOR", "SLL", "SRL", "SRA"}
ImmediateForms == {"ADDI", "ANDI", "ORI", "XORI", "SLLI", "SRLI", "SRAI"}
CompareForms == {"SLT", "SLTU", "SLTI", "SLTIU"}

BranchCond(op) ==
  CASE op = "BEQ" -> "EQ" [] op = "BNE" -> "NE" [] op = "BLT" -> "SLT"
    [] op = "BGE" -> "SGE" [] op = "BLTU" -> "ULT" [] op = "BGEU" -> "UGE"

Branches == {"BEQ", "BNE", "BLT", "BGE", "BLTU", "BGEU"}

\* The value an instruction writes to rd.
Result(inst, s) ==
  LET a == s.x[inst.rs1]
      b == s.x[inst.rs2]
      i == Wrap(inst.imm)
      Flag(c, u, v) == IF Holds(c, u, v) THEN 1 ELSE 0
  IN CASE inst.op \in RegisterForms  -> WordOp(AluOp(inst.op), a, b)
       [] inst.op \in ImmediateForms -> WordOp(AluOp(inst.op), a, i)
       [] inst.op \in {"ADDW", "SUBW"} -> SextHalf(WordOp(AluOp(inst.op), a, b))
       [] inst.op = "ADDIW" -> SextHalf(WordOp("Add", a, i))
       [] inst.op = "SLT"   -> Flag("SLT", a, b)
       [] inst.op = "SLTU"  -> Flag("ULT", a, b)
       [] inst.op = "SLTI"  -> Flag("SLT", a, i)
       [] inst.op = "SLTIU" -> Flag("ULT", a, i)
       [] inst.op = "LUI"   -> i
       [] inst.op = "AUIPC" -> Wrap(inst.pc + i)
       [] inst.op = "LW"    -> SextHalf(Load(s.mem, "I32", a + inst.imm))
       [] inst.op = "LWU"   -> Load(s.mem, "I32", a + inst.imm)
       [] inst.op = "LD"    -> Load(s.mem, "I64", a + inst.imm)
       [] inst.op \in {"JAL", "JALR"} -> Wrap(inst.pc + 4)

\* Where control goes after an instruction.
Target(inst, s) ==
  LET taken == inst.op \in Branches /\
               Holds(BranchCond(inst.op), s.x[inst.rs1], s.x[inst.rs2])
  IN CASE taken \/ inst.op = "JAL" -> Wrap(inst.pc + inst.imm)
       [] inst.op = "JALR" ->
            LET t == Wrap(s.x[inst.rs1] + inst.imm) IN t - (t % 2)
       [] OTHER -> Wrap(inst.pc + 4)

NoResult == Branches \cup {"SW", "SD", "FENCE", "ECALL", "EBREAK"}

GuestStep(s, inst) ==
  [x   |-> IF inst.op \in NoResult THEN s.x
           ELSE SetReg(s.x, inst.rd, Result(inst, s)),
   mem |-> CASE inst.op = "SW" ->
                  Store(s.mem, "I32", s.x[inst.rs1] + inst.imm, s.x[inst.rs2])
             [] inst.op = "SD" ->
                  Store(s.mem, "I64", s.x[inst.rs1] + inst.imm, s.x[inst.rs2])
             [] OTHER -> s.mem,
   pc  |-> Target(inst, s)]

RunGuest(insts, s) == FoldLeft(GuestStep, s, insts)
=============================================================================
