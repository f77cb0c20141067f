-------------------------------- MODULE Lifter --------------------------------
(***************************************************************************)
(* Lifter::lift (src/RISCV/Lifter.cpp): a basic block of decoded           *)
(* instructions becomes a block of IR.  A value's id is its position in    *)
(* the block's IR, from 0.                                                 *)
(*                                                                         *)
(* A basic block is [start, insts, term, succs] as the CFG builder stores  *)
(* it, with the decoded instructions themselves in insts.                  *)
(***************************************************************************)
EXTENDS IR

\* Mutant of WriteReg: x0 is written like any other register.
WriteAnyReg(rd, v) == <<IRWriteReg(rd, v)>>

\* writeReg drops a write to x0.
WriteReg(rd, v) == IF rd = 0 THEN <<>> ELSE <<IRWriteReg(rd, v)>>

BinOpOf ==
  [ADDI |-> "Add", ANDI |-> "And", ORI |-> "Or", XORI |-> "Xor",
   SLLI |-> "Shl", SRLI |-> "LShr", SRAI |-> "AShr",
   ADD |-> "Add", SUB |-> "Sub", AND |-> "And", OR |-> "Or", XOR |-> "Xor",
   SLL |-> "Shl", SRL |-> "LShr", SRA |-> "AShr"]

ImmediateOps == {"ADDI", "ANDI", "ORI", "XORI", "SLLI", "SRLI", "SRAI"}

RegisterOps == {"ADD", "SUB", "AND", "OR", "XOR", "SLL", "SRL", "SRA"}

\* Mutant of CondOf: the signed and the unsigned comparison mixed up.
CondOfUnsigned ==
  [BEQ |-> "EQ", BNE |-> "NE", BLT |-> "ULT", BGE |-> "UGE",
   BLTU |-> "ULT", BGEU |-> "UGE"]

CondOf ==
  [BEQ |-> "EQ", BNE |-> "NE", BLT |-> "SLT", BGE |-> "SGE",
   BLTU |-> "ULT", BGEU |-> "UGE"]

\* The IR of one instruction, when n values and writes precede it.
LiftImmediate(inst, n) ==
  <<IRReadReg(n, inst.rs1),
    IRConst(n + 1, Wrap(inst.imm)),
    IRBinOp(n + 2, BinOpOf[inst.op], n, n + 1)>>
  \o WriteReg(inst.rd, n + 2)

LiftRegister(inst, n) ==
  <<IRReadReg(n, inst.rs1),
    IRReadReg(n + 1, inst.rs2),
    IRBinOp(n + 2, BinOpOf[inst.op], n, n + 1)>>
  \o WriteReg(inst.rd, n + 2)

\* The two operands, a 64-bit sum, its low half, and that sign-extended.
LiftAddWord(inst, n) ==
  <<IRReadReg(n, inst.rs1),
    IF inst.op = "ADDIW" THEN IRConst(n + 1, Wrap(inst.imm))
                         ELSE IRReadReg(n + 1, inst.rs2),
    IRBinOp(n + 2, "Add", n, n + 1),
    IRCast("Trunc", n + 3, "I32", n + 2),
    IRCast("SExt", n + 4, "I64", n + 3)>>
  \o WriteReg(inst.rd, n + 4)

LiftLoadWord(inst, n) ==
  <<IRReadReg(n, inst.rs1),
    IRLoad(n + 1, "I32", n, inst.imm),
    IRCast(IF inst.op = "LW" THEN "SExt" ELSE "ZExt", n + 2, "I64", n + 1)>>
  \o WriteReg(inst.rd, n + 2)

LiftLoadDouble(inst, n) ==
  <<IRReadReg(n, inst.rs1), IRLoad(n + 1, "I64", n, inst.imm)>>
  \o WriteReg(inst.rd, n + 1)

LiftStore(inst, n) ==
  <<IRReadReg(n, inst.rs1),
    IRReadReg(n + 1, inst.rs2),
    IRStore(IF inst.op = "SW" THEN "I32" ELSE "I64", n + 1, n, inst.imm)>>

LiftBranch(inst, n) ==
  <<IRReadReg(n, inst.rs1),
    IRReadReg(n + 1, inst.rs2),
    IRICmp(n + 2, CondOf[inst.op], n, n + 1)>>

LiftAuipc(inst, n) ==
  <<IRGetPC(n),
    IRConst(n + 1, Wrap(inst.imm)),
    IRBinOp(n + 2, "Add", n, n + 1)>>
  \o WriteReg(inst.rd, n + 2)

LiftJal(inst, n) ==
  <<IRConst(n, Wrap(inst.pc + 4))>> \o WriteReg(inst.rd, n)

\* base + offset, its lowest bit cleared, then the return address.
LiftJalr(inst, n) ==
  <<IRReadReg(n, inst.rs1),
    IRConst(n + 1, Wrap(inst.imm)),
    IRBinOp(n + 2, "Add", n, n + 1),
    IRConst(n + 3, Wrap(-2)),
    IRBinOp(n + 4, "And", n + 2, n + 3),
    IRConst(n + 5, Wrap(inst.pc + 4))>>
  \o WriteReg(inst.rd, n + 5)

LiftOp(inst, n) ==
  CASE inst.op \in ImmediateOps      -> LiftImmediate(inst, n)
    [] inst.op \in RegisterOps       -> LiftRegister(inst, n)
    [] inst.op \in {"ADDW", "ADDIW"} -> LiftAddWord(inst, n)
    [] inst.op \in {"LW", "LWU"}     -> LiftLoadWord(inst, n)
    [] inst.op = "LD"                -> LiftLoadDouble(inst, n)
    [] inst.op \in {"SW", "SD"}      -> LiftStore(inst, n)
    [] inst.op \in DOMAIN CondOf     -> LiftBranch(inst, n)
    [] inst.op = "AUIPC"             -> LiftAuipc(inst, n)
    [] inst.op = "JAL"               -> LiftJal(inst, n)
    [] inst.op = "JALR"              -> LiftJalr(inst, n)
    [] OTHER                         -> <<>>  \* traps, and what is ignored

LiftInst(insts, inst) == insts \o LiftOp(inst, Len(insts))

\* The last comparison, or value 0.
LastICmp(insts) ==
  LET cmps == {i \in DOMAIN insts : insts[i].kind = "ICmp"}
  IN IF cmps = {} THEN 0 ELSE insts[Max(cmps)].dest

\* The last instruction's value, or value 0 if it defines none.
LastValue(insts) ==
  IF insts # <<>> /\ Last(insts).dest # NoValue THEN Last(insts).dest ELSE 0

Succ(bb, i) == IF i <= Len(bb.succs) THEN bb.succs[i] ELSE 0

LiftTerm(bb, insts) ==
  CASE bb.term = "Branch" ->
         IRTerm("CBr", LastICmp(insts), Succ(bb, 1), Succ(bb, 2))
    [] bb.term = "IndirectJump" -> IRTerm("BrIndirect", LastValue(insts), 0, 0)
    [] bb.term = "Return" -> IRTerm("Ret", 0, 0, 0)
    [] bb.term = "Trap"   -> IRTerm("Trap", 0, 0, 0)
    [] bb.term \in {"Jump", "Fallthrough", "None"} -> IRTerm("Br", 0, Succ(bb, 1), 0)

Lift(bb) ==
  LET insts == FoldLeft(LiftInst, <<>>, bb.insts)
  IN [start |-> bb.start, insts |-> insts, term |-> LiftTerm(bb, insts)]
=============================================================================
