------------------------------- MODULE AArch64 -------------------------------
(***************************************************************************)
(* The host instructions of src/AArch64/Instr.h as Emitter::emit           *)
(* (src/AArch64/Emitter.cpp) writes them out, and what they do.            *)
(*                                                                         *)
(* A host state is [asg, r, cmp, x, mem]: the machine registers that the   *)
(* block was emitted with, what they hold, the operands of the last cmp,   *)
(* the guest registers x0 points to, and the guest memory, which the host  *)
(* sees MemBase further up.                                                *)
(***************************************************************************)
EXTENDS IR

CONSTANT MemBase   \* state->mem, the host address of guest address 0

ASSUME MemBaseAssumption == MemBase \in Nat

RegV(v)        == [kind |-> "RegV", id |-> v, imm |-> 0]
RegP(p)        == [kind |-> "RegP", id |-> p, imm |-> 0]
Imm(n)         == [kind |-> "Imm", id |-> 0, imm |-> n]
Mem(base, off) == [kind |-> "Mem", id |-> base, imm |-> off]

Instr(op, ops) == [op |-> op, ops |-> ops]

BinOps ==
  [Add |-> "Add", Sub |-> "Sub", And |-> "And", Orr |-> "Or", Eor |-> "Xor",
   Lsl |-> "Shl", Lsr |-> "LShr", Asr |-> "AShr"]

\* What cset tests after cmp.
CondCodes ==
  [CsetEq |-> "EQ", CsetNe |-> "NE", CsetLo |-> "ULT", CsetLs |-> "ULE",
   CsetHi |-> "UGT", CsetHs |-> "UGE", CsetLt |-> "SLT", CsetLe |-> "SLE",
   CsetGt |-> "SGT", CsetGe |-> "SGE"]

\* movk: the 16 bits of v at position lsl become n.
MovK(v, n, lsl) ==
  LET field == {i \in 0 .. Width - 1 : i >= lsl /\ i < lsl + ChunkWidth}
  IN WordOf((BitsOf(v) \ field) \cup {i \in field : i - lsl \in BitsOf(n)})

\* map_v, map_any_reg: the machine register of an operand.
MachineReg(asg, op) == IF op.kind = "RegV" THEN asg[op.id] ELSE op.id

\* Base vreg 0 is x0, the state pointer: 8 bytes for each guest register.
LoadAt(h, ty, m) ==
  IF m.id = 0 THEN h.x[m.imm \div 8]
              ELSE Load(h.mem, ty, h.r[h.asg[m.id]] + m.imm - MemBase)

StoreAt(h, ty, m, v) ==
  IF m.id = 0 THEN [h EXCEPT !.x[m.imm \div 8] = v]
  ELSE [h EXCEPT !.mem = Store(h.mem, ty, h.r[h.asg[m.id]] + m.imm - MemBase, v)]

Execute(h, I) ==
  LET R(i)   == h.r[MachineReg(h.asg, I.ops[i])]
      Set(v) == [h EXCEPT !.r[h.asg[I.ops[1].id]] = v]
  IN CASE I.op = "Mov" -> Set(IF I.ops[2].kind = "Imm" THEN I.ops[2].imm ELSE R(2))
       [] I.op = "MovZ" -> Set(I.ops[2].imm)
       [] I.op = "MovK" -> Set(MovK(R(1), I.ops[2].imm, I.ops[3].imm))
       [] I.op \in DOMAIN BinOps -> Set(WordOp(BinOps[I.op], R(2), R(3)))
       [] I.op = "Cmp" -> [h EXCEPT !.cmp = <<R(1), R(2)>>]
       [] I.op \in DOMAIN CondCodes ->
            Set(IF Holds(CondCodes[I.op], h.cmp[1], h.cmp[2]) THEN 1 ELSE 0)
       [] I.op = "Sxtw" -> Set(SextHalf(R(2)))
       [] I.op = "Uxtw" -> Set(Low(R(2)))
       [] I.op = "LdrX" -> Set(LoadAt(h, "I64", I.ops[2]))
       [] I.op = "LdrW" -> Set(LoadAt(h, "I32", I.ops[2]))
       [] I.op = "StrX" -> StoreAt(h, "I64", I.ops[2], R(1))
       [] I.op = "StrW" -> StoreAt(h, "I32", I.ops[2], R(1))

\* A block begins by putting the memory base into x21; r is what registers hold
\* before that.
EnterBlock(asg, r, g) ==
  [asg |-> asg, r |-> [r EXCEPT ![21] = MemBase], cmp |-> <<0, 0>>,
   x |-> g.x, mem |-> g.mem]

\* A block as emitted: then the instructions, then the terminator.
RunBlock(blk, asg, r, g) ==
  LET h == FoldLeft(Execute, EnterBlock(asg, r, g), blk.instrs)
      v == IF blk.term.kind \in {"CBr", "BrIndirect"} THEN h.r[asg[blk.term.id]] ELSE 0
  IN [x |-> h.x, mem |-> h.mem, exit |-> ExitOf(blk.term, v)]
=============================================================================
