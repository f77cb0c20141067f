--------------------------------- MODULE ISel ---------------------------------
(***************************************************************************)
(* ISel::select (src/AArch64/ISel.cpp): a block of IR becomes host         *)
(* instructions over virtual registers.                                    *)
(***************************************************************************)
EXTENDS AArch64

\* vreg_of: the entry of vmap at index id is id + 1 once it is set.
VRegOf(id) == id + 1

Chunk(val, i) == (val \div 2 ^ (i * ChunkWidth)) % (2 ^ ChunkWidth)

\* One movk, unless its chunk is zero.
SelectChunk(v, val, i) ==
  IF Chunk(val, i) = 0 THEN <<>>
  ELSE <<Instr("MovK", <<RegV(v), Imm(Chunk(val, i)), Imm(i * ChunkWidth)>>)>>

\* Mutant of SelectConst: the top chunk is forgotten.
SelectConstShort(v, val) ==
  <<Instr("MovZ", <<RegV(v), Imm(Chunk(val, 0))>>)>>
  \o SelectChunk(v, val, 1) \o SelectChunk(v, val, 2)

\* Two chunks or more: movz, then a movk for each further chunk not zero.
SelectConst(v, val) ==
  IF val \div 2 ^ ChunkWidth = 0 THEN <<Instr("Mov", <<RegV(v), Imm(val)>>)>>
  ELSE <<Instr("MovZ", <<RegV(v), Imm(Chunk(val, 0))>>)>>
       \o SelectChunk(v, val, 1) \o SelectChunk(v, val, 2) \o SelectChunk(v, val, 3)

OpOfBinOp ==
  [Add |-> "Add", Sub |-> "Sub", And |-> "And", Or |-> "Orr", Xor |-> "Eor",
   Shl |-> "Lsl", LShr |-> "Lsr", AShr |-> "Asr"]

CsetOf ==
  [EQ |-> "CsetEq", NE |-> "CsetNe", ULT |-> "CsetLo", ULE |-> "CsetLs",
   UGT |-> "CsetHi", UGE |-> "CsetHs", SLT |-> "CsetLt", SLE |-> "CsetLe",
   SGT |-> "CsetGt", SGE |-> "CsetGe"]

\* Guest address plus x21, the memory base, in a virtual register of its own.
SelectAddress(vaddr, base) ==
  Instr("Add", <<RegV(vaddr), RegV(base), RegP(21)>>)

\* The host instructions of one IR instruction of a block at pc; vaddr is the
\* next virtual register for an address.
SelectInst(I, pc, vaddr) ==
  LET d      == RegV(VRegOf(I.dest))
      arg(i) == RegV(VRegOf(I.args[i]))
  IN CASE I.kind = "Const" -> SelectConst(VRegOf(I.dest), I.imm)
       [] I.kind = "ReadReg"  -> <<Instr("LdrX", <<d, Mem(0, 8 * I.reg)>>)>>
       [] I.kind = "WriteReg" -> <<Instr("StrX", <<arg(1), Mem(0, 8 * I.reg)>>)>>
       [] I.kind = "BinOp" -> <<Instr(OpOfBinOp[I.what], <<d, arg(1), arg(2)>>)>>
       [] I.kind = "ICmp"  -> <<Instr("Cmp", <<arg(1), arg(2)>>),
                                Instr(CsetOf[I.what], <<d>>)>>
       [] I.kind = "ZExt" -> <<Instr(IF I.what = "I64" THEN "Uxtw" ELSE "Mov", <<d, arg(1)>>)>>
       [] I.kind = "SExt" -> <<Instr(IF I.what = "I64" THEN "Sxtw" ELSE "Mov", <<d, arg(1)>>)>>
       [] I.kind = "Trunc" -> <<Instr("Mov", <<d, arg(1)>>)>>
       [] I.kind = "Load" ->
            <<SelectAddress(vaddr, VRegOf(I.args[1])),
              Instr(IF I.what = "I32" THEN "LdrW" ELSE "LdrX", <<d, Mem(vaddr, I.imm)>>)>>
       [] I.kind = "Store" ->
            <<SelectAddress(vaddr, VRegOf(I.args[2])),
              Instr(IF I.what = "I32" THEN "StrW" ELSE "StrX", <<arg(1), Mem(vaddr, I.imm)>>)>>
       [] I.kind = "GetPC" -> <<Instr("Mov", <<d, Imm(pc)>>)>>

\* Mutant of NeedsAddress: a store does not push its address register.
NeedsAddressLoad(I) == I.kind = "Load"

NeedsAddress(I) == I.kind \in {"Load", "Store"}

\* out is the host block so far and the size of vmap, which starts with one
\* entry more than the block has instructions; an address takes the number
\* after its size and grows it.
SelectStep(out, I) ==
  [out EXCEPT !.instrs = @ \o SelectInst(I, out.guest_pc, out.size + 1),
              !.size   = IF NeedsAddress(I) THEN @ + 1 ELSE @]

SelectInsts(bb) ==
  FoldLeft(SelectStep,
           [guest_pc |-> bb.start, instrs |-> <<>>, size |-> Len(bb.insts) + 1],
           bb.insts).instrs

SelectTerm(t) ==
  [kind |-> t.kind, t |-> t.t, f |-> t.f,
   id |-> IF t.kind \in {"CBr", "BrIndirect"} THEN VRegOf(t.v) ELSE 0]

\* Mutant of Select: the block's address is not copied.
SelectUnplaced(bb) ==
  [guest_pc |-> 0, instrs |-> SelectInsts(bb), term |-> SelectTerm(bb.term)]

Select(bb) ==
  [guest_pc |-> bb.start, instrs |-> SelectInsts(bb), term |-> SelectTerm(bb.term)]
=============================================================================
