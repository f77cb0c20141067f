---------------------------------- MODULE IR ----------------------------------
(***************************************************************************)
(* The SSA form of src/IR/IR.h: what its instructions are and mean.        *)
(*                                                                         *)
(* An instruction is [kind, what, dest, args, reg, imm]: what is the       *)
(* operation, condition or type it is about, dest the value it defines     *)
(* (NoValue if none), args the values it uses.                             *)
(***************************************************************************)
EXTENDS Words, SequencesExt, TLC

NoValue == -1

IRInst(kind, what, dest, args, reg, imm) ==
  [kind |-> kind, what |-> what, dest |-> dest, args |-> args,
   reg |-> reg, imm |-> imm]

IRConst(v, c)           == IRInst("Const", "I64", v, <<>>, 0, c)
IRReadReg(v, r)         == IRInst("ReadReg", "I64", v, <<>>, r, 0)
IRWriteReg(r, a)        == IRInst("WriteReg", "I64", NoValue, <<a>>, r, 0)
IRBinOp(v, kind, a, b)  == IRInst("BinOp", kind, v, <<a, b>>, 0, 0)
IRICmp(v, cond, a, b)   == IRInst("ICmp", cond, v, <<a, b>>, 0, 0)
IRCast(kind, v, ty, a)  == IRInst(kind, ty, v, <<a>>, 0, 0)
IRLoad(v, ty, a, off)   == IRInst("Load", ty, v, <<a>>, 0, off)
IRStore(ty, a, b, off)  == IRInst("Store", ty, NoValue, <<a, b>>, 0, off)
IRGetPC(v)              == IRInst("GetPC", "I64", v, <<>>, 0, 0)

\* A block's terminator: Br, CBr (condition v, targets t and f), BrIndirect
\* (target value v), Ret or Trap.
IRTerm(kind, v, t, f) == [kind |-> kind, v |-> v, t |-> t, f |-> f]

(***************************************************************************)
(* Running a block: s is [env, x, mem, start], env the values defined so   *)
(* far; GetPC gives the start of the block (an instruction has no address  *)
(* of its own).                                                            *)
(***************************************************************************)
Bind(env, v, a) == [w \in DOMAIN env \cup {v} |-> IF w = v THEN a ELSE env[w]]

IRValue(s, I) ==
  LET arg(i) == s.env[I.args[i]]
  IN CASE I.kind = "Const"   -> I.imm
       [] I.kind = "ReadReg" -> s.x[I.reg]
       [] I.kind = "BinOp"   -> WordOp(I.what, arg(1), arg(2))
       [] I.kind = "ICmp"    -> IF Holds(I.what, arg(1), arg(2)) THEN 1 ELSE 0
       [] I.kind = "SExt"    -> SextHalf(arg(1))
       [] I.kind = "ZExt"    -> Low(arg(1))
       [] I.kind = "Trunc"   -> Low(arg(1))
       [] I.kind = "Load"    -> Load(s.mem, I.what, arg(1) + I.imm)
       [] I.kind = "GetPC"   -> s.start

IRWrite(s, I) == [s EXCEPT !.x[I.reg] = s.env[I.args[1]]]

IRToMemory(s, I) ==
  [s EXCEPT !.mem = Store(s.mem, I.what, s.env[I.args[2]] + I.imm, s.env[I.args[1]])]

IRDefine(s, I) == [s EXCEPT !.env = Bind(s.env, I.dest, IRValue(s, I))]

IRStep(s, I) ==
  CASE I.kind = "WriteReg" -> IRWrite(s, I)
    [] I.kind = "Store"    -> IRToMemory(s, I)
    [] OTHER               -> IRDefine(s, I)

\* Where control goes after the block, given the value of term.v.
ExitOf(term, v) ==
  CASE term.kind = "Br"  -> [kind |-> "goto", pc |-> term.t]
    [] term.kind = "CBr" -> [kind |-> "goto", pc |-> IF v # 0 THEN term.t ELSE term.f]
    [] term.kind = "BrIndirect" -> [kind |-> "goto", pc |-> v]
    [] term.kind = "Ret"  -> [kind |-> "ret", pc |-> 0]
    [] term.kind = "Trap" -> [kind |-> "trap", pc |-> 0]

RunIR(ir, g) ==
  LET entered == [env |-> <<>>, x |-> g.x, mem |-> g.mem, start |-> ir.start]
      s == FoldLeft(IRStep, entered, ir.insts)
      v == IF ir.term.kind \in {"CBr", "BrIndirect"} THEN s.env[ir.term.v] ELSE 0
  IN [x |-> s.x, mem |-> s.mem, exit |-> ExitOf(ir.term, v)]
=============================================================================
