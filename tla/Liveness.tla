------------------------------- MODULE Liveness -------------------------------
(***************************************************************************)
(* Liveness::analyze (src/AArch64/Liveness.cpp): one interval of positions *)
(* per virtual register of a block, grown by touch() at every operand.     *)
(*                                                                         *)
(* One step is one operand, or the step to the next instruction, or the    *)
(* terminator.                                                             *)
(***************************************************************************)
EXTENDS LiveIntervals, Sequences

CONSTANT Blocks   \* the blocks analyze() may be given

\* The virtual register an operand makes analyze() touch, if any.  OpRegV and
\* OpMem carry one, but base 0 of an OpMem is x0, the state pointer; OpRegP and
\* OpImm carry none.
TouchedBy(op) ==
  IF op.kind = "RegV" \/ (op.kind = "Mem" /\ op.id # 0) THEN {op.id} ELSE {}

\* What the terminator reads: CBr its condition, BrIndirect its target.
TouchedByTerm(t) == IF t.kind \in {"CBr", "BrIndirect"} THEN {t.id} ELSE {}

AnyOperand == [kind : {"RegV", "RegP", "Imm", "Mem"}, id : Nat, imm : Int]

\* The operations of enum Op that select() makes blocks of.
Opcodes ==
  {"Mov", "MovZ", "MovK", "Add", "Sub", "And", "Orr", "Eor", "Lsl", "Lsr", "Asr",
   "LdrX", "LdrW", "StrX", "StrW", "Cmp", "CsetEq", "CsetNe", "CsetLo", "CsetLs",
   "CsetHi", "CsetHs", "CsetLt", "CsetLe", "CsetGt", "CsetGe", "Sxtw", "Uxtw"}

AnyInstr == [op : Opcodes, ops : Seq(AnyOperand)]

IsBlock(b) ==
  /\ b.instrs \in Seq(AnyInstr)
  /\ 0 .. Len(b.instrs) \subseteq Position
  /\ \A p \in DOMAIN b.instrs : \A j \in DOMAIN b.instrs[p].ops :
       TouchedBy(b.instrs[p].ops[j]) \subseteq VReg
  /\ TouchedByTerm(b.term) \subseteq VReg

ASSUME BlocksAssumption == \A b \in Blocks : IsBlock(b)

VARIABLES
  block,   \* the block (never changes)
  pos,     \* position of the current instruction, from 0
  k,       \* operands of it already looked at
  live,    \* map: VReg -> interval
  phase    \* "scan", or "done" after the terminator

vars == <<block, pos, k, live, phase>>

Init ==
  /\ block \in Blocks
  /\ pos = 0
  /\ k = 0
  /\ live = <<>>
  /\ phase = "scan"

-----------------------------------------------------------------------------

\* Mutants of Touched: the comparisons the wrong way round; the end of an
\* interval that exists is not moved.
TouchedInverted(m, v, p) ==
  LET old == IF v \in DOMAIN m THEN m[v] ELSE [start |-> p, end |-> p]
      new == [start |-> IF p > old.start THEN p ELSE old.start,
              end   |-> IF p < old.end THEN p ELSE old.end]
  IN [w \in DOMAIN m \cup {v} |-> IF w = v THEN new ELSE m[w]]

TouchedOnce(m, v, p) ==
  IF v \in DOMAIN m THEN m
  ELSE [w \in DOMAIN m \cup {v} |-> IF w = v THEN [start |-> p, end |-> p] ELSE m[w]]

\* touch(v, p), with the sentinel the code uses: start = 0 and end = 0 is
\* taken for an interval that has not been set.
Touched(m, v, p) ==
  LET old == IF v \in DOMAIN m THEN m[v] ELSE [start |-> 0, end |-> 0]
      set == IF old.start = 0 /\ old.end = 0
               THEN [start |-> p, end |-> p] ELSE old
      new == [start |-> IF p < set.start THEN p ELSE set.start,
              end   |-> IF p > set.end THEN p ELSE set.end]
  IN [w \in DOMAIN m \cup {v} |-> IF w = v THEN new ELSE m[w]]

\* m after touching the virtual register in V, if there is one.
TouchEach(m, V, p) == IF V = {} THEN m ELSE Touched(m, CHOOSE v \in V : TRUE, p)

AtInstr == phase = "scan" /\ pos < Len(block.instrs)

Operands == block.instrs[pos + 1].ops

TouchOperand ==
  /\ AtInstr
  /\ k < Len(Operands)
  /\ live' = TouchEach(live, TouchedBy(Operands[k + 1]), pos)
  /\ k' = k + 1
  /\ UNCHANGED <<block, pos, phase>>

\* Mutant of NextInstr: the position is not advanced.
SameInstr ==
  /\ AtInstr
  /\ k = Len(Operands)
  /\ k' = 0
  /\ UNCHANGED <<block, pos, live, phase>>

NextInstr ==
  /\ AtInstr
  /\ k = Len(Operands)
  /\ pos' = pos + 1
  /\ k' = 0
  /\ UNCHANGED <<block, live, phase>>

TouchTerm ==
  /\ phase = "scan"
  /\ pos = Len(block.instrs)
  /\ live' = TouchEach(live, TouchedByTerm(block.term), pos)
  /\ phase' = "done"
  /\ UNCHANGED <<block, pos, k>>

Next == TouchOperand \/ NextInstr \/ TouchTerm

Spec == Init /\ [][Next]_vars /\ WF_vars(Next)
-----------------------------------------------------------------------------

\* The virtual registers a position of the block touches.
TouchesAt(p) ==
  IF p < Len(block.instrs)
    THEN UNION {TouchedBy(block.instrs[p + 1].ops[j]) : j \in DOMAIN block.instrs[p + 1].ops}
    ELSE TouchedByTerm(block.term)

\* Those among them analyze() has looked at so far.
SeenAt(p) ==
  IF p < pos \/ (p = pos /\ phase = "done") THEN TouchesAt(p)
  ELSE IF p = pos /\ AtInstr THEN UNION {TouchedBy(Operands[j]) : j \in 1 .. k}
  ELSE {}

Positions(v) == {p \in 0 .. pos : v \in SeenAt(p)}

(***************************************************************************)
(* The types of the analysis.                                              *)
(***************************************************************************)
TypeOK ==
  /\ IsBlock(block)
  /\ pos \in 0 .. Len(block.instrs)
  /\ k \in IF AtInstr THEN 0 .. Len(Operands) ELSE {0}
  /\ IsLivenessMap(live)
  /\ phase \in {"scan", "done"}

(***************************************************************************)
(* What analyze() computes, exactly: the interval of a virtual register    *)
(* ends at its last touch and starts at its first touch after position 0;  *)
(* it starts at 0 only if the register is touched nowhere else.            *)
(***************************************************************************)
ExactIntervals ==
  /\ DOMAIN live = {v \in VReg : Positions(v) # {}}
  /\ \A v \in DOMAIN live :
       /\ live[v].end \in Positions(v)
       /\ \A p \in Positions(v) : p <= live[v].end
       /\ live[v].start \in Positions(v)
       /\ \A p \in Positions(v) : p # 0 => live[v].start # 0 /\ live[v].start <= p

(***************************************************************************)
(* analyze() returns.                                                      *)
(***************************************************************************)
Termination == <>(phase = "done")
=============================================================================
