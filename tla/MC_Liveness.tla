----------------------------- MODULE MC_Liveness -----------------------------
(***************************************************************************)
(* Blocks of up to three instructions over three virtual registers, with   *)
(* the operands ISel gives its instructions; a register is written before  *)
(* it is read.                                                             *)
(***************************************************************************)
EXTENDS Liveness

MCVReg == 1 .. 3

MCPosition == 0 .. 3

Op(kind, id) == [kind |-> kind, id |-> id, imm |-> 0]

V(v) == Op("RegV", v)

\* movz or mov; movk; ldr and str of a guest register; an address; a load
\* and a store through one; a comparison and its flag.
Instrs ==
  {[op |-> op, ops |-> <<V(v), Op("Imm", 0)>>] : op \in {"MovZ", "MovK"}, v \in MCVReg}
  \cup {[op |-> op, ops |-> <<V(v), Op("Mem", 0)>>] : op \in {"LdrX", "StrX"}, v \in MCVReg}
  \cup {[op |-> "Add", ops |-> <<V(v), V(w), Op("RegP", 21)>>] : v, w \in MCVReg}
  \cup {[op |-> op, ops |-> <<V(v), Op("Mem", w)>>] : op \in {"LdrW", "StrW"}, v, w \in MCVReg}
  \cup {[op |-> "Cmp", ops |-> <<V(v), V(w)>>] : v, w \in MCVReg}
  \cup {[op |-> "CsetEq", ops |-> <<V(v)>>] : v \in MCVReg}

Defines(i) == IF i.op \in {"MovK", "StrX", "StrW", "Cmp"} THEN {} ELSE {i.ops[1].id}

Uses(i) == UNION {TouchedBy(i.ops[n]) : n \in 2 .. Len(i.ops)}
           \cup IF Defines(i) = {} THEN {i.ops[1].id} ELSE {}

\* Sequences of instructions, with the registers written so far.
Extended(S) ==
  {[instrs |-> Append(s.instrs, i), defs |-> s.defs \cup Defines(i)] :
     s \in S, i \in Instrs}

Sound(S) ==
  {s \in S : LET n == Len(s.instrs)
                 i == s.instrs[n]
                 before == UNION {Defines(s.instrs[m]) : m \in 1 .. n - 1}
             IN Uses(i) \subseteq before /\ Defines(i) \cap before = {}}

Len0 == {[instrs |-> <<>>, defs |-> {}]}
Len1 == Sound(Extended(Len0))
Len2 == Sound(Extended(Len1))
Len3 == Sound(Extended(Len2))

Term(id) == [kind |-> IF id = 0 THEN "Br" ELSE "CBr", id |-> id]

MCBlocks ==
  {[instrs |-> b[1].instrs, term |-> Term(b[2])] :
     b \in {c \in (Len0 \cup Len1 \cup Len2 \cup Len3) \X (MCVReg \cup {0}) :
            c[2] # 0 => c[2] \in c[1].defs}}
=============================================================================
