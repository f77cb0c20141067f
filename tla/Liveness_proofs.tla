---------------------------- MODULE Liveness_proofs ----------------------------
(***************************************************************************)
(* analyze() computes what ExactIntervals says of every block, however     *)
(* long and with whatever operands.                                        *)
(***************************************************************************)
EXTENDS Liveness, SequenceTheorems, TLAPS

\* m is exact for the positions P[v] at which each v has been touched.
Exact(m, P) ==
  /\ DOMAIN m = {v \in VReg : P[v] # {}}
  /\ \A v \in DOMAIN m :
       /\ m[v].end \in P[v]
       /\ \A p \in P[v] : p <= m[v].end
       /\ m[v].start \in P[v]
       /\ \A p \in P[v] : p # 0 => m[v].start # 0 /\ m[v].start <= p

AllPositions == [v \in VReg |-> Positions(v)]

\* What touch() leaves in the map: a new entry, or one whose bounds are both
\* 0, becomes [p, p]; another one grows; the others stay.
LEMMA TouchedEntry ==
  ASSUME NEW m, NEW v, NEW p \in Nat
  PROVE  /\ DOMAIN Touched(m, v, p) = DOMAIN m \cup {v}
         /\ \A w \in DOMAIN m \ {v} : Touched(m, v, p)[w] = m[w]
  BY DEF Touched

\* The first touch of a virtual register, and any touch of one whose bounds
\* are both 0, sets its interval to that position alone.
LEMMA TouchedFirst ==
  ASSUME NEW m, NEW v, NEW p \in Position,
         v \in DOMAIN m => m[v].start = 0 /\ m[v].end = 0
  PROVE  /\ Touched(m, v, p)[v] \in LiveRange
         /\ Touched(m, v, p)[v].start = p
         /\ Touched(m, v, p)[v].end = p
<1>1. p \in Nat
  BY PositionAssumption
<1>2. LET old == IF v \in DOMAIN m THEN m[v] ELSE [start |-> 0, end |-> 0]
      IN old.start = 0 /\ old.end = 0
  OBVIOUS
<1>. QED
  BY <1>1, <1>2 DEF Touched, LiveRange

\* A touch no earlier than the end of an interval that is set moves the end
\* there and leaves the start.
LEMMA TouchedAgain ==
  ASSUME NEW m, NEW v \in DOMAIN m, NEW p \in Position, m[v] \in LiveRange,
         ~ (m[v].start = 0 /\ m[v].end = 0), m[v].end <= p
  PROVE  /\ Touched(m, v, p)[v] \in LiveRange
         /\ Touched(m, v, p)[v].start = m[v].start
         /\ Touched(m, v, p)[v].end = p
<1>1. p \in Nat /\ m[v].start \in Position /\ m[v].start \in Nat /\ m[v].end \in Nat
      /\ m[v].start <= p
  BY PositionAssumption DEF LiveRange
<1>2. ~ (p < m[v].start) /\ (IF p > m[v].end THEN p ELSE m[v].end) = p
  BY <1>1
<1>. QED
  BY <1>1, <1>2 DEF Touched, LiveRange

\* touch() at a position that no touch so far lies behind keeps the map exact.
LEMMA TouchKeepsExact ==
  ASSUME NEW m, IsLivenessMap(m), NEW P \in [VReg -> SUBSET Nat], Exact(m, P),
         NEW v \in VReg, NEW p \in Position,
         \A w \in VReg : \A q \in P[w] : q <= p
  PROVE  /\ IsLivenessMap(Touched(m, v, p))
         /\ Exact(Touched(m, v, p), [P EXCEPT ![v] = @ \cup {p}])
<1> DEFINE n == Touched(m, v, p)
           Q == [P EXCEPT ![v] = @ \cup {p}]
<1>1. p \in Nat
  BY PositionAssumption
<1>2. \A w \in DOMAIN m : /\ m[w].start \in Nat /\ m[w].end \in Nat
                          /\ m[w] \in LiveRange /\ w \in VReg
                          /\ m[w] = [start |-> m[w].start, end |-> m[w].end]
                          /\ m[w].start <= m[w].end
  BY PositionAssumption DEF IsLivenessMap, LiveRange
<1>3. DOMAIN n = DOMAIN m \cup {v}
  BY <1>1, <1>2, TouchedEntry
<1>4. Q[v] = P[v] \cup {p} /\ \A w \in VReg \ {v} : Q[w] = P[w]
  OBVIOUS
<1>5. \A w \in DOMAIN m \ {v} : n[w] = m[w]
  BY <1>1, <1>2, TouchedEntry
<1>6. /\ n[v] \in LiveRange
      /\ n[v].end \in Q[v]
      /\ \A q \in Q[v] : q <= n[v].end
      /\ n[v].start \in Q[v]
      /\ \A q \in Q[v] : q # 0 => n[v].start # 0 /\ n[v].start <= q
  <2>1. CASE v \notin DOMAIN m
    <3>1. n[v] \in LiveRange /\ n[v].start = p /\ n[v].end = p
      BY <2>1, TouchedFirst
    <3>2. Q[v] = {p}
      BY <1>4, <2>1 DEF Exact
    <3>. QED
      BY <1>1, <3>1, <3>2
  <2>2. CASE v \in DOMAIN m /\ m[v].start = 0 /\ m[v].end = 0
    <3>1. n[v] \in LiveRange /\ n[v].start = p /\ n[v].end = p
      BY <2>2, TouchedFirst
    <3>2. P[v] = {0}
      BY <2>2 DEF Exact
    <3>3. Q[v] = {0, p}
      BY <1>4, <3>2
    <3>. QED
      BY <1>1, <3>1, <3>3
  <2>3. CASE v \in DOMAIN m /\ ~ (m[v].start = 0 /\ m[v].end = 0)
    <3>1. /\ m[v].end \in P[v] /\ m[v].start \in P[v]
          /\ \A q \in P[v] : q <= m[v].end
          /\ \A q \in P[v] : q # 0 => m[v].start # 0 /\ m[v].start <= q
      BY <2>3 DEF Exact
    <3>2. /\ m[v].start <= p /\ m[v].end <= p
          /\ m[v].start \in Nat /\ m[v].end \in Nat
      BY <1>2, <2>3, <3>1
    <3>3. n[v] \in LiveRange /\ n[v].start = m[v].start /\ n[v].end = p
      BY <1>2, <2>3, <3>2, TouchedAgain
    <3>4. m[v].start # 0
      BY <2>3, <3>1, <3>2
    <3>. QED
      BY <1>1, <1>4, <3>1, <3>2, <3>3, <3>4
  <2>. QED
    BY <2>1, <2>2, <2>3
<1>7. IsLivenessMap(n)
  <2>1. \A w \in DOMAIN n : n[w] \in LiveRange /\ w \in VReg
    BY <1>2, <1>3, <1>5, <1>6
  <2>2. n = [w \in DOMAIN n |-> n[w]]
    BY DEF Touched
  <2>. QED
    BY <2>1, <2>2 DEF IsLivenessMap
<1>8. Exact(n, Q)
  <2>1. DOMAIN n = {w \in VReg : Q[w] # {}}
    BY <1>2, <1>3, <1>4 DEF Exact
  <2>2. ASSUME NEW w \in DOMAIN n, w # v
        PROVE  /\ n[w].end \in Q[w]
               /\ \A q \in Q[w] : q <= n[w].end
               /\ n[w].start \in Q[w]
               /\ \A q \in Q[w] : q # 0 => n[w].start # 0 /\ n[w].start <= q
    BY <1>2, <1>3, <1>4, <1>5, <2>2 DEF Exact
  <2>. QED
    BY <1>6, <2>1, <2>2 DEF Exact
<1>. QED
  BY <1>7, <1>8

-----------------------------------------------------------------------------

\* What a block is made of, in the form the steps below use it.
LEMMA BlockShape ==
  ASSUME TypeOK
  PROVE  /\ Len(block.instrs) \in Nat /\ DOMAIN block.instrs = 1 .. Len(block.instrs)
         /\ pos \in Nat /\ pos <= Len(block.instrs)
         /\ pos \in Position
         /\ \A p \in DOMAIN block.instrs :
              /\ Len(block.instrs[p].ops) \in Nat
              /\ DOMAIN block.instrs[p].ops = 1 .. Len(block.instrs[p].ops)
              /\ \A j \in DOMAIN block.instrs[p].ops :
                   TouchedBy(block.instrs[p].ops[j]) \subseteq VReg
         /\ TouchedByTerm(block.term) \subseteq VReg
<1>1. IsBlock(block)
  BY DEF TypeOK
<1>2. \A p \in DOMAIN block.instrs :
        block.instrs[p] \in AnyInstr
  BY <1>1, ElementOfSeq DEF IsBlock
<1>3. \A p \in DOMAIN block.instrs :
        block.instrs[p].ops \in Seq(AnyOperand)
  BY <1>2 DEF AnyInstr
<1>4. Len(block.instrs) \in Nat /\ DOMAIN block.instrs = 1 .. Len(block.instrs)
  BY <1>1 DEF IsBlock
<1>5. pos \in Nat /\ pos <= Len(block.instrs) /\ pos \in Position
  BY <1>1, <1>4 DEF TypeOK, IsBlock
<1>. QED
  BY <1>1, <1>3, <1>4, <1>5 DEF IsBlock

\* An operand or a terminator touches one virtual register at most.
LEMMA TouchOne ==
  ASSUME NEW V \in SUBSET VReg, \A v, w \in V : v = w, NEW m, NEW p
  PROVE  /\ V = {} => TouchEach(m, V, p) = m
         /\ \A v \in V : V = {v} /\ TouchEach(m, V, p) = Touched(m, v, p)
<1>1. ASSUME NEW v \in V
      PROVE  V = {v} /\ (CHOOSE w \in V : TRUE) = v
  OBVIOUS
<1>. QED
  BY <1>1 DEF TouchEach

\* No operand and no terminator touches two virtual registers.
LEMMA TouchesAreSingle ==
  ASSUME NEW x
  PROVE  /\ \A v, w \in TouchedBy(x) : v = w
         /\ \A v, w \in TouchedByTerm(x) : v = w
  BY DEF TouchedBy, TouchedByTerm

\* No touch lies behind the current position.
LEMMA PositionsBound ==
  ASSUME TypeOK
  PROVE  /\ AllPositions \in [VReg -> SUBSET Nat]
         /\ \A w \in VReg : \A q \in AllPositions[w] : q <= pos
  BY BlockShape DEF AllPositions, Positions

\* The property ExactIntervals in the form the lemmas about touch() use.
LEMMA ExactIsExact == ExactIntervals <=> Exact(live, AllPositions)
<1>1. \A v \in VReg : AllPositions[v] = Positions(v)
  BY DEF AllPositions
<1>. QED
  BY <1>1 DEF ExactIntervals, Exact

IInv == TypeOK /\ ExactIntervals

\* The invariant holds of the empty map analyze() starts with.
LEMMA LiveStarts ==
  ASSUME IsBlock(block), pos = 0, k = 0, live = <<>>, phase = "scan"
  PROVE  IInv
<1>1. IsBlock(block)
  OBVIOUS
<1>2. Len(block.instrs) \in Nat
  BY <1>1 DEF IsBlock
<1>3. TypeOK
  <2>1. k \in IF AtInstr THEN 0 .. Len(Operands) ELSE {0}
    <3>1. AtInstr => Len(Operands) \in Nat
      <4>1. SUFFICES ASSUME AtInstr PROVE Len(Operands) \in Nat
        OBVIOUS
      <4>2. 1 \in DOMAIN block.instrs
        BY <1>1, <1>2, <4>1 DEF AtInstr, IsBlock
      <4>3. block.instrs[1] \in AnyInstr
        BY <1>1, <4>2, ElementOfSeq DEF IsBlock
      <4>. QED
        BY <4>3 DEF Operands, AnyInstr
    <3>. QED
      BY <3>1
  <2>2. IsLivenessMap(live)
    BY DEF IsLivenessMap
  <2>. QED
    BY <1>1, <1>2, <2>1, <2>2 DEF TypeOK
<1>4. \A v \in VReg : Positions(v) = {}
  BY <1>2 DEF Positions, SeenAt, AtInstr, Operands
<1>5. ExactIntervals
  BY <1>4 DEF ExactIntervals
<1>. QED
  BY <1>3, <1>5 DEF IInv

LEMMA LiveInit == Init => IInv
  BY BlocksAssumption, LiveStarts DEF Init

\* A step that touches the registers in V at pos, and adds pos to their
\* positions, keeps the map exact.
LEMMA TouchStep ==
  ASSUME IInv, NEW V \in SUBSET VReg, \A v, w \in V : v = w,
         live' = TouchEach(live, V, pos),
         AllPositions' = [v \in VReg |-> IF v \in V THEN AllPositions[v] \cup {pos}
                                                   ELSE AllPositions[v]]
  PROVE  IsLivenessMap(live)' /\ ExactIntervals'
<1>1. IsLivenessMap(live) /\ Exact(live, AllPositions)
  BY ExactIsExact DEF IInv, TypeOK
<1>2. AllPositions \in [VReg -> SUBSET Nat]
  BY PositionsBound DEF IInv
<1>3. IsLivenessMap(live') /\ Exact(live', AllPositions')
  <2>1. CASE V = {}
    BY <1>1, <1>2, <2>1, TouchOne
  <2>2. CASE V # {}
    <3>1. PICK v \in V : V = {v} /\ live' = Touched(live, v, pos)
      BY <2>2, TouchOne
    <3>2. AllPositions' = [AllPositions EXCEPT ![v] = @ \cup {pos}]
      BY <1>2, <3>1
    <3>3. pos \in Position /\ \A w \in VReg : \A q \in AllPositions[w] : q <= pos
      BY BlockShape, PositionsBound DEF IInv
    <3>. QED
      BY <1>1, <1>2, <3>1, <3>2, <3>3, TouchKeepsExact
  <2>. QED
    BY <2>1, <2>2
<1>4. ExactIntervals' <=> Exact(live', AllPositions')
  <2>1. \A v \in VReg : AllPositions'[v] = Positions(v)'
    BY DEF AllPositions
  <2>. QED
    BY <2>1 DEF ExactIntervals, Exact
<1>. QED
  BY <1>3, <1>4 DEF IsLivenessMap, LiveRange

\* Looking at one more operand keeps the invariant.
LEMMA OperandStep == IInv /\ TouchOperand => IInv'
<1> SUFFICES ASSUME IInv, TouchOperand
             PROVE  IInv'
  OBVIOUS
<1> DEFINE V == TouchedBy(Operands[k + 1])
<1>1. TypeOK
  BY DEF IInv
<1>2. /\ pos + 1 \in DOMAIN block.instrs
      /\ Len(Operands) \in Nat /\ k \in 0 .. Len(Operands) /\ k + 1 \in DOMAIN Operands
      /\ AtInstr /\ phase # "done" /\ pos \in Nat
  BY <1>1, BlockShape DEF TypeOK, TouchOperand, AtInstr, Operands
<1>3. V \subseteq VReg /\ \A v, w \in V : v = w
  BY <1>1, <1>2, BlockShape, TouchesAreSingle DEF Operands
<1>4. /\ block' = block /\ pos' = pos /\ k' = k + 1 /\ phase' = phase
      /\ live' = TouchEach(live, V, pos)
  BY DEF TouchOperand
<1>5. \A p \in 0 .. pos : SeenAt(p)' = IF p = pos THEN SeenAt(p) \cup V ELSE SeenAt(p)
  <2> SUFFICES ASSUME NEW p \in 0 .. pos
               PROVE  SeenAt(p)' = IF p = pos THEN SeenAt(p) \cup V ELSE SeenAt(p)
    OBVIOUS
  <2>1. CASE p < pos
    BY <1>1, <1>4, <2>1, BlockShape DEF SeenAt, TouchesAt
  <2>2. CASE p = pos
    <3>1. SeenAt(p) = UNION {TouchedBy(Operands[j]) : j \in 1 .. k}
      BY <1>2, <2>2 DEF SeenAt
    <3>2. SeenAt(p)' = UNION {TouchedBy(Operands[j]) : j \in 1 .. k + 1}
      BY <1>1, <1>2, <1>4, <2>2, BlockShape DEF SeenAt, AtInstr, Operands
    <3>3. 1 .. k + 1 = (1 .. k) \cup {k + 1}
      BY <1>2
    <3>. QED
      BY <2>2, <3>1, <3>2, <3>3
  <2>. QED
    BY <1>1, <2>1, <2>2, BlockShape
<1>6. AllPositions' = [v \in VReg |-> IF v \in V THEN AllPositions[v] \cup {pos}
                                                ELSE AllPositions[v]]
  <2>1. \A v \in VReg : Positions(v)' = IF v \in V THEN Positions(v) \cup {pos} ELSE Positions(v)
    BY <1>1, <1>4, <1>5, BlockShape DEF Positions
  <2>. QED
    BY <2>1 DEF AllPositions
<1>7. IsLivenessMap(live)' /\ ExactIntervals'
  BY <1>3, <1>4, <1>6, TouchStep
<1>8. TypeOK'
  <2>1. (k \in IF AtInstr THEN 0 .. Len(Operands) ELSE {0})'
    BY <1>2, <1>4 DEF AtInstr, Operands, TouchOperand
  <2>. QED
    BY <1>1, <1>4, <1>7, <2>1 DEF TypeOK, IsBlock
<1>. QED
  BY <1>7, <1>8 DEF IInv

\* Going to the next instruction keeps the invariant.
LEMMA NextInstrStep == IInv /\ NextInstr => IInv'
<1> SUFFICES ASSUME IInv, NextInstr
             PROVE  IInv'
  OBVIOUS
<1>1. TypeOK /\ ExactIntervals
  BY DEF IInv
<1>2. /\ pos + 1 \in DOMAIN block.instrs /\ AtInstr /\ k = Len(Operands)
      /\ block' = block /\ pos' = pos + 1 /\ k' = 0 /\ phase' = phase /\ live' = live
  BY <1>1, BlockShape DEF NextInstr, AtInstr
<1>3. /\ pos \in Nat /\ Len(block.instrs) \in Nat /\ pos < Len(block.instrs)
      /\ phase = "scan" /\ pos' \in 0 .. Len(block.instrs)
  BY <1>1, <1>2, BlockShape DEF AtInstr
<1>4. \A p \in 0 .. pos : SeenAt(p)' = SeenAt(p)
  <2> SUFFICES ASSUME NEW p \in 0 .. pos
               PROVE  SeenAt(p)' = SeenAt(p)
    OBVIOUS
  <2>1. SeenAt(p)' = TouchesAt(p)
    BY <1>2, <1>3 DEF SeenAt, TouchesAt
  <2>2. CASE p < pos
    BY <2>1, <2>2 DEF SeenAt
  <2>3. CASE p = pos
    <3>1. SeenAt(p) = UNION {TouchedBy(Operands[j]) : j \in 1 .. k}
      BY <1>2, <1>3, <2>3 DEF SeenAt
    <3>2. DOMAIN Operands = 1 .. k
      BY <1>1, <1>2, BlockShape DEF Operands
    <3>. QED
      BY <1>3, <2>1, <2>3, <3>1, <3>2 DEF TouchesAt, Operands
  <2>. QED
    BY <1>3, <2>2, <2>3
<1>5. \A p : p = pos + 1 => SeenAt(p)' = {}
  BY <1>2, <1>3 DEF SeenAt, AtInstr, Operands
<1>6. \A v \in VReg : Positions(v)' = Positions(v)
  <2> SUFFICES ASSUME NEW v \in VReg, NEW p
               PROVE  p \in Positions(v)' <=> p \in Positions(v)
    OBVIOUS
  <2>1. p \in 0 .. pos' <=> p \in 0 .. pos \/ p = pos + 1
    BY <1>2, <1>3
  <2>2. p \in Positions(v)' <=> p \in 0 .. pos' /\ v \in SeenAt(p)'
    BY DEF Positions
  <2>3. p = pos + 1 => v \notin SeenAt(p)' /\ p \notin 0 .. pos
    BY <1>3, <1>5
  <2>. QED
    BY <1>4, <2>1, <2>2, <2>3 DEF Positions
<1>7. ExactIntervals'
  BY <1>1, <1>2, <1>6 DEF ExactIntervals, TypeOK, IsLivenessMap
<1>8. (k \in IF AtInstr THEN 0 .. Len(Operands) ELSE {0})'
  <2>1. AtInstr' => (Len(Operands) \in Nat)'
    BY <1>1, <1>2, <1>3, BlockShape DEF AtInstr, Operands
  <2>. QED
    BY <1>2, <2>1
<1>9. TypeOK'
  BY <1>1, <1>2, <1>3, <1>8 DEF TypeOK, IsBlock, IsLivenessMap
<1>. QED
  BY <1>7, <1>9 DEF IInv

\* Looking at the terminator keeps the invariant.
LEMMA TermStep == IInv /\ TouchTerm => IInv'
<1> SUFFICES ASSUME IInv, TouchTerm
             PROVE  IInv'
  OBVIOUS
<1> DEFINE V == TouchedByTerm(block.term)
<1>1. TypeOK
  BY DEF IInv
<1>2. V \subseteq VReg /\ \A v, w \in V : v = w
  BY <1>1, BlockShape, TouchesAreSingle
<1>3. /\ block' = block /\ pos' = pos /\ k' = k /\ phase = "scan" /\ phase' = "done"
      /\ live' = TouchEach(live, V, pos) /\ pos = Len(block.instrs) /\ pos \in Nat
      /\ ~ AtInstr
  BY <1>1, BlockShape DEF TouchTerm, AtInstr
<1>4. \A p \in 0 .. pos : SeenAt(p)' = IF p = pos THEN SeenAt(p) \cup V ELSE SeenAt(p)
  <2> SUFFICES ASSUME NEW p \in 0 .. pos
               PROVE  SeenAt(p)' = IF p = pos THEN SeenAt(p) \cup V ELSE SeenAt(p)
    OBVIOUS
  <2>1. CASE p < pos
    BY <1>3, <2>1 DEF SeenAt, TouchesAt
  <2>2. CASE p = pos
    <3>1. SeenAt(p) = {}
      BY <1>3, <2>2 DEF SeenAt
    <3>2. SeenAt(p)' = V
      BY <1>3, <2>2 DEF SeenAt, TouchesAt, AtInstr
    <3>. QED
      BY <2>2, <3>1, <3>2
  <2>. QED
    BY <1>3, <2>1, <2>2
<1>5. AllPositions' = [v \in VReg |-> IF v \in V THEN AllPositions[v] \cup {pos}
                                                ELSE AllPositions[v]]
  <2>1. \A v \in VReg : Positions(v)' = IF v \in V THEN Positions(v) \cup {pos} ELSE Positions(v)
    BY <1>3, <1>4 DEF Positions
  <2>. QED
    BY <2>1 DEF AllPositions
<1>6. IsLivenessMap(live)' /\ ExactIntervals'
  BY <1>2, <1>3, <1>5, TouchStep
<1>7. TypeOK'
  BY <1>1, <1>3, <1>6 DEF TypeOK, IsBlock, AtInstr
<1>. QED
  BY <1>6, <1>7 DEF IInv

\* The invariant holds in every state of the analysis.
LEMMA LiveStep == IInv /\ [Next]_vars => IInv'
<1>1. IInv /\ UNCHANGED vars => IInv'
  <2> SUFFICES ASSUME IInv, UNCHANGED vars
               PROVE  IInv'
    OBVIOUS
  <2>1. block' = block /\ pos' = pos /\ k' = k /\ live' = live /\ phase' = phase
    BY DEF vars
  <2>2. TypeOK'
    BY <2>1 DEF IInv, TypeOK, AtInstr, Operands, IsLivenessMap, IsBlock
  <2>3. \A v : Positions(v)' = Positions(v)
    BY <2>1 DEF Positions, SeenAt, TouchesAt, AtInstr, Operands
  <2>4. ExactIntervals'
    BY <2>1, <2>3 DEF IInv, ExactIntervals
  <2>. QED
    BY <2>2, <2>4 DEF IInv
<1>. QED
  BY <1>1, OperandStep, NextInstrStep, TermStep DEF Next

LEMMA LiveInvariance == Spec => []IInv
  BY LiveInit, LiveStep, PTL DEF Spec

(***************************************************************************)
(* The state of the analysis keeps its types; in particular every interval *)
(* starts no later than it ends, at positions of the block.                *)
(***************************************************************************)
THEOREM LiveTyping == Spec => []TypeOK
  BY LiveInvariance, PTL DEF IInv

(***************************************************************************)
(* At every turn the map holds exactly the intervals of what has been      *)
(* looked at, up to the one loss: a first touch at position 0 is forgotten *)
(* when a second touch follows.                                            *)
(***************************************************************************)
THEOREM LiveExact == Spec => []ExactIntervals
  BY LiveInvariance, PTL DEF IInv

-----------------------------------------------------------------------------
\* What allocation may rely on.

\* An assignment of machine registers that gives the same one only to
\* intervals that do not interfere: what RegAlloc promises (NoSharing).
SharesNoInterval(asg) ==
  \A v, w \in DOMAIN asg :
    v # w /\ Interfere(live[v], live[w]) => asg[v] # asg[w]

\* Where v is touched after the first position of the block.
LaterTouches(v) == Positions(v) \ {0}

\* One of the two is done with before the other one begins.
Apart(v, w) ==
  \/ \A p \in LaterTouches(v), q \in LaterTouches(w) : p <= q
  \/ \A p \in LaterTouches(v), q \in LaterTouches(w) : q <= p

\* Where nothing interferes, one interval ends before the other starts.
LEMMA NoInterferenceOrdered ==
  ASSUME NEW a, NEW b, ~ Interfere(a, b),
         a.start \in Nat, a.end \in Nat, b.start \in Nat, b.end \in Nat,
         a.start <= a.end, b.start <= b.end
  PROVE  a.end <= b.start \/ b.end <= a.start
  BY DEF Interfere

(***************************************************************************)
(* What liveness and allocation give the emitter together, for any block:  *)
(* virtual registers that share a machine register are touched one after   *)
(* the other, with the touches at position 0 as the only exception.  So    *)
(* the value that the sentinel of touch() forgets is all that can be lost. *)
(***************************************************************************)
THEOREM SharedApart ==
  Spec => [](\A asg : SharesNoInterval(asg) =>
               \A v, w \in DOMAIN asg \cap DOMAIN live :
                 v # w /\ asg[v] = asg[w] => Apart(v, w))
<1>1. ASSUME IInv, NEW asg, SharesNoInterval(asg),
             NEW v \in DOMAIN asg \cap DOMAIN live,
             NEW w \in DOMAIN asg \cap DOMAIN live,
             v # w, asg[v] = asg[w]
      PROVE  Apart(v, w)
  <2>1. ~ Interfere(live[v], live[w])
    BY <1>1 DEF SharesNoInterval
  <2>2. \A u \in DOMAIN live : /\ live[u].start \in Nat /\ live[u].end \in Nat
                               /\ live[u].start <= live[u].end
    BY <1>1, PositionAssumption DEF IInv, TypeOK, IsLivenessMap, LiveRange
  <2>3. live[v].end <= live[w].start \/ live[w].end <= live[v].start
    BY <1>1, <2>1, <2>2, NoInterferenceOrdered
  <2>4. \A u \in DOMAIN live : \A p \in LaterTouches(u) :
          p \in Nat /\ live[u].start <= p /\ p <= live[u].end
    BY <1>1 DEF IInv, TypeOK, ExactIntervals, LaterTouches, Positions
  <2>. QED
    BY <1>1, <2>2, <2>3, <2>4 DEF Apart
<1>2. IInv => \A asg : SharesNoInterval(asg) =>
        \A v, w \in DOMAIN asg \cap DOMAIN live :
          v # w /\ asg[v] = asg[w] => Apart(v, w)
  BY <1>1
<1>. QED
  BY <1>2, LiveInvariance, PTL
=============================================================================
