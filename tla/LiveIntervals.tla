---------------------------- MODULE LiveIntervals ----------------------------
(***************************************************************************)
(* Live intervals within a block (struct LiveRange and LivenessMap of      *)
(* src/AArch64/Liveness.h), and when two of them need a register each.     *)
(***************************************************************************)
EXTENDS Integers

CONSTANTS
  VReg,      \* virtual registers
  Position   \* instruction positions of a block

ASSUME PositionAssumption == Position \subseteq Nat

LiveRange == {lr \in [start : Position, end : Position] : lr.start <= lr.end}

IsLivenessMap(m) == DOMAIN m \subseteq VReg /\ m \in [DOMAIN m -> LiveRange]

\* Two intervals overlap in more than an end point.  An interval that starts
\* where another ends does not interfere with it: the instruction reads its
\* operands before it writes its result.
Interfere(a, b) ==
  \/ a.start < b.start /\ b.start < a.end
  \/ b.start < a.start /\ a.start < b.end
  \/ a.start = b.start /\ a.start < a.end /\ b.start < b.end
=============================================================================
