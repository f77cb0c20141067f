------------------------------ MODULE LinearScan ------------------------------
(***************************************************************************)
(* What linear-scan register allocation promises, with no free list and no *)
(* order among free registers: intervals are served by increasing start,   *)
(* a register is held until the interval that owns it has ended, and any   *)
(* register nobody holds may be given out.                                 *)
(***************************************************************************)
EXTENDS LiveIntervals

CONSTANT Regs   \* physical registers that may be given out

VARIABLES
  live,   \* interval of every virtual register of the block
  todo,   \* virtual registers not served yet
  held,   \* virtual registers whose interval has not been found to be over
  asg,    \* physical register of every served virtual register
  phase   \* "alloc", "done" or "abort"

vars == <<live, todo, held, asg, phase>>

Init ==
  /\ \E S \in SUBSET VReg : live \in [S -> LiveRange]
  /\ todo = DOMAIN live
  /\ held = {}
  /\ asg = <<>>
  /\ phase = "alloc"

\* No interval still to be served starts before that of v.
IsNext(v) == v \in todo /\ \A w \in todo : live[v].start <= live[w].start

\* What is still held when the scan reaches the start of v.
Kept(v) == {w \in held : live[w].end > live[v].start}

Available(v) == Regs \ {asg[w] : w \in Kept(v)}

\* The interval of w has ended when the scan reaches the next start.
Expire(w) ==
  /\ phase = "alloc"
  /\ \E v \in todo : IsNext(v) /\ w \in held \ Kept(v)
  /\ held' = held \ {w}
  /\ UNCHANGED <<live, todo, asg, phase>>

Assign(v) ==
  /\ phase = "alloc"
  /\ IsNext(v)
  /\ \E r \in Available(v) :
       asg' = [w \in DOMAIN asg \cup {v} |-> IF w = v THEN r ELSE asg[w]]
  /\ held' = Kept(v) \cup {v}
  /\ todo' = todo \ {v}
  /\ UNCHANGED <<live, phase>>

GiveUp(v) ==
  /\ phase = "alloc"
  /\ IsNext(v)
  /\ Available(v) = {}
  /\ held' = Kept(v)
  /\ phase' = "abort"
  /\ UNCHANGED <<live, todo, asg>>

Finish ==
  /\ phase = "alloc"
  /\ todo = {}
  /\ phase' = "done"
  /\ UNCHANGED <<live, todo, held, asg>>

Next ==
  \/ \E w \in held : Expire(w)
  \/ \E v \in todo : Assign(v) \/ GiveUp(v)
  \/ Finish

Spec == Init /\ [][Next]_vars
-----------------------------------------------------------------------------

(***************************************************************************)
(* The types of the scan's state.                                          *)
(***************************************************************************)
TypeOK ==
  /\ IsLivenessMap(live)
  /\ todo \subseteq DOMAIN live
  /\ held \subseteq DOMAIN asg
  /\ DOMAIN asg = DOMAIN live \ todo
  /\ asg \in [DOMAIN asg -> Regs]
  /\ phase \in {"alloc", "done", "abort"}

(***************************************************************************)
(* Virtual registers whose intervals interfere never share a register.     *)
(***************************************************************************)
NoSharing ==
  \A v, w \in DOMAIN asg :
    v # w /\ Interfere(live[v], live[w]) => asg[v] # asg[w]

(***************************************************************************)
(* The scan gives up only when it has to: every register is owned by an    *)
(* interval that spans the start of the one that cannot be served.         *)
(***************************************************************************)
GivesUpOnlyWhenFull ==
  phase = "abort" =>
    \E v \in todo : \A r \in Regs : \E w \in DOMAIN asg :
      /\ asg[w] = r
      /\ live[w].start <= live[v].start
      /\ live[v].start < live[w].end

(***************************************************************************)
(* A scan that ends normally has served every virtual register: the        *)
(* emitter aborts on one that has no register.                             *)
(***************************************************************************)
AllServed == phase = "done" => DOMAIN asg = DOMAIN live
=============================================================================
