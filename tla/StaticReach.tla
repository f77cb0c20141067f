----------------------------- MODULE StaticReach -----------------------------
(***************************************************************************)
(* What a control-flow graph builder promises, with no queue and no        *)
(* blocks: starting from the entry it discovers addresses, each of them a  *)
(* static successor of one discovered before, and it stops only when what  *)
(* it has discovered is closed under static succession.                    *)
(***************************************************************************)
EXTENDS GuestCode

VARIABLES
  code,   \* the guest program
  seen,   \* addresses discovered so far
  done    \* has discovery ended?

vars == <<code, seen, done>>

Init ==
  /\ code \in Program
  /\ seen = {Entry}
  /\ done = FALSE

\* Discover everything one static step away from a discovered address.
Visit(a) ==
  /\ ~ done
  /\ seen' = seen \cup StaticSucc(code, a)
  /\ UNCHANGED <<code, done>>

Finish ==
  /\ ~ done
  /\ Closed(code, seen)
  /\ done' = TRUE
  /\ UNCHANGED <<code, seen>>

Next == Finish \/ \E a \in seen : Visit(a)

Spec == Init /\ [][Next]_vars

(***************************************************************************)
(* The discovered set is the least closed set that contains the entry:     *)
(* nothing unreachable is in it, and at the end nothing reachable is       *)
(* missing from it.                                                        *)
(***************************************************************************)
NothingUnreachable ==
  \A S \in SUBSET Addr :
    Entry \in S /\ Closed(code, S) => seen \subseteq S

NothingMissing == done => Closed(code, seen)
=============================================================================
