------------------------------- MODULE RegAlloc -------------------------------
(***************************************************************************)
(* RegAlloc::allocate (src/AArch64/RegAlloc.cpp): linear scan over the     *)
(* intervals of a block, sorted by start, with a stack of free registers.  *)
(*                                                                         *)
(* The items come out of an unordered_map and std::sort compares starts    *)
(* only, so the order among equal starts is unspecified: any of them may   *)
(* be next.  Before an item is served, expire() goes through the active    *)
(* intervals: one step for each it keeps or frees, and one for each        *)
(* register it then pushes back.                                           *)
(***************************************************************************)
EXTENDS LiveIntervals, Sequences, SequencesExt

\* The pool at the start of a block: a stack whose top is the last element.
CONSTANT PhysPool

ASSUME PoolAssumption == PhysPool \in Seq(Nat) /\ IsInjective(PhysPool)

VARIABLES
  live,    \* LivenessMap of the block (never changes)
  todo,    \* items not served yet
  item,    \* the item the loop is at
  pool,    \* free registers
  active,  \* virtual registers that hold a register, in order of allocation;
           \* while expire() runs, those it has not looked at
  kept,    \* those it has kept
  freed,   \* registers of those it has erased
  asg,     \* asg.v2p
  phase    \* "alloc" at the head of the loop, "expire" in its body, "done"
           \* after it, "abort" after abort()

vars == <<live, todo, item, pool, active, kept, freed, asg, phase>>

NoItem == 0

Init ==
  /\ \E S \in SUBSET VReg : live \in [S -> LiveRange]
  /\ todo = DOMAIN live
  /\ item = NoItem
  /\ pool = PhysPool
  /\ active = <<>> /\ kept = <<>> /\ freed = <<>>
  /\ asg = <<>>
  /\ phase = "alloc"

-----------------------------------------------------------------------------

\* Mutant of IsNextItem: the items are not sorted.
IsAnyItem(v) == v \in todo

\* v is the next item: no remaining one starts earlier.
IsNextItem(v) == v \in todo /\ \A w \in todo : live[v].start <= live[w].start

TakeItem(v) ==
  /\ phase = "alloc"
  /\ IsNextItem(v)
  /\ item' = v
  /\ phase' = "expire"
  /\ UNCHANGED <<live, todo, pool, active, kept, freed, asg>>

\* Mutants of Expired: an interval that ends at cur is kept; one that has
\* started is over.
EndedBefore(w, cur) == live[w].end < cur

StartedBy(w, cur) == live[w].start <= cur

Expired(w, cur) == live[w].end <= cur

\* expire() looks at the next active interval.
Examine == phase = "expire" /\ active # <<>>

Keep ==
  /\ Examine
  /\ ~ Expired(Head(active), live[item].start)
  /\ kept' = Append(kept, Head(active))
  /\ active' = Tail(active)
  /\ UNCHANGED <<live, todo, item, pool, freed, asg, phase>>

\* Mutant of Free: the virtual register is remembered, not its register.
FreeVReg ==
  /\ Examine
  /\ Expired(Head(active), live[item].start)
  /\ freed' = Append(freed, Head(active))
  /\ active' = Tail(active)
  /\ UNCHANGED <<live, todo, item, pool, kept, asg, phase>>

Free ==
  /\ Examine
  /\ Expired(Head(active), live[item].start)
  /\ freed' = Append(freed, asg[Head(active)])
  /\ active' = Tail(active)
  /\ UNCHANGED <<live, todo, item, pool, kept, asg, phase>>

\* Mutant of PushFreed: what expires is dropped.
DropFreed ==
  /\ phase = "expire" /\ active = <<>> /\ freed # <<>>
  /\ freed' = Tail(freed)
  /\ UNCHANGED <<live, todo, item, pool, active, kept, asg, phase>>

PushFreed ==
  /\ phase = "expire" /\ active = <<>> /\ freed # <<>>
  /\ pool' = Append(pool, Head(freed))
  /\ freed' = Tail(freed)
  /\ UNCHANGED <<live, todo, item, active, kept, asg, phase>>

\* expire() has returned.
Serve == phase = "expire" /\ active = <<>> /\ freed = <<>>

\* Mutant of Allocate: the loop does not come to the next item.
AllocateAgain ==
  /\ Serve
  /\ pool # <<>>
  /\ asg' = [w \in DOMAIN asg \cup {item} |->
               IF w = item THEN pool[Len(pool)] ELSE asg[w]]
  /\ pool' = SubSeq(pool, 1, Len(pool) - 1)
  /\ active' = Append(kept, item)
  /\ kept' = <<>> /\ item' = NoItem
  /\ phase' = "alloc"
  /\ UNCHANGED <<live, todo, freed>>

\* pool.back(), pool.pop_back(), active.push_back()
Allocate ==
  /\ Serve
  /\ pool # <<>>
  /\ asg' = [w \in DOMAIN asg \cup {item} |->
               IF w = item THEN pool[Len(pool)] ELSE asg[w]]
  /\ pool' = SubSeq(pool, 1, Len(pool) - 1)
  /\ active' = Append(kept, item)
  /\ kept' = <<>> /\ item' = NoItem
  /\ todo' = todo \ {item}
  /\ phase' = "alloc"
  /\ UNCHANGED <<live, freed>>

\* Out of registers: abort().
Abort ==
  /\ Serve
  /\ pool = <<>>
  /\ phase' = "abort"
  /\ UNCHANGED <<live, todo, item, pool, active, kept, freed, asg>>

Return ==
  /\ phase = "alloc"
  /\ todo = {}
  /\ phase' = "done"
  /\ UNCHANGED <<live, todo, item, pool, active, kept, freed, asg>>

Next ==
  \/ \E v \in todo : TakeItem(v)
  \/ Keep \/ Free \/ PushFreed
  \/ Allocate \/ Abort
  \/ Return

\* The loop over the items runs to its end or to abort().
Spec == Init /\ [][Next]_vars /\ WF_vars(Next)
-----------------------------------------------------------------------------

(***************************************************************************)
(* The types of the allocator's state.                                     *)
(***************************************************************************)
TypeOK ==
  /\ IsLivenessMap(live)
  /\ todo \subseteq DOMAIN live
  /\ phase \in {"alloc", "expire", "done", "abort"}
  /\ phase \in {"expire", "abort"} => IsNextItem(item)
  /\ phase \notin {"expire", "abort"} => kept = <<>> /\ freed = <<>>
  /\ DOMAIN asg = DOMAIN live \ todo
  /\ asg \in [DOMAIN asg -> Range(PhysPool)]
  /\ active \in Seq(DOMAIN asg) /\ kept \in Seq(DOMAIN asg)
  /\ pool \in Seq(Range(PhysPool)) /\ freed \in Seq(Range(PhysPool))

\* Virtual registers in the list of active ones, and the registers they hold.
Held == Range(active) \cup Range(kept)

Holding == {asg[v] : v \in Held}

(***************************************************************************)
(* Registers are conserved: each one of the pool is at any time free, on   *)
(* its way back to the free ones, or held by exactly one active virtual    *)
(* register, and only one of these; none is on the stack twice.            *)
(***************************************************************************)
PoolConservation ==
  /\ IsInjective(pool) /\ IsInjective(freed)
  /\ \A v, w \in Held : v # w => asg[v] # asg[w]
  /\ Range(pool) \cap Range(freed) = {}
  /\ Range(pool) \cap Holding = {}
  /\ Range(freed) \cap Holding = {}
  /\ Range(pool) \cup Range(freed) \cup Holding = Range(PhysPool)

(***************************************************************************)
(* The allocator with its stack and its list of active intervals           *)
(* implements linear scan over sets.                                       *)
(***************************************************************************)
Scan == INSTANCE LinearScan
          WITH Regs <- Range(PhysPool), held <- Held,
               phase <- IF phase = "expire" THEN "alloc" ELSE phase

ImplementsScan == Scan!Spec

NoSharing == Scan!NoSharing

GivesUpOnlyWhenFull == Scan!GivesUpOnlyWhenFull

(***************************************************************************)
(* allocate() ends: every item served, or abort().                         *)
(***************************************************************************)
Termination == <>(phase \in {"done", "abort"})
=============================================================================
