---------------------------- MODULE RegAlloc_proofs ----------------------------
(***************************************************************************)
(* The allocator keeps its types and its registers and implements linear   *)
(* scan, for any liveness map, any pool and any order among equal starts;  *)
(* what is proved of linear scan carries over.                             *)
(***************************************************************************)
EXTENDS RegAlloc, SequenceFacts

\* The list of active intervals repeats none.
ActiveOnce ==
  /\ Distinct(active) /\ Distinct(kept)
  /\ Range(active) \cap Range(kept) = {}

\* What expire() has kept spans the start of the item.
KeptSpans ==
  phase = "expire" =>
    \A w \in Range(kept) : ~ Expired(w, live[item].start)

Inv == TypeOK /\ PoolConservation /\ ActiveOnce /\ KeptSpans

\* The sets behind the sequences of the state.
LEMMA Ranges ==
  ASSUME TypeOK
  PROVE  /\ Range(active) \subseteq DOMAIN asg /\ Range(kept) \subseteq DOMAIN asg
         /\ Range(pool) \subseteq Range(PhysPool)
         /\ Range(freed) \subseteq Range(PhysPool)
         /\ Distinct(pool) <=> IsInjective(pool)
         /\ Distinct(freed) <=> IsInjective(freed)
  BY RangeMember, DistinctInjective DEF TypeOK

\* The allocator starts with every register free.
LEMMA AllocInit == Init => Inv
<1> SUFFICES ASSUME Init
             PROVE  Inv
  OBVIOUS
<1>1. /\ DOMAIN asg = {} /\ active = <<>> /\ kept = <<>> /\ freed = <<>>
      /\ todo = DOMAIN live /\ phase = "alloc" /\ pool = PhysPool
      /\ IsLivenessMap(live)
  BY DEF Init, IsLivenessMap
<1>2. PhysPool \in Seq(Range(PhysPool))
  BY PoolAssumption DEF Range
<1>3. TypeOK
  BY <1>1, <1>2 DEF TypeOK, Init
<1>4. Held = {} /\ Holding = {}
  BY <1>1, RangeOfEmpty DEF Held, Holding
<1>5. IsInjective(pool) /\ IsInjective(freed)
  BY <1>1, PoolAssumption DEF IsInjective
<1>6. PoolConservation
  BY <1>1, <1>4, <1>5, RangeOfEmpty DEF PoolConservation
<1>7. ActiveOnce
  BY <1>1, RangeOfEmpty DEF ActiveOnce, Distinct
<1>. QED
  BY <1>1, <1>3, <1>6, <1>7 DEF Inv, KeptSpans

-----------------------------------------------------------------------------

\* Taking an item disturbs nothing: no interval has been kept yet.
LEMMA TakeItemStep ==
  ASSUME Inv, NEW v \in todo, TakeItem(v)
  PROVE  Inv' /\ Held' = Held
<1>1. /\ UNCHANGED <<live, todo, pool, active, kept, freed, asg>>
      /\ item' = v /\ phase' = "expire" /\ phase = "alloc" /\ IsNextItem(v)
  BY DEF TakeItem
<1>2. kept = <<>>
  BY <1>1 DEF Inv, TypeOK
<1>3. TypeOK'
  BY <1>1 DEF Inv, TypeOK, IsNextItem, IsLivenessMap
<1>4. Held' = Held /\ Holding' = Holding
  BY <1>1 DEF Held, Holding
<1>5. PoolConservation' /\ ActiveOnce'
  BY <1>1, <1>4 DEF Inv, PoolConservation, ActiveOnce, Held
<1>6. KeptSpans'
  BY <1>1, <1>2, RangeOfEmpty DEF KeptSpans
<1>. QED
  BY <1>3, <1>4, <1>5, <1>6 DEF Inv

\* Looking at the next active interval takes it out of the list.
LEMMA ExamineFacts ==
  ASSUME Inv, Examine
  PROVE  /\ Head(active) \in DOMAIN asg /\ Head(active) \in DOMAIN live
         /\ Head(active) \notin Range(kept)
         /\ Head(active) \notin Range(Tail(active))
         /\ Range(active) = Range(Tail(active)) \cup {Head(active)}
         /\ Tail(active) \in Seq(DOMAIN asg)
         /\ Distinct(Tail(active))
         /\ item \in DOMAIN live
<1>1. active \in Seq(DOMAIN asg) /\ active # <<>> /\ Distinct(active)
  BY DEF Inv, TypeOK, ActiveOnce, Examine
<1>2. /\ Head(active) \in DOMAIN asg /\ Head(active) \in Range(active)
      /\ Range(active) = Range(Tail(active)) \cup {Head(active)}
      /\ Tail(active) \in Seq(DOMAIN asg)
      /\ Distinct(Tail(active)) /\ Head(active) \notin Range(Tail(active))
  BY <1>1, TailFacts, DistinctTail
<1>3. Head(active) \in DOMAIN live /\ item \in DOMAIN live
  BY <1>2 DEF Inv, TypeOK, Examine, IsNextItem
<1>. QED
  BY <1>2, <1>3 DEF Inv, ActiveOnce

\* An interval that is kept moves from one list to the other.
LEMMA KeepStep ==
  ASSUME Inv, Keep
  PROVE  Inv' /\ Held' = Held
<1>. DEFINE w == Head(active)
<1>1. /\ UNCHANGED <<live, todo, item, pool, freed, asg, phase>>
      /\ kept' = Append(kept, w) /\ active' = Tail(active)
      /\ ~ Expired(w, live[item].start) /\ Examine
  BY DEF Keep
<1>2. kept \in Seq(DOMAIN asg) /\ Distinct(kept)
  BY DEF Inv, TypeOK, ActiveOnce
<1>3. kept' \in Seq(DOMAIN asg) /\ Range(kept') = Range(kept) \cup {w}
  BY <1>1, <1>2, ExamineFacts, AppendFacts
<1>4. Distinct(kept')
  BY <1>1, <1>2, ExamineFacts, DistinctAppend
<1>5. Held' = Held
  BY <1>1, <1>3, ExamineFacts DEF Held
<1>6. Holding' = Holding
  BY <1>1, <1>5 DEF Holding
<1>7. TypeOK'
  BY <1>1, <1>3, ExamineFacts DEF Inv, TypeOK, IsLivenessMap, IsNextItem, Examine
<1>8. PoolConservation'
  BY <1>1, <1>5, <1>6 DEF Inv, PoolConservation
<1>9. ActiveOnce'
  BY <1>1, <1>3, <1>4, ExamineFacts DEF Inv, ActiveOnce
<1>10. KeptSpans'
  BY <1>1, <1>3 DEF Inv, KeptSpans, Expired, Examine
<1>. QED
  BY <1>5, <1>7, <1>8, <1>9, <1>10 DEF Inv

\* The register of an interval that is over leaves with it, and it alone.
LEMMA FreeStep ==
  ASSUME Inv, Free
  PROVE  Inv' /\ Held' = Held \ {Head(active)}
<1>. DEFINE w == Head(active)
<1>1. /\ UNCHANGED <<live, todo, item, pool, kept, asg, phase>>
      /\ freed' = Append(freed, asg[w]) /\ active' = Tail(active)
      /\ Examine
  BY DEF Free
<1>2. w \in Held /\ asg[w] \in Range(PhysPool) /\ asg[w] \in Holding
  BY <1>1, ExamineFacts DEF Inv, TypeOK, Held, Holding
<1>3. freed \in Seq(Range(PhysPool)) /\ Distinct(freed) /\ asg[w] \notin Range(freed)
  BY <1>2, Ranges DEF Inv, TypeOK, PoolConservation
<1>4. /\ freed' \in Seq(Range(PhysPool)) /\ Distinct(freed')
      /\ Range(freed') = Range(freed) \cup {asg[w]}
  BY <1>1, <1>2, <1>3, AppendFacts, DistinctAppend
<1>5. Held' = Held \ {w}
  BY <1>1, ExamineFacts DEF Held
<1>6. \A v \in Held : v # w => asg[v] # asg[w]
  BY <1>2 DEF Inv, PoolConservation
<1>7. Holding' = Holding \ {asg[w]}
  BY <1>1, <1>5, <1>6 DEF Holding
<1>8. TypeOK'
  BY <1>1, <1>4, ExamineFacts DEF Inv, TypeOK, IsLivenessMap, IsNextItem, Examine
<1>9. PoolConservation'
  <2>1. IsInjective(pool)' /\ IsInjective(freed)'
    <3>1. IsInjective(freed')
      BY <1>4, DistinctInjective
    <3>. QED
      BY <1>1, <3>1 DEF Inv, PoolConservation
  <2>2. asg[w] \notin Range(pool)
    BY <1>2 DEF Inv, PoolConservation
  <2>. QED
    BY <1>1, <1>2, <1>4, <1>5, <1>7, <2>1, <2>2 DEF Inv, PoolConservation
<1>10. ActiveOnce'
  BY <1>1, ExamineFacts DEF Inv, ActiveOnce
<1>11. KeptSpans'
  BY <1>1 DEF Inv, KeptSpans, Expired
<1>. QED
  BY <1>5, <1>8, <1>9, <1>10, <1>11 DEF Inv

\* A freed register goes back to the stack.
LEMMA PushFreedStep ==
  ASSUME Inv, PushFreed
  PROVE  Inv' /\ Held' = Held
<1>. DEFINE r == Head(freed)
<1>1. /\ UNCHANGED <<live, todo, item, active, kept, asg, phase>>
      /\ pool' = Append(pool, r) /\ freed' = Tail(freed)
      /\ freed # <<>> /\ phase = "expire"
  BY DEF PushFreed
<1>2. /\ freed \in Seq(Range(PhysPool)) /\ Distinct(freed)
      /\ pool \in Seq(Range(PhysPool)) /\ Distinct(pool)
  BY Ranges DEF Inv, TypeOK, PoolConservation
<1>3. /\ r \in Range(PhysPool) /\ r \in Range(freed)
      /\ Range(freed) = Range(freed') \cup {r}
      /\ freed' \in Seq(Range(PhysPool))
      /\ Distinct(freed') /\ r \notin Range(freed')
  BY <1>1, <1>2, TailFacts, DistinctTail
<1>4. r \notin Range(pool)
  BY <1>3 DEF Inv, PoolConservation
<1>5. /\ pool' \in Seq(Range(PhysPool)) /\ Distinct(pool')
      /\ Range(pool') = Range(pool) \cup {r}
  BY <1>1, <1>2, <1>3, <1>4, AppendFacts, DistinctAppend
<1>6. Held' = Held /\ Holding' = Holding
  BY <1>1 DEF Held, Holding
<1>7. TypeOK'
  BY <1>1, <1>3, <1>5 DEF Inv, TypeOK, IsLivenessMap, IsNextItem
<1>8. PoolConservation'
  <2>1. IsInjective(pool') /\ IsInjective(freed')
    BY <1>3, <1>5, DistinctInjective
  <2>. QED
    BY <1>1, <1>3, <1>5, <1>6, <2>1 DEF Inv, PoolConservation
<1>9. ActiveOnce' /\ KeptSpans'
  BY <1>1 DEF Inv, ActiveOnce, KeptSpans, Expired
<1>. QED
  BY <1>6, <1>7, <1>8, <1>9 DEF Inv

\* When expire() has returned, what is held is what it kept, and spans the
\* start of the item.
LEMMA ServeFacts ==
  ASSUME Inv, Serve
  PROVE  /\ Held = Range(kept) /\ Range(freed) = {}
         /\ item \in todo /\ item \notin DOMAIN asg /\ item \in DOMAIN live
         /\ \A w \in Held : ~ Expired(w, live[item].start)
  BY RangeOfEmpty
     DEF Inv, TypeOK, Serve, Held, KeptSpans, IsNextItem

\* The register on the top of the stack goes to the item.
LEMMA AllocateStep ==
  ASSUME Inv, Allocate
  PROVE  /\ Inv'
         /\ Held' = Held \cup {item}
         /\ pool[Len(pool)] \in Range(pool)
<1>. DEFINE r == pool[Len(pool)]
<1>1. /\ UNCHANGED <<live, freed>>
      /\ asg' = [w \in DOMAIN asg \cup {item} |-> IF w = item THEN r ELSE asg[w]]
      /\ pool' = SubSeq(pool, 1, Len(pool) - 1)
      /\ active' = Append(kept, item) /\ kept' = <<>>
      /\ todo' = todo \ {item} /\ phase' = "alloc"
      /\ Serve /\ pool # <<>>
  BY DEF Allocate
<1>2. /\ item \in todo /\ item \notin DOMAIN asg /\ item \in DOMAIN live
      /\ Held = Range(kept) /\ Range(freed) = {} /\ freed = <<>>
      /\ Range(kept) \subseteq DOMAIN asg
  BY <1>1, ServeFacts, Ranges DEF Inv, Serve
<1>3. /\ pool \in Seq(Range(PhysPool)) /\ Distinct(pool)
      /\ kept \in Seq(DOMAIN asg) /\ Distinct(kept)
  BY Ranges DEF Inv, TypeOK, PoolConservation, ActiveOnce
<1>4. /\ r \in Range(PhysPool) /\ r \in Range(pool)
      /\ pool' \in Seq(Range(PhysPool)) /\ Distinct(pool')
      /\ Range(pool) = Range(pool') \cup {r} /\ r \notin Range(pool')
  BY <1>1, <1>3, TopFacts
<1>5. /\ DOMAIN asg' = DOMAIN asg \cup {item} /\ asg'[item] = r
      /\ \A w \in DOMAIN asg : asg'[w] = asg[w]
  BY <1>1, <1>2
<1>6. /\ active' \in Seq(DOMAIN asg') /\ Distinct(active')
      /\ Range(active') = Range(kept) \cup {item}
  <2>1. kept \in Seq(DOMAIN asg')
    BY <1>3, <1>5, SeqOfLarger
  <2>. QED
    BY <1>1, <1>2, <1>3, <1>5, <2>1, AppendFacts, DistinctAppend
<1>7. Held' = Held \cup {item}
  BY <1>1, <1>2, <1>6, RangeOfEmpty DEF Held
<1>8. Holding' = Holding \cup {r}
  <2>1. \A w \in Held : asg'[w] = asg[w]
    BY <1>2, <1>5
  <2>. QED
    BY <1>5, <1>7, <2>1 DEF Holding
<1>9. r \notin Holding
  BY <1>4 DEF Inv, PoolConservation
<1>10. TypeOK'
  <2>1. asg' \in [DOMAIN asg' -> Range(PhysPool)]
    BY <1>1, <1>4 DEF Inv, TypeOK
  <2>2. DOMAIN asg' = DOMAIN live' \ todo'
    BY <1>1, <1>2, <1>5 DEF Inv, TypeOK
  <2>. QED
    BY <1>1, <1>2, <1>4, <1>6, <2>1, <2>2 DEF Inv, TypeOK, IsLivenessMap
<1>11. PoolConservation'
  <2>1. IsInjective(pool') /\ IsInjective(freed')
    BY <1>1, <1>4, DistinctInjective DEF Inv, PoolConservation
  <2>2. \A v, w \in Held' : v # w => asg'[v] # asg'[w]
    BY <1>2, <1>5, <1>7, <1>9 DEF Inv, PoolConservation, Holding
  <2>. QED
    BY <1>1, <1>2, <1>4, <1>8, <1>9, <2>1, <2>2 DEF Inv, PoolConservation
<1>12. ActiveOnce' /\ KeptSpans'
  BY <1>1, <1>6, RangeOfEmpty DEF ActiveOnce, KeptSpans, Distinct
<1>. QED
  BY <1>4, <1>7, <1>10, <1>11, <1>12 DEF Inv

\* abort() and the end of the loop change nothing but the phase.
LEMMA EndStep ==
  ASSUME Inv, Abort \/ Return \/ UNCHANGED vars
  PROVE  Inv' /\ Held' = Held
<1>1. UNCHANGED <<live, todo, item, pool, active, kept, freed, asg>>
  BY DEF Abort, Return, vars
<1>2. \/ phase' = "abort" /\ phase = "expire"
      \/ phase' = "done" /\ phase = "alloc"
      \/ phase' = phase
  BY DEF Abort, Return, Serve, vars
<1>3. Held' = Held /\ Holding' = Holding
  BY <1>1 DEF Held, Holding
<1>4. TypeOK'
  BY <1>1, <1>2 DEF Inv, TypeOK, IsLivenessMap, IsNextItem
<1>5. PoolConservation' /\ ActiveOnce' /\ KeptSpans'
  BY <1>1, <1>2, <1>3 DEF Inv, PoolConservation, ActiveOnce, KeptSpans, Expired
<1>. QED
  BY <1>3, <1>4, <1>5 DEF Inv

\* The invariant holds in every state of the allocator.
LEMMA InvStep == Inv /\ [Next]_vars => Inv'
  BY TakeItemStep, KeepStep, FreeStep, PushFreedStep, AllocateStep, EndStep
     DEF Next

\* Items are served in the order of their starts.
Ordered == \A v \in DOMAIN asg, w \in todo : live[v].start <= live[w].start

LEMMA OrderStep == Inv /\ Ordered /\ [Next]_vars => Ordered'
<1> SUFFICES ASSUME Inv, Ordered, [Next]_vars
             PROVE  Ordered'
  OBVIOUS
<1>1. CASE Allocate
  <2>1. /\ item \in todo /\ \A w \in todo : live[item].start <= live[w].start
        /\ todo' = todo \ {item} /\ live' = live
        /\ DOMAIN asg' = DOMAIN asg \cup {item}
    BY <1>1 DEF Allocate, Serve, Inv, TypeOK, IsNextItem
  <2>. QED
    BY <2>1 DEF Ordered
<1>2. CASE ~ Allocate
  <2>1. UNCHANGED <<live, todo, asg>>
    BY <1>2 DEF Next, TakeItem, Keep, Free, PushFreed, Abort, Return, vars
  <2>. QED
    BY <2>1 DEF Ordered
<1>. QED
  BY <1>1, <1>2

\* The intervals that contain a position.
Meeting(p) == {v \in DOMAIN live : live[v].start <= p /\ p <= live[v].end}

\* Where abort() is reached, others that meet the item where it starts hold
\* all registers.
LEMMA FullHouse ==
  ASSUME Inv, Ordered, Abort
  PROVE  LET H == Range(kept)
         IN /\ item \in Meeting(live[item].start) \ H
            /\ H \subseteq Meeting(live[item].start)
            /\ {asg[v] : v \in H} = Range(PhysPool)
<1>1. phase = "expire" /\ active = <<>> /\ freed = <<>> /\ pool = <<>>
  BY DEF Abort, Serve
<1>2. /\ item \in todo /\ todo \subseteq DOMAIN live /\ DOMAIN asg = DOMAIN live \ todo
      /\ kept \in Seq(DOMAIN asg)
  BY <1>1 DEF Inv, TypeOK, IsNextItem
<1>3. \A v \in DOMAIN live : /\ live[v].start \in Nat /\ live[v].end \in Nat
                             /\ live[v].start <= live[v].end
  BY PositionAssumption DEF Inv, TypeOK, IsLivenessMap, LiveRange
<1>4. Range(kept) \subseteq DOMAIN asg
  BY Ranges DEF Inv
<1>5. \A w \in Range(kept) : ~ (live[w].end <= live[item].start)
  BY <1>1 DEF Inv, KeptSpans, Expired
<1>6. item \in Meeting(live[item].start) \ Range(kept)
  BY <1>2, <1>3, <1>4 DEF Meeting
<1>7. ASSUME NEW w \in Range(kept)
      PROVE  w \in Meeting(live[item].start)
  <2>1. w \in DOMAIN asg /\ w \in DOMAIN live
    BY <1>2, <1>4
  <2>2. live[w].start <= live[item].start
    BY <1>2, <2>1 DEF Ordered
  <2>3. live[item].start <= live[w].end
    BY <1>2, <1>3, <1>5, <2>1
  <2>. QED
    BY <2>1, <2>2, <2>3 DEF Meeting
<1>8. {asg[v] : v \in Range(kept)} = Range(PhysPool)
  <2>1. Held = Range(kept) /\ Range(pool) = {} /\ Range(freed) = {}
    BY <1>1, RangeOfEmpty DEF Held
  <2>2. Range(pool) \cup Range(freed) \cup Holding = Range(PhysPool)
    BY DEF Inv, PoolConservation
  <2>. QED
    BY <2>1, <2>2 DEF Holding
<1>. QED
  BY <1>6, <1>7, <1>8

LEMMA Invariance == Spec => []Inv
  BY InvStep, AllocInit, PTL DEF Spec

(***************************************************************************)
(* The allocator's state keeps its types.                                  *)
(***************************************************************************)
THEOREM AllocTyping == Spec => []TypeOK
<1>1. Inv => TypeOK
  BY DEF Inv
<1>. QED
  BY <1>1, Invariance, PTL

(***************************************************************************)
(* Every register of the pool is free, on its way back, or held by exactly *)
(* one active interval.                                                    *)
(***************************************************************************)
THEOREM Conservation == Spec => []PoolConservation
<1>1. Inv => PoolConservation
  BY DEF Inv
<1>. QED
  BY <1>1, Invariance, PTL

-----------------------------------------------------------------------------

\* The scan's notion of the next interval is the allocator's.
LEMMA SameNext ==
  ASSUME NEW v
  PROVE  Scan!IsNext(v) <=> IsNextItem(v)
  BY DEF Scan!IsNext, IsNextItem

\* The allocator is in the phase the scan is in while it does not end.
LEMMA PhaseWhileScanning ==
  ASSUME phase \in {"alloc", "expire"}
  PROVE  (IF phase = "expire" THEN "alloc" ELSE phase) = "alloc"
  OBVIOUS

\* Freeing a register is the scan's discovery that an interval is over.
LEMMA FreeExpires ==
  ASSUME Inv, Free
  PROVE  \E w \in Held : Scan!Expire(w)
<1>. DEFINE w == Head(active)
<1>1. /\ UNCHANGED <<live, todo, asg, phase>> /\ phase = "expire"
      /\ Expired(w, live[item].start) /\ Examine
  BY DEF Free, Examine
<1>2. w \in Held /\ w \in DOMAIN live /\ item \in DOMAIN live
  BY <1>1, ExamineFacts DEF Held
<1>3. item \in todo /\ Scan!IsNext(item)
  BY <1>1, SameNext DEF Inv, TypeOK, IsNextItem
<1>4. /\ live[w].end \in Nat /\ live[item].start \in Nat
  BY <1>2, PositionAssumption DEF Inv, TypeOK, IsLivenessMap, LiveRange
<1>5. w \notin Scan!Kept(item)
  BY <1>1, <1>4 DEF Scan!Kept, Expired
<1>6. Held' = Held \ {w}
  BY FreeStep
<1>7. Scan!Expire(w)
  BY <1>1, <1>2, <1>3, <1>5, <1>6 DEF Scan!Expire
<1>. QED
  BY <1>2, <1>7

\* What the scan would keep for the item is what the allocator has kept.
LEMMA KeptIsHeld ==
  ASSUME Inv, Serve
  PROVE  Scan!Kept(item) = Held /\ Scan!Available(item) = Range(PhysPool) \ Holding
<1>1. \A w \in Held : live[w].end > live[item].start
  <2>1. \A w \in Held : w \in DOMAIN live
    BY ServeFacts, Ranges DEF Inv, TypeOK
  <2>2. \A w \in Held : live[w].end \in Nat /\ live[item].start \in Nat
    BY <2>1, ServeFacts, PositionAssumption DEF Inv, TypeOK, IsLivenessMap, LiveRange
  <2>. QED
    BY <2>2, ServeFacts DEF Expired
<1>2. Scan!Kept(item) = Held
  BY <1>1 DEF Scan!Kept
<1>. QED
  BY <1>2 DEF Scan!Available, Holding

\* Serving an item is the scan's assignment of a register nobody holds.
LEMMA AllocateAssigns ==
  ASSUME Inv, Allocate
  PROVE  \E v \in todo : Scan!Assign(v)
<1>1. /\ live' = live /\ Serve /\ phase = "expire" /\ phase' = "alloc"
      /\ todo' = todo \ {item}
      /\ asg' = [w \in DOMAIN asg \cup {item} |->
                   IF w = item THEN pool[Len(pool)] ELSE asg[w]]
  BY DEF Allocate, Serve
<1>2. item \in todo /\ Scan!IsNext(item)
  BY <1>1, SameNext DEF Inv, TypeOK, IsNextItem
<1>3. pool[Len(pool)] \in Scan!Available(item)
  BY <1>1, AllocateStep, KeptIsHeld, Ranges DEF Inv, PoolConservation
<1>4. Held' = Scan!Kept(item) \cup {item}
  BY <1>1, AllocateStep, KeptIsHeld
<1>5. Scan!Assign(item)
  BY <1>1, <1>2, <1>3, <1>4 DEF Scan!Assign
<1>. QED
  BY <1>2, <1>5

\* The allocator aborts where the scan gives up.
LEMMA AbortGivesUp ==
  ASSUME Inv, Abort
  PROVE  \E v \in todo : Scan!GiveUp(v)
<1>1. /\ UNCHANGED <<live, todo, asg>> /\ Serve
      /\ pool = <<>> /\ phase = "expire" /\ phase' = "abort"
  BY DEF Abort, Serve
<1>2. item \in todo /\ Scan!IsNext(item)
  BY <1>1, SameNext DEF Inv, TypeOK, IsNextItem
<1>3. Scan!Available(item) = {}
  BY <1>1, ServeFacts, KeptIsHeld, RangeOfEmpty DEF Inv, PoolConservation
<1>4. Held' = Scan!Kept(item)
  BY <1>1, EndStep, KeptIsHeld
<1>5. Scan!GiveUp(item)
  BY <1>1, <1>2, <1>3, <1>4 DEF Scan!GiveUp
<1>. QED
  BY <1>2, <1>5

\* The scan begins when the allocator does.
LEMMA RefinesInit == Init => Scan!Init
<1> SUFFICES ASSUME Init
             PROVE  Scan!Init
  OBVIOUS
<1>1. Held = {}
  BY RangeOfEmpty DEF Init, Held
<1>2. \E S \in SUBSET VReg : live \in [S -> Scan!LiveRange]
  BY DEF Init, LiveRange, Scan!LiveRange
<1>. QED
  BY <1>1, <1>2 DEF Init, Scan!Init

\* A step of the allocator is a step of the scan or none.
LEMMA RefinesStep == Inv /\ [Next]_vars => [Scan!Next]_Scan!vars
<1> SUFFICES ASSUME Inv, [Next]_vars
             PROVE  [Scan!Next]_Scan!vars
  OBVIOUS
<1>1. CASE \E v \in todo : TakeItem(v)
  BY <1>1, TakeItemStep DEF TakeItem, Scan!vars
<1>2. CASE Keep
  BY <1>2, KeepStep DEF Keep, Scan!vars
<1>3. CASE Free
  BY <1>3, FreeExpires DEF Scan!Next
<1>4. CASE PushFreed
  BY <1>4, PushFreedStep DEF PushFreed, Scan!vars
<1>5. CASE Allocate
  BY <1>5, AllocateAssigns DEF Scan!Next
<1>6. CASE Abort
  BY <1>6, AbortGivesUp DEF Scan!Next
<1>7. CASE Return
  <2>1. Held' = Held
    BY <1>7, EndStep
  <2>2. Scan!Finish
    BY <1>7, <2>1 DEF Return, Scan!Finish
  <2>. QED
    BY <2>2 DEF Scan!Next
<1>8. CASE UNCHANGED vars
  <2>1. Held' = Held
    BY <1>8, EndStep
  <2>. QED
    BY <1>8, <2>1 DEF vars, Scan!vars
<1>. QED
  BY <1>1, <1>2, <1>3, <1>4, <1>5, <1>6, <1>7, <1>8 DEF Next

(***************************************************************************)
(* The allocator implements linear scan over sets: freeing the register of *)
(* an active interval is the scan's discovery that it is over, the top of  *)
(* the stack is one of the registers nobody holds, abort() comes where     *)
(* there is none, and every other step is a stutter.                       *)
(***************************************************************************)
THEOREM AllocRefinement == Spec => ImplementsScan
  BY RefinesInit, RefinesStep, Invariance, PTL DEF Spec, Scan!Spec, ImplementsScan

-----------------------------------------------------------------------------
\* What linear scan guarantees, over the state the allocator maps to it.

ScanPhase == IF phase = "expire" THEN "alloc" ELSE phase

\* The virtual registers whose interval the scan has found to be over.
Over == DOMAIN asg \ Held

\* What the scan knows between two turns.
ScanInv ==
  /\ Scan!TypeOK
  /\ Scan!NoSharing
  \* held registers are held by one virtual register each
  /\ \A v, w \in Held : v # w => asg[v] # asg[w]
  \* served intervals start no later than the ones still to be served,
  /\ \A v \in DOMAIN asg, w \in todo : live[v].start <= live[w].start
  \* and those found to be over end no later than any of these starts
  /\ \A v \in Over, w \in todo : live[v].end <= live[w].start

\* Intervals start and end at positions, in this order.
LEMMA Starts ==
  ASSUME Scan!TypeOK, NEW v \in DOMAIN live
  PROVE  /\ live[v].start \in Nat
         /\ live[v].end \in Nat
         /\ live[v].start <= live[v].end
  BY PositionAssumption DEF Scan!TypeOK, Scan!IsLivenessMap, Scan!LiveRange

\* The invariant holds before the first interval is served.
LEMMA ScanInit == Scan!Init => ScanInv
<1> SUFFICES ASSUME Scan!Init
             PROVE  ScanInv
  OBVIOUS
<1>1. DOMAIN asg = {} /\ Held = {} /\ todo = DOMAIN live
  BY DEF Scan!Init
<1>2. Scan!IsLivenessMap(live)
  BY DEF Scan!Init, Scan!IsLivenessMap
<1>3. Scan!TypeOK
  BY <1>1, <1>2 DEF Scan!Init, Scan!TypeOK
<1>. QED
  BY <1>1, <1>3 DEF ScanInv, Scan!NoSharing, Over

\* The heart of the argument: the register given to v is not the register of
\* any interval that interferes with the one of v.
LEMMA AssignStep ==
  ASSUME ScanInv, NEW v \in todo, Scan!Assign(v)
  PROVE  ScanInv'
<1>1. PICK r \in Scan!Available(v) :
        asg' = [w \in DOMAIN asg \cup {v} |-> IF w = v THEN r ELSE asg[w]]
  BY DEF Scan!Assign
<1>2. /\ DOMAIN asg' = DOMAIN asg \cup {v}
      /\ asg'[v] = r
      /\ \A w \in DOMAIN asg : asg'[w] = asg[w]
      /\ v \notin DOMAIN asg /\ v \in DOMAIN live
  BY <1>1 DEF ScanInv, Scan!TypeOK
<1>3. live' = live /\ Held' = Scan!Kept(v) \cup {v} /\ todo' = todo \ {v}
      /\ Scan!Kept(v) \subseteq Held /\ ScanPhase' = ScanPhase
  BY DEF Scan!Assign, Scan!Kept, ScanPhase
<1>4. \A w \in Scan!Kept(v) : asg[w] # r
  BY DEF Scan!Available
<1>5. \A w \in todo : live[v].start <= live[w].start
  BY DEF Scan!Assign, Scan!IsNext
<1>6. \A w \in DOMAIN asg : w \in DOMAIN live
  BY DEF ScanInv, Scan!TypeOK
<1>7. ASSUME NEW w \in DOMAIN asg \ Scan!Kept(v)
      PROVE  live[w].end <= live[v].start
  <2>1. CASE w \in Over
    BY <2>1 DEF ScanInv
  <2>2. CASE w \notin Over
    <3>1. ~ (live[w].end > live[v].start)
      BY <2>2 DEF Over, Scan!Kept
    <3>2. w \in DOMAIN live
      BY <1>6
    <3>. QED
      BY <1>2, <3>1, <3>2, Starts DEF ScanInv
  <2>. QED
    BY <2>1, <2>2
<1>8. Scan!TypeOK'
  BY <1>1, <1>2, <1>3 DEF ScanInv, Scan!TypeOK, Scan!Available,
     Scan!IsLivenessMap, ScanPhase
<1>9. Scan!NoSharing'
  <2>1. ASSUME NEW w \in DOMAIN asg,
               Scan!Interfere(live[w], live[v]) \/ Scan!Interfere(live[v], live[w])
        PROVE  asg[w] # r
    <3>1. CASE w \in Scan!Kept(v)
      BY <1>4, <3>1
    <3>2. CASE w \notin Scan!Kept(v)
      <4>1. live[w].end <= live[v].start /\ live[w].start <= live[v].start
        BY <1>7, <3>2 DEF ScanInv
      <4>2. w \in DOMAIN live
        BY <1>6
      <4>3. /\ live[w].start \in Nat /\ live[w].end \in Nat
            /\ live[v].start \in Nat /\ live[v].end \in Nat
        BY <1>2, <4>2, Starts DEF ScanInv
      <4>. QED
        BY <2>1, <4>1, <4>3 DEF Scan!Interfere
    <3>. QED
      BY <3>1, <3>2
  <2>. QED
    BY <1>2, <1>3, <2>1 DEF ScanInv, Scan!NoSharing
<1>10. \A u, w \in Held' : u # w => asg'[u] # asg'[w]
  BY <1>2, <1>3, <1>4 DEF ScanInv, Scan!TypeOK
<1>11. \A u \in DOMAIN asg', w \in todo' : live'[u].start <= live'[w].start
  BY <1>2, <1>3, <1>5 DEF ScanInv
<1>12. \A u \in Over', w \in todo' : live'[u].end <= live'[w].start
  <2>1. \A u \in Over' : u \in DOMAIN asg \ Scan!Kept(v)
    BY <1>2, <1>3 DEF Over
  <2>2. ASSUME NEW u \in DOMAIN asg \ Scan!Kept(v), NEW w \in todo
        PROVE  live[u].end <= live[w].start
    <3>1. live[u].end <= live[v].start /\ live[v].start <= live[w].start
      BY <1>5, <1>7
    <3>2. live[u].end \in Nat /\ live[v].start \in Nat /\ live[w].start \in Nat
      BY <1>2, <1>6, Starts DEF ScanInv, Scan!TypeOK
    <3>. QED
      BY <3>1, <3>2
  <2>. QED
    BY <1>3, <2>1, <2>2
<1>. QED
  BY <1>8, <1>9, <1>10, <1>11, <1>12 DEF ScanInv

\* Giving up keeps the invariant, and happens only when every register is
\* owned by an interval that spans the start of the one being served.
LEMMA GiveUpStep ==
  ASSUME ScanInv, NEW v \in todo, Scan!GiveUp(v)
  PROVE  ScanInv' /\ Scan!GivesUpOnlyWhenFull'
<1>1. /\ UNCHANGED <<live, todo, asg>>
      /\ Held' = Scan!Kept(v) /\ Scan!Kept(v) \subseteq Held
      /\ ScanPhase' = "abort" /\ Scan!Available(v) = {}
      /\ \A w \in todo : live[v].start <= live[w].start
  BY DEF Scan!GiveUp, Scan!IsNext, Scan!Kept, ScanPhase
<1>2. Scan!TypeOK'
  BY <1>1 DEF ScanInv, Scan!TypeOK, Scan!IsLivenessMap, ScanPhase
<1>3. \A u \in Over', w \in todo : live[u].end <= live[w].start
  <2>1. ASSUME NEW u \in Over', NEW w \in todo
        PROVE  live[u].end <= live[w].start
    <3>1. CASE u \in Over
      BY <2>1, <3>1 DEF ScanInv
    <3>2. CASE u \notin Over
      <4>1. u \in DOMAIN live /\ v \in DOMAIN live /\ w \in DOMAIN live
        BY <1>1, <2>1 DEF ScanInv, Scan!TypeOK, Over
      <4>2. ~ (live[u].end > live[v].start)
        BY <1>1, <2>1, <3>2 DEF Over, Scan!Kept
      <4>3. live[v].start <= live[w].start
        BY <1>1
      <4>. QED
        BY <4>1, <4>2, <4>3, Starts DEF ScanInv
    <3>. QED
      BY <3>1, <3>2
  <2>. QED
    BY <2>1
<1>4. ScanInv'
  BY <1>1, <1>2, <1>3 DEF ScanInv, Scan!NoSharing
<1>5. \A r \in Range(PhysPool) : \E w \in DOMAIN asg :
        asg[w] = r /\ live[w].start <= live[v].start /\ live[v].start < live[w].end
  <2>1. \A r \in Range(PhysPool) : \E w \in Scan!Kept(v) : asg[w] = r
    BY <1>1 DEF Scan!Available
  <2>2. \A w \in Scan!Kept(v) : /\ w \in DOMAIN asg
                           /\ live[w].end > live[v].start
                           /\ live[w].start <= live[v].start
    BY DEF Scan!Kept, ScanInv, Scan!TypeOK
  <2>3. \A w \in Scan!Kept(v) : live[v].start < live[w].end
    <3>1. \A w \in Scan!Kept(v) : w \in DOMAIN live
      BY <2>2 DEF ScanInv, Scan!TypeOK
    <3>. QED
      BY <2>2, <3>1, Starts DEF ScanInv, Scan!TypeOK
  <2>. QED
    BY <2>1, <2>2, <2>3
<1>. QED
  BY <1>1, <1>4, <1>5 DEF Scan!GivesUpOnlyWhenFull

\* Finding an interval to be over before the next one is served.
LEMMA ExpireStep ==
  ASSUME ScanInv, NEW x \in Held, Scan!Expire(x)
  PROVE  ScanInv'
<1>1. PICK v \in todo : Scan!IsNext(v) /\ x \notin Scan!Kept(v)
  BY DEF Scan!Expire
<1>2. UNCHANGED <<live, todo, asg, ScanPhase>> /\ Held' = Held \ {x}
  BY DEF Scan!Expire, ScanPhase
<1>3. Scan!TypeOK'
  BY <1>2 DEF ScanInv, Scan!TypeOK, Scan!IsLivenessMap, ScanPhase
<1>4. ASSUME NEW w \in todo
      PROVE  live[x].end <= live[w].start
  <2>1. x \in DOMAIN live /\ v \in DOMAIN live /\ w \in DOMAIN live
    BY DEF ScanInv, Scan!TypeOK
  <2>2. ~ (live[x].end > live[v].start)
    BY <1>1 DEF Scan!Kept
  <2>3. live[v].start <= live[w].start
    BY <1>1 DEF Scan!IsNext
  <2>. QED
    BY <2>1, <2>2, <2>3, Starts DEF ScanInv
<1>5. \A u \in Over', w \in todo : live[u].end <= live[w].start
  BY <1>2, <1>4 DEF ScanInv, Over
<1>. QED
  BY <1>2, <1>3, <1>5 DEF ScanInv, Scan!NoSharing

\* Every step keeps the invariant and the reason for giving up.
LEMMA ScanStep ==
  ASSUME ScanInv, Scan!GivesUpOnlyWhenFull, [Scan!Next]_(Scan!vars)
  PROVE  ScanInv' /\ Scan!GivesUpOnlyWhenFull'
<1>1. ASSUME NEW v \in todo, Scan!Assign(v)
      PROVE  ScanInv' /\ Scan!GivesUpOnlyWhenFull'
  <2>1. ScanPhase' # "abort"
    BY <1>1 DEF Scan!Assign, ScanPhase
  <2>. QED
    BY <1>1, <2>1, AssignStep DEF Scan!GivesUpOnlyWhenFull, ScanPhase
<1>2. ASSUME NEW v \in todo, Scan!GiveUp(v)
      PROVE  ScanInv' /\ Scan!GivesUpOnlyWhenFull'
  BY <1>2, GiveUpStep
<1>3. ASSUME NEW x \in Held, Scan!Expire(x)
      PROVE  ScanInv' /\ Scan!GivesUpOnlyWhenFull'
  <2>1. ScanPhase' # "abort"
    BY <1>3 DEF Scan!Expire, ScanPhase
  <2>. QED
    BY <1>3, <2>1, ExpireStep DEF Scan!GivesUpOnlyWhenFull, ScanPhase
<1>4. CASE Scan!Finish
  BY <1>4 DEF Scan!Finish, ScanInv, Scan!TypeOK, Scan!IsLivenessMap,
     Scan!NoSharing, Over,
     Scan!GivesUpOnlyWhenFull
<1>5. CASE UNCHANGED Scan!vars
  BY <1>5 DEF Scan!vars, ScanInv, Scan!TypeOK, Scan!IsLivenessMap, Scan!NoSharing, Over,
     Scan!GivesUpOnlyWhenFull
<1>. QED
  BY <1>1, <1>2, <1>3, <1>4, <1>5 DEF Scan!Next

\* The invariant holds in every state of the scan.
LEMMA ScanInvariance == Scan!Spec => [](ScanInv /\ Scan!GivesUpOnlyWhenFull)
<1>1. Scan!Init => Scan!GivesUpOnlyWhenFull
  BY DEF Scan!Init, Scan!GivesUpOnlyWhenFull
<1>. QED
  BY <1>1, ScanInit, ScanStep, PTL DEF Scan!Spec

(***************************************************************************)
(* Virtual registers whose intervals interfere never share a register.     *)
(***************************************************************************)
THEOREM Sharing == Scan!Spec => []Scan!NoSharing
<1>1. ScanInv => Scan!NoSharing
  BY DEF ScanInv
<1>. QED
  BY <1>1, ScanInvariance, PTL

(***************************************************************************)
(* The scan gives up only when intervals that overlap at one position own  *)
(* all the registers.                                                      *)
(***************************************************************************)
THEOREM GivingUp == Scan!Spec => []Scan!GivesUpOnlyWhenFull
  BY ScanInvariance, PTL

(***************************************************************************)
(* A scan that ends without giving up has served every virtual register.   *)
(***************************************************************************)
THEOREM Serving == Scan!Spec => []Scan!AllServed
<1>. DEFINE Ended == ScanPhase = "done" => todo = {}
<1>1. Scan!Init => Ended
  BY DEF Scan!Init, ScanPhase
<1>2. Ended /\ [Scan!Next]_(Scan!vars) => Ended'
  BY DEF Scan!Next, Scan!Expire, Scan!Assign, Scan!GiveUp, Scan!Finish,
     Scan!vars, ScanPhase
<1>3. ScanInv /\ Ended => Scan!AllServed
  BY DEF ScanInv, Scan!TypeOK, Scan!AllServed, ScanPhase
<1>. QED
  BY <1>1, <1>2, <1>3, ScanInvariance, PTL DEF Scan!Spec

(***************************************************************************)
(* Virtual registers whose intervals interfere never share a register of   *)
(* the allocator's assignment.                                             *)
(***************************************************************************)
THEOREM AllocSharing == Spec => []NoSharing
  BY AllocRefinement, Sharing, PTL DEF ImplementsScan, NoSharing

(***************************************************************************)
(* abort() is reached only where intervals that meet at one position hold  *)
(* all the registers of the pool.                                          *)
(***************************************************************************)
THEOREM AllocGivingUp == Spec => []GivesUpOnlyWhenFull
  BY AllocRefinement, GivingUp, PTL DEF ImplementsScan, GivesUpOnlyWhenFull

\* What the allocator keeps of the scan, where it runs as a part of a larger
\* machine.
ScanHolds == ScanInv /\ Scan!GivesUpOnlyWhenFull

LEMMA ScanStarts == Init => ScanHolds
<1>1. Scan!Init => Scan!GivesUpOnlyWhenFull
  BY DEF Scan!Init, Scan!GivesUpOnlyWhenFull
<1>. QED
  BY <1>1, RefinesInit, ScanInit DEF ScanHolds

LEMMA ScanGoesOn == Inv /\ ScanHolds /\ [Next]_vars => ScanHolds'
  BY RefinesStep, ScanStep DEF ScanHolds

\* Of two virtual registers with one register, one ends before the other starts.
LEMMA SharersOrdered ==
  ASSUME ScanHolds, NEW v \in DOMAIN asg, NEW w \in DOMAIN asg, v # w, asg[v] = asg[w]
  PROVE  live[v].end <= live[w].start \/ live[w].end <= live[v].start
<1>1. ~ Scan!Interfere(live[v], live[w]) /\ v \in DOMAIN live /\ w \in DOMAIN live
  BY DEF ScanHolds, ScanInv, Scan!NoSharing, Scan!TypeOK
<1>2. /\ live[v].start \in Nat /\ live[v].end \in Nat /\ live[v].start <= live[v].end
      /\ live[w].start \in Nat /\ live[w].end \in Nat /\ live[w].start <= live[w].end
  BY <1>1, Starts DEF ScanHolds, ScanInv
<1>. QED
  BY <1>1, <1>2 DEF Scan!Interfere
=============================================================================
