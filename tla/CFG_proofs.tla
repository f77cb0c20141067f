------------------------------ MODULE CFG_proofs ------------------------------
(***************************************************************************)
(* The properties of CFGBuilder::build for every program, every image and  *)
(* every address width.                                                    *)
(***************************************************************************)
EXTENDS CFG, SequenceFacts

-----------------------------------------------------------------------------
\* Addresses.

\* Address arithmetic stays within the addresses: it wraps.
LEMMA PlusType ==
  ASSUME NEW a \in Addr, NEW n \in Int
  PROVE  Plus(a, n) \in Addr
  BY CodeAssumption DEF Plus, Addr

\* The address after an instruction is an address.
LEMMA NextType ==
  ASSUME NEW a \in Addr
  PROVE  NextPC(a) \in Addr
  BY PlusType DEF NextPC

\* Static successors are addresses.
LEMMA SuccType ==
  ASSUME code \in Program, NEW a \in Addr
  PROVE  StaticSucc(code, a) \subseteq Addr
<1>1. Decodes(code, a) => code[a].imm \in Int
  BY CodeAssumption DEF Decodes, Program, Invalid
<1>. QED
  BY <1>1, PlusType, NextType DEF StaticSucc

-----------------------------------------------------------------------------
\* The types of the state.

\* The block a scan starts from has the type of a block.
LEMMA BasicBlockType == BasicBlock(0) \in Block /\ 0 \in Addr
  BY CodeAssumption DEF BasicBlock, Block, Addr, TermKind

\* enqueue() adds an address that is not a leader, and keeps the queue free
\* of repetitions.
LEMMA EnqueueFacts ==
  ASSUME NEW w \in Seq(Addr), NEW l, NEW a \in Addr
  PROVE  /\ Enqueue(w, l, a) \in Seq(Addr)
         /\ Range(Enqueue(w, l, a)) = Range(w) \cup ({a} \ l)
         /\ Distinct(w) /\ Range(w) \subseteq l => Distinct(Enqueue(w, l, a))
  BY AppendFacts, DistinctAppend DEF Enqueue

\* A decoded instruction has an integer immediate.
LEMMA ImmType ==
  ASSUME code \in Program, Decodes(code, pc)
  PROVE  code[pc].imm \in Int
  BY CodeAssumption DEF Decodes, Program, Invalid

\* Successor lists have no, one or two elements.
LEMMA ShortSeqs ==
  ASSUME NEW S, NEW x \in S, NEW y \in S
  PROVE  /\ <<>> \in Seq(S) /\ <<x>> \in Seq(S) /\ <<x, y>> \in Seq(S)
         /\ Range(<<>>) = {} /\ Range(<<x>>) = {x} /\ Range(<<x, y>>) = {x, y}
<1>1. /\ DOMAIN <<x>> = {1} /\ <<x>>[1] = x
      /\ DOMAIN <<x, y>> = {1, 2} /\ <<x, y>>[1] = x /\ <<x, y>>[2] = y
  OBVIOUS
<1>2. Range(<<x>>) = {x} /\ Range(<<x, y>>) = {x, y}
  BY <1>1 DEF Range
<1>. QED
  BY <1>2, RangeOfEmpty

\* Storing a block keeps the types of what it changes.
LEMMA StoreType ==
  ASSUME TypeOK,
         NEW insts \in Seq(Addr), NEW term \in TermKind, NEW succs \in Seq(Addr),
         Store(insts, term, succs)
  PROVE  /\ blocks' \in Seq(Block)
         /\ DOMAIN indexByAddr' = Built \cup {bb.start}
         /\ DOMAIN indexByAddr' \subseteq Addr
         /\ indexByAddr' \in [DOMAIN indexByAddr' -> Nat]
         /\ bb' \in Block
         /\ pc' \in Addr
         /\ phase' \in {"pop", "scan", "done"}
<1>1. bb.start \in Addr /\ Len(blocks) \in Nat
  BY DEF TypeOK, Block
<1>2. DOMAIN indexByAddr' = Built \cup {bb.start}
  BY DEF Store, Built
<1>3. indexByAddr' \in [DOMAIN indexByAddr' -> Nat]
  BY <1>1, <1>2 DEF Store, TypeOK, Built
<1>4. [start |-> bb.start, insts |-> insts, term |-> term, succs |-> succs]
        \in Block
  BY <1>1 DEF Block
<1>. QED
  BY <1>1, <1>2, <1>3, <1>4, BasicBlockType, AppendFacts DEF Store, TypeOK, Built

(***************************************************************************)
(* The builder's state keeps its types.                                    *)
(***************************************************************************)
LEMMA TypingStep == TypeOK /\ [Next]_vars => TypeOK'
<1> SUFFICES ASSUME TypeOK, [Next]_vars
             PROVE  TypeOK'
  OBVIOUS
<1>a. NextPC(pc) \in Addr /\ pc \in Addr
  BY NextType DEF TypeOK
<1>b. Decodes(code, pc) => Plus(pc, code[pc].imm) \in Addr
  BY ImmType, PlusType DEF TypeOK
<1>c. /\ bb.start \in Addr
      /\ bb.insts \in Seq(Addr)
      /\ Pushed \in Seq(Addr)
  BY <1>a, AppendFacts DEF TypeOK, Block, Pushed
<1>d. <<>> \in Seq(Addr) /\ <<pc>> \in Seq(Addr) /\ TermKind # {}
  BY <1>a DEF TermKind
<1>1. CASE PopLeader
  <2>1. /\ worklist' \in Seq(Addr)
        /\ Head(worklist) \in Addr
        /\ BasicBlock(Head(worklist)) \in Block
    BY <1>1, TailFacts DEF TypeOK, PopLeader, BasicBlock, Block, TermKind
  <2>. QED
    BY <1>1, <2>1 DEF TypeOK, PopLeader
<1>2. CASE Return
  BY <1>2 DEF TypeOK, Return
<1>3. CASE EndFallthrough
  <2>1. worklist' \in Seq(Addr) /\ leaders' \subseteq Addr /\ code' = code
    BY <1>3, <1>a, EnqueueFacts DEF TypeOK, EndFallthrough
  <2>2. "Fallthrough" \in TermKind /\ Store(bb.insts, "Fallthrough", <<pc>>)
    BY <1>3 DEF EndFallthrough, TermKind
  <2>. QED
    BY <1>c, <1>d, <2>1, <2>2, StoreType DEF TypeOK
<1>4. CASE EndUndecodable
  <2>1. "Trap" \in TermKind /\ Store(bb.insts, "Trap", <<>>)
    BY <1>4 DEF EndUndecodable, TermKind
  <2>. QED
    BY <1>4, <1>c, <1>d, <2>1, StoreType DEF TypeOK, EndUndecodable
<1>5. CASE ScanStraight
  <2>1. bb' \in Block
    BY <1>5, <1>c DEF ScanStraight, TypeOK, Block
  <2>. QED
    BY <1>5, <1>a, <2>1 DEF ScanStraight, TypeOK
<1>6. CASE EndBranch
  <2>. DEFINE t == Plus(pc, code[pc].imm)
              f == NextPC(pc)
  <2>1. t \in Addr /\ f \in Addr
    BY <1>6, <1>a, <1>b DEF EndBranch, Decoded
  <2>2. /\ Store(Pushed, "Branch", <<t, f>>)
        /\ worklist' = Enqueue(Enqueue(worklist, leaders, t), leaders \cup {t}, f)
        /\ leaders' = leaders \cup {t, f}
        /\ code' = code
        /\ "Branch" \in TermKind
    BY <1>6 DEF EndBranch, TermKind
  <2>. HIDE DEF t, f
  <2>3. worklist' \in Seq(Addr) /\ <<t, f>> \in Seq(Addr)
    BY <2>1, <2>2, EnqueueFacts DEF TypeOK
  <2>. QED
    BY <1>c, <2>1, <2>2, <2>3, StoreType DEF TypeOK
<1>7. CASE EndJump
  <2>. DEFINE t == Plus(pc, code[pc].imm)
  <2>1. t \in Addr
    BY <1>7, <1>b DEF EndJump, Decoded
  <2>2. /\ Store(Pushed, "Jump", <<t>>)
        /\ worklist' = Enqueue(worklist, leaders, t)
        /\ leaders' = leaders \cup {t}
        /\ code' = code
        /\ "Jump" \in TermKind
    BY <1>7 DEF EndJump, TermKind
  <2>. HIDE DEF t
  <2>3. worklist' \in Seq(Addr) /\ <<t>> \in Seq(Addr)
    BY <2>1, <2>2, EnqueueFacts DEF TypeOK
  <2>. QED
    BY <1>c, <2>1, <2>2, <2>3, StoreType DEF TypeOK
<1>8. CASE EndNoSucc
  <2>1. PICK term \in TermKind : Store(Pushed, term, <<>>)
    BY <1>8 DEF EndNoSucc, TermKind
  <2>. QED
    BY <1>8, <1>c, <1>d, <2>1, StoreType DEF EndNoSucc, TypeOK
<1>9. CASE UNCHANGED vars
  BY <1>9 DEF vars, TypeOK
<1>. QED
  BY <1>1, <1>2, <1>3, <1>4, <1>5, <1>6, <1>7, <1>8, <1>9 DEF Next

-----------------------------------------------------------------------------
\* The inductive invariant.


\* What is known of the block being scanned.
ScanState ==
  /\ bb.succs = <<>>
  /\ phase # "scan" => bb.insts = <<>>
  /\ phase = "scan" => /\ pc \in Seen
                       /\ IF bb.insts = <<>> THEN pc = bb.start
                                            ELSE bb.insts[1] = bb.start

\* Every address seen that holds an instruction is in a block, or the queue
\* or the scan will come to it.
AllAccounted ==
  /\ \A a \in Built : Decodes(code, a) => a \in Covered
  /\ \A a \in Seen : Decodes(code, a) =>
       a \in Covered \/ a \in Waiting \/ (phase = "scan" /\ a = pc)

\* A successor was enqueued when it was written into its block.
SuccsAdmitted ==
  \A i \in 1 .. Len(blocks) : Range(blocks[i].succs) \subseteq leaders

Inv ==
  /\ TypeOK
  /\ EveryLeaderOnce
  /\ IndexMatchesBlocks
  /\ ScanState
  /\ AllAccounted
  /\ SuccsAdmitted

\* What storing a block adds to the covered instructions and to the index.
LEMMA StoreFacts ==
  ASSUME TypeOK, IndexMatchesBlocks, SuccsAdmitted, bb.start \notin Built,
         NEW insts \in Seq(Addr), NEW term \in TermKind, NEW succs \in Seq(Addr),
         Store(insts, term, succs),
         leaders \cup Range(succs) \subseteq leaders'
  PROVE  /\ Covered' = Stored \cup Range(insts)
         /\ Built' = Built \cup {bb.start}
         /\ IndexMatchesBlocks'
         /\ SuccsAdmitted'
         /\ bb'.succs = <<>> /\ bb'.insts = <<>> /\ phase' = "pop"
<1>. DEFINE b == [start |-> bb.start, insts |-> insts, term |-> term,
                  succs |-> succs]
            n == Len(blocks)
<1>1. b \in Block /\ bb.start \in Addr
  BY DEF TypeOK, Block
<1>2. blocks' = Append(blocks, b)
  BY DEF Store
<1>3. b.start = bb.start /\ b.insts = insts /\ b.succs = succs
  OBVIOUS
<1>. HIDE DEF b
<1>4. /\ n \in Nat
      /\ Len(blocks') = n + 1
      /\ \A i \in 1 .. n : blocks'[i] = blocks[i]
      /\ blocks'[n + 1] = b
  BY <1>1, <1>2, AppendFacts DEF TypeOK
<1>5. bb'.succs = <<>> /\ bb'.insts = <<>> /\ phase' = "pop"
  BY DEF Store, BasicBlock
<1>6. Built' = Built \cup {bb.start}
  BY DEF Store, Built
<1>7. Covered' = Stored \cup Range(insts)
  <2>1. Stored' = UNION {Range(blocks'[i].insts) : i \in 1 .. n + 1}
    BY <1>4 DEF Stored
  <2>2. \A i \in 1 .. n + 1 : i \in 1 .. n \/ i = n + 1
    BY <1>4
  <2>3. n + 1 \in 1 .. n + 1 /\ \A i \in 1 .. n : i \in 1 .. n + 1
    BY <1>4
  <2>4. Stored' = Stored \cup Range(insts)
    BY <1>3, <1>4, <2>1, <2>2, <2>3 DEF Stored
  <2>. QED
    BY <1>5, <2>4, RangeOfEmpty DEF Covered
<1>8. SuccsAdmitted'
  BY <1>3, <1>4 DEF SuccsAdmitted
<1>9. IndexMatchesBlocks'
  <2>1. /\ indexByAddr'[bb.start] = n
        /\ \A a \in Built : indexByAddr'[a] = indexByAddr[a]
    BY DEF Store, Built
  <2>2. \A a \in Built : indexByAddr[a] \in Nat /\ indexByAddr[a] < n
    BY DEF IndexMatchesBlocks, TypeOK, Built
  <2>3. \A i \in 1 .. n + 1 :
          blocks'[i].start \in Built' /\ indexByAddr'[blocks'[i].start] = i - 1
    <3>1. ASSUME NEW i \in 1 .. n
          PROVE  /\ blocks'[i].start \in Built'
                 /\ indexByAddr'[blocks'[i].start] = i - 1
      BY <1>4, <1>6, <2>1 DEF IndexMatchesBlocks
    <3>2. /\ blocks'[n + 1].start \in Built'
          /\ indexByAddr'[blocks'[n + 1].start] = (n + 1) - 1
      BY <1>3, <1>4, <1>6, <2>1
    <3>. QED
      BY <1>4, <3>1, <3>2
  <2>4. ASSUME NEW a \in Built'
        PROVE  /\ indexByAddr'[a] < n + 1
               /\ blocks'[indexByAddr'[a] + 1].start = a
    <3>1. CASE a = bb.start
      BY <1>3, <1>4, <2>1, <3>1
    <3>2. CASE a \in Built
      <4>1. indexByAddr[a] + 1 \in 1 .. n
        BY <1>4, <2>2, <3>2
      <4>. QED
        BY <1>4, <2>1, <2>2, <3>2, <4>1 DEF IndexMatchesBlocks
    <3>. QED
      BY <1>6, <3>1, <3>2
  <2>. QED
    BY <1>4, <2>3, <2>4 DEF IndexMatchesBlocks
<1>. QED
  BY <1>5, <1>6, <1>7, <1>8, <1>9

\* How the discovered set grows when the instruction at pc is covered.
LEMMA SeenGrows ==
  ASSUME code' = code, Covered' = Covered \cup {pc},
         NEW L, L \subseteq StaticSucc(code, pc), leaders' = leaders \cup L
  PROVE  Seen' = Seen \cup StaticSucc(code, pc)
  BY DEF Seen

\* A step that covers no new instruction and discovers no address.
LEMMA SeenStays ==
  ASSUME code' = code, Covered' = Covered, leaders' = leaders
  PROVE  Seen' = Seen
  BY DEF Seen

\* The static successors of the instruction at pc, by kind.
LEMMA SuccOfPC ==
  ASSUME Decodes(code, pc)
  PROVE  /\ IsCondBranch(code[pc]) =>
              StaticSucc(code, pc) = {Plus(pc, code[pc].imm), NextPC(pc)}
         /\ IsJump(code[pc]) => StaticSucc(code, pc) = {Plus(pc, code[pc].imm)}
         /\ ~ IsTerminator(code[pc]) => StaticSucc(code, pc) = {NextPC(pc)}
         /\ IsIndirect(code[pc]) \/ IsReturn(code[pc]) \/ IsTrap(code[pc]) =>
              StaticSucc(code, pc) = {}
  BY DEF StaticSucc, IsCondBranch, IsJump, IsTerminator, IsIndirect, IsReturn,
         IsTrap, CondBranchOps

\* After the turn that decodes at pc: pc is covered, and every address that
\* became known is a leader or the new pc.
LEMMA ScanFacts ==
  ASSUME TypeOK
  PROVE  /\ Pushed \in Seq(Addr)
         /\ Pushed # <<>>
         /\ Range(Pushed) = Range(bb.insts) \cup {pc}
         /\ Pushed[1] = IF bb.insts = <<>> THEN pc ELSE bb.insts[1]
<1>1. bb.insts \in Seq(Addr) /\ pc \in Addr
  BY DEF TypeOK, Block
<1>. QED
  BY <1>1, AppendFacts DEF Pushed

\* A step that stores the block keeps the parts of the invariant that speak
\* of covered addresses, when the leaders that are new wait in the queue.
LEMMA StoredAccounted ==
  ASSUME Inv, phase = "scan", Decodes(code, pc), code' = code,
         Built' = Built \cup {bb.start}, Covered' = Covered \cup {pc},
         Seen' = Seen \cup StaticSucc(code, pc),
         leaders' = leaders \cup StaticSucc(code, pc),
         leaders' = Waiting' \cup Built',
         Waiting \subseteq Waiting'
  PROVE  AllAccounted'
<1>1. bb.start \in Covered'
  <2>1. CASE bb.insts = <<>>
    BY <2>1 DEF Inv, ScanState
  <2>2. CASE bb.insts # <<>>
    <3>1. bb.insts \in Seq(Addr)
      BY DEF Inv, TypeOK, Block
    <3>2. bb.insts[1] \in Range(bb.insts)
      BY <2>2, <3>1 DEF Range
    <3>. QED
      BY <2>2, <3>2 DEF Inv, ScanState, Covered
  <2>. QED
    BY <2>1, <2>2
<1>2. \A a \in Built' : Decodes(code, a) => a \in Covered'
  BY <1>1 DEF Inv, AllAccounted
<1>3. ASSUME NEW a \in Seen', Decodes(code, a)
      PROVE  a \in Covered' \/ a \in Waiting'
  <2>1. CASE a \in Seen
    BY <1>3, <2>1 DEF Inv, AllAccounted
  <2>2. CASE a \in StaticSucc(code, pc)
    BY <1>2, <1>3, <2>2
  <2>. QED
    BY <1>3, <2>1, <2>2
<1>. QED
  BY <1>2, <1>3 DEF AllAccounted

\* A turn that decodes a terminator at pc.
LEMMA TerminatorStep ==
  ASSUME Inv, TypeOK', Decoded, code' = code,
         NEW term \in TermKind, NEW succs \in Seq(Addr),
         Store(Pushed, term, succs),
         Range(succs) = StaticSucc(code, pc),
         leaders' = leaders \cup StaticSucc(code, pc),
         Waiting' = Waiting \cup (StaticSucc(code, pc) \ leaders),
         Distinct(worklist')
  PROVE  Inv' /\ Seen' = Seen \cup StaticSucc(code, pc)
<1>1. phase = "scan" /\ Decodes(code, pc) /\ bb.start \notin Built
  BY DEF Decoded, Inv, EveryLeaderOnce, Building
<1>2. /\ Covered' = Stored \cup Range(Pushed)
      /\ Built' = Built \cup {bb.start}
      /\ IndexMatchesBlocks'
      /\ SuccsAdmitted'
      /\ bb'.succs = <<>> /\ bb'.insts = <<>> /\ phase' = "pop"
  BY <1>1, ScanFacts, StoreFacts DEF Inv
<1>3. Covered' = Covered \cup {pc}
  BY <1>2, ScanFacts DEF Inv, Covered
<1>4. Seen' = Seen \cup StaticSucc(code, pc)
  BY <1>3, SeenGrows
<1>5. EveryLeaderOnce'
  <2>1. Building = {bb.start} /\ Building' = {}
    BY <1>1, <1>2 DEF Building
  <2>2. /\ leaders = Waiting \cup {bb.start} \cup Built
        /\ bb.start \notin Waiting /\ bb.start \notin Built
        /\ Waiting \cap Built = {}
    BY <2>1 DEF Inv, EveryLeaderOnce
  <2>. QED
    BY <1>2, <2>1, <2>2 DEF EveryLeaderOnce, Distinct
<1>6. leaders' = Waiting' \cup Built'
  BY <1>2, <1>5 DEF EveryLeaderOnce, Building
<1>7. AllAccounted'
  BY <1>1, <1>2, <1>3, <1>4, <1>6, StoredAccounted
<1>8. ScanState'
  BY <1>2 DEF ScanState
<1>. QED
  BY <1>2, <1>4, <1>5, <1>7, <1>8 DEF Inv

\* A turn that leaves the loop without decoding: nothing new is covered.
LEMMA EndOfScanStep ==
  ASSUME Inv, TypeOK', phase = "scan", code' = code,
         NEW term \in TermKind, NEW succs \in Seq(Addr),
         Store(bb.insts, term, succs),
         Range(succs) \subseteq leaders,
         leaders' = leaders, worklist' = worklist,
         Decodes(code, pc) => pc # bb.start /\ pc \in leaders
  PROVE  Inv' /\ Seen' = Seen
<1>1. bb.start \notin Built /\ bb.insts \in Seq(Addr)
  BY DEF Inv, EveryLeaderOnce, Building, TypeOK, Block
<1>2. /\ Covered' = Stored \cup Range(bb.insts)
      /\ Built' = Built \cup {bb.start}
      /\ IndexMatchesBlocks'
      /\ SuccsAdmitted'
      /\ bb'.succs = <<>> /\ bb'.insts = <<>> /\ phase' = "pop"
  BY <1>1, StoreFacts DEF Inv
<1>3. Covered' = Covered /\ Waiting' = Waiting
  BY <1>2 DEF Covered, Waiting
<1>4. Seen' = Seen
  BY <1>3, SeenStays
<1>5. EveryLeaderOnce'
  <2>1. Building = {bb.start} /\ Building' = {}
    BY <1>2 DEF Building
  <2>. QED
    BY <1>2, <1>3, <2>1 DEF Inv, EveryLeaderOnce
<1>6. Decodes(code, bb.start) => bb.start \in Covered
  <2>1. CASE bb.insts = <<>>
    BY <2>1 DEF Inv, ScanState
  <2>2. CASE bb.insts # <<>>
    <3>1. bb.insts[1] \in Range(bb.insts)
      BY <1>1, <2>2 DEF Range
    <3>. QED
      BY <2>2, <3>1 DEF Inv, ScanState, Covered
  <2>. QED
    BY <2>1, <2>2
<1>7. Decodes(code, pc) => pc \in Covered \/ pc \in Waiting
  BY DEF Inv, EveryLeaderOnce, Building, AllAccounted
<1>8. AllAccounted'
  BY <1>2, <1>3, <1>4, <1>6, <1>7 DEF Inv, AllAccounted
<1>9. ScanState'
  BY <1>2 DEF ScanState
<1>. QED
  BY <1>2, <1>4, <1>5, <1>8, <1>9 DEF Inv

\* Popping a leader: it moves from the queue to the scan.
LEMMA PopStep ==
  ASSUME Inv, TypeOK', PopLeader
  PROVE  Inv' /\ Seen' = Seen
<1>. DEFINE h == Head(worklist)
<1>1. /\ phase = "pop" /\ worklist # <<>> /\ worklist' = Tail(worklist)
      /\ UNCHANGED <<code, leaders, blocks, indexByAddr>>
  BY DEF PopLeader
<1>2. /\ Waiting = Waiting' \cup {h}
      /\ h \notin Waiting'
      /\ Distinct(worklist')
  <2>1. worklist \in Seq(Addr) /\ Distinct(worklist)
    BY DEF Inv, TypeOK, EveryLeaderOnce, Distinct
  <2>. QED
    BY <1>1, <2>1, TailFacts, DistinctTail DEF Waiting
<1>3. h \notin Built /\ h \in leaders
  BY <1>2 DEF Inv, EveryLeaderOnce
<1>4. bb' = BasicBlock(h) /\ pc' = h /\ phase' = "scan"
  BY <1>3 DEF PopLeader, Built
<1>. HIDE DEF h
<1>5. bb'.start = h /\ bb'.insts = <<>> /\ bb'.succs = <<>>
  BY <1>4 DEF BasicBlock
<1>6. bb.insts = <<>>
  BY <1>1 DEF Inv, ScanState
<1>7. Covered' = Covered /\ Built' = Built
  BY <1>1, <1>5, <1>6 DEF Covered, Stored, Built
<1>8. Seen' = Seen
  BY <1>1, <1>7, SeenStays
<1>9. EveryLeaderOnce'
  <2>1. Building = {} /\ Building' = {h}
    BY <1>1, <1>4, <1>5 DEF Building
  <2>. QED
    BY <1>1, <1>2, <1>3, <1>7, <2>1 DEF Inv, EveryLeaderOnce, Distinct
<1>10. IndexMatchesBlocks' /\ SuccsAdmitted'
  BY <1>1, <1>7 DEF Inv, IndexMatchesBlocks, SuccsAdmitted
<1>11. ScanState'
  <2>1. h \in Seen
    BY <1>3 DEF Seen
  <2>. QED
    BY <1>4, <1>5, <1>8, <2>1 DEF ScanState
<1>12. AllAccounted'
  BY <1>1, <1>2, <1>4, <1>7, <1>8 DEF Inv, AllAccounted
<1>. QED
  BY <1>8, <1>9, <1>10, <1>11, <1>12 DEF Inv

\* Scanning over a straight-line instruction.
LEMMA StraightStep ==
  ASSUME Inv, TypeOK', ScanStraight
  PROVE  Inv' /\ Seen' = Seen \cup StaticSucc(code, pc)
<1>1. /\ phase = "scan" /\ phase' = "scan" /\ Decodes(code, pc)
      /\ StaticSucc(code, pc) = {NextPC(pc)} /\ pc' = NextPC(pc)
      /\ UNCHANGED <<code, worklist, leaders, blocks, indexByAddr>>
  BY SuccOfPC DEF ScanStraight, Decoded
<1>2. bb'.insts = Pushed /\ bb'.start = bb.start /\ bb'.succs = bb.succs
  BY DEF ScanStraight, Inv, TypeOK, Block
<1>3. Covered' = Covered \cup {pc}
  <2>1. Stored' = Stored
    BY <1>1 DEF Stored
  <2>. QED
    BY <1>2, <2>1, ScanFacts DEF Inv, Covered
<1>4. Seen' = Seen \cup StaticSucc(code, pc)
  <2>1. leaders' = leaders \cup {}
    BY <1>1
  <2>. QED
    BY <1>1, <1>3, <2>1, SeenGrows
<1>5. Built' = Built /\ Waiting' = Waiting /\ Building' = Building
  BY <1>1, <1>2 DEF Built, Waiting, Building
<1>6. EveryLeaderOnce' /\ IndexMatchesBlocks' /\ SuccsAdmitted'
  BY <1>1, <1>5 DEF Inv, EveryLeaderOnce, IndexMatchesBlocks, SuccsAdmitted
<1>7. ScanState'
  BY <1>1, <1>2, <1>4, ScanFacts DEF Inv, ScanState
<1>8. AllAccounted'
  BY <1>1, <1>3, <1>4, <1>5 DEF Inv, AllAccounted
<1>. QED
  BY <1>4, <1>6, <1>7, <1>8 DEF Inv

\* What a step does to the invariant and to the discovered set.
Discovers == Seen' = Seen \/ (phase = "scan" /\ Seen' = Seen \cup StaticSucc(code, pc))

\* Every step keeps the invariant, and discovers nothing but the static
\* successors of the instruction it scans.
LEMMA InvStep == Inv /\ [Next]_vars => Inv' /\ Discovers
<1> SUFFICES ASSUME Inv, [Next]_vars
             PROVE  Inv' /\ Discovers
  OBVIOUS
<1>a. TypeOK /\ TypeOK'
  BY TypingStep DEF Inv
<1>b. /\ worklist \in Seq(Addr) /\ Distinct(worklist) /\ Waiting \subseteq leaders
      /\ bb.insts \in Seq(Addr) /\ Pushed \in Seq(Addr)
      /\ <<>> \in Seq(Addr) /\ pc \in Addr /\ NextPC(pc) \in Addr
      /\ Decodes(code, pc) => Plus(pc, code[pc].imm) \in Addr
  BY <1>a, ScanFacts, NextType, ImmType, PlusType
     DEF Inv, TypeOK, Block, EveryLeaderOnce, Distinct
<1>1. CASE PopLeader
  BY <1>1, <1>a, PopStep DEF Discovers
<1>2. CASE Return
  <2>1. /\ UNCHANGED <<code, worklist, leaders, blocks, indexByAddr, bb, pc>>
        /\ phase # "scan" /\ phase' # "scan"
    BY <1>2 DEF Return
  <2>2. /\ Waiting' = Waiting /\ Building' = Building /\ Built' = Built
        /\ Covered' = Covered /\ Seen' = Seen
    BY <2>1 DEF Waiting, Building, Built, Covered, Stored, Seen
  <2>. QED
    BY <1>a, <2>1, <2>2 DEF Inv, EveryLeaderOnce, IndexMatchesBlocks, ScanState,
       AllAccounted, SuccsAdmitted, Discovers
<1>3. CASE EndFallthrough
  <2>1. /\ phase = "scan" /\ code' = code
        /\ "Fallthrough" \in TermKind /\ Store(bb.insts, "Fallthrough", <<pc>>)
        /\ pc # bb.start /\ pc \in leaders \cup Built
    BY <1>3 DEF EndFallthrough, AtKnownLeader, TermKind, Built
  <2>2. pc \in leaders
    BY <2>1 DEF Inv, EveryLeaderOnce
  <2>3. leaders' = leaders /\ worklist' = worklist
    BY <1>3, <2>2 DEF EndFallthrough, Enqueue
  <2>4. <<pc>> \in Seq(Addr) /\ Range(<<pc>>) \subseteq leaders
    <3>1. <<pc>> \in Seq(Addr) /\ Range(<<pc>>) = {pc}
      BY <1>b, ShortSeqs
    <3>. QED
      BY <2>2, <3>1
  <2>. QED
    BY <1>a, <2>1, <2>2, <2>3, <2>4, EndOfScanStep DEF Discovers
<1>4. CASE EndUndecodable
  <2>1. /\ phase = "scan" /\ code' = code /\ ~ Decodes(code, pc)
        /\ "Trap" \in TermKind /\ Store(bb.insts, "Trap", <<>>)
        /\ leaders' = leaders /\ worklist' = worklist
    BY <1>4 DEF EndUndecodable, TermKind
  <2>2. Range(<<>>) \subseteq leaders
    BY RangeOfEmpty
  <2>. QED
    BY <1>a, <1>b, <2>1, <2>2, EndOfScanStep DEF Discovers
<1>5. CASE ScanStraight
  <2>1. phase = "scan"
    BY <1>5 DEF ScanStraight, Decoded
  <2>. QED
    BY <1>5, <1>a, <2>1, StraightStep DEF Discovers
<1>6. CASE EndBranch
  <2>. DEFINE t == Plus(pc, code[pc].imm)
              f == NextPC(pc)
  <2>1. /\ Decoded /\ code' = code /\ phase = "scan"
        /\ StaticSucc(code, pc) = {t, f}
        /\ Store(Pushed, "Branch", <<t, f>>) /\ "Branch" \in TermKind
        /\ worklist' = Enqueue(Enqueue(worklist, leaders, t), leaders \cup {t}, f)
        /\ leaders' = leaders \cup {t, f}
        /\ t \in Addr /\ f \in Addr
    BY <1>6, <1>b, SuccOfPC DEF EndBranch, Decoded, TermKind
  <2>. HIDE DEF t, f
  <2>2. <<t, f>> \in Seq(Addr) /\ Range(<<t, f>>) = {t, f}
    BY <2>1, ShortSeqs
  <2>. DEFINE w == Enqueue(worklist, leaders, t)
  <2>3. /\ w \in Seq(Addr) /\ Distinct(w)
        /\ Range(w) = Waiting \cup ({t} \ leaders)
    BY <1>b, <2>1, EnqueueFacts DEF Waiting
  <2>. HIDE DEF w
  <2>4. /\ Distinct(Enqueue(w, leaders \cup {t}, f))
        /\ Range(Enqueue(w, leaders \cup {t}, f))
             = Range(w) \cup ({f} \ (leaders \cup {t}))
    BY <1>b, <2>1, <2>3, EnqueueFacts
  <2>5. Distinct(worklist') /\ Waiting' = Waiting \cup ({t, f} \ leaders)
    BY <2>1, <2>3, <2>4 DEF w, Waiting
  <2>. QED
    BY <1>a, <2>1, <2>2, <2>5, TerminatorStep DEF Discovers
<1>7. CASE EndJump
  <2>. DEFINE t == Plus(pc, code[pc].imm)
  <2>1. /\ Decoded /\ code' = code /\ phase = "scan"
        /\ StaticSucc(code, pc) = {t}
        /\ Store(Pushed, "Jump", <<t>>) /\ "Jump" \in TermKind
        /\ worklist' = Enqueue(worklist, leaders, t)
        /\ leaders' = leaders \cup {t}
        /\ t \in Addr
    BY <1>7, <1>b, SuccOfPC DEF EndJump, Decoded, TermKind
  <2>. HIDE DEF t
  <2>2. <<t>> \in Seq(Addr) /\ Range(<<t>>) = {t}
    BY <2>1, ShortSeqs
  <2>3. Distinct(worklist') /\ Waiting' = Waiting \cup ({t} \ leaders)
    BY <1>b, <2>1, EnqueueFacts DEF Waiting
  <2>. QED
    BY <1>a, <2>1, <2>2, <2>3, TerminatorStep DEF Discovers
<1>8. CASE EndNoSucc
  <2>1. /\ Decoded /\ phase = "scan" /\ StaticSucc(code, pc) = {}
        /\ UNCHANGED <<code, worklist, leaders>>
        /\ \E term \in TermKind : Store(Pushed, term, <<>>)
    BY <1>8, SuccOfPC DEF EndNoSucc, Decoded, TermKind
  <2>2. PICK term \in TermKind : Store(Pushed, term, <<>>)
    BY <2>1
  <2>3. Waiting' = Waiting /\ Distinct(worklist') /\ Range(<<>>) = {}
    BY <1>b, <2>1, RangeOfEmpty DEF Waiting
  <2>. QED
    BY <1>a, <1>b, <2>1, <2>2, <2>3, TerminatorStep DEF Discovers
<1>9. CASE UNCHANGED vars
  BY <1>9 DEF vars, Inv, TypeOK, EveryLeaderOnce, IndexMatchesBlocks, ScanState,
     AllAccounted, SuccsAdmitted, Discovers, Waiting, Building, Built, Covered,
     Stored, Seen
<1>. QED
  BY <1>1, <1>2, <1>3, <1>4, <1>5, <1>6, <1>7, <1>8, <1>9 DEF Next

\* The invariant holds when build() starts its loop.
LEMMA InvInit == Init => Inv
<1> SUFFICES ASSUME Init
             PROVE  Inv
  OBVIOUS
<1>1. /\ code \in Program /\ worklist = <<Entry>> /\ leaders = {Entry}
      /\ blocks = <<>> /\ indexByAddr = <<>> /\ phase = "pop"
      /\ bb.insts = <<>> /\ bb.succs = <<>>
  BY DEF Init, BasicBlock
<1>2. TypeOK
  BY BasicBlockType, CodeAssumption DEF Init, TypeOK
<1>3. Waiting = {Entry} /\ Building = {} /\ Built = {} /\ Len(blocks) = 0
  <2>1. Waiting = {Entry}
    BY <1>1, CodeAssumption, ShortSeqs DEF Waiting
  <2>. QED
    BY <1>1, <2>1 DEF Building, Built
<1>4. Covered = {} /\ Seen = {Entry}
  BY <1>1, <1>3, RangeOfEmpty DEF Covered, Stored, Seen
<1>5. Distinct(worklist)
  BY <1>1 DEF Distinct
<1>. QED
  BY <1>1, <1>2, <1>3, <1>4, <1>5 DEF Inv, EveryLeaderOnce, IndexMatchesBlocks,
     ScanState, AllAccounted, SuccsAdmitted, Distinct

\* The invariant holds in every state of the builder.
LEMMA Invariance == Spec => []Inv
  BY InvInit, InvStep, PTL DEF Spec

-----------------------------------------------------------------------------
\* The results.

(***************************************************************************)
(* The builder's state keeps its types.                                    *)
(***************************************************************************)
THEOREM Typing == Spec => []TypeOK
<1>1. Inv => TypeOK
  BY DEF Inv
<1>. QED
  BY <1>1, Invariance, PTL

(***************************************************************************)
(* A leader that enqueue() admits is waiting, being scanned or built, and  *)
(* never two of these: no block is lost and none is built twice.           *)
(***************************************************************************)
THEOREM LeadersOnce == Spec => []EveryLeaderOnce
<1>1. Inv => EveryLeaderOnce
  BY DEF Inv
<1>. QED
  BY <1>1, Invariance, PTL

(***************************************************************************)
(* cfg.indexByAddr and cfg.blocks are inverse views of each other.         *)
(***************************************************************************)
THEOREM IndexCorrect == Spec => []IndexMatchesBlocks
<1>1. Inv => IndexMatchesBlocks
  BY DEF Inv
<1>. QED
  BY <1>1, Invariance, PTL

\* When build() returns the queue is empty and nothing is being scanned.
Drained == phase = "done" => worklist = <<>>

\* build() returns only when its queue is empty.
LEMMA DrainedAlways == Spec => []Drained
<1>1. Init => Drained
  BY DEF Init, Drained
<1>2. Drained /\ [Next]_vars => Drained'
  BY DEF Drained, Next, PopLeader, Return, EndFallthrough, EndUndecodable,
     ScanStraight, EndBranch, EndJump, EndNoSucc, Store, Decoded, vars
<1>. QED
  BY <1>1, <1>2, PTL DEF Spec

(***************************************************************************)
(* In the graph build() returns every successor is the start of a block.   *)
(***************************************************************************)
THEOREM SuccessorsBuilt == Spec => []NoDanglingSuccessor
<1>1. Inv /\ Drained => NoDanglingSuccessor
  <2> SUFFICES ASSUME Inv, worklist = <<>>, phase = "done"
               PROVE  \A i \in 1 .. Len(blocks) : Range(blocks[i].succs) \subseteq Built
    BY DEF Drained, NoDanglingSuccessor
  <2>1. Waiting = {} /\ Building = {}
    BY RangeOfEmpty DEF Waiting, Building
  <2>. QED
    BY <2>1 DEF Inv, SuccsAdmitted, EveryLeaderOnce
<1>. QED
  BY <1>1, Invariance, DrainedAlways, PTL

\* The definitions of the instance speak of the same program.
LEMMA SameSucc ==
  ASSUME NEW a
  PROVE  Reach!StaticSucc(code, a) = StaticSucc(code, a)
<1>. QED
  BY DEF StaticSucc, Decodes, IsCondBranch, CondBranchOps, IsJump, IsReturn,
     IsIndirect, IsTrap, IsTerminator, NextPC, Plus, Invalid,
     Reach!StaticSucc, Reach!Decodes, Reach!IsCondBranch, Reach!CondBranchOps,
     Reach!IsJump, Reach!IsReturn, Reach!IsIndirect, Reach!IsTrap,
     Reach!IsTerminator, Reach!NextPC, Reach!Plus, Reach!Invalid

(***************************************************************************)
(* The builder implements the abstract search for statically reachable     *)
(* addresses: each step discovers the static successors of a discovered    *)
(* address, or ends when what is discovered is closed, or is a stutter.    *)
(***************************************************************************)
THEOREM Refinement == Spec => ImplementsReach
<1>1. Init => Reach!Init
  <2> SUFFICES ASSUME Init
               PROVE  Reach!Init
    OBVIOUS
  <2>1. Covered = {}
    BY RangeOfEmpty DEF Init, BasicBlock, Covered, Stored
  <2>2. Seen = {Entry}
    BY <2>1 DEF Init, Seen
  <2>3. code \in Reach!Program
    BY DEF Init, Program, Invalid, Reach!Program, Reach!Invalid
  <2>4. (phase = "done") = FALSE
    BY DEF Init
  <2>. QED
    BY <2>2, <2>3, <2>4 DEF Reach!Init
<1>2. Inv /\ [Next]_vars => [Reach!Next]_Reach!vars
  <2> SUFFICES ASSUME Inv, [Next]_vars
               PROVE  [Reach!Next]_Reach!vars
    OBVIOUS
  <2>1. code' = code
    BY DEF Next, PopLeader, Return, EndFallthrough, EndUndecodable,
       ScanStraight, EndBranch, EndJump, EndNoSucc, vars
  <2>2. CASE Return
    <3>1. /\ UNCHANGED <<code, leaders, blocks, bb>>
          /\ phase = "pop" /\ phase' = "done" /\ worklist = <<>>
      BY <2>2 DEF Return
    <3>2. Seen' = Seen
      BY <3>1 DEF Seen, Covered, Stored
    <3>3. Closed(code, Seen)
      <4>1. Waiting = {}
        BY <3>1, RangeOfEmpty DEF Waiting
      <4>2. \A a \in Seen : Decodes(code, a) => a \in Covered
        BY <3>1, <4>1 DEF Inv, AllAccounted
      <4>3. \A a \in Seen : ~ Decodes(code, a) => StaticSucc(code, a) = {}
        BY DEF StaticSucc
      <4>4. \A a \in Covered : StaticSucc(code, a) \subseteq Seen
        BY DEF Seen
      <4>. QED
        BY <4>2, <4>3, <4>4 DEF Closed
    <3>4. Reach!Finish
      <4>1. Reach!Closed(code, Seen)
        BY <3>3, SameSucc DEF Reach!Closed, Closed
      <4>2. (phase = "done") = FALSE /\ (phase = "done")' = TRUE
        BY <3>1
      <4>. QED
        BY <3>1, <3>2, <4>1, <4>2 DEF Reach!Finish
    <3>. QED
      BY <3>4 DEF Reach!Next
  <2>3. CASE ~ Return
    <3>1. (phase' = "done") = (phase = "done")
      BY <2>3 DEF Next, PopLeader, EndFallthrough, EndUndecodable, ScanStraight,
         EndBranch, EndJump, EndNoSucc, Store, Decoded, vars
    <3>2. CASE Seen' = Seen
      BY <2>1, <3>1, <3>2 DEF Reach!vars
    <3>3. CASE phase = "scan" /\ Seen' = Seen \cup StaticSucc(code, pc)
      <4>1. pc \in Seen /\ ~ (phase = "done")
        BY <3>3 DEF Inv, ScanState
      <4>2. Reach!Visit(pc)
        BY <2>1, <3>1, <3>3, <4>1, SameSucc DEF Reach!Visit
      <4>. QED
        BY <4>1, <4>2 DEF Reach!Next
    <3>. QED
      BY <3>2, <3>3, InvStep DEF Discovers
  <2>. QED
    BY <2>2, <2>3
<1>. QED
  BY <1>1, <1>2, Invariance, PTL DEF Spec, Reach!Spec, ImplementsReach

-----------------------------------------------------------------------------
\* The blocks are pieces of the guest's control flow: what the later stages
\* rely on when they look at one block at a time.

\* Control goes from each instruction of a sequence to the next one only.
Chain(insts) ==
  \A k \in 1 .. Len(insts) - 1 : StaticSucc(code, insts[k]) = {insts[k + 1]}

\* What BlocksFollowGuest says of one block.
Follows(b) ==
  LET n == Len(b.insts)
  IN /\ n = 0 => b.term = "Trap" /\ ~ Decodes(code, b.start)
     /\ n > 0 => /\ b.insts[1] = b.start
                 /\ Chain(b.insts)
                 /\ ExitsMatch(b)
     /\ b.term = "Branch" =>
          b.succs = <<Plus(b.insts[n], code[b.insts[n]].imm), NextPC(b.insts[n])>>

\* Nothing behind the first instruction starts a stored block.
Avoids(insts) == \A k \in 2 .. Len(insts) : insts[k] \notin Built

\* The scan has come to pc along the guest, past no block.
Trail ==
  phase = "scan" =>
    /\ Chain(bb.insts) /\ Avoids(bb.insts)
    /\ bb.insts # <<>> => StaticSucc(code, bb.insts[Len(bb.insts)]) = {pc}

BlockInv == BlocksFollowGuest /\ NoRunOver /\ Trail

\* BlocksFollowGuest, block by block.
LEMMA FollowsEach ==
  BlocksFollowGuest <=> \A i \in 1 .. Len(blocks) : Follows(blocks[i])
  BY DEF BlocksFollowGuest, Follows, Chain

\* Storing a block that follows the guest and avoids what is stored.
LEMMA StoreBlock ==
  ASSUME Inv, BlockInv, code' = code,
         NEW insts \in Seq(Addr), NEW term \in TermKind, NEW succs \in Seq(Addr),
         Store(insts, term, succs), Avoids(insts),
         Follows([start |-> bb.start, insts |-> insts, term |-> term,
                  succs |-> succs])
  PROVE  BlockInv'
<1>. DEFINE b == [start |-> bb.start, insts |-> insts, term |-> term,
                  succs |-> succs]
            n == Len(blocks)
<1>1. b \in Block /\ blocks \in Seq(Block)
  BY DEF Inv, TypeOK, Block
<1>2. blocks' = Append(blocks, b) /\ phase' = "pop"
  BY DEF Store
<1>3. b.start = bb.start /\ b.insts = insts /\ Follows(b)
  OBVIOUS
<1>. HIDE DEF b
<1>4. /\ n \in Nat /\ Len(blocks') = n + 1
      /\ \A i \in 1 .. n : blocks'[i] = blocks[i]
      /\ blocks'[n + 1] = b
  BY <1>1, <1>2, AppendFacts
<1>5. \A i \in 1 .. n + 1 : i \in 1 .. n \/ i = n + 1
  BY <1>4
<1>6. BlocksFollowGuest'
  <2>1. \A i \in 1 .. n : Follows(blocks[i])
    BY FollowsEach DEF BlockInv
  <2>2. \A i \in 1 .. n + 1 : Follows(blocks'[i])
    BY <1>3, <1>4, <1>5, <2>1
  <2>3. ASSUME NEW c, Follows(c)
        PROVE  Follows(c)'
    BY <2>3 DEF Follows, Chain, ExitsMatch
  <2>. QED
    BY <1>4, <2>2, <2>3 DEF BlocksFollowGuest, Follows, Chain
<1>7. NoRunOver'
  <2>1. ASSUME NEW i \in 1 .. n + 1, NEW j \in 1 .. n + 1, i < j,
               NEW k \in 2 .. Len(blocks'[j].insts)
        PROVE  blocks'[j].insts[k] # blocks'[i].start
    <3>1. i \in 1 .. n
      BY <1>4, <2>1
    <3>2. CASE j \in 1 .. n
      BY <1>4, <2>1, <3>1, <3>2 DEF BlockInv, NoRunOver
    <3>3. CASE j = n + 1
      <4>1. blocks[i].start \in Built
        BY <3>1 DEF Inv, IndexMatchesBlocks
      <4>. QED
        BY <1>3, <1>4, <3>1, <3>3, <4>1 DEF Avoids
    <3>. QED
      BY <1>5, <3>2, <3>3
  <2>. QED
    BY <1>4, <2>1 DEF NoRunOver
<1>8. Trail'
  BY <1>2 DEF Trail
<1>. QED
  BY <1>6, <1>7, <1>8 DEF BlockInv

\* A turn that decodes extends the trail by pc.
LEMMA PushedFollows ==
  ASSUME Inv, BlockInv, Decoded
  PROVE  /\ Pushed \in Seq(Addr) /\ Len(Pushed) \in Nat \ {0}
         /\ Pushed[1] = bb.start /\ Pushed[Len(Pushed)] = pc
         /\ Chain(Pushed) /\ Avoids(Pushed)
<1>. DEFINE n == Len(bb.insts)
<1>1. bb.insts \in Seq(Addr) /\ pc \in Addr /\ phase = "scan"
  BY DEF Inv, TypeOK, Block, Decoded
<1>2. /\ Pushed \in Seq(Addr) /\ n \in Nat /\ Len(Pushed) = n + 1
      /\ \A i \in 1 .. n : Pushed[i] = bb.insts[i]
      /\ Pushed[n + 1] = pc
      /\ Pushed[1] = IF bb.insts = <<>> THEN pc ELSE bb.insts[1]
  BY <1>1, AppendFacts DEF Pushed
<1>3. Pushed[1] = bb.start
  BY <1>1, <1>2 DEF Inv, ScanState
<1>4. Chain(Pushed)
  <2>1. ASSUME NEW k \in 1 .. n
        PROVE  StaticSucc(code, Pushed[k]) = {Pushed[k + 1]}
    <3>1. CASE k = n
      <4>1. bb.insts # <<>>
        BY <1>1, <3>1
      <4>. QED
        BY <1>1, <1>2, <3>1, <4>1 DEF BlockInv, Trail
    <3>2. CASE k # n
      <4>1. k \in 1 .. n - 1 /\ k + 1 \in 1 .. n
        BY <1>2, <3>2
      <4>. QED
        BY <1>1, <1>2, <4>1 DEF BlockInv, Trail, Chain
    <3>. QED
      BY <3>1, <3>2
  <2>2. Len(Pushed) - 1 = n
    BY <1>2
  <2>. QED
    BY <2>1, <2>2 DEF Chain
<1>5. pc \notin Built
  BY <1>1 DEF Decoded, AtKnownLeader, Inv, EveryLeaderOnce, Building, Built
<1>6. Avoids(Pushed)
  <2>1. ASSUME NEW k \in 2 .. n + 1
        PROVE  Pushed[k] \notin Built
    <3>1. CASE k = n + 1
      BY <1>2, <1>5, <3>1
    <3>2. CASE k # n + 1
      <4>1. k \in 2 .. n /\ k \in 1 .. n
        BY <1>2, <3>2
      <4>. QED
        BY <1>1, <1>2, <4>1 DEF BlockInv, Trail, Avoids
    <3>. QED
      BY <3>1, <3>2
  <2>. QED
    BY <1>2, <2>1 DEF Avoids
<1>. QED
  BY <1>2, <1>3, <1>4, <1>6

\* A block that ends with the terminator at pc and lists its successors.
LEMMA TerminatedBlock ==
  ASSUME Inv, BlockInv, Decoded, code' = code,
         NEW term \in TermKind, NEW succs \in Seq(Addr),
         Store(Pushed, term, succs),
         Range(succs) = StaticSucc(code, pc),
         term = "Branch" => succs = <<Plus(pc, code[pc].imm), NextPC(pc)>>
  PROVE  BlockInv'
<1>. DEFINE b == [start |-> bb.start, insts |-> Pushed, term |-> term,
                  succs |-> succs]
<1>1. b.start = bb.start /\ b.insts = Pushed /\ b.term = term /\ b.succs = succs
  OBVIOUS
<1>. HIDE DEF b
<1>2. ExitsMatch(b)
  BY <1>1, PushedFollows DEF ExitsMatch
<1>3. Follows(b)
  BY <1>1, <1>2, PushedFollows DEF Follows
<1>. QED
  BY <1>3, PushedFollows, StoreBlock DEF b

\* A block that ends where the scan stops without decoding.
LEMMA CutBlock ==
  ASSUME Inv, BlockInv, phase = "scan", code' = code,
         NEW term \in TermKind, NEW succs \in Seq(Addr),
         Store(bb.insts, term, succs), term # "Branch",
         \/ Range(succs) = {pc} /\ pc # bb.start
         \/ term = "Trap" /\ succs = <<>> /\ ~ Decodes(code, pc)
  PROVE  BlockInv'
<1>. DEFINE b == [start |-> bb.start, insts |-> bb.insts, term |-> term,
                  succs |-> succs]
<1>1. b.start = bb.start /\ b.insts = bb.insts /\ b.term = term /\ b.succs = succs
  OBVIOUS
<1>. HIDE DEF b
<1>2. bb.insts \in Seq(Addr) /\ Chain(bb.insts) /\ Avoids(bb.insts)
  BY DEF Inv, TypeOK, Block, BlockInv, Trail
<1>3. CASE bb.insts = <<>>
  <2>1. pc = bb.start /\ Len(bb.insts) = 0
    BY <1>3 DEF Inv, ScanState
  <2>2. Follows(b)
    BY <1>1, <2>1 DEF Follows
  <2>. QED
    BY <1>2, <2>2, StoreBlock DEF b
<1>4. CASE bb.insts # <<>>
  <2>1. /\ bb.insts[1] = bb.start /\ Len(bb.insts) > 0
        /\ StaticSucc(code, bb.insts[Len(bb.insts)]) = {pc}
    BY <1>2, <1>4 DEF Inv, ScanState, BlockInv, Trail
  <2>2. ExitsMatch(b)
    BY <1>1, <2>1 DEF ExitsMatch
  <2>3. Follows(b)
    BY <1>1, <1>2, <2>1, <2>2 DEF Follows
  <2>. QED
    BY <1>2, <2>3, StoreBlock DEF b
<1>. QED
  BY <1>3, <1>4

\* Every step keeps the blocks true to the guest.
LEMMA BlockStep == Inv /\ BlockInv /\ [Next]_vars => BlockInv'
<1> SUFFICES ASSUME Inv, BlockInv, [Next]_vars
             PROVE  BlockInv'
  OBVIOUS
<1>a. /\ bb.insts \in Seq(Addr) /\ pc \in Addr /\ NextPC(pc) \in Addr
      /\ Decodes(code, pc) => Plus(pc, code[pc].imm) \in Addr
      /\ <<>> \in Seq(Addr)
  BY NextType, ImmType, PlusType DEF Inv, TypeOK, Block
<1>1. CASE PopLeader
  <2>1. /\ UNCHANGED <<code, blocks, indexByAddr>> /\ phase = "pop"
        /\ phase' = "scan" => bb'.insts = <<>>
    BY <1>1 DEF PopLeader, BasicBlock
  <2>2. phase' = "scan" => Chain(bb'.insts) /\ Avoids(bb'.insts)
    BY <2>1 DEF Chain, Avoids
  <2>3. Trail'
    BY <2>1, <2>2 DEF Trail, Chain, Avoids, Built
  <2>. QED
    BY <2>1, <2>3, ZenonT(40) DEF BlockInv, BlocksFollowGuest, ExitsMatch, NoRunOver
<1>2. CASE Return
  BY <1>2, ZenonT(40)
  DEF Return, BlockInv, BlocksFollowGuest, ExitsMatch, NoRunOver, Trail
<1>3. CASE EndFallthrough
  <2>1. /\ phase = "scan" /\ code' = code /\ pc # bb.start
        /\ Store(bb.insts, "Fallthrough", <<pc>>) /\ "Fallthrough" \in TermKind
    BY <1>3 DEF EndFallthrough, AtKnownLeader, TermKind
  <2>2. <<pc>> \in Seq(Addr) /\ Range(<<pc>>) = {pc}
    BY <1>a, ShortSeqs
  <2>. QED
    BY <2>1, <2>2, CutBlock
<1>4. CASE EndUndecodable
  <2>1. /\ phase = "scan" /\ code' = code /\ ~ Decodes(code, pc)
        /\ Store(bb.insts, "Trap", <<>>) /\ "Trap" \in TermKind
    BY <1>4 DEF EndUndecodable, TermKind
  <2>. QED
    BY <1>a, <2>1, CutBlock
<1>5. CASE ScanStraight
  <2>1. /\ Decoded /\ phase' = "scan" /\ bb'.insts = Pushed /\ pc' = NextPC(pc)
        /\ StaticSucc(code, pc) = {NextPC(pc)}
        /\ UNCHANGED <<code, blocks, indexByAddr>>
    BY <1>5, SuccOfPC DEF ScanStraight, Decoded, Inv, TypeOK, Block
  <2>2. Trail'
    BY <2>1, PushedFollows DEF Trail, Chain, Avoids, Built
  <2>. QED
    BY <2>1, <2>2, ZenonT(40) DEF BlockInv, BlocksFollowGuest, ExitsMatch, NoRunOver
<1>6. CASE EndBranch
  <2>. DEFINE t == Plus(pc, code[pc].imm)
              f == NextPC(pc)
  <2>1. /\ Decoded /\ code' = code
        /\ StaticSucc(code, pc) = {t, f}
        /\ Store(Pushed, "Branch", <<t, f>>) /\ "Branch" \in TermKind
        /\ t \in Addr /\ f \in Addr
    BY <1>6, <1>a, SuccOfPC DEF EndBranch, Decoded, TermKind
  <2>2. <<t, f>> \in Seq(Addr) /\ Range(<<t, f>>) = {t, f}
    BY <2>1, ShortSeqs
  <2>. QED
    BY <2>1, <2>2, TerminatedBlock
<1>7. CASE EndJump
  <2>. DEFINE t == Plus(pc, code[pc].imm)
  <2>1. /\ Decoded /\ code' = code
        /\ StaticSucc(code, pc) = {t}
        /\ Store(Pushed, "Jump", <<t>>) /\ "Jump" \in TermKind
        /\ t \in Addr
    BY <1>7, <1>a, SuccOfPC DEF EndJump, Decoded, TermKind
  <2>2. <<t>> \in Seq(Addr) /\ Range(<<t>>) = {t}
    BY <2>1, ShortSeqs
  <2>. QED
    BY <2>1, <2>2, TerminatedBlock
<1>8. CASE EndNoSucc
  <2>1. /\ Decoded /\ code' = code /\ StaticSucc(code, pc) = {}
    BY <1>8, SuccOfPC DEF EndNoSucc, Decoded
  <2>2. PICK term \in TermKind : Store(Pushed, term, <<>>) /\ term # "Branch"
    BY <1>8 DEF EndNoSucc, TermKind
  <2>. QED
    BY <1>a, <2>1, <2>2, RangeOfEmpty, TerminatedBlock
<1>9. CASE UNCHANGED vars
  BY <1>9, ZenonT(40)
  DEF vars, BlockInv, BlocksFollowGuest, ExitsMatch, NoRunOver, Trail,
     Chain, Avoids, Built
<1>. QED
  BY <1>1, <1>2, <1>3, <1>4, <1>5, <1>6, <1>7, <1>8, <1>9 DEF Next

\* The blocks are true to the guest in every state of the builder.
LEMMA BlockInvariance == Spec => []BlockInv
<1>1. Init => BlockInv
  BY DEF Init, BlockInv, BlocksFollowGuest, NoRunOver, Trail
<1>. QED
  BY <1>1, BlockStep, Invariance, PTL DEF Spec

(***************************************************************************)
(* Inside a stored block control goes from each instruction to the next    *)
(* and nowhere else, and from the last one to the successors the block     *)
(* lists; a block that stops short stops where nothing decodes.            *)
(***************************************************************************)
THEOREM BlocksTrue == Spec => []BlocksFollowGuest
<1>1. BlockInv => BlocksFollowGuest
  BY DEF BlockInv
<1>. QED
  BY <1>1, BlockInvariance, PTL

(***************************************************************************)
(* A block never runs over the start of a block stored before it.          *)
(***************************************************************************)
THEOREM RunsOverNone == Spec => []NoRunOver
<1>1. BlockInv => NoRunOver
  BY DEF BlockInv
<1>. QED
  BY <1>1, BlockInvariance, PTL

-----------------------------------------------------------------------------
\* What the search of StaticReach gives the builder that implements it.

\* Every closed set that contains the entry contains all that is discovered.
LEMMA SearchSound == Reach!Spec => []Reach!NothingUnreachable
<1>1. Reach!Init => Reach!NothingUnreachable
  BY DEF Reach!Init, Reach!NothingUnreachable
<1>2. Reach!NothingUnreachable /\ [Reach!Next]_Reach!vars => Reach!NothingUnreachable'
  <2> SUFFICES ASSUME Reach!NothingUnreachable, [Reach!Next]_Reach!vars,
                      NEW S \in SUBSET Reach!Addr, Entry \in S, Reach!Closed(code', S)
               PROVE  Seen' \subseteq S
    BY DEF Reach!NothingUnreachable
  <2>1. code' = code
    BY DEF Reach!Next, Reach!Finish, Reach!Visit, Reach!vars
  <2>2. Seen \subseteq S
    BY <2>1 DEF Reach!NothingUnreachable
  <2>3. CASE Seen' = Seen
    BY <2>2, <2>3
  <2>4. ASSUME NEW a \in Seen, Reach!Visit(a)
        PROVE  Seen' \subseteq S
    <3>1. Reach!StaticSucc(code, a) \subseteq S
      BY <2>1, <2>2 DEF Reach!Closed
    <3>. QED
      BY <2>2, <2>4, <3>1 DEF Reach!Visit
  <2>. QED
    BY <2>3, <2>4 DEF Reach!Next, Reach!Finish, Reach!vars
<1>. QED
  BY <1>1, <1>2, PTL DEF Reach!Spec

(***************************************************************************)
(* The builder discovers no address that is not statically reachable:      *)
(* every set that contains the entry and is closed under static succession *)
(* contains all it has seen.                                               *)
(***************************************************************************)
THEOREM SeesOnlyReachable == Spec => []Reach!NothingUnreachable
  BY Refinement, SearchSound, PTL DEF ImplementsReach

(***************************************************************************)
(* When build() returns, nothing that is statically reachable is missing:  *)
(* what the builder has seen is closed under static succession.            *)
(***************************************************************************)
THEOREM SeesAllReachable == Spec => []Reach!NothingMissing
<1>1. Reach!Init => Reach!NothingMissing
  BY DEF Reach!Init, Reach!NothingMissing
<1>2. Reach!NothingMissing /\ [Reach!Next]_Reach!vars => Reach!NothingMissing'
  <2> SUFFICES ASSUME Reach!NothingMissing, [Reach!Next]_Reach!vars
               PROVE  Reach!NothingMissing'
    OBVIOUS
  <2>1. CASE Reach!Finish
    BY <2>1 DEF Reach!Finish, Reach!NothingMissing
  <2>2. CASE \E a \in Seen : Reach!Visit(a)
    BY <2>2 DEF Reach!Visit, Reach!NothingMissing
  <2>3. CASE UNCHANGED Reach!vars
    BY <2>3 DEF Reach!vars, Reach!NothingMissing
  <2>. QED
    BY <2>1, <2>2, <2>3 DEF Reach!Next
<1>. QED
  BY <1>1, <1>2, Refinement, PTL DEF Reach!Spec, ImplementsReach

-----------------------------------------------------------------------------
\* The shape of a block: what it is made of and how it ends.

\* Each instruction of a sequence is the one behind the one before, and none
\* but the last is a terminator.
Straight(insts) ==
  \A k \in 1 .. Len(insts) :
    /\ Decodes(code, insts[k])
    /\ k < Len(insts) => /\ ~ IsTerminator(code[insts[k]])
                         /\ insts[k + 1] = NextPC(insts[k])

\* The last instruction of a block, its kind and its successors.
Ends(l, term, succs) ==
  \/ term = "Branch" /\ IsCondBranch(code[l])
       /\ succs = <<Plus(l, code[l].imm), NextPC(l)>>
  \/ term = "Jump" /\ IsJump(code[l]) /\ succs = <<Plus(l, code[l].imm)>>
  \/ term = "IndirectJump" /\ IsIndirect(code[l])
  \/ term = "Return" /\ IsReturn(code[l])
  \/ term = "Trap" /\ IsTrap(code[l])
  \/ term = "Trap" /\ ~ IsTerminator(code[l])
  \/ term = "Fallthrough" /\ ~ IsTerminator(code[l]) /\ succs = <<NextPC(l)>>

Shaped(b) ==
  IF b.insts = <<>> THEN b.term = "Trap"
  ELSE /\ b.insts[1] = b.start
       /\ Straight(b.insts)
       /\ Ends(b.insts[Len(b.insts)], b.term, b.succs)

\* The scan has come straight to pc.
Coming ==
  phase = "scan" =>
    /\ Straight(bb.insts)
    /\ bb.insts # <<>> =>
         /\ ~ IsTerminator(code[bb.insts[Len(bb.insts)]])
         /\ pc = NextPC(bb.insts[Len(bb.insts)])

ShapeInv == (\A i \in 1 .. Len(blocks) : Shaped(blocks[i])) /\ Coming

\* A turn that decodes goes straight on.
LEMMA PushedStraight ==
  ASSUME Inv, Coming, Decoded
  PROVE  Straight(Pushed)
<1>. DEFINE n == Len(bb.insts)
<1>1. bb.insts \in Seq(Addr) /\ pc \in Addr /\ phase = "scan" /\ Decodes(code, pc)
  BY DEF Inv, TypeOK, Block, Decoded
<1>2. /\ Pushed \in Seq(Addr) /\ n \in Nat /\ Len(Pushed) = n + 1
      /\ \A i \in 1 .. n : Pushed[i] = bb.insts[i]
      /\ Pushed[n + 1] = pc
  BY <1>1, AppendFacts DEF Pushed
<1>3. ASSUME NEW k \in 1 .. n + 1
      PROVE  /\ Decodes(code, Pushed[k])
             /\ k < n + 1 => /\ ~ IsTerminator(code[Pushed[k]])
                             /\ Pushed[k + 1] = NextPC(Pushed[k])
  <2>1. CASE k = n + 1
    BY <1>1, <1>2, <2>1
  <2>2. CASE k = n
    <3>1. bb.insts # <<>> /\ k \in 1 .. n
      BY <1>1, <1>2, <2>2
    <3>2. /\ ~ IsTerminator(code[bb.insts[n]]) /\ pc = NextPC(bb.insts[n])
          /\ Decodes(code, bb.insts[k])
      BY <1>1, <3>1 DEF Coming, Straight
    <3>. QED
      BY <1>2, <2>2, <3>1, <3>2
  <2>3. CASE k < n
    <3>1. k \in 1 .. n /\ k + 1 \in 1 .. n
      BY <1>2, <2>3
    <3>2. /\ Decodes(code, bb.insts[k]) /\ ~ IsTerminator(code[bb.insts[k]])
          /\ bb.insts[k + 1] = NextPC(bb.insts[k])
      BY <1>1, <2>3, <3>1 DEF Coming, Straight
    <3>. QED
      BY <1>2, <3>1, <3>2
  <2>. QED
    BY <1>2, <2>1, <2>2, <2>3
<1>. QED
  BY <1>2, <1>3 DEF Straight

\* Storing a block of the right shape.
LEMMA StoreShape ==
  ASSUME Inv, ShapeInv, code' = code,
         NEW insts \in Seq(Addr), NEW term \in TermKind, NEW succs \in Seq(Addr),
         Store(insts, term, succs),
         Shaped([start |-> bb.start, insts |-> insts, term |-> term,
                 succs |-> succs])
  PROVE  ShapeInv'
<1>. DEFINE b == [start |-> bb.start, insts |-> insts, term |-> term,
                  succs |-> succs]
            n == Len(blocks)
<1>1. b \in Block /\ blocks \in Seq(Block)
  BY DEF Inv, TypeOK, Block
<1>2. blocks' = Append(blocks, b) /\ phase' = "pop"
  BY DEF Store
<1>3. Shaped(b)
  OBVIOUS
<1>. HIDE DEF b
<1>4. /\ n \in Nat /\ Len(blocks') = n + 1
      /\ \A i \in 1 .. n : blocks'[i] = blocks[i]
      /\ blocks'[n + 1] = b
  BY <1>1, <1>2, AppendFacts
<1>5. \A i \in 1 .. n + 1 : i \in 1 .. n \/ i = n + 1
  BY <1>4
<1>6. \A i \in 1 .. n + 1 : Shaped(blocks'[i])
  BY <1>3, <1>4, <1>5 DEF ShapeInv
<1>7. ASSUME NEW c, Shaped(c)
      PROVE  Shaped(c)'
  BY <1>7 DEF Shaped, Straight, Ends
<1>8. (\A i \in 1 .. Len(blocks) : Shaped(blocks[i]))'
  BY <1>4, <1>6, <1>7 DEF Shaped, Straight, Ends
<1>9. Coming'
  BY <1>2 DEF Coming
<1>. QED
  BY <1>8, <1>9 DEF ShapeInv

\* Ending a block with the instruction at pc.
LEMMA ShapeEnd ==
  ASSUME Inv, ShapeInv, Decoded, code' = code,
         NEW term \in TermKind, NEW succs \in Seq(Addr),
         Store(Pushed, term, succs), Ends(pc, term, succs)
  PROVE  ShapeInv'
<1>. DEFINE b == [start |-> bb.start, insts |-> Pushed, term |-> term,
                  succs |-> succs]
<1>1. b.start = bb.start /\ b.insts = Pushed /\ b.term = term /\ b.succs = succs
  OBVIOUS
<1>. HIDE DEF b
<1>2. bb.insts \in Seq(Addr) /\ pc \in Addr /\ phase = "scan"
  BY DEF Inv, TypeOK, Block, Decoded
<1>3. /\ Pushed \in Seq(Addr) /\ Pushed # <<>>
      /\ Pushed[Len(Pushed)] = pc
      /\ Pushed[1] = IF bb.insts = <<>> THEN pc ELSE bb.insts[1]
  BY <1>2, AppendFacts DEF Pushed
<1>4. Pushed[1] = bb.start
  BY <1>2, <1>3 DEF Inv, ScanState
<1>5. Straight(Pushed)
  BY PushedStraight DEF ShapeInv
<1>6. Shaped(b)
  BY <1>1, <1>3, <1>4, <1>5 DEF Shaped
<1>. QED
  BY <1>3, <1>6, StoreShape DEF b

\* Ending a block before pc.
LEMMA ShapeCut ==
  ASSUME Inv, ShapeInv, phase = "scan", code' = code,
         NEW term \in TermKind, NEW succs \in Seq(Addr),
         Store(bb.insts, term, succs),
         \/ term = "Trap"
         \/ term = "Fallthrough" /\ succs = <<pc>> /\ pc # bb.start
  PROVE  ShapeInv'
<1>. DEFINE b == [start |-> bb.start, insts |-> bb.insts, term |-> term,
                  succs |-> succs]
<1>1. b.start = bb.start /\ b.insts = bb.insts /\ b.term = term /\ b.succs = succs
  OBVIOUS
<1>. HIDE DEF b
<1>2. bb.insts \in Seq(Addr) /\ Straight(bb.insts)
  BY DEF Inv, TypeOK, Block, ShapeInv, Coming
<1>3. Shaped(b)
  <2>1. CASE bb.insts = <<>>
    BY <1>1, <2>1 DEF Shaped, Inv, ScanState
  <2>2. CASE bb.insts # <<>>
    <3>1. /\ bb.insts[1] = bb.start
          /\ ~ IsTerminator(code[bb.insts[Len(bb.insts)]])
          /\ pc = NextPC(bb.insts[Len(bb.insts)])
      BY <2>2 DEF Inv, ScanState, ShapeInv, Coming
    <3>. QED
      BY <1>1, <1>2, <2>2, <3>1 DEF Shaped, Ends
  <2>. QED
    BY <2>1, <2>2
<1>. QED
  BY <1>2, <1>3, StoreShape DEF b

\* Every step keeps the blocks in shape.
LEMMA ShapeStep == Inv /\ ShapeInv /\ [Next]_vars => ShapeInv'
<1> SUFFICES ASSUME Inv, ShapeInv, [Next]_vars
             PROVE  ShapeInv'
  OBVIOUS
<1>a. /\ bb.insts \in Seq(Addr) /\ pc \in Addr /\ NextPC(pc) \in Addr
      /\ Decodes(code, pc) => Plus(pc, code[pc].imm) \in Addr
      /\ <<>> \in Seq(Addr) /\ <<pc>> \in Seq(Addr)
  BY NextType, ImmType, PlusType DEF Inv, TypeOK, Block
<1>1. CASE PopLeader
  <2>1. /\ UNCHANGED <<code, blocks>> /\ phase = "pop"
        /\ phase' = "scan" => bb'.insts = <<>>
    BY <1>1 DEF PopLeader, BasicBlock
  <2>2. Coming'
    BY <2>1 DEF Coming, Straight
  <2>. QED
    BY <2>1, <2>2 DEF ShapeInv, Shaped, Straight, Ends
<1>2. CASE Return
  BY <1>2 DEF Return, ShapeInv, Shaped, Straight, Ends, Coming
<1>3. CASE EndFallthrough
  <2>1. /\ phase = "scan" /\ code' = code /\ pc # bb.start
        /\ Store(bb.insts, "Fallthrough", <<pc>>) /\ "Fallthrough" \in TermKind
    BY <1>3 DEF EndFallthrough, AtKnownLeader, TermKind
  <2>. QED
    BY <1>a, <2>1, ShapeCut
<1>4. CASE EndUndecodable
  <2>1. /\ phase = "scan" /\ code' = code
        /\ Store(bb.insts, "Trap", <<>>) /\ "Trap" \in TermKind
    BY <1>4 DEF EndUndecodable, TermKind
  <2>. QED
    BY <1>a, <2>1, ShapeCut
<1>5. CASE ScanStraight
  <2>1. /\ Decoded /\ phase' = "scan" /\ bb'.insts = Pushed /\ pc' = NextPC(pc)
        /\ ~ IsTerminator(code[pc])
        /\ UNCHANGED <<code, blocks>>
    BY <1>5 DEF ScanStraight, Inv, TypeOK, Block, Decoded
  <2>2. Straight(Pushed) /\ Pushed[Len(Pushed)] = pc
    BY <1>a, <2>1, PushedStraight, AppendFacts DEF ShapeInv, Pushed
  <2>3. Coming'
    BY <2>1, <2>2 DEF Coming, Straight
  <2>. QED
    BY <2>1, <2>3 DEF ShapeInv, Shaped, Straight, Ends
<1>6. CASE EndBranch
  <2>. DEFINE t == Plus(pc, code[pc].imm)
              f == NextPC(pc)
  <2>1. /\ Decoded /\ code' = code /\ IsCondBranch(code[pc])
        /\ Store(Pushed, "Branch", <<t, f>>) /\ "Branch" \in TermKind
        /\ <<t, f>> \in Seq(Addr)
    BY <1>6, <1>a DEF EndBranch, Decoded, TermKind
  <2>. QED
    BY <2>1, ShapeEnd DEF Ends
<1>7. CASE EndJump
  <2>. DEFINE t == Plus(pc, code[pc].imm)
  <2>1. /\ Decoded /\ code' = code /\ IsJump(code[pc])
        /\ Store(Pushed, "Jump", <<t>>) /\ "Jump" \in TermKind
        /\ <<t>> \in Seq(Addr)
    BY <1>7, <1>a DEF EndJump, Decoded, TermKind
  <2>. QED
    BY <2>1, ShapeEnd DEF Ends
<1>8. CASE EndNoSucc
  <2>1. Decoded /\ code' = code
    BY <1>8 DEF EndNoSucc
  <2>2. PICK term \in TermKind : Store(Pushed, term, <<>>) /\ Ends(pc, term, <<>>)
    BY <1>8 DEF EndNoSucc, TermKind, Ends
  <2>. QED
    BY <1>a, <2>1, <2>2, ShapeEnd
<1>9. CASE UNCHANGED vars
  BY <1>9 DEF vars, ShapeInv, Shaped, Straight, Ends, Coming
<1>. QED
  BY <1>1, <1>2, <1>3, <1>4, <1>5, <1>6, <1>7, <1>8, <1>9 DEF Next

-----------------------------------------------------------------------------
\* The finished graph, for the modules that go on with it.

GraphInv ==
  /\ Inv /\ ShapeInv /\ Drained
  /\ Entry \in leaders

LEMMA GraphInit == Init => GraphInv
<1> SUFFICES ASSUME Init
             PROVE  GraphInv
  OBVIOUS
<1>1. Inv
  BY InvInit
<1>2. blocks = <<>> /\ phase = "pop" /\ leaders = {Entry}
  BY DEF Init
<1>. QED
  BY <1>1, <1>2 DEF GraphInv, ShapeInv, Coming, Drained

LEMMA GraphStep == GraphInv /\ [Next]_vars => GraphInv'
<1> SUFFICES ASSUME GraphInv, [Next]_vars
             PROVE  GraphInv'
  OBVIOUS
<1>1. Inv' /\ ShapeInv'
  BY InvStep, ShapeStep DEF GraphInv
<1>2. Drained'
  BY DEF GraphInv, Drained, Next, PopLeader, Return, EndFallthrough, EndUndecodable,
     ScanStraight, EndBranch, EndJump, EndNoSucc, Store, Decoded, vars
<1>3. leaders \subseteq leaders'
  BY DEF Next, PopLeader, Return, EndFallthrough, EndUndecodable,
     ScanStraight, EndBranch, EndJump, EndNoSucc, vars
<1>. QED
  BY <1>1, <1>2, <1>3 DEF GraphInv

\* The blocks and the index of the graph that build() returns.
Graph ==
  /\ code \in Program
  /\ blocks \in Seq(Block)
  /\ Entry \in Built
  /\ \A i \in 1 .. Len(blocks) : blocks[i].start \in Built
  /\ \A a \in Built : /\ a \in Addr /\ indexByAddr[a] + 1 \in 1 .. Len(blocks)
                      /\ blocks[indexByAddr[a] + 1].start = a
  /\ \A i \in 1 .. Len(blocks) : Shaped(blocks[i])
  /\ \A i \in 1 .. Len(blocks) : \A k \in 1 .. Len(blocks[i].succs) :
       blocks[i].succs[k] \in Built

LEMMA FinishedGraph ==
  ASSUME GraphInv, phase = "done"
  PROVE  Graph
<1>1. /\ code \in Program /\ blocks \in Seq(Block) /\ Built \subseteq Addr
      /\ \A a \in Built : indexByAddr[a] \in Nat
  BY DEF GraphInv, Inv, TypeOK, Built
<1>2. Waiting = {} /\ Building = {}
  BY RangeOfEmpty DEF GraphInv, Drained, Waiting, Building
<1>3. Entry \in Built
  BY <1>2 DEF GraphInv, Inv, EveryLeaderOnce
<1>4. \A i \in 1 .. Len(blocks) : blocks[i].start \in Built
  BY DEF GraphInv, Inv, IndexMatchesBlocks
<1>5. ASSUME NEW a \in Built
      PROVE  /\ a \in Addr /\ indexByAddr[a] + 1 \in 1 .. Len(blocks)
             /\ blocks[indexByAddr[a] + 1].start = a
  <2>1. indexByAddr[a] < Len(blocks) /\ blocks[indexByAddr[a] + 1].start = a
    BY DEF GraphInv, Inv, IndexMatchesBlocks
  <2>2. a \in Addr /\ indexByAddr[a] \in Nat /\ Len(blocks) \in Nat
    BY <1>1
  <2>3. indexByAddr[a] + 1 \in 1 .. Len(blocks)
    BY <2>1, <2>2
  <2>. QED
    BY <2>1, <2>2, <2>3
<1>6. ASSUME NEW i \in 1 .. Len(blocks), NEW k \in 1 .. Len(blocks[i].succs)
      PROVE  blocks[i].succs[k] \in Built
  <2>1. blocks[i].succs \in Seq(Addr)
    <3>1. blocks[i] \in Block
      BY <1>1
    <3>. QED
      BY <3>1 DEF Block
  <2>2. Range(blocks[i].succs) \subseteq Built
    BY <1>2 DEF GraphInv, Inv, SuccsAdmitted, EveryLeaderOnce
  <2>3. blocks[i].succs[k] \in Range(blocks[i].succs)
    BY <2>1, RangeMember
  <2>. QED
    BY <2>2, <2>3
<1>7. \A i \in 1 .. Len(blocks) : Shaped(blocks[i])
  BY DEF GraphInv, ShapeInv
<1>. QED
  BY <1>1, <1>3, <1>4, <1>5, <1>6, <1>7 DEF Graph
=============================================================================
