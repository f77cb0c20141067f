--------------------------- MODULE Execution_proofs ---------------------------
(***************************************************************************)
(* A guest program and its translation, for every program, every set of    *)
(* registers, every width of the words and every depth of the host stack:  *)
(* the links and frames of the run, the graph and the text it is made      *)
(* from, and host and guest side by side.                                  *)
(***************************************************************************)
EXTENDS Execution, Lifter_proofs

-----------------------------------------------------------------------------
\* Links and frames.  Nothing here depends on what the blocks compute.

\* A frame of riscy_indirect_jump keeps the return address of its caller: the
\* entry at the bottom, blocks above it.
Links(n) == IF n = 0 THEN "entry_returned" ELSE "behind_block"

Stacked(n) ==
  /\ frames \in Seq(Places)
  /\ Len(frames) = n
  /\ \A i \in 1 .. n : frames[i] = Links(i - 1)

\* Where the host is, and what its links and frames are then.
Control ==
  /\ jumps \in Nat
  /\ at \in {"unlinked", "main", "entry", "jump", "block"} \cup Places \cup Ended
  /\ at \in {"unlinked", "main", "entry"} => frames = <<>> /\ jumps = 0
  /\ at \in {"unlinked", "main", "entry"} => lr = "main_returned"
  /\ at \in {"jump", "block", "jump_returned", "entry_returned"} =>
       x19 = "main_returned"
  /\ at = "jump" => Stacked(jumps) /\ lr = Links(jumps)
  /\ at = "block" => Stacked(jumps + 1) /\ lr = "jump_returned"
  /\ at = "jump_returned" => Stacked(jumps + 1)
  /\ at \in {"entry_returned", "main_returned", "done"} => Stacked(0) /\ jumps = 0
  /\ at \in {"behind_block", "lost"} => Stacked(jumps) /\ jumps > 0
  /\ at = "overflow" => jumps = MaxFrames

\* The pool of the allocator does not contain the register of the entry.
LEMMA EntryLinkKept == EntryLink \notin BlockWrites
<1>1. \A i \in 1 .. 25 : CodePool[i] # 19
  BY DEF CodePool
<1>2. DOMAIN CodePool = 1 .. 25
  BY DEF CodePool
<1>. QED
  BY <1>1, <1>2 DEF EntryLink, BlockWrites, MemBaseReg

\* A program starts with no frame.
LEMMA ControlInit == Init => Control
  BY DEF Init, RunInit, Control, Places, Ended

\* Calling a block keeps the caller's link in a new frame.
LEMMA CallStep ==
  ASSUME Control, CallBlock
  PROVE  Control'
<1>1. /\ at = "jump" /\ at' = "block" /\ UNCHANGED <<jumps, x19>>
      /\ frames' = Append(frames, lr) /\ lr' = "jump_returned"
  BY DEF CallBlock
<1>2. Stacked(jumps) /\ lr = Links(jumps) /\ jumps \in Nat /\ x19 = "main_returned"
  BY <1>1 DEF Control
<1>3. lr \in Places
  BY <1>2 DEF Links, Places
<1>4. /\ frames' \in Seq(Places) /\ Len(frames') = jumps + 1
      /\ \A i \in 1 .. jumps : frames'[i] = frames[i]
      /\ frames'[jumps + 1] = lr
  BY <1>1, <1>2, <1>3, AppendFacts DEF Stacked
<1>5. \A i \in 1 .. jumps + 1 : frames'[i] = Links(i - 1)
  <2>1. \A i \in 1 .. jumps + 1 : i \in 1 .. jumps \/ i = jumps + 1
    BY <1>2
  <2>2. jumps + 1 - 1 = jumps
    BY <1>2
  <2>. QED
    BY <1>2, <1>4, <2>1, <2>2 DEF Stacked
<1>6. Stacked(jumps + 1)'
  BY <1>1, <1>4, <1>5 DEF Stacked, Links
<1>. QED
  BY <1>1, <1>2, <1>6 DEF Control, Places, Ended

\* riscy_indirect_jump returns to the caller of its frame.
LEMMA ReturnFromJumpStep ==
  ASSUME Control, ReturnFromJump
  PROVE  Control'
<1>1. /\ at = "jump_returned" /\ at' = frames[Len(frames)]
      /\ frames' = SubSeq(frames, 1, Len(frames) - 1)
      /\ UNCHANGED <<jumps, x19>>
  BY DEF ReturnFromJump
<1>2. Stacked(jumps + 1) /\ jumps \in Nat /\ x19 = "main_returned"
  BY <1>1 DEF Control
<1>3. at' = Links(jumps)
  <2>1. jumps + 1 \in 1 .. jumps + 1 /\ jumps + 1 - 1 = jumps
    BY <1>2
  <2>. QED
    BY <1>1, <1>2, <2>1 DEF Stacked
<1>4. /\ frames' \in Seq(Places) /\ Len(frames') = jumps
      /\ \A i \in 1 .. jumps : frames'[i] = frames[i]
  BY <1>1, <1>2 DEF Stacked
<1>5. Stacked(jumps)'
  BY <1>1, <1>2, <1>4 DEF Stacked, Links
<1>6. CASE jumps = 0
  BY <1>1, <1>2, <1>3, <1>5, <1>6 DEF Control, Links, Places, Ended
<1>7. CASE jumps # 0
  BY <1>1, <1>2, <1>3, <1>5, <1>7 DEF Control, Links, Places, Ended
<1>. QED
  BY <1>6, <1>7

\* Running a block leaves the frames and the entry's link alone.
LEMMA BlockStep ==
  ASSUME Control, Branch \/ JumpIndirect \/ Return \/ Trap
  PROVE  Control'
<1>1. /\ at = "block" /\ frames' = frames /\ x19' = x19
  BY EntryLinkKept DEF Branch, JumpIndirect, Return, Trap, RunInsts
<1>2. /\ Stacked(jumps + 1) /\ lr = "jump_returned" /\ jumps \in Nat
      /\ x19 = "main_returned"
  BY <1>1 DEF Control
<1>3. CASE Branch
  BY <1>1, <1>2, <1>3 DEF Branch, Control, Stacked, Links, Places, Ended
<1>4. CASE JumpIndirect
  <2>1. at' = "jump" /\ lr' = "behind_block" /\ jumps' = jumps + 1
    BY <1>4 DEF JumpIndirect
  <2>2. lr' = Links(jumps') /\ jumps' \in Nat
    BY <1>2, <2>1 DEF Links
  <2>3. Stacked(jumps)'
    BY <1>1, <1>2, <2>1 DEF Stacked, Links
  <2>. QED
    BY <1>1, <1>2, <2>1, <2>2, <2>3 DEF Control, Places, Ended
<1>5. CASE Return
  BY <1>1, <1>2, <1>5 DEF Return, Control, Stacked, Links, Places, Ended
<1>6. CASE Trap
  BY <1>1, <1>2, <1>6 DEF Trap, Control, Places, Ended
<1>. QED
  BY <1>3, <1>4, <1>5, <1>6

\* Every step keeps links and frames in order.
LEMMA ControlStep == Control /\ [Next]_vars => Control'
<1> SUFFICES ASSUME Control, [Next]_vars
             PROVE  Control'
  OBVIOUS
<1>1. CASE BuildStep \/ UNCHANGED vars
  <2>1. UNCHANGED <<at, lr, x19, frames, jumps>>
    BY <1>1 DEF BuildStep, vars, runVars
  <2>. QED
    BY <2>1 DEF Control, Stacked, Links
<1>2. CASE EmitModule
  BY <1>2 DEF EmitModule, Control, Places, Ended
<1>3. CASE Main
  BY <1>3 DEF Main, Control, Places, Ended
<1>4. CASE Entry
  <2>1. /\ at = "entry" /\ at' = "jump" /\ x19' = "main_returned"
        /\ lr' = "entry_returned" /\ frames' = <<>> /\ jumps' = 0
    BY <1>4 DEF Entry, Control
  <2>2. Stacked(jumps)' /\ lr' = Links(jumps')
    BY <2>1 DEF Stacked, Links
  <2>. QED
    BY <2>1, <2>2 DEF Control, Places, Ended
<1>5. CASE CallBlock
  BY <1>5, CallStep
<1>6. CASE JumpNowhere
  BY <1>6 DEF JumpNowhere, Control, Places, Ended
<1>7. CASE OverflowStack
  BY <1>7 DEF OverflowStack, Control, Stacked, Places, Ended
<1>8. CASE Branch \/ JumpIndirect \/ Return \/ Trap
  BY <1>8, BlockStep
<1>9. CASE ReturnFromJump
  BY <1>9, ReturnFromJumpStep
<1>10. CASE RunBehindBlock
  BY <1>10 DEF RunBehindBlock, Control, Stacked, Links, Places, Ended
<1>11. CASE ReturnFromEntry
  BY <1>11 DEF ReturnFromEntry, Control, Stacked, Links, Places, Ended
<1>12. CASE PrintResult
  BY <1>12 DEF PrintResult, Control, Stacked, Links, Places, Ended
<1>. QED
  BY <1>1, <1>2, <1>3, <1>4, <1>5, <1>6, <1>7, <1>8, <1>9, <1>10, <1>11, <1>12
     DEF Next, RunStep, RunNext

\* Links and frames are in order in every state.
LEMMA ControlAlways == Spec => []Control
  BY ControlInit, ControlStep, PTL DEF Spec

(***************************************************************************)
(* However a program runs, each indirect jump it has made still has its    *)
(* frame: the host stack grows with every one of them and never shrinks    *)
(* while a block runs.                                                     *)
(***************************************************************************)
THEOREM FramesGrow == Spec => []FramesCountJumps
<1>1. Control => FramesCountJumps
  BY DEF Control, Stacked, FramesCountJumps
<1>. QED
  BY <1>1, ControlAlways, PTL

(***************************************************************************)
(* Only a program that has jumped indirectly runs on behind a block or out *)
(* of host stack, and the entry returns to main().                         *)
(***************************************************************************)
THEOREM LostByJumpsOnly == Spec => []WhenLost
<1>1. Control => WhenLost
  BY DEF Control, Stacked, WhenLost
<1>. QED
  BY <1>1, ControlAlways, PTL

\* What has come back to main() has made no indirect jump.
ReturnsJumpless == at \in {"main_returned", "done"} => jumps = 0 /\ frames = <<>>

(***************************************************************************)
(* The first conjunct of WhenMainReturns, for every program: one that has  *)
(* jumped indirectly never gets back to main().                            *)
(***************************************************************************)
THEOREM MainReturnsJumpless == Spec => []ReturnsJumpless
<1>1. Control => ReturnsJumpless
  <2>1. Stacked(0) => frames = <<>>
    BY DEF Stacked
  <2>. QED
    BY <2>1 DEF Control, ReturnsJumpless
<1>. QED
  BY <1>1, ControlAlways, PTL

-----------------------------------------------------------------------------
\* The order of the blocks.

\* The smaller members of a set of numbers.
Below(S, a) == {b \in S : b < a}

Rank(S, a) == Cardinality(Below(S, a))

\* A set of n numbers has a member with 0, 1, ... n - 1 smaller ones.
LEMMA RankExists ==
  \A n \in Nat : \A S \in SUBSET (0 .. n - 1) :
    /\ IsFiniteSet(S)
    /\ \A i \in 1 .. Cardinality(S) : \E a \in S : Rank(S, a) = i - 1
<1>. DEFINE Ranked(S) ==
              /\ IsFiniteSet(S)
              /\ \A i \in 1 .. Cardinality(S) :
                   \E a \in S : Rank(S, a) = i - 1
            T == {n \in Nat : \A S \in SUBSET (0 .. n - 1) : Ranked(S)}
<1>1. 0 \in T
  <2>1. \A S \in SUBSET (0 .. 0 - 1) : S = {}
    OBVIOUS
  <2>2. Ranked({})
    BY FS_EmptySet
  <2>. HIDE DEF Ranked
  <2>. QED
    BY <2>1, <2>2
<1>2. ASSUME NEW n \in Nat, n \in T
      PROVE  n + 1 \in T
  <2>1. ASSUME NEW S \in SUBSET (0 .. n)
        PROVE  Ranked(S)
    <3>. DEFINE R == S \ {n}
    <3>1. R \in SUBSET (0 .. n - 1) /\ \A b \in R : b \in Nat /\ b < n
      OBVIOUS
    <3>2. Ranked(R)
      BY <1>2, <3>1
    <3>3. CASE n \notin S
      <4>1. R = S
        BY <3>3
      <4>. QED
        BY <3>2, <4>1
    <3>4. CASE n \in S
      <4>1. S = R \cup {n} /\ n \notin R
        BY <3>4
      <4>. HIDE DEF R
      <4>2. IsFiniteSet(S) /\ Cardinality(S) = Cardinality(R) + 1 /\ Cardinality(R) \in Nat
        BY <3>2, <4>1, FS_AddElement, FS_CardinalityType
      <4>3. Below(S, n) = R
        <5>1. ~ (n < n)
          OBVIOUS
        <5>. QED
          BY <3>1, <4>1, <5>1 DEF Below
      <4>4. \A a \in R : Rank(S, a) = Rank(R, a)
        <5>1. \A a \in R : Below(S, a) = Below(R, a)
          <6> SUFFICES ASSUME NEW a \in R
                       PROVE  Below(S, a) = Below(R, a)
            OBVIOUS
          <6>1. ~ (n < a)
            BY <3>1
          <6>. QED
            BY <4>1, <6>1 DEF Below
        <5>. QED
          BY <5>1 DEF Rank
      <4>5. ASSUME NEW i \in 1 .. Cardinality(S)
            PROVE  \E a \in S : Rank(S, a) = i - 1
        <5>1. CASE i = Cardinality(S)
          BY <4>1, <4>2, <4>3, <5>1 DEF Rank
        <5>2. CASE i # Cardinality(S)
          <6>1. i \in 1 .. Cardinality(R)
            BY <4>2, <5>2
          <6>2. PICK a \in R : Rank(R, a) = i - 1
            BY <3>2, <6>1
          <6>. QED
            BY <4>1, <4>4, <6>2
        <5>. QED
          BY <5>1, <5>2
      <4>. QED
        BY <4>2, <4>5
    <3>. QED
      BY <3>3, <3>4
  <2>2. n + 1 - 1 = n
    OBVIOUS
  <2>. HIDE DEF Ranked
  <2>. QED
    BY <2>1, <2>2
<1>3. Nat \subseteq T
  <2>. HIDE DEF T
  <2>. QED
    BY <1>1, <1>2, NatSetInduction
<1>. QED
  BY <1>3

\* A larger member has more smaller ones.
LEMMA RankGrows ==
  ASSUME NEW S \in SUBSET Nat, IsFiniteSet(S), NEW a \in S, NEW b \in S, a < b
  PROVE  Rank(S, a) < Rank(S, b)
<1>0. a \in Nat /\ b \in Nat /\ \A c \in S : c \in Nat
  OBVIOUS
<1>1. /\ \A c \in S : c < a => c < b
      /\ ~ (a < a)
  BY <1>0
<1>2. /\ Below(S, a) \subseteq Below(S, b) /\ a \in Below(S, b) /\ a \notin Below(S, a)
      /\ Below(S, a) \subseteq S /\ Below(S, b) \subseteq S
  BY <1>1 DEF Below
<1>3. IsFiniteSet(Below(S, b)) /\ IsFiniteSet(Below(S, a))
  BY <1>2, FS_Subset
<1>4. Rank(S, a) <= Rank(S, b) /\ Rank(S, a) # Rank(S, b)
  BY <1>2, <1>3, FS_Subset DEF Rank
<1>5. Rank(S, a) \in Nat /\ Rank(S, b) \in Nat
  BY <1>3, FS_CardinalityType DEF Rank
<1>. QED
  BY <1>4, <1>5

\* InAddressOrder lists the keys of the index, each once, the least first.
LEMMA OrderFacts ==
  ASSUME NEW n \in Nat, DOMAIN indexByAddr \subseteq 0 .. n - 1
  PROVE  /\ DOMAIN InAddressOrder = 1 .. Cardinality(DOMAIN indexByAddr)
         /\ Cardinality(DOMAIN indexByAddr) \in Nat
         /\ \A i \in DOMAIN InAddressOrder : InAddressOrder[i] \in DOMAIN indexByAddr
         /\ \A a \in DOMAIN indexByAddr :
              \E i \in DOMAIN InAddressOrder : InAddressOrder[i] = a
         /\ \A i, j \in DOMAIN InAddressOrder :
              i < j => InAddressOrder[i] < InAddressOrder[j]
<1>. DEFINE K == DOMAIN indexByAddr
            ord == InAddressOrder
<1>0. K \in SUBSET (0 .. n - 1) /\ K \in SUBSET Nat
  OBVIOUS
<1>1. ord = [i \in 1 .. Cardinality(K) |-> CHOOSE a \in K : Rank(K, a) = i - 1]
  BY DEF InAddressOrder, Rank, Below
<1>. HIDE DEF K, ord
<1>2. IsFiniteSet(K) /\ \A i \in 1 .. Cardinality(K) : \E a \in K : Rank(K, a) = i - 1
  BY <1>0, RankExists
<1>3. Cardinality(K) \in Nat
  BY <1>2, FS_CardinalityType
<1>4. \A a, b \in K : a < b => Rank(K, a) < Rank(K, b)
  BY <1>0, <1>2, RankGrows
<1>5. \A a \in K : Rank(K, a) \in Nat /\ Rank(K, a) < Cardinality(K)
  <2> SUFFICES ASSUME NEW a \in K
               PROVE  Rank(K, a) \in Nat /\ Rank(K, a) < Cardinality(K)
    OBVIOUS
  <2>1. Below(K, a) \in SUBSET K /\ a \notin Below(K, a)
    BY <1>0 DEF Below
  <2>2. Rank(K, a) <= Cardinality(K) /\ Rank(K, a) # Cardinality(K) /\ IsFiniteSet(Below(K, a))
    BY <1>2, <2>1, FS_Subset DEF Rank
  <2>3. Rank(K, a) \in Nat
    BY <2>2, FS_CardinalityType DEF Rank
  <2>. QED
    BY <1>3, <2>2, <2>3
<1>6. \A i \in 1 .. Cardinality(K) : ord[i] \in K /\ Rank(K, ord[i]) = i - 1
  BY <1>1, <1>2
<1>7. DOMAIN ord = 1 .. Cardinality(K)
  BY <1>1
<1>8. ASSUME NEW a \in K
      PROVE  \E i \in DOMAIN ord : ord[i] = a
  <2>1. PICK i \in 1 .. Cardinality(K) : i - 1 = Rank(K, a)
    <3>1. Rank(K, a) \in Nat /\ Rank(K, a) < Cardinality(K)
      BY <1>5
    <3>. DEFINE i == Rank(K, a) + 1
    <3>2. i \in 1 .. Cardinality(K) /\ i - 1 = Rank(K, a)
      BY <1>3, <3>1
    <3>. HIDE DEF i
    <3>. QED
      BY <3>2
  <2>2. ord[i] \in K /\ Rank(K, ord[i]) = Rank(K, a)
    BY <1>6, <2>1
  <2>3. ord[i] \in Nat /\ a \in Nat /\ Rank(K, a) \in Nat
    BY <1>0, <1>5, <2>2
  <2>4. ~ (ord[i] < a) /\ ~ (a < ord[i])
    <3>1. ord[i] < a => Rank(K, ord[i]) < Rank(K, a)
      BY <1>4, <2>2
    <3>2. a < ord[i] => Rank(K, a) < Rank(K, ord[i])
      BY <1>4, <2>2
    <3>. QED
      BY <2>2, <2>3, <3>1, <3>2
  <2>5. ord[i] = a
    BY <2>3, <2>4
  <2>. QED
    BY <1>7, <2>5
<1>9. ASSUME NEW i \in DOMAIN ord, NEW j \in DOMAIN ord, i < j
      PROVE  ord[i] < ord[j]
  <2>1. /\ ord[i] \in K /\ ord[j] \in K /\ i \in Int /\ j \in Int
        /\ Rank(K, ord[i]) = i - 1 /\ Rank(K, ord[j]) = j - 1
    BY <1>3, <1>6, <1>7
  <2>2. ord[i] \in Nat /\ ord[j] \in Nat
    BY <1>0, <2>1
  <2>3. ord[i] # ord[j]
    BY <1>9, <2>1
  <2>4. ~ (ord[j] < ord[i])
    <3>1. ord[j] < ord[i] => Rank(K, ord[j]) < Rank(K, ord[i])
      BY <1>4, <2>1
    <3>. QED
      BY <1>9, <2>1, <3>1
  <2>. QED
    BY <2>2, <2>3, <2>4
<1>. QED
  BY <1>3, <1>6, <1>7, <1>8, <1>9 DEF K, ord

-----------------------------------------------------------------------------
\* The graph the translator starts from, and the text it becomes.

Cfg == INSTANCE CFG_proofs WITH AddrMod <- 2 ^ Width, Entry <- EntryPC

\* The CFG builder of this module is the one CFG_proofs is about.
LEMMA SameBuilder ==
  /\ Build!Init => Cfg!Init
  /\ [Build!Next]_buildVars => [Cfg!Next]_(Cfg!vars)
<1>1. Build!Init => Cfg!Init
  BY DEF Build!Init, Cfg!Init, Build!Program, Cfg!Program, Build!Invalid, Cfg!Invalid,
     Build!BasicBlock, Cfg!BasicBlock
<1>2. /\ Build!PopLeader => Cfg!PopLeader
      /\ Build!Return => Cfg!Return
      /\ Build!EndFallthrough => Cfg!EndFallthrough
      /\ Build!EndUndecodable => Cfg!EndUndecodable
      /\ Build!ScanStraight => Cfg!ScanStraight
      /\ Build!EndBranch => Cfg!EndBranch
      /\ Build!EndJump => Cfg!EndJump
      /\ Build!EndNoSucc => Cfg!EndNoSucc
      /\ UNCHANGED buildVars => UNCHANGED Cfg!vars
  BY DEF Build!PopLeader, Cfg!PopLeader, Build!Return, Cfg!Return,
     Build!EndFallthrough, Cfg!EndFallthrough,
     Build!EndUndecodable, Cfg!EndUndecodable,
     Build!ScanStraight, Cfg!ScanStraight, Build!EndBranch, Cfg!EndBranch,
     Build!EndJump, Cfg!EndJump, Build!EndNoSucc, Cfg!EndNoSucc,
     Build!Store, Cfg!Store, Build!Enqueue, Cfg!Enqueue,
     Build!BasicBlock, Cfg!BasicBlock, Build!Decoded, Cfg!Decoded,
     Build!Pushed, Cfg!Pushed, Build!AtKnownLeader, Cfg!AtKnownLeader,
     Build!Decodes, Cfg!Decodes, Build!Plus, Cfg!Plus, Build!NextPC, Cfg!NextPC,
     Build!IsTerminator, Cfg!IsTerminator, Build!IsCondBranch, Cfg!IsCondBranch,
     Build!IsJump, Cfg!IsJump, Build!IsIndirect, Cfg!IsIndirect,
     Build!IsReturn, Cfg!IsReturn, Build!IsTrap, Cfg!IsTrap,
     Build!Invalid, Cfg!Invalid, Build!CondBranchOps, Cfg!CondBranchOps,
     buildVars, Cfg!vars
<1>. QED
  BY <1>1, <1>2 DEF Build!Next, Cfg!Next

LEMMA GraphAssumption == Cfg!CodeAssumption
<1>1. Word = Cfg!Addr
  BY DEF Word, Cfg!Addr
<1>. QED
  BY <1>1, Widths, ProgramAssumption, RuntimeAssumption DEF Cfg!CodeAssumption

\* The blocks of the graph have an address order, and the text is what they
\* become in it.
Linked ==
  /\ phase = "done"
  /\ \E n \in Nat : DOMAIN text = 1 .. n
  /\ \A i \in DOMAIN text : \E j \in 1 .. Len(blocks) :
       text[i] = Translated(code, blocks[j])
  /\ \A a \in DOMAIN indexByAddr : \E i \in DOMAIN text : text[i].start = a
  /\ \A i, j \in DOMAIN text : i < j => text[i].start < text[j].start

BuildInv == Cfg!GraphInv /\ (at # "unlinked" => Linked)

LEMMA TranslatedStart ==
  ASSUME NEW p, NEW b
  PROVE  Translated(p, b).start = b.start
  BY DEF Translated

\* What build() has returned.
LEMMA Returned ==
  ASSUME Cfg!GraphInv, phase = "done"
  PROVE  Cfg!Graph
  BY GraphAssumption, Cfg!FinishedGraph

\* The emitter links every block, in the order of the addresses.
LEMMA EmitLinks ==
  ASSUME BuildInv, EmitModule
  PROVE  Linked'
<1>. DEFINE order == InAddressOrder
            Block(i) == blocks[indexByAddr[order[i]] + 1]
<1>1. /\ phase = "done" /\ phase' = "done" /\ code' = code /\ blocks' = blocks
      /\ indexByAddr' = indexByAddr
      /\ text' = [i \in DOMAIN order |-> Translated(code, Block(i))]
  BY DEF EmitModule, buildVars
<1>2. \A a \in DOMAIN indexByAddr :
        /\ a \in Word /\ indexByAddr[a] + 1 \in 1 .. Len(blocks)
        /\ blocks[indexByAddr[a] + 1].start = a
  BY <1>1, Returned DEF BuildInv, Cfg!Graph, Cfg!Built, Cfg!Addr, Word
<1>3. /\ DOMAIN order = 1 .. Cardinality(DOMAIN indexByAddr)
      /\ Cardinality(DOMAIN indexByAddr) \in Nat
      /\ \A i \in DOMAIN order : order[i] \in DOMAIN indexByAddr
      /\ \A a \in DOMAIN indexByAddr : \E i \in DOMAIN order : order[i] = a
      /\ \A i, j \in DOMAIN order : i < j => order[i] < order[j]
  <2>1. DOMAIN indexByAddr \subseteq 0 .. 2 ^ Width - 1 /\ 2 ^ Width \in Nat
    BY <1>2, Widths DEF Word
  <2>. QED
    BY <2>1, OrderFacts
<1>. HIDE DEF order
<1>4. \A i \in DOMAIN order : /\ text'[i] = Translated(code, Block(i))
                              /\ text'[i].start = order[i]
  BY <1>1, <1>2, <1>3, TranslatedStart
<1>5. \A i \in DOMAIN order : \E j \in 1 .. Len(blocks) :
        text'[i] = Translated(code, blocks[j])
  BY <1>2, <1>3, <1>4
<1>6. DOMAIN text' = DOMAIN order
  BY <1>1
<1>. QED
  BY <1>1, <1>3, <1>4, <1>5, <1>6 DEF Linked

\* Graph and text stay as they are when the program runs.
LEMMA BuildInvInit == Init => BuildInv
<1>1. Init => Cfg!GraphInv
  BY SameBuilder, GraphAssumption, Cfg!GraphInit DEF Init
<1>. QED
  BY <1>1 DEF Init, RunInit, BuildInv

LEMMA BuildInvStep == BuildInv /\ [Next]_vars => BuildInv'
<1> SUFFICES ASSUME BuildInv, [Next]_vars
             PROVE  BuildInv'
  OBVIOUS
<1>1. CASE BuildStep \/ UNCHANGED vars
  <2>1. Cfg!GraphInv'
    BY <1>1, SameBuilder, GraphAssumption, Cfg!GraphStep DEF BuildInv, BuildStep, vars
  <2>2. at' # "unlinked" => UNCHANGED vars
    BY <1>1 DEF BuildStep, runVars
  <2>3. at' # "unlinked" => Linked'
    BY <2>2 DEF BuildInv, Linked, vars, runVars, buildVars
  <2>. QED
    BY <2>1, <2>3 DEF BuildInv
<1>2. CASE EmitModule
  <2>1. Cfg!GraphInv'
    BY <1>2, SameBuilder, GraphAssumption, Cfg!GraphStep DEF BuildInv, EmitModule
  <2>. QED
    BY <1>2, <2>1, EmitLinks DEF BuildInv
<1>3. CASE RunStep
  <2>1. UNCHANGED <<text, buildVars>> /\ at # "unlinked"
    BY <1>3 DEF RunStep, RunNext, Main, Entry, CallBlock, JumpNowhere, OverflowStack,
       Branch, JumpIndirect, Return, Trap, RunInsts, ReturnFromJump, RunBehindBlock,
       ReturnFromEntry, PrintResult, Places
  <2>2. Cfg!GraphInv'
    BY <2>1, SameBuilder, GraphAssumption, Cfg!GraphStep DEF BuildInv
  <2>3. Linked'
    BY <2>1 DEF BuildInv, Linked, buildVars
  <2>. QED
    BY <2>2, <2>3 DEF BuildInv
<1>. QED
  BY <1>1, <1>2, <1>3 DEF Next

LEMMA BuildInvAlways == Spec => []BuildInv
  BY BuildInvInit, BuildInvStep, PTL DEF Spec

\* The search in the table finds the block that starts at an address.
LEMMA Search ==
  ASSUME BuildInv, at # "unlinked", NEW a
  PROVE  IF a \in DOMAIN indexByAddr
           THEN FindBlock(a) \in DOMAIN text /\ FindBlock(a) # 0
                /\ text[FindBlock(a)].start = a
           ELSE FindBlock(a) = 0
<1>. DEFINE found == {i \in DOMAIN text : text[i].start = a}
<1>1. PICK n \in Nat : DOMAIN text = 1 .. n
  BY DEF BuildInv, Linked
<1>2. \A i \in DOMAIN text : text[i].start \in DOMAIN indexByAddr
  <2>1. Cfg!Graph
    BY Returned DEF BuildInv, Linked
  <2>2. \A j \in 1 .. Len(blocks) : Translated(code, blocks[j]).start \in DOMAIN indexByAddr
    BY <2>1, TranslatedStart DEF Cfg!Graph, Cfg!Built
  <2>. QED
    BY <2>2 DEF BuildInv, Linked
<1>3. CASE a \in DOMAIN indexByAddr
  <2>1. PICK i \in DOMAIN text : text[i].start = a
    BY <1>3 DEF BuildInv, Linked
  <2>2. \A j \in DOMAIN text : text[j].start = a => j = i
    <3>1. SUFFICES ASSUME NEW j \in DOMAIN text, text[j].start = a, j # i
                   PROVE  FALSE
      OBVIOUS
    <3>2. j < i \/ i < j
      BY <1>1, <3>1
    <3>3. a < a
      BY <2>1, <3>1, <3>2 DEF BuildInv, Linked
    <3>4. a \in Int
      <4>1. Cfg!Graph
        BY Returned DEF BuildInv, Linked
      <4>. QED
        BY <1>3, <4>1, Widths DEF Cfg!Graph, Cfg!Built, Cfg!Addr
    <3>. QED
      BY <3>3, <3>4
  <2>3. found = {i} /\ i \in Nat
    BY <1>1, <2>1, <2>2
  <2>4. Min({i}) = i
    BY <2>3 DEF Min
  <2>5. FindBlock(a) = i
    BY <2>3, <2>4 DEF FindBlock
  <2>. QED
    BY <1>1, <1>3, <2>1, <2>5
<1>4. CASE a \notin DOMAIN indexByAddr
  BY <1>2, <1>4 DEF FindBlock
<1>. QED
  BY <1>3, <1>4

-----------------------------------------------------------------------------
\* The blocks of the text.

\* A block of the graph with the instructions it is made of.
Whole(p, b) ==
  [start |-> b.start,
   insts |-> [i \in DOMAIN b.insts |-> DecodedAt(p[b.insts[i]], b.insts[i])],
   term  |-> b.term,
   succs |-> b.succs]

LEMMA TranslatedWhole ==
  ASSUME NEW p, NEW b
  PROVE  Translated(p, b) = [start |-> b.start, insts |-> Whole(p, b).insts,
                             term |-> b.term, ir |-> Lift(Whole(p, b))]
  BY DEF Translated, Whole

\* What the builder has checked of a block of a program.
Cut(b) ==
  /\ b.insts \in Seq(Word) /\ Cfg!Shaped(b)
  /\ b.start \in DOMAIN indexByAddr
  /\ \A k \in 1 .. Len(b.succs) : b.succs[k] \in DOMAIN indexByAddr

LEMMA TextFromGraph ==
  ASSUME BuildInv, at # "unlinked", NEW i \in DOMAIN text
  PROVE  \E b : Cut(b) /\ text[i] = Translated(code, b)
<1>1. PICK j \in 1 .. Len(blocks) : text[i] = Translated(code, blocks[j])
  BY DEF BuildInv, Linked
<1>2. Cfg!Graph
  BY Returned DEF BuildInv, Linked
<1>3. blocks[j] \in Cfg!Block
  BY <1>2 DEF Cfg!Graph
<1>4. blocks[j].insts \in Seq(Word)
  BY <1>3 DEF Cfg!Block, Cfg!Addr, Word
<1>. QED
  BY <1>1, <1>2, <1>4 DEF Cut, Cfg!Graph, Cfg!Built

\* An instruction of a block.
LEMMA InstOfBlock ==
  ASSUME BuildInv, NEW b, Cut(b), NEW k \in 1 .. Len(b.insts)
  PROVE  /\ Whole(code, b).insts[k] = DecodedAt(code[b.insts[k]], b.insts[k])
         /\ b.insts[k] \in Image /\ b.insts[k] % 4 = 0 /\ b.insts[k] \in Word
         /\ code[b.insts[k]] \in Inst
         /\ k < Len(b.insts) => ~ Cfg!IsTerminator(code[b.insts[k]])
<1>1. b.insts \in Seq(Word) /\ b.insts # <<>>
  BY DEF Cut
<1>2. code \in [Image -> Inst \cup {Cfg!Invalid}]
  BY DEF BuildInv, Cfg!GraphInv, Cfg!Inv, Cfg!TypeOK, Cfg!Program
<1>3. Cfg!Decodes(code, b.insts[k]) /\
      (k < Len(b.insts) => ~ Cfg!IsTerminator(code[b.insts[k]]))
  BY <1>1 DEF Cut, Cfg!Shaped, Cfg!Straight
<1>4. Whole(code, b).insts[k] = DecodedAt(code[b.insts[k]], b.insts[k])
  BY <1>1 DEF Whole
<1>5. b.insts[k] \in Word
  BY <1>1
<1>. QED
  BY <1>2, <1>3, <1>4, <1>5 DEF Cfg!Decodes

LEMMA WholeInsts ==
  ASSUME NEW b, Cut(b)
  PROVE  /\ Whole(code, b).insts \in Seq({DecodedAt(code[a], a) : a \in Word})
         /\ Len(Whole(code, b).insts) = Len(b.insts)
         /\ Whole(code, b).insts = <<>> <=> b.insts = <<>>
  BY DEF Whole, Cut

\* Every instruction can be lifted, and with loads all of memory is there.
Translatable ==
  \A i \in Inst : i.op \in LiftedOps /\ (i.op \in Loads => Cells = Word)

LEMMA BlockRunnable ==
  ASSUME BuildInv, Translatable, NEW b, Cut(b)
  PROVE  AllRunnable(Whole(code, b).insts, Whole(code, b).start, GuestRegs, Cells)
<1>. DEFINE w == Whole(code, b).insts
<1>1. SUFFICES ASSUME NEW k \in 1 .. Len(w)
               PROVE  Runnable(w[k], GuestRegs, Cells) /\ w[k].op \in LiftedOps
  BY DEF AllRunnable, Lifts
<1>2. k \in 1 .. Len(b.insts)
  BY WholeInsts
<1>. DEFINE i == code[b.insts[k]]
<1>3. w[k] = DecodedAt(i, b.insts[k]) /\ i \in Inst /\ b.insts[k] \in Int
  BY <1>2, InstOfBlock, Widths DEF Word
<1>. HIDE DEF w, i
<1>4. i.imm \in Int /\ i.rd \in GuestRegs /\ i.rs1 \in GuestRegs /\ i.rs2 \in GuestRegs
  BY <1>3, ProgramAssumption
<1>5. i.op \in LiftedOps /\ (i.op \in Loads => Cells = Word)
  BY <1>3 DEF Translatable
<1>. QED
  BY <1>3, <1>4, <1>5 DEF Runnable, DecodedAt

\* How a block of the text ends.
LEMMA BlockEnds ==
  ASSUME BuildInv, NEW b, Cut(b)
  PROVE  /\ b.insts = <<>> => b.term = "Trap"
         /\ b.term \in {"Branch", "Jump", "Fallthrough", "IndirectJump", "Return", "Trap"}
         /\ b.term \in {"Branch", "Jump", "Fallthrough"} =>
              b.insts # <<>> /\ WellEnded(Whole(code, b))
<1>1. CASE b.insts = <<>>
  BY <1>1 DEF Cut, Cfg!Shaped
<1>2. CASE b.insts # <<>>
  <2>. DEFINE n == Len(b.insts)
              l == b.insts[n]
              w == Whole(code, b)
  <2>1. n \in 1 .. n /\ Len(w.insts) = n
    <3>1. Len(w.insts) = n
      BY WholeInsts
    <3>2. b.insts \in Seq(Word)
      BY DEF Cut
    <3>. QED
      BY <1>2, <3>1, <3>2
  <2>2. w.insts[n] = DecodedAt(code[l], l)
    BY <2>1, InstOfBlock
  <2>3. Cfg!Ends(l, b.term, b.succs)
    BY <1>2 DEF Cut, Cfg!Shaped
  <2>4. w.term = b.term /\ w.succs = b.succs
    BY DEF Whole
  <2>. HIDE DEF w, l, n
  <2>5. /\ w.insts[n].op = code[l].op /\ w.insts[n].imm = code[l].imm
        /\ w.insts[n].pc = l
    BY <2>2 DEF DecodedAt
  <2>. DEFINE t == Cfg!Plus(l, code[l].imm)
              f == Cfg!NextPC(l)
  <2>6. t = Wrap(l + code[l].imm) /\ f = Wrap(l + 4)
    BY DEF Cfg!NextPC, Cfg!Plus, Wrap
  <2>7. Cfg!Ends(l, b.term, b.succs) =>
          \/ b.term = "Branch" /\ code[l].op \in Branches /\ b.succs = <<t, f>>
          \/ b.term = "Jump" /\ code[l].op = "JAL" /\ b.succs = <<t>>
          \/ b.term = "Fallthrough" /\ code[l].op \notin Branches \cup {"JAL", "JALR"}
               /\ b.succs = <<f>>
          \/ b.term \in {"IndirectJump", "Return", "Trap"}
    BY DEF Cfg!Ends, Cfg!IsTerminator, Cfg!IsCondBranch, Cfg!CondBranchOps, Branches,
       Cfg!IsJump, Cfg!IsIndirect
  <2>. HIDE DEF t, f
  <2>8. \/ b.term = "Branch" /\ code[l].op \in Branches /\ b.succs = <<t, f>>
        \/ b.term = "Jump" /\ code[l].op = "JAL" /\ b.succs = <<t>>
        \/ b.term = "Fallthrough" /\ code[l].op \notin Branches \cup {"JAL", "JALR"}
             /\ b.succs = <<f>>
        => WellEnded(w)
    BY <2>1, <2>4, <2>5, <2>6 DEF WellEnded
  <2>. QED
    BY <1>2, <2>3, <2>7, <2>8 DEF w
<1>. QED
  BY <1>1, <1>2

-----------------------------------------------------------------------------
\* A block runs: the host over its IR, the guest over its instructions.

Goes == {"Branch", "Jump", "Fallthrough"}

\* How the IR of a block ends.
LEMMA ExitOfBlock ==
  ASSUME NEW b, b.term \in Goes \cup {"IndirectJump", "Return", "Trap"}
  PROVE  /\ b.term = "Branch" => Lift(b).term.kind = "CBr"
         /\ b.term \in {"Jump", "Fallthrough"} => Lift(b).term.kind = "Br"
         /\ b.term = "IndirectJump" => Lift(b).term.kind = "BrIndirect"
         /\ b.term = "Return" => Lift(b).term.kind = "Ret"
         /\ b.term = "Trap" => Lift(b).term.kind = "Trap"
<1>1. Lift(b).term = LiftTerm(b, FoldLeft(LiftInst, <<>>, b.insts))
  BY DEF Lift
<1>. QED
  BY <1>1 DEF LiftTerm, IRTerm, Goes

\* Where the host comes out of the block it is in, seen from a guest with the
\* same registers and memory.
Comes(s) ==
  LET t == RunGuest(text[cur].insts, s)
  IN /\ Outcome.x = t.x /\ Outcome.mem = t.mem
     /\ GuestTyped(t, GuestRegs, Cells)
     /\ ExitKind \in {"Br", "CBr"} =>
          /\ Outcome.exit.pc = t.pc
          /\ t.pc \in DOMAIN indexByAddr

LEMMA BlockRuns ==
  ASSUME BuildInv, Translatable, at # "unlinked", cur \in DOMAIN text,
         NEW s, GuestTyped(s, GuestRegs, Cells), st.x = s.x, st.mem = s.mem
  PROVE  Comes(s)
<1>1. PICK b : Cut(b) /\ text[cur] = Translated(code, b)
  BY TextFromGraph
<1>. DEFINE w == Whole(code, b)
<1>2. w.term = b.term /\ w.succs = b.succs
  BY DEF Whole
<1>3. text[cur].insts = w.insts /\ text[cur].ir = Lift(w)
  BY <1>1, TranslatedWhole
<1>4. Enters(w, s, st, GuestRegs, Cells)
  <2>1. IsSequence(w.insts)
    BY <1>1, WholeInsts DEF IsSequence
  <2>2. AllRunnable(w.insts, w.start, GuestRegs, Cells)
    BY <1>1, BlockRunnable
  <2>. QED
    BY <2>1, <2>2 DEF Enters
<1>5. /\ b.term \in Goes \cup {"IndirectJump", "Return", "Trap"}
      /\ b.term \in Goes => w.insts # <<>> /\ WellEnded(w)
  BY <1>1, BlockEnds, WholeInsts DEF Goes
<1>6. \A k \in 1 .. Len(w.succs) : w.succs[k] \in DOMAIN indexByAddr
  BY <1>1, <1>2 DEF Cut
<1>. HIDE DEF w
<1>. DEFINE t == RunGuest(w.insts, s)
            ir == Lift(w)
<1>7. /\ RunIR(ir, st).x = t.x /\ RunIR(ir, st).mem = t.mem
      /\ GuestTyped(t, GuestRegs, Cells)
  BY <1>4, LiftPreservesRun
<1>8. b.term \in Goes => /\ RunIR(ir, st).exit = [kind |-> "goto", pc |-> t.pc]
                         /\ t.pc \in {w.succs[i] : i \in 1 .. Len(w.succs)}
  BY <1>4, <1>5, LiftPreservesGoto
<1>. HIDE DEF t, ir
<1>9. b.term \in Goes => /\ RunIR(ir, st).exit.pc = t.pc
                         /\ t.pc \in DOMAIN indexByAddr
  BY <1>6, <1>8
<1>10. ir.term.kind \in {"Br", "CBr"} => b.term \in Goes
  BY <1>2, <1>5, ExitOfBlock DEF ir, Goes
<1>. QED
  BY <1>3, <1>7, <1>9, <1>10 DEF Comes, Outcome, ExitKind, t, ir

LEMMA GuestRuns ==
  ASSUME BuildInv, Translatable, at # "unlinked", cur \in DOMAIN text,
         NEW s, GuestTyped(s, GuestRegs, Cells)
  PROVE  GuestTyped(RunGuest(text[cur].insts, s), GuestRegs, Cells)
<1>1. PICK b : Cut(b) /\ text[cur] = Translated(code, b)
  BY TextFromGraph
<1>. DEFINE w == Whole(code, b)
<1>2. text[cur].insts = w.insts
  BY <1>1, TranslatedWhole
<1>3. IsSequence(w.insts)
  BY <1>1, WholeInsts DEF IsSequence
<1>4. AllRunnable(w.insts, w.start, GuestRegs, Cells)
  BY <1>1, BlockRunnable
<1>. HIDE DEF w
<1>5. Enters(w, s, s, GuestRegs, Cells)
  BY <1>3, <1>4 DEF Enters
<1>. QED
  BY <1>2, <1>5, LiftPreservesRun

\* The host traps where the block does.
LEMMA TrapsByBlock ==
  ASSUME BuildInv, at # "unlinked", cur \in DOMAIN text, ExitKind = "Trap"
  PROVE  text[cur].term = "Trap"
<1>1. PICK b : Cut(b) /\ text[cur] = Translated(code, b)
  BY TextFromGraph
<1>2. text[cur].term = b.term /\ text[cur].ir = Lift(Whole(code, b))
  BY <1>1, TranslatedWhole
<1>3. Whole(code, b).term = b.term
  BY DEF Whole
<1>4. b.term \in Goes \cup {"IndirectJump", "Return", "Trap"}
  BY <1>1, BlockEnds DEF Goes
<1>. HIDE DEF Whole
<1>. QED
  BY <1>2, <1>3, <1>4, ExitOfBlock DEF ExitKind, Goes

-----------------------------------------------------------------------------
\* Host and guest side by side.

Together ==
  /\ at \in {"unlinked", "main"} => ~ strayed
  /\ jumps = 0 => ~ strayed
  /\ jumps = 0 /\ at \in {"entry", "jump"} => x1 = EntryPC
  /\ at \notin {"unlinked", "main"} =>
       /\ GuestTyped(st, GuestRegs, Cells) /\ GuestTyped(guest, GuestRegs, Cells)
       /\ ~ strayed => guest.x = st.x /\ guest.mem = st.mem
  /\ at = "block" => /\ cur \in DOMAIN text
                     /\ ~ strayed => guest.pc = text[cur].start
  /\ at \in {"entry", "jump"} /\ ~ strayed => guest.pc = x1
  /\ WhenTrapped

\* main() starts host and guest alike.
LEMMA MainStep ==
  ASSUME BuildInv, Together, Main, jumps = 0
  PROVE  Together'
<1>1. Cfg!Graph /\ at # "unlinked"
  BY Returned DEF BuildInv, Linked, Main
<1>2. text[1].start \in Word
  <2>1. EntryPC \in DOMAIN indexByAddr
    BY <1>1 DEF Cfg!Graph, Cfg!Built
  <2>2. PICK n \in Nat : DOMAIN text = 1 .. n
    BY <1>1 DEF BuildInv, Linked
  <2>3. DOMAIN text # {}
    BY <1>1, <2>1 DEF BuildInv, Linked
  <2>4. 1 \in DOMAIN text
    BY <2>2, <2>3
  <2>5. PICK b : Cut(b) /\ text[1] = Translated(code, b)
    BY <1>1, <2>4, TextFromGraph
  <2>. QED
    BY <1>1, <2>5, TranslatedStart DEF Cut, Cfg!Graph, Cfg!Built, Cfg!Addr, Word
<1>3. PICK a \in Args, m \in [Cells -> Half] :
        LET sp == Wrap(text[1].start + StackOffset)
            x  == [r \in GuestRegs |-> CASE r \in {2, 8} -> sp
                                         [] r = 10 -> a
                                         [] OTHER  -> 0]
        IN st' = [x |-> x, mem |-> m] /\ guest' = [x |-> x, mem |-> m, pc |-> EntryPC]
  BY DEF Main
<1>. DEFINE sp == Wrap(text[1].start + StackOffset)
            x  == [r \in GuestRegs |-> CASE r \in {2, 8} -> sp
                                         [] r = 10 -> a
                                         [] OTHER  -> 0]
<1>4. sp \in Word /\ a \in Word /\ 0 \in Word
  BY <1>2, RuntimeAssumption, Widths, SMTT(30) DEF Word
<1>. HIDE DEF sp
<1>5. x \in [GuestRegs -> Word] /\ x[0] = 0
  BY <1>4, RuntimeAssumption
<1>6. /\ st'.x = x /\ st'.mem = m
      /\ guest'.x = x /\ guest'.mem = m /\ guest'.pc = EntryPC
  BY <1>3 DEF sp
<1>. HIDE DEF x
<1>7. GuestTyped(st, GuestRegs, Cells)' /\ GuestTyped(guest, GuestRegs, Cells)'
  BY <1>5, <1>6 DEF GuestTyped
<1>. QED
  BY <1>6, <1>7 DEF Main, Together, WhenTrapped

\* What running the instructions of a block does to both.
LEMMA InstsStep ==
  ASSUME BuildInv, Together, Translatable, RunInsts
  PROVE  /\ at = "block" /\ cur \in DOMAIN text
         /\ GuestTyped(st, GuestRegs, Cells)' /\ GuestTyped(guest, GuestRegs, Cells)'
         /\ ~ strayed => guest'.x = st'.x /\ guest'.mem = st'.mem
         /\ ExitKind \in {"Br", "CBr"} =>
              /\ Outcome.exit.pc \in DOMAIN indexByAddr
              /\ ~ strayed => guest'.pc = Outcome.exit.pc
<1>1. /\ at = "block" /\ cur \in DOMAIN text
      /\ GuestTyped(st, GuestRegs, Cells) /\ GuestTyped(guest, GuestRegs, Cells)
      /\ ~ strayed => /\ guest.x = st.x /\ guest.mem = st.mem
                      /\ guest.pc = text[cur].start
  BY DEF RunInsts, Together
<1>2. /\ st'.x = Outcome.x /\ st'.mem = Outcome.mem
      /\ guest' = IF guest.pc = text[cur].start
                  THEN RunGuest(text[cur].insts, guest) ELSE guest
  BY DEF RunInsts
<1>3. Comes(st)
  BY <1>1, BlockRuns
<1>4. GuestTyped(st, GuestRegs, Cells)'
  BY <1>2, <1>3 DEF Comes, GuestTyped
<1>5. GuestTyped(RunGuest(text[cur].insts, guest), GuestRegs, Cells)
  BY <1>1, GuestRuns
<1>6. GuestTyped(guest, GuestRegs, Cells)'
  BY <1>1, <1>2, <1>5 DEF GuestTyped
<1>7. ~ strayed => Comes(guest) /\ guest' = RunGuest(text[cur].insts, guest)
  BY <1>1, <1>2, BlockRuns
<1>. QED
  BY <1>1, <1>2, <1>3, <1>4, <1>6, <1>7 DEF Comes

\* Each block that is left in step is left in step.
LEMMA BlockTogether ==
  ASSUME BuildInv, Together, Translatable, Control,
         Branch \/ JumpIndirect \/ Return \/ Trap
  PROVE  Together'
<1>1. RunInsts
  BY DEF Branch, JumpIndirect, Return, Trap
<1>2. /\ at = "block" /\ cur \in DOMAIN text /\ text' = text
      /\ GuestTyped(st, GuestRegs, Cells)' /\ GuestTyped(guest, GuestRegs, Cells)'
      /\ ~ strayed => guest'.x = st'.x /\ guest'.mem = st'.mem
      /\ ExitKind \in {"Br", "CBr"} =>
           /\ Outcome.exit.pc \in DOMAIN indexByAddr
           /\ ~ strayed => guest'.pc = Outcome.exit.pc
  BY <1>1, InstsStep DEF RunInsts
<1>3. jumps = 0 => ~ strayed
  BY DEF Together
<1>4. CASE Branch
  <2>1. /\ at' = "block" /\ jumps' = jumps /\ strayed' = strayed
        /\ cur' = FindBlock(Outcome.exit.pc) /\ ExitKind \in {"Br", "CBr"}
    BY <1>2, <1>4 DEF Branch
  <2>2. cur' \in DOMAIN text /\ text[cur'].start = Outcome.exit.pc
    BY <1>2, <2>1, Search
  <2>. QED
    BY <1>2, <1>3, <2>1, <2>2 DEF Together, WhenTrapped
<1>5. CASE JumpIndirect
  <2>1. /\ at' = "jump" /\ jumps' = jumps + 1 /\ x1' = Outcome.exit.pc
        /\ strayed' = (strayed \/ guest'.pc # Outcome.exit.pc)
    BY <1>5 DEF JumpIndirect
  <2>2. jumps' # 0
    BY <2>1 DEF Control
  <2>. QED
    BY <1>2, <2>1, <2>2 DEF Together, WhenTrapped
<1>6. CASE Return
  <2>1. at' = "jump_returned" /\ jumps' = jumps /\ strayed' = strayed
    BY <1>2, <1>6 DEF Return, Control
  <2>. QED
    BY <1>2, <1>3, <2>1 DEF Together, WhenTrapped
<1>7. CASE Trap
  <2>1. at' = "trapped" /\ jumps' = jumps /\ strayed' = strayed /\ cur' = cur
        /\ ExitKind = "Trap"
    BY <1>7 DEF Trap
  <2>2. text[cur].term = "Trap"
    BY <1>2, <2>1, TrapsByBlock
  <2>3. cur # 0
    <3>1. PICK n \in Nat : DOMAIN text = 1 .. n
      BY <1>2 DEF BuildInv, Linked
    <3>. QED
      BY <1>2, <3>1
  <2>. QED
    BY <1>2, <1>3, <2>1, <2>2, <2>3 DEF Together, WhenTrapped
<1>. QED
  BY <1>4, <1>5, <1>6, <1>7

LEMMA TogetherInit == Init => Together
  BY DEF Init, RunInit, Together, WhenTrapped

\* Every step keeps host and guest side by side.
LEMMA TogetherStep ==
  ASSUME BuildInv, Control, Together, Translatable, [Next]_vars
  PROVE  Together'
<1>1. CASE BuildStep \/ UNCHANGED vars
  <2>1. UNCHANGED runVars /\ (at = "unlinked" \/ indexByAddr' = indexByAddr)
    BY <1>1 DEF BuildStep, vars, buildVars
  <2>. QED
    BY <2>1 DEF Together, WhenTrapped, runVars, GuestTyped
<1>2. CASE EmitModule
  BY <1>2 DEF EmitModule, Together, WhenTrapped
<1>3. CASE RunStep
  <2>. USE DEF Together, WhenTrapped, GuestTyped
  <2>0. indexByAddr' = indexByAddr
    BY <1>3 DEF RunStep, buildVars
  <2>1. CASE Main
    BY <2>1, MainStep DEF Main, Control
  <2>2. CASE Entry
    BY <2>2 DEF Entry
  <2>3. CASE CallBlock
    <3>1. x1 \in DOMAIN indexByAddr => FindBlock(x1) \in DOMAIN text
                                       /\ text[FindBlock(x1)].start = x1
      BY <2>3, Search DEF CallBlock
    <3>2. FindBlock(x1) # 0 => x1 \in DOMAIN indexByAddr
      BY <2>3, Search DEF CallBlock
    <3>. QED
      BY <2>3, <3>1, <3>2 DEF CallBlock
  <2>4. CASE JumpNowhere
    <3>1. x1 \notin DOMAIN indexByAddr
      BY <2>4, Search DEF JumpNowhere
    <3>2. EntryPC \in DOMAIN indexByAddr
      <4>1. Cfg!Graph
        BY <2>4, Returned DEF BuildInv, Linked, JumpNowhere
      <4>. QED
        BY <4>1 DEF Cfg!Graph, Cfg!Built
    <3>3. jumps > 0
      BY <2>4, <3>1, <3>2 DEF JumpNowhere, Control
    <3>. QED
      BY <2>0, <2>4, <3>1, <3>3 DEF JumpNowhere
  <2>5. CASE OverflowStack
    BY <2>5 DEF OverflowStack
  <2>6. CASE Branch \/ JumpIndirect \/ Return \/ Trap
    BY <2>6, BlockTogether
  <2>7. CASE ReturnFromJump
    <3>1. at' \in Places
      <4>1. frames \in Seq(Places) /\ Len(frames) = jumps + 1 /\ jumps \in Nat
        BY <2>7 DEF ReturnFromJump, Control, Stacked
      <4>. QED
        BY <2>7, <4>1 DEF ReturnFromJump
    <3>. QED
      BY <2>7, <3>1 DEF ReturnFromJump, Places
  <2>8. CASE RunBehindBlock
    BY <2>8 DEF RunBehindBlock
  <2>9. CASE ReturnFromEntry
    BY <2>9 DEF ReturnFromEntry, Places
  <2>10. CASE PrintResult
    BY <2>10 DEF PrintResult
  <2>. QED
    BY <1>3, <2>1, <2>2, <2>3, <2>4, <2>5, <2>6, <2>7, <2>8, <2>9, <2>10
       DEF RunStep, RunNext
<1>. QED
  BY <1>1, <1>2, <1>3 DEF Next

RunInv == BuildInv /\ Control /\ Together

LEMMA RunInvAlways ==
  ASSUME Translatable
  PROVE  Spec => []RunInv
<1>1. Init => RunInv
  BY BuildInvInit, ControlInit, TogetherInit DEF RunInv
<1>2. RunInv /\ [Next]_vars => RunInv'
  BY BuildInvStep, ControlStep, TogetherStep DEF RunInv
<1>. QED
  BY <1>1, <1>2, PTL DEF Spec

(***************************************************************************)
(* Host and guest go together, for every program that can be lifted: a     *)
(* block about to run is the one the guest stands at, with the registers   *)
(* of the guest, unless an indirect jump has left it.                      *)
(***************************************************************************)
THEOREM GuestInStep ==
  ASSUME Translatable
  PROVE  Spec => []InStep
<1>1. RunInv => InStep
  BY DEF RunInv, Together, InStep
<1>. QED
  BY <1>1, RunInvAlways, PTL

(***************************************************************************)
(* A run that has not strayed traps where the guest does, or at an         *)
(* indirect jump to where no block starts.                                 *)
(***************************************************************************)
THEOREM TrapsWithGuest ==
  ASSUME Translatable
  PROVE  Spec => []WhenTrapped
<1>1. RunInv => WhenTrapped
  BY DEF RunInv, Together
<1>. QED
  BY <1>1, RunInvAlways, PTL

-----------------------------------------------------------------------------
\* Types.

Typing ==
  /\ x1 \in Word /\ lr \in Places /\ strayed \in BOOLEAN
  /\ frames \in Seq(Places) /\ Len(frames) <= MaxFrames
  /\ at \notin {"unlinked", "main"} => guest.pc \in Word

LEMMA TypingInit == Init => Typing
<1>1. <<>> \in Seq(Places) /\ Len(<<>>) = 0
  OBVIOUS
<1>2. 0 \in Word
  BY Widths DEF Word
<1>3. Init => /\ x1 = 0 /\ lr = "main_returned" /\ strayed = FALSE
              /\ frames = <<>> /\ at = "unlinked"
  BY DEF Init, RunInit
<1>4. Init => frames \in Seq(Places) /\ Len(frames) <= MaxFrames
  BY <1>1, <1>3, RuntimeAssumption
<1>5. Init => /\ x1 \in Word /\ lr \in Places /\ strayed \in BOOLEAN
              /\ at = "unlinked"
  BY <1>2, <1>3 DEF Places
<1>. QED
  BY <1>4, <1>5 DEF Typing

\* A block that jumps indirectly ends in a jalr and leaves a word in x1.
LEMMA JumpsToWord ==
  ASSUME BuildInv, Translatable, at # "unlinked", cur \in DOMAIN text,
         GuestTyped(st, GuestRegs, Cells), ExitKind = "BrIndirect"
  PROVE  Outcome.exit.pc \in Word
<1>1. PICK b : Cut(b) /\ text[cur] = Translated(code, b)
  BY TextFromGraph
<1>. DEFINE w == Whole(code, b)
            n == Len(b.insts)
<1>2. w.term = b.term /\ w.start = b.start
  BY DEF Whole
<1>3. text[cur].ir = Lift(w)
  BY <1>1, TranslatedWhole
<1>4. Enters(w, st, st, GuestRegs, Cells)
  <2>1. IsSequence(w.insts)
    BY <1>1, WholeInsts DEF IsSequence
  <2>2. AllRunnable(w.insts, w.start, GuestRegs, Cells)
    BY <1>1, BlockRunnable
  <2>. HIDE DEF w
  <2>. QED
    BY <2>1, <2>2 DEF Enters
<1>5. b.term = "IndirectJump"
  <2>1. b.term \in Goes \cup {"IndirectJump", "Return", "Trap"}
    BY <1>1, BlockEnds DEF Goes
  <2>2. Lift(w).term.kind = "BrIndirect"
    BY <1>3 DEF ExitKind
  <2>. HIDE DEF w
  <2>. QED
    BY <1>2, <2>1, <2>2, ExitOfBlock DEF Goes
<1>6. b.insts # <<>>
  BY <1>1, <1>5, BlockEnds
<1>7. w.insts # <<>> /\ w.insts[Len(w.insts)].op = "JALR"
  <2>1. Len(w.insts) = n /\ w.insts # <<>>
    BY <1>1, <1>6, WholeInsts
  <2>2. n \in 1 .. n
    BY <1>1, <1>6 DEF Cut
  <2>3. w.insts[n] = DecodedAt(code[b.insts[n]], b.insts[n])
    BY <1>1, <2>2, InstOfBlock
  <2>4. Cfg!Ends(b.insts[n], b.term, b.succs)
    BY <1>1, <1>6 DEF Cut, Cfg!Shaped
  <2>5. Cfg!IsIndirect(code[b.insts[n]])
    BY <1>5, <2>4 DEF Cfg!Ends
  <2>. HIDE DEF w, n
  <2>. QED
    BY <2>1, <2>3, <2>5 DEF Cfg!IsIndirect, DecodedAt
<1>8. w.start \in Word
  <2>1. Cfg!Graph
    BY Returned DEF BuildInv, Linked
  <2>. QED
    BY <1>1, <1>2, <2>1 DEF Cut, Cfg!Graph, Cfg!Built, Cfg!Addr, Word
<1>. HIDE DEF w
<1>9. RunIR(Lift(w), st).exit.pc \in Word
  <2>1. w.insts # <<>> /\ w.term = "IndirectJump" /\ w.insts[Len(w.insts)].op = "JALR"
    BY <1>2, <1>5, <1>7
  <2>2. /\ RunIR(Lift(w), st).exit = [kind |-> "goto", pc |-> GivenTarget(w, st)]
        /\ w.start \in Word => GivenTarget(w, st) \in Word
    BY <1>4, <2>1, IndirectExit
  <2>. QED
    BY <1>8, <2>2
<1>. QED
  BY <1>3, <1>9 DEF Outcome

\* Wherever a block leaves the guest is a word.
LEMMA GuestAtWord ==
  ASSUME BuildInv, Translatable, Typing, Together, RunInsts
  PROVE  guest'.pc \in Word
<1>1. /\ at = "block" /\ cur \in DOMAIN text /\ GuestTyped(guest, GuestRegs, Cells)
      /\ guest.pc \in Word
      /\ guest' = IF guest.pc = text[cur].start
                  THEN RunGuest(text[cur].insts, guest) ELSE guest
  BY DEF RunInsts, Together, Typing
<1>2. PICK b : Cut(b) /\ text[cur] = Translated(code, b)
  BY <1>1, TextFromGraph
<1>. DEFINE w == Whole(code, b)
<1>3. text[cur].insts = w.insts
  BY <1>2, TranslatedWhole
<1>4. w.insts \in Seq({DecodedAt(code[a], a) : a \in Word})
  BY <1>2, WholeInsts
<1>5. AllRunnable(w.insts, w.start, GuestRegs, Cells)
  BY <1>2, BlockRunnable
<1>. HIDE DEF w
<1>6. RunGuest(w.insts, guest).pc \in Word
  BY <1>1, <1>4, <1>5, GuestPlaced
<1>. QED
  BY <1>1, <1>3, <1>6

LEMMA TypingStep ==
  ASSUME BuildInv, Control, Together, Translatable, Typing, [Next]_vars
  PROVE  Typing'
<1>1. CASE BuildStep \/ UNCHANGED vars
  BY <1>1 DEF BuildStep, vars, runVars, Typing
<1>2. CASE EmitModule
  BY <1>2 DEF EmitModule, Typing
<1>3. CASE Main
  BY <1>3, RuntimeAssumption DEF Main, Typing, Places
<1>4. CASE Entry
  BY <1>4 DEF Entry, Typing, Places
<1>5. CASE CallBlock
  <2>1. /\ frames' = Append(frames, lr) /\ lr' = "jump_returned"
        /\ Len(frames) < MaxFrames /\ at = "jump"
        /\ UNCHANGED <<x1, guest, strayed>>
    BY <1>5 DEF CallBlock
  <2>2. frames' \in Seq(Places) /\ Len(frames') = Len(frames) + 1 /\ Len(frames) \in Nat
    BY <2>1, AppendFacts DEF Typing
  <2>. QED
    BY <2>1, <2>2, RuntimeAssumption DEF Typing, Places
<1>6. CASE JumpNowhere \/ OverflowStack \/ RunBehindBlock \/ ReturnFromEntry \/ PrintResult
  BY <1>6 DEF JumpNowhere, OverflowStack, RunBehindBlock, ReturnFromEntry, PrintResult,
              Typing
<1>7. CASE Branch \/ JumpIndirect \/ Return \/ Trap
  <2>1. RunInsts
    BY <1>7 DEF Branch, JumpIndirect, Return, Trap
  <2>2. guest'.pc \in Word /\ frames' = frames
    BY <2>1, GuestAtWord DEF RunInsts
  <2>3. JumpIndirect => Outcome.exit.pc \in Word
    BY JumpsToWord DEF JumpIndirect, RunInsts, Together
  <2>4. x1' \in Word /\ lr' \in Places /\ strayed' \in BOOLEAN
    BY <1>7, <2>3 DEF Branch, JumpIndirect, Return, Trap, Typing, Places
  <2>. QED
    BY <2>2, <2>4 DEF Typing
<1>8. CASE ReturnFromJump
  <2>1. /\ at = "jump_returned" /\ lr' = frames[Len(frames)]
        /\ frames' = SubSeq(frames, 1, Len(frames) - 1)
        /\ UNCHANGED <<x1, guest, strayed>>
    BY <1>8 DEF ReturnFromJump
  <2>2. Len(frames) \in Nat \ {0}
    BY <2>1 DEF Control, Stacked
  <2>3. frames \in Seq(Places) /\ frames # <<>>
    BY <2>2 DEF Typing
  <2>4. lr' \in Places /\ frames' \in Seq(Places)
    BY <2>1, <2>3, TopFacts
  <2>5. Len(frames') <= Len(frames)
    BY <2>1, <2>2, <2>3
  <2>. QED
    BY <2>1, <2>2, <2>4, <2>5, RuntimeAssumption DEF Typing
<1>. QED
  BY <1>1, <1>2, <1>3, <1>4, <1>5, <1>6, <1>7, <1>8 DEF Next, RunStep, RunNext

(***************************************************************************)
(* The types of the run of a program that can be lifted: an indirect jump  *)
(* finds a word in x1, whatever value the lifter gave it for its target,   *)
(* and the host stack never holds more frames than it has room for.        *)
(***************************************************************************)
THEOREM RunTypes ==
  ASSUME Translatable
  PROVE  Spec => []TypeOK
<1>1. Init => Typing
  BY TypingInit
<1>2. RunInv /\ Typing /\ [Next]_vars => Typing'
  BY TypingStep DEF RunInv
<1>3. RunInv /\ Typing => TypeOK
  BY DEF RunInv, Control, Together, Typing, GuestTyped, TypeOK
<1>. QED
  BY <1>1, <1>2, <1>3, RunInvAlways, PTL DEF Spec

-----------------------------------------------------------------------------
\* The lowest block.

LEMMA FourDivides == \E p \in Nat : 2 ^ Width = 4 * p
<1>1. Width - 2 \in Nat /\ (Width - 2) + 2 = Width
  BY WidthAssumption
<1>2. 2 ^ 2 = 4
  <2>1. 2 ^ 0 = 1 /\ 2 ^ (0 + 1) = 2 ^ 0 + 2 ^ 0 /\ 2 ^ (1 + 1) = 2 ^ 1 + 2 ^ 1
    BY Doubling
  <2>2. 0 + 1 = 1 /\ 1 + 1 = 2
    OBVIOUS
  <2>. QED
    BY <2>1, <2>2
<1>3. 2 ^ (Width - 2) \in Nat /\ 2 ^ ((Width - 2) + 2) = 2 ^ (Width - 2) * 2 ^ 2
  BY <1>1, Powers, PowerSum
<1>. DEFINE p == 2 ^ (Width - 2)
<1>4. p \in Nat /\ 2 ^ Width = p * 4
  BY <1>1, <1>2, <1>3
<1>. HIDE DEF p
<1>. QED
  BY <1>4

\* Address arithmetic wraps between two words of the program.
LEMMA NextFour ==
  ASSUME NEW a \in Word, a % 4 = 0
  PROVE  /\ Wrap(a + 4) \in Word
         /\ Wrap(a + 4) = 0 \/ Wrap(a + 4) = a + 4
         /\ Wrap(a + 4) % 2 = 0
<1>1. PICK p \in Nat : 2 ^ Width = 4 * p
  BY FourDivides
<1>. DEFINE N == 2 ^ Width
<1>2. N \in Nat \ {0} /\ a \in Nat /\ a < N
  BY Widths DEF Word
<1>. HIDE DEF N
<1>3. PICK q \in Nat : a = 4 * q
  <2>1. a = 4 * (a \div 4) + (a % 4) /\ a \div 4 \in Nat
    BY <1>2
  <2>. QED
    BY <2>1
<1>4. a + 4 <= N
  BY <1>1, <1>2, <1>3 DEF N
<1>5. a + 4 < N => (a + 4) % N = a + 4
  BY <1>2
<1>6. a + 4 = N => (a + 4) % N = 0
  BY <1>2
<1>7. (a + 4) % N = 0 \/ ((a + 4) % N = a + 4 /\ a + 4 < N)
  BY <1>2, <1>4, <1>5, <1>6
<1>8. (a + 4) % 2 = 0
  BY <1>3
<1>9. Wrap(a + 4) = (a + 4) % N
  BY DEF N, Wrap
<1>. QED
  BY <1>2, <1>7, <1>8, <1>9 DEF N, Word

\* The next instruction is above the one before, or at the bottom of memory.
LEMMA NextAbove ==
  ASSUME NEW a \in Word, a % 4 = 0, Cfg!NextPC(a) # 0
  PROVE  a <= Cfg!NextPC(a)
<1>1. Cfg!NextPC(a) = Wrap(a + 4) /\ a \in Nat
  BY Widths DEF Cfg!NextPC, Cfg!Plus, Wrap, Word
<1>. QED
  BY <1>1, NextFour

LEMMA Climbs ==
  ASSUME BuildInv, 0 \notin Image, NEW b, Cut(b), NEW k \in 1 .. Len(b.insts)
  PROVE  b.start <= b.insts[k]
<1>. DEFINE n == Len(b.insts)
            T == {i \in Nat : i + 1 <= n => b.start <= b.insts[i + 1]}
<1>1. b.insts \in Seq(Word) /\ b.insts # <<>> /\ n \in Nat
  BY DEF Cut
<1>2. \A i \in 1 .. n : b.insts[i] \in Word /\ b.insts[i] \in Int
  <2>1. \A i \in 1 .. n : b.insts[i] \in Word
    BY <1>1
  <2>2. \A v \in Word : v \in Int
    BY Widths DEF Word
  <2>. QED
    BY <2>1, <2>2
<1>3. 0 \in T
  <2>1. b.insts[1] = b.start /\ 1 \in 1 .. n
    BY <1>1 DEF Cut, Cfg!Shaped
  <2>. QED
    BY <1>2, <2>1
<1>4. ASSUME NEW i \in Nat, i \in T
      PROVE  i + 1 \in T
  <2>1. SUFFICES ASSUME (i + 1) + 1 <= n
                 PROVE  b.start <= b.insts[(i + 1) + 1]
    OBVIOUS
  <2>. DEFINE u == b.insts[i + 1]
              v == b.insts[(i + 1) + 1]
  <2>2. i + 1 \in 1 .. n /\ (i + 1) + 1 \in 1 .. n /\ i + 1 < n
    BY <1>1, <2>1
  <2>3. v = Cfg!NextPC(u)
    BY <1>1, <2>2 DEF Cut, Cfg!Shaped, Cfg!Straight
  <2>4. v \in Image /\ u % 4 = 0 /\ u \in Word
    BY <2>2, InstOfBlock
  <2>5. u <= v /\ v \in Int /\ u \in Int
    BY <1>2, <2>2, <2>3, <2>4, NextAbove
  <2>6. b.start <= u
    BY <1>4, <2>2
  <2>7. b.start \in Int
    BY <1>1, <1>2, <1>3 DEF Cut, Cfg!Shaped
  <2>. HIDE DEF u, v
  <2>8. b.start <= v
    BY <2>5, <2>6, <2>7
  <2>. QED
    BY <2>8 DEF v
<1>5. Nat \subseteq T
  <2>. HIDE DEF T
  <2>. QED
    BY <1>3, <1>4, NatSetInduction
<1>6. k - 1 \in Nat /\ (k - 1) + 1 = k /\ k <= n
  BY <1>1
<1>. QED
  BY <1>5, <1>6

\* Before it is linked a program has no text.
NoTextYet == at = "unlinked" => text = <<>>

LEMMA NoTextStep == Control /\ NoTextYet /\ [Next]_vars => NoTextYet'
<1> SUFFICES ASSUME Control, NoTextYet, [Next]_vars
             PROVE  NoTextYet'
  OBVIOUS
<1>1. CASE BuildStep \/ EmitModule \/ UNCHANGED vars
  BY <1>1 DEF BuildStep, EmitModule, vars, runVars, NoTextYet
<1>2. CASE Return \/ ReturnFromJump
  <2>1. at' \in Places
    <3>1. CASE Return
      BY <3>1 DEF Return, RunInsts, Control, Places
    <3>2. CASE ReturnFromJump
      <4>1. frames \in Seq(Places) /\ Len(frames) = jumps + 1 /\ jumps \in Nat
        BY <3>2 DEF ReturnFromJump, Control, Stacked
      <4>. QED
        BY <3>2, <4>1 DEF ReturnFromJump
    <3>. QED
      BY <1>2, <3>1, <3>2
  <2>. QED
    BY <2>1 DEF NoTextYet, Places
<1>3. CASE RunNext /\ ~ Return /\ ~ ReturnFromJump
  BY <1>3 DEF RunNext, Main, Entry, CallBlock, JumpNowhere, OverflowStack,
     Branch, JumpIndirect, Trap, RunInsts, RunBehindBlock, ReturnFromEntry,
     PrintResult, NoTextYet, Places
<1>. QED
  BY <1>1, <1>2, <1>3 DEF Next, RunStep

(***************************************************************************)
(* Whatever order the builder finds blocks in, the first of the table, at  *)
(* which main() puts guest memory, has no instruction below it, unless the *)
(* program wraps around to an instruction at address 0.                    *)
(***************************************************************************)
THEOREM CodeAboveMemory ==
  ASSUME 0 \notin Image
  PROVE  Spec => []NoCodeBelowMemory
<1>1. BuildInv /\ at # "unlinked" => NoCodeBelowMemory
  <2>1. SUFFICES ASSUME BuildInv, at # "unlinked", NEW i \in DOMAIN text,
                        NEW k \in DOMAIN text[i].insts
                 PROVE  text[1].start <= text[i].insts[k].pc
    BY DEF NoCodeBelowMemory
  <2>2. PICK b : Cut(b) /\ text[i] = Translated(code, b)
    BY <2>1, TextFromGraph
  <2>3. text[i].insts = Whole(code, b).insts /\ text[i].start = b.start
    BY <2>2, TranslatedWhole
  <2>4. k \in 1 .. Len(b.insts)
    <3>. DEFINE w == Whole(code, b).insts
    <3>1. Len(w) = Len(b.insts) /\ \E I : w \in Seq(I)
      BY <2>2, WholeInsts
    <3>. HIDE DEF w
    <3>2. DOMAIN w = 1 .. Len(w)
      BY <3>1
    <3>. QED
      BY <2>1, <2>3, <3>1, <3>2 DEF w
  <2>5. text[i].insts[k].pc = b.insts[k]
    <3>1. Whole(code, b).insts[k] = DecodedAt(code[b.insts[k]], b.insts[k])
      BY <2>1, <2>2, <2>4, InstOfBlock
    <3>. QED
      BY <2>3, <3>1 DEF DecodedAt
  <2>6. text[i].start <= b.insts[k] /\ b.insts[k] \in Int
    BY <2>1, <2>2, <2>3, <2>4, Climbs, InstOfBlock, Widths DEF Word
  <2>7. text[1].start <= text[i].start /\ text[1].start \in Int /\ text[i].start \in Int
    <3>1. PICK n \in Nat : DOMAIN text = 1 .. n
      BY <2>1 DEF BuildInv, Linked
    <3>2. 1 \in DOMAIN text /\ (i = 1 \/ 1 < i)
      BY <3>1
    <3>3. Cfg!Graph
      BY <2>1, Returned DEF BuildInv, Linked
    <3>4. \A j \in DOMAIN text : text[j].start \in Int
      <4>1. \A c : Cut(c) => c.start \in Int
        <5>1. \A c : Cut(c) => c.start \in DOMAIN indexByAddr
          BY DEF Cut
        <5>2. \A a \in DOMAIN indexByAddr : a \in Int
          BY <3>3, Widths DEF Cfg!Graph, Cfg!Built, Cfg!Addr
        <5>. QED
          BY <5>1, <5>2
      <4>. QED
        BY <2>1, <4>1, TextFromGraph, TranslatedStart
    <3>5. i # 1 => text[1].start < text[i].start
      BY <2>1, <3>2 DEF BuildInv, Linked
    <3>. QED
      BY <3>2, <3>4, <3>5
  <2>. QED
    BY <2>5, <2>6, <2>7
<1>2. BuildInv /\ NoTextYet => NoCodeBelowMemory
  BY <1>1 DEF NoTextYet, NoCodeBelowMemory
<1>3. Init => NoTextYet
  BY DEF Init, RunInit, NoTextYet
<1>4. Control /\ NoTextYet /\ [Next]_vars => NoTextYet'
  BY NoTextStep
<1>. QED
  BY <1>2, <1>3, <1>4, BuildInvAlways, ControlAlways, PTL DEF Spec

-----------------------------------------------------------------------------
\* Where a program returns to main().

\* Nothing but a call writes the return address.
LinkedByCalls == \A i \in Inst : i.rd = 1 => i.op \in {"JAL", "JALR"}

\* Where main() or a call has left the return address.
Homes ==
  {GuestEnd} \cup
    {Wrap(a + 4) : a \in {c \in Image : c % 4 = 0 /\ code[c].op = "JAL"
                                        /\ code[c].rd # 0}}

LEMMA HomesEven ==
  ASSUME NEW v \in Homes
  PROVE  v \in Word /\ v % 2 = 0
<1>1. GuestEnd \in Word /\ GuestEnd % 2 = 0
  BY Widths DEF GuestEnd, Word
<1>. QED
  BY <1>1, NextFour, ProgramAssumption DEF Homes

\* An indirect call ends its block.
LEMMA NoIndirectInside ==
  ASSUME BuildInv, NEW b, Cut(b), b.term # "IndirectJump",
         NEW k \in 1 .. Len(b.insts)
  PROVE  ~ Cfg!IsIndirect(code[b.insts[k]])
<1>1. CASE k < Len(b.insts)
  <2>1. ~ Cfg!IsTerminator(code[b.insts[k]])
    BY <1>1, InstOfBlock
  <2>. QED
    BY <2>1 DEF Cfg!IsTerminator
<1>2. CASE ~ (k < Len(b.insts))
  <2>1. b.insts \in Seq(Word) /\ b.insts # <<>>
    BY DEF Cut
  <2>2. k = Len(b.insts)
    BY <1>2, <2>1
  <2>. DEFINE l == b.insts[k]
  <2>3. Cfg!Ends(l, b.term, b.succs)
    BY <2>1, <2>2 DEF Cut, Cfg!Shaped
  <2>. HIDE DEF l
  <2>4. ~ Cfg!IsIndirect(code[l])
    BY <2>3 DEF Cfg!Ends, Cfg!IsTerminator, Cfg!IsIndirect, Cfg!IsReturn, Cfg!IsCondBranch,
       Cfg!CondBranchOps, Cfg!IsJump, Cfg!IsTrap
  <2>. QED
    BY <2>4 DEF l
<1>. QED
  BY <1>1, <1>2

\* An instruction that jumps nowhere indirectly leaves the return address
\* where it was or behind a call.
LEMMA HomeKept ==
  ASSUME BuildInv, LinkedByCalls, NEW b, Cut(b), b.term # "IndirectJump",
         NEW k \in 1 .. Len(b.insts),
         NEW s, GuestTyped(s, GuestRegs, Cells), s.x[1] \in Homes
  PROVE  GuestStep(s, Whole(code, b).insts[k]).x[1] \in Homes
<1>. DEFINE a == b.insts[k]
            i == code[a]
            inst == Whole(code, b).insts[k]
<1>1. /\ inst = DecodedAt(i, a) /\ a \in Image /\ a % 4 = 0 /\ i \in Inst
      /\ ~ Cfg!IsIndirect(i)
  BY InstOfBlock, NoIndirectInside
<1>. HIDE DEF a, inst
<1>2. inst.op = i.op /\ inst.rd = i.rd /\ inst.pc = a
  BY <1>1 DEF DecodedAt
<1>3. GuestStep(s, inst).x = IF inst.op \in NoResult THEN s.x
                             ELSE SetReg(s.x, inst.rd, Result(inst, s))
  BY EffectOf
<1>4. DOMAIN s.x = GuestRegs /\ 1 \in GuestRegs
  BY RuntimeAssumption DEF GuestTyped
<1>5. CASE i.rd # 1 \/ inst.op \in NoResult
  <2>1. SetReg(s.x, inst.rd, Result(inst, s))[1] = s.x[1] \/ inst.op \in NoResult
    BY <1>2, <1>4, <1>5 DEF SetReg
  <2>. QED
    BY <1>3, <2>1 DEF inst
<1>6. CASE i.rd = 1 /\ inst.op \notin NoResult
  <2>1. i.op \in {"JAL", "JALR"}
    BY <1>1, <1>6 DEF LinkedByCalls
  <2>2. i.op = "JAL"
    BY <1>1, <1>6, <2>1 DEF Cfg!IsIndirect, Cfg!IsReturn
  <2>3. Result(inst, s) = Wrap(a + 4)
    BY <1>2, <2>2, ResultOf
  <2>4. Wrap(a + 4) \in Homes
    BY <1>1, <1>6, <2>2 DEF Homes
  <2>5. GuestStep(s, inst).x[1] = Wrap(a + 4)
    BY <1>2, <1>3, <1>4, <1>6, <2>3 DEF SetReg
  <2>. QED
    BY <2>4, <2>5 DEF inst
<1>. QED
  BY <1>5, <1>6

\* A return goes where the return address says.
LEMMA ReturnsHome ==
  ASSUME NEW s, s.x[1] \in Homes, NEW i, Cfg!IsReturn(i), NEW a
  PROVE  GuestStep(s, DecodedAt(i, a)).pc \in Homes
<1>. DEFINE inst == DecodedAt(i, a)
            v == s.x[1]
            t == Wrap(v + 0)
<1>1. inst.op = "JALR" /\ inst.rs1 = 1 /\ inst.imm = 0
  BY DEF DecodedAt, Cfg!IsReturn
<1>2. GuestStep(s, inst).pc = Target(inst, s)
  BY EffectOf
<1>. HIDE DEF inst
<1>3. Target(inst, s) = t - (t % 2)
  BY <1>1 DEF Target, Branches
<1>4. v \in Word /\ v % 2 = 0
  BY HomesEven
<1>. HIDE DEF v
<1>5. t = v
  <2>. DEFINE N == 2 ^ Width
  <2>1. v \in 0 .. N - 1 /\ N \in Nat \ {0} /\ t = (v + 0) % N
    BY <1>4, Widths DEF Wrap, Word
  <2>. HIDE DEF N, t
  <2>. QED
    BY <2>1
<1>. HIDE DEF t
<1>6. t - (t % 2) = v
  BY <1>4, <1>5, Widths DEF Word
<1>. QED
  BY <1>2, <1>3, <1>6 DEF inst, v

\* A block that does not end in an indirect jump keeps the return address, and
\* a return goes where it says.
LEMMA BlockKeepsHome ==
  ASSUME BuildInv, Translatable, LinkedByCalls, NEW b, Cut(b),
         b.term # "IndirectJump", NEW s, GuestTyped(s, GuestRegs, Cells),
         s.x[1] \in Homes
  PROVE  /\ RunGuest(Whole(code, b).insts, s).x[1] \in Homes
         /\ b.term = "Return" => RunGuest(Whole(code, b).insts, s).pc \in Homes
<1>. DEFINE w == Whole(code, b).insts
            K == Len(w)
<1>1. /\ w \in Seq({DecodedAt(code[a], a) : a \in Word}) /\ K = Len(b.insts)
      /\ AllRunnable(w, Whole(code, b).start, GuestRegs, Cells)
  BY WholeInsts, BlockRunnable
<1>2. PICK g : GuestFold!IsRun(g, s, w) /\ GuestFold!Fold(s, w) = g[K]
  BY <1>1, GuestFold!FoldRun
<1>3. RunGuest(w, s) = g[K]
  BY <1>2, GuestLoop
<1>4. K \in Nat
  BY <1>1
<1>. DEFINE Home(k) == GuestTyped(g[k], GuestRegs, Cells) /\ g[k].x[1] \in Homes
            T == {k \in Nat : k <= K => Home(k)}
<1>. HIDE DEF w, K
<1>5. 0 \in T
  <2>1. g[0] = s
    BY <1>2 DEF GuestFold!IsRun
  <2>. QED
    BY <2>1
<1>6. ASSUME NEW k \in Nat, k \in T
      PROVE  k + 1 \in T
  <2>1. SUFFICES ASSUME k + 1 <= K
                 PROVE  Home(k + 1)
    OBVIOUS
  <2>2. k + 1 \in 1 .. K /\ (k + 1) - 1 = k /\ Home(k)
    BY <1>4, <1>6, <2>1
  <2>3. g[k + 1] = GuestStep(g[k], w[k + 1])
    BY <1>2, <2>2 DEF GuestFold!IsRun, K
  <2>4. /\ Runnable(w[k + 1], GuestRegs, Cells)
        /\ w[k + 1].op \in LiftedOps \cup {"AUIPC"}
    BY <1>1, <2>2 DEF AllRunnable, Lifts, K
  <2>5. GuestTyped(GuestStep(g[k], w[k + 1]), GuestRegs, Cells)
    BY <2>2, <2>4, GuestStepTyped
  <2>6. GuestStep(g[k], w[k + 1]).x[1] \in Homes
    <3>1. k + 1 \in 1 .. Len(b.insts)
      BY <1>1, <2>2
    <3>. QED
      BY <2>2, <3>1, HomeKept DEF w
  <2>. QED
    BY <2>3, <2>5, <2>6
<1>7. Nat \subseteq T
  <2>. HIDE DEF T
  <2>. QED
    BY <1>5, <1>6, NatSetInduction
<1>8. g[K].x[1] \in Homes
  BY <1>4, <1>7
<1>9. ASSUME b.term = "Return"
      PROVE  g[K].pc \in Homes
  <2>1. b.insts # <<>> /\ b.insts \in Seq(Word)
    BY <1>9 DEF Cut, Cfg!Shaped
  <2>2. K \in 1 .. K /\ K - 1 \in Nat /\ K - 1 <= K
    BY <1>1, <2>1
  <2>3. Cfg!IsReturn(code[b.insts[K]])
    <3>1. Cfg!Ends(b.insts[K], b.term, b.succs)
      BY <1>1, <2>1 DEF Cut, Cfg!Shaped
    <3>. QED
      BY <1>9, <3>1 DEF Cfg!Ends
  <2>4. g[K - 1].x[1] \in Homes
    BY <1>7, <2>2
  <2>5. g[K] = GuestStep(g[K - 1], w[K])
    BY <1>2, <2>2 DEF GuestFold!IsRun, K
  <2>6. w[K] = DecodedAt(code[b.insts[K]], b.insts[K])
    BY <1>1, <2>2, InstOfBlock DEF w
  <2>. QED
    BY <2>3, <2>4, <2>5, <2>6, ReturnsHome
<1>. QED
  BY <1>3, <1>8, <1>9 DEF w

\* A program that has not jumped indirectly has the way back.
Homeward ==
  jumps = 0 =>
    /\ at \in {"entry", "jump", "block"} => guest.x[1] \in Homes
    /\ at \in {"jump_returned", "entry_returned", "main_returned", "done"} =>
         guest.pc \in Homes

LEMMA HomewardStep ==
  ASSUME RunInv, Translatable, LinkedByCalls, Homeward, [Next]_vars
  PROVE  Homeward'
<1>0. BuildInv /\ Control /\ Together
  BY DEF RunInv
<1>1. CASE BuildStep \/ EmitModule
  BY <1>1 DEF BuildStep, EmitModule, Homeward, runVars
<1>2. CASE UNCHANGED vars
  BY <1>2 DEF Homeward, Homes, vars, runVars, buildVars
<1>3. CASE RunStep
  <2>0. Homes' = Homes
    BY <1>3 DEF RunStep, buildVars, Homes
  <2>1. CASE Main
    <3>1. guest'.x[1] = 0
      BY <2>1, RuntimeAssumption DEF Main
    <3>2. at' = "entry" /\ 0 \in Homes
      BY <2>1 DEF Main, Homes, GuestEnd
    <3>. QED
      BY <2>0, <3>1, <3>2 DEF Homeward
  <2>2. CASE Entry \/ CallBlock \/ JumpNowhere \/ OverflowStack \/ RunBehindBlock
             \/ ReturnFromEntry \/ PrintResult
    BY <2>0, <2>2 DEF Entry, CallBlock, JumpNowhere, OverflowStack, RunBehindBlock,
       ReturnFromEntry, PrintResult, Homeward, Places
  <2>3. CASE ReturnFromJump
    <3>1. at' \in Places /\ guest' = guest /\ jumps' = jumps /\ at = "jump_returned"
      <4>1. frames \in Seq(Places) /\ Len(frames) = jumps + 1 /\ jumps \in Nat
        BY <1>0, <2>3 DEF ReturnFromJump, Control, Stacked
      <4>. QED
        BY <2>3, <4>1 DEF ReturnFromJump
    <3>. QED
      BY <2>0, <3>1 DEF Homeward, Places
  <2>4. CASE Branch \/ JumpIndirect \/ Return \/ Trap
    <3>1. RunInsts /\ at = "block" /\ cur \in DOMAIN text
      BY <1>0, <2>4 DEF Branch, JumpIndirect, Return, Trap, RunInsts, Together
    <3>2. PICK b : Cut(b) /\ text[cur] = Translated(code, b)
      BY <1>0, <3>1, TextFromGraph
    <3>. DEFINE w == Whole(code, b)
    <3>3. text[cur].insts = w.insts /\ text[cur].ir = Lift(w) /\ w.term = b.term
      BY <3>2, TranslatedWhole DEF Whole
    <3>. HIDE DEF w
    <3>4. /\ b.term \in Goes \cup {"IndirectJump", "Return", "Trap"}
          /\ ExitKind = "BrIndirect" <=> b.term = "IndirectJump"
          /\ ExitKind = "Ret" <=> b.term = "Return"
      <4>1. b.term \in Goes \cup {"IndirectJump", "Return", "Trap"}
        BY <1>0, <3>2, BlockEnds DEF Goes
      <4>. QED
        BY <3>3, <4>1, ExitOfBlock DEF ExitKind, Goes
    <3>5. jumps = 0 => /\ ~ strayed /\ guest.x[1] \in Homes
                       /\ guest' = RunGuest(w.insts, guest)
      BY <1>0, <3>1, <3>3 DEF Together, Homeward, RunInsts
    <3>6. GuestTyped(guest, GuestRegs, Cells)
      BY <1>0, <3>1 DEF Together
    <3>7. jumps = 0 /\ b.term # "IndirectJump" =>
            /\ guest'.x[1] \in Homes
            /\ b.term = "Return" => guest'.pc \in Homes
      BY <1>0, <3>2, <3>5, <3>6, BlockKeepsHome DEF w
    <3>8. CASE JumpIndirect
      <4>1. jumps' # 0
        BY <1>0, <3>8 DEF JumpIndirect, Control
      <4>. QED
        BY <4>1 DEF Homeward
    <3>9. CASE Branch
      BY <2>0, <3>1, <3>4, <3>7, <3>9 DEF Branch, Homeward
    <3>10. CASE Return
      <4>1. at' = "jump_returned" /\ jumps' = jumps /\ b.term = "Return"
        BY <1>0, <3>1, <3>4, <3>10 DEF Return, Control
      <4>. QED
        BY <2>0, <3>7, <4>1 DEF Homeward
    <3>11. CASE Trap
      BY <3>11 DEF Trap, Homeward
    <3>. QED
      BY <2>4, <3>8, <3>9, <3>10, <3>11
  <2>. QED
    BY <1>3, <2>1, <2>2, <2>3, <2>4 DEF RunStep, RunNext
<1>. QED
  BY <1>1, <1>2, <1>3 DEF Next

(***************************************************************************)
(* main() gets control back with the registers of a guest that has         *)
(* returned to where it was started from, or from one of its own calls,    *)
(* and has made no indirect jump.                                          *)
(***************************************************************************)
THEOREM MainReturns ==
  ASSUME Translatable, LinkedByCalls
  PROVE  Spec => []WhenMainReturns
<1>1. Init => Homeward
  BY DEF Init, RunInit, Homeward
<1>2. RunInv /\ Homeward /\ [Next]_vars => Homeward'
  BY HomewardStep
<1>3. RunInv /\ Homeward => WhenMainReturns
  <2>1. Homes \subseteq {GuestEnd} \cup AfterCall
    BY DEF Homes, AfterCall
  <2>2. Stacked(0) => frames = <<>>
    BY DEF Stacked
  <2>. QED
    BY <2>1, <2>2 DEF RunInv, Control, Together, Homeward, WhenMainReturns
<1>. QED
  BY <1>1, <1>2, <1>3, RunInvAlways, PTL DEF Spec
=============================================================================
