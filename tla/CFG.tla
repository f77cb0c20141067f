--------------------------------- MODULE CFG ---------------------------------
(***************************************************************************)
(* CFGBuilder::build (src/RISCV/CFG.cpp): a worklist of block leaders; for *)
(* each, a straight scan that ends at an address known to be a leader, at  *)
(* a word that does not decode, or at a terminator.                        *)
(*                                                                         *)
(* One step is one pop of the worklist or one turn of the scanning loop,   *)
(* with everything the turn does; a turn that leaves the loop also stores  *)
(* the block, as the code does right after it.                             *)
(***************************************************************************)
EXTENDS GuestCode, Sequences, Functions

VARIABLES
  code,        \* the guest program (never changes)
  worklist,    \* std::queue of leaders waiting to be built
  leaders,     \* every address ever enqueued
  blocks,      \* cfg.blocks
  indexByAddr, \* cfg.indexByAddr: block start -> position in blocks, from 0
  bb,          \* the block being scanned
  pc,          \* the scanning position
  phase        \* "pop" at the head of the while loop, "scan" inside the for

vars == <<code, worklist, leaders, blocks, indexByAddr, bb, pc, phase>>

TermKind ==
  {"None", "Fallthrough", "Branch", "Jump", "IndirectJump", "Return", "Trap"}

\* insts keeps the pc of each DecodedInst; the instruction itself is code[pc].
BasicBlock(start) ==
  [start |-> start, insts |-> <<>>, term |-> "None", succs |-> <<>>]

Init ==
  /\ code \in Program
  /\ worklist = <<Entry>>
  /\ leaders = {Entry}
  /\ blocks = <<>>
  /\ indexByAddr = <<>>
  /\ bb = BasicBlock(0)
  /\ pc = 0
  /\ phase = "pop"

-----------------------------------------------------------------------------

\* Mutant of Enqueue: the set of leaders is not consulted.
EnqueueAlways(w, l, a) == Append(w, a)

\* The worklist after enqueue(a) when l holds the leaders.
Enqueue(w, l, a) == IF a \in l THEN w ELSE Append(w, a)

\* Mutant of Store: the index is taken after the push.
StoreLateIndex(insts, term, succs) ==
  /\ blocks' = Append(blocks, [start |-> bb.start, insts |-> insts,
                               term |-> term, succs |-> succs])
  /\ indexByAddr' = [a \in DOMAIN indexByAddr \cup {bb.start} |->
                       IF a = bb.start THEN Len(blocks) + 1 ELSE indexByAddr[a]]
  /\ bb' = BasicBlock(0)
  /\ pc' = 0
  /\ phase' = "pop"

\* cfg.indexByAddr[bb.start] = cfg.blocks.size(); cfg.blocks.push_back(bb)
Store(insts, term, succs) ==
  /\ blocks' = Append(blocks, [start |-> bb.start, insts |-> insts,
                               term |-> term, succs |-> succs])
  /\ indexByAddr' = [a \in DOMAIN indexByAddr \cup {bb.start} |->
                       IF a = bb.start THEN Len(blocks) ELSE indexByAddr[a]]
  /\ bb' = BasicBlock(0)
  /\ pc' = 0
  /\ phase' = "pop"

\* Mutant of PopLeader: front() without pop().
PopNothing ==
  /\ phase = "pop"
  /\ worklist # <<>>
  /\ worklist' = worklist
  /\ IF Head(worklist) \in DOMAIN indexByAddr
       THEN UNCHANGED <<bb, pc, phase>>
       ELSE /\ bb' = BasicBlock(Head(worklist))
            /\ pc' = Head(worklist)
            /\ phase' = "scan"
  /\ UNCHANGED <<code, leaders, blocks, indexByAddr>>

PopLeader ==
  /\ phase = "pop"
  /\ worklist # <<>>
  /\ worklist' = Tail(worklist)
  /\ IF Head(worklist) \in DOMAIN indexByAddr
       THEN UNCHANGED <<bb, pc, phase>>        \* already built
       ELSE /\ bb' = BasicBlock(Head(worklist))
            /\ pc' = Head(worklist)
            /\ phase' = "scan"
  /\ UNCHANGED <<code, leaders, blocks, indexByAddr>>

Return ==
  /\ phase = "pop"
  /\ worklist = <<>>
  /\ phase' = "done"
  /\ UNCHANGED <<code, worklist, leaders, blocks, indexByAddr, bb, pc>>

\* Mutant of AtKnownLeader: a scan stops at terminators only.
AtNoLeader == FALSE

\* The scan has run into an address where another block starts or will start.
AtKnownLeader ==
  pc # bb.start /\ (pc \in leaders \/ pc \in DOMAIN indexByAddr)

EndFallthrough ==
  /\ phase = "scan"
  /\ AtKnownLeader
  /\ Store(bb.insts, "Fallthrough", <<pc>>)
  /\ worklist' = Enqueue(worklist, leaders, pc)
  /\ leaders' = leaders \cup {pc}
  /\ UNCHANGED code

\* Decode error or out-of-image read.
EndUndecodable ==
  /\ phase = "scan"
  /\ ~ AtKnownLeader
  /\ ~ Decodes(code, pc)
  /\ Store(bb.insts, "Trap", <<>>)
  /\ UNCHANGED <<code, worklist, leaders>>

\* The turns that decode an instruction; they all push it to the block first.
Decoded ==
  /\ phase = "scan"
  /\ ~ AtKnownLeader
  /\ Decodes(code, pc)

Pushed == Append(bb.insts, pc)

ScanStraight ==
  /\ Decoded
  /\ ~ IsTerminator(code[pc])
  /\ bb' = [bb EXCEPT !.insts = Pushed]
  /\ pc' = NextPC(pc)
  /\ UNCHANGED <<code, worklist, leaders, blocks, indexByAddr, phase>>

\* Mutants of EndBranch: the sides in the wrong order; the fall-through side
\* not enqueued.
EndBranchSwapped ==
  /\ Decoded
  /\ IsCondBranch(code[pc])
  /\ LET t == Plus(pc, code[pc].imm)
         f == NextPC(pc)
     IN /\ Store(Pushed, "Branch", <<f, t>>)
        /\ worklist' = Enqueue(Enqueue(worklist, leaders, t),
                               leaders \cup {t}, f)
        /\ leaders' = leaders \cup {t, f}
  /\ UNCHANGED code

EndBranchTaken ==
  /\ Decoded
  /\ IsCondBranch(code[pc])
  /\ LET t == Plus(pc, code[pc].imm)
     IN /\ Store(Pushed, "Branch", <<t, NextPC(pc)>>)
        /\ worklist' = Enqueue(worklist, leaders, t)
        /\ leaders' = leaders \cup {t}
  /\ UNCHANGED code

EndBranch ==
  /\ Decoded
  /\ IsCondBranch(code[pc])
  /\ LET t == Plus(pc, code[pc].imm)
         f == NextPC(pc)
     IN /\ Store(Pushed, "Branch", <<t, f>>)
        /\ worklist' = Enqueue(Enqueue(worklist, leaders, t),
                               leaders \cup {t}, f)
        /\ leaders' = leaders \cup {t, f}
  /\ UNCHANGED code

\* Mutant of EndJump: the target is not enqueued.
EndJumpOnly ==
  /\ Decoded
  /\ IsJump(code[pc])
  /\ Store(Pushed, "Jump", <<Plus(pc, code[pc].imm)>>)
  /\ UNCHANGED <<code, worklist, leaders>>

EndJump ==
  /\ Decoded
  /\ IsJump(code[pc])
  /\ LET t == Plus(pc, code[pc].imm)
     IN /\ Store(Pushed, "Jump", <<t>>)
        /\ worklist' = Enqueue(worklist, leaders, t)
        /\ leaders' = leaders \cup {t}
  /\ UNCHANGED code

\* Indirect jumps, returns and traps end a block without successors.
EndNoSucc ==
  /\ Decoded
  /\ \/ IsIndirect(code[pc])
     \/ IsReturn(code[pc])
     \/ IsTrap(code[pc])
  /\ LET kind == CASE IsIndirect(code[pc]) -> "IndirectJump"
                   [] IsReturn(code[pc])   -> "Return"
                   [] IsTrap(code[pc])     -> "Trap"
     IN Store(Pushed, kind, <<>>)
  /\ UNCHANGED <<code, worklist, leaders>>

Next ==
  \/ PopLeader
  \/ Return
  \/ EndFallthrough
  \/ EndUndecodable
  \/ ScanStraight
  \/ EndBranch
  \/ EndJump
  \/ EndNoSucc

\* The builder is one sequential loop: while it can take a step it takes one.
Spec == Init /\ [][Next]_vars /\ WF_vars(Next)
-----------------------------------------------------------------------------

Block == [start : Addr, insts : Seq(Addr), term : TermKind, succs : Seq(Addr)]

(***************************************************************************)
(* The types of the builder's state.                                       *)
(***************************************************************************)
TypeOK ==
  /\ code \in Program
  /\ worklist \in Seq(Addr)
  /\ leaders \subseteq Addr
  /\ blocks \in Seq(Block)
  /\ DOMAIN indexByAddr \subseteq Addr
  /\ indexByAddr \in [DOMAIN indexByAddr -> Nat]
  /\ bb \in Block
  /\ pc \in Addr
  /\ phase \in {"pop", "scan", "done"}

Waiting == Range(worklist)

Building == IF phase = "scan" THEN {bb.start} ELSE {}

Built == DOMAIN indexByAddr

(***************************************************************************)
(* Every leader enqueue() has admitted is in exactly one of three places:  *)
(* waiting in the queue (once), being scanned, or built.  So no block is   *)
(* forgotten, none is built twice, and the "already built" test at the pop *)
(* is never what keeps the graph right.                                    *)
(***************************************************************************)
EveryLeaderOnce ==
  /\ leaders = Waiting \cup Building \cup Built
  /\ Waiting \cap Building = {}
  /\ Waiting \cap Built = {}
  /\ Building \cap Built = {}
  /\ \A i, j \in 1 .. Len(worklist) : worklist[i] = worklist[j] => i = j

(***************************************************************************)
(* cfg.indexByAddr and cfg.blocks are inverse views of each other, so the  *)
(* driver's walk over the sorted keys of the map meets every block once.   *)
(***************************************************************************)
IndexMatchesBlocks ==
  /\ \A i \in 1 .. Len(blocks) :
       blocks[i].start \in Built /\ indexByAddr[blocks[i].start] = i - 1
  /\ \A a \in Built :
       indexByAddr[a] < Len(blocks) /\ blocks[indexByAddr[a] + 1].start = a

\* Control leaves the last instruction of b to its successors, or traps there.
ExitsMatch(b) ==
  LET next == StaticSucc(code, b.insts[Len(b.insts)])
  IN \/ Range(b.succs) = next
     \/ /\ b.term = "Trap"
        /\ b.succs = <<>>
        /\ \A a \in next : ~ Decodes(code, a)

(***************************************************************************)
(* Following the blocks is following the guest: inside a block control     *)
(* goes from each instruction to the next one of the block and nowhere     *)
(* else, and out of the last one to the successors; the first successor of *)
(* a branch is its taken side.  Blocks may overlap (a branch into a block  *)
(* built earlier does not split it); this must hold in every copy.         *)
(***************************************************************************)
BlocksFollowGuest ==
  \A i \in 1 .. Len(blocks) :
    LET b == blocks[i]
        n == Len(b.insts)
    IN /\ n = 0 => b.term = "Trap" /\ ~ Decodes(code, b.start)
       /\ n > 0 => /\ b.insts[1] = b.start
                   /\ \A k \in 1 .. n - 1 :
                        StaticSucc(code, b.insts[k]) = {b.insts[k + 1]}
                   /\ ExitsMatch(b)
       /\ b.term = "Branch" =>
            b.succs = <<Plus(b.insts[n], code[b.insts[n]].imm),
                        NextPC(b.insts[n])>>

(***************************************************************************)
(* A block never runs over the start of a block stored before it: only a   *)
(* leader discovered after a block was stored can lie inside that block,   *)
(* which bounds the code the overlaps duplicate.                           *)
(***************************************************************************)
NoRunOver ==
  \A i, j \in 1 .. Len(blocks) :
    i < j => \A k \in 2 .. Len(blocks[j].insts) :
               blocks[j].insts[k] # blocks[i].start

(***************************************************************************)
(* In the finished graph every successor is the start of a block: the      *)
(* emitter writes a label for each block and a branch to each successor,   *)
(* so a missing one would be an undefined symbol.                          *)
(***************************************************************************)
NoDanglingSuccessor ==
  phase = "done" =>
    \A i \in 1 .. Len(blocks) : Range(blocks[i].succs) \subseteq Built

\* Instructions that are in a stored block, or in any block.
Stored == UNION {Range(blocks[i].insts) : i \in 1 .. Len(blocks)}

Covered == Stored \cup Range(bb.insts)

\* Addresses discovered: leaders, and wherever covered instructions go.
Seen == leaders \cup UNION {StaticSucc(code, a) : a \in Covered}

(***************************************************************************)
(* The builder implements static reachability: it never looks at an        *)
(* address that is not a static successor of one seen before, and when it  *)
(* returns, what it has seen is closed.                                    *)
(***************************************************************************)
Reach == INSTANCE StaticReach WITH seen <- Seen, done <- (phase = "done")

ImplementsReach == Reach!Spec

(***************************************************************************)
(* build() returns: a scan ends and only finitely many leaders exist,      *)
(* loops of the guest, jumps to self and jumps out of the image included.  *)
(***************************************************************************)
Termination == <>(phase = "done")
=============================================================================
