------------------------------ MODULE Translate ------------------------------
(***************************************************************************)
(* The way of one basic block through the translator (main in              *)
(* tools/riscy.cpp): lift, select, analyze, allocate, emit.  Lifting and   *)
(* selecting are one step each; analyze and allocate run as the state      *)
(* machines of Liveness and RegAlloc.  What each stage hands on is run on  *)
(* guest states and compared with the guest's own semantics (GuestISA).    *)
(***************************************************************************)
EXTENDS GuestISA, Lifter, ISel, LiveIntervals

CONSTANTS
  BasicBlocks,   \* the blocks of the CFG that are translated
  GuestStates,   \* states to compare runs on: [x, mem]
  PhysPool,      \* the pool of RegAlloc::allocate
  Junk           \* what host registers hold when a block is entered

VARIABLES
  bb,        \* the block of the CFG (never changes)
  stage,     \* what has been done for it
  ir,        \* irbb
  blk,       \* the host block
  pos, k, live, scan,               \* Liveness::analyze
  todo, item, pool, active, kept, freed, asg, loop \* RegAlloc::allocate

liveVars == <<pos, k, live, scan>>

allocVars == <<todo, item, pool, active, kept, freed, asg, loop>>

vars == <<bb, stage, ir, blk, liveVars, allocVars>>

Code == INSTANCE GuestCode
          WITH AddrMod <- 2 ^ Width, Image <- {}, Inst <- {}, Entry <- 0

Live == INSTANCE Liveness WITH Blocks <- {}, block <- blk, phase <- scan

Alloc == INSTANCE RegAlloc WITH phase <- loop

\* The block the CFG builder makes of decoded instructions that start at pc
\* start and end in a terminator, or before the start of another block.
BlockOf(start, insts) ==
  LET at(i) == Wrap(start + 4 * (i - 1))
      last  == insts[Len(insts)]
      fall  == at(Len(insts) + 1)
      there == Wrap(at(Len(insts)) + last.imm)
      out(term, succs) ==
        [start |-> start, term |-> term, succs |-> succs,
         insts |-> [i \in DOMAIN insts |-> DecodedAt(insts[i], at(i))]]
  IN CASE Code!IsCondBranch(last) -> out("Branch", <<there, fall>>)
       [] Code!IsJump(last)       -> out("Jump", <<there>>)
       [] Code!IsIndirect(last)   -> out("IndirectJump", <<>>)
       [] Code!IsReturn(last)     -> out("Return", <<>>)
       [] Code!IsTrap(last)       -> out("Trap", <<>>)
       [] OTHER                   -> out("Fallthrough", <<fall>>)

\* The block it makes of instructions that run into a word it cannot decode.
CutOff(start, insts) ==
  [start |-> start, term |-> "Trap", succs |-> <<>>,
   insts |-> [i \in DOMAIN insts |-> DecodedAt(insts[i], Wrap(start + 4 * (i - 1)))]]

NoIR == [start |-> 0, insts |-> <<>>, term |-> IRTerm("Ret", 0, 0, 0)]

Init ==
  /\ bb \in BasicBlocks
  /\ stage = "start"
  /\ ir = NoIR
  /\ blk = Select(NoIR)
  /\ pos = 0 /\ k = 0 /\ live = <<>> /\ scan = "scan"
  /\ todo = {} /\ item = 0 /\ pool = PhysPool /\ active = <<>> /\ kept = <<>>
  /\ freed = <<>> /\ asg = <<>> /\ loop = "alloc"

-----------------------------------------------------------------------------

LiftBlock ==
  /\ stage = "start"
  /\ ir' = Lift(bb)
  /\ stage' = "lifted"
  /\ UNCHANGED <<bb, blk, liveVars, allocVars>>

SelectBlock ==
  /\ stage = "lifted"
  /\ blk' = Select(ir)
  /\ stage' = "selected"
  /\ UNCHANGED <<bb, ir, liveVars, allocVars>>

AnalyzeStep ==
  /\ stage \in {"selected", "analyzed"}
  /\ Live!Next
  /\ stage' = "analyzed"
  /\ UNCHANGED <<bb, ir, allocVars>>

\* allocate() collects its items from the finished map.
StartAllocate ==
  /\ stage = "analyzed"
  /\ scan = "done"
  /\ todo' = DOMAIN live
  /\ stage' = "allocating"
  /\ UNCHANGED <<bb, ir, blk, liveVars, item, pool, active, kept,
                 freed, asg, loop>>

AllocateStep ==
  /\ stage = "allocating"
  /\ Alloc!Next
  /\ UNCHANGED <<bb, stage, ir, blk, pos, k, scan>>

\* The virtual registers of the block, all of which the emitter looks up.
Operands == UNION {Live!TouchesAt(p) : p \in 0 .. Len(blk.instrs)}

Emit ==
  /\ stage = "allocating"
  /\ loop = "done"
  /\ stage' = IF Operands \subseteq DOMAIN asg THEN "emitted" ELSE "abort"
  /\ UNCHANGED <<bb, ir, blk, liveVars, allocVars>>

Next ==
  \/ LiftBlock
  \/ SelectBlock
  \/ AnalyzeStep
  \/ StartAllocate
  \/ AllocateStep
  \/ Emit

\* The driver is sequential: while a stage can go on it does.
Spec == Init /\ [][Next]_vars /\ WF_vars(Next)
-----------------------------------------------------------------------------

(***************************************************************************)
(* The types of the pipeline's state.                                      *)
(***************************************************************************)
TypeOK ==
  /\ bb \in BasicBlocks
  /\ stage \in {"start", "lifted", "selected", "analyzed", "allocating",
                "emitted", "abort"}
  /\ stage # "start" => ir.start = bb.start
  /\ stage \notin {"start", "lifted"} => blk.guest_pc = bb.start
  /\ IsLivenessMap(live)
  /\ stage \in {"allocating", "emitted"} => Alloc!TypeOK

(***************************************************************************)
(* Every virtual register of the host block is written before an           *)
(* instruction or the terminator reads it, and an address register never   *)
(* takes the number of a value (ISel hands out both).                      *)
(***************************************************************************)
Writes(I) == IF I.op \in {"Cmp", "StrX", "StrW", "MovK"} THEN {} ELSE {I.ops[1].id}

Reads(I) ==
  UNION {Live!TouchedBy(I.ops[i]) : i \in DOMAIN I.ops \ IF Writes(I) = {} THEN {} ELSE {1}}

WrittenOnceThenRead ==
  stage = "selected" =>
    LET n == Len(blk.instrs)
        written(p) == UNION {Writes(blk.instrs[i]) : i \in 1 .. p}
    IN /\ \A p \in 1 .. n : /\ Reads(blk.instrs[p]) \subseteq written(p - 1)
                            /\ Writes(blk.instrs[p]) \cap written(p - 1) = {}
       /\ Live!TouchedByTerm(blk.term) \subseteq written(n)

-----------------------------------------------------------------------------

InitialState(g) == [x |-> g.x, mem |-> g.mem, pc |-> bb.start]

Guest(g) == RunGuest(bb.insts, InitialState(g))

\* Host runs: with a register of its own for each virtual one (two for each
\* instruction of the IR at most), and as emitted.
Registers == 0 .. 31

Unlimited(g) ==
  LET n == 2 * Len(ir.insts) + 1
      own == [v \in 1 .. n |-> 31 + v]
  IN RunBlock(blk, own, [r \in 0 .. 31 + n |-> Junk], g)

Emitted(g) == RunBlock(blk, asg, [r \in Registers |-> Junk], g)

SameState(a, b) == a.x = b.x /\ a.mem = b.mem

\* Where control goes at the end of the block, compared with the guest's.
EndsAsGuest(exit, g) ==
  CASE bb.term = "Return" -> exit.kind = "ret"
    [] bb.term = "Trap"   -> exit.kind = "trap"
    [] bb.term = "IndirectJump" -> exit.kind = "goto"
    [] OTHER -> exit.kind = "goto" /\ exit.pc = Guest(g).pc

(***************************************************************************)
(* Lifting keeps what a block does to registers and memory: the IR of a    *)
(* block changes them as its guest instructions do.                        *)
(***************************************************************************)
LiftPreservesState ==
  stage = "lifted" =>
    \A g \in GuestStates : SameState(RunIR(ir, InitialState(g)), Guest(g))

(***************************************************************************)
(* Control leaves the lifted block to where the guest's goes; ret and trap *)
(* leave translated code, for the guest's own return and its ecall/ebreak. *)
(* Where an indirect jump goes is IndirectTarget.                          *)
(***************************************************************************)
LiftPreservesExit ==
  stage = "lifted" =>
    \A g \in GuestStates : EndsAsGuest(RunIR(ir, InitialState(g)).exit, g)

(***************************************************************************)
(* The target of an indirect jump is what the JALR computes (Lifter.cpp:   *)
(* "Find the last produced value (the masked target from JALR lowering)"). *)
(***************************************************************************)
IndirectTarget ==
  (stage = "lifted" /\ bb.term = "IndirectJump") =>
    \A g \in GuestStates : RunIR(ir, InitialState(g)).exit.pc = Guest(g).pc

(***************************************************************************)
(* Selection keeps the meaning of the IR, with as many host registers as   *)
(* there are virtual ones: constants in 16-bit pieces, conditions,         *)
(* addresses relative to the memory base and 32-bit casts included.        *)
(***************************************************************************)
SelectPreservesMeaning ==
  stage = "selected" =>
    \A g \in GuestStates : Unlimited(g) = RunIR(ir, InitialState(g))

(***************************************************************************)
(* The emitted block, over the registers it was given, does what the       *)
(* selected block does.                                                    *)
(***************************************************************************)
AllocationPreservesMeaning ==
  stage = "emitted" => \A g \in GuestStates : Emitted(g) = Unlimited(g)

\* A value that analyze() saw first at position 0 and again later starts, by
\* its interval, only at the second touch: until then nothing keeps its
\* register from being given to another.
StartLost(v) == v \in Live!TouchesAt(0) /\ live[v].start > 0

\* A value w written into it while v is still to be read.
Clobbered(v) ==
  \E w \in DOMAIN asg \ {v} :
    /\ asg[w] = asg[v]
    /\ live[w].start <= live[v].start /\ live[w].start < live[v].end

Unclobbered == \A v \in DOMAIN asg : StartLost(v) => ~ Clobbered(v)

(***************************************************************************)
(* The value of position 0 is the only way allocation loses: a block none  *)
(* of whose registers is shared during such a lost start keeps its meaning *)
(* in whatever order intervals with equal starts are served.               *)
(***************************************************************************)
OnlyLostStartsClobber ==
  (stage = "emitted" /\ Unclobbered) =>
    \A g \in GuestStates : Emitted(g) = Unlimited(g)

(***************************************************************************)
(* The translator as a whole: but for lost starts, the block as emitted    *)
(* leaves the guest's registers and memory, and control, as the guest's    *)
(* instructions do (main, from lift to emit).                              *)
(***************************************************************************)
TranslatesTruly ==
  (stage = "emitted" /\ Unclobbered) =>
    \A g \in GuestStates :
      SameState(Emitted(g), Guest(g)) /\ EndsAsGuest(Emitted(g).exit, g)

(***************************************************************************)
(* A block never runs out of host registers and every operand has one, so  *)
(* neither the allocator nor the emitter aborts: the registers that values *)
(* of a block hold at one time are few, however long the block is.         *)
(***************************************************************************)
NeverAborts == loop # "abort" /\ stage # "abort"

(***************************************************************************)
(* Every block gets through the pipeline.                                  *)
(***************************************************************************)
Termination == <>(stage = "emitted")
=============================================================================
