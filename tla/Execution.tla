------------------------------ MODULE Execution ------------------------------
(***************************************************************************)
(* A guest program from its image to the end of its translated run: the    *)
(* CFG builder finds its blocks (CFG), the driver lifts them in the order  *)
(* of their addresses and the emitter writes the tables and the text in    *)
(* that order (tools/riscy.cpp, Emitter::emit), and the result runs        *)
(* (Runtime).                                                              *)
(***************************************************************************)
EXTENDS Runtime

CONSTANTS Image, Inst   \* as in GuestCode

ASSUME ProgramAssumption ==
  /\ Image \subseteq Word
  /\ \A i \in Inst : i.imm \in Int /\ {i.rd, i.rs1, i.rs2} \subseteq GuestRegs

VARIABLES code, worklist, leaders, blocks, indexByAddr, bb, pc, phase  \* CFG

buildVars == <<code, worklist, leaders, blocks, indexByAddr, bb, pc, phase>>

vars == <<runVars, buildVars>>

Build == INSTANCE CFG WITH AddrMod <- 2 ^ Width, Entry <- EntryPC

Init == RunInit /\ Build!Init

BuildStep ==
  /\ at = "unlinked"
  /\ Build!Next
  /\ UNCHANGED runVars

\* A block of the graph of a program with its instructions, lifted.
Translated(program, b) ==
  LET insts == [i \in DOMAIN b.insts |-> DecodedAt(program[b.insts[i]], b.insts[i])]
      whole == [start |-> b.start, insts |-> insts, term |-> b.term, succs |-> b.succs]
  IN [start |-> b.start, insts |-> insts, term |-> b.term, ir |-> Lift(whole)]

\* Mutant of InAddressOrder: the order the blocks were found in.
InOrderFound == [i \in DOMAIN blocks |-> blocks[i].start]

\* The sorted keys of cfg.indexByAddr.
InAddressOrder ==
  LET keys == DOMAIN indexByAddr
      below(a) == Cardinality({b \in keys : b < a})
  IN [i \in 1 .. Cardinality(keys) |-> CHOOSE a \in keys : below(a) = i - 1]

EmitModule ==
  /\ at = "unlinked" /\ phase = "done"
  /\ LET order == InAddressOrder
     IN text' = [i \in DOMAIN order |-> Translated(code, blocks[indexByAddr[order[i]] + 1])]
  /\ at' = "main"
  /\ UNCHANGED <<cur, st, x1, lr, x19, frames, guest, jumps, strayed, buildVars>>

RunStep ==
  /\ RunNext
  /\ UNCHANGED buildVars

Next == BuildStep \/ EmitModule \/ RunStep

\* Translator and translated program are sequential: each goes on while it can.
Spec == Init /\ [][Next]_vars /\ WF_vars(Next)

-----------------------------------------------------------------------------
TypeOK ==
  /\ at \in {"unlinked", "main", "entry", "jump", "block"} \cup Places \cup Ended
  /\ at = "block" => cur \in DOMAIN text
  /\ at \notin {"unlinked", "main"} =>
       /\ st.x \in [GuestRegs -> Word] /\ st.x[0] = 0
       /\ guest.x \in [GuestRegs -> Word] /\ guest.pc \in Word
  /\ x1 \in Word /\ lr \in Places
  /\ frames \in Seq(Places) /\ Len(frames) <= MaxFrames
  /\ jumps \in Nat /\ strayed \in BOOLEAN

(***************************************************************************)
(* The host is where the guest is: whenever a block is about to run, the   *)
(* guest stands at its first instruction with the same registers, unless   *)
(* an indirect jump has gone to another place than the guest's before.     *)
(* This puts together how blocks are found and cut, the order of branch    *)
(* sides, lifting, the tables and the search in them.                      *)
(***************************************************************************)
InStep ==
  at = "block" /\ ~ strayed =>
    guest.pc = text[cur].start /\ guest.x = st.x

(***************************************************************************)
(* While the program runs, every indirect jump it has made still has its   *)
(* frame on the host stack, the one of the entry below them: no block ever *)
(* runs on after a return (runtime.c:25, Emitter.cpp:226).                 *)
(***************************************************************************)
FramesCountJumps ==
  CASE at = "block" -> Len(frames) = jumps + 1
    [] at = "jump"  -> Len(frames) = jumps
    [] OTHER -> TRUE

\* Return addresses of the guest's calls.
AfterCall ==
  {Wrap(a + 4) : a \in {b \in Image : code[b].op = "JAL" /\ code[b].rd # 0}}

(***************************************************************************)
(* main() gets control back only in a run without indirect jumps, with the *)
(* registers of the guest, when the guest has returned to where it was     *)
(* started from - or from any of its own functions: a callee's ret leaves  *)
(* translated code (runtime.c:25, Emitter.cpp:229).                        *)
(***************************************************************************)
WhenMainReturns ==
  at = "done" =>
    /\ jumps = 0 /\ frames = <<>>
    /\ guest.x = st.x
    /\ guest.pc \in {GuestEnd} \cup AfterCall

(***************************************************************************)
(* A run ends in a trap where the guest has one (ecall, ebreak, a word     *)
(* that does not decode), or at an indirect jump to an address that starts *)
(* no block, like the one behind a call; otherwise it has strayed.         *)
(***************************************************************************)
WhenTrapped ==
  at = "trapped" /\ ~ strayed =>
    \/ cur # 0 /\ text[cur].term = "Trap"
    \/ jumps > 0 /\ guest.pc \notin DOMAIN indexByAddr

(***************************************************************************)
(* Only a program that jumps indirectly loses its way: it runs behind a    *)
(* block's bl after a return, or exhausts the host stack.  The entry finds *)
(* its own return address again (Emitter.cpp:43, RegAlloc.cpp:25).         *)
(***************************************************************************)
WhenLost ==
  /\ at = "lost" => jumps > 0 /\ Len(frames) = jumps
  /\ at = "overflow" => jumps = MaxFrames
  /\ at = "entry_returned" => x19 = "main_returned"

(***************************************************************************)
(* The runtime puts the first address of the table at the start of guest   *)
(* memory (runtime.c:55); no instruction of the program lies below it,     *)
(* although blocks are found in another order.                             *)
(***************************************************************************)
NoCodeBelowMemory ==
  \A i \in DOMAIN text : \A k \in DOMAIN text[i].insts :
    text[1].start <= text[i].insts[k].pc

(***************************************************************************)
(* What the README says: the translator preserves program semantics.  A    *)
(* program that returns to main() has returned in the guest too.           *)
(***************************************************************************)
ReturnsWithGuest == at = "done" => guest.pc = GuestEnd
=============================================================================
