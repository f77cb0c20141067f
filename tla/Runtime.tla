------------------------------- MODULE Runtime -------------------------------
(***************************************************************************)
(* A translated program when it runs: main() of src/runtime/runtime.c, the *)
(* entry and the blocks Emitter::emit writes, and riscy_indirect_jump(),   *)
(* which is a C function and keeps a frame on the host stack while the     *)
(* block it called runs.                                                   *)
(*                                                                         *)
(* What a block computes is the meaning of its IR (Lifter); selection and  *)
(* allocation are compared with it in Translate.  What this module adds is *)
(* where control goes: links, frames, tables.                              *)
(*                                                                         *)
(* A guest that follows the architecture runs beside the host as long as   *)
(* the host is where the guest is, and stops where they part.              *)
(***************************************************************************)
EXTENDS GuestISA, Lifter, HostABI

CONSTANTS
  EntryPC,      \* riscy_entry_pc
  GuestRegs,    \* the guest registers programs use; 0, 1, 2, 8, 10 among them
  StackOffset,  \* mem_sz - 0x4000: where sp starts above the image
  Args,         \* command line arguments, for a0
  Cells,        \* the cells of guest memory
  MaxFrames     \* frames of riscy_indirect_jump the host stack has room for

ASSUME RuntimeAssumption ==
  /\ {0, 1, 2, 8, 10} \subseteq GuestRegs
  /\ MaxFrames \in Nat \ {0}
  /\ Args \subseteq Word /\ EntryPC \in Word
  /\ StackOffset \in Nat /\ Cells \subseteq Word

VARIABLES
  text,     \* the blocks [start, insts, term, ir] in the order of the tables
  at,       \* where the host is
  cur,      \* the block it is in
  st,       \* RiscyGuestState: [x, mem]
  x1, lr, x19,  \* machine registers: target of a jump, return addresses
  frames,   \* return addresses the frames of riscy_indirect_jump keep
  guest,    \* the guest beside: [x, mem, pc]
  jumps,    \* indirect jumps made so far
  strayed   \* one of them went elsewhere than the guest's

runVars == <<text, at, cur, st, x1, lr, x19, frames, guest, jumps, strayed>>

\* Return addresses are named for what is there.
Places == {"main_returned", "entry_returned", "jump_returned", "behind_block"}

Ended == {"done", "trapped", "lost", "overflow"}

NoState == [x |-> <<>>, mem |-> <<>>]

\* A guest that returns to where it was started from goes to address 0: the
\* runtime sets no return address (x1 is 0 in a state full of zeroes).
GuestEnd == 0

RunInit ==
  /\ text = <<>> /\ at = "unlinked" /\ cur = 0
  /\ st = NoState
  /\ x1 = 0 /\ lr = "main_returned" /\ x19 = "main's" /\ frames = <<>>
  /\ guest = [x |-> <<>>, mem |-> <<>>, pc |-> 0]
  /\ jumps = 0 /\ strayed = FALSE

-----------------------------------------------------------------------------
\* Mutant of FindBlock: the last block is not looked at.
FindBlockShort(pc) ==
  LET found == {i \in DOMAIN text : i < Len(text) /\ text[i].start = pc}
  IN IF found = {} THEN 0 ELSE Min(found)

\* The first block of the table at pc, or 0.
FindBlock(pc) ==
  LET found == {i \in DOMAIN text : text[i].start = pc}
  IN IF found = {} THEN 0 ELSE Min(found)

\* main(): guest memory as malloc leaves it; sp and fp near its top, and it
\* starts at the lowest block; a0 from the command line.
Main ==
  /\ at = "main"
  /\ \E a \in Args, m \in [Cells -> Half] :
       LET sp == Wrap(text[1].start + StackOffset)
           x  == [r \in GuestRegs |-> CASE r \in {2, 8} -> sp
                                        [] r = 10 -> a
                                        [] OTHER  -> 0]
       IN /\ st' = [x |-> x, mem |-> m]
          /\ guest' = [x |-> x, mem |-> m, pc |-> EntryPC]
  /\ x1' = EntryPC /\ lr' = "main_returned"
  /\ at' = "entry"
  /\ UNCHANGED <<text, cur, x19, frames, jumps, strayed>>

\* mov x19, x30; bl _riscy_indirect_jump
Entry ==
  /\ at = "entry"
  /\ x19' = lr /\ lr' = "entry_returned"
  /\ at' = "jump"
  /\ UNCHANGED <<text, cur, st, x1, frames, guest, jumps, strayed>>

\* Mutant of CallBlock: the block is jumped to instead of called.
JumpToBlock ==
  /\ at = "jump" /\ Len(frames) < MaxFrames
  /\ FindBlock(x1) # 0
  /\ cur' = FindBlock(x1)
  /\ at' = "block"
  /\ UNCHANGED <<text, st, x1, lr, x19, frames, guest, jumps, strayed>>

\* riscy_indirect_jump: fn(st) for the block found.
CallBlock ==
  /\ at = "jump" /\ Len(frames) < MaxFrames
  /\ FindBlock(x1) # 0
  /\ cur' = FindBlock(x1)
  /\ frames' = Append(frames, lr)
  /\ lr' = "jump_returned"
  /\ at' = "block"
  /\ UNCHANGED <<text, st, x1, x19, guest, jumps, strayed>>

\* No block there: brk #0.
JumpNowhere ==
  /\ at = "jump" /\ Len(frames) < MaxFrames
  /\ FindBlock(x1) = 0
  /\ at' = "trapped"
  /\ UNCHANGED <<text, cur, st, x1, lr, x19, frames, guest, jumps, strayed>>

OverflowStack ==
  /\ at = "jump" /\ Len(frames) = MaxFrames
  /\ at' = "overflow"
  /\ UNCHANGED <<text, cur, st, x1, lr, x19, frames, guest, jumps, strayed>>

(***************************************************************************)
(* A block runs to its end, and the guest over the same instructions if it *)
(* is there.  What the terminator does is left to the actions below.       *)
(***************************************************************************)
Outcome == RunIR(text[cur].ir, st)

RunInsts ==
  /\ at = "block"
  /\ st' = [x |-> Outcome.x, mem |-> Outcome.mem]
  /\ x19' = IF EntryLink \in BlockWrites THEN "a block's" ELSE x19
  /\ guest' = IF guest.pc = text[cur].start
              THEN RunGuest(text[cur].insts, guest) ELSE guest
  /\ UNCHANGED <<text, frames>>

ExitKind == text[cur].ir.term.kind

\* b label; cmp, b.ne label, b label
Branch ==
  /\ RunInsts
  /\ ExitKind \in {"Br", "CBr"}
  /\ cur' = FindBlock(Outcome.exit.pc)
  /\ UNCHANGED <<at, x1, lr, jumps, strayed>>

\* Mutant of JumpIndirect: a branch instead of the bl.
JumpIndirectTail ==
  /\ RunInsts
  /\ ExitKind = "BrIndirect"
  /\ x1' = Outcome.exit.pc
  /\ at' = "jump"
  /\ jumps' = jumps + 1
  /\ strayed' = (strayed \/ guest'.pc # Outcome.exit.pc)
  /\ UNCHANGED <<cur, lr>>

\* mov x1, target; bl _riscy_indirect_jump
JumpIndirect ==
  /\ RunInsts
  /\ ExitKind = "BrIndirect"
  /\ x1' = Outcome.exit.pc /\ lr' = "behind_block"
  /\ at' = "jump"
  /\ jumps' = jumps + 1
  /\ strayed' = (strayed \/ guest'.pc # Outcome.exit.pc)
  /\ UNCHANGED cur

\* ret
Return ==
  /\ RunInsts
  /\ ExitKind = "Ret"
  /\ at' = lr
  /\ UNCHANGED <<cur, x1, lr, jumps, strayed>>

\* brk #0
Trap ==
  /\ RunInsts
  /\ ExitKind = "Trap"
  /\ at' = "trapped"
  /\ UNCHANGED <<cur, x1, lr, jumps, strayed>>

\* The called block has returned: riscy_indirect_jump returns too.
ReturnFromJump ==
  /\ at = "jump_returned"
  /\ at' = frames[Len(frames)] /\ lr' = frames[Len(frames)]
  /\ frames' = SubSeq(frames, 1, Len(frames) - 1)
  /\ UNCHANGED <<text, cur, st, x1, x19, guest, jumps, strayed>>

\* Behind the bl of a block there is the next block of the text, or nothing;
\* x0 is no longer the state pointer, from which a block first loads x21.
RunBehindBlock ==
  /\ at = "behind_block"
  /\ at' = "lost"
  /\ UNCHANGED <<text, cur, st, x1, lr, x19, frames, guest, jumps, strayed>>

\* ret x19
ReturnFromEntry ==
  /\ at = "entry_returned"
  /\ at' = IF x19 \in Places THEN x19 ELSE "lost"
  /\ UNCHANGED <<text, cur, st, x1, lr, x19, frames, guest, jumps, strayed>>

\* main() prints x10 as the result.
PrintResult ==
  /\ at = "main_returned"
  /\ at' = "done"
  /\ UNCHANGED <<text, cur, st, x1, lr, x19, frames, guest, jumps, strayed>>

RunNext ==
  \/ Main \/ Entry
  \/ CallBlock \/ JumpNowhere \/ OverflowStack
  \/ Branch \/ JumpIndirect \/ Return \/ Trap
  \/ ReturnFromJump \/ RunBehindBlock \/ ReturnFromEntry \/ PrintResult
=============================================================================
