------------------------------- MODULE HostABI -------------------------------
(***************************************************************************)
(* The machine registers the emitted code and the runtime agree on: x0 is  *)
(* the state pointer, x1 carries the target of an indirect jump, x19 keeps *)
(* the entry's link register, x21 the memory base.                         *)
(***************************************************************************)
EXTENDS Integers, Sequences

EntryLink == 19

MemBaseReg == 21

\* Mutant of CodePool: the register of the entry is given away too.
PoolWithEntryLink ==
  <<2, 3, 4, 5, 6, 7, 8, 9, 10, 11, 12, 13, 14,
    15, 16, 17, 18, 19, 20, 22, 23, 24, 25, 26, 27, 28>>

\* The pool of RegAlloc::allocate.
CodePool ==
  <<2, 3, 4, 5, 6, 7, 8, 9, 10, 11, 12, 13, 14,
    15, 16, 17, 18, 20, 22, 23, 24, 25, 26, 27, 28>>

\* The registers the text of a block writes.
BlockWrites == {CodePool[i] : i \in DOMAIN CodePool} \cup {MemBaseReg}
=============================================================================
