------------------------------ MODULE GuestCode ------------------------------
(***************************************************************************)
(* The guest program as the translator sees it: what Decoder::decodeNext   *)
(* returns at an address, how CFGBuilder classifies a decoded instruction, *)
(* and the static control flow of the guest.                               *)
(*                                                                         *)
(* An address is a uint64_t; here it has 2^w values, AddrMod of them, and  *)
(* wraps.  A decoded instruction is a record of the fields its operands    *)
(* come from: op, rd, rs1 (also the base of a Mem operand), rs2, and imm   *)
(* (an Imm operand, or the offset of a Mem operand); the ones an           *)
(* instruction does not have are 0.                                        *)
(***************************************************************************)
EXTENDS Integers

CONSTANTS
  AddrMod,   \* number of addresses, 2^64 in the code
  Image,     \* aligned addresses MemoryReader::read32 can read a word at
  Inst,      \* the decoded instructions programs are made of
  Entry      \* ELF entry point

Addr == 0 .. AddrMod - 1

Invalid == [op |-> "INVALID", rd |-> 0, rs1 |-> 0, rs2 |-> 0, imm |-> 0]

\* A program is what the words that can be read decode to.
Program == [Image -> Inst \cup {Invalid}]

CondBranchOps == {"BEQ", "BNE", "BLT", "BGE", "BLTU", "BGEU"}

ASSUME CodeAssumption ==
  /\ AddrMod \in Nat \ {0}
  /\ Image \subseteq Addr
  /\ Entry \in Addr
  /\ \A i \in Inst : i.imm \in Int

\* Mutant of Plus: signed arithmetic, which does not wrap.
PlusSigned(a, n) == a + n

\* Address arithmetic on uint64_t.
Plus(a, n) == (a + n) % AddrMod

NextPC(a) == Plus(a, 4)

\* decodeNext succeeds: aligned, readable, and a word the decoder knows.
Decodes(code, pc) ==
  /\ pc % 4 = 0
  /\ pc \in Image
  /\ code[pc] # Invalid

IsCondBranch(inst) == inst.op \in CondBranchOps

IsJump(inst) == inst.op = "JAL"

\* JALR x0, 0(ra)
IsReturn(inst) ==
  inst.op = "JALR" /\ inst.rd = 0 /\ inst.rs1 = 1 /\ inst.imm = 0

IsIndirect(inst) == inst.op = "JALR" /\ ~ IsReturn(inst)

IsTrap(inst) == inst.op \in {"ECALL", "EBREAK"}

IsTerminator(inst) ==
  \/ IsCondBranch(inst)
  \/ IsJump(inst)
  \/ IsIndirect(inst)
  \/ IsReturn(inst)
  \/ IsTrap(inst)

(***************************************************************************)
(* Reference: the addresses control can reach in one step from pc without  *)
(* looking at register values.  A call (JAL with a link register) reaches  *)
(* its target; where an indirect jump or a return goes is not static.      *)
(***************************************************************************)
StaticSucc(code, pc) ==
  IF ~ Decodes(code, pc) THEN {}
  ELSE LET inst == code[pc] IN
    CASE IsCondBranch(inst)   -> {Plus(pc, inst.imm), NextPC(pc)}
      [] IsJump(inst)         -> {Plus(pc, inst.imm)}
      [] ~ IsTerminator(inst) -> {NextPC(pc)}
      [] OTHER                -> {}

Closed(code, S) == \A a \in S : StaticSucc(code, a) \subseteq S
=============================================================================
