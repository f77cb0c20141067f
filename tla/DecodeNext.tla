------------------------------ MODULE DecodeNext ------------------------------
(***************************************************************************)
(* Decoder::decodeNext over a memory reader: loading the image             *)
(* (ELFImage::load), finding the word (ELFImage::read, section by section, *)
(* or SpanMemoryReader::read32), decoding it.                              *)
(*                                                                         *)
(* Addresses are uint64_t in the code and 0 .. AddrMod - 1 here; sums of   *)
(* them wrap.  A call is what decodeNext is given: a reader over sections  *)
(* of bytes, a pc, and the word stored at that pc where one is.            *)
(***************************************************************************)
EXTENDS Decoder, RV64I, Sequences, Functions

CONSTANTS
  AddrMod,   \* number of addresses, 2^64 in the code
  Calls,     \* [reader, header, sections, pc, word]: the calls looked at
  Garbage,   \* words that may stand behind the end of a section's buffer
  Before     \* what outInst holds before the call

\* A section is [va, size, exec]: SHF_EXECINSTR, and data to point to.
Section == [va : 0 .. AddrMod - 1, size : 0 .. AddrMod - 1, exec : BOOLEAN]

Header == {"ok", "unreadable", "class", "machine", "encoding"}

ASSUME CallAssumption ==
  /\ AddrMod \in Nat \ {0} /\ AddrMod % 4 = 0 /\ Garbage \subseteq RawWord
  /\ \A c \in Calls :
       /\ c.reader \in {"elf", "span"} /\ c.header \in Header
       /\ c.pc \in 0 .. AddrMod - 1 /\ c.word \in RawWord
       /\ c.sections \in Seq(Section)
       /\ c.reader = "span" =>
            c.header = "ok" /\ \E s \in Section : s.exec /\ c.sections = <<s>>

VARIABLES
  call,          \* the call
  phase,         \* where it is
  execSections,  \* ELFImage::execSections
  k,             \* the section load() or read() looks at
  raw,           \* insn, as the set of its bits: 0 until the reader gives a word
  outInst,       \* the caller's DecodedInst: [pc, raw, inst]
  outErr

vars == <<call, phase, execSections, k, raw, outInst, outErr>>

Errors == {"None", "MisalignedPC", "OOBRead", "InvalidOpcode"}

TypeOK ==
  /\ phase \in {"load", "call", "read", "decode", "done", "unloaded", "fault"}
  /\ execSections \in Seq(Section)
  /\ k \in 1 .. Len(IF phase = "load" THEN call.sections ELSE execSections) + 1
  /\ raw \in RawWord
  /\ outErr \in Errors
  /\ outErr = "None" /\ phase = "done" =>
       /\ outInst.pc = call.pc /\ outInst.pc % 4 = 0
       /\ outInst.inst.op \in Opcode \ {"UNKNOWN"}
       /\ outInst.inst.rd \subseteq 0 .. 4 /\ outInst.inst.rs1 \subseteq 0 .. 4
       /\ outInst.inst.rs2 \subseteq 0 .. 4 /\ outInst.inst.imm \subseteq 0 .. 63

Init ==
  /\ call \in Calls
  /\ phase = "load" /\ execSections = <<>> /\ k = 1
  /\ raw = {} /\ outInst = Before /\ outErr = "None"

(***************************************************************************)
(* ELFImage::load keeps the executable sections that have data, in the     *)
(* order of the file, and fails without one; main() stops then.  A span    *)
(* reader is built over its one buffer.                                    *)
(***************************************************************************)
IsExecutable(s) == s.exec

AtSection ==
  phase = "load" /\ call.header = "ok" /\ k <= Len(call.sections)

LoadSection ==
  /\ AtSection
  /\ execSections' = IF IsExecutable(call.sections[k])
                     THEN Append(execSections, call.sections[k]) ELSE execSections
  /\ k' = k + 1
  /\ UNCHANGED <<call, phase, raw, outInst, outErr>>

Loaded ==
  /\ phase = "load" /\ call.header = "ok" /\ k > Len(call.sections)
  /\ execSections # <<>>
  /\ phase' = "call" /\ k' = 1
  /\ UNCHANGED <<call, execSections, raw, outInst, outErr>>

LoadFails ==
  /\ phase = "load" /\ ~ AtSection
  /\ call.header # "ok" \/ execSections = <<>>
  /\ phase' = "unloaded" /\ k' = 1
  /\ UNCHANGED <<call, execSections, raw, outInst, outErr>>

(***************************************************************************)
(* decodeNext.                                                             *)
(***************************************************************************)
Refuse(err) == phase' = "done" /\ outErr' = err

Misaligned ==
  /\ phase = "call" /\ call.pc % 4 # 0
  /\ Refuse("MisalignedPC")
  /\ UNCHANGED <<call, execSections, k, raw, outInst>>

StartRead ==
  /\ phase = "call" /\ call.pc % 4 = 0
  /\ phase' = "read" /\ k' = 1
  /\ UNCHANGED <<call, execSections, raw, outInst, outErr>>

\* Mutant of ElfFits: the end of the section is not looked at.
ElfFitsStart(s, va) == va >= s.va

\* The bounds checks of ELFImage::read and of SpanMemoryReader::read32.
ElfFits(s, va) == va >= s.va /\ (va + 4) % AddrMod <= (s.va + s.size) % AddrMod

SpanFits(s, va) == va >= s.va /\ (va - s.va + 4) % AddrMod <= s.size

Fits(s, va) == IF call.reader = "elf" THEN ElfFits(s, va) ELSE SpanFits(s, va)

\* Mutant of Skip: the loop stays at its section.
SkipNone ==
  /\ phase = "read" /\ k <= Len(execSections)
  /\ ~ Fits(execSections[k], call.pc)
  /\ UNCHANGED vars

Skip ==
  /\ phase = "read" /\ k <= Len(execSections)
  /\ ~ Fits(execSections[k], call.pc)
  /\ k' = k + 1
  /\ UNCHANGED <<call, phase, execSections, raw, outInst, outErr>>

Inside(s, va) == s.va <= va /\ va + 4 <= s.va + s.size

\* memcpy from the buffer of the section.
Copy ==
  /\ phase = "read" /\ k <= Len(execSections)
  /\ Fits(execSections[k], call.pc) /\ Inside(execSections[k], call.pc)
  /\ raw' = call.word /\ phase' = "decode"
  /\ UNCHANGED <<call, execSections, k, outInst, outErr>>

\* Undefined behaviour: the copy reaches behind the end of the buffer.  It
\* gives some word or ends the translator.
CopyBehindEnd ==
  /\ phase = "read" /\ k <= Len(execSections)
  /\ Fits(execSections[k], call.pc) /\ ~ Inside(execSections[k], call.pc)
  /\ \/ raw' \in Garbage /\ phase' = "decode"
     \/ raw' = raw /\ phase' = "fault"
  /\ UNCHANGED <<call, execSections, k, outInst, outErr>>

Unmapped ==
  /\ phase = "read" /\ k > Len(execSections)
  /\ Refuse("OOBRead")
  /\ UNCHANGED <<call, execSections, k, raw, outInst>>

DecodeWord ==
  /\ phase = "decode"
  /\ LET inst == Decode(raw) IN
       /\ outInst' = [pc |-> call.pc, raw |-> raw, inst |-> inst]
       /\ Refuse(IF inst.op = "UNKNOWN" THEN "InvalidOpcode" ELSE "None")
  /\ UNCHANGED <<call, execSections, k, raw>>

Next ==
  \/ LoadSection \/ Loaded \/ LoadFails
  \/ Misaligned \/ StartRead
  \/ Skip \/ Copy \/ CopyBehindEnd \/ Unmapped
  \/ DecodeWord

Spec == Init /\ [][Next]_vars /\ WF_vars(Next)

-----------------------------------------------------------------------------
(***************************************************************************)
(* Which words decode.                                                     *)
(***************************************************************************)
\* The fixed positions of an instruction that the decoder does not look at.
Unchecked(op) ==
  CASE Table[op].fmt = "R" -> 25 .. 31
    [] op = "JALR"  -> 12 .. 14
    [] op = "SLLI"  -> 26 .. 31
    [] op = "FENCE" -> 12 .. 14
    [] op \in {"ECALL", "EBREAK"} -> 7 .. 11 \cup 15 .. 19
    [] OTHER -> {}

\* The word is an encoding of the instruction, but for what is not looked at:
\* all its bits but those of a fence are those of its opcode and operands.
Encodes(inst, w) ==
  LET word == (w \ Unchecked(inst.op)) \cup (Ones(inst.op) \cap Unchecked(inst.op)) IN
    /\ IF inst.op = "FENCE" THEN Matches("FENCE", word) ELSE Encode(inst) = word
    /\ IsImmediate(Table[inst.op].fmt, inst.imm)

\* A word that decodes is the encoding of exactly the instruction returned,
\* but for the named positions the decoder does not check.  This is about the
\* masks, shifts and signs of every immediate, and about the M extension and
\* the reserved encodings that pass for base instructions
\* (Decoder.cpp:282-341).
DecodesTruly ==
  phase = "done" /\ outErr = "None" => Encodes(outInst.inst, raw)

\* Right shifts by an immediate of 32 and more have bit 25 of their word set.
ShiftsPast31(op, w) == op \in {"SRLI", "SRAI"} /\ 25 \in w

\* Every RV64I word decodes, but for the right shifts past 31: the decoder
\* tests bit 25 as a part of funct7 although it then reads it as the highest
\* bit of the shift amount (Decoder.cpp:212-233).
AcceptsRV64I ==
  phase = "done" /\ outErr = "InvalidOpcode" =>
    \A op \in Op : Matches(op, raw) => ShiftsPast31(op, raw)

\* What the README says: the decoder supports the RV64I base instruction set.
AcceptsAllRV64I ==
  phase = "done" /\ outErr = "InvalidOpcode" => \A op \in Op : ~ Matches(op, raw)

(***************************************************************************)
(* Which words are read.                                                   *)
(***************************************************************************)
Executable == {s \in Range(call.sections) : IsExecutable(s)}

AtTop == call.pc + 4 = AddrMod

\* The reader gives the word at pc exactly when one executable section of the
\* image holds all of it,
\* except at the end of the address space, where sums wrap: a section that
\* reaches it is only readable in its last word (the sum is 0 like the end),
\* and that word is "readable" in every image that starts no later.
\* (ELFImage.cpp:61-65, MemoryReaders.h:23-27)
ReadsExactly ==
  phase \in {"done", "fault"} /\ outErr # "MisalignedPC" =>
    LET read == phase = "fault" \/ outErr # "OOBRead"
    IN read <=>
       \E s \in Executable :
         IF call.reader = "span"
         THEN Inside(s, call.pc) \/ (AtTop /\ s.va = 0)
         ELSE IF AtTop THEN s.va <= call.pc
              ELSE Inside(s, call.pc) /\ s.va + s.size < AddrMod

\* Each call ends: the image is refused, or decodeNext answers or faults.
Termination == <>(phase \in {"done", "unloaded", "fault"})
=============================================================================
