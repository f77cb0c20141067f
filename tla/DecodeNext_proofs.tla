-------------------------- MODULE DecodeNext_proofs --------------------------
(***************************************************************************)
(* Which words the readers give, for every image, every section layout and *)
(* every size of the address space: the bounds checks with their sums that *)
(* wrap, the search through the sections and the loading of them.          *)
(* What a word decodes to, for each of the 2^32 words.                     *)
(***************************************************************************)
EXTENDS DecodeNext, SequenceFacts

-----------------------------------------------------------------------------
\* Sums of addresses.

\* A sum that does not reach the end of the address space does not wrap.
LEMMA NoWrap ==
  ASSUME NEW a \in 0 .. AddrMod - 1
  PROVE  a % AddrMod = a
  BY CallAssumption

\* A sum past the end wraps once.
LEMMA WrapOnce ==
  ASSUME NEW a \in AddrMod .. 2 * AddrMod - 1
  PROVE  a % AddrMod = a - AddrMod
  BY CallAssumption

\* The word at an aligned address lies within the address space.
LEMMA WordFits ==
  ASSUME NEW a \in 0 .. AddrMod - 1, a % 4 = 0
  PROVE  a + 4 <= AddrMod
  BY CallAssumption

\* What the bounds check of a section lets through.
Lets(s) ==
  IF call.reader = "span"
  THEN Inside(s, call.pc) \/ (AtTop /\ s.va = 0)
  ELSE IF AtTop THEN s.va <= call.pc
       ELSE Inside(s, call.pc) /\ s.va + s.size < AddrMod

\* The checks of ELFImage::read and SpanMemoryReader::read32, without wrapping
\* sums.
LEMMA FitsExactly ==
  ASSUME call \in Calls, call.pc % 4 = 0, NEW s \in Section
  PROVE  Fits(s, call.pc) <=> Lets(s)
<1>. DEFINE p == call.pc
<1>1. /\ p \in 0 .. AddrMod - 1 /\ p % 4 = 0 /\ AddrMod \in Nat \ {0}
      /\ s.va \in 0 .. AddrMod - 1 /\ s.size \in 0 .. AddrMod - 1
      /\ call.reader \in {"elf", "span"}
  BY CallAssumption DEF Section
<1>2. p + 4 <= AddrMod
  BY <1>1, WordFits
<1>. HIDE DEF p
<1>. SUFFICES Fits(s, p) <=> Lets(s)
  BY DEF p
<1>3. AtTop <=> p + 4 = AddrMod
  BY DEF AtTop, p
<1>4. CASE call.reader = "span"
  <2>1. Fits(s, p) <=> p >= s.va /\ (p - s.va + 4) % AddrMod <= s.size
    BY <1>4 DEF Fits, SpanFits
  <2>2. Lets(s) <=> Inside(s, p) \/ (AtTop /\ s.va = 0)
    BY <1>4 DEF Lets, p
  <2>3. CASE p >= s.va /\ p - s.va + 4 = AddrMod
    <3>1. s.va = 0 /\ p + 4 = AddrMod
      BY <1>1, <1>2, <2>3
    <3>2. AddrMod % AddrMod = 0
      BY <1>1
    <3>. QED
      BY <1>1, <1>3, <2>1, <2>2, <2>3, <3>1, <3>2
  <2>4. CASE p >= s.va /\ p - s.va + 4 # AddrMod
    <3>1. p - s.va + 4 \in 0 .. AddrMod - 1
      BY <1>1, <1>2, <2>4
    <3>2. (p - s.va + 4) % AddrMod = p - s.va + 4
      BY <3>1, NoWrap
    <3>. QED
      BY <1>1, <1>3, <2>1, <2>2, <2>4, <3>2 DEF Inside
  <2>5. CASE ~ (p >= s.va)
    BY <1>1, <1>3, <2>1, <2>2, <2>5 DEF Inside
  <2>. QED
    BY <2>3, <2>4, <2>5
<1>5. CASE call.reader = "elf"
  <2>. DEFINE last == s.va + s.size
  <2>1. Fits(s, p) <=> p >= s.va /\ (p + 4) % AddrMod <= last % AddrMod
    BY <1>5 DEF Fits, ElfFits
  <2>2. Lets(s) <=> IF AtTop THEN s.va <= p
                    ELSE Inside(s, p) /\ last < AddrMod
    BY <1>5 DEF Lets, p
  <2>3. last \in 0 .. 2 * AddrMod - 1
    BY <1>1
  <2>4. Inside(s, p) <=> s.va <= p /\ p + 4 <= last
    BY DEF Inside
  <2>5. last % AddrMod = IF last < AddrMod THEN last ELSE last - AddrMod
    <3>. HIDE DEF last
    <3>1. CASE last < AddrMod
      <4>1. last \in 0 .. AddrMod - 1
        BY <1>1, <2>3, <3>1
      <4>. QED
        BY <3>1, <4>1, NoWrap
    <3>2. CASE ~ (last < AddrMod)
      <4>1. last \in AddrMod .. 2 * AddrMod - 1
        BY <1>1, <2>3, <3>2
      <4>. QED
        BY <3>2, <4>1, WrapOnce
    <3>. QED
      BY <3>1, <3>2
  <2>6. CASE p + 4 = AddrMod
    <3>1. (p + 4) % AddrMod = 0
      BY <1>1, <2>6
    <3>2. last % AddrMod >= 0
      BY <1>1, <2>3, <2>5
    <3>3. Fits(s, p) <=> p >= s.va
      BY <2>1, <2>6, <3>1, <3>2
    <3>. QED
      BY <1>1, <1>3, <2>2, <2>6, <3>3
  <2>7. CASE p + 4 # AddrMod
    <3>1. p + 4 \in 0 .. AddrMod - 1
      BY <1>1, <1>2, <2>7
    <3>2. (p + 4) % AddrMod = p + 4
      BY <3>1, NoWrap
    <3>3. last < AddrMod => (Fits(s, p) <=> Lets(s))
      BY <1>1, <1>3, <2>1, <2>2, <2>4, <2>5, <2>7, <3>2
    <3>4. ~ (last < AddrMod) => ~ Fits(s, p)
      BY <1>1, <2>1, <2>3, <2>5, <3>2
    <3>. QED
      BY <1>3, <2>2, <2>7, <3>3, <3>4
  <2>. QED
    BY <2>6, <2>7
<1>. QED
  BY <1>1, <1>4, <1>5

-----------------------------------------------------------------------------
\* The search.

\* The executable ones among the first n sections of the image.
ExecutableUpTo(n) ==
  {call.sections[i] : i \in {j \in 1 .. n : IsExecutable(call.sections[j])}}

\* The bounds check lets the word at pc through in one section.
SomeFits == \E s \in Executable : Fits(s, call.pc)

\* None of the first n sections read() looks at lets the word through.
NoneOf(n) == \A i \in 1 .. n : ~ Fits(execSections[i], call.pc)

\* What is known at each place of a call.
ReadState ==
  /\ call \in Calls
  /\ execSections \in Seq(Section) /\ k \in Nat
  /\ phase = "load" =>
       /\ k \in 1 .. Len(call.sections) + 1
       /\ Range(execSections) = ExecutableUpTo(k - 1)
  /\ phase \in {"call", "read", "decode", "done", "fault"} =>
       Range(execSections) = Executable
  /\ phase \notin {"done", "unloaded"} => outErr = "None"
  /\ phase \in {"read", "decode", "fault"} => call.pc % 4 = 0
  /\ phase = "read" =>
       /\ k \in 1 .. Len(execSections) + 1
       /\ NoneOf(k - 1)
  /\ phase \in {"decode", "fault"} => SomeFits
  /\ phase = "done" /\ outErr # "MisalignedPC" =>
       call.pc % 4 = 0 /\ (outErr # "OOBRead" <=> SomeFits)

\* The first section is still to be looked at.
LEMMA ReadInit == Init => ReadState
<1> SUFFICES ASSUME Init
             PROVE  ReadState
  OBVIOUS
<1>1. call \in Calls /\ execSections = <<>> /\ k = 1 /\ phase = "load"
      /\ outErr = "None"
  BY DEF Init
<1>2. Len(call.sections) \in Nat
  BY <1>1, CallAssumption
<1>3. Range(execSections) = {} /\ ExecutableUpTo(k - 1) = {}
  BY <1>1, RangeOfEmpty DEF ExecutableUpTo
<1>4. <<>> \in Seq(Section) /\ 1 \in 1 .. Len(call.sections) + 1
  BY <1>2
<1>. QED
  BY <1>1, <1>3, <1>4 DEF ReadState

\* load() keeps the executable sections it has come past.
LEMMA LoadSectionStep ==
  ASSUME ReadState, LoadSection
  PROVE  ReadState'
<1>. DEFINE s == call.sections[k]
<1>1. /\ UNCHANGED <<call, phase, outErr>> /\ phase = "load" /\ k' = k + 1
      /\ execSections' = IF IsExecutable(s) THEN Append(execSections, s)
                         ELSE execSections
      /\ k <= Len(call.sections)
  BY DEF LoadSection, AtSection
<1>2. /\ call.sections \in Seq(Section) /\ k \in 1 .. Len(call.sections)
      /\ execSections \in Seq(Section)
      /\ Range(execSections) = ExecutableUpTo(k - 1)
  BY <1>1, CallAssumption DEF ReadState
<1>3. s \in Section
  BY <1>2
<1>. HIDE DEF s
<1>4. ExecutableUpTo(k) = ExecutableUpTo(k - 1) \cup (IF IsExecutable(s) THEN {s} ELSE {})
  <2>1. 1 .. k = (1 .. k - 1) \cup {k}
    BY <1>2
  <2>. QED
    BY <2>1 DEF ExecutableUpTo, s
<1>5. execSections' \in Seq(Section) /\ Range(execSections') = ExecutableUpTo(k)
  BY <1>1, <1>2, <1>3, <1>4, AppendFacts
<1>6. ExecutableUpTo(k)' = ExecutableUpTo(k')
  BY <1>1 DEF ExecutableUpTo
<1>7. /\ k' \in 1 .. Len(call.sections) + 1 /\ k' - 1 = k /\ k' \in Nat
      /\ Range(execSections') = ExecutableUpTo(k' - 1)
  BY <1>1, <1>2, <1>5
<1>8. ExecutableUpTo(k - 1)' = ExecutableUpTo(k' - 1)
  BY <1>1 DEF ExecutableUpTo
<1>. QED
  BY <1>1, <1>5, <1>7, <1>8 DEF ReadState

\* What is fixed once the image is loaded.
LEMMA SearchUnchanged ==
  ASSUME call' = call
  PROVE  Executable' = Executable /\ SomeFits' = SomeFits
  BY DEF Executable, SomeFits, Fits

\* When load() has come to the end it has kept all the executable ones.
LEMMA LoadedStep ==
  ASSUME ReadState, Loaded
  PROVE  ReadState'
<1>1. /\ UNCHANGED <<call, execSections, outErr>> /\ phase = "load" /\ phase' = "call"
      /\ k > Len(call.sections) /\ k' = 1
  BY DEF Loaded
<1>2. /\ call.sections \in Seq(Section) /\ k - 1 = Len(call.sections)
      /\ Range(execSections) = ExecutableUpTo(k - 1)
  BY <1>1, CallAssumption DEF ReadState
<1>3. ExecutableUpTo(k - 1) = Executable
  <2>1. DOMAIN call.sections = 1 .. Len(call.sections)
    BY <1>2
  <2>. QED
    BY <1>2, <2>1 DEF ExecutableUpTo, Executable, Range
<1>4. Executable' = Executable
  BY <1>1, SearchUnchanged
<1>. QED
  BY <1>1, <1>2, <1>3, <1>4 DEF ReadState

\* A section whose check fails is passed over.
LEMMA SkipStep ==
  ASSUME ReadState, Skip
  PROVE  ReadState'
<1>1. /\ UNCHANGED <<call, phase, execSections, outErr>> /\ phase = "read"
      /\ k <= Len(execSections) /\ ~ Fits(execSections[k], call.pc) /\ k' = k + 1
  BY DEF Skip
<1>2. /\ k \in 1 .. Len(execSections) + 1 /\ execSections \in Seq(Section)
      /\ NoneOf(k - 1) /\ Len(execSections) \in Nat
  BY <1>1 DEF ReadState
<1>3. NoneOf(k)
  <2>1. \A i \in 1 .. k : i \in 1 .. k - 1 \/ i = k
    BY <1>2
  <2>. QED
    BY <1>1, <1>2, <2>1 DEF NoneOf
<1>4. k' - 1 = k /\ k' \in 1 .. Len(execSections) + 1 /\ k' \in Nat
  BY <1>1, <1>2
<1>5. NoneOf(k - 1)'
  BY <1>1, <1>3, <1>4 DEF NoneOf, Fits
<1>6. Executable' = Executable
  BY <1>1, SearchUnchanged
<1>. QED
  BY <1>1, <1>4, <1>5, <1>6 DEF ReadState

\* A section whose check lets the word through ends the search.
LEMMA CopyStep ==
  ASSUME ReadState, Copy \/ CopyBehindEnd
  PROVE  ReadState'
<1>1. /\ UNCHANGED <<call, execSections, k, outErr>> /\ phase = "read"
      /\ phase' \in {"decode", "fault"}
      /\ k <= Len(execSections) /\ Fits(execSections[k], call.pc)
  BY DEF Copy, CopyBehindEnd
<1>2. k \in 1 .. Len(execSections) /\ execSections \in Seq(Section)
  BY <1>1 DEF ReadState
<1>3. execSections[k] \in Executable
  BY <1>1, <1>2, RangeMember DEF ReadState
<1>4. SomeFits /\ SomeFits' /\ Executable' = Executable
  BY <1>1, <1>3, SearchUnchanged DEF SomeFits
<1>. QED
  BY <1>1, <1>4 DEF ReadState

\* A search that ends without a section has looked at all of them.
LEMMA UnmappedStep ==
  ASSUME ReadState, Unmapped
  PROVE  ReadState'
<1>1. /\ UNCHANGED <<call, execSections, k>> /\ phase = "read" /\ phase' = "done"
      /\ outErr' = "OOBRead" /\ k > Len(execSections)
  BY DEF Unmapped, Refuse
<1>2. /\ execSections \in Seq(Section) /\ Range(execSections) = Executable
      /\ \A i \in 1 .. Len(execSections) : ~ Fits(execSections[i], call.pc)
  <2>1. /\ execSections \in Seq(Section) /\ Range(execSections) = Executable
        /\ k \in 1 .. Len(execSections) + 1 /\ NoneOf(k - 1)
    BY <1>1 DEF ReadState
  <2>2. k - 1 = Len(execSections)
    BY <1>1, <2>1
  <2>. QED
    BY <2>1, <2>2 DEF NoneOf
<1>3. ~ SomeFits
  BY <1>2, RangeMember DEF SomeFits
<1>4. ~ SomeFits' /\ Executable' = Executable
  BY <1>1, <1>3, SearchUnchanged
<1>. QED
  BY <1>1, <1>4 DEF ReadState

\* Every step of a call keeps what is known of it.
LEMMA ReadStep == ReadState /\ [Next]_vars => ReadState'
<1> SUFFICES ASSUME ReadState, [Next]_vars
             PROVE  ReadState'
  OBVIOUS
<1>1. call' = call
  BY DEF Next, LoadSection, Loaded, LoadFails, Misaligned, StartRead, Skip, Copy,
     CopyBehindEnd, Unmapped, DecodeWord, vars
<1>2. Executable' = Executable /\ SomeFits' = SomeFits
  BY <1>1, SearchUnchanged
<1>3. CASE LoadSection
  BY <1>3, LoadSectionStep
<1>4. CASE Loaded
  BY <1>4, LoadedStep
<1>5. CASE LoadFails
  BY <1>1, <1>5 DEF LoadFails, ReadState
<1>6. CASE Misaligned
  BY <1>1, <1>2, <1>6 DEF Misaligned, Refuse, ReadState
<1>7. CASE StartRead
  <2>1. /\ phase = "call" /\ phase' = "read" /\ k' = 1 /\ call.pc % 4 = 0
        /\ UNCHANGED <<execSections, outErr>>
    BY <1>7 DEF StartRead
  <2>2. Len(execSections) \in Nat /\ execSections \in Seq(Section)
    BY DEF ReadState
  <2>. QED
    BY <1>1, <1>2, <2>1, <2>2 DEF ReadState, NoneOf
<1>8. CASE Skip
  BY <1>8, SkipStep
<1>9. CASE Copy \/ CopyBehindEnd
  BY <1>9, CopyStep
<1>10. CASE Unmapped
  BY <1>10, UnmappedStep
<1>11. CASE DecodeWord
  <2>1. /\ phase = "decode" /\ phase' = "done" /\ outErr' \in {"None", "InvalidOpcode"}
        /\ UNCHANGED <<execSections, k>>
    BY <1>11 DEF DecodeWord, Refuse
  <2>. QED
    BY <1>1, <1>2, <2>1 DEF ReadState
<1>12. CASE UNCHANGED vars
  <2>1. UNCHANGED <<call, phase, execSections, k, outErr>>
    BY <1>12 DEF vars
  <2>2. ExecutableUpTo(k - 1)' = ExecutableUpTo(k - 1)
    BY <2>1 DEF ExecutableUpTo
  <2>3. NoneOf(k - 1)' <=> NoneOf(k - 1)
    BY <2>1 DEF NoneOf, Fits
  <2>. QED
    BY <1>2, <2>1, <2>2, <2>3 DEF ReadState
<1>. QED
  BY <1>3, <1>4, <1>5, <1>6, <1>7, <1>8, <1>9, <1>10, <1>11, <1>12 DEF Next

\* It is known in every state.
LEMMA ReadAlways == Spec => []ReadState
  BY ReadInit, ReadStep, PTL DEF Spec

(***************************************************************************)
(* For every image and every width of an address, decodeNext gets a word   *)
(* exactly where an executable section holds it, but for the last word of  *)
(* the address space and for sections that reach its end.                  *)
(***************************************************************************)
THEOREM ReadsRight == Spec => []ReadsExactly
<1>1. ReadState => ReadsExactly
  <2> SUFFICES ASSUME ReadState, phase \in {"done", "fault"}, outErr # "MisalignedPC"
               PROVE  (phase = "fault" \/ outErr # "OOBRead") <=> \E s \in Executable : Lets(s)
    BY DEF ReadsExactly, Lets
  <2>1. call \in Calls /\ call.pc % 4 = 0 /\ call.sections \in Seq(Section)
    BY CallAssumption DEF ReadState
  <2>2. Executable \subseteq Section
    BY <2>1, RangeMember DEF Executable
  <2>3. SomeFits <=> \E s \in Executable : Lets(s)
    BY <2>1, <2>2, FitsExactly DEF SomeFits
  <2>. QED
    BY <2>3 DEF ReadState
<1>. QED
  BY <1>1, ReadAlways, PTL

-----------------------------------------------------------------------------
(***************************************************************************)
(* The decoding of a word.                                                 *)
(***************************************************************************)
\* The bits of a word, field by field.
LEMMA Fields ==
  ASSUME NEW w
  PROVE  /\ \A p \in 0 .. 6   : p \in w <=> p \in getBits(w, 6, 0)
         /\ \A p \in 7 .. 11  : p \in w <=> p - 7 \in rd(w)
         /\ \A p \in 12 .. 14 : p \in w <=> p - 12 \in funct3(w)
         /\ \A p \in 15 .. 19 : p \in w <=> p - 15 \in rs1(w)
         /\ \A p \in 20 .. 24 : p \in w <=> p - 20 \in rs2(w)
         /\ \A p \in 25 .. 31 : p \in w <=> p - 25 \in funct7(w)
         /\ \A p \in 20 .. 31 : p \in w <=> p - 20 \in getBits(w, 31, 20)
  BY DEF getBits, rd, funct3, rs1, rs2, funct7

\* The instructions, by the table of the decoder they are found in.
Uppers     == {"LUI", "AUIPC"}
Jumps      == {"JAL", "JALR"}
Branches   == {"BEQ", "BNE", "BLT", "BGE", "BLTU", "BGEU"}
Loads      == {"LB", "LH", "LW", "LD", "LBU", "LHU", "LWU"}
Stores     == {"SB", "SH", "SW", "SD"}
PlainImms  == {"ADDI", "SLTI", "SLTIU", "XORI", "ORI", "ANDI"}
ShiftImms  == {"SLLI", "SRLI", "SRAI"}
WordImms   == {"ADDIW", "SLLIW", "SRLIW", "SRAIW"}
DoubleRegs == {"ADD", "SUB", "SLL", "SLT", "SLTU", "XOR", "SRL", "SRA", "OR", "AND"}
WordRegs   == {"ADDW", "SUBW", "SLLW", "SRLW", "SRAW"}
Systems    == {"FENCE", "ECALL", "EBREAK"}

\* Together they are the base set.
LEMMA Groups ==
  Op = Uppers \cup Jumps \cup Branches \cup Loads \cup Stores \cup PlainImms
       \cup ShiftImms \cup WordImms \cup DoubleRegs \cup WordRegs \cup Systems
  BY DEF Op, Table, Uppers, Jumps, Branches, Loads, Stores, PlainImms, ShiftImms,
     WordImms, DoubleRegs, WordRegs, Systems

\* Their rows.
LEMMA UpperRows ==
  /\ Table["LUI"] = Row("U", {0, 1, 2, 4, 5}, {}, {})
  /\ Table["AUIPC"] = Row("U", {0, 1, 2, 4}, {}, {})
  BY DEF Table

\* The jumps.
LEMMA JumpRows ==
  /\ Table["JAL"] = Row("J", {0, 1, 2, 3, 5, 6}, {}, {})
  /\ Table["JALR"] = Row("I", {0, 1, 2, 5, 6}, {}, {})
  BY DEF Table

\* The branches.
LEMMA BranchRows ==
  /\ Table["BEQ"] = Row("B", {0, 1, 5, 6}, {}, {})
  /\ Table["BNE"] = Row("B", {0, 1, 5, 6}, {0}, {})
  /\ Table["BLT"] = Row("B", {0, 1, 5, 6}, {2}, {})
  /\ Table["BGE"] = Row("B", {0, 1, 5, 6}, {0, 2}, {})
  /\ Table["BLTU"] = Row("B", {0, 1, 5, 6}, {1, 2}, {})
  /\ Table["BGEU"] = Row("B", {0, 1, 5, 6}, {0, 1, 2}, {})
  BY DEF Table

\* The loads.
LEMMA LoadRows ==
  /\ Table["LB"] = Row("I", {0, 1}, {}, {})
  /\ Table["LH"] = Row("I", {0, 1}, {0}, {})
  /\ Table["LW"] = Row("I", {0, 1}, {1}, {})
  /\ Table["LD"] = Row("I", {0, 1}, {0, 1}, {})
  /\ Table["LBU"] = Row("I", {0, 1}, {2}, {})
  /\ Table["LHU"] = Row("I", {0, 1}, {0, 2}, {})
  /\ Table["LWU"] = Row("I", {0, 1}, {1, 2}, {})
  BY DEF Table

\* The stores.
LEMMA StoreRows ==
  /\ Table["SB"] = Row("S", {0, 1, 5}, {}, {})
  /\ Table["SH"] = Row("S", {0, 1, 5}, {0}, {})
  /\ Table["SW"] = Row("S", {0, 1, 5}, {1}, {})
  /\ Table["SD"] = Row("S", {0, 1, 5}, {0, 1}, {})
  BY DEF Table

\* The immediate forms that are no shifts.
LEMMA PlainImmRows ==
  /\ Table["ADDI"] = Row("I", {0, 1, 4}, {}, {})
  /\ Table["SLTI"] = Row("I", {0, 1, 4}, {1}, {})
  /\ Table["SLTIU"] = Row("I", {0, 1, 4}, {0, 1}, {})
  /\ Table["XORI"] = Row("I", {0, 1, 4}, {2}, {})
  /\ Table["ORI"] = Row("I", {0, 1, 4}, {1, 2}, {})
  /\ Table["ANDI"] = Row("I", {0, 1, 4}, {0, 1, 2}, {})
  BY DEF Table

\* The shifts by an immediate.
LEMMA ShiftImmRows ==
  /\ Table["SLLI"] = Row("Sh6", {0, 1, 4}, {0}, {})
  /\ Table["SRLI"] = Row("Sh6", {0, 1, 4}, {0, 2}, {})
  /\ Table["SRAI"] = Row("Sh6", {0, 1, 4}, {0, 2}, {5})
  BY DEF Table

\* The immediate forms of 32 bits.
LEMMA WordImmRows ==
  /\ Table["ADDIW"] = Row("I", {0, 1, 3, 4}, {}, {})
  /\ Table["SLLIW"] = Row("Sh5", {0, 1, 3, 4}, {0}, {})
  /\ Table["SRLIW"] = Row("Sh5", {0, 1, 3, 4}, {0, 2}, {})
  /\ Table["SRAIW"] = Row("Sh5", {0, 1, 3, 4}, {0, 2}, {5})
  BY DEF Table

\* The register forms of 64 bits.
LEMMA DoubleRegRows ==
  /\ Table["ADD"] = Row("R", {0, 1, 4, 5}, {}, {})
  /\ Table["SUB"] = Row("R", {0, 1, 4, 5}, {}, {5})
  /\ Table["SLL"] = Row("R", {0, 1, 4, 5}, {0}, {})
  /\ Table["SLT"] = Row("R", {0, 1, 4, 5}, {1}, {})
  /\ Table["SLTU"] = Row("R", {0, 1, 4, 5}, {0, 1}, {})
  /\ Table["XOR"] = Row("R", {0, 1, 4, 5}, {2}, {})
  /\ Table["SRL"] = Row("R", {0, 1, 4, 5}, {0, 2}, {})
  /\ Table["SRA"] = Row("R", {0, 1, 4, 5}, {0, 2}, {5})
  /\ Table["OR"] = Row("R", {0, 1, 4, 5}, {1, 2}, {})
  /\ Table["AND"] = Row("R", {0, 1, 4, 5}, {0, 1, 2}, {})
  BY DEF Table

\* The register forms of 32 bits.
LEMMA WordRegRows ==
  /\ Table["ADDW"] = Row("R", {0, 1, 3, 4, 5}, {}, {})
  /\ Table["SUBW"] = Row("R", {0, 1, 3, 4, 5}, {}, {5})
  /\ Table["SLLW"] = Row("R", {0, 1, 3, 4, 5}, {0}, {})
  /\ Table["SRLW"] = Row("R", {0, 1, 3, 4, 5}, {0, 2}, {})
  /\ Table["SRAW"] = Row("R", {0, 1, 3, 4, 5}, {0, 2}, {5})
  BY DEF Table

\* Fence and environment calls.
LEMMA SystemRows ==
  /\ Table["FENCE"] = Row("F", {0, 1, 2, 3}, {}, {})
  /\ Table["ECALL"] = Row("Sys", {0, 1, 4, 5, 6}, {}, {})
  /\ Table["EBREAK"] = Row("Sys", {0, 1, 4, 5, 6}, {}, {0})
  BY DEF Table

(***************************************************************************)
(* What is fixed in a word.                                                *)
(***************************************************************************)
\* The fields of a row are those of its format.
IsRow(r) ==
  /\ r.fmt \in {"U", "J", "I", "B", "S", "F", "R", "Sh5", "Sh6", "Sys"}
  /\ r.opc \subseteq 0 .. 6 /\ r.f3 \subseteq 0 .. 2 /\ r.f7 \subseteq 0 .. 6
  /\ r.fmt \in {"U", "J"} => r.f3 = {}
  /\ r.fmt \in {"U", "J", "I", "B", "S", "F"} => r.f7 = {}
  /\ r.fmt = "Sh6" => 0 \notin r.f7
  /\ r.fmt = "Sys" => r.f3 = {}

\* Every row of the table is one.
LEMMA RowTypes == \A op \in Op : IsRow(Table[op])
<1>1. \A op \in Uppers \cup Jumps : IsRow(Table[op])
  BY UpperRows, JumpRows DEF Uppers, Jumps, Row, IsRow
<1>2. \A op \in Branches : IsRow(Table[op])
  BY BranchRows DEF Branches, Row, IsRow
<1>3. \A op \in Loads : IsRow(Table[op])
  BY LoadRows DEF Loads, Row, IsRow
<1>4. \A op \in Stores : IsRow(Table[op])
  BY StoreRows DEF Stores, Row, IsRow
<1>5. \A op \in PlainImms : IsRow(Table[op])
  BY PlainImmRows DEF PlainImms, Row, IsRow
<1>6. \A op \in ShiftImms \cup WordImms : IsRow(Table[op])
  BY ShiftImmRows, WordImmRows DEF ShiftImms, WordImms, Row, IsRow
<1>7. \A op \in DoubleRegs : IsRow(Table[op])
  BY DoubleRegRows DEF DoubleRegs, Row, IsRow
<1>8. \A op \in WordRegs : IsRow(Table[op])
  BY WordRegRows DEF WordRegs, Row, IsRow
<1>9. \A op \in Systems : IsRow(Table[op])
  BY SystemRows DEF Systems, Row, IsRow
<1>. QED
  BY <1>1, <1>2, <1>3, <1>4, <1>5, <1>6, <1>7, <1>8, <1>9, Groups

\* A word matches an instruction by the fields its format fixes.
LEMMA MatchesFields ==
  ASSUME NEW w \in RawWord, NEW op \in Op, Matches(op, w)
  PROVE  /\ getBits(w, 6, 0) = Table[op].opc
         /\ Table[op].fmt \notin {"U", "J"} => funct3(w) = Table[op].f3
         /\ Table[op].fmt = "Sh6" => funct7(w) \ {0} = Table[op].f7
         /\ Table[op].fmt \in {"Sh5", "R"} => funct7(w) = Table[op].f7
         /\ Table[op].fmt = "Sys" => getBits(w, 31, 20) = Table[op].f7
<1>. DEFINE r == Table[op]
<1>0. IsRow(r) /\ w \cap FixedBy(r.fmt) = Ones(op)
  BY RowTypes DEF Matches, Fixed
<1>1. CASE r.fmt \in {"U", "J"}
  BY <1>0, <1>1 DEF FixedBy, Ones, IsRow, At, getBits, RawWord
<1>2. CASE r.fmt \in {"I", "B", "S", "F"}
  BY <1>0, <1>2 DEF FixedBy, Ones, IsRow, At, getBits, funct3, RawWord
<1>3. CASE r.fmt = "Sh6"
  BY <1>0, <1>3 DEF FixedBy, Ones, IsRow, At, getBits, funct3, funct7, RawWord
<1>4. CASE r.fmt \in {"Sh5", "R"}
  BY <1>0, <1>4 DEF FixedBy, Ones, IsRow, At, getBits, funct3, funct7, RawWord
<1>5. CASE r.fmt = "Sys"
  BY <1>0, <1>5 DEF FixedBy, Ones, IsRow, At, getBits, funct3, RawWord
<1>. QED
  BY <1>0, <1>1, <1>2, <1>3, <1>4, <1>5 DEF IsRow

\* The word agrees with the instruction in all that the decoder looks at.
Checked(op, w) == \A p \in Fixed(op) \ Unchecked(op) : p \in w <=> p \in Ones(op)

\* What the decoder compares makes it so.
LEMMA ChecksFields ==
  ASSUME NEW w \in RawWord, NEW op \in Op,
         getBits(w, 6, 0) = Table[op].opc,
         Table[op].fmt \in {"U", "J"} \/ op \in {"JALR", "FENCE"} \/ funct3(w) = Table[op].f3,
         Table[op].fmt = "Sh6" => op = "SLLI" \/ funct7(w) = Table[op].f7,
         Table[op].fmt = "Sh5" => funct7(w) = Table[op].f7,
         Table[op].fmt = "Sys" => op \in {"ECALL", "EBREAK"} /\ getBits(w, 31, 20) = Table[op].f7
  PROVE  Checked(op, w)
<1>. DEFINE r == Table[op]
<1>0. IsRow(r) /\ Fixed(op) = FixedBy(r.fmt)
  BY RowTypes DEF Fixed
<1>1. CASE r.fmt \in {"U", "J"}
  BY <1>0, <1>1, Fields DEF Checked, FixedBy, Ones, IsRow, At
<1>2. CASE r.fmt \in {"I", "B", "S", "F"}
  BY <1>0, <1>2, Fields DEF Checked, FixedBy, Ones, IsRow, At, Unchecked
<1>3. CASE r.fmt = "Sh6"
  BY <1>0, <1>3, Fields DEF Checked, FixedBy, Ones, IsRow, At, Unchecked
<1>4. CASE r.fmt = "Sh5"
  BY <1>0, <1>4, Fields DEF Checked, FixedBy, Ones, IsRow, At, Unchecked
<1>5. CASE r.fmt = "R"
  <2>1. op \notin {"JALR", "SLLI", "FENCE", "ECALL", "EBREAK"}
    BY <1>5, JumpRows, ShiftImmRows, SystemRows DEF Row
  <2>. QED
    BY <1>0, <1>5, <2>1, Fields DEF Checked, FixedBy, Ones, IsRow, At, Unchecked
<1>6. CASE r.fmt = "Sys"
  BY <1>0, <1>6, Fields DEF Checked, FixedBy, Ones, IsRow, At, Unchecked
<1>. QED
  BY <1>0, <1>1, <1>2, <1>3, <1>4, <1>5, <1>6 DEF IsRow

(***************************************************************************)
(* The operands.                                                           *)
(***************************************************************************)
IsOperands(inst) ==
  /\ inst.rd \subseteq 0 .. 4 /\ inst.rs1 \subseteq 0 .. 4
  /\ inst.rs2 \subseteq 0 .. 4 /\ inst.imm \subseteq 0 .. 63

\* The operands of an instruction are, spread over the positions its format
\* leaves to them, the bits of the word; those of a fence are not looked at.
Spread(inst, w) ==
  LET fmt == Table[inst.op].fmt IN
    /\ inst.op # "FENCE" => Encode(inst) = Ones(inst.op) \cup (w \ FixedBy(fmt))
    /\ IsImmediate(fmt, inst.imm)
    /\ IsOperands(inst)

\* The positions of the immediate of a format.
ImmediateAt(fmt, n) == {p \in DOMAIN ImmediateBit(fmt) : ImmediateBit(fmt)[p] \in n}

\* The registers are in their places.
LEMMA RegistersSpread ==
  ASSUME NEW w \in RawWord
  PROVE  /\ At(rd(w), 7) = w \cap (7 .. 11) /\ rd(w) \subseteq 0 .. 4
         /\ At(rs1(w), 15) = w \cap (15 .. 19) /\ rs1(w) \subseteq 0 .. 4
         /\ At(rs2(w), 20) = w \cap (20 .. 24) /\ rs2(w) \subseteq 0 .. 4
  BY DEF At, rd, rs1, rs2, getBits, RawWord

\* An upper immediate is the upper twenty bits of the word.
LEMMA UpperSpread ==
  ASSUME NEW w \in RawWord, NEW op, Table[op].fmt = "U"
  PROVE  Spread(UpperImmediate(op, w), w)
<1>. DEFINE inst == UpperImmediate(op, w)
<1>1. inst.op = op /\ inst.rd = rd(w) /\ inst.rs1 = {} /\ inst.rs2 = {}
  BY DEF UpperImmediate, Decoded
<1>2. /\ ImmediateAt("U", inst.imm) = w \cap (12 .. 31)
      /\ IsImmediate("U", inst.imm) /\ inst.imm \subseteq 0 .. 63
  BY DEF UpperImmediate, Decoded, ImmediateAt, ImmediateBit, IsImmediate, ImmediateBits,
     Sign, sext, Shl, getBits, RawWord
<1>. HIDE DEF inst
<1>3. Encode(inst) = Ones(op) \cup (w \ FixedBy("U"))
  BY <1>1, <1>2, RegistersSpread DEF Encode, ImmediateAt, HasRd, HasRs1, HasRs2, FixedBy, RawWord
<1>. QED
  BY <1>1, <1>2, <1>3, RegistersSpread DEF Spread, IsOperands, inst

\* The offset of a jump is put together from its four pieces.
LEMMA JumpSpread ==
  ASSUME NEW w \in RawWord, NEW op, Table[op].fmt = "J"
  PROVE  Spread(Jump(op, w), w)
<1>. DEFINE inst == Jump(op, w)
<1>1. inst.op = op /\ inst.rd = rd(w) /\ inst.rs1 = {} /\ inst.rs2 = {}
  BY DEF Jump, Decoded
<1>2. /\ ImmediateAt("J", inst.imm) = w \cap (12 .. 31)
      /\ IsImmediate("J", inst.imm) /\ inst.imm \subseteq 0 .. 63
  BY DEF Jump, Decoded, ImmediateAt, ImmediateBit, IsImmediate, ImmediateBits,
     Sign, sext, Shl, getBits, RawWord
<1>. HIDE DEF inst
<1>3. Encode(inst) = Ones(op) \cup (w \ FixedBy("J"))
  BY <1>1, <1>2, RegistersSpread DEF Encode, ImmediateAt, HasRd, HasRs1, HasRs2, FixedBy, RawWord
<1>. QED
  BY <1>1, <1>2, <1>3, RegistersSpread DEF Spread, IsOperands, inst

\* Immediate forms, loads and JALR.
LEMMA ImmediateSpread ==
  ASSUME NEW w \in RawWord, NEW op, Table[op].fmt = "I"
  PROVE  Spread(Immediate(op, w), w)
<1>. DEFINE inst == Immediate(op, w)
<1>1. inst.op = op /\ inst.rd = rd(w) /\ inst.rs1 = rs1(w) /\ inst.rs2 = {}
  BY DEF Immediate, Decoded
<1>2. /\ ImmediateAt("I", inst.imm) = w \cap (20 .. 31)
      /\ IsImmediate("I", inst.imm) /\ inst.imm \subseteq 0 .. 63
  BY DEF Immediate, Decoded, ImmediateAt, ImmediateBit, IsImmediate, ImmediateBits,
     Sign, sext, Shl, getBits, RawWord
<1>. HIDE DEF inst
<1>3. Encode(inst) = Ones(op) \cup (w \ FixedBy("I"))
  BY <1>1, <1>2, RegistersSpread DEF Encode, ImmediateAt, HasRd, HasRs1, HasRs2, FixedBy, RawWord
<1>. QED
  BY <1>1, <1>2, <1>3, RegistersSpread DEF Spread, IsOperands, inst

\* The offset of a store is put together from its two pieces.
LEMMA StoreSpread ==
  ASSUME NEW w \in RawWord, NEW op, Table[op].fmt = "S"
  PROVE  Spread(StoreTo(op, w), w)
<1>. DEFINE inst == StoreTo(op, w)
<1>1. inst.op = op /\ inst.rd = {} /\ inst.rs1 = rs1(w) /\ inst.rs2 = rs2(w)
  BY DEF StoreTo, Decoded
<1>2. /\ ImmediateAt("S", inst.imm) = w \cap (7 .. 11 \cup 25 .. 31)
      /\ IsImmediate("S", inst.imm) /\ inst.imm \subseteq 0 .. 63
  BY DEF StoreTo, Decoded, ImmediateAt, ImmediateBit, IsImmediate, ImmediateBits,
     Sign, sext, Shl, getBits, RawWord
<1>. HIDE DEF inst
<1>3. Encode(inst) = Ones(op) \cup (w \ FixedBy("S"))
  BY <1>1, <1>2, RegistersSpread DEF Encode, ImmediateAt, HasRd, HasRs1, HasRs2, FixedBy, RawWord
<1>. QED
  BY <1>1, <1>2, <1>3, RegistersSpread DEF Spread, IsOperands, inst

\* The offset of a branch is put together from its four pieces.
LEMMA BranchSpread ==
  ASSUME NEW w \in RawWord, NEW op, Table[op].fmt = "B"
  PROVE  Spread(Branch(op, w), w)
<1>. DEFINE inst == Branch(op, w)
<1>1. inst.op = op /\ inst.rd = {} /\ inst.rs1 = rs1(w) /\ inst.rs2 = rs2(w)
  BY DEF Branch, Decoded
<1>2. /\ ImmediateAt("B", inst.imm) = w \cap (7 .. 11 \cup 25 .. 31)
      /\ IsImmediate("B", inst.imm) /\ inst.imm \subseteq 0 .. 63
  BY DEF Branch, Decoded, ImmediateAt, ImmediateBit, IsImmediate, ImmediateBits,
     Sign, sext, Shl, getBits, RawWord
<1>. HIDE DEF inst
<1>3. Encode(inst) = Ones(op) \cup (w \ FixedBy("B"))
  BY <1>1, <1>2, RegistersSpread DEF Encode, ImmediateAt, HasRd, HasRs1, HasRs2, FixedBy, RawWord
<1>. QED
  BY <1>1, <1>2, <1>3, RegistersSpread DEF Spread, IsOperands, inst

\* The amount of a shift has six bits, of a word shift five.
LEMMA DoubleShiftSpread ==
  ASSUME NEW w \in RawWord, NEW op, Table[op].fmt = "Sh6"
  PROVE  Spread(ShiftAmount(op, w, 25), w)
<1>. DEFINE inst == ShiftAmount(op, w, 25)
<1>1. inst.op = op /\ inst.rd = rd(w) /\ inst.rs1 = rs1(w) /\ inst.rs2 = {}
  BY DEF ShiftAmount, Decoded
<1>2. /\ ImmediateAt("Sh6", inst.imm) = w \cap (20 .. 25)
      /\ IsImmediate("Sh6", inst.imm) /\ inst.imm \subseteq 0 .. 63
  BY DEF ShiftAmount, Decoded, ImmediateAt, ImmediateBit, IsImmediate, ImmediateBits,
     Sign, sext, Shl, getBits, RawWord
<1>. HIDE DEF inst
<1>3. Encode(inst) = Ones(op) \cup (w \ FixedBy("Sh6"))
  BY <1>1, <1>2, RegistersSpread DEF Encode, ImmediateAt, HasRd, HasRs1, HasRs2, FixedBy, RawWord
<1>. QED
  BY <1>1, <1>2, <1>3, RegistersSpread DEF Spread, IsOperands, inst

\* The amount of a word shift.
LEMMA WordShiftSpread ==
  ASSUME NEW w \in RawWord, NEW op, Table[op].fmt = "Sh5"
  PROVE  Spread(ShiftAmount(op, w, 24), w)
<1>. DEFINE inst == ShiftAmount(op, w, 24)
<1>1. inst.op = op /\ inst.rd = rd(w) /\ inst.rs1 = rs1(w) /\ inst.rs2 = {}
  BY DEF ShiftAmount, Decoded
<1>2. /\ ImmediateAt("Sh5", inst.imm) = w \cap (20 .. 24)
      /\ IsImmediate("Sh5", inst.imm) /\ inst.imm \subseteq 0 .. 63
  BY DEF ShiftAmount, Decoded, ImmediateAt, ImmediateBit, IsImmediate, ImmediateBits,
     Sign, sext, Shl, getBits, RawWord
<1>. HIDE DEF inst
<1>3. Encode(inst) = Ones(op) \cup (w \ FixedBy("Sh5"))
  BY <1>1, <1>2, RegistersSpread DEF Encode, ImmediateAt, HasRd, HasRs1, HasRs2, FixedBy, RawWord
<1>. QED
  BY <1>1, <1>2, <1>3, RegistersSpread DEF Spread, IsOperands, inst

\* Three registers and no immediate.
LEMMA RegisterSpread ==
  ASSUME NEW w \in RawWord, NEW op, Table[op].fmt = "R"
  PROVE  Spread(Register(op, w), w)
<1>. DEFINE inst == Register(op, w)
<1>1. inst.op = op /\ inst.rd = rd(w) /\ inst.rs1 = rs1(w) /\ inst.rs2 = rs2(w)
  BY DEF Register, Decoded
<1>2. /\ ImmediateAt("R", inst.imm) = w \cap ({})
      /\ IsImmediate("R", inst.imm) /\ inst.imm \subseteq 0 .. 63
  BY DEF Register, Decoded, ImmediateAt, ImmediateBit, IsImmediate, ImmediateBits,
     Sign, sext, Shl, getBits, RawWord
<1>. HIDE DEF inst
<1>3. Encode(inst) = Ones(op) \cup (w \ FixedBy("R"))
  BY <1>1, <1>2, RegistersSpread DEF Encode, ImmediateAt, HasRd, HasRs1, HasRs2, FixedBy, RawWord
<1>. QED
  BY <1>1, <1>2, <1>3, RegistersSpread DEF Spread, IsOperands, inst

\* No operand at all: every bit is fixed.
LEMMA NothingSpread ==
  ASSUME NEW w \in RawWord, NEW op, Table[op].fmt = "Sys"
  PROVE  Spread(NoOperands(op), w)
<1>1. IsImmediate("Sys", {}) /\ ImmediateAt("Sys", {}) = {}
  BY DEF IsImmediate, ImmediateBits, Sign, ImmediateAt, ImmediateBit
<1>. QED
  BY <1>1 DEF NoOperands, Decoded, Spread, IsOperands, Encode, ImmediateAt, HasRd, HasRs1, HasRs2,
     FixedBy, RawWord

(***************************************************************************)
(* A word that decodes.                                                    *)
(***************************************************************************)
\* The tables of opcodes by funct3 and funct7 are those of the architecture.
\* What the tables by funct3 and funct7 find has that funct3 and their opcode.
LEMMA BranchTable ==
  ASSUME NEW f, BranchOps(f) # "UNKNOWN"
  PROVE  BranchOps(f) \in Op /\ Table[BranchOps(f)] = Row("B", {0, 1, 5, 6}, f, {})
<1>1. BranchOps(f) \in Branches /\ Table[BranchOps(f)] = Row("B", {0, 1, 5, 6}, f, {})
  BY BranchRows DEF BranchOps, Branches
<1>. QED
  BY <1>1, Groups

\* The loads.
LEMMA LoadTable ==
  ASSUME NEW f, LoadOps(f) # "UNKNOWN"
  PROVE  LoadOps(f) \in Op /\ LoadOps(f) # "JALR" /\ Table[LoadOps(f)] = Row("I", {0, 1}, f, {})
<1>1. /\ LoadOps(f) \in Loads /\ LoadOps(f) # "JALR"
      /\ Table[LoadOps(f)] = Row("I", {0, 1}, f, {})
  BY LoadRows DEF LoadOps, Loads
<1>. QED
  BY <1>1, Groups

\* The stores.
LEMMA StoreTable ==
  ASSUME NEW f, StoreOps(f) # "UNKNOWN"
  PROVE  StoreOps(f) \in Op /\ Table[StoreOps(f)] = Row("S", {0, 1, 5}, f, {})
<1>1. StoreOps(f) \in Stores /\ Table[StoreOps(f)] = Row("S", {0, 1, 5}, f, {})
  BY StoreRows DEF StoreOps, Stores
<1>. QED
  BY <1>1, Groups

\* The immediate forms that are no shifts.
LEMMA PlainImmTable ==
  ASSUME NEW f, ImmediateOps(f) # "UNKNOWN"
  PROVE  ImmediateOps(f) \in Op /\ Table[ImmediateOps(f)] = Row("I", {0, 1, 4}, f, {})
<1>1. ImmediateOps(f) \in PlainImms /\ Table[ImmediateOps(f)] = Row("I", {0, 1, 4}, f, {})
  BY PlainImmRows DEF ImmediateOps, PlainImms
<1>. QED
  BY <1>1, Groups

\* The register forms of 64 bits; not all of funct7 is compared.
LEMMA DoubleRegTable ==
  ASSUME NEW f, NEW f7, RegisterOps(f, f7) # "UNKNOWN"
  PROVE  LET op == RegisterOps(f, f7) IN
           /\ op \in Op
           /\ Table[op].fmt = "R" /\ Table[op].opc = {0, 1, 4, 5} /\ Table[op].f3 = f
<1>. DEFINE op == RegisterOps(f, f7)
<1>1. \/ f = {} /\ op \in {"ADD", "SUB"}
      \/ f = {0} /\ op = "SLL"
      \/ f = {1} /\ op = "SLT"
      \/ f = {0, 1} /\ op = "SLTU"
      \/ f = {2} /\ op = "XOR"
      \/ f = {0, 2} /\ op \in {"SRL", "SRA"}
      \/ f = {1, 2} /\ op = "OR"
      \/ f = {0, 1, 2} /\ op = "AND"
  BY DEF RegisterOps
<1>. HIDE DEF op
<1>2. op \in DoubleRegs
  BY <1>1 DEF DoubleRegs
<1>3. Table[op].fmt = "R" /\ Table[op].opc = {0, 1, 4, 5}
  BY <1>2, DoubleRegRows DEF DoubleRegs, Row
<1>4. /\ Table["ADD"].f3 = {} /\ Table["SUB"].f3 = {} /\ Table["SLL"].f3 = {0}
      /\ Table["SLT"].f3 = {1} /\ Table["SLTU"].f3 = {0, 1} /\ Table["XOR"].f3 = {2}
      /\ Table["SRL"].f3 = {0, 2} /\ Table["SRA"].f3 = {0, 2} /\ Table["OR"].f3 = {1, 2}
      /\ Table["AND"].f3 = {0, 1, 2}
  BY DoubleRegRows DEF Row
<1>5. Table[op].f3 = f
  BY <1>1, <1>4
<1>. QED
  BY <1>2, <1>3, <1>5, Groups DEF op

\* The register forms of 32 bits.
LEMMA WordRegTable ==
  ASSUME NEW f, NEW f7, RegisterWordOps(f, f7) # "UNKNOWN"
  PROVE  LET op == RegisterWordOps(f, f7) IN
           /\ op \in Op
           /\ Table[op].fmt = "R" /\ Table[op].opc = {0, 1, 3, 4, 5} /\ Table[op].f3 = f
<1>. DEFINE op == RegisterWordOps(f, f7)
<1>1. /\ op \in WordRegs
      /\ Table[op].fmt = "R" /\ Table[op].opc = {0, 1, 3, 4, 5} /\ Table[op].f3 = f
  BY WordRegRows, SMTT(30) DEF RegisterWordOps, WordRegs, Row
<1>. QED
  BY <1>1, Groups

\* The instruction is one of the table, the word agrees with it in all that the
\* decoder looks at and its operands are those of the word.
IsTrue(inst, w) == inst.op \in Op /\ Checked(inst.op, w) /\ Spread(inst, w)

\* The switch over the immediate forms of 64 bits.
LEMMA OpImmTrue ==
  ASSUME NEW w \in RawWord, getBits(w, 6, 0) = {0, 1, 4}, OpImm(w).op # "UNKNOWN"
  PROVE  IsTrue(OpImm(w), w)
<1>1. CASE funct3(w) = {0}
  <2>1. OpImm(w) = ShiftAmount("SLLI", w, 25) /\ OpImm(w).op = "SLLI"
    BY <1>1 DEF OpImm, ShiftAmount, Decoded
  <2>2. "SLLI" \in Op /\ Table["SLLI"] = Row("Sh6", {0, 1, 4}, {0}, {})
    BY ShiftImmRows, Groups DEF ShiftImms
  <2>3. Checked("SLLI", w)
    <3>1. Table["SLLI"].fmt = "Sh6" /\ Table["SLLI"].opc = {0, 1, 4} /\ Table["SLLI"].f3 = {0}
      BY <2>2 DEF Row
    <3>. QED
      BY <1>1, <2>2, <3>1, ChecksFields
  <2>. QED
    BY <2>1, <2>2, <2>3, DoubleShiftSpread DEF IsTrue, Row
<1>2. CASE funct3(w) = {0, 2}
  <2>1. OpImm(w) = ShiftAmount(RightShift(funct7(w), "SRLI", "SRAI"), w, 25)
    BY <1>2 DEF OpImm
  <2>2. \E op \in {"SRLI", "SRAI"} :
          /\ OpImm(w) = ShiftAmount(op, w, 25) /\ OpImm(w).op = op
          /\ op \in Op /\ Table[op] = Row("Sh6", {0, 1, 4}, {0, 2}, funct7(w))
    <3>1. \/ funct7(w) = {} /\ RightShift(funct7(w), "SRLI", "SRAI") = "SRLI"
          \/ funct7(w) = {5} /\ RightShift(funct7(w), "SRLI", "SRAI") = "SRAI"
      BY <2>1 DEF RightShift, ShiftAmount, Decoded
    <3>. QED
      BY <2>1, <3>1, ShiftImmRows, Groups DEF ShiftImms, ShiftAmount, Decoded
  <2>3. PICK op \in {"SRLI", "SRAI"} :
          /\ OpImm(w) = ShiftAmount(op, w, 25) /\ OpImm(w).op = op
          /\ op \in Op /\ Table[op] = Row("Sh6", {0, 1, 4}, {0, 2}, funct7(w))
    BY <2>2
  <2>4. Checked(op, w)
    <3>1. /\ Table[op].fmt = "Sh6" /\ Table[op].opc = {0, 1, 4}
          /\ Table[op].f3 = funct3(w) /\ Table[op].f7 = funct7(w)
      BY <1>2, <2>3 DEF Row
    <3>. QED
      BY <2>3, <3>1, ChecksFields
  <2>. QED
    BY <2>3, <2>4, DoubleShiftSpread DEF IsTrue, Row
<1>3. CASE funct3(w) # {0} /\ funct3(w) # {0, 2}
  <2>. DEFINE op == ImmediateOps(funct3(w))
  <2>1. OpImm(w) = Immediate(op, w) /\ OpImm(w).op = op
    BY <1>3 DEF OpImm, Immediate, Decoded
  <2>2. op \in Op /\ Table[op] = Row("I", {0, 1, 4}, funct3(w), {})
    BY <2>1, PlainImmTable
  <2>. HIDE DEF op
  <2>3. Checked(op, w)
    <3>1. Table[op].fmt = "I" /\ Table[op].opc = {0, 1, 4} /\ Table[op].f3 = funct3(w)
      BY <2>2 DEF Row
    <3>. QED
      BY <2>2, <3>1, ChecksFields
  <2>. QED
    BY <2>1, <2>2, <2>3, ImmediateSpread DEF IsTrue, Row
<1>. QED
  BY <1>1, <1>2, <1>3

\* The switch over the immediate forms of 32 bits.
LEMMA OpImm32True ==
  ASSUME NEW w \in RawWord, getBits(w, 6, 0) = {0, 1, 3, 4}, OpImm32(w).op # "UNKNOWN"
  PROVE  IsTrue(OpImm32(w), w)
<1>1. CASE funct3(w) = {}
  <2>1. OpImm32(w) = Immediate("ADDIW", w) /\ OpImm32(w).op = "ADDIW"
    BY <1>1 DEF OpImm32, Immediate, Decoded
  <2>2. "ADDIW" \in Op /\ Table["ADDIW"] = Row("I", {0, 1, 3, 4}, {}, {})
    BY WordImmRows, Groups DEF WordImms
  <2>3. Checked("ADDIW", w)
    BY <1>1, <2>2, ChecksFields DEF Row
  <2>. QED
    BY <2>1, <2>2, <2>3, ImmediateSpread DEF IsTrue, Row
<1>2. CASE funct3(w) # {}
  <2>1. \E op \in {"SLLIW", "SRLIW", "SRAIW"} :
          /\ OpImm32(w) = ShiftAmount(op, w, 24)
          /\ Table[op] = Row("Sh5", {0, 1, 3, 4}, funct3(w), funct7(w))
    <3>1. \/ funct3(w) = {0} /\ funct7(w) = {} /\ OpImm32(w) = ShiftAmount("SLLIW", w, 24)
          \/ funct3(w) = {0, 2} /\ funct7(w) = {} /\ OpImm32(w) = ShiftAmount("SRLIW", w, 24)
          \/ funct3(w) = {0, 2} /\ funct7(w) = {5} /\ OpImm32(w) = ShiftAmount("SRAIW", w, 24)
      BY <1>2 DEF OpImm32, RightShift, ShiftAmount, Decoded, NoOperands
    <3>. QED
      BY <3>1, WordImmRows
  <2>2. PICK op \in {"SLLIW", "SRLIW", "SRAIW"} :
          /\ OpImm32(w) = ShiftAmount(op, w, 24)
          /\ Table[op] = Row("Sh5", {0, 1, 3, 4}, funct3(w), funct7(w))
    BY <2>1
  <2>3. op \in Op /\ OpImm32(w).op = op
    BY <2>2, Groups DEF WordImms, ShiftAmount, Decoded
  <2>4. Checked(op, w)
    BY <2>2, <2>3, ChecksFields DEF Row
  <2>. QED
    BY <2>2, <2>3, <2>4, WordShiftSpread DEF IsTrue, Row
<1>. QED
  BY <1>1, <1>2

\* The environment calls.
LEMMA SystemTrue ==
  ASSUME NEW w \in RawWord, getBits(w, 6, 0) = {0, 1, 4, 5, 6}, System(w).op # "UNKNOWN"
  PROVE  IsTrue(System(w), w)
<1>1. \E op \in {"ECALL", "EBREAK"} :
        /\ System(w) = NoOperands(op) /\ funct3(w) = {}
        /\ Table[op] = Row("Sys", {0, 1, 4, 5, 6}, {}, getBits(w, 31, 20))
  <2>1. \/ funct3(w) = {} /\ getBits(w, 31, 20) = {} /\ System(w) = NoOperands("ECALL")
        \/ funct3(w) = {} /\ getBits(w, 31, 20) = {0} /\ System(w) = NoOperands("EBREAK")
    BY DEF System, NoOperands, Decoded
  <2>. QED
    BY <2>1, SystemRows
<1>2. PICK op \in {"ECALL", "EBREAK"} :
        /\ System(w) = NoOperands(op) /\ funct3(w) = {}
        /\ Table[op] = Row("Sys", {0, 1, 4, 5, 6}, {}, getBits(w, 31, 20))
  BY <1>1
<1>3. op \in Op /\ System(w).op = op
  BY <1>2, Groups DEF Systems, NoOperands, Decoded
<1>4. Checked(op, w)
  <2>1. /\ Table[op].fmt = "Sys" /\ Table[op].opc = {0, 1, 4, 5, 6}
        /\ Table[op].f3 = funct3(w) /\ Table[op].f7 = getBits(w, 31, 20)
    BY <1>2 DEF Row
  <2>. QED
    BY <1>3, <2>1, ChecksFields
<1>5. Spread(NoOperands(op), w)
  BY <1>2, NothingSpread DEF Row
<1>. QED
  BY <1>2, <1>3, <1>4, <1>5 DEF IsTrue

\* A fence.
LEMMA FenceTrue ==
  ASSUME NEW w \in RawWord, getBits(w, 6, 0) = {0, 1, 2, 3}
  PROVE  IsTrue(ByOpcode(w), w)
<1>1. ByOpcode(w) = NoOperands("FENCE")
  BY DEF ByOpcode
<1>2. /\ "FENCE" \in Op
      /\ Table["FENCE"].fmt = "F" /\ Table["FENCE"].opc = {0, 1, 2, 3}
  BY SystemRows, Groups DEF Systems, Row
<1>3. Checked("FENCE", w)
  BY <1>2, ChecksFields
<1>4. IsImmediate("F", {})
  BY DEF IsImmediate, ImmediateBits, Sign
<1>. QED
  BY <1>1, <1>2, <1>3, <1>4 DEF IsTrue, Spread, IsOperands, NoOperands, Decoded

\* Every word that decodes is one of the instruction it decodes to.
LEMMA DecodeTrue ==
  ASSUME NEW w \in RawWord, Decode(w).op # "UNKNOWN"
  PROVE  IsTrue(Decode(w), w)
<1>. DEFINE opc == getBits(w, 6, 0)
<1>1. Decode(w) = ByOpcode(w) /\ ByOpcode(w).op # "UNKNOWN"
  BY DEF Decode, NoOperands, Decoded
<1>. SUFFICES IsTrue(ByOpcode(w), w)
  BY <1>1
<1>2. CASE opc \in {{0, 1, 2, 4, 5}, {0, 1, 2, 4}}
  <2>1. PICK op \in Uppers : /\ ByOpcode(w) = UpperImmediate(op, w)
                             /\ Table[op].fmt = "U" /\ Table[op].opc = opc
    <3>1. \/ opc = {0, 1, 2, 4, 5} /\ ByOpcode(w) = UpperImmediate("LUI", w)
          \/ opc = {0, 1, 2, 4} /\ ByOpcode(w) = UpperImmediate("AUIPC", w)
      BY <1>2 DEF ByOpcode
    <3>2. /\ Table["LUI"].fmt = "U" /\ Table["LUI"].opc = {0, 1, 2, 4, 5}
          /\ Table["AUIPC"].fmt = "U" /\ Table["AUIPC"].opc = {0, 1, 2, 4}
      BY UpperRows DEF Row
    <3>. QED
      BY <3>1, <3>2 DEF Uppers
  <2>2. op \in Op /\ ByOpcode(w).op = op
    BY <2>1, Groups DEF UpperImmediate, Decoded
  <2>3. Checked(op, w)
    BY <2>1, <2>2, ChecksFields
  <2>. QED
    BY <2>1, <2>2, <2>3, UpperSpread DEF IsTrue
<1>3. CASE opc = {0, 1, 2, 3, 5, 6}
  <2>1. ByOpcode(w) = Jump("JAL", w)
    BY <1>3 DEF ByOpcode
  <2>2. /\ "JAL" \in Op /\ ByOpcode(w).op = "JAL"
        /\ Table["JAL"].fmt = "J" /\ Table["JAL"].opc = opc
    BY <1>3, <2>1, JumpRows, Groups DEF Jump, Jumps, Decoded, Row
  <2>3. Checked("JAL", w)
    BY <2>2, ChecksFields
  <2>. QED
    BY <2>1, <2>2, <2>3, JumpSpread DEF IsTrue
<1>4. CASE opc = {0, 1, 2, 5, 6}
  <2>1. ByOpcode(w) = Immediate("JALR", w)
    BY <1>4 DEF ByOpcode
  <2>2. /\ "JALR" \in Op /\ ByOpcode(w).op = "JALR"
        /\ Table["JALR"].fmt = "I" /\ Table["JALR"].opc = opc
    BY <1>4, <2>1, JumpRows, Groups DEF Immediate, Jumps, Decoded, Row
  <2>3. Checked("JALR", w)
    BY <2>2, ChecksFields
  <2>. QED
    BY <2>1, <2>2, <2>3, ImmediateSpread DEF IsTrue
<1>5. CASE opc = {0, 1, 5, 6}
  <2>. DEFINE op == BranchOps(funct3(w))
  <2>1. ByOpcode(w) = Branch(op, w) /\ ByOpcode(w).op = op
    <3>1. ByOpcode(w) = Branch(op, w)
      BY <1>5 DEF ByOpcode
    <3>. QED
      BY <3>1 DEF Branch, Decoded
  <2>2. op \in Op /\ Table[op] = Row("B", {0, 1, 5, 6}, funct3(w), {})
    BY <1>1, <2>1, BranchTable
  <2>. HIDE DEF op
  <2>3. Table[op].fmt = "B" /\ Table[op].opc = opc /\ Table[op].f3 = funct3(w)
    BY <1>5, <2>2 DEF Row
  <2>4. Checked(op, w)
    BY <2>2, <2>3, ChecksFields
  <2>. QED
    BY <2>1, <2>2, <2>3, <2>4, BranchSpread DEF IsTrue
<1>6. CASE opc = {0, 1}
  <2>. DEFINE op == LoadOps(funct3(w))
  <2>1. ByOpcode(w) = Immediate(op, w) /\ ByOpcode(w).op = op
    BY <1>6 DEF ByOpcode, Immediate, Decoded
  <2>2. op \in Op /\ Table[op] = Row("I", opc, funct3(w), {})
    BY <1>1, <1>6, <2>1, LoadTable
  <2>. HIDE DEF op
  <2>3. Table[op].fmt = "I" /\ Table[op].opc = opc /\ Table[op].f3 = funct3(w)
    BY <2>2 DEF Row
  <2>4. Checked(op, w)
    BY <2>2, <2>3, ChecksFields
  <2>. QED
    BY <2>1, <2>2, <2>3, <2>4, ImmediateSpread DEF IsTrue
<1>7. CASE opc = {0, 1, 5}
  <2>. DEFINE op == StoreOps(funct3(w))
  <2>1. ByOpcode(w) = StoreTo(op, w) /\ ByOpcode(w).op = op
    BY <1>7 DEF ByOpcode, StoreTo, Decoded
  <2>2. op \in Op /\ Table[op] = Row("S", opc, funct3(w), {})
    BY <1>1, <1>7, <2>1, StoreTable
  <2>. HIDE DEF op
  <2>3. Table[op].fmt = "S" /\ Table[op].opc = opc /\ Table[op].f3 = funct3(w)
    BY <2>2 DEF Row
  <2>4. Checked(op, w)
    BY <2>2, <2>3, ChecksFields
  <2>. QED
    BY <2>1, <2>2, <2>3, <2>4, StoreSpread DEF IsTrue
<1>8. CASE opc = {0, 1, 4}
  <2>1. ByOpcode(w) = OpImm(w)
    BY <1>8 DEF ByOpcode
  <2>. QED
    BY <1>1, <1>8, <2>1, OpImmTrue
<1>9. CASE opc = {0, 1, 3, 4}
  <2>1. ByOpcode(w) = OpImm32(w)
    BY <1>9 DEF ByOpcode
  <2>. QED
    BY <1>1, <1>9, <2>1, OpImm32True
<1>10. CASE opc = {0, 1, 4, 5}
  <2>. DEFINE op == RegisterOps(funct3(w), funct7(w))
  <2>1. ByOpcode(w) = Register(op, w) /\ ByOpcode(w).op = op
    BY <1>10 DEF ByOpcode, Register, Decoded
  <2>2. /\ op \in Op
        /\ Table[op].fmt = "R" /\ Table[op].opc = opc /\ Table[op].f3 = funct3(w)
    BY <1>1, <1>10, <2>1, DoubleRegTable
  <2>. HIDE DEF op
  <2>3. Checked(op, w)
    BY <2>2, ChecksFields
  <2>. QED
    BY <2>1, <2>2, <2>3, RegisterSpread DEF IsTrue
<1>11. CASE opc = {0, 1, 3, 4, 5}
  <2>. DEFINE op == RegisterWordOps(funct3(w), funct7(w))
  <2>1. ByOpcode(w) = Register(op, w) /\ ByOpcode(w).op = op
    BY <1>11 DEF ByOpcode, Register, Decoded
  <2>2. /\ op \in Op
        /\ Table[op].fmt = "R" /\ Table[op].opc = opc /\ Table[op].f3 = funct3(w)
    BY <1>1, <1>11, <2>1, WordRegTable
  <2>. HIDE DEF op
  <2>3. Checked(op, w)
    BY <2>2, ChecksFields
  <2>. QED
    BY <2>1, <2>2, <2>3, RegisterSpread DEF IsTrue
<1>12. CASE opc = {0, 1, 2, 3}
  BY <1>12, FenceTrue
<1>13. CASE opc = {0, 1, 4, 5, 6}
  <2>1. ByOpcode(w) = System(w)
    BY <1>13 DEF ByOpcode
  <2>. QED
    BY <1>1, <1>13, <2>1, SystemTrue
<1>14. opc \in {{0, 1, 2, 4, 5}, {0, 1, 2, 4}, {0, 1, 2, 3, 5, 6}, {0, 1, 2, 5, 6},
                {0, 1, 5, 6}, {0, 1}, {0, 1, 5}, {0, 1, 4}, {0, 1, 3, 4}, {0, 1, 4, 5},
                {0, 1, 3, 4, 5}, {0, 1, 2, 3}, {0, 1, 4, 5, 6}}
  BY <1>1 DEF ByOpcode, NoOperands, Decoded
<1>. HIDE DEF opc
<1>. QED
  BY <1>2, <1>3, <1>4, <1>5, <1>6, <1>7, <1>8, <1>9, <1>10, <1>11, <1>12, <1>13, <1>14

\* What the decoder does not look at is fixed by the instruction.
LEMMA UncheckedFixed ==
  ASSUME NEW op \in Op
  PROVE  Unchecked(op) \subseteq Fixed(op)
<1>1. CASE op \in {"JALR", "SLLI", "FENCE", "ECALL", "EBREAK"}
  BY <1>1, JumpRows, ShiftImmRows, SystemRows DEF Unchecked, Fixed, FixedBy, Row
<1>2. CASE op \notin {"JALR", "SLLI", "FENCE", "ECALL", "EBREAK"}
  BY <1>2 DEF Unchecked, Fixed, FixedBy
<1>. QED
  BY <1>1, <1>2

\* The ones of an instruction are among its fixed positions.
LEMMA OnesFixed ==
  ASSUME NEW op \in Op
  PROVE  Ones(op) \subseteq Fixed(op)
<1>. DEFINE r == Table[op]
<1>1. IsRow(r) /\ Fixed(op) = FixedBy(r.fmt)
  BY RowTypes DEF Fixed
<1>2. CASE r.fmt \in {"U", "J", "I", "B", "S", "F"}
  BY <1>1, <1>2 DEF Ones, FixedBy, At, IsRow
<1>3. CASE r.fmt \in {"R", "Sh5", "Sh6"}
  BY <1>1, <1>3 DEF Ones, FixedBy, At, IsRow
<1>4. CASE r.fmt = "Sys"
  BY <1>1, <1>4 DEF Ones, FixedBy, At, IsRow
<1>. QED
  BY <1>1, <1>2, <1>3, <1>4 DEF IsRow

\* A true instruction encodes to the word.
LEMMA TrueEncodes ==
  ASSUME NEW w \in RawWord, NEW inst, IsTrue(inst, w)
  PROVE  Encodes(inst, w)
<1>. DEFINE op == inst.op
            u  == Unchecked(op)
            word == (w \ u) \cup (Ones(op) \cap u)
<1>1. /\ op \in Op /\ u \subseteq Fixed(op) /\ Ones(op) \subseteq Fixed(op)
      /\ \A p \in Fixed(op) \ u : p \in w <=> p \in Ones(op)
  BY UncheckedFixed, OnesFixed DEF IsTrue, Checked
<1>2. /\ IsImmediate(Table[op].fmt, inst.imm)
      /\ op # "FENCE" => Encode(inst) = Ones(op) \cup (w \ Fixed(op))
  BY DEF IsTrue, Spread, Fixed
<1>. HIDE DEF u
<1>3. word \cap Fixed(op) = Ones(op) /\ word = Ones(op) \cup (w \ Fixed(op))
  BY <1>1
<1>. QED
  BY <1>1, <1>2, <1>3 DEF Encodes, Matches, u

(***************************************************************************)
(* A word of RV64I.                                                        *)
(***************************************************************************)
\* The tables of opcodes by funct3 and funct7 have all of them.
LEMMA TablesComplete ==
  ASSUME NEW op
  PROVE  LET r == Table[op] IN
           /\ op \in Branches => r.opc = {0, 1, 5, 6} /\ r.fmt = "B" /\ BranchOps(r.f3) = op
           /\ op \in Loads => r.opc = {0, 1} /\ r.fmt = "I" /\ LoadOps(r.f3) = op
           /\ op \in Stores => r.opc = {0, 1, 5} /\ r.fmt = "S" /\ StoreOps(r.f3) = op
           /\ op \in PlainImms => /\ r.opc = {0, 1, 4} /\ r.fmt = "I"
                                 /\ r.f3 \notin {{0}, {0, 2}} /\ ImmediateOps(r.f3) = op
           /\ op \in DoubleRegs => /\ r.opc = {0, 1, 4, 5} /\ r.fmt = "R"
                                  /\ RegisterOps(r.f3, r.f7) = op
           /\ op \in WordRegs => /\ r.opc = {0, 1, 3, 4, 5} /\ r.fmt = "R"
                                /\ RegisterWordOps(r.f3, r.f7) = op
<1>. DEFINE r == Table[op]
<1>1. op \in Branches => r.opc = {0, 1, 5, 6} /\ r.fmt = "B" /\ BranchOps(r.f3) = op
  BY BranchRows DEF Branches, BranchOps, Row
<1>2. op \in Loads => r.opc = {0, 1} /\ r.fmt = "I" /\ LoadOps(r.f3) = op
  BY LoadRows DEF Loads, LoadOps, Row
<1>3. op \in Stores => r.opc = {0, 1, 5} /\ r.fmt = "S" /\ StoreOps(r.f3) = op
  BY StoreRows DEF Stores, StoreOps, Row
<1>4. op \in PlainImms => /\ r.opc = {0, 1, 4} /\ r.fmt = "I"
                          /\ r.f3 \notin {{0}, {0, 2}} /\ ImmediateOps(r.f3) = op
  BY PlainImmRows DEF PlainImms, ImmediateOps, Row
<1>5. op \in DoubleRegs => r.opc = {0, 1, 4, 5} /\ r.fmt = "R" /\ RegisterOps(r.f3, r.f7) = op
  BY DoubleRegRows, SMTT(30) DEF DoubleRegs, RegisterOps, Row
<1>6. op \in WordRegs => r.opc = {0, 1, 3, 4, 5} /\ r.fmt = "R" /\ RegisterWordOps(r.f3, r.f7) = op
  BY WordRegRows DEF WordRegs, RegisterWordOps, Row
<1>. QED
  BY <1>1, <1>2, <1>3, <1>4, <1>5, <1>6

\* Every word of the base set decodes, to the instruction it is an encoding of,
\* unless it shifts right past 31.
LEMMA MatchesDecode ==
  ASSUME NEW w \in RawWord, NEW op \in Op, Matches(op, w), ~ ShiftsPast31(op, w)
  PROVE  Decode(w).op = op
<1>. DEFINE r == Table[op]
<1>1. /\ getBits(w, 6, 0) = r.opc
      /\ r.fmt \notin {"U", "J"} => funct3(w) = r.f3
      /\ r.fmt = "Sh6" => funct7(w) \ {0} = r.f7
      /\ r.fmt \in {"Sh5", "R"} => funct7(w) = r.f7
      /\ r.fmt = "Sys" => getBits(w, 31, 20) = r.f7
  BY MatchesFields
<1>2. op # "UNKNOWN"
  BY Groups DEF Uppers, Jumps, Branches, Loads, Stores, PlainImms, ShiftImms, WordImms,
     DoubleRegs, WordRegs, Systems
<1>. SUFFICES ByOpcode(w).op = op
  BY <1>2 DEF Decode
<1>3. CASE op \in Uppers \cup Jumps
  <2>1. /\ op = "LUI" => r.opc = {0, 1, 2, 4, 5}
        /\ op = "AUIPC" => r.opc = {0, 1, 2, 4}
        /\ op = "JAL" => r.opc = {0, 1, 2, 3, 5, 6}
        /\ op = "JALR" => r.opc = {0, 1, 2, 5, 6}
    BY UpperRows, JumpRows DEF Row
  <2>. QED
    BY <1>1, <1>3, <2>1 DEF ByOpcode, Uppers, Jumps, UpperImmediate, Jump, Immediate, Decoded
<1>4. CASE op \in Branches
  <2>1. r.opc = {0, 1, 5, 6} /\ r.fmt = "B" /\ BranchOps(r.f3) = op
    BY <1>4, TablesComplete
  <2>2. ByOpcode(w) = Branch(op, w)
    BY <1>1, <2>1 DEF ByOpcode
  <2>. QED
    BY <2>2 DEF Branch, Decoded
<1>5. CASE op \in Loads
  <2>1. r.opc = {0, 1} /\ r.fmt = "I" /\ LoadOps(r.f3) = op
    BY <1>5, TablesComplete
  <2>2. ByOpcode(w) = Immediate(op, w)
    BY <1>1, <2>1 DEF ByOpcode
  <2>. QED
    BY <2>2 DEF Immediate, Decoded
<1>6. CASE op \in Stores
  <2>1. r.opc = {0, 1, 5} /\ r.fmt = "S" /\ StoreOps(r.f3) = op
    BY <1>6, TablesComplete
  <2>2. ByOpcode(w) = StoreTo(op, w)
    BY <1>1, <2>1 DEF ByOpcode
  <2>. QED
    BY <2>2 DEF StoreTo, Decoded
<1>7. CASE op \in PlainImms
  <2>1. /\ r.opc = {0, 1, 4} /\ r.fmt = "I"
        /\ r.f3 \notin {{0}, {0, 2}} /\ ImmediateOps(r.f3) = op
    BY <1>7, TablesComplete
  <2>2. ByOpcode(w) = OpImm(w)
    BY <1>1, <2>1 DEF ByOpcode
  <2>3. OpImm(w) = Immediate(op, w)
    BY <1>1, <2>1 DEF OpImm
  <2>. QED
    BY <2>2, <2>3 DEF Immediate, Decoded
<1>8. CASE op \in ShiftImms
  <2>1. /\ r.fmt = "Sh6" /\ r.opc = {0, 1, 4}
        /\ op = "SLLI" => r.f3 = {0}
        /\ op = "SRLI" => r.f3 = {0, 2} /\ r.f7 = {}
        /\ op = "SRAI" => r.f3 = {0, 2} /\ r.f7 = {5}
    BY <1>8, ShiftImmRows DEF Row, ShiftImms
  <2>2. ByOpcode(w) = OpImm(w)
    BY <1>1, <2>1 DEF ByOpcode
  <2>3. op # "SLLI" => funct7(w) = r.f7
    <3>1. op # "SLLI" => 25 \notin w
      BY <1>8 DEF ShiftsPast31, ShiftImms
    <3>2. 0 \in funct7(w) <=> 25 \in w
      BY DEF funct7, getBits
    <3>. QED
      BY <1>1, <2>1, <3>1, <3>2
  <2>4. OpImm(w) = ShiftAmount(op, w, 25)
    BY <1>1, <1>8, <2>1, <2>3 DEF OpImm, RightShift, ShiftImms
  <2>. QED
    BY <2>2, <2>4 DEF ShiftAmount, Decoded
<1>9. CASE op \in WordImms
  <2>1. /\ r.opc = {0, 1, 3, 4}
        /\ op = "ADDIW" => r.fmt = "I" /\ r.f3 = {}
        /\ op = "SLLIW" => r.fmt = "Sh5" /\ r.f3 = {0} /\ r.f7 = {}
        /\ op = "SRLIW" => r.fmt = "Sh5" /\ r.f3 = {0, 2} /\ r.f7 = {}
        /\ op = "SRAIW" => r.fmt = "Sh5" /\ r.f3 = {0, 2} /\ r.f7 = {5}
    BY <1>9, WordImmRows DEF Row, WordImms
  <2>2. ByOpcode(w) = OpImm32(w)
    BY <1>1, <2>1 DEF ByOpcode
  <2>3. OpImm32(w) = Immediate(op, w) \/ OpImm32(w) = ShiftAmount(op, w, 24)
    BY <1>1, <1>9, <2>1 DEF OpImm32, RightShift, WordImms
  <2>. QED
    BY <2>2, <2>3 DEF Immediate, ShiftAmount, Decoded
<1>10. CASE op \in DoubleRegs
  <2>1. r.opc = {0, 1, 4, 5} /\ r.fmt = "R" /\ RegisterOps(r.f3, r.f7) = op
    BY <1>10, TablesComplete
  <2>2. ByOpcode(w) = Register(op, w)
    BY <1>1, <2>1 DEF ByOpcode
  <2>. QED
    BY <2>2 DEF Register, Decoded
<1>11. CASE op \in WordRegs
  <2>1. r.opc = {0, 1, 3, 4, 5} /\ r.fmt = "R" /\ RegisterWordOps(r.f3, r.f7) = op
    BY <1>11, TablesComplete
  <2>2. ByOpcode(w) = Register(op, w)
    BY <1>1, <2>1 DEF ByOpcode
  <2>. QED
    BY <2>2 DEF Register, Decoded
<1>12. CASE op \in Systems
  <2>1. /\ op = "FENCE" => r.opc = {0, 1, 2, 3}
        /\ op \in {"ECALL", "EBREAK"} => r.fmt = "Sys" /\ r.opc = {0, 1, 4, 5, 6} /\ r.f3 = {}
        /\ op = "ECALL" => r.f7 = {}
        /\ op = "EBREAK" => r.f7 = {0}
    BY SystemRows DEF Row
  <2>2. CASE op = "FENCE"
    <3>1. ByOpcode(w) = NoOperands("FENCE")
      BY <1>1, <2>1, <2>2 DEF ByOpcode
    <3>. QED
      BY <2>2, <3>1 DEF NoOperands, Decoded
  <2>3. CASE op \in {"ECALL", "EBREAK"}
    <3>1. ByOpcode(w) = System(w)
      BY <1>1, <2>1, <2>3 DEF ByOpcode
    <3>2. System(w) = NoOperands(op)
      BY <1>1, <2>1, <2>3 DEF System
    <3>. QED
      BY <3>1, <3>2 DEF NoOperands, Decoded
  <2>. QED
    BY <1>12, <2>2, <2>3 DEF Systems
<1>. QED
  BY <1>3, <1>4, <1>5, <1>6, <1>7, <1>8, <1>9, <1>10, <1>11, <1>12, Groups

-----------------------------------------------------------------------------
(***************************************************************************)
(* The answers of decodeNext.                                              *)
(***************************************************************************)
\* The instruction handed out is the decoded word of the call.
Answer ==
  /\ raw \in RawWord
  /\ phase = "done" /\ outErr \in {"None", "InvalidOpcode"} =>
       /\ outInst = [pc |-> call.pc, raw |-> raw, inst |-> Decode(raw)]
       /\ call.pc % 4 = 0
       /\ outErr = "InvalidOpcode" <=> Decode(raw).op = "UNKNOWN"

LEMMA AnswerStep == ReadState /\ Answer /\ [Next]_vars => Answer'
<1> SUFFICES ASSUME ReadState, Answer, [Next]_vars
             PROVE  Answer'
  OBVIOUS
<1>1. CASE LoadSection \/ Loaded \/ LoadFails \/ StartRead \/ Skip
  BY <1>1 DEF LoadSection, AtSection, Loaded, LoadFails, StartRead, Skip, Answer
<1>2. CASE Misaligned \/ Unmapped
  BY <1>2 DEF Misaligned, Unmapped, Refuse, Answer
<1>3. CASE Copy
  <2>1. call.word \in RawWord
    BY CallAssumption DEF ReadState
  <2>. QED
    BY <1>3, <2>1 DEF Copy, Answer
<1>4. CASE CopyBehindEnd
  <2>1. raw' \in RawWord /\ phase' # "done"
    BY <1>4, CallAssumption DEF CopyBehindEnd, Answer
  <2>. QED
    BY <2>1 DEF Answer
<1>5. CASE DecodeWord
  <2>1. /\ raw' = raw /\ call' = call /\ phase = "decode" /\ call.pc % 4 = 0
        /\ outInst' = [pc |-> call.pc, raw |-> raw, inst |-> Decode(raw)]
        /\ outErr' = IF Decode(raw).op = "UNKNOWN" THEN "InvalidOpcode" ELSE "None"
    BY <1>5 DEF DecodeWord, Refuse, ReadState
  <2>. QED
    BY <2>1 DEF Answer
<1>6. CASE UNCHANGED vars
  BY <1>6 DEF vars, Answer
<1>. QED
  BY <1>1, <1>2, <1>3, <1>4, <1>5, <1>6 DEF Next

\* The answer is known in every state.
LEMMA AnswerAlways == Spec => []Answer
<1>1. Init => Answer
  BY DEF Init, Answer, RawWord
<1>. QED
  BY <1>1, AnswerStep, ReadAlways, PTL DEF Spec

(***************************************************************************)
(* For each of the 2^32 words: what decodes is the encoding of exactly the *)
(* instruction handed out, with every bit of its operands and the sign of  *)
(* its immediate, but for the positions the decoder does not look at.      *)
(***************************************************************************)
THEOREM WordsDecodeTruly == Spec => []DecodesTruly
<1>1. Answer => DecodesTruly
  <2> SUFFICES ASSUME Answer, phase = "done", outErr = "None"
               PROVE  Encodes(outInst.inst, raw)
    BY DEF DecodesTruly
  <2>1. raw \in RawWord /\ outInst.inst = Decode(raw) /\ Decode(raw).op # "UNKNOWN"
    BY DEF Answer
  <2>. QED
    BY <2>1, DecodeTrue, TrueEncodes
<1>. QED
  BY <1>1, AnswerAlways, PTL

(***************************************************************************)
(* For each of the 2^32 words: a word of the RV64I base set is refused     *)
(* only as a right shift past 31.                                          *)
(***************************************************************************)
THEOREM BaseSetDecodes == Spec => []AcceptsRV64I
<1>1. Answer => AcceptsRV64I
  <2> SUFFICES ASSUME Answer, phase = "done", outErr = "InvalidOpcode",
                      NEW op \in Op, Matches(op, raw), ~ ShiftsPast31(op, raw)
               PROVE  FALSE
    BY DEF AcceptsRV64I
  <2>1. raw \in RawWord /\ Decode(raw).op = "UNKNOWN"
    BY DEF Answer
  <2>2. Decode(raw).op = op
    BY <2>1, MatchesDecode
  <2>3. op # "UNKNOWN"
    BY Groups DEF Uppers, Jumps, Branches, Loads, Stores, PlainImms, ShiftImms, WordImms,
       DoubleRegs, WordRegs, Systems
  <2>. QED
    BY <2>1, <2>2, <2>3
<1>. QED
  BY <1>1, AnswerAlways, PTL

\* Where the loops stand and what the call says, whatever it decodes to.
Places ==
  /\ phase \in {"load", "call", "read", "decode", "done", "unloaded", "fault"}
  /\ k \in 1 .. Len(IF phase = "load" THEN call.sections ELSE execSections) + 1
  /\ outErr \in Errors

LEMMA PlacesStep == ReadState /\ Places /\ [Next]_vars => Places'
<1> SUFFICES ASSUME ReadState, Places, [Next]_vars
             PROVE  Places'
  OBVIOUS
<1>0. /\ call.sections \in Seq(Section) /\ execSections \in Seq(Section)
      /\ Len(call.sections) \in Nat /\ Len(execSections) \in Nat /\ k \in Nat
  BY CallAssumption DEF ReadState
<1>1. CASE LoadSection
  <2>1. phase = "load" /\ k <= Len(call.sections) /\ k' = k + 1 /\ UNCHANGED <<call, phase, outErr>>
    BY <1>1 DEF LoadSection, AtSection
  <2>. QED
    BY <1>0, <2>1 DEF Places
<1>2. CASE Loaded \/ LoadFails \/ StartRead
  <2>1. /\ k' = 1 /\ phase' \in {"call", "unloaded", "read"}
        /\ UNCHANGED <<call, execSections, outErr>>
    BY <1>2 DEF Loaded, LoadFails, StartRead
  <2>. QED
    BY <1>0, <2>1 DEF Places
<1>3. CASE Skip
  <2>1. /\ phase = "read" /\ k <= Len(execSections) /\ k' = k + 1
        /\ UNCHANGED <<call, phase, execSections, outErr>>
    BY <1>3 DEF Skip
  <2>. QED
    BY <1>0, <2>1 DEF Places
<1>4. CASE Misaligned \/ Copy \/ CopyBehindEnd \/ Unmapped \/ DecodeWord
  <2>1. /\ phase # "load" /\ phase' \in {"done", "decode", "fault"} /\ outErr' \in Errors
        /\ UNCHANGED <<call, execSections, k>>
    BY <1>4 DEF Misaligned, Copy, CopyBehindEnd, Unmapped, DecodeWord, Refuse, Errors, Places
  <2>. QED
    BY <2>1 DEF Places
<1>5. CASE UNCHANGED vars
  BY <1>5 DEF vars, Places
<1>. QED
  BY <1>1, <1>2, <1>3, <1>4, <1>5 DEF Next

(***************************************************************************)
(* For every call: the state stays of its type, and an instruction that is *)
(* handed out is one of the set, with registers of five bits, at its pc.   *)
(***************************************************************************)
THEOREM DecodeTypes == Spec => []TypeOK
<1>1. Init => Places
  <2>1. \A c \in Calls : Len(c.sections) \in Nat
    BY CallAssumption
  <2>. QED
    BY <2>1 DEF Init, Places, Errors
<1>2. ReadState /\ Answer /\ Places => TypeOK
  <2> SUFFICES ASSUME ReadState, Answer, Places
               PROVE  TypeOK
    OBVIOUS
  <2>1. ASSUME outErr = "None", phase = "done"
        PROVE  /\ outInst.pc = call.pc /\ outInst.pc % 4 = 0
               /\ outInst.inst.op \in Opcode \ {"UNKNOWN"} /\ IsOperands(outInst.inst)
    <3>1. /\ raw \in RawWord /\ call.pc % 4 = 0 /\ Decode(raw).op # "UNKNOWN"
          /\ outInst.pc = call.pc /\ outInst.inst = Decode(raw)
      BY <2>1 DEF Answer
    <3>2. Decode(raw).op \in Op /\ IsOperands(Decode(raw))
      BY <3>1, DecodeTrue DEF IsTrue, Spread
    <3>3. Op \subseteq Opcode
      BY Groups DEF Opcode, Uppers, Jumps, Branches, Loads, Stores, PlainImms, ShiftImms,
         WordImms, DoubleRegs, WordRegs, Systems
    <3>. QED
      BY <3>1, <3>2, <3>3
  <2>2. raw \in RawWord /\ execSections \in Seq(Section)
    BY DEF Answer, ReadState
  <2>. QED
    BY <2>1, <2>2 DEF TypeOK, Places, IsOperands
<1>. QED
  BY <1>1, <1>2, PlacesStep, AnswerAlways, ReadAlways, PTL DEF Spec
=============================================================================
