------------------------------ MODULE MC_Decode ------------------------------
(***************************************************************************)
(* The words: every RV64I instruction with registers and immediates at     *)
(* their boundaries, and every opcode of a 32-bit word (the low bits are   *)
(* 11; four others) with every funct3 and the values of funct7 that mean   *)
(* something somewhere.  The reads: every layout of up to two sections     *)
(* from a few corners of an address space of 32 bytes.                     *)
(***************************************************************************)
EXTENDS DecodeNext

Immediates(fmt) ==
  CASE fmt \in {"I", "S"} -> {0, 1, -1, 5, 31, 32, 1365, 2047, -2048, -1366}
    [] fmt = "B"   -> {0, 2, -2, 30, 32, 1024, 2046, 2048, 4094, -4096, -2732}
    [] fmt = "J"   -> {0, 2, -2, 2046, 2048, 4096, 349524, 1048574, -1048576, -4096}
    [] fmt = "U"   -> {n * 4096 : n \in {0, 1, -1, 349525, 524287, -524288}}
    [] fmt = "Sh6" -> {0, 1, 31, 32, 63}
    [] fmt = "Sh5" -> {0, 1, 21, 31}
    [] OTHER       -> {0}

Registers == {<<0, 0, 0>>, <<1, 2, 31>>, <<31, 16, 1>>, <<10, 21, 8>>}

\* Numbers as the sets of their bits: of a few bits, and of 64 with a sign.
BitsIn(n, width) == {i \in 0 .. width - 1 : (n \div 2 ^ i) % 2 = 1}

Bits(n) == BitsIn(n, 31) \cup IF n < 0 THEN 31 .. 63 ELSE {}

Inst(op, d, s, t, n) ==
  [op |-> op, rd |-> BitsIn(d, 5), rs1 |-> BitsIn(s, 5), rs2 |-> BitsIn(t, 5), imm |-> Bits(n)]

InstWords ==
  UNION {{Encode(Inst(op, r[1], r[2], r[3], n)) :
            r \in Registers, n \in Immediates(Table[op].fmt)} : op \in Op}

RawWords ==
  {BitsIn(opc, 7) \cup At(BitsIn(f3, 3), 12) \cup At(BitsIn(f7, 7), 25) \cup rest :
     opc \in {4 * i + 3 : i \in 0 .. 31} \cup {0, 1, 2, 126}, f3 \in 0 .. 7, f7 \in {0, 1, 32, 33, 127},
     rest \in {{}, {7, 16, 21, 24}}}

Text == [va |-> 8, size |-> 8, exec |-> TRUE]

Call(reader, header, sections, pc, word) ==
  [reader |-> reader, header |-> header, sections |-> sections, pc |-> pc, word |-> word]

WordCalls == {Call("elf", "ok", <<Text>>, 12, w) : w \in InstWords \cup RawWords}

Corners == {[va |-> a, size |-> n, exec |-> TRUE] :
              a \in {0, 4, 6, 8, 16, 24}, n \in {0, 2, 4, 6, 8, 12}}
           \cup {[Text EXCEPT !.exec = FALSE]}

Nop == Encode(Inst("ADDI", 0, 0, 0, 0))

ReadCalls ==
  {Call("elf", "ok", s, pc, Nop) :
     s \in {<<>>} \cup {<<a>> : a \in Corners} \cup {<<a, b>> : a, b \in Corners},
     pc \in {4 * i : i \in 0 .. 7} \cup {9, 31}}
  \cup {Call("span", "ok", <<a>>, pc, Nop) : a \in Corners \ {[Text EXCEPT !.exec = FALSE]},
                                             pc \in 0 .. 31}
  \cup {Call("elf", h, <<Text>>, 8, Nop) : h \in Header}

AllCalls == WordCalls \cup ReadCalls

AnyGarbage == {{}, Nop}

Stale == [pc |-> 4, raw |-> Nop, inst |-> Decode(Nop)]

\* Right shifts by an immediate, over the whole range of a 6-bit amount.
ShiftCalls ==
  {Call("elf", "ok", <<Text>>, 12,
        Encode(Inst(op, 1, 2, 0, n))) :
     op \in {"SRLI", "SRAI"}, n \in 0 .. 63}
=============================================================================
