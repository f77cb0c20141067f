----------------------------- MODULE MC_Translate -----------------------------
(***************************************************************************)
(* 8-bit words (4-bit halves, 2-bit chunks), three guest registers, and    *)
(* blocks of one or two instructions.  Signed immediates and offsets.      *)
(***************************************************************************)
EXTENDS Translate

Start == 8

I(op, rd, rs1, rs2, imm) ==
  [op |-> op, rd |-> rd, rs1 |-> rs1, rs2 |-> rs2, imm |-> imm]

Lifted ==
  {I(op, 1, 2, 1, 0) : op \in {"ADD", "SUB", "AND", "OR", "XOR", "SLL", "SRL", "SRA", "ADDW"}}
  \cup {I(op, 1, 1, 0, imm) : op \in {"ADDI", "ANDI", "ORI", "XORI", "ADDIW"}, imm \in {-3, 5}}
  \cup {I(op, 2, 1, 0, imm) : op \in {"SLLI", "SRLI", "SRAI"}, imm \in {0, 5}}
  \cup {I(op, 1, 2, 0, imm) : op \in {"LW", "LWU", "LD"}, imm \in {-1, 2}}
  \cup {I(op, 0, 2, 1, imm) : op \in {"SW", "SD"}, imm \in {-1, 2}}
  \cup {I("ADDI", 0, 1, 0, 3), I("ADD", 2, 1, 1, 0), I("LD", 2, 2, 0, 0)}

Ends ==
  {I(op, 0, 1, 2, -8) : op \in Branches}
  \cup {I("JAL", 1, 0, 0, 12), I("JAL", 0, 0, 0, -4), I("JALR", 0, 1, 0, 0),
        I("JALR", 1, 2, 0, 4), I("JALR", 0, 2, 0, 4),
        I("ECALL", 0, 0, 0, 0), I("EBREAK", 0, 0, 0, 0)}

Auipc == I("AUIPC", 1, 0, 0, 16)

\* For blocks of more than one instruction.
Some ==
  {I("SUB", 1, 2, 1, 0), I("ADDI", 1, 1, 0, -3), I("ADDIW", 2, 1, 0, 5), I("SRAI", 2, 1, 0, 5),
   I("LW", 1, 2, 0, -1), I("LD", 2, 2, 0, 2), I("SW", 0, 2, 1, -1), I("SD", 0, 2, 1, 2),
   I("ADDI", 0, 1, 0, 3)}

Blocks == {BlockOf(Start, b) : b \in
             {<<i>> : i \in Lifted \cup Ends \cup {Auipc}}
             \cup {<<i, j>> : i \in Some \cup {Auipc}, j \in Some \cup Ends}}
          \cup {CutOff(Start, b) : b \in {<<>>} \cup {<<i>> : i \in Some}}

Memory == [a \in Word |-> (3 * a + 9) % 16]

MCGuestStates ==
  {[x |-> <<0, u, v>>, mem |-> Memory] : u \in {5, 143}, v \in {5, 131}}

\* Registers x0, x1, x2.
States == {[g EXCEPT !.x = [r \in 0 .. 2 |-> g.x[r + 1]]] : g \in MCGuestStates}

MCPool == <<25, 26, 27, 28>>

MCVReg == 1 .. 30

MCPosition == 0 .. 60

\* A function call through a register, and a computed jump.
IndirectBlocks ==
  {BlockOf(Start, <<I("JALR", rd, 2, 0, 4)>>) : rd \in {0, 1}}

\* An AUIPC that is not the first instruction of its block.
LateAuipcBlocks == {BlockOf(Start, <<I("ADDI", 2, 2, 0, 1), Auipc>>)}

\* RV64I instructions the decoder knows and the lifter has no case for.
DroppedBlocks ==
  {BlockOf(Start, <<I(op, 1, 2, 1, 5)>>) :
     op \in {"LUI", "SUBW", "SLT", "SLTU", "SLTI", "SLTIU"}}
=============================================================================
