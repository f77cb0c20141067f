---------------------------- MODULE MC_Execution ----------------------------
(***************************************************************************)
(* Every program of three or four words over branches, calls, returns,     *)
(* indirect calls and jumps, and constants to tell runs apart.             *)
(***************************************************************************)
EXTENDS Execution

I(op, rd, rs1, rs2, imm) ==
  [op |-> op, rd |-> rd, rs1 |-> rs1, rs2 |-> rs2, imm |-> imm]

MCInst ==
  {I("ADDI", 10, 0, 0, 3), I("ADDI", 5, 0, 0, 8),
   I("BEQ", 0, 10, 0, 8), I("BNE", 0, 10, 0, -4),
   I("JAL", 1, 0, 0, 8), I("JAL", 5, 0, 0, 8), I("JAL", 0, 0, 0, -4),
   I("JALR", 0, 1, 0, 0), I("JALR", 10, 5, 0, 0), I("JALR", 0, 5, 0, 4),
   I("ECALL", 0, 0, 0, 0)}

MCRegs == {0, 1, 2, 5, 8, 10}
=============================================================================
