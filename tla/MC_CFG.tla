-------------------------------- MODULE MC_CFG --------------------------------
(***************************************************************************)
(* Every program of a few words over a small instruction set.              *)
(***************************************************************************)
EXTENDS CFG

BranchOffsets == {-12, -8, -4, 0, 8}

JumpOffsets == {-8, -4, 0, 4, 6}

MCInst ==
  {[op |-> "ADDI",  rd |-> 5, rs1 |-> 0, rs2 |-> 0, imm |-> 0],
   [op |-> "ECALL", rd |-> 0, rs1 |-> 0, rs2 |-> 0, imm |-> 0],
   [op |-> "JALR",  rd |-> 0, rs1 |-> 1, rs2 |-> 0, imm |-> 0],
   [op |-> "JALR",  rd |-> 0, rs1 |-> 1, rs2 |-> 0, imm |-> 4]}
  \cup [op : {"BEQ"}, rd : {0}, rs1 : {0}, rs2 : {0}, imm : BranchOffsets]
  \cup [op : {"JAL"}, rd : {1}, rs1 : {0}, rs2 : {0}, imm : JumpOffsets]
=============================================================================
