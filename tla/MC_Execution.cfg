SPECIFICATION Spec
CONSTANTS
  Width = 8
  EntryPC = 12
  GuestRegs <- MCRegs
  StackOffset = 112
  Args = {0, 7}
  Cells = {}
  MaxFrames = 4
  Image = {8, 12, 16, 20}
  Inst <- MCInst
INVARIANTS
  TypeOK
  InStep
  FramesCountJumps
  WhenMainReturns
  WhenTrapped
  WhenLost
  NoCodeBelowMemory
CHECK_DEADLOCK FALSE
