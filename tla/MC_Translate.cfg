SPECIFICATION Spec
CONSTANTS
  Width = 8
  MemBase = 64
  Junk = 170
  BasicBlocks <- Blocks
  GuestStates <- States
  PhysPool <- MCPool
  VReg <- MCVReg
  Position <- MCPosition
INVARIANTS
  TypeOK
  WrittenOnceThenRead
  LiftPreservesState
  LiftPreservesExit
  SelectPreservesMeaning
  OnlyLostStartsClobber
  TranslatesTruly
  NeverAborts
PROPERTIES
  Termination
CHECK_DEADLOCK FALSE
