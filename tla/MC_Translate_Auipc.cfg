SPECIFICATION Spec
CONSTANTS
  Width = 8
  MemBase = 64
  Junk = 170
  BasicBlocks <- LateAuipcBlocks
  GuestStates <- States
  PhysPool <- MCPool
  VReg <- MCVReg
  Position <- MCPosition
INVARIANT LiftPreservesState
CHECK_DEADLOCK FALSE
