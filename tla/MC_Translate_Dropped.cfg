SPECIFICATION Spec
CONSTANTS
  Width = 8
  MemBase = 64
  Junk = 170
  BasicBlocks <- DroppedBlocks
  GuestStates <- States
  PhysPool <- MCPool
  VReg <- MCVReg
  Position <- MCPosition
INVARIANT LiftPreservesState
CHECK_DEADLOCK FALSE
