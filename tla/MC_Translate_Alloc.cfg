SPECIFICATION Spec
CONSTANTS
  Width = 8
  MemBase = 64
  Junk = 170
  BasicBlocks <- Blocks
  GuestStates <- States
  PhysPool <- MCPool
  VReg <- MCVReg
  Position <- MCPosition
INVARIANT AllocationPreservesMeaning
CHECK_DEADLOCK FALSE
