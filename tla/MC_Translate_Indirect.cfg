SPECIFICATION Spec
CONSTANTS
  Width = 8
  MemBase = 64
  Junk = 170
  BasicBlocks <- IndirectBlocks
  GuestStates <- States
  PhysPool <- MCPool
  VReg <- MCVReg
  Position <- MCPosition
INVARIANT IndirectTarget
CHECK_DEADLOCK FALSE
