SPECIFICATION Spec
CONSTANTS
  VReg <- MCVReg
  Position <- MCPosition
  Blocks <- MCBlocks
INVARIANTS
  TypeOK
  ExactIntervals
PROPERTIES
  Termination
CHECK_DEADLOCK FALSE
