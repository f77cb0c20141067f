SPECIFICATION Spec
CONSTANTS
  VReg = {1, 2, 3, 4}
  Position <- MCPosition
  PhysPool <- MCPool
INVARIANTS
  TypeOK
  PoolConservation
  NoSharing
  GivesUpOnlyWhenFull
PROPERTIES
  ImplementsScan
  Termination
CHECK_DEADLOCK FALSE
