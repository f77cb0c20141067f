SPECIFICATION Spec
CONSTANTS
  AddrMod = 32
  Image = {8, 12, 16, 20}
  Inst <- MCInst
  Entry = 8
INVARIANTS
  TypeOK
  EveryLeaderOnce
  IndexMatchesBlocks
  BlocksFollowGuest
  NoRunOver
  NoDanglingSuccessor
PROPERTIES
  ImplementsReach
  Termination
CHECK_DEADLOCK FALSE
