SPECIFICATION Spec
CONSTANTS
  AddrMod = 32
  Calls <- AllCalls
  Garbage <- AnyGarbage
  Before <- Stale
INVARIANTS
  TypeOK
  
  AcceptsRV64I
  ReadsExactly
PROPERTIES
  Termination
CHECK_DEADLOCK FALSE
