SPECIFICATION Spec
CONSTANTS
  AddrMod = 32
  Calls <- ShiftCalls
  Garbage <- AnyGarbage
  Before <- Stale
INVARIANT AcceptsAllRV64I
CHECK_DEADLOCK FALSE
