SPECIFICATION Spec
CONSTANTS
  a1 = a1
  a2 = a2
  Outside = Outside
  Agent = {a1, a2}
  File = {1, 2, 3}
  LockOf <- Names
  Calls <- Each
  Faults = {"crash", "outside", "io"}
  MaxCalls = 1
  MaxEdits = 1
CHECK_DEADLOCK FALSE
INVARIANTS TypeOK LocksExclude NoCircularWait
PROPERTIES PatchesAreAtomic EditsKeepOthers ImplementsLocking ToolCallsEnd
