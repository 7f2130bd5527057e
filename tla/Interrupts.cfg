SPECIFICATION Spec
CONSTANTS
  NestLimit = 3
  FireLimit = 4
INVARIANTS
  LockMasksInterrupts
  EnabledRestored
  TicksExact
PROPERTIES
  CallReturns
