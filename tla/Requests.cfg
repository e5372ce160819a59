\* Every shape of a frame over every transport.
CONSTANT Reads <- MCReads
SPECIFICATION Spec
CHECK_DEADLOCK FALSE
INVARIANTS
  NotificationsAreInert
  MutationsStayWithOwner
  AppliedIsNotDenied
PROPERTY RequestsAreAnswered
