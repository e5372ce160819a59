\* A mutation, a silent one behind it, a read and a blank line; the loop may end.
CONSTANTS
  mutation = mutation
  notice = notice
  read = read
  blank = blank
  serialized = serialized
  Concurrent = Concurrent
  Blank = Blank
  Idle = Idle
  Lines <- AllLines
  Route <- AllRoute
  Workers = {serialized}
  Silent = {notice}
CHECK_DEADLOCK FALSE
SPECIFICATION FairSpec
INVARIANTS
  DrainedLosesNothing
  InOrder
PROPERTIES
  EachIsAnswered
  ConcurrentIsNotBlocked
  EndsAfterInput
