\* The dispatch observer may panic; the loop may end.
CONSTANTS
  mutation = mutation
  notice = notice
  read = read
  blank = blank
  serialized = serialized
  Concurrent = Concurrent
  Blank = Blank
  Idle = Idle
  Lines <- AllLines
  Route <- AllRoute
  Workers = {serialized}
  Silent = {notice}
CHECK_DEADLOCK FALSE
SPECIFICATION Spec
INVARIANT PanicsLeakNothing
