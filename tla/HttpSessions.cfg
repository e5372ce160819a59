\* Three requests, room for one session that lives two ticks, every policy.
CONSTANTS
  r1 = r1
  r2 = r2
  r3 = r3
  NoId = NoId
  Requests = {r1, r2, r3}
  Asked <- ThreeAsked
  Policies = {"threaded", "serial", "control"}
  MaxSessions = 1
  IdleTimeout = 2
SPECIFICATION SessionsFairSpec
CHECK_DEADLOCK FALSE
INVARIANT OneAtATime
PROPERTIES
  ImplementsStore
  HungHandlerBlocksNobody
  EachIsServed
