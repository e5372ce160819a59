\* A restart that cannot read the token.
CONSTANTS
  Supervised = supervised
  ByHand = byHand
  Ports = {7101}
  MaxTokens = 5
  Platforms = {"launchd"}
  MaxInstalls = 1
  Burst = 2
  MaxFaults = 5
SPECIFICATION Spec
CHECK_DEADLOCK FALSE
INVARIANT RestartsServeTheToken
