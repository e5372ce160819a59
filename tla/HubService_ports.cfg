\* Two first starts on two ports.
CONSTANTS
  Supervised = supervised
  ByHand = byHand
  Ports = {7101, 7102}
  MaxTokens = 5
  Platforms = {"launchd"}
  MaxInstalls = 1
  Burst = 2
  MaxFaults = 5
SPECIFICATION Spec
CHECK_DEADLOCK FALSE
INVARIANT RunningServersAgree
