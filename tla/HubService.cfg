\* Each platform, hubs on two ports; two installs among removals and three faults.
CONSTANTS
  Supervised = supervised
  ByHand = byHand
  Ports = {7101, 7102}
  MaxTokens = 5
  Platforms = {"systemd", "launchd", "windows"}
  MaxInstalls = 2
  Burst = 2
  MaxFaults = 3
SPECIFICATION Spec
CHECK_DEADLOCK FALSE
INVARIANTS
  HealthyIsPermanent
  RemovedIsGone
  NoHubOutlivesItsHost
  TokenIsOne
PROPERTY HubComesBack
