\* What an older version left, and one change from outside among the operations.
CONSTANTS
  hub = hub
  local = local
  Servers = {hub, local}
  RepoHosts <- MCRepoHosts
  Approved <- MCApproved
  Unreadable <- AllFiles
  MaxEdits = 1
SPECIFICATION Spec
CHECK_DEADLOCK FALSE
INVARIANTS
  SecondRunChangesNothing
  ScopesClean
  ConfiguredIsEffective
PROPERTY UserContentKept
