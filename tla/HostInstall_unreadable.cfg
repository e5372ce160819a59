\* Any file may come to hold bytes that are not UTF-8.
CONSTANTS
  hub = hub
  local = local
  Servers = {hub, local}
  RepoHosts <- MCRepoHosts
  Approved <- MCApproved
  Unreadable <- AllFiles
  MaxEdits = 1
SPECIFICATION Spec
CHECK_DEADLOCK FALSE
PROPERTY UnusableIsSkipped
