SPECIFICATION FairSpec
CONSTANTS
  c1 = c1
  NoOne = NoOne
  ZeroHash = ZeroHash
  MaxHash = MaxHash
  NoProject = NoProject
  User = c1
  Client <- OneClient
  Project <- OneProject
  Name <- AlphabeticalName
  ListStatus <- SomeStatuses
  WatchedFirst <- OneProject
  MaxChanges = 1
  MaxSessions = 2
  MaxToggles = 1
  MaxVolunteers = 1
  DatagramLimit = 2
  MaxTime = 0
CHECK_DEADLOCK FALSE
INVARIANTS TypeOK NeverLocksTwice NoticesAreTrue BreakageIsNoticed
PROPERTIES ShowsServerList StopsInTheEnd
