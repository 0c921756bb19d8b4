SPECIFICATION BoardFeedFairSpec
CONSTANTS
  p1 = p1
  p2 = p2
  c1 = c1
  c2 = c2
  NoOne = NoOne
  ZeroHash = ZeroHash
  MaxHash = MaxHash
  Project <- OneProject
  Client <- OneClient
  DatagramLimit = 1
  Buffer = 2
  Reordering = TRUE
  MaxDisruptions = 1
  JenkinsStatus <- OneStatus
  MaxTime = 1
  MaxVolunteers = 1
  h1 = h1
  h2 = h2
  NoHost = NoHost
  Host <- TwoHosts
  Home = h1
INVARIANT TypeOK
PROPERTIES BoardSpec VolunteersKept FlagLeadsToBroadcast Informed
