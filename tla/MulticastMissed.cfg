SPECIFICATION FairSpec
CONSTANTS
  p1 = p1
  p2 = p2
  c1 = c1
  c2 = c2
  NoOne = NoOne
  ZeroHash = ZeroHash
  MaxHash = MaxHash
  Project <- OneProject
  Client <- OneClient
  DatagramLimit = 1
  Buffer = 2
  Reordering = FALSE
  MaxDisruptions = 0
  JenkinsStatus <- Statuses
  MaxTime = 1
  MaxVolunteers = 0
  h1 = h1
  h2 = h2
  NoHost = NoHost
  Host <- OneHost
  Home = h1
PROPERTY Converges
