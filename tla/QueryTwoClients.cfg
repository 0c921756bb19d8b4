SPECIFICATION FairSpec
CONSTANTS
  p1 = p1
  p2 = p2
  c1 = c1
  c2 = c2
  NoOne = NoOne
  ZeroHash = ZeroHash
  MaxHash = MaxHash
  Project <- OneProject
  Client <- TwoClients
  DatagramLimit = 1
  Buffer = 3
  Reordering = FALSE
  MaxDisruptions = 0
  JenkinsStatus <- Statuses
  MaxTime = 0
  MaxVolunteers = 1
PROPERTIES Converges VolunteerRecorded
