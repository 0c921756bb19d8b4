SPECIFICATION FairSpec
CONSTANTS
  x = x
  y = y
  query = query
  multicast = multicast
  unknown = unknown
  NoAddress = NoAddress
  Process <- TwoProcesses
  Address <- Addresses
  Default = query
  Resolvable <- Known
  Multicast <- OneMulticast
  MaxApplies = 2
  MaxFaults = 2
  MaxStarts = 3
INVARIANTS TypeOK OneInstance RefusedForAReason JoinIsPrompt SettingsSurvive
PROPERTIES FollowsSettings WindowGoesOn
CHECK_DEADLOCK FALSE
