SPECIFICATION FairSpec
CONSTANTS
  Address = {a1, a2}
  NoAddress = NoAddress
  MaxInterfaces = 2
CHECK_DEADLOCK FALSE
PROPERTY EveryClientListens
