SPECIFICATION FairSpec
CONSTANTS
  Result <- Results
  MaxBuilds = 3
  MaxChanges = 2
INVARIANTS TypeOK StatusWasTrue SuccessIsDated
PROPERTY ReportsStatus
