SPECIFICATION FairSpec
CONSTANTS
  Segment <- Segments
  Folder <- Folders
  Job <- Jobs
  MaxChanges = 3
INVARIANTS TypeOK ReadsOnce
PROPERTIES CensusSpec ListsJenkins
