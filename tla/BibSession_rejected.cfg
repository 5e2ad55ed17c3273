CONSTANTS
  NumServers = 1
  MaxRecords = 2
SPECIFICATION FairSpec
PROPERTIES
  SessionEnds
