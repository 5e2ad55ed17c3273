CONSTANTS
  NumServers = 2
  MaxRecords = 2
SPECIFICATION FairSpec
INVARIANTS
  TypeOK
  ServersUpAreAsked
  InFrame
  NoRecordMissed
  KilledByNegative
PROPERTIES
  ValidSessionEnds
