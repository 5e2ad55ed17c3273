SPECIFICATION FairSpec
CONSTANTS
  Year <- MCYear
  Upper <- MCUpper
  Commands <- MCLoanCommands
  Workers = {w1, w2}
  None = None
  Files <- MCFiles
  Depths = {2, 3, 4}
  DueDate = "due"
  MaxRuns = 2
INVARIANTS
  TypeOK
  UndisturbedParse
  EqualBooksAreAvailable
  SavedFieldsComeBack
  SavedFileLoads
PROPERTIES
  OnlyAskedBooksAreLent
  ParseEnds
