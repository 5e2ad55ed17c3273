CONSTANTS
  Workers = {w1, w2}
  NumBooks = 2
  LoanDays = 2
  AVAILABLE = AVAILABLE
  InitialDates = {1}
  None = None
  MaxNow = 3
  MaxRequests = 2
SPECIFICATION FairSpec
INVARIANTS
  TypeOK
  ReplyNeverSilent
  NoRecordAfterNegative
  LogBalances
PROPERTIES
  LedgerKept
  LentUnlessDenied
  RequestsFinish
