SPECIFICATION FairStreamSpec
CONSTANTS
  reader = reader
  Reader = {reader}
  Calls <- MCCalls
  MaxLines = 2
  BufferBytes = 1
  LineBytes = 1
  PageLines = 1
  PageBytes = 1
  MaxWaiters = 1
  MaxReceived = 3
INVARIANTS ConfirmedMeansClosed LinesAccounted BudgetKept ToldEverything
PROPERTIES NoSuccessAfterEnd Answered PromiseSpec EveryReaderTold
CHECK_DEADLOCK FALSE
