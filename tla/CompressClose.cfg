\* The worker thread and a caller inside a call keep running.
SPECIFICATION FairSpec
PROPERTY CloseReturns
CHECK_DEADLOCK FALSE
