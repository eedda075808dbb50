SPECIFICATION InboxSpec
CONSTANTS
  Handlers = {h1, h2}
  InboxKeys = {k1}
  Bodies = {x, y}
  Sdks = {"go", "typescript"}
  MaxExpiries = 1
INVARIANTS ProcessedOnce SuccessIsProcessed
PROPERTIES ReceiptsAreFinal EveryCallReturns
\* The receiver is idle once the sender has stopped.
CHECK_DEADLOCK FALSE
