SPECIFICATION LiveSpec
CONSTANTS
  d1 = d1 d2 = d2 e1 = e1 e2 = e2 x = x y = y s1 = s1 s2 = s2 t1 = t1 t2 = t2
  Nobody = Nobody Operator = Operator
  Daemons = {d1}
  Identities = {e1, e2} Digests = {x, y}
  PayloadSize <- Sizes
  MaxTransactionEvents = 2 MaxTransactionBytes = 2
  SinkNames = {s1} Targets = {t1}
  MaxAge = 0
  DiskLevels = {1} PauseBelow = 0 ResumeAt = 0
  WalItems <- PairItem
  MaxWal = 1 MaxStatuses = 1
  Configs <- OneSink
  MaxAttempts = 2 InitialDelay = 1 MaxDelay = 1
  Cutoffs = {} Limits = {}
  Faults = {"crash", "signal", "io", "redrive"}
INVARIANTS AttemptsRemain DeliveredIsAccepted InFlightIsOwned
PROPERTIES OnlyRedrivenIsOvertaken EventuallyTerminal
