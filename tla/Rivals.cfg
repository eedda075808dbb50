SPECIFICATION Spec
CONSTANTS
  d1 = d1 d2 = d2 e1 = e1 e2 = e2 x = x y = y s1 = s1 s2 = s2 t1 = t1 t2 = t2
  Nobody = Nobody Operator = Operator
  Daemons = {d1, d2}
  Identities = {e1, e2} Digests = {x, y}
  PayloadSize <- Sizes
  MaxTransactionEvents = 2 MaxTransactionBytes = 2
  SinkNames = {s1, s2} Targets = {t1}
  MaxAge = 0
  DiskLevels = {1} PauseBelow = 0 ResumeAt = 0
  WalItems <- OneItem
  MaxWal = 1 MaxStatuses = 0
  Configs <- GrowingSinks
  MaxAttempts = 2 InitialDelay = 1 MaxDelay = 1
  Cutoffs = {} Limits = {}
  Faults = {"signal"}
SYMMETRY DaemonSymmetry
INVARIANT EveryEventIsOwed
PROPERTIES HistoryIsKept ResultsAreCounted
