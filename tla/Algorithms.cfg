SPECIFICATION AlgorithmsSpec
CONSTANTS
  e1 = e1 e2 = e2 small = small large = large
  Identities = {e1, e2} Digests = {small, large}
  PayloadSize <- MCSizes
  MaxTransactionEvents = 3 MaxTransactionBytes = 4
  StreamMessages <- MCMessages
  MaxStream = 7
  Width = 6
  Second = 4
  InitialDelays = {1, 2, 3, 5, 7, 16, 31}
  MaxDelays = {1, 3, 7, 16, 17, 30, 31}
  Headers <- MCHeaders
  MaxFailures = 8
INVARIANTS RefusedIsIllFormed BatchIsTransaction DelayIsCappedMaximum
