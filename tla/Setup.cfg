CONSTANTS
  d1 = d1
  s1 = s1
  s2 = s2
  Unowned = Unowned
  Daemons = {d1}
  Installers = {s1, s2}
  CreateSlotIfMissing = {TRUE, FALSE}
  MaxEvents = 1
  MaxDrops = 1
SPECIFICATION SetupLiveSpec
INVARIANTS SetupSatisfiesDoctor SlotLosesNothing
PROPERTY EventuallyStreaming
CHECK_DEADLOCK FALSE
