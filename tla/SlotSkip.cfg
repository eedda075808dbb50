CONSTANTS
  d1 = d1
  s1 = s1
  Unowned = Unowned
  Daemons = {d1}
  Installers = {s1}
  CreateSlotIfMissing = {FALSE}
  MaxEvents = 3
  MaxDrops = 1
SPECIFICATION SetupSpec
INVARIANT NoEventIsSkipped
CHECK_DEADLOCK FALSE
