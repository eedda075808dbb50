CONSTANTS
  Interval = 1
  SampleTimeout = 2
  DiskInterval = 2
  Receive = 1
  Slack = 0
  MaxCommits = 1
SPECIFICATION MonitoringLiveSpec
INVARIANTS SampleIsSnapshot FreshIsRecent HealthyStaysReady
PROPERTY ShutdownReturns
CHECK_DEADLOCK FALSE
