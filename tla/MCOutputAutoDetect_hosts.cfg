SPECIFICATION Spec
CONSTANTS
  PostDelay = 1
  NonWiiu = 2
  AttachRetry = 3
  Reattach = 1
  Ps4Grace = 4
  Ps3Assist = 4
  NoMount = 5
  NoMountRetry = 6
  NoDataHost = 2
  HostRequest <- HostRequests
  ConfigurableMode <- AutoOnly
  ConfigurablePreference <- DefaultPreference
  MaxRequest = 3
  MaxDisturbance = 1
INVARIANTS TypeOK VerdictHasEvidence ProbeLadderEnds StandaloneKeepsRunning
PROPERTY ProbeRunsOut
