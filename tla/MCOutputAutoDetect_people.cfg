SPECIFICATION Spec
CONSTANTS
  PostDelay = 1
  NonWiiu = 2
  AttachRetry = 3
  Reattach = 1
  Ps4Grace = 4
  Ps3Assist = 4
  NoMount = 5
  NoMountRetry = 6
  NoDataHost = 2
  HostRequest <- MixedRequests
  ConfigurableMode <- Selections
  ConfigurablePreference <- TwoPreferences
  MaxRequest = 1
  MaxDisturbance = 2
INVARIANTS HandOffReadOnce PersonalityFitsVerdict ManualSelectionWins
PROPERTIES OnlyPeopleForget KeepsOneVerdict
