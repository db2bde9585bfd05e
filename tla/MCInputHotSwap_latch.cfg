CHECK_DEADLOCK FALSE
CONSTANTS
  Family <- Held
  HomeFamily <- Home
  QuickFamily <- Snes
  ConfirmFamily <- None
  JoybusFamily <- None
  AssistedFamily <- Neogeo
  LatchFamily <- Neogeo
  SlotFamily <- None
  NsoFamily <- None
  FastRetry = 1
  DisconnectDelay = 2
  GracePeriod = 3
  NoInputRetry = 4
  FullScanEvery = 2
  Remote <- None
  MaxPlugs = 0
  MaxActs = 1
SPECIFICATION Spec
PROPERTY RestartReturnsToAuto
