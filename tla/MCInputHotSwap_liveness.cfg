CHECK_DEADLOCK FALSE
CONSTANTS
  Family <- Classic
  HomeFamily <- Home
  QuickFamily <- Snes
  ConfirmFamily <- None
  JoybusFamily <- N64
  AssistedFamily <- Jpc
  LatchFamily <- None
  SlotFamily <- N64
  NsoFamily <- N64
  FastRetry = 1
  DisconnectDelay = 2
  GracePeriod = 3
  NoInputRetry = 4
  FullScanEvery = 2
  Remote <- None
  MaxPlugs = 2
  MaxActs = 1
SPECIFICATION FairSpec
PROPERTY AutoFindsController
PROPERTY UnpluggedGoesHome
