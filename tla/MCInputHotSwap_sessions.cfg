CHECK_DEADLOCK FALSE
CONSTANTS
  Family <- AllFamilies
  HomeFamily <- Home
  QuickFamily <- Snes
  ConfirmFamily <- Saturn
  JoybusFamily <- N64
  AssistedFamily <- Assisted
  LatchFamily <- Neogeo
  SlotFamily <- Slots
  NsoFamily <- N64
  FastRetry = 1
  DisconnectDelay = 2
  GracePeriod = 3
  NoInputRetry = 4
  FullScanEvery = 2
  Remote <- None
  MaxPlugs = 3
  MaxActs = 3
SPECIFICATION Spec
INVARIANT TypeOK
INVARIANT HandOffOnlyForReenumeration
INVARIANT StoredSelectionStopsHotSwap
INVARIANT HomeListens
PROPERTY PresentIsKept
PROPERTY KeepsSession
PROPERTY LostComesHome
PROPERTY SoughtIsFound
