SPECIFICATION Spec
CONSTANTS
    f1 = f1
    f2 = f2
    Fields = {f1, f2}
    LoopFields = {f1}
    RemoteFields = {f2}
    MenuBodies <- Menus
    Values = {0, 1}
    Factory = 0
    Generations = 4
    MaxSaves = 2
    MaxRemote = 2
    MaxLosses = 1
CHECK_DEADLOCK FALSE
INVARIANTS
    TypeOK
    SavesStick
    NothingLeftInRam
PROPERTIES
    StaysReadable
    BootRepairs
