SPECIFICATION FairSpec
CONSTANTS
    Ports = 1
    a = a
    b = b
    Home = home
    Capture = capture
    Buttons = {a, b}
    Setups <- Sound
INVARIANTS
    TypeOK
    StartsFromPhysical
    HostIsCurrent
PROPERTIES
    MenuIsSilent
    ReleaseArrives
