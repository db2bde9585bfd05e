SPECIFICATION Spec
CONSTANTS
    Ports = 1
    a = a
    b = b
    Home = home
    Capture = capture
    Buttons = {a, b}
    Setups <- Swapped
INVARIANTS
    StartsFromPhysical
