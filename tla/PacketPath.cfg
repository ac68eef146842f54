SPECIFICATION Spec
CONSTANTS
    buoy = buoy
    ship = ship
    glider = glider
    diver = diver
    Modem <- Modems
    MacEnabled <- Mac
    SrcArg <- Sources
    DestArg <- Dests
    Payload <- Payloads
    MaxSent = 2
    MaxBuffered = 1
CHECK_DEADLOCK FALSE
INVARIANT AddressedOnly
INVARIANT DroppedRightly
INVARIANT PayloadIntact
