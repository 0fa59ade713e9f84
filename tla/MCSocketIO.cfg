SPECIFICATION Spec
CONSTANTS
    small1 = small1
    small2 = small2
    large = large
    world = world
    map = map
    Packets <- MCPackets
    Size <- MCSize
    Senders <- MCSenders
    SendBufferSize = 2
    NoPacket = NoPacket
INVARIANTS
    StreamIntact
    OnCloseOnce
    ClosingNotStranded
PROPERTIES
    EverythingSent
    ClosedIsRemoved
