SPECIFICATION FairSpec
CONSTANTS
    Writers = {w1, w2, w3}
    MaxQueue = 2
    MaxTicket = 2
    Guard = Guard
    NoTicket = NoTicket
INVARIANTS
    OneWriter
PROPERTIES
    ImplementsLine
    EveryCallEnds
