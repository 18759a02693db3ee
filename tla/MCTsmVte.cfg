SPECIFICATION Spec
CHECK_DEADLOCK FALSE
CONSTANTS
    SizeY = 3
    ArgMax = 3
    OscMax = 5
    Clients <- AllClients
INVARIANTS TypeOK ArgumentsAreHeard OscIsHeard ModesAgree Recovers
PROPERTY KeysArriveWhole
