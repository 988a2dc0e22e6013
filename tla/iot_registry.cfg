SPECIFICATION Spec
CONSTANTS
    d1 = d1
    long = long
    Devices = {d1, long}
    LongIds = {long}
    None = None
    MaxMessages = 3
    MaxFaults = 2
INVARIANTS
    CountsJustified
    EventsKept
    DevicesKnown
CHECK_DEADLOCK FALSE
