SPECIFICATION Spec
CONSTANTS
    MaxClock = 1
    MaxQueue = 1
INVARIANTS
    ReconnectRestores
