SPECIFICATION ClockSpec
CONSTANTS
    Micros = 3
    MaxSec = 4
    TTLs <- MCTTLs
INVARIANTS
    WithinOneSecond
