SPECIFICATION FairPolicySpec
CONSTANTS
    None = None
    k1 = k1
    k2 = k2
    e1 = e1
    Garbled = {}
    Words <- MCWords
    Policy = {k1, k2}
    Evidence = {e1}
    TTLs = {0, 1}
    MaxClock = 2
    MaxEdits = 3
INVARIANTS
    PolicyTypeOK
    SettledIsObserved
    
PROPERTY SpecDecided
CHECK_DEADLOCK FALSE
