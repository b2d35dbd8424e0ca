SPECIFICATION Spec
CONSTANTS
    None = None
    v1 = v1
    v2 = v2
    e1 = e1
    e2 = e2
    Revocation = {v1, v2}
    Evidence = {e1}
    TTLs = {1, 2}
    MaxTime = 2
    MaxEdits = 3
SYMMETRY Symmetry
INVARIANTS
    ExpiryScheduled
    RevokedNotVerified
PROPERTIES
    
    ImplementsAttestations
CHECK_DEADLOCK FALSE
