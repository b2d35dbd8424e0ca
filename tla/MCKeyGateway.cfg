SPECIFICATION Spec
CONSTANTS
    None = None
    u1 = u1
    u2 = u2
    m1 = m1
    m2 = m2
    i1 = i1
    i2 = i2
    h1 = h1
    h2 = h2
    n1 = n1
    k1 = k1
    g1 = g1
    UID = {u1, u2}
    Image = {i1, i2}
    Model = {m1, m2}
    Workload <- MCWorkload
    Placement <- MCPlacement
    KeyID = {k1}
    PolicyHash = {h1, h2}
    Stored = {k1}
    Garbled = {g1}
    Words <- MCWords
    Inputs <- MCInputs
    Ephemeral = TRUE
    TTL = 1
    MaxTime = 2
    MaxKeys = 2
    MaxTokens = 1
INVARIANTS
    TypeOK
    ReleasedOnGenuineToken
    GenuineTokenHonoured
    
