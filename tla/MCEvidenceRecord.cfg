SPECIFICATION Spec
CONSTANTS
    None = None
    Name = {a, b, c}
    Payload = {x, y}
    MaxEdits = 1
    Key = {k1, k2}
    KeyID = {i1, i2}
    NoID = NoID
    Text = {u, v}
    Content = {c1}
    KeyLists <- SomeKeyLists
INVARIANTS
    TypeOK
    DigestsCurrent
    ChainHolds
