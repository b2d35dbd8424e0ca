SPECIFICATION ConsoleSpec
CONSTANTS
    Null = Null
    Browser = {b1}
    Script = {s1}
    Field = {f1, f2}
    Value = {u, v}
    MaxWrites = 3

    
PROPERTIES
    RoundTripLosesNothing
    
