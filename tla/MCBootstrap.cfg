SPECIFICATION FairBootSpec
CONSTANTS
    Absent = Absent
    Replica = {r1, r2}
    Authority = {1, 2, 3, 4, 5, 6, 7}
    MaxFaults = 4
INVARIANTS
    LastStarterTrusted
PROPERTIES
    OperatorRestarts
CHECK_DEADLOCK FALSE
