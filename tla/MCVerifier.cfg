SPECIFICATION FairSpec
CONSTANTS
    None = None
    n1 = n1
    Node = {n1}
    MaxReports = 2
    Agents <- MCAgents
    KeyDocs <- MCKeyDocs
    ExpectedTEE = "tdxvm"
    MaxTokenAge = 1
    MaxTime = 1
    MaxFaults = 1
INVARIANTS
    GenuineNotFailed
    
    AppraisedTogether
PROPERTIES
    RevocationSurvives
    ImplementsAttestations
    ReportsProcessed
CHECK_DEADLOCK FALSE
