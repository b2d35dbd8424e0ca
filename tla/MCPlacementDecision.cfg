SPECIFICATION PSpec
CONSTANTS
    None = None
    p1 = p1
    n1 = n1
    Pod = {p1}
    Node = {n1}
    NumPolicies = 1
    PolicySpecs <- MCPolicySpecs
    NumEvidence = 1
    EvidenceSpecs <- MCEvidenceSpecs
    DecisionName <- MCDecisionName
    Declared <- DeclaredFresh
    MaxUID = 1
    MaxTime = 1
    MaxChurn = 3
INVARIANTS
    EveryDecisionJudged
PROPERTIES
    ImplementsScheduler
CHECK_DEADLOCK FALSE
