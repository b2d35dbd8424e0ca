SPECIFICATION FairSpec
CONSTANTS
    None = None
    p1 = p1
    p2 = p2
    n1 = n1
    n2 = n2
    Pod = {p1, p2}
    Node = {n1, n2}
    NumPolicies = 1
    PolicySpecs <- MCPolicySpecs
    NumEvidence = 2
    EvidenceSpecs <- MCEvidenceSpecs
    DecisionName <- MCDecisionName
    MaxUID = 2
    MaxTime = 1
    MaxChurn = 1
PROPERTY NoPodLeftBehind
CHECK_DEADLOCK FALSE
