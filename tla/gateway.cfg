SPECIFICATION Spec
CONSTANTS
    None = None
    GwNamespace = "n1"
    Route = {1, 2, 3}
    Ing = {1, 2, 3}
    Host <- MCHost
    PathSeq <- MCPathSeq
    Svc <- MCSvc
    Secret = {"x", "y"}
    Key <- MCKey
    KeyPort <- MCKeyPort
    Group <- MCGroup
    Port = {1, 2}
    TCPHost <- MCTCPHost
    Scenario <- MCScenario
    MaxChanges = 2
INVARIANTS
    Converged
    
    
    
    TCPApplied
CHECK_DEADLOCK FALSE
