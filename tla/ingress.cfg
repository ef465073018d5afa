SPECIFICATION Spec
CONSTANTS
    None = None
    Ing <- MCIng
    HostSeq <- MCHostSeq
    PathSeq <- MCPathSeq
    BackSeq <- MCBackSeq
    Svc = {"s1", "s2"}
    Secret = {"x", "y"}
    Texts <- MCTexts
    Urls <- MCUrls
    Snippets <- MCSnippets
    DisableKeywords = {"server"}
    Scenario <- MCScenario
    MaxChanges = 3
INVARIANTS
    Converged
    
    Precedence
    PoolSound
CHECK_DEADLOCK FALSE
