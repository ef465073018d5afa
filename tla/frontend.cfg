SPECIFICATION Spec
CONSTANTS
    Inputs <- MCInputs
    Requests <- MCRequests
    Wildcards <- MCWildcards
    maxTokensPerLine = 1
INVARIANTS
    RightPath
    LookupsAgree
