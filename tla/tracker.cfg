SPECIFICATION FairSpec
CONSTANTS
    Ref = {none, ing, svc, host}
    EmptyRef = none
INVARIANTS
    Symmetric
PROPERTIES
    RemovesComponent
    WalkEnds
    GraphSpec
