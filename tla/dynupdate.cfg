SPECIFICATION Spec
CONSTANTS
    Ep = {1, 2}
    FirstSrv = 100
    Mode <- MCMode
INVARIANTS
    UniqueNames
    Converged
    
