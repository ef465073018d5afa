SPECIFICATION FairSpec
CONSTANTS
    Item = {a, b}
    Removable = {a}
    Mode <- MCMode
    MaxAdd = 3
INVARIANTS
    ShutDownWaits
PROPERTIES
    EventuallySynced
    
\* A queue that was shut down, or is left alone, stops.
CHECK_DEADLOCK FALSE
