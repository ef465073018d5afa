SPECIFICATION Spec
CONSTANTS
    Replica = {"r1", "r2"}
    Leader = {"r1"}
    Ing = {"i"}
    Addr = {"a", "b"}
    Source = {"service", "nodes"}
    NodeIP <- MCNodeIP
    MaxEvents = 2

    
PROPERTIES
    ShutdownEnds
    Cleared
CHECK_DEADLOCK FALSE
