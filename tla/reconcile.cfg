SPECIFICATION Spec
CONSTANTS
    Ing = {1, 2}
    Host = {h, dh}
    DefaultHost = dh
    Path = {r}
    Root = r
    Svc = {s, t}
    Endpoint = {e1}
    Conf = {c1, c2}
    Born = {1, 2}
    Object <- MCObject
    None = None
    MaxChanges = 2
    MaxLeads = 1
SYMMETRY MCSymmetry
INVARIANTS
    Converged
    Written
    RoutesResolve
CHECK_DEADLOCK FALSE
