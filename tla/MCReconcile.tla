---------------------------- MODULE MCReconcile ----------------------------
EXTENDS Reconcile, TLC

Rules(hosts, paths, born) ==
    [host : hosts, path : paths, svc : Svc, isDefault : {FALSE}, born : born]

Defaults(born) ==
    [host : {DefaultHost}, path : {Root}, svc : Svc, isDefault : {TRUE}, born : born]

\* One path for each host, and default backends.
MCObject ==
    Rules(Host, {Root}, {2}) \cup Defaults({1})

MCSymmetry == {f @@ g : f \in Permutations(Svc), g \in Permutations(Conf)}
=============================================================================
