---------------------------- MODULE MCDynUpdate ----------------------------
EXTENDS DynUpdate

Base == [weights |-> {1}, labeled |-> {}, preserve |-> FALSE, podUID |-> FALSE,
         ipNaming |-> FALSE, sortBy |-> "endpoint", delayed |-> FALSE,
         blockSize |-> 2, minFree |-> 1]

Labeled == [Base EXCEPT !.labeled = {2}, !.ipNaming = TRUE, !.sortBy = "name",
                        !.delayed = TRUE]
Shuffled == [Base EXCEPT !.sortBy = "random", !.blockSize = 3, !.minFree = 0]
Drained == [Base EXCEPT !.weights = {0, 1}, !.sortBy = "ip", !.blockSize = 1]
Cookies == [Base EXCEPT !.preserve = TRUE, !.podUID = TRUE]

MCMode == {Labeled, Shuffled, Drained, Cookies}
=============================================================================
