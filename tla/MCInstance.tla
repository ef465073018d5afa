----------------------------- MODULE MCInstance -----------------------------
EXTENDS Instance
Mode(kind, delayed, track, validate) ==
    [kind |-> kind, delayed |-> delayed, track |-> track, validate |-> validate]
\* Each kind of process, with options that between them use every path.
MCModes == {Mode("daemon", FALSE, TRUE, FALSE), Mode("master", TRUE, TRUE, FALSE),
            Mode("external", FALSE, TRUE, TRUE)}
=============================================================================
