------------------------------ MODULE MCQueue ------------------------------
EXTENDS Queue

Kind(failure, limited, context, clears) ==
    [failure |-> failure, limited |-> limited, context |-> context, clears |-> clears]

\* The reload and the ingress queue; the status and acme queue, run with a
\* context or cleared.
MCMode == {Kind(FALSE, TRUE, FALSE, 0), Kind(TRUE, FALSE, TRUE, 0),
           Kind(TRUE, FALSE, FALSE, 1)}
=============================================================================
