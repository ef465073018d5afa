------------------------------- MODULE MCAcme -------------------------------
EXTENDS Acme
CONSTANTS x, y
\* A certificate for the one does not cover the other.
MCDomains == {{x}, {x, y}}
=============================================================================
