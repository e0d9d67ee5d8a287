--------------------------- MODULE MCSessionLock ---------------------------
EXTENDS SessionLock, TLC

\* Outputs are interchangeable, and so are lock clients.
LockSymmetry == Permutations(Outputs) \cup Permutations(Clients)
=============================================================================
