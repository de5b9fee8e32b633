--------------------------- MODULE MCSessionHost ---------------------------
EXTENDS SessionHost, TLC
Symmetry == Permutations(VMs) \cup Permutations(Handlers)
=============================================================================
