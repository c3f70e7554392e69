--------------------------- MODULE MCDisputeDesk ---------------------------
EXTENDS DisputeDesk, TLC

Symmetry == Permutations(Calls)

=============================================================================
