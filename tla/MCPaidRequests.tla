--------------------------- MODULE MCPaidRequests ---------------------------
(* Calls, instances and assets are alike; the payments are kept apart because *)
(* the calls of a run choose them.                                            *)
EXTENDS PaidRequests, TLC

Symmetry == Permutations(Call) \cup Permutations(Instance) \cup Permutations(Asset)

=============================================================================
