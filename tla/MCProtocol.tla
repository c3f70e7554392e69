----------------------------- MODULE MCProtocol -----------------------------
(* Small instances of the protocol for TLC. *)
EXTENDS ProtocolProperties, TLC

Symmetry == Permutations(Accounts) \union Permutations(Claims)
=============================================================================
