----------------------------- MODULE MCEvidence -----------------------------
(* One category of assets, three sources, three runs, two nodes. *)
EXTENDS Evidence

MCValues == {SCALE * bps : bps \in {0, 1, 2, 4}}

=============================================================================
