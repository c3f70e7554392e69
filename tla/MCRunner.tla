------------------------------ MODULE MCRunner ------------------------------
(* Two of the three agents and the human, one run and two posts of the claim. *)
EXTENDS Runner

MCAgents == <<"reflector", "rotor">>

=============================================================================
