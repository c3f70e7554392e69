------------------------------ MODULE MCStreak ------------------------------
(* The two assets and one extra attestor. mETH's sources are 50 bps apart, as much as  *)
(* reconciles, and a third of one above the rounded value; USDY's source moves by 56.  *)
EXTENDS Streak

MCAssets == <<"mETH", "USDY">>
MCAttestors == <<"reflector", "rotor">>
MCPaths ==
    [a \in Range(ASSETS) |->
       IF a = "mETH" THEN {<<204 * SCALE + SCALE \div 3, 254 * SCALE + SCALE \div 3>>}
                     ELSE {<<355 * SCALE>>, <<411 * SCALE>>}]

=============================================================================
