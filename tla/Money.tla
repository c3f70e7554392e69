------------------------------- MODULE Money -------------------------------
(***************************************************************************)
(* Sums of amounts, and the integer divisions by which the contracts split *)
(* an amount.  A balance f of a set of owners is a function to Nat; its    *)
(* total is the number of coins in it, a coin being a pair of its owner    *)
(* and its number in the owner's purse.  Counting coins is a sum that      *)
(* needs no recursion, so facts about it can be proved.                    *)
(***************************************************************************)
EXTENDS Integers, FiniteSets

Coins(f, S) == UNION {{x} \X (1 .. f[x]) : x \in S}

Total(f) == Cardinality(Coins(f, DOMAIN f))

\* Fault: only a quarter of the stake is burned.
BurnsAQuarter(seized, n) ==
  LET distribute == seized - seized \div 4
      share      == IF n = 0 THEN 0 ELSE distribute \div n
  IN  [share |-> share, burn |-> seized - n * share]

(***************************************************************************)
(* AgentSlashing._burnAndRedistribute: half is burned, the other half is   *)
(* shared equally by n recipients, what the division leaves is burned too. *)
(***************************************************************************)
BurnAndRedistribute(seized, n) ==
  LET half       == seized \div 2
      distribute == seized - half
      share      == IF n = 0 THEN 0 ELSE distribute \div n
  IN  [share |-> share, burn |-> half + (distribute - n * share)]

\* Fault: what the division by the peers leaves is not folded into the burn.
DisputeSplitStrandsLeftover(seized, n) ==
  LET burnHalf == seized \div 2
      reward   == seized \div 10
      forPeers == seized - burnHalf - reward
  IN  [reward |-> reward,
       share  |-> IF n = 0 THEN 0 ELSE forPeers \div n,
       burn   |-> IF n = 0 THEN burnHalf + forPeers ELSE burnHalf]

(***************************************************************************)
(* The split of AgentSlashing.resolveDispute when the agent was wrong: a   *)
(* tenth of the seized stake, taken out of the distributed half, rewards   *)
(* the challenger, and n peers share the rest.                             *)
(***************************************************************************)
DisputeSplit(seized, n) ==
  LET burnHalf       == seized \div 2
      distributeHalf == seized - burnHalf
      tenth          == seized \div 10
      reward         == IF tenth > distributeHalf THEN distributeHalf ELSE tenth
      forPeers       == distributeHalf - reward
      share          == IF n = 0 THEN 0 ELSE forPeers \div n
  IN  [reward |-> reward, share |-> share,
       burn |-> burnHalf + (forPeers - n * share)]

\* Fault: the remainder of the fee stays in the leaderboard.
FeeSplitStrandsRemainder(fee, n) ==
  [share |-> IF n = 0 THEN 0 ELSE fee \div n,
   burn  |-> IF n = 0 THEN fee ELSE 0]

(***************************************************************************)
(* TuringLeaderboard._distributeClaimFee: n correct attestors share the    *)
(* fee equally, the remainder (all of it, if n = 0) is burned.             *)
(***************************************************************************)
FeeSplit(fee, n) ==
  LET share == IF n = 0 THEN 0 ELSE fee \div n
  IN  [share |-> share, burn |-> fee - n * share]
=============================================================================
