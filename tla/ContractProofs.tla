--------------------------- MODULE ContractProofs ---------------------------
(***************************************************************************)
(* The contracts, for every set of accounts and claims and every value of  *)
(* the constants: the arithmetic of Money and the types; bonds and         *)
(* disputes; claims and attestations; money and scores; the abstract       *)
(* escrow.                                                                 *)
(*                                                                         *)
(* Who is active has a bond, the records of the registry and of the        *)
(* slashing contract agree, the bond of an accused account is frozen, and  *)
(* votes are backed by bonds.  DisputesAgree and                           *)
(* ActiveIffBonded are each inductive once types are known; together they  *)
(* give AccusedBondFrozen: an open dispute means a counter above zero, so  *)
(* that no bond is taken out, and an agent that is not active, whose       *)
(* record a registration may overwrite, has no bond to lose.               *)
(***************************************************************************)
EXTENDS ProtocolProperties, FiniteSetTheorems, TLAPS

(***************************************************************************)
(* Money: the splits, for every amount and every number of recipients.  No *)
(* unit is lost and none is created.                                       *)
(***************************************************************************)

(***************************************************************************)
(* What an integer division pays out never exceeds what was divided.       *)
(***************************************************************************)
LEMMA DivisionPays ==
  ASSUME NEW x \in Nat, NEW n \in Nat \ {0}
  PROVE  /\ x \div n \in Nat
         /\ n * (x \div n) \in Nat
         /\ n * (x \div n) <= x
  OBVIOUS

LEMMA NatTimes ==
  ASSUME NEW x \in Nat, NEW y \in Nat
  PROVE  x * y \in Nat
  OBVIOUS

LEMMA HalfAndTenth ==
  ASSUME NEW x \in Nat
  PROVE  /\ x \div 2 \in Nat
         /\ x \div 10 \in Nat
         /\ x \div 2 <= x - x \div 2
         /\ x \div 10 <= x \div 2
  OBVIOUS

(***************************************************************************)
(* _distributeClaimFee: shares and burn add up to the fee.                 *)
(***************************************************************************)
THEOREM FeeSplitConserves ==
  ASSUME NEW fee \in Nat, NEW n \in Nat
  PROVE  LET split == FeeSplit(fee, n) IN
         /\ split.share \in Nat
         /\ split.burn \in Nat
         /\ n * split.share + split.burn = fee
  <1>1. CASE n = 0
    BY <1>1 DEF FeeSplit
  <1>2. CASE n # 0
    BY <1>2, DivisionPays DEF FeeSplit
  <1> QED
    BY <1>1, <1>2

(***************************************************************************)
(* _burnAndRedistribute: shares and burn add up to the seized amount, and  *)
(* at least half of it (rounded down) is burned.                           *)
(***************************************************************************)
THEOREM BurnAndRedistributeConserves ==
  ASSUME NEW seized \in Nat, NEW n \in Nat
  PROVE  LET split == BurnAndRedistribute(seized, n) IN
         /\ split.share \in Nat
         /\ split.burn \in Nat
         /\ n * split.share + split.burn = seized
         /\ split.burn >= seized \div 2
  <1> DEFINE distribute == seized - seized \div 2
  <1>1. /\ seized \div 2 \in Nat
        /\ distribute \in Nat
        /\ distribute + seized \div 2 = seized
    BY HalfAndTenth
  <1> HIDE DEF distribute
  <1>2. CASE n = 0
    BY <1>1, <1>2 DEF BurnAndRedistribute, distribute
  <1>3. CASE n # 0
    <2>1. /\ distribute \div n \in Nat
          /\ n * (distribute \div n) \in Nat
          /\ n * (distribute \div n) <= distribute
      BY <1>1, <1>3, DivisionPays
    <2>2. BurnAndRedistribute(seized, n) =
            [share |-> distribute \div n,
             burn  |-> seized \div 2 + (distribute - n * (distribute \div n))]
      BY <1>3 DEF BurnAndRedistribute, distribute
    <2> QED
      BY <1>1, <2>1, <2>2
  <1> QED
    BY <1>2, <1>3

(***************************************************************************)
(* resolveDispute, agent wrong: the challenger's reward, the peers' shares *)
(* and the burn add up to the seized stake; the reward is a tenth of it    *)
(* (the cap at the distributed half never binds) and half is burned.       *)
(***************************************************************************)
THEOREM DisputeSplitConserves ==
  ASSUME NEW seized \in Nat, NEW n \in Nat
  PROVE  LET split == DisputeSplit(seized, n) IN
         /\ split.reward = seized \div 10
         /\ split.reward \in Nat
         /\ split.share \in Nat
         /\ split.burn \in Nat
         /\ split.reward + n * split.share + split.burn = seized
         /\ split.burn >= seized \div 2
  <1> DEFINE forPeers == seized - seized \div 2 - seized \div 10
  <1>1. /\ seized \div 2 \in Nat
        /\ seized \div 10 \in Nat
        /\ ~(seized \div 10 > seized - seized \div 2)
        /\ forPeers \in Nat
    BY HalfAndTenth
  <1> DEFINE share == IF n = 0 THEN 0 ELSE forPeers \div n
  <1>2. DisputeSplit(seized, n) =
          [reward |-> seized \div 10, share |-> share,
           burn   |-> seized \div 2 + (forPeers - n * share)]
    BY <1>1 DEF DisputeSplit
  <1>3. forPeers + seized \div 2 + seized \div 10 = seized
    BY <1>1
  <1> HIDE DEF forPeers
  <1>4. share \in Nat /\ n * share \in Nat /\ n * share <= forPeers
    <2>1. CASE n = 0
      BY <1>1, <2>1
    <2>2. CASE n # 0
      BY <1>1, <2>2, DivisionPays
    <2> QED
      BY <2>1, <2>2
  <1> HIDE DEF share
  <1> QED
    BY <1>1, <1>2, <1>3, <1>4

-----------------------------------------------------------------------------
(***************************************************************************)
(* Totals.  Coins are counted by the library's theorems on cardinality.    *)
(***************************************************************************)
LEMMA CoinIn ==
  ASSUME NEW S, NEW f \in [S -> Nat], NEW p
  PROVE  p \in Coins(f, S) <=> \E x \in S, i \in Nat \ {0} : i <= f[x] /\ p = <<x, i>>
  BY DEF Coins

LEMMA CoinsFinite ==
  ASSUME NEW S, IsFiniteSet(S), NEW f \in [S -> Nat]
  PROVE  IsFiniteSet(Coins(f, S))
  <1> DEFINE purse == [x \in S |-> {x} \X (1 .. f[x])]
             purses == {purse[x] : x \in S}
  <1>1. purse \in Surjection(S, purses)
    BY DEF Surjection
  <1>2. IsFiniteSet(purses)
    <2> HIDE DEF purse, purses
    <2> QED  BY <1>1, FS_Surjection
  <1>3. \A x \in S : IsFiniteSet({x} \X (1 .. f[x]))
    <2> TAKE x \in S
    <2>1. IsFiniteSet({x})
      BY FS_Singleton
    <2>2. IsFiniteSet(1 .. f[x])
      BY FS_Interval
    <2> QED
      BY <2>1, <2>2, FS_Product
  <1>4. \A P \in purses : IsFiniteSet(P)
    BY <1>3
  <1>5. IsFiniteSet(UNION purses)
    <2> HIDE DEF purses
    <2> QED  BY <1>2, <1>4, FS_UNION
  <1> QED
    BY <1>5 DEF Coins

LEMMA TotalType ==
  ASSUME NEW S, IsFiniteSet(S), NEW f \in [S -> Nat]
  PROVE  Total(f) \in Nat
  BY CoinsFinite, FS_CardinalityType DEF Total

(***************************************************************************)
(* Giving k to each member of T adds k to the total once per member.       *)
(***************************************************************************)
LEMMA TotalAdd ==
  ASSUME NEW S, IsFiniteSet(S), NEW T \in SUBSET S, NEW k \in Nat,
         NEW f \in [S -> Nat], NEW g \in [S -> Nat],
         \A a \in S : g[a] = f[a] + (IF a \in T THEN k ELSE 0)
  PROVE  Total(g) = Total(f) + Cardinality(T) * k
  <1> DEFINE slots == T \X (1 .. k)
             place == [p \in slots |-> <<p[1], f[p[1]] + p[2]>>]
             new   == {place[p] : p \in slots}
  <1>1. IsFiniteSet(T) /\ Cardinality(T) \in Nat
    BY FS_Subset, FS_CardinalityType
  <1>2. IsFiniteSet(slots) /\ Cardinality(slots) = Cardinality(T) * k
    <2>1. IsFiniteSet(1 .. k) /\ Cardinality(1 .. k) = k
      <3>1. IsFiniteSet(1 .. k)
            /\ Cardinality(1 .. k) = IF 1 > k THEN 0 ELSE k - 1 + 1
        BY FS_Interval
      <3> QED
        BY <3>1
    <2>2. /\ IsFiniteSet(T \X (1 .. k))
          /\ Cardinality(T \X (1 .. k)) = Cardinality(T) * Cardinality(1 .. k)
      BY <1>1, <2>1, FS_Product
    <2> QED
      BY <2>1, <2>2
  <1>3. place \in Bijection(slots, new)
    <2>1. \A p, q \in slots : place[p] = place[q] => p = q
      OBVIOUS
    <2>2. place \in [slots -> new] /\ \A q \in new : \E p \in slots : place[p] = q
      OBVIOUS
    <2> HIDE DEF slots, new, place
    <2> QED
      BY <2>1, <2>2 DEF Bijection, Injection, IsInjective, Surjection
  <1>4. IsFiniteSet(new) /\ Cardinality(new) = Cardinality(T) * k
    <2>1. ExistsBijection(slots, new)
      BY <1>3 DEF ExistsBijection
    <2> HIDE DEF slots, new
    <2> QED
      BY <1>2, <2>1, FS_Bijection
  <1>5. \A p : p \in new <=> \E a \in T, i \in 1 .. k : p = <<a, f[a] + i>>
    <2>1. ASSUME NEW a \in T, NEW i \in 1 .. k
          PROVE  <<a, f[a] + i>> \in new
      <3>1. <<a, i>> \in slots /\ place[<<a, i>>] = <<a, f[a] + i>>
        OBVIOUS
      <3> QED
        BY <3>1
    <2>2. ASSUME NEW p \in new
          PROVE  \E a \in T, i \in 1 .. k : p = <<a, f[a] + i>>
      OBVIOUS
    <2> QED
      BY <2>1, <2>2
  <1> HIDE DEF new
  <1>6. Coins(g, S) = Coins(f, S) \union new
    <2>1. ASSUME NEW p \in Coins(g, S)
          PROVE  p \in Coins(f, S) \union new
      <3>1. PICK x \in S, i \in Nat \ {0} : i <= g[x] /\ p = <<x, i>>
        BY CoinIn
      <3>2. CASE i <= f[x]
        BY <3>1, <3>2, CoinIn
      <3>3. CASE i > f[x]
        <4>1. x \in T /\ i - f[x] \in 1 .. k /\ i = f[x] + (i - f[x])
          BY <3>1, <3>3
        <4> QED
          BY <3>1, <4>1, <1>5
      <3> QED
        BY <3>2, <3>3
    <2>2. ASSUME NEW p \in Coins(f, S)
          PROVE  p \in Coins(g, S)
      <3>1. PICK x \in S, i \in Nat \ {0} : i <= f[x] /\ p = <<x, i>>
        BY CoinIn
      <3>2. i <= g[x]
        BY <3>1
      <3> QED
        BY <3>1, <3>2, CoinIn
    <2>3. ASSUME NEW p \in new
          PROVE  p \in Coins(g, S)
      <3>1. PICK a \in T, i \in 1 .. k : p = <<a, f[a] + i>>
        BY <1>5
      <3>2. a \in S /\ f[a] + i \in Nat \ {0} /\ f[a] + i <= g[a]
        OBVIOUS
      <3> QED
        BY <3>1, <3>2, CoinIn
    <2> QED
      BY <2>1, <2>2, <2>3
  <1>7. Coins(f, S) \intersect new = {}
    <2>1. ASSUME NEW p \in Coins(f, S), p \in new
          PROVE  FALSE
      <3>1. PICK x \in S, i \in Nat \ {0} : i <= f[x] /\ p = <<x, i>>
        BY CoinIn
      <3>2. PICK a \in T, j \in 1 .. k : p = <<a, f[a] + j>>
        BY <2>1, <1>5
      <3>3. x = a /\ i = f[a] + j
        BY <3>1, <3>2
      <3> QED
        BY <3>1, <3>3
    <2> QED
      BY <2>1
  <1>8. IsFiniteSet(Coins(f, S)) /\ Cardinality(Coins(f, S)) \in Nat
    BY CoinsFinite, FS_CardinalityType
  <1>9. Cardinality(Coins(g, S)) =
          Cardinality(Coins(f, S)) + Cardinality(new) - 0
    BY <1>4, <1>6, <1>7, <1>8, FS_Union, FS_EmptySet
  <1>10. Cardinality(new) \in Nat
    BY <1>4, FS_CardinalityType
  <1> QED
    BY <1>4, <1>8, <1>9, <1>10 DEF Total

(***************************************************************************)
(* One balance changes: so does the total, by the same amount.             *)
(***************************************************************************)
LEMMA TotalChange ==
  ASSUME NEW S, IsFiniteSet(S), NEW x \in S, NEW f \in [S -> Nat],
         NEW v \in Nat
  PROVE  Total([f EXCEPT ![x] = v]) = Total(f) - f[x] + v
  <1> DEFINE X    == {x}
             none == [f EXCEPT ![x] = 0]
             g    == [f EXCEPT ![x] = v]
  <1>1. none \in [S -> Nat] /\ g \in [S -> Nat]
    OBVIOUS
  <1>2. \A a \in S : /\ f[a] = none[a] + (IF a \in X THEN f[x] ELSE 0)
                     /\ g[a] = none[a] + (IF a \in X THEN v ELSE 0)
    OBVIOUS
  <1>3. Total(none) \in Nat /\ Total(f) \in Nat /\ Total(g) \in Nat
    <2> HIDE DEF none, g
    <2> QED  BY <1>1, TotalType
  <1>4. Cardinality(X) = 1 /\ X \in SUBSET S /\ f[x] \in Nat
    BY FS_Singleton
  <1> HIDE DEF none, g, X
  <1>5. Total(f) = Total(none) + Cardinality(X) * f[x]
    <2>1. PICK n \in Nat : n = f[x]
      BY <1>4
    <2>2. \A a \in S : f[a] = none[a] + (IF a \in X THEN n ELSE 0)
      BY <1>2, <2>1
    <2>3. Total(f) = Total(none) + Cardinality(X) * n
      BY <1>1, <1>4, <2>2, TotalAdd
    <2> QED
      BY <2>1, <2>3
  <1>6. Total(g) = Total(none) + Cardinality(X) * v
    BY <1>1, <1>2, <1>4, TotalAdd
  <1>7. Total(g) = Total(f) - f[x] + v
    BY <1>3, <1>4, <1>5, <1>6
  <1> QED
    BY <1>7 DEF g

-----------------------------------------------------------------------------
(***************************************************************************)
(* Types.                                                                  *)
(***************************************************************************)

USE RegistryAssumption, AttestationAssumption, SlashingAssumption,
    LeaderboardAssumption

-----------------------------------------------------------------------------
\* Finiteness.

LEMMA AccountsFinite ==
  ASSUME NEW S \in SUBSET Accounts
  PROVE  IsFiniteSet(S) /\ Cardinality(S) \in Nat
  BY FS_Subset, FS_CardinalityType

-----------------------------------------------------------------------------
\* TypeOK holds at first and is kept by each action: one lemma per action.

LEMMA InitTypeOK == Init => TypeOK
  BY DEF Init, RegistryInit, AttestationInit, SlashingInit, LeaderboardInit,
         TypeOK, Agent, NoAgent, Claim, NoClaim, Attestation, NoAttestation,
         Decision, Stats, NoStats, Epochs, DisputeIds, Dispute

LEMMA RegisterType ==
  ASSUME TypeOK, NEW a \in Accounts, NEW v \in 0 .. MAX_BOND, Register(a, v)
  PROVE  TypeOK'
  BY DEF TypeOK, Register, register, Agent, attestationVars, slashingVars,
         leaderboardVars, DisputeIds

LEMMA TopUpBondType ==
  ASSUME TypeOK, NEW a \in Accounts, NEW v \in 0 .. MAX_BOND, TopUpBond(a, v)
  PROVE  TypeOK'
  <1> DEFINE r == agents[a]
  <1>1. agents' = [agents EXCEPT ![a] = [r EXCEPT !.bond = @ + v]]
    BY DEF TopUpBond, topUpBond
  <1>2. /\ registryBalance' = registryBalance + v
        /\ UNCHANGED <<pendingDisputes, attestationVars, slashingVars,
                       leaderboardVars>>
    BY DEF TopUpBond, topUpBond
  <1>3. [r EXCEPT !.bond = @ + v] \in Agent
    <2>1. r \in Agent
      BY DEF TypeOK
    <2> HIDE DEF r
    <2> QED
      BY <2>1 DEF Agent
  <1> HIDE DEF r
  <1>4. agents' \in [Accounts -> Agent]
    BY <1>1, <1>3 DEF TypeOK
  <1> QED
    BY <1>2, <1>4 DEF TypeOK, attestationVars, slashingVars, leaderboardVars,
                      DisputeIds

LEMMA WithdrawBondType ==
  ASSUME TypeOK, NEW a \in Accounts, NEW v \in 0 .. MAX_BOND,
         WithdrawBond(a, v)
  PROVE  TypeOK'
  <1> DEFINE r         == agents[a]
             remaining == r.bond - v
             stays     == r.active /\ remaining # 0
  <1>1. agents' = [agents EXCEPT ![a] =
             [r EXCEPT !.bond = remaining, !.active = stays]]
    BY DEF TypeOK, Agent, WithdrawBond, withdrawBond, Withdrawable, LeftWith
  <1>2. /\ registryBalance' = registryBalance - v
        /\ UNCHANGED <<pendingDisputes, attestationVars, slashingVars,
                       leaderboardVars>>
    BY DEF WithdrawBond, withdrawBond
  <1>3. r \in Agent /\ remaining \in Nat /\ stays \in BOOLEAN
    BY DEF TypeOK, Agent, WithdrawBond, withdrawBond, Withdrawable, LeftWith
  <1> HIDE DEF r, remaining, stays
  <1>4. [r EXCEPT !.bond = remaining, !.active = stays] \in Agent
    BY <1>3 DEF Agent
  <1>5. agents' \in [Accounts -> Agent]
    BY <1>1, <1>4 DEF TypeOK
  <1> QED
    BY <1>2, <1>5 DEF TypeOK, attestationVars, slashingVars, leaderboardVars,
                      DisputeIds

LEMMA PostClaimType ==
  ASSUME TypeOK, NEW c \in Claims, NEW tier \in TIERS, PostClaim(c, tier)
  PROVE  TypeOK'
  BY DEF TypeOK, PostClaim, postClaim, Claim, registryVars,
         slashingVars, leaderboardVars, DisputeIds

LEMMA CloseClaimType ==
  ASSUME TypeOK, NEW c \in Claims, CloseClaim(c)
  PROVE  TypeOK'
  <1> DEFINE r == claims[c]
  <1>1. [r EXCEPT !.closed = TRUE] \in Claim
    <2>1. r \in Claim
      BY DEF TypeOK
    <2> HIDE DEF r
    <2> QED
      BY <2>1 DEF Claim
  <1>2. claims' \in [Claims -> Claim]
    BY <1>1 DEF TypeOK, CloseClaim, closeClaim
  <1> QED
    BY <1>2 DEF TypeOK, CloseClaim, closeClaim, registryVars, slashingVars,
                leaderboardVars, DisputeIds

LEMMA AttestType ==
  ASSUME TypeOK, NEW a \in Accounts, NEW c \in Claims, NEW d \in Decision,
         Attest(a, c, d)
  PROVE  TypeOK'
  <1> DEFINE lock == IF d = "ABSTAIN" THEN 0 ELSE ATTEST_LOCK
             cast == [exists |-> TRUE, decision |-> d, lockedStake |-> lock]
  <1>1. cast \in Attestation /\ lock \in Nat
    BY DEF Attestation
  <1> DEFINE r == claims[c]
  <1>2. [r EXCEPT !.attestorCount = @ + 1] \in Claim
    <2>1. r \in Claim
      BY DEF TypeOK
    <2> HIDE DEF r
    <2> QED
      BY <2>1 DEF Claim
  <1>3. claims' \in [Claims -> Claim]
    BY <1>2 DEF TypeOK, Attest, attest
  <1>4. attestations' = [attestations EXCEPT ![c] = [@ EXCEPT ![a] = cast]]
    BY DEF Attest, attest
  <1>5. attestationBalance' = attestationBalance + lock
    BY DEF Attest, attest
  <1> HIDE DEF lock, cast
  <1>6. attestations' \in [Claims -> [Accounts -> Attestation]]
    BY <1>1, <1>4 DEF TypeOK
  <1> QED
    BY <1>1, <1>3, <1>5, <1>6
       DEF TypeOK, Attest, registryVars, slashingVars, leaderboardVars, DisputeIds

LEMMA OpenDisputeType ==
  ASSUME TypeOK, NEW a \in Accounts, NEW c \in Claims, NEW b \in Accounts,
         OpenDispute(a, c, b)
  PROVE  TypeOK'
  <1> DEFINE new == [claimId |-> c, accused |-> b, challenger |-> a,
                     age |-> 0, votesWrong |-> 0, votesRight |-> 0,
                     voters |-> {}, resolved |-> FALSE]
  <1>1. new \in Dispute
    BY DEF Dispute, WindowElapsed
  <1>2. /\ disputeCount' = disputeCount + 1
        /\ disputes' = [id \in 0 .. disputeCount |->
             IF id = disputeCount THEN new ELSE disputes[id]]
    BY DEF OpenDispute, openDispute
  <1> HIDE DEF new
  <1>3. /\ disputeCount' \in Nat
        /\ disputes' \in [0 .. disputeCount' - 1 -> Dispute]
    BY <1>1, <1>2 DEF TypeOK, DisputeIds
  <1>4. pendingDisputes' \in [Accounts -> Nat]
    BY DEF TypeOK, OpenDispute, openDispute, setDisputePending
  <1>5. /\ activeDispute' \subseteq Claims \X Accounts
        /\ slashingBalance' \in Int
    BY DEF TypeOK, OpenDispute, openDispute
  <1> QED
    BY <1>3, <1>4, <1>5
       DEF TypeOK, OpenDispute, openDispute, attestationVars, leaderboardVars,
           DisputeIds

LEMMA VoteType ==
  ASSUME TypeOK, NEW a \in Accounts, NEW id \in DisputeIds, NEW w \in BOOLEAN,
         Vote(a, id, w)
  PROVE  TypeOK'
  <1> DEFINE weight == agents[a].bond
             d      == disputes[id]
             wrong  == IF w THEN d.votesWrong + weight ELSE d.votesWrong
             right  == IF w THEN d.votesRight ELSE d.votesRight + weight
  <1>1. weight \in Nat /\ d \in Dispute
    BY DEF TypeOK, Agent
  <1>2. disputes' = [disputes EXCEPT ![id] =
          [d EXCEPT !.voters = @ \union {a},
                    !.votesWrong = wrong, !.votesRight = right]]
    BY DEF TypeOK, Vote, vote, Dispute
  <1>3. wrong \in Nat /\ right \in Nat
    BY <1>1 DEF Dispute
  <1> HIDE DEF wrong, right, d
  <1>4. [d EXCEPT !.voters = @ \union {a},
                  !.votesWrong = wrong, !.votesRight = right] \in Dispute
    BY <1>1, <1>3 DEF Dispute
  <1>5. disputes' \in [DisputeIds -> Dispute]
    BY <1>2, <1>4 DEF TypeOK
  <1> QED
    BY <1>5 DEF TypeOK, Vote, vote, registryVars, attestationVars,
                leaderboardVars, DisputeIds

-----------------------------------------------------------------------------
\* The calls contracts make to each other.

LEMMA AdjustReputationType ==
  ASSUME TypeOK, NEW delta \in [Accounts -> Int], adjustReputation(delta)
  PROVE  agents' \in [Accounts -> Agent]
  <1>1. ASSUME NEW r \in Agent, NEW n \in Int
        PROVE  [r EXCEPT !.reputation = @ + n] \in Agent
    BY DEF Agent
  <1>2. \A a \in Accounts :
          [agents[a] EXCEPT !.reputation = @ + delta[a]] \in Agent
    BY <1>1 DEF TypeOK
  <1> QED
    BY <1>2 DEF adjustReputation

LEMMA SeizeStakesType ==
  ASSUME TypeOK, NEW c \in Claims, NEW S, seizeStakes(c, S)
  PROVE  attestations' \in [Claims -> [Accounts -> Attestation]]
  <1>1. ASSUME NEW r \in Attestation
        PROVE  [r EXCEPT !.lockedStake = 0] \in Attestation
    BY DEF Attestation
  <1> DEFINE after == [a \in Accounts |->
                         IF a \in S
                         THEN [attestations[c][a] EXCEPT !.lockedStake = 0]
                         ELSE attestations[c][a]]
  <1>2. after \in [Accounts -> Attestation]
    BY <1>1 DEF TypeOK
  <1>3. attestations' = [attestations EXCEPT ![c] = after]
    BY DEF seizeStakes
  <1> HIDE DEF after
  <1> QED
    BY <1>2, <1>3 DEF TypeOK

LEMMA CloseDisputeType ==
  ASSUME TypeOK, NEW id \in DisputeIds, CloseDispute(id)
  PROVE  /\ disputes' \in [DisputeIds -> Dispute]
         /\ pendingDisputes' \in [Accounts -> Nat]
         /\ activeDispute' \subseteq Claims \X Accounts
         /\ UNCHANGED <<disputeCount, surplus, registryBalance, claims>>
  <1> DEFINE d == disputes[id]
  <1>1. d \in Dispute
    BY DEF TypeOK
  <1>2. [d EXCEPT !.resolved = TRUE] \in Dispute
    <2> HIDE DEF d
    <2> QED
      BY <1>1 DEF Dispute
  <1>3. disputes' = [disputes EXCEPT ![id] = [d EXCEPT !.resolved = TRUE]]
    BY DEF CloseDispute
  <1>4. /\ d.accused \in Accounts
        /\ pendingDisputes[d.accused] # 0
        /\ pendingDisputes' = [pendingDisputes EXCEPT ![d.accused] = @ - 1]
    <2>1. d.accused \in Accounts
      BY <1>1 DEF Dispute
    <2> QED
      BY <2>1 DEF CloseDispute, setDisputePending
  <1>5. activeDispute' \subseteq activeDispute
        /\ UNCHANGED <<disputeCount, surplus, registryBalance, claims>>
    BY DEF CloseDispute
  <1> HIDE DEF d
  <1>6. pendingDisputes' \in [Accounts -> Nat]
    <2> DEFINE b == d.accused
    <2>1. pendingDisputes \in [Accounts -> Nat]
      BY DEF TypeOK
    <2>2. /\ b \in Accounts
          /\ pendingDisputes[b] # 0
          /\ pendingDisputes' = [pendingDisputes EXCEPT ![b] = @ - 1]
      BY <1>4
    <2> HIDE DEF b
    <2> QED
      BY <2>1, <2>2
  <1> QED
    BY <1>2, <1>3, <1>5, <1>6 DEF TypeOK

-----------------------------------------------------------------------------
\* resolveDispute.

LEMMA ResolveAgentWrongType ==
  ASSUME TypeOK, NEW id \in DisputeIds, ResolveAgentWrong(id),
         UNCHANGED leaderboardVars
  PROVE  TypeOK'
  <1> DEFINE d     == disputes[id]
             slash == attestations[d.claimId][d.accused].lockedStake
             peers == Peers(d.claimId, d.accused)
             n     == Cardinality(peers)
             split == DisputeSplit(slash, n)
             gain  == [a \in Accounts |->
                         (IF a \in peers THEN split.share ELSE 0)
                         + (IF a = d.challenger THEN DISPUTE_BOND + split.reward
                                                ELSE 0)]
             delta == [a \in Accounts |-> IF a = d.accused THEN -10 ELSE 0]
  <1>1. d \in Dispute /\ d.claimId \in Claims /\ d.accused \in Accounts
    BY DEF TypeOK, Dispute
  <1>2. slash \in Nat
    <2> HIDE DEF d
    <2>1. attestations[d.claimId][d.accused] \in Attestation
      BY <1>1 DEF TypeOK
    <2> QED
      BY <2>1 DEF Attestation
  <1>3. n \in Nat
    BY AccountsFinite DEF Peers, Deciders, getClaimAttestors
  <1>4. split.share \in Nat /\ split.reward \in Nat /\ split.burn \in Nat
    <2> HIDE DEF slash, n
    <2> QED  BY <1>2, <1>3, DisputeSplitConserves
  <1>5. gain \in [Accounts -> Nat] /\ delta \in [Accounts -> Int]
    <2> HIDE DEF d, peers, split
    <2> QED  BY <1>4
  <1>6. /\ CloseDispute(id)
        /\ seizeStakes(d.claimId, {d.accused})
        /\ attestationBalance' = attestationBalance - slash
        /\ slashingBalance' = slashingBalance + slash
        /\ claimable' = [a \in Accounts |-> claimable[a] + gain[a]]
        /\ totalBurned' = totalBurned + split.burn
        /\ adjustReputation(delta)
    BY DEF ResolveAgentWrong
  <1> HIDE DEF d, slash, peers, n, split, gain, delta
  <1>7. /\ attestationBalance' \in Int
        /\ slashingBalance' \in Int
        /\ claimable' \in [Accounts -> Nat]
        /\ totalBurned' \in Nat
    BY <1>2, <1>4, <1>5, <1>6 DEF TypeOK
  <1>8. agents' \in [Accounts -> Agent]
    BY <1>5, <1>6, AdjustReputationType
  <1>9. attestations' \in [Claims -> [Accounts -> Attestation]]
    BY <1>1, <1>6, SeizeStakesType
  <1> QED
    BY <1>6, <1>7, <1>8, <1>9, CloseDisputeType
       DEF TypeOK, leaderboardVars, DisputeIds

LEMMA ResolveAgentRightType ==
  ASSUME TypeOK, NEW id \in DisputeIds, ResolveAgentRight(id),
         UNCHANGED leaderboardVars
  PROVE  TypeOK'
  <1> DEFINE accused == disputes[id].accused
             credit  == DISPUTE_BOND \div 2
  <1>1. accused \in Accounts
    BY DEF TypeOK, Dispute
  <1>2. credit \in Nat /\ DISPUTE_BOND - credit \in Nat
    BY HalfAndTenth
  <1>3. /\ CloseDispute(id)
        /\ claimable' = [claimable EXCEPT ![accused] = @ + credit]
        /\ totalBurned' = totalBurned + (DISPUTE_BOND - credit)
        /\ UNCHANGED <<slashingBalance, agents, attestations,
                       attestationBalance>>
    BY DEF ResolveAgentRight
  <1> HIDE DEF accused, credit
  <1>4. claimable' \in [Accounts -> Nat] /\ totalBurned' \in Nat
    BY <1>1, <1>2, <1>3 DEF TypeOK
  <1> QED
    BY <1>3, <1>4, CloseDisputeType DEF TypeOK, leaderboardVars, DisputeIds

LEMMA ResolveDisputeType ==
  ASSUME TypeOK, NEW id \in DisputeIds, ResolveDispute(id)
  PROVE  TypeOK'
  BY ResolveAgentWrongType, ResolveAgentRightType
     DEF ResolveDispute, resolveDispute

-----------------------------------------------------------------------------
LEMMA WithdrawType ==
  ASSUME TypeOK, NEW a \in Accounts, Withdraw(a)
  PROVE  TypeOK'
  BY DEF TypeOK, Withdraw, withdraw, registryVars, attestationVars,
         leaderboardVars, DisputeIds

LEMMA ReceiveType ==
  ASSUME TypeOK, Receive
  PROVE  TypeOK'
  BY DEF TypeOK, Receive, receive, registryVars, attestationVars,
         leaderboardVars, DisputeIds

LEMMA TickType ==
  ASSUME TypeOK, Tick
  PROVE  TypeOK'
  <1>1. ASSUME NEW d \in Dispute, d.age # WindowElapsed
        PROVE  [d EXCEPT !.age = @ + 1] \in Dispute
    BY <1>1 DEF Dispute, WindowElapsed
  <1>2. Aged \in [DisputeIds -> Dispute]
    BY <1>1 DEF TypeOK, Aged
  <1>3. disputes' \in [DisputeIds -> Dispute]
    BY <1>2 DEF Tick
  <1>4. epoch' \in Epochs
    BY DEF TypeOK, Tick, Epochs
  <1> QED
    BY <1>3, <1>4 DEF TypeOK, Tick, registryVars, attestationVars, DisputeIds

LEMMA BumpType ==
  ASSUME NEW s \in Stats, NEW a, NEW C, NEW W, NEW Z
  PROVE  Bump(s, a, C, W, Z) \in Stats
  <1>1. /\ [s EXCEPT !.correct = @ + 1] \in Stats
        /\ [s EXCEPT !.abstained = @ + 1] \in Stats
    BY DEF Stats
  <1>2. [s EXCEPT !.wrong = @ + 1, !.slashes = @ + 1] \in Stats
    <2>1. s.wrong + 1 \in Nat /\ s.slashes + 1 \in Nat
      BY DEF Stats
    <2> QED
      BY <2>1 DEF Stats
  <1> QED
    BY <1>1, <1>2 DEF Bump

LEMMA SettleType ==
  ASSUME TypeOK, NEW c \in Claims, NEW truth \in Decision,
         settleTier1(c, truth)
  PROVE  TypeOK'
  <1> DEFINE correct   == CollectCorrect(c, truth)
             wrong     == Deciders(c) \ correct
             abstained == getClaimAttestors(c) \ Deciders(c)
             n         == Cardinality(correct)
             w         == Cardinality(wrong)
             fee       == claims[c].claimFee
             slashed   == BurnAndRedistribute(ATTEST_LOCK, n)
             feeSplit  == FeeSplit(fee, n)
             prize     == ATTEST_LOCK + w * slashed.share + feeSplit.share
             gain      == [a \in Accounts |-> IF a \in correct THEN prize ELSE 0]
             forwarded == n * ATTEST_LOCK + n * feeSplit.share + feeSplit.burn
             delta     == [a \in Accounts |->
                             IF a \in correct THEN 1
                             ELSE IF a \in wrong THEN -10 ELSE 0]
  <1>1. n \in Nat /\ w \in Nat
    BY AccountsFinite DEF CollectCorrect, Deciders, getClaimAttestors
  <1>2. fee \in Nat
    BY DEF TypeOK, Claim
  <1>3. /\ slashed.share \in Nat /\ slashed.burn \in Nat
        /\ feeSplit.share \in Nat /\ feeSplit.burn \in Nat
    <2> HIDE DEF n, fee
    <2> QED  BY <1>1, <1>2, BurnAndRedistributeConserves, FeeSplitConserves
  <1>4. /\ settled' = [settled EXCEPT ![c] = TRUE]
        /\ lifetimeStats' = [a \in Accounts |->
             Bump(lifetimeStats[a], a, correct, wrong, abstained)]
        /\ epochStats' = [a \in Accounts |-> [epochStats[a] EXCEPT ![epoch] =
             Bump(@, a, correct, wrong, abstained)]]
        /\ adjustReputation(delta)
        /\ seizeStakes(c, Deciders(c))
        /\ seizeClaimFee(c)
        /\ attestationBalance' =
             attestationBalance - (n + w) * ATTEST_LOCK - fee
        /\ claimable' = [a \in Accounts |-> claimable[a] + gain[a]]
        /\ totalBurned' = totalBurned + w * slashed.burn + feeSplit.burn
        /\ slashingBalance' = slashingBalance + w * ATTEST_LOCK + forwarded
        /\ leaderboardBalance' =
             leaderboardBalance + n * ATTEST_LOCK + fee - forwarded
        /\ UNCHANGED <<pendingDisputes, registryBalance, disputes,
                       disputeCount, activeDispute, surplus, epoch>>
    BY DEF settleTier1
  <1> HIDE DEF correct, wrong, abstained, n, w, fee, slashed, feeSplit
  <1>5. /\ w * slashed.share \in Nat
        /\ w * slashed.burn \in Nat
        /\ n * feeSplit.share \in Nat
        /\ n * ATTEST_LOCK \in Nat
        /\ w * ATTEST_LOCK \in Nat
        /\ (n + w) * ATTEST_LOCK \in Nat
    BY <1>1, <1>3, NatTimes
  <1>6. gain \in [Accounts -> Nat] /\ delta \in [Accounts -> Int]
    <2>1. prize \in Nat
      BY <1>3, <1>5
    <2> QED
      BY <2>1
  <1>7. forwarded \in Nat
    BY <1>3, <1>5
  <1> HIDE DEF prize, gain, delta, forwarded
  <1>8. /\ attestationBalance' \in Int
        /\ claimable' \in [Accounts -> Nat]
        /\ totalBurned' \in Nat
        /\ slashingBalance' \in Int
        /\ leaderboardBalance' \in Int
        /\ settled' \in [Claims -> BOOLEAN]
    BY <1>2, <1>3, <1>4, <1>5, <1>6, <1>7 DEF TypeOK
  <1>9. agents' \in [Accounts -> Agent]
    BY <1>4, <1>6, AdjustReputationType
  <1>10. attestations' \in [Claims -> [Accounts -> Attestation]]
    BY <1>4, SeizeStakesType
  <1>11. claims' \in [Claims -> Claim]
    <2> DEFINE r == claims[c]
    <2>1. claims' = [claims EXCEPT ![c] = [r EXCEPT !.claimFee = 0]]
      BY <1>4 DEF seizeClaimFee
    <2>2. r \in Claim
      BY DEF TypeOK
    <2> HIDE DEF r
    <2>3. [r EXCEPT !.claimFee = 0] \in Claim
      BY <2>2 DEF Claim
    <2> QED
      BY <2>1, <2>3 DEF TypeOK
  <1>12. lifetimeStats' \in [Accounts -> Stats]
    BY <1>4, BumpType DEF TypeOK
  <1>13. epochStats' \in [Accounts -> [Epochs -> Stats]]
    <2>1. ASSUME NEW a \in Accounts
          PROVE  [epochStats[a] EXCEPT ![epoch] =
                    Bump(@, a, correct, wrong, abstained)]
                 \in [Epochs -> Stats]
      <3>1. epochStats[a] \in [Epochs -> Stats] /\ epoch \in Epochs
        BY DEF TypeOK
      <3>2. Bump(epochStats[a][epoch], a, correct, wrong, abstained) \in Stats
        BY <3>1, BumpType
      <3> QED
        BY <3>1, <3>2
    <2> QED
      BY <1>4, <2>1
  <1> QED
    BY <1>4, <1>8, <1>9, <1>10, <1>11, <1>12, <1>13 DEF TypeOK, DisputeIds

-----------------------------------------------------------------------------
\* All the actions together.
LEMMA StepType ==
  ASSUME TypeOK, [Next]_vars
  PROVE  TypeOK'
  <1>1. ASSUME NEW a \in Accounts, AccountCall(a)
        PROVE  TypeOK'
    BY <1>1, RegisterType, TopUpBondType, WithdrawBondType, AttestType,
       OpenDisputeType, VoteType, WithdrawType DEF AccountCall
  <1>2. ASSUME NEW c \in Claims, OperatorCall(c)
        PROVE  TypeOK'
    BY <1>2, PostClaimType, CloseClaimType, SettleType DEF OperatorCall
  <1>3. CASE UNCHANGED vars
    BY <1>3 DEF TypeOK, vars, registryVars, attestationVars, slashingVars,
                leaderboardVars, DisputeIds
  <1> QED
    BY <1>1, <1>2, <1>3, ResolveDisputeType, ReceiveType, TickType DEF Next

(***************************************************************************)
(* Every variable has its type in every reachable state: no bond, counter  *)
(* or claimable balance of the contracts is ever negative.                 *)
(***************************************************************************)
THEOREM TypeCorrect == Spec => []TypeOK
  BY InitTypeOK, StepType, PTL DEF Spec

-----------------------------------------------------------------------------
(***************************************************************************)
(* Bonds and disputes.                                                     *)
(***************************************************************************)

-----------------------------------------------------------------------------
\* What each step does to bonds.

BondsKept ==
  /\ registryBalance' = registryBalance
  /\ \A b \in Accounts : /\ agents'[b].known = agents[b].known
                         /\ agents'[b].bond = agents[b].bond
                         /\ agents'[b].active = agents[b].active

LEMMA AdjustReputationKeepsBonds ==
  ASSUME TypeOK, NEW delta, adjustReputation(delta),
         registryBalance' = registryBalance
  PROVE  BondsKept
  <1>1. ASSUME NEW r \in Agent, NEW n,
               NEW q, q = [r EXCEPT !.reputation = @ + n]
        PROVE  q.known = r.known /\ q.bond = r.bond /\ q.active = r.active
    BY <1>1 DEF Agent
  <1>2. ASSUME NEW b \in Accounts
        PROVE  /\ agents'[b].known = agents[b].known
               /\ agents'[b].bond = agents[b].bond
               /\ agents'[b].active = agents[b].active
    <2>1. /\ agents[b] \in Agent
          /\ agents'[b] = [agents[b] EXCEPT !.reputation = @ + delta[b]]
      BY DEF TypeOK, adjustReputation
    <2> QED
      BY <1>1, <2>1
  <1> QED
    BY <1>2 DEF BondsKept

LEMMA BondStep ==
  ASSUME TypeOK, [Next]_vars
  PROVE  \/ \E a \in Accounts, v \in 0 .. MAX_BOND :
              Register(a, v) \/ TopUpBond(a, v) \/ WithdrawBond(a, v)
         \/ BondsKept
  <1>1. UNCHANGED registryVars => BondsKept
    BY DEF registryVars, BondsKept
  <1>2. UNCHANGED <<agents, registryBalance>> => BondsKept
    BY DEF BondsKept
  <1>3. ASSUME NEW a \in Accounts, AccountCall(a)
        PROVE  \/ \E v \in 0 .. MAX_BOND :
                    Register(a, v) \/ TopUpBond(a, v) \/ WithdrawBond(a, v)
               \/ BondsKept
    BY <1>1, <1>2, <1>3 DEF AccountCall, Attest, OpenDispute, openDispute,
                            Vote, vote, Withdraw, withdraw
  <1>4. ASSUME NEW c \in Claims, OperatorCall(c)
        PROVE  BondsKept
    <2>1. ASSUME NEW truth \in Decision, settleTier1(c, truth)
          PROVE  BondsKept
      BY <2>1, AdjustReputationKeepsBonds DEF settleTier1
    <2> QED
      BY <1>1, <1>4, <2>1 DEF OperatorCall, PostClaim, CloseClaim
  <1>5. ASSUME NEW id \in DisputeIds, ResolveDispute(id)
        PROVE  BondsKept
    <2>1. CASE ResolveAgentWrong(id)
      BY <2>1, AdjustReputationKeepsBonds DEF ResolveAgentWrong, CloseDispute
    <2>2. CASE ResolveAgentRight(id)
      BY <2>2, <1>2 DEF ResolveAgentRight, CloseDispute
    <2> QED
      BY <1>5, <2>1, <2>2 DEF ResolveDispute, resolveDispute
  <1>6. Receive \/ Tick \/ UNCHANGED vars => BondsKept
    BY <1>1 DEF Receive, receive, Tick, vars
  <1> QED
    BY <1>3, <1>4, <1>5, <1>6 DEF Next

-----------------------------------------------------------------------------
\* What the registry's own calls do to the record of the caller.

LEMMA RegisterEffect ==
  ASSUME TypeOK, NEW a \in Accounts, NEW v \in 0 .. MAX_BOND, Register(a, v)
  PROVE  /\ v >= MIN_BOND
         /\ ~agents[a].active
         /\ registryBalance' = registryBalance + v
         /\ agents'[a].known /\ agents'[a].active /\ agents'[a].bond = v
         /\ \A b \in Accounts \ {a} : agents'[b] = agents[b]
         /\ UNCHANGED <<pendingDisputes, slashingVars>>
  BY DEF TypeOK, Register, register

LEMMA TopUpBondEffect ==
  ASSUME TypeOK, NEW a \in Accounts, NEW v \in 0 .. MAX_BOND, TopUpBond(a, v)
  PROVE  /\ agents[a].active
         /\ registryBalance' = registryBalance + v
         /\ agents'[a].known = agents[a].known
         /\ agents'[a].active = agents[a].active
         /\ agents'[a].bond = agents[a].bond + v
         /\ \A b \in Accounts \ {a} : agents'[b] = agents[b]
         /\ UNCHANGED <<pendingDisputes, slashingVars>>
  <1> DEFINE r == agents[a]
  <1>1. r \in Agent
    BY DEF TypeOK
  <1>2. agents' = [agents EXCEPT ![a] = [r EXCEPT !.bond = @ + v]]
    BY DEF TopUpBond, topUpBond
  <1>3. /\ agents[a].active
        /\ registryBalance' = registryBalance + v
        /\ UNCHANGED <<pendingDisputes, slashingVars>>
    BY DEF TopUpBond, topUpBond
  <1> HIDE DEF r
  <1>4. /\ agents'[a] = [r EXCEPT !.bond = @ + v]
        /\ \A b \in Accounts \ {a} : agents'[b] = agents[b]
    BY <1>2 DEF TypeOK
  <1>5. /\ agents'[a].known = r.known
        /\ agents'[a].active = r.active
        /\ agents'[a].bond = r.bond + v
    BY <1>1, <1>4 DEF Agent
  <1> QED
    BY <1>3, <1>4, <1>5 DEF r

LEMMA WithdrawBondEffect ==
  ASSUME TypeOK, NEW a \in Accounts, NEW v \in 0 .. MAX_BOND,
         WithdrawBond(a, v)
  PROVE  LET remaining == agents[a].bond - v IN
         /\ pendingDisputes[a] = 0
         /\ remaining \in Nat
         /\ remaining = 0 \/ remaining >= MIN_BOND
         /\ registryBalance' = registryBalance - v
         /\ agents'[a].known = agents[a].known
         /\ agents'[a].active <=> agents[a].active /\ remaining # 0
         /\ agents'[a].bond = remaining
         /\ \A b \in Accounts \ {a} : agents'[b] = agents[b]
         /\ UNCHANGED <<pendingDisputes, slashingVars>>
  <1> DEFINE r         == agents[a]
             remaining == r.bond - v
             stays     == r.active /\ remaining # 0
  <1>1. agents' = [agents EXCEPT ![a] =
             [r EXCEPT !.bond = remaining, !.active = stays]]
    BY DEF TypeOK, Agent, WithdrawBond, withdrawBond, Withdrawable, LeftWith
  <1>2. /\ pendingDisputes[a] = 0
        /\ remaining \in Nat
        /\ remaining = 0 \/ remaining >= MIN_BOND
        /\ registryBalance' = registryBalance - v
        /\ UNCHANGED <<pendingDisputes, slashingVars>>
    BY DEF TypeOK, Agent, WithdrawBond, withdrawBond, Withdrawable, LeftWith
  <1>3. r \in Agent
    BY DEF TypeOK
  <1> HIDE DEF r, remaining, stays
  <1>4. /\ agents'[a] = [r EXCEPT !.bond = remaining, !.active = stays]
        /\ \A b \in Accounts \ {a} : agents'[b] = agents[b]
    BY <1>1 DEF TypeOK
  <1>5. /\ agents'[a].known = r.known
        /\ agents'[a].active = stays
        /\ agents'[a].bond = remaining
    BY <1>3, <1>4 DEF Agent
  <1> QED
    BY <1>2, <1>4, <1>5 DEF r, remaining, stays

-----------------------------------------------------------------------------
\* An invariant of its own, given the types.
LEMMA ActiveIffBondedStep ==
  ASSUME TypeOK, ActiveIffBonded, [Next]_vars
  PROVE  ActiveIffBonded'
  <1>1. \A b \in Accounts : agents[b] \in Agent /\ agents[b].bond \in Nat
    BY DEF TypeOK, Agent
  <1>2. ASSUME NEW a \in Accounts, NEW v \in 0 .. MAX_BOND, Register(a, v)
        PROVE  ActiveIffBonded'
    BY <1>1, <1>2, RegisterEffect DEF ActiveIffBonded
  <1>3. ASSUME NEW a \in Accounts, NEW v \in 0 .. MAX_BOND, TopUpBond(a, v)
        PROVE  ActiveIffBonded'
    BY <1>1, <1>3, TopUpBondEffect DEF ActiveIffBonded
  <1>4. ASSUME NEW a \in Accounts, NEW v \in 0 .. MAX_BOND, WithdrawBond(a, v)
        PROVE  ActiveIffBonded'
    <2> DEFINE remaining == agents[a].bond - v
    <2>1. /\ remaining \in Nat
          /\ remaining = 0 \/ remaining >= MIN_BOND
          /\ agents'[a].known = agents[a].known
          /\ agents'[a].active <=> agents[a].active /\ remaining # 0
          /\ agents'[a].bond = remaining
      BY <1>4, WithdrawBondEffect
    <2>2. \A b \in Accounts \ {a} : agents'[b] = agents[b]
      BY <1>4, WithdrawBondEffect
    <2>3. IF agents'[a].active
          THEN agents'[a].known /\ agents'[a].bond >= MIN_BOND
          ELSE agents'[a].bond = 0
      <3> HIDE DEF remaining
      <3>1. CASE agents[a].active
        BY <2>1, <3>1 DEF ActiveIffBonded
      <3>2. CASE ~agents[a].active
        <4>1. remaining = 0
          BY <1>1, <2>1, <3>2 DEF ActiveIffBonded, remaining
        <4> QED
          BY <2>1, <3>2, <4>1
      <3> QED
        BY <3>1, <3>2
    <2> QED
      BY <2>2, <2>3 DEF ActiveIffBonded
  <1>5. CASE BondsKept
    BY <1>5 DEF ActiveIffBonded, BondsKept
  <1> QED
    BY <1>2, <1>3, <1>4, <1>5, BondStep

(***************************************************************************)
(* An agent is active exactly while its bond covers the minimum, whatever  *)
(* it registers with, adds and withdraws (AgentRegistry.sol).              *)
(***************************************************************************)
THEOREM BondsCoverTheMinimum == Spec => []ActiveIffBonded
  <1>1. Init => ActiveIffBonded
    BY DEF Init, RegistryInit, NoAgent, ActiveIffBonded
  <1>2. TypeOK /\ ActiveIffBonded /\ [Next]_vars => ActiveIffBonded'
    BY ActiveIffBondedStep
  <1> QED
    BY <1>1, <1>2, TypeCorrect, PTL DEF Spec

-----------------------------------------------------------------------------
\* What each step does to disputes.

DisputesKept ==
  /\ DisputeIds' = DisputeIds
  /\ \A i \in DisputeIds : /\ disputes'[i].claimId = disputes[i].claimId
                           /\ disputes'[i].accused = disputes[i].accused
                           /\ disputes'[i].resolved = disputes[i].resolved
  /\ UNCHANGED <<pendingDisputes, activeDispute>>

LEMMA VoteKeepsDisputes ==
  ASSUME TypeOK, NEW a \in Accounts, NEW id \in DisputeIds, NEW w \in BOOLEAN,
         Vote(a, id, w)
  PROVE  DisputesKept
  <1> DEFINE d     == disputes[id]
             after == [d EXCEPT
                         !.voters = @ \union {a},
                         !.votesWrong = IF w THEN @ + agents[a].bond ELSE @,
                         !.votesRight = IF w THEN @ ELSE @ + agents[a].bond]
  <1>1. /\ disputes' = [disputes EXCEPT ![id] = after]
        /\ UNCHANGED <<disputeCount, pendingDisputes, activeDispute>>
    BY DEF TypeOK, Vote, vote, Dispute, registryVars
  <1>2. d \in Dispute
    BY DEF TypeOK
  <1>3. /\ after.claimId = d.claimId
        /\ after.accused = d.accused
        /\ after.resolved = d.resolved
    <2> HIDE DEF d
    <2> QED  BY <1>2 DEF Dispute
  <1> HIDE DEF after
  <1> QED
    BY <1>1, <1>3 DEF TypeOK, DisputesKept, DisputeIds

LEMMA TickKeepsDisputes ==
  ASSUME TypeOK, Tick
  PROVE  DisputesKept
  <1>1. ASSUME NEW d \in Dispute, NEW q, q = [d EXCEPT !.age = @ + 1]
        PROVE  /\ q.claimId = d.claimId
               /\ q.accused = d.accused
               /\ q.resolved = d.resolved
    BY <1>1 DEF Dispute
  <1>2. /\ disputes' = Aged
        /\ UNCHANGED <<disputeCount, pendingDisputes, activeDispute>>
    BY DEF Tick, registryVars
  <1>3. ASSUME NEW i \in DisputeIds
        PROVE  /\ disputes'[i].claimId = disputes[i].claimId
               /\ disputes'[i].accused = disputes[i].accused
               /\ disputes'[i].resolved = disputes[i].resolved
    <2>1. disputes[i] \in Dispute
      BY DEF TypeOK
    <2>2. \/ disputes'[i] = disputes[i]
          \/ disputes'[i] = [disputes[i] EXCEPT !.age = @ + 1]
      BY <1>2 DEF Aged
    <2> QED
      BY <1>1, <2>1, <2>2
  <1> QED
    BY <1>2, <1>3 DEF DisputesKept, DisputeIds

\* Every step is a call about disputes, a tick, or none of their business.
LEMMA DisputeCalls ==
  ASSUME [Next]_vars
  PROVE  \/ \E a \in Accounts, c \in Claims, b \in Accounts :
              OpenDispute(a, c, b)
         \/ \E a \in Accounts, id \in DisputeIds, w \in BOOLEAN :
              Vote(a, id, w)
         \/ \E id \in DisputeIds : ResolveDispute(id)
         \/ Tick
         \/ UNCHANGED <<pendingDisputes, disputes, disputeCount, activeDispute>>
  <1> DEFINE Kept ==
        UNCHANGED <<pendingDisputes, disputes, disputeCount, activeDispute>>
  <1>1. ASSUME NEW a \in Accounts, AccountCall(a)
        PROVE  \/ \E c \in Claims, b \in Accounts : OpenDispute(a, c, b)
               \/ \E id \in DisputeIds, w \in BOOLEAN : Vote(a, id, w)
               \/ Kept
    <2>1. ASSUME NEW v \in 0 .. MAX_BOND,
                 Register(a, v) \/ TopUpBond(a, v) \/ WithdrawBond(a, v)
          PROVE  Kept
      BY <2>1 DEF Register, register, TopUpBond, topUpBond,
                  WithdrawBond, withdrawBond, slashingVars
    <2>2. ASSUME NEW c \in Claims, NEW d \in Decision, Attest(a, c, d)
          PROVE  Kept
      BY <2>2 DEF Attest, registryVars, slashingVars
    <2>3. Withdraw(a) => Kept
      BY DEF Withdraw, withdraw, registryVars
    <2> QED
      BY <1>1, <2>1, <2>2, <2>3 DEF AccountCall
  <1>2. ASSUME NEW c \in Claims, OperatorCall(c)
        PROVE  Kept
    BY <1>2 DEF OperatorCall, PostClaim, CloseClaim, settleTier1,
                registryVars, slashingVars
  <1>3. Receive \/ UNCHANGED vars => Kept
    BY DEF Receive, receive, vars, registryVars, slashingVars
  <1> HIDE DEF Kept
  <1>4. \/ \E a \in Accounts, c \in Claims, b \in Accounts :
             OpenDispute(a, c, b)
        \/ \E a \in Accounts, id \in DisputeIds, w \in BOOLEAN :
             Vote(a, id, w)
        \/ \E id \in DisputeIds : ResolveDispute(id)
        \/ Tick
        \/ Kept
    BY <1>1, <1>2, <1>3 DEF Next
  <1> QED
    BY <1>4 DEF Kept

LEMMA DisputeStep ==
  ASSUME TypeOK, [Next]_vars
  PROVE  \/ \E a \in Accounts, c \in Claims, b \in Accounts :
              OpenDispute(a, c, b)
         \/ \E id \in DisputeIds : ResolveDispute(id)
         \/ DisputesKept
  <1>1. UNCHANGED <<pendingDisputes, disputes, disputeCount, activeDispute>>
          => DisputesKept
    BY DEF DisputesKept, DisputeIds
  <1> QED
    BY <1>1, DisputeCalls, VoteKeepsDisputes, TickKeepsDisputes

LEMMA OpenDisputeEffect ==
  ASSUME TypeOK, NEW a \in Accounts, NEW c \in Claims, NEW b \in Accounts,
         OpenDispute(a, c, b)
  PROVE  /\ disputeCount \notin DisputeIds
         /\ disputeCount' = disputeCount + 1
         /\ DisputeIds' = DisputeIds \union {disputeCount}
         /\ \A i \in DisputeIds : disputes'[i] = disputes[i]
         /\ disputes'[disputeCount].claimId = c
         /\ disputes'[disputeCount].accused = b
         /\ ~disputes'[disputeCount].resolved
         /\ b \in Deciders(c)
         /\ <<c, b>> \notin activeDispute
         /\ activeDispute' = activeDispute \union {<<c, b>>}
         /\ pendingDisputes' = [pendingDisputes EXCEPT ![b] = @ + 1]
         /\ slashingBalance' = slashingBalance + DISPUTE_BOND
         /\ UNCHANGED <<claimable, totalBurned, surplus, attestations, claims>>
  <1>1. disputeCount \in Nat
    BY DEF TypeOK
  <1>2. /\ disputeCount' = disputeCount + 1
        /\ disputes' = [id \in 0 .. disputeCount |->
             IF id = disputeCount
             THEN [claimId |-> c, accused |-> b, challenger |-> a,
                   age |-> 0, votesWrong |-> 0, votesRight |-> 0,
                   voters |-> {}, resolved |-> FALSE]
             ELSE disputes[id]]
    BY DEF OpenDispute, openDispute
  <1>3. /\ b \in Deciders(c)
        /\ <<c, b>> \notin activeDispute
        /\ activeDispute' = activeDispute \union {<<c, b>>}
        /\ slashingBalance' = slashingBalance + DISPUTE_BOND
        /\ UNCHANGED <<claimable, totalBurned, surplus, attestations, claims>>
    BY DEF OpenDispute, openDispute, Disputable, Deciders,
           getClaimAttestors, attestationVars
  <1>4. pendingDisputes' = [pendingDisputes EXCEPT ![b] = @ + 1]
    BY DEF OpenDispute, openDispute, setDisputePending
  <1>5. /\ disputeCount \notin DisputeIds
        /\ DisputeIds' = DisputeIds \union {disputeCount}
        /\ DisputeIds \subseteq 0 .. disputeCount
    BY <1>1, <1>2 DEF DisputeIds
  <1>6. \A i \in DisputeIds : disputes'[i] = disputes[i]
    BY <1>2, <1>5
  <1>7. /\ disputes'[disputeCount].claimId = c
        /\ disputes'[disputeCount].accused = b
        /\ ~disputes'[disputeCount].resolved
    BY <1>1, <1>2
  <1> QED
    BY <1>2, <1>3, <1>4, <1>5, <1>6, <1>7

LEMMA CloseDisputeEffect ==
  ASSUME TypeOK, NEW id \in DisputeIds, CloseDispute(id)
  PROVE  /\ ~disputes[id].resolved
         /\ disputes[id].claimId \in Claims
         /\ disputes[id].accused \in Accounts
         /\ disputeCount' = disputeCount
         /\ DisputeIds' = DisputeIds
         /\ \A i \in DisputeIds \ {id} : disputes'[i] = disputes[i]
         /\ disputes'[id] = [disputes[id] EXCEPT !.resolved = TRUE]
         /\ disputes'[id].claimId = disputes[id].claimId
         /\ disputes'[id].accused = disputes[id].accused
         /\ disputes'[id].resolved
         /\ activeDispute' = activeDispute \ {Pair(id)}
         /\ pendingDisputes[disputes[id].accused] # 0
         /\ pendingDisputes' =
              [pendingDisputes EXCEPT ![disputes[id].accused] = @ - 1]
  <1> DEFINE d     == disputes[id]
             after == [d EXCEPT !.resolved = TRUE]
  <1>1. d \in Dispute /\ d.claimId \in Claims /\ d.accused \in Accounts
    BY DEF TypeOK, Dispute
  <1>2. /\ ~d.resolved
        /\ disputes' = [disputes EXCEPT ![id] = after]
        /\ disputeCount' = disputeCount
        /\ activeDispute' = activeDispute \ {Pair(id)}
    BY DEF CloseDispute, Pair
  <1>3. /\ pendingDisputes[d.accused] # 0
        /\ pendingDisputes' = [pendingDisputes EXCEPT ![d.accused] = @ - 1]
    BY DEF CloseDispute, setDisputePending
  <1>4. /\ after.claimId = d.claimId
        /\ after.accused = d.accused
        /\ after.resolved
    <2> HIDE DEF d
    <2> QED  BY <1>1 DEF Dispute
  <1>5. DisputeIds' = DisputeIds
    BY <1>2 DEF DisputeIds
  <1> HIDE DEF after
  <1>6. /\ disputes'[id] = after
        /\ \A i \in DisputeIds \ {id} : disputes'[i] = disputes[i]
    BY <1>2 DEF TypeOK
  <1> QED
    BY <1>1, <1>2, <1>3, <1>4, <1>5, <1>6 DEF after

-----------------------------------------------------------------------------
\* The counter, the guard and the records in each of the steps.

LEMMA OpenFinite ==
  ASSUME TypeOK
  PROVE  /\ IsFiniteSet(OpenDisputes)
         /\ \A a : IsFiniteSet(OpenAgainst(a))
  <1>1. IsFiniteSet(DisputeIds)
    BY FS_Interval DEF TypeOK, DisputeIds
  <1>2. /\ OpenDisputes \in SUBSET DisputeIds
        /\ \A a : OpenAgainst(a) \in SUBSET DisputeIds
    BY DEF OpenDisputes, OpenAgainst
  <1> QED
    BY <1>1, <1>2, FS_Subset

LEMMA KeptAgree ==
  ASSUME TypeOK, DisputesAgree, DisputesKept
  PROVE  /\ DisputesAgree'
         /\ OpenDisputes' = OpenDisputes
         /\ \A a \in Accounts : OpenAgainst(a)' = OpenAgainst(a)
  <1>1. OpenDisputes' = OpenDisputes
    BY DEF DisputesKept, OpenDisputes
  <1>2. /\ \A a \in Accounts : OpenAgainst(a)' = OpenAgainst(a)
        /\ \A i \in OpenDisputes : Pair(i)' = Pair(i)
    BY <1>1 DEF DisputesKept, OpenAgainst, OpenDisputes, Pair
  <1>3. UNCHANGED <<pendingDisputes, activeDispute>>
    BY DEF DisputesKept
  <1> QED
    BY <1>1, <1>2, <1>3 DEF DisputesAgree

LEMMA OpenDisputeAgrees ==
  ASSUME TypeOK, DisputesAgree, NEW a \in Accounts, NEW c \in Claims,
         NEW b \in Accounts, OpenDispute(a, c, b), NEW n, n = disputeCount
  PROVE  /\ DisputesAgree'
         /\ OpenDisputes' = OpenDisputes \union {n}
         /\ n \notin OpenDisputes
  <1>0. /\ n \notin DisputeIds
        /\ DisputeIds' = DisputeIds \union {n}
        /\ \A i \in DisputeIds : disputes'[i] = disputes[i]
        /\ disputes'[n].claimId = c
        /\ disputes'[n].accused = b
        /\ ~disputes'[n].resolved
    BY OpenDisputeEffect
  <1>1. n \notin OpenDisputes
    BY <1>0 DEF OpenDisputes
  <1>2. OpenDisputes' = OpenDisputes \union {n}
    BY <1>0 DEF OpenDisputes
  <1>3. /\ \A i \in OpenDisputes : Pair(i)' = Pair(i)
        /\ Pair(n)' = <<c, b>>
    BY <1>0 DEF OpenDisputes, Pair
  <1>4. /\ OpenAgainst(b)' = OpenAgainst(b) \union {n}
        /\ \A x \in Accounts \ {b} : OpenAgainst(x)' = OpenAgainst(x)
    <2>1. \A i \in OpenDisputes : disputes'[i].accused = disputes[i].accused
      BY <1>0 DEF OpenDisputes
    <2> QED
      BY <1>0, <1>2, <2>1 DEF OpenAgainst
  <1>5. n \notin OpenAgainst(b) /\ IsFiniteSet(OpenAgainst(b))
    BY <1>1, OpenFinite DEF OpenAgainst
  <1>6. Cardinality(OpenAgainst(b)') = Cardinality(OpenAgainst(b)) + 1
    BY <1>4, <1>5, FS_AddElement, ZenonT(30)
  <1>7. \A x \in Accounts : pendingDisputes'[x] = Cardinality(OpenAgainst(x)')
    <2>1. pendingDisputes' = [pendingDisputes EXCEPT ![b] = @ + 1]
      BY OpenDisputeEffect
    <2> QED
      BY <1>4, <1>6, <2>1 DEF TypeOK, DisputesAgree
  <1>8. activeDispute' = {Pair(id) : id \in OpenDisputes}'
    BY <1>2, <1>3, OpenDisputeEffect DEF DisputesAgree
  <1>9. (\A i, j \in OpenDisputes : Pair(i) = Pair(j) => i = j)'
    <2>1. \A i \in OpenDisputes : Pair(i) # <<c, b>>
      BY OpenDisputeEffect DEF DisputesAgree
    <2> QED
      BY <1>2, <1>3, <2>1 DEF DisputesAgree
  <1> QED
    BY <1>1, <1>2, <1>7, <1>8, <1>9 DEF DisputesAgree

LEMMA ResolveCloses ==
  ASSUME NEW id, ResolveDispute(id)
  PROVE  CloseDispute(id)
  BY DEF ResolveDispute, resolveDispute, ResolveAgentWrong, ResolveAgentRight

LEMMA ResolveDisputeAgrees ==
  ASSUME TypeOK, DisputesAgree, NEW id \in DisputeIds, ResolveDispute(id)
  PROVE  /\ DisputesAgree'
         /\ id \in OpenDisputes
         /\ OpenDisputes' = OpenDisputes \ {id}
  <1>1. CloseDispute(id)
    BY ResolveCloses
  <1>2. id \in OpenDisputes /\ OpenDisputes' = OpenDisputes \ {id}
    <2>1. /\ ~disputes[id].resolved
          /\ disputes'[id].resolved
          /\ DisputeIds' = DisputeIds
          /\ \A i \in DisputeIds \ {id} : disputes'[i] = disputes[i]
      BY <1>1, CloseDisputeEffect
    <2> QED
      BY <2>1 DEF OpenDisputes
  <1>3. \A i \in OpenDisputes : Pair(i)' = Pair(i)
    BY <1>1, CloseDisputeEffect DEF OpenDisputes, Pair
  <1>4. PICK b \in Accounts : b = disputes[id].accused
    BY <1>1, CloseDisputeEffect
  <1>5. \A i \in DisputeIds : disputes'[i].accused = disputes[i].accused
    BY <1>1, CloseDisputeEffect
  <1>6. /\ OpenAgainst(b)' = OpenAgainst(b) \ {id}
        /\ \A x \in Accounts \ {b} : OpenAgainst(x)' = OpenAgainst(x)
    <2>1. \A i \in OpenDisputes : disputes'[i].accused = disputes[i].accused
      BY <1>5 DEF OpenDisputes
    <2> QED
      BY <1>2, <1>4, <2>1 DEF OpenAgainst
  <1>7. id \in OpenAgainst(b) /\ IsFiniteSet(OpenAgainst(b))
    BY <1>2, <1>4, OpenFinite DEF OpenAgainst
  <1>8. Cardinality(OpenAgainst(b)') = Cardinality(OpenAgainst(b)) - 1
    BY <1>6, <1>7, FS_RemoveElement, ZenonT(30)
  <1>9. \A x \in Accounts : pendingDisputes'[x] = Cardinality(OpenAgainst(x)')
    <2>1. pendingDisputes' = [pendingDisputes EXCEPT ![b] = @ - 1]
      BY <1>1, <1>4, CloseDisputeEffect
    <2> QED
      BY <1>6, <1>8, <2>1 DEF TypeOK, DisputesAgree
  <1>10. activeDispute' = {Pair(i) : i \in OpenDisputes}'
    <2>1. activeDispute' = activeDispute \ {Pair(id)}
      BY <1>1, CloseDisputeEffect
    <2> QED
      BY <1>2, <1>3, <2>1 DEF DisputesAgree
  <1>11. (\A i, j \in OpenDisputes : Pair(i) = Pair(j) => i = j)'
    BY <1>2, <1>3 DEF DisputesAgree
  <1> QED
    BY <1>2, <1>9, <1>10, <1>11 DEF DisputesAgree

LEMMA InitDisputesAgree == Init => DisputesAgree
  BY FS_EmptySet DEF Init, RegistryInit, SlashingInit, DisputesAgree,
                     OpenDisputes, OpenAgainst, DisputeIds

LEMMA DisputesAgreeStep ==
  ASSUME TypeOK, DisputesAgree, [Next]_vars
  PROVE  DisputesAgree'
  BY DisputeStep, KeptAgree, OpenDisputeAgrees, ResolveDisputeAgrees

(***************************************************************************)
(* The registry's counter of pending disputes, the slashing contract's     *)
(* guard and its dispute records agree, for ever.                          *)
(***************************************************************************)
THEOREM DisputeRecordsAgree == Spec => []DisputesAgree
  <1>1. Init => DisputesAgree
    BY InitDisputesAgree
  <1>2. TypeOK /\ DisputesAgree /\ [Next]_vars => DisputesAgree'
    BY DisputesAgreeStep
  <1> QED
    BY <1>1, <1>2, TypeCorrect, PTL DEF Spec

(***************************************************************************)
(* No call takes anything out of the bond of an account in dispute, or     *)
(* makes it leave.                                                         *)
(***************************************************************************)
THEOREM AccusedBondsStayFrozen == Spec => AccusedBondFrozen
  <1> DEFINE Frozen ==
        \A a \in Accounts :
          OpenAgainst(a) # {} => /\ agents'[a].bond >= agents[a].bond
                                 /\ agents[a].active => agents'[a].active
  <1>1. TypeOK /\ ActiveIffBonded /\ DisputesAgree /\ [Next]_vars
          => [Frozen]_vars
    <2> SUFFICES ASSUME TypeOK, ActiveIffBonded, DisputesAgree, [Next]_vars,
                        NEW a \in Accounts, OpenAgainst(a) # {}
                 PROVE  /\ agents'[a].bond >= agents[a].bond
                        /\ agents[a].active => agents'[a].active
      OBVIOUS
    <2>1. agents[a].bond \in Nat
      BY DEF TypeOK, Agent
    <2>2. pendingDisputes[a] # 0
      BY OpenFinite, FS_EmptySet DEF DisputesAgree
    <2>3. ASSUME NEW b \in Accounts, NEW v \in 0 .. MAX_BOND, Register(b, v)
          PROVE  /\ agents'[a].bond >= agents[a].bond
                 /\ agents[a].active => agents'[a].active
      BY <2>1, <2>3, RegisterEffect DEF ActiveIffBonded
    <2>4. ASSUME NEW b \in Accounts, NEW v \in 0 .. MAX_BOND, TopUpBond(b, v)
          PROVE  /\ agents'[a].bond >= agents[a].bond
                 /\ agents[a].active => agents'[a].active
      BY <2>1, <2>4, TopUpBondEffect
    <2>5. ASSUME NEW b \in Accounts, NEW v \in 0 .. MAX_BOND, WithdrawBond(b, v)
          PROVE  /\ agents'[a].bond >= agents[a].bond
                 /\ agents[a].active => agents'[a].active
      BY <2>1, <2>2, <2>5, WithdrawBondEffect
    <2>6. CASE BondsKept
      BY <2>1, <2>6 DEF BondsKept
    <2> QED
      BY <2>3, <2>4, <2>5, <2>6, BondStep
  <1> QED
    BY <1>1, TypeCorrect, BondsCoverTheMinimum, DisputeRecordsAgree, PTL
       DEF Spec, AccusedBondFrozen

-----------------------------------------------------------------------------
(***************************************************************************)
(* The weight of a vote.  VotesBacked is about bonds as they were when the *)
(* votes were cast; what carries it is that the bond of an active account  *)
(* is always between the two bounds, so that it was at that moment.        *)
(***************************************************************************)
BondsBounded == \A a \in Accounts : agents[a].bond <= MAX_BOND

LEMMA BondsBoundedStep ==
  ASSUME TypeOK, BondsBounded, [Next]_vars
  PROVE  BondsBounded'
  <1>1. \A b \in Accounts : agents[b].bond \in Nat /\ agents[b].bond <= MAX_BOND
    BY DEF TypeOK, Agent, BondsBounded
  <1>2. ASSUME NEW a \in Accounts, NEW v \in 0 .. MAX_BOND, Register(a, v)
        PROVE  BondsBounded'
    BY <1>1, <1>2, RegisterEffect DEF BondsBounded
  <1>3. ASSUME NEW a \in Accounts, NEW v \in 0 .. MAX_BOND, TopUpBond(a, v)
        PROVE  BondsBounded'
    <2>1. agents[a].bond + v <= MAX_BOND
      BY <1>3 DEF TopUpBond, topUpBond
    <2> QED
      BY <1>1, <1>3, <2>1, TopUpBondEffect DEF BondsBounded
  <1>4. ASSUME NEW a \in Accounts, NEW v \in 0 .. MAX_BOND, WithdrawBond(a, v)
        PROVE  BondsBounded'
    <2>1. /\ agents'[a].bond = agents[a].bond - v
          /\ \A b \in Accounts \ {a} : agents'[b] = agents[b]
      BY <1>4, WithdrawBondEffect
    <2> QED
      BY <1>1, <2>1 DEF BondsBounded
  <1>5. CASE BondsKept
    BY <1>5 DEF BondsBounded, BondsKept
  <1> QED
    BY <1>2, <1>3, <1>4, <1>5, BondStep

\* What each step does to the votes.

VotesKept ==
  /\ DisputeIds' = DisputeIds
  /\ \A i \in DisputeIds : /\ disputes'[i].accused = disputes[i].accused
                           /\ disputes'[i].voters = disputes[i].voters
                           /\ disputes'[i].votesWrong = disputes[i].votesWrong
                           /\ disputes'[i].votesRight = disputes[i].votesRight

LEMMA VoteEffect ==
  ASSUME TypeOK, NEW a \in Accounts, NEW id \in DisputeIds, NEW w \in BOOLEAN,
         Vote(a, id, w)
  PROVE  /\ agents[a].active
         /\ a # disputes[id].accused
         /\ a \notin disputes[id].voters
         /\ DisputeIds' = DisputeIds
         /\ \A i \in DisputeIds \ {id} : disputes'[i] = disputes[i]
         /\ disputes'[id].accused = disputes[id].accused
         /\ disputes'[id].voters = disputes[id].voters \union {a}
         /\ disputes'[id].votesWrong + disputes'[id].votesRight =
              disputes[id].votesWrong + disputes[id].votesRight
                + agents[a].bond
  <1> DEFINE d     == disputes[id]
             bond  == agents[a].bond
             after == [d EXCEPT
                         !.voters = @ \union {a},
                         !.votesWrong = IF w THEN @ + bond ELSE @,
                         !.votesRight = IF w THEN @ ELSE @ + bond]
  <1>1. /\ disputes' = [disputes EXCEPT ![id] = after]
        /\ disputeCount' = disputeCount
    BY DEF TypeOK, Vote, vote, Dispute
  <1>2. /\ agents[a].active
        /\ a # d.accused
        /\ a \notin d.voters
    BY DEF Vote, vote, MayVote, isRegistered
  <1>3. d \in Dispute /\ bond \in Nat
    BY DEF TypeOK, Agent
  <1>4. /\ after.accused = d.accused
        /\ after.voters = d.voters \union {a}
        /\ after.votesWrong + after.votesRight =
             d.votesWrong + d.votesRight + bond
    <2> HIDE DEF d, bond
    <2>1. d.votesWrong \in Nat /\ d.votesRight \in Nat
      BY <1>3 DEF Dispute
    <2>2. /\ after.accused = d.accused
          /\ after.voters = d.voters \union {a}
          /\ after.votesWrong = IF w THEN d.votesWrong + bond ELSE d.votesWrong
          /\ after.votesRight = IF w THEN d.votesRight ELSE d.votesRight + bond
      BY <1>3 DEF Dispute
    <2> HIDE DEF after
    <2> QED
      BY <1>3, <2>1, <2>2
  <1> HIDE DEF after
  <1>5. /\ disputes'[id] = after
        /\ \A i \in DisputeIds \ {id} : disputes'[i] = disputes[i]
        /\ DisputeIds' = DisputeIds
    BY <1>1 DEF TypeOK, DisputeIds
  <1> QED
    BY <1>2, <1>4, <1>5

LEMMA TickKeepsVotes ==
  ASSUME TypeOK, Tick
  PROVE  VotesKept
  <1>1. ASSUME NEW d \in Dispute, NEW q, q = [d EXCEPT !.age = @ + 1]
        PROVE  /\ q.accused = d.accused
               /\ q.voters = d.voters
               /\ q.votesWrong = d.votesWrong
               /\ q.votesRight = d.votesRight
    BY <1>1 DEF Dispute
  <1>2. disputes' = Aged /\ disputeCount' = disputeCount
    BY DEF Tick
  <1>3. ASSUME NEW i \in DisputeIds
        PROVE  /\ disputes'[i].accused = disputes[i].accused
               /\ disputes'[i].voters = disputes[i].voters
               /\ disputes'[i].votesWrong = disputes[i].votesWrong
               /\ disputes'[i].votesRight = disputes[i].votesRight
    <2>1. disputes[i] \in Dispute
      BY DEF TypeOK
    <2>2. \/ disputes'[i] = disputes[i]
          \/ disputes'[i] = [disputes[i] EXCEPT !.age = @ + 1]
      BY <1>2 DEF Aged
    <2> QED
      BY <1>1, <2>1, <2>2
  <1> QED
    BY <1>2, <1>3 DEF VotesKept, DisputeIds

LEMMA CloseKeepsVotes ==
  ASSUME TypeOK, NEW id \in DisputeIds, ResolveDispute(id)
  PROVE  VotesKept
  <1> DEFINE d == disputes[id]
  <1>1. /\ DisputeIds' = DisputeIds
        /\ \A i \in DisputeIds \ {id} : disputes'[i] = disputes[i]
        /\ disputes'[id] = [d EXCEPT !.resolved = TRUE]
    BY ResolveCloses, CloseDisputeEffect
  <1>2. d \in Dispute
    BY DEF TypeOK
  <1>3. /\ disputes'[id].accused = d.accused
        /\ disputes'[id].voters = d.voters
        /\ disputes'[id].votesWrong = d.votesWrong
        /\ disputes'[id].votesRight = d.votesRight
    <2> HIDE DEF d
    <2> QED  BY <1>1, <1>2 DEF Dispute
  <1> QED
    BY <1>1, <1>3 DEF VotesKept

LEMMA VotesStep ==
  ASSUME TypeOK, [Next]_vars
  PROVE  \/ \E a \in Accounts, c \in Claims, b \in Accounts :
              OpenDispute(a, c, b)
         \/ \E a \in Accounts, id \in DisputeIds, w \in BOOLEAN :
              Vote(a, id, w)
         \/ VotesKept
  <1>1. UNCHANGED <<disputes, disputeCount>> => VotesKept
    BY DEF VotesKept, DisputeIds
  <1> QED
    BY <1>1, DisputeCalls, TickKeepsVotes, CloseKeepsVotes

\* One dispute's share of VotesBacked.
Backed(id) ==
  LET d == disputes[id] IN
  /\ d.accused \notin d.voters
  /\ d.votesWrong + d.votesRight >= Cardinality(d.voters) * MIN_BOND
  /\ d.votesWrong + d.votesRight <= Cardinality(d.voters) * MAX_BOND

LEMMA OneVoteMore ==
  ASSUME NEW n \in Nat, NEW votes \in Nat, NEW bond \in Nat,
         votes >= n * MIN_BOND, votes <= n * MAX_BOND,
         bond >= MIN_BOND, bond <= MAX_BOND
  PROVE  /\ votes + bond >= (n + 1) * MIN_BOND
         /\ votes + bond <= (n + 1) * MAX_BOND
  <1>1. /\ (n + 1) * MIN_BOND = n * MIN_BOND + MIN_BOND
        /\ (n + 1) * MAX_BOND = n * MAX_BOND + MAX_BOND
    OBVIOUS
  <1>2. n * MIN_BOND \in Nat /\ n * MAX_BOND \in Nat
    OBVIOUS
  <1> QED
    BY <1>1, <1>2

LEMMA VoteIsBacked ==
  ASSUME TypeOK, ActiveIffBonded, BondsBounded, NEW a \in Accounts,
         NEW id \in DisputeIds, NEW w \in BOOLEAN, Vote(a, id, w), Backed(id)
  PROVE  Backed(id)'
  <1> DEFINE n     == Cardinality(disputes[id].voters)
             votes == disputes[id].votesWrong + disputes[id].votesRight
             bond  == agents[a].bond
  <1>1. /\ agents[a].active
        /\ a # disputes[id].accused
        /\ a \notin disputes[id].voters
        /\ disputes'[id].accused = disputes[id].accused
        /\ disputes'[id].voters = disputes[id].voters \union {a}
        /\ disputes'[id].votesWrong + disputes'[id].votesRight = votes + bond
    BY VoteEffect
  <1>2. bond \in Nat /\ bond >= MIN_BOND /\ bond <= MAX_BOND
    BY <1>1 DEF TypeOK, Agent, ActiveIffBonded, BondsBounded
  <1>3. /\ votes \in Nat
        /\ disputes[id].voters \subseteq Accounts
    BY DEF TypeOK, Dispute
  <1>4. /\ n \in Nat
        /\ Cardinality(disputes'[id].voters) = n + 1
    <2>1. IsFiniteSet(disputes[id].voters)
      BY <1>3, AccountsFinite, FS_Subset
    <2> QED
      BY <1>1, <2>1, FS_CardinalityType, FS_AddElement
  <1>5. votes >= n * MIN_BOND /\ votes <= n * MAX_BOND
    BY DEF Backed
  <1> HIDE DEF n, votes, bond
  <1>6. /\ votes + bond >= (n + 1) * MIN_BOND
        /\ votes + bond <= (n + 1) * MAX_BOND
    BY <1>2, <1>3, <1>4, <1>5, OneVoteMore
  <1>7. disputes'[id].accused \notin disputes'[id].voters
    BY <1>1 DEF Backed
  <1> QED
    BY <1>1, <1>4, <1>6, <1>7 DEF Backed

LEMMA VotesBackedStep ==
  ASSUME TypeOK, ActiveIffBonded, BondsBounded, VotesBacked, [Next]_vars
  PROVE  VotesBacked'
  <1>0. \A i \in DisputeIds : Backed(i)
    BY DEF VotesBacked, Backed
  <1>1. ASSUME NEW i, Backed(i), disputes'[i].accused = disputes[i].accused,
               disputes'[i].voters = disputes[i].voters,
               disputes'[i].votesWrong = disputes[i].votesWrong,
               disputes'[i].votesRight = disputes[i].votesRight
        PROVE  Backed(i)'
    BY <1>1 DEF Backed
  <1>2. CASE VotesKept
    <2>1. \A i \in DisputeIds' : Backed(i)'
      BY <1>0, <1>1, <1>2 DEF VotesKept
    <2> QED
      BY <2>1 DEF VotesBacked, Backed
  <1>3. ASSUME NEW a \in Accounts, NEW id \in DisputeIds, NEW w \in BOOLEAN,
               Vote(a, id, w)
        PROVE  VotesBacked'
    <2>1. /\ DisputeIds' = DisputeIds
          /\ \A i \in DisputeIds \ {id} : disputes'[i] = disputes[i]
      BY <1>3, VoteEffect
    <2>2. \A i \in DisputeIds' : Backed(i)'
      BY <1>0, <1>1, <1>3, <2>1, VoteIsBacked
    <2> QED
      BY <2>2 DEF VotesBacked, Backed
  <1>4. ASSUME NEW a \in Accounts, NEW c \in Claims, NEW b \in Accounts,
               OpenDispute(a, c, b)
        PROVE  VotesBacked'
    <2>1. PICK n : n = disputeCount
      OBVIOUS
    <2>2. /\ DisputeIds' = DisputeIds \union {n}
          /\ \A i \in DisputeIds : disputes'[i] = disputes[i]
      BY <1>4, <2>1, OpenDisputeEffect
    <2>3. /\ disputes'[n].voters = {}
          /\ disputes'[n].votesWrong = 0
          /\ disputes'[n].votesRight = 0
      BY <1>4, <2>1 DEF OpenDispute, openDispute, TypeOK
    <2>4. Backed(n)'
      BY <2>3, FS_EmptySet DEF Backed
    <2>5. \A i \in DisputeIds' : Backed(i)'
      BY <1>0, <1>1, <2>2, <2>4
    <2> QED
      BY <2>5 DEF VotesBacked, Backed
  <1> QED
    BY <1>2, <1>3, <1>4, VotesStep

(***************************************************************************)
(* The votes of a dispute are backed by bonds: nobody votes twice, nor the *)
(* accused, and each vote weighed a bond between the minimum and the       *)
(* maximum when it was cast (vote).                                        *)
(***************************************************************************)
THEOREM VotesAreBacked == Spec => []VotesBacked
  <1>1. Init => BondsBounded /\ VotesBacked
    BY DEF Init, RegistryInit, NoAgent, BondsBounded, SlashingInit, DisputeIds,
           VotesBacked
  <1>2. /\ TypeOK /\ BondsBounded /\ [Next]_vars => BondsBounded'
        /\ TypeOK /\ ActiveIffBonded /\ BondsBounded /\ VotesBacked
             /\ [Next]_vars => VotesBacked'
    BY BondsBoundedStep, VotesBackedStep
  <1> QED
    BY <1>1, <1>2, TypeCorrect, BondsCoverTheMinimum, PTL DEF Spec

(***************************************************************************)
(* Claims and attestations, for every set of accounts and claims and every *)
(* value of the constants.  ClaimLifecycle is not inductive as it stands:  *)
(* settleTier1 seizes the stakes of those who decided, so that "no stake   *)
(* is left" needs that nobody else has one.  StakedDecided says so.  The   *)
(* last sections prove what follows from it: that decisions are final, and *)
(* that a stake leaves for cause and once.                                 *)
(***************************************************************************)

StakedDecided ==
  \A c \in Claims, a \in Accounts :
    attestations[c][a].lockedStake # 0 => a \in Deciders(c)

-----------------------------------------------------------------------------
\* What each step does to claims and attestations.

LEMMA PostClaimEffect ==
  ASSUME TypeOK, NEW c \in Claims, NEW tier \in TIERS, PostClaim(c, tier)
  PROVE  /\ ~claims[c].posted
         /\ claims'[c] = [posted |-> TRUE, closed |-> FALSE, tier |-> tier,
                          attestorCount |-> 0, claimFee |-> CLAIM_FEE]
         /\ \A x \in Claims \ {c} : claims'[x] = claims[x]
         /\ attestationBalance' = attestationBalance + CLAIM_FEE
         /\ UNCHANGED <<attestations, settled>>
  BY DEF TypeOK, PostClaim, postClaim, leaderboardVars

LEMMA CloseClaimEffect ==
  ASSUME TypeOK, NEW c \in Claims, CloseClaim(c)
  PROVE  /\ claims[c].posted
         /\ claims'[c].posted = claims[c].posted
         /\ claims'[c].tier = claims[c].tier
         /\ claims'[c].closed
         /\ claims'[c].attestorCount = claims[c].attestorCount
         /\ claims'[c].claimFee = claims[c].claimFee
         /\ \A x \in Claims \ {c} : claims'[x] = claims[x]
         /\ UNCHANGED <<attestations, attestationBalance, settled>>
  <1> DEFINE r     == claims[c]
             after == [r EXCEPT !.closed = TRUE]
  <1>1. /\ r.posted
        /\ claims' = [claims EXCEPT ![c] = after]
        /\ UNCHANGED <<attestations, attestationBalance, settled>>
    BY DEF CloseClaim, closeClaim, leaderboardVars
  <1>2. r \in Claim
    BY DEF TypeOK
  <1>3. /\ after.posted = r.posted /\ after.tier = r.tier /\ after.closed
        /\ after.attestorCount = r.attestorCount
        /\ after.claimFee = r.claimFee
    <2> HIDE DEF r
    <2> QED  BY <1>2 DEF Claim
  <1> HIDE DEF after
  <1>4. claims'[c] = after /\ \A x \in Claims \ {c} : claims'[x] = claims[x]
    BY <1>1 DEF TypeOK
  <1> QED
    BY <1>1, <1>3, <1>4

LEMMA AttestEffect ==
  ASSUME TypeOK, NEW a \in Accounts, NEW c \in Claims, NEW d \in Decision,
         Attest(a, c, d)
  PROVE  /\ claims[c].posted /\ ~claims[c].closed
         /\ ~attestations[c][a].exists
         /\ claims[c].attestorCount < MAX_ATTESTORS
         /\ claims[c].tier = 3 => d = "ABSTAIN"
         /\ attestations'[c][a].exists
         /\ attestations'[c][a].decision = d
         /\ attestations'[c][a].lockedStake =
              IF d = "ABSTAIN" THEN 0 ELSE ATTEST_LOCK
         /\ \A x \in Claims, b \in Accounts :
              x # c \/ b # a => attestations'[x][b] = attestations[x][b]
         /\ claims'[c].posted = claims[c].posted
         /\ claims'[c].tier = claims[c].tier
         /\ claims'[c].closed = claims[c].closed
         /\ claims'[c].attestorCount = claims[c].attestorCount + 1
         /\ claims'[c].claimFee = claims[c].claimFee
         /\ \A x \in Claims \ {c} : claims'[x] = claims[x]
         /\ attestationBalance' =
              attestationBalance + (IF d = "ABSTAIN" THEN 0 ELSE ATTEST_LOCK)
         /\ UNCHANGED settled
  <1> DEFINE r     == claims[c]
             after == [r EXCEPT !.attestorCount = @ + 1]
             stake == IF d = "ABSTAIN" THEN 0 ELSE ATTEST_LOCK
             new   == [exists |-> TRUE, decision |-> d, lockedStake |-> stake]
  <1>1. /\ r.posted /\ ~r.closed
        /\ ~attestations[c][a].exists
        /\ r.attestorCount < MAX_ATTESTORS
        /\ r.tier = 3 => d = "ABSTAIN"
        /\ attestationBalance' = attestationBalance + stake
        /\ UNCHANGED settled
    BY DEF Attest, attest, Accepts, HasRoom, TierAllows, leaderboardVars
  <1>2. attestations' = [attestations EXCEPT ![c][a] = new]
    BY DEF Attest, attest
  <1>3. claims' = [claims EXCEPT ![c] = after]
    BY DEF Attest, attest
  <1>4. r \in Claim
    BY DEF TypeOK
  <1>5. /\ after.posted = r.posted /\ after.tier = r.tier
        /\ after.closed = r.closed
        /\ after.attestorCount = r.attestorCount + 1
        /\ after.claimFee = r.claimFee
    <2> HIDE DEF r
    <2> QED  BY <1>4 DEF Claim
  <1> HIDE DEF after, new
  <1>6. claims'[c] = after /\ \A x \in Claims \ {c} : claims'[x] = claims[x]
    BY <1>3 DEF TypeOK
  <1>7. /\ attestations'[c][a] = new
        /\ \A x \in Claims, b \in Accounts :
             x # c \/ b # a => attestations'[x][b] = attestations[x][b]
    BY <1>2 DEF TypeOK
  <1>8. /\ attestations'[c][a].exists
        /\ attestations'[c][a].decision = d
        /\ attestations'[c][a].lockedStake = stake
    BY <1>7 DEF new
  <1> QED
    BY <1>1, <1>5, <1>6, <1>7, <1>8

\* Seizing takes stakes and nothing else.
LEMMA SeizeStakesEffect ==
  ASSUME TypeOK, NEW c \in Claims, NEW S, seizeStakes(c, S)
  PROVE  \A x \in Claims, b \in Accounts :
           /\ attestations'[x][b].exists = attestations[x][b].exists
           /\ attestations'[x][b].decision = attestations[x][b].decision
           /\ attestations'[x][b].lockedStake =
                IF x = c /\ b \in S THEN 0 ELSE attestations[x][b].lockedStake
  <1>1. ASSUME NEW r \in Attestation, NEW q, q = [r EXCEPT !.lockedStake = 0]
        PROVE  q.exists = r.exists /\ q.decision = r.decision
               /\ q.lockedStake = 0
    BY <1>1 DEF Attestation
  <1>2. ASSUME NEW x \in Claims, NEW b \in Accounts
        PROVE  /\ attestations[x][b] \in Attestation
               /\ attestations'[x][b] =
                    IF x = c /\ b \in S
                    THEN [attestations[x][b] EXCEPT !.lockedStake = 0]
                    ELSE attestations[x][b]
    BY DEF TypeOK, seizeStakes
  <1> TAKE x \in Claims, b \in Accounts
  <1>3. CASE x = c /\ b \in S
    <2>1. attestations'[x][b] = [attestations[x][b] EXCEPT !.lockedStake = 0]
      BY <1>2, <1>3
    <2> QED
      BY <1>1, <1>2, <1>3, <2>1
  <1>4. CASE ~(x = c /\ b \in S)
    <2>1. attestations'[x][b] = attestations[x][b]
      BY <1>2, <1>4
    <2> QED
      BY <1>4, <2>1
  <1> QED
    BY <1>3, <1>4

LEMMA SettleEffect ==
  ASSUME TypeOK, NEW c \in Claims, NEW truth \in Decision,
         settleTier1(c, truth)
  PROVE  /\ ~settled[c]
         /\ claims[c].posted /\ claims[c].closed /\ claims[c].tier = 1
         /\ claims[c].claimFee # 0
         /\ settled' = [settled EXCEPT ![c] = TRUE]
         /\ seizeStakes(c, Deciders(c))
         /\ claims'[c].posted = claims[c].posted
         /\ claims'[c].tier = claims[c].tier
         /\ claims'[c].closed = claims[c].closed
         /\ claims'[c].attestorCount = claims[c].attestorCount
         /\ claims'[c].claimFee = 0
         /\ \A x \in Claims \ {c} : claims'[x] = claims[x]
  <1> DEFINE r     == claims[c]
             after == [r EXCEPT !.claimFee = 0]
  <1>1. /\ ~settled[c]
        /\ r.posted /\ r.closed /\ r.tier = 1
        /\ r.claimFee # 0
        /\ settled' = [settled EXCEPT ![c] = TRUE]
        /\ seizeStakes(c, Deciders(c))
    BY DEF settleTier1, seizeClaimFee
  <1>2. claims' = [claims EXCEPT ![c] = after]
    BY DEF settleTier1, seizeClaimFee
  <1>3. r \in Claim
    BY DEF TypeOK
  <1>4. /\ after.posted = r.posted /\ after.tier = r.tier
        /\ after.closed = r.closed
        /\ after.attestorCount = r.attestorCount
        /\ after.claimFee = 0
    <2> HIDE DEF r
    <2> QED  BY <1>3 DEF Claim
  <1> HIDE DEF after
  <1>5. claims'[c] = after /\ \A x \in Claims \ {c} : claims'[x] = claims[x]
    BY <1>2 DEF TypeOK
  <1> QED
    BY <1>1, <1>4, <1>5

\* A dispute decided against the accused seizes one stake.
LEMMA ConvictionEffect ==
  ASSUME TypeOK, NEW id \in DisputeIds, ResolveAgentWrong(id),
         UNCHANGED leaderboardVars
  PROVE  /\ seizeStakes(disputes[id].claimId, {disputes[id].accused})
         /\ disputes[id].claimId \in Claims
         /\ disputes[id].accused \in Accounts
         /\ UNCHANGED <<claims, settled>>
  BY DEF TypeOK, Dispute, ResolveAgentWrong, CloseDispute, leaderboardVars

LEMMA ClaimStep ==
  ASSUME TypeOK, [Next]_vars
  PROVE  \/ \E c \in Claims, tier \in TIERS : PostClaim(c, tier)
         \/ \E c \in Claims : CloseClaim(c)
         \/ \E a \in Accounts, c \in Claims, d \in Decision : Attest(a, c, d)
         \/ \E c \in Claims, truth \in Decision : settleTier1(c, truth)
         \/ \E id \in DisputeIds :
              ResolveAgentWrong(id) /\ UNCHANGED leaderboardVars
         \/ UNCHANGED <<claims, attestations, attestationBalance, settled>>
  <1> DEFINE Kept ==
        UNCHANGED <<claims, attestations, attestationBalance, settled>>
  <1>1. ASSUME NEW a \in Accounts, AccountCall(a)
        PROVE  \/ \E c \in Claims, d \in Decision : Attest(a, c, d)
               \/ Kept
    <2>1. ASSUME NEW v \in 0 .. MAX_BOND,
                 Register(a, v) \/ TopUpBond(a, v) \/ WithdrawBond(a, v)
          PROVE  Kept
      BY <2>1 DEF Register, TopUpBond, WithdrawBond, attestationVars,
                  leaderboardVars
    <2>2. ASSUME NEW c \in Claims, NEW b \in Accounts, OpenDispute(a, c, b)
          PROVE  Kept
      BY <2>2 DEF OpenDispute, openDispute, attestationVars, leaderboardVars
    <2>3. ASSUME NEW id \in DisputeIds, NEW w \in BOOLEAN, Vote(a, id, w)
          PROVE  Kept
      BY <2>3 DEF Vote, vote, attestationVars, leaderboardVars
    <2>4. Withdraw(a) => Kept
      BY DEF Withdraw, withdraw, attestationVars, leaderboardVars
    <2> QED
      BY <1>1, <2>1, <2>2, <2>3, <2>4 DEF AccountCall
  <1>2. ASSUME NEW id \in DisputeIds, ResolveDispute(id)
        PROVE  \/ ResolveAgentWrong(id) /\ UNCHANGED leaderboardVars
               \/ Kept
    BY <1>2 DEF ResolveDispute, resolveDispute, ResolveAgentRight,
                CloseDispute, leaderboardVars
  <1>3. Receive \/ Tick \/ UNCHANGED vars => Kept
    BY DEF Receive, receive, Tick, vars, attestationVars, leaderboardVars
  <1> HIDE DEF Kept
  <1>4. ASSUME NEW c \in Claims, OperatorCall(c)
        PROVE  \/ \E tier \in TIERS : PostClaim(c, tier)
               \/ CloseClaim(c)
               \/ \E truth \in Decision : settleTier1(c, truth)
    BY <1>4 DEF OperatorCall
  <1> QED
    BY <1>1, <1>2, <1>3, <1>4 DEF Next, Kept

-----------------------------------------------------------------------------
\* Deciders, in each of the steps.

LEMMA DecidersKept ==
  ASSUME NEW c \in Claims,
         \A b \in Accounts :
           /\ attestations'[c][b].exists = attestations[c][b].exists
           /\ attestations'[c][b].decision = attestations[c][b].decision
  PROVE  /\ getClaimAttestors(c)' = getClaimAttestors(c)
         /\ Deciders(c)' = Deciders(c)
  BY DEF getClaimAttestors, Deciders

LEMMA AttestDeciders ==
  ASSUME TypeOK, NEW a \in Accounts, NEW c \in Claims, NEW d \in Decision,
         Attest(a, c, d)
  PROVE  /\ a \notin getClaimAttestors(c)
         /\ getClaimAttestors(c)' = getClaimAttestors(c) \union {a}
         /\ Deciders(c)' = Deciders(c) \union (IF d = "ABSTAIN" THEN {} ELSE {a})
         /\ \A x \in Claims \ {c} :
              /\ getClaimAttestors(x)' = getClaimAttestors(x)
              /\ Deciders(x)' = Deciders(x)
  <1>1. /\ ~attestations[c][a].exists
        /\ attestations'[c][a].exists
        /\ attestations'[c][a].decision = d
        /\ \A x \in Claims, b \in Accounts :
             x # c \/ b # a => attestations'[x][b] = attestations[x][b]
    BY AttestEffect
  <1>2. \A x \in Claims \ {c} : \A b \in Accounts :
          attestations'[x][b] = attestations[x][b]
    BY <1>1
  <1>3. /\ a \notin getClaimAttestors(c)
        /\ getClaimAttestors(c)' = getClaimAttestors(c) \union {a}
    BY <1>1 DEF getClaimAttestors
  <1>4. Deciders(c)' = Deciders(c) \union (IF d = "ABSTAIN" THEN {} ELSE {a})
    BY <1>1 DEF getClaimAttestors, Deciders
  <1> QED
    BY <1>2, <1>3, <1>4, DecidersKept

\* Nobody who decided is ever taken off the list.
LEMMA DecidersGrow ==
  ASSUME TypeOK, [Next]_vars, NEW c \in Claims
  PROVE  Deciders(c) \subseteq Deciders(c)'
  <1>1. UNCHANGED attestations => Deciders(c)' = Deciders(c)
    BY DEF getClaimAttestors, Deciders
  <1>2. ASSUME NEW x \in Claims, NEW S, seizeStakes(x, S)
        PROVE  Deciders(c)' = Deciders(c)
    BY <1>2, SeizeStakesEffect, DecidersKept
  <1>3. ASSUME NEW a \in Accounts, NEW x \in Claims, NEW d \in Decision,
               Attest(a, x, d)
        PROVE  Deciders(c) \subseteq Deciders(c)'
    <2>1. CASE x = c
      BY <1>3, <2>1, AttestDeciders
    <2>2. CASE x # c
      BY <1>3, <2>2, AttestDeciders
    <2> QED
      BY <2>1, <2>2
  <1>4. ASSUME NEW x \in Claims, NEW truth \in Decision, settleTier1(x, truth)
        PROVE  Deciders(c)' = Deciders(c)
    BY <1>2, <1>4, SettleEffect
  <1>5. ASSUME NEW id \in DisputeIds, ResolveAgentWrong(id),
               UNCHANGED leaderboardVars
        PROVE  Deciders(c)' = Deciders(c)
    BY <1>2, <1>5, ConvictionEffect
  <1> QED
    BY <1>1, <1>3, <1>4, <1>5, ClaimStep, PostClaimEffect, CloseClaimEffect

-----------------------------------------------------------------------------
(***************************************************************************)
(* Only who decided has a stake: what attest locks and nothing else.       *)
(***************************************************************************)
LEMMA StakedDecidedStep ==
  ASSUME TypeOK, StakedDecided, [Next]_vars
  PROVE  StakedDecided'
  <1> SUFFICES ASSUME NEW c \in Claims, NEW a \in Accounts,
                      attestations'[c][a].lockedStake # 0
               PROVE  a \in Deciders(c)'
    BY DEF StakedDecided
  <1>1. CASE attestations[c][a].lockedStake # 0
    BY <1>1, DecidersGrow DEF StakedDecided
  <1>2. ASSUME NEW x \in Claims, NEW S, seizeStakes(x, S)
        PROVE  attestations[c][a].lockedStake # 0
    <2>1. attestations'[c][a].lockedStake =
            IF c = x /\ a \in S THEN 0 ELSE attestations[c][a].lockedStake
      BY <1>2, SeizeStakesEffect
    <2> QED
      BY <2>1
  <1>3. ASSUME NEW b \in Accounts, NEW x \in Claims, NEW d \in Decision,
               Attest(b, x, d)
        PROVE  a \in Deciders(c)' \/ attestations[c][a].lockedStake # 0
    <2>1. CASE x = c /\ b = a
      <3>1. d # "ABSTAIN"
        BY <1>3, <2>1, AttestEffect
      <3> QED
        BY <1>3, <2>1, <3>1, AttestDeciders
    <2>2. CASE x # c \/ b # a
      <3>1. attestations'[c][a] = attestations[c][a]
        BY <1>3, <2>2, AttestEffect
      <3> QED
        BY <3>1
    <2> QED
      BY <2>1, <2>2
  <1>4. UNCHANGED attestations => attestations[c][a].lockedStake # 0
    OBVIOUS
  <1> QED
    BY <1>1, <1>2, <1>3, <1>4, ClaimStep, PostClaimEffect, CloseClaimEffect,
       SettleEffect, ConvictionEffect

LEMMA StakesAreDecided == Spec => []StakedDecided
  <1>1. Init => StakedDecided
    BY DEF Init, AttestationInit, NoAttestation, StakedDecided
  <1>2. TypeOK /\ StakedDecided /\ [Next]_vars => StakedDecided'
    BY StakedDecidedStep
  <1> QED
    BY <1>1, <1>2, TypeCorrect, PTL DEF Spec

-----------------------------------------------------------------------------
\* ClaimLifecycle of one claim, so that a step shows what it does to its own.

Lifecycle(c) ==
  /\ claims[c].attestorCount = Cardinality(getClaimAttestors(c))
  /\ claims[c].attestorCount <= MAX_ATTESTORS
  /\ getClaimAttestors(c) # {} => claims[c].posted
  /\ claims[c].claimFee # 0 <=> claims[c].posted /\ ~settled[c]
  /\ settled[c] =>
       /\ claims[c].posted /\ claims[c].closed /\ claims[c].tier = 1
       /\ \A a \in Accounts : attestations[c][a].lockedStake = 0

LEMMA LifecycleOfEach == ClaimLifecycle <=> \A c \in Claims : Lifecycle(c)
  BY DEF ClaimLifecycle, Lifecycle

LEMMA LifecycleKept ==
  ASSUME NEW c \in Claims, Lifecycle(c),
         UNCHANGED <<claims[c], attestations[c], settled[c]>>
  PROVE  Lifecycle(c)'
  BY DEF Lifecycle, getClaimAttestors

LEMMA PostClaimLifecycle ==
  ASSUME TypeOK, NEW c \in Claims, NEW tier \in TIERS, PostClaim(c, tier),
         Lifecycle(c)
  PROVE  Lifecycle(c)'
  <1>1. /\ ~claims[c].posted
        /\ claims'[c].posted /\ claims'[c].attestorCount = 0
        /\ claims'[c].claimFee = CLAIM_FEE
        /\ UNCHANGED <<attestations, settled>>
    <2>1. /\ ~claims[c].posted
          /\ claims'[c] = [posted |-> TRUE, closed |-> FALSE, tier |-> tier,
                           attestorCount |-> 0, claimFee |-> CLAIM_FEE]
          /\ UNCHANGED <<attestations, settled>>
      BY PostClaimEffect
    <2> QED
      BY <2>1
  <1>2. getClaimAttestors(c)' = {} /\ ~settled[c]
    BY <1>1 DEF Lifecycle, getClaimAttestors
  <1> QED
    BY <1>1, <1>2, FS_EmptySet DEF Lifecycle

LEMMA CloseClaimLifecycle ==
  ASSUME TypeOK, NEW c \in Claims, CloseClaim(c), Lifecycle(c)
  PROVE  Lifecycle(c)'
  <1>1. /\ claims[c].posted
        /\ claims'[c].posted = claims[c].posted
        /\ claims'[c].tier = claims[c].tier
        /\ claims'[c].closed
        /\ claims'[c].attestorCount = claims[c].attestorCount
        /\ claims'[c].claimFee = claims[c].claimFee
        /\ UNCHANGED <<attestations, settled>>
    BY CloseClaimEffect
  <1>2. getClaimAttestors(c)' = getClaimAttestors(c)
    BY <1>1 DEF getClaimAttestors
  <1> QED
    BY <1>1, <1>2 DEF Lifecycle

LEMMA AttestLifecycle ==
  ASSUME TypeOK, NEW a \in Accounts, NEW c \in Claims, NEW d \in Decision,
         Attest(a, c, d), Lifecycle(c)
  PROVE  Lifecycle(c)'
  <1>1. /\ claims[c].posted /\ ~claims[c].closed
        /\ claims[c].attestorCount < MAX_ATTESTORS
        /\ claims'[c].posted = claims[c].posted
        /\ claims'[c].attestorCount = claims[c].attestorCount + 1
        /\ claims'[c].claimFee = claims[c].claimFee
        /\ UNCHANGED settled
    BY AttestEffect
  <1>2. Cardinality(getClaimAttestors(c)') =
          Cardinality(getClaimAttestors(c)) + 1
    <2>1. IsFiniteSet(getClaimAttestors(c))
      BY AccountsFinite DEF getClaimAttestors
    <2> QED
      BY <2>1, AttestDeciders, FS_AddElement
  <1>3. claims[c].attestorCount \in Nat
    BY DEF TypeOK, Claim
  <1> QED
    BY <1>1, <1>2, <1>3 DEF Lifecycle

\* The last conjunct needs that only who decided has a stake.
LEMMA SettleLifecycle ==
  ASSUME TypeOK, StakedDecided, NEW c \in Claims, NEW truth \in Decision,
         settleTier1(c, truth), Lifecycle(c)
  PROVE  Lifecycle(c)'
  <1>1. /\ claims[c].posted /\ claims[c].closed /\ claims[c].tier = 1
        /\ settled' = [settled EXCEPT ![c] = TRUE]
        /\ seizeStakes(c, Deciders(c))
        /\ claims'[c].posted = claims[c].posted
        /\ claims'[c].tier = claims[c].tier
        /\ claims'[c].closed = claims[c].closed
        /\ claims'[c].attestorCount = claims[c].attestorCount
        /\ claims'[c].claimFee = 0
    BY SettleEffect
  <1>2. \A b \in Accounts : attestations'[c][b].lockedStake = 0
    BY <1>1, SeizeStakesEffect DEF StakedDecided
  <1>3. getClaimAttestors(c)' = getClaimAttestors(c)
    BY <1>1, SeizeStakesEffect, DecidersKept
  <1>4. settled'[c]
    BY <1>1 DEF TypeOK
  <1> QED
    BY <1>1, <1>2, <1>3, <1>4 DEF Lifecycle

LEMMA ConvictionLifecycle ==
  ASSUME TypeOK, NEW c \in Claims, NEW x \in Claims, NEW S, seizeStakes(x, S),
         UNCHANGED <<claims, settled>>, Lifecycle(c)
  PROVE  Lifecycle(c)'
  <1>1. \A b \in Accounts :
          attestations[c][b].lockedStake = 0
            => attestations'[c][b].lockedStake = 0
    BY SeizeStakesEffect
  <1>2. getClaimAttestors(c)' = getClaimAttestors(c)
    BY SeizeStakesEffect, DecidersKept
  <1> QED
    BY <1>1, <1>2 DEF Lifecycle

LEMMA ClaimLifecycleStep ==
  ASSUME TypeOK, StakedDecided, ClaimLifecycle, [Next]_vars
  PROVE  ClaimLifecycle'
  <1> SUFFICES ASSUME NEW c \in Claims
               PROVE  Lifecycle(c)'
    BY DEF ClaimLifecycle, Lifecycle
  <1>0. Lifecycle(c)
    BY LifecycleOfEach
  <1>1. ASSUME NEW x \in Claims, NEW tier \in TIERS, PostClaim(x, tier)
        PROVE  Lifecycle(c)'
    BY <1>0, <1>1, PostClaimEffect, PostClaimLifecycle, LifecycleKept
  <1>2. ASSUME NEW x \in Claims, CloseClaim(x)
        PROVE  Lifecycle(c)'
    BY <1>0, <1>2, CloseClaimEffect, CloseClaimLifecycle, LifecycleKept
  <1>3. ASSUME NEW a \in Accounts, NEW x \in Claims, NEW d \in Decision,
               Attest(a, x, d)
        PROVE  Lifecycle(c)'
    <2>1. CASE x = c
      BY <1>0, <1>3, <2>1, AttestLifecycle
    <2>2. CASE x # c
      <3>1. claims'[c] = claims[c] /\ settled' = settled
        BY <1>3, <2>2, AttestEffect
      <3>2. \A b \in Accounts : attestations'[c][b] = attestations[c][b]
        BY <1>3, <2>2, AttestEffect
      <3> QED
        BY <1>0, <3>1, <3>2, DecidersKept DEF Lifecycle
    <2> QED
      BY <2>1, <2>2
  <1>4. ASSUME NEW x \in Claims, NEW truth \in Decision, settleTier1(x, truth)
        PROVE  Lifecycle(c)'
    <2>1. CASE x = c
      BY <1>0, <1>4, <2>1, SettleLifecycle
    <2>2. CASE x # c
      <3>1. /\ claims'[c] = claims[c]
            /\ settled' = [settled EXCEPT ![x] = TRUE]
            /\ seizeStakes(x, Deciders(x))
        BY <1>4, <2>2, SettleEffect
      <3>2. attestations'[c] = attestations[c] /\ settled'[c] = settled[c]
        BY <2>2, <3>1 DEF TypeOK, seizeStakes
      <3> QED
        BY <1>0, <3>1, <3>2, LifecycleKept
    <2> QED
      BY <2>1, <2>2
  <1>5. ASSUME NEW id \in DisputeIds, ResolveAgentWrong(id),
               UNCHANGED leaderboardVars
        PROVE  Lifecycle(c)'
    BY <1>0, <1>5, ConvictionEffect, ConvictionLifecycle
  <1>6. UNCHANGED <<claims, attestations, settled>> => Lifecycle(c)'
    BY <1>0, LifecycleKept
  <1> QED
    BY <1>1, <1>2, <1>3, <1>4, <1>5, <1>6, ClaimStep

(***************************************************************************)
(* A claim's attestors are counted right and bounded, its fee is held      *)
(* exactly until settleTier1, and nothing is left in a settled claim.      *)
(***************************************************************************)
THEOREM ClaimsFollowTheirLifecycle == Spec => []ClaimLifecycle
  <1>1. Init => ClaimLifecycle
    <2> SUFFICES ASSUME Init, NEW c \in Claims
                 PROVE  Lifecycle(c)
      BY LifecycleOfEach
    <2>1. /\ claims[c] = NoClaim /\ ~settled[c]
          /\ \A a \in Accounts : attestations[c][a] = NoAttestation
      BY DEF Init, AttestationInit, LeaderboardInit
    <2>2. getClaimAttestors(c) = {}
      BY <2>1 DEF NoAttestation, getClaimAttestors
    <2> QED
      BY <2>1, <2>2, FS_EmptySet DEF NoClaim, Lifecycle
  <1>2. TypeOK /\ StakedDecided /\ ClaimLifecycle /\ [Next]_vars
          => ClaimLifecycle'
    BY ClaimLifecycleStep
  <1> QED
    BY <1>1, <1>2, TypeCorrect, StakesAreDecided, PTL DEF Spec

-----------------------------------------------------------------------------
\* Abstentions.

JudgmentAbstains ==
  \A c \in Claims, a \in Accounts :
    attestations[c][a].exists /\ claims[c].tier = 3
      => attestations[c][a].decision = "ABSTAIN"

AccusedDecided ==
  \A id \in DisputeIds :
    disputes[id].accused \in Deciders(disputes[id].claimId)

LEMMA AbstainParts ==
  StakedDecided /\ JudgmentAbstains /\ AccusedDecided => AbstainRisksNothing
  BY DEF StakedDecided, JudgmentAbstains, AccusedDecided, AbstainRisksNothing,
         Deciders, getClaimAttestors

\* The tier of a claim with attestations is never written again.
LEMMA JudgmentAbstainsStep ==
  ASSUME TypeOK, ClaimLifecycle, JudgmentAbstains, [Next]_vars
  PROVE  JudgmentAbstains'
  <1> SUFFICES ASSUME NEW c \in Claims, NEW b \in Accounts
               PROVE  attestations'[c][b].exists /\ claims'[c].tier = 3
                        => attestations'[c][b].decision = "ABSTAIN"
    BY DEF JudgmentAbstains
  <1>0. /\ attestations[c][b].exists /\ claims[c].tier = 3
             => attestations[c][b].decision = "ABSTAIN"
        /\ attestations[c][b].exists => claims[c].posted
    BY DEF JudgmentAbstains, ClaimLifecycle, getClaimAttestors
  <1>1. ASSUME NEW x \in Claims, NEW tier \in TIERS, PostClaim(x, tier)
        PROVE  attestations'[c][b].exists /\ claims'[c].tier = 3
                 => attestations'[c][b].decision = "ABSTAIN"
    BY <1>0, <1>1, PostClaimEffect
  <1>2. ASSUME NEW x \in Claims, CloseClaim(x)
        PROVE  attestations'[c][b].exists /\ claims'[c].tier = 3
                 => attestations'[c][b].decision = "ABSTAIN"
    BY <1>0, <1>2, CloseClaimEffect
  <1>3. ASSUME NEW a \in Accounts, NEW x \in Claims, NEW d \in Decision,
               Attest(a, x, d)
        PROVE  attestations'[c][b].exists /\ claims'[c].tier = 3
                 => attestations'[c][b].decision = "ABSTAIN"
    <2>1. claims'[c].tier = claims[c].tier
      BY <1>3, AttestEffect
    <2>2. CASE x = c /\ a = b
      BY <1>3, <2>1, <2>2, AttestEffect
    <2>3. CASE x # c \/ a # b
      <3>1. attestations'[c][b] = attestations[c][b]
        BY <1>3, <2>3, AttestEffect
      <3> QED
        BY <1>0, <2>1, <3>1
    <2> QED
      BY <2>2, <2>3
  <1>4. ASSUME NEW x \in Claims, NEW S, seizeStakes(x, S),
               claims'[c].tier = claims[c].tier
        PROVE  attestations'[c][b].exists /\ claims'[c].tier = 3
                 => attestations'[c][b].decision = "ABSTAIN"
    BY <1>0, <1>4, SeizeStakesEffect
  <1>5. ASSUME NEW x \in Claims, NEW truth \in Decision, settleTier1(x, truth)
        PROVE  claims'[c].tier = claims[c].tier /\ seizeStakes(x, Deciders(x))
    BY <1>5, SettleEffect
  <1>6. UNCHANGED <<claims, attestations, settled>>
          => (attestations'[c][b].exists /\ claims'[c].tier = 3
                => attestations'[c][b].decision = "ABSTAIN")
    BY <1>0
  <1> QED
    BY <1>1, <1>2, <1>3, <1>4, <1>5, <1>6, ClaimStep, ConvictionEffect

LEMMA AccusedDecidedStep ==
  ASSUME TypeOK, AccusedDecided, [Next]_vars
  PROVE  AccusedDecided'
  <1>1. \A i \in DisputeIds : disputes[i].claimId \in Claims
    BY DEF TypeOK, Dispute
  <1>2. ASSUME NEW i \in DisputeIds,
               disputes'[i].claimId = disputes[i].claimId,
               disputes'[i].accused = disputes[i].accused
        PROVE  disputes'[i].accused \in Deciders(disputes[i].claimId)'
    <2>1. PICK x \in Claims : x = disputes[i].claimId
      BY <1>1
    <2>2. Deciders(x) \subseteq Deciders(x)' /\ x = disputes'[i].claimId
      BY <1>2, <2>1, DecidersGrow
    <2> QED
      BY <1>2, <2>1, <2>2 DEF AccusedDecided
  <1>3. CASE DisputesKept
    BY <1>2, <1>3 DEF DisputesKept, AccusedDecided
  <1>4. ASSUME NEW id \in DisputeIds, ResolveDispute(id)
        PROVE  AccusedDecided'
    <2>1. /\ DisputeIds' = DisputeIds
          /\ \A i \in DisputeIds : /\ disputes'[i].claimId = disputes[i].claimId
                                   /\ disputes'[i].accused = disputes[i].accused
      BY <1>4, ResolveCloses, CloseDisputeEffect
    <2> QED
      BY <1>2, <2>1 DEF AccusedDecided
  <1>5. ASSUME NEW a \in Accounts, NEW x \in Claims, NEW b \in Accounts,
               OpenDispute(a, x, b)
        PROVE  AccusedDecided'
    <2>1. PICK n : n = disputeCount
      OBVIOUS
    <2>2. /\ DisputeIds' = DisputeIds \union {n}
          /\ \A i \in DisputeIds : disputes'[i] = disputes[i]
          /\ disputes'[n].claimId = x
          /\ disputes'[n].accused = b
          /\ b \in Deciders(x)
      BY <1>5, <2>1, OpenDisputeEffect
    <2>3. b \in Deciders(x)'
      BY <2>2, DecidersGrow
    <2> QED
      BY <1>2, <2>2, <2>3 DEF AccusedDecided
  <1> QED
    BY <1>3, <1>4, <1>5, DisputeStep

LEMMA AccusedHaveDecided == Spec => []AccusedDecided
  <1>1. Init => AccusedDecided
    BY DEF Init, SlashingInit, DisputeIds, AccusedDecided
  <1>2. TypeOK /\ AccusedDecided /\ [Next]_vars => AccusedDecided'
    BY AccusedDecidedStep
  <1> QED
    BY <1>1, <1>2, TypeCorrect, PTL DEF Spec

(***************************************************************************)
(* An abstention has no stake and no dispute against it, and a judgment    *)
(* claim takes nothing else (attest, openDispute).                         *)
(***************************************************************************)
THEOREM AbstentionsRiskNothing == Spec => []AbstainRisksNothing
  <1>1. Init => JudgmentAbstains
    BY DEF Init, AttestationInit, NoAttestation, JudgmentAbstains
  <1>2. TypeOK /\ ClaimLifecycle /\ JudgmentAbstains /\ [Next]_vars
          => JudgmentAbstains'
    BY JudgmentAbstainsStep
  <1> QED
    BY <1>1, <1>2, AbstainParts, TypeCorrect, StakesAreDecided,
       ClaimsFollowTheirLifecycle, AccusedHaveDecided, PTL DEF Spec

-----------------------------------------------------------------------------
\* What was decided, about disputes and about claims.

LEMMA DisputesFinal ==
  ASSUME TypeOK, [Next]_vars, NEW id \in DisputeIds
  PROVE  /\ id \in DisputeIds'
         /\ disputes[id].resolved => disputes'[id] = disputes[id]
         /\ Pair(id)' = Pair(id)
  <1>1. /\ id \in DisputeIds'
        /\ Pair(id)' = Pair(id)
    <2>1. ASSUME NEW a \in Accounts, NEW c \in Claims, NEW b \in Accounts,
                 OpenDispute(a, c, b)
          PROVE  id \in DisputeIds' /\ disputes'[id] = disputes[id]
      BY <2>1, OpenDisputeEffect
    <2>2. ASSUME NEW i \in DisputeIds, ResolveDispute(i)
          PROVE  /\ DisputeIds' = DisputeIds
                 /\ disputes'[id].claimId = disputes[id].claimId
                 /\ disputes'[id].accused = disputes[id].accused
      BY <2>2, ResolveCloses, CloseDisputeEffect
    <2> QED
      BY <2>1, <2>2, DisputeStep DEF DisputesKept, Pair
  <1>2. ASSUME disputes[id].resolved
        PROVE  disputes'[id] = disputes[id]
    <2>1. ASSUME NEW a \in Accounts, NEW c \in Claims, NEW b \in Accounts,
                 OpenDispute(a, c, b)
          PROVE  disputes'[id] = disputes[id]
      BY <2>1, OpenDisputeEffect
    <2>2. ASSUME NEW a \in Accounts, NEW i \in DisputeIds, NEW w \in BOOLEAN,
                 Vote(a, i, w)
          PROVE  disputes'[id] = disputes[id]
      <3>1. ~disputes[i].resolved
        BY <2>2 DEF Vote, vote, MayVote
      <3> QED
        BY <1>2, <2>2, <3>1, VoteEffect
    <2>3. ASSUME NEW i \in DisputeIds, ResolveDispute(i)
          PROVE  disputes'[id] = disputes[id]
      BY <1>2, <2>3, ResolveCloses, CloseDisputeEffect
    <2>4. Tick => disputes'[id] = disputes[id]
      BY <1>2 DEF Tick, Aged
    <2> QED
      BY <2>1, <2>2, <2>3, <2>4, DisputeCalls
  <1> QED
    BY <1>1, <1>2

ClosedArePosted == \A c \in Claims : claims[c].closed => claims[c].posted

LEMMA ClosedArePostedStep ==
  ASSUME TypeOK, ClosedArePosted, [Next]_vars
  PROVE  ClosedArePosted'
  <1> SUFFICES ASSUME NEW c \in Claims
               PROVE  claims'[c].closed => claims'[c].posted
    BY DEF ClosedArePosted
  <1>0. claims[c].closed => claims[c].posted
    BY DEF ClosedArePosted
  <1>1. ASSUME NEW x \in Claims, NEW tier \in TIERS, PostClaim(x, tier)
        PROVE  claims'[c].closed => claims'[c].posted
    <2>1. /\ claims'[x] = [posted |-> TRUE, closed |-> FALSE, tier |-> tier,
                           attestorCount |-> 0, claimFee |-> CLAIM_FEE]
          /\ x # c => claims'[c] = claims[c]
      BY <1>1, PostClaimEffect
    <2>2. claims'[x].posted
      BY <2>1
    <2> QED
      BY <1>0, <2>1, <2>2
  <1>2. ASSUME NEW x \in Claims, CloseClaim(x)
        PROVE  claims'[c].closed => claims'[c].posted
    BY <1>0, <1>2, CloseClaimEffect
  <1>3. ASSUME NEW a \in Accounts, NEW x \in Claims, NEW d \in Decision,
               Attest(a, x, d)
        PROVE  claims'[c].closed => claims'[c].posted
    BY <1>0, <1>3, AttestEffect
  <1>4. ASSUME NEW x \in Claims, NEW truth \in Decision, settleTier1(x, truth)
        PROVE  claims'[c].closed => claims'[c].posted
    BY <1>0, <1>4, SettleEffect
  <1>5. UNCHANGED claims => (claims'[c].closed => claims'[c].posted)
    BY <1>0
  <1> QED
    BY <1>1, <1>2, <1>3, <1>4, <1>5, ClaimStep, ConvictionEffect

LEMMA ClosedWerePosted == Spec => []ClosedArePosted
  <1>1. Init => ClosedArePosted
    BY DEF Init, AttestationInit, NoClaim, ClosedArePosted
  <1>2. TypeOK /\ ClosedArePosted /\ [Next]_vars => ClosedArePosted'
    BY ClosedArePostedStep
  <1> QED
    BY <1>1, <1>2, TypeCorrect, PTL DEF Spec

LEMMA AttestorsGrow ==
  ASSUME TypeOK, [Next]_vars, NEW c \in Claims
  PROVE  \A a \in getClaimAttestors(c) :
           attestations'[c][a].decision = attestations[c][a].decision
  <1> TAKE a \in getClaimAttestors(c)
  <1>0. a \in Accounts /\ attestations[c][a].exists
    BY DEF getClaimAttestors
  <1>1. ASSUME NEW x \in Claims, NEW S, seizeStakes(x, S)
        PROVE  attestations'[c][a].decision = attestations[c][a].decision
    BY <1>0, <1>1, SeizeStakesEffect
  <1>2. ASSUME NEW b \in Accounts, NEW x \in Claims, NEW d \in Decision,
               Attest(b, x, d)
        PROVE  attestations'[c][a] = attestations[c][a]
    <2>1. /\ ~attestations[x][b].exists
          /\ \A y \in Claims, e \in Accounts :
               y # x \/ e # b => attestations'[y][e] = attestations[y][e]
      BY <1>2, AttestEffect
    <2> QED
      BY <1>0, <2>1
  <1> QED
    BY <1>1, <1>2, ClaimStep, PostClaimEffect, CloseClaimEffect, SettleEffect,
       ConvictionEffect

LEMMA ClosedFinal ==
  ASSUME TypeOK, ClosedArePosted, [Next]_vars, NEW c \in Claims,
         claims[c].closed
  PROVE  /\ claims'[c].closed
         /\ getClaimAttestors(c)' = getClaimAttestors(c)
  <1> DEFINE Final == /\ claims'[c].closed
                      /\ getClaimAttestors(c)' = getClaimAttestors(c)
  <1>1. UNCHANGED <<claims[c], attestations>> => Final
    BY DEF getClaimAttestors
  <1>2. ASSUME NEW x \in Claims, NEW tier \in TIERS, PostClaim(x, tier)
        PROVE  Final
    BY <1>1, <1>2, PostClaimEffect DEF ClosedArePosted
  <1>3. ASSUME NEW x \in Claims, CloseClaim(x)
        PROVE  Final
    <2>1. /\ claims'[x].closed
          /\ x # c => claims'[c] = claims[c]
          /\ attestations' = attestations
      BY <1>3, CloseClaimEffect
    <2> QED
      BY <2>1 DEF getClaimAttestors
  <1>4. ASSUME NEW a \in Accounts, NEW x \in Claims, NEW d \in Decision,
               Attest(a, x, d)
        PROVE  Final
    <2>1. ~claims[x].closed /\ (x # c => claims'[c] = claims[c])
      BY <1>4, AttestEffect
    <2> QED
      BY <1>4, <2>1, AttestDeciders
  <1>5. ASSUME NEW x \in Claims, NEW S, seizeStakes(x, S)
        PROVE  getClaimAttestors(c)' = getClaimAttestors(c)
    BY <1>5, SeizeStakesEffect, DecidersKept
  <1>6. ASSUME NEW x \in Claims, NEW truth \in Decision, settleTier1(x, truth)
        PROVE  Final
    <2>1. /\ claims'[x].closed = claims[x].closed
          /\ x # c => claims'[c] = claims[c]
          /\ seizeStakes(x, Deciders(x))
      BY <1>6, SettleEffect
    <2> QED
      BY <1>5, <2>1
  <1>7. ASSUME NEW id \in DisputeIds, ResolveAgentWrong(id),
               UNCHANGED leaderboardVars
        PROVE  Final
    BY <1>5, <1>7, ConvictionEffect
  <1> HIDE DEF Final
  <1>8. Final
    BY <1>1, <1>2, <1>3, <1>4, <1>6, <1>7, ClaimStep
  <1> QED
    BY <1>8 DEF Final

LEMMA SettledFinal ==
  ASSUME TypeOK, ClaimLifecycle, [Next]_vars, NEW c \in Claims, settled[c]
  PROVE  settled'[c] /\ attestations'[c] = attestations[c]
  <1>0. /\ claims[c].closed
        /\ \A a \in Accounts : attestations[c][a].lockedStake = 0
    BY DEF ClaimLifecycle
  <1>1. ASSUME NEW a \in Accounts, NEW x \in Claims, NEW d \in Decision,
               Attest(a, x, d)
        PROVE  settled'[c] /\ attestations'[c] = attestations[c]
    <2>1. ~claims[x].closed /\ UNCHANGED settled
      BY <1>1, AttestEffect
    <2>2. x # c
      BY <1>0, <2>1
    <2>3. attestations'[c] = attestations[c]
      BY <1>1, <2>2 DEF TypeOK, Attest, attest
    <2> QED
      BY <2>1, <2>3
  <1>2. ASSUME NEW x \in Claims, NEW S, seizeStakes(x, S), x # c
        PROVE  attestations'[c] = attestations[c]
    BY <1>2 DEF TypeOK, seizeStakes
  <1>3. ASSUME NEW x \in Claims, NEW truth \in Decision, settleTier1(x, truth)
        PROVE  settled'[c] /\ attestations'[c] = attestations[c]
    <2>1. /\ ~settled[x]
          /\ settled' = [settled EXCEPT ![x] = TRUE]
          /\ seizeStakes(x, Deciders(x))
      BY <1>3, SettleEffect
    <2> QED
      BY <1>2, <2>1 DEF TypeOK
  <1>4. ASSUME NEW id \in DisputeIds, ResolveAgentWrong(id),
               UNCHANGED leaderboardVars
        PROVE  settled'[c] /\ attestations'[c] = attestations[c]
    <2>1. /\ seizeStakes(disputes[id].claimId, {disputes[id].accused})
          /\ disputes[id].claimId \in Claims
          /\ disputes[id].accused \in Accounts
          /\ UNCHANGED settled
      BY <1>4, ConvictionEffect
    <2>2. disputes[id].claimId # c
      BY <1>0, <2>1 DEF seizeStakes
    <2> QED
      BY <1>2, <2>1, <2>2
  <1> QED
    BY <1>1, <1>3, <1>4, ClaimStep, PostClaimEffect, CloseClaimEffect

(***************************************************************************)
(* What was decided stays decided: resolved disputes, cast decisions, the  *)
(* attestors of a closed claim, settled claims (vote, resolveDispute,      *)
(* attest, settleTier1).                                                   *)
(***************************************************************************)
THEOREM DecisionsStay == Spec => DecisionsAreFinal
  <1> DEFINE Final ==
        /\ \A id \in DisputeIds :
             /\ id \in DisputeIds'
             /\ disputes[id].resolved => disputes'[id] = disputes[id]
             /\ Pair(id)' = Pair(id)
        /\ \A c \in Claims :
             /\ claims[c].closed =>
                  claims'[c].closed /\ getClaimAttestors(c)' = getClaimAttestors(c)
             /\ settled[c] => settled'[c] /\ attestations'[c] = attestations[c]
             /\ \A a \in getClaimAttestors(c) :
                  attestations'[c][a].decision = attestations[c][a].decision
  <1>1. TypeOK /\ ClaimLifecycle /\ ClosedArePosted /\ [Next]_vars
          => [Final]_vars
    <2> SUFFICES ASSUME TypeOK, ClaimLifecycle, ClosedArePosted, [Next]_vars
                 PROVE  Final
      OBVIOUS
    <2> QED
      BY DisputesFinal, ClosedFinal, SettledFinal, AttestorsGrow
  <1> QED
    BY <1>1, TypeCorrect, ClaimsFollowTheirLifecycle, ClosedWerePosted, PTL
       DEF Spec, DecisionsAreFinal

-----------------------------------------------------------------------------
(***************************************************************************)
(* Why stakes leave.  Convictions of a pair are compared with its stake:   *)
(* a conviction takes the stake, so that a second one finds none to seize, *)
(* and a settlement finds one less than it needs.                          *)
(***************************************************************************)
ConvictedOf(c, a) == {id \in DisputeIds : Pair(id) = <<c, a>> /\ Convicted(id)}

LeftForCause(c, a) ==
  /\ \A i, j \in ConvictedOf(c, a) : i = j
  /\ attestations[c][a].lockedStake = 0 <=> settled[c] \/ ConvictedOf(c, a) # {}
  /\ ~(settled[c] /\ ConvictedOf(c, a) # {})

ForCause == \A c \in Claims : \A a \in Deciders(c) : LeftForCause(c, a)

LEMMA CauseIsEnough == ForCause => StakeLeavesForCause
  <1> SUFFICES ASSUME ForCause, NEW c \in Claims, NEW a \in Deciders(c)
               PROVE  /\ Cardinality(ConvictedOf(c, a)) <= 1
                      /\ attestations[c][a].lockedStake = 0
                           <=> settled[c] \/ ConvictedOf(c, a) # {}
                      /\ ~(settled[c] /\ ConvictedOf(c, a) # {})
    BY DEF StakeLeavesForCause, ConvictedOf
  <1>1. LeftForCause(c, a)
    BY DEF ForCause
  <1>2. ConvictedOf(c, a) = {} \/ \E i : ConvictedOf(c, a) = {i}
    BY <1>1 DEF LeftForCause
  <1>3. Cardinality(ConvictedOf(c, a)) <= 1
    BY <1>2, FS_EmptySet, FS_Singleton
  <1> QED
    BY <1>1, <1>3 DEF LeftForCause

\* Only resolveDispute with the votes against the accused convicts anybody.
NobodyConvicted ==
  ~(\E id \in DisputeIds : ResolveAgentWrong(id) /\ UNCHANGED leaderboardVars)

LEMMA ConvictionsKept ==
  ASSUME TypeOK, [Next]_vars, NobodyConvicted, NEW c, NEW a
  PROVE  ConvictedOf(c, a)' = ConvictedOf(c, a)
  <1>1. \A i \in DisputeIds : /\ i \in DisputeIds'
                              /\ Pair(i)' = Pair(i)
                              /\ Convicted(i) => Convicted(i)'
    BY DisputesFinal DEF Convicted
  <1>2. ASSUME NEW i \in DisputeIds', Convicted(i)'
        PROVE  i \in DisputeIds /\ Convicted(i)
    <2>0. disputes'[i].resolved
      BY <1>2 DEF Convicted
    <2>1. ASSUME NEW x \in Accounts, NEW y \in Claims, NEW b \in Accounts,
                 OpenDispute(x, y, b)
          PROVE  i \in DisputeIds /\ disputes[i].resolved
      <3>1. PICK n : n = disputeCount
        OBVIOUS
      <3>2. /\ DisputeIds' = DisputeIds \union {n}
            /\ \A j \in DisputeIds : disputes'[j] = disputes[j]
            /\ ~disputes'[n].resolved
        BY <2>1, <3>1, OpenDisputeEffect
      <3> QED
        BY <2>0, <3>2
    <2>2. ASSUME NEW id \in DisputeIds, ResolveDispute(id)
          PROVE  i \in DisputeIds /\ disputes[i].resolved
      <3>1. ResolveAgentRight(id)
        BY <2>2 DEF ResolveDispute, resolveDispute, NobodyConvicted
      <3>2. /\ DisputeIds' = DisputeIds
            /\ \A j \in DisputeIds \ {id} : disputes'[j] = disputes[j]
            /\ disputes'[id] = [disputes[id] EXCEPT !.resolved = TRUE]
        BY <2>2, ResolveCloses, CloseDisputeEffect
      <3>3. CASE i = id
        <4>1. disputes[id] \in Dispute
          BY DEF TypeOK
        <4>2. /\ disputes'[id].votesWrong = disputes[id].votesWrong
              /\ disputes'[id].votesRight = disputes[id].votesRight
          BY <3>2, <4>1 DEF Dispute
        <4> QED
          BY <1>2, <3>1, <3>3, <4>2 DEF ResolveAgentRight, AgentWrong, Convicted
      <3> QED
        BY <2>0, <3>2, <3>3
    <2>3. DisputesKept => i \in DisputeIds /\ disputes[i].resolved
      BY <2>0 DEF DisputesKept
    <2>4. i \in DisputeIds /\ disputes[i].resolved
      BY <2>1, <2>2, <2>3, DisputeStep
    <2> QED
      BY <1>2, <2>4, DisputesFinal DEF Convicted
  <1> QED
    BY <1>1, <1>2 DEF ConvictedOf

LEMMA ConvictionTakes ==
  ASSUME TypeOK, NEW id \in DisputeIds, ResolveAgentWrong(id),
         UNCHANGED leaderboardVars, NEW c \in Claims, NEW a \in Accounts
  PROVE  /\ Pair(id) = <<c, a>> =>
              /\ attestations[c][a].lockedStake # 0
              /\ attestations'[c][a].lockedStake = 0
              /\ ConvictedOf(c, a)' = ConvictedOf(c, a) \union {id}
         /\ Pair(id) # <<c, a>> =>
              /\ attestations'[c][a].lockedStake = attestations[c][a].lockedStake
              /\ ConvictedOf(c, a)' = ConvictedOf(c, a)
         /\ Deciders(c)' = Deciders(c)
         /\ UNCHANGED settled
  <1>1. /\ seizeStakes(disputes[id].claimId, {disputes[id].accused})
        /\ disputes[id].claimId \in Claims
        /\ disputes[id].accused \in Accounts
        /\ UNCHANGED settled
    BY ConvictionEffect
  <1>2. \A x \in Claims, b \in Accounts :
          /\ attestations'[x][b].exists = attestations[x][b].exists
          /\ attestations'[x][b].decision = attestations[x][b].decision
          /\ attestations'[x][b].lockedStake =
               IF x = disputes[id].claimId /\ b \in {disputes[id].accused}
               THEN 0 ELSE attestations[x][b].lockedStake
    BY <1>1, SeizeStakesEffect
  <1>3. attestations[disputes[id].claimId][disputes[id].accused].lockedStake # 0
    BY <1>1 DEF seizeStakes
  <1>4. CloseDispute(id) /\ AgentWrong(disputes[id])
    BY DEF ResolveAgentWrong
  <1>5. /\ DisputeIds' = DisputeIds
        /\ \A j \in DisputeIds \ {id} : disputes'[j] = disputes[j]
        /\ disputes'[id] = [disputes[id] EXCEPT !.resolved = TRUE]
        /\ disputes'[id].claimId = disputes[id].claimId
        /\ disputes'[id].accused = disputes[id].accused
        /\ disputes'[id].resolved
    BY <1>4, CloseDisputeEffect
  <1>6. /\ disputes'[id].votesWrong = disputes[id].votesWrong
        /\ disputes'[id].votesRight = disputes[id].votesRight
    <2>1. disputes[id] \in Dispute
      BY DEF TypeOK
    <2> QED
      BY <1>5, <2>1 DEF Dispute
  <1>7. /\ Convicted(id)' /\ Pair(id)' = Pair(id)
        /\ \A j \in DisputeIds \ {id} :
             (Convicted(j)' <=> Convicted(j)) /\ Pair(j)' = Pair(j)
    BY <1>4, <1>5, <1>6 DEF AgentWrong, Convicted, Pair
  <1>8. ~Convicted(id)
    BY <1>4, CloseDisputeEffect DEF Convicted
  <1>9. ConvictedOf(c, a)' = IF Pair(id) = <<c, a>>
                             THEN ConvictedOf(c, a) \union {id}
                             ELSE ConvictedOf(c, a)
    BY <1>5, <1>7, <1>8 DEF ConvictedOf
  <1>10. Deciders(c)' = Deciders(c)
    BY <1>2, DecidersKept
  <1> QED
    BY <1>1, <1>2, <1>3, <1>9, <1>10 DEF Pair

LEMMA ForCauseStep ==
  ASSUME TypeOK, ClaimLifecycle, AccusedDecided, ForCause, [Next]_vars
  PROVE  ForCause'
  <1> SUFFICES ASSUME NEW c \in Claims, NEW a \in Deciders(c)'
               PROVE  LeftForCause(c, a)'
    BY DEF ForCause
  <1>0. a \in Accounts
    BY DEF Deciders, getClaimAttestors
  <1>1. ASSUME NEW id \in DisputeIds, ResolveAgentWrong(id),
               UNCHANGED leaderboardVars
        PROVE  LeftForCause(c, a)'
    <2>1. Deciders(c)' = Deciders(c)
      BY <1>0, <1>1, ConvictionTakes
    <2>2. LeftForCause(c, a)
      BY <2>1 DEF ForCause
    <2>3. CASE Pair(id) = <<c, a>>
      BY <1>0, <1>1, <2>2, <2>3, ConvictionTakes DEF LeftForCause
    <2>4. CASE Pair(id) # <<c, a>>
      BY <1>0, <1>1, <2>2, <2>4, ConvictionTakes DEF LeftForCause
    <2> QED
      BY <2>3, <2>4
  <1>2. ASSUME ConvictedOf(c, a)' = ConvictedOf(c, a),
               Deciders(c)' = Deciders(c),
               attestations'[c][a].lockedStake = attestations[c][a].lockedStake,
               settled'[c] = settled[c]
        PROVE  LeftForCause(c, a)'
    BY <1>2 DEF ForCause, LeftForCause
  <1>3. ASSUME NobodyConvicted, NEW b \in Accounts, NEW x \in Claims, NEW d \in Decision,
               Attest(b, x, d)
        PROVE  LeftForCause(c, a)'
    <2>1. ConvictedOf(c, a)' = ConvictedOf(c, a)
      BY <1>3, ConvictionsKept
    <2>2. CASE x = c /\ b = a
      <3>1. /\ ~claims[c].closed /\ UNCHANGED settled
            /\ attestations'[c][a].lockedStake =
                 IF d = "ABSTAIN" THEN 0 ELSE ATTEST_LOCK
        BY <1>0, <1>3, <2>2, AttestEffect
      <3>2. /\ a \notin getClaimAttestors(c)
            /\ Deciders(c)' =
                 Deciders(c) \union (IF d = "ABSTAIN" THEN {} ELSE {a})
        BY <1>0, <1>3, <2>2, AttestDeciders
      <3>3. a \notin Deciders(c) /\ d # "ABSTAIN"
        BY <3>2 DEF Deciders
      <3>4. ConvictedOf(c, a) = {}
        BY <3>3 DEF AccusedDecided, ConvictedOf, Pair
      <3>5. ~settled[c]
        BY <3>1 DEF ClaimLifecycle
      <3> QED
        BY <2>1, <3>1, <3>3, <3>4, <3>5 DEF LeftForCause
    <2>3. CASE x # c \/ b # a
      <3>1. attestations'[c][a] = attestations[c][a] /\ UNCHANGED settled
        BY <1>0, <1>3, <2>3, AttestEffect
      <3>2. a \in Deciders(c)
        BY <3>1 DEF Deciders, getClaimAttestors
      <3> QED
        BY <2>1, <3>1, <3>2 DEF ForCause, LeftForCause
    <2> QED
      BY <2>2, <2>3
  <1>4. ASSUME NobodyConvicted, NEW x \in Claims, NEW truth \in Decision, settleTier1(x, truth)
        PROVE  LeftForCause(c, a)'
    <2>1. ConvictedOf(c, a)' = ConvictedOf(c, a)
      BY <1>4, ConvictionsKept
    <2>2. /\ ~settled[x]
          /\ settled' = [settled EXCEPT ![x] = TRUE]
          /\ seizeStakes(x, Deciders(x))
      BY <1>4, SettleEffect
    <2>3. \A y \in Claims, b \in Accounts :
            /\ attestations'[y][b].exists = attestations[y][b].exists
            /\ attestations'[y][b].decision = attestations[y][b].decision
            /\ attestations'[y][b].lockedStake =
                 IF y = x /\ b \in Deciders(x)
                 THEN 0 ELSE attestations[y][b].lockedStake
      BY <2>2, SeizeStakesEffect
    <2>4. Deciders(c)' = Deciders(c)
      BY <2>3, DecidersKept
    <2>5. CASE x = c
      <3>1. attestations[c][a].lockedStake # 0
        BY <2>2, <2>4, <2>5 DEF seizeStakes
      <3>2. /\ LeftForCause(c, a)
            /\ attestations'[c][a].lockedStake = 0
            /\ settled'[c]
        BY <1>0, <2>2, <2>3, <2>4, <2>5 DEF TypeOK, ForCause
      <3> QED
        BY <2>1, <3>1, <3>2 DEF LeftForCause
    <2>6. CASE x # c
      <3>1. /\ attestations'[c][a].lockedStake = attestations[c][a].lockedStake
            /\ settled'[c] = settled[c]
        BY <1>0, <2>2, <2>3, <2>6 DEF TypeOK
      <3> QED
        BY <1>2, <2>1, <2>4, <3>1
    <2> QED
      BY <2>5, <2>6
  <1>5. ASSUME NobodyConvicted, UNCHANGED <<attestations, settled>>
        PROVE  LeftForCause(c, a)'
    <2>1. Deciders(c)' = Deciders(c)
      BY <1>5 DEF Deciders, getClaimAttestors
    <2> QED
      BY <1>2, <1>5, <2>1, ConvictionsKept
  <1> QED
    BY <1>1, <1>3, <1>4, <1>5, ClaimStep, PostClaimEffect, CloseClaimEffect
       DEF NobodyConvicted

(***************************************************************************)
(* A stake is gone exactly when its claim was settled or a dispute about   *)
(* it was decided against the attestor, and for one of the two once        *)
(* (seizeStake, settleTier1, resolveDispute).                              *)
(***************************************************************************)
THEOREM StakesLeaveForCause == Spec => []StakeLeavesForCause
  <1>1. Init => ForCause
    BY DEF Init, AttestationInit, NoAttestation, ForCause, Deciders,
           getClaimAttestors
  <1>2. TypeOK /\ ClaimLifecycle /\ AccusedDecided /\ ForCause /\ [Next]_vars
          => ForCause'
    BY ForCauseStep
  <1> QED
    BY <1>1, <1>2, CauseIsEnough, TypeCorrect, ClaimsFollowTheirLifecycle,
       AccusedHaveDecided, PTL DEF Spec

-----------------------------------------------------------------------------
(***************************************************************************)
(* Money and scores, for every stake, fee and bond, any number of          *)
(* attestors and of disputes.  Solvency: each balance is followed by       *)
(* itself: the registry's needs that an agent that is not active has no    *)
(* bond (ActiveIffBonded), the attestation contract's that the stakes in   *)
(* LockedStakes all have the same size (TypeOK), the slashing contract's   *)
(* that a dispute that closes was open (DisputesAgree) and that the splits *)
(* of Money lose nothing.  Then the scoreboard and the trust score, and    *)
(* that every step of the contracts is a step of the abstract escrow.      *)
(***************************************************************************)

-----------------------------------------------------------------------------
\* The registry.

Bonds == [a \in Accounts |-> agents[a].bond]

RegistrySolvent == registryBalance = Total(Bonds)

LEMMA BondChange ==
  ASSUME TypeOK, NEW a \in Accounts, NEW v \in Nat, agents'[a].bond = v,
         \A b \in Accounts \ {a} : agents'[b] = agents[b]
  PROVE  Total(Bonds') = Total(Bonds) - agents[a].bond + v
  <1>1. Bonds \in [Accounts -> Nat] /\ Bonds[a] = agents[a].bond
    BY DEF TypeOK, Agent, Bonds
  <1>2. Bonds' = [Bonds EXCEPT ![a] = v]
    BY DEF Bonds
  <1>3. Total([Bonds EXCEPT ![a] = v]) = Total(Bonds) - Bonds[a] + v
    BY <1>1, TotalChange, ZenonT(30)
  <1> QED
    BY <1>1, <1>2, <1>3

LEMMA RegistrySolventStep ==
  ASSUME TypeOK, ActiveIffBonded, RegistrySolvent, [Next]_vars
  PROVE  RegistrySolvent'
  <1>0. /\ \A a \in Accounts : agents[a].bond \in Nat
        /\ Total(Bonds) \in Nat
        /\ registryBalance = Total(Bonds)
    <2>1. Bonds \in [Accounts -> Nat]
      BY DEF TypeOK, Agent, Bonds
    <2> QED
      BY <2>1, TotalType DEF TypeOK, Agent, RegistrySolvent
  <1>1. ASSUME NEW a \in Accounts, NEW v \in 0 .. MAX_BOND, Register(a, v)
        PROVE  RegistrySolvent'
    <2>1. Total(Bonds') = Total(Bonds) - agents[a].bond + v
      BY <1>1, RegisterEffect, BondChange
    <2>2. agents[a].bond = 0 /\ registryBalance' = registryBalance + v
      BY <1>1, RegisterEffect DEF ActiveIffBonded
    <2> QED
      BY <1>0, <2>1, <2>2 DEF RegistrySolvent
  <1>2. ASSUME NEW a \in Accounts, NEW v \in 0 .. MAX_BOND, TopUpBond(a, v)
        PROVE  RegistrySolvent'
    <2>1. /\ agents'[a].bond = agents[a].bond + v
          /\ registryBalance' = registryBalance + v
          /\ \A b \in Accounts \ {a} : agents'[b] = agents[b]
      BY <1>2, TopUpBondEffect
    <2>2. Total(Bonds') = Total(Bonds) - agents[a].bond + (agents[a].bond + v)
      BY <1>0, <2>1, BondChange
    <2> QED
      BY <1>0, <2>1, <2>2 DEF RegistrySolvent
  <1>3. ASSUME NEW a \in Accounts, NEW v \in 0 .. MAX_BOND, WithdrawBond(a, v)
        PROVE  RegistrySolvent'
    <2>1. /\ agents[a].bond - v \in Nat
          /\ agents'[a].bond = agents[a].bond - v
          /\ registryBalance' = registryBalance - v
      BY <1>3, WithdrawBondEffect
    <2>2. \A b \in Accounts \ {a} : agents'[b] = agents[b]
      BY <1>3, WithdrawBondEffect
    <2>3. Total(Bonds') = Total(Bonds) - agents[a].bond + (agents[a].bond - v)
      BY <2>1, <2>2, BondChange
    <2> QED
      BY <1>0, <2>1, <2>3 DEF RegistrySolvent
  <1>4. CASE BondsKept
    <2>1. Bonds' = Bonds /\ registryBalance' = registryBalance
      BY <1>4 DEF BondsKept, Bonds
    <2> QED
      BY <2>1 DEF RegistrySolvent
  <1> QED
    BY <1>1, <1>2, <1>3, <1>4, BondStep

-----------------------------------------------------------------------------
\* The attestation contract.

AttestationSolvent ==
  attestationBalance = Cardinality(LockedStakes) * ATTEST_LOCK
                       + Cardinality(HeldFees) * CLAIM_FEE

LEMMA HeldFinite ==
  /\ IsFiniteSet(LockedStakes) /\ Cardinality(LockedStakes) \in Nat
  /\ IsFiniteSet(HeldFees) /\ Cardinality(HeldFees) \in Nat
  /\ Cardinality(LockedStakes') \in Nat
  <1>1. IsFiniteSet(Claims \X Accounts)
    BY FS_Product
  <1>2. /\ LockedStakes \in SUBSET (Claims \X Accounts)
        /\ HeldFees \in SUBSET Claims
        /\ LockedStakes' \in SUBSET (Claims \X Accounts)
    BY DEF LockedStakes, HeldFees
  <1> QED
    BY <1>1, <1>2, FS_Subset, FS_CardinalityType

\* What is seized is no longer counted.
LEMMA SeizedStakes ==
  ASSUME TypeOK, NEW c \in Claims, NEW S \in SUBSET Accounts,
         seizeStakes(c, S)
  PROVE  Cardinality(LockedStakes)
           = Cardinality(LockedStakes') + Cardinality(S)
  <1> DEFINE seized == {c} \X S
  <1>1. LockedStakes' = LockedStakes \ seized
    <2>1. \A x \in Claims, b \in Accounts :
            attestations'[x][b].lockedStake =
              IF x = c /\ b \in S THEN 0 ELSE attestations[x][b].lockedStake
      BY SeizeStakesEffect
    <2> QED
      BY <2>1 DEF LockedStakes
  <1>2. seized \subseteq LockedStakes
    BY DEF seizeStakes, LockedStakes
  <1>3. IsFiniteSet(seized) /\ Cardinality(seized) = Cardinality(S)
    <2>1. IsFiniteSet(S) /\ Cardinality(S) \in Nat
      BY AccountsFinite
    <2>2. IsFiniteSet({c}) /\ Cardinality({c}) = 1
      BY FS_Singleton
    <2> QED
      BY <2>1, <2>2, FS_Product
  <1> HIDE DEF seized
  <1>4. Cardinality(LockedStakes \ seized) =
          Cardinality(LockedStakes) - Cardinality(LockedStakes \intersect seized)
    BY HeldFinite, FS_Difference
  <1>5. LockedStakes \intersect seized = seized
    BY <1>2
  <1>6. Cardinality(S) \in Nat /\ Cardinality(LockedStakes) \in Nat
    BY AccountsFinite, HeldFinite
  <1>7. Cardinality(LockedStakes') = Cardinality(LockedStakes) - Cardinality(S)
    BY <1>1, <1>3, <1>4, <1>5
  <1> QED
    BY <1>6, <1>7

LEMMA AttestationSolventStep ==
  ASSUME TypeOK, StakedDecided, ClaimLifecycle, AttestationSolvent, [Next]_vars
  PROVE  AttestationSolvent'
  <1>0. /\ Cardinality(LockedStakes) \in Nat
        /\ Cardinality(HeldFees) \in Nat
        /\ attestationBalance = Cardinality(LockedStakes) * ATTEST_LOCK
                                + Cardinality(HeldFees) * CLAIM_FEE
    BY HeldFinite DEF AttestationSolvent
  <1>1. ASSUME NEW c \in Claims, NEW tier \in TIERS, PostClaim(c, tier)
        PROVE  AttestationSolvent'
    <2>1. /\ ~claims[c].posted
          /\ claims'[c].claimFee # 0
          /\ \A x \in Claims \ {c} : claims'[x] = claims[x]
          /\ attestationBalance' = attestationBalance + CLAIM_FEE
          /\ UNCHANGED attestations
      <3>1. /\ ~claims[c].posted
            /\ claims'[c] = [posted |-> TRUE, closed |-> FALSE, tier |-> tier,
                             attestorCount |-> 0, claimFee |-> CLAIM_FEE]
            /\ \A x \in Claims \ {c} : claims'[x] = claims[x]
            /\ attestationBalance' = attestationBalance + CLAIM_FEE
            /\ UNCHANGED attestations
        BY <1>1, PostClaimEffect
      <3> QED
        BY <3>1
    <2>2. c \notin HeldFees
      BY <2>1 DEF ClaimLifecycle, HeldFees
    <2>3. HeldFees' = HeldFees \union {c} /\ LockedStakes' = LockedStakes
      BY <2>1 DEF HeldFees, LockedStakes
    <2>4. Cardinality(HeldFees') = Cardinality(HeldFees) + 1
      BY <2>2, <2>3, HeldFinite, FS_AddElement
    <2> QED
      BY <1>0, <2>1, <2>3, <2>4 DEF AttestationSolvent
  <1>2. ASSUME NEW c \in Claims, CloseClaim(c)
        PROVE  AttestationSolvent'
    <2>1. /\ claims'[c].claimFee = claims[c].claimFee
          /\ \A x \in Claims \ {c} : claims'[x] = claims[x]
          /\ UNCHANGED <<attestations, attestationBalance>>
      BY <1>2, CloseClaimEffect
    <2>2. HeldFees' = HeldFees /\ LockedStakes' = LockedStakes
      BY <2>1 DEF HeldFees, LockedStakes
    <2> QED
      BY <1>0, <2>1, <2>2 DEF AttestationSolvent
  <1>3. ASSUME NEW a \in Accounts, NEW c \in Claims, NEW d \in Decision,
               Attest(a, c, d)
        PROVE  AttestationSolvent'
    <2>1. /\ ~attestations[c][a].exists
          /\ attestations'[c][a].lockedStake =
               IF d = "ABSTAIN" THEN 0 ELSE ATTEST_LOCK
          /\ \A x \in Claims, b \in Accounts :
               x # c \/ b # a => attestations'[x][b] = attestations[x][b]
          /\ attestationBalance' =
               attestationBalance + (IF d = "ABSTAIN" THEN 0 ELSE ATTEST_LOCK)
      BY <1>3, AttestEffect
    <2>2. HeldFees' = HeldFees
      <3>1. /\ claims'[c].claimFee = claims[c].claimFee
            /\ \A x \in Claims \ {c} : claims'[x] = claims[x]
        BY <1>3, AttestEffect
      <3> QED
        BY <3>1 DEF HeldFees
    <2>3. <<c, a>> \notin LockedStakes
      BY <2>1 DEF StakedDecided, Deciders, getClaimAttestors, LockedStakes
    <2>4. CASE d = "ABSTAIN"
      <3>1. LockedStakes' = LockedStakes
        BY <2>1, <2>3, <2>4 DEF LockedStakes
      <3> QED
        BY <1>0, <2>1, <2>2, <2>4, <3>1 DEF AttestationSolvent, TypeOK
    <2>5. CASE d # "ABSTAIN"
      <3>1. LockedStakes' = LockedStakes \union {<<c, a>>}
        BY <2>1, <2>5 DEF LockedStakes
      <3>2. Cardinality(LockedStakes') = Cardinality(LockedStakes) + 1
        BY <2>3, <3>1, HeldFinite, FS_AddElement
      <3> QED
        BY <1>0, <2>1, <2>2, <2>5, <3>2 DEF AttestationSolvent
    <2> QED
      BY <2>4, <2>5
  <1>4. ASSUME NEW c \in Claims, NEW truth \in Decision, settleTier1(c, truth)
        PROVE  AttestationSolvent'
    <2> DEFINE correct == CollectCorrect(c, truth)
               wrong   == Deciders(c) \ correct
               n       == Cardinality(correct)
               w       == Cardinality(wrong)
    <2>1. /\ claims[c].claimFee = CLAIM_FEE
          /\ claims'[c].claimFee = 0
          /\ \A x \in Claims \ {c} : claims'[x] = claims[x]
          /\ seizeStakes(c, Deciders(c))
      BY <1>4, SettleEffect DEF TypeOK, Claim
    <2>2. attestationBalance' =
            attestationBalance - (n + w) * ATTEST_LOCK - CLAIM_FEE
      BY <1>4, <2>1 DEF settleTier1
    <2>3. /\ n \in Nat /\ w \in Nat
          /\ Cardinality(Deciders(c)) = n + w
      <3>1. /\ correct \in SUBSET Accounts
            /\ wrong \in SUBSET Accounts
            /\ correct \union wrong = Deciders(c)
            /\ correct \intersect wrong = {}
        BY DEF CollectCorrect, Deciders, getClaimAttestors
      <3>2. /\ IsFiniteSet(correct) /\ Cardinality(correct) \in Nat
            /\ IsFiniteSet(wrong) /\ Cardinality(wrong) \in Nat
        BY <3>1, AccountsFinite
      <3> HIDE DEF correct, wrong
      <3>3. Cardinality(correct \union wrong) =
              Cardinality(correct) + Cardinality(wrong)
              - Cardinality(correct \intersect wrong)
        BY <3>2, FS_Union
      <3>4. Cardinality(correct \intersect wrong) = 0
        BY <3>1, FS_EmptySet
      <3>5. Cardinality(Deciders(c)) = Cardinality(correct \union wrong)
        BY <3>1
      <3> QED
        BY <3>2, <3>3, <3>4, <3>5
    <2> HIDE DEF n, w
    <2>4. Cardinality(LockedStakes) = Cardinality(LockedStakes') + (n + w)
      <3>1. Deciders(c) \in SUBSET Accounts
        BY DEF Deciders, getClaimAttestors
      <3> QED
        BY <2>1, <2>3, <3>1, SeizedStakes
    <2>5. /\ c \in HeldFees
          /\ HeldFees' = HeldFees \ {c}
      BY <2>1 DEF HeldFees
    <2>6. Cardinality(HeldFees') = Cardinality(HeldFees) - 1
      BY <2>5, HeldFinite, FS_RemoveElement
    <2>7. Cardinality(LockedStakes') \in Nat
      BY HeldFinite
    <2> QED
      BY <1>0, <2>2, <2>3, <2>4, <2>6, <2>7 DEF AttestationSolvent
  <1>5. ASSUME NEW id \in DisputeIds, ResolveAgentWrong(id),
               UNCHANGED leaderboardVars
        PROVE  AttestationSolvent'
    <2>1. PICK c \in Claims, b \in Accounts :
            c = disputes[id].claimId /\ b = disputes[id].accused
      BY <1>5, ConvictionEffect
    <2>2. seizeStakes(c, {b}) /\ claims' = claims
      BY <1>5, <2>1, ConvictionEffect
    <2>3. attestations[c][b].lockedStake = ATTEST_LOCK
      BY <2>2 DEF seizeStakes, TypeOK, Attestation
    <2>4. attestationBalance' = attestationBalance - ATTEST_LOCK
      BY <1>5, <2>1, <2>3 DEF ResolveAgentWrong
    <2>5. Cardinality(LockedStakes) = Cardinality(LockedStakes') + 1
      BY <2>2, SeizedStakes, FS_Singleton
    <2>6. HeldFees' = HeldFees /\ Cardinality(LockedStakes') \in Nat
      BY <2>2, HeldFinite DEF HeldFees
    <2> QED
      BY <1>0, <2>4, <2>5, <2>6 DEF AttestationSolvent
  <1>6. UNCHANGED <<claims, attestations, attestationBalance, settled>>
          => AttestationSolvent'
    BY <1>0 DEF AttestationSolvent, LockedStakes, HeldFees
  <1> QED
    BY <1>1, <1>2, <1>3, <1>4, <1>5, <1>6, ClaimStep

-----------------------------------------------------------------------------
\* The arithmetic of a settlement with n correct and w wrong attestors: L the
\* stake, s and b its share and burn, f and g those of the fee.

LEMMA SettlementAddsUp ==
  ASSUME NEW n \in Nat, NEW w \in Nat, NEW L \in Nat, NEW s \in Nat,
         NEW b \in Nat, NEW f \in Nat, NEW g \in Nat, n * s + b = L
  PROVE  n * (L + w * s + f) + (w * b + g) = w * L + (n * L + n * f + g)
  <1>1. w * L = w * (n * s) + w * b
    <2>1. n * s \in Nat
      BY NatTimes
    <2> QED
      BY <2>1
  <1>2. n * (w * s) = w * (n * s)
    OBVIOUS
  <1>3. n * (L + w * s + f) = n * L + n * (w * s) + n * f
    <2>1. w * s \in Nat
      BY NatTimes
    <2> QED
      BY <2>1
  <1>4. /\ n * L \in Nat /\ n * (w * s) \in Nat /\ n * f \in Nat
        /\ w * b \in Nat /\ w * L \in Nat
    <2>1. w * s \in Nat
      BY NatTimes
    <2> QED
      BY <2>1, NatTimes
  <1> QED
    BY <1>1, <1>2, <1>3, <1>4

-----------------------------------------------------------------------------
\* The slashing contract and the leaderboard.

Owed == Total(claimable) + totalBurned
        + Cardinality(OpenDisputes) * DISPUTE_BOND + surplus

SlashingSolvent == slashingBalance = Owed /\ leaderboardBalance = 0

MoneyKept ==
  /\ OpenDisputes' = OpenDisputes
  /\ UNCHANGED <<claimable, totalBurned, slashingBalance, surplus,
                 leaderboardBalance>>

LEMMA OwedType ==
  ASSUME TypeOK
  PROVE  /\ Total(claimable) \in Nat
         /\ totalBurned \in Nat
         /\ Cardinality(OpenDisputes) \in Nat
         /\ surplus \in Nat
  BY TotalType, OpenFinite, FS_CardinalityType DEF TypeOK

LEMMA MoneyStep ==
  ASSUME TypeOK, DisputesAgree, [Next]_vars
  PROVE  \/ \E a \in Accounts, c \in Claims, b \in Accounts :
              OpenDispute(a, c, b)
         \/ \E id \in DisputeIds : ResolveDispute(id)
         \/ \E a \in Accounts : Withdraw(a)
         \/ \E c \in Claims, truth \in Decision : settleTier1(c, truth)
         \/ Receive
         \/ MoneyKept
  <1> DEFINE Kept == UNCHANGED <<claimable, totalBurned, slashingBalance,
                                 surplus, leaderboardBalance>>
  <1>1. DisputesKept /\ Kept => MoneyKept
    BY KeptAgree DEF MoneyKept
  <1>2. UNCHANGED <<disputes, disputeCount>> /\ Kept => MoneyKept
    BY DEF MoneyKept, OpenDisputes, DisputeIds
  <1>3. ASSUME NEW a \in Accounts, AccountCall(a)
        PROVE  \/ \E c \in Claims, b \in Accounts : OpenDispute(a, c, b)
               \/ Withdraw(a)
               \/ MoneyKept
    <2>1. ASSUME NEW v \in 0 .. MAX_BOND,
                 Register(a, v) \/ TopUpBond(a, v) \/ WithdrawBond(a, v)
          PROVE  MoneyKept
      BY <1>2, <2>1 DEF Register, TopUpBond, WithdrawBond, slashingVars,
                        leaderboardVars
    <2>2. ASSUME NEW c \in Claims, NEW d \in Decision, Attest(a, c, d)
          PROVE  MoneyKept
      BY <1>2, <2>2 DEF Attest, slashingVars, leaderboardVars
    <2>3. ASSUME NEW id \in DisputeIds, NEW w \in BOOLEAN, Vote(a, id, w)
          PROVE  MoneyKept
      <3>1. Kept
        BY <2>3 DEF Vote, vote, leaderboardVars
      <3> QED
        BY <1>1, <2>3, <3>1, VoteKeepsDisputes
    <2> QED
      BY <1>3, <2>1, <2>2, <2>3 DEF AccountCall
  <1>4. ASSUME NEW c \in Claims, OperatorCall(c)
        PROVE  (\E truth \in Decision : settleTier1(c, truth)) \/ MoneyKept
    BY <1>2, <1>4 DEF OperatorCall, PostClaim, CloseClaim, slashingVars,
                      leaderboardVars
  <1>5. Tick => MoneyKept
    <2>1. Tick => Kept
      BY DEF Tick
    <2> QED
      BY <1>1, <2>1, TickKeepsDisputes
  <1>6. UNCHANGED vars => MoneyKept
    BY <1>2 DEF vars, slashingVars, leaderboardVars
  <1> QED
    BY <1>3, <1>4, <1>5, <1>6 DEF Next

\* What a lost dispute pays and burns is the stake and the challenger's bond.
LEMMA ConvictionPays ==
  ASSUME TypeOK, NEW id \in DisputeIds, ResolveAgentWrong(id)
  PROVE  /\ Total(claimable') + totalBurned' =
              Total(claimable) + totalBurned + ATTEST_LOCK + DISPUTE_BOND
         /\ slashingBalance' = slashingBalance + ATTEST_LOCK
         /\ UNCHANGED surplus
  <1> DEFINE d     == disputes[id]
             slash == attestations[d.claimId][d.accused].lockedStake
             peers == Peers(d.claimId, d.accused)
             n     == Cardinality(peers)
             split == DisputeSplit(slash, n)
             who   == {d.challenger}
             prize == DISPUTE_BOND + split.reward
             gain  == [a \in Accounts |->
                         (IF a \in peers THEN split.share ELSE 0)
                         + (IF a = d.challenger THEN DISPUTE_BOND + split.reward
                                                ELSE 0)]
             mid   == [a \in Accounts |->
                         claimable[a] + (IF a \in peers THEN split.share ELSE 0)]
  <1>1. /\ d.claimId \in Claims /\ d.accused \in Accounts
        /\ d.challenger \in Accounts
    BY DEF TypeOK, Dispute
  <1>2. slash = ATTEST_LOCK
    <2>1. seizeStakes(d.claimId, {d.accused})
      BY DEF ResolveAgentWrong
    <2>2. attestations[d.claimId][d.accused] \in Attestation
      BY <1>1 DEF TypeOK
    <2> HIDE DEF d
    <2> QED
      BY <2>1, <2>2 DEF seizeStakes, Attestation
  <1>3. /\ claimable' = [a \in Accounts |-> claimable[a] + gain[a]]
        /\ totalBurned' = totalBurned + split.burn
        /\ slashingBalance' = slashingBalance + slash
        /\ UNCHANGED surplus
    BY DEF ResolveAgentWrong, CloseDispute
  <1>4. peers \in SUBSET Accounts /\ n \in Nat
    <2>1. peers \in SUBSET Accounts
      BY DEF Peers, Deciders, getClaimAttestors
    <2> HIDE DEF peers
    <2> QED
      BY <2>1, AccountsFinite
  <1>5. /\ split.reward \in Nat /\ split.share \in Nat /\ split.burn \in Nat
        /\ split.reward + n * split.share + split.burn = ATTEST_LOCK
    <2> HIDE DEF n, slash
    <2> QED  BY <1>2, <1>4, DisputeSplitConserves
  <1> HIDE DEF slash, peers, n, split, d
  <1>6. /\ claimable \in [Accounts -> Nat]
        /\ mid \in [Accounts -> Nat]
        /\ claimable' \in [Accounts -> Nat]
    BY <1>3, <1>5 DEF TypeOK
  <1>7. Total(mid) = Total(claimable) + n * split.share
    <2>1. \A a \in Accounts :
            mid[a] = claimable[a] + (IF a \in peers THEN split.share ELSE 0)
      OBVIOUS
    <2> HIDE DEF mid
    <2> QED
      BY <1>4, <1>5, <1>6, <2>1, TotalAdd DEF n
  <1>8. Total(claimable') = Total(mid) + prize
    <2>1. \A a \in Accounts :
            claimable'[a] = mid[a] + (IF a \in who THEN prize ELSE 0)
      BY <1>3, <1>5, <1>6
    <2>2. who \in SUBSET Accounts /\ Cardinality(who) = 1
      BY <1>1, FS_Singleton
    <2>3. prize \in Nat
      BY <1>5
    <2> HIDE DEF mid, who, prize
    <2>4. Total(claimable') = Total(mid) + Cardinality(who) * prize
      BY <1>6, <2>1, <2>2, <2>3, TotalAdd
    <2>5. Total(mid) \in Nat
      BY <1>6, TotalType
    <2> QED
      BY <2>2, <2>3, <2>4, <2>5
  <1>9. Total(claimable) \in Nat /\ n * split.share \in Nat
    BY <1>4, <1>5, OwedType, NatTimes
  <1> HIDE DEF mid, gain
  <1>10. totalBurned \in Nat
    BY DEF TypeOK
  <1>11. Total(claimable') = Total(claimable) + n * split.share
                             + (DISPUTE_BOND + split.reward)
    BY <1>7, <1>8
  <1>12. Total(claimable') + (totalBurned + split.burn) =
           Total(claimable) + totalBurned + ATTEST_LOCK + DISPUTE_BOND
    BY <1>5, <1>9, <1>10, <1>11
  <1> QED
    BY <1>2, <1>3, <1>12

\* A dismissed dispute gives half of the challenger's bond to the accused.
LEMMA AcquittalPays ==
  ASSUME TypeOK, NEW id \in DisputeIds, ResolveAgentRight(id)
  PROVE  /\ Total(claimable') + totalBurned' =
              Total(claimable) + totalBurned + DISPUTE_BOND
         /\ UNCHANGED <<slashingBalance, surplus>>
  <1> DEFINE half == DISPUTE_BOND \div 2
  <1>1. half \in Nat
    BY HalfAndTenth
  <1>2. PICK b \in Accounts : b = disputes[id].accused
    BY DEF TypeOK, Dispute
  <1>3. /\ claimable' = [claimable EXCEPT ![b] = claimable[b] + half]
        /\ totalBurned' = totalBurned + (DISPUTE_BOND - half)
        /\ UNCHANGED <<slashingBalance, surplus>>
    BY <1>2 DEF ResolveAgentRight, CloseDispute
  <1> HIDE DEF half
  <1>4. claimable \in [Accounts -> Nat] /\ claimable[b] + half \in Nat
    BY <1>1 DEF TypeOK
  <1>5. Total([claimable EXCEPT ![b] = claimable[b] + half]) =
          Total(claimable) - claimable[b] + (claimable[b] + half)
    BY <1>4, TotalChange, ZenonT(30)
  <1>6. Total(claimable) \in Nat /\ totalBurned \in Nat /\ claimable[b] \in Nat
    BY OwedType DEF TypeOK
  <1> QED
    BY <1>1, <1>3, <1>5, <1>6

\* A settlement pays or burns all the stakes and the fee it takes in.
LEMMA SettlementPays ==
  ASSUME TypeOK, NEW c \in Claims, NEW truth \in Decision,
         settleTier1(c, truth)
  PROVE  /\ Total(claimable') + totalBurned' - slashingBalance' =
              Total(claimable) + totalBurned - slashingBalance
         /\ leaderboardBalance' = leaderboardBalance
         /\ UNCHANGED <<disputes, disputeCount, surplus>>
  <1> DEFINE correct   == CollectCorrect(c, truth)
             n         == Cardinality(correct)
             w         == Cardinality(Deciders(c) \ correct)
             fee       == claims[c].claimFee
             slashed   == BurnAndRedistribute(ATTEST_LOCK, n)
             feeSplit  == FeeSplit(fee, n)
             prize     == ATTEST_LOCK + w * slashed.share + feeSplit.share
             gain      == [a \in Accounts |-> IF a \in correct THEN prize ELSE 0]
             forwarded == n * ATTEST_LOCK + n * feeSplit.share + feeSplit.burn
  <1>1. /\ claimable' = [a \in Accounts |-> claimable[a] + gain[a]]
        /\ totalBurned' = totalBurned + w * slashed.burn + feeSplit.burn
        /\ slashingBalance' = slashingBalance + w * ATTEST_LOCK + forwarded
        /\ leaderboardBalance' =
             leaderboardBalance + n * ATTEST_LOCK + fee - forwarded
        /\ UNCHANGED <<disputes, disputeCount, surplus>>
    BY DEF settleTier1
  <1>2. correct \in SUBSET Accounts /\ n \in Nat /\ w \in Nat /\ fee \in Nat
    <2>1. /\ correct \in SUBSET Accounts
          /\ Deciders(c) \ correct \in SUBSET Accounts
      BY DEF CollectCorrect, Deciders, getClaimAttestors
    <2>2. fee \in Nat
      BY DEF TypeOK, Claim
    <2> HIDE DEF correct
    <2> QED
      BY <2>1, <2>2, AccountsFinite
  <1>3. /\ slashed.share \in Nat /\ slashed.burn \in Nat
        /\ n * slashed.share + slashed.burn = ATTEST_LOCK
        /\ feeSplit.share \in Nat /\ feeSplit.burn \in Nat
        /\ n * feeSplit.share + feeSplit.burn = fee
    <2> HIDE DEF n, fee
    <2> QED  BY <1>2, BurnAndRedistributeConserves, FeeSplitConserves
  <1> HIDE DEF correct, n, w, fee, slashed, feeSplit
  <1>4. /\ w * slashed.share \in Nat /\ w * slashed.burn \in Nat
        /\ n * feeSplit.share \in Nat
        /\ n * ATTEST_LOCK \in Nat /\ w * ATTEST_LOCK \in Nat
    BY <1>2, <1>3, NatTimes
  <1>5. prize \in Nat /\ forwarded \in Nat
    BY <1>3, <1>4
  <1>6. n * prize + (w * slashed.burn + feeSplit.burn)
          = w * ATTEST_LOCK + forwarded
    <2> DEFINE s == slashed.share
               b == slashed.burn
               f == feeSplit.share
               g == feeSplit.burn
    <2>1. /\ s \in Nat /\ b \in Nat /\ f \in Nat /\ g \in Nat
          /\ n * s + b = ATTEST_LOCK
      BY <1>3
    <2> HIDE DEF s, b, f, g
    <2>2. n * (ATTEST_LOCK + w * s + f) + (w * b + g)
            = w * ATTEST_LOCK + (n * ATTEST_LOCK + n * f + g)
      BY <1>2, <2>1, SettlementAddsUp
    <2> QED
      BY <2>2 DEF s, b, f, g
  <1>7. leaderboardBalance' = leaderboardBalance
    BY <1>1, <1>2, <1>3, <1>4 DEF TypeOK
  <1> HIDE DEF prize, forwarded
  <1>8. \A a \in Accounts :
          claimable'[a] = claimable[a] + (IF a \in correct THEN prize ELSE 0)
    BY <1>1
  <1>9. claimable \in [Accounts -> Nat] /\ claimable' \in [Accounts -> Nat]
    BY <1>1, <1>5 DEF TypeOK
  <1> HIDE DEF gain
  <1>10. Total(claimable') = Total(claimable) + n * prize
    BY <1>2, <1>5, <1>8, <1>9, TotalAdd DEF n
  <1>11. /\ Total(claimable) \in Nat /\ totalBurned \in Nat
         /\ slashingBalance \in Int /\ n * prize \in Nat
    BY <1>2, <1>5, OwedType, NatTimes DEF TypeOK
  <1>12. Total(claimable) + n * prize
           + (totalBurned + w * slashed.burn + feeSplit.burn)
           - (slashingBalance + w * ATTEST_LOCK + forwarded)
         = Total(claimable) + totalBurned - slashingBalance
    BY <1>3, <1>4, <1>5, <1>6, <1>11
  <1> QED
    BY <1>1, <1>7, <1>10, <1>12

LEMMA SlashingSolventStep ==
  ASSUME TypeOK, DisputesAgree, SlashingSolvent, [Next]_vars
  PROVE  SlashingSolvent'
  <1>0. /\ Total(claimable) \in Nat /\ totalBurned \in Nat
        /\ Cardinality(OpenDisputes) \in Nat /\ surplus \in Nat
        /\ slashingBalance = Total(claimable) + totalBurned
             + Cardinality(OpenDisputes) * DISPUTE_BOND + surplus
        /\ leaderboardBalance = 0
    BY OwedType DEF SlashingSolvent, Owed
  <1>a. /\ Total(claimable') \in Nat
        /\ totalBurned' \in Nat
        /\ slashingBalance' \in Int
    <2>1. /\ claimable' \in [Accounts -> Nat]
          /\ totalBurned' \in Nat
          /\ slashingBalance' \in Int
      BY StepType DEF TypeOK
    <2> QED
      BY <2>1, TotalType
  <1>1. ASSUME NEW a \in Accounts, NEW c \in Claims, NEW b \in Accounts,
               OpenDispute(a, c, b)
        PROVE  SlashingSolvent'
    <2>1. PICK n : n = disputeCount
      OBVIOUS
    <2>2. OpenDisputes' = OpenDisputes \union {n} /\ n \notin OpenDisputes
      BY <1>1, <2>1, OpenDisputeAgrees
    <2>3. Cardinality(OpenDisputes') = Cardinality(OpenDisputes) + 1
      BY <2>2, OpenFinite, FS_AddElement
    <2>4. /\ slashingBalance' = slashingBalance + DISPUTE_BOND
          /\ UNCHANGED <<claimable, totalBurned, surplus, leaderboardBalance>>
      BY <1>1 DEF OpenDispute, openDispute, leaderboardVars
    <2> QED
      BY <1>0, <2>3, <2>4 DEF SlashingSolvent, Owed
  <1>2. ASSUME NEW id \in DisputeIds, ResolveDispute(id)
        PROVE  SlashingSolvent'
    <2>1. id \in OpenDisputes /\ OpenDisputes' = OpenDisputes \ {id}
      BY <1>2, ResolveDisputeAgrees
    <2>2. Cardinality(OpenDisputes') = Cardinality(OpenDisputes) - 1
      BY <2>1, OpenFinite, FS_RemoveElement
    <2>3. UNCHANGED leaderboardBalance
      BY <1>2 DEF ResolveDispute, leaderboardVars
    <2>4. Total(claimable') + totalBurned' - slashingBalance' =
            Total(claimable) + totalBurned - slashingBalance + DISPUTE_BOND
          /\ UNCHANGED surplus
      <3>1. CASE ResolveAgentWrong(id)
        <4>1. /\ Total(claimable') + totalBurned' =
                   Total(claimable) + totalBurned + ATTEST_LOCK + DISPUTE_BOND
              /\ slashingBalance' = slashingBalance + ATTEST_LOCK
              /\ UNCHANGED surplus
          BY <3>1, ConvictionPays
        <4> QED
          BY <1>0, <1>a, <4>1
      <3>2. CASE ResolveAgentRight(id)
        <4>1. /\ Total(claimable') + totalBurned' =
                   Total(claimable) + totalBurned + DISPUTE_BOND
              /\ UNCHANGED <<slashingBalance, surplus>>
          BY <3>2, AcquittalPays
        <4> QED
          BY <1>0, <1>a, <4>1
      <3> QED
        BY <1>2, <3>1, <3>2 DEF ResolveDispute, resolveDispute
    <2>5. (Cardinality(OpenDisputes) - 1) * DISPUTE_BOND =
            Cardinality(OpenDisputes) * DISPUTE_BOND - DISPUTE_BOND
      BY <1>0
    <2>6. Cardinality(OpenDisputes) * DISPUTE_BOND \in Nat
      BY <1>0, NatTimes
    <2>7. slashingBalance' =
            Total(claimable') + totalBurned'
            + (Cardinality(OpenDisputes) * DISPUTE_BOND - DISPUTE_BOND)
            + surplus
      BY <1>0, <1>a, <2>4, <2>6
    <2>8. Cardinality(OpenDisputes') * DISPUTE_BOND =
            Cardinality(OpenDisputes) * DISPUTE_BOND - DISPUTE_BOND
      BY <2>2, <2>5
    <2> QED
      BY <1>0, <2>3, <2>4, <2>7, <2>8 DEF SlashingSolvent, Owed
  <1>3. ASSUME NEW a \in Accounts, Withdraw(a)
        PROVE  SlashingSolvent'
    <2>1. /\ claimable' = [claimable EXCEPT ![a] = 0]
          /\ slashingBalance' = slashingBalance - claimable[a]
          /\ OpenDisputes' = OpenDisputes
          /\ UNCHANGED <<totalBurned, surplus, leaderboardBalance>>
      BY <1>3 DEF Withdraw, withdraw, leaderboardVars, OpenDisputes, DisputeIds
    <2>2. claimable \in [Accounts -> Nat] /\ claimable[a] \in Nat
      BY DEF TypeOK
    <2>3. Total([claimable EXCEPT ![a] = 0]) =
            Total(claimable) - claimable[a] + 0
      BY <2>2, TotalChange
    <2> QED
      BY <1>0, <2>1, <2>2, <2>3 DEF SlashingSolvent, Owed
  <1>4. ASSUME NEW c \in Claims, NEW truth \in Decision, settleTier1(c, truth)
        PROVE  SlashingSolvent'
    <2>1. /\ Total(claimable') + totalBurned' - slashingBalance' =
               Total(claimable) + totalBurned - slashingBalance
          /\ leaderboardBalance' = leaderboardBalance
          /\ UNCHANGED <<disputes, disputeCount, surplus>>
      BY <1>4, SettlementPays
    <2>2. OpenDisputes' = OpenDisputes
      BY <2>1 DEF OpenDisputes, DisputeIds
    <2> QED
      BY <1>0, <1>a, <2>1, <2>2 DEF SlashingSolvent, Owed
  <1>5. CASE Receive
    <2>1. /\ surplus' = surplus + 1 /\ slashingBalance' = slashingBalance + 1
          /\ OpenDisputes' = OpenDisputes
          /\ UNCHANGED <<claimable, totalBurned, leaderboardBalance>>
      BY <1>5 DEF Receive, receive, leaderboardVars, OpenDisputes, DisputeIds
    <2> QED
      BY <1>0, <2>1 DEF SlashingSolvent, Owed
  <1>6. CASE MoneyKept
    BY <1>0, <1>6 DEF MoneyKept, SlashingSolvent, Owed
  <1> QED
    BY <1>1, <1>2, <1>3, <1>4, <1>5, <1>6, MoneyStep

-----------------------------------------------------------------------------
(***************************************************************************)
(* Every contract holds exactly the ether it owes, in every state that any *)
(* sequence of calls reaches, whatever the stake, the fee and the bond.    *)
(***************************************************************************)
THEOREM ContractsAreSolvent == Spec => []Solvency
  <1>1. Solvency <=> RegistrySolvent /\ AttestationSolvent /\ SlashingSolvent
    BY DEF Solvency, RegistrySolvent, Bonds, AttestationSolvent,
           SlashingSolvent, Owed
  <1>2. Init => RegistrySolvent /\ AttestationSolvent /\ SlashingSolvent
    <2> SUFFICES ASSUME Init
                 PROVE  RegistrySolvent /\ AttestationSolvent /\ SlashingSolvent
      OBVIOUS
    <2>1. Coins(Bonds, Accounts) = {} /\ Coins(claimable, Accounts) = {}
      BY DEF Init, RegistryInit, NoAgent, SlashingInit, Bonds, Coins
    <2>2. DOMAIN Bonds = Accounts /\ DOMAIN claimable = Accounts
      BY DEF Init, SlashingInit, Bonds
    <2>3. Total(Bonds) = 0 /\ Total(claimable) = 0
      BY <2>1, <2>2, FS_EmptySet DEF Total
    <2>4. LockedStakes = {} /\ HeldFees = {} /\ OpenDisputes = {}
      BY DEF Init, AttestationInit, NoAttestation, NoClaim, SlashingInit,
             LockedStakes, HeldFees, OpenDisputes, DisputeIds
    <2> QED
      BY <2>3, <2>4, FS_EmptySet
         DEF Init, RegistryInit, AttestationInit, SlashingInit,
             LeaderboardInit, RegistrySolvent, AttestationSolvent,
             SlashingSolvent, Owed
  <1>3. /\ TypeOK /\ ActiveIffBonded /\ RegistrySolvent /\ [Next]_vars
             => RegistrySolvent'
        /\ TypeOK /\ StakedDecided /\ ClaimLifecycle /\ AttestationSolvent
             /\ [Next]_vars => AttestationSolvent'
        /\ TypeOK /\ DisputesAgree /\ SlashingSolvent /\ [Next]_vars
             => SlashingSolvent'
    BY RegistrySolventStep, AttestationSolventStep, SlashingSolventStep
  <1> QED
    BY <1>1, <1>2, <1>3, TypeCorrect, BondsCoverTheMinimum, StakesAreDecided,
       ClaimsFollowTheirLifecycle, DisputeRecordsAgree, PTL DEF Spec

-----------------------------------------------------------------------------
(***************************************************************************)
(* The scoreboard.  A settlement moves each field of an attestor's record  *)
(* by the same 0 or 1 for life and in the current epoch, and moves the set *)
(* of settled claims the attestor took part in by the claim it settles.    *)
(***************************************************************************)
LEMMA ScoreFields == DOMAIN NoStats = {"correct", "wrong", "abstained", "slashes"}
  BY DEF NoStats

\* What Bump adds to a field of the record of a.
BumpOf(field, a, correct, wrong, abstained) ==
  IF a \in correct THEN IF field = "correct" THEN 1 ELSE 0
  ELSE IF a \in wrong THEN IF field \in {"wrong", "slashes"} THEN 1 ELSE 0
  ELSE IF a \in abstained /\ field = "abstained" THEN 1 ELSE 0

LEMMA BumpAdds ==
  ASSUME NEW s \in Stats, NEW a, NEW C, NEW W, NEW Z,
         NEW field \in DOMAIN NoStats
  PROVE  Bump(s, a, C, W, Z)[field] = s[field] + BumpOf(field, a, C, W, Z)
  <1>1. /\ s.correct \in Nat /\ s.wrong \in Nat
        /\ s.abstained \in Nat /\ s.slashes \in Nat
    BY DEF Stats
  <1>2. field \in {"correct", "wrong", "abstained", "slashes"}
    BY ScoreFields
  <1>3. CASE a \in C
    <2>1. Bump(s, a, C, W, Z) = [s EXCEPT !.correct = @ + 1]
      BY <1>3 DEF Bump
    <2> QED
      BY <1>1, <1>2, <1>3, <2>1 DEF Stats, BumpOf
  <1>4. CASE a \notin C /\ a \in W
    <2>1. Bump(s, a, C, W, Z) =
            [s EXCEPT !.wrong = s.wrong + 1, !.slashes = s.slashes + 1]
      BY <1>4 DEF Bump, Stats
    <2>2. DOMAIN s = {"correct", "wrong", "abstained", "slashes"}
      BY DEF Stats
    <2>3. /\ Bump(s, a, C, W, Z).correct = s.correct
          /\ Bump(s, a, C, W, Z).wrong = s.wrong + 1
          /\ Bump(s, a, C, W, Z).abstained = s.abstained
          /\ Bump(s, a, C, W, Z).slashes = s.slashes + 1
      BY <1>1, <2>1, <2>2
    <2>4. BumpOf(field, a, C, W, Z) =
            IF field \in {"wrong", "slashes"} THEN 1 ELSE 0
      BY <1>4 DEF BumpOf
    <2> QED
      BY <1>1, <1>2, <2>3, <2>4
  <1>5. CASE a \notin C /\ a \notin W /\ a \in Z
    <2>1. Bump(s, a, C, W, Z) = [s EXCEPT !.abstained = @ + 1]
      BY <1>5 DEF Bump
    <2> QED
      BY <1>1, <1>2, <1>5, <2>1 DEF Stats, BumpOf
  <1>6. CASE a \notin C /\ a \notin W /\ a \notin Z
    BY <1>1, <1>2, <1>6 DEF Stats, Bump, BumpOf
  <1> QED
    BY <1>3, <1>4, <1>5, <1>6

Mine(a) == {c \in Claims : settled[c] /\ attestations[c][a].exists}

MineAbstained(a) ==
  {c \in Mine(a) : attestations[c][a].decision = "ABSTAIN"}

EpochTotal(a, field) == Total([e \in Epochs |-> epochStats[a][e][field]])

Scored(a) ==
  /\ lifetimeStats[a].correct + lifetimeStats[a].wrong
       + lifetimeStats[a].abstained = Cardinality(Mine(a))
  /\ lifetimeStats[a].abstained = Cardinality(MineAbstained(a))
  /\ lifetimeStats[a].slashes = lifetimeStats[a].wrong
  /\ \A field \in DOMAIN NoStats :
       lifetimeStats[a][field] = EpochTotal(a, field)

LEMMA ScoredOfEach == StatsCountSettlements <=> \A a \in Accounts : Scored(a)
  BY DEF StatsCountSettlements, Scored, Mine, MineAbstained, EpochTotal

LEMMA MineFinite ==
  ASSUME NEW a
  PROVE  /\ IsFiniteSet(Mine(a)) /\ Cardinality(Mine(a)) \in Nat
         /\ IsFiniteSet(MineAbstained(a)) /\ Cardinality(MineAbstained(a)) \in Nat
  <1>1. Mine(a) \in SUBSET Claims /\ MineAbstained(a) \in SUBSET Claims
    BY DEF Mine, MineAbstained
  <1> QED
    BY <1>1, FS_Subset, FS_CardinalityType

LEMMA ScoreStep ==
  ASSUME TypeOK, [Next]_vars
  PROVE  \/ \E c \in Claims, truth \in Decision : settleTier1(c, truth)
         \/ UNCHANGED <<settled, lifetimeStats, epochStats>>
  <1> DEFINE Kept == UNCHANGED <<settled, lifetimeStats, epochStats>>
  <1>1. ASSUME NEW a \in Accounts, AccountCall(a)
        PROVE  Kept
    BY <1>1 DEF AccountCall, Register, TopUpBond, WithdrawBond, Attest,
                OpenDispute, Vote, Withdraw, leaderboardVars
  <1>2. ASSUME NEW c \in Claims, OperatorCall(c)
        PROVE  (\E truth \in Decision : settleTier1(c, truth)) \/ Kept
    BY <1>2 DEF OperatorCall, PostClaim, CloseClaim, leaderboardVars
  <1>3. ASSUME NEW id \in DisputeIds, ResolveDispute(id)
        PROVE  Kept
    BY <1>3 DEF ResolveDispute, leaderboardVars
  <1>4. Receive \/ Tick \/ UNCHANGED vars => Kept
    BY DEF Receive, Tick, vars, leaderboardVars
  <1> HIDE DEF Kept
  <1>5. (\E c \in Claims, truth \in Decision : settleTier1(c, truth)) \/ Kept
    BY <1>1, <1>2, <1>3, <1>4 DEF Next
  <1> QED
    BY <1>5 DEF Kept

\* What a settlement does to the record of a, field by field.
LEMMA SettlementScores ==
  ASSUME TypeOK, NEW c \in Claims, NEW truth \in Decision,
         settleTier1(c, truth), NEW a \in Accounts,
         NEW field \in DOMAIN NoStats
  PROVE  LET correct   == CollectCorrect(c, truth)
             wrong     == Deciders(c) \ correct
             abstained == getClaimAttestors(c) \ Deciders(c)
             more      == BumpOf(field, a, correct, wrong, abstained)
         IN  /\ lifetimeStats[a][field] \in Nat
             /\ lifetimeStats'[a][field] = lifetimeStats[a][field] + more
             /\ EpochTotal(a, field)' = EpochTotal(a, field) + more
  <1> DEFINE correct   == CollectCorrect(c, truth)
             wrong     == Deciders(c) \ correct
             abstained == getClaimAttestors(c) \ Deciders(c)
             more      == BumpOf(field, a, correct, wrong, abstained)
             now       == epochStats[a][epoch]
             after     == Bump(now, a, correct, wrong, abstained)
             F         == [e \in Epochs |-> epochStats[a][e][field]]
  <1>1. /\ lifetimeStats' = [x \in Accounts |->
             Bump(lifetimeStats[x], x, correct, wrong, abstained)]
        /\ epochStats' = [x \in Accounts |->
             [epochStats[x] EXCEPT ![epoch] =
                Bump(@, x, correct, wrong, abstained)]]
    BY DEF settleTier1
  <1>2. /\ lifetimeStats[a] \in Stats
        /\ epochStats[a] \in [Epochs -> Stats]
        /\ epoch \in Epochs
    BY DEF TypeOK
  <1>3. \A s \in Stats : s[field] \in Nat
    BY ScoreFields DEF Stats
  <1>4. /\ lifetimeStats'[a] =
             Bump(lifetimeStats[a], a, correct, wrong, abstained)
        /\ epochStats'[a] = [epochStats[a] EXCEPT ![epoch] = after]
    BY <1>1, <1>2
  <1>5. after[field] = now[field] + more
    BY <1>2, BumpAdds
  <1>6. lifetimeStats'[a][field] = lifetimeStats[a][field] + more
    BY <1>2, <1>4, BumpAdds
  <1>7. more \in Nat
    BY DEF BumpOf
  <1> HIDE DEF correct, wrong, abstained, more, after, now
  <1>8. /\ F \in [Epochs -> Nat]
        /\ F[epoch] = now[field]
        /\ now[field] \in Nat
    BY <1>2, <1>3 DEF now
  <1>9. [e \in Epochs |-> epochStats'[a][e][field]] =
          [F EXCEPT ![epoch] = after[field]]
    BY <1>2, <1>4
  <1>10. IsFiniteSet(Epochs)
    BY FS_Interval DEF Epochs
  <1> HIDE DEF F
  <1>11. Total([F EXCEPT ![epoch] = after[field]]) =
           Total(F) - F[epoch] + after[field]
    <2>1. after[field] \in Nat
      BY <1>5, <1>7, <1>8
    <2> QED
      BY <1>2, <1>8, <1>10, <2>1, TotalChange, ZenonT(30)
  <1>12. Total(F) \in Nat
    BY <1>8, <1>10, TotalType
  <1>13. Total([F EXCEPT ![epoch] = after[field]]) = Total(F) + more
    BY <1>5, <1>7, <1>8, <1>11, <1>12
  <1>14. EpochTotal(a, field)' = EpochTotal(a, field) + more
    BY <1>9, <1>13 DEF EpochTotal, F
  <1> QED
    BY <1>2, <1>3, <1>6, <1>14 DEF more, correct, wrong, abstained

LEMMA SettlementIsScored ==
  ASSUME TypeOK, NEW c \in Claims, NEW truth \in Decision,
         settleTier1(c, truth), NEW a \in Accounts, Scored(a)
  PROVE  Scored(a)'
  <1> DEFINE correct   == CollectCorrect(c, truth)
             wrong     == Deciders(c) \ correct
             abstained == getClaimAttestors(c) \ Deciders(c)
             s         == lifetimeStats[a]
             t         == lifetimeStats'[a]
  <1>1. \A field \in DOMAIN NoStats :
          /\ s[field] \in Nat
          /\ t[field] = s[field] + BumpOf(field, a, correct, wrong, abstained)
          /\ EpochTotal(a, field)' =
               EpochTotal(a, field) + BumpOf(field, a, correct, wrong, abstained)
    BY SettlementScores
  <1>2. \A field \in DOMAIN NoStats : t[field] = EpochTotal(a, field)'
    BY <1>1 DEF Scored
  <1>3. /\ s.correct \in Nat /\ s.wrong \in Nat /\ s.abstained \in Nat
        /\ s.slashes \in Nat
        /\ t.correct = s.correct
             + BumpOf("correct", a, correct, wrong, abstained)
        /\ t.wrong = s.wrong
             + BumpOf("wrong", a, correct, wrong, abstained)
        /\ t.abstained = s.abstained
             + BumpOf("abstained", a, correct, wrong, abstained)
        /\ t.slashes = s.slashes
             + BumpOf("slashes", a, correct, wrong, abstained)
    BY <1>1, ScoreFields
  <1>4. /\ settled' = [settled EXCEPT ![c] = TRUE]
        /\ ~settled[c]
        /\ \A x \in Claims :
             /\ attestations'[x][a].exists = attestations[x][a].exists
             /\ attestations'[x][a].decision = attestations[x][a].decision
    BY SettleEffect, SeizeStakesEffect
  <1>5. \A x \in Claims : settled'[x] <=> settled[x] \/ x = c
    BY <1>4 DEF TypeOK
  <1>6. c \notin Mine(a) /\ c \notin MineAbstained(a)
    BY <1>4 DEF Mine, MineAbstained
  <1>7. /\ a \in getClaimAttestors(c) <=> attestations[c][a].exists
        /\ a \in Deciders(c) <=> /\ attestations[c][a].exists
                                 /\ attestations[c][a].decision # "ABSTAIN"
        /\ correct \subseteq Deciders(c)
    BY DEF getClaimAttestors, Deciders, CollectCorrect
  <1> HIDE DEF correct, s, t
  <1>8. CASE ~attestations[c][a].exists
    <2>1. Mine(a)' = Mine(a) /\ MineAbstained(a)' = MineAbstained(a)
      BY <1>4, <1>5, <1>8 DEF Mine, MineAbstained
    <2>2. /\ t.correct = s.correct /\ t.wrong = s.wrong
          /\ t.abstained = s.abstained /\ t.slashes = s.slashes
      BY <1>3, <1>7, <1>8 DEF BumpOf
    <2> QED
      BY <1>2, <2>1, <2>2 DEF Scored, s, t
  <1>9. CASE attestations[c][a].exists
    <2>1. Mine(a)' = Mine(a) \union {c}
      BY <1>4, <1>5, <1>9 DEF Mine
    <2>2. Cardinality(Mine(a)') = Cardinality(Mine(a)) + 1
      BY <1>6, <2>1, MineFinite, FS_AddElement
    <2>3. CASE attestations[c][a].decision = "ABSTAIN"
      <3>1. MineAbstained(a)' = MineAbstained(a) \union {c}
        BY <1>4, <1>5, <1>9, <2>3 DEF Mine, MineAbstained
      <3>2. Cardinality(MineAbstained(a)') = Cardinality(MineAbstained(a)) + 1
        BY <1>6, <3>1, MineFinite, FS_AddElement
      <3>3. /\ t.correct = s.correct /\ t.wrong = s.wrong
            /\ t.abstained = s.abstained + 1 /\ t.slashes = s.slashes
        BY <1>3, <1>7, <1>9, <2>3 DEF BumpOf
      <3> QED
        BY <1>2, <1>3, <2>2, <3>2, <3>3, MineFinite DEF Scored, s, t
    <2>4. CASE attestations[c][a].decision # "ABSTAIN"
      <3>1. MineAbstained(a)' = MineAbstained(a)
        BY <1>4, <1>5, <1>9, <2>4 DEF Mine, MineAbstained
      <3>2. /\ t.correct + t.wrong = s.correct + s.wrong + 1
            /\ t.abstained = s.abstained
            /\ s.slashes = s.wrong => t.slashes = t.wrong
        BY <1>3, <1>7, <1>9, <2>4 DEF BumpOf
      <3>3. t.correct + t.wrong + t.abstained =
              s.correct + s.wrong + s.abstained + 1
        <4>1. t.correct \in Nat /\ t.wrong \in Nat
          BY <1>3 DEF BumpOf
        <4> QED
          BY <1>3, <3>2, <4>1
      <3> QED
        BY <1>2, <2>2, <3>1, <3>2, <3>3 DEF Scored, s, t
    <2> QED
      BY <2>3, <2>4
  <1> QED
    BY <1>8, <1>9

LEMMA StatsStep ==
  ASSUME TypeOK, ClaimLifecycle, StatsCountSettlements, [Next]_vars
  PROVE  StatsCountSettlements'
  <1> SUFFICES ASSUME NEW a \in Accounts
               PROVE  Scored(a)'
    BY DEF StatsCountSettlements, Scored, Mine, MineAbstained, EpochTotal
  <1>0. Scored(a)
    BY ScoredOfEach
  <1>1. ASSUME UNCHANGED <<settled, lifetimeStats, epochStats>>
        PROVE  Scored(a)'
    <2>1. \A x \in Claims : settled[x] => attestations'[x] = attestations[x]
      BY SettledFinal
    <2>2. Mine(a)' = Mine(a) /\ MineAbstained(a)' = MineAbstained(a)
      BY <1>1, <2>1 DEF Mine, MineAbstained
    <2>3. \A field \in DOMAIN NoStats :
            EpochTotal(a, field)' = EpochTotal(a, field)
      BY <1>1 DEF EpochTotal
    <2> QED
      BY <1>0, <1>1, <2>2, <2>3 DEF Scored
  <1> QED
    BY <1>0, <1>1, SettlementIsScored, ScoreStep

(***************************************************************************)
(* The scoreboard counts each attestation of a settled claim once, for     *)
(* life and over the epochs (settleTier1 and its bumps).                   *)
(***************************************************************************)
THEOREM SettlementsAreCounted == Spec => []StatsCountSettlements
  <1>1. Init => StatsCountSettlements
    <2> SUFFICES ASSUME Init, NEW a \in Accounts
                 PROVE  Scored(a)
      BY ScoredOfEach
    <2>1. /\ lifetimeStats[a] = NoStats
          /\ \A e \in Epochs : epochStats[a][e] = NoStats
          /\ \A x \in Claims : ~settled[x]
      BY DEF Init, LeaderboardInit
    <2>2. Mine(a) = {} /\ MineAbstained(a) = {}
      BY <2>1 DEF Mine, MineAbstained
    <2>3. ASSUME NEW field \in DOMAIN NoStats
          PROVE  NoStats[field] = EpochTotal(a, field)
      <3>1. NoStats[field] = 0
        BY ScoreFields DEF NoStats
      <3>2. Coins([e \in Epochs |-> epochStats[a][e][field]], Epochs) = {}
        BY <2>1, <3>1 DEF Coins
      <3> QED
        BY <3>1, <3>2, FS_EmptySet DEF EpochTotal, Total
    <2> QED
      BY <2>1, <2>2, <2>3, FS_EmptySet DEF Scored, NoStats
  <1>2. TypeOK /\ ClaimLifecycle /\ StatsCountSettlements /\ [Next]_vars
          => StatsCountSettlements'
    BY StatsStep
  <1> QED
    BY <1>1, <1>2, TypeCorrect, ClaimsFollowTheirLifecycle, PTL DEF Spec

-----------------------------------------------------------------------------
(***************************************************************************)
(* The trust score.  One more correct attestation raises the accuracy,     *)
(* because c / (c + w) grows with c, and rounding down keeps the order.    *)
(***************************************************************************)
LEMMA RoundedDownInOrder ==
  ASSUME NEW x \in Nat, NEW y \in Nat, NEW d \in Nat \ {0},
         NEW e \in Nat \ {0}, x * e <= y * d
  PROVE  x \div d <= y \div e
  <1> DEFINE q == x \div d
             r == y \div e
  <1>1. q \in Nat /\ q * d <= x
    OBVIOUS
  <1>2. r \in Nat /\ y < (r + 1) * e
    OBVIOUS
  <1> HIDE DEF q, r
  <1> SUFFICES ASSUME r + 1 <= q
               PROVE  FALSE
    BY <1>1, <1>2 DEF q, r
  <1>3. (r + 1) * e <= q * e
    BY <1>1, <1>2
  <1>4. y < q * e
    <2>1. (r + 1) * e \in Nat /\ q * e \in Nat
      BY <1>1, <1>2, NatTimes
    <2> QED
      BY <1>2, <1>3, <2>1
  <1>5. y * d < (q * e) * d
    <2>1. q * e \in Nat
      BY <1>1, NatTimes
    <2>2. \A m, n \in Nat : m < n => m * d < n * d
      OBVIOUS
    <2> QED
      BY <1>4, <2>1, <2>2
  <1>6. (q * e) * d = (q * d) * e
    BY <1>1
  <1>7. (q * d) * e <= x * e
    <2>1. q * d \in Nat
      BY <1>1, NatTimes
    <2>2. \A m, n \in Nat : m <= n => m * e <= n * e
      OBVIOUS
    <2> QED
      BY <1>1, <2>1, <2>2
  <1>8. /\ y * d \in Nat /\ x * e \in Nat
        /\ (q * d) * e \in Nat
    BY <1>1, NatTimes
  <1> QED
    BY <1>5, <1>6, <1>7, <1>8

\* The two parts of the score, of c correct and w wrong attestations.
Accuracy(c, w) == IF c + w = 0 THEN 0 ELSE (c * 70) \div (c + w)

Experience(n) ==
  ((IF n < TRUST_SCORE_EXP_CAP THEN n ELSE TRUST_SCORE_EXP_CAP) * 30)
    \div TRUST_SCORE_EXP_CAP

LEMMA AccuracyRises ==
  ASSUME NEW c \in Nat, NEW w \in Nat
  PROVE  /\ Accuracy(c, w) \in Nat
         /\ Accuracy(c + 1, w) \in Nat
         /\ Accuracy(c, w) <= Accuracy(c + 1, w)
  <1>0. c * 70 \in Nat /\ (c + 1) * 70 \in Nat
    OBVIOUS
  <1>1. Accuracy(c, w) \in Nat /\ Accuracy(c + 1, w) \in Nat
    <2>1. c + w # 0 => (c * 70) \div (c + w) \in Nat
      BY <1>0, DivisionPays
    <2>2. ((c + 1) * 70) \div (c + 1 + w) \in Nat
      BY <1>0, DivisionPays
    <2> QED
      BY <2>1, <2>2 DEF Accuracy
  <1>2. CASE c + w = 0
    BY <1>1, <1>2 DEF Accuracy
  <1>3. CASE c + w # 0
    <2>1. (c * 70) * (c + 1 + w) <= ((c + 1) * 70) * (c + w)
      <3>1. (c * 70) * (c + 1 + w) = 70 * (c * c) + 70 * c + 70 * (c * w)
        OBVIOUS
      <3>2. ((c + 1) * 70) * (c + w) =
              70 * (c * c) + 70 * c + 70 * (c * w) + 70 * w
        OBVIOUS
      <3> QED
        BY <3>1, <3>2, NatTimes
    <2>2. (c * 70) \div (c + w) <= ((c + 1) * 70) \div (c + 1 + w)
      <3>1. c + w \in Nat \ {0} /\ c + 1 + w \in Nat \ {0}
        BY <1>3
      <3> QED
        BY <1>0, <2>1, <3>1, RoundedDownInOrder
    <2> QED
      BY <1>3, <2>2 DEF Accuracy
  <1> QED
    BY <1>1, <1>2, <1>3

LEMMA ExperienceRises ==
  ASSUME NEW n \in Nat
  PROVE  /\ Experience(n) \in Nat
         /\ Experience(n + 1) \in Nat
         /\ Experience(n) <= Experience(n + 1)
  BY DEF Experience, TRUST_SCORE_EXP_CAP

LEMMA ScoreOf ==
  ASSUME NEW s \in Stats
  PROVE  RawTrustScore(s) = Accuracy(s.correct, s.wrong)
                            + Experience(s.correct + s.wrong + s.abstained)
  BY DEF RawTrustScore, Accuracy, Experience

(***************************************************************************)
(* No step that leaves an account's wrong attestations as they were lowers *)
(* its score (settleTier1, trustScore).                                    *)
(***************************************************************************)
LEMMA ScoreNeverFalls ==
  ASSUME TypeOK, NEW c \in Claims, NEW truth \in Decision,
         settleTier1(c, truth), NEW a \in Accounts,
         lifetimeStats'[a].wrong = lifetimeStats[a].wrong
  PROVE  trustScore(a)' >= trustScore(a)
  <1> DEFINE correct   == CollectCorrect(c, truth)
             wrong     == Deciders(c) \ correct
             abstained == getClaimAttestors(c) \ Deciders(c)
             s         == lifetimeStats[a]
             t         == lifetimeStats'[a]
  <1>1. \A field \in DOMAIN NoStats :
          /\ s[field] \in Nat
          /\ t[field] = s[field] + BumpOf(field, a, correct, wrong, abstained)
    BY SettlementScores
  <1>2. /\ s.correct \in Nat /\ s.wrong \in Nat /\ s.abstained \in Nat
        /\ t.correct = s.correct
             + BumpOf("correct", a, correct, wrong, abstained)
        /\ t.wrong = s.wrong + BumpOf("wrong", a, correct, wrong, abstained)
        /\ t.abstained = s.abstained
             + BumpOf("abstained", a, correct, wrong, abstained)
    BY <1>1, ScoreFields
  <1>3. s \in Stats
    BY DEF TypeOK
  <1>4. t \in Stats
    <2>1. t = Bump(s, a, correct, wrong, abstained)
      BY DEF settleTier1
    <2> QED
      BY <1>3, <2>1, BumpType
  <1>5. t.wrong = s.wrong
    OBVIOUS
  <1> HIDE DEF s, t, correct, wrong, abstained
  <1>6. \/ t.correct = s.correct + 1 /\ t.abstained = s.abstained
        \/ t.correct = s.correct /\ t.abstained = s.abstained + 1
        \/ t.correct = s.correct /\ t.abstained = s.abstained
    BY <1>2 DEF BumpOf
  <1>7. RawTrustScore(s) \in Int /\ RawTrustScore(t) >= RawTrustScore(s)
        /\ RawTrustScore(t) \in Int
    <2> DEFINE n == s.correct + s.wrong + s.abstained
    <2>1. n \in Nat
      BY <1>2
    <2>2. \/ t.correct + t.wrong + t.abstained = n + 1
          \/ t.correct + t.wrong + t.abstained = n
      BY <1>2, <1>5, <1>6
    <2>3. /\ Experience(n) \in Nat
          /\ Experience(t.correct + t.wrong + t.abstained) \in Nat
          /\ Experience(t.correct + t.wrong + t.abstained) >= Experience(n)
      <3> HIDE DEF n
      <3> QED  BY <2>1, <2>2, ExperienceRises
    <2>4. /\ Accuracy(s.correct, s.wrong) \in Nat
          /\ Accuracy(t.correct, t.wrong) \in Nat
          /\ Accuracy(t.correct, t.wrong) >= Accuracy(s.correct, s.wrong)
      <3>1. PICK c0 \in Nat, w0 \in Nat : c0 = s.correct /\ w0 = s.wrong
        BY <1>2
      <3>2. /\ Accuracy(c0, w0) \in Nat
            /\ Accuracy(c0 + 1, w0) \in Nat
            /\ Accuracy(c0, w0) <= Accuracy(c0 + 1, w0)
        BY AccuracyRises
      <3>3. /\ Accuracy(t.correct, t.wrong) =
                 IF t.correct = s.correct THEN Accuracy(c0, w0)
                                          ELSE Accuracy(c0 + 1, w0)
            /\ Accuracy(s.correct, s.wrong) = Accuracy(c0, w0)
        BY <1>5, <1>6, <3>1
      <3> QED
        BY <3>2, <3>3
    <2> QED
      BY <1>3, <1>4, <2>3, <2>4, ScoreOf
  <1>8. /\ trustScore(a) = IF RawTrustScore(s) > 100 THEN 100
                                                     ELSE RawTrustScore(s)
        /\ trustScore(a)' = IF RawTrustScore(t) > 100 THEN 100
                                                      ELSE RawTrustScore(t)
    BY DEF trustScore, s, t
  <1> QED
    BY <1>7, <1>8

(***************************************************************************)
(* Only a wrong settlement lowers a trust score, for any record and any    *)
(* rounding (trustScore after settleTier1).                                *)
(***************************************************************************)
THEOREM TrustOnlyFallsWhenWrong == Spec => TrustFallsOnlyWhenWrong
  <1> DEFINE Fair ==
        \A a \in Accounts :
          lifetimeStats'[a].wrong = lifetimeStats[a].wrong
            => trustScore(a)' >= trustScore(a)
  <1>1. TypeOK /\ [Next]_vars => [Fair]_vars
    <2> SUFFICES ASSUME TypeOK, [Next]_vars, NEW a \in Accounts,
                        lifetimeStats'[a].wrong = lifetimeStats[a].wrong
                 PROVE  trustScore(a)' >= trustScore(a)
      OBVIOUS
    <2>1. UNCHANGED lifetimeStats => trustScore(a)' >= trustScore(a)
      <3>1. RawTrustScore(lifetimeStats[a]) \in Int
        <4>1. PICK s \in Stats : s = lifetimeStats[a]
          BY DEF TypeOK
        <4>2. PICK c0 \in Nat, w0 \in Nat, z0 \in Nat :
                c0 = s.correct /\ w0 = s.wrong /\ z0 = s.abstained
          BY DEF Stats
        <4>3. RawTrustScore(s) = Accuracy(c0, w0) + Experience(c0 + w0 + z0)
          BY <4>2, ScoreOf
        <4>4. Accuracy(c0, w0) \in Nat
          BY AccuracyRises
        <4>5. Experience(c0 + w0 + z0) \in Nat
          <5>1. c0 + w0 + z0 \in Nat
            OBVIOUS
          <5> QED
            BY <5>1, ExperienceRises
        <4> QED
          BY <4>1, <4>3, <4>4, <4>5
      <3> QED
        BY <3>1 DEF trustScore
    <2> QED
      BY <2>1, ScoreStep, ScoreNeverFalls
  <1> QED
    BY <1>1, TypeCorrect, PTL DEF Spec, TrustFallsOnlyWhenWrong

-----------------------------------------------------------------------------
(***************************************************************************)
(* The abstract escrow.  First what its operators mean under the mapping   *)
(* of ProtocolProperties, then, for each call, the escrow's own step.      *)
(***************************************************************************)
StakesOf == [c \in Claims |-> [a \in Accounts |-> StakeState(c, a)]]

FeesOf == [c \in Claims |-> FeeState(c)]

LEMMA EscrowCounts ==
  ASSUME NEW S
  PROVE  E!Cardinality(S) = Cardinality(S)
  BY DEF E!Cardinality, Cardinality

LEMMA EscrowTotals ==
  ASSUME NEW f
  PROVE  E!Total(f) = Total(f)
  <1>1. E!Coins(f, DOMAIN f) = Coins(f, DOMAIN f)
    BY DEF E!Coins, Coins
  <1> QED
    BY <1>1, EscrowCounts DEF E!Total, Total

LEMMA PaysOut ==
  ASSUME NEW total, NEW least, NEW winners,
         claimable' \in [Accounts -> Nat],
         \A a \in Accounts : IF a \in winners
                             THEN claimable'[a] >= claimable[a]
                             ELSE claimable'[a] = claimable[a],
         totalBurned' >= totalBurned + least,
         Total(claimable') + totalBurned' = Total(claimable) + totalBurned + total
  PROVE  E!PayOut(total, least, winners)
  BY EscrowTotals DEF E!PayOut

EscrowKept ==
  UNCHANGED <<StakesOf, FeesOf, activeDispute, claimable, totalBurned>>

LEMMA KeptIsStutter ==
  ASSUME EscrowKept
  PROVE  UNCHANGED E!escrowVars
  BY DEF EscrowKept, E!escrowVars, StakesOf, FeesOf

\* A stake and a fee of the escrow, in words of the contracts.
LEMMA StakeStates ==
  ASSUME NEW c \in Claims, NEW a \in Accounts
  PROVE  /\ StakesOf[c][a] = "none" <=> a \notin Deciders(c)
         /\ StakesOf[c][a] = "locked" <=>
              a \in Deciders(c) /\ attestations[c][a].lockedStake # 0
         /\ StakesOf[c][a] = "gone" <=>
              a \in Deciders(c) /\ attestations[c][a].lockedStake = 0
         /\ StakesOf[c][a] \in {"none", "locked", "gone"}
  BY DEF StakesOf, StakeState

LEMMA SameStakes ==
  ASSUME \A c \in Claims, a \in Accounts : StakeState(c, a)' = StakeState(c, a)
  PROVE  StakesOf' = StakesOf
  BY DEF StakesOf

LEMMA SameFees ==
  ASSUME \A c \in Claims : FeeState(c)' = FeeState(c)
  PROVE  FeesOf' = FeesOf
  BY DEF FeesOf

LEMMA AttestationsKeepStakes ==
  ASSUME UNCHANGED attestations
  PROVE  StakesOf' = StakesOf
  BY DEF StakesOf, StakeState, Deciders, getClaimAttestors

LEMMA ClaimsKeepFees ==
  ASSUME UNCHANGED claims
  PROVE  FeesOf' = FeesOf
  BY DEF FeesOf, FeeState

-----------------------------------------------------------------------------
\* The operator's calls.

LEMMA PostClaimTakesFee ==
  ASSUME TypeOK, NEW c \in Claims, NEW tier \in TIERS, PostClaim(c, tier)
  PROVE  E!TakeFee(c)
  <1>1. /\ ~claims[c].posted
        /\ claims'[c].posted
        /\ claims'[c].claimFee = CLAIM_FEE
        /\ \A x \in Claims \ {c} : claims'[x] = claims[x]
        /\ UNCHANGED attestations
    <2>1. /\ ~claims[c].posted
          /\ claims'[c] = [posted |-> TRUE, closed |-> FALSE, tier |-> tier,
                           attestorCount |-> 0, claimFee |-> CLAIM_FEE]
          /\ \A x \in Claims \ {c} : claims'[x] = claims[x]
          /\ UNCHANGED attestations
      BY PostClaimEffect
    <2> QED
      BY <2>1
  <1>2. FeesOf[c] = "none" /\ FeesOf' = [FeesOf EXCEPT ![c] = "held"]
    <2>1. CLAIM_FEE # 0
      OBVIOUS
    <2>2. FeeState(c) = "none" /\ FeeState(c)' = "held"
      BY <1>1, <2>1 DEF FeeState
    <2>3. \A x \in Claims \ {c} : FeeState(x)' = FeeState(x)
      BY <1>1 DEF FeeState
    <2> QED
      BY <2>2, <2>3 DEF FeesOf
  <1>3. StakesOf' = StakesOf
    BY <1>1, AttestationsKeepStakes
  <1>4. UNCHANGED <<activeDispute, claimable, totalBurned>>
    BY DEF PostClaim, slashingVars
  <1> QED
    BY <1>2, <1>3, <1>4 DEF E!TakeFee, StakesOf, FeesOf

LEMMA CloseClaimStutters ==
  ASSUME TypeOK, NEW c \in Claims, CloseClaim(c)
  PROVE  EscrowKept
  <1>1. /\ claims'[c].posted = claims[c].posted
        /\ claims'[c].claimFee = claims[c].claimFee
        /\ \A x \in Claims \ {c} : claims'[x] = claims[x]
        /\ UNCHANGED attestations
    BY CloseClaimEffect
  <1>2. \A x \in Claims : FeeState(x)' = FeeState(x)
    BY <1>1 DEF FeeState
  <1>3. UNCHANGED <<activeDispute, claimable, totalBurned>>
    BY DEF CloseClaim, slashingVars
  <1> QED
    BY <1>1, <1>2, <1>3, SameFees, AttestationsKeepStakes DEF EscrowKept

LEMMA AttestLocks ==
  ASSUME TypeOK, ClaimLifecycle, NEW a \in Accounts, NEW c \in Claims,
         NEW d \in Decision, Attest(a, c, d)
  PROVE  E!Lock(c, a) \/ EscrowKept
  <1>1. /\ claims[c].posted /\ ~claims[c].closed
        /\ attestations'[c][a].lockedStake =
             IF d = "ABSTAIN" THEN 0 ELSE ATTEST_LOCK
        /\ \A x \in Claims, b \in Accounts :
             x # c \/ b # a => attestations'[x][b] = attestations[x][b]
        /\ claims'[c].posted = claims[c].posted
        /\ claims'[c].claimFee = claims[c].claimFee
        /\ \A x \in Claims \ {c} : claims'[x] = claims[x]
    BY AttestEffect
  <1>2. FeesOf' = FeesOf /\ FeesOf[c] = "held"
    <2>1. \A x \in Claims : FeeState(x)' = FeeState(x)
      BY <1>1 DEF FeeState
    <2>2. claims[c].claimFee # 0
      BY <1>1 DEF ClaimLifecycle
    <2>3. FeesOf[c] = "held"
      BY <1>1, <2>2 DEF FeesOf, FeeState
    <2> QED
      BY <2>1, <2>3, SameFees
  <1>3. UNCHANGED <<activeDispute, claimable, totalBurned>>
    BY DEF Attest, slashingVars
  <1>4. /\ a \notin Deciders(c)
        /\ Deciders(c)' = Deciders(c) \union (IF d = "ABSTAIN" THEN {} ELSE {a})
        /\ \A x \in Claims \ {c} : Deciders(x)' = Deciders(x)
    <2>1. a \notin getClaimAttestors(c)
      BY AttestDeciders
    <2> QED
      BY <2>1, AttestDeciders DEF Deciders
  <1>5. \A x \in Claims, b \in Accounts :
          x # c \/ b # a => StakeState(x, b)' = StakeState(x, b)
    <2> SUFFICES ASSUME NEW x \in Claims, NEW b \in Accounts, x # c \/ b # a
                 PROVE  StakeState(x, b)' = StakeState(x, b)
      OBVIOUS
    <2>1. b \in Deciders(x)' <=> b \in Deciders(x)
      BY <1>4
    <2>2. attestations'[x][b] = attestations[x][b]
      BY <1>1
    <2> QED
      BY <2>1, <2>2 DEF StakeState
  <1>6. StakeState(c, a) = "none"
    BY <1>4 DEF StakeState
  <1>7. CASE d = "ABSTAIN"
    <2>1. StakeState(c, a)' = "none"
      BY <1>4, <1>7 DEF StakeState
    <2>2. StakesOf' = StakesOf
      BY <1>5, <1>6, <2>1, SameStakes
    <2> QED
      BY <1>2, <1>3, <2>2 DEF EscrowKept
  <1>8. CASE d # "ABSTAIN"
    <2>1. StakeState(c, a)' = "locked"
      BY <1>1, <1>4, <1>8 DEF StakeState
    <2>2. StakesOf' = [StakesOf EXCEPT ![c][a] = "locked"]
      BY <1>5, <2>1 DEF StakesOf
    <2>3. StakesOf[c][a] = "none"
      BY <1>6 DEF StakesOf
    <2> QED
      BY <1>2, <1>3, <2>2, <2>3 DEF E!Lock, StakesOf, FeesOf
  <1> QED
    BY <1>7, <1>8

-----------------------------------------------------------------------------
\* Disputes.

LEMMA OpenDisputeChallenges ==
  ASSUME TypeOK, NEW a \in Accounts, NEW c \in Claims, NEW b \in Accounts,
         OpenDispute(a, c, b)
  PROVE  E!Challenge(c, b)
  <1>1. /\ b \in Deciders(c)
        /\ <<c, b>> \notin activeDispute
        /\ activeDispute' = activeDispute \union {<<c, b>>}
        /\ UNCHANGED <<claimable, totalBurned, attestations, claims>>
    BY OpenDisputeEffect
  <1>2. attestations[c][b].lockedStake # 0
    BY DEF OpenDispute, openDispute, Disputable
  <1>3. StakesOf[c][b] = "locked"
    BY <1>1, <1>2, StakeStates
  <1>4. StakesOf' = StakesOf /\ FeesOf' = FeesOf
    BY <1>1, AttestationsKeepStakes, ClaimsKeepFees
  <1> QED
    BY <1>1, <1>3, <1>4 DEF E!Challenge, StakesOf, FeesOf

\* The stakes after some members of S, who all had one, lost it.
LEMMA SeizedGone ==
  ASSUME TypeOK, NEW c \in Claims, NEW S, seizeStakes(c, S), S \subseteq Deciders(c)
  PROVE  StakesOf' = [StakesOf EXCEPT ![c] =
           [b \in Accounts |-> IF b \in S THEN "gone" ELSE @[b]]]
  <1>1. \A x \in Claims, b \in Accounts :
          /\ attestations'[x][b].exists = attestations[x][b].exists
          /\ attestations'[x][b].decision = attestations[x][b].decision
          /\ attestations'[x][b].lockedStake =
               IF x = c /\ b \in S THEN 0 ELSE attestations[x][b].lockedStake
    BY SeizeStakesEffect
  <1>2. \A x \in Claims : Deciders(x)' = Deciders(x)
    BY <1>1, DecidersKept
  <1>3. \A x \in Claims, b \in Accounts :
          StakeState(x, b)' = IF x = c /\ b \in S THEN "gone"
                                                  ELSE StakeState(x, b)
    BY <1>1, <1>2 DEF StakeState
  <1> QED
    BY <1>3 DEF StakesOf

LEMMA DisputeIsChallenge ==
  ASSUME TypeOK, DisputesAgree, NEW id \in DisputeIds, ResolveDispute(id)
  PROVE  /\ disputes[id].claimId \in Claims
         /\ disputes[id].accused \in Accounts
         /\ disputes[id].challenger \in Accounts
         /\ Pair(id) \in activeDispute
         /\ activeDispute' = activeDispute \ {Pair(id)}
  <1>1. id \in OpenDisputes
    BY ResolveDisputeAgrees
  <1>2. Pair(id) \in activeDispute
    BY <1>1 DEF DisputesAgree
  <1> QED
    BY <1>2, ResolveCloses, CloseDisputeEffect DEF TypeOK, Dispute

LEMMA ConvictionUpholds ==
  ASSUME TypeOK, DisputesAgree, AccusedDecided, NEW id \in DisputeIds,
         ResolveDispute(id), ResolveAgentWrong(id)
  PROVE  E!Uphold(disputes[id].claimId, disputes[id].accused,
                  disputes[id].challenger)
  <1> DEFINE d     == disputes[id]
             slash == attestations[d.claimId][d.accused].lockedStake
             peers == Peers(d.claimId, d.accused)
             n     == Cardinality(peers)
             split == DisputeSplit(slash, n)
             gain  == [a \in Accounts |->
                         (IF a \in peers THEN split.share ELSE 0)
                         + (IF a = d.challenger THEN DISPUTE_BOND + split.reward
                                                ELSE 0)]
  <1>1. PICK c \in Claims, b \in Accounts, x \in Accounts :
          c = d.claimId /\ b = d.accused /\ x = d.challenger
    BY DisputeIsChallenge
  <1>2. <<c, b>> \in activeDispute /\ activeDispute' = activeDispute \ {<<c, b>>}
    BY <1>1, DisputeIsChallenge DEF Pair
  <1>3. b \in Deciders(c)
    BY <1>1 DEF AccusedDecided
  <1>4. seizeStakes(c, {b}) /\ attestations[c][b].lockedStake # 0
    BY <1>1 DEF ResolveAgentWrong, seizeStakes
  <1>5. StakesOf[c][b] = "locked"
    BY <1>3, <1>4, StakeStates
  <1>6. StakesOf' = [StakesOf EXCEPT ![c][b] = "gone"]
    <2>1. StakesOf' = [StakesOf EXCEPT ![c] =
            [a \in Accounts |-> IF a \in {b} THEN "gone" ELSE @[a]]]
      BY <1>3, <1>4, SeizedGone
    <2> QED
      BY <2>1 DEF StakesOf
  <1>7. FeesOf' = FeesOf
    <2>1. UNCHANGED claims
      BY DEF ResolveAgentWrong, CloseDispute
    <2> QED
      BY <2>1, ClaimsKeepFees
  <1>8. /\ split.reward \in Nat /\ split.share \in Nat /\ split.burn \in Nat
        /\ split.burn >= ATTEST_LOCK \div 2
    <2>1. peers \in SUBSET Accounts
      BY DEF Peers, Deciders, getClaimAttestors
    <2>2. n \in Nat
      <3> HIDE DEF peers
      <3> QED  BY <2>1, AccountsFinite
    <2>3. slash = ATTEST_LOCK
      <3>1. attestations[c][b] \in Attestation
        BY DEF TypeOK
      <3> QED
        BY <1>1, <1>4, <3>1 DEF Attestation
    <2> HIDE DEF n, slash
    <2> QED
      BY <2>2, <2>3, DisputeSplitConserves
  <1>9. /\ claimable' = [a \in Accounts |-> claimable[a] + gain[a]]
        /\ totalBurned' = totalBurned + split.burn
    BY DEF ResolveAgentWrong
  <1>10. \A a \in Deciders(c) \ {b} : StakesOf[c][a] # "none"
    BY StakeStates DEF Deciders, getClaimAttestors
  <1>11. peers = E!Staked(c) \ {b}
    <2>1. peers = {a \in Accounts : StakesOf[c][a] # "none"} \ {b}
      BY <1>1, StakeStates DEF Peers, Deciders, getClaimAttestors
    <2> HIDE DEF peers
    <2> QED
      BY <2>1 DEF E!Staked, StakesOf
  <1>12. claimable \in [Accounts -> Nat] /\ totalBurned \in Nat
    BY DEF TypeOK
  <1>13. E!PayOut(ATTEST_LOCK + DISPUTE_BOND, ATTEST_LOCK \div 2,
                  (E!Staked(c) \ {b}) \union {x})
    <2>1. Total(claimable') + totalBurned' =
            Total(claimable) + totalBurned + (ATTEST_LOCK + DISPUTE_BOND)
      <3>1. Total(claimable') + totalBurned' =
              Total(claimable) + totalBurned + ATTEST_LOCK + DISPUTE_BOND
        BY ConvictionPays
      <3> QED
        BY <3>1, OwedType
    <2> HIDE DEF peers, split, d
    <2>2. claimable' \in [Accounts -> Nat]
      BY <1>8, <1>9, <1>12
    <2>3. \A a \in Accounts :
            IF a \in peers \union {x} THEN claimable'[a] >= claimable[a]
                                      ELSE claimable'[a] = claimable[a]
      BY <1>1, <1>8, <1>9, <1>12
    <2>4. totalBurned' >= totalBurned + ATTEST_LOCK \div 2
      <3>1. PICK h \in Nat : h = ATTEST_LOCK \div 2
        BY HalfAndTenth
      <3> QED
        BY <1>8, <1>9, <1>12, <3>1
    <2>5. E!PayOut(ATTEST_LOCK + DISPUTE_BOND, ATTEST_LOCK \div 2,
                   peers \union {x})
      BY <2>1, <2>2, <2>3, <2>4, PaysOut
    <2> QED
      BY <1>11, <2>5
  <1>14. claimable'[x] >= claimable[x] + DISPUTE_BOND
    <2> HIDE DEF peers, split, d
    <2> QED
      BY <1>1, <1>8, <1>9, <1>12
  <1>15. E!Uphold(c, b, x)
    BY <1>2, <1>5, <1>6, <1>7, <1>13, <1>14
       DEF E!Uphold, StakesOf, FeesOf
  <1> QED
    BY <1>1, <1>15

LEMMA AcquittalDismisses ==
  ASSUME TypeOK, DisputesAgree, NEW id \in DisputeIds,
         ResolveDispute(id), ResolveAgentRight(id)
  PROVE  E!Dismiss(disputes[id].claimId, disputes[id].accused)
  <1> DEFINE half == DISPUTE_BOND \div 2
  <1>1. PICK c \in Claims, b \in Accounts :
          c = disputes[id].claimId /\ b = disputes[id].accused
    BY DisputeIsChallenge
  <1>2. <<c, b>> \in activeDispute /\ activeDispute' = activeDispute \ {<<c, b>>}
    BY <1>1, DisputeIsChallenge DEF Pair
  <1>3. StakesOf' = StakesOf /\ FeesOf' = FeesOf
    <2>1. UNCHANGED <<claims, attestations>>
      BY DEF ResolveAgentRight, CloseDispute
    <2> QED
      BY <2>1, AttestationsKeepStakes, ClaimsKeepFees
  <1>4. /\ claimable' = [claimable EXCEPT ![b] = @ + half]
        /\ totalBurned' = totalBurned + (DISPUTE_BOND - half)
    BY <1>1 DEF ResolveAgentRight
  <1>5. half \in Nat /\ DISPUTE_BOND - half \in Nat
    BY HalfAndTenth
  <1>6. claimable \in [Accounts -> Nat] /\ totalBurned \in Nat
    BY DEF TypeOK
  <1>7. claimable'[b] = claimable[b] + half
    BY <1>4, <1>6
  <1>8. E!PayOut(DISPUTE_BOND, DISPUTE_BOND - half, {b})
    <2>1. Total(claimable') + totalBurned' =
            Total(claimable) + totalBurned + DISPUTE_BOND
      BY AcquittalPays
    <2> HIDE DEF half
    <2>2. claimable' \in [Accounts -> Nat]
      BY <1>4, <1>5, <1>6
    <2>3. \A a \in Accounts : IF a \in {b} THEN claimable'[a] >= claimable[a]
                                            ELSE claimable'[a] = claimable[a]
      BY <1>4, <1>5, <1>6
    <2>4. totalBurned' >= totalBurned + (DISPUTE_BOND - half)
      BY <1>4, <1>5, <1>6
    <2> QED
      BY <2>1, <2>2, <2>3, <2>4, PaysOut
  <1>9. E!Dismiss(c, b)
    BY <1>2, <1>3, <1>7, <1>8 DEF E!Dismiss, StakesOf, FeesOf
  <1> QED
    BY <1>1, <1>9

-----------------------------------------------------------------------------
\* Settlement.

LEMMA SettlementSettles ==
  ASSUME TypeOK, StakedDecided, NEW c \in Claims, NEW truth \in Decision,
         settleTier1(c, truth)
  PROVE  E!Settle(c)
  <1> DEFINE correct   == CollectCorrect(c, truth)
             wrong     == Deciders(c) \ correct
             n         == Cardinality(correct)
             w         == Cardinality(wrong)
             fee       == claims[c].claimFee
             slashed   == BurnAndRedistribute(ATTEST_LOCK, n)
             feeSplit  == FeeSplit(fee, n)
             prize     == ATTEST_LOCK + w * slashed.share + feeSplit.share
             gain      == [a \in Accounts |-> IF a \in correct THEN prize ELSE 0]
             forwarded == n * ATTEST_LOCK + n * feeSplit.share + feeSplit.burn
  <1>1. /\ claimable' = [a \in Accounts |-> claimable[a] + gain[a]]
        /\ totalBurned' = totalBurned + w * slashed.burn + feeSplit.burn
        /\ slashingBalance' = slashingBalance + w * ATTEST_LOCK + forwarded
        /\ UNCHANGED activeDispute
    BY DEF settleTier1
  <1>2. /\ claims[c].posted
        /\ fee = CLAIM_FEE
        /\ claims'[c].posted = claims[c].posted
        /\ claims'[c].claimFee = 0
        /\ \A x \in Claims \ {c} : claims'[x] = claims[x]
        /\ seizeStakes(c, Deciders(c))
    BY SettleEffect DEF TypeOK, Claim
  <1>3. FeesOf[c] = "held" /\ FeesOf' = [FeesOf EXCEPT ![c] = "gone"]
    <2>1. CLAIM_FEE # 0
      OBVIOUS
    <2>2. FeeState(c) = "held" /\ FeeState(c)' = "gone"
      BY <1>2, <2>1 DEF FeeState
    <2>3. \A x \in Claims \ {c} : FeeState(x)' = FeeState(x)
      BY <1>2 DEF FeeState
    <2> QED
      BY <2>2, <2>3 DEF FeesOf
  <1>4. \A a \in Accounts : a \in Deciders(c) <=> StakesOf[c][a] = "locked"
    BY <1>2, StakeStates DEF seizeStakes
  <1>5. StakesOf' = [StakesOf EXCEPT ![c] =
          [a \in Accounts |-> IF @[a] = "locked" THEN "gone" ELSE @[a]]]
    <2>1. StakesOf' = [StakesOf EXCEPT ![c] =
            [a \in Accounts |-> IF a \in Deciders(c) THEN "gone" ELSE @[a]]]
      BY <1>2, SeizedGone
    <2> QED
      BY <1>4, <2>1
  <1>6. Deciders(c) = E!Locked(c)
    <2>1. Deciders(c) = {a \in Accounts : StakesOf[c][a] = "locked"}
      BY <1>4 DEF Deciders, getClaimAttestors
    <2> QED
      BY <2>1 DEF E!Locked, StakesOf
  <1>7. /\ correct \subseteq Deciders(c)
        /\ correct \in SUBSET Accounts /\ wrong \in SUBSET Accounts
    BY DEF CollectCorrect, Deciders, getClaimAttestors
  <1>8. /\ n \in Nat /\ w \in Nat
        /\ Cardinality(Deciders(c)) = n + w
    <2>1. correct \union wrong = Deciders(c) /\ correct \intersect wrong = {}
      BY <1>7
    <2>2. /\ IsFiniteSet(correct) /\ Cardinality(correct) \in Nat
          /\ IsFiniteSet(wrong) /\ Cardinality(wrong) \in Nat
      BY <1>7, AccountsFinite
    <2> HIDE DEF correct, wrong
    <2>3. Cardinality(correct \union wrong) =
            Cardinality(correct) + Cardinality(wrong)
            - Cardinality(correct \intersect wrong)
      BY <2>2, FS_Union
    <2>4. Cardinality(correct \intersect wrong) = 0
      BY <2>1, FS_EmptySet
    <2>5. Cardinality(Deciders(c)) = Cardinality(correct \union wrong)
      BY <2>1
    <2> QED
      BY <2>2, <2>3, <2>4, <2>5
  <1>9. /\ slashed.share \in Nat /\ slashed.burn \in Nat
        /\ slashed.burn >= ATTEST_LOCK \div 2
        /\ feeSplit.share \in Nat /\ feeSplit.burn \in Nat
        /\ n * feeSplit.share + feeSplit.burn = CLAIM_FEE
    <2>1. CLAIM_FEE \in Nat /\ ATTEST_LOCK \in Nat
      OBVIOUS
    <2> HIDE DEF n, fee
    <2> QED  BY <1>2, <1>8, <2>1, BurnAndRedistributeConserves, FeeSplitConserves
  <1>10. /\ claimable \in [Accounts -> Nat] /\ totalBurned \in Nat
         /\ slashingBalance \in Int
    BY DEF TypeOK
  <1> HIDE DEF correct, n, w, fee, slashed, feeSplit
  <1>11. /\ w * slashed.share \in Nat /\ w * slashed.burn \in Nat
         /\ n * feeSplit.share \in Nat /\ n * ATTEST_LOCK \in Nat
         /\ w * ATTEST_LOCK \in Nat
    BY <1>8, <1>9, NatTimes
  <1>12. prize \in Nat /\ prize >= ATTEST_LOCK
    BY <1>9, <1>11
  <1>13. \A a \in Accounts :
           claimable'[a] = claimable[a] + (IF a \in correct THEN prize ELSE 0)
    BY <1>1
  <1> HIDE DEF prize, gain
  <1>14. claimable' \in [Accounts -> Nat]
    BY <1>1, <1>10, <1>12 DEF gain
  <1>15. Total(claimable') + totalBurned' =
           Total(claimable) + totalBurned + ((n + w) * ATTEST_LOCK + CLAIM_FEE)
    <2>1. Total(claimable') + totalBurned' - slashingBalance' =
            Total(claimable) + totalBurned - slashingBalance
      BY SettlementPays
    <2>2. slashingBalance' =
            slashingBalance + (w * ATTEST_LOCK + n * ATTEST_LOCK + CLAIM_FEE)
      BY <1>1, <1>9, <1>10, <1>11
    <2>3. (n + w) * ATTEST_LOCK = n * ATTEST_LOCK + w * ATTEST_LOCK
      BY <1>8
    <2>4. Total(claimable) \in Nat /\ Total(claimable') \in Nat
          /\ totalBurned' \in Nat
      BY <1>1, <1>9, <1>10, <1>11, <1>14, TotalType
    <2> QED
      BY <1>10, <1>11, <2>1, <2>2, <2>3, <2>4
  <1>16. totalBurned' >= totalBurned + w * (ATTEST_LOCK \div 2)
    <2>1. PICK h \in Nat : h = ATTEST_LOCK \div 2
      BY HalfAndTenth
    <2>2. PICK u \in Nat : u = slashed.burn
      BY <1>9
    <2>3. u >= h
      BY <1>9, <2>1, <2>2
    <2>4. w * u >= w * h
      BY <1>8, <2>3
    <2>5. w * u \in Nat /\ w * h \in Nat
      BY <1>8, NatTimes
    <2>6. totalBurned' = totalBurned + w * u + feeSplit.burn
      BY <1>1, <2>2
    <2>7. totalBurned' >= totalBurned + w * h
      BY <1>9, <1>10, <2>4, <2>5, <2>6
    <2> QED
      BY <2>1, <2>7
  <1>17. E!PayOut((n + w) * ATTEST_LOCK + CLAIM_FEE, w * (ATTEST_LOCK \div 2),
                  correct)
    <2>1. \A a \in Accounts : IF a \in correct THEN claimable'[a] >= claimable[a]
                                                ELSE claimable'[a] = claimable[a]
      BY <1>10, <1>12, <1>13
    <2> QED
      BY <1>14, <1>15, <1>16, <2>1, PaysOut
  <1>18. \A a \in correct : claimable'[a] >= claimable[a] + ATTEST_LOCK
    BY <1>7, <1>10, <1>12, <1>13
  <1>19. /\ correct \in SUBSET E!Locked(c)
         /\ E!Cardinality(E!Locked(c)) = n + w
         /\ E!Cardinality(E!Locked(c) \ correct) = w
    BY <1>6, <1>7, <1>8, EscrowCounts DEF w
  <1>20. \E winners \in SUBSET E!Locked(c) :
           /\ E!PayOut(E!Cardinality(E!Locked(c)) * ATTEST_LOCK + CLAIM_FEE,
                 E!Cardinality(E!Locked(c) \ winners) * (ATTEST_LOCK \div 2),
                 winners)
           /\ \A a \in winners : claimable'[a] >= claimable[a] + ATTEST_LOCK
    BY <1>17, <1>18, <1>19
  <1> QED
    BY <1>1, <1>3, <1>5, <1>20 DEF E!Settle, StakesOf, FeesOf

-----------------------------------------------------------------------------
\* Every step of the contracts is one of the escrow's, or none of its business.
LEMMA EscrowStep ==
  ASSUME TypeOK, DisputesAgree, AccusedDecided, StakedDecided, ClaimLifecycle,
         [Next]_vars
  PROVE  E!EscrowNext \/ EscrowKept
  <1>0. ASSUME UNCHANGED <<claims, attestations, activeDispute, claimable,
                           totalBurned>>
        PROVE  EscrowKept
    BY <1>0, AttestationsKeepStakes, ClaimsKeepFees DEF EscrowKept
  <1>1. ASSUME NEW a \in Accounts, AccountCall(a)
        PROVE  E!EscrowNext \/ EscrowKept
    <2>1. ASSUME NEW v \in 0 .. MAX_BOND,
                 Register(a, v) \/ TopUpBond(a, v) \/ WithdrawBond(a, v)
          PROVE  EscrowKept
      BY <1>0, <2>1 DEF Register, TopUpBond, WithdrawBond, attestationVars,
                        slashingVars
    <2>2. ASSUME NEW c \in Claims, NEW d \in Decision, Attest(a, c, d)
          PROVE  E!EscrowNext \/ EscrowKept
      BY <2>2, AttestLocks DEF E!EscrowNext
    <2>3. ASSUME NEW c \in Claims, NEW b \in Accounts, OpenDispute(a, c, b)
          PROVE  E!EscrowNext
      BY <2>3, OpenDisputeChallenges DEF E!EscrowNext
    <2>4. ASSUME NEW id \in DisputeIds, NEW w \in BOOLEAN, Vote(a, id, w)
          PROVE  EscrowKept
      BY <1>0, <2>4 DEF Vote, vote, attestationVars
    <2>5. ASSUME Withdraw(a)
          PROVE  E!EscrowNext
      <3>1. /\ claimable' = [claimable EXCEPT ![a] = 0]
            /\ UNCHANGED <<claims, attestations, activeDispute, totalBurned>>
        BY <2>5 DEF Withdraw, withdraw, attestationVars
      <3>2. StakesOf' = StakesOf /\ FeesOf' = FeesOf
        BY <3>1, AttestationsKeepStakes, ClaimsKeepFees
      <3>3. E!Collect(a)
        BY <3>1, <3>2 DEF E!Collect, StakesOf, FeesOf
      <3> QED
        BY <3>3 DEF E!EscrowNext
    <2> QED
      BY <1>1, <2>1, <2>2, <2>3, <2>4, <2>5 DEF AccountCall
  <1>2. ASSUME NEW c \in Claims, OperatorCall(c)
        PROVE  E!EscrowNext \/ EscrowKept
    <2>1. ASSUME NEW tier \in TIERS, PostClaim(c, tier)
          PROVE  E!EscrowNext
      BY <2>1, PostClaimTakesFee DEF E!EscrowNext
    <2>2. ASSUME NEW truth \in Decision, settleTier1(c, truth)
          PROVE  E!EscrowNext
      BY <2>2, SettlementSettles DEF E!EscrowNext
    <2> QED
      BY <1>2, <2>1, <2>2, CloseClaimStutters DEF OperatorCall
  <1>3. ASSUME NEW id \in DisputeIds, ResolveDispute(id)
        PROVE  E!EscrowNext
    <2>1. PICK c \in Claims, b \in Accounts, x \in Accounts :
            /\ c = disputes[id].claimId
            /\ b = disputes[id].accused
            /\ x = disputes[id].challenger
      BY <1>3, DisputeIsChallenge
    <2>2. CASE ResolveAgentWrong(id)
      <3>1. E!Uphold(c, b, x)
        BY <1>3, <2>1, <2>2, ConvictionUpholds
      <3> QED
        BY <3>1 DEF E!EscrowNext
    <2>3. CASE ResolveAgentRight(id)
      <3>1. E!Dismiss(c, b)
        BY <1>3, <2>1, <2>3, AcquittalDismisses
      <3> QED
        BY <3>1 DEF E!EscrowNext
    <2> QED
      BY <1>3, <2>2, <2>3 DEF ResolveDispute, resolveDispute
  <1>4. Receive \/ Tick \/ UNCHANGED vars => EscrowKept
    BY <1>0 DEF Receive, receive, Tick, vars, attestationVars, slashingVars
  <1> QED
    BY <1>1, <1>2, <1>3, <1>4 DEF Next

(***************************************************************************)
(* The contracts implement the escrow: from its initial state, every call  *)
(* is one of its steps or changes nothing it can see, for every stake, fee *)
(* and bond, any number of accounts, claims and disputes.                  *)
(***************************************************************************)
THEOREM ContractsImplementEscrow == Spec => ImplementsEscrow
  <1>1. Init => E!EscrowInit
    <2> SUFFICES ASSUME Init
                 PROVE  E!EscrowInit
      OBVIOUS
    <2>1. /\ \A c \in Claims : claims[c] = NoClaim
          /\ \A c \in Claims, a \in Accounts :
               attestations[c][a] = NoAttestation
          /\ activeDispute = {}
          /\ claimable = [a \in Accounts |-> 0]
          /\ totalBurned = 0
      BY DEF Init, AttestationInit, SlashingInit
    <2>2. \A c \in Claims, a \in Accounts : StakeState(c, a) = "none"
      BY <2>1 DEF NoAttestation, StakeState, Deciders, getClaimAttestors
    <2>3. \A c \in Claims : FeeState(c) = "none"
      BY <2>1 DEF NoClaim, FeeState
    <2> QED
      BY <2>1, <2>2, <2>3 DEF E!EscrowInit
  <1>2. TypeOK /\ DisputesAgree /\ AccusedDecided /\ StakedDecided
          /\ ClaimLifecycle /\ [Next]_vars => [E!EscrowNext]_E!escrowVars
    BY EscrowStep, KeptIsStutter
  <1> QED
    BY <1>1, <1>2, TypeCorrect, DisputeRecordsAgree, AccusedHaveDecided,
       StakesAreDecided, ClaimsFollowTheirLifecycle, PTL
       DEF Spec, ImplementsEscrow, E!EscrowSpec
=============================================================================
