------------------------ MODULE ProtocolProperties ------------------------
(***************************************************************************)
(* What the four contracts together must keep true, and the abstract       *)
(* escrow they implement.                                                  *)
(***************************************************************************)
EXTENDS BombeProtocol

OpenDisputes == {id \in DisputeIds : ~disputes[id].resolved}

OpenAgainst(a) == {id \in OpenDisputes : disputes[id].accused = a}

Pair(id) == <<disputes[id].claimId, disputes[id].accused>>

LockedStakes ==
  {p \in Claims \X Accounts : attestations[p[1]][p[2]].lockedStake # 0}

HeldFees == {c \in Claims : claims[c].claimFee # 0}

\* The dispute was decided against the accused.
Convicted(id) ==
  disputes[id].resolved /\ disputes[id].votesWrong > disputes[id].votesRight

-----------------------------------------------------------------------------
(***************************************************************************)
(* Every variable has its type.  What that says beyond its form is that no *)
(* unsigned quantity of the contracts goes below zero: bonds, counters,    *)
(* balances to withdraw (the checked subtractions of Solidity 0.8).        *)
(***************************************************************************)
TypeOK ==
  /\ agents \in [Accounts -> Agent]
  /\ pendingDisputes \in [Accounts -> Nat]
  /\ registryBalance \in Int
  /\ claims \in [Claims -> Claim]
  /\ attestations \in [Claims -> [Accounts -> Attestation]]
  /\ attestationBalance \in Int
  /\ claimable \in [Accounts -> Nat]
  /\ totalBurned \in Nat
  /\ disputeCount \in Nat
  /\ disputes \in [DisputeIds -> Dispute]
  /\ activeDispute \subseteq Claims \X Accounts
  /\ slashingBalance \in Int
  /\ surplus \in Nat
  /\ settled \in [Claims -> BOOLEAN]
  /\ lifetimeStats \in [Accounts -> Stats]
  /\ epochStats \in [Accounts -> [Epochs -> Stats]]
  /\ epoch \in Epochs
  /\ leaderboardBalance \in Int

(***************************************************************************)
(* Every contract holds exactly the ether it owes: the registry the bonds, *)
(* the attestation contract the stakes and fees not yet settled, the       *)
(* slashing contract what is claimable, what is burned and the bonds of    *)
(* the open disputes; the leaderboard, through which a settlement passes   *)
(* stakes and fee, keeps nothing (AgentSlashing.sol, TuringLeaderboard     *)
(* .sol: the divisions of seized stakes, fees and bonds strand no unit and *)
(* pay no unit twice).                                                     *)
(***************************************************************************)
Solvency ==
  /\ registryBalance = Total([a \in Accounts |-> agents[a].bond])
  /\ attestationBalance = Cardinality(LockedStakes) * ATTEST_LOCK
                          + Cardinality(HeldFees) * CLAIM_FEE
  /\ slashingBalance = Total(claimable) + totalBurned
                       + Cardinality(OpenDisputes) * DISPUTE_BOND + surplus
  /\ leaderboardBalance = 0

(***************************************************************************)
(* The registry's counter, the activeDispute guard and the dispute records *)
(* of two contracts agree: the counter of an account is the number of its  *)
(* unresolved disputes, the guard holds their pairs, and no pair is in     *)
(* dispute twice (openDispute, resolveDispute, setDisputePending).  So the *)
(* counter never underflows and no bond stays frozen by a closed dispute.  *)
(***************************************************************************)
DisputesAgree ==
  /\ \A a \in Accounts : pendingDisputes[a] = Cardinality(OpenAgainst(a))
  /\ activeDispute = {Pair(id) : id \in OpenDisputes}
  /\ \A i, j \in OpenDisputes : Pair(i) = Pair(j) => i = j

(***************************************************************************)
(* An agent is active exactly while its bond covers the minimum, and one   *)
(* that left has nothing in the registry, so that registering again, which *)
(* overwrites the record, loses no bond (register, withdrawBond).          *)
(***************************************************************************)
ActiveIffBonded ==
  \A a \in Accounts :
    IF agents[a].active THEN agents[a].known /\ agents[a].bond >= MIN_BOND
                        ELSE agents[a].bond = 0

(***************************************************************************)
(* A judgment claim takes only abstentions, and an abstention never has    *)
(* anything at stake: no stake locked, no dispute against it, whatever     *)
(* calls are made (attest, openDispute; PRD 14.5 and 14.6).                *)
(***************************************************************************)
AbstainRisksNothing ==
  /\ \A c \in Claims, a \in Accounts :
       attestations[c][a].exists =>
         /\ claims[c].tier = 3 => attestations[c][a].decision = "ABSTAIN"
         /\ attestations[c][a].decision = "ABSTAIN" =>
              attestations[c][a].lockedStake = 0
  /\ \A id \in DisputeIds :
       disputes[id].accused \in Deciders(disputes[id].claimId)

(***************************************************************************)
(* A claim's attestors are counted right and never more than the limit     *)
(* that bounds the settlement loop; the fee is held until the claim is     *)
(* settled and gone after; a settled claim is a closed tier-1 claim with   *)
(* no stake left in it (postClaim, attest, settleTier1).                   *)
(***************************************************************************)
ClaimLifecycle ==
  \A c \in Claims :
    /\ claims[c].attestorCount = Cardinality(getClaimAttestors(c))
    /\ claims[c].attestorCount <= MAX_ATTESTORS
    /\ getClaimAttestors(c) # {} => claims[c].posted
    /\ claims[c].claimFee # 0 <=> claims[c].posted /\ ~settled[c]
    /\ settled[c] =>
         /\ claims[c].posted /\ claims[c].closed /\ claims[c].tier = 1
         /\ \A a \in Accounts : attestations[c][a].lockedStake = 0

(***************************************************************************)
(* A stake leaves the attestation contract for one of two reasons only: it *)
(* was settled, or a dispute about it was decided against the attestor by  *)
(* the votes of others (seizeStake, as settleTier1 and resolveDispute call *)
(* it).  And it leaves once: a pair is convicted at most once, and never   *)
(* after its claim was settled.                                            *)
(***************************************************************************)
StakeLeavesForCause ==
  \A c \in Claims : \A a \in Deciders(c) :
    LET convictions ==
          {id \in DisputeIds : Pair(id) = <<c, a>> /\ Convicted(id)}
    IN  /\ Cardinality(convictions) <= 1
        /\ attestations[c][a].lockedStake = 0 <=> settled[c] \/ convictions # {}
        /\ ~(settled[c] /\ convictions # {})

(***************************************************************************)
(* The votes of a dispute are backed by bonds: nobody is counted twice,    *)
(* the accused is not counted, and every voter weighed at least the        *)
(* minimum bond (vote: isRegistered, hasVoted, weight read from the        *)
(* registry).                                                              *)
(***************************************************************************)
VotesBacked ==
  \A id \in DisputeIds :
    LET d == disputes[id] IN
    /\ d.accused \notin d.voters
    /\ d.votesWrong + d.votesRight >= Cardinality(d.voters) * MIN_BOND
    /\ d.votesWrong + d.votesRight <= Cardinality(d.voters) * MAX_BOND

(***************************************************************************)
(* The scoreboard counts each attestation of a settled claim once, whether *)
(* by epoch or for life (settleTier1 and its bumps).                       *)
(***************************************************************************)
StatsCountSettlements ==
  \A a \in Accounts :
    LET s == lifetimeStats[a]
        mine == {c \in Claims : settled[c] /\ attestations[c][a].exists}
        EpochTotal(field) ==
          Total([e \in Epochs |-> epochStats[a][e][field]])
    IN  /\ s.correct + s.wrong + s.abstained = Cardinality(mine)
        /\ s.abstained = Cardinality(
             {c \in mine : attestations[c][a].decision = "ABSTAIN"})
        /\ s.slashes = s.wrong
        /\ \A field \in DOMAIN NoStats : s[field] = EpochTotal(field)

-----------------------------------------------------------------------------
(***************************************************************************)
(* While a dispute against an account is open its bond does not shrink and *)
(* it stays registered if it was, whoever calls what (withdrawBond against *)
(* openDispute and resolveDispute).                                        *)
(***************************************************************************)
AccusedBondFrozen ==
  [][\A a \in Accounts :
       OpenAgainst(a) # {} => /\ agents'[a].bond >= agents[a].bond
                              /\ agents[a].active => agents'[a].active]_vars

(***************************************************************************)
(* What was decided stays decided: a resolved dispute, a cast attestation  *)
(* decision, a closed claim and its attestors, a settled claim.            *)
(***************************************************************************)
DecisionsAreFinal ==
  [][/\ \A id \in DisputeIds :
          /\ id \in DisputeIds'
          /\ disputes[id].resolved => disputes'[id] = disputes[id]
          /\ Pair(id)' = Pair(id)
     /\ \A c \in Claims :
          /\ claims[c].closed =>
               claims'[c].closed /\ getClaimAttestors(c)' = getClaimAttestors(c)
          /\ settled[c] => settled'[c] /\ attestations'[c] = attestations[c]
          /\ \A a \in getClaimAttestors(c) :
               attestations'[c][a].decision = attestations[c][a].decision]_vars

(***************************************************************************)
(* Only a wrong settlement lowers a trust score: a correct attestation and *)
(* an abstention never cost anything (trustScore after settleTier1).       *)
(***************************************************************************)
TrustFallsOnlyWhenWrong ==
  [][\A a \in Accounts :
       lifetimeStats'[a].wrong = lifetimeStats[a].wrong
         => trustScore(a)' >= trustScore(a)]_vars

(***************************************************************************)
(* The contracts implement the abstract escrow.                            *)
(***************************************************************************)
StakeState(c, a) ==
  IF a \notin Deciders(c) THEN "none"
  ELSE IF attestations[c][a].lockedStake # 0 THEN "locked" ELSE "gone"

FeeState(c) ==
  IF ~claims[c].posted THEN "none"
  ELSE IF claims[c].claimFee # 0 THEN "held" ELSE "gone"

E == INSTANCE Escrow WITH
       STAKE <- ATTEST_LOCK, FEE <- CLAIM_FEE, BOND <- DISPUTE_BOND,
       stake <- [c \in Claims |-> [a \in Accounts |-> StakeState(c, a)]],
       fee <- [c \in Claims |-> FeeState(c)],
       challenged <- activeDispute,
       owed <- claimable,
       burned <- totalBurned

ImplementsEscrow == E!EscrowSpec

-----------------------------------------------------------------------------
(***************************************************************************)
(* A dispute does not stay open for ever, so neither the challenger's bond *)
(* nor the accused's is kept for ever (resolveDispute).                    *)
(***************************************************************************)
DisputesEnd ==
  \A id \in 0 .. MAX_DISPUTES - 1 :
    id \in DisputeIds ~> (id \in DisputeIds /\ disputes[id].resolved)
=============================================================================
