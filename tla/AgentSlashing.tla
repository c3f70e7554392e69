--------------------------- MODULE AgentSlashing ---------------------------
(***************************************************************************)
(* contracts/src/AgentSlashing.sol: disputes, stake-weighted votes and the *)
(* pull payments of the whole system.  A transaction is atomic, so the     *)
(* calls it makes into the registry and the attestation contract are part  *)
(* of the action.                                                          *)
(*                                                                         *)
(* Only the time since a dispute was opened is ever compared, with the     *)
(* window: a dispute carries its age (block.timestamp - openedAt), which   *)
(* stops one second past the window.  The bond field of a dispute is       *)
(* always DISPUTE_BOND and is left out; voters is hasVoted[disputeId].     *)
(***************************************************************************)
EXTENDS AgentAttestation, Money

CONSTANTS DISPUTE_BOND,
          DISPUTE_WINDOW_SECONDS,
          MAX_DISPUTES,   \* bound: disputes opened
          MAX_SURPLUS     \* bound: ether sent to the contract by strangers

ASSUME SlashingAssumption ==
  /\ DISPUTE_BOND \in Nat \ {0}
  /\ DISPUTE_WINDOW_SECONDS \in Nat
  /\ MAX_DISPUTES \in Nat
  /\ MAX_SURPLUS \in Nat

VARIABLES claimable,
          totalBurned,
          disputes,
          disputeCount,
          activeDispute,     \* the pairs <<claim, accused>> mapped to true
          slashingBalance,
          surplus            \* ether received outside every call of the protocol

slashingVars == <<claimable, totalBurned, disputes, disputeCount,
                  activeDispute, slashingBalance, surplus>>

WindowElapsed == DISPUTE_WINDOW_SECONDS + 1

Dispute == [claimId: Claims, accused: Accounts, challenger: Accounts,
            age: 0 .. WindowElapsed, votesWrong: Nat, votesRight: Nat,
            voters: SUBSET Accounts, resolved: BOOLEAN]

DisputeIds == 0 .. disputeCount - 1

SlashingInit ==
  /\ claimable = [a \in Accounts |-> 0]
  /\ totalBurned = 0
  /\ disputes = [id \in {} |-> 0]
  /\ disputeCount = 0
  /\ activeDispute = {}
  /\ slashingBalance = 0
  /\ surplus = 0

\* _collectPeers
Peers(c, accused) == Deciders(c) \ {accused}

-----------------------------------------------------------------------------
\* Fault: a second dispute on the same pair is not refused.
DisputableTwice(c, accused) ==
  accused \in Deciders(c) /\ attestations[c][accused].lockedStake # 0

\* Fault: a stake that is already gone may be disputed.
DisputableUnstaked(c, accused) ==
  accused \in Deciders(c) /\ <<c, accused>> \notin activeDispute

Disputable(c, accused) ==
  /\ accused \in Deciders(c)
  /\ attestations[c][accused].lockedStake # 0
  /\ <<c, accused>> \notin activeDispute

openDispute(challenger, c, accused) ==
  /\ disputeCount < MAX_DISPUTES
  /\ isRegistered(challenger)
  /\ Disputable(c, accused)
  /\ activeDispute' = activeDispute \union {<<c, accused>>}
  /\ disputeCount' = disputeCount + 1
  /\ disputes' = [id \in 0 .. disputeCount |->
       IF id = disputeCount
       THEN [claimId |-> c, accused |-> accused, challenger |-> challenger,
             age |-> 0, votesWrong |-> 0, votesRight |-> 0,
             voters |-> {}, resolved |-> FALSE]
       ELSE disputes[id]]
  /\ setDisputePending(accused, TRUE)
  /\ slashingBalance' = slashingBalance + DISPUTE_BOND
  /\ UNCHANGED <<claimable, totalBurned, surplus, agents, registryBalance,
                 attestationVars>>

\* Fault: an account may vote again.
MayVoteAgain(voter, id) ==
  /\ ~disputes[id].resolved
  /\ disputes[id].age <= DISPUTE_WINDOW_SECONDS
  /\ isRegistered(voter)
  /\ voter # disputes[id].accused

MayVote(voter, id) ==
  /\ ~disputes[id].resolved
  /\ disputes[id].age <= DISPUTE_WINDOW_SECONDS
  /\ isRegistered(voter)
  /\ voter # disputes[id].accused
  /\ voter \notin disputes[id].voters

\* The weight is the voter's bond at the time of the vote.
vote(voter, id, agentWasWrong) ==
  LET weight == agents[voter].bond IN
  /\ MayVote(voter, id)
  /\ disputes' = [disputes EXCEPT
       ![id].voters = @ \union {voter},
       ![id].votesWrong = IF agentWasWrong THEN @ + weight ELSE @,
       ![id].votesRight = IF agentWasWrong THEN @ ELSE @ + weight]
  /\ UNCHANGED <<claimable, totalBurned, disputeCount, activeDispute,
                 slashingBalance, surplus, registryVars, attestationVars>>

-----------------------------------------------------------------------------
\* Fault: a tie is decided against the accused.
TieIsWrong(d) == d.votesWrong >= d.votesRight

AgentWrong(d) == d.votesWrong > d.votesRight

\* resolveDispute: what both verdicts do, then the verdict's own economics.

CloseDispute(id) ==
  LET d == disputes[id] IN
  /\ ~d.resolved
  /\ d.age > DISPUTE_WINDOW_SECONDS
  /\ disputes' = [disputes EXCEPT ![id].resolved = TRUE]
  /\ setDisputePending(d.accused, FALSE)
  /\ activeDispute' = activeDispute \ {<<d.claimId, d.accused>>}
  /\ UNCHANGED <<disputeCount, surplus, registryBalance, claims>>

\* Reverts as a whole when the accused's stake is no longer there to seize.
ResolveAgentWrong(id) ==
  LET d     == disputes[id]
      slash == attestations[d.claimId][d.accused].lockedStake
      peers == Peers(d.claimId, d.accused)
      split == DisputeSplit(slash, Cardinality(peers))
      gain  == [a \in Accounts |->
                  (IF a \in peers THEN split.share ELSE 0)
                  + (IF a = d.challenger THEN DISPUTE_BOND + split.reward
                                         ELSE 0)]
  IN
  /\ AgentWrong(d)
  /\ CloseDispute(id)
  /\ seizeStakes(d.claimId, {d.accused})
  /\ attestationBalance' = attestationBalance - slash
  /\ slashingBalance' = slashingBalance + slash
  /\ claimable' = [a \in Accounts |-> claimable[a] + gain[a]]
  /\ totalBurned' = totalBurned + split.burn
  /\ adjustReputation([a \in Accounts |-> IF a = d.accused THEN -10 ELSE 0])

\* A tie is decided for the accused.
ResolveAgentRight(id) ==
  LET d             == disputes[id]
      accusedCredit == DISPUTE_BOND \div 2
  IN
  /\ ~AgentWrong(d)
  /\ CloseDispute(id)
  /\ claimable' = [claimable EXCEPT ![d.accused] = @ + accusedCredit]
  /\ totalBurned' = totalBurned + (DISPUTE_BOND - accusedCredit)
  /\ UNCHANGED <<slashingBalance, agents, attestations, attestationBalance>>

resolveDispute(id) == ResolveAgentWrong(id) \/ ResolveAgentRight(id)

-----------------------------------------------------------------------------
withdraw(a) ==
  /\ claimable[a] # 0
  /\ claimable' = [claimable EXCEPT ![a] = 0]
  /\ slashingBalance' = slashingBalance - claimable[a]
  /\ UNCHANGED <<totalBurned, disputes, disputeCount, activeDispute, surplus,
                 registryVars, attestationVars>>

\* receive() takes ether from anyone.
receive ==
  /\ surplus < MAX_SURPLUS
  /\ surplus' = surplus + 1
  /\ slashingBalance' = slashingBalance + 1
  /\ UNCHANGED <<claimable, totalBurned, disputes, disputeCount,
                 activeDispute, registryVars, attestationVars>>

\* Every open dispute one second older.
Aged ==
  [id \in DisputeIds |->
     IF disputes[id].resolved \/ disputes[id].age = WindowElapsed
     THEN disputes[id]
     ELSE [disputes[id] EXCEPT !.age = @ + 1]]
=============================================================================
