-------------------------- MODULE AgentAttestation --------------------------
(***************************************************************************)
(* contracts/src/AgentAttestation.sol: claims, attestations and the ether  *)
(* locked in them.  The hashes, the confidence and the trace URI of an     *)
(* attestation are stored and never read on chain: they are left out.      *)
(***************************************************************************)
EXTENDS AgentRegistry

CONSTANTS Claims,         \* claim ids
          TIERS,          \* the tiers the operator posts claims with
          ATTEST_LOCK,
          CLAIM_FEE,
          MAX_ATTESTORS

ASSUME AttestationAssumption ==
  /\ IsFiniteSet(Claims)
  /\ TIERS \subseteq Nat
  /\ ATTEST_LOCK \in Nat \ {0}
  /\ CLAIM_FEE \in Nat \ {0}
  /\ MAX_ATTESTORS \in 0 .. 255   \* uint8

VARIABLES claims,              \* _claims
          attestations,        \* _attestations, and _claimAttestors
          attestationBalance

attestationVars == <<claims, attestations, attestationBalance>>

Decision == {"VALID", "REJECTED", "ABSTAIN"}

Claim == [posted: BOOLEAN, closed: BOOLEAN, tier: Nat,
          attestorCount: Nat, claimFee: {0, CLAIM_FEE}]

NoClaim == [posted |-> FALSE, closed |-> FALSE, tier |-> 0,
            attestorCount |-> 0, claimFee |-> 0]

Attestation == [exists: BOOLEAN, decision: Decision,
                lockedStake: {0, ATTEST_LOCK}]

\* The zero value of an enum is its first member.
NoAttestation == [exists |-> FALSE, decision |-> "VALID", lockedStake |-> 0]

AttestationInit ==
  /\ claims = [c \in Claims |-> NoClaim]
  /\ attestations = [c \in Claims |-> [a \in Accounts |-> NoAttestation]]
  /\ attestationBalance = 0

\* The list is only ever walked with steps that commute: its order is left out.
getClaimAttestors(c) == {a \in Accounts : attestations[c][a].exists}

Deciders(c) ==
  {a \in getClaimAttestors(c) : attestations[c][a].decision # "ABSTAIN"}

-----------------------------------------------------------------------------
\* The operator's calls.

postClaim(c, tier) ==
  /\ tier \in 1 .. 3
  /\ ~claims[c].posted
  /\ claims' = [claims EXCEPT ![c] =
       [posted |-> TRUE, closed |-> FALSE, tier |-> tier,
        attestorCount |-> 0, claimFee |-> CLAIM_FEE]]
  /\ attestationBalance' = attestationBalance + CLAIM_FEE
  /\ UNCHANGED attestations

closeClaim(c) ==
  /\ claims[c].posted
  /\ ~claims[c].closed
  /\ claims' = [claims EXCEPT ![c].closed = TRUE]
  /\ UNCHANGED <<attestations, attestationBalance>>

-----------------------------------------------------------------------------
\* An attestor's call.  The ether sent must be exactly the stake to lock.

\* Fault: a closed claim still takes attestations.
AcceptsAfterClose(c) == claims[c].posted

Accepts(c) == claims[c].posted /\ ~claims[c].closed

\* Fault: the limit on attestors is off by one.
HasRoomForOneMore(c) == claims[c].attestorCount <= MAX_ATTESTORS

HasRoom(c) == claims[c].attestorCount < MAX_ATTESTORS

\* Fault: the judgment tier takes any decision.
TierAllowsAny(c, decision) == decision \in Decision

TierAllows(c, decision) == claims[c].tier = 3 => decision = "ABSTAIN"

attest(a, c, decision) ==
  LET stake == IF decision = "ABSTAIN" THEN 0 ELSE ATTEST_LOCK IN
  /\ isRegistered(a)
  /\ Accepts(c)
  /\ ~attestations[c][a].exists
  /\ HasRoom(c)
  /\ TierAllows(c, decision)
  /\ attestations' = [attestations EXCEPT ![c][a] =
       [exists |-> TRUE, decision |-> decision, lockedStake |-> stake]]
  /\ claims' = [claims EXCEPT ![c].attestorCount = @ + 1]
  /\ attestationBalance' = attestationBalance + stake

-----------------------------------------------------------------------------
\* The settlement layer's calls.

\* seizeStake for each attestor of S: every one must still have its stake.
seizeStakes(c, S) ==
  /\ \A a \in S : attestations[c][a].lockedStake # 0
  /\ attestations' = [attestations EXCEPT ![c] =
       [a \in Accounts |-> IF a \in S THEN [@[a] EXCEPT !.lockedStake = 0]
                                      ELSE @[a]]]

seizeClaimFee(c) ==
  /\ claims[c].claimFee # 0
  /\ claims' = [claims EXCEPT ![c].claimFee = 0]
=============================================================================
