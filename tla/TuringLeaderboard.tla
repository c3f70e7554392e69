------------------------- MODULE TuringLeaderboard -------------------------
(***************************************************************************)
(* contracts/src/TuringLeaderboard.sol: settlement of tier-1 claims and    *)
(* the scoreboard.  settleTier1 walks the attestors once; its passes touch *)
(* different accounts or add to the same total, so one action does what    *)
(* the loops do together, or reverts as the first failing call would.      *)
(***************************************************************************)
EXTENDS AgentSlashing

CONSTANT MAX_EPOCH   \* bound: epochs 0 .. MAX_EPOCH

ASSUME LeaderboardAssumption == MAX_EPOCH \in Nat

VARIABLES settled,
          lifetimeStats,
          epochStats,
          epoch,                \* block.timestamp / EPOCH_SECONDS
          leaderboardBalance

leaderboardVars ==
  <<settled, lifetimeStats, epochStats, epoch, leaderboardBalance>>

Stats == [correct: Nat, wrong: Nat, abstained: Nat, slashes: Nat]

NoStats == [correct |-> 0, wrong |-> 0, abstained |-> 0, slashes |-> 0]

Epochs == 0 .. MAX_EPOCH

LeaderboardInit ==
  /\ settled = [c \in Claims |-> FALSE]
  /\ lifetimeStats = [a \in Accounts |-> NoStats]
  /\ epochStats = [a \in Accounts |-> [e \in Epochs |-> NoStats]]
  /\ epoch = 0
  /\ leaderboardBalance = 0

\* _collectCorrect
CollectCorrect(c, groundTruth) ==
  {a \in Deciders(c) : attestations[c][a].decision = groundTruth}

\* Fault: abstentions are not counted.
BumpIgnoresAbstained(s, a, correct, wrong, abstained) ==
  IF a \in correct THEN [s EXCEPT !.correct = @ + 1]
  ELSE IF a \in wrong THEN [s EXCEPT !.wrong = @ + 1, !.slashes = @ + 1]
  ELSE s

\* _bumpCorrect, _bumpWrong, _bumpAbstained: the stats s of account a.
Bump(s, a, correct, wrong, abstained) ==
  IF a \in correct THEN [s EXCEPT !.correct = @ + 1]
  ELSE IF a \in wrong THEN [s EXCEPT !.wrong = @ + 1, !.slashes = @ + 1]
  ELSE IF a \in abstained THEN [s EXCEPT !.abstained = @ + 1]
  ELSE s

settleTier1(c, groundTruth) ==
  LET correct   == CollectCorrect(c, groundTruth)
      wrong     == Deciders(c) \ correct
      abstained == getClaimAttestors(c) \ Deciders(c)
      n         == Cardinality(correct)
      w         == Cardinality(wrong)
      fee       == claims[c].claimFee
      slashed   == BurnAndRedistribute(ATTEST_LOCK, n)
      feeSplit  == FeeSplit(fee, n)
      gain      == [a \in Accounts |->
                      IF a \in correct
                      THEN ATTEST_LOCK + w * slashed.share + feeSplit.share
                      ELSE 0]
      forwarded == n * ATTEST_LOCK + n * feeSplit.share + feeSplit.burn
  IN
  /\ ~settled[c]
  /\ claims[c].posted
  /\ claims[c].closed
  /\ claims[c].tier = 1
  /\ groundTruth # "ABSTAIN"
  /\ settled' = [settled EXCEPT ![c] = TRUE]
  /\ lifetimeStats' = [a \in Accounts |->
       Bump(lifetimeStats[a], a, correct, wrong, abstained)]
  /\ epochStats' = [a \in Accounts |-> [epochStats[a] EXCEPT ![epoch] =
       Bump(@, a, correct, wrong, abstained)]]
  /\ adjustReputation([a \in Accounts |->
       IF a \in correct THEN 1 ELSE IF a \in wrong THEN -10 ELSE 0])
  /\ seizeStakes(c, Deciders(c))
  /\ seizeClaimFee(c)
  /\ attestationBalance' = attestationBalance - (n + w) * ATTEST_LOCK - fee
  /\ claimable' = [a \in Accounts |-> claimable[a] + gain[a]]
  /\ totalBurned' = totalBurned + w * slashed.burn + feeSplit.burn
  /\ slashingBalance' = slashingBalance + w * ATTEST_LOCK + forwarded
  /\ leaderboardBalance' =
       leaderboardBalance + n * ATTEST_LOCK + fee - forwarded
  /\ UNCHANGED <<pendingDisputes, registryBalance, disputes, disputeCount,
                 activeDispute, surplus, epoch>>

-----------------------------------------------------------------------------
TRUST_SCORE_EXP_CAP == 15

\* Fault: abstentions count in the denominator of the accuracy.
TrustScoreCountsAbstained(s) ==
  LET total    == s.correct + s.wrong + s.abstained
      accuracy == IF total = 0 THEN 0 ELSE (s.correct * 70) \div total
      capped   == IF total < TRUST_SCORE_EXP_CAP THEN total
                                                 ELSE TRUST_SCORE_EXP_CAP
  IN  accuracy + (capped * 30) \div TRUST_SCORE_EXP_CAP

\* trustScore, of the stats s, before and after the cap at 100.
RawTrustScore(s) ==
  LET decided    == s.correct + s.wrong
      total      == decided + s.abstained
      accuracy   == IF decided = 0 THEN 0 ELSE (s.correct * 70) \div decided
      capped     == IF total < TRUST_SCORE_EXP_CAP THEN total
                                                   ELSE TRUST_SCORE_EXP_CAP
  IN  accuracy + (capped * 30) \div TRUST_SCORE_EXP_CAP

trustScore(a) ==
  LET score == RawTrustScore(lifetimeStats[a])
  IN  IF score > 100 THEN 100 ELSE score
=============================================================================
