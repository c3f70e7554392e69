---------------------------- MODULE StreakProofs ----------------------------
(***************************************************************************)
(* A day of the streak, for every sequence of assets and attestors, all    *)
(* that one or two sources of an asset may tell, whatever others do to its *)
(* claims, and any number of jobs. Three arguments share one invariant:    *)
(*                                                                         *)
(* - what is asserted is what one source told at the probe, rounded, so    *)
(*   that a wrong verdict needs what the judging observation has of that   *)
(*   source to lie apart by what the tolerance leaves;                     *)
(* - a transaction that an account waited for was mined by the time its    *)
(*   pool is empty, and its effect, or what made it revert, stays;         *)
(* - whatever is said of an asset that was posted once goes back to the    *)
(*   value in that one transaction.                                        *)
(***************************************************************************)
EXTENDS Streak, ReconcilerProofs

Assets == Range(ASSETS)
Verdicts == {"none", "VALID", "REJECTED", "ABSTAIN"}
Sights == [moved : Nat, missing : BOOLEAN, apart : Nat]
Tx == [kind : {"post"}, asset : Assets, asserted : Int]
        \cup [kind : {"attest"}, asset : Assets, by : Range(ATTESTORS),
              decision : Verdicts, asserted : Int, seen : Sights]
OnChain == [by : Range(ATTESTORS), decision : Verdicts, asserted : Int, seen : Sights]

Results == {"none", "running", "posted", "ran", "skipped", "failed"}
Places == {"idle", "dedupe", "balance", "probe", "compute", "post", "postWait",
           "attest", "attestWait", "store", "extra", "extraSend", "extraWait"}

\* Types.
LocalTypeOK ==
    /\ at \in 1..Len(ASSETS) /\ who \in 1..Len(ATTESTORS) + 1
    /\ asserted \in Int /\ source \in Nat /\ told \in Int
    /\ decision \in Verdicts /\ seen \in Sights

ChainTypeOK ==
    /\ pool \in [Accounts -> Seq(Tx)]
    /\ posts \in [Assets -> Nat]
    /\ posted \in [Assets -> {NotPosted} \cup [posted : {TRUE}, asserted : Int]]
    /\ closed \subseteq Assets
    /\ attested \in [Assets -> SUBSET OnChain]
    /\ attestorCount \in [Assets -> Nat]
    /\ registered \subseteq Range(ATTESTORS) /\ left \subseteq Range(ATTESTORS)
    /\ others \in Nat

StreakTypeOK ==
    /\ selfTest \in BOOLEAN
    /\ job \in 0..MAX_JOBS /\ result \in [1..MAX_JOBS -> Results] /\ attempt \in Nat
    /\ pc \in Places
    /\ LocalTypeOK /\ ChainTypeOK
    /\ receipts \subseteq Assets

\* The attempt is past a place.
Starting == {"idle", "dedupe", "balance"}
Claiming == {"probe", "compute", "post", "postWait", "attest", "attestWait"}
Finishing == {"store", "extra", "extraSend", "extraWait"}
Probed == {"compute", "post", "postWait", "attest", "attestWait"} \cup Finishing
Sent == {"postWait", "attest", "attestWait"} \cup Finishing

Position ==
    /\ pc # "idle" => job \in 1..MAX_JOBS
    /\ pc \in Starting => at = 1 /\ who = 1
    /\ pc \in Claiming => who = 1
    /\ pc \in {"store", "extraSend", "extraWait"} => who \in 1..Len(ATTESTORS)

Half == SCALE \div 2
Wrong == IF selfTest THEN "VALID" ELSE "REJECTED"
Margin == IF selfTest THEN SELF_TEST_OFFSET - verdictToleranceBps ELSE verdictToleranceBps

\* What is asserted is what a source of the asset told at the probe.
AssertedAsTold ==
    pc \in Probed =>
        asserted = Asserted(told) /\ \A tells \in Paths[Asset] : source \in DOMAIN tells

\* A decision that is wrong has its cause in what was seen of that source.
Excused(verdict, sight) ==
    verdict = Wrong =>
        2 * Margin <= 2 * sight.moved + SCALE + 1
                        + IF sight.missing THEN 2 * sight.apart ELSE reconcileToleranceBps

\* So it is with the decision at hand, with those sent and with those on chain.
DecisionsAreRight ==
    /\ AssertedAsTold
    /\ Excused(decision, seen)
    /\ \A x \in Accounts : \A i \in 1..Len(pool[x]) :
         pool[x][i].kind = "attest" => Excused(pool[x][i].decision, pool[x][i].seen)
    /\ \A a \in Assets : \A x \in attested[a] : Excused(x.decision, x.seen)

AttestedByMain(a) == \E x \in attested[a] : x.by = ATTESTORS[1]

\* The main attestor attested a claim, or has no way to attest it any more.
Done(a) ==
    AttestedByMain(a) \/ a \in closed \/ Full(a) \/ ATTESTORS[1] \in left

\* A transaction of an account for an asset is still to be mined.
Pending(account, kind, a) ==
    \E i \in 1..Len(pool[account]) :
        pool[account][i].kind = kind /\ pool[account][i].asset = a

\* An attestation in the pool of an attestor is its own, of a claim that is there.
PoolsAreTheirOwners ==
    \A k \in 1..Len(ATTESTORS) : \A i \in 1..Len(pool[ATTESTORS[k]]) :
        LET tx == pool[ATTESTORS[k]][i]
        IN tx.kind = "attest" => tx.by = ATTESTORS[k] /\ posted[tx.asset] # NotPosted

\* What an attempt has behind it is on chain or, where it waits, in the pool.
AttemptIsBacked ==
    /\ pc = "postWait" => posted[Asset] # NotPosted \/ Pending(Poster, "post", Asset)
    /\ pc = "attestWait" => Done(Asset) \/ Pending(ATTESTORS[1], "attest", Asset)
    /\ pc \in Finishing => Done(Asset)
    /\ pc \in Claiming \cup Finishing => \A k \in 1..at - 1 : Done(ASSETS[k])

ReceiptsArePosted == \A a \in receipts : posted[a] # NotPosted

RegisteredUnlessLeft == \A x \in Range(ATTESTORS) : x \in registered \/ x \in left

DoneIsDone ==
    /\ PoolsAreTheirOwners /\ AttemptIsBacked /\ ReceiptsArePosted
    /\ RegisteredUnlessLeft /\ DoneMeansAttested

\* What is said of an asset: on its way, on chain, or by an attempt that sent it.
Says(a, v) ==
    \/ \E x \in Accounts : \E i \in 1..Len(pool[x]) :
         pool[x][i].asset = a /\ pool[x][i].asserted = v
    \/ \E x \in attested[a] : x.asserted = v
    \/ posted[a] # NotPosted /\ posted[a].asserted = v
    \/ pc \in Sent /\ Asset = a /\ asserted = v

SaidOnce ==
    \A a \in Assets :
        /\ posts[a] = 0 => \A v \in Int : ~Says(a, v)
        /\ posts[a] = 1 => \A v, w \in Int : Says(a, v) /\ Says(a, w) => v = w
        /\ attested[a] # {} => posted[a] # NotPosted

StreakInv ==
    StreakTypeOK /\ Position /\ DecisionsAreRight /\ DoneIsDone /\ SaidOnce

-----------------------------------------------------------------------------
\* The constants, and what the sources of an asset may tell.

LEMMA Constants ==
  /\ ASSETS \in Seq(Assets) /\ Len(ASSETS) \in Nat \ {0}
  /\ ATTESTORS \in Seq(Range(ATTESTORS)) /\ Len(ATTESTORS) \in Nat \ {0}
  /\ Half \in Nat /\ SCALE \in Nat \ {0} /\ 2 * Half <= SCALE
  /\ MAX_JOBS \in Nat /\ MAX_ATTESTORS \in Nat
  /\ verdictToleranceBps \in Nat /\ reconcileToleranceBps \in Nat
  /\ SELF_TEST_OFFSET \in Nat
  /\ Poster \in Accounts /\ \A k \in 1..Len(ATTESTORS) : ATTESTORS[k] \in Accounts
<1>1. /\ ASSETS \in Seq(Assets) /\ Len(ASSETS) \in Nat \ {0}
      /\ ATTESTORS \in Seq(Range(ATTESTORS)) /\ Len(ATTESTORS) \in Nat \ {0}
  BY StreakAssumption DEF StreakAssumption, Assets
<1>2. Half \in Nat /\ SCALE \in Nat \ {0} /\ 2 * Half <= SCALE
  BY ReconcilerAssumption DEF ReconcilerAssumption, Half
<1>3. MAX_JOBS \in Nat /\ MAX_ATTESTORS \in Nat
  BY StreakAssumption DEF StreakAssumption
<1>4. Poster \in Accounts /\ \A k \in 1..Len(ATTESTORS) : ATTESTORS[k] \in Accounts
  BY <1>1 DEF Accounts, Range
<1>5. /\ verdictToleranceBps \in Nat /\ reconcileToleranceBps \in Nat
      /\ SELF_TEST_OFFSET \in Nat
  BY <1>2, ReconcilerAssumption DEF ReconcilerAssumption, SELF_TEST_OFFSET
<1> QED BY <1>1, <1>2, <1>3, <1>4, <1>5

LEMMA AssetIsAnAsset ==
  ASSUME NEW k \in 1..Len(ASSETS)
  PROVE  ASSETS[k] \in Assets
BY Constants DEF Assets, Range

LEMMA AnAssetAtHand ==
  ASSUME StreakTypeOK
  PROVE  Asset \in Assets
BY AssetIsAnAsset DEF StreakTypeOK, LocalTypeOK, Asset

LEMMA SourcesTell ==
  ASSUME NEW a \in Assets, NEW tells \in Paths[a]
  PROVE  /\ tells \in Seq(Int) /\ Len(tells) \in 1..2 /\ DOMAIN tells = 1..Len(tells)
         /\ \A i \in DOMAIN tells : tells[i] \in Int
         /\ \A before \in Paths[a] : DOMAIN before = DOMAIN tells
<1>1. PICK n \in 1..2 : Paths[a] \subseteq [1..n -> Int]
  BY StreakAssumption DEF StreakAssumption, Assets
<1>2. tells \in [1..n -> Int] /\ n \in Nat
  BY <1>1
<1>3. tells \in Seq(Int) /\ Len(tells) = n
  BY <1>2
<1> QED BY <1>1, <1>2, <1>3

LEMMA MinOfOneAndTwo == Min({1}) = 1 /\ Min({2}) = 2 /\ Min({1, 2}) = 1
<1>0. 1 \in Int /\ 2 \in Int
  OBVIOUS
<1>1. Min({1, 1}) \in {1, 1}
  BY <1>0, MinOfTwo
<1>2. Min({2, 2}) \in {2, 2}
  BY <1>0, MinOfTwo
<1>3. Min({1, 2}) \in {1, 2} /\ Min({1, 2}) <= 1
  BY <1>0, MinOfTwo
<1>4. {1, 1} = {1} /\ {2, 2} = {2}
  OBVIOUS
<1> QED BY <1>1, <1>2, <1>3, <1>4

\* The sources that are up are heard, one or two of them, in their order.
LEMMA HeardOnes ==
  ASSUME NEW tells \in Seq(Int), Len(tells) \in 1..2, NEW up \in SomeUp(tells)
  PROVE  LET Leg(i) == [valueBps |-> tells[i], age |-> 0]
         IN /\ Min(up) \in up /\ Min(up) \in DOMAIN tells
            /\ Heard(tells, up)[1].valueBps = tells[Min(up)]
            /\ \/ \E i \in DOMAIN tells : up = {i} /\ Heard(tells, up) = <<Leg(i)>>
               \/ /\ Len(tells) = 2 /\ up = {1, 2}
                  /\ Heard(tells, up) = <<Leg(1), Leg(2)>>
<1> DEFINE Leg(i) == [valueBps |-> tells[i], age |-> 0]
           answers == [i \in DOMAIN tells |-> IF i \in up THEN Leg(i) ELSE Failed]
<1>1. Heard(tells, up) = getYieldObservation(answers)
  BY DEF Heard
<1>2. \A i \in 1..2 : Leg(i) # Failed
  BY DEF Failed
<1>3. up \subseteq DOMAIN tells /\ up # {}
  BY DEF SomeUp
<1>4. CASE Len(tells) = 1
  <2>1. DOMAIN tells = {1} /\ up = {1}
    BY <1>3, <1>4
  <2>2. DOMAIN answers = {1} /\ answers[1] = Leg(1)
    BY <2>1
  <2>3. Heard(tells, up) = <<Leg(1)>>
    <3> HIDE DEF answers
    <3> QED BY <1>1, <1>2, <2>2, LeftOfOne
  <2>4. Min(up) = 1
    <3>1. Min({1}) = 1
      BY MinOfOneAndTwo
    <3> QED BY <2>1, <3>1
  <2> QED BY <2>1, <2>3, <2>4
<1>5. CASE Len(tells) = 2
  <2>1. DOMAIN tells = {1, 2}
    BY <1>5
  <2>2. /\ DOMAIN answers = {1, 2}
        /\ answers[1] = IF 1 \in up THEN Leg(1) ELSE Failed
        /\ answers[2] = IF 2 \in up THEN Leg(2) ELSE Failed
    BY <2>1
  <2>3. Heard(tells, up) =
          IF 1 \notin up THEN IF 2 \notin up THEN <<>> ELSE <<Leg(2)>>
          ELSE IF 2 \notin up THEN <<Leg(1)>> ELSE <<Leg(1), Leg(2)>>
    <3> HIDE DEF answers, Leg
    <3> QED BY <1>1, <1>2, <2>2, LeftOfTwo
  <2>m. Min({1}) = 1 /\ Min({2}) = 2 /\ Min({1, 2}) = 1
    BY MinOfOneAndTwo
  <2>4. CASE 1 \in up /\ 2 \in up
    <3>1. up = {1, 2}
      BY <1>3, <2>1, <2>4
    <3> QED BY <1>5, <2>1, <2>3, <2>4, <2>m, <3>1
  <2>5. CASE 1 \in up /\ 2 \notin up
    <3>1. up = {1}
      BY <1>3, <2>1, <2>5
    <3> QED BY <2>1, <2>3, <2>5, <2>m, <3>1
  <2>6. CASE 1 \notin up
    <3>1. up = {2}
      BY <1>3, <2>1, <2>6
    <3> QED BY <2>1, <2>3, <2>6, <2>m, <3>1
  <2> QED BY <2>4, <2>5, <2>6
<1> QED BY <1>4, <1>5

\* A verdict is on a value within half the tolerance of each leg that was heard, up to
\* the rounding of the mean, and within the spread of each source that was not.
LEMMA JudgedValue ==
  ASSUME NEW tells \in Seq(Int), Len(tells) \in 1..2, NEW up \in SomeUp(tells),
         NEW value \in Int, Judge(Heard(tells, up), value) # "ABSTAIN",
         NEW s \in DOMAIN tells
  PROVE  \E r \in Int :
           /\ Judge(Heard(tells, up), value) =
                IF Abs(r - value) <= verdictToleranceBps THEN "VALID" ELSE "REJECTED"
           /\ s \in up => /\ 2 * r - 2 * tells[s] <= reconcileToleranceBps + 1
                          /\ 2 * tells[s] - 2 * r <= reconcileToleranceBps + 1
           /\ s \notin up => r - tells[s] <= Spread(tells) /\ tells[s] - r <= Spread(tells)
<1> DEFINE Leg(i) == [valueBps |-> tells[i], age |-> 0]
           legs == Heard(tells, up)
           v == LegValues(legs)
           reconciled == reconcileLegs(v)
<1>1. Judge(legs, value) = deterministicVerdict(reconciled, value) /\ ~Failing(reconciled)
  BY DEF Judge, decideTier1, deterministicVerdict
<1>2. /\ Spread(v) <= reconcileToleranceBps /\ reconciled.reconciledValue = Mean(v)
      /\ Judge(legs, value) =
           IF Abs(Mean(v) - value) <= verdictToleranceBps THEN "VALID" ELSE "REJECTED"
  BY <1>1 DEF reconcileLegs, Failing, deterministicVerdict
<1>3. reconcileToleranceBps \in Nat /\ tells[s] \in Int
  BY Constants
<1>4. CASE \E i \in DOMAIN tells : up = {i} /\ legs = <<Leg(i)>>
  <2>1. PICK i \in DOMAIN tells : up = {i} /\ legs = <<Leg(i)>>
    BY <1>4
  <2>2. tells[i] \in Int
    OBVIOUS
  <2>3. v = <<tells[i]>>
    <3>1. DOMAIN legs = {1} /\ legs[1].valueBps = tells[i]
      BY <2>1
    <3>2. v = [k \in {1} |-> legs[k].valueBps]
      BY <3>1 DEF LegValues
    <3> HIDE DEF v, legs
    <3> QED BY <3>1, <3>2
  <2>4. Mean(v) = tells[i]
    <3>1. v \in Seq(Int) /\ Len(v) = 1 /\ v[1] = tells[i]
      BY <2>2, <2>3
    <3> HIDE DEF v
    <3> QED BY <3>1, MeanOfOne
  <2>5. /\ Spread(tells) \in Nat
        /\ tells[i] - tells[s] <= Spread(tells) /\ tells[s] - tells[i] <= Spread(tells)
    <3>1. i \in 1..Len(tells) /\ s \in 1..Len(tells)
      OBVIOUS
    <3> QED BY <3>1, SpreadOfTwo
  <2>6. s \in up => s = i
    BY <2>1
  <2>7. s \in up => 2 * tells[i] - 2 * tells[s] <= reconcileToleranceBps + 1
                   /\ 2 * tells[s] - 2 * tells[i] <= reconcileToleranceBps + 1
    BY <1>3, <2>2, <2>6
  <2>8. Judge(legs, value) =
          IF Abs(tells[i] - value) <= verdictToleranceBps THEN "VALID" ELSE "REJECTED"
    BY <1>2, <2>4
  <2> HIDE DEF v, legs
  <2> QED BY <2>2, <2>5, <2>7, <2>8 DEF legs
<1>5. CASE Len(tells) = 2 /\ up = {1, 2} /\ legs = <<Leg(1), Leg(2)>>
  <2>1. tells[1] \in Int /\ tells[2] \in Int /\ (s = 1 \/ s = 2) /\ s \in up
    <3>1. DOMAIN tells = 1..2
      BY <1>5
    <3>2. s \in 1..2 /\ 1 \in DOMAIN tells /\ 2 \in DOMAIN tells
      BY <3>1
    <3>3. tells[1] \in Int /\ tells[2] \in Int
      BY <3>2
    <3> QED BY <1>5, <3>2, <3>3
  <2>2. v = <<tells[1], tells[2]>>
    BY <1>5 DEF LegValues
  <2>3. v \in Seq(Int) /\ Len(v) = 2 /\ v[1] = tells[1] /\ v[2] = tells[2]
    BY <2>1, <2>2
  <2> HIDE DEF v, legs
  <2>4. Mean(v) = (tells[1] + tells[2]) \div 2
    BY <2>3, MeanOfTwo
  <2>5. /\ tells[1] - tells[2] <= reconcileToleranceBps
        /\ tells[2] - tells[1] <= reconcileToleranceBps
    <3>0. 1 \in 1..Len(v) /\ 2 \in 1..Len(v)
      BY <2>3
    <3>1. Spread(v) \in Nat /\ v[1] - v[2] <= Spread(v) /\ v[2] - v[1] <= Spread(v)
      BY <2>3, <3>0, SpreadOfTwo
    <3> QED BY <1>2, <1>3, <2>1, <2>3, <3>1
  <2>6. PICK x \in Int, y \in Int, r \in Int, t \in Int :
          /\ x = tells[1] /\ y = tells[2] /\ r = Mean(v) /\ r = (x + y) \div 2
          /\ t = reconcileToleranceBps /\ x - y <= t /\ y - x <= t
    BY <1>3, <2>1, <2>4, <2>5
  <2>8. x + y - 1 <= 2 * r /\ 2 * r <= x + y
    <3>1. PICK n \in Int : n = x + y
      OBVIOUS
    <3>2. r = n \div 2 /\ r \in Int
      BY <2>6, <3>1
    <3> QED BY <3>1, <3>2
  <2>7. /\ 2 * r - 2 * x <= t + 1 /\ 2 * x - 2 * r <= t + 1
        /\ 2 * r - 2 * y <= t + 1 /\ 2 * y - 2 * r <= t + 1
    <3>1. x - y <= t /\ y - x <= t
      BY <2>6
    <3> QED BY <2>8, <3>1
  <2> QED BY <1>2, <2>1, <2>6, <2>7 DEF legs
<1> HIDE DEF legs
<1> QED BY <1>4, <1>5, HeardOnes DEF legs

LEMMA RoundIsNear ==
  ASSUME NEW v \in Int
  PROVE  /\ Round(v) \in Int
         /\ Round(v) - v <= Half
         /\ v - Round(v) <= Half
<1> DEFINE n == v + Half
           q == n \div SCALE
<1>1. n \in Int /\ SCALE \in Int /\ SCALE > 0 /\ Half \in Int
  BY Constants
<1>2. q \in Int /\ SCALE * q <= n /\ n < SCALE * q + SCALE
  <2> HIDE DEF n
  <2> QED BY <1>1
<1>3. SCALE * q \in Int
  BY <1>1, <1>2
<1>4. Round(v) = SCALE * q
  BY DEF Round, Half
<1>5. SCALE <= 2 * Half
  BY ReconcilerAssumption DEF ReconcilerAssumption, Half
<1> HIDE DEF q
<1> QED BY <1>1, <1>2, <1>3, <1>4, <1>5, Constants

LEMMA AssertedIsRounded ==
  ASSUME NEW v \in Int
  PROVE  /\ Asserted(v) \in Int
         /\ Asserted(v) - (IF selfTest THEN SELF_TEST_OFFSET ELSE 0) = Round(v)
<1>1. Round(v) \in Int
  BY RoundIsNear
<1>2. SELF_TEST_OFFSET \in Nat
  BY Constants
<1> QED BY <1>1, <1>2 DEF Asserted

-----------------------------------------------------------------------------
\* Types, and where an attempt is.

LEMMA TypeInit == Init => StreakTypeOK /\ Position
<1> SUFFICES ASSUME Init PROVE StreakTypeOK /\ Position
  OBVIOUS
<1>1. result \in [1..MAX_JOBS -> Results]
  BY DEF Init, Results
<1>2. ChainTypeOK
  <2>1. /\ pool \in [Accounts -> Seq(Tx)] /\ posts \in [Assets -> Nat]
        /\ posted \in [Assets -> {NotPosted} \cup [posted : {TRUE}, asserted : Int]]
        /\ attested \in [Assets -> SUBSET OnChain]
        /\ attestorCount \in [Assets -> Nat]
    BY DEF Init, Assets
  <2> QED BY <2>1 DEF Init, ChainTypeOK
<1>3. /\ at \in 1..Len(ASSETS) /\ who \in 1..Len(ATTESTORS) + 1 /\ job \in 0..MAX_JOBS
      /\ decision \in Verdicts /\ seen \in Sights
  BY Constants DEF Init, Verdicts, Sights, Unseen
<1>4. /\ selfTest \in BOOLEAN /\ attempt \in Nat /\ pc \in Places
      /\ asserted \in Int /\ source \in Nat /\ told \in Int /\ receipts \subseteq Assets
      /\ pc = "idle"
  BY DEF Init, Places
<1>5. at = 1 /\ who = 1
  BY DEF Init
<1> QED
  BY <1>1, <1>2, <1>3, <1>4, <1>5 DEF StreakTypeOK, LocalTypeOK, Position, Claiming

\* The miners leave the attempt alone, and a block does not undo one.
LEMMA MineEffect ==
  ASSUME StreakTypeOK, NEW account \in Accounts, Mine(account)
  PROVE  LET tx == Head(pool[account])
             Posts == tx.kind = "post" /\ Accepts(tx)
             Attests == tx.kind = "attest" /\ Accepts(tx)
             attestation == [by |-> tx.by, decision |-> tx.decision,
                             asserted |-> tx.asserted, seen |-> tx.seen]
         IN /\ pool[account] # <<>> /\ tx \in Tx /\ tx = pool[account][1]
            /\ pool' = [pool EXCEPT ![account] = Tail(@)]
            /\ pool' \in [Accounts -> Seq(Tx)]
            /\ posted' = IF Posts
                         THEN [posted EXCEPT ![tx.asset] =
                                 [posted |-> TRUE, asserted |-> tx.asserted]]
                         ELSE posted
            /\ attested' = IF Attests
                           THEN [attested EXCEPT ![tx.asset] = @ \cup {attestation}]
                           ELSE attested
            /\ attestorCount' = IF Attests
                                THEN [attestorCount EXCEPT ![tx.asset] = @ + 1]
                                ELSE attestorCount
            /\ tx.asset \in Assets /\ tx.asserted \in Int
            /\ Attests => attestation \in OnChain
            /\ UNCHANGED <<selfTest, job, result, attempt, pc, at, who, asserted, source,
                           told, decision, seen, posts, closed, registered, left, others,
                           receipts>>
<1> DEFINE tx == Head(pool[account])
<1>1. pool[account] \in Seq(Tx) /\ pool[account] # <<>>
  BY DEF StreakTypeOK, ChainTypeOK, Mine
<1>2. Head(pool[account]) \in Tx /\ Head(pool[account]) = pool[account][1]
      /\ Tail(pool[account]) \in Seq(Tx)
  BY <1>1
<1>3. pool' = [pool EXCEPT ![account] = Tail(@)]
  BY DEF Mine
<1>4. pool' \in [Accounts -> Seq(Tx)]
  BY <1>2, <1>3 DEF StreakTypeOK, ChainTypeOK
<1>5. Head(pool[account]).asset \in Assets /\ Head(pool[account]).asserted \in Int
  BY <1>2 DEF Tx
<1>6. tx.kind = "attest" => [by |-> tx.by, decision |-> tx.decision,
                             asserted |-> tx.asserted, seen |-> tx.seen] \in OnChain
  <2> HIDE DEF tx
  <2>1. tx \in Tx
    BY <1>2 DEF tx
  <2> QED BY <2>1 DEF Tx, OnChain
<1>7. UNCHANGED <<selfTest, job, result, attempt, pc, at, who, asserted, source,
                  told, decision, seen, posts, closed, registered, left, others, receipts>>
  BY DEF Mine, local, probed, judged
<1> QED BY <1>1, <1>2, <1>3, <1>4, <1>5, <1>6, <1>7 DEF Mine

LEMMA TypeMine ==
  ASSUME StreakTypeOK, Position, NEW account \in Accounts, Mine(account)
  PROVE  StreakTypeOK' /\ Position'
<1> DEFINE tx == Head(pool[account])
           Posts == tx.kind = "post" /\ Accepts(tx)
           Attests == tx.kind = "attest" /\ Accepts(tx)
           attestation == [by |-> tx.by, decision |-> tx.decision,
                           asserted |-> tx.asserted, seen |-> tx.seen]
           claim == [posted |-> TRUE, asserted |-> tx.asserted]
<1>1. /\ tx.asset \in Assets /\ tx.asserted \in Int
      /\ pool' \in [Accounts -> Seq(Tx)]
      /\ posted' = posted \/ posted' = [posted EXCEPT ![tx.asset] = claim]
      /\ \/ attested' = attested /\ attestorCount' = attestorCount
         \/ /\ attestation \in OnChain
            /\ attested' = [attested EXCEPT ![tx.asset] = @ \cup {attestation}]
            /\ attestorCount' = [attestorCount EXCEPT ![tx.asset] = @ + 1]
      /\ UNCHANGED <<selfTest, job, result, attempt, pc, at, who, asserted, source,
                     told, decision, seen, posts, closed, registered, left, others,
                     receipts>>
  BY MineEffect
<1>2. claim \in [posted : {TRUE}, asserted : Int]
  BY <1>1
<1>3. ChainTypeOK
  BY DEF StreakTypeOK
<1> HIDE DEF tx, claim, attestation
<1>4. posted' \in [Assets -> {NotPosted} \cup [posted : {TRUE}, asserted : Int]]
  BY <1>1, <1>2, <1>3 DEF ChainTypeOK
<1>5. attested' \in [Assets -> SUBSET OnChain]
  <2>1. attested \in [Assets -> SUBSET OnChain]
    BY <1>3 DEF ChainTypeOK
  <2>2. attestation \in OnChain => attested[tx.asset] \cup {attestation} \in SUBSET OnChain
    BY <1>1, <2>1
  <2> QED BY <1>1, <2>1, <2>2
<1>6. attestorCount' \in [Assets -> Nat]
  <2>1. attestorCount \in [Assets -> Nat]
    BY <1>3 DEF ChainTypeOK
  <2>2. attestorCount[tx.asset] + 1 \in Nat
    BY <1>1, <2>1
  <2>3. \/ attestorCount' = attestorCount
        \/ attestorCount' = [attestorCount EXCEPT ![tx.asset] = @ + 1]
    BY <1>1
  <2> QED BY <1>1, <2>1, <2>2, <2>3
<1>7. ChainTypeOK'
  BY <1>1, <1>3, <1>4, <1>5, <1>6 DEF ChainTypeOK
<1> QED BY <1>1, <1>7 DEF StreakTypeOK, LocalTypeOK, Position

\* What others do touches no transaction, and ends no claim that was attested.
LEMMA OthersEffect ==
  ASSUME StreakTypeOK,
         \/ \E a \in Assets : CloseClaim(a) \/ OthersAttest(a)
         \/ \E x \in Range(ATTESTORS) : Leave(x) \/ Register(x)
  PROVE  /\ UNCHANGED <<selfTest, job, result, attempt, pc, at, who, asserted, source,
                        told, decision, seen, pool, posts, posted, attested, receipts>>
         /\ closed \subseteq closed' /\ closed' \subseteq Assets
         /\ attestorCount' \in [Assets -> Nat]
         /\ \A a \in Assets : attestorCount'[a] >= attestorCount[a]
         /\ registered' \subseteq Range(ATTESTORS) /\ left' \subseteq Range(ATTESTORS)
         /\ left \subseteq left' /\ \A x \in registered : x \in registered' \/ x \in left'
         /\ others' \in Nat
<1>1. ChainTypeOK
  BY DEF StreakTypeOK
<1>2. ASSUME Others
      PROVE  /\ others' \in Nat
             /\ UNCHANGED <<selfTest, job, result, attempt, pc, at, who, asserted, source,
                            told, decision, seen, pool, posts, posted, attested, receipts>>
  BY <1>1, <1>2 DEF Others, ChainTypeOK, local, probed, judged
<1>3. CASE \E a \in Assets : CloseClaim(a)
  BY <1>1, <1>2, <1>3 DEF CloseClaim, ChainTypeOK
<1>4. CASE \E a \in Assets : OthersAttest(a)
  <2>1. PICK a \in Assets : OthersAttest(a)
    BY <1>4
  <2>2. PICK count \in attestorCount[a] + 1 .. MAX_ATTESTORS :
          attestorCount' = [attestorCount EXCEPT ![a] = count]
    BY <2>1 DEF OthersAttest
  <2>3. attestorCount[a] \in Nat /\ attestorCount \in [Assets -> Nat]
    BY <1>1 DEF ChainTypeOK
  <2>4. count \in Nat /\ count >= attestorCount[a]
    BY <2>2, <2>3, Constants
  <2>5. /\ attestorCount' \in [Assets -> Nat]
        /\ \A b \in Assets : attestorCount'[b] >= attestorCount[b]
    <3>1. \A b \in Assets : attestorCount'[b] = IF b = a THEN count ELSE attestorCount[b]
      BY <2>2, <2>3
    <3>2. \A b \in Assets : attestorCount[b] \in Nat
      BY <2>3
    <3> QED BY <2>2, <2>3, <2>4, <3>1, <3>2
  <2> QED BY <1>1, <1>2, <2>1, <2>5 DEF OthersAttest, ChainTypeOK
<1>5. CASE \E x \in Range(ATTESTORS) : Leave(x)
  BY <1>1, <1>2, <1>5 DEF Leave, ChainTypeOK
<1>6. CASE \E x \in Range(ATTESTORS) : Register(x)
  BY <1>1, <1>6 DEF Register, ChainTypeOK, local, probed, judged
<1> QED BY <1>3, <1>4, <1>5, <1>6

LEMMA TypeOthers ==
  ASSUME StreakTypeOK, Position,
         \/ \E a \in Assets : CloseClaim(a) \/ OthersAttest(a)
         \/ \E x \in Range(ATTESTORS) : Leave(x) \/ Register(x)
  PROVE  StreakTypeOK' /\ Position'
BY OthersEffect DEF StreakTypeOK, LocalTypeOK, ChainTypeOK, Position

\* A step of the attempt keeps the types when what it sets has its type.
LEMMA TypeFresh ==
  ASSUME NEW asset \in 1..Len(ASSETS), Fresh(asset)
  PROVE  /\ LocalTypeOK' /\ at' = asset /\ who' = 1
         /\ decision' = "none" /\ seen' = Unseen
BY Constants DEF Fresh, Undecided, Unseen, LocalTypeOK, Verdicts, Sights

LEMMA TypeEnds ==
  ASSUME StreakTypeOK, Position, pc # "idle", NEW how \in Results, Ends(how)
  PROVE  StreakTypeOK' /\ Position'
<1>1. result \in [1..MAX_JOBS -> Results] /\ job \in 1..MAX_JOBS
  BY DEF StreakTypeOK, Position
<1>2. result' = [result EXCEPT ![job] = how]
  BY DEF Ends
<1>3. result' \in [1..MAX_JOBS -> Results]
  BY <1>1, <1>2
<1>4. pc' = "idle" /\ pc' \in Places
  BY DEF Ends, Places
<1>5. LocalTypeOK' /\ at' = 1 /\ who' = 1
  BY Constants, TypeFresh DEF Ends
<1>6. ChainTypeOK'
  BY DEF Ends, StreakTypeOK, ChainTypeOK, chain, contract
<1> QED BY <1>3, <1>4, <1>5, <1>6 DEF Ends, StreakTypeOK, Position, Claiming

LEMMA TypeGoes ==
  ASSUME StreakTypeOK, Position, pc # "idle", NEW place \in Places, Goes(place),
         ChainTypeOK', LocalTypeOK', receipts' \subseteq Assets,
         place \in Starting => at' = 1 /\ who' = 1,
         place \in Claiming => who' = 1,
         place \in {"store", "extraSend", "extraWait"} => who' \in 1..Len(ATTESTORS)
  PROVE  StreakTypeOK' /\ Position'
BY DEF Goes, StreakTypeOK, Position

LEMMA TypeStays ==
  ASSUME StreakTypeOK
  PROVE  /\ UNCHANGED local => LocalTypeOK' /\ who' = who
         /\ UNCHANGED local => at' = at
         /\ UNCHANGED chain => ChainTypeOK'
         /\ UNCHANGED <<posts, contract>> =>
              (pool' \in [Accounts -> Seq(Tx)] => ChainTypeOK')
BY DEF StreakTypeOK, LocalTypeOK, ChainTypeOK, local, probed, judged, chain, contract

LEMMA TypeJudges ==
  ASSUME StreakTypeOK, Judges, source \in Nat,
         \A tells \in Paths[Asset] : source \in DOMAIN tells
  PROVE  LocalTypeOK' /\ who' = who /\ UNCHANGED <<at, probed, chain, receipts>>
<1>0. PICK tells \in Paths[Asset] : \E up \in SomeUp(tells) :
        /\ decision' = Judge(Heard(tells, up), asserted)
        /\ seen' = [moved |-> Abs(tells[source] - told), missing |-> source \notin up,
                    apart |-> Spread(tells)]
  BY DEF Judges
<1>1. PICK up \in SomeUp(tells) :
        /\ decision' = Judge(Heard(tells, up), asserted)
        /\ seen' = [moved |-> Abs(tells[source] - told), missing |-> source \notin up,
                    apart |-> Spread(tells)]
  BY <1>0
<1>2. /\ tells \in Seq(Int) /\ Len(tells) \in 1..2 /\ tells[source] \in Int
      /\ told \in Int
  BY AnAssetAtHand, SourcesTell DEF StreakTypeOK, LocalTypeOK
<1>3. decision' \in Verdicts
  BY <1>1, VerdictIsAVerdict DEF Verdicts
<1>4. seen' \in Sights
  <2>1. Spread(tells) \in Nat
    BY <1>2, SpreadOfTwo
  <2>2. Abs(tells[source] - told) \in Nat
    BY <1>2 DEF Abs
  <2> QED BY <1>1, <2>1, <2>2 DEF Sights
<1>5. who' = who /\ UNCHANGED <<at, probed, chain, receipts>>
  BY DEF Judges
<1> QED BY <1>3, <1>4, <1>5 DEF StreakTypeOK, LocalTypeOK, probed

LEMMA TypeSends ==
  ASSUME StreakTypeOK, NEW account \in Accounts, NEW tx \in Tx, Sends(account, tx)
  PROVE  pool' \in [Accounts -> Seq(Tx)]
<1>1. pool \in [Accounts -> Seq(Tx)]
  BY DEF StreakTypeOK, ChainTypeOK
<1>2. pool' = [pool EXCEPT ![account] = Append(@, tx)]
  BY DEF Sends
<1>3. Append(pool[account], tx) \in Seq(Tx)
  BY <1>1
<1> QED BY <1>1, <1>2, <1>3

LEMMA AttestorHas ==
  ASSUME StreakTypeOK, who \in 1..Len(ATTESTORS)
  PROVE  /\ Attestor \in Accounts /\ Attestor \in Range(ATTESTORS)
         /\ Attestation \in Tx /\ Asset \in Assets
<1>1. Attestor \in Accounts /\ Attestor \in Range(ATTESTORS)
  BY Constants DEF Attestor, Range
<1>2. Asset \in Assets
  BY AnAssetAtHand
<1>3. decision \in Verdicts /\ asserted \in Int /\ seen \in Sights
  BY DEF StreakTypeOK, LocalTypeOK
<1> QED BY <1>1, <1>2, <1>3 DEF Attestation, Tx

LEMMA PostingTx ==
  ASSUME StreakTypeOK
  PROVE  [kind |-> "post", asset |-> Asset, asserted |-> asserted] \in Tx
BY AnAssetAtHand DEF Tx, StreakTypeOK, LocalTypeOK

LEMMA TypeScript ==
  ASSUME StreakTypeOK, Position, AssertedAsTold, Script
  PROVE  StreakTypeOK' /\ Position'
<1>t. /\ at \in 1..Len(ASSETS) /\ who \in 1..Len(ATTESTORS) + 1 /\ source \in Nat
      /\ asserted \in Int /\ told \in Int /\ decision \in Verdicts /\ seen \in Sights
      /\ receipts \subseteq Assets
      /\ Len(ASSETS) \in Nat /\ Len(ASSETS) > 0
      /\ Len(ATTESTORS) \in Nat /\ Len(ATTESTORS) > 0
  BY Constants DEF StreakTypeOK, LocalTypeOK
<1>a. Asset \in Assets
  BY AnAssetAtHand
<1>u. Undecided => decision' \in Verdicts /\ seen' \in Sights
  BY DEF Undecided, Unseen, Verdicts, Sights
\* One that moves on and sends nothing.
<1>g. ASSUME pc # "idle", NEW place \in Places, Goes(place),
             UNCHANGED <<local, chain, receipts>>,
             place \in Starting => at = 1 /\ who = 1,
             place \in Claiming => who = 1,
             place \in {"store", "extraSend", "extraWait"} => who \in 1..Len(ATTESTORS)
      PROVE  StreakTypeOK' /\ Position'
  BY <1>g, <1>t, TypeStays, TypeGoes
<1>1. CASE Dedupe
  <2>1. PICK how \in {"run", "skipped", "ran"} :
          IF how = "run" THEN Goes("balance") /\ UNCHANGED <<local, chain, receipts>>
          ELSE Ends(how)
    BY <1>1 DEF Dedupe, decideRun
  <2>2. pc = "dedupe" /\ at = 1 /\ who = 1
    BY <1>1 DEF Dedupe, Position, Starting
  <2>3. CASE how = "run"
    BY <2>1, <2>2, <2>3, <1>g DEF Places, Claiming
  <2>4. CASE how # "run"
    <3>1. how \in Results /\ Ends(how)
      BY <2>1, <2>4 DEF Results
    <3> QED BY <2>2, <3>1, TypeEnds
  <2> QED BY <2>3, <2>4
<1>2. CASE LowBalanceGuard
  <2>1. pc = "balance" /\ at = 1 /\ who = 1
    BY <1>2 DEF LowBalanceGuard, Position, Starting
  <2>2. CASE Ends("skipped")
    BY <2>1, <2>2, TypeEnds DEF Results
  <2>3. CASE ~Ends("skipped")
    <3>1. Goes("probe") /\ UNCHANGED <<local, chain, receipts>>
      BY <1>2, <2>3 DEF LowBalanceGuard
    <3> QED BY <2>1, <3>1, <1>g DEF Places, Starting
  <2> QED BY <2>2, <2>3
<1>3. CASE Probe
  <2>1. PICK tells \in Paths[Asset] : \E up \in SomeUp(tells) :
          /\ asserted' = Asserted(Heard(tells, up)[1].valueBps)
          /\ source' = Min(up) /\ told' = tells[Min(up)]
    BY <1>3 DEF Probe
  <2>2. PICK up \in SomeUp(tells) :
          /\ asserted' = Asserted(Heard(tells, up)[1].valueBps)
          /\ source' = Min(up) /\ told' = tells[Min(up)]
    BY <2>1
  <2>3. tells \in Seq(Int) /\ Len(tells) \in 1..2 /\ DOMAIN tells = 1..Len(tells)
    BY <1>a, SourcesTell
  <2>4. Min(up) \in DOMAIN tells /\ Heard(tells, up)[1].valueBps = tells[Min(up)]
    BY <2>3, HeardOnes
  <2>5. source' \in Nat /\ told' \in Int /\ asserted' \in Int
    <3>1. tells[Min(up)] \in Int /\ Min(up) \in Nat
      BY <2>3, <2>4
    <3> QED BY <2>2, <2>4, <3>1, AssertedIsRounded
  <2>6. /\ pc = "probe" /\ Goes("compute") /\ who = 1
        /\ UNCHANGED <<at, who, judged, chain, receipts>>
    BY <1>3 DEF Probe, Position, Claiming
  <2>7. LocalTypeOK'
    BY <1>t, <2>5, <2>6 DEF LocalTypeOK, judged
  <2> QED BY <1>t, <2>6, <2>7, TypeStays, TypeGoes DEF Places, Starting
<1>j. ASSUME Judges, pc \in Probed
      PROVE  LocalTypeOK' /\ ChainTypeOK' /\ who' = who /\ receipts' = receipts
  <2>1. /\ LocalTypeOK' /\ who' = who /\ UNCHANGED <<at, probed, chain, receipts>>
    BY <1>j, <1>t, TypeJudges DEF AssertedAsTold
  <2> QED BY <2>1, TypeStays
<1>4. CASE Compute
  <2>1. pc = "compute" /\ Goes("post") /\ Judges /\ who = 1
    BY <1>4 DEF Compute, Position, Claiming
  <2> QED BY <2>1, <1>j, <1>t, TypeGoes DEF Places, Probed, Starting
<1>5. CASE PostClaim
  <2>2. pool' \in [Accounts -> Seq(Tx)]
    BY <1>5, PostingTx, Constants, TypeSends DEF PostClaim
  <2>3. posts' \in [Assets -> Nat]
    BY <1>5, <1>a DEF PostClaim, StreakTypeOK, ChainTypeOK
  <2>4. pc = "post" /\ Goes("postWait") /\ who = 1 /\ UNCHANGED <<local, contract, receipts>>
    BY <1>5 DEF PostClaim, Position, Claiming
  <2>5. ChainTypeOK'
    BY <2>2, <2>3, <2>4 DEF StreakTypeOK, ChainTypeOK, contract
  <2> QED BY <1>t, <2>4, <2>5, TypeStays, TypeGoes DEF Places, Starting
<1>6. CASE PostMined
  <2>1. receipts' \subseteq Assets
    BY <1>6, <1>t, <1>a DEF PostMined
  <2>2. /\ pc = "postWait" /\ Goes("attest") /\ who = 1 /\ UNCHANGED <<local, chain>>
    BY <1>6 DEF PostMined, Position, Claiming
  <2> QED BY <2>1, <2>2, TypeStays, TypeGoes DEF Places, Starting
<1>7. CASE Attest
  <2>1. /\ pc = "attest" /\ Goes("attestWait") /\ who = 1
        /\ Sends(Attestor, Attestation) /\ UNCHANGED <<local, posts, contract, receipts>>
    BY <1>7 DEF Attest, Position, Claiming
  <2>2. who \in 1..Len(ATTESTORS)
    BY <2>1, <1>t
  <2>3. pool' \in [Accounts -> Seq(Tx)]
    BY <2>1, <2>2, AttestorHas, TypeSends
  <2> QED BY <1>t, <2>1, <2>3, TypeStays, TypeGoes DEF Places, Starting
<1>8. CASE AttestMined
  <2>1. /\ pc = "attestWait" /\ Goes("store") /\ who = 1
        /\ UNCHANGED <<local, chain, receipts>>
    BY <1>8 DEF AttestMined, Position, Claiming
  <2>2. who \in 1..Len(ATTESTORS)
    BY <2>1, <1>t
  <2> QED BY <2>1, <2>2, <1>g DEF Places, Claiming, Starting
\* The next attestor has decided nothing yet.
<1>n. ASSUME Goes("extra"), who' = who + 1, who \in 1..Len(ATTESTORS), Undecided,
             UNCHANGED <<at, probed, chain, receipts>>, pc # "idle"
      PROVE  StreakTypeOK' /\ Position'
  <2>1. who' \in 1..Len(ATTESTORS) + 1
    BY <1>n, <1>t
  <2>2. LocalTypeOK'
    BY <1>n, <1>t, <1>u, <2>1 DEF LocalTypeOK, probed
  <2> QED BY <1>n, <1>t, <2>2, TypeStays, TypeGoes DEF Places, Claiming, Starting
<1>9. CASE StoreTrace
  BY <1>9, <1>n DEF StoreTrace, Position
<1>10. CASE NextAsset
  <2>1. pc = "extra"
    BY <1>10 DEF NextAsset
  <2>2. CASE at < Len(ASSETS)
    <3>1. Goes("probe") /\ Fresh(at + 1) /\ UNCHANGED <<chain, receipts>>
      BY <1>10, <2>2 DEF NextAsset
    <3>2. at + 1 \in 1..Len(ASSETS)
      BY <2>2, <1>t
    <3>3. LocalTypeOK' /\ who' = 1
      BY <3>1, <3>2, TypeFresh
    <3> QED BY <2>1, <3>1, <3>3, <1>t, TypeStays, TypeGoes DEF Places, Starting
  <2>3. CASE ~(at < Len(ASSETS))
    BY <1>10, <2>1, <2>3, TypeEnds DEF NextAsset, Results
  <2> QED BY <2>2, <2>3
<1>11. CASE ExtraComputes
  <2>1. /\ pc = "extra" /\ Goes("extraSend") /\ who <= Len(ATTESTORS) /\ Judges
    BY <1>11 DEF ExtraComputes
  <2>2. who \in 1..Len(ATTESTORS)
    BY <2>1, <1>t
  <2> QED BY <2>1, <2>2, <1>j, <1>t, TypeGoes
          DEF Places, Probed, Finishing, Claiming, Starting
<1>12. CASE ExtraSends
  <2>1. /\ pc = "extraSend" /\ Goes("extraWait") /\ who \in 1..Len(ATTESTORS)
        /\ Sends(Attestor, Attestation) /\ UNCHANGED <<local, posts, contract, receipts>>
    BY <1>12 DEF ExtraSends, Position
  <2>2. pool' \in [Accounts -> Seq(Tx)]
    BY <2>1, AttestorHas, TypeSends
  <2> QED BY <1>t, <2>1, <2>2, TypeStays, TypeGoes DEF Places, Claiming, Starting
<1>13. CASE ExtraMined
  <2>1. /\ pc = "extraWait" /\ Goes("store") /\ who \in 1..Len(ATTESTORS)
        /\ UNCHANGED <<local, chain, receipts>>
    BY <1>13 DEF ExtraMined, Position
  <2> QED BY <2>1, <1>g DEF Places, Claiming, Starting
<1>14. CASE ExtraSkipped
  <2>1. who \in 1..Len(ATTESTORS) /\ pc # "idle"
    BY <1>14, <1>t DEF ExtraSkipped
  <2> QED BY <1>14, <2>1, <1>n DEF ExtraSkipped
<1> QED
  BY <1>1, <1>2, <1>3, <1>4, <1>5, <1>6, <1>7, <1>8, <1>9, <1>10, <1>11, <1>12, <1>13,
     <1>14 DEF Script

LEMMA TypeStep ==
  ASSUME StreakTypeOK, Position, AssertedAsTold, [Next]_vars
  PROVE  StreakTypeOK' /\ Position'
<1>1. CASE \/ \E a \in Range(ASSETS) : CloseClaim(a) \/ OthersAttest(a)
           \/ \E x \in Range(ATTESTORS) : Leave(x) \/ Register(x)
  BY <1>1, TypeOthers DEF Assets
<1>2. CASE \E account \in Accounts : Mine(account)
  BY <1>2, TypeMine
<1>3. CASE StartJob
  <2>1. /\ job' \in 1..MAX_JOBS /\ job' \in 0..MAX_JOBS /\ result' \in [1..MAX_JOBS -> Results]
        /\ attempt' \in Nat /\ pc' = "dedupe"
    <3>1. job \in 0..MAX_JOBS /\ job < MAX_JOBS /\ job' = job + 1
      BY <1>3 DEF StartJob, StreakTypeOK
    <3>2. job + 1 \in 1..MAX_JOBS /\ job + 1 \in 0..MAX_JOBS
      BY <3>1, Constants
    <3>3. result' \in [1..MAX_JOBS -> Results]
      BY <1>3, <3>2 DEF StartJob, StreakTypeOK, Results
    <3> QED BY <1>3, <3>1, <3>2, <3>3 DEF StartJob
  <2>2. /\ UNCHANGED <<selfTest, receipts>> /\ LocalTypeOK' /\ ChainTypeOK'
        /\ at' = 1 /\ who' = 1
    <3>1. UNCHANGED <<selfTest, local, chain, receipts>> /\ at = 1 /\ who = 1
      BY <1>3 DEF StartJob, Position, Starting
    <3> QED BY <3>1, TypeStays
  <2> QED BY <2>1, <2>2 DEF StreakTypeOK, Position, Places, Claiming
<1>4. CASE KillJob
  BY <1>4, TypeEnds DEF KillJob, Results
<1>5. CASE Throw
  <2>1. CASE attempt = 1
    <3>1. /\ attempt' = 2 /\ pc' = "dedupe" /\ pc # "idle" /\ Fresh(1)
          /\ UNCHANGED <<selfTest, job, result, chain, receipts>>
      BY <1>5, <2>1 DEF Throw
    <3>2. LocalTypeOK' /\ ChainTypeOK' /\ at' = 1 /\ who' = 1
      BY <3>1, Constants, TypeFresh, TypeStays
    <3> QED BY <3>1, <3>2 DEF StreakTypeOK, Position, Places, Claiming
  <2>2. CASE attempt # 1
    BY <1>5, <2>2, TypeEnds DEF Throw, Results
  <2> QED BY <2>1, <2>2
<1>6. CASE Script
  BY <1>6, TypeScript
<1>7. CASE UNCHANGED vars
  BY <1>7, TypeStays DEF vars, StreakTypeOK, Position
<1> QED BY <1>1, <1>2, <1>3, <1>4, <1>5, <1>6, <1>7 DEF Next

-----------------------------------------------------------------------------
\* Decisions.

\* A wrong verdict needs the value it is on to lie apart from the asserted one.
LEMMA JudgedRight ==
  ASSUME StreakTypeOK, AssertedAsTold, pc \in Probed,
         NEW tells \in Paths[Asset], NEW up \in SomeUp(tells)
  PROVE  Excused(Judge(Heard(tells, up), asserted),
                 [moved |-> Abs(tells[source] - told), missing |-> source \notin up,
                  apart |-> Spread(tells)])
<1> DEFINE moved == Abs(tells[source] - told)
           apart == Spread(tells)
           offset == IF selfTest THEN SELF_TEST_OFFSET ELSE 0
<1> SUFFICES ASSUME Judge(Heard(tells, up), asserted) = Wrong
             PROVE  2 * Margin <= 2 * moved + SCALE + 1
                       + IF source \notin up THEN 2 * apart ELSE reconcileToleranceBps
  BY DEF Excused
<1>1. /\ tells \in Seq(Int) /\ Len(tells) \in 1..2 /\ source \in DOMAIN tells
      /\ tells[source] \in Int /\ told \in Int /\ asserted \in Int
      /\ asserted = Asserted(told)
  BY AnAssetAtHand, SourcesTell DEF AssertedAsTold, StreakTypeOK, LocalTypeOK
<1>2. PICK r \in Int :
        /\ Judge(Heard(tells, up), asserted) =
             IF Abs(r - asserted) <= verdictToleranceBps THEN "VALID" ELSE "REJECTED"
        /\ source \in up => /\ 2 * r - 2 * tells[source] <= reconcileToleranceBps + 1
                            /\ 2 * tells[source] - 2 * r <= reconcileToleranceBps + 1
        /\ source \notin up => /\ r - tells[source] <= Spread(tells)
                               /\ tells[source] - r <= Spread(tells)
  <2>1. Judge(Heard(tells, up), asserted) # "ABSTAIN"
    BY DEF Wrong
  <2> QED BY <1>1, <2>1, JudgedValue
<1>3. PICK R \in Int : /\ R = Round(told) /\ asserted = R + offset
                       /\ R - told <= Half /\ told - R <= Half
  <2>1. /\ Round(told) \in Int /\ Round(told) - told <= Half /\ told - Round(told) <= Half
    BY <1>1, RoundIsNear
  <2>2. asserted - offset = Round(told)
    BY <1>1, AssertedIsRounded
  <2>3. offset \in Int
    BY Constants
  <2> HIDE DEF offset
  <2> QED BY <1>1, <2>1, <2>2, <2>3
<1>4. PICK t \in Int, p \in Int, m \in Nat, d \in Nat, w \in Int, h \in Int :
        /\ t = tells[source] /\ p = told /\ m = moved /\ d = apart
        /\ w = verdictToleranceBps /\ h = Half
        /\ t - p <= m /\ p - t <= m
  <2>1. apart \in Nat
    BY <1>1, SpreadOfTwo
  <2>2. /\ moved \in Nat /\ tells[source] - told <= moved /\ told - tells[source] <= moved
    BY <1>1 DEF Abs
  <2> HIDE DEF moved, apart
  <2> QED BY <1>1, <2>1, <2>2, Constants
<1>5. PICK e \in Int :
        /\ e = IF source \notin up THEN 2 * d ELSE reconcileToleranceBps + 1
        /\ 2 * r - 2 * t <= e /\ 2 * t - 2 * r <= e
  <2>1. CASE source \in up
    BY <1>2, <1>4, <2>1, Constants
  <2>2. CASE source \notin up
    <3>1. r - t <= d /\ t - r <= d
      BY <1>2, <1>4, <2>2
    <3>2. 2 * d \in Int /\ 2 * r - 2 * t <= 2 * d /\ 2 * t - 2 * r <= 2 * d
      BY <3>1
    <3> QED BY <2>2, <3>2
  <2> QED BY <2>1, <2>2
<1>6. /\ 2 * r - 2 * R <= e + 2 * m + 2 * h /\ 2 * R - 2 * r <= e + 2 * m + 2 * h
      /\ 2 * h <= SCALE /\ SCALE \in Int
  <2>1. R - p <= h /\ p - R <= h /\ t - p <= m /\ p - t <= m
    BY <1>3, <1>4
  <2>2. 2 * r - 2 * t <= e /\ 2 * t - 2 * r <= e
    BY <1>5
  <2>3. 2 * h <= SCALE /\ SCALE \in Int
    BY <1>4, Constants
  <2> QED BY <2>1, <2>2, <2>3
<1> HIDE DEF offset, moved, apart
<1>7. 2 * Margin <= e + 2 * m + SCALE
  <2>1. CASE selfTest
    <3>1. Margin = SELF_TEST_OFFSET - w /\ offset = SELF_TEST_OFFSET
      BY <1>4, <2>1 DEF Margin, offset
    <3>2. Abs(r - asserted) <= w
      BY <1>2, <1>4, <2>1 DEF Wrong
    <3>3. asserted - r <= w
      BY <1>1, <1>4, <3>2 DEF Abs
    <3>4. SELF_TEST_OFFSET \in Int /\ R + SELF_TEST_OFFSET - r <= w
      BY <1>3, <3>1, <3>3, Constants
    <3>5. 2 * Margin <= 2 * r - 2 * R
      BY <3>1, <3>4
    <3> QED BY <1>6, <3>1, <3>4, <3>5
  <2>2. CASE ~selfTest
    <3>1. Margin = w /\ asserted = R
      BY <1>3, <1>4, <2>2 DEF Margin, offset
    <3>2. ~(Abs(r - R) <= w)
      BY <1>2, <1>4, <2>2, <3>1 DEF Wrong
    <3>3. r - R > w \/ R - r > w
      BY <1>4, <3>2 DEF Abs
    <3> QED BY <1>6, <3>1, <3>3
  <2> QED BY <2>1, <2>2
<1>8. SCALE \in Int /\ Margin \in Int /\ reconcileToleranceBps \in Int
  BY Constants DEF Margin
<1> QED BY <1>4, <1>5, <1>7, <1>8

\* What a pool holds after a transaction was sent, or mined.
LEMMA PoolAfterSend ==
  ASSUME StreakTypeOK, NEW account \in Accounts, NEW tx \in Tx, Sends(account, tx)
  PROVE  /\ \A x \in Accounts : \A i \in 1..Len(pool'[x]) :
              \/ x = account /\ pool'[x][i] = tx
              \/ i \in 1..Len(pool[x]) /\ pool'[x][i] = pool[x][i]
         /\ \A x \in Accounts : \A i \in 1..Len(pool[x]) :
              i \in 1..Len(pool'[x]) /\ pool'[x][i] = pool[x][i]
         /\ \E i \in 1..Len(pool'[account]) : pool'[account][i] = tx
<1> DEFINE s == pool[account]
<1>1. s \in Seq(Tx) /\ pool \in [Accounts -> Seq(Tx)]
  BY DEF StreakTypeOK, ChainTypeOK
<1>2. /\ pool'[account] = Append(s, tx)
      /\ \A x \in Accounts : x # account => pool'[x] = pool[x]
  BY <1>1 DEF Sends
<1>3. /\ Len(Append(s, tx)) = Len(s) + 1 /\ Len(s) \in Nat
      /\ \A i \in 1..Len(s) : Append(s, tx)[i] = s[i]
      /\ Append(s, tx)[Len(s) + 1] = tx
  <2> HIDE DEF s
  <2> QED BY <1>1
<1> DEFINE t == Append(s, tx)
<1>4. /\ \A i \in 1..Len(t) : t[i] = tx \/ (i \in 1..Len(s) /\ t[i] = s[i])
      /\ \A i \in 1..Len(s) : i \in 1..Len(t) /\ t[i] = s[i]
      /\ \E i \in 1..Len(t) : t[i] = tx
  <2> HIDE DEF s
  <2>1. Len(s) + 1 \in 1..Len(t) /\ \A i \in 1..Len(s) : i \in 1..Len(t)
    BY <1>3
  <2>2. ASSUME NEW i \in 1..Len(t) PROVE t[i] = tx \/ (i \in 1..Len(s) /\ t[i] = s[i])
    <3>1. i = Len(s) + 1 \/ i \in 1..Len(s)
      BY <1>3
    <3>2. CASE i = Len(s) + 1
      BY <1>3, <3>2
    <3>3. CASE i \in 1..Len(s)
      BY <1>3, <3>3
    <3> QED BY <3>1, <3>2, <3>3
  <2> QED BY <1>3, <2>1, <2>2
<1> HIDE DEF t
<1> QED BY <1>2, <1>4 DEF t

LEMMA PoolAfterMine ==
  ASSUME StreakTypeOK, NEW account \in Accounts, Mine(account)
  PROVE  /\ \A x \in Accounts : \A i \in 1..Len(pool'[x]) :
              \E j \in 1..Len(pool[x]) : pool'[x][i] = pool[x][j]
         /\ \A x \in Accounts : \A j \in 1..Len(pool[x]) :
              \/ x = account /\ pool[x][j] = Head(pool[account])
              \/ \E i \in 1..Len(pool'[x]) : pool'[x][i] = pool[x][j]
         /\ 1 \in 1..Len(pool[account])
<1> DEFINE s == pool[account]
           t == Tail(s)
<1>1. s \in Seq(Tx) /\ pool \in [Accounts -> Seq(Tx)] /\ s # <<>>
  BY MineEffect DEF StreakTypeOK, ChainTypeOK
<1>2. /\ pool'[account] = t
      /\ \A x \in Accounts : x # account => pool'[x] = pool[x]
  BY <1>1, MineEffect
<1>3. /\ Len(t) = Len(s) - 1 /\ Len(s) \in Nat /\ Len(s) >= 1 /\ Head(s) = s[1]
      /\ \A i \in 1..Len(t) : t[i] = s[i + 1]
  <2> HIDE DEF s
  <2> QED BY <1>1
<1>4. /\ \A i \in 1..Len(t) : \E j \in 1..Len(s) : t[i] = s[j]
      /\ \A j \in 1..Len(s) : s[j] = Head(s) \/ \E i \in 1..Len(t) : t[i] = s[j]
      /\ 1 \in 1..Len(s)
  <2> HIDE DEF s, t
  <2>1. ASSUME NEW i \in 1..Len(t) PROVE \E j \in 1..Len(s) : t[i] = s[j]
    <3>1. i + 1 \in 1..Len(s) /\ t[i] = s[i + 1]
      BY <1>3
    <3> QED BY <3>1
  <2>2. ASSUME NEW j \in 1..Len(s), j # 1 PROVE \E i \in 1..Len(t) : t[i] = s[j]
    <3>1. j - 1 \in 1..Len(t) /\ (j - 1) + 1 = j
      BY <1>3, <2>2
    <3>2. t[j - 1] = s[j]
      BY <1>3, <3>1
    <3> QED BY <3>1, <3>2
  <2> QED BY <1>3, <2>1, <2>2
<1> HIDE DEF s, t
<1>5. ASSUME NEW x \in Accounts, NEW i \in 1..Len(pool'[x])
      PROVE  \E j \in 1..Len(pool[x]) : pool'[x][i] = pool[x][j]
  BY <1>2, <1>4 DEF s
<1>6. ASSUME NEW x \in Accounts, NEW j \in 1..Len(pool[x])
      PROVE  \/ x = account /\ pool[x][j] = Head(pool[account])
             \/ \E i \in 1..Len(pool'[x]) : pool'[x][i] = pool[x][j]
  <2>1. CASE x = account
    <3>1. pool'[x] = t /\ pool[x] = s
      BY <1>2, <2>1 DEF s
    <3> QED BY <1>4, <2>1, <3>1 DEF s
  <2>2. CASE x # account
    BY <1>2, <2>2
  <2> QED BY <2>1, <2>2
<1> QED BY <1>4, <1>5, <1>6 DEF s

LEMMA DecisionsInit == Init => DecisionsAreRight
<1> SUFFICES ASSUME Init PROVE DecisionsAreRight
  OBVIOUS
<1>1. AssertedAsTold
  BY DEF Init, AssertedAsTold, Probed, Finishing
<1>2. Excused(decision, seen)
  BY DEF Init, Excused, Wrong
<1>3. \A x \in Accounts : \A i \in 1..Len(pool[x]) :
        pool[x][i].kind = "attest" => Excused(pool[x][i].decision, pool[x][i].seen)
  BY DEF Init
<1>4. \A a \in Assets : \A x \in attested[a] : Excused(x.decision, x.seen)
  BY DEF Init, Assets
<1> QED BY <1>1, <1>2, <1>3, <1>4 DEF DecisionsAreRight

\* The kind of the day never changes, so that an excuse stays one.
LEMMA ExcusesStay ==
  ASSUME UNCHANGED selfTest
  PROVE  \A verdict, sight : Excused(verdict, sight)' <=> Excused(verdict, sight)
BY DEF Excused, Wrong, Margin

LEMMA ToldStays ==
  ASSUME AssertedAsTold, UNCHANGED <<selfTest, at, probed>>, pc' \in Probed => pc \in Probed
  PROVE  AssertedAsTold'
BY DEF AssertedAsTold, Asserted, Asset, probed

\* A step that decides, sends and mines nothing.
LEMMA DecisionsQuiet ==
  ASSUME DecisionsAreRight, UNCHANGED <<selfTest, pool, attested>>, AssertedAsTold',
         UNCHANGED judged \/ Undecided
  PROVE  DecisionsAreRight'
<1>1. Excused(decision, seen)'
  <2>1. CASE UNCHANGED judged
    BY <2>1 DEF DecisionsAreRight, Excused, Wrong, Margin, judged
  <2>2. CASE Undecided
    BY <2>2 DEF Undecided, Excused, Wrong
  <2> QED BY <2>1, <2>2
<1>2. /\ \A x \in Accounts : \A i \in 1..Len(pool[x]) :
           pool[x][i].kind = "attest" => Excused(pool[x][i].decision, pool[x][i].seen)
      /\ \A a \in Assets : \A x \in attested[a] : Excused(x.decision, x.seen)
  BY DEF DecisionsAreRight
<1> QED BY <1>1, <1>2 DEF DecisionsAreRight, Excused, Wrong, Margin

\* One that decides.
LEMMA DecisionsComputed ==
  ASSUME StreakTypeOK, DecisionsAreRight, pc \in Probed, pc' \in Probed,
         UNCHANGED selfTest, Judges
  PROVE  DecisionsAreRight'
<1>1. PICK tells \in Paths[Asset] : \E up \in SomeUp(tells) :
        /\ decision' = Judge(Heard(tells, up), asserted)
        /\ seen' = [moved |-> Abs(tells[source] - told), missing |-> source \notin up,
                    apart |-> Spread(tells)]
  BY DEF Judges
<1>2. PICK up \in SomeUp(tells) :
        /\ decision' = Judge(Heard(tells, up), asserted)
        /\ seen' = [moved |-> Abs(tells[source] - told), missing |-> source \notin up,
                    apart |-> Spread(tells)]
  BY <1>1
<1>3. Excused(decision', seen')
  BY <1>2, JudgedRight DEF DecisionsAreRight
<1>4. UNCHANGED <<at, probed, pool, attested>>
  BY DEF Judges, chain, contract
<1>5. AssertedAsTold'
  BY <1>4, ToldStays DEF DecisionsAreRight
<1>6. /\ \A x \in Accounts : \A i \in 1..Len(pool[x]) :
           pool[x][i].kind = "attest" => Excused(pool[x][i].decision, pool[x][i].seen)
      /\ \A a \in Assets : \A x \in attested[a] : Excused(x.decision, x.seen)
  BY DEF DecisionsAreRight
<1> QED BY <1>3, <1>4, <1>5, <1>6 DEF DecisionsAreRight, Excused, Wrong, Margin

\* One that sends what was decided.
LEMMA DecisionsSent ==
  ASSUME StreakTypeOK, DecisionsAreRight, pc \in Probed,
         UNCHANGED <<selfTest, local, attested>>,
         NEW account \in Accounts, NEW tx \in Tx, Sends(account, tx),
         tx.kind = "attest" => tx.decision = decision /\ tx.seen = seen
  PROVE  DecisionsAreRight'
<1>1. AssertedAsTold'
  BY ToldStays DEF DecisionsAreRight, local
<1>2. ASSUME NEW x \in Accounts, NEW i \in 1..Len(pool'[x]), pool'[x][i].kind = "attest"
      PROVE  Excused(pool'[x][i].decision, pool'[x][i].seen)
  <2>1. CASE pool'[x][i] = tx
    BY <1>2, <2>1 DEF DecisionsAreRight
  <2>2. CASE i \in 1..Len(pool[x]) /\ pool'[x][i] = pool[x][i]
    BY <1>2, <2>2 DEF DecisionsAreRight
  <2> QED BY <2>1, <2>2, PoolAfterSend
<1>3. Excused(decision, seen) /\ \A a \in Assets : \A x \in attested[a] : Excused(x.decision, x.seen)
  BY DEF DecisionsAreRight
<1> QED BY <1>1, <1>2, <1>3 DEF DecisionsAreRight, Excused, Wrong, Margin, local, judged

LEMMA DecisionsMine ==
  ASSUME StreakTypeOK, DecisionsAreRight, NEW account \in Accounts, Mine(account)
  PROVE  DecisionsAreRight'
<1> DEFINE tx == Head(pool[account])
           attestation == [by |-> tx.by, decision |-> tx.decision,
                           asserted |-> tx.asserted, seen |-> tx.seen]
<1>1. /\ tx \in Tx /\ tx = pool[account][1] /\ tx.asset \in Assets
      /\ UNCHANGED <<selfTest, pc, at, probed, judged>>
      /\ \/ attested' = attested
         \/ /\ tx.kind = "attest"
            /\ attested' = [attested EXCEPT ![tx.asset] = @ \cup {attestation}]
  BY MineEffect DEF probed, judged
<1>2. AssertedAsTold'
  BY <1>1, ToldStays DEF DecisionsAreRight
<1>3. ASSUME NEW x \in Accounts, NEW i \in 1..Len(pool'[x]), pool'[x][i].kind = "attest"
      PROVE  Excused(pool'[x][i].decision, pool'[x][i].seen)
  <2>1. PICK j \in 1..Len(pool[x]) : pool'[x][i] = pool[x][j]
    BY PoolAfterMine
  <2> QED BY <1>3, <2>1 DEF DecisionsAreRight
<1>4. tx.kind = "attest" => Excused(attestation.decision, attestation.seen)
  BY <1>1, PoolAfterMine DEF DecisionsAreRight
<1>k. attested \in [Assets -> SUBSET OnChain]
  BY DEF StreakTypeOK, ChainTypeOK
<1> HIDE DEF tx, attestation
<1>5. ASSUME NEW a \in Assets, NEW x \in attested'[a]
      PROVE  Excused(x.decision, x.seen)
  <2>1. x \in attested[a] \/ (tx.kind = "attest" /\ x = attestation)
    BY <1>1, <1>5, <1>k
  <2> QED BY <1>4, <2>1 DEF DecisionsAreRight
<1>6. Excused(decision, seen)
  BY DEF DecisionsAreRight
<1> QED BY <1>1, <1>2, <1>3, <1>5, <1>6
        DEF DecisionsAreRight, Excused, Wrong, Margin, judged

LEMMA DecisionsEnds ==
  ASSUME DecisionsAreRight, NEW how, Ends(how)
  PROVE  DecisionsAreRight'
<1>1. UNCHANGED <<selfTest, pool, attested>> /\ Undecided /\ AssertedAsTold'
  BY DEF Ends, Fresh, chain, contract, AssertedAsTold, Probed, Finishing
<1> QED BY <1>1, DecisionsQuiet

LEMMA DecisionsScript ==
  ASSUME StreakTypeOK, Position, DecisionsAreRight, Script
  PROVE  DecisionsAreRight'
<1>a. AssertedAsTold
  BY DEF DecisionsAreRight
\* The attempt moves on with all it has at hand.
<1>n. ASSUME UNCHANGED <<selfTest, local, chain>>, pc' \in Probed => pc \in Probed
      PROVE  DecisionsAreRight'
  BY <1>n, <1>a, ToldStays, DecisionsQuiet DEF local, chain, contract
<1>u. ASSUME UNCHANGED <<selfTest, at, probed, chain>>, Undecided, pc \in Probed
      PROVE  DecisionsAreRight'
  BY <1>u, <1>a, ToldStays, DecisionsQuiet DEF chain, contract
<1>s. ASSUME Sends(Attestor, Attestation), who \in 1..Len(ATTESTORS), pc \in Probed,
             UNCHANGED <<selfTest, local, contract>>
      PROVE  DecisionsAreRight'
  <2>1. /\ Attestor \in Accounts /\ Attestation \in Tx
        /\ Attestation.decision = decision /\ Attestation.seen = seen
    BY <1>s, AttestorHas DEF Attestation
  <2> QED BY <1>s, <2>1, DecisionsSent DEF contract
<1>m. Finishing \subseteq Probed /\ "compute" \in Probed
  BY DEF Probed
<1>1. CASE Dedupe
  <2>1. \/ Goes("balance") /\ UNCHANGED <<local, chain>>
        \/ \E how \in {"skipped", "ran"} : Ends(how)
    BY <1>1 DEF Dedupe, decideRun
  <2> QED BY <2>1, <1>n, DecisionsEnds DEF Goes, Probed, Finishing
<1>2. CASE LowBalanceGuard
  <2>1. Ends("skipped") \/ (Goes("probe") /\ UNCHANGED <<local, chain>>)
    BY <1>2 DEF LowBalanceGuard
  <2> QED BY <2>1, <1>n, DecisionsEnds DEF Goes, Probed, Finishing
<1>3. CASE Probe
  <2>1. PICK tells \in Paths[Asset] : \E up \in SomeUp(tells) :
          /\ asserted' = Asserted(Heard(tells, up)[1].valueBps)
          /\ source' = Min(up) /\ told' = tells[Min(up)]
    BY <1>3 DEF Probe
  <2>2. PICK up \in SomeUp(tells) :
          /\ asserted' = Asserted(Heard(tells, up)[1].valueBps)
          /\ source' = Min(up) /\ told' = tells[Min(up)]
    BY <2>1
  <2>3. /\ UNCHANGED <<selfTest, at, judged, pool, attested>>
    BY <1>3 DEF Probe, Goes, chain, contract
  <2>4. tells \in Seq(Int) /\ Len(tells) \in 1..2 /\ Asset \in Assets
    BY AnAssetAtHand, SourcesTell
  <2>5. asserted' = Asserted(told') /\ source' \in DOMAIN tells
    BY <2>2, <2>4, HeardOnes
  <2>6. \A before \in Paths[Asset] : source' \in DOMAIN before
    BY <2>4, <2>5, SourcesTell
  <2>7. AssertedAsTold'
    BY <2>3, <2>5, <2>6 DEF AssertedAsTold, Asserted, Asset
  <2> QED BY <2>3, <2>7, DecisionsQuiet
<1>4. CASE Compute
  BY <1>4, DecisionsComputed DEF Compute, Goes, Probed
<1>5. CASE PostClaim
  <2> DEFINE tx == [kind |-> "post", asset |-> Asset, asserted |-> asserted]
  <2>1. /\ pc = "post" /\ Sends(Poster, tx) /\ Poster \in Accounts /\ tx \in Tx
        /\ UNCHANGED <<selfTest, local, attested>>
    BY <1>5, Constants, PostingTx DEF PostClaim, Goes, contract
  <2>2. tx.kind # "attest"
    OBVIOUS
  <2> HIDE DEF tx
  <2> QED BY <2>1, <2>2, DecisionsSent DEF Probed
<1>6. CASE PostMined
  BY <1>6, <1>n DEF PostMined, Goes, Probed
<1>7. CASE Attest
  <2>1. /\ pc = "attest" /\ Sends(Attestor, Attestation) /\ who \in 1..Len(ATTESTORS)
        /\ UNCHANGED <<selfTest, local, contract>>
    BY <1>7, Constants DEF Attest, Goes, Position, Claiming
  <2> QED BY <2>1, <1>s DEF Probed
<1>8. CASE AttestMined
  BY <1>8, <1>n DEF AttestMined, Goes, Probed
<1>9. CASE StoreTrace
  BY <1>9, <1>u, <1>m DEF StoreTrace, Goes, Finishing
<1>10. CASE NextAsset
  <2>1. CASE Ends("posted")
    BY <2>1, DecisionsEnds
  <2>2. CASE ~Ends("posted")
    <3>1. Goes("probe") /\ Fresh(at + 1) /\ UNCHANGED <<chain, receipts>>
      BY <1>10, <2>2 DEF NextAsset
    <3>2. UNCHANGED <<selfTest, pool, attested>> /\ Undecided /\ AssertedAsTold'
      BY <3>1 DEF Goes, Fresh, chain, contract, AssertedAsTold, Probed, Finishing
    <3> QED BY <3>2, DecisionsQuiet
  <2> QED BY <2>1, <2>2
<1>11. CASE ExtraComputes
  BY <1>11, <1>m, DecisionsComputed DEF ExtraComputes, Goes, Finishing
<1>12. CASE ExtraSends
  <2>1. /\ pc = "extraSend" /\ Sends(Attestor, Attestation) /\ who \in 1..Len(ATTESTORS)
        /\ UNCHANGED <<selfTest, local, contract>>
    BY <1>12 DEF ExtraSends, Goes, Position
  <2> QED BY <2>1, <1>s, <1>m DEF Finishing
<1>13. CASE ExtraMined
  BY <1>13, <1>n, <1>m DEF ExtraMined, Goes, Finishing
<1>14. CASE ExtraSkipped
  BY <1>14, <1>u, <1>m DEF ExtraSkipped, Goes, Finishing
<1> QED
  BY <1>1, <1>2, <1>3, <1>4, <1>5, <1>6, <1>7, <1>8, <1>9, <1>10, <1>11, <1>12, <1>13,
     <1>14 DEF Script

LEMMA DecisionsStep ==
  ASSUME StreakTypeOK, Position, DecisionsAreRight, [Next]_vars
  PROVE  DecisionsAreRight'
<1>a. AssertedAsTold
  BY DEF DecisionsAreRight
<1>n. ASSUME UNCHANGED <<selfTest, at, probed, judged, pool, attested>>,
             pc' \in Probed => pc \in Probed
      PROVE  DecisionsAreRight'
  BY <1>n, <1>a, ToldStays, DecisionsQuiet
<1>1. CASE \/ \E a \in Range(ASSETS) : CloseClaim(a) \/ OthersAttest(a)
           \/ \E x \in Range(ATTESTORS) : Leave(x) \/ Register(x)
  BY <1>1, <1>n, OthersEffect DEF Assets, probed, judged
<1>2. CASE \E account \in Accounts : Mine(account)
  BY <1>2, DecisionsMine
<1>3. CASE StartJob
  BY <1>3, <1>n DEF StartJob, local, chain, contract, Probed, Finishing
<1>4. CASE KillJob
  BY <1>4, DecisionsEnds DEF KillJob
<1>5. CASE Throw
  <2>1. CASE attempt = 1
    <3>1. UNCHANGED <<selfTest, pool, attested>> /\ Undecided /\ AssertedAsTold'
      BY <1>5, <2>1 DEF Throw, Fresh, chain, contract, AssertedAsTold, Probed, Finishing
    <3> QED BY <3>1, DecisionsQuiet
  <2>2. CASE attempt # 1
    BY <1>5, <2>2, DecisionsEnds DEF Throw
  <2> QED BY <2>1, <2>2
<1>6. CASE Script
  BY <1>6, DecisionsScript
<1>7. CASE UNCHANGED vars
  BY <1>7, <1>n DEF vars, local, chain, contract
<1> QED BY <1>1, <1>2, <1>3, <1>4, <1>5, <1>6, <1>7 DEF Next

-----------------------------------------------------------------------------
\* What was done stays done.

LEMMA ChainGrows ==
  ASSUME StreakTypeOK, [Next]_vars
  PROVE  /\ \A a \in Assets : posted[a] # NotPosted => posted'[a] = posted[a]
         /\ \A a \in Assets : attested[a] \subseteq attested'[a]
         /\ \A a \in Assets : attestorCount[a] >= MAX_ATTESTORS =>
                               attestorCount'[a] >= MAX_ATTESTORS
         /\ closed \subseteq closed' /\ left \subseteq left'
<1>t. ChainTypeOK
  BY DEF StreakTypeOK
<1>1. CASE \E account \in Accounts : Mine(account)
  <2>1. PICK account \in Accounts : Mine(account)
    BY <1>1
  <2> DEFINE tx == Head(pool[account])
             claim == [posted |-> TRUE, asserted |-> tx.asserted]
             attestation == [by |-> tx.by, decision |-> tx.decision,
                             asserted |-> tx.asserted, seen |-> tx.seen]
  <2>2. /\ tx.asset \in Assets
        /\ \/ posted' = posted
           \/ /\ tx.kind = "post" /\ Accepts(tx)
              /\ posted' = [posted EXCEPT ![tx.asset] = claim]
        /\ \/ attested' = attested
           \/ attested' = [attested EXCEPT ![tx.asset] = @ \cup {attestation}]
        /\ \/ attestorCount' = attestorCount
           \/ attestorCount' = [attestorCount EXCEPT ![tx.asset] = @ + 1]
        /\ UNCHANGED <<closed, left>>
    BY <2>1, MineEffect
  <2>3. tx.kind = "post" /\ Accepts(tx) => posted[tx.asset] = NotPosted
    BY DEF Accepts
  <2> HIDE DEF tx, claim, attestation
  <2>4. ASSUME NEW a \in Assets, posted[a] # NotPosted
        PROVE  posted'[a] = posted[a]
    BY <2>2, <2>3, <2>4, <1>t DEF ChainTypeOK
  <2>5. ASSUME NEW a \in Assets
        PROVE  attested[a] \subseteq attested'[a]
    BY <2>2, <1>t DEF ChainTypeOK
  <2>6. ASSUME NEW a \in Assets, attestorCount[a] >= MAX_ATTESTORS
        PROVE  attestorCount'[a] >= MAX_ATTESTORS
    <3>1. attestorCount \in [Assets -> Nat] /\ attestorCount[a] \in Nat
      BY <1>t DEF ChainTypeOK
    <3>2. attestorCount'[a] = attestorCount[a] \/ attestorCount'[a] = attestorCount[a] + 1
      BY <2>2, <3>1
    <3> QED BY <2>6, <3>1, <3>2, Constants
  <2> QED BY <2>2, <2>4, <2>5, <2>6
<1>2. CASE \/ \E a \in Range(ASSETS) : CloseClaim(a) \/ OthersAttest(a)
           \/ \E x \in Range(ATTESTORS) : Leave(x) \/ Register(x)
  <2>1. /\ UNCHANGED <<posted, attested>> /\ closed \subseteq closed' /\ left \subseteq left'
        /\ \A a \in Assets : attestorCount'[a] >= attestorCount[a]
        /\ attestorCount' \in [Assets -> Nat]
    BY <1>2, OthersEffect DEF Assets
  <2>2. ASSUME NEW a \in Assets, attestorCount[a] >= MAX_ATTESTORS
        PROVE  attestorCount'[a] >= MAX_ATTESTORS
    <3>1. attestorCount[a] \in Nat /\ attestorCount'[a] \in Nat
      BY <1>t, <2>1 DEF ChainTypeOK
    <3>2. attestorCount'[a] >= attestorCount[a]
      BY <2>1
    <3> QED BY <2>2, <3>1, <3>2, Constants
  <2> QED BY <2>1, <2>2
<1>3. CASE ~((\E account \in Accounts : Mine(account))
             \/ (\E a \in Range(ASSETS) : CloseClaim(a) \/ OthersAttest(a))
             \/ (\E x \in Range(ATTESTORS) : Leave(x) \/ Register(x)))
  <2>1. UNCHANGED contract
    <3>1. CASE Script
      BY <3>1 DEF Script, Dedupe, LowBalanceGuard, Probe, Compute, PostClaim, PostMined,
                  Attest, AttestMined, StoreTrace, NextAsset, ExtraComputes, ExtraSends,
                  ExtraMined, ExtraSkipped, Judges, Ends, chain
    <3>2. CASE UNCHANGED vars
      BY <3>2 DEF vars, chain
    <3>3. CASE StartJob \/ KillJob \/ Throw
      BY <3>3 DEF StartJob, KillJob, Throw, Ends, chain
    <3> QED BY <1>3, <3>1, <3>2, <3>3 DEF Next
  <2> QED BY <2>1 DEF contract
<1> QED BY <1>1, <1>2, <1>3

LEMMA DoneStays ==
  ASSUME StreakTypeOK, [Next]_vars, NEW a \in Assets, Done(a)
  PROVE  Done(a)'
<1>1. /\ attested[a] \subseteq attested'[a] /\ (a \in closed => a \in closed')
      /\ (Full(a) => Full(a)') /\ left \subseteq left'
  BY ChainGrows DEF Full
<1>2. AttestedByMain(a) => AttestedByMain(a)'
  BY <1>1 DEF AttestedByMain
<1> QED BY <1>1, <1>2 DEF Done

\* A step that sends and mines nothing.
LEMMA QuietPools ==
  ASSUME UNCHANGED <<pool, posted>>
  PROVE  PoolsAreTheirOwners => PoolsAreTheirOwners'
BY DEF PoolsAreTheirOwners

LEMMA QuietContract ==
  ASSUME UNCHANGED contract
  PROVE  /\ UNCHANGED posted
         /\ RegisteredUnlessLeft => RegisteredUnlessLeft'
         /\ \A a : Done(a)' <=> Done(a)
BY DEF contract, RegisteredUnlessLeft, Done, AttestedByMain, Full

LEMMA ResultsStay ==
  ASSUME StreakTypeOK, [Next]_vars, DoneMeansAttested, UNCHANGED result
  PROVE  DoneMeansAttested'
<1>1. ASSETS[1] \in Assets
  BY AssetIsAnAsset, Constants
<1>2. \A a \in Assets : posted[a] # NotPosted => posted'[a] = posted[a]
  BY ChainGrows
<1>d. \A a \in Assets : Done(a) => Done(a)'
  BY DoneStays
<1>3. ASSUME NEW j \in 1..MAX_JOBS, result'[j] = "posted", NEW a \in Assets
      PROVE  Done(a)'
  <2>1. Done(a)
    BY <1>3 DEF DoneMeansAttested, Assets, Done, AttestedByMain
  <2> QED BY <1>d, <2>1
<1>4. ASSUME NEW j \in 1..MAX_JOBS, result'[j] = "ran"
      PROVE  posted'[ASSETS[1]] # NotPosted
  BY <1>1, <1>2, <1>4 DEF DoneMeansAttested
<1> QED BY <1>3, <1>4 DEF DoneMeansAttested, Assets, Done, AttestedByMain

\* The end of a job, for one that posted everything, found it there, or neither.
LEMMA DoneEnds ==
  ASSUME StreakTypeOK, Position, pc # "idle", DoneIsDone, NEW how \in Results, Ends(how),
         how = "posted" => \A a \in Assets : Done(a),
         how = "ran" => posted[ASSETS[1]] # NotPosted
  PROVE  DoneIsDone'
<1>1. UNCHANGED <<pool, contract, receipts>> /\ pc' = "idle"
  BY DEF Ends, chain
<1>2. PoolsAreTheirOwners' /\ ReceiptsArePosted' /\ RegisteredUnlessLeft'
  BY <1>1, QuietPools, QuietContract DEF ReceiptsArePosted, DoneIsDone
<1>3. AttemptIsBacked'
  BY <1>1 DEF AttemptIsBacked, Claiming, Finishing
<1>4. DoneMeansAttested'
  <2>1. result' = [result EXCEPT ![job] = how] /\ result \in [1..MAX_JOBS -> Results]
    BY DEF Ends, StreakTypeOK
  <2>2. DoneMeansAttested
    BY DEF DoneIsDone
  <2>3. ASSUME NEW j \in 1..MAX_JOBS
        PROVE  /\ result'[j] = "posted" => \A a \in Assets : Done(a)
               /\ result'[j] = "ran" => posted[ASSETS[1]] # NotPosted
    <3>1. result'[j] = how \/ result'[j] = result[j]
      BY <2>1
    <3> QED BY <2>2, <3>1 DEF DoneMeansAttested, AttestedByMain, Done, Assets
  <2>4. posted' = posted /\ \A a : Done(a)' <=> Done(a)
    BY <1>1, QuietContract
  <2> QED BY <2>3, <2>4 DEF DoneMeansAttested, Assets, Done, AttestedByMain
<1> QED BY <1>2, <1>3, <1>4 DEF DoneIsDone

\* A step of the attempt that sends and mines nothing.
LEMMA DoneQuiet ==
  ASSUME StreakTypeOK, [Next]_vars, DoneIsDone,
         UNCHANGED <<pool, contract, result>>,
         ReceiptsArePosted', AttemptIsBacked'
  PROVE  DoneIsDone'
<1>1. PoolsAreTheirOwners' /\ RegisteredUnlessLeft'
  BY QuietPools, QuietContract DEF DoneIsDone
<1>2. DoneMeansAttested'
  BY ResultsStay DEF DoneIsDone
<1> QED BY <1>1, <1>2 DEF DoneIsDone

\* What others do leaves the attempt backed by what it was.
LEMMA DoneOthers ==
  ASSUME StreakTypeOK, [Next]_vars, DoneIsDone,
         \/ \E a \in Assets : CloseClaim(a) \/ OthersAttest(a)
         \/ \E x \in Range(ATTESTORS) : Leave(x) \/ Register(x)
  PROVE  DoneIsDone'
<1>1. /\ UNCHANGED <<pc, at, pool, posted, result, receipts>>
      /\ \A x \in registered : x \in registered' \/ x \in left'
      /\ left \subseteq left'
  BY OthersEffect
<1>2. PoolsAreTheirOwners' /\ ReceiptsArePosted' /\ RegisteredUnlessLeft'
  BY <1>1, QuietPools DEF DoneIsDone, ReceiptsArePosted, RegisteredUnlessLeft
<1>3. DoneMeansAttested'
  BY <1>1, ResultsStay DEF DoneIsDone
<1>4. Asset \in Assets /\ Asset' = Asset /\ \A k \in 1..at - 1 : ASSETS[k] \in Assets
  BY <1>1, AssetIsAnAsset, Constants DEF Asset, StreakTypeOK, LocalTypeOK
<1>5. \A a \in Assets : Done(a) => Done(a)'
  BY DoneStays
<1>6. Done(Asset) => Done(Asset)'
  <2>1. PICK a \in Assets : a = Asset /\ a = Asset'
    BY <1>4
  <2>2. Done(a) => Done(a)'
    BY <1>5
  <2> QED BY <2>1, <2>2 DEF Done, AttestedByMain, Full
<1>7. AttemptIsBacked'
  BY <1>1, <1>4, <1>5, <1>6 DEF DoneIsDone, AttemptIsBacked, Pending
<1> QED BY <1>2, <1>3, <1>7 DEF DoneIsDone

LEMMA DoneMine ==
  ASSUME StreakTypeOK, [Next]_vars, DoneIsDone, NEW account \in Accounts, Mine(account)
  PROVE  DoneIsDone'
<1> DEFINE tx == Head(pool[account])
           new == [by |-> tx.by, decision |-> tx.decision,
                   asserted |-> tx.asserted, seen |-> tx.seen]
<1>1. /\ tx \in Tx /\ tx = pool[account][1] /\ tx.asset \in Assets
      /\ UNCHANGED <<selfTest, result, pc, at, registered, left, receipts>>
      /\ posted' = IF tx.kind = "post" /\ Accepts(tx)
                   THEN [posted EXCEPT ![tx.asset] =
                           [posted |-> TRUE, asserted |-> tx.asserted]]
                   ELSE posted
      /\ attested' = IF tx.kind = "attest" /\ Accepts(tx)
                     THEN [attested EXCEPT ![tx.asset] = @ \cup {new}]
                     ELSE attested
  BY MineEffect
<1>2. /\ tx.kind = "post" /\ Accepts(tx) <=> tx.kind = "post" /\ posted[tx.asset] = NotPosted
      /\ tx.kind = "attest" => (Accepts(tx) <=> Attestable(tx))
  BY DEF Accepts
<1>3. 1 \in 1..Len(pool[account]) /\ tx = pool[account][1]
  BY <1>1, PoolAfterMine
<1>g. \A a \in Assets : posted[a] # NotPosted => posted'[a] = posted[a]
  BY ChainGrows
<1>s. \A a \in Assets : Done(a) => Done(a)'
  BY DoneStays
<1>h. /\ Asset \in Assets /\ Asset' = Asset /\ at' = at /\ pc' = pc
      /\ \A k \in 1..at - 1 : ASSETS[k] \in Assets
  BY <1>1, AssetIsAnAsset, Constants DEF Asset, StreakTypeOK, LocalTypeOK
<1>d. Done(Asset) => Done(Asset)'
  <2>1. PICK a \in Assets : a = Asset /\ a = Asset'
    BY <1>h
  <2>2. Done(a) => Done(a)'
    BY <1>s
  <2> QED BY <2>1, <2>2 DEF Done, AttestedByMain, Full
<1>p. PoolsAreTheirOwners /\ AttemptIsBacked /\ ReceiptsArePosted /\ RegisteredUnlessLeft
  BY DEF DoneIsDone
<1>4. PoolsAreTheirOwners'
  <2> SUFFICES ASSUME NEW k \in 1..Len(ATTESTORS), NEW i \in 1..Len(pool'[ATTESTORS[k]]),
                      pool'[ATTESTORS[k]][i].kind = "attest"
               PROVE  /\ pool'[ATTESTORS[k]][i].by = ATTESTORS[k]
                      /\ posted'[pool'[ATTESTORS[k]][i].asset] # NotPosted
    BY DEF PoolsAreTheirOwners
  <2>1. ATTESTORS[k] \in Accounts
    BY Constants
  <2>2. PICK j \in 1..Len(pool[ATTESTORS[k]]) :
          pool'[ATTESTORS[k]][i] = pool[ATTESTORS[k]][j]
    BY <2>1, PoolAfterMine
  <2>3. /\ pool'[ATTESTORS[k]][i].by = ATTESTORS[k]
        /\ posted[pool'[ATTESTORS[k]][i].asset] # NotPosted
    BY <1>p, <2>2 DEF PoolsAreTheirOwners
  <2>4. pool'[ATTESTORS[k]][i].asset \in Assets
    <3>1. pool[ATTESTORS[k]] \in Seq(Tx)
      BY <2>1 DEF StreakTypeOK, ChainTypeOK
    <3>2. pool[ATTESTORS[k]][j] \in Tx
      BY <3>1
    <3> QED BY <2>2, <3>2 DEF Tx
  <2> QED BY <1>g, <2>3, <2>4
<1>5. ASSUME pc = "postWait"
      PROVE  posted'[Asset] # NotPosted \/ Pending(Poster, "post", Asset)'
  <2>1. CASE posted[Asset] # NotPosted
    BY <1>g, <1>h, <2>1
  <2>2. CASE posted[Asset] = NotPosted
    <3>1. PICK j \in 1..Len(pool[Poster]) :
            pool[Poster][j].kind = "post" /\ pool[Poster][j].asset = Asset
      BY <1>p, <1>5, <2>2 DEF AttemptIsBacked, Pending
    <3>2. CASE Poster = account /\ pool[Poster][j] = tx
      <4>1. tx.kind = "post" /\ tx.asset = Asset
        BY <3>1, <3>2
      <4>2. posted'[Asset] = [posted |-> TRUE, asserted |-> tx.asserted]
        <5> HIDE DEF tx
        <5> QED BY <1>1, <1>2, <1>h, <2>2, <4>1 DEF StreakTypeOK, ChainTypeOK
      <4> QED BY <4>2 DEF NotPosted
    <3>3. CASE \E i \in 1..Len(pool'[Poster]) : pool'[Poster][i] = pool[Poster][j]
      BY <1>h, <3>1, <3>3 DEF Pending
    <3> QED BY <3>2, <3>3, PoolAfterMine, Constants
  <2> QED BY <2>1, <2>2
<1>6. ASSUME pc = "attestWait"
      PROVE  Done(Asset)' \/ Pending(ATTESTORS[1], "attest", Asset)'
  <2>1. CASE Done(Asset)
    BY <1>d, <2>1
  <2>2. CASE ~Done(Asset)
    <3>0. 1 \in 1..Len(ATTESTORS) /\ ATTESTORS[1] \in Accounts /\ ATTESTORS[1] \in Range(ATTESTORS)
      BY Constants DEF Range
    <3>1. PICK j \in 1..Len(pool[ATTESTORS[1]]) :
            pool[ATTESTORS[1]][j].kind = "attest" /\ pool[ATTESTORS[1]][j].asset = Asset
      BY <1>p, <1>6, <2>2 DEF AttemptIsBacked, Pending
    <3>2. CASE ATTESTORS[1] = account /\ pool[ATTESTORS[1]][j] = tx
      <4>1. tx.kind = "attest" /\ tx.asset = Asset
        BY <3>1, <3>2
      <4>2. tx.by = ATTESTORS[1] /\ posted[tx.asset] # NotPosted
        BY <1>p, <3>0, <3>1, <3>2 DEF PoolsAreTheirOwners
      <4>3. Accepts(tx)
        <5>1. ATTESTORS[1] \in registered
          BY <1>p, <2>2, <3>0 DEF RegisteredUnlessLeft, Done
        <5> HIDE DEF tx
        <5>2. Attestable(tx)
          BY <2>2, <4>1, <4>2, <5>1 DEF Attestable, Done, AttestedByMain
        <5> QED BY <4>1, <5>2 DEF Accepts
      <4> HIDE DEF new
      <4>4. new \in attested'[Asset]
        <5> HIDE DEF tx
        <5> QED BY <1>1, <1>h, <4>1, <4>3 DEF StreakTypeOK, ChainTypeOK
      <4>5. new.by = ATTESTORS[1]
        BY <4>2 DEF new
      <4> QED BY <1>h, <4>4, <4>5 DEF Done, AttestedByMain
    <3>3. CASE \E i \in 1..Len(pool'[ATTESTORS[1]]) :
                 pool'[ATTESTORS[1]][i] = pool[ATTESTORS[1]][j]
      BY <1>h, <3>1, <3>3 DEF Pending
    <3> QED BY <3>0, <3>2, <3>3, PoolAfterMine
  <2> QED BY <2>1, <2>2
<1>7. AttemptIsBacked'
  <2>1. pc \in Finishing => Done(Asset)'
    BY <1>d, <1>p DEF AttemptIsBacked
  <2>2. pc \in Claiming \cup Finishing => \A k \in 1..at - 1 : Done(ASSETS[k])'
    BY <1>s, <1>h, <1>p DEF AttemptIsBacked
  <2> QED BY <1>5, <1>6, <1>h, <2>1, <2>2 DEF AttemptIsBacked
<1>8. ReceiptsArePosted' /\ RegisteredUnlessLeft'
  BY <1>1, <1>g, <1>p DEF ReceiptsArePosted, RegisteredUnlessLeft, StreakTypeOK
<1>9. DoneMeansAttested'
  BY <1>1, ResultsStay DEF DoneIsDone
<1> QED BY <1>4, <1>7, <1>8, <1>9 DEF DoneIsDone

LEMMA DoneInit == Init => DoneIsDone
<1> SUFFICES ASSUME Init PROVE DoneIsDone
  OBVIOUS
<1>1. PoolsAreTheirOwners
  <2>1. \A k \in 1..Len(ATTESTORS) : pool[ATTESTORS[k]] = <<>>
    BY Constants DEF Init
  <2> QED BY <2>1 DEF PoolsAreTheirOwners
<1>2. AttemptIsBacked
  BY DEF Init, AttemptIsBacked, Claiming, Finishing
<1>3. ReceiptsArePosted /\ RegisteredUnlessLeft
  BY DEF Init, ReceiptsArePosted, RegisteredUnlessLeft
<1>4. DoneMeansAttested
  BY DEF Init, DoneMeansAttested
<1> QED BY <1>1, <1>2, <1>3, <1>4 DEF DoneIsDone

\* A step that sends backs what it goes on to wait for.
LEMMA DoneSends ==
  ASSUME StreakTypeOK, [Next]_vars, DoneIsDone, NEW account \in Accounts, NEW tx \in Tx,
         Sends(account, tx), UNCHANGED <<contract, receipts, result>>,
         \A k \in 1..Len(ATTESTORS) : ATTESTORS[k] = account /\ tx.kind = "attest" =>
           tx.by = account
  PROVE  /\ PoolsAreTheirOwners' /\ ReceiptsArePosted' /\ RegisteredUnlessLeft'
         /\ DoneMeansAttested' /\ \E i \in 1..Len(pool'[account]) : pool'[account][i] = tx
<1>0. posted' = posted
  BY QuietContract
<1>1. PoolsAreTheirOwners'
  <2> SUFFICES ASSUME NEW k \in 1..Len(ATTESTORS), NEW i \in 1..Len(pool'[ATTESTORS[k]]),
                      pool'[ATTESTORS[k]][i].kind = "attest"
               PROVE  /\ pool'[ATTESTORS[k]][i].by = ATTESTORS[k]
                      /\ posted'[pool'[ATTESTORS[k]][i].asset] # NotPosted
    BY DEF PoolsAreTheirOwners
  <2>1. ATTESTORS[k] \in Accounts
    BY Constants
  <2>2. CASE ATTESTORS[k] = account /\ pool'[ATTESTORS[k]][i] = tx
    <3>1. tx.kind = "attest" /\ tx.by = ATTESTORS[k]
      BY <2>2
    <3>2. posted[tx.asset] # NotPosted
      BY <3>1 DEF Sends, Accepts, Attestable
    <3> QED BY <1>0, <2>2, <3>1, <3>2
  <2>3. CASE /\ i \in 1..Len(pool[ATTESTORS[k]])
             /\ pool'[ATTESTORS[k]][i] = pool[ATTESTORS[k]][i]
    BY <1>0, <2>3 DEF DoneIsDone, PoolsAreTheirOwners
  <2> QED BY <2>1, <2>2, <2>3, PoolAfterSend
<1>2. ReceiptsArePosted' /\ RegisteredUnlessLeft' /\ DoneMeansAttested'
  BY <1>0, ResultsStay, QuietContract DEF DoneIsDone, ReceiptsArePosted
<1>3. \E i \in 1..Len(pool'[account]) : pool'[account][i] = tx
  BY PoolAfterSend
<1> QED BY <1>1, <1>2, <1>3

LEMMA DoneScript ==
  ASSUME StreakTypeOK, Position, DoneIsDone, Script, [Next]_vars
  PROVE  DoneIsDone'
<1>t. /\ at \in 1..Len(ASSETS) /\ who \in 1..Len(ATTESTORS) + 1 /\ Asset \in Assets
      /\ \A k \in 1..at : ASSETS[k] \in Assets
      /\ Len(ASSETS) \in Nat \ {0} /\ Len(ATTESTORS) \in Nat \ {0}
  BY AssetIsAnAsset, Constants DEF StreakTypeOK, LocalTypeOK, Asset
<1>p. PoolsAreTheirOwners /\ AttemptIsBacked /\ ReceiptsArePosted
  BY DEF DoneIsDone
<1>q. ASSUME UNCHANGED contract
      PROVE  posted' = posted /\ \A a : Done(a)' <=> Done(a)
  BY <1>q, QuietContract
<1>r. receipts' = receipts /\ posted' = posted => ReceiptsArePosted'
  BY <1>p DEF ReceiptsArePosted
\* The attempt moves from one place to another with the same asset at hand.
<1>m. ASSUME UNCHANGED <<at, chain, result, receipts>>,
             \/ pc \in Claiming /\ pc' \in Claiming \ {"postWait", "attestWait"}
             \/ pc \in Finishing /\ pc' \in Finishing
      PROVE  DoneIsDone'
  <2>1. UNCHANGED <<pool, contract>> /\ Asset' = Asset /\ posted' = posted
    BY <1>m, <1>q DEF chain, Asset
  <2>2. Done(Asset)' <=> Done(Asset)
    BY <1>m DEF chain, contract, Done, AttestedByMain, Full, Asset
  <2>3. AttemptIsBacked'
    BY <1>m, <1>p, <1>q, <2>1, <2>2 DEF AttemptIsBacked, Claiming, Finishing
  <2> QED BY <1>m, <1>r, <2>1, <2>3, DoneQuiet
<1>1. CASE Dedupe
  <2>1. PICK chainReachable \in BOOLEAN :
          LET runDecision == decideRun(chainReachable,
                                       ~selfTest /\ posted[ASSETS[1]] # NotPosted)
          IN IF runDecision = "run"
             THEN Goes("balance") /\ UNCHANGED <<local, chain, receipts>>
             ELSE Ends(runDecision)
    BY <1>1 DEF Dedupe
  <2> DEFINE how == decideRun(chainReachable, ~selfTest /\ posted[ASSETS[1]] # NotPosted)
  <2>2. how \in {"run", "ran", "skipped"} /\ (how = "ran" => posted[ASSETS[1]] # NotPosted)
    BY DEF decideRun
  <2>3. pc = "dedupe"
    BY <1>1 DEF Dedupe
  <2> HIDE DEF how
  <2>4. CASE how = "run"
    <3>1. UNCHANGED <<pool, contract, result, receipts>> /\ pc' = "balance"
      BY <2>1, <2>4 DEF how, Goes, chain
    <3>2. AttemptIsBacked'
      BY <3>1 DEF AttemptIsBacked, Claiming, Finishing
    <3> QED BY <1>q, <1>r, <3>1, <3>2, DoneQuiet
  <2>5. CASE how # "run"
    <3>1. Ends(how) /\ how \in Results /\ how # "posted"
      BY <2>1, <2>2, <2>5 DEF how, Results
    <3> QED BY <2>2, <2>3, <3>1, DoneEnds
  <2> QED BY <2>4, <2>5
<1>2. CASE LowBalanceGuard
  <2>1. CASE Ends("skipped")
    BY <1>2, <2>1, DoneEnds DEF Results, LowBalanceGuard
  <2>2. CASE ~Ends("skipped")
    <3>1. /\ UNCHANGED <<pool, contract, result, receipts>>
          /\ pc' = "probe" /\ at' = 1
      BY <1>2, <2>2 DEF LowBalanceGuard, Goes, chain, local, Position, Starting
    <3>2. AttemptIsBacked'
      BY <3>1 DEF AttemptIsBacked, Finishing
    <3> QED BY <1>q, <1>r, <3>1, <3>2, DoneQuiet
  <2> QED BY <2>1, <2>2
<1>3. CASE Probe
  BY <1>3, <1>m DEF Probe, Goes, Claiming
<1>4. CASE Compute
  BY <1>4, <1>m DEF Compute, Judges, Goes, Claiming
<1>5. CASE PostClaim
  <2> DEFINE tx == [kind |-> "post", asset |-> Asset, asserted |-> asserted]
  <2>1. tx \in Tx /\ Poster \in Accounts
    BY PostingTx, Constants
  <2>2. /\ pc = "post" /\ pc' = "postWait" /\ Sends(Poster, tx)
        /\ UNCHANGED <<at, contract, receipts, result>>
    BY <1>5 DEF PostClaim, Goes, local
  <2>3. /\ PoolsAreTheirOwners' /\ ReceiptsArePosted' /\ RegisteredUnlessLeft'
        /\ DoneMeansAttested' /\ \E i \in 1..Len(pool'[Poster]) : pool'[Poster][i] = tx
    <3>1. tx.kind # "attest"
      OBVIOUS
    <3> HIDE DEF tx
    <3> QED BY <2>1, <2>2, <3>1, DoneSends
  <2>4. Pending(Poster, "post", Asset)'
    BY <2>2, <2>3 DEF Pending, Asset
  <2>5. AttemptIsBacked'
    BY <1>p, <1>q, <2>2, <2>4 DEF AttemptIsBacked, Claiming, Finishing
  <2> QED BY <2>3, <2>5 DEF DoneIsDone
<1>6. CASE PostMined
  <2>1. /\ pc = "postWait" /\ pc' = "attest" /\ pool[Poster] = <<>>
        /\ receipts' = receipts \cup {Asset}
        /\ UNCHANGED <<at, pool, contract, result>>
    BY <1>6 DEF PostMined, Goes, Mined, local, chain
  <2>2. posted[Asset] # NotPosted
    BY <1>p, <2>1 DEF AttemptIsBacked, Pending
  <2>3. ReceiptsArePosted'
    BY <1>p, <1>q, <2>1, <2>2 DEF ReceiptsArePosted
  <2>4. AttemptIsBacked'
    BY <1>p, <1>q, <2>1 DEF AttemptIsBacked, Claiming, Finishing
  <2> QED BY <2>1, <2>3, <2>4, DoneQuiet
<1>7. CASE Attest
  <2>1. /\ pc = "attest" /\ pc' = "attestWait" /\ who = 1
        /\ Sends(Attestor, Attestation)
        /\ UNCHANGED <<at, contract, receipts, result>>
    BY <1>7 DEF Attest, Goes, local, Position, Claiming
  <2>2. who \in 1..Len(ATTESTORS)
    BY <1>t, <2>1
  <2>3. /\ Attestor \in Accounts /\ Attestation \in Tx /\ Attestation.by = Attestor
        /\ Attestation.kind = "attest" /\ Attestation.asset = Asset
    BY <2>2, AttestorHas DEF Attestation
  <2>4. /\ PoolsAreTheirOwners' /\ ReceiptsArePosted' /\ RegisteredUnlessLeft'
        /\ DoneMeansAttested'
        /\ \E i \in 1..Len(pool'[Attestor]) : pool'[Attestor][i] = Attestation
    BY <2>1, <2>3, DoneSends
  <2>5. Pending(ATTESTORS[1], "attest", Asset)'
    BY <2>1, <2>3, <2>4 DEF Attestor, Asset, Pending
  <2>6. AttemptIsBacked'
    BY <1>p, <1>q, <2>1, <2>5 DEF AttemptIsBacked, Claiming, Finishing
  <2> QED BY <2>4, <2>6 DEF DoneIsDone
<1>8. CASE AttestMined
  <2>1. /\ pc = "attestWait" /\ pc' = "store" /\ who = 1 /\ pool[Attestor] = <<>>
        /\ UNCHANGED <<at, pool, contract, result, receipts>> /\ Asset' = Asset
    BY <1>8 DEF AttestMined, Goes, Mined, local, chain, Position, Claiming, Asset
  <2>2. Done(Asset)
    BY <1>p, <2>1 DEF AttemptIsBacked, Pending, Attestor
  <2>3. Done(Asset)'
    BY <2>1, <2>2 DEF contract, Done, AttestedByMain, Full
  <2>4. AttemptIsBacked'
    BY <1>p, <1>q, <2>1, <2>3 DEF AttemptIsBacked, Claiming, Finishing
  <2> QED BY <1>q, <1>r, <2>1, <2>4, DoneQuiet
<1>9. CASE StoreTrace
  BY <1>9, <1>m DEF StoreTrace, Goes, Finishing
<1>10. CASE NextAsset
  <2>1. pc = "extra" /\ Done(Asset)
    BY <1>10, <1>p DEF NextAsset, AttemptIsBacked, Finishing
  <2>2. \A k \in 1..at : Done(ASSETS[k])
    <3>1. \A k \in 1..at - 1 : Done(ASSETS[k])
      BY <1>p, <2>1 DEF AttemptIsBacked, Finishing
    <3> QED BY <1>t, <2>1, <3>1 DEF Asset
  <2>3. CASE at < Len(ASSETS)
    <3>1. /\ UNCHANGED <<pool, contract, result, receipts>>
          /\ pc' = "probe" /\ at' = at + 1
      BY <1>10, <2>3 DEF NextAsset, Goes, Fresh, chain
    <3>2. at' - 1 = at
      BY <1>t, <3>1
    <3>3. AttemptIsBacked'
      BY <1>q, <2>2, <3>1, <3>2 DEF AttemptIsBacked, Finishing
    <3> QED BY <1>q, <1>r, <3>1, <3>3, DoneQuiet
  <2>4. CASE ~(at < Len(ASSETS))
    <3>1. Ends("posted") /\ at = Len(ASSETS)
      BY <1>10, <1>t, <2>4 DEF NextAsset
    <3>2. \A a \in Assets : Done(a)
      BY <2>2, <3>1, Constants DEF Assets, Range
    <3> QED BY <2>1, <3>1, <3>2, DoneEnds DEF Results
  <2> QED BY <2>3, <2>4
<1>11. CASE ExtraComputes
  BY <1>11, <1>m DEF ExtraComputes, Judges, Goes, Finishing
<1>12. CASE ExtraSends
  <2>1. /\ pc = "extraSend" /\ pc' = "extraWait" /\ who \in 1..Len(ATTESTORS)
        /\ Sends(Attestor, Attestation)
        /\ UNCHANGED <<at, contract, receipts, result>> /\ Asset' = Asset
    BY <1>12 DEF ExtraSends, Goes, local, Position, Asset
  <2>2. Attestor \in Accounts /\ Attestation \in Tx /\ Attestation.by = Attestor
    BY <2>1, AttestorHas DEF Attestation
  <2>3. /\ PoolsAreTheirOwners' /\ ReceiptsArePosted' /\ RegisteredUnlessLeft'
        /\ DoneMeansAttested'
    BY <2>1, <2>2, DoneSends
  <2>4. Done(Asset)' <=> Done(Asset)
    BY <2>1 DEF contract, Done, AttestedByMain, Full
  <2>5. AttemptIsBacked'
    BY <1>p, <1>q, <2>1, <2>4 DEF AttemptIsBacked, Claiming, Finishing
  <2> QED BY <2>3, <2>5 DEF DoneIsDone
<1>13. CASE ExtraMined
  BY <1>13, <1>m DEF ExtraMined, Goes, local, Finishing
<1>14. CASE ExtraSkipped
  BY <1>14, <1>m DEF ExtraSkipped, Goes, Finishing
<1> QED
  BY <1>1, <1>2, <1>3, <1>4, <1>5, <1>6, <1>7, <1>8, <1>9, <1>10, <1>11, <1>12, <1>13,
     <1>14 DEF Script

LEMMA DoneStep ==
  ASSUME StreakTypeOK, Position, DoneIsDone, [Next]_vars
  PROVE  DoneIsDone'
<1>p. AttemptIsBacked /\ ReceiptsArePosted
  BY DEF DoneIsDone
<1>1. CASE \/ \E a \in Range(ASSETS) : CloseClaim(a) \/ OthersAttest(a)
           \/ \E x \in Range(ATTESTORS) : Leave(x) \/ Register(x)
  BY <1>1, DoneOthers DEF Assets
<1>2. CASE \E account \in Accounts : Mine(account)
  BY <1>2, DoneMine
\* The attempt is nowhere.
<1>q. ASSUME UNCHANGED <<chain, receipts>>, pc' \in {"idle", "dedupe"}
      PROVE  AttemptIsBacked' /\ ReceiptsArePosted' /\ UNCHANGED <<pool, contract>>
  BY <1>p, <1>q DEF AttemptIsBacked, ReceiptsArePosted, Claiming, Finishing, chain, contract
<1>3. CASE StartJob
  <2>1. /\ UNCHANGED <<chain, receipts>> /\ pc' = "dedupe"
        /\ result' = [result EXCEPT ![job + 1] = "running"]
    BY <1>3 DEF StartJob
  <2>2. AttemptIsBacked' /\ ReceiptsArePosted' /\ UNCHANGED <<pool, contract>>
    BY <2>1, <1>q
  <2>3. DoneMeansAttested'
    <3>1. \A j \in 1..MAX_JOBS : result'[j] = "running" \/ result'[j] = result[j]
      BY <2>1 DEF StreakTypeOK
    <3>2. posted' = posted /\ \A a : Done(a)' <=> Done(a)
      BY <2>2, QuietContract
    <3> QED BY <3>1, <3>2 DEF DoneIsDone, DoneMeansAttested, Done, AttestedByMain
  <2>4. PoolsAreTheirOwners' /\ RegisteredUnlessLeft'
    BY <2>2, QuietPools, QuietContract DEF DoneIsDone
  <2> QED BY <2>2, <2>3, <2>4 DEF DoneIsDone
<1>4. CASE KillJob
  BY <1>4, DoneEnds DEF KillJob, Results
<1>5. CASE Throw
  <2>1. CASE attempt = 1
    <3>1. UNCHANGED <<chain, receipts, result>> /\ pc' = "dedupe"
      BY <1>5, <2>1 DEF Throw
    <3> QED BY <3>1, <1>q, DoneQuiet
  <2>2. CASE attempt # 1
    BY <1>5, <2>2, DoneEnds DEF Throw, Results
  <2> QED BY <2>1, <2>2
<1>6. CASE Script
  BY <1>6, DoneScript
<1>7. CASE UNCHANGED vars
  <2>1. UNCHANGED <<at, pc, pool, contract, receipts, result>>
    BY <1>7 DEF vars, local, chain
  <2>2. ReceiptsArePosted' /\ AttemptIsBacked'
    BY <1>p, <2>1 DEF AttemptIsBacked, ReceiptsArePosted, Done, AttestedByMain, Full,
                      Pending, Asset, contract
  <2> QED BY <2>1, <2>2, DoneQuiet
<1> QED BY <1>1, <1>2, <1>3, <1>4, <1>5, <1>6, <1>7 DEF Next

-----------------------------------------------------------------------------
\* What is said of an asset.

LEMMA SaidInit == Init => SaidOnce
<1> SUFFICES ASSUME Init PROVE SaidOnce
  OBVIOUS
<1>1. \A x \in Accounts : Len(pool[x]) = 0
  BY DEF Init
<1>2. \A a \in Assets : attested[a] = {} /\ posted[a] = NotPosted /\ posts[a] = 0
  BY DEF Init, Assets
<1>3. pc \notin Sent
  BY DEF Init, Sent, Finishing
<1>4. \A a \in Assets, v \in Int : ~Says(a, v)
  BY <1>1, <1>2, <1>3 DEF Says
<1> QED BY <1>2, <1>4 DEF SaidOnce

\* A step that posts nothing and says what was said.
LEMMA SaidNothingNew ==
  ASSUME SaidOnce, StreakTypeOK, [Next]_vars, posts' = posts,
         \A a \in Assets, v \in Int : Says(a, v)' => Says(a, v),
         \A a \in Assets : attested'[a] # attested[a] => posted[a] # NotPosted
  PROVE  SaidOnce'
<1>1. \A a \in Assets : posted[a] # NotPosted => posted'[a] # NotPosted
  BY ChainGrows
<1>2. ASSUME NEW a \in Assets, attested'[a] # {} PROVE posted'[a] # NotPosted
  <2>1. posted[a] # NotPosted
    BY <1>2 DEF SaidOnce
  <2> QED BY <1>1, <2>1
<1> QED BY <1>2 DEF SaidOnce

\* A step that sends and mines nothing, of an attempt that goes on with what it sent.
LEMMA SaidQuiet ==
  ASSUME SaidOnce, StreakTypeOK, [Next]_vars,
         UNCHANGED <<pool, posts, posted, attested>>,
         pc' \in Sent => pc \in Sent /\ UNCHANGED <<at, asserted>>
  PROVE  SaidOnce'
<1>1. ASSUME NEW a \in Assets, NEW v \in Int, Says(a, v)' PROVE Says(a, v)
  BY <1>1 DEF Says, Asset
<1> QED BY <1>1, SaidNothingNew

\* An attempt sends what it asserts of its asset.
LEMMA SaidSent ==
  ASSUME StreakTypeOK, NEW account \in Accounts, NEW tx \in Tx, Sends(account, tx),
         tx.asset = Asset, tx.asserted = asserted,
         UNCHANGED <<at, asserted, posted, attested>>,
         NEW a \in Assets, NEW v \in Int, Says(a, v)'
  PROVE  Says(a, v) \/ (a = Asset /\ v = asserted)
<1>1. CASE \E x \in Accounts : \E i \in 1..Len(pool'[x]) :
             pool'[x][i].asset = a /\ pool'[x][i].asserted = v
  <2>1. PICK x \in Accounts : \E i \in 1..Len(pool'[x]) :
               pool'[x][i].asset = a /\ pool'[x][i].asserted = v
    BY <1>1
  <2>2. PICK i \in 1..Len(pool'[x]) : pool'[x][i].asset = a /\ pool'[x][i].asserted = v
    BY <2>1
  <2>3. CASE pool'[x][i] = tx
    BY <2>2, <2>3
  <2>4. CASE i \in 1..Len(pool[x]) /\ pool'[x][i] = pool[x][i]
    BY <2>2, <2>4 DEF Says
  <2> QED BY <2>3, <2>4, PoolAfterSend
<1>2. CASE \/ \E x \in attested[a] : x.asserted = v
           \/ posted[a] # NotPosted /\ posted[a].asserted = v
  BY <1>2 DEF Says
<1>3. CASE pc' \in Sent /\ Asset = a /\ asserted = v
  BY <1>3
<1> QED BY <1>1, <1>2, <1>3 DEF Says, Asset

LEMMA SaidAttesting ==
  ASSUME SaidOnce, StreakTypeOK, [Next]_vars, NEW account \in Accounts, NEW tx \in Tx,
         Sends(account, tx), tx.asset = Asset, tx.asserted = asserted, pc \in Sent,
         UNCHANGED <<at, asserted, posts, posted, attested>>
  PROVE  SaidOnce'
<1>1. ASSUME NEW a \in Assets, NEW v \in Int, Says(a, v)' PROVE Says(a, v)
  <2>1. Says(a, v) \/ (a = Asset /\ v = asserted)
    BY <1>1, SaidSent
  <2> QED BY <2>1 DEF Says
<1> QED BY <1>1, SaidNothingNew

LEMMA SaidPosting ==
  ASSUME SaidOnce, StreakTypeOK, PostClaim
  PROVE  SaidOnce'
<1> DEFINE tx == [kind |-> "post", asset |-> Asset, asserted |-> asserted]
<1>1. Asset \in Assets /\ asserted \in Int /\ posts \in [Assets -> Nat]
  BY AnAssetAtHand DEF StreakTypeOK, LocalTypeOK, ChainTypeOK
<1>2. /\ tx \in Tx /\ Poster \in Accounts /\ tx.asset = Asset /\ tx.asserted = asserted
      /\ Sends(Poster, tx) /\ posts' = [posts EXCEPT ![Asset] = @ + 1]
      /\ UNCHANGED <<at, asserted, posted, attested>>
  BY <1>1, Constants DEF Tx, PostClaim, local, probed, contract
<1> HIDE DEF tx
<1>3. ASSUME NEW a \in Assets, NEW v \in Int, Says(a, v)'
      PROVE  Says(a, v) \/ (a = Asset /\ v = asserted)
  BY <1>2, <1>3, SaidSent
<1>4. ASSUME NEW a \in Assets
      PROVE  /\ posts'[a] = 0 => \A v \in Int : ~Says(a, v)'
             /\ posts'[a] = 1 => \A v, w \in Int : Says(a, v)' /\ Says(a, w)' => v = w
  <2>1. CASE a # Asset
    <3>1. posts'[a] = posts[a]
      BY <1>1, <1>2, <2>1
    <3> QED BY <1>3, <2>1, <3>1 DEF SaidOnce
  <2>2. CASE a = Asset
    <3>1. posts'[a] = posts[a] + 1 /\ posts[a] \in Nat
      BY <1>1, <1>2, <2>2
    <3>2. posts'[a] # 0 /\ (posts'[a] = 1 => posts[a] = 0)
      BY <3>1
    <3>3. posts[a] = 0 => \A v \in Int : ~Says(a, v)
      BY DEF SaidOnce
    <3>4. posts[a] = 0 => \A v \in Int : Says(a, v)' => v = asserted
      BY <1>3, <3>3
    <3> QED BY <3>2, <3>4
  <2> QED BY <2>1, <2>2
<1>5. \A a \in Assets : attested'[a] # {} => posted'[a] # NotPosted
  BY <1>2 DEF SaidOnce
<1> QED BY <1>4, <1>5 DEF SaidOnce

\* What is mined moves from the pool to the chain.
LEMMA SaidMined ==
  ASSUME SaidOnce, StreakTypeOK, [Next]_vars, NEW account \in Accounts, Mine(account)
  PROVE  SaidOnce'
<1> DEFINE tx == Head(pool[account])
           attestation == [by |-> tx.by, decision |-> tx.decision,
                           asserted |-> tx.asserted, seen |-> tx.seen]
<1>1. /\ posted' = IF tx.kind = "post" /\ Accepts(tx)
                   THEN [posted EXCEPT ![tx.asset] =
                           [posted |-> TRUE, asserted |-> tx.asserted]]
                   ELSE posted
      /\ attested' = IF tx.kind = "attest" /\ Accepts(tx)
                     THEN [attested EXCEPT ![tx.asset] = @ \cup {attestation}]
                     ELSE attested
      /\ UNCHANGED <<pc, at, asserted, posts>>
      /\ tx \in Tx
  BY MineEffect
<1>2. tx = pool[account][1] /\ 1 \in 1..Len(pool[account])
  BY MineEffect, PoolAfterMine
<1>3. tx.kind = "attest" /\ Accepts(tx) => posted[tx.asset] # NotPosted
  BY DEF Accepts, Attestable
<1>k. attestation.asserted = tx.asserted
  OBVIOUS
<1>t. ChainTypeOK
  BY DEF StreakTypeOK
<1> HIDE DEF tx, attestation
<1>4. Says(tx.asset, tx.asserted)
  BY <1>2 DEF Says
<1>5. ASSUME NEW a \in Assets, NEW v \in Int, Says(a, v)' PROVE Says(a, v)
  <2>1. CASE \E x \in Accounts : \E i \in 1..Len(pool'[x]) :
               pool'[x][i].asset = a /\ pool'[x][i].asserted = v
    <3>1. PICK x \in Accounts : \E i \in 1..Len(pool'[x]) :
                 pool'[x][i].asset = a /\ pool'[x][i].asserted = v
      BY <2>1
    <3>2. PICK i \in 1..Len(pool'[x]) :
                 pool'[x][i].asset = a /\ pool'[x][i].asserted = v
      BY <3>1
    <3>3. PICK j \in 1..Len(pool[x]) : pool'[x][i] = pool[x][j]
      BY PoolAfterMine
    <3> QED BY <3>2, <3>3 DEF Says
  <2>2. CASE \E x \in attested'[a] : x.asserted = v
    <3>1. PICK x \in attested'[a] : x.asserted = v
      BY <2>2
    <3>2. CASE x \in attested[a]
      BY <3>1, <3>2 DEF Says
    <3>3. CASE x \notin attested[a]
      <4>1. a = tx.asset /\ x = attestation
        BY <1>1, <1>t, <3>1, <3>3 DEF ChainTypeOK
      <4> QED BY <1>4, <1>k, <3>1, <4>1
    <3> QED BY <3>2, <3>3
  <2>3. CASE posted'[a] # NotPosted /\ posted'[a].asserted = v
    <3>1. CASE posted'[a] = posted[a]
      BY <2>3, <3>1 DEF Says
    <3>2. CASE posted'[a] # posted[a]
      <4>1. a = tx.asset /\ posted'[a] = [posted |-> TRUE, asserted |-> tx.asserted]
        BY <1>1, <1>t, <3>2 DEF ChainTypeOK
      <4> QED BY <1>4, <2>3, <4>1
    <3> QED BY <3>1, <3>2
  <2>4. CASE (pc \in Sent /\ Asset = a /\ asserted = v)'
    BY <1>1, <2>4 DEF Says, Asset
  <2> QED BY <1>5, <2>1, <2>2, <2>3, <2>4 DEF Says
<1>6. ASSUME NEW a \in Assets, attested'[a] # attested[a] PROVE posted[a] # NotPosted
  BY <1>1, <1>3, <1>6, <1>t DEF ChainTypeOK
<1> QED BY <1>1, <1>5, <1>6, SaidNothingNew

LEMMA SaidStep ==
  ASSUME SaidOnce, StreakTypeOK, Position, [Next]_vars
  PROVE  SaidOnce'
<1>t. Asset \in Assets /\ asserted \in Int
  BY AnAssetAtHand DEF StreakTypeOK, LocalTypeOK
\* Every place after a post is left for one of them, or for none.
<1>q. ASSUME UNCHANGED <<pool, posts, posted, attested>>,
             pc' \in Sent => pc \in Sent /\ UNCHANGED <<at, asserted>>
      PROVE  SaidOnce'
  BY <1>q, SaidQuiet
<1>e. ASSUME NEW how \in Results, Ends(how) PROVE SaidOnce'
  BY <1>e, <1>q DEF Ends, chain, contract, Sent, Finishing
<1>a. ASSUME Sends(Attestor, Attestation), who \in 1..Len(ATTESTORS), pc \in Sent,
             UNCHANGED <<local, posts, contract>>
      PROVE  SaidOnce'
  <2>1. Attestor \in Accounts /\ Attestation \in Tx
    BY <1>a, AttestorHas
  <2>2. Attestation.asset = Asset /\ Attestation.asserted = asserted
    BY DEF Attestation
  <2> QED BY <1>a, <2>1, <2>2, SaidAttesting DEF local, probed, contract
<1>o. CASE \/ \E a \in Range(ASSETS) : CloseClaim(a) \/ OthersAttest(a)
           \/ \E x \in Range(ATTESTORS) : Leave(x) \/ Register(x)
  BY <1>o, <1>q, OthersEffect DEF Assets
<1>1. CASE StartJob
  BY <1>1, <1>q DEF StartJob, chain, contract, Sent, Finishing
<1>2. CASE \E account \in Accounts : Mine(account)
  BY <1>2, SaidMined
<1>3. CASE KillJob
  BY <1>3, <1>e DEF KillJob, Results
<1>4. CASE Throw
  <2>1. CASE attempt = 1
    BY <1>4, <2>1, <1>q DEF Throw, chain, contract, Sent, Finishing
  <2>2. CASE attempt # 1
    BY <1>4, <2>2, <1>e DEF Throw, Results
  <2> QED BY <2>1, <2>2
<1>5. CASE Dedupe
  <2>1. \/ pc' = "balance" /\ UNCHANGED chain
        \/ \E how \in Results : Ends(how)
    BY <1>5 DEF Dedupe, Goes, decideRun, Results
  <2> QED BY <2>1, <1>q, <1>e DEF chain, contract, Sent, Finishing
<1>6. CASE LowBalanceGuard
  <2>1. CASE Ends("skipped")
    BY <2>1, <1>e DEF Results
  <2>2. CASE ~Ends("skipped")
    BY <1>6, <2>2, <1>q DEF LowBalanceGuard, Goes, chain, contract, Sent, Finishing
  <2> QED BY <2>1, <2>2
<1>7. CASE Probe \/ Compute
  BY <1>7, <1>q DEF Probe, Compute, Judges, Goes, chain, contract, Sent, Finishing
<1>8. CASE PostClaim
  BY <1>8, SaidPosting
<1>9. CASE PostMined \/ AttestMined \/ StoreTrace \/ ExtraComputes \/ ExtraMined
             \/ ExtraSkipped
  BY <1>9, <1>q DEF PostMined, AttestMined, StoreTrace, ExtraComputes, ExtraMined,
                    ExtraSkipped, Judges, Goes, local, probed, chain, contract, Sent,
                    Finishing
<1>10. CASE Attest
  <2>1. who \in 1..Len(ATTESTORS) /\ pc \in Sent
    BY <1>10, Constants DEF Attest, Position, Claiming, Sent
  <2> QED BY <1>10, <2>1, <1>a DEF Attest
<1>11. CASE ExtraSends
  <2>1. who \in 1..Len(ATTESTORS) /\ pc \in Sent
    BY <1>11 DEF ExtraSends, Position, Sent, Finishing
  <2> QED BY <1>11, <2>1, <1>a DEF ExtraSends
<1>12. CASE NextAsset
  <2>1. CASE Ends("posted")
    BY <2>1, <1>e DEF Results
  <2>2. CASE ~Ends("posted")
    BY <1>12, <2>2, <1>q DEF NextAsset, Goes, chain, contract, Sent, Finishing
  <2> QED BY <2>1, <2>2
<1>13. CASE UNCHANGED vars
  BY <1>13, <1>q DEF vars, local, probed, chain, contract
<1> QED
  BY <1>o, <1>1, <1>2, <1>3, <1>4, <1>5, <1>6, <1>7, <1>8, <1>9, <1>10, <1>11, <1>12,
     <1>13 DEF Next, Script

-----------------------------------------------------------------------------
\* The theorems.

\* The types, the place of the attempt, the decisions, what a finished job left
\* and what is said of an asset hold throughout the day, whatever the sources tell,
\* and whatever the miners, the operator, other attestors and the runner of the jobs do.
THEOREM StreakInvariant == Spec => []StreakInv
<1>1. Init => StreakInv
  BY TypeInit, DecisionsInit, DoneInit, SaidInit DEF StreakInv
<1>2. StreakInv /\ [Next]_vars => StreakInv'
  BY TypeStep, DecisionsStep, DoneStep, SaidStep DEF StreakInv, DecisionsAreRight
<1> QED BY <1>1, <1>2, PTL DEF Spec

\* v2-streak-run.ts asserts what the first leg of one observation tells and judges it
\* on others. Whatever the sources tell at each, an honest claim that is rejected on
\* chain, or a wrong one of a self-test found valid, has its cause in the source that
\* was asserted: at the judging it had moved, or was missing while the other lies
\* apart from it, by what the tolerance leaves.
THEOREM DaysAreJudgedRight == Spec => []TheDayIsJudgedRight
<1>1. StreakInv => TheDayIsJudgedRight
  BY DEF StreakInv, DecisionsAreRight, TheDayIsJudgedRight, Excused, Wrong, Margin, Assets
<1> QED BY <1>1, StreakInvariant, PTL

\* The script reads no receipt, only that there is one: a job that ends as posted
\* left every claim attested by the main attestor, or closed, or filled up by other
\* attestors, or its main attestor left the registry; attest reverts for nothing else.
THEOREM PostedMeansAttested == Spec => []DoneMeansAttested
<1>1. StreakInv => DoneMeansAttested
  BY DEF StreakInv, DoneIsDone
<1> QED BY <1>1, StreakInvariant, PTL

\* The node refuses to send a post of what is posted, so a claim whose receipt was
\* seen is not sent again, and what was sent once is attested for what it asserts.
THEOREM NeverPostedAgain == Spec => PostedOnce
<1> DEFINE Unsent == \A a \in receipts : posts'[a] = posts[a]
           SameValue == \A a \in Range(ASSETS) : \A x \in attested[a] :
                          x.asserted # posted[a].asserted => posts[a] > 1
<1>1. StreakInv /\ [Next]_vars => [Unsent]_vars
  <2> SUFFICES ASSUME StreakInv, Next PROVE Unsent
    BY DEF vars
  <2>1. CASE PostClaim
    <3>1. posted[Asset] = NotPosted /\ posts' = [posts EXCEPT ![Asset] = @ + 1]
      BY <2>1 DEF PostClaim, Sends, Accepts
    <3>2. Asset \notin receipts
      BY <3>1 DEF StreakInv, DoneIsDone, ReceiptsArePosted
    <3> QED BY <3>1, <3>2 DEF StreakInv, StreakTypeOK, ChainTypeOK
  <2>2. CASE ~PostClaim
    <3>1. posts' = posts
      BY <2>2 DEF Next, Script, Mine, Others, CloseClaim, OthersAttest, Leave, Register,
                  Judges, StartJob, KillJob, Throw, Ends, chain,
                  Dedupe, LowBalanceGuard, Probe, Compute, PostMined, Attest, AttestMined,
                  StoreTrace, NextAsset, ExtraComputes, ExtraSends, ExtraMined,
                  ExtraSkipped
    <3> QED BY <3>1
  <2> QED BY <2>1, <2>2
<1>2. StreakInv => SameValue
  <2> SUFFICES ASSUME StreakInv, NEW a \in Assets, NEW x \in attested[a],
                      x.asserted # posted[a].asserted
               PROVE  posts[a] > 1
    BY DEF Assets
  <2>1. posts[a] \in Nat /\ posted[a] # NotPosted
    BY DEF StreakInv, StreakTypeOK, ChainTypeOK, SaidOnce
  <2>2. x.asserted \in Int /\ posted[a].asserted \in Int
    <3>1. x \in OnChain /\ posted[a] \in [posted : {TRUE}, asserted : Int]
      BY <2>1 DEF StreakInv, StreakTypeOK, ChainTypeOK
    <3> QED BY <3>1 DEF OnChain
  <2>3. Says(a, x.asserted) /\ Says(a, posted[a].asserted)
    BY <2>1 DEF Says
  <2>4. posts[a] # 0 /\ posts[a] # 1
    BY <2>2, <2>3 DEF StreakInv, SaidOnce
  <2> QED BY <2>1, <2>4
<1> HIDE DEF Unsent, SameValue
<1>3. Spec => [][Unsent]_vars
  BY <1>1, StreakInvariant, PTL DEF Spec
<1>4. Spec => []SameValue
  BY <1>2, StreakInvariant, PTL
<1> QED BY <1>3, <1>4 DEF PostedOnce, Unsent, SameValue

=============================================================================
