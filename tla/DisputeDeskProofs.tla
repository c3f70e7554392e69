------------------------- MODULE DisputeDeskProofs --------------------------
(***************************************************************************)
(* The dispute desk, for any accounts, claims, calls and records.          *)
(*                                                                         *)
(* The desk only adds to what the contracts do: each of its steps is a     *)
(* step of theirs or none, so that all that is proved of the contracts     *)
(* holds with the desk beside them.  On top of that DeskInv is inductive.  *)
(* It rests on time: a call that still waits for its receipt, or is about  *)
(* to write it down, began less than two ticks ago, so that the dispute it *)
(* opened is still open, and there is one open dispute per pair.           *)
(***************************************************************************)
EXTENDS DisputeDesk, ContractProofs

USE RegistryAssumption, AttestationAssumption, SlashingAssumption,
    LeaderboardAssumption, DeskAssumption

-----------------------------------------------------------------------------
\* The invariant.

Record == [claimId : Claims, accused : Accounts,
           status : {"pending", "escalated"}, disputeId : Int]

Target == [record : Nat, claimId : Claims \cup {None},
           accused : Accounts \cup {None}]

DeskTypeOK ==
    /\ records \in Seq(Record)
    /\ call \in [Calls -> Target]
    /\ pc \in [Calls -> {"new", "send", "wait", "mark", "answered", "cut off"}]
    /\ ticked \subseteq Calls
    /\ tx \in [Calls -> {"none", "pending", "success", "reverted"}]
    /\ opened \in [Calls -> Int]

\* Of two disputes about a pair, the older one is over.
OlderAreResolved ==
    \A i, j \in DisputeIds : i < j /\ Pair(i) = Pair(j) => disputes[i].resolved

\* No dispute is over before its time.
ResolvedInTime ==
    \A i \in DisputeIds :
        disputes[i].resolved => disputes[i].age > DISPUTE_WINDOW_SECONDS

\* What a call works on is a claim and an account, and those of its record.
Aimed(k) ==
    LET t == call[k] IN
    /\ t.claimId \in Claims /\ t.accused \in Accounts
    /\ t.record \in 0 .. Len(records)
    /\ t.record # 0 => /\ records[t.record].claimId = t.claimId
                       /\ records[t.record].accused = t.accused

\* The dispute i is the one the transaction of k opened.
Bonded(k, i) ==
    /\ i \in DisputeIds
    /\ disputes[i].challenger = ChallengerKey
    /\ disputes[i].claimId = call[k].claimId
    /\ disputes[i].accused = call[k].accused

\* How old a dispute opened by a call in progress can be.
OldestInProgress(k) == IF k \in ticked THEN 1 ELSE 0

\* Where a call stands, its transaction and the dispute it opened.
CallInv(k) ==
    /\ pc[k] # "new" => Aimed(k)
    /\ pc[k] \in {"new", "send"} => tx[k] = "none"
    /\ pc[k] = "send" \/ tx[k] # "none" => call[k].accused # ChallengerKey
    /\ pc[k] = "mark" => tx[k] = "success" /\ call[k].record # 0
    /\ pc[k] = "answered" => tx[k] # "pending"
    /\ tx[k] = "success" <=> opened[k] # None
    /\ opened[k] # None => Bonded(k, opened[k])
    /\ opened[k] # None /\ k \in InProgress =>
         disputes[opened[k]].age <= OldestInProgress(k)

\* No two calls opened the same dispute.
OneCallEach ==
    \A k, l \in Calls : opened[k] = opened[l] /\ opened[k] # None => k = l

\* An escalated record names the dispute of a call that was answered.
RecordInv(r) ==
    /\ records[r].status = "pending" => records[r].disputeId = None
    /\ records[r].status = "escalated" =>
         \E k \in Calls : /\ pc[k] = "answered" /\ call[k].record = r
                          /\ opened[k] # None
                          /\ opened[k] = records[r].disputeId

DeskInv ==
    /\ DeskTypeOK
    /\ OlderAreResolved /\ ResolvedInTime
    /\ \A k \in Calls : CallInv(k)
    /\ OneCallEach
    /\ \A r \in 1 .. Len(records) : RecordInv(r)
    /\ AnsweredBondsAreRecorded

-----------------------------------------------------------------------------
\* How disputes change: what is said of one stays said of it, and only a Tick
\* makes it older.

DisputesMove ==
    /\ DisputeIds \subseteq DisputeIds'
    /\ \A i \in DisputeIds :
         /\ disputes'[i].claimId = disputes[i].claimId
         /\ disputes'[i].accused = disputes[i].accused
         /\ disputes'[i].challenger = disputes[i].challenger
         /\ disputes[i].resolved => disputes'[i].resolved
         /\ disputes'[i].resolved =>
              disputes[i].resolved \/ disputes[i].age > DISPUTE_WINDOW_SECONDS
         /\ disputes'[i].age >= disputes[i].age

NoneAges == \A i \in DisputeIds : disputes'[i].age = disputes[i].age

DisputesStand == DisputesMove /\ NoneAges

\* What a step of the contracts says of the disputes that were there.
OpenedOnTop ==
    DisputeIds' = DisputeIds \/
    /\ disputeCount \notin DisputeIds
    /\ DisputeIds' = DisputeIds \union {disputeCount}
    /\ \A i \in DisputeIds : i < disputeCount
    /\ ~disputes'[disputeCount].resolved
    /\ \A i \in DisputeIds :
         /\ disputes[i].claimId = disputes'[disputeCount].claimId
         /\ disputes[i].accused = disputes'[disputeCount].accused
         => disputes[i].resolved

LEMMA AgesAreNumbers ==
    ASSUME TypeOK, NEW i \in DisputeIds
    PROVE  disputes[i].age \in Nat /\ disputes[i].resolved \in BOOLEAN
    BY DEF TypeOK, Dispute, WindowElapsed

LEMMA UnchangedStand ==
    ASSUME TypeOK, UNCHANGED <<disputes, disputeCount>>
    PROVE  DisputesStand /\ OpenedOnTop
    BY AgesAreNumbers
       DEF DisputesStand, DisputesMove, NoneAges, OpenedOnTop, DisputeIds

LEMMA VoteStands ==
    ASSUME TypeOK, NEW a \in Accounts, NEW id \in DisputeIds, NEW w \in BOOLEAN,
           Vote(a, id, w)
    PROVE  DisputesStand /\ OpenedOnTop
    <1> DEFINE d     == disputes[id]
               after == [d EXCEPT
                           !.voters = @ \union {a},
                           !.votesWrong = IF w THEN @ + agents[a].bond ELSE @,
                           !.votesRight = IF w THEN @ ELSE @ + agents[a].bond]
    <1>1. /\ disputes' = [disputes EXCEPT ![id] = after]
          /\ disputeCount' = disputeCount
        BY DEF TypeOK, Vote, vote, Dispute
    <1>2. d \in Dispute
        BY DEF TypeOK
    <1>3. /\ after.claimId = d.claimId /\ after.accused = d.accused
          /\ after.challenger = d.challenger
          /\ after.resolved = d.resolved /\ after.age = d.age
        <2> HIDE DEF d
        <2> QED  BY <1>2 DEF Dispute
    <1> HIDE DEF after
    <1> QED
        BY <1>1, <1>3, AgesAreNumbers
           DEF TypeOK, DisputesStand, DisputesMove, NoneAges, OpenedOnTop,
               DisputeIds

LEMMA ResolveStands ==
    ASSUME TypeOK, NEW id \in DisputeIds, ResolveDispute(id)
    PROVE  DisputesStand /\ OpenedOnTop
    <1> DEFINE d     == disputes[id]
               after == [d EXCEPT !.resolved = TRUE]
    <1>1. CloseDispute(id)
        BY ResolveCloses
    <1>2. /\ disputes' = [disputes EXCEPT ![id] = after]
          /\ disputeCount' = disputeCount
          /\ d.age > DISPUTE_WINDOW_SECONDS
        BY <1>1 DEF CloseDispute
    <1>3. d \in Dispute
        BY DEF TypeOK
    <1>4. /\ after.claimId = d.claimId /\ after.accused = d.accused
          /\ after.challenger = d.challenger /\ after.age = d.age
          /\ after.resolved
        <2> HIDE DEF d
        <2> QED  BY <1>3 DEF Dispute
    <1> HIDE DEF after
    <1> QED
        BY <1>2, <1>4, AgesAreNumbers
           DEF TypeOK, DisputesStand, DisputesMove, NoneAges, OpenedOnTop,
               DisputeIds

LEMMA OpenStands ==
    ASSUME TypeOK, DisputesAgree, NEW a \in Accounts, NEW c \in Claims,
           NEW b \in Accounts, OpenDispute(a, c, b)
    PROVE  /\ DisputesStand /\ OpenedOnTop
           /\ DisputeIds' = DisputeIds \union {disputeCount}
           /\ disputes'[disputeCount].challenger = a
           /\ disputes'[disputeCount].claimId = c
           /\ disputes'[disputeCount].accused = b
           /\ disputes'[disputeCount].age = 0
    <1>1. /\ disputeCount \notin DisputeIds
          /\ DisputeIds' = DisputeIds \union {disputeCount}
          /\ \A i \in DisputeIds : disputes'[i] = disputes[i]
          /\ disputes'[disputeCount].claimId = c
          /\ disputes'[disputeCount].accused = b
          /\ ~disputes'[disputeCount].resolved
          /\ <<c, b>> \notin activeDispute
        BY OpenDisputeEffect
    <1>2. /\ disputes'[disputeCount].challenger = a
          /\ disputes'[disputeCount].age = 0
        BY DEF TypeOK, OpenDispute, openDispute
    <1>3. \A i \in DisputeIds : i < disputeCount
        BY DEF TypeOK, DisputeIds
    <1>4. ASSUME NEW i \in DisputeIds,
                 disputes[i].claimId = disputes'[disputeCount].claimId,
                 disputes[i].accused = disputes'[disputeCount].accused
          PROVE  disputes[i].resolved
        <2>1. Pair(i) = <<c, b>>
            BY <1>1, <1>4 DEF Pair
        <2>2. i \notin OpenDisputes
            BY <1>1, <2>1 DEF DisputesAgree
        <2> QED
            BY <2>2 DEF OpenDisputes
    <1>5. DisputesStand
        BY <1>1, AgesAreNumbers DEF DisputesStand, DisputesMove, NoneAges
    <1>6. OpenedOnTop
        BY <1>1, <1>3, <1>4 DEF OpenedOnTop
    <1> QED
        BY <1>1, <1>2, <1>5, <1>6

LEMMA TickMoves ==
    ASSUME TypeOK, Tick
    PROVE  /\ DisputesMove /\ OpenedOnTop
           /\ \A i \in DisputeIds : disputes'[i].age <= disputes[i].age + 1
    <1>1. ASSUME NEW d \in Dispute, NEW q, q = [d EXCEPT !.age = @ + 1]
          PROVE  /\ q.claimId = d.claimId /\ q.accused = d.accused
                 /\ q.challenger = d.challenger /\ q.resolved = d.resolved
                 /\ q.age = d.age + 1
        BY <1>1 DEF Dispute
    <1>2. disputes' = Aged /\ disputeCount' = disputeCount
        BY DEF Tick
    <1>3. ASSUME NEW i \in DisputeIds
          PROVE  /\ disputes'[i].claimId = disputes[i].claimId
                 /\ disputes'[i].accused = disputes[i].accused
                 /\ disputes'[i].challenger = disputes[i].challenger
                 /\ disputes'[i].resolved = disputes[i].resolved
                 /\ \/ disputes'[i].age = disputes[i].age
                    \/ disputes'[i].age = disputes[i].age + 1
        <2>1. disputes[i] \in Dispute
            BY DEF TypeOK
        <2>2. \/ disputes'[i] = disputes[i]
              \/ disputes'[i] = [disputes[i] EXCEPT !.age = @ + 1]
            BY <1>2 DEF Aged
        <2> QED
            BY <1>1, <2>1, <2>2
    <1>4. DisputeIds' = DisputeIds
        BY <1>2 DEF DisputeIds
    <1> QED
        BY <1>3, <1>4, AgesAreNumbers DEF DisputesMove, OpenedOnTop

-----------------------------------------------------------------------------
\* The steps of the desk are steps of the contracts.

LEMMA OthersCallContracts ==
    ASSUME TypeOK, DisputesAgree, OthersCall
    PROVE  [Next]_vars /\ DisputesStand /\ OpenedOnTop
    <1>1. ASSUME NEW a \in Accounts, NEW v \in {MIN_BOND},
                 Register(a, v) \/ WithdrawBond(a, v)
          PROVE  Next /\ UNCHANGED <<disputes, disputeCount>>
        <2>1. v \in 0 .. MAX_BOND
            OBVIOUS
        <2>2. AccountCall(a)
            BY <1>1, <2>1 DEF AccountCall
        <2> QED
            BY <1>1, <2>2 DEF Next, Register, WithdrawBond, slashingVars
    <1>2. ASSUME NEW c \in Claims, NEW tier \in TIERS, PostClaim(c, tier)
          PROVE  Next /\ UNCHANGED <<disputes, disputeCount>>
        BY <1>2 DEF Next, OperatorCall, PostClaim, slashingVars
    <1>3. ASSUME NEW a \in Accounts, NEW c \in Claims, NEW d \in Decision,
                 Attest(a, c, d)
          PROVE  Next /\ UNCHANGED <<disputes, disputeCount>>
        BY <1>3 DEF Next, AccountCall, Attest, slashingVars
    <1>4. ASSUME NEW a \in Accounts, NEW c \in Claims, NEW b \in Accounts,
                 OpenDispute(a, c, b)
          PROVE  Next /\ DisputesStand /\ OpenedOnTop
        BY <1>4, OpenStands DEF Next, AccountCall
    <1>5. ASSUME NEW a \in Accounts, NEW id \in DisputeIds, NEW w \in BOOLEAN,
                 Vote(a, id, w)
          PROVE  Next /\ DisputesStand /\ OpenedOnTop
        BY <1>5, VoteStands DEF Next, AccountCall
    <1>6. ASSUME NEW id \in DisputeIds, ResolveDispute(id)
          PROVE  Next /\ DisputesStand /\ OpenedOnTop
        BY <1>6, ResolveStands DEF Next
    <1> QED
        BY <1>1, <1>2, <1>3, <1>4, <1>5, <1>6, UnchangedStand DEF OthersCall

\* A transaction in the mempool is about a claim and an account.
LEMMA MinedIsACall ==
    ASSUME DeskInv, NEW k \in Calls, MineSuccess(k)
    PROVE  /\ call[k].claimId \in Claims /\ call[k].accused \in Accounts
           /\ OpenDispute(ChallengerKey, call[k].claimId, call[k].accused)
           /\ Next
    <1>1. tx[k] = "pending" /\ CallInv(k)
        BY DEF DeskInv, MineSuccess
    <1>2. Aimed(k)
        BY <1>1 DEF CallInv
    <1>3. OpenDispute(ChallengerKey, call[k].claimId, call[k].accused)
        BY DEF MineSuccess
    <1> QED
        BY <1>2, <1>3 DEF Aimed, Next, AccountCall

\* What a step of the desk does to the contracts.
LEMMA DeskStep ==
    ASSUME TypeOK, DisputesAgree, DeskInv, [DeskNext]_allVars
    PROVE  [Next]_vars
    <1>1. ASSUME NEW k \in Calls, CallStep(k)
          PROVE  [Next]_vars
        <2>1. MineSuccess(k) => Next
            BY MinedIsACall
        <2> QED
            BY <1>1, <2>1 DEF CallStep, Escalate, Send, SendRefused, Answer,
                  MineReverted, Receipt, markDisputeEscalated, CutOff
    <1>2. ASSUME NEW c \in Claims, NEW a \in Accounts, FileDispute(c, a)
          PROVE  UNCHANGED vars
        BY <1>2 DEF FileDispute
    <1>3. DeskTick => Next
        BY DEF DeskTick, Next
    <1> QED
        BY <1>1, <1>2, <1>3, OthersCallContracts DEF DeskNext, allVars

-----------------------------------------------------------------------------
\* What is about the contracts alone.

LEMMA OlderStay ==
    ASSUME TypeOK, OlderAreResolved, ResolvedInTime, DisputesMove, OpenedOnTop,
           TypeOK'
    PROVE  OlderAreResolved' /\ ResolvedInTime'
    <1>0. disputeCount \in Nat /\ DisputeIds \subseteq Int
        BY DEF TypeOK, DisputeIds
    <1>1. ASSUME NEW i \in DisputeIds', disputes'[i].resolved
          PROVE  disputes'[i].age > DISPUTE_WINDOW_SECONDS
        <2>1. i \in DisputeIds
            BY <1>1 DEF OpenedOnTop
        <2>2. disputes[i].age \in Nat /\ disputes'[i].age \in Nat
            BY <2>1, AgesAreNumbers DEF TypeOK, Dispute, WindowElapsed
        <2> QED
            BY <1>1, <2>1, <2>2 DEF ResolvedInTime, DisputesMove
    <1>2. ASSUME NEW i \in DisputeIds', NEW j \in DisputeIds', i < j,
                 disputes'[i].claimId = disputes'[j].claimId,
                 disputes'[i].accused = disputes'[j].accused
          PROVE  disputes'[i].resolved
        <2>1. CASE j \in DisputeIds
            <3>1. i \in DisputeIds
                BY <1>0, <1>2, <2>1 DEF OpenedOnTop
            <3>2. Pair(i) = Pair(j)
                BY <1>2, <2>1, <3>1 DEF DisputesMove, Pair
            <3> QED
                BY <1>2, <2>1, <3>1, <3>2 DEF OlderAreResolved, DisputesMove
        <2>2. CASE j \notin DisputeIds
            <3>1. j = disputeCount /\ i \in DisputeIds
                BY <1>0, <1>2, <2>2 DEF OpenedOnTop
            <3>2. disputes[i].resolved
                BY <1>2, <2>2, <3>1 DEF OpenedOnTop, DisputesMove
            <3> QED
                BY <3>1, <3>2 DEF DisputesMove
        <2> QED
            BY <2>1, <2>2
    <1> QED
        BY <1>1, <1>2 DEF OlderAreResolved, ResolvedInTime, Pair

-----------------------------------------------------------------------------
\* What is kept of a call and of a record that a step leaves alone.

RecordsGrow ==
    /\ Len(records) <= Len(records')
    /\ \A r \in 1 .. Len(records) :
         /\ records'[r].claimId = records[r].claimId
         /\ records'[r].accused = records[r].accused

Untouched(k) ==
    /\ call'[k] = call[k] /\ pc'[k] = pc[k]
    /\ tx'[k] = tx[k] /\ opened'[k] = opened[k]
    /\ k \in ticked' <=> k \in ticked

LEMMA AimedKept ==
    ASSUME DeskTypeOK, DeskTypeOK', NEW k \in Calls, Aimed(k), RecordsGrow,
           call'[k] = call[k]
    PROVE  Aimed(k)'
    <1>1. records \in Seq(Record) /\ records' \in Seq(Record)
        BY DEF DeskTypeOK
    <1>2. Len(records) \in Nat /\ Len(records') \in Nat
        BY <1>1
    <1> QED
        BY <1>2 DEF Aimed, RecordsGrow

LEMMA BondedKept ==
    ASSUME DisputesMove, NEW k \in Calls, call'[k] = call[k],
           NEW i, Bonded(k, i)
    PROVE  Bonded(k, i)'
    BY DEF Bonded, DisputesMove

LEMMA CallKept ==
    ASSUME DeskTypeOK, DeskTypeOK', NEW k \in Calls, CallInv(k), Untouched(k),
           RecordsGrow, DisputesStand
    PROVE  CallInv(k)'
    <1>1. Aimed(k) => Aimed(k)'
        BY AimedKept DEF Untouched
    <1>2. \A i : Bonded(k, i) => Bonded(k, i)'
        BY BondedKept DEF Untouched, DisputesStand
    <1>3. opened[k] # None => opened[k] \in DisputeIds
        BY DEF CallInv, Bonded
    <1>4. opened[k] # None => opened'[k] # None /\ Bonded(k, opened[k])'
        BY <1>2 DEF CallInv, Untouched
    <1> QED
        BY <1>1, <1>3, <1>4
           DEF CallInv, Untouched, DisputesStand, NoneAges, InProgress,
               OldestInProgress, Bonded

LEMMA RecordsAreRecords ==
    ASSUME DeskTypeOK, NEW r \in 1 .. Len(records)
    PROVE  /\ Len(records) \in Nat
           /\ records[r] \in Record /\ records[r].disputeId \in Int
           /\ records[r].status \in {"pending", "escalated"}
    <1>1. records \in Seq(Record)
        BY DEF DeskTypeOK
    <1>2. Len(records) \in Nat /\ records[r] \in Record
        BY <1>1
    <1> QED
        BY <1>2 DEF Record

\* Calls that were answered and opened a dispute stay as they are.
AnswersStay ==
    \A k \in Calls : pc[k] = "answered" /\ opened[k] # None =>
        pc'[k] = "answered" /\ call'[k] = call[k] /\ opened'[k] = opened[k]

LEMMA RecordKept ==
    ASSUME NEW r, RecordInv(r), AnswersStay, records'[r] = records[r]
    PROVE  RecordInv(r)'
    BY DEF RecordInv, AnswersStay

-----------------------------------------------------------------------------
\* A step of one call that leaves the records alone.

OneCallMoves(k) ==
    /\ records' = records /\ ticked' = ticked
    /\ \A l \in Calls \ {k} : call'[l] = call[l] /\ pc'[l] = pc[l]
                              /\ tx'[l] = tx[l] /\ opened'[l] = opened[l]
    /\ pc[k] = "answered" => opened[k] = None

LEMMA OneCallKeepsInv ==
    ASSUME TypeOK, DeskInv, DeskTypeOK', OlderAreResolved', ResolvedInTime',
           DisputesStand, NEW k \in Calls, OneCallMoves(k), CallInv(k)',
           opened'[k] # None => opened'[k] = opened[k] \/ opened'[k] \notin DisputeIds,
           pc'[k] = "answered" => opened'[k] = None \/ call'[k].record = 0
    PROVE  DeskInv'
    <1>1. RecordsGrow
        <2>1. records \in Seq(Record)
            BY DEF DeskInv, DeskTypeOK
        <2> QED
            BY <2>1 DEF RecordsGrow, OneCallMoves
    <1>2. \A l \in Calls : CallInv(l)'
        <2>1. \A l \in Calls \ {k} : Untouched(l)
            BY DEF OneCallMoves, Untouched
        <2> QED
            BY <1>1, <2>1, CallKept DEF DeskInv
    <1>3. OneCallEach'
        <2>1. \A l \in Calls : opened[l] # None => opened[l] \in DisputeIds
            BY DEF DeskInv, CallInv, Bonded
        <2> QED
            BY <2>1 DEF DeskInv, OneCallEach, OneCallMoves
    <1>4. AnswersStay
        BY DEF OneCallMoves, AnswersStay
    <1>5. \A r \in 1 .. Len(records') : RecordInv(r)'
        BY <1>4, RecordKept DEF DeskInv, OneCallMoves
    <1>6. AnsweredBondsAreRecorded'
        BY DEF DeskInv, AnsweredBondsAreRecorded, OneCallMoves
    <1> QED
        BY <1>2, <1>3, <1>5, <1>6 DEF DeskInv

\* The contracts do not move.
LEMMA OneCallAlone ==
    ASSUME TypeOK, DeskInv, DeskTypeOK', UNCHANGED vars, NEW k \in Calls,
           OneCallMoves(k), CallInv(k)', opened'[k] = opened[k],
           pc'[k] = "answered" => opened'[k] = None \/ call'[k].record = 0
    PROVE  DeskInv'
    <1>1. UNCHANGED slashingVars
        BY DEF vars
    <1>2. UNCHANGED <<disputes, disputeCount>>
        BY <1>1 DEF slashingVars
    <1>3. DisputesStand
        BY <1>2, UnchangedStand
    <1>4. OlderAreResolved' /\ ResolvedInTime'
        BY <1>2 DEF DeskInv, OlderAreResolved, ResolvedInTime, DisputeIds, Pair
    <1> QED
        BY <1>3, <1>4, OneCallKeepsInv

LEMMA EscalateKeeps ==
    ASSUME TypeOK, DeskInv, NEW k \in Calls, Escalate(k)
    PROVE  DeskInv'
    <1>1. PICK t \in [record : {0}, claimId : Claims, accused : Accounts]
                 \cup {[record |-> r, claimId |-> records[r].claimId,
                        accused |-> records[r].accused] : r \in 1..Len(records)} :
             /\ call' = [call EXCEPT ![k] = t]
             /\ Go(k, IF t.accused = ChallengerKey THEN "answered" ELSE "send")
        BY DEF Escalate
    <1>2. /\ pc[k] = "new"
          /\ UNCHANGED <<vars, records, ticked, tx, opened>>
        BY DEF Escalate
    <1>3. /\ t \in Target /\ t.claimId \in Claims /\ t.accused \in Accounts
          /\ t.record \in 0 .. Len(records)
          /\ t.record # 0 => /\ records[t.record].claimId = t.claimId
                             /\ records[t.record].accused = t.accused
        <2>1. CASE t \in [record : {0}, claimId : Claims, accused : Accounts]
            <3>1. records \in Seq(Record)
                BY DEF DeskInv, DeskTypeOK
            <3>2. Len(records) \in Nat
                BY <3>1
            <3> QED
                BY <2>1, <3>2 DEF Target
        <2>2. CASE \E r \in 1 .. Len(records) :
                     t = [record |-> r, claimId |-> records[r].claimId,
                          accused |-> records[r].accused]
            <3>1. PICK r \in 1 .. Len(records) :
                     t = [record |-> r, claimId |-> records[r].claimId,
                          accused |-> records[r].accused]
                BY <2>2
            <3>2. records[r] \in Record /\ Len(records) \in Nat
                BY RecordsAreRecords DEF DeskInv
            <3> QED
                BY <3>1, <3>2 DEF Target, Record
        <2> QED
            BY <2>1, <2>2
    <1>4. DeskTypeOK'
        BY <1>1, <1>2, <1>3 DEF DeskInv, DeskTypeOK, Go
    <1>5. CallInv(k) /\ tx[k] = "none" /\ opened[k] = None
        BY <1>2 DEF DeskInv, CallInv
    <1>6. OneCallMoves(k)
        BY <1>1, <1>2, <1>5 DEF DeskInv, DeskTypeOK, Go, OneCallMoves
    <1>7. /\ call'[k] = t
          /\ \/ pc'[k] = "send" /\ t.accused # ChallengerKey
             \/ pc'[k] = "answered"
        BY <1>1 DEF DeskInv, DeskTypeOK, Go
    <1>8. Aimed(k)'
        BY <1>2, <1>3, <1>7 DEF Aimed
    <1>9. CallInv(k)'
        BY <1>2, <1>5, <1>7, <1>8 DEF CallInv
    <1> QED
        BY <1>2, <1>4, <1>5, <1>6, <1>9, OneCallAlone

LEMMA SendKeeps ==
    ASSUME TypeOK, DeskInv, NEW k \in Calls, Send(k)
    PROVE  DeskInv'
    <1>1. /\ pc[k] = "send" /\ tx' = [tx EXCEPT ![k] = "pending"]
          /\ pc' = [pc EXCEPT ![k] = "wait"]
          /\ UNCHANGED <<vars, records, call, ticked, opened>>
        BY DEF Send, Go
    <1>2. DeskTypeOK'
        BY <1>1 DEF DeskInv, DeskTypeOK
    <1>3. /\ CallInv(k) /\ tx[k] = "none" /\ opened[k] = None
          /\ pc'[k] = "wait" /\ tx'[k] = "pending"
        BY <1>1 DEF DeskInv, DeskTypeOK, CallInv
    <1>4. OneCallMoves(k)
        BY <1>1, <1>3 DEF DeskInv, DeskTypeOK, OneCallMoves
    <1>5. Aimed(k)'
        BY <1>1, <1>3 DEF CallInv, Aimed
    <1>6. CallInv(k)'
        BY <1>1, <1>3, <1>5 DEF CallInv
    <1> QED
        BY <1>1, <1>2, <1>3, <1>4, <1>6, OneCallAlone

\* A call goes on or ends, and nothing else happens.
LEMMA GoKeeps ==
    ASSUME TypeOK, DeskInv, NEW k \in Calls,
           NEW place \in {"mark", "answered", "cut off"},
           pc[k] \in {"send", "wait", "mark"}, Go(k, place),
           UNCHANGED <<vars, records, call, ticked, tx, opened>>,
           place = "mark" => tx[k] = "success" /\ call[k].record # 0
                             /\ pc[k] = "wait",
           place = "answered" => tx[k] # "pending"
                                 /\ (opened[k] = None \/ call[k].record = 0)
    PROVE  DeskInv'
    <1>1. DeskTypeOK'
        BY DEF DeskInv, DeskTypeOK, Go
    <1>2. CallInv(k) /\ pc'[k] = place
        BY DEF DeskInv, DeskTypeOK, Go
    <1>3. OneCallMoves(k)
        BY DEF DeskInv, DeskTypeOK, OneCallMoves, Go
    <1>4. Aimed(k)'
        BY <1>2 DEF CallInv, Aimed
    <1>5. opened[k] # None => Bonded(k, opened[k])'
        <2>1. DisputeIds' = DisputeIds /\ disputes' = disputes
            BY DEF vars, slashingVars, DisputeIds
        <2> QED
            BY <1>2, <2>1 DEF CallInv, Bonded
    <1>6. k \in InProgress' => k \in InProgress
        BY DEF InProgress
    <1>7. CallInv(k)'
        BY <1>2, <1>4, <1>5, <1>6
           DEF CallInv, vars, slashingVars, OldestInProgress
    <1> QED
        BY <1>1, <1>2, <1>3, <1>7, OneCallAlone

LEMMA SendRefusedKeeps ==
    ASSUME TypeOK, DeskInv, NEW k \in Calls, SendRefused(k)
    PROVE  DeskInv'
    <1>1. CallInv(k) /\ pc[k] = "send"
        BY DEF DeskInv, SendRefused
    <1>2. tx[k] = "none" /\ opened[k] = None
        BY <1>1 DEF CallInv
    <1>3. Go(k, "answered") /\ UNCHANGED <<vars, records, call, ticked, tx, opened>>
        BY DEF SendRefused, Answer
    <1> QED
        BY <1>1, <1>2, <1>3, GoKeeps

LEMMA ReceiptKeeps ==
    ASSUME TypeOK, DeskInv, NEW k \in Calls, Receipt(k)
    PROVE  DeskInv'
    <1>1. CallInv(k) /\ pc[k] = "wait" /\ tx[k] \in {"success", "reverted"}
        BY DEF DeskInv, Receipt
    <1>2. UNCHANGED <<vars, records, call, ticked, tx, opened>>
        BY DEF Receipt
    <1>3. CASE tx[k] = "success" /\ call[k].record # 0
        BY <1>1, <1>2, <1>3, GoKeeps DEF Receipt
    <1>4. CASE ~(tx[k] = "success" /\ call[k].record # 0)
        <2>1. opened[k] = None \/ call[k].record = 0
            BY <1>1, <1>4 DEF CallInv
        <2> QED
            BY <1>1, <1>2, <1>4, <2>1, GoKeeps DEF Receipt
    <1> QED
        BY <1>3, <1>4

LEMMA CutOffKeeps ==
    ASSUME TypeOK, DeskInv, NEW k \in Calls, CutOff(k)
    PROVE  DeskInv'
    BY GoKeeps DEF CutOff, InProgress

LEMMA MineRevertedKeeps ==
    ASSUME TypeOK, DeskInv, NEW k \in Calls, MineReverted(k)
    PROVE  DeskInv'
    <1>1. /\ tx[k] = "pending" /\ tx' = [tx EXCEPT ![k] = "reverted"]
          /\ UNCHANGED <<vars, records, call, pc, ticked, opened>>
        BY DEF MineReverted
    <1>2. DeskTypeOK'
        BY <1>1 DEF DeskInv, DeskTypeOK
    <1>3. CallInv(k) /\ tx'[k] = "reverted"
        BY <1>1 DEF DeskInv, DeskTypeOK
    <1>4. /\ pc[k] \notin {"new", "send", "mark", "answered"}
          /\ opened[k] = None /\ call[k].accused # ChallengerKey
          /\ Aimed(k)
        BY <1>1, <1>3 DEF CallInv
    <1>5. OneCallMoves(k)
        BY <1>1, <1>4 DEF DeskInv, DeskTypeOK, OneCallMoves
    <1>6. Aimed(k)'
        BY <1>1, <1>4 DEF Aimed
    <1>7. CallInv(k)'
        BY <1>1, <1>3, <1>4, <1>6 DEF CallInv
    <1> QED
        BY <1>1, <1>2, <1>4, <1>5, <1>7, OneCallAlone

\* The dispute that opens is new, so no other call opened it, and of age 0.
LEMMA MineSuccessKeeps ==
    ASSUME TypeOK, DisputesAgree, DeskInv, TypeOK', NEW k \in Calls,
           MineSuccess(k)
    PROVE  DeskInv'
    <1>1. /\ tx[k] = "pending" /\ tx' = [tx EXCEPT ![k] = "success"]
          /\ opened' = [opened EXCEPT ![k] = disputeCount]
          /\ UNCHANGED <<records, call, pc, ticked>>
        BY DEF MineSuccess
    <1>2. /\ call[k].claimId \in Claims /\ call[k].accused \in Accounts
          /\ OpenDispute(ChallengerKey, call[k].claimId, call[k].accused)
        BY MinedIsACall
    <1>3. /\ DisputesStand /\ OpenedOnTop
          /\ DisputeIds' = DisputeIds \union {disputeCount}
          /\ disputes'[disputeCount].challenger = ChallengerKey
          /\ disputes'[disputeCount].claimId = call[k].claimId
          /\ disputes'[disputeCount].accused = call[k].accused
          /\ disputes'[disputeCount].age = 0
        BY <1>2, OpenStands
    <1>4. OlderAreResolved' /\ ResolvedInTime'
        BY <1>3, OlderStay DEF DeskInv, DisputesStand
    <1>5. disputeCount \in Nat /\ disputeCount \notin DisputeIds
        <2>1. disputeCount \in Nat
            BY DEF TypeOK
        <2> QED
            BY <2>1 DEF DisputeIds
    <1>6. DeskTypeOK'
        <2>1. opened' \in [Calls -> Int]
            <3>1. opened \in [Calls -> Int]
                BY DEF DeskInv, DeskTypeOK
            <3>2. opened' = [opened EXCEPT ![k] = disputeCount]
                BY <1>1
            <3> QED
                BY <1>5, <3>1, <3>2
        <2>2. tx' \in [Calls -> {"none", "pending", "success", "reverted"}]
            BY <1>1 DEF DeskInv, DeskTypeOK
        <2> QED
            BY <1>1, <2>1, <2>2 DEF DeskInv, DeskTypeOK
    <1>7. CallInv(k) /\ tx'[k] = "success" /\ opened'[k] = disputeCount
        BY <1>1 DEF DeskInv, DeskTypeOK
    <1>8. /\ pc[k] \notin {"new", "send", "mark", "answered"}
          /\ call[k].accused # ChallengerKey
          /\ Aimed(k)
        BY <1>1, <1>7 DEF CallInv
    <1>9. OneCallMoves(k)
        BY <1>1, <1>8 DEF DeskInv, DeskTypeOK, OneCallMoves
    <1>10. Aimed(k)'
        BY <1>1, <1>8 DEF Aimed
    <1>11. Bonded(k, opened[k])'
        BY <1>1, <1>3, <1>7 DEF Bonded
    <1>12. disputes'[opened'[k]].age <= OldestInProgress(k)'
        BY <1>3, <1>7 DEF OldestInProgress
    <1>13. opened'[k] # None
        BY <1>5, <1>7 DEF None
    <1>14. CallInv(k)'
        BY <1>1, <1>7, <1>8, <1>10, <1>11, <1>12, <1>13 DEF CallInv
    <1> QED
        BY <1>1, <1>3, <1>4, <1>5, <1>6, <1>7, <1>8, <1>9, <1>14, OneCallKeepsInv

-----------------------------------------------------------------------------
\* A step of everybody else.

LEMMA OthersKeep ==
    ASSUME TypeOK, TypeOK', DisputesAgree, DeskInv, OthersCall
    PROVE  DeskInv'
    <1>1. DisputesStand /\ OpenedOnTop /\ UNCHANGED deskVars
        BY OthersCallContracts DEF OthersCall
    <1>2. OlderAreResolved' /\ ResolvedInTime'
        BY <1>1, OlderStay DEF DeskInv, DisputesStand
    <1>3. UNCHANGED <<records, call, pc, ticked, tx, opened>>
        BY <1>1 DEF deskVars
    <1>4. DeskTypeOK' /\ OneCallEach' /\ AnsweredBondsAreRecorded'
        BY <1>3 DEF DeskInv, DeskTypeOK, OneCallEach, AnsweredBondsAreRecorded
    <1>5. RecordsGrow
        <2>1. records \in Seq(Record)
            BY DEF DeskInv, DeskTypeOK
        <2> QED
            BY <1>3, <2>1 DEF RecordsGrow
    <1>6. \A k \in Calls : Untouched(k)
        BY <1>3 DEF Untouched
    <1>7. \A k \in Calls : CallInv(k)'
        BY <1>1, <1>4, <1>5, <1>6, CallKept DEF DeskInv
    <1>8. \A r \in 1 .. Len(records') : RecordInv(r)'
        <2>1. AnswersStay
            BY <1>3 DEF AnswersStay
        <2> QED
            BY <1>3, <2>1, RecordKept DEF DeskInv
    <1> QED
        BY <1>2, <1>4, <1>7, <1>8 DEF DeskInv

\* A Tick cuts off the calls that lived through one, so that a dispute of those
\* that go on is at most one Tick old.
LEMMA TickKeeps ==
    ASSUME TypeOK, TypeOK', DeskInv, DeskTick
    PROVE  DeskInv'
    <1>1. /\ ticked' = ticked \cup InProgress
          /\ pc' = [k \in Calls |->
                IF k \in InProgress \cap ticked THEN "cut off" ELSE pc[k]]
          /\ UNCHANGED <<records, call, tx, opened>>
        BY DEF DeskTick
    <1>2. /\ DisputesMove /\ OpenedOnTop
          /\ \A i \in DisputeIds : disputes'[i].age <= disputes[i].age + 1
        BY TickMoves DEF DeskTick
    <1>3. OlderAreResolved' /\ ResolvedInTime'
        BY <1>2, OlderStay DEF DeskInv
    <1>4. DeskTypeOK'
        BY <1>1 DEF DeskInv, DeskTypeOK, InProgress
    <1>5. RecordsGrow
        <2>1. records \in Seq(Record) /\ records' = records
            BY <1>1 DEF DeskInv, DeskTypeOK
        <2> QED
            BY <2>1 DEF RecordsGrow
    <1>6. ASSUME NEW k \in Calls
          PROVE  CallInv(k)'
        <2>1. CallInv(k) /\ call'[k] = call[k] /\ tx'[k] = tx[k]
              /\ opened'[k] = opened[k]
            BY <1>1 DEF DeskInv
        <2>2. Aimed(k) => Aimed(k)'
            BY <1>4, <1>5, <2>1, AimedKept DEF DeskInv
        <2>3. opened[k] # None => Bonded(k, opened[k])'
            BY <1>1, <1>2, <2>1, BondedKept DEF CallInv
        <2>4. ASSUME opened[k] # None, pc'[k] \in {"send", "wait", "mark"}
              PROVE  disputes'[opened'[k]].age <= OldestInProgress(k)'
            <3>1. k \in InProgress /\ k \notin ticked
                BY <1>1, <2>4 DEF InProgress
            <3>2. opened[k] \in DisputeIds /\ disputes[opened[k]].age <= 0
                BY <2>1, <2>4, <3>1 DEF CallInv, Bonded, OldestInProgress
            <3>3. /\ disputes[opened[k]].age \in Nat
                  /\ disputes'[opened[k]].age \in Nat
                BY <1>2, <3>2, AgesAreNumbers
                   DEF DisputesMove, TypeOK, Dispute, WindowElapsed
            <3>4. disputes'[opened[k]].age <= 1
                BY <1>2, <3>2, <3>3
            <3> QED
                BY <1>1, <2>1, <3>1, <3>4 DEF OldestInProgress
        <2>5. pc'[k] = pc[k] \/ (pc'[k] = "cut off" /\ k \in InProgress)
            BY <1>1
        <2>6. k \in InProgress' => pc'[k] \in {"send", "wait", "mark"}
            BY DEF InProgress
        <2> QED
            BY <2>1, <2>2, <2>3, <2>4, <2>5, <2>6 DEF CallInv, InProgress
    <1>7. OneCallEach'
        BY <1>1 DEF DeskInv, OneCallEach
    <1>8. AnswersStay
        BY <1>1 DEF AnswersStay, InProgress
    <1>9. \A r \in 1 .. Len(records') : RecordInv(r)'
        BY <1>1, <1>8, RecordKept DEF DeskInv
    <1>10. AnsweredBondsAreRecorded'
        BY <1>1 DEF DeskInv, AnsweredBondsAreRecorded
    <1> QED
        BY <1>3, <1>4, <1>6, <1>7, <1>9, <1>10 DEF DeskInv

-----------------------------------------------------------------------------
\* The intake.

LEMMA FileKeeps ==
    ASSUME TypeOK, DeskInv, NEW c \in Claims, NEW a \in Accounts,
           FileDispute(c, a)
    PROVE  DeskInv'
    <1> DEFINE new == [claimId |-> c, accused |-> a,
                       status |-> "pending", disputeId |-> None]
    <1>1. /\ records' = Append(records, new)
          /\ UNCHANGED <<vars, call, pc, ticked, tx, opened>>
        BY DEF FileDispute
    <1>2. new \in Record
        BY DEF Record, None
    <1>3. records \in Seq(Record)
        BY DEF DeskInv, DeskTypeOK
    <1>4. /\ records' \in Seq(Record) /\ Len(records) \in Nat
          /\ Len(records') = Len(records) + 1
          /\ \A r \in 1 .. Len(records) : records'[r] = records[r]
          /\ records'[Len(records) + 1] = new
        <2> HIDE DEF new
        <2> QED  BY <1>1, <1>2, <1>3
    <1>5. DeskTypeOK' /\ OneCallEach'
        BY <1>1, <1>4 DEF DeskInv, DeskTypeOK, OneCallEach
    <1>6. UNCHANGED <<disputes, disputeCount>>
        BY <1>1 DEF vars, slashingVars
    <1>7. OlderAreResolved' /\ ResolvedInTime'
        BY <1>6 DEF DeskInv, OlderAreResolved, ResolvedInTime, DisputeIds, Pair
    <1>8. DisputesStand
        BY <1>6, UnchangedStand
    <1>9. RecordsGrow
        BY <1>4 DEF RecordsGrow
    <1>10. \A k \in Calls : Untouched(k)
        BY <1>1 DEF Untouched
    <1>11. \A k \in Calls : CallInv(k)'
        BY <1>5, <1>8, <1>9, <1>10, CallKept DEF DeskInv
    <1>12. ASSUME NEW r \in 1 .. Len(records')
           PROVE  RecordInv(r)'
        <2>1. CASE r = Len(records) + 1
            BY <1>4, <2>1 DEF RecordInv
        <2>2. CASE r # Len(records) + 1
            <3>1. r \in 1 .. Len(records)
                BY <1>4, <2>2
            <3>2. AnswersStay
                BY <1>1 DEF AnswersStay
            <3> QED
                BY <1>4, <3>1, <3>2, RecordKept DEF DeskInv
        <2> QED
            BY <2>1, <2>2
    <1>13. ASSUME NEW k \in Calls, pc'[k] = "answered", call'[k].record # 0,
                  opened'[k] # None
           PROVE  records'[call'[k].record].disputeId >= opened'[k]
        <2>1. /\ pc[k] = "answered" /\ call[k].record # 0 /\ opened[k] # None
              /\ call'[k] = call[k] /\ opened'[k] = opened[k]
            BY <1>1, <1>13
        <2>2. call[k].record \in 1 .. Len(records)
            BY <1>4, <2>1 DEF DeskInv, CallInv, Aimed
        <2> QED
            BY <1>4, <2>1, <2>2 DEF DeskInv, AnsweredBondsAreRecorded
    <1> QED
        BY <1>5, <1>7, <1>11, <1>12, <1>13 DEF DeskInv, AnsweredBondsAreRecorded

-----------------------------------------------------------------------------
\* The record is marked.

\* What a call is about to write down is the newest dispute that a call opened
\* about the record: a newer one needs that this one is over, and it is not.
LEMMA MarkedIsNewest ==
    ASSUME TypeOK, DeskInv, NEW k \in Calls, pc[k] = "mark",
           NEW l \in Calls, opened[l] # None, call[l].record = call[k].record
    PROVE  /\ opened[k] \in Int /\ opened[l] \in Int
           /\ opened[l] <= opened[k]
           /\ opened[l] # opened[k] => disputes[opened[l]].resolved
    <1>1. CallInv(k) /\ CallInv(l)
        BY DEF DeskInv
    <1>2. opened[k] # None /\ call[k].record # 0
        BY <1>1 DEF CallInv
    <1>3. pc[k] # "new" /\ pc[l] # "new"
        BY <1>1 DEF CallInv
    <1>4. Aimed(k) /\ Aimed(l)
        BY <1>1, <1>3 DEF CallInv
    <1>5. Bonded(k, opened[k]) /\ Bonded(l, opened[l])
        BY <1>1, <1>2 DEF CallInv
    <1>6. Pair(opened[k]) = Pair(opened[l])
        BY <1>2, <1>4, <1>5 DEF Aimed, Bonded, Pair
    <1>7. disputes[opened[k]].age <= OldestInProgress(k)
        BY <1>1, <1>2 DEF CallInv, InProgress
    <1>8. opened[k] \in DisputeIds /\ opened[l] \in DisputeIds
        BY <1>5 DEF Bonded
    <1>9. ~disputes[opened[k]].resolved
        <2>1. disputes[opened[k]].age \in Nat
            BY <1>8, AgesAreNumbers
        <2>2. disputes[opened[k]].age <= 1
            BY <1>7, <2>1 DEF OldestInProgress
        <2> QED
            BY <1>8, <2>1, <2>2 DEF DeskInv, ResolvedInTime
    <1>10. opened[k] \in Int /\ opened[l] \in Int
        BY <1>8 DEF DisputeIds
    <1> QED
        BY <1>6, <1>8, <1>9, <1>10 DEF DeskInv, OlderAreResolved

LEMMA MarkEffect ==
    ASSUME DeskTypeOK, NEW k \in Calls, markDisputeEscalated(k),
           CallInv(k), NEW r, r = call[k].record
    PROVE  /\ r \in 1 .. Len(records)
           /\ records' \in Seq(Record) /\ Len(records') = Len(records)
           /\ Len(records) \in Nat
           /\ \A s \in 1 .. Len(records) \ {r} : records'[s] = records[s]
           /\ records'[r].status = "escalated"
           /\ records'[r].disputeId = opened[k]
           /\ records'[r].claimId = records[r].claimId
           /\ records'[r].accused = records[r].accused
    <1>1. records \in Seq(Record) /\ opened[k] \in Int
        BY DEF DeskTypeOK
    <1>2. Len(records) \in Nat
        BY <1>1
    <1>3. r \in 1 .. Len(records)
        BY <1>2 DEF CallInv, Aimed, markDisputeEscalated
    <1> DEFINE marked == [records[r] EXCEPT !.status = "escalated",
                                            !.disputeId = opened[k]]
    <1>4. records[r] \in Record
        BY <1>1, <1>3
    <1>5. /\ marked \in Record /\ marked.status = "escalated"
          /\ marked.disputeId = opened[k]
          /\ marked.claimId = records[r].claimId
          /\ marked.accused = records[r].accused
        BY <1>1, <1>4 DEF Record
    <1>6. records' = [records EXCEPT ![r] = marked]
        BY <1>1, <1>3, <1>4 DEF markDisputeEscalated, Record
    <1> HIDE DEF marked
    <1>7. /\ records' \in Seq(Record) /\ Len(records') = Len(records)
          /\ records'[r] = marked
          /\ \A s \in 1 .. Len(records) \ {r} : records'[s] = records[s]
        BY <1>1, <1>3, <1>5, <1>6
    <1> QED
        BY <1>2, <1>3, <1>5, <1>7

LEMMA MarkKeeps ==
    ASSUME TypeOK, DeskInv, NEW k \in Calls, markDisputeEscalated(k)
    PROVE  DeskInv'
    <1> DEFINE r == call[k].record
    <1>1. /\ pc[k] = "mark" /\ pc' = [pc EXCEPT ![k] = "answered"]
          /\ UNCHANGED <<vars, call, ticked, tx, opened>>
        BY DEF markDisputeEscalated, Go
    <1>2. CallInv(k) /\ opened[k] # None /\ r # 0 /\ Aimed(k)
        BY <1>1 DEF DeskInv, CallInv
    <1>3. /\ r \in 1 .. Len(records)
          /\ records' \in Seq(Record) /\ Len(records') = Len(records)
          /\ Len(records) \in Nat
          /\ \A s \in 1 .. Len(records) \ {r} : records'[s] = records[s]
          /\ records'[r].status = "escalated"
          /\ records'[r].disputeId = opened[k]
          /\ records'[r].claimId = records[r].claimId
          /\ records'[r].accused = records[r].accused
        BY <1>2, MarkEffect DEF DeskInv
    <1> HIDE DEF r
    <1>4. DeskTypeOK' /\ OneCallEach'
        BY <1>1, <1>3 DEF DeskInv, DeskTypeOK, OneCallEach
    <1>5. UNCHANGED <<disputes, disputeCount>>
        BY <1>1 DEF vars, slashingVars
    <1>6. OlderAreResolved' /\ ResolvedInTime'
        BY <1>5 DEF DeskInv, OlderAreResolved, ResolvedInTime, DisputeIds, Pair
    <1>7. DisputesStand
        BY <1>5, UnchangedStand
    <1>8. RecordsGrow
        BY <1>3 DEF RecordsGrow
    <1>9. \A l \in Calls \ {k} : Untouched(l)
        BY <1>1 DEF Untouched, DeskInv, DeskTypeOK
    <1>10. pc'[k] = "answered"
        BY <1>1 DEF DeskInv, DeskTypeOK
    <1>11. CallInv(k)'
        <2>1. Aimed(k)'
            BY <1>1, <1>2, <1>4, <1>8, AimedKept DEF DeskInv
        <2>2. Bonded(k, opened[k])'
            BY <1>1, <1>2, <1>7, BondedKept DEF CallInv, DisputesStand
        <2> QED
            BY <1>1, <1>2, <1>10, <2>1, <2>2 DEF CallInv, InProgress
    <1>12. \A l \in Calls : CallInv(l)'
        BY <1>4, <1>7, <1>8, <1>9, <1>11, CallKept DEF DeskInv
    <1>13. AnswersStay
        BY <1>1, <1>9 DEF AnswersStay, Untouched
    <1>14. ASSUME NEW s \in 1 .. Len(records')
           PROVE  RecordInv(s)'
        <2>1. CASE s = r
            BY <1>1, <1>2, <1>3, <1>10, <2>1 DEF RecordInv, r
        <2>2. CASE s # r
            BY <1>3, <1>13, <2>2, RecordKept DEF DeskInv
        <2> QED
            BY <2>1, <2>2
    <1>15. ASSUME NEW l \in Calls, pc'[l] = "answered", call'[l].record # 0,
                  opened'[l] # None
           PROVE  records'[call'[l].record].disputeId >= opened'[l]
        <2>1. call'[l] = call[l] /\ opened'[l] = opened[l]
            BY <1>1
        <2>2. CASE call[l].record = r
            <3>1. opened[l] <= opened[k] /\ opened[k] \in Int /\ opened[l] \in Int
                BY <1>1, <1>15, <2>1, <2>2, MarkedIsNewest DEF r
            <3> QED
                BY <1>3, <2>1, <2>2, <3>1
        <2>3. CASE call[l].record # r
            <3>1. l # k /\ pc[l] = "answered"
                BY <1>9, <1>15, <2>3 DEF Untouched, r
            <3>2. call[l].record \in 1 .. Len(records)
                BY <1>3, <1>15, <2>1, <3>1 DEF DeskInv, CallInv, Aimed
            <3> QED
                BY <1>3, <1>15, <2>1, <2>3, <3>1, <3>2
                   DEF DeskInv, AnsweredBondsAreRecorded
        <2> QED
            BY <2>2, <2>3
    <1> QED
        BY <1>4, <1>6, <1>12, <1>14, <1>15 DEF DeskInv, AnsweredBondsAreRecorded

-----------------------------------------------------------------------------
\* The invariant and what follows from it.

LEMMA DeskInitInv ==
    ASSUME DeskInit
    PROVE  TypeOK /\ DisputesAgree /\ DeskInv
    <1>1. Init
        BY DEF DeskInit
    <1>2. TypeOK /\ DisputesAgree
        BY <1>1, InitTypeOK, InitDisputesAgree
    <1>3. DisputeIds = {}
        BY <1>1 DEF Init, SlashingInit, DisputeIds
    <1>4. OlderAreResolved /\ ResolvedInTime
        BY <1>3 DEF OlderAreResolved, ResolvedInTime
    <1>5. records = <<>> /\ records \in Seq(Record) /\ Len(records) = 0
        BY DEF DeskInit
    <1>6. [record |-> 0, claimId |-> None, accused |-> None] \in Target
        BY DEF Target
    <1>7. DeskTypeOK
        BY <1>5, <1>6 DEF DeskInit, DeskTypeOK, None
    <1>8. \A k \in Calls : CallInv(k)
        BY DEF DeskInit, CallInv
    <1>9. OneCallEach /\ AnsweredBondsAreRecorded
        BY DEF DeskInit, OneCallEach, AnsweredBondsAreRecorded
    <1> QED
        BY <1>2, <1>4, <1>5, <1>7, <1>8, <1>9 DEF DeskInv

LEMMA DeskInvStep ==
    ASSUME TypeOK, DisputesAgree, DeskInv, [DeskNext]_allVars
    PROVE  TypeOK' /\ DisputesAgree' /\ DeskInv'
    <1>1. TypeOK' /\ DisputesAgree'
        BY DeskStep, StepType, DisputesAgreeStep
    <1>2. ASSUME NEW k \in Calls, CallStep(k)
          PROVE  DeskInv'
        BY <1>1, <1>2, EscalateKeeps, SendKeeps, SendRefusedKeeps,
           MineSuccessKeeps, MineRevertedKeeps, ReceiptKeeps, MarkKeeps,
           CutOffKeeps DEF CallStep
    <1>3. ASSUME UNCHANGED allVars
          PROVE  DeskInv'
        <2>1. /\ UNCHANGED <<records, call, pc, ticked, tx, opened>>
              /\ UNCHANGED <<disputes, disputeCount>>
            BY <1>3 DEF allVars, deskVars, vars, slashingVars
        <2>2. OlderAreResolved' /\ ResolvedInTime'
            BY <2>1 DEF DeskInv, OlderAreResolved, ResolvedInTime, DisputeIds,
                        Pair
        <2>3. DeskTypeOK' /\ OneCallEach' /\ AnsweredBondsAreRecorded'
            BY <2>1 DEF DeskInv, DeskTypeOK, OneCallEach,
                        AnsweredBondsAreRecorded
        <2>4. ASSUME NEW k \in Calls
              PROVE  CallInv(k)'
            <3>1. /\ CallInv(k) /\ (Aimed(k) => Aimed(k)')
                  /\ \A i : Bonded(k, i) => Bonded(k, i)'
                BY <2>1 DEF DeskInv, Aimed, Bonded, DisputeIds
            <3> QED
                BY <2>1, <3>1 DEF CallInv, InProgress, OldestInProgress
        <2>5. \A r \in 1 .. Len(records') : RecordInv(r)'
            BY <2>1 DEF DeskInv, RecordInv
        <2> QED
            BY <2>2, <2>3, <2>4, <2>5 DEF DeskInv
    <1> QED
        BY <1>1, <1>2, <1>3, FileKeeps, OthersKeep, TickKeeps DEF DeskNext

LEMMA DeskInvariant == DeskSpec => [](TypeOK /\ DisputesAgree /\ DeskInv)
    <1>1. DeskInit => TypeOK /\ DisputesAgree /\ DeskInv
        BY DeskInitInv
    <1>2. TypeOK /\ DisputesAgree /\ DeskInv /\ [DeskNext]_allVars
            => (TypeOK /\ DisputesAgree /\ DeskInv)'
        BY DeskInvStep
    <1> QED
        BY <1>1, <1>2, PTL DEF DeskSpec

(***************************************************************************)
(* The desk keeps to the contracts: whatever the readers file and the      *)
(* operator escalates, the contracts see calls that anyone may make, so    *)
(* that every theorem about Spec holds with the desk beside them           *)
(* (dispute-onchain.ts only ever calls openDispute).                       *)
(***************************************************************************)
THEOREM DeskKeepsToTheContracts == DeskSpec => Spec
    <1>1. DeskInit => Init
        BY DEF DeskInit
    <1>2. TypeOK /\ DisputesAgree /\ DeskInv /\ [DeskNext]_allVars => [Next]_vars
        BY DeskStep
    <1> QED
        BY <1>1, <1>2, DeskInvariant, PTL DEF DeskSpec, Spec

LEMMA RecordsAreReal == TypeOK /\ DeskInv => EscalatedRecordsAreReal
    <1> SUFFICES ASSUME TypeOK, DeskInv, NEW r \in 1 .. Len(records),
                        records[r].status = "escalated"
                 PROVE  /\ records[r].disputeId \in DisputeIds
                        /\ LET d == disputes[records[r].disputeId]
                           IN  /\ d.challenger = ChallengerKey
                               /\ d.accused # ChallengerKey
                               /\ d.claimId = records[r].claimId
                               /\ d.accused = records[r].accused
                        /\ \A s \in 1 .. Len(records) \ {r} :
                              records[s].disputeId # records[r].disputeId
        BY DEF EscalatedRecordsAreReal
    <1>1. ASSUME NEW s \in 1 .. Len(records), records[s].status = "escalated"
          PROVE  \E k \in Calls : /\ call[k].record = s /\ opened[k] # None
                                  /\ opened[k] = records[s].disputeId
        BY <1>1 DEF DeskInv, RecordInv
    <1>2. PICK k \in Calls : /\ call[k].record = r /\ opened[k] # None
                             /\ opened[k] = records[r].disputeId
        BY <1>1
    <1>3. CallInv(k)
        BY DEF DeskInv
    <1>4. Bonded(k, opened[k])
        BY <1>2, <1>3 DEF CallInv
    <1>5. tx[k] # "none" /\ call[k].accused # ChallengerKey
        BY <1>2, <1>3 DEF CallInv
    <1>6. pc[k] # "new" /\ Aimed(k)
        BY <1>3, <1>5 DEF CallInv
    <1>7. /\ call[k].claimId = records[r].claimId
          /\ call[k].accused = records[r].accused
        <2>1. r # 0
            OBVIOUS
        <2> QED
            BY <1>2, <1>6, <2>1 DEF Aimed
    <1>8. ASSUME NEW s \in 1 .. Len(records) \ {r},
                 records[s].disputeId = records[r].disputeId
          PROVE  FALSE
        <2>1. CASE records[s].status = "pending"
            BY <1>2, <1>8, <2>1 DEF DeskInv, RecordInv
        <2>2. CASE records[s].status = "escalated"
            <3>1. PICK l \in Calls : /\ call[l].record = s /\ opened[l] # None
                                     /\ opened[l] = records[s].disputeId
                BY <1>1, <2>2
            <3>2. l = k
                BY <1>2, <1>8, <3>1 DEF DeskInv, OneCallEach
            <3> QED
                BY <1>2, <3>1, <3>2
        <2> QED
            BY <2>1, <2>2, RecordsAreRecords DEF DeskInv
    <1> QED
        BY <1>2, <1>4, <1>5, <1>7, <1>8 DEF Bonded

(***************************************************************************)
(* A record that says escalated names a dispute of the chain, bonded by    *)
(* the operator, about its own claim and attestor and about no other       *)
(* record: for any number of records and calls, cut off and mined late as  *)
(* they may be (markDisputeEscalated, openDisputeOnchain).                 *)
(***************************************************************************)
THEOREM RecordsNameRealDisputes == DeskSpec => []EscalatedRecordsAreReal
    BY DeskInvariant, RecordsAreReal, PTL

(***************************************************************************)
(* The operator's bond leaves a trace: an answered call that opened a      *)
(* dispute has it, or a newer one, in its record (api/operator/dispute).   *)
(***************************************************************************)
THEOREM AnsweredBondsLeaveATrace == DeskSpec => []AnsweredBondsAreRecorded
    <1>1. DeskInv => AnsweredBondsAreRecorded
        BY DEF DeskInv
    <1> QED
        BY <1>1, DeskInvariant, PTL

(***************************************************************************)
(* A record turns away from a dispute only when that dispute is resolved:  *)
(* what is written over it belongs to a call that began less than two      *)
(* ticks ago, and its dispute could open because the old one was over.     *)
(***************************************************************************)
THEOREM RecordsTurnWhenResolved == DeskSpec => RecordsFollowTheOpenDispute
    <1> DEFINE Turns ==
          \A r \in 1 .. Len(records) :
             records[r].disputeId # None
             /\ records'[r].disputeId # records[r].disputeId
               => disputes[records[r].disputeId].resolved
    <1>1. ASSUME TypeOK, DeskInv, [DeskNext]_allVars,
                 NEW r \in 1 .. Len(records), records[r].disputeId # None,
                 records'[r].disputeId # records[r].disputeId
          PROVE  disputes[records[r].disputeId].resolved
        <2>1. /\ DeskTypeOK /\ RecordInv(r)
              /\ records \in Seq(Record) /\ Len(records) \in Nat
            BY <1>1, RecordsAreRecords DEF DeskInv, DeskTypeOK
        <2>2. ASSUME NEW c \in Claims, NEW a \in Accounts, FileDispute(c, a)
              PROVE  records'[r] = records[r]
            BY <2>1, <2>2 DEF FileDispute
        <2>3. \E k \in Calls : markDisputeEscalated(k)
            BY <1>1, <2>2
               DEF DeskNext, allVars, deskVars, CallStep, Escalate, Send,
                   SendRefused, Answer, MineSuccess, MineReverted, Receipt,
                   CutOff, OthersCall, DeskTick
        <2>4. PICK k \in Calls : markDisputeEscalated(k)
            BY <2>3
        <2>5. /\ pc[k] = "mark" /\ CallInv(k)
            BY <1>1, <2>4 DEF markDisputeEscalated, DeskInv
        <2>6. call[k].record = r /\ records'[r].disputeId = opened[k]
            <3> DEFINE m == call[k].record
            <3>1. /\ records'[m].disputeId = opened[k]
                  /\ \A s \in 1 .. Len(records) \ {m} : records'[s] = records[s]
                BY <2>1, <2>4, <2>5, MarkEffect
            <3> HIDE DEF m
            <3>2. r = m
                BY <1>1, <3>1
            <3> QED
                BY <3>1, <3>2 DEF m
        <2>7. records[r].status = "escalated"
            BY <1>1, <2>1, RecordsAreRecords DEF RecordInv
        <2>8. PICK l \in Calls : /\ call[l].record = r /\ opened[l] # None
                                 /\ opened[l] = records[r].disputeId
            BY <2>1, <2>7 DEF RecordInv
        <2> QED
            BY <1>1, <2>5, <2>6, <2>8, MarkedIsNewest
    <1>2. TypeOK /\ DeskInv /\ [DeskNext]_allVars => [Turns]_allVars
        BY <1>1
    <1> QED
        BY <1>2, DeskInvariant, PTL DEF DeskSpec, RecordsFollowTheOpenDispute

=============================================================================
