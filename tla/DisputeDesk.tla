---------------------------- MODULE DisputeDesk ----------------------------
(***************************************************************************)
(* How a reader's dispute reaches AgentSlashing: the keyless intake        *)
(* (apps/web/app/api/dispute), the records (apps/web/lib/db.ts) and the    *)
(* operator's escalation (api/operator/dispute, lib/dispute-onchain.ts),   *)
(* composed with the four contracts and everybody else who calls them.     *)
(*                                                                         *)
(* A call of the operator may fail or be cut off wherever it awaits, and is *)
(* cut off after maxDuration, a minute. A Tick stands for a good part of the *)
(* voting window of a day: no call lives through two of them. What was     *)
(* sent stays with the chain, which may mine it after the call.            *)
(***************************************************************************)
EXTENDS BombeProtocol, Sequences

CONSTANTS
    ChallengerKey,      \* the account of CHALLENGER_KEY
    Calls,              \* calls of the operator's route
    MAX_RECORDS         \* bound: disputes filed

ASSUME DeskAssumption ==
    /\ ChallengerKey \in Accounts /\ MAX_RECORDS \in Nat
    /\ MIN_BOND <= MAX_BOND
    /\ DISPUTE_WINDOW_SECONDS # 0   \* one Tick does not end a vote

VARIABLES
    records,   \* the table disputes: id by place
    call,      \* what a call works on: a record or 0, the claim, the accused
    pc,        \* new, send, wait, mark; answered, or cut off (or answered with 502)
    ticked,    \* the calls that lived through a Tick
    tx,        \* of a call: none, pending, success, reverted
    opened     \* the dispute its transaction opened

deskVars == <<records, call, pc, ticked, tx, opened>>
allVars == <<vars, deskVars>>

None == -1

InProgress == {k \in Calls : pc[k] \in {"send", "wait", "mark"}}

DeskInit ==
    /\ Init
    /\ records = <<>>
    /\ call = [k \in Calls |-> [record |-> 0, claimId |-> None, accused |-> None]]
    /\ pc = [k \in Calls |-> "new"] /\ ticked = {}
    /\ tx = [k \in Calls |-> "none"] /\ opened = [k \in Calls |-> None]

-----------------------------------------------------------------------------
(* The intake *)

\* An attestation and its decision never change: reading them and inserting the
\* record are one step. Its stake is not read. Nothing asks for other records.
FileDispute(c, accused) ==
    /\ Len(records) < MAX_RECORDS
    /\ accused \in Deciders(c)
    /\ records' = Append(records, [claimId |-> c, accused |-> accused,
                                   status |-> "pending", disputeId |-> None])
    /\ UNCHANGED <<vars, call, pc, ticked, tx, opened>>

-----------------------------------------------------------------------------
(* The operator *)

Go(k, place) == pc' = [pc EXCEPT ![k] = place]

Answer(k) == Go(k, "answered") /\ UNCHANGED <<vars, records, call, ticked, tx, opened>>

\* The target is a recorded dispute, whatever its status, or a claim and an
\* accused. The key of the accused is refused before anything is sent.
Escalate(k) ==
    /\ pc[k] = "new"
    /\ \E t \in [record : {0}, claimId : Claims, accused : Accounts]
               \cup {[record |-> r, claimId |-> records[r].claimId,
                      accused |-> records[r].accused] : r \in 1..Len(records)} :
         /\ call' = [call EXCEPT ![k] = t]
         /\ Go(k, IF t.accused = ChallengerKey THEN "answered" ELSE "send")
    /\ UNCHANGED <<vars, records, ticked, tx, opened>>

\* What the contract asks of openDispute.
Opens(k) == isRegistered(ChallengerKey) /\ Disputable(call[k].claimId, call[k].accused)

\* The node estimates the call first: it takes what would not revert now.
Send(k) ==
    /\ pc[k] = "send"
    /\ Opens(k) /\ tx' = [tx EXCEPT ![k] = "pending"] /\ Go(k, "wait")
    /\ UNCHANGED <<vars, records, call, ticked, opened>>

SendRefused(k) == pc[k] = "send" /\ ~Opens(k) /\ Answer(k)

\* The transaction runs when it is mined: what held when it was sent may be gone.
MineSuccess(k) ==
    /\ tx[k] = "pending" /\ tx' = [tx EXCEPT ![k] = "success"]
    /\ opened' = [opened EXCEPT ![k] = disputeCount]
    /\ OpenDispute(ChallengerKey, call[k].claimId, call[k].accused)
    /\ UNCHANGED <<records, call, pc, ticked>>

MineReverted(k) ==
    /\ tx[k] = "pending" /\ ~Opens(k) /\ tx' = [tx EXCEPT ![k] = "reverted"]
    /\ UNCHANGED <<vars, records, call, pc, ticked, opened>>

\* Fault: the record is marked once the transaction is sent.
SentIsEnough(k) ==
    /\ pc[k] = "wait"
    /\ Go(k, IF call[k].record # 0 THEN "mark" ELSE "answered")
    /\ UNCHANGED <<vars, records, call, ticked, tx, opened>>

\* Only the success of a recorded dispute is marked.
Receipt(k) ==
    /\ pc[k] = "wait" /\ tx[k] \in {"success", "reverted"}
    /\ Go(k, IF tx[k] = "success" /\ call[k].record # 0 THEN "mark" ELSE "answered")
    /\ UNCHANGED <<vars, records, call, ticked, tx, opened>>

\* Fault: only a pending record is marked.
MarkPendingOnly(k) ==
    /\ pc[k] = "mark" /\ Go(k, "answered")
    /\ records' = IF records[call[k].record].status = "pending"
                  THEN [records EXCEPT ![call[k].record].status = "escalated",
                                       ![call[k].record].disputeId = opened[k]]
                  ELSE records
    /\ UNCHANGED <<vars, call, ticked, tx, opened>>

markDisputeEscalated(k) ==
    /\ pc[k] = "mark" /\ Go(k, "answered")
    /\ records' = [records EXCEPT ![call[k].record].status = "escalated",
                                  ![call[k].record].disputeId = opened[k]]
    /\ UNCHANGED <<vars, call, ticked, tx, opened>>

\* An await rejects, which is answered with 502, or the call is killed.
CutOff(k) ==
    /\ k \in InProgress /\ Go(k, "cut off")
    /\ UNCHANGED <<vars, records, call, ticked, tx, opened>>

\* Fault: a call may wait for its receipt as long as it takes.
DeskTickNoLimit ==
    Tick /\ UNCHANGED deskVars

\* maxDuration ends the calls that a Tick already found in progress.
DeskTick ==
    /\ Tick
    /\ ticked' = ticked \cup InProgress
    /\ pc' = [k \in Calls |-> IF k \in InProgress \cap ticked THEN "cut off" ELSE pc[k]]
    /\ UNCHANGED <<records, call, tx, opened>>

-----------------------------------------------------------------------------

CallStep(k) ==
    \/ Escalate(k) \/ Send(k) \/ SendRefused(k)
    \/ MineSuccess(k) \/ MineReverted(k)
    \/ Receipt(k) \/ markDisputeEscalated(k) \/ CutOff(k)

\* The calls of everybody else that the desk may notice: what the others take out
\* of the contracts, add to a bond or close, no dispute looks at.
OthersCall ==
    /\ \/ \E a \in Accounts, v \in {MIN_BOND} : Register(a, v) \/ WithdrawBond(a, v)
       \/ \E c \in Claims, tier \in TIERS : PostClaim(c, tier)
       \/ \E a \in Accounts, c \in Claims, d \in Decision : Attest(a, c, d)
       \/ \E a, accused \in Accounts, c \in Claims : OpenDispute(a, c, accused)
       \/ \E a \in Accounts, id \in DisputeIds, w \in BOOLEAN : Vote(a, id, w)
       \/ \E id \in DisputeIds : ResolveDispute(id)
    /\ UNCHANGED deskVars

DeskNext ==
    \/ \E c \in Claims, a \in Accounts : FileDispute(c, a)
    \/ \E k \in Calls : CallStep(k)
    \/ OthersCall \/ DeskTick

DeskSpec == DeskInit /\ [][DeskNext]_allVars

-----------------------------------------------------------------------------
(* Properties *)

\* A record that says escalated names a dispute of the chain: bonded by the
\* operator, about the record's claim and attestor, and about no other record.
EscalatedRecordsAreReal ==
    \A r \in 1..Len(records) : records[r].status = "escalated" =>
        /\ records[r].disputeId \in DisputeIds
        /\ LET d == disputes[records[r].disputeId]
           IN  /\ d.challenger = ChallengerKey /\ d.accused # ChallengerKey
               /\ d.claimId = records[r].claimId /\ d.accused = records[r].accused
        /\ \A s \in 1..Len(records) \ {r} :
              records[s].disputeId # records[r].disputeId

\* A bond of the operator leaves a trace: when the call that opened a recorded
\* dispute was answered, its record names that dispute or, after an escalation
\* that came later, a newer one. Only a call that failed or was cut off leaves an
\* untold bond.
AnsweredBondsAreRecorded ==
    \A k \in Calls :
        pc[k] = "answered" /\ call[k].record # 0 /\ opened[k] # None =>
            records[call[k].record].disputeId >= opened[k]

\* A record escalated again turns to another dispute only when the one it named
\* was resolved: no open dispute drops out of the records.
RecordsFollowTheOpenDispute ==
    [][\A r \in 1..Len(records) :
          records[r].disputeId # None /\ records'[r].disputeId # records[r].disputeId
            => disputes[records[r].disputeId].resolved]_allVars

=============================================================================
