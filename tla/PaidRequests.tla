---------------------------- MODULE PaidRequests ----------------------------
(* The self-serve paid flow of the web app: POST /api/v1/request checks a     *)
(* payment made on chain, records it once, and, when the live flow is on,     *)
(* posts the claim and attests it with the reflector's key and then with the  *)
(* keys of the other attestors.  A call is one invocation of the handler: it  *)
(* runs on one instance of the serverless app and may be cut off at any await.*)
EXTENDS Naturals

CONSTANTS
    Call,       \* invocations of POST
    Payment,    \* payment transactions, by hash
    Asset,      \* assets a request may name
    Instance,   \* running instances of the app, each with its own memory
    Extras,     \* how many attestors corroborate (rotor, stator)
    DbEnabled,  \* DATABASE_URL is set
    LiveFlow,   \* PAID_FLOW_LIVE and both keys are set
    NoCall

ASSUME PaidAssumption ==
    /\ NoCall \notin Call
    /\ Extras \in 0..2
    /\ DbEnabled \in BOOLEAN /\ LiveFlow \in BOOLEAN

VARIABLES
    payments,      \* what the chain says of a payment
    rows,          \* table attestation_requests: the call that recorded a payment
    traces,        \* table traces: the call whose trace is stored
    usedTxHashes,  \* per instance, the payments its memory holds as used
    calls,         \* the handler invocations
    mempool,       \* transactions sent and not yet mined: <<call, sender>>
    posted, closed,  \* claims on chain
    attestations   \* on chain: the call whose trace an attestation's hash is of

chain == <<mempool, posted, closed, attestations>>
tables == <<rows, traces>>
vars == <<payments, tables, usedTxHashes, calls, chain>>

Attestor == 1..(1 + Extras)
Reflector == 1
PostingKey == 0

\* A claim id is the asset and ten digits of the payment's hash, which are taken
\* to tell the payments apart.
Claim == Asset \X Payment
claimId(c) == <<calls[c].asset, calls[c].payment>>

\* The awaits at which a call may be suspended, and the answers it may give.
Awaits == {"confirm", "record", "post", "posting", "attest", "attesting", "store"}
Answers == {"refused", "used", "unconfirmed", "error", "verified", "pending", "fulfilled"}

\* turn is the attestor at work, attestors those the answer will name.
Handler ==
    [pc : {"idle", "killed"} \cup Awaits \cup Answers,
     payment : Payment, asset : Asset, instance : Instance,
     turn : Attestor, attestors : SUBSET Attestor]

Init ==
    /\ payments = [p \in Payment |-> "unseen"]
    /\ rows = [p \in Payment |-> NoCall]
    /\ traces = [k \in Claim |-> [a \in Attestor |-> NoCall]]
    /\ usedTxHashes = [i \in Instance |-> {}]
    /\ calls \in [Call -> [pc : {"idle"}, payment : Payment, asset : Asset,
                           instance : Instance, turn : {Reflector}, attestors : {{}}]]
    /\ mempool = {} /\ posted = {} /\ closed = {}
    /\ attestations = [k \in Claim |-> [a \in Attestor |-> NoCall]]

At(c, pc) == calls[c].pc = pc
Goto(c, pc) == calls' = [calls EXCEPT ![c].pc = pc]

-----------------------------------------------------------------------------
(* The contracts, as the paid flow meets them *)

Postable(k) == k \notin posted
Attestable(k, a) == k \in posted \ closed /\ attestations[k][a] = NoCall

\* A transaction is mined: its effect is taken, or it reverts because the claim
\* changed after it was sent. An attestor that left or a claim that is full makes
\* it revert like a claim that was closed, and is left out.
Mine(c, sender) ==
    LET k == claimId(c) IN
    /\ <<c, sender>> \in mempool
    /\ mempool' = mempool \ {<<c, sender>>}
    /\ posted' = IF sender = PostingKey /\ Postable(k) THEN posted \cup {k} ELSE posted
    /\ attestations' = IF sender # PostingKey /\ Attestable(k, sender)
                       THEN [attestations EXCEPT ![k][sender] = c] ELSE attestations
    /\ UNCHANGED <<payments, tables, usedTxHashes, calls, closed>>

PaymentLands(p) ==
    /\ payments[p] = "unseen"
    /\ \E verdict \in {"good", "bad"} : payments' = [payments EXCEPT ![p] = verdict]
    /\ UNCHANGED <<tables, usedTxHashes, calls, chain>>

CloseClaim(k) ==
    /\ k \in posted \ closed
    /\ closed' = closed \cup {k}
    /\ UNCHANGED <<payments, tables, usedTxHashes, calls, mempool, posted, attestations>>

-----------------------------------------------------------------------------
(* POST /api/v1/request *)

\* The body or what it asks for is not supported.
Refuse(c) ==
    /\ At(c, "idle")
    /\ Goto(c, "refused")
    /\ UNCHANGED <<payments, tables, usedTxHashes, chain>>

Receive(c) ==
    /\ At(c, "idle")
    /\ Goto(c, IF calls[c].payment \in usedTxHashes[calls[c].instance]
               THEN "used" ELSE "confirm")
    /\ UNCHANGED <<payments, tables, usedTxHashes, chain>>

\* Fault: a payment that cannot be read is taken for a good one.
ConfirmedUnlessBad(p) == payments[p] # "bad"
Confirmed(p) == payments[p] = "good"

\* The receipt and the transaction are read; either read may fail or time out.
\* A good payment is refused too, if the payer the call declares is not its own.
Confirm(c) ==
    LET p == calls[c].payment IN
    /\ At(c, "confirm")
    /\ \/ Confirmed(p) /\ Goto(c, "record")
       \/ payments[p] # "unseen" /\ Goto(c, "refused")
       \/ Goto(c, "unconfirmed")
    /\ UNCHANGED <<payments, tables, usedTxHashes, chain>>

\* Fault: the row is written whether or not the payment has one.
FreshAlways(p) == TRUE
Fresh(p) == rows[p] = NoCall

\* The row is in the table, or there is no table.
Recorded(c) ==
    IF DbEnabled
    THEN Fresh(calls[c].payment) /\ rows' = [rows EXCEPT ![calls[c].payment] = c]
    ELSE UNCHANGED rows

RecordRequest(c) ==
    LET i == calls[c].instance  p == calls[c].payment IN
    /\ At(c, "record")
    /\ Recorded(c)
    /\ usedTxHashes' = [usedTxHashes EXCEPT ![i] = @ \cup {p}]
    /\ Goto(c, IF LiveFlow THEN "post" ELSE "verified")
    /\ UNCHANGED <<payments, traces, chain>>

PaymentReused(c) ==
    /\ At(c, "record")
    /\ DbEnabled /\ ~Fresh(calls[c].payment)
    /\ Goto(c, "used")
    /\ UNCHANGED <<payments, tables, usedTxHashes, chain>>

\* Fault: dedupe fails open, a lost database counts as no database.
AnswerFailOpen == IF LiveFlow THEN "post" ELSE "verified"
AnswerWhenDbFails == "error"

\* The insert throws: it was not made, or it was and its reply is lost.
RecordFails(c) ==
    /\ At(c, "record")
    /\ DbEnabled
    /\ UNCHANGED rows \/ Recorded(c)
    /\ Goto(c, AnswerWhenDbFails)
    /\ UNCHANGED <<payments, traces, usedTxHashes, chain>>

-----------------------------------------------------------------------------
(* fulfillAttestation *)

\* Sending estimates the call first, so one that would revert now is not sent.
SendPost(c) ==
    /\ At(c, "post")
    /\ Postable(claimId(c))
    /\ mempool' = mempool \cup {<<c, PostingKey>>}
    /\ Goto(c, "posting")
    /\ UNCHANGED <<payments, tables, usedTxHashes, posted, closed, attestations>>

\* The receipt has come; its status is not looked at.
PostMined(c) ==
    /\ At(c, "posting")
    /\ <<c, PostingKey>> \notin mempool
    /\ Goto(c, "attest")
    /\ UNCHANGED <<payments, tables, usedTxHashes, chain>>

SendAttest(c) ==
    /\ At(c, "attest")
    /\ Attestable(claimId(c), calls[c].turn)
    /\ mempool' = mempool \cup {<<c, calls[c].turn>>}
    /\ Goto(c, "attesting")
    /\ UNCHANGED <<payments, tables, usedTxHashes, posted, closed, attestations>>

AttestMined(c) ==
    /\ At(c, "attesting")
    /\ <<c, calls[c].turn>> \notin mempool
    /\ Goto(c, "store")
    /\ UNCHANGED <<payments, tables, usedTxHashes, chain>>

\* Fault: the loop over the extra keys runs past the last one.
NextTurnPastLast(c, attestors) ==
    calls' = [calls EXCEPT ![c].attestors = attestors, ![c].pc = "attest", ![c].turn = @ + 1]
\* The next attestor's turn, or the answer when there is none left.
NextTurn(c, attestors) ==
    LET a == calls[c].turn IN
    calls' = [calls EXCEPT ![c].attestors = attestors,
                           ![c].pc = IF a + 1 \in Attestor THEN "attest" ELSE "fulfilled",
                           ![c].turn = IF a + 1 \in Attestor THEN a + 1 ELSE a]

\* Fault: the trace is filed under the primary attestor.
FiledUnderPrimary(a) == Reflector
FiledUnder(a) == a

\* The trace is upserted under the claim and the attestor.
Stored(c) ==
    IF DbEnabled
    THEN traces' = [traces EXCEPT ![claimId(c)][FiledUnder(calls[c].turn)] = c]
    ELSE UNCHANGED traces

StoreTrace(c) ==
    /\ At(c, "store")
    /\ Stored(c)
    /\ NextTurn(c, calls[c].attestors \cup {calls[c].turn})
    /\ UNCHANGED <<payments, rows, usedTxHashes, chain>>

\* An await of the fulfilment throws.  The reflector's failure ends the request
\* with 202; an extra attestor's failure, or its missing or poor key, is skipped.
FulfilFails(c) ==
    /\ \/ calls[c].pc \in {"post", "posting", "attest", "attesting", "store"} /\ UNCHANGED traces
       \/ At(c, "store") /\ Stored(c)
    /\ IF calls[c].turn = Reflector THEN Goto(c, "pending") ELSE NextTurn(c, calls[c].attestors)
    /\ UNCHANGED <<payments, rows, usedTxHashes, chain>>

-----------------------------------------------------------------------------
(* The platform stops calls *)

\* The function outlives maxDuration; what it has in flight goes on without it.
Kill(c) ==
    /\ calls[c].pc \in Awaits
    /\ Goto(c, "killed")
    /\ UNCHANGED <<payments, tables, usedTxHashes, chain>>

\* An instance is replaced: its memory and its calls are gone.
ColdStart(i) ==
    /\ usedTxHashes' = [usedTxHashes EXCEPT ![i] = {}]
    /\ calls' = [c \in Call |->
                   IF calls[c].instance = i /\ calls[c].pc \in Awaits
                   THEN [calls[c] EXCEPT !.pc = "killed"] ELSE calls[c]]
    /\ UNCHANGED <<payments, tables, chain>>

Request(c) ==
    \/ Refuse(c) \/ Receive(c) \/ Confirm(c)
    \/ RecordRequest(c) \/ PaymentReused(c) \/ RecordFails(c)

Fulfil(c) ==
    \/ SendPost(c) \/ PostMined(c) \/ SendAttest(c) \/ AttestMined(c)
    \/ StoreTrace(c) \/ FulfilFails(c)

Next ==
    \/ \E c \in Call : Request(c) \/ Fulfil(c) \/ Kill(c)
    \/ \E c \in Call, sender \in {PostingKey} \cup Attestor : Mine(c, sender)
    \/ \E p \in Payment : PaymentLands(p)
    \/ \E k \in Claim : CloseClaim(k)
    \/ \E i \in Instance : ColdStart(i)

Spec == Init /\ [][Next]_vars

-----------------------------------------------------------------------------
(* Properties *)

\* Every variable has the type its code gives it.
TypeOK ==
    /\ payments \in [Payment -> {"unseen", "good", "bad"}]
    /\ rows \in [Payment -> Call \cup {NoCall}]
    /\ traces \in [Claim -> [Attestor -> Call \cup {NoCall}]]
    /\ usedTxHashes \in [Instance -> SUBSET Payment]
    /\ calls \in [Call -> Handler]
    /\ mempool \subseteq Call \X ({PostingKey} \cup Attestor)
    /\ posted \subseteq Claim /\ closed \subseteq posted
    /\ attestations \in [Claim -> [Attestor -> Call \cup {NoCall}]]

\* The claims on chain and the ones on their way there.
Bought == posted \cup {claimId(tx[1]) : tx \in {t \in mempool : t[2] = PostingKey}}

\* One payment buys one claim, whatever calls name it, however they interleave
\* and whichever of them are cut off (docs/KNOWN-ISSUES.md: "fail-closed").
OnePaymentOneClaim ==
    \A j, k \in Bought : j[2] = k[2] => j = k

\* Nothing is posted that was not paid for and recorded, and nothing is recorded
\* that was not paid for: a payment still to be confirmed can be sent in again.
PaidAndRecorded ==
    /\ \A p \in Payment : rows[p] # NoCall => payments[p] = "good"
    /\ \A k \in Bought : rows[k[2]] # NoCall

\* The two layers of the dedupe agree: who is told that a payment was used is
\* told so because another call recorded it, never because of its own attempt.
UsedMeansUsed ==
    \A c \in Call : At(c, "used") => rows[calls[c].payment] \notin {c, NoCall}

\* A call that accepts a payment owns its record, so no two calls accept one.
AcceptedIsRecorded ==
    \A c \in Call :
        calls[c].pc \in {"verified", "pending", "fulfilled"} => rows[calls[c].payment] = c

\* The record of a payment decides both who is accepted and who is told it was used.
RecordDecides == UsedMeansUsed /\ AcceptedIsRecorded

\* The answer names an attestor only if its trace is there to be verified.
NamedAttestorsHaveTraces ==
    \A c \in Call : At(c, "fulfilled") =>
        \A a \in calls[c].attestors : traces[claimId(c)][a] = c

\* A stored trace and the attestation on chain are of one run: the hash that
\* the verify page recomputes is the one on chain.
TracesMatchAttestations ==
    \A k \in Claim, a \in Attestor :
        NoCall \notin {traces[k][a], attestations[k][a]} =>
            traces[k][a] = attestations[k][a]

\* What the answer says of the chain: the attestors it names have attested.
FulfilledMeansAttested ==
    \A c \in Call : At(c, "fulfilled") =>
        \A a \in calls[c].attestors : attestations[claimId(c)][a] = c
=============================================================================
