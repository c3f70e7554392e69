------------------------- MODULE PaidRequestsProofs -------------------------
(***************************************************************************)
(* Theorems about the paid flow, for any calls, payments, assets, instances *)
(* and attestors. Owned is inductive when there is a database: it says what *)
(* each part of the state owes to the record of the payment.                *)
(***************************************************************************)
EXTENDS PaidRequests, TLAPS

Pcs == {"idle", "killed"} \cup Awaits \cup Answers

\* A call moves on without another change to its record.
LEMMA GotoKeepsType ==
    ASSUME TypeOK, NEW c \in Call, NEW pc \in Pcs, Goto(c, pc)
    PROVE  /\ calls' \in [Call -> Handler]
           /\ calls'[c].pc = pc
           /\ \A d \in Call :
                 /\ d # c => calls'[d] = calls[d]
                 /\ calls'[d].payment = calls[d].payment
                 /\ calls'[d].asset = calls[d].asset
                 /\ calls'[d].instance = calls[d].instance
                 /\ calls'[d].turn = calls[d].turn
                 /\ calls'[d].attestors = calls[d].attestors
<1>1. calls \in [Call -> Handler]
  BY DEF TypeOK
<1>2. calls' = [calls EXCEPT ![c] = [calls[c] EXCEPT !.pc = pc]]
  BY DEF Goto
<1>3. [calls[c] EXCEPT !.pc = pc] \in Handler
  BY <1>1 DEF Handler, Pcs
<1>4. /\ [calls[c] EXCEPT !.pc = pc].pc = pc
      /\ [calls[c] EXCEPT !.pc = pc].payment = calls[c].payment
      /\ [calls[c] EXCEPT !.pc = pc].asset = calls[c].asset
      /\ [calls[c] EXCEPT !.pc = pc].instance = calls[c].instance
      /\ [calls[c] EXCEPT !.pc = pc].turn = calls[c].turn
      /\ [calls[c] EXCEPT !.pc = pc].attestors = calls[c].attestors
  BY <1>1 DEF Handler
<1> QED
  BY <1>1, <1>2, <1>3, <1>4

\* The turn passes on to an attestor or the call answers.
LEMMA NextTurnKeepsType ==
    ASSUME TypeOK, NEW c \in Call, NEW attestors \in SUBSET Attestor,
           NextTurn(c, attestors)
    PROVE  /\ calls' \in [Call -> Handler]
           /\ calls'[c].pc \in {"attest", "fulfilled"}
           /\ calls'[c].attestors = attestors
           /\ \A d \in Call :
                 /\ d # c => calls'[d] = calls[d]
                 /\ calls'[d].payment = calls[d].payment
                 /\ calls'[d].asset = calls[d].asset
                 /\ calls'[d].instance = calls[d].instance
<1> DEFINE a == calls[c].turn
           pc == IF a + 1 \in Attestor THEN "attest" ELSE "fulfilled"
           turn == IF a + 1 \in Attestor THEN a + 1 ELSE a
           new == [calls[c] EXCEPT !.attestors = attestors, !.pc = pc, !.turn = turn]
<1>1. calls \in [Call -> Handler] /\ calls[c] \in Handler
  BY DEF TypeOK
<1>2. pc \in {"attest", "fulfilled"} /\ pc \in Pcs
  BY DEF Pcs, Awaits, Answers
<1>3. turn \in Attestor
  BY <1>1 DEF Handler
<1>4. calls' = [calls EXCEPT ![c] = new]
  BY DEF NextTurn
<1> HIDE DEF pc, turn
<1>5. /\ new \in Handler /\ new.pc = pc /\ new.attestors = attestors
      /\ new.payment = calls[c].payment /\ new.asset = calls[c].asset
      /\ new.instance = calls[c].instance
  BY <1>1, <1>2, <1>3 DEF Handler, Pcs
<1> HIDE DEF new
<1> QED
  BY <1>1, <1>2, <1>4, <1>5

\* An instance that is replaced takes its calls with it and nothing else.
LEMMA ColdStartKeepsType ==
    ASSUME TypeOK, NEW i \in Instance, ColdStart(i)
    PROVE  /\ calls' \in [Call -> Handler]
           /\ \A d \in Call :
                 /\ calls'[d].pc \in {calls[d].pc, "killed"}
                 /\ calls'[d].payment = calls[d].payment
                 /\ calls'[d].asset = calls[d].asset
                 /\ calls'[d].instance = calls[d].instance
                 /\ calls'[d].attestors = calls[d].attestors
<1> DEFINE new(c) == IF calls[c].instance = i /\ calls[c].pc \in Awaits
                     THEN [calls[c] EXCEPT !.pc = "killed"] ELSE calls[c]
<1>1. \A c \in Call : calls[c] \in Handler
  BY DEF TypeOK
<1>2. \A c \in Call :
         /\ new(c) \in Handler
         /\ new(c).pc \in {calls[c].pc, "killed"}
         /\ new(c).payment = calls[c].payment /\ new(c).asset = calls[c].asset
         /\ new(c).instance = calls[c].instance
         /\ new(c).attestors = calls[c].attestors
  BY <1>1 DEF Handler
<1>3. calls' = [c \in Call |-> new(c)]
  BY DEF ColdStart
<1> HIDE DEF new
<1> QED
  BY <1>2, <1>3

-----------------------------------------------------------------------------

LEMMA TypeInit == Init => TypeOK
<1> SUFFICES ASSUME Init PROVE TypeOK
  OBVIOUS
<1>1. Reflector \in Attestor /\ 1 + Extras \in Nat
  BY PaidAssumption DEF Reflector, Attestor
<1>2. calls \in [Call -> Handler]
  <2>1. [pc : {"idle"}, payment : Payment, asset : Asset, instance : Instance,
         turn : {Reflector}, attestors : {{}}] \subseteq Handler
    BY <1>1 DEF Handler
  <2> QED
    BY <2>1 DEF Init
<1> QED
  BY <1>1, <1>2 DEF Init, TypeOK

LEMMA TypeStep == TypeOK /\ [Next]_vars => TypeOK'
<1> SUFFICES ASSUME TypeOK, [Next]_vars PROVE TypeOK'
  OBVIOUS
<1> USE DEF tables, chain
<1>1. \A c \in Call : /\ claimId(c) \in Claim /\ calls[c].payment \in Payment
                      /\ calls[c].instance \in Instance /\ calls[c].turn \in Attestor
                      /\ calls[c].attestors \subseteq Attestor
  BY DEF TypeOK, Handler, claimId, Claim
<1>2. \A pc \in Awaits \cup Answers \cup {"killed"} : pc \in Pcs
  BY DEF Pcs
<1>3. ASSUME NEW c \in Call, Request(c) PROVE TypeOK'
  <2>1. calls' \in [Call -> Handler]
    <3>1. PICK pc \in Pcs : Goto(c, pc)
      BY <1>2, <1>3 DEF Request, Refuse, Receive, Confirm, RecordRequest, PaymentReused,
         RecordFails, AnswerWhenDbFails, Awaits, Answers
    <3> QED
      BY <3>1, GotoKeepsType
  <2>2. rows' \in [Payment -> Call \cup {NoCall}]
    BY <1>1, <1>3 DEF Request, Refuse, Receive, Confirm, RecordRequest, PaymentReused,
       RecordFails, Recorded, TypeOK
  <2>3. usedTxHashes' \in [Instance -> SUBSET Payment]
    BY <1>1, <1>3 DEF Request, Refuse, Receive, Confirm, RecordRequest, PaymentReused,
       RecordFails, TypeOK
  <2>4. UNCHANGED <<payments, traces, chain>>
    BY <1>3 DEF Request, Refuse, Receive, Confirm, RecordRequest, PaymentReused, RecordFails
  <2> QED
    BY <2>1, <2>2, <2>3, <2>4 DEF TypeOK
<1>4. ASSUME NEW c \in Call, SendPost(c) \/ PostMined(c) \/ SendAttest(c) \/ AttestMined(c)
      PROVE  TypeOK'
  <2>1. calls' \in [Call -> Handler]
    <3>1. PICK pc \in Pcs : Goto(c, pc)
      BY <1>2, <1>4 DEF SendPost, PostMined, SendAttest, AttestMined, Awaits
    <3> QED
      BY <3>1, GotoKeepsType
  <2>2. mempool' \subseteq Call \X ({PostingKey} \cup Attestor)
    BY <1>1, <1>4 DEF SendPost, PostMined, SendAttest, AttestMined, TypeOK
  <2> QED
    BY <1>4, <2>1, <2>2 DEF SendPost, PostMined, SendAttest, AttestMined, TypeOK
<1>5. ASSUME NEW c \in Call, StoreTrace(c) \/ FulfilFails(c) PROVE TypeOK'
  <2>1. calls' \in [Call -> Handler]
    <3>1. CASE StoreTrace(c)
      BY <1>1, <3>1, NextTurnKeepsType DEF StoreTrace
    <3>2. CASE FulfilFails(c)
      <4>1. CASE calls[c].turn = Reflector
        BY <1>2, <3>2, <4>1, GotoKeepsType DEF FulfilFails, Answers
      <4>2. CASE calls[c].turn # Reflector
        BY <1>1, <3>2, <4>2, NextTurnKeepsType DEF FulfilFails
      <4> QED
        BY <4>1, <4>2
    <3> QED
      BY <1>5, <3>1, <3>2
  <2>2. traces' \in [Claim -> [Attestor -> Call \cup {NoCall}]]
    <3>1. Stored(c) \/ UNCHANGED traces
      BY <1>5 DEF StoreTrace, FulfilFails
    <3>2. CASE UNCHANGED traces
      BY <3>2 DEF TypeOK
    <3>3. CASE Stored(c) /\ ~UNCHANGED traces
      <4> DEFINE k == claimId(c)
                 new == [traces[k] EXCEPT ![calls[c].turn] = c]
      <4>1. traces' = [traces EXCEPT ![k] = new]
        BY <3>3 DEF Stored, FiledUnder
      <4>2. k \in Claim /\ new \in [Attestor -> Call \cup {NoCall}]
        BY <1>1 DEF TypeOK
      <4> HIDE DEF k, new
      <4> QED
        BY <4>1, <4>2 DEF TypeOK
    <3> QED
      BY <3>1, <3>2, <3>3
  <2> QED
    BY <1>5, <2>1, <2>2 DEF StoreTrace, FulfilFails, TypeOK
<1>6. ASSUME NEW c \in Call, Kill(c) PROVE TypeOK'
  BY <1>2, <1>6, GotoKeepsType DEF Kill, TypeOK
<1>7. ASSUME NEW c \in Call, NEW sender \in {PostingKey} \cup Attestor, Mine(c, sender)
      PROVE  TypeOK'
  <2>1. attestations' \in [Claim -> [Attestor -> Call \cup {NoCall}]]
    BY <1>1, <1>7 DEF Mine, TypeOK
  <2>2. posted' \subseteq Claim /\ closed' \subseteq posted'
    BY <1>1, <1>7 DEF Mine, TypeOK
  <2> QED
    BY <1>7, <2>1, <2>2 DEF Mine, TypeOK
<1>8. ASSUME NEW p \in Payment, PaymentLands(p) PROVE TypeOK'
  BY <1>8 DEF PaymentLands, TypeOK
<1>9. ASSUME NEW k \in Claim, CloseClaim(k) PROVE TypeOK'
  BY <1>9 DEF CloseClaim, TypeOK
<1>10. ASSUME NEW i \in Instance, ColdStart(i) PROVE TypeOK'
  <2>1. calls' \in [Call -> Handler]
    BY <1>10, ColdStartKeepsType
  <2> QED
    BY <1>10, <2>1 DEF ColdStart, TypeOK
<1>11. CASE UNCHANGED vars
  BY <1>11 DEF vars, TypeOK
<1> QED
  BY <1>3, <1>4, <1>5, <1>6, <1>7, <1>8, <1>9, <1>10, <1>11 DEF Next, Fulfil

\* Whatever calls come, and wherever they are cut off, every variable keeps the
\* type its code gives it: the turn never passes the last attestor's key.
THEOREM PaidTypeCorrect == Spec => []TypeOK
<1> QED
  BY TypeInit, TypeStep, PTL DEF Spec

-----------------------------------------------------------------------------
(* With a database, everything a payment buys is owed to its one record *)

\* The call that recorded the payment of a claim.
Owner(k) == rows[k[2]]

\* Where a call is once it has recorded its payment.
Accepted == {"post", "posting", "attest", "attesting", "store", "verified", "pending", "fulfilled"}

Owned ==
    /\ TypeOK
    /\ UsedMeansUsed
    \* a record is of a good payment, the one that its call named
    /\ \A p \in Payment :
          rows[p] # NoCall => payments[p] = "good" /\ calls[rows[p]].payment = p
    \* a call reaches its record with a confirmed payment, and has none before
    /\ \A c \in Call :
          /\ At(c, "record") => payments[calls[c].payment] = "good"
          /\ calls[c].pc \in {"idle", "confirm", "record"} => rows[calls[c].payment] # c
          /\ calls[c].pc \in Accepted => rows[calls[c].payment] = c
          /\ \A a \in calls[c].attestors : traces[claimId(c)][a] = c
    \* the memories know of recorded payments only
    /\ \A i \in Instance : \A p \in usedTxHashes[i] : rows[p] # NoCall
    \* what is sent, posted, attested and stored comes from the owner
    /\ \A c \in Call, sender \in {PostingKey} \cup Attestor :
          <<c, sender>> \in mempool => rows[calls[c].payment] = c
    /\ \A k \in posted : Owner(k) # NoCall /\ claimId(Owner(k)) = k
    /\ \A k \in Claim, a \in Attestor :
          /\ attestations[k][a] # NoCall => attestations[k][a] = Owner(k)
          /\ traces[k][a] # NoCall => traces[k][a] = Owner(k)

LEMMA OwnedInit == Init => Owned
<1> SUFFICES ASSUME Init PROVE Owned
  OBVIOUS
<1>1. TypeOK
  BY TypeInit
<1>2. \A c \in Call : /\ calls[c].pc = "idle" /\ calls[c].attestors = {}
                      /\ calls[c].payment \in Payment
  BY DEF Init
<1>3. Bought = {}
  BY DEF Init, Bought
<1> QED
  BY <1>1, <1>2, <1>3, PaidAssumption
     DEF Init, Owned, PaidAndRecorded, UsedMeansUsed, At, Claim, Accepted

\* What Owned says implies the properties of the runs.
LEMMA OwnedImplies ==
    ASSUME Owned
    PROVE  /\ OnePaymentOneClaim /\ PaidAndRecorded /\ UsedMeansUsed
           /\ AcceptedIsRecorded /\ NamedAttestorsHaveTraces
           /\ TracesMatchAttestations
<1>1. \A k \in Bought : Owner(k) # NoCall /\ k = claimId(Owner(k))
  <2> SUFFICES ASSUME NEW k \in Bought PROVE Owner(k) # NoCall /\ k = claimId(Owner(k))
    OBVIOUS
  <2>1. CASE k \in posted
    BY <2>1 DEF Owned
  <2>2. CASE k \notin posted
    <3>1. PICK tx \in mempool : tx[2] = PostingKey /\ k = claimId(tx[1])
      BY <2>2 DEF Bought
    <3>2. tx[1] \in Call /\ tx = <<tx[1], PostingKey>>
      BY <3>1 DEF Owned, TypeOK
    <3>3. rows[calls[tx[1]].payment] = tx[1]
      BY <3>1, <3>2 DEF Owned
    <3> QED
      BY <3>1, <3>2, <3>3, PaidAssumption DEF Owner, claimId
  <2> QED
    BY <2>1, <2>2
<1>2. OnePaymentOneClaim
  BY <1>1 DEF OnePaymentOneClaim, Owner
<1>3. TracesMatchAttestations
  BY DEF TracesMatchAttestations, Owned
<1>4. PaidAndRecorded
  BY <1>1 DEF PaidAndRecorded, Owned, Owner
<1> QED
  BY <1>2, <1>3, <1>4 DEF Owned, AcceptedIsRecorded, NamedAttestorsHaveTraces, Accepted, At

\* What the invariant asks of a call that is to go to pc.
MayBeAt(c, pc) ==
    LET p == calls[c].payment IN
    /\ pc = "record" => payments[p] = "good"
    /\ pc \in {"idle", "confirm", "record"} => rows[p] # c
    /\ pc \in Accepted => rows[p] = c
    /\ pc = "used" => rows[p] \notin {c, NoCall}

\* A call that owns its payment, or sends nothing, moves without touching the
\* tables, the memories or the claims.
LEMMA MoveKeepsOwned ==
    ASSUME Owned, TypeOK', NEW c \in Call, NEW pc \in Pcs, Goto(c, pc), MayBeAt(c, pc),
           mempool' \subseteq mempool \cup ({c} \X ({PostingKey} \cup Attestor)),
           mempool' \subseteq mempool \/ rows[calls[c].payment] = c,
           UNCHANGED <<payments, tables, usedTxHashes, posted, attestations>>
    PROVE  Owned'
<1>1. /\ calls'[c].pc = pc
      /\ \A d \in Call :
            /\ d # c => calls'[d] = calls[d]
            /\ calls'[d].payment = calls[d].payment
            /\ calls'[d].asset = calls[d].asset
            /\ calls'[d].attestors = calls[d].attestors
  BY GotoKeepsType DEF Owned
<1>2. \A d \in Call : claimId(d)' = claimId(d)
  BY <1>1 DEF claimId
<1>3. UNCHANGED <<payments, rows, traces, usedTxHashes, posted, attestations>>
  BY DEF tables
<1>4. \A d \in Call : calls'[d].pc = calls[d].pc \/ d = c
  BY <1>1
<1>5. UsedMeansUsed'
  BY <1>1, <1>3, <1>4 DEF Owned, UsedMeansUsed, At, MayBeAt
<1>6. \A p \in Payment :
         rows'[p] # NoCall => payments'[p] = "good" /\ calls'[rows'[p]].payment = p
  BY <1>1, <1>3 DEF Owned, TypeOK
<1>7. \A d \in Call :
         /\ At(d, "record")' => payments'[calls'[d].payment] = "good"
         /\ calls'[d].pc \in {"idle", "confirm", "record"} => rows'[calls'[d].payment] # d
         /\ calls'[d].pc \in Accepted => rows'[calls'[d].payment] = d
         /\ \A a \in calls'[d].attestors : traces'[claimId(d)'][a] = d
  <2> SUFFICES ASSUME NEW d \in Call
               PROVE  /\ At(d, "record")' => payments'[calls'[d].payment] = "good"
                      /\ calls'[d].pc \in {"idle", "confirm", "record"} => rows'[calls'[d].payment] # d
                      /\ calls'[d].pc \in Accepted => rows'[calls'[d].payment] = d
                      /\ \A a \in calls'[d].attestors : traces'[claimId(d)'][a] = d
    OBVIOUS
  <2>1. \A a \in calls'[d].attestors : traces'[claimId(d)'][a] = d
    BY <1>1, <1>2, <1>3 DEF Owned
  <2>2. CASE d = c
    BY <1>1, <1>3, <2>1, <2>2 DEF MayBeAt, At
  <2>3. CASE d # c
    BY <1>1, <1>3, <2>1, <2>3 DEF Owned, At
  <2> QED
    BY <2>2, <2>3
<1>8. \A d \in Call, sender \in {PostingKey} \cup Attestor :
         <<d, sender>> \in mempool' => rows'[calls'[d].payment] = d
  BY <1>1, <1>3 DEF Owned
<1>9. \A k \in posted' : Owner(k)' # NoCall /\ claimId(Owner(k))' = k
  <2> SUFFICES ASSUME NEW k \in posted PROVE Owner(k)' # NoCall /\ claimId(Owner(k))' = k
    BY <1>3
  <2>1. Owner(k)' = Owner(k) /\ Owner(k) \in Call
    BY <1>3 DEF Owned, TypeOK, Owner, Claim
  <2> QED
    BY <1>1, <2>1 DEF Owned, claimId
<1> QED
  BY <1>3, <1>5, <1>6, <1>7, <1>8, <1>9 DEF Owned, Owner, Claim

\* The row of a payment that had none is written.
LEMMA RecordKeepsOwned ==
    ASSUME Owned, TypeOK', DbEnabled, NEW c \in Call, NEW pc \in Accepted \cup {"error"},
           At(c, "record"), Goto(c, pc), Recorded(c),
           \A i \in Instance : usedTxHashes'[i] \subseteq usedTxHashes[i] \cup {calls[c].payment},
           UNCHANGED <<payments, traces, chain>>
    PROVE  Owned'
<1> DEFINE p == calls[c].payment
<1>1. /\ calls'[c].pc = pc
      /\ \A d \in Call :
            /\ d # c => calls'[d] = calls[d]
            /\ calls'[d].payment = calls[d].payment
            /\ calls'[d].asset = calls[d].asset
            /\ calls'[d].attestors = calls[d].attestors
  BY GotoKeepsType DEF Owned, Pcs, Accepted, Awaits, Answers
<1>2. \A d \in Call : claimId(d)' = claimId(d)
  BY <1>1 DEF claimId
<1>3. UNCHANGED <<payments, traces, mempool, posted, attestations>>
  BY DEF chain
<1>4. /\ p \in Payment /\ rows[p] = NoCall /\ rows'[p] = c /\ c # NoCall
      /\ \A q \in Payment : q # p => rows'[q] = rows[q]
      /\ \A q \in Payment : rows[q] # NoCall => q # p /\ rows'[q] = rows[q]
  BY PaidAssumption DEF Owned, TypeOK, Handler, Recorded, Fresh
<1>5. payments[p] = "good"
  BY DEF Owned
<1>6. pc \notin {"used", "record", "idle", "confirm"}
  BY DEF Accepted
<1>7. \A d \in Call : calls[d].payment \in Payment
  BY DEF Owned, TypeOK, Handler
<1> HIDE DEF p
<1>8. UsedMeansUsed'
  <2> SUFFICES ASSUME NEW d \in Call, calls'[d].pc = "used"
               PROVE  rows'[calls'[d].payment] \notin {d, NoCall}
    BY DEF UsedMeansUsed, At
  <2>1. d # c /\ calls[d].pc = "used" /\ calls'[d].payment = calls[d].payment
    BY <1>1, <1>6
  <2>2. rows[calls[d].payment] \notin {d, NoCall}
    BY <2>1 DEF Owned, UsedMeansUsed, At
  <2> QED
    BY <1>4, <1>7, <2>1, <2>2
<1>9. \A q \in Payment :
         rows'[q] # NoCall => payments'[q] = "good" /\ calls'[rows'[q]].payment = q
  <2> SUFFICES ASSUME NEW q \in Payment, rows'[q] # NoCall
               PROVE  payments'[q] = "good" /\ calls'[rows'[q]].payment = q
    OBVIOUS
  <2>1. CASE q = p
    BY <1>1, <1>3, <1>4, <1>5, <2>1 DEF p
  <2>2. CASE q # p
    <3>1. rows'[q] = rows[q] /\ rows[q] \in Call
      BY <1>4, <2>2 DEF Owned, TypeOK
    <3> QED
      BY <1>1, <1>3, <3>1 DEF Owned
  <2> QED
    BY <2>1, <2>2
<1>10. \A d \in Call :
         /\ At(d, "record")' => payments'[calls'[d].payment] = "good"
         /\ calls'[d].pc \in {"idle", "confirm", "record"} => rows'[calls'[d].payment] # d
         /\ calls'[d].pc \in Accepted => rows'[calls'[d].payment] = d
         /\ \A a \in calls'[d].attestors : traces'[claimId(d)'][a] = d
  <2> SUFFICES ASSUME NEW d \in Call
               PROVE  /\ At(d, "record")' => payments'[calls'[d].payment] = "good"
                      /\ calls'[d].pc \in {"idle", "confirm", "record"} => rows'[calls'[d].payment] # d
                      /\ calls'[d].pc \in Accepted => rows'[calls'[d].payment] = d
                      /\ \A a \in calls'[d].attestors : traces'[claimId(d)'][a] = d
    OBVIOUS
  <2>1. \A a \in calls'[d].attestors : traces'[claimId(d)'][a] = d
    BY <1>1, <1>2, <1>3 DEF Owned
  <2>2. CASE d = c
    BY <1>1, <1>4, <1>6, <2>1, <2>2 DEF p, At
  <2>3. CASE d # c
    <3>1. /\ At(d, "record") => payments[calls[d].payment] = "good"
          /\ calls[d].pc \in {"idle", "confirm", "record"} => rows[calls[d].payment] # d
          /\ calls[d].pc \in Accepted => rows[calls[d].payment] = d
      BY DEF Owned
    <3>2. calls'[d] = calls[d] /\ d # NoCall
      BY <1>1, <2>3, PaidAssumption
    <3> QED
      BY <1>3, <1>4, <1>7, <2>1, <2>3, <3>1, <3>2 DEF At
  <2> QED
    BY <2>2, <2>3
<1>11. \A i \in Instance : \A q \in usedTxHashes'[i] : rows'[q] # NoCall
  <2> SUFFICES ASSUME NEW i \in Instance, NEW q \in usedTxHashes'[i] PROVE rows'[q] # NoCall
    OBVIOUS
  <2>1. CASE q = p
    BY <1>4, <2>1
  <2>2. CASE q # p
    <3>1. q \in usedTxHashes[i] /\ q \in Payment
      BY <2>2 DEF p, TypeOK, Owned
    <3> QED
      BY <1>4, <2>2, <3>1 DEF Owned
  <2> QED
    BY <2>1, <2>2
<1>12. \A d \in Call, sender \in {PostingKey} \cup Attestor :
         <<d, sender>> \in mempool' => rows'[calls'[d].payment] = d
  BY <1>1, <1>3, <1>4, <1>7, PaidAssumption DEF Owned
<1>13. \A k \in Claim : Owner(k) # NoCall => Owner(k)' = Owner(k) /\ Owner(k) \in Call
  BY <1>4 DEF Owner, Claim, Owned, TypeOK
<1>14. \A k \in posted' : Owner(k)' # NoCall /\ claimId(Owner(k))' = k
  <2> SUFFICES ASSUME NEW k \in posted PROVE Owner(k)' # NoCall /\ claimId(Owner(k))' = k
    BY <1>3
  <2>1. k \in Claim /\ Owner(k) # NoCall /\ claimId(Owner(k)) = k
    BY DEF Owned, TypeOK
  <2>2. Owner(k)' = Owner(k) /\ Owner(k) \in Call
    BY <1>13, <2>1
  <2> QED
    BY <1>1, <2>1, <2>2 DEF claimId
<1>15. \A k \in Claim, a \in Attestor :
         /\ attestations'[k][a] # NoCall => attestations'[k][a] = Owner(k)'
         /\ traces'[k][a] # NoCall => traces'[k][a] = Owner(k)'
  BY <1>3, <1>13 DEF Owned
<1> QED
  BY <1>8, <1>9, <1>10, <1>11, <1>12, <1>14, <1>15 DEF Owned

\* The trace is stored, or not, and the next attestor has its turn.
LEMMA StoreKeepsOwned ==
    ASSUME Owned, TypeOK', DbEnabled, NEW c \in Call, calls[c].pc \in Accepted,
           NEW new \in {"attest", "pending", "fulfilled"},
           calls'[c].pc = new,
           \A d \in Call :
              /\ d # c => calls'[d] = calls[d]
              /\ calls'[d].payment = calls[d].payment
              /\ calls'[d].asset = calls[d].asset,
           \/ UNCHANGED traces /\ calls'[c].attestors = calls[c].attestors
           \/ /\ Stored(c)
              /\ calls'[c].attestors \subseteq calls[c].attestors \cup {calls[c].turn},
           UNCHANGED <<payments, rows, usedTxHashes, chain>>
    PROVE  Owned'
<1>0. \A d \in Call : /\ d # c => calls'[d] = calls[d]
                      /\ calls'[d].payment = calls[d].payment
                      /\ calls'[d].asset = calls[d].asset
  OBVIOUS
<1>1. \A d \in Call : /\ claimId(d)' = claimId(d) /\ claimId(d) \in Claim
                      /\ calls[d].turn \in Attestor /\ calls[d].attestors \subseteq Attestor
  <2>1. \A d \in Call : calls[d] \in Handler
    BY DEF Owned, TypeOK
  <2>2. \A d \in Call : claimId(d)' = claimId(d)
    BY <1>0 DEF claimId
  <2> QED
    BY <2>1, <2>2 DEF claimId, Handler, Claim
<1>2. UNCHANGED <<payments, rows, usedTxHashes, mempool, posted, attestations>>
  BY DEF chain
<1>3. rows[calls[c].payment] = c
  BY DEF Owned
<1>4. /\ \A k \in Claim, a \in Attestor :
            traces'[k][a] = traces[k][a] \/ (k = claimId(c) /\ traces'[k][a] = c)
      /\ \A a \in calls'[c].attestors :
            \/ a \in calls[c].attestors
            \/ traces'[claimId(c)][a] = c
  <2>1. CASE UNCHANGED traces /\ calls'[c].attestors = calls[c].attestors
    BY <2>1
  <2>2. CASE Stored(c) /\ calls'[c].attestors \subseteq calls[c].attestors \cup {calls[c].turn}
    <3> DEFINE k == claimId(c)
               row == [traces[k] EXCEPT ![calls[c].turn] = c]
    <3>1. traces' = [traces EXCEPT ![k] = row]
      BY <2>2 DEF Stored, FiledUnder
    <3>2. /\ k \in Claim /\ traces \in [Claim -> [Attestor -> Call \cup {NoCall}]]
          /\ row[calls[c].turn] = c /\ calls[c].turn \in Attestor
          /\ \A a \in Attestor : a # calls[c].turn => row[a] = traces[k][a]
      BY <1>1 DEF Owned, TypeOK
    <3> HIDE DEF k, row
    <3>3. /\ \A j \in Claim : j # k => traces'[j] = traces[j]
          /\ traces'[k] = row
      BY <3>1, <3>2
    <3>4. k = claimId(c)
      BY DEF k
    <3> QED
      BY <1>1, <2>2, <3>2, <3>3, <3>4
  <2> QED
    BY <2>1, <2>2
<1>5. \A d \in Call : calls'[d].pc = calls[d].pc \/ d = c
  BY <1>0
<1>6. UsedMeansUsed'
  BY <1>0, <1>2, <1>5 DEF Owned, UsedMeansUsed, At
<1>7. \A p \in Payment :
         rows'[p] # NoCall => payments'[p] = "good" /\ calls'[rows'[p]].payment = p
  BY <1>0, <1>2 DEF Owned, TypeOK
<1>8. \A d \in Call :
         /\ At(d, "record")' => payments'[calls'[d].payment] = "good"
         /\ calls'[d].pc \in {"idle", "confirm", "record"} => rows'[calls'[d].payment] # d
         /\ calls'[d].pc \in Accepted => rows'[calls'[d].payment] = d
  BY <1>0, <1>2, <1>3, <1>5 DEF Owned, At, Accepted
<1>9. \A d \in Call : \A a \in calls'[d].attestors : traces'[claimId(d)'][a] = d
  <2> SUFFICES ASSUME NEW d \in Call, NEW a \in calls'[d].attestors
               PROVE  traces'[claimId(d)][a] = d
    BY <1>1
  <2>1. CASE a \in calls[d].attestors
    <3>1. traces[claimId(d)][a] = d /\ claimId(d) \in Claim /\ a \in Attestor
      BY <1>1, <2>1 DEF Owned
    <3>2. d = Owner(claimId(d))
      BY <3>1, PaidAssumption DEF Owned
    <3>3. claimId(d) = claimId(c) => d = c
      BY <1>3, <3>2 DEF Owner, claimId
    <3> QED
      BY <1>4, <3>1, <3>3
  <2>2. CASE a \notin calls[d].attestors
    BY <1>0, <1>4, <2>2
  <2> QED
    BY <2>1, <2>2
<1>10. \A d \in Call, sender \in {PostingKey} \cup Attestor :
         <<d, sender>> \in mempool' => rows'[calls'[d].payment] = d
  BY <1>0, <1>2 DEF Owned
<1>11. \A k \in posted' : Owner(k)' # NoCall /\ claimId(Owner(k))' = k
  <2> SUFFICES ASSUME NEW k \in posted PROVE Owner(k)' # NoCall /\ claimId(Owner(k))' = k
    BY <1>2
  <2>1. Owner(k)' = Owner(k) /\ Owner(k) \in Call
    BY <1>2 DEF Owned, TypeOK, Owner, Claim
  <2> QED
    BY <1>1, <2>1 DEF Owned, claimId
<1>12. \A k \in Claim, a \in Attestor :
         /\ attestations'[k][a] # NoCall => attestations'[k][a] = Owner(k)'
         /\ traces'[k][a] # NoCall => traces'[k][a] = Owner(k)'
  <2>1. Owner(claimId(c)) = c
    BY <1>3 DEF Owner, claimId
  <2>2. \A k \in Claim : Owner(k)' = Owner(k)
    BY <1>2 DEF Owner
  <2> QED
    BY <1>2, <1>4, <2>1, <2>2 DEF Owned
<1> QED
  BY <1>2, <1>6, <1>7, <1>8, <1>9, <1>10, <1>11, <1>12 DEF Owned

LEMMA OwnedStep == DbEnabled /\ Owned /\ [Next]_vars => Owned'
<1> SUFFICES ASSUME DbEnabled, Owned, [Next]_vars PROVE Owned'
  OBVIOUS
<1> USE DEF tables, chain
<1>1. TypeOK'
  BY TypeStep DEF Owned
<1>2. \A c \in Call :
         /\ calls[c].pc = "record" => payments[calls[c].payment] = "good"
         /\ calls[c].pc \in {"idle", "confirm", "record"} => rows[calls[c].payment] # c
         /\ calls[c].pc \in Accepted => rows[calls[c].payment] = c
         /\ calls[c] \in Handler
  BY DEF Owned, At, TypeOK
<1>3. \A pc \in Awaits \cup Answers \cup {"killed"} : pc \in Pcs
  BY DEF Pcs
\* A call that moves and sends nothing.
<1>4. ASSUME NEW c \in Call, NEW pc \in Pcs, Goto(c, pc), MayBeAt(c, pc),
             UNCHANGED <<payments, tables, usedTxHashes, chain>>
      PROVE  Owned'
  BY <1>1, <1>4, MoveKeepsOwned
\* The fulfilment's calls that pass on the turn or end it.
<1>5. ASSUME NEW c \in Call, calls[c].pc \in Accepted,
             NEW attestors \in SUBSET Attestor, NextTurn(c, attestors),
             \/ UNCHANGED traces /\ attestors = calls[c].attestors
             \/ /\ Stored(c)
                /\ attestors \subseteq calls[c].attestors \cup {calls[c].turn},
             UNCHANGED <<payments, rows, usedTxHashes, chain>>
      PROVE  Owned'
  <2>1. /\ calls'[c].pc \in {"attest", "fulfilled"}
        /\ calls'[c].attestors = attestors
        /\ \A d \in Call :
              /\ d # c => calls'[d] = calls[d]
              /\ calls'[d].payment = calls[d].payment
              /\ calls'[d].asset = calls[d].asset
    BY <1>5, NextTurnKeepsType DEF Owned
  <2> QED
    BY <1>1, <1>5, <2>1, StoreKeepsOwned
<1>6. ASSUME NEW c \in Call, Refuse(c) PROVE Owned'
  <2>1. MayBeAt(c, "refused")
    BY DEF MayBeAt, Accepted
  <2> QED
    BY <1>3, <1>4, <1>6, <2>1 DEF Refuse, Answers
<1>7. ASSUME NEW c \in Call, Receive(c) PROVE Owned'
  <2>1. CASE calls[c].payment \in usedTxHashes[calls[c].instance]
    <3>1. rows[calls[c].payment] \notin {c, NoCall}
      BY <1>2, <1>7, <2>1 DEF Owned, Receive, At, Handler
    <3>2. MayBeAt(c, "used") /\ Goto(c, "used")
      BY <1>7, <2>1, <3>1 DEF Receive, MayBeAt, Accepted
    <3> QED
      BY <1>3, <1>4, <1>7, <3>2 DEF Receive, Answers
  <2>2. CASE calls[c].payment \notin usedTxHashes[calls[c].instance]
    <3>1. MayBeAt(c, "confirm") /\ Goto(c, "confirm")
      BY <1>2, <1>7, <2>2 DEF Receive, At, MayBeAt, Accepted
    <3> QED
      BY <1>3, <1>4, <1>7, <3>1 DEF Receive, Awaits
  <2> QED
    BY <2>1, <2>2
<1>8. ASSUME NEW c \in Call, Confirm(c) PROVE Owned'
  <2>1. PICK pc \in {"record", "refused", "unconfirmed"} :
           Goto(c, pc) /\ (pc = "record" => payments[calls[c].payment] = "good")
    BY <1>8 DEF Confirm, Confirmed
  <2>2. MayBeAt(c, pc) /\ pc \in Pcs
    BY <1>2, <1>8, <2>1 DEF Confirm, At, MayBeAt, Accepted, Pcs, Awaits, Answers
  <2> QED
    BY <1>4, <1>8, <2>1, <2>2 DEF Confirm
<1>9. ASSUME NEW c \in Call, RecordRequest(c) PROVE Owned'
  <2> DEFINE pc == IF LiveFlow THEN "post" ELSE "verified"
  <2>1. pc \in Accepted \cup {"error"}
    BY DEF Accepted
  <2>2. \A i \in Instance : usedTxHashes'[i] \subseteq usedTxHashes[i] \cup {calls[c].payment}
    BY <1>9 DEF RecordRequest, Owned, TypeOK
  <2>3. Goto(c, pc)
    BY <1>9 DEF RecordRequest
  <2> HIDE DEF pc
  <2> QED
    BY <1>1, <1>9, <2>1, <2>2, <2>3, RecordKeepsOwned DEF RecordRequest
<1>10. ASSUME NEW c \in Call, PaymentReused(c) PROVE Owned'
  <2>1. MayBeAt(c, "used")
    BY <1>2, <1>10 DEF PaymentReused, At, Fresh, MayBeAt, Accepted
  <2> QED
    BY <1>3, <1>4, <1>10, <2>1 DEF PaymentReused, Answers
<1>11. ASSUME NEW c \in Call, RecordFails(c) PROVE Owned'
  <2>1. CASE UNCHANGED rows
    <3>1. MayBeAt(c, "error")
      BY DEF MayBeAt, Accepted
    <3> QED
      BY <1>3, <1>4, <1>11, <2>1, <3>1 DEF RecordFails, AnswerWhenDbFails, Answers
  <2>2. CASE Recorded(c)
    BY <1>1, <1>11, <2>2, RecordKeepsOwned DEF RecordFails, AnswerWhenDbFails
  <2> QED
    BY <1>11, <2>1, <2>2 DEF RecordFails
\* What is sent is sent by the owner of the payment.
<1>12. ASSUME NEW c \in Call, SendPost(c) \/ SendAttest(c) PROVE Owned'
  <2>1. PICK sender \in {PostingKey} \cup Attestor, pc \in {"posting", "attesting"} :
           Goto(c, pc) /\ mempool' = mempool \cup {<<c, sender>>}
    BY <1>2, <1>12 DEF SendPost, SendAttest, Handler
  <2>2. rows[calls[c].payment] = c
    BY <1>2, <1>12 DEF SendPost, SendAttest, At, Accepted
  <2>3. MayBeAt(c, pc) /\ pc \in Pcs
    BY <2>1, <2>2 DEF MayBeAt, Pcs, Awaits
  <2>4. UNCHANGED <<payments, tables, usedTxHashes, posted, attestations>>
    BY <1>12 DEF SendPost, SendAttest
  <2>5. mempool' \subseteq mempool \cup ({c} \X ({PostingKey} \cup Attestor))
    BY <2>1
  <2> QED
    BY <1>1, <2>1, <2>2, <2>3, <2>4, <2>5, MoveKeepsOwned
<1>13. ASSUME NEW c \in Call, PostMined(c) \/ AttestMined(c) PROVE Owned'
  <2>1. PICK pc \in {"attest", "store"} : Goto(c, pc)
    BY <1>13 DEF PostMined, AttestMined
  <2>2. rows[calls[c].payment] = c
    BY <1>2, <1>13 DEF PostMined, AttestMined, At, Accepted
  <2>3. MayBeAt(c, pc) /\ pc \in Pcs
    BY <2>1, <2>2 DEF MayBeAt, Pcs, Awaits
  <2> QED
    BY <1>4, <1>13, <2>1, <2>3 DEF PostMined, AttestMined
<1>14. ASSUME NEW c \in Call, StoreTrace(c) PROVE Owned'
  <2>1. calls[c].pc \in Accepted /\ calls[c].attestors \cup {calls[c].turn} \in SUBSET Attestor
    BY <1>2, <1>14 DEF StoreTrace, At, Accepted, Handler
  <2> QED
    BY <1>5, <1>14, <2>1 DEF StoreTrace
<1>15. ASSUME NEW c \in Call, FulfilFails(c) PROVE Owned'
  <2>1. calls[c].pc \in Accepted /\ calls[c].attestors \in SUBSET Attestor
    BY <1>2, <1>15 DEF FulfilFails, At, Accepted, Handler
  <2>2. UNCHANGED traces \/ Stored(c)
    BY <1>15 DEF FulfilFails
  <2>3. CASE calls[c].turn = Reflector
    <3>1. Goto(c, "pending")
      BY <1>15, <2>3 DEF FulfilFails
    <3>2. /\ calls'[c].pc = "pending" /\ calls'[c].attestors = calls[c].attestors
          /\ \A d \in Call :
                /\ d # c => calls'[d] = calls[d]
                /\ calls'[d].payment = calls[d].payment
                /\ calls'[d].asset = calls[d].asset
      BY <1>3, <3>1, GotoKeepsType DEF Owned, Answers
    <3> QED
      BY <1>1, <1>15, <2>1, <2>2, <3>2, StoreKeepsOwned DEF FulfilFails
  <2>4. CASE calls[c].turn # Reflector
    BY <1>5, <1>15, <2>1, <2>2, <2>4 DEF FulfilFails
  <2> QED
    BY <2>3, <2>4
<1>16. ASSUME NEW c \in Call, Kill(c) PROVE Owned'
  <2>1. MayBeAt(c, "killed")
    BY DEF MayBeAt, Accepted
  <2> QED
    BY <1>3, <1>4, <1>16, <2>1 DEF Kill
<1>17. ASSUME NEW c \in Call, NEW sender \in {PostingKey} \cup Attestor, Mine(c, sender)
       PROVE  Owned'
  <2>1. /\ UNCHANGED <<payments, rows, traces, usedTxHashes, calls>>
        /\ mempool' \subseteq mempool
    BY <1>17 DEF Mine
  <2>2. rows[calls[c].payment] = c /\ claimId(c) \in Claim /\ Owner(claimId(c)) = c
    BY <1>2, <1>17 DEF Mine, Owned, claimId, Claim, Owner, Handler
  <2>3. \A k \in posted' : Owner(k) # NoCall /\ claimId(Owner(k)) = k
    BY <1>17, <2>2, PaidAssumption DEF Mine, Owned
  <2>4. \A k \in Claim, a \in Attestor : attestations'[k][a] # NoCall => attestations'[k][a] = Owner(k)
    <3>1. \A k \in Claim, a \in Attestor :
             attestations'[k][a] = attestations[k][a] \/ (k = claimId(c) /\ attestations'[k][a] = c)
      BY <1>17, <2>2 DEF Mine, Owned, TypeOK
    <3> QED
      BY <2>2, <3>1 DEF Owned
  <2> QED
    BY <1>1, <2>1, <2>3, <2>4 DEF Owned, Owner, UsedMeansUsed, At, claimId
<1>18. ASSUME NEW p \in Payment, PaymentLands(p) PROVE Owned'
  <2>1. \A q \in Payment : payments[q] = "good" => payments'[q] = "good"
    BY <1>18 DEF PaymentLands, Owned, TypeOK
  <2>2. UNCHANGED <<rows, traces, usedTxHashes, calls, mempool, posted, attestations>>
    BY <1>18 DEF PaymentLands
  <2> QED
    BY <1>1, <1>2, <2>1, <2>2 DEF Owned, Owner, UsedMeansUsed, At, claimId, Handler
<1>19. ASSUME NEW k \in Claim, CloseClaim(k) PROVE Owned'
  BY <1>1, <1>19 DEF CloseClaim, Owned, Owner, UsedMeansUsed, At, claimId
<1>20. ASSUME NEW i \in Instance, ColdStart(i) PROVE Owned'
  <2>1. /\ UNCHANGED <<payments, rows, traces, mempool, posted, attestations>>
        /\ \A j \in Instance : usedTxHashes'[j] \subseteq usedTxHashes[j]
    BY <1>20 DEF ColdStart, Owned, TypeOK
  <2>2. \A d \in Call :
           /\ calls'[d].pc \in {calls[d].pc, "killed"}
           /\ calls'[d].payment = calls[d].payment
           /\ calls'[d].asset = calls[d].asset
           /\ calls'[d].attestors = calls[d].attestors
    BY <1>20, ColdStartKeepsType DEF Owned
  <2>3. \A d \in Call : claimId(d)' = claimId(d)
    BY <2>2 DEF claimId
  <2>4. UsedMeansUsed'
    BY <2>1, <2>2 DEF Owned, UsedMeansUsed, At
  <2>5. \A p \in Payment :
           rows'[p] # NoCall => payments'[p] = "good" /\ calls'[rows'[p]].payment = p
    BY <2>1, <2>2 DEF Owned, TypeOK
  <2>6. \A d \in Call :
           /\ At(d, "record")' => payments'[calls'[d].payment] = "good"
           /\ calls'[d].pc \in {"idle", "confirm", "record"} => rows'[calls'[d].payment] # d
           /\ calls'[d].pc \in Accepted => rows'[calls'[d].payment] = d
           /\ \A a \in calls'[d].attestors : traces'[claimId(d)'][a] = d
    BY <2>1, <2>2, <2>3 DEF Owned, At, Accepted
  <2>7. \A j \in Instance : \A p \in usedTxHashes'[j] : rows'[p] # NoCall
    BY <2>1 DEF Owned
  <2>8. \A d \in Call, sender \in {PostingKey} \cup Attestor :
           <<d, sender>> \in mempool' => rows'[calls'[d].payment] = d
    BY <2>1, <2>2 DEF Owned
  <2>9. \A k \in posted' : Owner(k)' # NoCall /\ claimId(Owner(k))' = k
    <3> SUFFICES ASSUME NEW k \in posted PROVE Owner(k)' # NoCall /\ claimId(Owner(k))' = k
      BY <2>1
    <3>1. Owner(k)' = Owner(k) /\ Owner(k) \in Call
      BY <2>1 DEF Owned, TypeOK, Owner, Claim
    <3> QED
      BY <2>2, <3>1 DEF Owned, claimId
  <2> QED
    BY <1>1, <2>1, <2>4, <2>5, <2>6, <2>7, <2>8, <2>9 DEF Owned, Owner
<1>21. CASE UNCHANGED vars
  BY <1>21 DEF vars, Owned, TypeOK, Owner, UsedMeansUsed, At, claimId
<1> QED
  BY <1>6, <1>7, <1>8, <1>9, <1>10, <1>11, <1>12, <1>13, <1>14, <1>15, <1>16, <1>17,
     <1>18, <1>19, <1>20, <1>21 DEF Next, Request, Fulfil

LEMMA OwnedAlways == ASSUME DbEnabled PROVE Spec => []Owned
<1>1. Owned /\ [Next]_vars => Owned'
  BY OwnedStep
<1> QED
  BY OwnedInit, <1>1, PTL DEF Spec

\* Every attestation bought is bought by a payment of its own: no two claims, on
\* chain or on their way, come from one payment, however the calls that name it
\* interleave, on whatever instances they run and wherever they are cut off.
THEOREM OnePaymentBuysOneClaim == ASSUME DbEnabled PROVE Spec => []OnePaymentOneClaim
<1> QED
  BY OwnedAlways, OwnedImplies, PTL

\* What is recorded was paid for, and what is posted was recorded.
THEOREM PaidBeforeRecorded == ASSUME DbEnabled PROVE Spec => []PaidAndRecorded
<1> QED
  BY OwnedAlways, OwnedImplies, PTL

\* An accepted payment is recorded as its call's: a lost database accepts none. And
\* the memory of an instance and the table never disagree on what was used.
THEOREM RecordAlwaysDecides == ASSUME DbEnabled PROVE Spec => []RecordDecides
<1>1. UsedMeansUsed /\ AcceptedIsRecorded => RecordDecides
  BY DEF RecordDecides
<1> QED
  BY <1>1, OwnedAlways, OwnedImplies, PTL

\* The traces of the attestors that an answer names are in the table.
THEOREM NamedAttestorsAlwaysHaveTraces ==
    ASSUME DbEnabled PROVE Spec => []NamedAttestorsHaveTraces
<1> QED
  BY OwnedAlways, OwnedImplies, PTL

\* What the table holds of a claim is of the run whose hash is on chain.
THEOREM TracesStandForAttestations ==
    ASSUME DbEnabled PROVE Spec => []TracesMatchAttestations
<1> QED
  BY OwnedAlways, OwnedImplies, PTL

=============================================================================
