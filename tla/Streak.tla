-------------------------------- MODULE Streak --------------------------------
(***************************************************************************)
(* One day of the streak: the jobs of .github/workflows/v2-streak.yml that *)
(* run scripts/v2-streak-run.ts live, retry it once, and post and attest a *)
(* claim for each asset. A step ends where the script awaits; what it      *)
(* awaits may throw, and a throw ends the attempt. What the sources tell   *)
(* is another thing at each await, and the chain mines meanwhile: a        *)
(* transaction that was sent may be mined after the attempt that sent it   *)
(* gave up, and revert for what others did.                                *)
(*                                                                         *)
(* The contracts are reduced to the claims of the day, with every reason   *)
(* they have to refuse one or its attestation, except that the poster      *)
(* keeps its role and pays the fee of the tier; fees, stakes and bonds are *)
(* in the modules of the contracts. The mock mode, the narrator (its       *)
(* failure is swallowed), the traces stored off chain and the log are left *)
(* out.                                                                    *)
(***************************************************************************)
EXTENDS Reconciler

CONSTANTS
    ASSETS,              \* the sequence of the assets; the dedupe asks for the first
    ATTESTORS,           \* the sequence of the attestors: the main one and the extras
    Paths,               \* what the sources of an asset may tell, one next to the other
    MAX_ATTESTORS,       \* of a claim, 16 in the code
    MAX_JOBS,            \* bound: scheduled and dispatched jobs of the day
    MAX_OTHERS           \* bound: what others do to the claims and registrations

\* 1000 bps in the code.
SELF_TEST_OFFSET == 1000 * SCALE

\* mETH has two sources and USDY one.
ASSUME StreakAssumption ==
    /\ ASSETS \in Seq(Range(ASSETS)) /\ ATTESTORS \in Seq(Range(ATTESTORS))
    /\ Len(ASSETS) > 0 /\ Len(ATTESTORS) > 0
    /\ MAX_ATTESTORS \in Nat \ {0} /\ MAX_JOBS \in Nat /\ MAX_OTHERS \in Nat
    /\ \A a \in Range(ASSETS) : \E n \in 1..2 : Paths[a] \subseteq [1..n -> Int]

VARIABLES
    selfTest,            \* every seventh day
    job,                 \* the job that runs last, 0 before the first
    result,              \* of a job: running, posted, ran, skipped (exit 0), failed
    attempt,             \* of the job
    pc, at, who,         \* the place of the attempt, its asset, its attestor
    asserted,            \* by the probe,
    source, told,        \* from what this source told then
    decision,
    seen,                \* what became of that source when the decision fell
    pool,                \* what an account has sent and nobody mined, in order
    posts,               \* the transactions that post the claim of an asset
    posted,              \* an asset's claim on chain: what it asserts
    closed,              \* the claims that take no more attestations
    attested,            \* its attestations: by whom, which decision, on what
    attestorCount,       \* with those of other accounts
    registered, left,    \* the attestors that are registered, and those that ever left
    others,              \* what others did, counted
    receipts             \* the assets whose post was seen mined

probed == <<asserted, source, told>>
judged == <<decision, seen>>
local == <<at, who, probed, judged>>
contract == <<posted, closed, attested, attestorCount, registered, left, others>>
chain == <<pool, posts, contract>>
vars == <<selfTest, job, result, attempt, pc, local, chain, receipts>>

Asset == ASSETS[at]
Attestor == ATTESTORS[who]
Poster == "poster"
Accounts == {Poster} \cup Range(ATTESTORS)

NotPosted == [posted |-> FALSE]
Unseen == [moved |-> 0, missing |-> FALSE, apart |-> 0]

Init ==
    /\ selfTest \in BOOLEAN
    /\ job = 0 /\ result = [j \in 1..MAX_JOBS |-> "none"] /\ attempt = 0
    /\ pc = "idle" /\ at = 1 /\ who = 1
    /\ asserted = 0 /\ source = 1 /\ told = 0
    /\ decision = "none" /\ seen = Unseen
    /\ pool = [x \in Accounts |-> <<>>] /\ posts = [a \in Range(ASSETS) |-> 0]
    /\ posted = [a \in Range(ASSETS) |-> NotPosted] /\ closed = {}
    /\ attested = [a \in Range(ASSETS) |-> {}]
    /\ attestorCount = [a \in Range(ASSETS) |-> 0]
    /\ registered = Range(ATTESTORS) /\ left = {} /\ others = 0
    /\ receipts = {}

-----------------------------------------------------------------------------
(* The world *)

Full(a) == attestorCount[a] >= MAX_ATTESTORS

\* What attest of the contract requires,
Attestable(tx) ==
    /\ tx.by \in registered
    /\ posted[tx.asset] # NotPosted /\ tx.asset \notin closed
    /\ \A x \in attested[tx.asset] : x.by # tx.by
    /\ ~Full(tx.asset)

\* Fault: a claim is posted again.
AcceptsAgain(tx) == tx.kind = "attest" => Attestable(tx)

\* and what postClaim does.
Accepts(tx) == IF tx.kind = "post" THEN posted[tx.asset] = NotPosted ELSE Attestable(tx)

\* A transaction that the contract does not accept any more reverts.
Mine(account) ==
    /\ pool[account] # <<>>
    /\ LET tx == Head(pool[account])
           Posts == tx.kind = "post" /\ Accepts(tx)
           Attests == tx.kind = "attest" /\ Accepts(tx)
       IN /\ pool' = [pool EXCEPT ![account] = Tail(@)]
          /\ posted' = IF Posts
                       THEN [posted EXCEPT ![tx.asset] =
                               [posted |-> TRUE, asserted |-> tx.asserted]]
                       ELSE posted
          /\ attested' = IF Attests
                         THEN [attested EXCEPT ![tx.asset] =
                                 @ \cup {[by |-> tx.by, decision |-> tx.decision,
                                          asserted |-> tx.asserted, seen |-> tx.seen]}]
                         ELSE attested
          /\ attestorCount' = IF Attests THEN [attestorCount EXCEPT ![tx.asset] = @ + 1]
                                         ELSE attestorCount
    /\ UNCHANGED <<selfTest, job, result, attempt, pc, local, posts,
                   closed, registered, left, others, receipts>>

Others ==
    /\ others < MAX_OTHERS /\ others' = others + 1
    /\ UNCHANGED <<selfTest, job, result, attempt, pc, local, pool, posts, posted,
                   attested, receipts>>

\* The operator closes a claim, as settling it takes.
CloseClaim(a) ==
    /\ Others /\ posted[a] # NotPosted /\ a \notin closed
    /\ closed' = closed \cup {a}
    /\ UNCHANGED <<attestorCount, registered, left>>

\* Other accounts attest it, one after another.
OthersAttest(a) ==
    /\ Others /\ posted[a] # NotPosted /\ a \notin closed
    /\ \E count \in attestorCount[a] + 1 .. MAX_ATTESTORS :
         attestorCount' = [attestorCount EXCEPT ![a] = count]
    /\ UNCHANGED <<closed, registered, left>>

\* The holder of an attestor's key withdraws its whole bond, or registers again.
Leave(x) ==
    /\ Others /\ x \in registered
    /\ registered' = registered \ {x} /\ left' = left \cup {x}
    /\ UNCHANGED <<closed, attestorCount>>

Register(x) ==
    /\ x \notin registered /\ registered' = registered \cup {x}
    /\ UNCHANGED <<selfTest, job, result, attempt, pc, local, pool, posts, posted, closed,
                   attested, attestorCount, left, others, receipts>>

-----------------------------------------------------------------------------
(* The workflow *)

Undecided == decision' = "none" /\ seen' = Unseen

\* A process starts with nothing at hand, and so does its turn for an asset.
Fresh(asset) ==
    /\ at' = asset /\ who' = 1 /\ Undecided
    /\ asserted' = 0 /\ source' = 1 /\ told' = 0

\* One job at a time: the concurrency group.
StartJob ==
    /\ pc = "idle" /\ job < MAX_JOBS
    /\ job' = job + 1 /\ result' = [result EXCEPT ![job + 1] = "running"]
    /\ attempt' = 1 /\ pc' = "dedupe"
    /\ UNCHANGED <<selfTest, local, chain, receipts>>

Ends(how) ==
    /\ result' = [result EXCEPT ![job] = how] /\ pc' = "idle" /\ Fresh(1)
    /\ UNCHANGED <<selfTest, job, attempt, chain, receipts>>

\* The runner of the job is gone.
KillJob == pc # "idle" /\ Ends("failed")

\* An await throws: exit 1. The script is run once more, then the job fails.
Throw ==
    /\ pc \notin {"idle", "store", "extra", "extraSend", "extraWait"}
    /\ IF attempt = 1
       THEN /\ attempt' = 2 /\ pc' = "dedupe" /\ Fresh(1)
            /\ UNCHANGED <<selfTest, job, result, chain, receipts>>
       ELSE Ends("failed")

-----------------------------------------------------------------------------
(* The script *)

Goes(place) ==
    /\ pc' = place
    /\ UNCHANGED <<selfTest, job, result, attempt>>

\* With the marker file out of reach, as it is live, the chain alone decides.
decideRun(chainReachable, chainHasRunToday) ==
    CASE ~chainReachable -> "skipped"
      [] chainReachable /\ chainHasRunToday -> "ran"
      [] OTHER -> "run"

\* It asks the chain for the claim of a plain day.
Dedupe ==
    /\ pc = "dedupe"
    /\ \E chainReachable \in BOOLEAN :
         LET runDecision == decideRun(chainReachable,
                                      ~selfTest /\ posted[ASSETS[1]] # NotPosted)
         IN IF runDecision = "run"
            THEN Goes("balance") /\ UNCHANGED <<local, chain, receipts>>
            ELSE Ends(runDecision)

LowBalanceGuard ==
    /\ pc = "balance"
    /\ \/ Ends("skipped")
       \/ Goes("probe") /\ UNCHANGED <<local, chain, receipts>>

\* What an await of the sources answers when these are up.
Heard(tells, up) ==
    getYieldObservation([i \in DOMAIN tells |->
        IF i \in up THEN [valueBps |-> tells[i], age |-> 0] ELSE Failed])

\* With no source up the await throws.
SomeUp(tells) == (SUBSET (DOMAIN tells)) \ {{}}

Round(value) == SCALE * ((value + SCALE \div 2) \div SCALE)

\* Fault: the offset is in percent.
AssertedNearby(observed) == Round(observed) + IF selfTest THEN 10 * SCALE ELSE 0

Asserted(observed) == Round(observed) + IF selfTest THEN SELF_TEST_OFFSET ELSE 0

\* What is asserted comes from the first leg of a first observation,
Probe ==
    /\ pc = "probe" /\ Goes("compute")
    /\ \E tells \in Paths[Asset] : \E up \in SomeUp(tells) :
         /\ asserted' = Asserted(Heard(tells, up)[1].valueBps)
         /\ source' = Min(up) /\ told' = tells[Min(up)]
    /\ UNCHANGED <<at, who, judged, chain, receipts>>

\* and is judged on another one: the source may have moved since, or be missing.
Judges ==
    /\ \E tells \in Paths[Asset] : \E up \in SomeUp(tells) :
         /\ decision' = Judge(Heard(tells, up), asserted)
         /\ seen' = [moved |-> Abs(tells[source] - told),
                     missing |-> source \notin up, apart |-> Spread(tells)]
    /\ UNCHANGED <<at, who, probed, chain, receipts>>

Compute == pc = "compute" /\ Goes("post") /\ Judges

\* The node estimates the call first and takes what would not revert now.
Sends(account, tx) ==
    Accepts(tx) /\ pool' = [pool EXCEPT ![account] = Append(@, tx)]

PostClaim ==
    /\ pc = "post" /\ Goes("postWait")
    /\ Sends(Poster, [kind |-> "post", asset |-> Asset, asserted |-> asserted])
    /\ posts' = [posts EXCEPT ![Asset] = @ + 1]
    /\ UNCHANGED <<local, contract, receipts>>

\* Fault: the receipt is not awaited.
MinedUnawaited(account) == TRUE

\* The receipt is there, whatever it says.
Mined(account) == pool[account] = <<>>

PostMined ==
    /\ pc = "postWait" /\ Mined(Poster) /\ Goes("attest")
    /\ receipts' = receipts \cup {Asset}
    /\ UNCHANGED <<local, chain>>

Attestation == [kind |-> "attest", asset |-> Asset, by |-> Attestor,
                decision |-> decision, asserted |-> asserted, seen |-> seen]

Attest ==
    /\ pc = "attest" /\ Goes("attestWait") /\ Sends(Attestor, Attestation)
    /\ UNCHANGED <<local, posts, contract, receipts>>

AttestMined ==
    /\ pc = "attestWait" /\ Mined(Attestor) /\ Goes("store")
    /\ UNCHANGED <<local, chain, receipts>>

\* Whether the endpoint keeps the trace is logged only.
StoreTrace ==
    /\ pc = "store" /\ Goes("extra") /\ who' = who + 1 /\ Undecided
    /\ UNCHANGED <<at, probed, chain, receipts>>

\* An extra attestor decides for itself; it is left out when anything throws.
ExtraComputes ==
    pc = "extra" /\ who <= Len(ATTESTORS) /\ Goes("extraSend") /\ Judges

ExtraSends ==
    /\ pc = "extraSend" /\ Goes("extraWait") /\ Sends(Attestor, Attestation)
    /\ UNCHANGED <<local, posts, contract, receipts>>

ExtraMined ==
    /\ pc = "extraWait" /\ Mined(Attestor) /\ Goes("store")
    /\ UNCHANGED <<local, chain, receipts>>

ExtraSkipped ==
    /\ pc \in {"extra", "extraSend", "extraWait"} /\ who <= Len(ATTESTORS)
    /\ Goes("extra") /\ who' = who + 1 /\ Undecided
    /\ UNCHANGED <<at, probed, chain, receipts>>

NextAsset ==
    /\ pc = "extra" /\ who > Len(ATTESTORS)
    /\ IF at < Len(ASSETS)
       THEN /\ Goes("probe") /\ Fresh(at + 1)
            /\ UNCHANGED <<chain, receipts>>
       ELSE Ends("posted")

Script ==
    \/ Dedupe \/ LowBalanceGuard \/ Probe \/ Compute \/ PostClaim \/ PostMined
    \/ Attest \/ AttestMined \/ StoreTrace \/ NextAsset
    \/ ExtraComputes \/ ExtraSends \/ ExtraMined \/ ExtraSkipped

Next ==
    \/ \E account \in Accounts : Mine(account)
    \/ \E a \in Range(ASSETS) : CloseClaim(a) \/ OthersAttest(a)
    \/ \E x \in Range(ATTESTORS) : Leave(x) \/ Register(x)
    \/ StartJob \/ KillJob \/ Throw
    \/ Script

Spec == Init /\ [][Next]_vars

-----------------------------------------------------------------------------
(* Properties *)

\* A wrong verdict, REJECTED on what the sources told or VALID on the wrong value of a
\* self-test, has a cause in the market: since the probe the source behind the asserted
\* value moved, or it is missing and the others lie apart from it, by what the tolerance
\* leaves over the half of the spread that reconciles, if it was heard with others, and
\* over the rounding. (Twice the numbers, so as to have that half.)
TheDayIsJudgedRight ==
    LET wrong == IF selfTest THEN "VALID" ELSE "REJECTED"
        margin == IF selfTest THEN SELF_TEST_OFFSET - verdictToleranceBps
                              ELSE verdictToleranceBps
    IN \A a \in Range(ASSETS) : \A x \in attested[a] : x.decision = wrong =>
         2 * margin <= 2 * x.seen.moved + SCALE + 1
                         + IF x.seen.missing THEN 2 * x.seen.apart
                                             ELSE reconcileToleranceBps

\* A job that says it posted left every claim on chain with the attestation of the
\* main attestor, or else the claim was closed or filled or the attestor left: what
\* was mined and reverted though it was estimated, and no receipt was read, reverted
\* for that. One that found the day done found the first claim.
DoneMeansAttested ==
    \A j \in 1..MAX_JOBS :
        /\ result[j] = "posted" => \A a \in Range(ASSETS) :
             \/ \E x \in attested[a] : x.by = ATTESTORS[1]
             \/ a \in closed \/ Full(a) \/ ATTESTORS[1] \in left
        /\ result[j] = "ran" => posted[ASSETS[1]] # NotPosted

\* A claim whose receipt was seen is not sent again, by a retry or by another job,
\* and only a claim that was sent again is ever attested for a value it does not
\* assert.
PostedOnce ==
    /\ [][\A a \in receipts : posts'[a] = posts[a]]_vars
    /\ [](\A a \in Range(ASSETS) : \A x \in attested[a] :
            x.asserted # posted[a].asserted => posts[a] > 1)

\* As documented ('Daily decisive run for both assets', v2-streak.yml): a job that
\* succeeds, and neither paused nor met an unreachable chain, leaves both attested.
BothAssetsAttested ==
    \A j \in 1..MAX_JOBS : result[j] \in {"posted", "ran"} =>
        \A a \in Range(ASSETS) : attested[a] # {}

=============================================================================
