# Bombe: specification, model checking and proofs

Bombe lets autonomous agents (and people) attest to claims with money at
stake. Four Solidity contracts hold the money and the rules; a TypeScript
runner drives the agents, an indexer mirrors the contracts' events into a
database, and a web application sells attestations and takes in disputes.

This directory holds TLA+ modules translated from that code, TLC
configurations that check them on small instances, and theorems that TLAPS
proves for every value of the constants. Paths below are relative to `src/`.

## 1. The system

### Components and their state

| component | code | state it keeps | operations |
|---|---|---|---|
| AgentRegistry | `contracts/src/AgentRegistry.sol` | per account: bond, reputation, active, number of pending disputes | registerAgent/registerHuman, topUpBond, withdrawBond; for the other contracts adjustReputation, setDisputePending |
| AgentAttestation | `contracts/src/AgentAttestation.sol` | claims (posted, closed, tier, attestor count, fee), attestations (decision, locked stake) | postClaim, closeClaim (operator), attest; for the settlers seizeStake, seizeClaimFee |
| AgentSlashing | `contracts/src/AgentSlashing.sol` | claimable balances, total burned, disputes with votes, guard of active pairs | openDispute, vote, resolveDispute, withdraw, receive; slashTier1, creditClaimable, burn for the leaderboard |
| TuringLeaderboard | `contracts/src/TuringLeaderboard.sol` | settled flags, statistics for life and per epoch | settleTier1 (operator), trustScore |
| deployment | `contracts/script/Deploy.s.sol` | role grants | wiring of the four contracts |
| ReAct loop | `packages/agent-sdk/src/loop.ts`, `tool-recovery.ts`, `cost-breaker.ts`, `router.ts` | messages, trace, step count, corrective turns used, evidence, cost | think/act steps, tool calls, finalize with hard rules |
| runner, event bus | `apps/runner/src/runner.ts`, `packages/shared/src/event-bus.ts` | concurrent agent runs, timers, handler lists | run agents on a posted claim, emit AGENT_DONE, attest |
| human queue | `apps/runner/src/human-queue.ts` | the timer and the resolver of a claim | onClaim, forceElapse, destroy; a timer that fires submits the human's attestation |
| indexer, database | `apps/indexer/src/indexer.ts`, `packages/db/src` | rows of claims, attestations, traces | one handler per bus event, not awaited |
| paid requests | `apps/web/app/api/v1/request/route.ts`, `apps/web/lib/fulfill.ts` | payments used (memory and table), request records | verify payment, record, fulfil |
| dispute desk | `apps/web/app/api/dispute/route.ts`, `apps/web/app/api/operator/dispute/route.ts`, `apps/web/lib/dispute-onchain.ts` | dispute records | record, escalate on chain, mark escalated |
| yield evidence | `packages/agent-sdk/src/data` (`source-registry.ts`, `defillama.ts`, `live-source.ts`, `pipeline.ts`, `reconciler.ts`, `decisive-path.ts`, `consensus.ts`) | none that outlives a call | fetch legs, gates, reconcile, judge; consensus of several runs |
| share price (NAV) | `packages/agent-sdk/src/data/nav.ts` | none that outlives a call | read a vault through a chain of nodes, cross-check |
| documents | `packages/agent-sdk/src/data/document.ts`, `apps/web/app/api/v1/document-check` | none that outlives a call | fetch a document, read its figure by path or by a model, cross-check |
| model router | `packages/agent-sdk/src/model-router.ts`, `data/narrate.ts` | the switches of a call | fail over from the primary model to a fallback to a mock |
| daily streak | `scripts/v2-streak-run.ts`, `.github/workflows/v2-streak.yml` | what it posted and attested on chain, traces | dedupe, probe, post, attest, extra attestors, one retry |
| gateway, plugboard, MCP, pages | `apps/tool-gateway`, `packages/plugboard`, `packages/mcp`, `apps/web/app` | caches of thirty seconds | adapters and rendering |

### How they interact

The registry is read by the other contracts (who is registered, what bond) and
written by them through two calls: AgentSlashing marks an accused account with
setDisputePending, AgentSlashing and TuringLeaderboard adjust reputations.
AgentAttestation holds the stakes; AgentSlashing (a lost dispute) and
TuringLeaderboard (a settlement) take them with seizeStake, which reverts when
the stake is gone. The leaderboard keeps nothing: it forwards stakes and fee
into AgentSlashing, the only contract people withdraw from. Off chain, the
runner reads a posted claim from the bus, lets each agent loop over tools and a
model, attests with the result and emits AGENT_DONE; the indexer turns events
into rows; the web application posts claims for paid requests and opens
disputes with the operator's key. Once a day a workflow computes the yield of
two assets, posts a claim about each and has several attestors judge it. The
paid requests and the streak get their verdicts from the same evidence: legs
from public interfaces, gates, and a reconciler that no model can overrule.

### What is hard

* Two contracts compete for one stake: a tier-1 claim can be settled while a
  dispute about one of its attestations is open. Whoever comes second reverts.
* Three records of one fact in two contracts: the dispute records, the guard
  against duplicates, and the registry's counter that freezes a bond.
* An account can leave, come back with a fresh record, top up, and vote or be
  accused at any point in between; a vote weighs the bond of that moment.
* Integer divisions by two, ten and the number of peers, with zero recipients.
* Two boundaries on the same second: the last vote and the first resolution.
* Off chain: timeouts that race late results, handlers that are not awaited,
  payments checked in memory and recorded later, crashes between a transaction
  on chain and the note that it was sent, transactions that are mined after
  whoever sent them gave up.
* A verdict out of sources that fail one by one, each with a date that need not
  be the date of its value, decimals that need not be those of the contract.

`PROJECT.json` lists each hazard at its line, with the properties that cover it.

### What makes each component correct

* Registry: an agent is active exactly while its bond covers the minimum; the
  bond of an accused account cannot shrink or leave; the counter is the number
  of its open disputes.
* Attestation: one decision per account and claim, no more than MAX_ATTESTORS;
  judgment claims (tier 3) take abstentions only; a stake leaves once, for a
  settlement or for a lost dispute; the fee leaves once, at settlement.
* Slashing: every wei is owed to someone or burned; a vote is backed by a bond
  and counted once; a dispute ends.
* Leaderboard: each attestation of a settled claim counts once, in its epoch
  and for life; only a wrong one costs trust; the contract keeps no ether.
* ReAct loop: one corrective turn, a bounded number of steps, and no decision
  that the hard rules forbid.
* Runner and queue: one decision per attempt, whatever the timeout does. Indexer:
  one row per attestor, and nothing lost while the database answers.
* Paid requests: a payment is recorded once and buys one claim, and a stored
  trace is the one whose hash was attested.
* Dispute desk: what a record says of a dispute is what the chain holds.
* Evidence: a verdict is one that every leg bears out, on a value that is fresh;
  a majority of runs decides; the model named is the one that answered.
* Streak: an honest claim is rejected only if the market gave a cause, a claim is
  posted once, and a job that says it posted has attested.

## 2. Modules

| module | models | notes |
|---|---|---|
| `Money` | the three integer splits of AgentSlashing and TuringLeaderboard, and totals | a total counts "coins", pairs of an owner and a number: a sum without recursion, which can be proved about |
| `AgentRegistry` | `AgentRegistry.sol` | one action per call |
| `AgentAttestation` | `AgentAttestation.sol` | extends the registry it reads |
| `AgentSlashing` | `AgentSlashing.sol` | resolveDispute includes seizeStake, setDisputePending and adjustReputation, as its transaction does |
| `TuringLeaderboard` | `TuringLeaderboard.sol` | settleTier1 is one action with everything its loops call |
| `BombeProtocol` | the four contracts as deployed, and time | `Next`, `Spec`, `FairSpec` |
| `Escrow` | abstract specification | what the contracts promise about money |
| `ProtocolProperties`, `MCProtocol` | | invariants, action properties, the refinement mapping, liveness; symmetry for TLC |
| `ReactLoop`, `MCReactLoop` | `runLoop`, with the retry of a tool and the cost cap | one run of one agent; what the model says and what a tool returns, throws or costs is arbitrary |
| `PaidRequests`, `MCPaidRequests` | `POST /api/v1/request` with `recordRequest`, `fulfillAttestation` and `storeTrace` | calls on several instances, the tables, the memories, transactions sent and not yet mined |
| `Runner`, `MCRunner` | `runClaim`, `HumanQueue`, `startIndexer` and the event bus between them | around one claim and one database |
| `DisputeDesk`, `MCDisputeDesk` | dispute intake, records and escalation | extends `BombeProtocol`: the desk's transactions are calls of the contracts, among everybody else's |
| `Reconciler` | legs, gates, the deterministic reconciler | pure operators, shared by the next four |
| `Fetchers` | `source-registry.ts`, `defillama.ts` | how a series or a row becomes a leg |
| `Documents` | `document.ts` | pure operators |
| `Evidence`, `MCEvidence` | the decisive path, the model router, the consensus of runs, the share price, the document check | a step is one computation, with everything its sources may answer |
| `Streak`, `MCStreak` | a day of the workflow and its script | jobs, a retry, pending transactions, the extra attestors |
| `ContractProofs`, `DisputeDeskProofs` | | theorems about the four contracts, and about the desk on top of them: section 5 |
| `ReactLoopProofs`, `PaidRequestsProofs`, `RunnerProofs` | | theorems about the loop, the paid flow, the runner |
| `ReconcilerProofs` | | lemmas on the reconciler, used by the next two |
| `StreakProofs`, `EvidenceProofs` | | theorems about a day, and about every computation of Evidence |

How they compose: the contracts extend one another in the order in which they
call each other, and BombeProtocol is their `Next`. DisputeDesk puts the desk on
top of it. Fetchers, Documents, Evidence and Streak all extend Reconciler, which
is why Evidence and Streak judge a yield alike. ReactLoop, PaidRequests and
Runner stand by themselves: each sees its neighbours as calls that answer or
fail (a loop is started and ends; a verdict is computed; a contract takes or
refuses a transaction).

### Correspondence with the code

The contracts:

* A transaction is atomic, and one that reverts changes nothing: a revert is a
  disabled action, and a call made by a contract is part of the caller's
  action. If a call inside settleTier1 or resolveDispute would revert, the
  whole action is disabled. All entry points are nonReentrant, and both
  functions that send ether to an account (withdrawBond, withdraw) have written
  all their state before the transfer, so a callback from the receiver is a
  later transaction.
* Addresses are a set of accounts, claim ids a set of claims. Hashes, URIs,
  confidence, names and isHuman are stored and never read on chain: left out.
* "known" is `addr != address(0)`. The order of an attestor list does not
  matter to the loops that walk it (each pass touches another account or adds
  to the same sum), so the list is the set of those with an attestation.
* Balances are variables of their own (`registryBalance`, ...), changed by the
  amount each call sends or receives, and never computed from the books: that
  they agree is Solvency.
* `block.timestamp` is only compared with `openedAt + DISPUTE_WINDOW_SECONDS`
  and divided into epochs. A dispute carries its age, which stops one second
  past the window, and `epoch` may advance at any tick.

Off chain an action ends at an await: what the code does between two awaits is
one step, and every await may be followed by a step of anybody else.

* `ReactLoop`: the answer of the model with all that is done with it is one
  step, one attempt of a tool another. A step of the trace keeps its kind, its
  source and whether its data was stale; sources and staleness are also the
  loop's own variables, because the rules read those and not the trace. The
  model seam answers or throws: failover behind it is in Evidence.
* `PaidRequests`: a transaction is sent (which estimates it first, so one that
  would revert at once is not sent) and mined later, when the claim may have
  changed. A payment is unseen, good or bad: its receipt, receiver and amount.
  `rows` and `traces` are the two tables, with the call that wrote a row in
  place of its columns; an insert that throws may have been made. An
  attestation on chain is the call whose trace its hash is of. Every await may
  throw or be the last one (maxDuration), and an instance may be replaced,
  which empties its set of used payments. The ten digits of the payment's hash
  in a claim id are taken to tell payments apart.
* `Runner`: an attempt is one pass of runSingleAgent or of
  submitHumanAttestation; `pc` is its await. `emit` calls the handlers one after
  the other and awaits none, so a handler's first part (up to its first await)
  belongs to the emission, and `job` is what is left of it. The loop of an agent
  is one flag, because withTimeout only looks at whether it ended: `LoopEnds`
  after `TimesOut` is the late result. The two maps of the human queue hold the
  last post of the claim; `armed` are the timers that run in fact. Tables have
  their foreign keys; a row's id is derived from what the code hashes into it.
* `DisputeDesk`: `tx` is the operator's transaction, which lives on when the
  call that sent it is cut off. Time is the contracts' Tick; a voting window is
  a day and a call at most a minute, so no call lives through two of them.
  The database is on: without it recordDispute stores nothing, and there is
  nothing to check.
* `Reconciler`, `Fetchers`, `Evidence`: values are integers in units of
  1/SCALE bps, so that the mean of as many legs as there are sources is exact;
  windows are left out where nothing compares them. NaN is what Number makes of a
  parameter that is no number: nothing lies within it. A leg has the date the code
  gives it (`age`) and, in Fetchers, also the times its value was taken from, which the
  property compares with that date. An exchange of powers of ten stands for
  decimals. `answer` holds what a computation was given and what came of it.
* `Streak`: the contracts are reduced to the claims of the day, with everything
  attest requires (a registered attestor, a posted claim, open, not full and not
  attested by it). Others may close a claim, fill it, or withdraw an attestor's
  bond; an estimate looks at the state of that moment, and what was estimated as
  good reverts if that changed before it is mined. That the poster keeps its role
  and pays the fee of a tier that exists is taken for granted (postClaim,
  AgentAttestation.sol:227-229). `pool` is what an account sent and nobody mined.
  `Paths` is what the sources of an asset may tell, one tuple at each await, and
  any of them may be missing. `Throw` ends an attempt at any await; the workflow
  runs the script again once, and may be dispatched again on the same day.
* Definitions whose comment starts with "Fault:" are seeded variants of the
  definition that follows them, each a plausible mistake. They are used only to
  show that a property notices the mistake; no other definition refers to them.

## 3. What is checked

| run | question |
|---|---|
| `settlement` | two claims of tier 1 or 3 and three accounts, one more than a claim takes, settled in every order over two epochs: types, Solvency, statistics, the life of a claim, trust |
| `disputes` | three accounts, one claim of tier 1 or 3, one dispute that races the settlement, stray ether: Solvency, abstentions, each stake leaves once and for a cause, and the refinement of Escrow |
| `redispute` | two disputes in sequence on a document claim, bonds that shrink and grow, accounts that leave and return: the three records agree, votes are backed, accused bonds are frozen, decisions are final, and every dispute ends |
| `react_loop` | every run of the reference agents on every claim type, with unreadable answers, refused tools, both kinds of retry, stale data and costs around the cap: verdicts obey the rules, abstentions are explained, the trace is complete |
| `paid_requests` | three calls on two instances with one payment, for the same asset or for two, each failing or cut off anywhere: the payment buys one claim, the record decides, traces match attestations |
| `runner` | two agents and a human around a claim that is run and queued again, timeouts against late loops, a database that rejects twice: one decision per attempt, one row per attestor, everything ends |
| `dispute_desk` | two records and two calls of the operator, cut off anywhere, among other challengers and voters: what the table says is what the chain holds |
| `streak` | a day with two jobs of two attempts, a market that moves, sources that fail, transactions mined late that may revert, others who close, fill or leave: a wrong verdict has a cause, nothing posted twice, done means attested unless others stood in the way |
| `evidence` | every answer of three sources, three runs, three providers, two nodes and a document, every short series of a pool, and parameters that are no number: what verdict, date, consensus, narrator, share price and figure are worth |
| `frozen_dispute`, `unchecked_receipt`, `retried_day` | expected to fail: section 4 |

Properties worth a word:

* `Solvency`: each contract holds exactly what it owes. It fails if a split
  strands or duplicates one unit, if a stake is counted twice, or if the
  leaderboard keeps a remainder.
* `DisputesAgree`: the counter in the registry, the guard in the slashing
  contract and the records say the same. If they diverge a bond is frozen for
  ever or can leave during a dispute.
* `StakeLeavesForCause`: relates the locked stake to the settled flag and to
  convictions: a stake is gone if and only if exactly one of the two happened.
* `ImplementsEscrow`: every step is one of the abstract escrow's. The escrow
  says who may gain from what leaves and how much must be burned (for example
  that a lost stake goes to nobody outside the claim except the challenger),
  and leaves the shares open. The mapping sends a stake to none, locked or gone
  by attestation and lockedStake, the fee likewise, challenged to activeDispute,
  owed to claimable.
* `TrustFallsOnlyWhenWrong`: the quotient in trustScore falls only through a
  wrong settlement, which needs the abstentions to stay out of it.
* `VerdictsAreEarned` reads the published trace and not the loop's variables:
  a flag cleared too early, a cap tested a call too late or a rule that looks
  at the wrong result breaks it. `TraceTellsAll` is the bridge between the two.
* `OnePaymentOneClaim` counts claims on chain and on their way there, so that a
  payment spent twice is noticed before it is mined. `RecordDecides` relates
  the memory of an instance to the table: who is refused is refused because of
  another call, never of its own lost attempt that left no record, and who is
  accepted made the record.
* `OneAnswer` is what withTimeout is for: the late result of a loop is neither
  announced nor attested. `OnlyTheDatabaseFails` counts: there are no more failed
  claims of the indexer and no more unreported failures than the database
  rejected calls. It fails if the rows an attestation refers to are inserted
  after it is announced, which the foreign keys turn into an error.
* `AnsweredBondsAreRecorded`: the operator's bond is in a dispute that a record
  names, unless the call was cut off; `RecordsFollowTheOpenDispute` is where the
  limits of time meet: a call that could wait for days would mark a record with
  an old dispute while a newer one is open.
* `TheDayIsJudgedRight`: the value that is asserted comes from another
  observation than the one it is judged on, with other sources missing. Nothing
  in the code keeps the sources together, and an honest claim can be REJECTED:
  the property says what it takes, a move of the source it was taken from, or
  that source missing and the others apart from it, by what the tolerances leave
  over the rounding. A self-test whose offset has the wrong unit breaks it, as its
  wrong value may then be found VALID.
* `DoneMeansAttested`: no receipt is read, so a job may end posted though its
  attest reverted. The property names every way in which that happens (section
  4), and an attempt that does not wait for its transaction, or goes on to the
  next asset without one, is not among them.
* `ClaimLifecycle`: the attestor count, the list, the closed and the settled flag,
  the fee and the stakes are in two contracts and change in five calls.
* `EveryLegBearsOut`: the reconciler decides on a mean; the property speaks of
  each leg. `JudgedValuesAreFresh` compares the gate, which sees the date of a
  series, with the time of the value; its exception is a gap of the code
  (section 4). `MajorityDecides` compares the sliding window with all subsets.
  `NavIsJudgedAsItIs` compares a verdict with what the contract says, not with
  what was read of it: only the first node that tells a price counts, and only
  decimals which that node leaves open, which matter and which are not what is put
  in their place excuse a wrong verdict. `DocumentsAreQuotedRight` says which of
  the two readings of a document is judged, and when none may be.

### Bounds

Contracts: two or three accounts are enough for every role to meet every other:
an accused, a challenger and a voter or peer. Amounts are small and odd
(ATTEST_LOCK = 21, CLAIM_FEE = 11, DISPUTE_BOND = 5) so that every division by
two, ten or the number of peers leaves a remainder, and a tenth of a stake is
not zero. The window is one second, so that there is a vote in its first, in
its last second and one too late. MAX_BOND (a top-up that would pass it is not
taken), MAX_DISPUTES, MAX_SURPLUS (ether sent by strangers, in `disputes`) and
MAX_EPOCH bound the rest. `settlement` has tiers 1 and 3, since tier 2 is not
settled, and two attestors at most for three accounts, so that a claim is full
before its last attestor comes; `redispute` has two disputes on a tier-2 claim,
where no settlement ends the sequence. With the one dispute of `disputes` a stake
cannot be convicted twice; that it never is for any number of disputes is the
theorem `StakesLeaveForCause`. Uint overflow is out of reach (all amounts are ether
that exists) and is not modelled.

`react_loop`: a budget of three steps lets a tool fail twice, or a stale and a
fresh result precede a verdict; confidences lie at and beside each threshold,
and calls cost 0 to 2 against a cap of 3, so that the cap is met and passed.

`paid_requests`: one payment is enough, because calls with different payments
share nothing; two assets, because a payment sent in twice may name another
asset and so another claim id; three calls, so that two race and a third comes
after one of them is gone. The database and the live flow are on. Without a
database only the memory of the instance stands between two calls: the set is
read before three awaits and written after them, and OnePaymentOneClaim fails,
as it does when the two come to different instances. The code keeps that
setting for local development and tests (db.ts:6).

`runner`: one claim, since rows and timers of different claims share nothing but
the rows of agents, which are only inserted. MaxCalls = 2 calls from outside
(a run and a post, two posts, a post and the watcher's event); two posts is what
overwriting a timer takes. MaxDbFailures = 2 is what losing an emission takes
(its row and its error row). Two agents, so that one is late while the other is
on time.

`dispute_desk`: an operator and an accused, who may both open disputes, two
disputes on chain and two records about one attestation: the least in which two
calls race for one record and a record outlives its first dispute. The claim is
a document claim (tier 2), as only that can always be resolved.

`streak`: two jobs of two attempts are enough for a job to meet what an earlier
one left pending. mETH's two sources lie 50 bps apart, as far as still reconciles,
and a third of one above the value that is asserted of them, so that the loss of
one of the two puts an honest claim on the edge; USDY's one source may move by 56
bps, more than the tolerance. MAX_OTHERS = 1: one deed of others (a claim closed
or filled, a bond withdrawn) at any point is what an unread receipt takes; with
MAX_ATTESTORS = 2 the main attestor and one extra just find room. Registering
again is not counted.

`evidence`: three sources, one more than the registry has of any asset (a request
may name any number of open sources); three runs is the least with a majority that
is not everybody. SCALE = 36 makes every mean and every mean of means exact. Values
and tolerances are chosen so that legs lie on both sides of a bound, of a tolerance
and of the asserted value; the tolerance of a share price is a number or none.
A series has up to three points, at four times in any order or with unreadable
dates, with or without a price and a yield: a last point without a value, prices
less and more than a window apart, and the fallback from prices to yields all
occur. Decimals 0 to 2 with a default of 2 make every pair of share and asset
differ, in both directions. A document has three figures to choose from, one of
them zero, a field that is read short, a text that says something else, and a
scale that is right, wrong or no number.

### Fairness

`FairSpec` of BombeProtocol, used for `DisputesEnd`: blocks keep coming (weak
fairness of Tick), and a dispute that stays resolvable is resolved (weak
fairness of ResolveDispute for each id). resolveDispute may be called by anyone,
the challenger has a bond and the accused a frozen bond to get back, so somebody
has a reason to call it. No account is assumed to vote, attest or withdraw, and
the operator is not assumed to settle.

`FairSpec` of Runner, used for `EverythingEnds`: an await of the database ends
(weak fairness of every step after one: it may reject), a timer that is armed
fires, and the mock of the human's submission returns. Nothing is assumed of a
model: `LoopEnds` is not fair, so an agent's loop may never end, and the timeout
has to answer for it. Nobody is assumed to post a claim, to run one, to force a
timer or to stop the indexer.

Nothing is said of paid requests that must finish or of days that must be
posted: the platform may cut off each of them, and nothing takes them up again.

### Deadlock

Deadlock is checked in every run of the contracts (an account without a bond may
always register, one with a bond leave or settle up), of the loop, which stops
only once it has resolved, of the paid flow, where it says little since an
instance may be replaced at any time, and of the runner, where Destroy is
always possible. It is off where the system may really stop: in `dispute_desk`
(all calls answered, all disputes used), `streak` and `retried_day` (the day is
over) and `evidence` (a computation is one step).

## 4. Where code and documents disagree

Three runs show a disagreement.

1. `frozen_dispute`: a dispute on a tier-1 claim can become unresolvable.
   openDispute asks neither for the tier nor whether the claim is settled.
   settleTier1 then seizes the disputed stake; if the vote goes against the
   accused, resolveDispute calls seizeStake, which reverts every time. The
   challenger's bond and the accused's bond stay frozen, though
   AgentSlashing.sol:279 says "until resolved". `DisputesEnd` holds for tier-2
   claims (`redispute`) and fails for tier-1 ones. Solvency holds in spite of
   it: the money is frozen, not lost or duplicated.
2. `unchecked_receipt`: fulfill.ts waits for the receipts of postClaim and
   attest and never reads their status, as route.ts:154 does for the payment. An
   attest that was good when it was sent and reverts when it is mined (the
   operator closed the claim in between) is followed by storeTrace, named in the
   answer as one that "also attested this claim" (fulfill.ts:48), and for the
   reflector itself answered "Attested ... on-chain" (route.ts:217).
3. `retried_day`: an attempt of the daily script that fails between postClaim
   and attest is run again, finds mETH's claim on chain, takes the day for done
   and exits 0. The job is green and nothing was attested, though the workflow
   is to attest both assets.

Others were met while modelling. The models do what the code does; no run is
spent on them.

* Contracts. The mirror image of 1: a dispute decided first takes a stake that
  AgentAttestation.sol:36 says is "held until settlement", and settleTier1
  (TuringLeaderboard.sol:262) then reverts for all attestors of the claim.
  Registering again sets the reputation to 0 (AgentRegistry.sol:161), which
  docs/bombe-prd.md:169 leaves to the leaderboard and the slashing contract.
  docs/bombe-prd.md:168 blocks withdrawals while a dispute "involving the agent"
  is pending; the code marks the accused only (AgentSlashing.sol:314).
* Loop. loop.ts:45 says that with requiresTwoSources a verdict needs two
  distinct sources, and agents.ts:66 that Reflector requires them; the field is
  never read. compute_expected, which calculates with numbers the model hands
  it, counts as a source of its own. A failover in two steps embeds only its
  last switch in the trace (loop.ts:271).
* Runner and queue. runClaim rejects when the database does, before any agent
  is started. destroy() "cancels all pending timers", but not one that was
  overwritten by a second post of its claim.
* Dispute records. db.ts says that a row tracks the real lifecycle; it stays
  'pending' when the call was cut off after its transaction, and there is no
  status for a resolved dispute.
* Streak. On a self-test day the claims have another name, which the dedupe
  never asks for: a second job runs in full and turns red on postClaim. A second
  postClaim, sent while the first is pending, reverts unseen, and the attempt
  attests a value the posted claim does not hold. An attest that reverts when it
  is mined, because the claim was closed or filled or the bond withdrawn meanwhile,
  is not noticed either (v2-streak-run.ts:336): the script prints its verdict,
  writes its record and exits 0; `DoneMeansAttested` excepts just these cases.
  v2-streak-run.ts:250 says a live run "uses the observed value (so VALID)": it is
  the value of one leg, and when that source is missing at the judging and the
  other lies more than the tolerance away, or the source itself moved, the verdict
  is REJECTED. STREAK.md has the script
  "pause and alert" on a low balance; it exits 0 with a warning.
* Evidence. A DefiLlama leg has the date of the last point of its series even
  when that point has no value and the value is older (source-registry.ts:92),
  though types.ts:82 has asOf say when "the underlying data point was produced":
  the freshness gate then passes a stale value. This is the exception in
  `JudgedValuesAreFresh`. Windows "must match across legs" (types.ts:78) and
  nothing makes them; the protocol's interface claims the window that was asked
  for when another one's yield stands in (source-registry.ts:111-120).
  defillama.ts:134 says "earliest point at or after" the window's start; the
  code takes the latest at or before it. The consensus drops a run that fails
  where its header has it abstain, ignores the gates, and has no production
  caller.
* Documents. A value whose quote is not in the document is kept (document.ts:123
  drops the quote alone), which schema.ts says must appear verbatim. Of a text
  with a separator of thousands parseFloat takes what is before it. The route
  refuses an asserted value that is no number, but not a tolerance or a scale,
  and with either of them an honest claim is REJECTED. These are the exceptions
  in `DocumentsAreQuotedRight`. discover.ts marks any pool whose symbol is that
  of a featured asset as verified and lists it first, where its comment keeps
  that for "the curated/verified featured set".
* Share price. A decimals() or asset() call that fails is taken for a function
  the contract lacks, and an honest price can be REJECTED, where schema.ts:81
  abstains when the contract is not readable. This is the exception in
  `NavIsJudgedAsItIs`, for the node whose price is judged and where the default
  is wrong. The route takes a tolerance that is no number
  (nav-check/route.ts:20): no gap is within NaN, and an honest price is REJECTED.

## 5. What is proved

The theorems hold for every value of the constants that satisfies the
assumptions next to their declarations, so that the bounds of the runs do not
matter here. Contracts: any finite set of accounts and of claims, amounts are
natural numbers, MIN_BOND, ATTEST_LOCK, CLAIM_FEE and DISPUTE_BOND are not zero,
MAX_ATTESTORS is a uint8, and MAX_BOND, MAX_DISPUTES, MAX_SURPLUS and MAX_EPOCH
are arbitrary. Loop: any temperament, tools, costs and cap. Paid requests: any
calls, payments, assets and instances, and a database. Runner: any roster,
fixtures, runs, posts and number of failures. Desk: any number of records and
calls; MIN_BOND is at most MAX_BOND and the voting window is not zero. Day: any
assets, attestors, jobs, tolerances and deeds of others; an asset has one source or
two, and these may tell any integers. Evidence: any values, prices, decimals, ages,
tolerances (numbers or none) and gates, series of any length, any number of nodes,
of sources and of runs (EvidenceAssumption asks only that SCALE be divisible by
their numbers and the products of these, so that means are exact).

| theorem | says |
|---|---|
| `TypeCorrect` | types; no bond, counter or claimable balance is negative |
| `BondsCoverTheMinimum` | `ActiveIffBonded`: who is active has the minimum bonded, who is not has nothing in the registry |
| `DisputeRecordsAgree` | `DisputesAgree` |
| `VotesAreBacked` | `VotesBacked` |
| `AccusedBondsStayFrozen` | the action property `AccusedBondFrozen` |
| `ClaimsFollowTheirLifecycle` | `ClaimLifecycle` |
| `DecisionsStay` | the action property `DecisionsAreFinal` |
| `AbstentionsRiskNothing` | `AbstainRisksNothing` |
| `StakesLeaveForCause` | `StakeLeavesForCause` |
| `ContractsAreSolvent` | `Solvency`, all four contracts |
| `SettlementsAreCounted` | `StatsCountSettlements` |
| `TrustOnlyFallsWhenWrong` | the action property `TrustFallsOnlyWhenWrong`, for any record and any rounding |
| `ContractsImplementEscrow` | the refinement of `Escrow` |
| `LoopTypeCorrect`, `TracesTellAll`, `VerdictsAreAlwaysEarned`, `AbstentionsAreAlwaysExplained` | the properties of `react_loop` |
| `LoopMakesProgress` | every pass of the loop uses up its budget of passes, attempts or corrective turns |
| `PaidTypeCorrect`, `OnePaymentBuysOneClaim`, `PaidBeforeRecorded`, `RecordAlwaysDecides`, `NamedAttestorsAlwaysHaveTraces`, `TracesStandForAttestations` | the invariants of `paid_requests` |
| `RunnerTypeCorrect`, `EveryAttemptAnswersOnce`, `RowsAreTheAttestors`, `FailuresAreTheDatabases` | types of the runner, and the invariants of `runner` |
| `DeskKeepsToTheContracts` | `DeskSpec => Spec`: the desk's steps are the contracts', so all of the above holds beside it |
| `RecordsNameRealDisputes`, `AnsweredBondsLeaveATrace`, `RecordsTurnWhenResolved` | the properties of `dispute_desk` |
| `StreakInvariant`, `DaysAreJudgedRight`, `PostedMeansAttested`, `NeverPostedAgain` | the inductive invariant of a day, and the properties of `streak` |
| `VerdictsAreBorneOut`, `FreshValuesAreJudged`, `MajorityPrevails`, `NarrationIsAccounted`, `NavIsReadAsItIs`, `DocumentsAreReadRight` | the properties of `evidence` |
| `FeeSplitConserves`, `BurnAndRedistributeConserves`, `DisputeSplitConserves` | the splits lose and create nothing, for every amount and number of recipients, and burn at least half of a seized stake |

### The contracts

TypeOK is inductive. With it ActiveIffBonded and DisputesAgree are inductive
each by itself; the first says that an account that is not active has nothing in
the registry, which is why a registration that overwrites its record loses
nothing. Both together give the frozen bond: an open dispute means a counter
above zero, and only withdrawBond, which looks at it, takes a bond down. One
lemma per module sorts the steps of `Next` by what they touch (BondStep,
DisputeStep, ClaimStep, MoneyStep); the Effect lemmas say what each call does.

* Votes. VotesBacked is about bonds as they were when the votes were cast. An
  active account's bond is always between MIN_BOND and the bound (BondsBounded),
  so it was at that moment, and a voter is counted once (OneVoteMore).
* Claims. ClaimLifecycle is not inductive: settleTier1 empties the stakes of
  those who decided, and "no stake is left" needs that nobody else has one. The
  lemma StakesAreDecided is that strengthening. AbstainRisksNothing follows from
  it, from the tier of a claim with attestations never being written again, and
  from the set of deciders only growing. DecisionsAreFinal needs in addition
  that only posted claims are closed (ClosedWerePosted), so that a second
  postClaim cannot reopen one.
* Causes. StakeLeavesForCause counts convictions, and a count is not inductive.
  ForCause says instead that two convictions of a pair are one, and that a
  settlement and a conviction exclude each other: a conviction that came second
  would find no stake, and a settlement one less than it needs.
* Money. Solvency is proved balance by balance: TotalAdd and TotalChange say how
  a total moves, SeizedStakes how the number of locked stakes does, and
  SettlementAddsUp is the arithmetic of a settlement with any number of right
  and wrong attestors.
* Statistics and trust. A settlement adds one to one counter of each of its
  attestors (BumpAdds, SettlementScores). AccuracyRises and ExperienceRises
  compare the quotient before and after, from the lemma that a quotient of
  naturals, rounded down, keeps their order (RoundedDownInOrder).
* Refinement. One lemma per call names its step of the escrow:
  PostClaimTakesFee, AttestLocks, OpenDisputeChallenges, ConvictionUpholds,
  AcquittalDismisses, SettlementSettles; all other calls change no abstract
  variable. EscrowStep collects them: Init maps to Init, and every step to a
  step or a stutter.

### The parts off chain

Loop: Inv of ReactLoopProofs is inductive. It is the properties together with
Waiting, which says what holds at each await before there is a result (nothing
finalized, within the cap, as many failed tools as corrective turns used).
OneMoreStep says once what appending to the trace changes. That two sources by
count are two by name is TwoElements.

Paid requests: Owned of PaidRequestsProofs is inductive when there is a
database. None of the properties is, by itself: they all follow from a payment
having one owner, the call that made its row. Owned says of every part of the
state what it owes to that row: a call past the insert is the owner, so is the
sender of a transaction in the mempool, the author of an attestation and of a
trace, and the memories hold only payments with a row. Three lemmas carry the
steps: a call that moves (MoveKeepsOwned), the insert (RecordKeepsOwned), and
the end of an attestor's turn (StoreKeepsOwned).

Runner: RunnerInv of RunnerProofs is inductive. It adds that an agent is off
until its run starts it, that the indexer hears of successes only, and that a
row was made for one. That each failure seen has a failure of the database to
pay for it needs WrittenBefore as well: the agent's and the claim's row exist
before an attestation that refers to them is announced, so no foreign key is
ever refused and only the database itself can lose a row.

### The dispute desk

DeskInv of DisputeDeskProofs is inductive together with TypeOK and
DisputesAgree, which come from the contracts. Where a call stands says what its
transaction did (CallInv): a transaction that took effect opened a dispute by
the operator about the call's own claim and accused, which no other call opened.
An escalated record names the dispute of an answered call (RecordInv). The
argument for RecordsFollowTheOpenDispute is about time: a call in progress lived
through one Tick at most, so the dispute it opened is at most one tick old, and
a dispute is resolved only when it is older than the window, which is not zero.
So the dispute a call is about to write down is open, and since of two disputes
about a pair the older one is over (OlderAreResolved), whatever the record named
before is resolved. That the desk keeps to the contracts is shown step by step:
sending estimates openDispute without changing anything, and what is mined is an
openDispute anybody may make.

### A day of the streak

StreakInv is inductive. Position ties the place of an attempt to the asset and
attestor at hand. DecisionsAreRight follows a decision from the judge through a
pool to the chain: what is asserted is the rounded value of one source
(AssertedAsTold), and a decision that is wrong is excused by what became of that
source when it fell (Excused). JudgedRight proves that for each outcome of an
await: JudgedValue bounds the value that was judged by each source that was heard,
and the asserted value is half a unit away from the one that was told. DoneIsDone
needs to know what an attempt has behind it (AttemptIsBacked): while it waits, its
transaction is in the pool or had its effect. An attestation in a pool is its
sender's own, of a claim that is there (PoolsAreTheirOwners), and whoever did not
leave is registered (RegisteredUnlessLeft). When it is mined, attest either takes
it or refuses it for a reason that `DoneMeansAttested` names: the claim was closed
or filled, the attestor left, or it has attested before. SaidOnce says that
everything that is said of an asset posted once, in pools and on chain, is one
value; it rests on the poster keeping its role (see section 2).

### Evidence

A step of Evidence is one computation from Init, so there is nothing to
strengthen: each theorem rests on a lemma that says what its computation
returns, whatever it was given (DecisiveBearsOut, FreshnessJudged,
MajorityDecided, NarratorNamed, NavJudged, DocumentsJudged), and PathOfAStep
keeps the others apart. Under these lemmas:

* Legs and means. The legs of any number of sources are those that answered
  (LeftOver), and the mean of any number of values lies between the least and the
  greatest (SumIsBetween, MeanIsBetween). Both are folds: FoldExists shows that
  the function a fold chooses exists on the subsets of a finite set, by taking a
  least set on which it would not (LeastSet: strict inclusion is well-founded),
  so no induction is needed. ReconciledIsNear then bounds the mean by each leg,
  and FarFromEachLeg the leg by the verdict.
* Series. Least and greatest elements of a set of any size exist since the
  naturals are well-founded (LeastNatural); LatestIs, OldestIs and
  ReturnIsMeasured use them for series of any length in any order.
* Consensus. The window that is kept has as many runs as any other
  (ClusterIsAWindow), so not fewer than a quorum that agrees
  (QuorumIsOutnumberedByNone: all of it lies in the window that ends at its
  greatest value). Two majorities meet, and the mean of a window is in it
  (MeanIsBetween), so it is within the tolerance of the run they share and
  within twice the tolerance of the rest, for any number of runs.
* Router. The three providers are gone through case by case (ModelsOfARouter,
  ModelReached).
* Share price and documents. OneOfTwoCalls: which nodes tell a price. ReadAsItIs:
  the powers of ten cancel unless the node leaves decimals open that are not what
  is put in their place (GuessedWrong). Extracted: which of the two readings an
  extraction is from.

What these theorems do not say: that a value is fresh whose series goes on without
such a value (`FreshValuesAreJudged` excepts it, as source-registry.ts:92 dates it
so), that a price is right whose decimals were guessed wrong, or that the figure
read in a document is its own when a separator cuts it off (document.ts:82) or a
model misreads it (document.ts:122). The code promises none of the three; section
4 says where a document does.

### Checked by TLC only

`DisputesEnd` and `EverythingEnds` are liveness under fairness, which the prover
cannot do, nor ENABLED. All other properties of the passing runs are theorems.
No induction over data is used: what the theorems say of folds over any number of
elements (the sums and means of Evidence, the totals of Money) comes from the
well-foundedness of strict inclusion or from counting. The properties of the three
runs that are expected to fail are refuted by TLC's counterexamples, and no theorem speaks of
them.

## 6. Not modelled, and why

* Later grants and revocations of roles by the admin: the composed `Next` gives
  each contract the callers the deployment grants, and nobody else.
* Discovery and the tables of assets (`discover.ts`, `featured-assets.ts`): a
  filter over one downloaded list and constants, and nothing there decides a
  claim. Of documents, the hash, the wording of the quote and the checks of the
  address.
* The event stream (replays fixtures) and the caches of the explorer and the
  pages: they decide nothing and write nothing but themselves. Two of them are
  worth knowing: `live-data.ts` keeps a read that failed in part for its thirty
  seconds, and `activity.ts` drops a chunk of logs it could not read and still
  answers that the list is not bounded.
* Tool gateway, plugboard, reference agents and MCP server: stateless adapters
  over fixtures, prompts and read-only calls.
* Web pages and components: rendering. They and the generators of demo data are
  most of the repository's lines.
* `DrizzleAttestationRepository.insert`, which nothing calls, and the mock mode
  of the streak with its marker file and the rendering of STREAK.md.
* The provenance graph and the wording of traces; times and durations, except
  voting windows, epochs and the age of evidence; hashes, which are taken to be
  different for different things.
