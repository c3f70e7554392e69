------------------------------- MODULE Runner -------------------------------
(***************************************************************************)
(* runClaim (apps/runner/src/runner.ts), HumanQueue (human-queue.ts) and   *)
(* startIndexer (apps/indexer/src/indexer.ts) around one claim, one event  *)
(* bus and one database. The runner and the queue announce on the bus what *)
(* an attestor decided, the indexer turns what it hears into rows. A step  *)
(* ends where the code awaits. Every await of the database may reject, up  *)
(* to MaxDbFailures times. AGENT_STEP and HUMAN_QUEUE_UPDATE events, hashes *)
(* and latencies are left out: nothing reads them back.                    *)
(***************************************************************************)
EXTENDS Integers, Sequences, FiniteSets

CONSTANTS
    REFERENCE_AGENTS,    \* the sequence of the agents
    HUMAN,               \* the wallet of the human attestor
    Runs,                \* the calls of runClaim
    Posts,               \* the calls of onClaim
    Verdicts,            \* what a fixture may make an attestor decide
    MaxCalls, MaxDbFailures

ASSUME RunnerAssumption ==
    /\ Len(REFERENCE_AGENTS) \in Nat
    /\ \A i \in 1..Len(REFERENCE_AGENTS) : REFERENCE_AGENTS[i] # HUMAN
    /\ Runs \subseteq Nat \ {0} /\ Posts \subseteq Nat \ {0}
    /\ IsFiniteSet(Runs) /\ IsFiniteSet(Posts)
    /\ Verdicts \subseteq {"VALID", "REJECTED", "ABSTAIN"}
    /\ MaxCalls \in Nat /\ MaxDbFailures \in Nat

Agents == {REFERENCE_AGENTS[i] : i \in 1..Len(REFERENCE_AGENTS)}
Attestors == Agents \cup {HUMAN}

\* A pass of runSingleAgent or of submitHumanAttestation: the call it belongs
\* to and the attestor. The indexer has one job for each, and one for the claim.
AgentRuns == Runs \X Agents
HumanRuns == Posts \X {HUMAN}
Attempts == AgentRuns \cup HumanRuns
ClaimPosted == <<0, "posted">>
Emissions == Attempts \cup {ClaimPosted}

Decision == Verdicts \cup {"ABSTAIN"}

VARIABLES
    script,      \* what the fixture of an attestor makes it decide, if there is one
    run,         \* calls of runClaim: new, claim, the index of an agent, started, rejected
    pc,          \* of an attempt
    loop,        \* the loop of an agent's attempt: off, running, over
    said,        \* the decisions an attempt announced with AGENT_DONE
    attested,    \* how often it emitted CONTRACT_ATTESTED
    armed,       \* the posts whose timer runs
    pendingTimers, pendingResolvers,  \* of the claim: a post or 0
    subscribed,  \* the indexer listens
    job,         \* what the indexer does about an emission
    claimRow, agentRows, attestationRows, errorRows,
    dbFailures

runnerVars == <<run, pc, loop, said, attested, script>>
queueVars == <<armed, pendingTimers, pendingResolvers>>
tables == <<claimRow, agentRows, attestationRows, errorRows>>
vars == <<runnerVars, queueVars, subscribed, job, tables, dbFailures>>

Init ==
    /\ script \in [Attestors -> Verdicts \cup {"missing"}]
    /\ run = [r \in Runs |-> "new"]
    /\ pc = [x \in Attempts |-> "off"] /\ loop = [x \in AgentRuns |-> "off"]
    /\ said = [x \in Attempts |-> <<>>] /\ attested = [x \in Attempts |-> 0]
    /\ armed = {} /\ pendingTimers = 0 /\ pendingResolvers = 0
    /\ subscribed = TRUE /\ job = [e \in Emissions |-> "none"]
    /\ claimRow = FALSE /\ agentRows = {} /\ attestationRows = {}
    /\ errorRows = {} /\ dbFailures = 0

-----------------------------------------------------------------------------
(* What the steps have in common *)

Go(x, place) == pc' = [pc EXCEPT ![x] = place]

Announce(x, decision) == said' = [said EXCEPT ![x] = Append(@, decision)]

\* MaxCalls bounds how often runClaim, onClaim and the watcher are called.
CallsLeft ==
    Cardinality({r \in Runs : run[r] # "new"})
      + Cardinality({x \in HumanRuns : pc[x] # "off"})
      + (IF job[ClaimPosted] = "none" THEN 0 ELSE 1) < MaxCalls

DbAnswers == UNCHANGED dbFailures

DbRejects == dbFailures < MaxDbFailures /\ dbFailures' = dbFailures + 1

\* The bus calls the handlers in the emission; the indexer's only starts a job.
Heard(e) == job' = [job EXCEPT ![e] = IF subscribed THEN "row" ELSE "unheard"]

\* AGENT_DONE and CONTRACT_ATTESTED of a submitted decision, in one turn.
EmitDecision(x) ==
    /\ Announce(x, script[x[2]])
    /\ attested' = [attested EXCEPT ![x] = @ + 1]
    /\ Heard(x)

\* The catch of both: a row that may fail, then AGENT_DONE with ABSTAIN.
FailedAttempt(x) ==
    /\ pc[x] = "failed"
    /\ \/ DbAnswers /\ errorRows' = errorRows \cup {x}
       \/ DbRejects /\ UNCHANGED errorRows
    /\ Announce(x, "ABSTAIN") /\ Go(x, "error")
    /\ UNCHANGED <<run, loop, attested, script, queueVars, subscribed, job,
                   claimRow, agentRows, attestationRows>>

-----------------------------------------------------------------------------
(* The runner *)

RunClaim(r) ==
    /\ CallsLeft /\ run[r] = "new" /\ run' = [run EXCEPT ![r] = "claim"]
    /\ UNCHANGED <<pc, loop, said, attested, script, queueVars, subscribed, job,
                   tables, dbFailures>>

\* An agent without a script fails before its loop, the others start it.
StartAgents(r) ==
    /\ pc' = [x \in Attempts |->
                IF x \in {r} \X Agents
                THEN IF script[x[2]] = "missing" THEN "failed" ELSE "loop"
                ELSE pc[x]]
    /\ loop' = [x \in AgentRuns |->
                IF x[1] = r /\ script[x[2]] # "missing" THEN "running" ELSE loop[x]]

\* A rejection of these inserts rejects runClaim: no agent runs.
InsertRunClaim(r) ==
    /\ run[r] = "claim"
    /\ \/ DbAnswers /\ claimRow' = TRUE /\ run' = [run EXCEPT ![r] = "agents"]
       \/ DbRejects /\ UNCHANGED claimRow /\ run' = [run EXCEPT ![r] = "rejected"]
    /\ UNCHANGED <<pc, loop, said, attested, script, queueVars, subscribed, job,
                   agentRows, attestationRows, errorRows>>

\* Fault: the agents start while their rows are being written.
InsertRunAgentsLater(r) ==
    /\ run[r] = "agents" /\ DbAnswers
    /\ StartAgents(r) /\ run' = [run EXCEPT ![r] = "started"]
    /\ UNCHANGED <<said, attested, script, queueVars, subscribed, job, tables>>

\* The inserts of the agents, one after the other, before any agent starts.
InsertRunAgents(r) ==
    /\ run[r] = "agents"
    /\ \/ /\ DbAnswers
          /\ agentRows' = agentRows \cup Agents
          /\ run' = [run EXCEPT ![r] = "started"]
          /\ StartAgents(r)
       \/ /\ DbRejects
          /\ \E n \in 0..Len(REFERENCE_AGENTS) - 1 :
               agentRows' = agentRows \cup {REFERENCE_AGENTS[i] : i \in 1..n}
          /\ run' = [run EXCEPT ![r] = "rejected"]
          /\ UNCHANGED <<pc, loop>>
    /\ UNCHANGED <<said, attested, script, queueVars, subscribed, job,
                   claimRow, attestationRows, errorRows>>

\* Fault: a trace is submitted whenever it comes.
LoopEndsWhenever(x) ==
    /\ loop[x] = "running" /\ loop' = [loop EXCEPT ![x] = "over"]
    /\ Go(x, "submit")
    /\ UNCHANGED <<run, said, attested, script, queueVars, subscribed, job,
                   tables, dbFailures>>

\* The loop resolves. After the timeout nobody listens to it.
LoopEnds(x) ==
    /\ loop[x] = "running" /\ loop' = [loop EXCEPT ![x] = "over"]
    /\ IF pc[x] = "loop" THEN Go(x, "submit") ELSE UNCHANGED pc
    /\ UNCHANGED <<run, said, attested, script, queueVars, subscribed, job,
                   tables, dbFailures>>

\* Fault: no timeout.
NeverTimesOut(x) == FALSE /\ UNCHANGED vars

\* withTimeout rejects; the loop goes on.
TimesOut(x) ==
    /\ pc[x] = "loop" /\ Go(x, "failed")
    /\ UNCHANGED <<run, loop, said, attested, script, queueVars, subscribed, job,
                   tables, dbFailures>>

\* buildAndSubmitAttestation resolves: blob, wallet and repository are mocks.
Submitted(x) ==
    /\ pc[x] = "submit" /\ Go(x, "success") /\ EmitDecision(x)
    /\ UNCHANGED <<run, loop, script, queueVars, subscribed, tables, dbFailures>>

-----------------------------------------------------------------------------
(* The queue of the human attestor *)

OnClaim(p) ==
    /\ CallsLeft /\ pc[<<p, HUMAN>>] = "off" /\ Go(<<p, HUMAN>>, "waiting")
    /\ armed' = armed \cup {p}
    /\ pendingTimers' = p /\ pendingResolvers' = p
    /\ UNCHANGED <<run, loop, said, attested, script, subscribed, job, tables,
                   dbFailures>>

\* A promise resolves once.
Elapse(p) ==
    IF pc[<<p, HUMAN>>] = "waiting" THEN Go(<<p, HUMAN>>, "agentRow")
                                    ELSE UNCHANGED pc

\* The timer leaves its entries in both maps.
TimerFires(p) ==
    /\ p \in armed /\ armed' = armed \ {p} /\ Elapse(p)
    /\ UNCHANGED <<run, loop, said, attested, script, pendingTimers,
                   pendingResolvers, subscribed, job, tables, dbFailures>>

\* The maps know the last post only: the timer of an earlier one runs on.
ForceElapse ==
    /\ pendingResolvers # 0 /\ Elapse(pendingResolvers)
    /\ armed' = armed \ {pendingTimers}
    /\ pendingTimers' = 0 /\ pendingResolvers' = 0
    /\ UNCHANGED <<run, loop, said, attested, script, subscribed, job, tables,
                   dbFailures>>

Destroy ==
    /\ armed' = armed \ {pendingTimers}
    /\ pendingTimers' = 0 /\ pendingResolvers' = 0
    /\ UNCHANGED <<runnerVars, subscribed, job, tables, dbFailures>>

\* submitHumanAttestation: the row of the human, unless there is no decision.
InsertHuman(x) ==
    /\ pc[x] = "agentRow"
    /\ \/ /\ script[HUMAN] # "missing" /\ DbAnswers
          /\ agentRows' = agentRows \cup {HUMAN} /\ Go(x, "claimRow")
       \/ /\ \/ script[HUMAN] = "missing" /\ DbAnswers
             \/ script[HUMAN] # "missing" /\ DbRejects
          /\ UNCHANGED agentRows /\ Go(x, "failed")
    /\ UNCHANGED <<run, loop, said, attested, script, queueVars, subscribed, job,
                   claimRow, attestationRows, errorRows>>

InsertHumanClaim(x) ==
    /\ pc[x] = "claimRow"
    /\ \/ DbAnswers /\ claimRow' = TRUE /\ Go(x, "submit")
       \/ DbRejects /\ UNCHANGED claimRow /\ Go(x, "failed")
    /\ UNCHANGED <<run, loop, said, attested, script, queueVars, subscribed, job,
                   agentRows, attestationRows, errorRows>>

-----------------------------------------------------------------------------
(* The indexer *)

\* CONTRACT_CLAIM_POSTED comes from a watcher of the chain.
PostClaim ==
    /\ CallsLeft /\ job[ClaimPosted] = "none" /\ Heard(ClaimPosted)
    /\ UNCHANGED <<runnerVars, queueVars, subscribed, tables, dbFailures>>

StopIndexer ==
    /\ subscribed /\ subscribed' = FALSE
    /\ UNCHANGED <<runnerVars, queueVars, job, tables, dbFailures>>

Job(e, state) == job' = [job EXCEPT ![e] = state]

\* Fault: the id of a row holds the attempt.
FreshAttestationId(x) == <<x, script[x[2]]>>

\* The hash of the calldata, which the claim, the attestor's wallet and its
\* script determine, and the log index of the attestor.
AttestationId(x) == <<x[2], script[x[2]]>>

Row(x) == [id |-> AttestationId(x), by |-> x[2], decision |-> script[x[2]]]

\* The foreign keys of the table.
Inserts(x) == claimRow /\ x[2] \in agentRows

\* An id that is taken changes nothing and is no error.
Upsert(x) ==
    attestationRows' = IF \E row \in attestationRows : row.id = AttestationId(x)
                       THEN attestationRows
                       ELSE attestationRows \cup {Row(x)}

IndexAttestation(x) ==
    /\ job[x] = "row"
    /\ \/ Inserts(x) /\ DbAnswers /\ Upsert(x) /\ Job(x, "event")
       \/ /\ IF Inserts(x) THEN DbRejects ELSE DbAnswers
          /\ UNCHANGED attestationRows /\ Job(x, "error")
    /\ UNCHANGED <<runnerVars, queueVars, subscribed, claimRow, agentRows,
                   errorRows>>

IndexClaim ==
    /\ job[ClaimPosted] = "row"
    /\ \/ DbAnswers /\ claimRow' = TRUE /\ Job(ClaimPosted, "event")
       \/ DbRejects /\ UNCHANGED claimRow /\ Job(ClaimPosted, "error")
    /\ UNCHANGED <<runnerVars, queueVars, subscribed, agentRows,
                   attestationRows, errorRows>>

\* The row of the feed; the id repeats with the emission and nothing reads it back.
IndexEvent(e) ==
    /\ job[e] = "event"
    /\ \/ DbAnswers /\ Job(e, "kept")
       \/ DbRejects /\ Job(e, "error")
    /\ UNCHANGED <<runnerVars, queueVars, subscribed, tables>>

\* writeError is the last resort: when it fails too, nothing is left.
WriteError(e) ==
    /\ job[e] = "error"
    /\ \/ DbAnswers /\ errorRows' = errorRows \cup {e} /\ Job(e, "logged")
       \/ DbRejects /\ UNCHANGED errorRows /\ Job(e, "lost")
    /\ UNCHANGED <<runnerVars, queueVars, subscribed, claimRow, agentRows,
                   attestationRows>>

-----------------------------------------------------------------------------

RunnerStep(r) == InsertRunClaim(r) \/ InsertRunAgents(r)
AttemptStep(x) ==
    FailedAttempt(x) \/ Submitted(x) \/ (x \in HumanRuns /\ (InsertHuman(x) \/ InsertHumanClaim(x)))
IndexerStep(e) ==
    \/ IndexEvent(e) \/ WriteError(e)
    \/ IF e = ClaimPosted THEN IndexClaim ELSE IndexAttestation(e)

Next ==
    \/ \E r \in Runs : RunClaim(r) \/ RunnerStep(r)
    \/ \E x \in AgentRuns : LoopEnds(x) \/ TimesOut(x)
    \/ \E x \in Attempts : AttemptStep(x)
    \/ \E p \in Posts : OnClaim(p) \/ TimerFires(p)
    \/ ForceElapse \/ Destroy
    \/ PostClaim \/ StopIndexer
    \/ \E e \in Emissions : IndexerStep(e)

\* An await of the database ends, and so do a timer and a mock. A model need not
\* answer, and nobody has to call anything.
Fairness ==
    /\ \A r \in Runs : WF_vars(RunnerStep(r))
    /\ \A x \in AgentRuns : WF_vars(TimesOut(x))
    /\ \A x \in Attempts : WF_vars(AttemptStep(x))
    /\ \A p \in Posts : WF_vars(TimerFires(p))
    /\ \A e \in Emissions : WF_vars(IndexerStep(e))

Spec == Init /\ [][Next]_vars
FairSpec == Spec /\ Fairness

-----------------------------------------------------------------------------
(* Properties *)

TypeOK ==
    /\ script \in [Attestors -> Verdicts \cup {"missing"}]
    /\ run \in [Runs -> {"new", "claim", "agents", "started", "rejected"}]
    /\ pc \in [Attempts -> {"off", "loop", "waiting", "agentRow", "claimRow",
                            "submit", "failed", "success", "error"}]
    /\ loop \in [AgentRuns -> {"off", "running", "over"}]
    /\ said \in [Attempts -> Seq(Decision)] /\ attested \in [Attempts -> Nat]
    /\ armed \subseteq Posts
    /\ pendingTimers \in Posts \cup {0} /\ pendingResolvers \in Posts \cup {0}
    /\ subscribed \in BOOLEAN /\ claimRow \in BOOLEAN
    /\ job \in [Emissions -> {"none", "unheard", "row", "event", "error",
                              "kept", "logged", "lost"}]
    /\ agentRows \subseteq Attestors
    /\ attestationRows \subseteq
         [id : Attestors \X Decision, by : Attestors, decision : Decision]
    /\ errorRows \subseteq Emissions
    /\ dbFailures \in 0..MaxDbFailures

\* Whatever the loop, the timers and forceElapse do in whichever order, an attempt
\* announces one decision: its own, with one attestation, when it succeeds, and an
\* ABSTAIN without any when it fails or was too late.
OneAnswer ==
    \A x \in Attempts :
        CASE pc[x] = "success" -> said[x] = <<script[x[2]]>> /\ attested[x] = 1
          [] pc[x] = "error"   -> said[x] = <<"ABSTAIN">> /\ attested[x] = 0
          [] OTHER             -> said[x] = <<>> /\ attested[x] = 0

\* A claim that runs or is queued again adds no second row for an attestor, and
\* a row says what an attempt of that attestor announced.
OneRowPerAttestor ==
    /\ \A row1, row2 \in attestationRows : row1.by = row2.by => row1 = row2
    /\ \A row \in attestationRows : \E x \in Attempts :
          /\ x[2] = row.by /\ attested[x] > 0
          /\ said[x] = <<row.decision>>

\* The handlers of the indexer run unawaited, yet only a rejecting database makes
\* one fail: the rows an attestation refers to are there before it is announced.
\* An emission the indexer heard is lost only if its error row was refused too,
\* and an attempt fails without an error row only if that row was refused.
OnlyTheDatabaseFails ==
    Cardinality({e \in Emissions : job[e] \in {"error", "logged", "lost"}})
      + Cardinality({e \in Emissions : job[e] = "lost"})
      + Cardinality({x \in Attempts : pc[x] = "error"} \ errorRows) <= dbFailures

\* A run that starts its agents is answered by each of them, though a model may
\* never answer; a post is answered by the human unless Destroy stops its timer;
\* and whatever the indexer heard ends as a row, an error row or a loss.
EverythingEnds ==
    /\ \A r \in Runs : run[r] = "claim" ~>
         \/ run[r] = "rejected"
         \/ \A a \in Agents : pc[<<r, a>>] \in {"success", "error"}
    /\ \A p \in Posts : p \in armed ~>
         \/ pc[<<p, HUMAN>>] \in {"success", "error"}
         \/ pc[<<p, HUMAN>>] = "waiting" /\ p \notin armed
    /\ \A e \in Emissions : job[e] = "row" ~> job[e] \in {"kept", "logged", "lost"}

=============================================================================
