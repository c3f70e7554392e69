---------------------------- MODULE RunnerProofs ----------------------------
(***************************************************************************)
(* Theorems about the runner, the human queue and the indexer, for any     *)
(* agents, fixtures, runs, posts and bounds. RunnerInv is inductive: it    *)
(* adds to the properties where an attempt is as long as its run has not   *)
(* started, and that only a successful attempt is heard of.                *)
(***************************************************************************)
EXTENDS Runner, FiniteSetTheorems, TLAPS

\* An attempt that got past its fixture has one.
Scripted ==
    \A x \in Attempts :
        pc[x] \in {"loop", "claimRow", "submit", "success"} => script[x[2]] # "missing"

\* The agents of a run are off until it starts them.
StartedByTheirRun ==
    \A r \in Runs, a \in Agents : run[r] # "started" => pc[<<r, a>>] = "off"

\* The indexer hears of a success only, and after it.
HeardIsSaid == \A x \in Attempts : job[x] # "none" => pc[x] = "success"

\* A row was made for a successful attempt.
RowsAreOfSuccesses ==
    \A row \in attestationRows : \E x \in Attempts : pc[x] = "success" /\ row = Row(x)

RunnerInv ==
    TypeOK /\ OneAnswer /\ Scripted /\ StartedByTheirRun /\ HeardIsSaid
      /\ RowsAreOfSuccesses

-----------------------------------------------------------------------------
(* Names *)

LEMMA AttemptsAreTold ==
    /\ \A r \in Runs, a \in Agents : <<r, a>> \in AgentRuns /\ <<r, a>> \in Attempts
    /\ \A p \in Posts : <<p, HUMAN>> \in HumanRuns /\ <<p, HUMAN>> \in Attempts
    /\ \A x \in AgentRuns : x = <<x[1], x[2]>> /\ x[1] \in Runs /\ x[2] \in Agents
    /\ \A x \in HumanRuns : x = <<x[1], x[2]>> /\ x[1] \in Posts /\ x[2] = HUMAN
    /\ AgentRuns \cap HumanRuns = {} /\ HUMAN \notin Agents
    /\ ClaimPosted \notin Attempts
    /\ Emissions = Attempts \cup {ClaimPosted}
    /\ \A x \in Attempts : x[2] \in Attestors
<1>1. HUMAN \notin Agents
  BY RunnerAssumption DEF Agents
<1>2. 0 \notin Runs /\ 0 \notin Posts
  BY RunnerAssumption
<1> QED
  BY <1>1, <1>2 DEF AgentRuns, HumanRuns, Attempts, ClaimPosted, Emissions, Attestors

-----------------------------------------------------------------------------
(* What the steps have in common *)

Places == {"off", "loop", "waiting", "agentRow", "claimRow", "submit", "failed",
           "success", "error"}

LEMMA DatabaseStep ==
    ASSUME TypeOK
    PROVE  /\ DbAnswers => dbFailures' \in 0..MaxDbFailures
           /\ DbRejects => dbFailures' \in 0..MaxDbFailures
<1>1. dbFailures \in 0..MaxDbFailures
  BY DEF TypeOK
<1> QED
  BY <1>1, RunnerAssumption DEF DbAnswers, DbRejects

\* Before an attempt has ended it has announced nothing.
LEMMA Announcement ==
    ASSUME RunnerInv, NEW x \in Attempts, pc[x] \notin {"success", "error"},
           NEW d \in Decision, Announce(x, d)
    PROVE  /\ said' \in [Attempts -> Seq(Decision)]
           /\ said' = [said EXCEPT ![x] = <<d>>]
<1>1. said \in [Attempts -> Seq(Decision)]
  BY DEF RunnerInv, TypeOK
<1>2. said[x] = <<>>
  BY DEF RunnerInv, OneAnswer
<1>3. Append(<<>>, d) = <<d>> /\ <<d>> \in Seq(Decision)
  OBVIOUS
<1> QED
  BY <1>1, <1>2, <1>3 DEF Announce

LEMMA Moves ==
    ASSUME TypeOK, NEW x \in Attempts, NEW place \in Places, Go(x, place)
    PROVE  /\ pc' \in [Attempts -> Places]
           /\ pc'[x] = place
           /\ \A y \in Attempts : y # x => pc'[y] = pc[y]
<1>1. pc \in [Attempts -> Places]
  BY DEF TypeOK, Places
<1> QED
  BY <1>1 DEF Go

\* The answer of the queue moves a post that waits and nothing else.
LEMMA Elapsed ==
    ASSUME TypeOK, NEW p \in Posts, Elapse(p)
    PROVE  /\ pc' \in [Attempts -> Places]
           /\ \A y \in Attempts :
                 pc'[y] = pc[y] \/ (pc[y] = "waiting" /\ pc'[y] = "agentRow")
<1>1. <<p, HUMAN>> \in Attempts
  BY AttemptsAreTold
<1>2. CASE pc[<<p, HUMAN>>] = "waiting"
  <2>1. Go(<<p, HUMAN>>, "agentRow") /\ "agentRow" \in Places
    BY <1>2 DEF Elapse, Places
  <2>2. /\ pc' \in [Attempts -> Places] /\ pc'[<<p, HUMAN>>] = "agentRow"
        /\ \A y \in Attempts : y # <<p, HUMAN>> => pc'[y] = pc[y]
    BY <1>1, <2>1, Moves
  <2> QED
    BY <1>2, <2>2
<1>3. CASE pc[<<p, HUMAN>>] # "waiting"
  <2>1. pc \in [Attempts -> Places] /\ pc' = pc
    BY <1>3 DEF Elapse, TypeOK, Places
  <2> QED
    BY <2>1
<1> QED
  BY <1>2, <1>3

\* A handler starts a job or, unsubscribed, none.
LEMMA Hearing ==
    ASSUME TypeOK, NEW e \in Emissions, Heard(e)
    PROVE  /\ \A f \in Emissions : f # e => job'[f] = job[f]
           /\ job' \in [Emissions -> {"none", "unheard", "row", "event", "error",
                                      "kept", "logged", "lost"}]
<1>1. job \in [Emissions -> {"none", "unheard", "row", "event", "error", "kept",
                            "logged", "lost"}]
  BY DEF TypeOK
<1> QED
  BY <1>1 DEF Heard

-----------------------------------------------------------------------------
(* Types *)

\* A move of one attempt that leaves the rows of attestations alone.
LEMMA MoveKeepsType ==
    ASSUME TypeOK, pc' \in [Attempts -> Places],
           run' \in [Runs -> {"new", "claim", "agents", "started", "rejected"}],
           loop' \in [AgentRuns -> {"off", "running", "over"}],
           said' \in [Attempts -> Seq(Decision)], attested' \in [Attempts -> Nat],
           job' \in [Emissions -> {"none", "unheard", "row", "event", "error",
                                   "kept", "logged", "lost"}],
           agentRows' \subseteq Attestors, claimRow' \in BOOLEAN,
           errorRows' \subseteq Emissions, dbFailures' \in 0..MaxDbFailures,
           UNCHANGED <<script, queueVars, subscribed, attestationRows>>
    PROVE  TypeOK'
BY DEF TypeOK, Places, queueVars

LEMMA TypeStep == ASSUME RunnerInv, [Next]_vars PROVE TypeOK'
<1> DEFINE Jobs == {"none", "unheard", "row", "event", "error", "kept", "logged", "lost"}
<1>0. /\ TypeOK
      /\ script \in [Attestors -> Verdicts \cup {"missing"}]
      /\ run \in [Runs -> {"new", "claim", "agents", "started", "rejected"}]
      /\ pc \in [Attempts -> Places]
      /\ loop \in [AgentRuns -> {"off", "running", "over"}]
      /\ said \in [Attempts -> Seq(Decision)] /\ attested \in [Attempts -> Nat]
      /\ job \in [Emissions -> Jobs]
      /\ agentRows \subseteq Attestors /\ claimRow \in BOOLEAN
      /\ errorRows \subseteq Emissions /\ dbFailures \in 0..MaxDbFailures
  BY DEF RunnerInv, TypeOK, Places
<1>a. AgentRuns \subseteq Attempts /\ HumanRuns \subseteq Attempts /\ Attempts \subseteq Emissions
  BY DEF Attempts, Emissions
<1>1. ASSUME NEW r \in Runs, RunClaim(r) PROVE TypeOK'
  BY <1>0, <1>1, MoveKeepsType DEF RunClaim, tables
<1>2. ASSUME NEW r \in Runs, InsertRunClaim(r) PROVE TypeOK'
  BY <1>0, <1>2, MoveKeepsType, DatabaseStep DEF InsertRunClaim
<1>3. ASSUME NEW r \in Runs, InsertRunAgents(r) PROVE TypeOK'
  <2>1. Agents \subseteq Attestors
    BY DEF Attestors
  <2>2. \A n \in 0..Len(REFERENCE_AGENTS) - 1 :
          {REFERENCE_AGENTS[i] : i \in 1..n} \subseteq Agents
    BY RunnerAssumption DEF Agents
  <2>3. agentRows' \subseteq Attestors
    BY <1>0, <1>3, <2>1, <2>2 DEF InsertRunAgents
  <2>4. pc' \in [Attempts -> Places] /\ loop' \in [AgentRuns -> {"off", "running", "over"}]
    <3>1. CASE UNCHANGED <<pc, loop>>
      BY <1>0, <3>1
    <3>2. CASE StartAgents(r)
      <4>1. "failed" \in Places /\ "loop" \in Places
        BY DEF Places
      <4> QED
        BY <1>0, <3>2, <4>1 DEF StartAgents
    <3> QED
      BY <1>3, <3>1, <3>2 DEF InsertRunAgents
  <2>5. run' \in [Runs -> {"new", "claim", "agents", "started", "rejected"}]
    BY <1>0, <1>3 DEF InsertRunAgents
  <2>6. dbFailures' \in 0..MaxDbFailures
    BY <1>0, <1>3, DatabaseStep DEF InsertRunAgents
  <2> QED
    BY <1>0, <1>3, <2>3, <2>4, <2>5, <2>6, MoveKeepsType DEF InsertRunAgents
<1>4. ASSUME NEW x \in AgentRuns, LoopEnds(x) PROVE TypeOK'
  <2>1. pc' \in [Attempts -> Places]
    BY <1>0, <1>a, <1>4, Moves DEF LoopEnds, Places
  <2>2. loop' \in [AgentRuns -> {"off", "running", "over"}]
    BY <1>0, <1>4 DEF LoopEnds
  <2> QED
    BY <1>0, <1>4, <2>1, <2>2, MoveKeepsType DEF LoopEnds, tables
<1>5. ASSUME NEW x \in AgentRuns, TimesOut(x) PROVE TypeOK'
  <2>1. pc' \in [Attempts -> Places]
    BY <1>0, <1>a, <1>5, Moves DEF TimesOut, Places
  <2> QED
    BY <1>0, <1>5, <2>1, MoveKeepsType DEF TimesOut, tables
<1>6. ASSUME NEW x \in Attempts, FailedAttempt(x) PROVE TypeOK'
  <2>1. pc' \in [Attempts -> Places]
    BY <1>0, <1>6, Moves DEF FailedAttempt, Places
  <2>2. said' \in [Attempts -> Seq(Decision)]
    BY <1>6, Announcement DEF FailedAttempt, Decision
  <2>3. errorRows' \subseteq Emissions /\ dbFailures' \in 0..MaxDbFailures
    BY <1>0, <1>a, <1>6, DatabaseStep DEF FailedAttempt
  <2> QED
    BY <1>0, <1>6, <2>1, <2>2, <2>3, MoveKeepsType DEF FailedAttempt
<1>7. ASSUME NEW x \in Attempts, Submitted(x) PROVE TypeOK'
  <2>1. pc' \in [Attempts -> Places]
    BY <1>0, <1>7, Moves DEF Submitted, Places
  <2>2. x[2] \in Attestors /\ script[x[2]] # "missing"
    BY <1>7, AttemptsAreTold DEF RunnerInv, Scripted, Submitted
  <2>3. script[x[2]] \in Decision
    BY <1>0, <2>2 DEF Decision
  <2>4. said' \in [Attempts -> Seq(Decision)]
    BY <1>7, <2>3, Announcement DEF Submitted, EmitDecision
  <2>5. attested' \in [Attempts -> Nat]
    BY <1>0, <1>7 DEF Submitted, EmitDecision
  <2>6. job' \in [Emissions -> Jobs]
    BY <1>0, <1>a, <1>7, Hearing DEF Submitted, EmitDecision
  <2> QED
    BY <1>0, <1>7, <2>1, <2>4, <2>5, <2>6, MoveKeepsType DEF Submitted, tables
<1>8. ASSUME NEW x \in HumanRuns, InsertHuman(x) PROVE TypeOK'
  <2>1. pc' \in [Attempts -> Places]
    BY <1>0, <1>a, <1>8, Moves DEF InsertHuman, Places
  <2>2. agentRows' \subseteq Attestors
    BY <1>0, <1>8 DEF InsertHuman, Attestors
  <2>3. dbFailures' \in 0..MaxDbFailures
    BY <1>0, <1>8, DatabaseStep DEF InsertHuman
  <2> QED
    BY <1>0, <1>8, <2>1, <2>2, <2>3, MoveKeepsType DEF InsertHuman
<1>9. ASSUME NEW x \in HumanRuns, InsertHumanClaim(x) PROVE TypeOK'
  <2>1. pc' \in [Attempts -> Places]
    BY <1>0, <1>a, <1>9, Moves DEF InsertHumanClaim, Places
  <2>2. claimRow' \in BOOLEAN /\ dbFailures' \in 0..MaxDbFailures
    BY <1>0, <1>9, DatabaseStep DEF InsertHumanClaim
  <2> QED
    BY <1>0, <1>9, <2>1, <2>2, MoveKeepsType DEF InsertHumanClaim
<1>10. ASSUME NEW p \in Posts, OnClaim(p) PROVE TypeOK'
  BY <1>0, <1>10, AttemptsAreTold DEF OnClaim, Go, TypeOK, tables
<1>11. ASSUME NEW p \in Posts, TimerFires(p) PROVE TypeOK'
  <2>1. pc' \in [Attempts -> Places] /\ armed' \subseteq Posts
    BY <1>0, <1>11, Elapsed DEF TimerFires, TypeOK
  <2> QED
    BY <1>0, <1>11, <2>1 DEF TimerFires, TypeOK, Places, tables
<1>12. ASSUME ForceElapse PROVE TypeOK'
  <2>1. pendingResolvers \in Posts
    BY <1>0, <1>12 DEF ForceElapse, TypeOK
  <2>2. pc' \in [Attempts -> Places] /\ armed' \subseteq Posts
    BY <1>0, <1>12, <2>1, Elapsed DEF ForceElapse, TypeOK
  <2> QED
    BY <1>0, <1>12, <2>2 DEF ForceElapse, TypeOK, Places, tables
<1>13. ASSUME Destroy PROVE TypeOK'
  BY <1>0, <1>13 DEF Destroy, TypeOK, runnerVars, tables
<1>14. ASSUME PostClaim PROVE TypeOK'
  <2>1. job' \in [Emissions -> Jobs]
    BY <1>0, <1>14, Hearing DEF PostClaim, Emissions
  <2> QED
    BY <1>0, <1>14, <2>1, MoveKeepsType DEF PostClaim, runnerVars, tables
<1>15. ASSUME StopIndexer PROVE TypeOK'
  BY <1>0, <1>15 DEF StopIndexer, TypeOK, runnerVars, queueVars, tables
<1>16. ASSUME NEW x \in Attempts, IndexAttestation(x) PROVE TypeOK'
  <2>1. job' \in [Emissions -> Jobs]
    BY <1>0, <1>16 DEF IndexAttestation, Job
  <2>2. dbFailures' \in 0..MaxDbFailures
    BY <1>0, <1>16, DatabaseStep DEF IndexAttestation
  <2>3. x[2] \in Attestors /\ script[x[2]] \in Decision
    <3>1. x[2] \in Attestors
      BY AttemptsAreTold
    <3>2. script[x[2]] # "missing"
      BY <1>16 DEF RunnerInv, HeardIsSaid, Scripted, IndexAttestation
    <3> QED
      BY <1>0, <3>1, <3>2 DEF Decision
  <2>4. Row(x) \in [id : Attestors \X Decision, by : Attestors, decision : Decision]
    BY <2>3 DEF Row, AttestationId
  <2>5. attestationRows' \subseteq
          [id : Attestors \X Decision, by : Attestors, decision : Decision]
    <3>1. attestationRows \subseteq
            [id : Attestors \X Decision, by : Attestors, decision : Decision]
      BY <1>0 DEF TypeOK
    <3>2. attestationRows' \in {attestationRows, attestationRows \cup {Row(x)}}
      BY <1>16 DEF IndexAttestation, Upsert
    <3> QED
      BY <2>4, <3>1, <3>2
  <2> QED
    BY <1>0, <1>16, <2>1, <2>2, <2>5 DEF IndexAttestation, TypeOK, runnerVars, queueVars
<1>17. ASSUME IndexClaim PROVE TypeOK'
  <2>1. job' \in [Emissions -> Jobs] /\ claimRow' \in BOOLEAN
    BY <1>0, <1>17 DEF IndexClaim, Job
  <2>2. dbFailures' \in 0..MaxDbFailures
    BY <1>0, <1>17, DatabaseStep DEF IndexClaim
  <2> QED
    BY <1>0, <1>17, <2>1, <2>2, MoveKeepsType DEF IndexClaim, runnerVars
<1>18. ASSUME NEW e \in Emissions, IndexEvent(e) PROVE TypeOK'
  <2>1. job' \in [Emissions -> Jobs]
    BY <1>0, <1>18 DEF IndexEvent, Job
  <2>2. dbFailures' \in 0..MaxDbFailures
    BY <1>0, <1>18, DatabaseStep DEF IndexEvent
  <2> QED
    BY <1>0, <1>18, <2>1, <2>2, MoveKeepsType DEF IndexEvent, runnerVars, tables
<1>19. ASSUME NEW e \in Emissions, WriteError(e) PROVE TypeOK'
  <2>1. job' \in [Emissions -> Jobs] /\ errorRows' \subseteq Emissions
    BY <1>0, <1>19 DEF WriteError, Job
  <2>2. dbFailures' \in 0..MaxDbFailures
    BY <1>0, <1>19, DatabaseStep DEF WriteError
  <2> QED
    BY <1>0, <1>19, <2>1, <2>2, MoveKeepsType DEF WriteError, runnerVars
<1>20. ASSUME UNCHANGED vars PROVE TypeOK'
  BY <1>0, <1>20 DEF vars, TypeOK, runnerVars, queueVars, tables
<1>21. \A e \in Emissions : e = ClaimPosted \/ e \in Attempts
  BY DEF Emissions
<1> QED
  BY <1>a, <1>1, <1>2, <1>3, <1>4, <1>5, <1>6, <1>7, <1>8, <1>9, <1>10, <1>11, <1>12,
     <1>13, <1>14, <1>15, <1>16, <1>17, <1>18, <1>19, <1>20, <1>21
     DEF Next, RunnerStep, AttemptStep, IndexerStep

-----------------------------------------------------------------------------
(* Answers *)

Ended == {"success", "error"}
PastFixture == {"loop", "claimRow", "submit", "success"}

Answers == OneAnswer /\ Scripted /\ StartedByTheirRun /\ HeardIsSaid /\ RowsAreOfSuccesses

\* An attempt that is as far from its end as before, or has ended already.
LEMMA MoveKeepsAnswers ==
    ASSUME RunnerInv, UNCHANGED <<script, said, attested, attestationRows>>,
           \A y \in Attempts :
              /\ pc'[y] = pc[y] \/ (pc[y] \notin Ended /\ pc'[y] \notin Ended)
              /\ pc'[y] \in PastFixture => pc[y] \in PastFixture \/ script[y[2]] # "missing"
              /\ job'[y] # "none" => job[y] # "none",
           \A r \in Runs, a \in Agents : run'[r] # "started" =>
              /\ run[r] # "started"
              /\ pc[<<r, a>>] = "off" => pc'[<<r, a>>] = "off"
    PROVE  Answers'
<1>1. OneAnswer /\ Scripted /\ StartedByTheirRun /\ HeardIsSaid /\ RowsAreOfSuccesses
  BY DEF RunnerInv
<1>2. \A y \in Attempts : pc[y] \in Ended => pc'[y] = pc[y]
  OBVIOUS
<1>3. OneAnswer'
  <2> SUFFICES ASSUME NEW x \in Attempts
               PROVE  (CASE pc[x] = "success" -> said[x] = <<script[x[2]]>> /\ attested[x] = 1
                         [] pc[x] = "error"   -> said[x] = <<"ABSTAIN">> /\ attested[x] = 0
                         [] OTHER             -> said[x] = <<>> /\ attested[x] = 0)'
    BY DEF OneAnswer
  <2>1. CASE pc'[x] = pc[x]
    BY <1>1, <2>1 DEF OneAnswer
  <2>2. CASE pc[x] \notin Ended /\ pc'[x] \notin Ended
    BY <1>1, <2>2 DEF OneAnswer, Ended
  <2> QED
    BY <2>1, <2>2
<1>4. Scripted'
  BY <1>1 DEF Scripted, PastFixture
<1>5. StartedByTheirRun'
  BY <1>1 DEF StartedByTheirRun
<1>6. HeardIsSaid'
  BY <1>1, <1>2 DEF HeardIsSaid, Ended
<1>7. RowsAreOfSuccesses'
  BY <1>1, <1>2 DEF RowsAreOfSuccesses, Row, AttestationId, Ended
<1> QED
  BY <1>3, <1>4, <1>5, <1>6, <1>7 DEF Answers

\* An attempt ends: x announces d, and nobody else moves.
LEMMA EndKeepsAnswers ==
    ASSUME RunnerInv, NEW x \in Attempts, pc[x] \in {"failed", "submit"},
           NEW place \in Ended, Go(x, place), NEW d \in Decision, Announce(x, d),
           UNCHANGED <<run, script, attestationRows>>,
           place = "success" => /\ d = script[x[2]] /\ script[x[2]] # "missing"
                                /\ attested' = [attested EXCEPT ![x] = @ + 1],
           place = "error" => d = "ABSTAIN" /\ UNCHANGED attested,
           \A y \in Attempts :
              job'[y] # "none" => job[y] # "none" \/ (y = x /\ place = "success")
    PROVE  Answers'
<1>1. TypeOK /\ OneAnswer /\ Scripted /\ StartedByTheirRun /\ HeardIsSaid /\ RowsAreOfSuccesses
  BY DEF RunnerInv
<1>2. place \in Places
  BY DEF Ended, Places
<1>3. pc'[x] = place /\ \A y \in Attempts : y # x => pc'[y] = pc[y]
  BY <1>1, <1>2, Moves
<1>4. said'[x] = <<d>> /\ \A y \in Attempts : y # x => said'[y] = said[y]
  <2>1. said \in [Attempts -> Seq(Decision)] /\ said' = [said EXCEPT ![x] = <<d>>]
    BY <1>1, Announcement DEF TypeOK
  <2> QED
    BY <2>1
<1>5. attested \in [Attempts -> Nat] /\ attested[x] = 0
  BY <1>1 DEF TypeOK, OneAnswer
<1>6. \A y \in Attempts : y # x => attested'[y] = attested[y]
  BY <1>5 DEF Ended
<1>7. OneAnswer'
  <2> SUFFICES ASSUME NEW y \in Attempts
               PROVE  (CASE pc[y] = "success" -> said[y] = <<script[y[2]]>> /\ attested[y] = 1
                         [] pc[y] = "error"   -> said[y] = <<"ABSTAIN">> /\ attested[y] = 0
                         [] OTHER             -> said[y] = <<>> /\ attested[y] = 0)'
    BY DEF OneAnswer
  <2>1. CASE y # x
    BY <1>1, <1>3, <1>4, <1>6, <2>1 DEF OneAnswer
  <2>2. CASE y = x
    BY <1>3, <1>4, <1>5, <2>2 DEF Ended
  <2> QED
    BY <2>1, <2>2
<1>8. Scripted'
  BY <1>1, <1>3 DEF Scripted, Ended
<1>9. StartedByTheirRun'
  BY <1>1, <1>3, AttemptsAreTold DEF StartedByTheirRun
<1>10. HeardIsSaid'
  BY <1>1, <1>3 DEF HeardIsSaid
<1>11. RowsAreOfSuccesses'
  BY <1>1, <1>3 DEF RowsAreOfSuccesses, Row, AttestationId
<1> QED
  BY <1>7, <1>8, <1>9, <1>10, <1>11 DEF Answers

\* A step that leaves the attempts alone and starts no job of theirs.
LEMMA ElsewhereKeepsAnswers ==
    ASSUME RunnerInv, UNCHANGED <<script, said, attested, attestationRows, pc>>,
           \A y \in Attempts : job'[y] # "none" => job[y] # "none",
           \A r \in Runs : run'[r] # "started" => run[r] # "started"
    PROVE  Answers'
BY MoveKeepsAnswers

LEMMA AnswersStep == ASSUME RunnerInv, [Next]_vars PROVE Answers'
<1>0. TypeOK /\ run \in [Runs -> {"new", "claim", "agents", "started", "rejected"}]
  BY DEF RunnerInv, TypeOK
<1>a. AgentRuns \subseteq Attempts /\ HumanRuns \subseteq Attempts /\ Attempts \subseteq Emissions
  BY DEF Attempts, Emissions
<1>b. job \in [Emissions -> {"none", "unheard", "row", "event", "error", "kept",
                             "logged", "lost"}]
  BY <1>0 DEF TypeOK
<1>1. ASSUME NEW r \in Runs, RunClaim(r) PROVE Answers'
  BY <1>0, <1>1, ElsewhereKeepsAnswers DEF RunClaim, tables
<1>2. ASSUME NEW r \in Runs, InsertRunClaim(r) PROVE Answers'
  BY <1>0, <1>2, ElsewhereKeepsAnswers DEF InsertRunClaim
<1>3. ASSUME NEW r \in Runs, InsertRunAgents(r) PROVE Answers'
  <2>1. CASE UNCHANGED pc /\ run' = [run EXCEPT ![r] = "rejected"]
    BY <1>0, <1>3, <2>1, ElsewhereKeepsAnswers DEF InsertRunAgents
  <2>2. CASE StartAgents(r) /\ run' = [run EXCEPT ![r] = "started"]
    <3>1. \A y \in Attempts : pc'[y] = pc[y]
             \/ /\ y \in {r} \X Agents /\ pc[y] = "off"
                /\ pc'[y] = IF script[y[2]] = "missing" THEN "failed" ELSE "loop"
      <4>1. \A y \in {r} \X Agents : pc[y] = "off"
        BY <1>0, <1>3 DEF RunnerInv, StartedByTheirRun, InsertRunAgents
      <4> QED
        BY <2>2, <4>1 DEF StartAgents
    <3>2. \A y \in Attempts :
             /\ pc'[y] = pc[y] \/ (pc[y] \notin Ended /\ pc'[y] \notin Ended)
             /\ pc'[y] \in PastFixture => pc[y] \in PastFixture \/ script[y[2]] # "missing"
      BY <3>1 DEF Ended, PastFixture
    <3>3. \A s \in Runs, a \in Agents : run'[s] # "started" =>
             /\ run[s] # "started"
             /\ pc[<<s, a>>] = "off" => pc'[<<s, a>>] = "off"
      BY <1>0, <2>2, <3>1, AttemptsAreTold
    <3> QED
      BY <1>3, <3>2, <3>3, MoveKeepsAnswers DEF InsertRunAgents
  <2> QED
    BY <1>3, <2>1, <2>2 DEF InsertRunAgents
<1>4. ASSUME NEW x \in AgentRuns, LoopEnds(x) PROVE Answers'
  <2>1. CASE pc[x] = "loop"
    <3>1. pc'[x] = "submit" /\ \A y \in Attempts : y # x => pc'[y] = pc[y]
      BY <1>0, <1>a, <1>4, <2>1, Moves DEF LoopEnds, Places
    <3> QED
      BY <1>4, <2>1, <3>1, AttemptsAreTold, MoveKeepsAnswers
         DEF LoopEnds, Ended, PastFixture, tables
  <2>2. CASE pc[x] # "loop"
    BY <1>4, <2>2, ElsewhereKeepsAnswers DEF LoopEnds, tables
  <2> QED
    BY <2>1, <2>2
<1>5. ASSUME NEW x \in AgentRuns, TimesOut(x) PROVE Answers'
  <2>1. pc'[x] = "failed" /\ \A y \in Attempts : y # x => pc'[y] = pc[y]
    BY <1>0, <1>a, <1>5, Moves DEF TimesOut, Places
  <2> QED
    BY <1>5, <2>1, AttemptsAreTold, MoveKeepsAnswers
       DEF TimesOut, Ended, PastFixture, tables
<1>6. ASSUME NEW x \in Attempts, FailedAttempt(x) PROVE Answers'
  BY <1>6, EndKeepsAnswers DEF FailedAttempt, Ended, Decision
<1>7. ASSUME NEW x \in Attempts, Submitted(x) PROVE Answers'
  <2>1. script[x[2]] # "missing" /\ script[x[2]] \in Decision
    <3>1. script \in [Attestors -> Verdicts \cup {"missing"}] /\ x[2] \in Attestors
      BY <1>0, AttemptsAreTold DEF TypeOK
    <3>2. script[x[2]] # "missing"
      BY <1>7 DEF RunnerInv, Scripted, Submitted
    <3> QED
      BY <3>1, <3>2 DEF Decision
  <2>2. \A y \in Attempts : job'[y] # "none" => job[y] # "none" \/ y = x
    BY <1>a, <1>b, <1>7 DEF Submitted, EmitDecision, Heard
  <2> QED
    BY <1>7, <2>1, <2>2, EndKeepsAnswers DEF Submitted, EmitDecision, Ended, tables
<1>8. ASSUME NEW x \in HumanRuns, InsertHuman(x) PROVE Answers'
  <2>1. \E place \in {"claimRow", "failed"} :
           /\ pc'[x] = place
           /\ place = "claimRow" => script[x[2]] # "missing"
           /\ \A y \in Attempts : y # x => pc'[y] = pc[y]
    <3>1. \E place \in {"claimRow", "failed"} :
             Go(x, place) /\ (place = "claimRow" => script[HUMAN] # "missing")
      BY <1>8 DEF InsertHuman
    <3> QED
      BY <1>0, <1>a, <3>1, AttemptsAreTold, Moves DEF Places
  <2>2. pc[x] = "agentRow" /\ \A r \in Runs, a \in Agents : <<r, a>> # x
    BY <1>8, AttemptsAreTold DEF InsertHuman
  <2> QED
    BY <1>8, <2>1, <2>2, AttemptsAreTold, MoveKeepsAnswers
       DEF InsertHuman, Ended, PastFixture
<1>9. ASSUME NEW x \in HumanRuns, InsertHumanClaim(x) PROVE Answers'
  <2>1. \E place \in {"submit", "failed"} :
           pc'[x] = place /\ \A y \in Attempts : y # x => pc'[y] = pc[y]
    <3>1. \E place \in {"submit", "failed"} : Go(x, place)
      BY <1>9 DEF InsertHumanClaim
    <3> QED
      BY <1>0, <1>a, <3>1, Moves DEF Places
  <2>2. \A r \in Runs, a \in Agents : <<r, a>> # x
    BY AttemptsAreTold
  <2> QED
    BY <1>9, <2>1, <2>2, AttemptsAreTold, MoveKeepsAnswers
       DEF InsertHumanClaim, Ended, PastFixture
<1>10. ASSUME NEW p \in Posts, OnClaim(p) PROVE Answers'
  <2>1. /\ pc'[<<p, HUMAN>>] = "waiting"
        /\ \A y \in Attempts : y # <<p, HUMAN>> => pc'[y] = pc[y]
    BY <1>0, <1>10, AttemptsAreTold, Moves DEF OnClaim, Places
  <2>2. \A r \in Runs, a \in Agents : pc[<<r, a>>] = "off" => pc'[<<r, a>>] = "off"
    BY <2>1, AttemptsAreTold
  <2>3. \A y \in Attempts : pc'[y] = pc[y] \/ (pc[y] = "off" /\ pc'[y] = "waiting")
    BY <1>10, <2>1 DEF OnClaim
  <2>4. UNCHANGED <<run, script, said, attested, attestationRows, job>>
    BY <1>10 DEF OnClaim, tables
  <2> QED
    BY <2>2, <2>3, <2>4, MoveKeepsAnswers DEF Ended, PastFixture
<1>11. ASSUME NEW p \in Posts, Elapse(p),
              UNCHANGED <<run, script, said, attested, attestationRows, job>>
       PROVE  Answers'
  <2>1. \A y \in Attempts :
           pc'[y] = pc[y] \/ (pc[y] = "waiting" /\ pc'[y] = "agentRow")
    BY <1>0, <1>11, Elapsed
  <2> QED
    BY <1>11, <2>1, AttemptsAreTold, MoveKeepsAnswers DEF Ended, PastFixture
<1>12. ASSUME NEW p \in Posts, TimerFires(p) PROVE Answers'
  BY <1>11, <1>12 DEF TimerFires, tables
<1>13. ASSUME ForceElapse PROVE Answers'
  <2>1. pendingResolvers \in Posts
    BY <1>0, <1>13 DEF ForceElapse, TypeOK
  <2> QED
    BY <1>11, <1>13, <2>1 DEF ForceElapse, tables
<1>14. ASSUME Destroy PROVE Answers'
  BY <1>14, ElsewhereKeepsAnswers DEF Destroy, runnerVars, tables
<1>15. ASSUME PostClaim PROVE Answers'
  <2>1. \A y \in Attempts : job'[y] = job[y]
    BY <1>0, <1>a, <1>15, AttemptsAreTold, Hearing DEF PostClaim, Emissions
  <2> QED
    BY <1>15, <2>1, ElsewhereKeepsAnswers DEF PostClaim, runnerVars, tables
<1>16. ASSUME StopIndexer PROVE Answers'
  BY <1>16, ElsewhereKeepsAnswers DEF StopIndexer, runnerVars, tables
<1>17. ASSUME NEW e \in Emissions, job[e] # "none", NEW state, Job(e, state)
       PROVE  \A y \in Attempts : job'[y] # "none" => job[y] # "none"
  BY <1>a, <1>b, <1>17 DEF Job
<1>18. ASSUME NEW x \in Attempts, IndexAttestation(x) PROVE Answers'
  <2>1. job[x] # "none" /\ (Job(x, "event") \/ Job(x, "error"))
    BY <1>18 DEF IndexAttestation
  <2>2. \A y \in Attempts : job'[y] # "none" => job[y] # "none"
    BY <1>a, <1>17, <2>1
  <2>3. pc[x] = "success" /\ UNCHANGED <<run, pc, said, attested, script>>
    BY <1>18 DEF RunnerInv, HeardIsSaid, IndexAttestation, runnerVars
  <2>4. attestationRows' \in {attestationRows, attestationRows \cup {Row(x)}}
    BY <1>18 DEF IndexAttestation, Upsert
  <2>5. RowsAreOfSuccesses'
    BY <2>3, <2>4 DEF RunnerInv, RowsAreOfSuccesses, Row, AttestationId
  <2>6. OneAnswer' /\ Scripted' /\ StartedByTheirRun'
    BY <2>3 DEF RunnerInv, OneAnswer, Scripted, StartedByTheirRun
  <2>7. HeardIsSaid'
    BY <2>2, <2>3 DEF RunnerInv, HeardIsSaid
  <2> QED
    BY <2>5, <2>6, <2>7 DEF Answers
<1>19. ASSUME IndexClaim PROVE Answers'
  BY <1>17, <1>19, ElsewhereKeepsAnswers DEF IndexClaim, Emissions, runnerVars
<1>20. ASSUME NEW e \in Emissions, IndexEvent(e) PROVE Answers'
  BY <1>17, <1>20, ElsewhereKeepsAnswers DEF IndexEvent, runnerVars, tables
<1>21. ASSUME NEW e \in Emissions, WriteError(e) PROVE Answers'
  BY <1>17, <1>21, ElsewhereKeepsAnswers DEF WriteError, runnerVars
<1>22. ASSUME UNCHANGED vars PROVE Answers'
  BY <1>22, ElsewhereKeepsAnswers DEF vars, runnerVars, tables
<1>23. \A e \in Emissions : e = ClaimPosted \/ e \in Attempts
  BY DEF Emissions
<1> QED
  BY <1>a, <1>1, <1>2, <1>3, <1>4, <1>5, <1>6, <1>7, <1>8, <1>9, <1>10, <1>12,
     <1>13, <1>14, <1>15, <1>16, <1>18, <1>19, <1>20, <1>21, <1>22, <1>23
     DEF Next, RunnerStep, AttemptStep, IndexerStep

-----------------------------------------------------------------------------
(* The theorems *)

LEMMA RunnerStarts == Init => RunnerInv
<1> SUFFICES ASSUME Init PROVE RunnerInv
  OBVIOUS
<1>1. TypeOK
  <2>1. <<>> \in Seq(Decision)
    OBVIOUS
  <2>2. 0 \in Nat /\ 0 \in 0..MaxDbFailures
    BY RunnerAssumption
  <2>3. /\ script \in [Attestors -> Verdicts \cup {"missing"}]
        /\ run \in [Runs -> {"new", "claim", "agents", "started", "rejected"}]
        /\ pc \in [Attempts -> Places] /\ loop \in [AgentRuns -> {"off", "running", "over"}]
    BY DEF Init, Places
  <2>4. said \in [Attempts -> Seq(Decision)] /\ attested \in [Attempts -> Nat]
    BY <2>1, <2>2 DEF Init
  <2>5. job \in [Emissions -> {"none", "unheard", "row", "event", "error", "kept",
                               "logged", "lost"}]
    BY DEF Init
  <2>6. dbFailures \in 0..MaxDbFailures
    BY <2>2 DEF Init
  <2> QED
    BY <2>3, <2>4, <2>5, <2>6 DEF Init, TypeOK, Places
<1>2. OneAnswer
  BY DEF Init, OneAnswer
<1>3. Scripted /\ StartedByTheirRun
  BY AttemptsAreTold DEF Init, Scripted, StartedByTheirRun
<1>4. HeardIsSaid /\ RowsAreOfSuccesses
  BY AttemptsAreTold DEF Init, HeardIsSaid, RowsAreOfSuccesses
<1> QED
  BY <1>1, <1>2, <1>3, <1>4 DEF RunnerInv

LEMMA RunnerInvariant == Spec => []RunnerInv
<1>1. ASSUME RunnerInv, [Next]_vars PROVE RunnerInv'
  BY <1>1, TypeStep, AnswersStep DEF RunnerInv, Answers
<1> QED
  BY RunnerStarts, <1>1, PTL DEF Spec

\* Types of the runner, the queue, the indexer and their tables.
THEOREM RunnerTypeCorrect == Spec => []TypeOK
<1>1. RunnerInv => TypeOK
  BY DEF RunnerInv
<1> QED
  BY RunnerInvariant, <1>1, PTL

\* Every attempt of any agent or human, however often a claim is run or queued,
\* announces one decision.
THEOREM EveryAttemptAnswersOnce == Spec => []OneAnswer
<1>1. RunnerInv => OneAnswer
  BY DEF RunnerInv
<1> QED
  BY RunnerInvariant, <1>1, PTL

\* The indexer keeps one row for an attestor, with a decision it announced.
THEOREM RowsAreTheAttestors == Spec => []OneRowPerAttestor
<1>1. ASSUME RunnerInv PROVE OneRowPerAttestor
  <2>1. \A row \in attestationRows : \E x \in Attempts :
           pc[x] = "success" /\ row = Row(x)
    BY <1>1 DEF RunnerInv, RowsAreOfSuccesses
  <2>2. \A x \in Attempts : pc[x] = "success" =>
           said[x] = <<script[x[2]]>> /\ attested[x] > 0
    BY <1>1 DEF RunnerInv, OneAnswer
  <2>3. \A x \in Attempts : Row(x).by = x[2] /\ Row(x).decision = script[x[2]]
    BY DEF Row
  <2>4. \A x, y \in Attempts : x[2] = y[2] => Row(x) = Row(y)
    BY DEF Row, AttestationId
  <2>5. \A row1, row2 \in attestationRows : row1.by = row2.by => row1 = row2
    BY <2>1, <2>3, <2>4
  <2>6. \A row \in attestationRows : \E x \in Attempts :
           x[2] = row.by /\ attested[x] > 0 /\ said[x] = <<row.decision>>
    BY <2>1, <2>2, <2>3
  <2> QED
    BY <2>5, <2>6 DEF OneRowPerAttestor
<1> QED
  BY RunnerInvariant, <1>1, PTL

-----------------------------------------------------------------------------
(* What goes wrong is the database's doing *)

Errors == {e \in Emissions : job[e] \in {"error", "logged", "lost"}}
Lost == {e \in Emissions : job[e] = "lost"}
Untold == {x \in Attempts : pc[x] = "error"} \ errorRows

\* The rows an attestation refers to are written before it is announced.
WrittenBefore ==
    /\ \A r \in Runs : run[r] = "agents" => claimRow
    /\ \A r \in Runs : run[r] = "started" => claimRow /\ Agents \subseteq agentRows
    /\ \A x \in HumanRuns :
          /\ pc[x] \in {"claimRow", "submit", "success"} => HUMAN \in agentRows
          /\ pc[x] \in {"submit", "success"} => claimRow

LEMMA EmissionsAreFinite == IsFiniteSet(Attempts) /\ IsFiniteSet(Emissions)
<1>1. IsFiniteSet(Agents)
  <2> DEFINE f == [i \in 1..Len(REFERENCE_AGENTS) |-> REFERENCE_AGENTS[i]]
  <2>1. IsFiniteSet(1..Len(REFERENCE_AGENTS))
    BY RunnerAssumption, FS_Interval
  <2>2. f \in Surjection(1..Len(REFERENCE_AGENTS), Agents)
    BY DEF Surjection, Agents
  <2> QED
    BY <2>1, <2>2, FS_Surjection
<1>2. IsFiniteSet({HUMAN}) /\ IsFiniteSet({ClaimPosted})
  BY FS_Singleton
<1>3. IsFiniteSet(Runs \X Agents) /\ IsFiniteSet(Posts \X {HUMAN})
  BY <1>1, <1>2, RunnerAssumption, FS_Product
<1>4. IsFiniteSet(Attempts)
  BY <1>3, FS_Union DEF Attempts, AgentRuns, HumanRuns
<1> QED
  BY <1>2, <1>4, FS_Union DEF Emissions

\* An attempt that succeeds finds the rows its attestation refers to.
LEMMA SuccessFindsItsRows ==
    ASSUME RunnerInv, WrittenBefore, NEW x \in Attempts, pc[x] \in {"submit", "success"}
    PROVE  Inserts(x)
<1>1. CASE x \in AgentRuns
  <2>1. x = <<x[1], x[2]>> /\ x[1] \in Runs /\ x[2] \in Agents
    BY <1>1, AttemptsAreTold
  <2>2. run[x[1]] = "started"
    BY <2>1 DEF RunnerInv, StartedByTheirRun
  <2> QED
    BY <2>1, <2>2 DEF WrittenBefore, Inserts
<1>2. CASE x \in HumanRuns
  BY <1>2, AttemptsAreTold DEF WrittenBefore, Inserts
<1> QED
  BY <1>1, <1>2 DEF Attempts

LEMMA NothingMoreFails ==
    ASSUME TypeOK, OnlyTheDatabaseFails,
           Errors' \subseteq Errors, Lost' \subseteq Lost, Untold' \subseteq Untold,
           dbFailures' \in Nat, dbFailures' >= dbFailures
    PROVE  OnlyTheDatabaseFails'
<1>1. IsFiniteSet(Errors) /\ IsFiniteSet(Lost) /\ IsFiniteSet(Untold)
  BY EmissionsAreFinite, FS_Subset DEF Errors, Lost, Untold
<1>2. /\ Cardinality(Errors') <= Cardinality(Errors)
      /\ Cardinality(Lost') <= Cardinality(Lost)
      /\ Cardinality(Untold') <= Cardinality(Untold)
  BY <1>1, FS_Subset
<1>3. /\ Cardinality(Errors) \in Nat /\ Cardinality(Lost) \in Nat /\ Cardinality(Untold) \in Nat
  BY <1>1, FS_CardinalityType
<1>4. IsFiniteSet(Errors') /\ IsFiniteSet(Lost') /\ IsFiniteSet(Untold')
  BY <1>1, FS_Subset
<1>5. /\ Cardinality(Errors') \in Nat /\ Cardinality(Lost') \in Nat /\ Cardinality(Untold') \in Nat
  BY <1>4, FS_CardinalityType
<1>6. dbFailures \in Nat
  BY RunnerAssumption DEF TypeOK
<1>7. Cardinality(Errors) + Cardinality(Lost) + Cardinality(Untold) <= dbFailures
  BY DEF OnlyTheDatabaseFails, Errors, Lost, Untold
<1>8. Cardinality(Errors') + Cardinality(Lost') + Cardinality(Untold') <= dbFailures'
  BY <1>2, <1>3, <1>5, <1>6, <1>7
<1> QED
  BY <1>8 DEF OnlyTheDatabaseFails, Errors, Lost, Untold

\* One more failure pays for one more error, loss or untold attempt.
LEMMA OneMoreFails ==
    ASSUME TypeOK, OnlyTheDatabaseFails, NEW e, DbRejects,
           \/ Errors' \subseteq Errors \cup {e} /\ Lost' \subseteq Lost /\ Untold' \subseteq Untold
           \/ Errors' \subseteq Errors /\ Lost' \subseteq Lost \cup {e} /\ Untold' \subseteq Untold
           \/ Errors' \subseteq Errors /\ Lost' \subseteq Lost /\ Untold' \subseteq Untold \cup {e}
    PROVE  OnlyTheDatabaseFails'
<1>1. IsFiniteSet(Errors) /\ IsFiniteSet(Lost) /\ IsFiniteSet(Untold)
  BY EmissionsAreFinite, FS_Subset DEF Errors, Lost, Untold
<1>2. ASSUME NEW S, IsFiniteSet(S), NEW T
      PROVE  /\ Cardinality(S) \in Nat
             /\ T \subseteq S => Cardinality(T) \in Nat /\ Cardinality(T) <= Cardinality(S)
             /\ T \subseteq S \cup {e} =>
                  Cardinality(T) \in Nat /\ Cardinality(T) <= Cardinality(S) + 1
  <2>1. Cardinality(S) \in Nat
    BY <1>2, FS_CardinalityType
  <2>2. IsFiniteSet(S \cup {e}) /\ Cardinality(S \cup {e}) <= Cardinality(S) + 1
    BY <1>2, <2>1, FS_AddElement
  <2>3. ASSUME NEW U, IsFiniteSet(U), T \subseteq U
        PROVE  Cardinality(T) \in Nat /\ Cardinality(T) <= Cardinality(U)
    <3>1. IsFiniteSet(T) /\ Cardinality(T) <= Cardinality(U)
      BY <2>3, FS_Subset
    <3> QED
      BY <3>1, FS_CardinalityType
  <2>4. Cardinality(S \cup {e}) \in Nat
    BY <2>2, FS_CardinalityType
  <2> QED
    BY <1>2, <2>1, <2>2, <2>3, <2>4
<1>3. /\ Cardinality(Errors) \in Nat /\ Cardinality(Lost) \in Nat /\ Cardinality(Untold) \in Nat
      /\ Cardinality(Errors') \in Nat /\ Cardinality(Lost') \in Nat
      /\ Cardinality(Untold') \in Nat
  BY <1>1, <1>2
<1>4. dbFailures \in Nat /\ dbFailures' = dbFailures + 1
  BY RunnerAssumption DEF TypeOK, DbRejects
<1>5. Cardinality(Errors) + Cardinality(Lost) + Cardinality(Untold) <= dbFailures
  BY DEF OnlyTheDatabaseFails, Errors, Lost, Untold
<1>6. \/ /\ Cardinality(Errors') <= Cardinality(Errors) + 1
         /\ Cardinality(Lost') <= Cardinality(Lost)
         /\ Cardinality(Untold') <= Cardinality(Untold)
      \/ /\ Cardinality(Errors') <= Cardinality(Errors)
         /\ Cardinality(Lost') <= Cardinality(Lost) + 1
         /\ Cardinality(Untold') <= Cardinality(Untold)
      \/ /\ Cardinality(Errors') <= Cardinality(Errors)
         /\ Cardinality(Lost') <= Cardinality(Lost)
         /\ Cardinality(Untold') <= Cardinality(Untold) + 1
  BY <1>1, <1>2
<1>7. Cardinality(Errors') + Cardinality(Lost') + Cardinality(Untold') <= dbFailures'
  BY <1>3, <1>4, <1>5, <1>6
<1> QED
  BY <1>7 DEF OnlyTheDatabaseFails, Errors, Lost, Untold

\* A step that starts no error, loses nothing and leaves no attempt untold.
LEMMA QuietStep ==
    ASSUME TypeOK, OnlyTheDatabaseFails, DbAnswers \/ DbRejects,
           \A e \in Emissions :
              /\ job'[e] \in {"error", "logged", "lost"} => job[e] \in {"error", "logged", "lost"}
              /\ job'[e] = "lost" => job[e] = "lost",
           \A x \in Attempts : pc'[x] = "error" => pc[x] = "error" \/ x \in errorRows',
           errorRows \subseteq errorRows'
    PROVE  OnlyTheDatabaseFails'
<1>1. Errors' \subseteq Errors /\ Lost' \subseteq Lost /\ Untold' \subseteq Untold
  BY DEF Errors, Lost, Untold
<1>2. dbFailures \in Nat
  BY RunnerAssumption DEF TypeOK
<1>3. dbFailures' \in Nat /\ dbFailures' >= dbFailures
  BY <1>2 DEF DbAnswers, DbRejects
<1> QED
  BY <1>1, <1>3, NothingMoreFails

LEMMA WritingStep ==
    ASSUME WrittenBefore, claimRow => claimRow', agentRows \subseteq agentRows',
           \A r \in Runs :
              /\ run'[r] = "agents" => run[r] = "agents" \/ claimRow'
              /\ run'[r] = "started" =>
                    run[r] = "started" \/ (claimRow' /\ Agents \subseteq agentRows'),
           \A x \in HumanRuns :
              /\ pc'[x] \in {"claimRow", "submit", "success"} =>
                    pc[x] \in {"claimRow", "submit", "success"} \/ HUMAN \in agentRows'
              /\ pc'[x] \in {"submit", "success"} =>
                    pc[x] \in {"submit", "success"} \/ claimRow'
    PROVE  WrittenBefore'
BY DEF WrittenBefore

LEMMA FailuresStep ==
    ASSUME RunnerInv, WrittenBefore, OnlyTheDatabaseFails, [Next]_vars
    PROVE  WrittenBefore' /\ OnlyTheDatabaseFails'
<1> DEFINE Goal == WrittenBefore' /\ OnlyTheDatabaseFails'
<1>0. /\ TypeOK /\ run \in [Runs -> {"new", "claim", "agents", "started", "rejected"}]
      /\ claimRow \in BOOLEAN
      /\ job \in [Emissions -> {"none", "unheard", "row", "event", "error", "kept",
                                "logged", "lost"}]
  BY DEF RunnerInv, TypeOK
<1>a. AgentRuns \subseteq Attempts /\ HumanRuns \subseteq Attempts /\ Attempts \subseteq Emissions
  BY DEF Attempts, Emissions
<1>b. \A r \in Runs, a \in Agents : <<r, a>> \notin HumanRuns
  BY AttemptsAreTold
\* One attempt moves, the database is not asked.
<1>1. ASSUME NEW x \in Attempts, NEW place \in Places \ {"error", "claimRow", "submit", "success"},
             Go(x, place), UNCHANGED <<run, job, claimRow, agentRows, errorRows, dbFailures>>
      PROVE  Goal
  <2>1. pc'[x] = place /\ \A y \in Attempts : y # x => pc'[y] = pc[y]
    BY <1>0, <1>1, Moves
  <2>2. OnlyTheDatabaseFails'
    BY <1>0, <1>1, <2>1, QuietStep DEF DbAnswers
  <2>3. WrittenBefore'
    BY <1>a, <1>1, <2>1, WritingStep
  <2> QED
    BY <2>2, <2>3
<1>2. ASSUME UNCHANGED <<pc, job, claimRow, agentRows, errorRows, dbFailures>>,
             \A r \in Runs : run'[r] \in {"agents", "started"} => run[r] = run'[r]
      PROVE  Goal
  <2>1. OnlyTheDatabaseFails'
    BY <1>0, <1>2, QuietStep DEF DbAnswers
  <2>2. WrittenBefore'
    BY <1>2, WritingStep
  <2> QED
    BY <2>1, <2>2
<1>3. ASSUME NEW r \in Runs, RunClaim(r) PROVE Goal
  BY <1>0, <1>2, <1>3 DEF RunClaim, tables
<1>4. ASSUME NEW r \in Runs, InsertRunClaim(r) PROVE Goal
  <2>1. DbAnswers \/ DbRejects
    BY <1>4 DEF InsertRunClaim
  <2>2. OnlyTheDatabaseFails'
    BY <1>0, <1>4, <2>1, QuietStep DEF InsertRunClaim
  <2>a. UNCHANGED <<pc, agentRows>>
    BY <1>4 DEF InsertRunClaim
  <2>3. CASE claimRow' /\ run' = [run EXCEPT ![r] = "agents"]
    <3>1. \A s \in Runs : run'[s] = "started" => run[s] = "started"
      BY <1>0, <2>3
    <3> QED
      BY <2>2, <2>a, <2>3, <3>1, WritingStep
  <2>4. CASE UNCHANGED claimRow /\ run' = [run EXCEPT ![r] = "rejected"]
    <3>1. \A s \in Runs : run'[s] \in {"agents", "started"} => run'[s] = run[s]
      BY <1>0, <2>4
    <3> QED
      BY <2>2, <2>a, <2>4, <3>1, WritingStep
  <2> QED
    BY <1>4, <2>2, <2>3, <2>4 DEF InsertRunClaim
<1>5. ASSUME NEW r \in Runs, InsertRunAgents(r) PROVE Goal
  <2>1. DbAnswers \/ DbRejects
    BY <1>5 DEF InsertRunAgents
  <2>2. \A y \in Attempts : pc'[y] \in {pc[y], "failed", "loop"}
    BY <1>5 DEF InsertRunAgents, StartAgents
  <2>3. OnlyTheDatabaseFails'
    BY <1>0, <1>5, <2>1, <2>2, QuietStep DEF InsertRunAgents
  <2>4. claimRow /\ agentRows \subseteq agentRows'
    BY <1>5 DEF WrittenBefore, InsertRunAgents
  <2>5. \A s \in Runs : /\ run'[s] = "agents" => run[s] = "agents"
                        /\ run'[s] = "started" => run[s] = "started" \/ Agents \subseteq agentRows'
    BY <1>0, <1>5 DEF InsertRunAgents
  <2>6. claimRow' = claimRow
    BY <1>5 DEF InsertRunAgents
  <2>7. WrittenBefore'
    BY <1>a, <2>2, <2>4, <2>5, <2>6, WritingStep
  <2> QED
    BY <2>3, <2>7
<1>6. ASSUME NEW x \in AgentRuns, LoopEnds(x) PROVE Goal
  <2>1. CASE pc[x] = "loop"
    <3>1. pc'[x] = "submit" /\ \A y \in Attempts : y # x => pc'[y] = pc[y]
      BY <1>0, <1>a, <1>6, <2>1, Moves DEF LoopEnds, Places
    <3>2. OnlyTheDatabaseFails'
      BY <1>0, <1>6, <3>1, QuietStep DEF LoopEnds, DbAnswers, tables
    <3>3. WrittenBefore'
      BY <1>a, <1>6, <3>1, AttemptsAreTold, WritingStep DEF LoopEnds, tables
    <3> QED
      BY <3>2, <3>3
  <2>2. CASE pc[x] # "loop"
    BY <1>2, <1>6, <2>2 DEF LoopEnds, tables
  <2> QED
    BY <2>1, <2>2
<1>7. ASSUME NEW x \in AgentRuns, TimesOut(x) PROVE Goal
  <2>1. /\ x \in Attempts /\ Go(x, "failed")
        /\ UNCHANGED <<run, job, claimRow, agentRows, errorRows, dbFailures>>
    BY <1>a, <1>7 DEF TimesOut, tables
  <2>2. "failed" \in Places \ {"error", "claimRow", "submit", "success"}
    BY DEF Places
  <2> HIDE DEF Goal
  <2> QED
    BY <1>1, <2>1, <2>2
<1>8. ASSUME NEW x \in Attempts, FailedAttempt(x) PROVE Goal
  <2>1. pc'[x] = "error" /\ \A y \in Attempts : y # x => pc'[y] = pc[y]
    BY <1>0, <1>8, Moves DEF FailedAttempt, Places
  <2>2. WrittenBefore'
    BY <1>a, <1>8, <2>1, WritingStep DEF FailedAttempt
  <2>3. CASE DbAnswers /\ errorRows' = errorRows \cup {x}
    BY <1>0, <1>8, <2>1, <2>2, <2>3, QuietStep DEF FailedAttempt
  <2>4. CASE DbRejects /\ UNCHANGED errorRows
    <3>1. Errors' = Errors /\ Lost' = Lost /\ Untold' \subseteq Untold \cup {x}
      BY <1>8, <2>1, <2>4 DEF FailedAttempt, Errors, Lost, Untold
    <3> QED
      BY <1>0, <2>2, <2>4, <3>1, OneMoreFails
  <2> QED
    BY <1>8, <2>2, <2>3, <2>4 DEF FailedAttempt
<1>9. ASSUME NEW x \in Attempts, Submitted(x) PROVE Goal
  <2>1. pc'[x] = "success" /\ \A y \in Attempts : y # x => pc'[y] = pc[y]
    BY <1>0, <1>9, Moves DEF Submitted, Places
  <2>2. pc[x] = "submit" /\ UNCHANGED <<run, claimRow, agentRows, errorRows, dbFailures>>
    BY <1>9 DEF Submitted, tables
  <2>3. \A e \in Emissions : job'[e] \in {job[e], "row", "unheard"}
    BY <1>0, <1>9 DEF Submitted, EmitDecision, Heard
  <2>4. OnlyTheDatabaseFails'
    BY <1>0, <2>1, <2>2, <2>3, QuietStep DEF DbAnswers
  <2>5. WrittenBefore'
    BY <1>a, <2>1, <2>2, WritingStep
  <2> QED
    BY <2>4, <2>5
<1>10. ASSUME NEW x \in HumanRuns, InsertHuman(x) PROVE Goal
  <2>1. DbAnswers \/ DbRejects
    BY <1>10 DEF InsertHuman
  <2>2. CASE agentRows' = agentRows \cup {HUMAN} /\ Go(x, "claimRow")
    <3>1. pc'[x] = "claimRow" /\ \A y \in Attempts : y # x => pc'[y] = pc[y]
      BY <1>0, <1>a, <2>2, Moves DEF Places
    <3>2. OnlyTheDatabaseFails'
      BY <1>0, <1>10, <2>1, <3>1, QuietStep DEF InsertHuman
    <3>3. WrittenBefore'
      BY <1>a, <1>10, <2>2, <3>1, WritingStep DEF InsertHuman
    <3> QED
      BY <3>2, <3>3
  <2>3. CASE UNCHANGED agentRows /\ Go(x, "failed")
    <3>1. pc'[x] = "failed" /\ \A y \in Attempts : y # x => pc'[y] = pc[y]
      BY <1>0, <1>a, <2>3, Moves DEF Places
    <3>2. OnlyTheDatabaseFails'
      BY <1>0, <1>10, <2>1, <3>1, QuietStep DEF InsertHuman
    <3>3. WrittenBefore'
      BY <1>a, <1>10, <2>3, <3>1, WritingStep DEF InsertHuman
    <3> QED
      BY <3>2, <3>3
  <2> QED
    BY <1>10, <2>2, <2>3 DEF InsertHuman
<1>11. ASSUME NEW x \in HumanRuns, InsertHumanClaim(x) PROVE Goal
  <2>1. (DbAnswers \/ DbRejects) /\ pc[x] = "claimRow"
    BY <1>11 DEF InsertHumanClaim
  <2>2. CASE claimRow' = TRUE /\ Go(x, "submit")
    <3>1. pc'[x] = "submit" /\ \A y \in Attempts : y # x => pc'[y] = pc[y]
      BY <1>0, <1>a, <2>2, Moves DEF Places
    <3>2. OnlyTheDatabaseFails'
      BY <1>0, <1>11, <2>1, <3>1, QuietStep DEF InsertHumanClaim
    <3>3. WrittenBefore'
      BY <1>a, <1>11, <2>1, <2>2, <3>1, WritingStep DEF InsertHumanClaim
    <3> QED
      BY <3>2, <3>3
  <2>3. CASE UNCHANGED claimRow /\ Go(x, "failed")
    <3>1. pc'[x] = "failed" /\ \A y \in Attempts : y # x => pc'[y] = pc[y]
      BY <1>0, <1>a, <2>3, Moves DEF Places
    <3>2. OnlyTheDatabaseFails'
      BY <1>0, <1>11, <2>1, <3>1, QuietStep DEF InsertHumanClaim
    <3>3. WrittenBefore'
      BY <1>a, <1>11, <2>3, <3>1, WritingStep DEF InsertHumanClaim
    <3> QED
      BY <3>2, <3>3
  <2> QED
    BY <1>11, <2>2, <2>3 DEF InsertHumanClaim
<1>12. ASSUME NEW p \in Posts, OnClaim(p) PROVE Goal
  BY <1>1, <1>12, AttemptsAreTold DEF OnClaim, tables, Places
<1>13. ASSUME NEW p \in Posts, Elapse(p),
              UNCHANGED <<run, job, claimRow, agentRows, errorRows, dbFailures>>
       PROVE  Goal
  <2>1. \A y \in Attempts :
           pc'[y] = pc[y] \/ (pc[y] = "waiting" /\ pc'[y] = "agentRow")
    BY <1>0, <1>13, Elapsed
  <2>2. OnlyTheDatabaseFails'
    BY <1>0, <1>13, <2>1, QuietStep DEF DbAnswers
  <2>3. WrittenBefore'
    BY <1>a, <1>13, <2>1, WritingStep
  <2> QED
    BY <2>2, <2>3
<1>14. ASSUME NEW p \in Posts, TimerFires(p) PROVE Goal
  BY <1>13, <1>14 DEF TimerFires, tables
<1>15. ASSUME ForceElapse PROVE Goal
  <2>1. pendingResolvers \in Posts
    BY <1>0, <1>15 DEF ForceElapse, TypeOK
  <2> QED
    BY <1>13, <1>15, <2>1 DEF ForceElapse, tables
<1>16. ASSUME Destroy PROVE Goal
  BY <1>2, <1>16 DEF Destroy, runnerVars, tables
<1>17. ASSUME PostClaim PROVE Goal
  <2>1. \A e \in Emissions : job'[e] \in {job[e], "row", "unheard"}
    BY <1>0, <1>17 DEF PostClaim, Heard
  <2>2. UNCHANGED <<run, pc, claimRow, agentRows, errorRows, dbFailures>>
    BY <1>17 DEF PostClaim, runnerVars, tables
  <2>3. OnlyTheDatabaseFails'
    BY <1>0, <2>1, <2>2, QuietStep DEF DbAnswers
  <2>4. WrittenBefore'
    BY <2>2, WritingStep
  <2> QED
    BY <2>3, <2>4
<1>18. ASSUME StopIndexer PROVE Goal
  BY <1>2, <1>18 DEF StopIndexer, runnerVars, tables
\* A job of the indexer ends an await.
<1>19. ASSUME NEW e \in Emissions, NEW state \in {"event", "kept", "logged"}, Job(e, state),
              DbAnswers, state = "logged" => job[e] = "error",
              UNCHANGED <<run, pc, agentRows>>, claimRow => claimRow',
              errorRows \subseteq errorRows'
       PROVE  Goal
  <2>1. \A f \in Emissions : job'[f] = job[f] \/ (f = e /\ job'[f] = state)
    BY <1>0, <1>19 DEF Job
  <2>2. OnlyTheDatabaseFails'
    BY <1>0, <1>19, <2>1, QuietStep
  <2>3. WrittenBefore'
    BY <1>19, WritingStep
  <2> QED
    BY <2>2, <2>3
<1>20. ASSUME NEW e \in Emissions, NEW state \in {"error", "lost"}, Job(e, state),
              DbRejects, state = "lost" => job[e] = "error",
              UNCHANGED <<run, pc, agentRows, claimRow, errorRows>>
       PROVE  Goal
  <2>1. \A f \in Emissions : job'[f] = job[f] \/ (f = e /\ job'[f] = state)
    BY <1>0, <1>20 DEF Job
  <2>2. Untold' = Untold
    BY <1>20 DEF Untold
  <2>3. CASE state = "error"
    <3>1. Errors' \subseteq Errors \cup {e} /\ Lost' \subseteq Lost
      BY <2>1, <2>3 DEF Errors, Lost
    <3> QED
      BY <1>0, <1>20, <2>2, <3>1, OneMoreFails, WritingStep
  <2>4. CASE state = "lost"
    <3>1. Errors' \subseteq Errors /\ Lost' \subseteq Lost \cup {e}
      BY <1>20, <2>1, <2>4 DEF Errors, Lost
    <3> QED
      BY <1>0, <1>20, <2>2, <3>1, OneMoreFails, WritingStep
  <2> QED
    BY <2>3, <2>4
<1>21. ASSUME NEW x \in Attempts, IndexAttestation(x) PROVE Goal
  <2>1. Inserts(x)
    BY <1>21, SuccessFindsItsRows DEF RunnerInv, HeardIsSaid, IndexAttestation
  <2>2. CASE DbAnswers /\ Job(x, "event")
    BY <1>a, <1>19, <1>21, <2>2 DEF IndexAttestation, runnerVars
  <2>3. CASE DbRejects /\ Job(x, "error")
    BY <1>a, <1>20, <1>21, <2>3 DEF IndexAttestation, runnerVars
  <2> QED
    BY <1>21, <2>1, <2>2, <2>3 DEF IndexAttestation
<1>22. ASSUME IndexClaim PROVE Goal
  <2>1. ClaimPosted \in Emissions
    BY DEF Emissions
  <2>2. CASE DbAnswers /\ claimRow' = TRUE /\ Job(ClaimPosted, "event")
    BY <1>19, <1>22, <2>1, <2>2 DEF IndexClaim, runnerVars
  <2>3. CASE DbRejects /\ UNCHANGED claimRow /\ Job(ClaimPosted, "error")
    BY <1>20, <1>22, <2>1, <2>3 DEF IndexClaim, runnerVars
  <2> QED
    BY <1>22, <2>2, <2>3 DEF IndexClaim
<1>23. ASSUME NEW e \in Emissions, IndexEvent(e) PROVE Goal
  <2>1. CASE DbAnswers /\ Job(e, "kept")
    BY <1>19, <1>23, <2>1 DEF IndexEvent, runnerVars, tables
  <2>2. CASE DbRejects /\ Job(e, "error")
    BY <1>20, <1>23, <2>2 DEF IndexEvent, runnerVars, tables
  <2> QED
    BY <1>23, <2>1, <2>2 DEF IndexEvent
<1>24. ASSUME NEW e \in Emissions, WriteError(e) PROVE Goal
  <2>1. CASE DbAnswers /\ errorRows' = errorRows \cup {e} /\ Job(e, "logged")
    BY <1>19, <1>24, <2>1 DEF WriteError, runnerVars
  <2>2. CASE DbRejects /\ UNCHANGED errorRows /\ Job(e, "lost")
    BY <1>20, <1>24, <2>2 DEF WriteError, runnerVars
  <2> QED
    BY <1>24, <2>1, <2>2 DEF WriteError
<1>25. ASSUME UNCHANGED vars PROVE Goal
  BY <1>2, <1>25 DEF vars, runnerVars, tables
<1>26. \A e \in Emissions : e = ClaimPosted \/ e \in Attempts
  BY DEF Emissions
<1> QED
  BY <1>a, <1>3, <1>4, <1>5, <1>6, <1>7, <1>8, <1>9, <1>10, <1>11, <1>12, <1>14,
     <1>15, <1>16, <1>17, <1>18, <1>21, <1>22, <1>23, <1>24, <1>25, <1>26
     DEF Next, RunnerStep, AttemptStep, IndexerStep

\* Handlers run unawaited and rows refer to rows, yet only a database that
\* rejects makes anything fail, lets an emission go or an attempt end untold.
THEOREM FailuresAreTheDatabases == Spec => []OnlyTheDatabaseFails
<1>1. ASSUME Init PROVE WrittenBefore /\ OnlyTheDatabaseFails
  <2>1. Errors = {} /\ Lost = {} /\ Untold = {}
    BY <1>1 DEF Init, Errors, Lost, Untold
  <2>2. Cardinality({}) = 0
    BY FS_EmptySet
  <2>3. dbFailures = 0
    BY <1>1 DEF Init
  <2>4. Cardinality(Errors) + Cardinality(Lost) + Cardinality(Untold) <= dbFailures
    BY <2>1, <2>2, <2>3
  <2>5. WrittenBefore
    BY <1>1, AttemptsAreTold DEF Init, WrittenBefore
  <2> QED
    BY <2>4, <2>5 DEF OnlyTheDatabaseFails, Errors, Lost, Untold
<1>2. ASSUME RunnerInv, WrittenBefore /\ OnlyTheDatabaseFails, [Next]_vars
      PROVE  (WrittenBefore /\ OnlyTheDatabaseFails)'
  BY <1>2, FailuresStep
<1> QED
  BY RunnerInvariant, <1>1, <1>2, PTL DEF Spec

=============================================================================
