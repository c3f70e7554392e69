----------------------------- MODULE ReactLoop -----------------------------
(***************************************************************************)
(* runLoop (packages/agent-sdk/src/loop.ts): one agent works on one claim. *)
(* The model proposes a tool call or a decision, the loop runs the tool or *)
(* applies its hard rules. Every wait for the model or for a tool is the   *)
(* boundary of a step. What the model says and what a tool returns is      *)
(* arbitrary. Thoughts, prompts, times and the conversation are left out:  *)
(* the loop never reads them back. The model seam answers or throws; the   *)
(* failover of ModelRouter behind it is not modelled.                      *)
(***************************************************************************)
EXTENDS Integers, Sequences, FiniteSets

CONSTANTS
    Temperaments,   \* what an agent may be tuned to
    Confidences,    \* what the model may write as confidenceBps: any number
    CallCosts,      \* what a model call may cost, 0 for an unknown model
    MaxUsd,         \* the cap of the CostBreaker
    SourcesOf       \* the sources each tool may cite

ClaimType == {"YIELD_BPS", "DISTRIBUTION_PAID", "CASHFLOW_MATCH",
              "ENCUMBRANCE_ABSENT", "FAIR_VALUE"}

ToolName == {"fetch_chainlink_price", "fetch_meth_yield", "fetch_usdy_yield",
             "query_chain_state", "compute_expected", "cross_check_history",
             "read_document"}

\* The tools whose data may be marked as stale.
Feeds == {"fetch_chainlink_price", "fetch_meth_yield", "fetch_usdy_yield"}

\* Which tools a claim type allows; nothing for a matter of judgment.
TOOL_MAP ==
    [t \in ClaimType |->
        CASE t = "YIELD_BPS"          -> ToolName \ {"read_document"}
          [] t = "DISTRIBUTION_PAID"  -> {"query_chain_state", "compute_expected",
                                          "cross_check_history"}
          [] t = "CASHFLOW_MATCH"     -> {"read_document", "compute_expected",
                                          "cross_check_history"}
          [] t = "ENCUMBRANCE_ABSENT" -> {"read_document", "query_chain_state",
                                          "cross_check_history"}
          [] t = "FAIR_VALUE"         -> {}]

TIER_MAP ==
    [t \in ClaimType |->
        CASE t \in {"YIELD_BPS", "DISTRIBUTION_PAID"}      -> 1
          [] t \in {"CASHFLOW_MATCH", "ENCUMBRANCE_ABSENT"} -> 2
          [] t = "FAIR_VALUE"                               -> 3]

Source == UNION {SourcesOf[t] : t \in ToolName}

Temperament == [thresholdBps : Int, maxSteps : Nat,
                requiresTwoSources : BOOLEAN, abstainOnStale : BOOLEAN]

ASSUME LoopAssumption ==
    /\ Temperaments \subseteq Temperament
    /\ Confidences \subseteq Int
    /\ CallCosts \subseteq Nat
    /\ MaxUsd \in Nat
    /\ DOMAIN SourcesOf = ToolName

VARIABLES
    claimType, temperament,  \* the arguments of the run
    phase,               \* start, think (the model), tool, retry (the tool), done
    stepNum,
    tool,                \* the tool that runs in the phases tool and retry
    steps,               \* the trace
    toolFailureRetries,
    spentUsd,            \* of the run's CostBreaker
    distinctSources, anyStaleResult,
    errorRows,           \* how many rows onErrorRow got, by cause
    final                \* the end of the trace

args == <<claimType, temperament>>
evidence == <<distinctSources, anyStaleResult>>
vars == <<args, phase, stepNum, tool, steps, toolFailureRetries, spentUsd,
          evidence, errorRows, final>>

Step == [kind : {"unparseable", "refused", "failed", "observed", "finalized"},
         source : Source \cup {"none"}, stale : BOOLEAN]

Final(decision, confidenceBps, reason) ==
    [decision |-> decision, confidenceBps |-> confidenceBps, reason |-> reason]

Undecided == Final("none", 0, "none")

Init ==
    /\ claimType \in ClaimType /\ temperament \in Temperaments
    /\ phase = "start" /\ stepNum = 0 /\ tool = "none" /\ steps = <<>>
    /\ toolFailureRetries = 0 /\ spentUsd = 0
    /\ distinctSources = {} /\ anyStaleResult = FALSE
    /\ errorRows = [model |-> 0, retried |-> 0, failed |-> 0]
    /\ final = Undecided

-----------------------------------------------------------------------------
(* What the steps have in common *)

Record(kind, source, stale) ==
    steps' = Append(steps, [kind |-> kind, source |-> source, stale |-> stale])

Return(result) == phase' = "done" /\ tool' = "none" /\ final' = result

NextStep == stepNum + 1

\* The next pass of the loop.
Continue ==
    phase' = "think" /\ tool' = "none" /\ stepNum' = NextStep /\ UNCHANGED final

\* Fault: the loop runs once too often.
HasBudgetForOneMore == stepNum <= temperament.maxSteps
HasBudget == stepNum < temperament.maxSteps

\* The cost of the call counts.
Capped(cost) == spentUsd + cost > MaxUsd

\* The model answers at a cost that the breaker lets pass.
Answered ==
    /\ phase = "think" /\ HasBudget
    /\ \E cost \in CallCosts : ~Capped(cost) /\ spentUsd' = spentUsd + cost

-----------------------------------------------------------------------------
(* The loop *)

Begin ==
    /\ phase = "start"
    /\ IF TIER_MAP[claimType] = 3
       THEN Return(Final("ABSTAIN", 0, "TIER3_OVERRIDE"))
       ELSE phase' = "think" /\ UNCHANGED <<tool, final>>
    /\ UNCHANGED <<args, stepNum, steps, toolFailureRetries, spentUsd, evidence, errorRows>>

BudgetExhausted ==
    /\ phase = "think" /\ ~HasBudget
    /\ Return(Final("ABSTAIN", 0, "STEP_BUDGET"))
    /\ UNCHANGED <<args, stepNum, steps, toolFailureRetries, spentUsd, evidence, errorRows>>

ModelThrows ==
    /\ phase = "think" /\ HasBudget
    /\ errorRows' = [errorRows EXCEPT !.model = @ + 1]
    /\ Return(Final("ABSTAIN", 0, "TOOL_FAILURE"))
    /\ UNCHANGED <<args, stepNum, steps, toolFailureRetries, spentUsd, evidence>>

CostCapped ==
    /\ phase = "think" /\ HasBudget
    /\ \E cost \in CallCosts : Capped(cost) /\ spentUsd' = spentUsd + cost
    /\ Return(Final("ABSTAIN", 0, "COST_CAPPED"))
    /\ UNCHANGED <<args, stepNum, steps, toolFailureRetries, evidence, errorRows>>

\* The answer does not parse: the model is told and may try again.
Unparseable ==
    /\ Answered
    /\ Record("unparseable", "none", FALSE)
    /\ Continue
    /\ UNCHANGED <<args, toolFailureRetries, evidence, errorRows>>

\* The rules that turn a decision of the model into an abstention.
BelowThreshold(confidenceBps) == confidenceBps < temperament.thresholdBps

StaleSingleSource ==
    /\ temperament.abstainOnStale
    /\ anyStaleResult
    /\ Cardinality(distinctSources) < 2

Verdict(decision, confidenceBps) ==
    CASE decision = "ABSTAIN" -> Final("ABSTAIN", confidenceBps, "MODEL_ABSTAIN")
      [] OTHER ->
         IF TIER_MAP[claimType] = 3 THEN Final("ABSTAIN", 0, "TIER3_OVERRIDE")
         ELSE IF BelowThreshold(confidenceBps)
              THEN Final("ABSTAIN", confidenceBps, "BELOW_THRESHOLD")
         ELSE IF StaleSingleSource
              THEN Final("ABSTAIN", confidenceBps, "STALE_SINGLE_SOURCE")
         ELSE Final(decision, confidenceBps, "none")

Finalize ==
    /\ Answered
    /\ Record("finalized", "none", FALSE)
    /\ \E decision \in {"VALID", "REJECTED", "ABSTAIN"}, confidenceBps \in Confidences :
          Return(Verdict(decision, confidenceBps))
    /\ UNCHANGED <<args, stepNum, toolFailureRetries, evidence, errorRows>>

\* The model names a tool the claim type does not allow; any name may come.
Refuse ==
    /\ Answered
    /\ Record("refused", "none", FALSE)
    /\ Continue
    /\ UNCHANGED <<args, toolFailureRetries, evidence, errorRows>>

CallTool ==
    /\ Answered
    /\ \E t \in TOOL_MAP[claimType] : tool' = t
    /\ phase' = "tool"
    /\ UNCHANGED <<args, stepNum, steps, toolFailureRetries, evidence, errorRows, final>>

-----------------------------------------------------------------------------
(* The tool runs under runToolWithRecovery *)

\* Fault: only the last result counts as stale or not.
StaleAfterLast(stale) == stale
StaleAfter(stale) == anyStaleResult \/ stale

ToolReturns ==
    /\ phase \in {"tool", "retry"}
    /\ \E source \in SourcesOf[tool], stale \in BOOLEAN :
          /\ stale => tool \in Feeds
          /\ Record("observed", source, stale)
          /\ distinctSources' = distinctSources \cup {source}
          /\ anyStaleResult' = StaleAfter(stale)
    /\ Continue
    /\ UNCHANGED <<args, toolFailureRetries, spentUsd, errorRows>>

\* A recoverable error of the first attempt: the tool runs again.
ToolRetries ==
    /\ phase = "tool"
    /\ phase' = "retry"
    /\ errorRows' = [errorRows EXCEPT !.retried = @ + 1]
    /\ UNCHANGED <<args, stepNum, tool, steps, toolFailureRetries, spentUsd, evidence, final>>

\* Fault: the automatic second attempt uses up the corrective turn.
MayCorrectFirst == toolFailureRetries < 1 /\ phase = "tool"
MayCorrect == toolFailureRetries < 1

\* Fault: the failure that ends the attempts is not reported.
ClosingRowLost == errorRows
ClosingRow == [errorRows EXCEPT !.failed = @ + 1]

\* An error that is not recoverable, or any error of the second attempt. The
\* model may correct itself once per run; the next failure ends the run.
ToolFails ==
    /\ phase \in {"tool", "retry"}
    /\ errorRows' = ClosingRow
    /\ Record("failed", "none", FALSE)
    /\ IF MayCorrect
       THEN toolFailureRetries' = toolFailureRetries + 1 /\ Continue
       ELSE /\ Return(Final("ABSTAIN", 0, "TOOL_FAILURE"))
            /\ UNCHANGED <<stepNum, toolFailureRetries>>
    /\ UNCHANGED <<args, spentUsd, evidence>>

\* The run has resolved.
Resolved == phase = "done" /\ UNCHANGED vars

Next ==
    \/ Begin \/ BudgetExhausted \/ ModelThrows \/ CostCapped
    \/ Unparseable \/ Finalize \/ Refuse \/ CallTool
    \/ ToolReturns \/ ToolRetries \/ ToolFails
    \/ Resolved

Spec == Init /\ [][Next]_vars

-----------------------------------------------------------------------------
(* Properties *)

StepsOf(kind) == {i \in DOMAIN steps : steps[i].kind = kind}

\* Types: the trace is never longer than the step budget allows.
TypeOK ==
    /\ claimType \in ClaimType /\ temperament \in Temperaments
    /\ phase \in {"start", "think", "tool", "retry", "done"}
    /\ stepNum \in 0 .. temperament.maxSteps
    /\ tool \in ToolName \cup {"none"}
    /\ steps \in Seq(Step) /\ Len(steps) <= temperament.maxSteps
    /\ toolFailureRetries \in {0, 1}
    /\ spentUsd \in Nat
    /\ distinctSources \subseteq Source /\ anyStaleResult \in BOOLEAN
    /\ errorRows \in [model : {0, 1}, retried : Nat, failed : Nat]
    /\ final \in [decision : {"none", "VALID", "REJECTED", "ABSTAIN"},
                  confidenceBps : Int,
                  reason : {"none", "TIER3_OVERRIDE", "STEP_BUDGET", "TOOL_FAILURE",
                            "COST_CAPPED", "MODEL_ABSTAIN", "BELOW_THRESHOLD",
                            "STALE_SINGLE_SOURCE"}]

\* A verdict that locks a stake is backed by the trace that is published with
\* it, whatever the model said: it was proposed in the last step, with enough
\* confidence, within the budget of steps and money, after one failure of a
\* tool at most; and a conservative agent that saw stale data anywhere in the
\* trace has two sources in it (loop.ts, hard rules 1 to 6).
VerdictsAreEarned ==
    final.decision \in {"VALID", "REJECTED"} =>
        /\ TIER_MAP[claimType] # 3
        /\ final.confidenceBps >= temperament.thresholdBps
        /\ spentUsd <= MaxUsd
        /\ StepsOf("finalized") = {Len(steps)}
        /\ Cardinality(StepsOf("failed")) <= 1
        /\ (temperament.abstainOnStale /\ \E i \in DOMAIN steps : steps[i].stale) =>
              \E i, j \in StepsOf("observed") : steps[i].source # steps[j].source

\* The reason of an abstention is a fact of the trace: nothing was asked for a
\* matter of judgment, the whole budget of steps was used, the cap was passed
\* by the last call, or the model threw or a tool failed for the second time.
AbstentionsAreExplained ==
    /\ final.reason = "TIER3_OVERRIDE" =>
          TIER_MAP[claimType] = 3 /\ steps = <<>> /\ spentUsd = 0
    /\ final.reason = "STEP_BUDGET" =>
          Len(steps) = temperament.maxSteps /\ StepsOf("finalized") = {}
    /\ final.reason = "COST_CAPPED" => spentUsd > MaxUsd
    /\ final.reason = "TOOL_FAILURE" =>
          errorRows.model = 1 \/ Cardinality(StepsOf("failed")) = 2
    /\ final.reason \in {"MODEL_ABSTAIN", "BELOW_THRESHOLD", "STALE_SINGLE_SOURCE"} =>
          StepsOf("finalized") = {Len(steps)}

\* The trace tells all that the rules are applied to: one step for each pass,
\* the sources and staleness the loop has accumulated, each of them from a tool
\* the claim type allows, and one closing error row for each failed tool.
TraceTellsAll ==
    /\ phase # "done" => Len(steps) = stepNum
    /\ distinctSources = {steps[i].source : i \in StepsOf("observed")}
    /\ anyStaleResult <=> \E i \in DOMAIN steps : steps[i].stale
    /\ distinctSources \subseteq UNION {SourcesOf[t] : t \in TOOL_MAP[claimType]}
    /\ errorRows.failed = Cardinality(StepsOf("failed"))

\* How many steps the run can still take.
Remaining ==
    CASE phase = "start" -> 3 * temperament.maxSteps + 4
      [] phase = "think" -> 3 * (temperament.maxSteps - stepNum) + 3
      [] phase = "tool"  -> 3 * (temperament.maxSteps - stepNum) + 2
      [] phase = "retry" -> 3 * (temperament.maxSteps - stepNum) + 1
      [] phase = "done"  -> 0

\* Every step brings the run nearer to its end: no mix of unreadable answers,
\* refusals, retries and corrections makes it go round, so a run whose model
\* and tools answer resolves ("always resolves", loop.ts:319).
EveryStepUsesBudget == [][Remaining' < Remaining /\ Remaining' >= 0]_vars

=============================================================================
