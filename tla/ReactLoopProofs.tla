-------------------------- MODULE ReactLoopProofs --------------------------
(***************************************************************************)
(* Theorems about the loop of an agent, for every set of temperaments, any *)
(* tools, costs and budgets. Inv is inductive: it adds to the properties   *)
(* what holds at each wait, before the run has a result.                   *)
(***************************************************************************)
EXTENDS ReactLoop, FiniteSetTheorems, TLAPS

\* What the loop knows while it waits for the model or for a tool.
Waiting ==
    /\ phase # "done" =>
          /\ final = Undecided
          /\ StepsOf("finalized") = {}
          /\ spentUsd <= MaxUsd
          /\ errorRows.model = 0
          /\ Cardinality(StepsOf("failed")) = toolFailureRetries
    /\ phase = "start" => stepNum = 0 /\ spentUsd = 0
    /\ phase \in {"think", "tool", "retry"} => TIER_MAP[claimType] # 3
    /\ phase \in {"tool", "retry"} =>
          tool \in TOOL_MAP[claimType] /\ stepNum < temperament.maxSteps
    /\ IsFiniteSet(distinctSources)

Inv ==
    /\ TypeOK
    /\ TraceTellsAll
    /\ Waiting
    /\ VerdictsAreEarned
    /\ AbstentionsAreExplained

Kinds == {"unparseable", "refused", "failed", "observed", "finalized"}

-----------------------------------------------------------------------------

\* What one more step changes in the trace, seen through everything that the
\* properties ask of it.
LEMMA OneMoreStep ==
    ASSUME steps \in Seq(Step), NEW kind \in Kinds,
           NEW source \in Source \cup {"none"}, NEW stale \in BOOLEAN,
           Record(kind, source, stale)
    PROVE  /\ steps' \in Seq(Step) /\ Len(steps') = Len(steps) + 1
           /\ StepsOf(kind)' = StepsOf(kind) \cup {Len(steps')}
           /\ \A k \in Kinds \ {kind} : StepsOf(k)' = StepsOf(k)
           /\ \A i \in DOMAIN steps : i \in DOMAIN steps' /\ steps'[i] = steps[i]
           /\ steps'[Len(steps')].source = source
           /\ (\E i \in DOMAIN steps' : steps'[i].stale)
                 <=> stale \/ \E i \in DOMAIN steps : steps[i].stale
<1> DEFINE new == [kind |-> kind, source |-> source, stale |-> stale]
<1>1. new \in Step
  BY DEF Step, Kinds
<1>2. /\ steps' \in Seq(Step) /\ Len(steps') = Len(steps) + 1
      /\ DOMAIN steps' = DOMAIN steps \cup {Len(steps')}
      /\ \A i \in DOMAIN steps : steps'[i] = steps[i]
      /\ steps'[Len(steps')] = new
      /\ Len(steps') \notin DOMAIN steps
  BY <1>1 DEF Record
<1>3. new.kind = kind /\ new.source = source /\ new.stale = stale
  OBVIOUS
<1> HIDE DEF new
<1>4. StepsOf(kind)' = StepsOf(kind) \cup {Len(steps')}
  BY <1>2, <1>3 DEF StepsOf
<1>5. \A k \in Kinds \ {kind} : StepsOf(k)' = StepsOf(k)
  BY <1>2, <1>3 DEF StepsOf
<1>6. (\E i \in DOMAIN steps' : steps'[i].stale)
         <=> stale \/ \E i \in DOMAIN steps : steps[i].stale
  BY <1>2, <1>3
<1> QED
  BY <1>2, <1>3, <1>4, <1>5, <1>6

\* The steps of a kind are finitely many and can be counted.
LEMMA StepsAreFinite ==
    ASSUME steps \in Seq(Step), NEW k
    PROVE  IsFiniteSet(StepsOf(k)) /\ Cardinality(StepsOf(k)) \in Nat
<1>1. StepsOf(k) \subseteq 1 .. Len(steps) /\ Len(steps) \in Int
  BY DEF StepsOf
<1>2. IsFiniteSet(1 .. Len(steps))
  BY <1>1, FS_Interval
<1>3. IsFiniteSet(StepsOf(k))
  BY <1>1, <1>2, FS_Subset
<1> QED
  BY <1>3, FS_CardinalityType

\* What a step of any kind but a result of a tool leaves of TraceTellsAll.
LEMMA OtherStepsKeepTheEvidence ==
    ASSUME TypeOK, TraceTellsAll, NEW kind \in Kinds \ {"observed"},
           Record(kind, "none", FALSE), UNCHANGED <<args, evidence>>
    PROVE  /\ distinctSources' = {steps'[i].source : i \in StepsOf("observed")'}
           /\ anyStaleResult' <=> \E i \in DOMAIN steps' : steps'[i].stale
           /\ distinctSources' \subseteq UNION {SourcesOf[t] : t \in TOOL_MAP[claimType']}
           /\ kind # "failed" => StepsOf("failed")' = StepsOf("failed")
           /\ kind = "failed" => Cardinality(StepsOf("failed"))'
                                    = Cardinality(StepsOf("failed")) + 1
<1>1. /\ StepsOf(kind)' = StepsOf(kind) \cup {Len(steps')}
      /\ \A k \in Kinds \ {kind} : StepsOf(k)' = StepsOf(k)
      /\ \A i \in DOMAIN steps : steps'[i] = steps[i]
      /\ (\E i \in DOMAIN steps' : steps'[i].stale)
            <=> \E i \in DOMAIN steps : steps[i].stale
      /\ Len(steps') \notin DOMAIN steps
  <2>1. steps \in Seq(Step) /\ kind \in Kinds
    BY DEF TypeOK
  <2>2. Len(steps') = Len(steps) + 1
    BY <2>1, OneMoreStep
  <2>3. Len(steps') \notin DOMAIN steps
    BY <2>1, <2>2
  <2> QED
    BY <2>1, <2>3, OneMoreStep
<1>2. StepsOf("observed")' = StepsOf("observed") /\ StepsOf("observed") \subseteq DOMAIN steps
  BY <1>1 DEF Kinds, StepsOf
<1>3. {steps'[i].source : i \in StepsOf("observed")'}
        = {steps[i].source : i \in StepsOf("observed")}
  BY <1>1, <1>2
<1>4. kind # "failed" => StepsOf("failed")' = StepsOf("failed")
  BY <1>1 DEF Kinds
<1>5. ASSUME kind = "failed"
      PROVE  Cardinality(StepsOf("failed"))' = Cardinality(StepsOf("failed")) + 1
  <2>1. StepsOf("failed")' = StepsOf("failed") \cup {Len(steps')}
    BY <1>1, <1>5
  <2>2. Len(steps') \notin StepsOf("failed")
    BY <1>1 DEF StepsOf
  <2>3. PICK S : S = StepsOf("failed")
    OBVIOUS
  <2>4. PICK T : T = StepsOf("failed")'
    OBVIOUS
  <2>5. IsFiniteSet(S)
    BY <2>3, StepsAreFinite DEF TypeOK
  <2>6. Cardinality(T) = Cardinality(S) + 1
    <3>1. T = S \cup {Len(steps')} /\ Len(steps') \notin S
      BY <2>1, <2>2, <2>3, <2>4
    <3> QED
      BY <2>5, <3>1, FS_AddElement
  <2> QED
    BY <2>3, <2>4, <2>6
<1> QED
  BY <1>1, <1>3, <1>4, <1>5 DEF TraceTellsAll, args, evidence

\* The evidence stays as it is while the trace does.
LEMMA NoStepKeepsTheEvidence ==
    ASSUME TraceTellsAll, UNCHANGED <<args, steps, stepNum, evidence>>,
           errorRows'.failed = errorRows.failed, phase # "done"
    PROVE  TraceTellsAll' /\ \A k : StepsOf(k)' = StepsOf(k)
BY DEF TraceTellsAll, StepsOf, args, evidence

\* Without a verdict and without a reason nothing has to be shown.
LEMMA UndecidedIsFine ==
    ASSUME final' = Undecided
    PROVE  VerdictsAreEarned' /\ AbstentionsAreExplained'
BY DEF VerdictsAreEarned, AbstentionsAreExplained, Undecided, Final

LEMMA InitInv == Init => Inv
<1> SUFFICES ASSUME Init PROVE Inv
  OBVIOUS
<1>1. \A k : StepsOf(k) = {}
  BY DEF Init, StepsOf
<1>2. Cardinality({}) = 0 /\ IsFiniteSet({})
  BY FS_EmptySet
<1>3. TypeOK
  <2>1. temperament \in Temperaments /\ temperament.maxSteps \in Nat
    BY LoopAssumption DEF Init, Temperament
  <2>2. steps \in Seq(Step) /\ Len(steps) = 0
    BY DEF Init
  <2>3. errorRows \in [model : {0, 1}, retried : Nat, failed : Nat]
    BY DEF Init
  <2>4. final \in [decision : {"none", "VALID", "REJECTED", "ABSTAIN"},
                   confidenceBps : Int,
                   reason : {"none", "TIER3_OVERRIDE", "STEP_BUDGET", "TOOL_FAILURE",
                             "COST_CAPPED", "MODEL_ABSTAIN", "BELOW_THRESHOLD",
                             "STALE_SINGLE_SOURCE"}]
    BY DEF Init, Undecided, Final
  <2>5. stepNum \in 0 .. temperament.maxSteps /\ Len(steps) <= temperament.maxSteps
    BY <2>1, <2>2 DEF Init
  <2>6. distinctSources \subseteq Source /\ anyStaleResult \in BOOLEAN
    BY DEF Init
  <2>7. /\ phase \in {"start", "think", "tool", "retry", "done"}
        /\ tool \in ToolName \cup {"none"}
        /\ claimType \in ClaimType /\ toolFailureRetries \in {0, 1} /\ spentUsd \in Nat
    BY DEF Init
  <2> QED
    BY <2>1, <2>2, <2>3, <2>4, <2>5, <2>6, <2>7 DEF TypeOK
<1>4. TraceTellsAll
  <2>1. Len(steps) = 0 /\ DOMAIN steps = {} /\ stepNum = 0
    BY DEF Init
  <2>2. {steps[i].source : i \in StepsOf("observed")} = {}
    BY <1>1
  <2>3. errorRows.failed = 0 /\ distinctSources = {} /\ ~anyStaleResult
    BY DEF Init
  <2> QED
    BY <1>1, <1>2, <2>1, <2>2, <2>3 DEF TraceTellsAll
<1>5. Waiting
  <2>1. /\ phase = "start" /\ final = Undecided /\ spentUsd = 0 /\ stepNum = 0
        /\ toolFailureRetries = 0 /\ distinctSources = {}
    BY DEF Init
  <2>2. errorRows.model = 0
    BY DEF Init
  <2>3. spentUsd <= MaxUsd
    BY <2>1, LoopAssumption
  <2> QED
    BY <1>1, <1>2, <2>1, <2>2, <2>3 DEF Waiting
<1>6. VerdictsAreEarned /\ AbstentionsAreExplained
  BY DEF Init, VerdictsAreEarned, AbstentionsAreExplained, Undecided, Final
<1> QED
  BY <1>3, <1>4, <1>5, <1>6 DEF Inv

-----------------------------------------------------------------------------
(* The steps that leave the trace alone *)

LEMMA BeginInv == Inv /\ Begin => Inv'
<1> SUFFICES ASSUME Inv, Begin PROVE Inv'
  OBVIOUS
<1> USE DEF Inv
<1>1. TraceTellsAll' /\ \A k : StepsOf(k)' = StepsOf(k)
  BY NoStepKeepsTheEvidence DEF Begin
<1>2. CASE TIER_MAP[claimType] = 3
  <2>1. /\ final' = Final("ABSTAIN", 0, "TIER3_OVERRIDE") /\ phase' = "done" /\ tool' = "none"
        /\ UNCHANGED <<claimType, temperament, stepNum, steps, toolFailureRetries,
                       spentUsd, distinctSources, anyStaleResult, errorRows>>
    BY <1>2 DEF Begin, Return, args, evidence
  <2>2. steps = <<>>
    BY DEF Begin, TypeOK, Waiting, TraceTellsAll
  <2>3. TypeOK'
    BY <2>1 DEF TypeOK, Final
  <2>4. Waiting' /\ VerdictsAreEarned'
    BY <2>1 DEF Waiting, VerdictsAreEarned, Final
  <2>5. AbstentionsAreExplained'
    BY <1>2, <2>1, <2>2 DEF Begin, Waiting, AbstentionsAreExplained, Final
  <2> QED
    BY <1>1, <2>3, <2>4, <2>5
<1>3. CASE TIER_MAP[claimType] # 3
  <2>1. /\ phase = "start" /\ phase' = "think"
        /\ UNCHANGED <<claimType, temperament, stepNum, tool, steps, toolFailureRetries,
                       spentUsd, distinctSources, anyStaleResult, errorRows, final>>
    BY <1>3 DEF Begin, args, evidence
  <2>2. TypeOK'
    BY <2>1 DEF TypeOK
  <2>3. Waiting'
    BY <1>1, <1>3, <2>1 DEF Waiting
  <2>4. final' = Undecided
    BY <2>1 DEF Waiting
  <2> QED
    BY <1>1, <2>2, <2>3, <2>4, UndecidedIsFine
<1> QED
  BY <1>2, <1>3

LEMMA BudgetExhaustedInv == Inv /\ BudgetExhausted => Inv'
<1> SUFFICES ASSUME Inv, BudgetExhausted PROVE Inv'
  OBVIOUS
<1> USE DEF Inv
<1>1. TraceTellsAll' /\ \A k : StepsOf(k)' = StepsOf(k)
  BY NoStepKeepsTheEvidence DEF BudgetExhausted
<1>2. /\ phase = "think" /\ ~HasBudget
      /\ final' = Final("ABSTAIN", 0, "STEP_BUDGET") /\ phase' = "done" /\ tool' = "none"
      /\ UNCHANGED <<claimType, temperament, stepNum, steps, toolFailureRetries,
                     spentUsd, distinctSources, anyStaleResult, errorRows>>
  BY DEF BudgetExhausted, Return, args, evidence
<1>3. TypeOK'
  BY <1>2 DEF TypeOK, Final
<1>4. Waiting' /\ VerdictsAreEarned'
  BY <1>2 DEF Waiting, VerdictsAreEarned, Final
<1>5. Len(steps) = temperament.maxSteps
  BY <1>2, LoopAssumption DEF HasBudget, TypeOK, TraceTellsAll, Temperament
<1>6. AbstentionsAreExplained'
  BY <1>1, <1>2, <1>5 DEF Waiting, AbstentionsAreExplained, Final
<1> QED
  BY <1>1, <1>3, <1>4, <1>6

LEMMA ModelThrowsInv == Inv /\ ModelThrows => Inv'
<1> SUFFICES ASSUME Inv, ModelThrows PROVE Inv'
  OBVIOUS
<1> USE DEF Inv
<1>1. /\ phase = "think" /\ errorRows.model = 0
      /\ errorRows'.model = 1 /\ errorRows' = [errorRows EXCEPT !.model = 1]
      /\ final' = Final("ABSTAIN", 0, "TOOL_FAILURE") /\ phase' = "done" /\ tool' = "none"
      /\ UNCHANGED <<claimType, temperament, stepNum, steps, toolFailureRetries,
                     spentUsd, distinctSources, anyStaleResult>>
  BY DEF ModelThrows, Return, args, evidence, Waiting, TypeOK
<1>2. errorRows' \in [model : {0, 1}, retried : Nat, failed : Nat]
      /\ errorRows'.failed = errorRows.failed
  BY <1>1 DEF TypeOK
<1>3. TraceTellsAll' /\ \A k : StepsOf(k)' = StepsOf(k)
  BY <1>1, <1>2, NoStepKeepsTheEvidence DEF args, evidence
<1>4. TypeOK'
  BY <1>1, <1>2 DEF TypeOK, Final
<1>5. Waiting' /\ VerdictsAreEarned' /\ AbstentionsAreExplained'
  BY <1>1 DEF Waiting, VerdictsAreEarned, AbstentionsAreExplained, Final
<1> QED
  BY <1>3, <1>4, <1>5

LEMMA CostCappedInv == Inv /\ CostCapped => Inv'
<1> SUFFICES ASSUME Inv, CostCapped PROVE Inv'
  OBVIOUS
<1> USE DEF Inv
<1>1. TraceTellsAll' /\ \A k : StepsOf(k)' = StepsOf(k)
  BY NoStepKeepsTheEvidence DEF CostCapped
<1>2. /\ spentUsd' \in Nat /\ spentUsd' > MaxUsd
      /\ final' = Final("ABSTAIN", 0, "COST_CAPPED") /\ phase' = "done" /\ tool' = "none"
      /\ UNCHANGED <<claimType, temperament, stepNum, steps, toolFailureRetries,
                     distinctSources, anyStaleResult, errorRows>>
  BY LoopAssumption DEF CostCapped, Capped, Return, args, evidence, TypeOK
<1>3. TypeOK'
  BY <1>2 DEF TypeOK, Final
<1>4. Waiting' /\ VerdictsAreEarned' /\ AbstentionsAreExplained'
  BY <1>2 DEF Waiting, VerdictsAreEarned, AbstentionsAreExplained, Final
<1> QED
  BY <1>1, <1>3, <1>4

\* An answer that is paid for keeps the run within the cap.
LEMMA AnsweredStaysWithinTheCap ==
    ASSUME TypeOK, Answered
    PROVE  /\ phase = "think" /\ stepNum < temperament.maxSteps
           /\ spentUsd' \in Nat /\ spentUsd' <= MaxUsd
BY LoopAssumption DEF TypeOK, Answered, HasBudget, Capped

LEMMA CallToolInv == Inv /\ CallTool => Inv'
<1> SUFFICES ASSUME Inv, CallTool PROVE Inv'
  OBVIOUS
<1> USE DEF Inv
<1>1. /\ phase = "think" /\ stepNum < temperament.maxSteps
      /\ spentUsd' \in Nat /\ spentUsd' <= MaxUsd
  BY AnsweredStaysWithinTheCap DEF CallTool
<1>2. /\ phase' = "tool" /\ tool' \in TOOL_MAP[claimType]
      /\ UNCHANGED <<claimType, temperament, stepNum, steps, toolFailureRetries,
                     distinctSources, anyStaleResult, errorRows, final>>
  BY DEF CallTool, args, evidence
<1>3. TraceTellsAll' /\ \A k : StepsOf(k)' = StepsOf(k)
  BY <1>1, <1>2, NoStepKeepsTheEvidence DEF args, evidence
<1>4. tool' \in ToolName
  BY <1>2 DEF TypeOK, ClaimType, TOOL_MAP, ToolName
<1>5. TypeOK'
  BY <1>1, <1>2, <1>4 DEF TypeOK
<1>6. Waiting'
  BY <1>1, <1>2, <1>3 DEF Waiting
<1>7. final' = Undecided
  BY <1>1, <1>2 DEF Waiting
<1> QED
  BY <1>3, <1>5, <1>6, <1>7, UndecidedIsFine

LEMMA ToolRetriesInv == Inv /\ ToolRetries => Inv'
<1> SUFFICES ASSUME Inv, ToolRetries PROVE Inv'
  OBVIOUS
<1> USE DEF Inv
<1>1. /\ phase = "tool" /\ phase' = "retry"
      /\ errorRows' \in [model : {0, 1}, retried : Nat, failed : Nat]
      /\ errorRows'.failed = errorRows.failed /\ errorRows'.model = errorRows.model
      /\ UNCHANGED <<claimType, temperament, stepNum, tool, steps, toolFailureRetries,
                     spentUsd, distinctSources, anyStaleResult, final>>
  BY DEF ToolRetries, args, evidence, TypeOK
<1>2. TraceTellsAll' /\ \A k : StepsOf(k)' = StepsOf(k)
  BY <1>1, NoStepKeepsTheEvidence DEF args, evidence
<1>3. TypeOK'
  BY <1>1 DEF TypeOK
<1>4. Waiting'
  BY <1>1, <1>2 DEF Waiting
<1>5. final' = Undecided
  BY <1>1 DEF Waiting
<1> QED
  BY <1>2, <1>3, <1>4, <1>5, UndecidedIsFine

-----------------------------------------------------------------------------
(* The steps that the trace records *)

\* A turn that shows the model nothing but a correction.
LEMMA CorrectionInv ==
    ASSUME Inv, Answered, NEW kind \in {"unparseable", "refused"},
           Record(kind, "none", FALSE), Continue,
           UNCHANGED <<args, toolFailureRetries, evidence, errorRows>>
    PROVE  Inv'
<1> USE DEF Inv
<1>1. /\ phase = "think" /\ stepNum < temperament.maxSteps
      /\ spentUsd' \in Nat /\ spentUsd' <= MaxUsd
  BY AnsweredStaysWithinTheCap
<1>2. /\ phase' = "think" /\ tool' = "none" /\ stepNum' = stepNum + 1
      /\ UNCHANGED <<claimType, temperament, toolFailureRetries,
                     distinctSources, anyStaleResult, errorRows, final>>
  BY DEF Continue, NextStep, args, evidence
<1>3. /\ steps' \in Seq(Step) /\ Len(steps') = Len(steps) + 1
      /\ StepsOf("finalized")' = StepsOf("finalized")
      /\ StepsOf("failed")' = StepsOf("failed")
  <2>1. /\ steps \in Seq(Step) /\ kind \in Kinds
        /\ "finalized" \in Kinds \ {kind} /\ "failed" \in Kinds \ {kind}
    BY DEF Kinds, TypeOK
  <2> QED
    BY <2>1, OneMoreStep
<1>4. Len(steps) = stepNum /\ temperament.maxSteps \in Nat
  BY <1>1, LoopAssumption DEF TypeOK, TraceTellsAll, Temperament
<1>5. TypeOK'
  BY <1>1, <1>2, <1>3, <1>4 DEF TypeOK
<1>6. TraceTellsAll'
  BY <1>2, <1>3, <1>4, OtherStepsKeepTheEvidence DEF Kinds, TraceTellsAll
<1>7. Waiting'
  BY <1>1, <1>2, <1>3 DEF Waiting
<1>8. final' = Undecided
  BY <1>1, <1>2 DEF Waiting
<1> QED
  BY <1>5, <1>6, <1>7, <1>8, UndecidedIsFine

LEMMA ToolReturnsInv == Inv /\ ToolReturns => Inv'
<1> SUFFICES ASSUME Inv, ToolReturns PROVE Inv'
  OBVIOUS
<1> USE DEF Inv
<1>1. PICK source \in SourcesOf[tool], stale \in BOOLEAN :
         /\ Record("observed", source, stale)
         /\ distinctSources' = distinctSources \cup {source}
         /\ anyStaleResult' = (anyStaleResult \/ stale)
  BY DEF ToolReturns, StaleAfter
<1>2. /\ phase \in {"tool", "retry"} /\ tool \in TOOL_MAP[claimType]
      /\ stepNum < temperament.maxSteps
      /\ phase' = "think" /\ tool' = "none" /\ stepNum' = stepNum + 1
      /\ UNCHANGED <<claimType, temperament, toolFailureRetries, spentUsd,
                     errorRows, final>>
  BY DEF ToolReturns, Continue, NextStep, args, Waiting
<1>3. tool \in ToolName
  BY <1>2 DEF TypeOK, ClaimType, TOOL_MAP, ToolName
<1>4. source \in Source
  BY <1>3 DEF Source
<1>5. /\ steps' \in Seq(Step) /\ Len(steps') = Len(steps) + 1
      /\ StepsOf("observed")' = StepsOf("observed") \cup {Len(steps')}
      /\ StepsOf("finalized")' = StepsOf("finalized")
      /\ StepsOf("failed")' = StepsOf("failed")
      /\ \A i \in DOMAIN steps : steps'[i] = steps[i]
      /\ steps'[Len(steps')].source = source
      /\ (\E i \in DOMAIN steps' : steps'[i].stale)
            <=> stale \/ \E i \in DOMAIN steps : steps[i].stale
  BY <1>1, <1>4, OneMoreStep DEF Kinds, TypeOK
<1>6. Len(steps) = stepNum /\ temperament.maxSteps \in Nat
  BY <1>2, LoopAssumption DEF TypeOK, TraceTellsAll, Temperament
<1>7. TypeOK'
  BY <1>1, <1>2, <1>4, <1>5, <1>6 DEF TypeOK
<1>8. TraceTellsAll'
  <2>1. StepsOf("observed") \subseteq DOMAIN steps
    BY DEF StepsOf
  <2>2. {steps'[i].source : i \in StepsOf("observed")'}
          = {steps[i].source : i \in StepsOf("observed")} \cup {source}
    BY <1>5, <2>1
  <2>3. distinctSources' \subseteq UNION {SourcesOf[t] : t \in TOOL_MAP[claimType]}
    BY <1>1, <1>2 DEF TraceTellsAll
  <2> QED
    BY <1>1, <1>2, <1>5, <1>6, <2>2, <2>3 DEF TraceTellsAll
<1>9. Waiting'
  <2>1. IsFiniteSet(distinctSources')
    BY <1>1, FS_AddElement DEF Waiting
  <2> QED
    BY <1>2, <1>5, <2>1 DEF Waiting
<1>10. final' = Undecided
  BY <1>2 DEF Waiting
<1> QED
  BY <1>7, <1>8, <1>9, <1>10, UndecidedIsFine

LEMMA ToolFailsInv == Inv /\ ToolFails => Inv'
<1> SUFFICES ASSUME Inv, ToolFails PROVE Inv'
  OBVIOUS
<1> USE DEF Inv
<1>1. /\ phase \in {"tool", "retry"} /\ stepNum < temperament.maxSteps
      /\ Record("failed", "none", FALSE)
      /\ UNCHANGED <<claimType, temperament, spentUsd, distinctSources, anyStaleResult>>
  BY DEF ToolFails, Waiting, args, evidence
<1>2. /\ errorRows' \in [model : {0, 1}, retried : Nat, failed : Nat]
      /\ errorRows'.failed = errorRows.failed + 1 /\ errorRows'.model = errorRows.model
  BY DEF ToolFails, ClosingRow, TypeOK
<1>3. /\ steps' \in Seq(Step) /\ Len(steps') = Len(steps) + 1
      /\ StepsOf("finalized")' = StepsOf("finalized")
  BY <1>1, OneMoreStep DEF Kinds, TypeOK
<1>4. Cardinality(StepsOf("failed"))' = Cardinality(StepsOf("failed")) + 1
  BY <1>1, OtherStepsKeepTheEvidence DEF Kinds, args, evidence
<1>5. Len(steps) = stepNum /\ temperament.maxSteps \in Nat
  BY <1>1, LoopAssumption DEF TypeOK, TraceTellsAll, Temperament
<1>6. Cardinality(StepsOf("failed")) = toolFailureRetries
  BY <1>1 DEF Waiting
<1>7. phase' # "done" => Len(steps') = stepNum'
  BY <1>3, <1>5 DEF ToolFails, Continue, NextStep, Return
<1>8. TraceTellsAll'
  <2>1. /\ distinctSources' = {steps'[i].source : i \in StepsOf("observed")'}
        /\ anyStaleResult' <=> \E i \in DOMAIN steps' : steps'[i].stale
        /\ distinctSources' \subseteq UNION {SourcesOf[t] : t \in TOOL_MAP[claimType']}
    BY <1>1, OtherStepsKeepTheEvidence DEF Kinds, args, evidence
  <2> QED
    BY <1>2, <1>4, <1>7, <2>1 DEF TraceTellsAll
<1>9. CASE toolFailureRetries < 1
  <2>1. /\ phase' = "think" /\ tool' = "none" /\ stepNum' = stepNum + 1
        /\ toolFailureRetries' = toolFailureRetries + 1 /\ final' = final
    BY <1>9 DEF ToolFails, MayCorrect, Continue, NextStep
  <2>2. TypeOK'
    BY <1>1, <1>2, <1>3, <1>5, <1>9, <2>1 DEF TypeOK
  <2>3. Waiting'
    BY <1>1, <1>2, <1>3, <1>4, <2>1 DEF Waiting
  <2>4. final' = Undecided
    BY <1>1, <2>1 DEF Waiting
  <2> QED
    BY <1>8, <2>2, <2>3, <2>4, UndecidedIsFine
<1>10. CASE ~(toolFailureRetries < 1)
  <2>1. /\ phase' = "done" /\ tool' = "none" /\ stepNum' = stepNum
        /\ toolFailureRetries' = toolFailureRetries
        /\ final' = Final("ABSTAIN", 0, "TOOL_FAILURE")
    BY <1>10 DEF ToolFails, MayCorrect, Return
  <2>2. TypeOK'
    BY <1>1, <1>2, <1>3, <1>5, <2>1 DEF TypeOK, Final
  <2>3. Cardinality(StepsOf("failed"))' = 2
    BY <1>4, <1>6, <1>10 DEF TypeOK
  <2>4. Waiting' /\ VerdictsAreEarned' /\ AbstentionsAreExplained'
    BY <1>1, <2>1, <2>3 DEF Waiting, VerdictsAreEarned, AbstentionsAreExplained, Final
  <2> QED
    BY <1>8, <2>2, <2>4
<1> QED
  BY <1>9, <1>10

\* Two sources by count are two sources by name.
LEMMA TwoElements ==
    ASSUME NEW S, IsFiniteSet(S), ~(Cardinality(S) < 2)
    PROVE  \E a, b \in S : a # b
<1> SUFFICES ASSUME \A a, b \in S : a = b PROVE FALSE
  OBVIOUS
<1>1. CASE S = {}
  BY <1>1, FS_EmptySet
<1>2. CASE S # {}
  <2>1. PICK a \in S : S = {a}
    BY <1>2
  <2> QED
    BY <2>1, FS_Singleton
<1> QED
  BY <1>1, <1>2

LEMMA FinalizeInv == Inv /\ Finalize => Inv'
<1> SUFFICES ASSUME Inv, Finalize PROVE Inv'
  OBVIOUS
<1> USE DEF Inv
<1>1. PICK decision \in {"VALID", "REJECTED", "ABSTAIN"}, confidenceBps \in Confidences :
         Return(Verdict(decision, confidenceBps))
  BY DEF Finalize
<1>2. /\ phase = "think" /\ stepNum < temperament.maxSteps
      /\ spentUsd' \in Nat /\ spentUsd' <= MaxUsd
  BY AnsweredStaysWithinTheCap DEF Finalize
<1>3. /\ phase' = "done" /\ tool' = "none" /\ final' = Verdict(decision, confidenceBps)
      /\ Record("finalized", "none", FALSE)
      /\ UNCHANGED <<claimType, temperament, stepNum, toolFailureRetries,
                     distinctSources, anyStaleResult, errorRows>>
  BY <1>1 DEF Finalize, Return, args, evidence
<1>4. /\ steps' \in Seq(Step) /\ Len(steps') = Len(steps) + 1
      /\ StepsOf("finalized")' = StepsOf("finalized") \cup {Len(steps')}
      /\ StepsOf("failed")' = StepsOf("failed")
      /\ StepsOf("observed")' = StepsOf("observed")
      /\ \A i \in DOMAIN steps : steps'[i] = steps[i]
      /\ (\E i \in DOMAIN steps' : steps'[i].stale)
            <=> \E i \in DOMAIN steps : steps[i].stale
  BY <1>3, OneMoreStep DEF Kinds, TypeOK
<1>5. StepsOf("finalized")' = {Len(steps')}
  BY <1>2, <1>4 DEF Waiting
<1>6. Len(steps) = stepNum /\ temperament.maxSteps \in Nat /\ TIER_MAP[claimType] # 3
  BY <1>2, LoopAssumption DEF TypeOK, TraceTellsAll, Waiting, Temperament
<1>7. \/ /\ decision = "ABSTAIN"
         /\ final' = Final("ABSTAIN", confidenceBps, "MODEL_ABSTAIN")
      \/ /\ BelowThreshold(confidenceBps)
         /\ final' = Final("ABSTAIN", confidenceBps, "BELOW_THRESHOLD")
      \/ /\ StaleSingleSource
         /\ final' = Final("ABSTAIN", confidenceBps, "STALE_SINGLE_SOURCE")
      \/ /\ decision \in {"VALID", "REJECTED"}
         /\ ~BelowThreshold(confidenceBps) /\ ~StaleSingleSource
         /\ final' = Final(decision, confidenceBps, "none")
  BY <1>3, <1>6 DEF Verdict
<1>8. TypeOK'
  <2>1. final' \in [decision : {"none", "VALID", "REJECTED", "ABSTAIN"},
                   confidenceBps : Int,
                   reason : {"none", "TIER3_OVERRIDE", "STEP_BUDGET", "TOOL_FAILURE",
                             "COST_CAPPED", "MODEL_ABSTAIN", "BELOW_THRESHOLD",
                             "STALE_SINGLE_SOURCE"}]
    BY <1>7, LoopAssumption DEF Final
  <2> QED
    BY <1>2, <1>3, <1>4, <1>6, <2>1 DEF TypeOK
<1>9. TraceTellsAll'
  BY <1>3, <1>4, OtherStepsKeepTheEvidence DEF Kinds, TraceTellsAll, args, evidence
<1>10. Waiting'
  BY <1>3 DEF Waiting
<1>11. AbstentionsAreExplained'
  BY <1>5, <1>7 DEF AbstentionsAreExplained, Final
<1>12. VerdictsAreEarned'
  <2> SUFFICES ASSUME final'.decision \in {"VALID", "REJECTED"}
               PROVE  /\ final'.confidenceBps >= temperament.thresholdBps
                      /\ Cardinality(StepsOf("failed")) <= 1
                      /\ (temperament.abstainOnStale /\ \E i \in DOMAIN steps : steps[i].stale) =>
                            \E i, j \in StepsOf("observed") : steps[i].source # steps[j].source
    <3>1. StepsOf("observed") \subseteq DOMAIN steps
      BY DEF StepsOf
    <3> QED
      BY <1>2, <1>3, <1>4, <1>5, <1>6, <3>1 DEF VerdictsAreEarned
  <2>1. /\ ~BelowThreshold(confidenceBps) /\ ~StaleSingleSource
        /\ final'.confidenceBps = confidenceBps
    BY <1>7 DEF Final
  <2>2. final'.confidenceBps >= temperament.thresholdBps
    BY <2>1, LoopAssumption DEF BelowThreshold, TypeOK, Temperament
  <2>3. Cardinality(StepsOf("failed")) <= 1
    BY <1>2 DEF Waiting, TypeOK
  <2>4. ASSUME temperament.abstainOnStale, \E i \in DOMAIN steps : steps[i].stale
        PROVE  \E i, j \in StepsOf("observed") : steps[i].source # steps[j].source
    <3>1. ~(Cardinality(distinctSources) < 2) /\ IsFiniteSet(distinctSources)
      BY <2>1, <2>4 DEF StaleSingleSource, TraceTellsAll, Waiting
    <3>2. \E a, b \in distinctSources : a # b
      BY <3>1, TwoElements
    <3> QED
      BY <3>2 DEF TraceTellsAll
  <2> QED
    BY <2>2, <2>3, <2>4
<1> QED
  BY <1>8, <1>9, <1>10, <1>11, <1>12

-----------------------------------------------------------------------------
(* The theorems *)

\* Nothing happens to a run that has resolved.
LEMMA StutterInv == Inv /\ UNCHANGED vars => Inv'
<1> SUFFICES ASSUME Inv, UNCHANGED vars PROVE Inv'
  OBVIOUS
<1>1. /\ UNCHANGED <<claimType, temperament, phase, stepNum, tool, steps,
                     toolFailureRetries, spentUsd, distinctSources, anyStaleResult,
                     errorRows, final>>
      /\ \A k : StepsOf(k)' = StepsOf(k)
  BY DEF vars, args, evidence, StepsOf
<1>2. TypeOK'
  BY <1>1 DEF Inv, TypeOK
<1>3. TraceTellsAll'
  BY <1>1 DEF Inv, TraceTellsAll
<1>4. Waiting'
  BY <1>1 DEF Inv, Waiting
<1>5. VerdictsAreEarned'
  BY <1>1 DEF Inv, VerdictsAreEarned
<1>6. AbstentionsAreExplained'
  BY <1>1 DEF Inv, AbstentionsAreExplained
<1> QED
  BY <1>2, <1>3, <1>4, <1>5, <1>6 DEF Inv

LEMMA NextInv == Inv /\ [Next]_vars => Inv'
<1> SUFFICES ASSUME Inv, [Next]_vars PROVE Inv'
  OBVIOUS
<1>1. CASE Begin            BY <1>1, BeginInv
<1>2. CASE BudgetExhausted  BY <1>2, BudgetExhaustedInv
<1>3. CASE ModelThrows      BY <1>3, ModelThrowsInv
<1>4. CASE CostCapped       BY <1>4, CostCappedInv
<1>5. CASE Unparseable      BY <1>5, CorrectionInv DEF Unparseable
<1>6. CASE Finalize         BY <1>6, FinalizeInv
<1>7. CASE Refuse           BY <1>7, CorrectionInv DEF Refuse
<1>8. CASE CallTool         BY <1>8, CallToolInv
<1>9. CASE ToolReturns      BY <1>9, ToolReturnsInv
<1>10. CASE ToolRetries     BY <1>10, ToolRetriesInv
<1>11. CASE ToolFails       BY <1>11, ToolFailsInv
<1>12. CASE Resolved        BY <1>12, StutterInv DEF Resolved
<1>13. CASE UNCHANGED vars  BY <1>13, StutterInv
<1> QED
  BY <1>1, <1>2, <1>3, <1>4, <1>5, <1>6, <1>7, <1>8, <1>9, <1>10, <1>11, <1>12,
     <1>13 DEF Next

LEMMA Invariance == Spec => []Inv
BY InitInv, NextInv, PTL DEF Spec

\* Types: for any temperament, tools and costs the trace of runLoop stays
\* within the step budget and its counters within their ranges.
THEOREM LoopTypeCorrect == Spec => []TypeOK
<1>1. Inv => TypeOK
  BY DEF Inv
<1> QED
  BY <1>1, Invariance, PTL

\* What the hard rules of runLoop look at is what the published trace shows.
THEOREM TracesTellAll == Spec => []TraceTellsAll
<1>1. Inv => TraceTellsAll
  BY DEF Inv
<1> QED
  BY <1>1, Invariance, PTL

\* No answer of the model and no order of failures gets a verdict past the
\* hard rules of runLoop.
THEOREM VerdictsAreAlwaysEarned == Spec => []VerdictsAreEarned
<1>1. Inv => VerdictsAreEarned
  BY DEF Inv
<1> QED
  BY <1>1, Invariance, PTL

\* Every abstention of runLoop gives a reason that the trace bears out.
THEOREM AbstentionsAreAlwaysExplained == Spec => []AbstentionsAreExplained
<1>1. Inv => AbstentionsAreExplained
  BY DEF Inv
<1> QED
  BY <1>1, Invariance, PTL

\* The ways a step can turn: on to a tool, to its second attempt, to the next
\* pass of the loop, or to the end.
Turn ==
    /\ temperament' = temperament
    /\ \/ phase # "done" /\ phase' = "done"
       \/ phase = "start" /\ phase' = "think" /\ stepNum' = stepNum
       \/ phase = "think" /\ phase' = "tool" /\ stepNum' = stepNum
       \/ phase = "tool" /\ phase' = "retry" /\ stepNum' = stepNum
       \/ /\ phase \in {"think", "tool", "retry"} /\ phase' = "think"
          /\ stepNum < temperament.maxSteps /\ stepNum' = stepNum + 1

LEMMA NextTurns == Inv /\ [Next]_vars => Turn \/ UNCHANGED vars
<1> SUFFICES ASSUME Inv, Next PROVE Turn \/ UNCHANGED vars
  OBVIOUS
<1>1. CASE Begin \/ BudgetExhausted \/ ModelThrows \/ CostCapped
  BY <1>1 DEF Begin, BudgetExhausted, ModelThrows, CostCapped, Return, args, Turn
<1>2. CASE Unparseable \/ Finalize \/ Refuse \/ CallTool
  BY <1>2 DEF Unparseable, Finalize, Refuse, CallTool, Answered, HasBudget, Continue,
              NextStep, Return, args, Turn
<1>3. CASE ToolReturns \/ ToolRetries \/ ToolFails
  BY <1>3 DEF Inv, Waiting, ToolReturns, ToolRetries, ToolFails, Continue, NextStep,
              Return, args, Turn
<1>4. CASE Resolved
  BY <1>4 DEF Resolved
<1> QED
  BY <1>1, <1>2, <1>3, <1>4 DEF Next

LEMMA TurnsUseBudget ==
    ASSUME TypeOK, Turn
    PROVE  Remaining' < Remaining /\ Remaining' >= 0
<1> DEFINE M == temperament.maxSteps
<1>1. M \in Nat /\ M' = M /\ stepNum \in 0 .. M
  BY LoopAssumption DEF TypeOK, Temperament, Turn
<1> HIDE DEF M
<1>2. /\ phase = "start" => Remaining = 3 * M + 4
      /\ phase = "think" => Remaining = 3 * (M - stepNum) + 3
      /\ phase = "tool" => Remaining = 3 * (M - stepNum) + 2
      /\ phase = "retry" => Remaining = 3 * (M - stepNum) + 1
  BY DEF Remaining, M
<1>3. /\ phase' = "think" => Remaining' = 3 * (M - stepNum') + 3
      /\ phase' = "tool" => Remaining' = 3 * (M - stepNum') + 2
      /\ phase' = "retry" => Remaining' = 3 * (M - stepNum') + 1
      /\ phase' = "done" => Remaining' = 0
  BY DEF Remaining, M, Turn
<1>4. CASE phase' = "done" /\ phase # "done"
  BY <1>1, <1>2, <1>3, <1>4 DEF TypeOK
<1>5. CASE phase' # "done"
  BY <1>1, <1>2, <1>3, <1>5 DEF Turn, M
<1> QED
  BY <1>4, <1>5 DEF Turn

\* Every step of runLoop uses up part of a bounded budget, whatever mix of
\* unreadable answers, refusals, retries and corrections it goes through.
THEOREM LoopMakesProgress == Spec => EveryStepUsesBudget
<1>1. Inv /\ [Next]_vars => [Remaining' < Remaining /\ Remaining' >= 0]_vars
  BY NextTurns, TurnsUseBudget DEF Inv
<1> QED
  BY <1>1, Invariance, PTL DEF Spec, EveryStepUsesBudget

=============================================================================
