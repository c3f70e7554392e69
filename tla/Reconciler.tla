----------------------------- MODULE Reconciler -----------------------------
(***************************************************************************)
(* The decision on a yield claim (packages/agent-sdk/src/data): the legs   *)
(* an asset's sources answer, the gates of its category and the            *)
(* deterministic reconciler.                                               *)
(*                                                                         *)
(* Values are in units of 1/SCALE bps, so that the mean of two legs is an  *)
(* integer; a module with more legs asks for a finer unit. What is left    *)
(* out: floating point, windows (no check compares them) and how a fetcher *)
(* computes its leg.                                                       *)
(***************************************************************************)
EXTENDS Integers, Sequences, FiniteSetsExt, SequencesExt

CONSTANTS
    SCALE,
    reconcileToleranceBps, verdictToleranceBps,
    minBps, maxBps, maxStalenessDays    \* the gates of the asset's category

ASSUME ReconcilerAssumption ==
    /\ SCALE \in Nat \ {0} /\ SCALE % 2 = 0
    /\ reconcileToleranceBps \in Nat /\ verdictToleranceBps \in Nat
    /\ minBps \in Int /\ maxBps \in Int /\ maxStalenessDays \in Nat

Failed == [failed |-> TRUE]
Failing(x) == x = Failed

Abs(n) == IF n < 0 THEN -n ELSE n
Mean(values) == FoldSeq(+, 0, values) \div Len(values)

\* A source answers a leg or fails. An age stands for asOf, the last point of the
\* source's series, which may be newer than the value; a leg may have none.
NoStamp == -1

\* A failed source is dropped while another is left.
getYieldObservation(sources) ==
    FoldLeft(LAMBDA legs, leg : IF leg = Failed THEN legs ELSE Append(legs, leg),
             <<>>, sources)

Throws(sources) == getYieldObservation(sources) = <<>>

LegValues(legs) == [i \in DOMAIN legs |-> legs[i].valueBps]

Spread(values) == Max(Range(values)) - Min(Range(values))

reconcileLegs(values) ==
    IF Spread(values) <= reconcileToleranceBps
    THEN [agree |-> TRUE, reconciledValue |-> Mean(values)]
    ELSE Failed

deterministicVerdict(reconciled, asserted) ==
    IF Failing(reconciled) THEN "ABSTAIN"
    ELSE IF Abs(reconciled.reconciledValue - asserted) <= verdictToleranceBps
    THEN "VALID" ELSE "REJECTED"

decideTier1(values, asserted) ==
    deterministicVerdict(reconcileLegs(values), asserted)

\* The freshest leg that has a stamp.
freshnessGate(legs) ==
    LET stamped == {leg.age : leg \in {l \in Range(legs) : l.age # NoStamp}}
    IN stamped = {} \/ Min(stamped) <= maxStalenessDays

\* Fault: the mean is checked, not each leg.
boundsGateOfTheMean(legs) == Mean(LegValues(legs)) \in minBps..maxBps

boundsGate(legs) == \A leg \in Range(legs) : leg.valueBps \in minBps..maxBps

runGates(legs) == freshnessGate(legs) /\ boundsGate(legs)

\* A gate that fails forces ABSTAIN.
Judge(legs, asserted) ==
    IF runGates(legs) THEN decideTier1(LegValues(legs), asserted) ELSE "ABSTAIN"

=============================================================================
