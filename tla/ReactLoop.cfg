SPECIFICATION Spec
CONSTANTS
    Temperaments <- MCTemperaments
    Confidences = {6499, 7000, 8500}
    CallCosts = {0, 1, 2}
    MaxUsd = 3
    SourcesOf <- MCSourcesOf
INVARIANTS TypeOK VerdictsAreEarned AbstentionsAreExplained TraceTellsAll
