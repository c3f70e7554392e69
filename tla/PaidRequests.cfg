SPECIFICATION Spec
CONSTANTS
    Call = {c1, c2, c3}
    Payment = {p1}
    Asset = {a1, a2}
    Instance = {i1, i2}
    Extras = 2
    DbEnabled = TRUE
    LiveFlow = TRUE
    NoCall = NoCall
SYMMETRY Symmetry
INVARIANTS TypeOK OnePaymentOneClaim PaidAndRecorded RecordDecides
    NamedAttestorsHaveTraces TracesMatchAttestations
