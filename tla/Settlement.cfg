SPECIFICATION Spec
CONSTANTS
  Accounts = {a1, a2, a3}
  Claims = {c1, c2}
  TIERS = {1, 3}
  MIN_BOND = 2
  MAX_BOND = 2
  ATTEST_LOCK = 21
  CLAIM_FEE = 11
  MAX_ATTESTORS = 2
  DISPUTE_BOND = 5
  DISPUTE_WINDOW_SECONDS = 1
  MAX_DISPUTES = 0
  MAX_SURPLUS = 0
  MAX_EPOCH = 1
SYMMETRY Symmetry
INVARIANTS
  TypeOK
  Solvency
  StatsCountSettlements
  ClaimLifecycle
PROPERTIES
  TrustFallsOnlyWhenWrong
