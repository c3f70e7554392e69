SPECIFICATION Spec
CONSTANTS
  Accounts = {a1, a2, a3}
  Claims = {c1}
  TIERS = {1, 3}
  MIN_BOND = 2
  MAX_BOND = 2
  ATTEST_LOCK = 21
  CLAIM_FEE = 11
  MAX_ATTESTORS = 3
  DISPUTE_BOND = 5
  DISPUTE_WINDOW_SECONDS = 1
  MAX_DISPUTES = 1
  MAX_SURPLUS = 1
  MAX_EPOCH = 0
SYMMETRY Symmetry
INVARIANTS
  Solvency
  AbstainRisksNothing
  StakeLeavesForCause
PROPERTIES
  ImplementsEscrow
