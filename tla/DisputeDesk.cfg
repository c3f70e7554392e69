SPECIFICATION DeskSpec
CONSTANTS
  Accounts = {operator, accused}
  ChallengerKey = operator
  Calls = {k1, k2}
  MAX_RECORDS = 2
  Claims = {c1}
  TIERS = {2}
  MIN_BOND = 1
  MAX_BOND = 1
  ATTEST_LOCK = 21
  CLAIM_FEE = 11
  MAX_ATTESTORS = 1
  DISPUTE_BOND = 5
  DISPUTE_WINDOW_SECONDS = 1
  MAX_DISPUTES = 2
  MAX_SURPLUS = 0
  MAX_EPOCH = 0
SYMMETRY Symmetry
INVARIANTS EscalatedRecordsAreReal AnsweredBondsAreRecorded
PROPERTY RecordsFollowTheOpenDispute
CHECK_DEADLOCK FALSE
