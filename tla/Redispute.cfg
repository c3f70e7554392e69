SPECIFICATION FairSpec
CONSTANTS
  Accounts = {a1, a2}
  Claims = {c1}
  TIERS = {2}
  MIN_BOND = 2
  MAX_BOND = 3
  ATTEST_LOCK = 21
  CLAIM_FEE = 11
  MAX_ATTESTORS = 1
  DISPUTE_BOND = 5
  DISPUTE_WINDOW_SECONDS = 1
  MAX_DISPUTES = 2
  MAX_SURPLUS = 0
  MAX_EPOCH = 0
INVARIANTS
  DisputesAgree
  VotesBacked
PROPERTIES
  AccusedBondFrozen
  DecisionsAreFinal
  DisputesEnd
