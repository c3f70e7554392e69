SPECIFICATION Spec
CONSTANTS
    SCALE = 12
    reconcileToleranceBps = 600
    verdictToleranceBps = 600
    minBps = 0
    maxBps = 24000
    maxStalenessDays = 10
    ASSETS <- MCAssets
    ATTESTORS <- MCAttestors
    Paths <- MCPaths
    MAX_ATTESTORS = 2
    MAX_JOBS = 2
    MAX_OTHERS = 1
INVARIANT BothAssetsAttested
CHECK_DEADLOCK FALSE
