SPECIFICATION Spec
CONSTANTS
    SCALE = 36
    Values <- MCValues
    Ages = {1, 9}
    reconcileToleranceBps = 72
    verdictToleranceBps = 72
    minBps = 36
    maxBps = 144
    maxStalenessDays = 5
    TICKS = 2
    Times = {6, 9, 12, 13}
    NOW = 22
    SharePrices = {1000000, 1000001}
    Rates = {108}
    MAX_POINTS = 3
    requestedWindowDays = 2
    MAX_SOURCES = 3
    RUNS = 3
    Decimals = {0, 1, 2}
    DEFAULT_DECIMALS = 2
    Prices = {0, 100, 104, 120}
    NavTolerances = {5}
    NODES = 2
    Figures = {0, 3, 4}
    Scales = {1, 100}
    Tolerances = {75}
    Claimed = {3, 350, 400}
INVARIANTS EveryLegBearsOut JudgedValuesAreFresh MajorityDecides NarratorIsNamed NavIsJudgedAsItIs DocumentsAreQuotedRight
CHECK_DEADLOCK FALSE
