SPECIFICATION FairSpec
CONSTANTS
    REFERENCE_AGENTS <- MCAgents
    HUMAN = "human"
    Runs = {1}
    Posts = {1, 2}
    Verdicts = {"VALID"}
    MaxCalls = 2
    MaxDbFailures = 2
INVARIANTS OneAnswer OneRowPerAttestor OnlyTheDatabaseFails
PROPERTY EverythingEnds
