SPECIFICATION ChecksSpec
CONSTANTS
    Sessions = {s1, s2}
    Situations <- MCSituations
CHECK_DEADLOCK FALSE
INVARIANTS ResultsWereExecuted
