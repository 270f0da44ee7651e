SPECIFICATION KnowledgeSpec
CONSTANTS
    Feedback = {f1}
    InvestigationOf <- OneInvestigation
    Reviews = {v1, v2}
    Titles = {t1}
    NoFeedback = NoFeedback
    MaxRollbacks = 0
CHECK_DEADLOCK FALSE
INVARIANTS LearnsOnlyFromApproved
