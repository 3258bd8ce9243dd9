SPECIFICATION FairSpec
CONSTANTS
    c1 = c1
    c2 = c2
    Callers = {c1, c2}
    MaxSidecars = 3
    MaxRequests = 4
    PidOf <- FreshPids
    LostServiceAnswers = TRUE
INVARIANTS TypeOK SidecarsControlled KnowledgeIsTrue
PROPERTIES StoppedMeansGone RequestsReturn
