\* One film, two agents, two requests at a time; every call to 115 may fail.
CONSTANTS
    None = None Failed = Failed
    q1 = q1 q2 = q2 p1 = p1 p2 = p2 a = a b = b
    Request = {q1, q2}
    Pickcode = {p1}
    Agent = {a, b}
    SamePlayback = TRUE
    Ttl = 1
    Lifetime = {1, 2}
    Fault <- AllFaults
    MaxTime = 2
    MaxAsk = 4
    MaxCopy = 2
SPECIFICATION FairSpec
INVARIANT NoDeadAddress OwnCopy NoCopyLeft
PROPERTY EveryRequestAnswered
CHECK_DEADLOCK FALSE
