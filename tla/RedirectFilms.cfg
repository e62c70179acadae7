\* Two films, two agents each: their copies are made side by side.
CONSTANTS
    None = None Failed = Failed
    q1 = q1 q2 = q2 p1 = p1 p2 = p2 a = a b = b
    Request = {q1, q2}
    Pickcode = {p1, p2}
    Agent = {a, b}
    SamePlayback = TRUE
    Ttl = 2
    Lifetime = {3}
    Fault = {}
    MaxTime = 1
    MaxAsk = 4
    MaxCopy = 2
SPECIFICATION Spec
INVARIANT RightFilm
SYMMETRY Symmetric
CHECK_DEADLOCK FALSE
