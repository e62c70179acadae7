\* One film in two versions, one player, two requests at a time.
CONSTANTS
    None = None
    q1 = q1  q2 = q2  i1 = i1  s1 = s1  s2 = s2  u1 = u1  u2 = u2  d1 = d1  d2 = d2
    Request = {q1, q2}
    Item = {i1}
    Source = {s1, s2}
    User = {u1}
    Device = {d1, d2}
    RedirectMode = TRUE
    UrlTtl = 2
    ShortTtl = 1
    StrmTtl = 2
    UserTtl = 1
    MaxSize = 1
    Attempts = 2
    Timeout = 1
    MaxAsk = 3
SPECIFICATION Spec
INVARIANT TypeOK ResolvedOnce AnswersFresh
PROPERTY OwnAddress
SYMMETRY Symmetric
CHECK_DEADLOCK FALSE
