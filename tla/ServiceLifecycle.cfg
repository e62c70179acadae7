\* Two threads; the redirect service may be disabled and its port taken, and
\* everything that can fail may.
CONSTANTS
    t1 = t1  t2 = t2
    Task = {t1, t2}
    Cookie = {k1, k2}
    MaxEvents = 2
    Contested = {"p115"}
    Switched = {"p115"}
    Fault = {"unseen", "bindfail", "initfail"}
    MaxUnmade = 1
    None = None
SPECIFICATION Spec
SYMMETRY Symmetric
INVARIANT TypeOK StatusHonest OneClient NoClientLeft
CHECK_DEADLOCK FALSE
