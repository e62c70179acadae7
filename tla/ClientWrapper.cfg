\* One call at a time against two QR logins and a close; everything may fail.
CONSTANTS
    c1 = c1  l1 = l1  l2 = l2  k1 = k1  k2 = k2  k3 = k3
    None = None
    Caller = {c1}
    Login = {l1, l2}
    Cookie = {k1, k2, k3}
    Attempts = 3
    Fault = {"405", "refused", "sdk", "init"}
    MaxSwaps = 3
SPECIFICATION Spec
INVARIANT TypeOK OwnAccount NotGivenUpEarly NoPoolLeft
SYMMETRY Symmetric
CHECK_DEADLOCK FALSE
