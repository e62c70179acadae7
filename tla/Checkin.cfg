SPECIFICATION Spec
CONSTANTS
    Loop = {l1, l2}
    Clerk = {c1}
    LastDay = 1
    LastSlot = 1
    MaxMishaps = 2
    Retries = 2
    Default <- MCDefault
    Ranges <- MCRanges
    None = None
INVARIANT NoLockLeftBehind NoSecondPost StatusHonest NoDayMissed
SYMMETRY Perms
