\* Three tasks on two keys, any of them cancelled while it waits.
CONSTANTS
    None = None
    Task = {t1, t2, t3}
    Key = {k1, k2}
    Lock = {l1, l2, l3}
SPECIFICATION FairSpec
INVARIANT TableExact NoLostWakeup
PROPERTY ImplementsMutex EveryWaiterServed
CHECK_DEADLOCK TRUE
