\* Two threads, a new installation and an archive of another one; files that
\* cannot be read or written, and a process that dies.
CONSTANTS
    u1 = u1  u2 = u2  plain = plain  other = other
    s1 = s1  s2 = s2  k1 = k1  k2 = k2
    None = None  Garbled = Garbled  Cut = Cut
    User = {u1, u2}
    Setting = {plain, other}
    Factory = plain
    Secret = {s1, s2}
    Key = {k1, k2}
    Own = k1
    Import <- ForeignArchive
    Fault = {"writefail", "readfail", "keyfail", "crash"}
    MaxOps = 3
SPECIFICATION FairSpec
INVARIANT FilesOpen SecretsKept BackupsOpen MemoryIsSaved
PROPERTY AllOrNothing EveryRequestEnds
CHECK_DEADLOCK FALSE
