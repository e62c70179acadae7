\* Nested roots, no path taken twice; runs that are cancelled, crash and fail.
CONSTANTS
    f1 = f1  f2 = f2  r1 = r1  r2 = r2
    pa = pa  pb = pb  pc1 = pc1  sa = sa  sb = sb  sc = sc  sd = sd  h1 = h1  h2 = h2
    None = None
    Torn = Torn
    File = {f1, f2}
    Root = {r1, r2}
    Pan = {pa, pb, pc1}
    Strm = {sa, sb, sc, sd}
    Sha = {h1, h2}
    Under <- Nested
    StrmAt <- TwoDirectories
    Mode = {"full", "incremental"}
    Option <- CleaningOptions
    Fault = {"cancel", "crash", "scanfail", "unlinkfail"}
    MaxChange = 3
    MaxRun = 3
SPECIFICATION Spec
INVARIANT TableMirrorsDrive RowsBackedByDisk
PROPERTY LosesOnlyScanned NoFalseDeletion
SYMMETRY Symmetric
CHECK_DEADLOCK FALSE
