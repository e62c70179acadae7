\* Two pages of files and of directories; every failure; two changes of the
\* user, at most one of them a move and one a removal.
CONSTANTS
    f1 = f1  f2 = f2  da = da  db = db
    Root = Root
    Nowhere = Nowhere
    File = {f1, f2}
    Dir = {da, db}
    PageSize = 1
    DirsPageSize = 1
    MaxDirsPages = 2
    ScanFault = {"refuse", "nocount", "short", "blank", "pickcode", "endless", "dfs",
                 "noclient", "cancel"}
    MaxChange = 2
    MaxMove = 1
    MaxRemoval = 1
SPECIFICATION ScanSpec
INVARIANT ScanTypeOK UntouchedFound PathsHeld
PROPERTY ScanEnds
CHECK_DEADLOCK FALSE
