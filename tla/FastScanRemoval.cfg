\* Two files, a page of one, and one removal while the list is read.
CONSTANTS
    f1 = f1  f2 = f2  da = da  db = db
    Root = Root
    Nowhere = Nowhere
    File = {f1, f2}
    Dir = {da}
    PageSize = 1
    DirsPageSize = 1
    MaxDirsPages = 1
    ScanFault = {}
    MaxChange = 1
    MaxMove = 0
    MaxRemoval = 1
SPECIFICATION ScanSpec
INVARIANT NothingMissed
CHECK_DEADLOCK FALSE
