\* One drawer, requests served one at a time.
CONSTANTS
    MaxNet = 1
    Locations = {}
    NoLocation = NoLocation
    Tags = {t1, t2}
    NoTag = NoTag
    s1 = s1
    s2 = s2
    SpoolIds = {s1, s2}
    tray1 = tray1
    tray2 = tray2
    extra = extra
    SlotIds = {tray1, tray2, other}
    NoSpool = NoSpool
    NoRow = NoRow
    Drawers = {d1}
    TrayOrder <- BothTrays
    Newest <- LatestSecond
    grey = grey
    Looks = {grey}
    NoLook = NoLook
    Closest <- GreyFirst
    OthersOps = {"archive", "restore"}
SPECIFICATION SerialSpec
INVARIANTS
    RowsInEffect
    NextSyncMatches
PROPERTIES
    StepsAreAtomic
