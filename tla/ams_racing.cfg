\* One drawer, confirmations cut off, other requests at any time.
CONSTANTS
    MaxNet = 1
    Locations = {}
    NoLocation = NoLocation
    Tags = {t1}
    NoTag = NoTag
    s1 = s1
    s2 = s2
    SpoolIds = {s1, s2}
    tray1 = tray1
    tray2 = tray2
    extra = extra
    SlotIds = {tray1, tray2, other}
    NoSpool = NoSpool
    NoRow = NoRow
    Drawers = {d1}
    TrayOrder <- ThreeTrays
    Newest <- LatestSecond
    grey = grey
    Looks = {grey}
    NoLook = NoLook
    Closest <- GreyFirst
    OthersOps = {"archive", "restore"}
SPECIFICATION AmsSpec
INVARIANTS
    Exclusive
    AttributedOnce
PROPERTIES
    LoadsOnlyLoadable
