\* Two clients race on every operation and may be cut off at any await.
CONSTANTS
    MaxNet = 2
    Locations = {}
    NoLocation = NoLocation
    Tags = {}
    NoTag = NoTag
    SpoolIds = {s1, s2}
    SlotIds = {a1, a2}
    NoSpool = NoSpool
    NoRow = NoRow
    writer = writer
    rival = rival
    loader = loader
    Requests = {writer, rival}
    Can <- RacingAll
SPECIFICATION FaultySpec
SYMMETRY RivalSymmetry
INVARIANTS
    TypeOK
    Exclusive
    RowsConsistent
PROPERTIES
    LoadsOnlyLoadable
