\* One client writes spools, another loads them; nothing is aborted.
CONSTANTS
    MaxNet = 2
    Locations = {}
    NoLocation = NoLocation
    Tags = {t1}
    NoTag = NoTag
    SpoolIds = {s1, s2}
    SlotIds = {a1, a2}
    NoSpool = NoSpool
    NoRow = NoRow
    writer = writer
    rival = rival
    loader = loader
    Requests = {writer, loader}
    Can <- OneWriter
SPECIFICATION Spec
SYMMETRY WriterSymmetry
PROPERTIES
    ImplementsInventory
