\* Two consumptions of one spool overlap.
CONSTANTS
    MaxNet = 2
    Locations = {}
    NoLocation = NoLocation
    Tags = {}
    NoTag = NoTag
    SpoolIds = {s1}
    SlotIds = {a1}
    NoSpool = NoSpool
    NoRow = NoRow
    writer = writer
    rival = rival
    loader = loader
    Requests = {writer, rival}
    Can <- RacingConsumers
SPECIFICATION Spec
PROPERTIES
    ConsumeSubtracts
