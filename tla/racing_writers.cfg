\* Two clients race on the operations that unload, a third loads; requests in
\* flight are carried on.
CONSTANTS
    MaxNet = 2
    Locations = {}
    NoLocation = NoLocation
    Tags = {}
    NoTag = NoTag
    SpoolIds = {s1}
    SlotIds = {a1, a2}
    NoSpool = NoSpool
    NoRow = NoRow
    writer = writer
    rival = rival
    loader = loader
    Requests = {writer, rival, loader}
    Can <- RacingFinishers
SPECIFICATION FairSpec
INVARIANTS
    AutoUnload
PROPERTIES
    EventuallyUnloaded
