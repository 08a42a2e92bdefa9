\* Two transactions at a time over one printer and two spools.
CONSTANTS
    p1 = p1
    e1 = e1
    k1 = k1
    k2 = k2
    PrinterIds = {p1}
    Topologies <- Edited
    SpoolIds = {s1, s2}
    Clients = {c1, c2}
    Endpoints = {e1}
    Secrets = {k1}
    NoPrinter = NoPrinter
    NoSpool = NoSpool
    NoSlot = NoSlot
    NoLink = NoLink
    NoSecret = NoSecret
    Configured = Configured
    LinksEnabled = TRUE
    HasKey = TRUE
SPECIFICATION FairSpec
INVARIANTS
    SlotsFollowTopology
    IndexNeverRefuses
    LinksFit
PROPERTIES
    LoadsMoveOrLeave
    EditsKeepLoaded
    EveryTransactionEnds
