\* Two imports and an export at once, with rows added, saved and loaded.
CONSTANTS
    NoRef = NoRef
    Absent = Absent
    Unset = Unset
    NoFile = NoFile
    Importers = {i1, i2}
    Clients = {c1}
    Initial <- Seeded
    Fresh <- Added
    Uploads <- Forms
    Thresholds = {30}
    MaxRequests = 3
CHECK_DEADLOCK FALSE
SPECIFICATION Spec
INVARIANTS
    SchemaHolds
    AcceptedFits
    ImportedPrintersList
    ExportsValidate
PROPERTIES
    ExportsReadBack
    ImportsReplace
