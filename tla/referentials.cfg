\* Two requests or boots at once, one spool, one material, two manufacturers, one location.
CONSTANTS
    n1 = n1
    n2 = n2
    MaterialNames = {n1}
    ManufacturerNames = {n1, n2}
    NoName = NoName
    Spools = {s1}
    NoSpool = NoSpool
    Requests = {r1, r2}
    BuiltinMaterials <- SeedMaterials
    BuiltinManufacturers <- SeedManufacturers
    Ids = {1, 2, 3}
    LocationNames = {n1, n2}
    MaxLocations = 1
SPECIFICATION Spec
SYMMETRY Symmetry
INVARIANTS
    RefTypeOK
    TypedNameAttributed
    SeededHasBuiltins
    CountsOffByWrites
