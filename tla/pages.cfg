\* One browser reads while every command of Inventory is possible.
CONSTANTS
    MaxNet = 2
    Locations = {}
    NoLocation = NoLocation
    Tags = {}
    NoTag = NoTag
    s1 = s1
    s2 = s2
    pla = pla
    petg = petg
    acme = acme
    SpoolIds = {s1, s2}
    SlotIds = {a1, a2}
    NoSpool = NoSpool
    NoRow = NoRow
    MaterialOf <- Materials2
    ManufacturerOf <- Manufacturers2
    PriceOf <- Prices
    Found <- Terms
    NoFacet = NoFacet
    Browsers = {b1}
    Queries <- AllQueries
    Percents = {50}
    Unset = Unset
    MaxOverlaps = 1
SPECIFICATION PagesSpec
INVARIANTS
    LoadedIsLoadable
    ListAdds
    OverviewAdds
    QuietOffersFit
PROPERTIES
    UntouchedEditKeeps
