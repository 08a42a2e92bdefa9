\* A card, a synchronization or a test, two at a time, of one printer.
CONSTANTS
    Requests = {card, sync}
    NoLink = NoLink
    MaxSessions = 2
    MaxInbox = 2
SPECIFICATION FairSpec
INVARIANTS
    FailsOnlyWhenStruck
    NeverStuck
PROPERTIES
    ProbesEnd
