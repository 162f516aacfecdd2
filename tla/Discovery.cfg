SPECIFICATION FairSpec
CONSTANTS
    h1 = h1
    h2 = h2
    other = other
    alice = alice
    bob = bob
    Host = {h1, h2}
    Address = {h1, h2, other, NoAddress}
    Name = {alice, bob}
    NamesOf <- Users
    AddressesOf <- Interfaces
    HeartbeatInterval = 10
    StaleAge = 18
    Tick = 5
    AgeCap = 40
    MaxDelay = 5
    MaxStarts <- Starts
    NoAddress = NoAddress
    NoName = NoName
    NoPeer = NoPeer
INVARIANTS
    TypeOK
    EntryLifetime
    ListedWhereTheyWere
PROPERTIES
    DroppedOnlyAfterLoss
    FreshSurvives
    GoneIsForgotten
    ListedAgain
