SPECIFICATION FairSpec
CONSTANTS
    h1 = h1
    h2 = h2
    alice = alice
    bob = bob
    carol = carol
    s1 = s1
    Host = {h1, h2}
    Name = {alice, bob}
    NamesOf <- TwoUsers
    MayRestart = {}
    SessionId = {s1}
    HeartbeatInterval = 10
    PruneAge = 30
    ResendInterval = 6
    InviteMaxAge = 45
    Tick = 5
    AgeCap = 60
    MaxAsked = 2
    MaxInFlight = 2
INVARIANTS
    PendingLifetime
PROPERTIES
    FullInviteWindow
    PendingResolved
