SPECIFICATION Spec
CONSTANTS
    h1 = h1
    h2 = h2
    alice = alice
    bob = bob
    carol = carol
    s1 = s1
    Host = {h1, h2}
    Name = {alice, bob, carol}
    NamesOf <- ChangingUser
    MayRestart = {h2}
    SessionId = {s1}
    HeartbeatInterval = 10
    PruneAge = 30
    ResendInterval = 6
    InviteMaxAge = 45
    Tick = 60
    AgeCap = 60
    MaxAsked = 2
    MaxInFlight = 2
INVARIANTS
    TypeOK
    MutualConsent
    UnlockedUseIsValid
PROPERTIES
    PeerBinding
    KeepsPromise
