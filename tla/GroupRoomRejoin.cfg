SPECIFICATION Spec
CONSTANTS
    Room = {r1, r2, r3}
    Socket = {k1, k2}
    RegistryStaleAge = 25
    Tick = 5
    AgeCap = 30
    NoRoom = NoRoom
    NoSocket = NoSocket
    NoAdvert = NoAdvert
INVARIANTS
    RefusedOnlyForMembers
