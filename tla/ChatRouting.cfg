SPECIFICATION Spec
CONSTANTS
    h1 = h1
    h2 = h2
    h3 = h3
    alice = alice
    bob = bob
    UsnChat = UsnChat
    den = den
    NoRoom = NoRoom
    Host = {h1, h2, h3}
    UserOf <- Users
    LobbyName = UsnChat
    Room = {UsnChat, den}
    Session <- Sessions
    MaxSaid = 1
INVARIANTS
    TypeOK
    CrosstalkContained
    NeverEchoed
    MembersOnly
    PrivateBetweenEnds
