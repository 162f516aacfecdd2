SPECIFICATION Spec
CONSTANTS
    MaxRoomNameBytes = 2
    MaxUsernameBytes = 2
    MaxChatMessageBytes = 4
    MaxPacketBytes = 25
    Messages <- SomeMessages
    Datagrams <- SomeDatagrams
INVARIANTS
    TypeOK
    RefusesExactly
    RoundTrip
    ParsesOnlyBuilt
CHECK_DEADLOCK FALSE
