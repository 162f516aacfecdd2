-------------------------------- MODULE Secp --------------------------------
(***************************************************************************)
(* The SECP line, TYPE|ROOM|USERNAME|PAYLOAD, as a codec over bytes:       *)
(* build_secp_line, parse_secp_line and the checks they share.             *)
(*                                                                         *)
(* A string is a sequence of bytes, and a failed build is the empty one, as *)
(* in the code.                                                            *)
(***************************************************************************)
EXTENDS Integers, Sequences

CONSTANTS MaxRoomNameBytes, MaxUsernameBytes, MaxChatMessageBytes, MaxPacketBytes

Byte == 0..255
Pipe == 124
LF == 10
CR == 13

Type == {"PRESENCE", "ROOM_ANNOUNCE", "INVITE", "CHAT"}
Message == [type : Type, room : Seq(Byte), username : Seq(Byte), payload : Seq(Byte)]
NoMessage == [type |-> "UNKNOWN"]

\* Every line that passes the checks fits in a packet: the longest type name has
\* 13 bytes, and there are three pipes and a line feed.
ASSUME LimitAssumption ==
    /\ {MaxRoomNameBytes, MaxUsernameBytes, MaxChatMessageBytes, MaxPacketBytes} \subseteq Nat
    /\ MaxRoomNameBytes + MaxUsernameBytes + MaxChatMessageBytes + 17 <= MaxPacketBytes

-----------------------------------------------------------------------------
(* The bytes of a text *)

Continuation == 128..191

\* What valid_utf8 accepts at a position: the bytes a character may begin with,
\* those its second byte may be, and its length.
Shapes ==
    { [lead |-> 0..127,      second |-> {},           size |-> 1],
      [lead |-> 194..223,    second |-> Continuation, size |-> 2],
      [lead |-> {224},       second |-> 160..191,     size |-> 3],   \* no overlong
      [lead |-> 225..236,    second |-> Continuation, size |-> 3],
      [lead |-> {237},       second |-> 128..159,     size |-> 3],   \* no surrogate
      [lead |-> {238, 239},  second |-> Continuation, size |-> 3],
      [lead |-> {240},       second |-> 144..191,     size |-> 4],   \* no overlong
      [lead |-> 241..243,    second |-> Continuation, size |-> 4],
      [lead |-> {244},       second |-> 128..143,     size |-> 4] }  \* <= U+10FFFF

\* The mutant trusts the first byte of a character.
LooseFitsAt(s, i, c) ==
    /\ s[i] \in c.lead
    /\ i + c.size - 1 <= Len(s)
    /\ \A j \in i + 1 .. i + c.size - 1 : s[j] \in Continuation
FitsAt(s, i, c) ==
    /\ s[i] \in c.lead
    /\ i + c.size - 1 <= Len(s)
    /\ c.size > 1 => s[i + 1] \in c.second
    /\ \A j \in i + 2 .. i + c.size - 1 : s[j] \in Continuation

ValidUtf8(s) ==
    LET valid[i \in 1 .. Len(s) + 1] ==
            \/ i = Len(s) + 1
            \/ \E c \in Shapes : FitsAt(s, i, c) /\ valid[i + c.size]
    IN  valid[1]

ContainsPipeOrNewline(s) == \E i \in 1..Len(s) : s[i] \in {Pipe, LF, CR}

\* is_room_ok, is_username_ok and is_payload_ok.  (The "-" that the first and the
\* last let through passes their other checks too.)
IsText(s) == ~ContainsPipeOrNewline(s) /\ ValidUtf8(s)
IsRoomOk(room) == room # <<>> /\ Len(room) <= MaxRoomNameBytes /\ IsText(room)
IsUsernameOk(u) == u # <<>> /\ Len(u) <= MaxUsernameBytes /\ IsText(u)
IsPayloadOk(p) == Len(p) <= MaxChatMessageBytes /\ IsText(p)

\* The mutant forgets that a payload is subject to the checks of a text.
FieldsLookOk(m) ==
    IsRoomOk(m.room) /\ IsUsernameOk(m.username) /\ Len(m.payload) <= MaxChatMessageBytes
FieldsOk(m) == IsRoomOk(m.room) /\ IsUsernameOk(m.username) /\ IsPayloadOk(m.payload)

-----------------------------------------------------------------------------
(* build_secp_line *)

\* secp_type_name
TypeName ==
    [PRESENCE      |-> <<80, 82, 69, 83, 69, 78, 67, 69>>,
     ROOM_ANNOUNCE |-> <<82, 79, 79, 77, 95, 65, 78, 78, 79, 85, 78, 67, 69>>,
     INVITE        |-> <<73, 78, 86, 73, 84, 69>>,
     CHAT          |-> <<67, 72, 65, 84>>]

Fields(m) ==
    TypeName[m.type] \o <<Pipe>> \o m.room \o <<Pipe>> \o m.username \o <<Pipe>> \o m.payload

Build(m) ==
    IF FieldsOk(m) /\ Len(Fields(m)) + 1 <= MaxPacketBytes
    THEN Fields(m) \o <<LF>> ELSE <<>>

-----------------------------------------------------------------------------
(* parse_secp_line *)

\* The line without the LF and CR at its end.
IsBody(line, n) ==
    /\ \A i \in n + 1 .. Len(line) : line[i] \in {LF, CR}
    /\ n > 0 => line[n] \notin {LF, CR}
Body(line) == SubSeq(line, 1, CHOOSE n \in 0..Len(line) : IsBody(line, n))

\* Where the field that begins at i ends: before the next pipe, or with the line.
EndsAt(s, i, j) ==
    /\ \A k \in i .. j - 1 : s[k] # Pipe
    /\ j = Len(s) + 1 \/ s[j] = Pipe
FieldEnd(s, i) == CHOOSE j \in i .. Len(s) + 1 : EndsAt(s, i, j)

\* Where the second, third and fourth field begin, if there are as many.
RoomStart(s) == FieldEnd(s, 1) + 1
UsernameStart(s) == FieldEnd(s, RoomStart(s)) + 1
PayloadStart(s) == FieldEnd(s, UsernameStart(s)) + 1

HasFourFields(s) ==
    /\ RoomStart(s) <= Len(s) + 1
    /\ UsernameStart(s) <= Len(s) + 1
    /\ PayloadStart(s) <= Len(s) + 1
    /\ FieldEnd(s, PayloadStart(s)) = Len(s) + 1

\* parse_secp_type knows the token.
IsType(token) == \E t \in Type : TypeName[t] = token
TypeOf(token) == CHOOSE t \in Type : TypeName[t] = token

TypeToken(s) == SubSeq(s, 1, RoomStart(s) - 2)
FieldsOf(s) ==
    [type |-> TypeOf(TypeToken(s)),
     room |-> SubSeq(s, RoomStart(s), UsernameStart(s) - 2),
     username |-> SubSeq(s, UsernameStart(s), PayloadStart(s) - 2),
     payload |-> SubSeq(s, PayloadStart(s), Len(s))]

\* The mutant takes a username as it comes.
AcceptsAnyUsername(line) ==
    /\ Len(line) <= MaxPacketBytes
    /\ HasFourFields(Body(line))
    /\ IsType(TypeToken(Body(line)))
    /\ IsRoomOk(FieldsOf(Body(line)).room) /\ IsPayloadOk(FieldsOf(Body(line)).payload)
Accepts(line) ==
    /\ Len(line) <= MaxPacketBytes
    /\ HasFourFields(Body(line))
    /\ IsType(TypeToken(Body(line)))
    /\ FieldsOk(FieldsOf(Body(line)))

\* The mutant returns a message of no type for a line it does not accept.
ParseOrEmpty(line) ==
    IF Accepts(line) THEN FieldsOf(Body(line))
    ELSE [type |-> "UNKNOWN", room |-> <<>>, username |-> <<>>, payload |-> <<>>]
Parse(line) == IF Accepts(line) THEN FieldsOf(Body(line)) ELSE NoMessage

-----------------------------------------------------------------------------
(* What the checks of a text are to mean: Unicode, by its arithmetic *)

\* The encoding of a Unicode scalar value, and the number a group of bytes stands for.
IsScalar(c) == 0 <= c /\ c <= 1114111 /\ (c < 55296 \/ c > 57343)
Trail(c) == 128 + (c % 64)
Encode(c) ==
    IF c < 128 THEN <<c>>
    ELSE IF c < 2048 THEN <<192 + (c \div 64), Trail(c)>>
    ELSE IF c < 65536 THEN <<224 + (c \div 4096), Trail(c \div 64), Trail(c)>>
    ELSE <<240 + (c \div 262144), Trail(c \div 4096), Trail(c \div 64), Trail(c)>>
Decode(g) ==
    CASE Len(g) = 1 -> g[1]
      [] Len(g) = 2 -> (g[1] - 192) * 64 + g[2] - 128
      [] Len(g) = 3 -> (g[1] - 224) * 4096 + (g[2] - 128) * 64 + g[3] - 128
      [] Len(g) = 4 -> (g[1] - 240) * 262144 + (g[2] - 128) * 4096
                           + (g[3] - 128) * 64 + g[4] - 128
IsCharacter(g) == IsScalar(Decode(g)) /\ Encode(Decode(g)) = g
WellFormed(s) ==
    LET rest[i \in 1 .. Len(s) + 1] ==
            \/ i = Len(s) + 1
            \/ \E j \in i..Len(s) :
                  j < i + 4 /\ IsCharacter(SubSeq(s, i, j)) /\ rest[j + 1]
    IN  rest[1]
=============================================================================
