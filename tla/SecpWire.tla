------------------------------ MODULE SecpWire ------------------------------
(***************************************************************************)
(* The life of one SECP line: a service of one process has build_secp_line *)
(* make it and sends it as one datagram, or somebody sends what he likes;  *)
(* the receive loop of another process hands it to parse_secp_line.        *)
(***************************************************************************)
EXTENDS Secp

CONSTANTS
    Messages,   \* what the services may hand to build_secp_line
    Datagrams   \* what others may send to the port

ASSUME SampleAssumption == Messages \subseteq Message /\ Datagrams \subseteq Seq(Byte)

VARIABLES
    at,      \* where the line is
    said,    \* history: the message it was built from, or NoMessage
    line,    \* the bytes
    heard    \* what the receiver made of them

vars == <<at, said, line, heard>>

Init ==
    /\ at = "nowhere"
    /\ said = NoMessage
    /\ line = <<>>
    /\ heard = NoMessage

\* A send_... function: nothing is sent when the line cannot be built.
Say ==
    /\ at = "nowhere"
    /\ \E m \in Messages :
          /\ said' = m
          /\ line' = Build(m)
    /\ at' = IF line' = <<>> THEN "refused" ELSE "wire"
    /\ UNCHANGED heard

\* Not a line of this program, or not one of its doing.
SayAnything ==
    /\ at = "nowhere"
    /\ line' \in Datagrams
    /\ at' = "wire"
    /\ UNCHANGED <<said, heard>>

\* recvfrom fills the receive loop's buffer of kMaxPacketBytes, and cuts off what a
\* longer datagram holds beyond it.
Received(d) == IF Len(d) <= MaxPacketBytes THEN d ELSE SubSeq(d, 1, MaxPacketBytes)

\* handle_datagram: what was received is parsed, and dropped when it is empty or
\* does not parse.
Hear ==
    /\ at = "wire"
    /\ at' = "heard"
    /\ heard' = Parse(Received(line))
    /\ UNCHANGED <<said, line>>

Next == Say \/ SayAnything \/ Hear

Spec == Init /\ [][Next]_vars

-----------------------------------------------------------------------------
(* Properties *)

TypeOK ==
    /\ at \in {"nowhere", "refused", "wire", "heard"}
    /\ said \in Message \cup {NoMessage}
    /\ line \in Seq(Byte)
    /\ heard \in Message \cup {NoMessage}

\* secp.cpp:13: the validation is strict.  A message is refused for its texts
\* exactly if one of them is too long, holds a separator, or is not a sequence of
\* encoded Unicode scalar values: an overlong form, a surrogate, a number beyond
\* U+10FFFF, or a character cut off by the end of the text.
IsProper(s, most) ==
    Len(s) <= most /\ WellFormed(s) /\ \A i \in 1..Len(s) : s[i] \notin {Pipe, LF, CR}
RefusesExactly ==
    said # NoMessage =>
        (at # "refused" <=>
            /\ said.room # <<>> /\ IsProper(said.room, MaxRoomNameBytes)
            /\ said.username # <<>> /\ IsProper(said.username, MaxUsernameBytes)
            /\ IsProper(said.payload, MaxChatMessageBytes))

\* What one process builds, another reads back as it was: no text that passes the
\* checks can shift the boundaries of the fields, or lose its end with the line's.
RoundTrip == at = "heard" /\ said # NoMessage => heard = said

\* secp.hpp:27: a line is accepted with or without its line feed; and what is
\* accepted is, up to the LF and CR at its end, the line that build_secp_line makes
\* of the message: whatever is heard could have been said.  Of a datagram that is
\* longer than the buffer this is true of the part that was received: what comes
\* after it, which the code never sees, may be anything.
ParsesOnlyBuilt ==
    heard # NoMessage => Build(heard) = Body(Received(line)) \o <<LF>>
=============================================================================
