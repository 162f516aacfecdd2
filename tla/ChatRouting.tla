---------------------------- MODULE ChatRouting ----------------------------
(***************************************************************************)
(* The way of a chat: from the menu over the network to the screens.       *)
(*                                                                         *)
(* The lobby, the open rooms and the closed rooms share one port and one   *)
(* message, CHAT|ROOM|USERNAME|PAYLOAD; all open rooms share one multicast *)
(* group.  What keeps them apart is the ROOM field, which the receive loop *)
(* hands to LobbyService, GroupRoomCoordinator and DirectMessageService in *)
(* turn.  The network loses, delays, reorders and duplicates, and a process *)
(* in an open room has two sockets bound to the port, which both get what  *)
(* is broadcast or multicast to it: a chat may arrive any number of times. *)
(*                                                                         *)
(* The closed rooms are those that DirectMessage has made Active; open     *)
(* rooms are entered and left as in GroupRoom.                             *)
(***************************************************************************)
EXTENDS Integers, Sequences

CONSTANTS
    Host,       \* the processes
    UserOf,     \* UserOf[h]: the user name on h; two may be the same
    LobbyName,  \* "USN Chat"
    Room,       \* the names a user may give an open room
    Session,    \* Active sessions: [sid, ends], where a user may have named a room sid
    MaxSaid,    \* bound on the chats
    NoRoom

ASSUME RoomAssumption ==
    /\ NoRoom \notin Room \cup {LobbyName} \cup {c.sid : c \in Session}
    /\ \A c \in Session : \E g, h \in Host : c.ends = {g, h}
    /\ MaxSaid \in Nat

VARIABLES
    room,     \* room[h]: active_room_name_
    member,   \* the processes whose mcast_sock_ is in the multicast group
    recv,     \* recv[h]: the chat the receiver is routing, and how far it has come
    said,     \* every chat, as it was sent: each may still arrive
    since,    \* history: since[n]: who has been where since chat n was said
    shown     \* shown[h][n]: the labels under which h has shown chat n

vars == <<room, member, recv, said, since, shown>>

Label == {"lobby", "group", "private"}
NoChat == [at |-> "poll"]
RoomName == Room \cup {LobbyName} \cup {c.sid : c \in Session}

\* Who is in the multicast group, whose active room is called so, and who is in
\* it with its socket (a failed join leaves a name without one).
Whereabouts(name) ==
    [group |-> member,
     named |-> {g \in Host : room[g] = name},
     joined |-> {g \in member : room[g] = name}]
Nobody == [group |-> {}, named |-> {}, joined |-> {}]

Init ==
    /\ room = [h \in Host |-> NoRoom]
    /\ member = {}
    /\ recv = [h \in Host |-> NoChat]
    /\ said = <<>>
    /\ since = [n \in 1..MaxSaid |-> Nobody]
    /\ shown = [h \in Host |-> [n \in 1..MaxSaid |-> {}]]

-----------------------------------------------------------------------------
(* The network *)

\* The datagram is on its way, to the processes of this set and, of a multicast,
\* to whoever is in the group.
Send(h, name, how, to) ==
    /\ Len(said) < MaxSaid
    /\ said' = Append(said, [by |-> h, room |-> name, how |-> how, to |-> to])
    /\ since' = [since EXCEPT ![Len(said) + 1] = Whereabouts(name)]

\* A multicast stays in the UDP socket of a process that has left the group, and may
\* come late to one that has joined it.
Reached(n) == IF said[n].how = "multicast" THEN since[n].group ELSE said[n].to

-----------------------------------------------------------------------------
(* Main thread *)

\* Menu 2: LobbyService::send_chat, to everybody, the sender included.
SayInLobby(h) ==
    /\ Send(h, LobbyName, "broadcast", Host)
    /\ UNCHANGED <<room, member, recv, shown>>

\* Menu 6: send_group_chat, for which has_active_membership must hold.
SayInGroup(h) ==
    /\ room[h] # NoRoom /\ h \in member
    /\ Send(h, room[h], "multicast", {})
    /\ UNCHANGED <<room, member, recv, shown>>

\* Menu 10: send_private_chat, to the address of the peer.
SayInPrivate(h, c) ==
    /\ h \in c.ends
    /\ \E g \in c.ends \ {h} : Send(h, c.sid, "unicast", {g})
    /\ UNCHANGED <<room, member, recv, shown>>

\* A room is left, and another one may be entered.
SwitchTo(h, r, joined) ==
    /\ room' = [room EXCEPT ![h] = r]
    /\ member' = IF joined THEN member \cup {h} ELSE member \ {h}
    /\ UNCHANGED <<recv, said, shown>>
    /\ since' = [n \in 1..MaxSaid |->
           IF n > Len(said) THEN since[n]
           ELSE LET now == Whereabouts(said[n].room)' IN
                [f \in DOMAIN now |-> since[n][f] \cup now[f]]]

\* create_room or join_room; leave_room, or a create_room that fails; a join_room
\* that fails, and keeps the name of the room.
EnterRoom(h, r) == SwitchTo(h, r, TRUE)
LeaveOnlyName(h) == SwitchTo(h, NoRoom, h \in member)   \* mutant
LeaveRoom(h) == SwitchTo(h, NoRoom, FALSE)
FailToJoin(h) == SwitchTo(h, room[h], FALSE)

-----------------------------------------------------------------------------
(* Receiver thread: run_receive_multiplex_loop *)

\* A CHAT of the lobby's room goes to on_lobby_chat and the callback of main, which
\* shows what others say.  One mutant shows also the own chats, one those of all rooms.
ShowsOwnLobbyChat(h, n) == said[n].room = LobbyName
ShowsAnyChat(h, n) == UserOf[said[n].by] # UserOf[h]
ShowsInLobby(h, n) == said[n].room = LobbyName /\ UserOf[said[n].by] # UserOf[h]

\* Chat n appears on the screen of h, under each of these labels.
Show(h, n, labels) == shown' = [shown EXCEPT ![h][n] = @ \cup labels]

\* Any chat that has reached this process may be in one of its sockets, for the first
\* time or again.
Take(h, n) ==
    /\ recv[h] = NoChat
    /\ n \in 1..Len(said)
    /\ h \in Reached(n)
    /\ Show(h, n, {label \in {"lobby"} : ShowsInLobby(h, n)})
    /\ recv' = [recv EXCEPT ![h] = [at |-> "group", chat |-> n]]
    /\ UNCHANGED <<room, member, said, since>>

\* GroupRoomCoordinator::on_room_chat compares with the active room.  The mutant
\* trusts the multicast group.
IsForAnyGroup(h, n) == room[h] # NoRoom /\ UserOf[said[n].by] # UserOf[h]
IsForGroup(h, n) == room[h] = said[n].room /\ UserOf[said[n].by] # UserOf[h]

\* DirectMessageService::on_room_chat, for an Active session with the sender.  The
\* mutant knows a session by its id.
IsForAnySession(h, n) == \E c \in Session : c.sid = said[n].room /\ h \in c.ends
IsForSession(h, n) ==
    \E c \in Session : c.sid = said[n].room /\ c.ends = {h, said[n].by} /\ h # said[n].by

\* Routing ends with DirectMessageService, after these were shown.
Direct(h, n, before) ==
    /\ Show(h, n, before \cup {label \in {"private"} : IsForSession(h, n)})
    /\ recv' = [recv EXCEPT ![h] = NoChat]

\* The active room is read under the coordinator's lock.  Without a match the
\* chat goes on to DirectMessageService ...
PassOn(h) ==
    /\ recv[h].at = "group"
    /\ ~IsForGroup(h, recv[h].chat)
    /\ Direct(h, recv[h].chat, {})
    /\ UNCHANGED <<room, member, said, since>>

MatchRoom(h) ==
    /\ recv[h].at = "group"
    /\ IsForGroup(h, recv[h].chat)
    /\ recv' = [recv EXCEPT ![h] = [at |-> "show", chat |-> recv[h].chat]]
    /\ UNCHANGED <<room, member, said, since, shown>>

\* ... and with one it is shown first, without the lock.
ShowInGroup(h) ==
    /\ recv[h].at = "show"
    /\ Direct(h, recv[h].chat, {"group"})
    /\ UNCHANGED <<room, member, said, since>>

-----------------------------------------------------------------------------
Main(h) ==
    \/ SayInLobby(h)
    \/ SayInGroup(h)
    \/ \E c \in Session : SayInPrivate(h, c)
    \/ \E r \in Room : EnterRoom(h, r)
    \/ LeaveRoom(h)
    \/ FailToJoin(h)

Receiver(h) ==
    \/ \E n \in 1..MaxSaid : Take(h, n)
    \/ PassOn(h)
    \/ MatchRoom(h)
    \/ ShowInGroup(h)

Next == \E h \in Host : Main(h) \/ Receiver(h)

Spec == Init /\ [][Next]_vars

-----------------------------------------------------------------------------
(* Properties *)

SentChat == [by : Host, room : RoomName, how : {"broadcast", "multicast", "unicast"},
             to : SUBSET Host]
Routing == {NoChat} \cup [at : {"group", "show"}, chat : 1..MaxSaid]

\* Types, and that nobody is in the multicast group without a room.
TypeOK ==
    /\ room \in [Host -> Room \cup {NoRoom}]
    /\ member \subseteq {h \in Host : room[h] # NoRoom}
    /\ recv \in [Host -> Routing]
    /\ said \in Seq(SentChat) /\ Len(said) <= MaxSaid
    /\ since \in [1..MaxSaid -> [group : SUBSET Host, named : SUBSET Host,
                                 joined : SUBSET Host]]
    /\ shown \in [Host -> [1..MaxSaid -> SUBSET Label]]

\* h and the author of chat n are the ends of a session called like its room.
AreEnds(h, n) ==
    \E c \in Session : c.sid = said[n].room /\ c.ends = {h, said[n].by} /\ h # said[n].by

\* The ROOM field is all that keeps lobby, open and closed rooms apart, and one name may
\* stand for several of them (an open room called "USN Chat", or like a session).  So a
\* chat may be shown as what it was not said as, but only to those it was sent to, and
\* only where the names are the same: as a lobby chat if its room is called like the
\* lobby, as a group chat by a process whose room has been called like it since it was
\* said.
CrosstalkContained ==
    \A h \in Host, n \in 1..Len(said) :
        /\ shown[h][n] # {} => h \in Reached(n)
        /\ "lobby" \in shown[h][n] => said[n].room = LobbyName
        /\ "group" \in shown[h][n] => h \in since[n].named

\* Broadcast and multicast bring a chat back to the process it came from, on each of
\* its sockets; none is shown there, wherever its author has gone meanwhile.
NeverEchoed == \A n \in 1..Len(said) : shown[said[n].by][n] = {}

\* The chats of all open rooms reach every process that is in any of them.  Each is
\* shown as a group chat only by one that has been in the room it was said in, with its
\* socket, since it was said: the lock is gone when it is shown, so the user may have
\* left by then, and the name of a room outlives its socket in a failed join, but
\* nobody is shown it who has been out of the room ever since.
MembersOnly ==
    \A h \in Host, n \in 1..Len(said) :
        said[n].how = "multicast" /\ "group" \in shown[h][n] => h \in since[n].joined

\* What was said in a closed room, and whatever is shown as a private chat (it may have
\* been said in an open room called like the session), is shown only at the other end of
\* a session of that name with its author.
PrivateBetweenEnds ==
    \A h \in Host, n \in 1..Len(said) :
        "private" \in shown[h][n] \/ (said[n].how = "unicast" /\ shown[h][n] # {})
            => AreEnds(h, n)
=============================================================================
