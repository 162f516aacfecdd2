------------------------------ MODULE GroupRoom ------------------------------
(***************************************************************************)
(* The open group rooms: GroupRoomCoordinator inside one process.          *)
(*                                                                         *)
(* The main thread creates, joins, leaves and writes to rooms from the     *)
(* menu; the receiver thread hands over the ROOM_ANNOUNCE and CHAT         *)
(* datagrams of the network; the advert thread broadcasts the owned room   *)
(* every 10 s.  Each call holds the coordinator's mutex over the state it  *)
(* reads and writes, and lets go of it before it sends or calls back: what *)
(* it copied or points to until then is part of the state here.            *)
(*                                                                         *)
(* All open rooms share one multicast group, so the socket says only       *)
(* whether this process is in the group; the room is active_room_name_.    *)
(***************************************************************************)
EXTENDS Integers

CONSTANTS
    Room,           \* room names
    Socket,         \* identities of UdpSocket objects on the heap
    RegistryStaleAge, Tick, AgeCap,
    NoRoom, NoSocket, NoAdvert

ASSUME RoomAssumption == NoRoom \notin Room /\ NoSocket \notin Socket

ASSUME TimeAssumption ==
    /\ RegistryStaleAge \in Nat /\ Tick \in Nat \ {0} /\ AgeCap \in Nat
    /\ AgeCap > RegistryStaleAge
    /\ NoAdvert \notin 0..AgeCap

VARIABLES
    registry,  \* registry[r]: age in seconds of r's last advert, or NoAdvert
    owned,     \* owned_
    active,    \* active_room_name_
    sock,      \* mcast_sock_; joined_membership_ holds exactly when it is set
    main,      \* what the main thread does after an unlock
    advert,    \* the room the advert thread copied and has yet to broadcast
    shown      \* the room of a chat the receiver is about to show

vars == <<registry, owned, active, sock, main, advert, shown>>
state == <<registry, owned, active, sock>>

Idle == [op |-> "idle"]

-----------------------------------------------------------------------------
Init ==
    /\ registry = [r \in Room |-> NoAdvert]
    /\ owned = NoRoom
    /\ active = NoRoom
    /\ sock = NoSocket
    /\ main = Idle
    /\ advert = NoRoom
    /\ shown = NoRoom

\* prune_registry_unlocked; the mutant keeps everything.
Unpruned(reg) == reg
Pruned(reg) ==
    [r \in Room |-> IF reg[r] # NoAdvert /\ reg[r] > RegistryStaleAge
                    THEN NoAdvert ELSE reg[r]]

\* has_active_membership, and the check of send_group_chat; the mutant looks
\* at the room name alone.
HasActiveRoom == active # NoRoom
HasMembership == active # NoRoom /\ sock # NoSocket

-----------------------------------------------------------------------------
(* Main thread *)

\* bind_multicast_channel: the old membership and socket are gone in any case;
\* one of the seven system calls may fail, and then there is no new one.
BindMulticast(ok) ==
    \/ ok /\ \E k \in Socket \ {sock} : sock' = k
    \/ ~ok /\ sock' = NoSocket

\* A create_room that fails has still left the old room.
CreateRoom(r, ok) ==
    /\ main = Idle
    /\ BindMulticast(ok)
    /\ active' = IF ok THEN r ELSE NoRoom
    /\ owned' = IF ok THEN r ELSE NoRoom
    /\ main' = IF ok THEN [op |-> "announce"] ELSE Idle
    /\ UNCHANGED <<registry, advert, shown>>

ListAdvertisedRooms ==
    /\ main = Idle
    /\ registry' = Pruned(registry)
    /\ UNCHANGED <<owned, active, sock, main, advert, shown>>

\* The ownership given up on joining another room; the mutant keeps it.
KeepOwned(r) == owned
OwnedAfterJoin(r) == IF owned # r THEN NoRoom ELSE owned

\* join_room.  A join that fails keeps the name of the room that was active.
JoinRoom(r, ok) ==
    /\ main = Idle
    /\ registry' = Pruned(registry)
    /\ active # r
    /\ registry'[r] # NoAdvert
    /\ owned' = OwnedAfterJoin(r)
    /\ BindMulticast(ok)
    /\ active' = IF ok THEN r ELSE active
    /\ UNCHANGED <<main, advert, shown>>

\* join_room returns false before it touches anything but the registry.
JoinRefused(r) ==
    /\ main = Idle
    /\ registry' = Pruned(registry)
    /\ active = r \/ registry'[r] = NoAdvert
    /\ UNCHANGED <<owned, active, sock, main, advert, shown>>

\* leave_room, as menu 7 calls it.
LeaveRoom ==
    /\ main = Idle
    /\ HasMembership
    /\ sock' = NoSocket
    /\ active' = NoRoom
    /\ owned' = IF owned = active THEN NoRoom ELSE owned
    /\ UNCHANGED <<registry, main, advert, shown>>

\* send_group_chat copies the name and takes the raw socket pointer ...
PrepareChat ==
    /\ main = Idle
    /\ HasMembership
    /\ main' = [op |-> "chat", room |-> active, socket |-> sock]
    /\ UNCHANGED <<state, advert, shown>>

\* ... and sends through it after the unlock.
SendChat ==
    /\ main.op = "chat"
    /\ main' = Idle
    /\ UNCHANGED <<state, advert, shown>>

\* create_room ends with broadcast_owned_advert.
AnnounceCreated ==
    /\ main.op = "announce"
    /\ main' = Idle
    /\ UNCHANGED <<state, advert, shown>>

-----------------------------------------------------------------------------
(* Advert thread: broadcast_owned_advert *)

CopyOwned ==
    /\ advert = NoRoom
    /\ owned # NoRoom
    /\ advert' = owned
    /\ UNCHANGED <<state, main, shown>>

BroadcastAdvert ==
    /\ advert # NoRoom
    /\ advert' = NoRoom
    /\ UNCHANGED <<state, main, shown>>

-----------------------------------------------------------------------------
(* Receiver thread *)

\* Also for the own adverts, which the broadcast brings back.
OnRoomAnnounce(r) ==
    /\ shown = NoRoom
    /\ registry' = Pruned([registry EXCEPT ![r] = 0])
    /\ UNCHANGED <<owned, active, sock, main, advert, shown>>

\* A CHAT of another user: the active room is read under the lock, and the
\* chat is shown after it.
OnRoomChat(r) ==
    /\ shown = NoRoom
    /\ active = r
    /\ shown' = r
    /\ UNCHANGED <<state, main, advert>>

ShowChat ==
    /\ shown # NoRoom
    /\ shown' = NoRoom
    /\ UNCHANGED <<state, main, advert>>

-----------------------------------------------------------------------------
Pass ==
    /\ registry' = [r \in Room |->
           IF registry[r] = NoAdvert THEN NoAdvert
           ELSE IF registry[r] + Tick > AgeCap THEN AgeCap ELSE registry[r] + Tick]
    /\ UNCHANGED <<owned, active, sock, main, advert, shown>>

MainThread ==
    \/ \E r \in Room, ok \in BOOLEAN : CreateRoom(r, ok) \/ JoinRoom(r, ok)
    \/ \E r \in Room : JoinRefused(r)
    \/ ListAdvertisedRooms
    \/ LeaveRoom
    \/ PrepareChat
    \/ SendChat
    \/ AnnounceCreated

Receiver ==
    \/ \E r \in Room : OnRoomAnnounce(r) \/ OnRoomChat(r)
    \/ ShowChat

AdvertThread == CopyOwned \/ BroadcastAdvert

Next == MainThread \/ Receiver \/ AdvertThread \/ Pass

Spec == Init /\ [][Next]_vars

-----------------------------------------------------------------------------
(* Properties *)

TypeOK ==
    /\ registry \in [Room -> 0..AgeCap \cup {NoAdvert}]
    /\ owned \in Room \cup {NoRoom}
    /\ active \in Room \cup {NoRoom}
    /\ sock \in Socket \cup {NoSocket}
    /\ main \in {Idle, [op |-> "announce"]} \cup
                [op : {"chat"}, room : Room, socket : Socket]
    /\ advert \in Room \cup {NoRoom}
    /\ shown \in Room \cup {NoRoom}

\* Whatever sequence of creates, joins and leaves the user goes through, and
\* whichever system call fails in them, the process owns, and so advertises,
\* only the room it is in, and is in the multicast group to serve it.
OwnedRoomIsServed == owned # NoRoom => owned = active /\ sock # NoSocket

\* The raw pointer that send_group_chat uses after the unlock is to the
\* current socket, and the chat carries the name of the room it is in.
ChatUsesLiveSocket ==
    main.op = "chat" =>
        /\ main.socket = sock /\ sock # NoSocket
        /\ main.room = active

\* A room is entered only by creating it or while its adverts are fresh: the
\* lazily pruned registry never lets the user into a room that is gone.
JoinsFreshRoom ==
    [][active' \notin {active, NoRoom} =>
          \/ owned' = active'
          \/ registry[active'] # NoAdvert /\ registry[active'] <= RegistryStaleAge]_vars

\* The open rooms, socket by socket and call by call, are those that Membership
\* describes: a process is in a room while it has a socket, and a room was advertised
\* of late if its advert is not stale, whether or not the registry still has others.
FreshRooms == {r \in Room : registry[r] # NoAdvert /\ registry[r] <= RegistryStaleAge}
Promise == INSTANCE Membership WITH
    current <- IF sock # NoSocket THEN active ELSE NoRoom,
    owns <- owned,
    fresh <- FreshRooms,
    saying <- IF main.op = "chat" THEN main.room ELSE NoRoom
KeepsRoomPromise == Promise!Spec

\* group_room_coordinator.hpp:52: a join of the active room is refused because
\* the user is already a member of it.
RefusedOnlyForMembers == active # NoRoom => sock # NoSocket
=============================================================================
