-------------------------- MODULE GroupRoomProofs --------------------------
(***************************************************************************)
(* Proofs about the group rooms, for any rooms, sockets and stale age.     *)
(***************************************************************************)
EXTENDS GroupRoom, TLAPS

\* Pruning forgets rooms and changes no age.
LEMMA PrunedType ==
  ASSUME NEW reg \in [Room -> 0..AgeCap \cup {NoAdvert}]
  PROVE  /\ Pruned(reg) \in [Room -> 0..AgeCap \cup {NoAdvert}]
         /\ \A r \in Room : Pruned(reg)[r] # NoAdvert =>
               Pruned(reg)[r] = reg[r] /\ reg[r] <= RegistryStaleAge
  BY TimeAssumption DEF Pruned

-----------------------------------------------------------------------------
(* The inductive invariant *)

Inv == TypeOK /\ OwnedRoomIsServed /\ ChatUsesLiveSocket

\* A process starts in no room, with nothing to advertise or send.
LEMMA InitInv == Init => Inv
  BY DEF Init, Inv, TypeOK, OwnedRoomIsServed, ChatUsesLiveSocket, Idle

\* No call of any of the three threads breaks the invariant: the owned room is
\* the active one before a join, and the main thread swaps the socket only when
\* it has no chat of its own in hand.
LEMMA NextInv == Inv /\ [Next]_vars => Inv'
<1> SUFFICES ASSUME Inv, [Next]_vars PROVE Inv'
  OBVIOUS
<1> USE DEF state
<1>0. TypeOK /\ OwnedRoomIsServed /\ ChatUsesLiveSocket
  BY DEF Inv
<1>1. ASSUME NEW r \in Room, NEW ok \in BOOLEAN, CreateRoom(r, ok) PROVE Inv'
  <2>1. TypeOK'
    BY <1>0, <1>1, RoomAssumption DEF TypeOK, CreateRoom, BindMulticast, Idle
  <2>2. OwnedRoomIsServed'
    BY <1>1, RoomAssumption DEF OwnedRoomIsServed, CreateRoom, BindMulticast
  <2>3. ChatUsesLiveSocket'
    BY <1>1 DEF ChatUsesLiveSocket, CreateRoom, Idle
  <2> QED
    BY <2>1, <2>2, <2>3 DEF Inv
<1>2. ASSUME NEW r \in Room, NEW ok \in BOOLEAN, JoinRoom(r, ok) PROVE Inv'
  <2>1. TypeOK'
    BY <1>0, <1>2, PrunedType DEF TypeOK, JoinRoom, BindMulticast, OwnedAfterJoin
  <2>2. owned' = NoRoom
    \* The owned room is the active one, and that one is not joined again.
    BY <1>0, <1>2, RoomAssumption DEF OwnedRoomIsServed, JoinRoom, OwnedAfterJoin
  <2>3. ChatUsesLiveSocket'
    BY <1>2 DEF ChatUsesLiveSocket, JoinRoom, Idle
  <2> QED
    BY <2>1, <2>2, <2>3 DEF Inv, OwnedRoomIsServed
<1>3. CASE (\E r \in Room : JoinRefused(r)) \/ ListAdvertisedRooms
  <2>1. TypeOK'
    BY <1>0, <1>3, PrunedType DEF TypeOK, JoinRefused, ListAdvertisedRooms
  <2> QED
    BY <1>0, <1>3, <2>1
    DEF Inv, OwnedRoomIsServed, ChatUsesLiveSocket, JoinRefused, ListAdvertisedRooms
<1>4. CASE LeaveRoom
  <2>1. owned' = NoRoom
    BY <1>0, <1>4 DEF OwnedRoomIsServed, LeaveRoom
  <2>2. TypeOK'
    BY <1>0, <1>4, <2>1 DEF TypeOK, LeaveRoom
  <2>3. ChatUsesLiveSocket'
    BY <1>4 DEF ChatUsesLiveSocket, LeaveRoom, Idle
  <2> QED
    BY <2>1, <2>2, <2>3 DEF Inv, OwnedRoomIsServed
<1>5. CASE PrepareChat
  <2>1. main' = [op |-> "chat", room |-> active, socket |-> sock]
    BY <1>5 DEF PrepareChat
  <2>2. active \in Room /\ sock \in Socket
    BY <1>0, <1>5 DEF PrepareChat, HasMembership, TypeOK
  <2>3. TypeOK'
    BY <1>0, <1>5, <2>1, <2>2 DEF TypeOK, PrepareChat
  <2>4. ChatUsesLiveSocket'
    BY <1>5, <2>1, <2>2, RoomAssumption DEF ChatUsesLiveSocket, PrepareChat
  <2> QED
    BY <1>0, <1>5, <2>3, <2>4 DEF Inv, OwnedRoomIsServed, PrepareChat
<1>6. CASE SendChat \/ AnnounceCreated
  <2>1. main' = Idle
    BY <1>6 DEF SendChat, AnnounceCreated
  <2>2. TypeOK'
    BY <1>0, <1>6, <2>1 DEF TypeOK, SendChat, AnnounceCreated
  <2> QED
    BY <1>0, <1>6, <2>1, <2>2
    DEF Inv, OwnedRoomIsServed, ChatUsesLiveSocket, SendChat, AnnounceCreated, Idle
<1>7. CASE AdvertThread
  <2>1. TypeOK'
    BY <1>0, <1>7 DEF TypeOK, AdvertThread, CopyOwned, BroadcastAdvert
  <2> QED
    BY <1>0, <1>7, <2>1
    DEF Inv, OwnedRoomIsServed, ChatUsesLiveSocket, AdvertThread, CopyOwned,
        BroadcastAdvert
<1>8. ASSUME NEW r \in Room, OnRoomAnnounce(r) PROVE Inv'
  <2>1. [registry EXCEPT ![r] = 0] \in [Room -> 0..AgeCap \cup {NoAdvert}]
    BY <1>0, TimeAssumption DEF TypeOK
  <2>2. TypeOK'
    BY <1>0, <1>8, <2>1, PrunedType DEF TypeOK, OnRoomAnnounce
  <2> QED
    BY <1>0, <1>8, <2>2 DEF Inv, OwnedRoomIsServed, ChatUsesLiveSocket, OnRoomAnnounce
<1>9. CASE (\E r \in Room : OnRoomChat(r)) \/ ShowChat
  <2>1. TypeOK'
    BY <1>0, <1>9 DEF TypeOK, OnRoomChat, ShowChat
  <2> QED
    BY <1>0, <1>9, <2>1
    DEF Inv, OwnedRoomIsServed, ChatUsesLiveSocket, OnRoomChat, ShowChat
<1>10. CASE Pass
  <2>1. registry' \in [Room -> 0..AgeCap \cup {NoAdvert}]
    BY <1>0, <1>10, TimeAssumption DEF TypeOK, Pass
  <2>2. TypeOK'
    BY <1>0, <1>10, <2>1 DEF TypeOK, Pass
  <2> QED
    BY <1>0, <1>10, <2>2 DEF Inv, OwnedRoomIsServed, ChatUsesLiveSocket, Pass
<1>11. CASE UNCHANGED vars
  BY <1>0, <1>11 DEF Inv, TypeOK, OwnedRoomIsServed, ChatUsesLiveSocket, vars
<1> QED
  BY <1>1, <1>2, <1>3, <1>4, <1>5, <1>6, <1>7, <1>8, <1>9, <1>10, <1>11
  DEF Next, MainThread, Receiver

\* The invariant holds in every reachable state.
THEOREM InvHolds == Spec => []Inv
  BY InitInv, NextInv, PTL DEF Spec

\* The state keeps its types: a chat about to be sent never holds a null socket.
THEOREM TypeCorrect == Spec => []TypeOK
  BY InvHolds, PTL DEF Inv

\* However creates, joins and leaves follow each other and fail half-way, the
\* room that is advertised is the room that the process is in and can serve.
THEOREM OwnedServed == Spec => []OwnedRoomIsServed
  BY InvHolds, PTL DEF Inv

\* send_group_chat's use of the raw pointer after the unlock is safe.
THEOREM LiveSocket == Spec => []ChatUsesLiveSocket
  BY InvHolds, PTL DEF Inv

\* Only fresh rooms are joined.
THEOREM FreshJoins == Spec => JoinsFreshRoom
<1>1. ASSUME Inv, [Next]_vars, active' \notin {active, NoRoom}
      PROVE  \/ owned' = active'
             \/ registry[active'] # NoAdvert /\ registry[active'] <= RegistryStaleAge
  <2>1. ASSUME NEW r \in Room, NEW ok \in BOOLEAN, JoinRoom(r, ok)
        PROVE  registry[active'] # NoAdvert /\ registry[active'] <= RegistryStaleAge
    BY <1>1, <2>1, PrunedType DEF Inv, TypeOK, JoinRoom
  <2>2. ASSUME NEW r \in Room, NEW ok \in BOOLEAN, CreateRoom(r, ok)
        PROVE  owned' = active'
    BY <2>2 DEF CreateRoom
  <2>3. \E r \in Room, ok \in BOOLEAN : CreateRoom(r, ok) \/ JoinRoom(r, ok)
    BY <1>1 DEF Next, MainThread, Receiver, AdvertThread, JoinRefused, ListAdvertisedRooms,
                LeaveRoom, PrepareChat, SendChat, AnnounceCreated, CopyOwned,
                BroadcastAdvert, OnRoomAnnounce, OnRoomChat, ShowChat, Pass, vars, state
  <2> QED
    BY <2>1, <2>2, <2>3
<1>2. Inv /\ [Next]_vars =>
        [active' \notin {active, NoRoom} =>
           \/ owned' = active'
           \/ registry[active'] # NoAdvert /\ registry[active'] <= RegistryStaleAge]_vars
  BY <1>1
<1> QED
  BY <1>2, InvHolds, PTL DEF Spec, JoinsFreshRoom

-----------------------------------------------------------------------------
(* The open rooms implement Membership *)

Current == IF sock # NoSocket THEN active ELSE NoRoom
Saying == IF main.op = "chat" THEN main.room ELSE NoRoom

\* A room that is in the registry after a prune is one that was advertised of late,
\* and a prune leaves all of those.
LEMMA PrunedFresh ==
  ASSUME TypeOK, registry' = Pruned(registry)
  PROVE  FreshRooms' = FreshRooms /\ \A r \in Room : registry'[r] # NoAdvert => r \in FreshRooms
  BY TimeAssumption DEF TypeOK, Pruned, FreshRooms

\* The main thread says nothing while it has no chat in hand.
LEMMA SaysNothing ==
  ASSUME main = Idle \/ main = [op |-> "announce"]
  PROVE  Saying = NoRoom
  BY DEF Saying, Idle

\* A process that is in no room has none to leave, and owns none.
LEMMA LeavesAtMost ==
  ASSUME Inv, Saying = NoRoom, Current' = NoRoom, owned' = NoRoom,
         FreshRooms' = FreshRooms, Saying' = NoRoom
  PROVE  Promise!Leave
  BY DEF Promise!Leave, Current, Saying

LEMMA CreateMaps ==
  ASSUME Inv, NEW r \in Room, NEW ok \in BOOLEAN, CreateRoom(r, ok)
  PROVE  Promise!Next
<1>1. /\ Saying = NoRoom /\ Saying' = NoRoom /\ registry' = registry
      /\ main = Idle /\ main' \in {Idle, [op |-> "announce"]}
  BY SaysNothing DEF CreateRoom, Saying, Idle
<1>2. FreshRooms' = FreshRooms
  BY <1>1 DEF FreshRooms
<1>3. CASE ok
  <2>1. Current' = r /\ owned' = r
    BY <1>3, RoomAssumption DEF CreateRoom, BindMulticast, Current
  <2>2. Promise!Create(r)
    BY <1>1, <1>2, <2>1 DEF Promise!Create, Current, Saying
  <2> QED
    BY <2>2 DEF Promise!Next
<1>4. CASE ~ok
  <2>1. Current' = NoRoom /\ owned' = NoRoom
    BY <1>4 DEF CreateRoom, BindMulticast, Current
  <2> QED
    BY <1>1, <1>2, <2>1, LeavesAtMost DEF Promise!Next
<1> QED
  BY <1>3, <1>4

LEMMA JoinMaps ==
  ASSUME Inv, NEW r \in Room, NEW ok \in BOOLEAN, JoinRoom(r, ok)
  PROVE  Promise!Next
<1>1. /\ Saying = NoRoom /\ Saying' = NoRoom
      /\ registry' = Pruned(registry) /\ main = Idle /\ main' = Idle
  BY SaysNothing DEF JoinRoom, Saying, Idle
<1>2. FreshRooms' = FreshRooms /\ r \in FreshRooms
  BY <1>1, PrunedFresh DEF Inv, JoinRoom
<1>3. owned' = NoRoom
  \* The room that was owned is the one that was active, and that is not r.
  BY RoomAssumption DEF Inv, OwnedRoomIsServed, JoinRoom, OwnedAfterJoin
<1>4. CASE ok
  <2>1. Current' = r /\ r # Current
    BY <1>4, RoomAssumption DEF JoinRoom, BindMulticast, Current
  <2>2. Promise!Join(r)
    BY <1>1, <1>2, <1>3, <2>1 DEF Promise!Join, Current, Saying
  <2> QED
    BY <2>2 DEF Promise!Next
<1>5. CASE ~ok
  <2>1. Current' = NoRoom
    BY <1>5 DEF JoinRoom, BindMulticast, Current
  <2> QED
    BY <1>1, <1>2, <1>3, <2>1, LeavesAtMost DEF Promise!Next
<1> QED
  BY <1>4, <1>5

LEMMA LeaveMaps ==
  ASSUME Inv, LeaveRoom
  PROVE  Promise!Next
<1>1. /\ Saying = NoRoom /\ Saying' = NoRoom /\ FreshRooms' = FreshRooms
  BY SaysNothing DEF LeaveRoom, Saying, Idle, FreshRooms
<1>2. Current' = NoRoom /\ owned' = NoRoom
  BY DEF Inv, OwnedRoomIsServed, LeaveRoom, Current
<1> QED
  BY <1>1, <1>2, LeavesAtMost DEF Promise!Next

\* A chat goes to the room that the process is in, from the copy to the send.
LEMMA ChatMaps ==
  ASSUME Inv, PrepareChat \/ SendChat
  PROVE  Promise!Next
<1>1. CASE PrepareChat
  <2>1. /\ Saying = NoRoom /\ Saying' = active /\ Current = active /\ active # NoRoom
        /\ Current' = Current /\ owned' = owned /\ FreshRooms' = FreshRooms
    BY <1>1, SaysNothing
    DEF PrepareChat, HasMembership, Saying, Current, FreshRooms, state
  <2>2. Promise!Say
    BY <2>1 DEF Promise!Say, Current, Saying
  <2> QED
    BY <2>2 DEF Promise!Next
<1>2. CASE SendChat
  <2>1. /\ Saying # NoRoom /\ Saying' = NoRoom
        /\ Current' = Current /\ owned' = owned /\ FreshRooms' = FreshRooms
    <3>1. main.room \in Room
      BY <1>2 DEF Inv, TypeOK, SendChat, Idle
    <3> QED
      BY <1>2, <3>1, RoomAssumption
      DEF SendChat, Saying, Current, FreshRooms, state, Idle
  <2>2. Promise!Said
    BY <2>1 DEF Promise!Said, Current, Saying
  <2> QED
    BY <2>2 DEF Promise!Next
<1> QED
  BY <1>1, <1>2

\* An advert is heard.
LEMMA AnnounceMaps ==
  ASSUME Inv, NEW r \in Room, OnRoomAnnounce(r)
  PROVE  Promise!Next
<1>1. FreshRooms' = FreshRooms \cup {r}
  BY TimeAssumption DEF Inv, TypeOK, OnRoomAnnounce, FreshRooms, Pruned
<1>2. Current' = Current /\ owned' = owned /\ Saying' = Saying
  BY DEF OnRoomAnnounce, Current, Saying
<1>3. Promise!Advertised(r)
  BY <1>1, <1>2 DEF Promise!Advertised, Current, Saying
<1> QED
  BY <1>3 DEF Promise!Next

\* Adverts only grow older.
LEMMA PassMaps ==
  ASSUME Inv, Pass
  PROVE  Promise!Next
<1>1. FreshRooms' \in SUBSET FreshRooms
  <2> SUFFICES ASSUME NEW r \in Room, registry'[r] # NoAdvert, registry'[r] <= RegistryStaleAge
               PROVE  registry[r] # NoAdvert /\ registry[r] <= RegistryStaleAge
    BY DEF FreshRooms
  <2>1. registry[r] \in 0..AgeCap \cup {NoAdvert}
    BY DEF Inv, TypeOK
  <2> QED
    BY <2>1, TimeAssumption DEF Pass
<1>2. Current' = Current /\ owned' = owned /\ Saying' = Saying
  BY DEF Pass, Current, Saying
<1>3. Promise!Forget
  BY <1>1, <1>2 DEF Promise!Forget, Current, Saying
<1> QED
  BY <1>3 DEF Promise!Next

\* What no promise is about: listing rooms, a join that is refused, the adverts that
\* go out, and the chats of others.
LEMMA RestStutters ==
  ASSUME Inv,
         \/ (\E r \in Room : JoinRefused(r)) \/ ListAdvertisedRooms \/ AnnounceCreated
         \/ AdvertThread
         \/ (\E r \in Room : OnRoomChat(r)) \/ ShowChat
         \/ UNCHANGED vars
  PROVE  UNCHANGED Promise!vars
<1>1. CASE (\E r \in Room : JoinRefused(r)) \/ ListAdvertisedRooms
  <2>1. FreshRooms' = FreshRooms
    BY <1>1, PrunedFresh DEF Inv, JoinRefused, ListAdvertisedRooms
  <2> QED
    BY <1>1, <2>1 DEF JoinRefused, ListAdvertisedRooms, Promise!vars
<1>2. CASE AnnounceCreated
  <2>1. Saying = NoRoom /\ Saying' = NoRoom
    BY <1>2 DEF AnnounceCreated, Saying, Idle
  <2> QED
    BY <1>2, <2>1 DEF AnnounceCreated, Promise!vars, Saying, state, FreshRooms
<1>3. CASE \/ AdvertThread \/ (\E r \in Room : OnRoomChat(r)) \/ ShowChat
           \/ UNCHANGED vars
  BY <1>3
  DEF AdvertThread, CopyOwned, BroadcastAdvert, OnRoomChat, ShowChat, vars, state,
      Promise!vars, FreshRooms
<1> QED
  BY <1>1, <1>2, <1>3

\* Every call of the three threads, failures and refusals included, is a step that
\* Membership allows, or one that its user cannot tell from none.
THEOREM RoomsKeepPromise == Spec => KeepsRoomPromise
<1>1. Init => Promise!Init
  BY DEF Init, Promise!Init, FreshRooms, Idle
<1>2. Inv /\ [Next]_vars => [Promise!Next]_(Promise!vars)
  <2> SUFFICES ASSUME Inv, [Next]_vars PROVE Promise!Next \/ UNCHANGED Promise!vars
    OBVIOUS
  <2>1. ASSUME NEW r \in Room, NEW ok \in BOOLEAN, CreateRoom(r, ok) \/ JoinRoom(r, ok)
        PROVE  Promise!Next
    BY <2>1, CreateMaps, JoinMaps
  <2>2. CASE LeaveRoom \/ PrepareChat \/ SendChat \/ Pass
    BY <2>2, LeaveMaps, ChatMaps, PassMaps
  <2>3. ASSUME NEW r \in Room, OnRoomAnnounce(r) PROVE Promise!Next
    BY <2>3, AnnounceMaps
  <2>4. CASE \/ (\E r \in Room : JoinRefused(r)) \/ ListAdvertisedRooms \/ AnnounceCreated
             \/ AdvertThread
             \/ (\E r \in Room : OnRoomChat(r)) \/ ShowChat
             \/ UNCHANGED vars
    BY <2>4, RestStutters
  <2> QED
    BY <2>1, <2>2, <2>3, <2>4 DEF Next, MainThread, Receiver
<1> QED
  BY <1>1, <1>2, InvHolds, PTL DEF Spec, KeepsRoomPromise, Promise!Spec

-----------------------------------------------------------------------------
(* What ChatRouting takes the rooms of a process to do *)

\* The steps of ChatRouting's EnterRoom, LeaveRoom and FailToJoin, on active and sock.
Switches ==
    \/ active' \in Room /\ sock' \notin {sock, NoSocket}
    \/ active' = NoRoom /\ sock' = NoSocket
    \/ active' = active /\ sock' = NoSocket

\* The room and the socket change only as ChatRouting has it: with a room comes a new
\* socket, and no call leaves a room but stays in the group.
THEOREM SwitchesAsRouted == Spec => [][Switches]_<<active, sock>>
<1>1. ASSUME Inv, [Next]_vars, ~UNCHANGED <<active, sock>> PROVE Switches
  <2>1. ASSUME NEW r \in Room, NEW ok \in BOOLEAN, CreateRoom(r, ok) \/ JoinRoom(r, ok)
        PROVE  Switches
    BY <2>1, RoomAssumption DEF CreateRoom, JoinRoom, BindMulticast, Switches
  <2>2. CASE LeaveRoom
    BY <2>2 DEF LeaveRoom, Switches
  <2>3. (\E r \in Room, ok \in BOOLEAN : CreateRoom(r, ok) \/ JoinRoom(r, ok)) \/ LeaveRoom
    BY <1>1 DEF Next, MainThread, Receiver, AdvertThread, JoinRefused, ListAdvertisedRooms,
                PrepareChat, SendChat, AnnounceCreated, CopyOwned, BroadcastAdvert,
                OnRoomAnnounce, OnRoomChat, ShowChat, Pass, vars, state
  <2> QED
    BY <2>1, <2>2, <2>3
<1>2. Inv /\ [Next]_vars => [Switches]_<<active, sock>>
  BY <1>1
<1> QED
  BY <1>2, InvHolds, PTL DEF Spec
=============================================================================
