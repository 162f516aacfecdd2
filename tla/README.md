# Verification of nettverk (the USN chat client)

TLA+ models of the chat client in `oblig1_chattsystem/`, checked with TLC and
proved about with TLAPS. Paths below are relative to that directory.

## 1. The system

One process per user. All processes of a subnet talk SECP, a line protocol
(`TYPE|room|user|payload`), over UDP port 50000: broadcast for presence, adverts
and the lobby, multicast for open group rooms, unicast for closed 1-1 rooms.
Four threads run inside a process:

| thread | code | does |
|---|---|---|
| main | `main.cpp:138-152`, `text_menu.cpp` | the menu, then the shutdown |
| receiver | `receive_multiplex_loop.cpp:35-127` | polls both sockets, parses, calls the services |
| heartbeat | `main.cpp:117-127` | every 10 s: presence, pruning, resending of invitations |
| advert | `main.cpp:129-136` | every 10 s: `ROOM_ANNOUNCE` of the owned room |

| component | state | operations | interacts with | what makes it correct |
|---|---|---|---|---|
| `DirectMessageService` | `sessions_` (state, peer, three time points), its mutex | invite, accept, decline, write (main); `on_invite`, `on_room_chat` (receiver); prune, resend (heartbeat) | directory (address), UDP socket, peers | only agreed conversations; a session keeps its peer; invitations live their time and then end; nothing stale is used after an unlock |
| `GroupRoomCoordinator` | registry of adverts, owned room, active room, multicast socket, its mutex | create, list, join, leave, write (main); `on_room_announce`, `on_room_chat`, `recv_multicast` (receiver); advert | its own socket, UDP socket for adverts | name, ownership and socket agree whatever fails; only fresh rooms are joined; the raw socket pointer is live when used |
| receive loop | poll set, buffer | poll, receive, dispatch | all services, both sockets | every datagram is received; never stuck on one socket |
| `main`, `InterruptibleSleep` | `running`, `stopped_`, mutex and condition variable | sleep, stop, close, join | all threads | the program ends, and ends promptly |
| `DiscoveryService`, `UserDirectory` | identity; peers with address and last-seen | presence out and in, prune, find, list | heartbeat, receiver, invitations | live peers are listed, dead ones go; addresses are recent |
| `LobbyService` | a callback | broadcast, show | UDP socket | stateless |
| SECP codec | none | build, parse, UTF-8 check | all services | parse inverts build; rejects everything else |
| `UdpSocket` | descriptor, last errno | open, close, options, send, receive | the kernel | used by several threads without a lock |
| routing of chats (receive loop, the three services, the callbacks of `main`) | the chat being routed, the active room | say in the lobby, a room or a session; show | all processes | a chat is shown only to those it was sent to, and as what it was not said as only where two rooms have one name |
| text menu, `Logger`, `sync_output`, helpers | none, or output only | prompts, log lines | `cout_mutex` | no lock is waited for in a circle |

What is hard here: each service lets go of its mutex before it sends or calls
back; UDP loses, duplicates and reorders; there is no ACCEPT message, so each
end guesses the other's state; two time limits act on one session; the room's
socket is replaced by one thread while another polls and reads it; and shutdown
has to end three threads that sleep, poll or receive. `PROJECT.json` lists these
hazards at their lines.

## 2. The modules

| module | models | proofs |
|---|---|---|
| `DirectMessage` | the closed rooms: one process on each host, its three threads, the network, restarts, time | `DirectMessageProofs`, `DirectMessageTimers` |
| `Consent` | what the closed rooms promise, without sessions, timers and threads: the abstract specification | `DirectMessageRefinement` |
| `GroupRoom` | the open rooms: one coordinator with its three threads, failing system calls, time | `GroupRoomProofs` |
| `Membership` | what the open rooms promise the user of one process, without sockets, failures, ages and threads: the abstract specification | `GroupRoomProofs` |
| `ClientThreads` | the four threads of a process: poll and receive on sockets that come and go, `InterruptibleSleep`, shutdown | `ClientThreadsProofs` |
| `Discovery` | presence and the directory on several machines: starts, ends, changes of address, a lossy broadcast, a prune that waits for its mutex | `DiscoveryProofs` |
| `Secp`, `SecpWire` | the codec as operators over bytes; the life of one line from `build_secp_line` to `parse_secp_line` | `SecpProofs` |
| `ChatRouting` | the way of a chat from the menu over the network and the three services of each process to the screens | `ChatRoutingProofs` |
| `MC...` | constants of the TLC instances | |

How state and actions correspond to the code is in `PROJECT.json` under `map`,
line by line. The conventions:

- A locked block and what is local to the thread before it is one action; a send
  or callback after the unlock is another action (`InviteUser`/`SendInvite`,
  `PrepareChat`/`SendChat`, `OnRoomChat`/`ShowChat`, `BeatCollect`/`BeatSend`,
  `CopyOwned`/`BroadcastAdvert`, `TakePointer`/`RecvRoom`,
  `ReadClock`/`PruneStale`, `MatchRoom`/`ShowInGroup`). What the code has
  copied or points to in between is a variable (`main`, `shown`, `resend`,
  `advert`, `ptr`, `lag`, `recv`).
- The calls the menu would refuse without any effect are not steps, except
  `JoinRefused`, which prunes the registry.
- Time points are kept as ages in seconds, advanced by `Pass`; each instance
  holds them at `AgeCap`, beyond all they are compared with.
- Texts, names of rooms and users, and session ids are model values, but bytes in
  `Secp`. A session id is whatever `make_session_id` may draw, so ids may collide.
- Two definitions next to each other, of which one is said to be the mutant,
  are the code and a plausible mistake in it; only the code's is used.

The components meet in this way. What one process says and another hears is in
`DirectMessage`, `Discovery` and `ChatRouting`, which each have several processes;
`SecpWire` justifies that there messages are records, since what is heard is what
was said, or could have been. `DirectMessage` takes any address for the directory's answer, which
covers every stale entry, and `ListedWhereTheyWere` says which those are.
`ChatRouting` takes the Active sessions of `DirectMessage` as given, and its rooms
are entered, left and lost as in `GroupRoom` (the theorem `SwitchesAsRouted`).
`ClientThreads` has the one race that crosses components, between the receiver's poll and
the menu's rooms.

### DirectMessage and Consent

`sessions[h]` is `sessions_` of the process on host `h`, `self[h]` its user.
A host is an IPv4 address, as in the code, where the port is fixed; two processes
on one machine are not modelled. `net` is a set of datagrams:
`Send` may lose one (or fail: `invite_user` then reports an error but keeps the
session, and so does the model), `Take` may leave a duplicate. `Restart` ends a
process and starts it again, empty, perhaps under another name, while what it
sent is in flight. Users accept, decline and invite again at any time; since menu 9
answers from a list that may be old, any id may be answered.

A user is a name on a machine (`User`, `UserAt`), so that whoever starts on a machine
after somebody else is another user. `asked` and `accepted` record which user did
what: who asked whom by name, and who said yes to whom. An invitation names the user
it is for, but a chat does not: it carries an id and its author. So there is one way in
which a restart passes on an agreement. bob invites alice and she accepts; bob's
machine starts again as carol, who invites alice and draws the same id; a chat that
alice wrote to bob arrives late and opens carol's invitation
(`direct_message_service.cpp:284-311`). `make_session_id` draws one of 2^24 ids, and a
machine has to draw it twice. `MutualConsent` therefore has two parts: in any case
whoever is in a conversation did something for it himself (`Party`), and for each id
that one user only has drawn (`OneAsker`) his peer agreed with him in person
(`Agreed`). Without `OneAsker` the second part fails in `dm_restart`.

`Consent` has conversations in place of sessions: users, as above, ask, answer, say and
hear, and processes end. A conversation opens by an answer to one who asked, or at the one
who asked by a chat. The mapping is two definitions of `DirectMessage`: open are the
Active sessions with their peers (`Conversations`), on their way are the CHATs in
flight (`ChatsInFlight`). Pending sessions, resends, time and the threads are steps
that `Consent` does not see. `KeepsPromise` is its specification under the mapping.

### GroupRoom and Membership

All open rooms share one multicast group, so the socket says only whether the
process is in it. Every bind may fail (`ok = FALSE`) after the old membership
was given up. Adverts and chats of other processes arrive at any time.

`Membership` has a user who creates, joins, leaves and writes to rooms, and hears
adverts that are forgotten some time later. The mapping stands at the end of
`GroupRoom`: the user is in the active room while there is a socket (a join that
fails keeps the room's name without one), a room is fresh if its last advert is not
stale, whether or not the registry was pruned since, and a chat is being said from
the copy of the name to the send. Failed binds are steps that leave the room, refused
joins and lists are no steps. `KeepsRoomPromise` is its specification under the
mapping.

### ClientThreads

Sockets are model values; `sock` is the coordinator's, `"udp"` the common one.
From Linux it takes that a closed socket lives on while `poll` or `recvfrom`
holds it, that `close` does not end such a wait, that descriptors are reused,
and that a broadcast reaches every socket bound to the port, also on the host
that sends it. `waiting` is the set of sockets that have something to read. A
freed `UdpSocket` that is read (the raw pointer of `recv_multicast`) has either
descriptor -1 or that of the room socket opened since.

### Discovery

A machine is named by the source address of its packets; `ip[h]` is what its
process believes to be its address and announces, which on a machine with two
interfaces may be another, and then nobody enters it, or nothing (`NoAddress`, the `-` of
`discovery_service.cpp:68`), and then everybody does. `Broadcast` reaches any set of the
other machines, late or never, and in any order, also where no process runs yet: what is
on its way when a process ends may come to the next one, or be lost with its socket.
That `on_presence` refuses long names (`discovery_service.cpp:59`) is left out, as
`build_secp_line` sends none. `prune_stale` reads the
clock before it has the mutex, so the heartbeat's prune is two actions, with `lag`
between them, and the receiver's wait is the `late` of `OnPresence`. `been` and
`unheard` are history.

### Secp

`Shapes` are the rows of `valid_utf8` (lead byte, range of the second byte,
length); a text is valid if at each of its bytes a shape fits or a continuation of
one goes on. `Parse` splits at every pipe and wants exactly four fields. `RefusesExactly`
compares with a reference definition that does not follow the code: the Unicode
scalar values and their encodings. `Received` is what `recvfrom` leaves of a datagram in the
1024 bytes of the receive loop (`receive_multiplex_loop.cpp:39`, `udp_socket.cpp:135`):
one that is longer is cut, and its head is parsed like any other. `ParsesOnlyBuilt` is
about what was received.

### ChatRouting

`said` is every chat as it was sent: by whom, with which ROOM field, and by broadcast,
multicast or unicast. Any chat that has reached a process (`Reached`) may arrive there,
at any time, any number of times or never: the network duplicates and delays, and a
member of an open room has two sockets on the port, which both get what is broadcast
or multicast. A multicast reaches those who are in the group at any time after it was
said, and whoever leaves the group may still have it in his UDP socket. The receiver
hands what it takes to the three services in the code's order: lobby, then group, whose
lock is gone when the chat is shown, then session. `since[n]` is history: who has
been in the group since chat `n` was said, whose room has been called like its room, and
who has been in that room with a socket; a join that fails keeps the name without one.
`shown[h][n]` has the labels under which it was shown.

## 3. The runs

| run | question | bounds | result |
|---|---|---|---|
| `dm_timed` | how long do invitations live, and is each resolved? | 2 hosts, 1 id, 2 invitations asked, 2 datagrams; steps of 5 s | `PendingLifetime`, `FullInviteWindow`, `PendingResolved` hold |
| `dm_restart` | consent, binding and the abstract promise through restarts and stale addresses | 2 hosts, 3 names, one machine changes user; 1 id | `TypeOK`, `MutualConsent`, `UnlockedUseIsValid`, `PeerBinding`, `KeepsPromise` hold |
| `dm_acceptance` | does the inviter learn of the acceptance? | 2 hosts, 1 invitation | no |
| `group_room` | do name, ownership and socket agree, and keep the abstract promise? | 3 rooms, 2 sockets; 5 s steps | `TypeOK`, `OwnedRoomIsServed`, `ChatUsesLiveSocket`, `JoinsFreshRoom`, `KeepsRoomPromise` hold |
| `group_rejoin` | is a refused user a member? | same | no, after a failed join |
| `threads` | do the sleepers last as long as the program, is a stop final, is reception kept up, does the program end? | 2 room sockets | `TypeOK`, `SleepersOutlastMenu`, `StopIsFinal`, `UdpIsReceived`, `ExitsGivenTraffic` hold |
| `threads_exit` | does it end on a quiet network? | same | not always |
| `threads_blocked` | is the receiver ever stuck on one socket? | same | yes |
| `threads_wakeup` | does a stop wake every sleeper at once? | same | no |
| `discovery` | who is listed, where, for how long, and who is listed again? | 2 machines, one of which starts twice and may change user and address, or announce none; 5 s steps | `TypeOK`, `EntryLifetime`, `ListedWhereTheyWere`, `DroppedOnlyAfterLoss`, `FreshSurvives`, `GoneIsForgotten`, `ListedAgain` hold |
| `secp` | what is refused, and is it read as it was said? | short texts over the bytes at which a check changes its answer; datagrams longer than the buffer | `TypeOK`, `RefusesExactly`, `RoundTrip`, `ParsesOnlyBuilt` hold |
| `routing` | who is shown a chat, and as what? | 3 processes, two with users of one name; rooms called like the lobby and like a session, a session called like the lobby; 1 chat, which may arrive any number of times | `TypeOK`, `CrosstalkContained`, `NeverEchoed`, `MembersOnly`, `PrivateBetweenEnds` hold |

The bounds. One session id is the hardest case: with it every invitation of
every user collides with every other, which in the code happens once in 2^24.
`MaxAsked = 2` lets both users of a pair invite at
once, or one invite again after an end; `MaxInFlight = 2` lets an invitation and
a chat, or a resend and its original, overtake each other. `Tick = 5` divides
the intervals 10, 30 and 45 s, and 6 s falls strictly between two ticks, as it
does between 0 and the 10 s of the heartbeat; where ages do not matter for the
question (`dm_restart`) one tick of 60 s expires everything, and it
may come at any moment. `AgeCap` is above each limit plus a heartbeat, as the
module's `ASSUME` demands. A third party is a third user on one of two machines
here; the proofs have any number of hosts. Three rooms are one to own, one to be in
and one to go to; two sockets are the old and the new one. In `ClientThreads` the main
thread can have one room socket while the receiver holds another; a third only
repeats that (checked once: same results, three times the states). A socket
buffer of one datagram suffices, since receiving takes one at a time.

In `Discovery` the code's 10 s and 18 s are used as they are, with a wait for the
mutex of up to `MaxDelay = 5` s, far more than it can be, so that a tick falls into
it; 18 s is then more than a heartbeat and less than two, as in the code. `AgeCap = 40`
is above 18 + 10 + 2 * 5. In `secp` the limits are 2, 2 and 4 bytes and a packet of 25
bytes, in which every proper line fits as the code's do in 1024, and datagrams go up to
27; texts take every byte on both sides of a bound that
`valid_utf8` compares with, in up to four positions. In `routing` every property is
about one chat, and others only keep the receiver busy, which the order of
steps does as well; the proofs have any number.

Deadlock is checked except in the `threads` runs, where the program ends, and in
`secp`, where a line's life does.

### Fairness

`DirectMessage`: time passes, the heartbeat is scheduled, main finishes a send
it began and the receiver takes or loses what is in flight; all weak. Users owe
nothing: `PendingResolved` is the work of the two time limits. `Pass` waits for a
heartbeat that is under way: its few unblocked sends take milliseconds, against
10 s of sleep. That makes one heartbeat the most by which a limit is overrun,
which is what `PendingLifetime` says.

`ClientThreads`: weak fairness of the shutdown and of the receiver (a `poll` has
a timeout of 500 ms; a `recvfrom` on an empty socket has none, and none is
assumed). Strong fairness of the two sleepers, since `mu_` may be taken each time
one looks, and is held for moments only; of their deadline, as `wait_for` has an
absolute one that spurious wakeups do not move; and of a presence broadcast that
gets through, as a network that is not down takes one now and then. Other clients
owe nothing, except in `ExitsGivenTraffic`, which takes their regular presence as
its hypothesis.

`Discovery`: weak fairness of time, of each heartbeat thread and of the receiver
for each sender. Strong fairness of an announcement that gets through to a given
listener: a network that loses every broadcast between two machines for ever is down,
and nobody could be listed. Nobody owes a start, or an end: `GoneIsForgotten` and
`ListedAgain` are about those who stay as they are from some time on.

## 4. What was found

- **No answer reaches the inviter** (`dm_acceptance`). `accept_invite`
  (`direct_message_service.cpp:139-158`) sends nothing. Until the invitee writes,
  the inviter is not told and cannot write (`TESTING_GUIDE.md:439`, `446-464` say
  otherwise), and after 45 s his side is gone while the invitee's is Active. For the
  same reason answered invitations go on being resent, against `kvalitetssjekk.md:236`.
- **A failed join locks the user out of the room** (`group_rejoin`):
  `group_room_coordinator.cpp:167-169` keeps the old room's name without its socket,
  and `join_room` and menu 7 then contradict each other. One line
  (`active_room_name_.clear()`) would do.
- **The receiver can block in `recvfrom`** (`threads_blocked`): the room's socket
  is replaced between `poll` and `recv_multicast`
  (`group_room_coordinator.cpp:333-345`). The UDP socket is not served meanwhile.
  `UdpIsReceived` shows that the process's own next presence broadcast ends it.
- **The program may not end** (`threads_exit`): if the user quits in that time,
  the own broadcasts have stopped and only other clients' can end the wait
  (`ExitsGivenTraffic`).
- **A lost wakeup** (`threads_wakeup`): `request_stop`
  (`interruptible_sleep.hpp:13-16`) does not take the mutex; the exit may wait for
  the rest of a 10 s sleep. `StopIsFinal` bounds the damage: once the flag is set no
  thread decides to sleep again, so it is one sleep at most, and no new broadcast begins.

Met while modelling, without a run of its own:

- The ROOM field keeps the rooms apart by name only, and names can be the same. An open
  room may be called `USN Chat`: its chats then appear in the lobby of its members
  (`receive_multiplex_loop.cpp:85`), and the lobby's in the room. One called like a
  session shares its chats with the other end of it. This goes against
  `RAPPORT_OBLIG1.md:143` (ROOM separates the lobby from named rooms) and `:160` (only what
  belongs to the user's room is shown). The properties of `routing` do not hide
  it: they say what is true in spite of it. `CrosstalkContained` bounds it to the processes the
  chat was sent to and to equal names, `MembersOnly` keeps what was said in a room to
  its members, and `PrivateBetweenEnds` keeps what was said in private, under whatever
  label, between the ends.
- A chat may be shown more than once: a member of an open room has two sockets
  for it, and nothing recognises a duplicate. `TESTING_GUIDE.md:365-368` expects a chat in a
  room once. No property bounds how often; all of them hold for each arrival.
- Lobby and group filter by user name: the chats of another user with the
  same name are not shown.
- `create_room` checks only the length of a name: with a separator in it the room is
  entered, but can be neither announced nor written in.
- One lost presence drops a live user from the list, since 18 s is less than two
  heartbeats; `ListedAgain` says that he comes back. `kvalitetssjekk.md:39` has
  5000 ms where `discovery_service.hpp` has 10000.
- In `secp.cpp` the branches for `-` accept nothing that the general checks do not, and
  the packet limit never refuses a line: the longest has 593 bytes.

## 5. What is proved

For all values of the constants that satisfy the modules' named assumptions:
any number of hosts, users, ids, rooms, sockets and chats, and any intervals.

`DirectMessageProofs`
- `TypeCorrect`: `TypeOK` is inductive.
- `PeersStayBound`: from `TypeOK`, one case per action; only `OnInvite` and
  `InviteUser` write an entry whole, and both only where there is none.
- `UnlockedUse`: inductive together with `TypeOK`. It needs `PeersStayBound`'s
  step lemma: what is copied under the lock stays true, since nothing rebinds a
  session or ends an Active one.
- `Consent`: `MutualConsent` is not inductive: a CHAT makes the inviter Active, so
  one needs to know where chats come from, and an INVITE makes an entry, so one
  needs to know where invitations come from. The invariant is `ConsentInv ==
  TypeOK /\ UnlockedUseIsValid /\ InvitationsAsked /\ MutualConsent`, where
  `InvitationsAsked` says that every invitation in a session map, in a thread's
  hands or in flight was asked for by the user it names, and by nobody for himself.
  `SessionOrigin`, `NetOrigin`, `HeldInvite` and `ResendOrigin` say where each comes
  from; the history only grows. A chat names no addressee, so the case in which it opens
  an invitation needs `AskerAgreed`: if one user only has drawn the id, the one who
  agreed with the chat's author is the one whose invitation it opens.

`DirectMessageRefinement`
- `Refinement`: `DirectMessage` implements `Consent`. Each action is mapped by a lemma
  of its own (`InviteAsks`, `AcceptAnswers`, `SendSays`, `ChatHeard`, `RestartEnds`),
  the others are steps `Consent` does not see (`Unseen`). `ConsentInv` is what makes
  an accepted or opened session one that was asked for.
- `PromiseMeansConsent`: `KeepsPromise` alone, with nothing of `DirectMessage`'s steps,
  has `MutualConsent`, of users by name. The abstract specification is as strong as the property it
  was written for; `ConsentedTo` is its inductive invariant.

`DirectMessageTimers`
- `InvitationsEnd` (`PendingLifetime`) and `FullWindow` (`FullInviteWindow`). The
  invariant `TimersInv` says by how much an age may exceed its limit while the
  heartbeat sleeps (by its sleep) and when it is under way (not at all). Beyond
  the module's assumptions, both take as hypotheses what the code's numbers satisfy:
  the heartbeat's interval is a number of ticks (`TickDivides`), and `ResendInterval +
  HeartbeatInterval <= PruneAge` (`ResendsInTime`; 6 + 10 against 30): otherwise the
  prune would end invitations that are still being resent.

`DiscoveryProofs`, from `DiscoveryInv == TypeOK /\ Ticks /\ Lifetime /\ OnTime /\
Origin`
- `TypeCorrect`, `EntriesEnd` (`EntryLifetime`), `ListedTruly` (`ListedWhereTheyWere`),
  `PruneSparesTheFresh` (`FreshSurvives`), `OnlyLossDrops` (`DroppedOnlyAfterLoss`).
  `Lifetime` bounds an age by where the heartbeat is in its round, `OnTime` bounds the
  age of an entry whose owner has been heard since he last announced himself by his
  own round, and `Origin` says that presences and entries name users where they ran.
  The module's `StaleAssumption` (18 s is at least a heartbeat and a wait) is used in
  `OnlyLossDrops` alone.

`SecpProofs`
- `TypeCorrect`, `MessagesArriveAsSaid` (`RoundTrip`), `NothingElseIsHeard`
  (`ParsesOnlyBuilt`), for all texts and limits. There is one way to lay out a line of
  four fields (`LaidUnique`), of which the parser finds the places (`LaidReads`);
  what `build_secp_line` makes is so laid out (`FieldsLaid`), and so is what is
  accepted (`BuildsWhatIsRead`). A datagram of any length is heard as what the buffer
  holds of it (`ReceivedType`), which is all of a line that was built (`BuiltIsReceived`).
  Where one would use induction over bytes,
  the proofs take a least position (`Least`). `LinesAreUnambiguous` is a corollary.
- `Utf8IsUnicode`: `ValidUtf8`, the table of `valid_utf8`, and `WellFormed`, the
  arithmetic of Unicode, are the same for every text. For each number of bytes from one
  to four, a group of bytes decodes to a scalar value and encodes back to itself exactly
  if it is within the ranges of one row (`OneByte` to `FourBytes`, `FitsBySize`,
  `CharacterFits`): no overlong form, surrogate or number beyond U+10FFFF slips through,
  and no character is refused. No induction is needed for a text: both definitions
  choose a function by its recursion equation, and the two equations are the same.
- `RefusesJustTheImproper` (`RefusesExactly`): from it, and from `BuiltIfProper`: the
  limits of the fields leave room for the longest type name, so no proper message is
  refused for the size of its line. This is where `LimitAssumption` is used.

`GroupRoomProofs`
- `TypeCorrect`, `OwnedServed`, `LiveSocket` from the one invariant
  `TypeOK /\ OwnedRoomIsServed /\ ChatUsesLiveSocket`. A join gives up ownership
  because the owned room is the active one, and that one is not joined again.
- `FreshJoins` from the same invariant and what pruning leaves (`PrunedType`).
- `RoomsKeepPromise`: `GroupRoom` implements `Membership`. One lemma for each call
  that `Membership` sees (`CreateMaps`, `JoinMaps`, `LeaveMaps`, `ChatMaps`,
  `AnnounceMaps`, `PassMaps`); the rest stutter (`RestStutters`). A prune is a stutter
  because it drops only what is not fresh (`PrunedFresh`), and `OwnedRoomIsServed` is
  what makes a failing join a step that leaves and owns nothing.
- `SwitchesAsRouted`: the name of the room and the socket change together only in the
  three ways that `ChatRouting` has as actions.

`ChatRoutingProofs`
- `TypeCorrect`, and from `RoutingInv == TypeOK /\ WhoWasThere /\ RoutesWhatReached /\
  ShownRightly`: `CrosstalkNeedsTheName` (`CrosstalkContained`), `NobodyIsEchoed`,
  `ShownToMembers`, `ShownToTheOtherEnd`. `WhoWasThere` ties the history to the present. Its
  core is that whoever is in the room of a chat by name, and has been in the group since it
  was said, has been there with his socket: a failed join keeps a name but cannot gain
  one. `RoutesWhatReached` carries that over the time between the lock and the screen,
  and `MayShow` says why a chat was shown, for reasons that last, as the history only
  grows. Nothing depends on how often a chat arrives.

`ClientThreadsProofs`
- `TypeCorrect`: the types need `BlockedInSocket`, as a datagram may arrive where the
  receiver waits.
- `NobodyLeavesEarly` (`SleepersOutlastMenu`) and `StopEndsWork` (`StopIsFinal`), from
  `SleepInv`, which ties the two flags to where the main thread is, and `SleeperMoves`,
  which says what a sleeper must have seen of them to end, to work or to sleep. The
  first is the safety half of `UdpIsReceived`: the presence broadcast that frees a
  blocked receiver is never given up while the program runs.

Only model-checked: liveness (`PendingResolved`, `UdpIsReceived`,
`ExitsGivenTraffic`, `GoneIsForgotten`, `ListedAgain`), which is out of the prover's
reach. Every invariant and action property of the passing runs is proved.

## 6. What is not modelled

- `Logger` and `sync_output`: output. Mutexes appear as locked blocks (except `mu_`
  of `InterruptibleSleep`, which is modelled as a mutex), so the order in which they
  nest is not checked. Read off the code, it is a service's mutex before `cout_mutex` (the
  coordinator logs under its lock, `group_room_coordinator.cpp:47-49`), and never the
  other way.
- The helpers, the unused headers, socket options, and the sequential set-up of
  `main` before the threads start.
- Prompts, listings and status texts of the menu.
- Malformed fields above the codec, such as a `ROOM_ANNOUNCE` of `-` or an INVITE
  without `CLOSED;to=`: only that handlers ignore them.
- Two clients on one machine, which share a port.
- Names of rooms as texts (trimming, separators); the one consequence found is in
  section 4.

## 7. Plan

Done: the components of the first plan (`DirectMessage`, `GroupRoom`,
`ClientThreads`, `Discovery`), the codec, the routing of chats, two abstract
specifications with their refinements, and the proofs of every safety property that the
passing runs check.

Left:
1. The order of locks as a small module: scripts of each thread's locks, callbacks and
   waits on the terminal, and the absence of a circular wait.
2. `Discovery` composed with `DirectMessage`, so that the addresses invited are those
   listed: nothing that `DirectMessage`'s free address does not already cover, but it
   could say when an invitation goes astray.
3. Names of rooms that no line can carry, in `GroupRoom`: a room that is owned but
   cannot be announced (section 4).
