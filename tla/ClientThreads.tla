---------------------------- MODULE ClientThreads ----------------------------
(***************************************************************************)
(* The four threads of one process: how they receive, sleep and end.       *)
(*                                                                         *)
(* The main thread runs the menu, which opens and closes the socket of the *)
(* group room, and then shuts down (main.cpp).  The receiver polls the UDP *)
(* socket and the room's socket (run_receive_multiplex_loop).  The         *)
(* heartbeat and the advert thread sleep on one InterruptibleSleep and     *)
(* broadcast.  What the services do with a datagram is not here: a         *)
(* datagram is only something that waits in a socket or has been taken.    *)
(*                                                                         *)
(* Of the operating system (Linux) the model has this: a socket whose      *)
(* descriptor is closed lives on while a call holds it; poll says what was *)
(* ready when it returned; recvfrom on an empty blocking socket waits; a   *)
(* broadcast reaches every socket of the host that is bound to the port.   *)
(***************************************************************************)

CONSTANTS
    Socket,    \* sockets of group rooms
    NoSocket

Sleeper == {"heartbeat", "advert"}
File == Socket \cup {"udp"}

ASSUME SocketAssumption == NoSocket \notin File /\ "udp" \notin Socket

VARIABLES
    running,   \* the flag of main.cpp
    stopped,   \* InterruptibleSleep::stopped_
    mu,        \* InterruptibleSleep::mu_: the thread that holds it, or "free"
    main,      \* where the main thread is
    sleeper,   \* sleeper[t]: where the heartbeat and the advert thread are
    open,      \* udp_sock's fd_ >= 0
    sock,      \* mcast_sock_ of the GroupRoomCoordinator
    waiting,   \* the sockets with a datagram to read; a buffer holds one
    recv,      \* where the receiver is
    polled,    \* the sockets it polls
    ready,     \* the descriptors poll returned as readable, yet to be served
    ptr        \* the raw pointer that recv_multicast took

vars == <<running, stopped, mu, main, sleeper, open, sock, waiting, recv, polled,
          ready, ptr>>
stopVars == <<running, stopped>>
sleepVars == <<mu, sleeper>>
recvVars == <<recv, polled, ready, ptr>>

-----------------------------------------------------------------------------
Init ==
    /\ running = TRUE
    /\ stopped = FALSE
    /\ mu = "free"
    /\ main = "menu"
    /\ sleeper = [t \in Sleeper |-> "check"]
    /\ open = TRUE
    /\ sock = NoSocket
    /\ waiting = {}
    /\ recv = "check"
    /\ polled = {}
    /\ ready = {}
    /\ ptr = NoSocket

\* The sockets that a call of the receiver keeps alive.
Held == (IF recv = "poll" THEN polled ELSE {}) \cup
        (IF recv = "blocked" THEN {ptr} ELSE {})

\* The sockets that datagrams still reach.
Bound == ({sock} \ {NoSocket}) \cup Held \cup (IF open THEN {"udp"} ELSE {})

\* What waits in a socket goes with it, unless a call still holds it.
Closing(f) == waiting \ ({f} \ Held)

-----------------------------------------------------------------------------
(* Main thread *)

\* bind_multicast_channel: the old socket, if any, is freed and closed, and a
\* new one is opened that nobody else has yet.
EnterRoom ==
    /\ main = "menu"
    /\ \E k \in Socket \ ({sock, ptr} \cup Held) :
          sock' = k /\ waiting' = Closing(sock) \ {k}
    /\ UNCHANGED <<stopVars, sleepVars, main, open, recvVars>>

\* leave_room, and a bind_multicast_channel that fails.
LeaveRoom ==
    /\ main = "menu"
    /\ sock # NoSocket
    /\ sock' = NoSocket
    /\ waiting' = Closing(sock)
    /\ UNCHANGED <<stopVars, sleepVars, main, open, recvVars>>

\* The menu ends, by choice or at the end of stdin.
Quit ==
    /\ main = "menu"
    /\ running' = FALSE
    /\ main' = "stop"
    /\ UNCHANGED <<stopped, sleepVars, open, sock, waiting, recvVars>>

\* request_stop: the flag, without the mutex ...
SetStopped ==
    /\ main = "stop"
    /\ stopped' = TRUE
    /\ main' = "notify"
    /\ UNCHANGED <<running, sleepVars, open, sock, waiting, recvVars>>

\* ... and notify_all, which wakes those that wait now.
Notified == [t \in Sleeper |-> IF sleeper[t] = "wait" THEN "woken" ELSE sleeper[t]]
NotifyAll ==
    /\ main = "notify"
    /\ sleeper' = Notified
    /\ main' = "close"
    /\ UNCHANGED <<stopVars, mu, open, sock, waiting, recvVars>>

CloseUdp ==
    /\ main = "close"
    /\ open' = FALSE
    /\ waiting' = Closing("udp")
    /\ main' = "leave"
    /\ UNCHANGED <<stopVars, sleepVars, sock, recvVars>>

LeaveAtExit ==
    /\ main = "leave"
    /\ sock' = NoSocket
    /\ waiting' = Closing(sock)
    /\ main' = "join"
    /\ UNCHANGED <<stopVars, sleepVars, open, recvVars>>

\* The three joins; the order does not matter, for an ended thread stays so.
Join ==
    /\ main = "join"
    /\ recv = "done"
    /\ \A t \in Sleeper : sleeper[t] = "done"
    /\ main' = "done"
    /\ UNCHANGED <<stopVars, sleepVars, open, sock, waiting, recvVars>>

-----------------------------------------------------------------------------
(* Receiver thread *)

\* What poll is given: a closed socket has no descriptor.  The mutant does not
\* check the one of the room.
Unchecked == {sock} \cup (IF open THEN {"udp"} ELSE {})
Descriptors == ({sock} \ {NoSocket}) \cup (IF open THEN {"udp"} ELSE {})

\* The condition of the loop; the mutant leaves it to poll to notice the end.
Forever == TRUE
Continues == running

BeginRound ==
    /\ recv = "check"
    /\ recv' = IF Continues THEN "poll" ELSE "done"
    /\ polled' = IF Continues THEN Descriptors ELSE {}
    /\ UNCHANGED <<stopVars, sleepVars, main, open, sock, waiting, ready, ptr>>

\* From here on the descriptors are mere numbers, and the number of a room's
\* socket that was closed is at once that of the next one.
PollReturns ==
    /\ recv = "poll"
    /\ polled \cap waiting # {}
    /\ ready' = (polled \cap waiting \cap {"udp"}) \cup
                (IF polled \cap waiting \cap Socket # {} THEN {"room"} ELSE {})
    /\ recv' = "udp"
    /\ polled' = {}
    /\ UNCHANGED <<stopVars, sleepVars, main, open, sock, waiting, ptr>>

\* poll_timeout, EINTR, or POLLNVAL on a descriptor closed by now.
PollTimesOut ==
    /\ recv = "poll"
    /\ polled \cap waiting = {}
    /\ recv' = "check"
    /\ polled' = {}
    /\ UNCHANGED <<stopVars, sleepVars, main, open, sock, waiting, ready, ptr>>

\* Any other failure of poll ends the thread, and only the thread.
PollFails ==
    /\ recv = "poll"
    /\ recv' = "done"
    /\ polled' = {}
    /\ UNCHANGED <<stopVars, sleepVars, main, open, sock, waiting, ready, ptr>>

\* Once udp_sock is closed, its descriptor is no longer the one that was polled.
RecvUdp ==
    /\ recv = "udp"
    /\ waiting' = IF "udp" \in ready /\ open THEN waiting \ {"udp"} ELSE waiting
    /\ recv' = "room"
    /\ UNCHANGED <<stopVars, sleepVars, main, open, sock, polled, ready, ptr>>

\* recv_multicast takes the pointer under the coordinator's mutex ...
TakePointer ==
    /\ recv = "room"
    /\ ready' = {}
    /\ IF "room" \in ready /\ sock # NoSocket
       THEN ptr' = sock /\ recv' = "recvfrom"
       ELSE ptr' = NoSocket /\ recv' = "check"
    /\ UNCHANGED <<stopVars, sleepVars, main, open, sock, waiting, polled>>

\* ... and uses it after the unlock, whether or not anything waits there.  The
\* object may be freed by then: the descriptor found in it is that of the
\* socket opened since ...
RecvRoom ==
    /\ recv = "recvfrom"
    /\ sock # NoSocket
    /\ IF sock \in waiting
       THEN recv' = "check" /\ ptr' = NoSocket /\ waiting' = waiting \ {sock}
       ELSE recv' = "blocked" /\ ptr' = sock /\ UNCHANGED waiting
    /\ UNCHANGED <<stopVars, sleepVars, main, open, sock, polled, ready>>

\* ... or -1.
RecvFails ==
    /\ recv = "recvfrom"
    /\ ptr # sock
    /\ recv' = "check"
    /\ ptr' = NoSocket
    /\ UNCHANGED <<stopVars, sleepVars, main, open, sock, waiting, polled, ready>>

\* A datagram ends the wait in recvfrom; closing the socket does not.
Unblock ==
    /\ recv = "blocked"
    /\ ptr \in waiting
    /\ waiting' = waiting \ {ptr}
    /\ recv' = "check"
    /\ ptr' = NoSocket
    /\ UNCHANGED <<stopVars, sleepVars, main, open, sock, polled, ready>>

-----------------------------------------------------------------------------
(* Heartbeat and advert thread *)

Move(t, from, to) ==
    /\ sleeper[t] = from
    /\ sleeper' = [sleeper EXCEPT ![t] = to]

\* while (running)
BeginLoop(t) ==
    /\ Move(t, "check", IF running THEN "lock" ELSE "done")
    /\ UNCHANGED <<stopVars, mu, main, open, sock, waiting, recvVars>>

\* sleep_for, or wait_for woken before its deadline, takes mu_.
Lock(t) ==
    /\ mu = "free"
    /\ mu' = t
    /\ Move(t, "lock", "test") \/ Move(t, "woken", "test")
    /\ UNCHANGED <<stopVars, main, open, sock, waiting, recvVars>>

\* The predicate, with mu_ held: sleep_for returns false, or goes on to wait.  The
\* mutant waits without one.
SleepAnyway(t) ==
    /\ Move(t, "test", "block")
    /\ UNCHANGED <<stopVars, mu, main, open, sock, waiting, recvVars>>
Test(t) ==
    /\ Move(t, "test", IF stopped THEN "done" ELSE "block")
    /\ mu' = IF stopped THEN "free" ELSE t
    /\ UNCHANGED <<stopVars, main, open, sock, waiting, recvVars>>

\* The wait lets go of mu_.
Block(t) ==
    /\ Move(t, "block", "wait")
    /\ mu' = "free"
    /\ UNCHANGED <<stopVars, main, open, sock, waiting, recvVars>>

Timeout(t) ==
    /\ Move(t, "wait", "timeout")
    /\ UNCHANGED <<stopVars, mu, main, open, sock, waiting, recvVars>>

SpuriousWakeup(t) ==
    /\ Move(t, "wait", "woken")
    /\ UNCHANGED <<stopVars, mu, main, open, sock, waiting, recvVars>>

\* wait_for at its deadline takes mu_ once more, for return !stopped_; the
\* mutant returns stopped_.
Inverted == IF stopped THEN "work" ELSE "done"
AfterWait == IF stopped THEN "done" ELSE "work"
Return(t) ==
    /\ mu = "free"
    /\ Move(t, "timeout", AfterWait)
    /\ UNCHANGED <<stopVars, mu, main, open, sock, waiting, recvVars>>

\* The presence or the advert goes out, and comes back to this host too.
Broadcast(t) ==
    /\ open
    /\ Move(t, "work", "check")
    /\ waiting' = waiting \cup Bound
    /\ UNCHANGED <<stopVars, mu, main, open, sock, recvVars>>

\* sendto fails, or there is no room to advertise.
SendsNothing(t) ==
    /\ Move(t, "work", "check")
    /\ UNCHANGED <<stopVars, mu, main, open, sock, waiting, recvVars>>

-----------------------------------------------------------------------------
(* Other clients *)

PeerBroadcast ==
    /\ main # "done"
    /\ waiting' = waiting \cup Bound
    /\ UNCHANGED <<stopVars, sleepVars, main, open, sock, recvVars>>

\* A unicast, or a chat of the group room, reaches one of the sockets.
PeerSends ==
    /\ main # "done"
    /\ \E f \in Bound : waiting' = waiting \cup {f}
    /\ UNCHANGED <<stopVars, sleepVars, main, open, sock, recvVars>>

-----------------------------------------------------------------------------
Shutdown == SetStopped \/ NotifyAll \/ CloseUdp \/ LeaveAtExit \/ Join
Menu == EnterRoom \/ LeaveRoom \/ Quit

Receiver ==
    \/ BeginRound \/ PollReturns \/ PollTimesOut \/ RecvUdp \/ TakePointer
    \/ RecvRoom \/ RecvFails \/ Unblock

Loop(t) ==
    BeginLoop(t) \/ Lock(t) \/ Test(t) \/ Block(t) \/ Timeout(t) \/ Return(t)
        \/ Broadcast(t) \/ SendsNothing(t)

Next ==
    \/ Menu \/ Shutdown
    \/ Receiver \/ PollFails
    \/ \E t \in Sleeper : Loop(t) \/ SpuriousWakeup(t)
    \/ PeerBroadcast \/ PeerSends

Spec == Init /\ [][Next]_vars

\* Every thread is scheduled, mu_ is held for moments and waited for by one
\* other thread at most, spurious wakeups do not go on past the deadline of
\* wait_for, and a network that is not down takes a heartbeat now and then.
\* Nothing is assumed of the user or of other clients.
Fairness ==
    /\ WF_vars(Shutdown)
    /\ WF_vars(Receiver)
    /\ \A t \in Sleeper : SF_vars(Loop(t)) /\ SF_vars(Timeout(t))
    /\ SF_vars(Broadcast("heartbeat"))

FairSpec == Spec /\ Fairness

-----------------------------------------------------------------------------
(* Properties *)

TypeOK ==
    /\ running \in BOOLEAN /\ stopped \in BOOLEAN /\ open \in BOOLEAN
    /\ mu \in Sleeper \cup {"free"}
    /\ main \in {"menu", "stop", "notify", "close", "leave", "join", "done"}
    /\ sleeper \in [Sleeper -> {"check", "lock", "test", "block", "wait", "woken",
                                "timeout", "work", "done"}]
    /\ sock \in Socket \cup {NoSocket}
    /\ waiting \subseteq File
    /\ recv \in {"check", "poll", "udp", "room", "recvfrom", "blocked", "done"}
    /\ polled \subseteq File
    /\ ready \subseteq {"udp", "room"}
    /\ ptr \in Socket \cup {NoSocket}

\* The heartbeat and the adverts go on for as long as the program does: no wakeup,
\* timeout or late test of the flag ends one of the two threads while the menu runs,
\* and lets other clients take the user or his room for gone.
SleepersOutlastMenu == running => \A t \in Sleeper : sleeper[t] # "done"

\* interruptible_sleep.hpp:20: once request_stop has set its flag, sleep_for sends
\* nobody out to broadcast any more, and none that has yet to test the flag to sleep:
\* only a broadcast already begun, and a sleep already decided on, are left.
StopIsFinal ==
    [][stopped => \A t \in Sleeper :
          sleeper'[t] \in {"work", "block"} => sleeper'[t] = sleeper[t]]_vars

\* A datagram on the UDP socket is received, whatever the user does with rooms
\* meanwhile: a receiver that waits in recvfrom on an empty room socket is
\* freed by the process's own next presence broadcast.  Only the end of the
\* program, or a failing poll, leaves it unread.
UdpIsReceived ==
    "udp" \in waiting ~> "udp" \notin waiting \/ ~running \/ recv = "done"

\* kvalitetssjekk.md:218: the threads stop cleanly when the program ends.
Exits == main = "stop" ~> main = "done"

\* It does so as long as other clients keep broadcasting their presence.
ExitsGivenTraffic == WF_vars(PeerBroadcast) => Exits

\* CODE_WALKTHROUGH.md:178, RAPPORT_OBLIG1.md:226: the receiver never blocks on
\* one socket while there are messages on the other.
NeverBlockedOnOne == ~(recv = "blocked" /\ "udp" \in waiting)

\* CODE_WALKTHROUGH.md:376, interruptible_sleep.hpp:10: once request_stop has
\* returned, no thread is left to sleep for the rest of its interval.
StopWakesSleepers ==
    main \in {"close", "leave", "join"} => \A t \in Sleeper : sleeper[t] # "wait"
=============================================================================
