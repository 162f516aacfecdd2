------------------------- MODULE ClientThreadsProofs -------------------------
(***************************************************************************)
(* Proofs about the four threads, for any number of sockets.  What they    *)
(* must eventually do is liveness, and checked by TLC.                     *)
(***************************************************************************)
EXTENDS ClientThreads, TLAPS

\* A receiver that waits in recvfrom waits in a socket, which the call keeps alive and
\* which datagrams still reach: the types of what is held and bound depend on it.
BlockedInSocket == recv = "blocked" => ptr \in Socket
ThreadsInv == TypeOK /\ BlockedInSocket

\* What is held, and what datagrams reach, are sockets.
LEMMA FilesOnly ==
  ASSUME ThreadsInv
  PROVE  Held \subseteq File /\ Bound \subseteq File
<1>1. Held \subseteq File
  BY DEF ThreadsInv, TypeOK, BlockedInSocket, Held, File
<1>2. ({sock} \ {NoSocket}) \subseteq File
  BY DEF ThreadsInv, TypeOK, File
<1>3. (IF open THEN {"udp"} ELSE {}) \subseteq File
  BY DEF File
<1> QED
  BY <1>1, <1>2, <1>3 DEF Bound

\* Closing a socket leaves what waits in other sockets.
LEMMA ClosingFiles ==
  ASSUME ThreadsInv, NEW f PROVE Closing(f) \subseteq File
  BY DEF ThreadsInv, TypeOK, Closing

\* The main thread, with its menu and its shutdown.
LEMMA MainKeeps ==
  ASSUME ThreadsInv, Menu \/ Shutdown
  PROVE  ThreadsInv'
<1> USE DEF ThreadsInv, TypeOK, BlockedInSocket, stopVars, sleepVars, recvVars
<1>1. CASE EnterRoom
  <2>1. waiting' \subseteq File
    BY <1>1, ClosingFiles DEF EnterRoom
  <2> QED
    BY <1>1, <2>1 DEF EnterRoom
<1>2. CASE LeaveRoom
  BY <1>2, ClosingFiles DEF LeaveRoom
<1>3. CASE Quit
  BY <1>3 DEF Quit
<1>4. CASE SetStopped
  BY <1>4 DEF SetStopped
<1>5. CASE NotifyAll
  <2>1. Notified \in [Sleeper -> {"check", "lock", "test", "block", "wait", "woken",
                                 "timeout", "work", "done"}]
    BY DEF Notified
  <2> QED
    BY <1>5, <2>1 DEF NotifyAll
<1>6. CASE CloseUdp
  BY <1>6, ClosingFiles DEF CloseUdp
<1>7. CASE LeaveAtExit
  BY <1>7, ClosingFiles DEF LeaveAtExit
<1>8. CASE Join
  BY <1>8 DEF Join
<1> QED
  BY <1>1, <1>2, <1>3, <1>4, <1>5, <1>6, <1>7, <1>8 DEF Menu, Shutdown

\* The receiver.
LEMMA ReceiverKeeps ==
  ASSUME ThreadsInv, Receiver \/ PollFails
  PROVE  ThreadsInv'
<1> USE DEF ThreadsInv, TypeOK, BlockedInSocket, stopVars, sleepVars
<1>1. CASE BeginRound
  <2>1. Descriptors \subseteq File
    BY DEF Descriptors, File
  <2> QED
    BY <1>1, <2>1 DEF BeginRound
<1>2. CASE PollReturns
  BY <1>2 DEF PollReturns
<1>3. CASE PollTimesOut
  BY <1>3 DEF PollTimesOut
<1>4. CASE PollFails
  BY <1>4 DEF PollFails
<1>5. CASE RecvUdp
  BY <1>5 DEF RecvUdp
<1>6. CASE TakePointer
  BY <1>6 DEF TakePointer
<1>7. CASE RecvRoom
  BY <1>7 DEF RecvRoom
<1>8. CASE RecvFails
  BY <1>8 DEF RecvFails
<1>9. CASE Unblock
  BY <1>9 DEF Unblock
<1> QED
  BY <1>1, <1>2, <1>3, <1>4, <1>5, <1>6, <1>7, <1>8, <1>9 DEF Receiver

\* The heartbeat and the advert thread.
LEMMA SleeperKeeps ==
  ASSUME ThreadsInv, NEW t \in Sleeper, Loop(t) \/ SpuriousWakeup(t)
  PROVE  ThreadsInv'
<1> DEFINE At == {"check", "lock", "test", "block", "wait", "woken", "timeout", "work", "done"}
<1>1. ASSUME NEW from, NEW to \in At, Move(t, from, to)
      PROVE  sleeper' \in [Sleeper -> At]
  BY <1>1 DEF Move, ThreadsInv, TypeOK
<1>2. sleeper' \in [Sleeper -> At]
  BY <1>1 DEF Loop, BeginLoop, Lock, Test, Block, Timeout, Return, AfterWait, Broadcast,
              SendsNothing, SpuriousWakeup
<1>3. mu' \in Sleeper \cup {"free"}
  BY DEF Loop, BeginLoop, Lock, Test, Block, Timeout, Return, Broadcast, SendsNothing,
         SpuriousWakeup, ThreadsInv, TypeOK
<1>4. waiting' \subseteq File
  BY FilesOnly DEF Loop, BeginLoop, Lock, Test, Block, Timeout, Return, Broadcast,
         SendsNothing, SpuriousWakeup, ThreadsInv, TypeOK
<1>5. UNCHANGED <<stopVars, main, open, sock, recvVars>>
  BY DEF Loop, BeginLoop, Lock, Test, Block, Timeout, Return, Broadcast, SendsNothing,
         SpuriousWakeup
<1> QED
  BY <1>2, <1>3, <1>4, <1>5 DEF ThreadsInv, TypeOK, BlockedInSocket, stopVars, recvVars

\* The types are kept by every step of the four threads and of other clients.
THEOREM TypeCorrect == Spec => []TypeOK
<1>1. Init => ThreadsInv
  BY DEF Init, ThreadsInv, TypeOK, BlockedInSocket, File
<1>2. ThreadsInv /\ [Next]_vars => ThreadsInv'
  <2> SUFFICES ASSUME ThreadsInv, [Next]_vars PROVE ThreadsInv'
    OBVIOUS
  <2>1. CASE UNCHANGED vars
    BY <2>1 DEF vars, ThreadsInv, TypeOK, BlockedInSocket
  <2>2. CASE Menu \/ Shutdown
    BY <2>2, MainKeeps
  <2>3. CASE Receiver \/ PollFails
    BY <2>3, ReceiverKeeps
  <2>4. CASE \E t \in Sleeper : Loop(t) \/ SpuriousWakeup(t)
    BY <2>4, SleeperKeeps
  <2>5. CASE PeerBroadcast \/ PeerSends
    <3>1. waiting' \subseteq File
      BY <2>5, FilesOnly DEF PeerBroadcast, PeerSends, ThreadsInv, TypeOK
    <3>2. UNCHANGED <<stopVars, sleepVars, main, open, sock, recvVars>>
      BY <2>5 DEF PeerBroadcast, PeerSends
    <3> QED
      BY <3>1, <3>2 DEF ThreadsInv, TypeOK, BlockedInSocket, stopVars, sleepVars, recvVars
  <2> QED
    BY <2>1, <2>2, <2>3, <2>4, <2>5 DEF Next
<1>3. ThreadsInv => TypeOK
  BY DEF ThreadsInv
<1> QED
  BY <1>1, <1>2, <1>3, PTL DEF Spec

-----------------------------------------------------------------------------
(* The two sleepers, while the program runs and when it is told to stop *)

\* The strengthening: the flags tell where the main thread is.
SleepInv ==
    /\ running <=> main = "menu"
    /\ stopped => main \notin {"menu", "stop"}
    /\ SleepersOutlastMenu

\* Where a thread goes, the other one stays.
LEMMA OneMoves ==
  ASSUME TypeOK, NEW t \in Sleeper, NEW from, NEW to, Move(t, from, to)
  PROVE  /\ sleeper[t] = from /\ sleeper'[t] = to
         /\ \A u \in Sleeper : u # t => sleeper'[u] = sleeper[u]
  BY DEF Move, TypeOK

\* The moves of a sleeper: it ends only once it sees one of the flags, and it goes to
\* work or to sleep only while it does not see the stop.
LEMMA SleeperMoves ==
  ASSUME TypeOK, NEW t \in Sleeper, Loop(t) \/ SpuriousWakeup(t)
  PROVE  /\ UNCHANGED <<stopVars, main>>
         /\ \A u \in Sleeper : u # t => sleeper'[u] = sleeper[u]
         /\ sleeper'[t] = "done" => ~running \/ stopped
         /\ sleeper'[t] \in {"work", "block"} => ~stopped
<1>1. CASE BeginLoop(t)
  BY <1>1, OneMoves DEF BeginLoop
<1>2. CASE Lock(t)
  <2>1. CASE Move(t, "lock", "test")
    BY <1>2, <2>1, OneMoves DEF Lock
  <2>2. CASE Move(t, "woken", "test")
    BY <1>2, <2>2, OneMoves DEF Lock
  <2> QED
    BY <1>2, <2>1, <2>2 DEF Lock
<1>3. CASE Test(t)
  BY <1>3, OneMoves DEF Test
<1>4. CASE Block(t)
  BY <1>4, OneMoves DEF Block
<1>5. CASE Timeout(t)
  BY <1>5, OneMoves DEF Timeout
<1>6. CASE Return(t)
  BY <1>6, OneMoves DEF Return, AfterWait
<1>7. CASE Broadcast(t)
  BY <1>7, OneMoves DEF Broadcast
<1>8. CASE SendsNothing(t)
  BY <1>8, OneMoves DEF SendsNothing
<1>9. CASE SpuriousWakeup(t)
  BY <1>9, OneMoves DEF SpuriousWakeup
<1> QED
  BY <1>1, <1>2, <1>3, <1>4, <1>5, <1>6, <1>7, <1>8, <1>9 DEF Loop

\* The main thread sends nobody to work or to sleep, and ends nobody.
LEMMA MainMoves ==
  ASSUME TypeOK, Menu \/ Shutdown
  PROVE  \A t \in Sleeper : \/ sleeper'[t] = sleeper[t]
                            \/ sleeper'[t] = "woken"
<1>1. CASE NotifyAll
  BY <1>1 DEF NotifyAll, Notified
<1>2. CASE Menu \/ SetStopped \/ CloseUdp \/ LeaveAtExit \/ Join
  BY <1>2 DEF Menu, EnterRoom, LeaveRoom, Quit, SetStopped, CloseUdp, LeaveAtExit, Join,
              sleepVars
<1> QED
  BY <1>1, <1>2 DEF Shutdown

\* The receiver and the other clients have no part in this.
LEMMA OthersMove ==
  ASSUME Receiver \/ PollFails \/ PeerBroadcast \/ PeerSends \/ UNCHANGED vars
  PROVE  UNCHANGED <<stopVars, sleepVars, main>>
  BY DEF Receiver, BeginRound, PollReturns, PollTimesOut, PollFails, RecvUdp, TakePointer,
         RecvRoom, RecvFails, Unblock, PeerBroadcast, PeerSends, vars, stopVars, sleepVars

LEMMA SleepInvariant == Spec => [](TypeOK /\ SleepInv)
<1>1. Init => SleepInv
  BY DEF Init, SleepInv, SleepersOutlastMenu
<1>2. TypeOK /\ SleepInv /\ [Next]_vars => SleepInv'
  <2> SUFFICES ASSUME TypeOK, SleepInv, [Next]_vars PROVE SleepInv'
    OBVIOUS
  <2>1. CASE Menu \/ Shutdown
    <3>1. /\ running' <=> main' = "menu"
          /\ stopped' => main' \notin {"menu", "stop"}
          /\ running' => running
      BY <2>1 DEF SleepInv, Menu, Shutdown, EnterRoom, LeaveRoom, Quit, SetStopped,
                  NotifyAll, CloseUdp, LeaveAtExit, Join, stopVars
    <3> QED
      BY <2>1, <3>1, MainMoves DEF SleepInv, SleepersOutlastMenu
  <2>2. ASSUME NEW t \in Sleeper, Loop(t) \/ SpuriousWakeup(t) PROVE SleepInv'
    BY <2>2, SleeperMoves DEF SleepInv, SleepersOutlastMenu, stopVars
  <2>3. CASE Receiver \/ PollFails \/ PeerBroadcast \/ PeerSends \/ UNCHANGED vars
    BY <2>3, OthersMove DEF SleepInv, SleepersOutlastMenu, stopVars, sleepVars
  <2> QED
    BY <2>1, <2>2, <2>3 DEF Next
<1> QED
  BY <1>1, <1>2, TypeCorrect, PTL DEF Spec

\* SleepersOutlastMenu: no order of wakeups, timeouts and tests ends the heartbeat or
\* the adverts early.
THEOREM NobodyLeavesEarly == Spec => []SleepersOutlastMenu
<1>1. SleepInv => SleepersOutlastMenu
  BY DEF SleepInv
<1> QED
  BY <1>1, SleepInvariant, PTL

\* StopIsFinal: what request_stop promises, from the flag on and before the wakeup.
THEOREM StopEndsWork == Spec => StopIsFinal
<1> DEFINE Final == stopped => \A t \in Sleeper :
                       sleeper'[t] \in {"work", "block"} => sleeper'[t] = sleeper[t]
<1>1. ASSUME TypeOK, [Next]_vars PROVE Final
  <2>1. CASE Menu \/ Shutdown
    BY <1>1, <2>1, MainMoves
  <2>2. ASSUME NEW t \in Sleeper, Loop(t) \/ SpuriousWakeup(t) PROVE Final
    BY <1>1, <2>2, SleeperMoves
  <2>3. CASE Receiver \/ PollFails \/ PeerBroadcast \/ PeerSends \/ UNCHANGED vars
    BY <2>3, OthersMove DEF sleepVars
  <2> QED
    BY <1>1, <2>1, <2>2, <2>3 DEF Next
<1>2. TypeOK /\ [Next]_vars => [Final]_vars
  BY <1>1
<1> QED
  BY <1>2, TypeCorrect, PTL DEF Spec, StopIsFinal
=============================================================================
