-------------------------- MODULE DirectMessageTimers --------------------------
(***************************************************************************)
(* How long an invitation lives, for any limits of which the heartbeat's   *)
(* interval is a number of ticks: the two time limits act on the same      *)
(* sessions, one on last_update and one on created_at.                     *)
(***************************************************************************)
EXTENDS DirectMessageProofs

\* The clock is read at the ticks at which heartbeats fall.
TickDivides == \E k \in 0..HeartbeatInterval : HeartbeatInterval = k * Tick

\* An invitation that was just not due is due again at the next heartbeat,
\* before the prune that comes first there finds it old (6 s, 10 s and 30 s).
ResendsInTime == ResendInterval + HeartbeatInterval <= PruneAge

Ticks == \A h \in Host : \E j \in Nat : slept[h] = j * Tick

\* The session s while the heartbeat is at b and has slept for sl.  What the
\* prune and the resend leave is within their limits; while the thread sleeps,
\* an age exceeds its limit by no more than the sleep.
Timely(s, b, sl) ==
    /\ s.state = "OutgoingPending" =>
          /\ s.created <= InviteMaxAge + sl
          /\ b = "send" => s.created <= InviteMaxAge
          /\ s.last_sent = s.last_update
          /\ s.last_update <= ResendInterval + sl
          /\ b = "send" => s.last_update <= ResendInterval
    /\ s.state = "IncomingPending" =>
          /\ s.created = s.last_update
          /\ s.created <= PruneAge + sl
          /\ b # "sleep" => s.created <= PruneAge

TimersInv ==
    \A h \in Host, sid \in SessionId : Timely(sessions[h][sid], beat[h], slept[h])

-----------------------------------------------------------------------------
(* One step *)

\* A sleep that is not over has at least a tick to go.
LEMMA TickLeft ==
  ASSUME TickDivides, NEW s \in Nat, s < HeartbeatInterval, NEW j \in Nat, s = j * Tick
  PROVE  s + Tick <= HeartbeatInterval /\ s + Tick = (j + 1) * Tick
<1>1. PICK k \in 0..HeartbeatInterval : HeartbeatInterval = k * Tick
  BY DEF TickDivides
<1>2. HeartbeatInterval \in Nat /\ k \in Nat /\ Tick \in Nat /\ Tick > 0
  BY <1>1, TimeAssumption
<1>3. (j + 1) * Tick = s + Tick
  BY <1>2
<1>4. k > j
  <2>1. SUFFICES ASSUME k <= j PROVE FALSE
    BY <1>2
  <2>2. PICK d \in Nat : j = k + d
    <3>1. j - k \in Nat /\ j = k + (j - k)
      BY <1>2, <2>1
    <3> QED
      BY <3>1
  <2>3. j * Tick = k * Tick + d * Tick /\ d * Tick >= 0
    BY <1>2, <2>2
  <2> QED
    BY <1>1, <1>2, <2>3
<1>5. PICK d \in Nat : k = (j + 1) + d
  <2>1. k - (j + 1) \in Nat /\ k = (j + 1) + (k - (j + 1))
    BY <1>2, <1>4
  <2> QED
    BY <2>1
<1>6. k * Tick = (j + 1) * Tick + d * Tick /\ d * Tick >= 0
  BY <1>2, <1>5
<1> QED
  BY <1>1, <1>2, <1>3, <1>6

\* Time passes for a sleep by a whole tick.
LEMMA PassTicks ==
  ASSUME TickDivides, TypeOK, Ticks, Pass, NEW h \in Host
  PROVE  slept'[h] = slept[h] + Tick /\ \E j \in Nat : slept'[h] = j * Tick
<1>1. PICK j \in Nat : slept[h] = j * Tick
  BY DEF Ticks
<1>2. slept[h] \in Nat /\ slept[h] < HeartbeatInterval /\ HeartbeatInterval \in Nat /\ Tick \in Nat
  BY TimeAssumption DEF TypeOK, Pass
<1>3. slept[h] + Tick <= HeartbeatInterval /\ slept[h] + Tick = (j + 1) * Tick
  BY <1>1, <1>2, TickLeft
<1>4. slept'[h] = slept[h] + Tick
  BY <1>2, <1>3 DEF Pass
<1> QED
  BY <1>3, <1>4

\* Only ticks are added to a sleep.
LEMMA NextTicks == TickDivides /\ TypeOK /\ Ticks /\ [Next]_vars => Ticks'
<1> SUFFICES ASSUME TickDivides, TypeOK, Ticks, [Next]_vars, NEW h \in Host
             PROVE  \E j \in Nat : slept'[h] = j * Tick
  BY DEF Ticks
<1>1. slept'[h] = slept[h] \/ slept'[h] = 0 \/ Pass
  BY DEF TypeOK, Next, Main, Receiver, HeartbeatThread, InviteUser, SendInvite, AcceptInvite,
         DeclineInvite, PrepareChat, SendChat, OnInvite, OnRoomChat, ShowChat, BeatPrune,
         BeatCollect, BeatSend, BeatSleep, Restart, procVars, vars
<1>2. CASE slept'[h] = slept[h]
  BY <1>2 DEF Ticks
<1>3. CASE slept'[h] = 0
  <2>1. 0 = 0 * Tick
    BY TimeAssumption
  <2> QED
    BY <1>3, <2>1
<1>4. CASE Pass
  BY <1>4, PassTicks
<1> QED
  BY <1>1, <1>2, <1>3, <1>4

\* What a step does to a session s of a host whose heartbeat is at b and has
\* slept for sl: it becomes t, the heartbeat is at c and has slept for sm.
Step(s, b, sl, t, c, sm) ==
    \/ t = NoSession /\ sm \in Nat
    \/ t.state = "Active" /\ sm \in Nat
    \/ /\ \E st \in {"OutgoingPending", "IncomingPending"}, peer \in Name, addr \in Host :
             t = NewSession(st, peer, addr)
       /\ sm \in Nat
    \/ t = s /\ c = b /\ sm = sl
    \/ b = "sleep" /\ c = "resend" /\ sm = sl /\ t = s /\ ~Expired(s)
    \/ b = "resend" /\ c = "send" /\ sm = sl /\ t = s /\ ~TooOld(s) /\ ~ResendDue(s)
    \/ b = "resend" /\ c = "send" /\ sm = sl /\ t = Resent(s) /\ ResendDue(s)
    \/ b = "send" /\ c = "sleep" /\ sm = 0 /\ t = s
    \/ b = "sleep" /\ c = b /\ sm = sl + Tick /\ t = Aged(s)

\* These are all the steps there are.
LEMMA SessionStep ==
  ASSUME TickDivides, TypeOK, TypeOK', Ticks, [Next]_vars, NEW g \in Host, NEW i \in SessionId
  PROVE  Step(sessions[g][i], beat[g], slept[g], sessions'[g][i], beat'[g], slept'[g])
<1> DEFINE s == sessions[g][i]
           t == sessions'[g][i]
           b == beat[g]
           c == beat'[g]
           sl == slept[g]
           sm == slept'[g]
<1> USE DEF Step, procVars
<1>0. sm \in Nat /\ s \in Session \cup {NoSession}
  BY TimeAssumption DEF TypeOK
<1>1. CASE t = s /\ c = b /\ sm = sl
  BY <1>1
<1>2. ASSUME NEW h \in Host, NEW sid \in SessionId, NEW target \in Name, NEW dest \in Host,
             InviteUser(h, sid, target, dest)
      PROVE  Step(s, b, sl, t, c, sm)
  <2>1. t = s \/ t = NewSession("OutgoingPending", target, dest)
    BY <1>2 DEF InviteUser, TypeOK
  <2>2. c = b /\ sm = sl
    BY <1>2 DEF InviteUser
  <2> QED
    BY <1>0, <2>1, <2>2
<1>3. ASSUME NEW h \in Host, NEW sid \in SessionId, AcceptInvite(h, sid)
      PROVE  Step(s, b, sl, t, c, sm)
  <2>1. sessions[h][sid] \in Session
    BY <1>3 DEF TypeOK, AcceptInvite, NoSession
  <2>2. Activated(sessions[h][sid]).state = "Active"
    BY <2>1, ActivatedType
  <2>3. t = s \/ t = Activated(sessions[h][sid])
    BY <1>3 DEF AcceptInvite, TypeOK
  <2>4. c = b /\ sm = sl
    BY <1>3 DEF AcceptInvite
  <2> QED
    BY <1>0, <2>2, <2>3, <2>4
<1>4. ASSUME NEW h \in Host, NEW sid \in SessionId, DeclineInvite(h, sid)
      PROVE  Step(s, b, sl, t, c, sm)
  <2>1. t = s \/ t = NoSession
    BY <1>4 DEF DeclineInvite, TypeOK
  <2>2. c = b /\ sm = sl
    BY <1>4 DEF DeclineInvite
  <2> QED
    BY <1>0, <2>1, <2>2
<1>5. ASSUME NEW h \in Host, NEW m \in net, OnInvite(h, m)
      PROVE  Step(s, b, sl, t, c, sm)
  <2>1. m \in InviteMsg
    BY <1>5 DEF TypeOK, OnInvite, InviteMsg, ChatMsg
  <2>2. m.sid \in SessionId /\ m.user \in Name /\ m.src \in Host
    BY <2>1 DEF InviteMsg
  <2>3. t = s \/ t = InvitedBy(m)
    <3>1. \/ UNCHANGED sessions
          \/ sessions' = [sessions EXCEPT ![h][m.sid] = InvitedBy(m)]
      BY <1>5 DEF OnInvite
    <3>2. sessions \in [Host -> [SessionId -> Session \cup {NoSession}]]
      BY DEF TypeOK
    <3> QED
      BY <2>2, <3>1, <3>2
  <2>4. c = b /\ sm = sl
    BY <1>5 DEF OnInvite
  <2>5. \E st \in {"OutgoingPending", "IncomingPending"}, peer \in Name, addr \in Host :
           InvitedBy(m) = NewSession(st, peer, addr)
    BY <2>2, Zenon DEF InvitedBy
  <2>6. CASE t = s
    BY <1>1, <2>4, <2>6
  <2>7. CASE t = InvitedBy(m)
    BY <1>0, <2>5, <2>7
  <2> QED
    BY <2>3, <2>6, <2>7
<1>6. ASSUME NEW h \in Host, NEW m \in net, OnRoomChat(h, m)
      PROVE  Step(s, b, sl, t, c, sm)
  <2>1. m \in ChatMsg
    BY <1>6 DEF TypeOK, OnRoomChat, InviteMsg, ChatMsg
  <2>2. m.sid \in SessionId
    BY <2>1 DEF ChatMsg
  <2>3. c = b /\ sm = sl
    BY <1>6 DEF OnRoomChat
  <2>4. CASE t = s
    BY <1>1, <2>3, <2>4
  <2>5. CASE t # s
    <3>1. h = g /\ m.sid = i /\ FromPeer(s, m) /\ t = Activated(s)
      BY <1>6, <2>2, <2>5 DEF OnRoomChat, TypeOK
    <3>2. t.state = "Active"
      BY <1>0, <3>1, ActivatedType DEF FromPeer
    <3> QED
      BY <1>0, <3>2
  <2> QED
    BY <2>4, <2>5
<1>7. ASSUME NEW h \in Host, BeatPrune(h) PROVE Step(s, b, sl, t, c, sm)
  <2>1. CASE h # g
    BY <1>1, <1>7, <2>1 DEF BeatPrune, TypeOK
  <2>2. CASE h = g
    <3>1. t = NoSession \/ (t = s /\ ~Expired(s))
      BY <1>7, <2>2 DEF BeatPrune, TypeOK
    <3>2. b = "sleep" /\ c = "resend" /\ sm = sl
      BY <1>7, <2>2 DEF BeatPrune, TypeOK
    <3> QED
      BY <1>0, <3>1, <3>2
  <2> QED
    BY <2>1, <2>2
<1>8. ASSUME NEW h \in Host, BeatCollect(h) PROVE Step(s, b, sl, t, c, sm)
  <2>1. CASE h # g
    BY <1>1, <1>8, <2>1 DEF BeatCollect, TypeOK
  <2>2. CASE h = g
    <3>1. \/ t = NoSession
          \/ t = s /\ ~TooOld(s) /\ ~ResendDue(s)
          \/ t = Resent(s) /\ ResendDue(s)
      BY <1>8, <2>2 DEF BeatCollect, TypeOK
    <3>2. b = "resend" /\ c = "send" /\ sm = sl
      BY <1>8, <2>2 DEF BeatCollect, TypeOK
    <3> QED
      BY <1>0, <3>1, <3>2
  <2> QED
    BY <2>1, <2>2
<1>9. ASSUME NEW h \in Host, BeatSleep(h) PROVE Step(s, b, sl, t, c, sm)
  BY <1>0, <1>1, <1>9 DEF BeatSleep, TypeOK
<1>10. ASSUME NEW h \in Host, Restart(h) PROVE Step(s, b, sl, t, c, sm)
  BY <1>0, <1>1, <1>10 DEF Restart, TypeOK
<1>11. CASE Pass
  <2>1. sm = sl + Tick
    BY <1>11, PassTicks
  <2> QED
    BY <1>11, <2>1 DEF Pass
<1>12. \/ t = s /\ c = b /\ sm = sl
       \/ Pass
       \/ \E h \in Host :
            \/ \E sid \in SessionId, target \in Name, dest \in Host :
                  InviteUser(h, sid, target, dest)
            \/ \E sid \in SessionId : AcceptInvite(h, sid) \/ DeclineInvite(h, sid)
            \/ \E m \in net : OnInvite(h, m) \/ OnRoomChat(h, m)
            \/ BeatPrune(h) \/ BeatCollect(h) \/ BeatSleep(h) \/ Restart(h)
  BY DEF Next, Main, Receiver, HeartbeatThread, SendInvite, PrepareChat, SendChat, ShowChat,
         BeatSend, vars
<1> QED
  BY <1>1, <1>2, <1>3, <1>4, <1>5, <1>6, <1>7, <1>8, <1>9, <1>10, <1>11, <1>12

\* Whatever a step does to a session, its ages stay within the limits.
LEMMA TimelyStep ==
  ASSUME ResendsInTime,
         NEW s \in Session \cup {NoSession}, NEW t \in Session \cup {NoSession},
         NEW b \in {"sleep", "resend", "send"}, NEW c \in {"sleep", "resend", "send"},
         NEW sl \in Nat, NEW sm \in Nat,
         Timely(s, b, sl), Step(s, b, sl, t, c, sm)
  PROVE  Timely(t, c, sm)
<1>0. /\ HeartbeatInterval \in Nat /\ PruneAge \in Nat /\ ResendInterval \in Nat
      /\ InviteMaxAge \in Nat /\ Tick \in Nat
  BY TimeAssumption
<1>1. s \in Session => /\ s.created \in Nat
                       /\ s.last_sent \in Nat
                       /\ s.last_update \in Nat
  BY TimeAssumption DEF Session
<1>2. CASE t = NoSession \/ t.state = "Active"
  BY <1>2 DEF Timely, NoSession
<1>3. CASE \E st \in {"OutgoingPending", "IncomingPending"}, peer \in Name, addr \in Host :
              t = NewSession(st, peer, addr)
  <2>1. t.created = 0 /\ t.last_sent = 0 /\ t.last_update = 0
    BY <1>3 DEF NewSession
  <2> QED
    BY <1>0, <2>1 DEF Timely
<1>4. CASE t = s /\ c = b /\ sm = sl
  BY <1>4
<1>5. CASE b = "sleep" /\ c = "resend" /\ sm = sl /\ t = s /\ ~Expired(s)
  <2>1. Pending(s) => s.last_update <= PruneAge
    BY <1>0, <1>1, <1>5 DEF Expired, Pending, NoSession
  <2> QED
    BY <1>5, <2>1 DEF Timely, Pending
<1>6. CASE b = "resend" /\ c = "send" /\ sm = sl /\ t = s /\ ~TooOld(s) /\ ~ResendDue(s)
  <2>1. s.state = "OutgoingPending" =>
           s.created <= InviteMaxAge /\ s.last_sent <= ResendInterval
    BY <1>0, <1>1, <1>6 DEF TooOld, ResendDue, NoSession
  <2> QED
    BY <1>6, <2>1 DEF Timely
<1>7. CASE b = "resend" /\ c = "send" /\ sm = sl /\ t = Resent(s) /\ ResendDue(s)
  <2>1. s \in Session /\ s.state = "OutgoingPending" /\ s.created <= InviteMaxAge
    BY <1>0, <1>1, <1>7 DEF ResendDue, TooOld, NoSession
  <2>2. /\ t.state = "OutgoingPending" /\ t.created = s.created
        /\ t.last_sent = 0 /\ t.last_update = 0
    BY <1>7, <2>1 DEF Resent, Session
  <2> QED
    BY <1>0, <1>1, <2>1, <2>2 DEF Timely
<1>8. CASE b = "send" /\ c = "sleep" /\ sm = 0 /\ t = s
  BY <1>0, <1>1, <1>8 DEF Timely, NoSession
<1>9. CASE b = "sleep" /\ c = b /\ sm = sl + Tick /\ t = Aged(s)
  <2>1. CASE Pending(s)
    <3>1. s \in Session
      BY <2>1 DEF Pending, NoSession
    <3>2. /\ t.state = s.state
          /\ t.created = Older(s.created)
          /\ t.last_sent = Older(s.last_sent)
          /\ t.last_update = Older(s.last_update)
      BY <1>9, <2>1, <3>1 DEF Aged, Session
    <3>3. /\ s.created \in 0..AgeCap /\ s.last_update \in 0..AgeCap
      BY <3>1 DEF Session
    <3>4. /\ Older(s.created) <= s.created + Tick
          /\ Older(s.last_update) <= s.last_update + Tick
          /\ Older(s.created) \in Nat /\ Older(s.last_update) \in Nat
      BY <3>3, TimeAssumption DEF Older
    <3>5. CASE s.state = "OutgoingPending"
      <4>1. /\ s.created <= InviteMaxAge + sl
            /\ s.last_sent = s.last_update
            /\ s.last_update <= ResendInterval + sl
        BY <3>5 DEF Timely
      <4>2. /\ t.created <= InviteMaxAge + sm
            /\ t.last_sent = t.last_update
            /\ t.last_update <= ResendInterval + sm
        BY <1>0, <1>1, <1>9, <3>1, <3>2, <3>4, <4>1
      <4> QED
        BY <1>9, <3>2, <3>5, <4>2 DEF Timely
    <3>6. CASE s.state = "IncomingPending"
      <4>1. s.created = s.last_update /\ s.created <= PruneAge + sl
        BY <3>6 DEF Timely
      <4>2. t.created = t.last_update /\ t.created <= PruneAge + sm
        BY <1>0, <1>1, <1>9, <3>1, <3>2, <3>4, <4>1
      <4> QED
        BY <1>9, <3>2, <3>6, <4>2 DEF Timely
    <3> QED
      BY <2>1, <3>5, <3>6 DEF Pending
  <2>2. CASE ~Pending(s)
    BY <1>9, <2>2 DEF Timely, Pending, Aged
  <2> QED
    BY <2>1, <2>2
<1> QED
  BY <1>2, <1>3, <1>4, <1>5, <1>6, <1>7, <1>8, <1>9 DEF Step

-----------------------------------------------------------------------------
(* The invariant, and what follows from it *)

TimersOK == TypeOK /\ Ticks /\ TimersInv

\* A process starts with no invitation, and its heartbeat with no sleep.
LEMMA InitTimers == Init => Ticks /\ TimersInv
<1>1. 0 = 0 * Tick
  BY TimeAssumption
<1>2. Init => Ticks
  BY <1>1 DEF Init, Ticks
<1>3. Init => TimersInv
  BY DEF Init, TimersInv, Timely, NoSession
<1> QED
  BY <1>2, <1>3

\* Every step keeps the ages within the limits.
LEMMA NextTimers == TickDivides /\ ResendsInTime /\ TimersOK /\ [Next]_vars => TimersOK'
<1> SUFFICES ASSUME TickDivides, ResendsInTime, TypeOK, Ticks, TimersInv, [Next]_vars
             PROVE  TimersOK'
  BY DEF TimersOK
<1>1. TypeOK'
  BY NextTypeOK
<1>2. Ticks'
  BY NextTicks
<1>3. ASSUME NEW h \in Host, NEW sid \in SessionId
      PROVE  Timely(sessions'[h][sid], beat'[h], slept'[h])
  <2>1. Step(sessions[h][sid], beat[h], slept[h], sessions'[h][sid], beat'[h], slept'[h])
    BY <1>1, SessionStep
  <2>2. Timely(sessions[h][sid], beat[h], slept[h])
    BY DEF TimersInv
  <2>3. /\ sessions[h][sid] \in Session \cup {NoSession}
        /\ beat[h] \in {"sleep", "resend", "send"}
        /\ slept[h] \in Nat
    BY TimeAssumption DEF TypeOK
  <2>4. /\ sessions'[h][sid] \in Session \cup {NoSession}
        /\ beat'[h] \in {"sleep", "resend", "send"}
        /\ slept'[h] \in Nat
    BY <1>1, TimeAssumption DEF TypeOK
  <2> QED
    BY <2>1, <2>2, <2>3, <2>4, TimelyStep
<1>4. TimersInv'
  BY <1>3 DEF TimersInv
<1> QED
  BY <1>1, <1>2, <1>4 DEF TimersOK

LEMMA TimersInvariant ==
  ASSUME TickDivides, ResendsInTime
  PROVE  Spec => []TimersOK
<1>1. Init => TimersOK
  BY InitTypeOK, InitTimers DEF TimersOK
<1>2. TimersOK /\ [Next]_vars => TimersOK'
  BY NextTimers
<1> QED
  BY <1>1, <1>2, PTL DEF Spec

\* An invitation is gone one heartbeat after its limit at the latest: 45 s and
\* 10 s after it was first sent at the inviter's, however often it is resent
\* (resend_outgoing_pending, 384-387), and 30 s and 10 s after it arrived at the
\* invitee's, however often it arrives again (prune_pending, 354).
THEOREM InvitationsEnd ==
  ASSUME TickDivides, ResendsInTime
  PROVE  Spec => []PendingLifetime
<1>1. TimersOK => PendingLifetime
  <2> SUFFICES ASSUME TimersOK, NEW h \in Host, NEW sid \in SessionId
               PROVE  LET s == sessions[h][sid] IN
                      /\ s.state = "OutgoingPending" =>
                            s.created <= InviteMaxAge + HeartbeatInterval
                      /\ s.state = "IncomingPending" =>
                            s.created <= PruneAge + HeartbeatInterval
    BY DEF PendingLifetime
  <2>1. Timely(sessions[h][sid], beat[h], slept[h])
    BY DEF TimersOK, TimersInv
  <2>2. slept[h] \in 0..HeartbeatInterval /\ sessions[h][sid] \in Session \cup {NoSession}
    BY DEF TimersOK, TypeOK
  <2> QED
    BY <2>1, <2>2, TimeAssumption DEF Timely, Session, NoSession
<1> QED
  BY <1>1, TimersInvariant, PTL

\* Nothing but max_age, an answer or the end of the process takes an invitation
\* off the inviter's list: prune_pending, which comes first in every heartbeat
\* (main.cpp:124), never finds one that resend_outgoing_pending keeps alive.
THEOREM FullWindow ==
  ASSUME TickDivides, ResendsInTime
  PROVE  Spec => FullInviteWindow
<1>1. TimersOK /\ TimersOK' /\ [Next]_vars =>
        [\A h \in Host, sid \in SessionId :
           sessions[h][sid].state = "OutgoingPending" /\ sessions'[h][sid] = NoSession =>
               sessions[h][sid].created > InviteMaxAge \/ Restart(h)]_vars
  <2> SUFFICES ASSUME TypeOK, TimersInv, [Next]_vars, NEW h \in Host, NEW sid \in SessionId,
                      sessions[h][sid].state = "OutgoingPending",
                      sessions'[h][sid] = NoSession, ~Restart(h)
               PROVE  sessions[h][sid].created > InviteMaxAge
    BY DEF TimersOK
  <2> DEFINE s == sessions[h][sid]
  <2>1. Timely(s, beat[h], slept[h]) /\ s \in Session /\ NoSession.state = "None"
    BY DEF TimersInv, TypeOK, NoSession
  <2>2. ASSUME BeatPrune(h) PROVE FALSE
    <3>1. Expired(s)
      BY <2>1, <2>2 DEF BeatPrune, TypeOK
    <3>2. s.last_update <= ResendInterval + HeartbeatInterval
      BY <2>1, <2>2 DEF Timely, BeatPrune
    <3>3. s.last_update \in Nat
      BY <2>1, TimeAssumption DEF Session
    <3> QED
      BY <3>1, <3>2, <3>3, TimeAssumption DEF Expired, ResendsInTime
  <2>3. ASSUME BeatCollect(h) PROVE TooOld(s)
    <3>1. ResendDue(s) => Resent(s).state = "OutgoingPending"
      BY <2>1, ResentType
    <3> QED
      BY <2>1, <2>3, <3>1 DEF BeatCollect, TypeOK
  <2>4. BeatPrune(h) \/ BeatCollect(h)
    <3>1. ASSUME NEW g \in Host, NEW i \in SessionId, NEW target \in Name, NEW dest \in Host,
                 InviteUser(g, i, target, dest)
          PROVE  FALSE
      BY <2>1, <3>1 DEF InviteUser, NewSession, TypeOK
    <3>2. ASSUME NEW g \in Host, NEW i \in SessionId, AcceptInvite(g, i) PROVE FALSE
      BY <2>1, <3>2 DEF AcceptInvite, TypeOK
    <3>3. ASSUME NEW g \in Host, NEW i \in SessionId, DeclineInvite(g, i) PROVE FALSE
      BY <2>1, <3>3 DEF DeclineInvite, TypeOK
    <3>4. ASSUME NEW g \in Host, NEW m \in net, OnInvite(g, m) PROVE FALSE
      <4>1. InvitedBy(m).state = "IncomingPending"
        BY DEF InvitedBy, NewSession
      <4>2. \/ UNCHANGED sessions
            \/ sessions' = [sessions EXCEPT ![g][m.sid] = InvitedBy(m)]
        BY <3>4 DEF OnInvite
      <4> QED
        BY <2>1, <4>1, <4>2 DEF TypeOK
    <3>5. ASSUME NEW g \in Host, NEW m \in net, OnRoomChat(g, m) PROVE FALSE
      <4>1. CASE UNCHANGED sessions
        BY <2>1, <4>1
      <4>2. CASE /\ FromPeer(sessions[g][m.sid], m)
                 /\ sessions' = [sessions EXCEPT ![g][m.sid] = Activated(sessions[g][m.sid])]
        <5>1. m.sid \in SessionId
          BY <3>5 DEF TypeOK, OnRoomChat, InviteMsg, ChatMsg
        <5>2. sessions[g][m.sid] \in Session
          BY <4>2, <5>1 DEF TypeOK, FromPeer
        <5>3. Activated(sessions[g][m.sid]).state = "Active"
          BY <5>2, ActivatedType
        <5> QED
          BY <2>1, <4>2, <5>1, <5>3 DEF TypeOK
      <4> QED
        BY <3>5, <4>1, <4>2 DEF OnRoomChat
    <3>6. ASSUME NEW g \in Host, BeatPrune(g), g # h PROVE FALSE
      BY <2>1, <3>6 DEF BeatPrune, TypeOK
    <3>7. ASSUME NEW g \in Host, BeatCollect(g), g # h PROVE FALSE
      BY <2>1, <3>7 DEF BeatCollect, TypeOK
    <3>8. ASSUME NEW g \in Host, Restart(g), g # h PROVE FALSE
      BY <2>1, <3>8 DEF Restart, TypeOK
    <3>9. ~Pass
      <4>1. Aged(s).state = s.state
        BY <2>1, AgedType
      <4> QED
        BY <2>1, <4>1 DEF Pass
    <3>10. sessions' # sessions
      BY <2>1
    <3> QED
      BY <3>1, <3>2, <3>3, <3>4, <3>5, <3>6, <3>7, <3>8, <3>9, <3>10
      DEF Next, Main, Receiver, HeartbeatThread, SendInvite, PrepareChat, SendChat, ShowChat,
          BeatSend, BeatSleep, vars
  <2> QED
    BY <2>2, <2>3, <2>4 DEF TooOld
<1> QED
  BY <1>1, TimersInvariant, PTL DEF FullInviteWindow, Spec
=============================================================================
