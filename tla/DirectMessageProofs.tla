------------------------ MODULE DirectMessageProofs ------------------------
(***************************************************************************)
(* Proofs about the closed rooms, for any hosts, names, session ids, limits *)
(* and bounds.                                                             *)
(***************************************************************************)
EXTENDS DirectMessage, TLAPS

\* Holding an age at AgeCap keeps it an age.
LEMMA OlderType == \A age \in 0..AgeCap : Older(age) \in 0..AgeCap
  BY TimeAssumption DEF Older

\* A pending session that grows older is still the same session.
LEMMA AgedType ==
  ASSUME NEW s \in Session \cup {NoSession}
  PROVE  /\ Aged(s) \in Session \cup {NoSession}
         /\ Aged(s).state = s.state
         /\ Aged(s) = NoSession <=> s = NoSession
         /\ s # NoSession => /\ Aged(s).peer_addr = s.peer_addr
                             /\ Aged(s).peer_username = s.peer_username
                             /\ PeerOf(Aged(s)) = PeerOf(s)
<1> USE DEF PeerOf
<1>1. CASE s = NoSession
  BY <1>1 DEF Aged, Pending, NoSession
<1>2. CASE s \in Session /\ Pending(s)
  <2>1. Aged(s) = [s EXCEPT !.created = Older(s.created),
                            !.last_sent = Older(s.last_sent),
                            !.last_update = Older(s.last_update)]
    BY <1>2 DEF Aged
  <2>2. /\ Older(s.created) \in 0..AgeCap
        /\ Older(s.last_sent) \in 0..AgeCap
        /\ Older(s.last_update) \in 0..AgeCap
    BY <1>2, OlderType DEF Session
  <2>3. Aged(s) \in Session
    BY <1>2, <2>1, <2>2 DEF Session
  <2> QED
    BY <1>2, <2>1, <2>3 DEF Session, NoSession
<1>3. CASE s \in Session /\ ~Pending(s)
  BY <1>3 DEF Aged, Session, NoSession
<1> QED
  BY <1>1, <1>2, <1>3

\* Activation keeps the peer.
LEMMA ActivatedType ==
  ASSUME NEW s \in Session
  PROVE  /\ Activated(s) \in Session
         /\ Activated(s).state = "Active"
         /\ Activated(s).peer_addr = s.peer_addr
         /\ Activated(s).peer_username = s.peer_username
         /\ PeerOf(Activated(s)) = PeerOf(s)
<1>1. 0 \in 0..AgeCap
  BY TimeAssumption
<1>2. Activated(s) = [s EXCEPT !.state = "Active", !.created = 0,
                               !.last_sent = 0, !.last_update = 0]
  BY DEF Activated
<1>3. Activated(s) \in Session
  BY <1>1, <1>2 DEF Session
<1>4. Activated(s).state = "Active"
  BY <1>2 DEF Session
<1>5. /\ Activated(s).peer_addr = s.peer_addr
      /\ Activated(s).peer_username = s.peer_username
  BY <1>2 DEF Session
<1> QED
  BY <1>3, <1>4, <1>5 DEF PeerOf

\* A new session is a session with that peer.
LEMMA NewSessionType ==
  ASSUME NEW st \in {"OutgoingPending", "IncomingPending"},
         NEW peer \in Name, NEW addr \in Host
  PROVE  /\ NewSession(st, peer, addr) \in Session
         /\ NewSession(st, peer, addr).state = st
         /\ NewSession(st, peer, addr).peer_addr = addr
         /\ NewSession(st, peer, addr).peer_username = peer
         /\ PeerOf(NewSession(st, peer, addr)) = [addr |-> addr, name |-> peer]
  BY TimeAssumption DEF NewSession, Session, PeerOf

\* A resend changes neither the state nor the peer.
LEMMA ResentType ==
  ASSUME NEW s \in Session
  PROVE  /\ Resent(s) \in Session
         /\ Resent(s).state = s.state
         /\ Resent(s).peer_addr = s.peer_addr
         /\ Resent(s).peer_username = s.peer_username
         /\ PeerOf(Resent(s)) = PeerOf(s)
<1>1. 0 \in 0..AgeCap
  BY TimeAssumption
<1>2. Resent(s) = [s EXCEPT !.last_sent = 0, !.last_update = 0]
  BY DEF Resent
<1>3. Resent(s) \in Session
  BY <1>1, <1>2 DEF Session
<1>4. /\ Resent(s).state = s.state
      /\ Resent(s).peer_addr = s.peer_addr
      /\ Resent(s).peer_username = s.peer_username
  BY <1>2 DEF Session
<1> QED
  BY <1>3, <1>4 DEF PeerOf

\* Whoever runs on a host, and the peer of a session, is a user.
LEMMA UserType ==
  ASSUME TypeOK
  PROVE  /\ \A h \in Host : UserAt(h) \in User
         /\ \A s \in Session : PeerOf(s) \in User
  BY DEF TypeOK, UserAt, PeerOf, User, Session

-----------------------------------------------------------------------------
(* Type correctness *)

\* A process starts in the types: no session, nothing to send or show.
LEMMA InitTypeOK == Init => TypeOK
<1> SUFFICES ASSUME Init PROVE TypeOK
  OBVIOUS
<1>1. slept \in [Host -> 0..HeartbeatInterval]
  BY TimeAssumption DEF Init
<1> QED
  BY <1>1 DEF Init, TypeOK

\* The message a step hands to the network is well formed.
LEMMA MessageType ==
  ASSUME TypeOK, NEW h \in Host, NEW sid \in SessionId, NEW to \in Name, NEW dst \in Host
  PROVE  Invite(h, sid, to, dst) \in InviteMsg /\ Chat(h, sid, dst) \in ChatMsg
  BY DEF TypeOK, Invite, Chat, InviteMsg, ChatMsg

\* The network keeps its type over a send and a receive.
LEMMA NetType ==
  ASSUME TypeOK, NEW m \in InviteMsg \cup ChatMsg, Send(m) \/ Take(m)
  PROVE  net' \subseteq InviteMsg \cup ChatMsg
  BY DEF TypeOK, Send, Take

\* Every step of every thread, of the network and of the environment keeps the types.
LEMMA NextTypeOK == TypeOK /\ [Next]_vars => TypeOK'
<1> SUFFICES ASSUME TypeOK, [Next]_vars PROVE TypeOK'
  OBVIOUS
<1> USE DEF procVars, history
<1>1. ASSUME NEW h \in Host, NEW sid \in SessionId, NEW target \in Name, NEW dest \in Host,
             InviteUser(h, sid, target, dest)
      PROVE  TypeOK'
  <2>1. NewSession("OutgoingPending", target, dest) \in Session
    BY NewSessionType
  <2>2. asked' \subseteq [sid : SessionId, from : User, to : Name]
    BY <1>1, UserType DEF TypeOK, InviteUser
  <2> QED
    BY <1>1, <2>1, <2>2 DEF TypeOK, InviteUser
<1>2. ASSUME NEW h \in Host, SendInvite(h) PROVE TypeOK'
  <2>1. /\ main[h].sid \in SessionId
        /\ main[h].to \in Name
        /\ main[h].dst \in Host
    BY <1>2 DEF TypeOK, SendInvite, Idle
  <2>2. net' \subseteq InviteMsg \cup ChatMsg
    BY <1>2, <2>1, MessageType, NetType DEF SendInvite
  <2> QED
    BY <1>2, <2>2 DEF TypeOK, SendInvite
<1>3. ASSUME NEW h \in Host, NEW sid \in SessionId, AcceptInvite(h, sid) PROVE TypeOK'
  <2>1. sessions[h][sid] \in Session
    BY <1>3 DEF TypeOK, AcceptInvite, NoSession
  <2>2. Activated(sessions[h][sid]) \in Session
    BY <2>1, ActivatedType
  <2>3. accepted' \subseteq [sid : SessionId, by : User, from : User]
    BY <1>3, <2>1, UserType DEF TypeOK, AcceptInvite
  <2> QED
    BY <1>3, <2>2, <2>3 DEF TypeOK, AcceptInvite
<1>4. ASSUME NEW h \in Host, NEW sid \in SessionId, DeclineInvite(h, sid) PROVE TypeOK'
  BY <1>4 DEF TypeOK, DeclineInvite
<1>5. ASSUME NEW h \in Host, NEW sid \in SessionId, PrepareChat(h, sid) PROVE TypeOK'
  <2>1. sessions[h][sid] \in Session
    BY <1>5 DEF TypeOK, PrepareChat, MayWrite, NoSession
  <2>2. sessions[h][sid].peer_addr \in Host /\ sessions[h][sid].peer_username \in Name
    BY <2>1 DEF Session
  <2> QED
    BY <1>5, <2>2 DEF TypeOK, PrepareChat
<1>6. ASSUME NEW h \in Host, SendChat(h) PROVE TypeOK'
  <2>1. /\ main[h].sid \in SessionId
        /\ main[h].to \in Name
        /\ main[h].dst \in Host
    BY <1>6 DEF TypeOK, SendChat, Idle
  <2>2. net' \subseteq InviteMsg \cup ChatMsg
    BY <1>6, <2>1, MessageType, NetType DEF SendChat
  <2> QED
    BY <1>6, <2>2 DEF TypeOK, SendChat
<1>7. ASSUME NEW h \in Host, NEW m \in net, OnInvite(h, m) PROVE TypeOK'
  <2>1. m \in InviteMsg
    BY <1>7 DEF TypeOK, OnInvite, InviteMsg, ChatMsg
  <2>2. m.sid \in SessionId /\ InvitedBy(m) \in Session
    BY <2>1, NewSessionType DEF InvitedBy, InviteMsg
  <2>3. net' \subseteq InviteMsg \cup ChatMsg
    BY <1>7, <2>1, NetType DEF OnInvite
  <2>4. \/ sessions' = [sessions EXCEPT ![h][m.sid] = InvitedBy(m)]
        \/ sessions' = sessions
    BY <1>7 DEF OnInvite
  <2>5. sessions' \in [Host -> [SessionId -> Session \cup {NoSession}]]
    BY <2>2, <2>4 DEF TypeOK
  <2>6. UNCHANGED <<self, main, shown, beat, slept, resend, asked, accepted>>
    BY <1>7 DEF OnInvite
  <2> QED
    BY <2>3, <2>5, <2>6 DEF TypeOK
<1>8. ASSUME NEW h \in Host, NEW m \in net, OnRoomChat(h, m) PROVE TypeOK'
  <2>1. m \in ChatMsg
    BY <1>8 DEF TypeOK, OnRoomChat, InviteMsg, ChatMsg
  <2>2. m.sid \in SessionId /\ net' \subseteq InviteMsg \cup ChatMsg
    BY <1>8, <2>1, NetType DEF OnRoomChat, ChatMsg
  <2> DEFINE s == sessions[h][m.sid]
  <2>3. s \in Session \cup {NoSession}
    BY <2>2 DEF TypeOK
  <2>4. CASE FromPeer(s, m) /\ s.state \in {"OutgoingPending", "Active"}
    <3>1. s \in Session
      BY <2>3, <2>4 DEF FromPeer
    <3>2. Activated(s) \in Session /\ s.peer_username \in Name
      BY <3>1, ActivatedType DEF Session
    <3>3. /\ sessions' = [sessions EXCEPT ![h][m.sid] = Activated(s)]
          /\ shown' = [shown EXCEPT ![h] = [sid |-> m.sid, sender |-> s.peer_username]]
      BY <1>8, <2>4 DEF OnRoomChat
    <3> HIDE DEF s
    <3> QED
      BY <1>8, <2>2, <3>2, <3>3 DEF TypeOK, OnRoomChat
  <2>5. CASE UNCHANGED <<sessions, shown>>
    BY <1>8, <2>2, <2>5 DEF TypeOK, OnRoomChat
  <2> QED
    BY <1>8, <2>4, <2>5 DEF OnRoomChat
<1>9. ASSUME NEW h \in Host, ShowChat(h) PROVE TypeOK'
  BY <1>9 DEF TypeOK, ShowChat
<1>10. ASSUME NEW h \in Host, BeatPrune(h) PROVE TypeOK'
  BY <1>10 DEF TypeOK, BeatPrune
<1>11. ASSUME NEW h \in Host, BeatCollect(h) PROVE TypeOK'
  <2>1. \A sid \in SessionId : ResendDue(sessions[h][sid]) => sessions[h][sid] \in Session
    BY DEF TypeOK, ResendDue, NoSession
  <2>2. \A sid \in SessionId :
           ResendDue(sessions[h][sid]) => Resent(sessions[h][sid]) \in Session
    BY <2>1, ResentType
  <2>3. sessions' \in [Host -> [SessionId -> Session \cup {NoSession}]]
    BY <1>11, <2>2 DEF TypeOK, BeatCollect
  <2>4. \A sid \in SessionId : ResendDue(sessions[h][sid]) =>
           Invite(h, sid, sessions[h][sid].peer_username, sessions[h][sid].peer_addr)
             \in InviteMsg
    BY <2>1, MessageType DEF Session
  <2>5. resend' \in [Host -> SUBSET InviteMsg]
    BY <1>11, <2>4 DEF TypeOK, BeatCollect
  <2> QED
    BY <1>11, <2>3, <2>5 DEF TypeOK, BeatCollect
<1>12. ASSUME NEW h \in Host, NEW m \in resend[h], BeatSend(h, m) PROVE TypeOK'
  <2>1. m \in InviteMsg
    BY DEF TypeOK
  <2>2. net' \subseteq InviteMsg \cup ChatMsg
    BY <1>12, <2>1, NetType DEF BeatSend
  <2> QED
    BY <1>12, <2>2 DEF TypeOK, BeatSend
<1>13. ASSUME NEW h \in Host, BeatSleep(h) PROVE TypeOK'
  BY <1>13, TimeAssumption DEF TypeOK, BeatSleep
<1>14. ASSUME NEW h \in Host, Restart(h) PROVE TypeOK'
  <2>1. self' \in [Host -> Name]
    <3>1. PICK n \in NamesOf[h] : self' = [self EXCEPT ![h] = n]
      BY <1>14 DEF Restart
    <3>2. n \in Name
      BY <3>1, NamesAssumption
    <3> QED
      BY <3>1, <3>2 DEF TypeOK
  <2> QED
    BY <1>14, <2>1, TimeAssumption DEF TypeOK, Restart
<1>15. CASE Pass
  <2>1. sessions' \in [Host -> [SessionId -> Session \cup {NoSession}]]
    BY <1>15, AgedType DEF TypeOK, Pass
  <2>2. slept' \in [Host -> 0..HeartbeatInterval]
    BY <1>15, TimeAssumption DEF TypeOK, Pass
  <2> QED
    BY <1>15, <2>1, <2>2 DEF TypeOK, Pass
<1>16. CASE UNCHANGED vars
  BY <1>16 DEF TypeOK, vars
<1> QED
  BY <1>1, <1>2, <1>3, <1>4, <1>5, <1>6, <1>7, <1>8, <1>9, <1>10, <1>11, <1>12,
     <1>13, <1>14, <1>15, <1>16 DEF Next, Main, Receiver, HeartbeatThread

\* The state keeps its types.
THEOREM TypeCorrect == Spec => []TypeOK
  BY InitTypeOK, NextTypeOK, PTL DEF Spec
-----------------------------------------------------------------------------
(* One session over one step *)

Binding(s, t, restarted) ==
    /\ s # NoSession /\ t # NoSession =>
          /\ t.peer_addr = s.peer_addr
          /\ t.peer_username = s.peer_username
    /\ s.state = "Active" => t.state = "Active" \/ restarted

\* Nobody rebinds a session, and only the end of the process ends an Active one.
LEMMA BindingStep ==
  ASSUME TypeOK, [Next]_vars, NEW g \in Host, NEW i \in SessionId
  PROVE  Binding(sessions[g][i], sessions'[g][i], Restart(g))
<1> DEFINE s == sessions[g][i]
           t == sessions'[g][i]
<1> USE DEF Binding
<1>0. s \in Session \cup {NoSession} /\ NoSession.state = "None"
  BY DEF TypeOK, NoSession
<1>1. CASE t = s
  BY <1>1
<1>2. ASSUME NEW h \in Host, NEW sid \in SessionId, NEW target \in Name, NEW dest \in Host,
             InviteUser(h, sid, target, dest)
      PROVE  Binding(s, t, Restart(g))
  BY <1>0, <1>2 DEF InviteUser, Fresh, TypeOK
<1>3. ASSUME NEW h \in Host, NEW sid \in SessionId, AcceptInvite(h, sid)
      PROVE  Binding(s, t, Restart(g))
  <2>1. sessions[h][sid] \in Session
    BY <1>3 DEF TypeOK, AcceptInvite, NoSession
  <2>2. /\ Activated(sessions[h][sid]).state = "Active"
        /\ Activated(sessions[h][sid]).peer_addr = sessions[h][sid].peer_addr
        /\ Activated(sessions[h][sid]).peer_username = sessions[h][sid].peer_username
    BY <2>1, ActivatedType
  <2> QED
    BY <1>3, <2>2 DEF AcceptInvite, TypeOK
<1>4. ASSUME NEW h \in Host, NEW sid \in SessionId, DeclineInvite(h, sid)
      PROVE  Binding(s, t, Restart(g))
  BY <1>0, <1>4 DEF DeclineInvite, TypeOK
<1>5. ASSUME NEW h \in Host, NEW m \in net, OnInvite(h, m)
      PROVE  Binding(s, t, Restart(g))
  <2>1. m \in InviteMsg
    BY <1>5 DEF TypeOK, OnInvite, InviteMsg, ChatMsg
  <2>2. m.sid \in SessionId
    BY <2>1 DEF InviteMsg
  <2> QED
    BY <1>0, <1>5, <2>2 DEF OnInvite, Fresh, TypeOK
<1>6. ASSUME NEW h \in Host, NEW m \in net, OnRoomChat(h, m)
      PROVE  Binding(s, t, Restart(g))
  <2>1. m \in ChatMsg
    BY <1>6 DEF TypeOK, OnRoomChat, InviteMsg, ChatMsg
  <2>2. m.sid \in SessionId
    BY <2>1 DEF ChatMsg
  <2>3. CASE UNCHANGED sessions
    BY <2>3
  <2>4. CASE /\ FromPeer(sessions[h][m.sid], m)
             /\ sessions' = [sessions EXCEPT ![h][m.sid] = Activated(sessions[h][m.sid])]
    <3>1. sessions[h][m.sid] \in Session
      BY <2>2, <2>4 DEF TypeOK, FromPeer
    <3>2. /\ Activated(sessions[h][m.sid]).state = "Active"
          /\ Activated(sessions[h][m.sid]).peer_addr = sessions[h][m.sid].peer_addr
          /\ Activated(sessions[h][m.sid]).peer_username = sessions[h][m.sid].peer_username
      BY <3>1, ActivatedType
    <3> QED
      BY <2>2, <2>4, <3>2 DEF TypeOK
  <2> QED
    BY <1>6, <2>3, <2>4 DEF OnRoomChat
<1>7. ASSUME NEW h \in Host, BeatPrune(h) PROVE Binding(s, t, Restart(g))
  BY <1>0, <1>7 DEF BeatPrune, Expired, Pending, TypeOK
<1>8. ASSUME NEW h \in Host, BeatCollect(h) PROVE Binding(s, t, Restart(g))
  <2>1. ResendDue(s) => /\ Resent(s).state = s.state
                        /\ Resent(s).peer_addr = s.peer_addr
                        /\ Resent(s).peer_username = s.peer_username
    BY <1>0, ResentType DEF ResendDue
  <2>2. t = s \/ (t = NoSession /\ TooOld(s)) \/ (t = Resent(s) /\ ResendDue(s))
    BY <1>8 DEF BeatCollect, TypeOK
  <2> QED
    BY <2>1, <2>2 DEF TooOld
<1>9. ASSUME NEW h \in Host, Restart(h) PROVE Binding(s, t, Restart(g))
  BY <1>0, <1>9 DEF Restart, TypeOK
<1>10. CASE Pass
  BY <1>0, <1>10, AgedType DEF Pass
<1> QED
  BY <1>1, <1>2, <1>3, <1>4, <1>5, <1>6, <1>7, <1>8, <1>9, <1>10
  DEF Next, Main, Receiver, HeartbeatThread, SendInvite, PrepareChat, SendChat, ShowChat,
      BeatSend, BeatSleep, vars

\* No step rebinds a session to another peer or undoes an Active one, except the
\* end of the process (on_invite's check at 250, the pending-only deletions at
\* 354 and 387).
THEOREM PeersStayBound == Spec => PeerBinding
<1>1. TypeOK /\ [Next]_vars =>
        [\A h \in Host, sid \in SessionId :
           LET s == sessions[h][sid]
               t == sessions'[h][sid]
           IN  /\ s # NoSession /\ t # NoSession =>
                     /\ t.peer_addr = s.peer_addr
                     /\ t.peer_username = s.peer_username
               /\ s.state = "Active" => t.state = "Active" \/ Restart(h)]_vars
  BY BindingStep DEF Binding
<1> QED
  BY <1>1, TypeCorrect, PTL DEF Spec, PeerBinding
-----------------------------------------------------------------------------
(* What the threads hold on to after an unlock *)

\* At the start no thread holds anything from before an unlock.
LEMMA InitUnlockedUse == Init => UnlockedUseIsValid
  BY DEF Init, UnlockedUseIsValid, Idle

\* The main thread comes by a chat to send only in send_private_chat, from a
\* session that is Active then, and a restart takes it away.
LEMMA HeldChat ==
  ASSUME TypeOK, [Next]_vars, NEW g \in Host, main'[g].op = "chat"
  PROVE  /\ ~Restart(g)
         /\ \/ main'[g] = main[g]
            \/ /\ sessions' = sessions
               /\ main'[g].sid \in SessionId
               /\ sessions[g][main'[g].sid].state = "Active"
               /\ main'[g].dst = sessions[g][main'[g].sid].peer_addr
<1>1. ~Restart(g)
  BY DEF Restart, TypeOK, Idle
<1>2. CASE main'[g] = main[g]
  BY <1>1, <1>2
<1>3. ASSUME NEW h \in Host, NEW sid \in SessionId, PrepareChat(h, sid), h = g
      PROVE  /\ sessions' = sessions
             /\ main'[g].sid \in SessionId
             /\ sessions[g][main'[g].sid].state = "Active"
             /\ main'[g].dst = sessions[g][main'[g].sid].peer_addr
  <2>1. main'[g] = [op |-> "chat", sid |-> sid, to |-> sessions[g][sid].peer_username,
                    dst |-> sessions[g][sid].peer_addr]
    BY <1>3 DEF PrepareChat, TypeOK
  <2> QED
    BY <1>3, <2>1 DEF PrepareChat, MayWrite
<1>4. \/ main'[g] = main[g]
      \/ \E sid \in SessionId : PrepareChat(g, sid)
  BY DEF Next, Main, Receiver, HeartbeatThread, InviteUser, SendInvite, AcceptInvite,
         DeclineInvite, PrepareChat, SendChat, OnInvite, OnRoomChat, ShowChat, BeatPrune,
         BeatCollect, BeatSend, BeatSleep, Restart, Pass, vars, TypeOK, Idle
<1> QED
  BY <1>1, <1>2, <1>3, <1>4

\* The receiver comes by a chat to show only in on_room_chat, from a session
\* that it has just found or made Active.
LEMMA HeldShown ==
  ASSUME TypeOK, [Next]_vars, NEW g \in Host, shown'[g] # NoChat
  PROVE  /\ ~Restart(g)
         /\ \/ shown'[g] = shown[g]
            \/ /\ sessions'[g][shown'[g].sid].state = "Active"
               /\ sessions'[g][shown'[g].sid].peer_username = shown'[g].sender
<1>1. ~Restart(g)
  BY DEF Restart, TypeOK
<1>2. ASSUME NEW m \in net, OnRoomChat(g, m), shown'[g] # shown[g]
      PROVE  /\ sessions'[g][shown'[g].sid].state = "Active"
             /\ sessions'[g][shown'[g].sid].peer_username = shown'[g].sender
  <2> DEFINE s == sessions[g][m.sid]
  <2>1. m \in ChatMsg
    BY <1>2 DEF TypeOK, OnRoomChat, InviteMsg, ChatMsg
  <2>2. m.sid \in SessionId
    BY <2>1 DEF ChatMsg
  <2>3. /\ FromPeer(s, m)
        /\ sessions' = [sessions EXCEPT ![g][m.sid] = Activated(s)]
        /\ shown' = [shown EXCEPT ![g] = [sid |-> m.sid, sender |-> s.peer_username]]
    BY <1>2 DEF OnRoomChat
  <2>4. s \in Session
    BY <2>2, <2>3 DEF TypeOK, FromPeer
  <2>5. Activated(s).state = "Active" /\ Activated(s).peer_username = s.peer_username
    BY <2>4, ActivatedType
  <2>6. sessions'[g][m.sid] = Activated(s)
    BY <2>2, <2>3 DEF TypeOK
  <2>7. shown'[g] = [sid |-> m.sid, sender |-> s.peer_username]
    BY <2>3 DEF TypeOK
  <2> HIDE DEF s
  <2> QED
    BY <2>5, <2>6, <2>7
<1>3. \/ shown'[g] = shown[g]
      \/ shown'[g] = NoChat
      \/ \E m \in net : OnRoomChat(g, m)
  <2>1. \/ UNCHANGED shown
        \/ \E h \in Host : \/ \E m \in net : OnRoomChat(h, m)
                         \/ ShowChat(h) \/ Restart(h)
    BY DEF Next, Main, Receiver, HeartbeatThread, InviteUser, SendInvite, AcceptInvite,
           DeclineInvite, PrepareChat, SendChat, OnInvite, BeatPrune, BeatCollect, BeatSend,
           BeatSleep, Pass, vars
  <2>2. ASSUME NEW h \in Host, NEW m \in net, OnRoomChat(h, m), h # g
        PROVE  shown'[g] = shown[g]
    BY <2>2 DEF OnRoomChat, TypeOK
  <2>3. ASSUME NEW h \in Host, ShowChat(h) \/ Restart(h)
        PROVE  shown'[g] \in {shown[g], NoChat}
    BY <2>3 DEF ShowChat, Restart, TypeOK
  <2> QED
    BY <2>1, <2>2, <2>3
<1> QED
  BY <1>1, <1>2, <1>3

\* What a thread holds after an unlock stays true: the peer is bound, and an
\* Active session outlives every step but a restart, which takes both.
LEMMA NextUnlockedUse ==
  TypeOK /\ UnlockedUseIsValid /\ [Next]_vars => UnlockedUseIsValid'
<1> SUFFICES ASSUME TypeOK, UnlockedUseIsValid, [Next]_vars, NEW g \in Host
             PROVE  /\ main'[g].op = "chat" =>
                          LET s == sessions'[g][main'[g].sid] IN
                          s.state = "Active" /\ s.peer_addr = main'[g].dst
                    /\ shown'[g] # NoChat =>
                          LET s == sessions'[g][shown'[g].sid] IN
                          s.state = "Active" /\ s.peer_username = shown'[g].sender
  BY DEF UnlockedUseIsValid
<1>1. ASSUME main'[g].op = "chat"
      PROVE  /\ sessions'[g][main'[g].sid].state = "Active"
             /\ sessions'[g][main'[g].sid].peer_addr = main'[g].dst
  <2>1. CASE main'[g] = main[g]
    <3>1. main[g].sid \in SessionId
      BY <1>1, <2>1 DEF TypeOK, Idle
    <3>2. Binding(sessions[g][main[g].sid], sessions'[g][main[g].sid], FALSE)
      BY <1>1, <3>1, BindingStep, HeldChat DEF Binding
    <3> QED
      BY <1>1, <2>1, <3>2 DEF UnlockedUseIsValid, Binding, NoSession
  <2>2. CASE main'[g] # main[g]
    BY <1>1, <2>2, HeldChat
  <2> QED
    BY <2>1, <2>2
<1>2. ASSUME shown'[g] # NoChat
      PROVE  /\ sessions'[g][shown'[g].sid].state = "Active"
             /\ sessions'[g][shown'[g].sid].peer_username = shown'[g].sender
  <2>1. CASE shown'[g] = shown[g]
    <3>1. shown[g].sid \in SessionId
      BY <1>2, <2>1 DEF TypeOK
    <3>2. Binding(sessions[g][shown[g].sid], sessions'[g][shown[g].sid], FALSE)
      BY <1>2, <3>1, BindingStep, HeldShown DEF Binding
    <3> QED
      BY <1>2, <2>1, <3>2 DEF UnlockedUseIsValid, Binding, NoSession
  <2>2. CASE shown'[g] # shown[g]
    BY <1>2, <2>2, HeldShown
  <2> QED
    BY <2>1, <2>2
<1> QED
  BY <1>1, <1>2

\* The peer whose address send_private_chat copied, and the sender whose chat
\* on_room_chat is showing, are still the established peer after the unlock.
THEOREM UnlockedUse == Spec => []UnlockedUseIsValid
  BY InitUnlockedUse, NextUnlockedUse, TypeCorrect, PTL DEF Spec
-----------------------------------------------------------------------------
(* Consent *)

Asked(sid, u, to) == [sid |-> sid, from |-> u, to |-> to] \in asked

\* Every invitation, wherever it is, goes back to a user who asked for it, and
\* for somebody of another name.
InvitationsAsked ==
    /\ \A h \in Host :
          /\ main[h].op = "invite" => Asked(main[h].sid, UserAt(h), main[h].to)
          /\ \A m \in resend[h] : Asked(m.sid, Author(m), m.to)
    /\ \A h \in Host, sid \in SessionId :
          LET s == sessions[h][sid] IN
          /\ s.state = "OutgoingPending" => Asked(sid, UserAt(h), s.peer_username)
          /\ s.state = "IncomingPending" => Asked(sid, PeerOf(s), self[h])
    /\ \A m \in net : m.type = "INVITE" => Asked(m.sid, Author(m), m.to)
    /\ \A r \in asked : r.to # r.from.name

\* The inductive invariant of consent.
ConsentInv == TypeOK /\ UnlockedUseIsValid /\ InvitationsAsked /\ MutualConsent

\* At the start there is no invitation, no session and no chat.
LEMMA InitConsent == Init => InvitationsAsked /\ MutualConsent
  BY DEF Init, InvitationsAsked, MutualConsent, Idle, NoSession

\* What was asked or accepted stays so, and nobody asks for his own name.
LEMMA HistoryGrows ==
  [Next]_vars => /\ asked \subseteq asked' /\ accepted \subseteq accepted'
                 /\ \A r \in asked' : r \in asked \/ r.to # r.from.name
  BY DEF Next, Main, Receiver, HeartbeatThread, InviteUser, SendInvite, AcceptInvite,
         DeclineInvite, PrepareChat, SendChat, OnInvite, OnRoomChat, ShowChat, BeatPrune,
         BeatCollect, BeatSend, BeatSleep, Restart, Pass, vars, history, UserAt

\* An agreement between two users is for good, and has no direction.
LEMMA AgreementStays ==
  ASSUME asked \subseteq asked', accepted \subseteq accepted', NEW sid, NEW a, NEW b,
         Agreed(sid, a, b)
  PROVE  Agreed(sid, a, b)' /\ Agreed(sid, b, a)'
  BY DEF Agreed, SaidYes

\* An id that only one user has drawn was so before.
LEMMA OneAskerBefore ==
  ASSUME asked \subseteq asked', NEW sid, OneAsker(sid)'
  PROVE  OneAsker(sid)
  BY DEF OneAsker

\* Two who agreed on an id that only one user drew: if a user asked for one of
\* them, he is the other one.
LEMMA AskerAgreed ==
  ASSUME NEW sid, NEW a, NEW b, NEW u, OneAsker(sid), \A r \in asked : r.to # r.from.name,
         Asked(sid, u, a.name), Agreed(sid, a, b)
  PROVE  b = u
<1> DEFINE by(v, to) == [sid |-> sid, from |-> v, to |-> to]
<1>1. by(u, a.name) \in asked /\ u.name # a.name
  BY DEF Asked
<1>2. \E v, to : by(v, to) \in asked /\ (v = b \/ v = a)
  BY DEF Agreed, SaidYes
<1>3. PICK v, to : by(v, to) \in asked /\ (v = b \/ v = a)
  BY <1>2
<1>4. v = u
  BY <1>1, <1>3 DEF OneAsker
<1> QED
  BY <1>1, <1>3, <1>4

\* Where a datagram in flight comes from.
LEMMA NetOrigin ==
  ASSUME [Next]_vars, NEW m \in net'
  PROVE  \/ m \in net
         \/ \E h \in Host : /\ main[h].op = "invite"
                           /\ m = Invite(h, main[h].sid, main[h].to, main[h].dst)
         \/ \E h \in Host : m \in resend[h]
         \/ \E h \in Host : /\ main[h].op = "chat"
                           /\ m = Chat(h, main[h].sid, main[h].dst)
  BY DEF Next, Main, Receiver, HeartbeatThread, InviteUser, SendInvite, AcceptInvite,
         DeclineInvite, PrepareChat, SendChat, OnInvite, OnRoomChat, ShowChat, BeatPrune,
         BeatCollect, BeatSend, BeatSleep, Restart, Pass, vars, Send, Take

\* Only a restart changes who runs on a host.
LEMMA SameUser ==
  ASSUME TypeOK, [Next]_vars, NEW g \in Host, ~Restart(g)
  PROVE  self'[g] = self[g]
<1>1. ASSUME NEW h \in Host, Restart(h) PROVE self'[g] = self[g]
  BY <1>1 DEF Restart, TypeOK
<1>2. UNCHANGED self \/ \E h \in Host : Restart(h)
  BY DEF Next, Main, Receiver, HeartbeatThread, InviteUser, SendInvite, AcceptInvite,
         DeclineInvite, PrepareChat, SendChat, OnInvite, OnRoomChat, ShowChat, BeatPrune,
         BeatCollect, BeatSend, BeatSleep, Pass, vars, procVars
<1> QED
  BY <1>1, <1>2

\* Where an invitation about to be sent comes from.
LEMMA HeldInvite ==
  ASSUME TypeOK, [Next]_vars, NEW g \in Host, main'[g].op = "invite"
  PROVE  /\ self'[g] = self[g]
         /\ main'[g] = main[g] \/ Asked(main[g].sid, UserAt(g), main[g].to)'
<1>1. ASSUME NEW sid \in SessionId, NEW target \in Name, NEW dest \in Host,
             InviteUser(g, sid, target, dest)
      PROVE  Asked(main[g].sid, UserAt(g), main[g].to)'
  <2>1. main'[g] = [op |-> "invite", sid |-> sid, to |-> target, dst |-> dest]
    BY <1>1 DEF InviteUser, TypeOK
  <2>2. [sid |-> sid, from |-> UserAt(g)', to |-> target] \in asked'
    BY <1>1 DEF InviteUser, UserAt, procVars
  <2> QED
    BY <2>1, <2>2 DEF Asked
<1>2. \/ main'[g] = main[g]
      \/ \E sid \in SessionId, target \in Name, dest \in Host :
            InviteUser(g, sid, target, dest)
  BY DEF Next, Main, Receiver, HeartbeatThread, InviteUser, SendInvite, AcceptInvite,
         DeclineInvite, PrepareChat, SendChat, OnInvite, OnRoomChat, ShowChat, BeatPrune,
         BeatCollect, BeatSend, BeatSleep, Restart, Pass, vars, TypeOK, Idle
<1>3. self'[g] = self[g]
  <2>1. ~Restart(g)
    BY DEF Restart, TypeOK, Idle
  <2> QED
    BY <2>1, SameUser
<1> QED
  BY <1>1, <1>2, <1>3

\* An invitation the heartbeat thread is about to resend was held before, or is
\* that of an outgoing session it has just collected.
LEMMA ResendOrigin ==
  ASSUME TypeOK, [Next]_vars, NEW g \in Host, NEW m \in resend'[g]
  PROVE  \/ m \in resend[g]
         \/ \E sid \in SessionId :
               /\ sessions[g][sid].state = "OutgoingPending"
               /\ m.sid = sid /\ Author(m) = UserAt(g)
               /\ m.to = sessions[g][sid].peer_username
<1>1. ASSUME BeatCollect(g)
      PROVE  \E sid \in SessionId :
               /\ sessions[g][sid].state = "OutgoingPending"
               /\ m.sid = sid /\ Author(m) = UserAt(g)
               /\ m.to = sessions[g][sid].peer_username
  <2>1. resend'[g] = {Invite(g, sid, sessions[g][sid].peer_username,
                             sessions[g][sid].peer_addr) :
                        sid \in {i \in SessionId : ResendDue(sessions[g][i])}}
    BY <1>1 DEF BeatCollect, TypeOK
  <2>2. PICK sid \in SessionId :
           /\ ResendDue(sessions[g][sid])
           /\ m = Invite(g, sid, sessions[g][sid].peer_username, sessions[g][sid].peer_addr)
    BY <2>1
  <2> QED
    BY <2>2 DEF Invite, ResendDue, Author, UserAt
<1>2. ASSUME NEW h \in Host, Restart(h) \/ (\E n \in resend[h] : BeatSend(h, n))
      PROVE  m \in resend[g]
  <2>1. \E S : S \subseteq resend[h] /\ resend' = [resend EXCEPT ![h] = S]
    BY <1>2 DEF Restart, BeatSend
  <2>2. resend'[g] \subseteq resend[g]
    BY <2>1 DEF TypeOK
  <2> QED
    BY <2>2
<1>3. ASSUME NEW h \in Host, BeatCollect(h), h # g
      PROVE  m \in resend[g]
  BY <1>3 DEF BeatCollect, TypeOK
<1>4. \/ UNCHANGED resend
      \/ \E h \in Host : \/ Restart(h)
                       \/ BeatCollect(h)
                       \/ \E n \in resend[h] : BeatSend(h, n)
  BY DEF Next, Main, Receiver, HeartbeatThread, InviteUser, SendInvite, AcceptInvite,
         DeclineInvite, PrepareChat, SendChat, OnInvite, OnRoomChat, ShowChat, BeatPrune,
         BeatSleep, Pass, vars, procVars
<1> QED
  BY <1>1, <1>2, <1>3, <1>4

\* How a session came to the state it is in after a step.
Origin(g, i, s, t) ==
    /\ t.state # "None" => self'[g] = self[g]
    /\ t.state = "OutgoingPending" =>
          \/ s.state = "OutgoingPending" /\ PeerOf(t) = PeerOf(s)
          \/ [sid |-> i, from |-> UserAt(g), to |-> t.peer_username] \in asked'
    /\ t.state = "IncomingPending" =>
          \/ s.state = "IncomingPending" /\ PeerOf(t) = PeerOf(s)
          \/ \E m \in net : /\ m.type = "INVITE" /\ m.sid = i
                           /\ m.to = self[g] /\ Author(m) = PeerOf(t)
    /\ t.state = "Active" =>
          \/ s.state = "Active" /\ PeerOf(t) = PeerOf(s)
          \/ /\ s.state = "OutgoingPending" /\ PeerOf(t) = PeerOf(s)
             /\ \E m \in net : /\ m.type = "CHAT" /\ m.sid = i
                              /\ m.dst = g /\ Author(m) = PeerOf(t)
          \/ /\ s.state = "IncomingPending" /\ PeerOf(t) = PeerOf(s)
             /\ [sid |-> i, by |-> UserAt(g), from |-> PeerOf(t)] \in accepted'

\* Every entry of the session map either was there in some form, or was asked for
\* by this host's user, or came with an INVITE addressed to this host's user.
LEMMA SessionOrigin ==
  ASSUME TypeOK, [Next]_vars, NEW g \in Host, NEW i \in SessionId
  PROVE  Origin(g, i, sessions[g][i], sessions'[g][i])
<1> DEFINE s == sessions[g][i]
           t == sessions'[g][i]
<1> USE DEF Origin
<1>0. s \in Session \cup {NoSession} /\ NoSession.state = "None"
  BY DEF TypeOK, NoSession
<1>1. CASE t = s /\ self' = self
  BY <1>0, <1>1
<1>2. ASSUME NEW h \in Host, NEW sid \in SessionId, NEW target \in Name, NEW dest \in Host,
             InviteUser(h, sid, target, dest)
      PROVE  Origin(g, i, s, t)
  <2>1. CASE h = g /\ sid = i
    <3>1. t = NewSession("OutgoingPending", target, dest)
      BY <1>2, <2>1 DEF InviteUser, TypeOK
    <3>2. t.state = "OutgoingPending" /\ t.peer_username = target
      BY <3>1 DEF NewSession
    <3>3. [sid |-> i, from |-> UserAt(g), to |-> target] \in asked' /\ self' = self
      BY <1>2, <2>1 DEF InviteUser, procVars
    <3> QED
      BY <3>2, <3>3
  <2>2. CASE ~(h = g /\ sid = i)
    <3>1. t = s /\ self' = self
      BY <1>2, <2>2 DEF InviteUser, TypeOK, procVars
    <3> QED
      BY <1>1, <3>1
  <2> QED
    BY <2>1, <2>2
<1>3. ASSUME NEW h \in Host, NEW sid \in SessionId, AcceptInvite(h, sid)
      PROVE  Origin(g, i, s, t)
  <2>1. CASE h = g /\ sid = i
    <3>1. s \in Session /\ s.state = "IncomingPending"
      BY <1>0, <1>3, <2>1 DEF AcceptInvite
    <3>2. t = Activated(s)
      BY <1>3, <2>1 DEF AcceptInvite, TypeOK
    <3>3. t.state = "Active" /\ PeerOf(t) = PeerOf(s)
      BY <3>1, <3>2, ActivatedType
    <3>4. [sid |-> i, by |-> UserAt(g), from |-> PeerOf(s)] \in accepted' /\ self' = self
      BY <1>3, <2>1 DEF AcceptInvite, procVars
    <3> QED
      BY <3>1, <3>3, <3>4
  <2>2. CASE ~(h = g /\ sid = i)
    <3>1. t = s /\ self' = self
      BY <1>3, <2>2 DEF AcceptInvite, TypeOK, procVars
    <3> QED
      BY <1>1, <3>1
  <2> QED
    BY <2>1, <2>2
<1>4. ASSUME NEW h \in Host, NEW sid \in SessionId, DeclineInvite(h, sid)
      PROVE  Origin(g, i, s, t)
  <2>1. self' = self /\ (t = s \/ t = NoSession)
    BY <1>4 DEF DeclineInvite, TypeOK, procVars
  <2> QED
    BY <1>0, <1>1, <2>1
<1>5. ASSUME NEW h \in Host, NEW m \in net, OnInvite(h, m)
      PROVE  Origin(g, i, s, t)
  <2>1. m \in InviteMsg
    BY <1>5 DEF TypeOK, OnInvite, InviteMsg, ChatMsg
  <2>2. m.sid \in SessionId
    BY <2>1 DEF InviteMsg
  <2>3. CASE t = s
    BY <1>1, <1>5, <2>3 DEF OnInvite, procVars
  <2>4. CASE t # s
    <3>1. h = g /\ m.sid = i /\ AddressedTo(h, m) /\ t = InvitedBy(m)
      BY <1>5, <2>2, <2>4 DEF OnInvite, TypeOK
    <3>2. t.state = "IncomingPending" /\ PeerOf(t) = Author(m)
      BY <3>1 DEF InvitedBy, NewSession, PeerOf, Author
    <3>3. m.type = "INVITE" /\ m.to = self[g] /\ self' = self
      BY <1>5, <3>1 DEF OnInvite, AddressedTo, procVars
    <3> QED
      BY <3>1, <3>2, <3>3
  <2> QED
    BY <2>3, <2>4
<1>6. ASSUME NEW h \in Host, NEW m \in net, OnRoomChat(h, m)
      PROVE  Origin(g, i, s, t)
  <2>1. m \in ChatMsg
    BY <1>6 DEF TypeOK, OnRoomChat, InviteMsg, ChatMsg
  <2>2. m.sid \in SessionId
    BY <2>1 DEF ChatMsg
  <2>3. CASE t = s
    BY <1>1, <1>6, <2>3 DEF OnRoomChat, procVars
  <2>4. CASE t # s
    <3>1. h = g /\ m.sid = i /\ FromPeer(s, m) /\ t = Activated(s)
      BY <1>6, <2>2, <2>4 DEF OnRoomChat, TypeOK
    <3>2. s \in Session
      BY <1>0, <3>1 DEF FromPeer
    <3>3. t.state = "Active" /\ PeerOf(t) = PeerOf(s) /\ PeerOf(s) = Author(m)
      BY <3>1, <3>2, ActivatedType DEF FromPeer, PeerOf, Author
    <3>4. /\ m.type = "CHAT" /\ m.dst = g /\ self' = self
          /\ s.state \in {"OutgoingPending", "Active"}
      BY <1>6, <2>4, <3>1 DEF OnRoomChat, procVars
    <3> QED
      BY <3>1, <3>3, <3>4
  <2> QED
    BY <2>3, <2>4
<1>7. ASSUME NEW h \in Host, BeatPrune(h) PROVE Origin(g, i, s, t)
  <2>1. self' = self /\ (t = s \/ t = NoSession)
    BY <1>7 DEF BeatPrune, TypeOK
  <2> QED
    BY <1>0, <1>1, <2>1
<1>8. ASSUME NEW h \in Host, BeatCollect(h) PROVE Origin(g, i, s, t)
  <2>1. ResendDue(s) => Resent(s).state = s.state /\ PeerOf(Resent(s)) = PeerOf(s)
    BY <1>0, ResentType DEF ResendDue
  <2>2. /\ self' = self
        /\ t = s \/ t = NoSession \/ (t = Resent(s) /\ ResendDue(s))
    BY <1>8 DEF BeatCollect, TypeOK
  <2> QED
    BY <1>0, <1>1, <2>1, <2>2 DEF ResendDue
<1>9. ASSUME NEW h \in Host, Restart(h) PROVE Origin(g, i, s, t)
  <2>1. CASE h = g
    BY <1>0, <1>9, <2>1 DEF Restart, TypeOK
  <2>2. CASE h # g
    <3>1. self'[g] = self[g] /\ t = s
      BY <1>9, <2>2 DEF Restart, TypeOK
    <3> QED
      BY <1>0, <3>1
  <2> QED
    BY <2>1, <2>2
<1>10. CASE Pass
  <2>1. t = Aged(s) /\ self' = self
    BY <1>10 DEF Pass
  <2> QED
    BY <1>0, <2>1, AgedType
<1>11. \/ t = s /\ self' = self
       \/ Pass
       \/ \E h \in Host :
            \/ \E sid \in SessionId, target \in Name, dest \in Host :
                  InviteUser(h, sid, target, dest)
            \/ \E sid \in SessionId : AcceptInvite(h, sid) \/ DeclineInvite(h, sid)
            \/ \E m \in net : OnInvite(h, m) \/ OnRoomChat(h, m)
            \/ BeatPrune(h) \/ BeatCollect(h) \/ Restart(h)
  BY DEF Next, Main, Receiver, HeartbeatThread, SendInvite, PrepareChat, SendChat, ShowChat,
         BeatSend, BeatSleep, vars, procVars
<1> QED
  BY <1>1, <1>2, <1>3, <1>4, <1>5, <1>6, <1>7, <1>8, <1>9, <1>10, <1>11

\* Every invitation in a map, in a thread's hands or in flight was asked for, and
\* no step makes one up.
LEMMA NextInvitationsAsked == ConsentInv /\ [Next]_vars => InvitationsAsked'
<1> SUFFICES ASSUME ConsentInv, [Next]_vars PROVE InvitationsAsked'
  OBVIOUS
<1> USE DEF ConsentInv
<1>0. asked \subseteq asked' /\ \A r \in asked' : r.to # r.from.name
  BY HistoryGrows DEF InvitationsAsked
<1>1. ASSUME NEW g \in Host, main'[g].op = "invite"
      PROVE  Asked(main[g].sid, UserAt(g), main[g].to)'
  <2>1. CASE main'[g] = main[g]
    <3>1. Asked(main[g].sid, UserAt(g), main[g].to)
      BY <1>1, <2>1 DEF InvitationsAsked
    <3>2. UserAt(g)' = UserAt(g)
      BY <1>1, HeldInvite DEF UserAt
    <3> QED
      BY <1>0, <2>1, <3>1, <3>2 DEF Asked
  <2> QED
    BY <1>1, <2>1, HeldInvite
<1>2. ASSUME NEW g \in Host, NEW m \in resend'[g]
      PROVE  [sid |-> m.sid, from |-> Author(m), to |-> m.to] \in asked'
  BY <1>0, <1>2, ResendOrigin DEF InvitationsAsked, Asked
<1>3. ASSUME NEW g \in Host, NEW i \in SessionId,
             sessions'[g][i].state = "OutgoingPending"
      PROVE  [sid |-> i, from |-> UserAt(g)', to |-> sessions'[g][i].peer_username] \in asked'
  <2>1. Origin(g, i, sessions[g][i], sessions'[g][i])
    BY SessionOrigin
  <2>2. UserAt(g)' = UserAt(g)
    BY <1>3, <2>1 DEF Origin, UserAt
  <2>3. CASE /\ sessions[g][i].state = "OutgoingPending"
             /\ PeerOf(sessions'[g][i]) = PeerOf(sessions[g][i])
    <3>1. sessions'[g][i].peer_username = sessions[g][i].peer_username
      BY <2>3 DEF PeerOf
    <3> QED
      BY <1>0, <2>2, <2>3, <3>1 DEF InvitationsAsked, Asked
  <2> QED
    BY <1>3, <2>1, <2>2, <2>3 DEF Origin
<1>4. ASSUME NEW g \in Host, NEW i \in SessionId,
             sessions'[g][i].state = "IncomingPending"
      PROVE  [sid |-> i, from |-> PeerOf(sessions'[g][i]), to |-> self'[g]] \in asked'
  <2>1. Origin(g, i, sessions[g][i], sessions'[g][i])
    BY SessionOrigin
  <2> QED
    BY <1>0, <1>4, <2>1 DEF Origin, InvitationsAsked, Asked
<1>5. ASSUME NEW m \in net', m.type = "INVITE"
      PROVE  [sid |-> m.sid, from |-> Author(m), to |-> m.to] \in asked'
  <2>1. CASE m \in net
    BY <1>0, <1>5, <2>1 DEF InvitationsAsked, Asked
  <2>2. ASSUME NEW h \in Host, main[h].op = "invite",
               m = Invite(h, main[h].sid, main[h].to, main[h].dst)
        PROVE  [sid |-> m.sid, from |-> Author(m), to |-> m.to] \in asked'
    BY <1>0, <2>2 DEF InvitationsAsked, Asked, Invite, Author, UserAt
  <2>3. ASSUME NEW h \in Host, m \in resend[h]
        PROVE  [sid |-> m.sid, from |-> Author(m), to |-> m.to] \in asked'
    BY <1>0, <2>3 DEF InvitationsAsked, Asked
  <2>4. ASSUME NEW h \in Host, m = Chat(h, main[h].sid, main[h].dst)
        PROVE  FALSE
    BY <1>5, <2>4 DEF Chat
  <2> QED
    BY <2>1, <2>2, <2>3, <2>4, NetOrigin
<1> QED
  BY <1>0, <1>1, <1>2, <1>3, <1>4, <1>5 DEF InvitationsAsked, Asked, Author, PeerOf

\* No step makes a session Active without its user's doing, or without the
\* agreement of both.
LEMMA ActiveMeansAgreed ==
  ASSUME ConsentInv, [Next]_vars, NEW g \in Host, NEW i \in SessionId,
         sessions'[g][i].state = "Active"
  PROVE  /\ Party(i, UserAt(g), PeerOf(sessions[g][i]))'
         /\ OneAsker(i)' => Agreed(i, UserAt(g), PeerOf(sessions[g][i]))'
<1> USE DEF ConsentInv
<1> DEFINE s == sessions[g][i]
           t == sessions'[g][i]
           me == UserAt(g)
<1>0. /\ asked \subseteq asked' /\ accepted \subseteq accepted'
      /\ OneAsker(i)' => OneAsker(i)
  BY HistoryGrows, OneAskerBefore
<1>1. Origin(g, i, s, t)
  BY SessionOrigin
<1>2. me' = me
  BY <1>1 DEF Origin, UserAt
<1>3. PeerOf(t) = PeerOf(s)
  BY <1>1 DEF Origin
<1>4. PeerOf(sessions[g][i])' = PeerOf(s)
  BY <1>3 DEF PeerOf
<1>5. CASE s.state = "Active"
  <2>1. Party(i, me, PeerOf(s)) /\ (OneAsker(i) => Agreed(i, me, PeerOf(s)))
    BY <1>5 DEF MutualConsent
  <2> QED
    BY <1>0, <1>2, <1>4, <2>1 DEF Party, Agreed, SaidYes
<1>6. ASSUME s.state = "OutgoingPending",
             NEW m \in net, m.type = "CHAT", m.sid = i, m.dst = g, Author(m) = PeerOf(s)
      PROVE  Party(i, me, PeerOf(s)) /\ (OneAsker(i) => Agreed(i, me, PeerOf(s)))
  <2>1. Asked(i, me, PeerOf(s).name)
    BY <1>6 DEF InvitationsAsked, PeerOf
  <2>2. ASSUME OneAsker(i) PROVE Agreed(i, me, PeerOf(s))
    <3>1. PICK n \in Name : Agreed(i, PeerOf(s), [addr |-> g, name |-> n])
      BY <1>6, <2>2 DEF MutualConsent
    <3>2. [addr |-> g, name |-> n] = me
      BY <2>1, <2>2, <3>1, AskerAgreed DEF InvitationsAsked
    <3> QED
      BY <3>1, <3>2 DEF Agreed
  <2> QED
    BY <2>1, <2>2 DEF Asked, Party
<1>7. ASSUME s.state = "OutgoingPending",
             \E m \in net : /\ m.type = "CHAT" /\ m.sid = i
                            /\ m.dst = g /\ Author(m) = PeerOf(s)
      PROVE  Party(i, me, PeerOf(s))' /\ (OneAsker(i)' => Agreed(i, me, PeerOf(s))')
  <2>1. Party(i, me, PeerOf(s)) /\ (OneAsker(i) => Agreed(i, me, PeerOf(s)))
    BY <1>6, <1>7
  <2> QED
    BY <1>0, <1>2, <1>4, <2>1 DEF Party, Agreed, SaidYes
<1>8. ASSUME s.state = "IncomingPending",
             [sid |-> i, by |-> me, from |-> PeerOf(s)] \in accepted'
      PROVE  Party(i, me, PeerOf(s))' /\ Agreed(i, me, PeerOf(s))'
  <2>1. [sid |-> i, from |-> PeerOf(s), to |-> me.name] \in asked'
    BY <1>0, <1>8 DEF InvitationsAsked, Asked, UserAt
  <2> QED
    BY <1>2, <1>4, <1>8, <2>1 DEF Party, Agreed, SaidYes
<1> QED
  BY <1>1, <1>3, <1>5, <1>7, <1>8 DEF Origin

\* No step sends a chat between users that have not agreed.
LEMMA ChatMeansAgreed ==
  ASSUME ConsentInv, [Next]_vars, NEW m \in net', m.type = "CHAT", OneAsker(m.sid)'
  PROVE  \E n \in Name : Agreed(m.sid, Author(m), [addr |-> m.dst, name |-> n])'
<1> USE DEF ConsentInv
<1>0. /\ asked \subseteq asked' /\ accepted \subseteq accepted'
      /\ OneAsker(m.sid)
  BY HistoryGrows, OneAskerBefore
<1>1. CASE m \in net
  <2>1. PICK n \in Name : Agreed(m.sid, Author(m), [addr |-> m.dst, name |-> n])
    BY <1>0, <1>1 DEF MutualConsent
  <2> QED
    BY <1>0, <2>1, AgreementStays
<1>2. ASSUME NEW h \in Host, main[h].op = "chat", m = Chat(h, main[h].sid, main[h].dst)
      PROVE  \E n \in Name : Agreed(m.sid, Author(m), [addr |-> m.dst, name |-> n])'
  <2> DEFINE s == sessions[h][main[h].sid]
  <2>1. main[h].sid \in SessionId
    BY <1>2 DEF TypeOK, Idle
  <2>2. s.state = "Active" /\ s.peer_addr = main[h].dst
    BY <1>2, <2>1 DEF UnlockedUseIsValid
  <2>3. s \in Session
    BY <2>1, <2>2 DEF TypeOK, NoSession
  <2>4. m.sid = main[h].sid /\ Author(m) = UserAt(h) /\ m.dst = s.peer_addr
    BY <1>2, <2>2 DEF Chat, Author, UserAt
  <2>5. Agreed(m.sid, UserAt(h), PeerOf(s))
    BY <1>0, <2>1, <2>2, <2>4 DEF MutualConsent
  <2>6. PeerOf(s) = [addr |-> m.dst, name |-> s.peer_username] /\ s.peer_username \in Name
    BY <2>3, <2>4 DEF PeerOf, Session
  <2>7. Agreed(m.sid, Author(m), [addr |-> m.dst, name |-> s.peer_username])
    BY <2>4, <2>5, <2>6
  <2> QED
    BY <1>0, <2>6, <2>7, AgreementStays
<1>3. ASSUME NEW h \in Host, \/ m \in resend[h]
                             \/ m = Invite(h, main[h].sid, main[h].to, main[h].dst)
      PROVE  FALSE
  BY <1>3 DEF TypeOK, InviteMsg, Invite
<1> QED
  BY <1>1, <1>2, <1>3, NetOrigin

LEMMA NextMutualConsent == ConsentInv /\ [Next]_vars => MutualConsent'
<1> SUFFICES ASSUME ConsentInv, [Next]_vars PROVE MutualConsent'
  OBVIOUS
<1>1. ASSUME NEW g \in Host, NEW i \in SessionId, sessions'[g][i].state = "Active"
      PROVE  /\ Party(i, UserAt(g), PeerOf(sessions[g][i]))'
             /\ OneAsker(i)' => Agreed(i, UserAt(g), PeerOf(sessions[g][i]))'
  BY <1>1, ActiveMeansAgreed
<1>2. ASSUME NEW m \in net', m.type = "CHAT", OneAsker(m.sid)'
      PROVE  \E n \in Name : Agreed(m.sid, Author(m), [addr |-> m.dst, name |-> n])'
  BY <1>2, ChatMeansAgreed
<1> QED
  BY <1>1, <1>2 DEF MutualConsent

\* Consent and what it rests on hold in every state.
LEMMA ConsentInvariant == Spec => []ConsentInv
<1>1. Init => ConsentInv
  BY InitTypeOK, InitUnlockedUse, InitConsent DEF ConsentInv
<1>2. ConsentInv /\ [Next]_vars => ConsentInv'
  BY NextTypeOK, NextUnlockedUse, NextInvitationsAsked, NextMutualConsent DEF ConsentInv
<1> QED
  BY <1>1, <1>2, PTL DEF Spec

\* However datagrams are lost, duplicated, delayed or reordered, and whoever
\* comes to run on the machines under whatever name, a private conversation is
\* only ever between users who each did something for it, by name; and if its id
\* was drawn by one user only, one of the two, in person, asked for the other and
\* the other said yes: the inviter's implicit activation on the first valid CHAT
\* (on_room_chat, 299-302) cannot outrun the invitee's answer.
THEOREM Consent == Spec => []MutualConsent
<1>1. ConsentInv => MutualConsent
  BY DEF ConsentInv
<1> QED
  BY <1>1, ConsentInvariant, PTL
=============================================================================
