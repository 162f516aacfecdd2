----------------------- MODULE DirectMessageRefinement -----------------------
(***************************************************************************)
(* DirectMessage implements Consent, for any hosts, names, session ids,    *)
(* limits and bounds.                                                      *)
(***************************************************************************)
EXTENDS DirectMessageProofs

\* At the start nothing was asked, and nothing is open or in flight.
LEMMA InitPromise == Init => Promise!Init
  BY DEF Init, Promise!Init, Conversations, ChatsInFlight, NoSession

\* What is Active decides what is open.
LEMMA SameConversations ==
  ASSUME \A h \in Host, sid \in SessionId :
            /\ sessions'[h][sid].state = "Active" <=> sessions[h][sid].state = "Active"
            /\ sessions[h][sid].state = "Active" =>
                  PeerOf(sessions'[h][sid]) = PeerOf(sessions[h][sid])
  PROVE  Conversations' = Conversations
<1> DEFINE peers(ss, h) == {[sid |-> sid, peer |-> PeerOf(ss[h][sid])] :
                              sid \in {i \in SessionId : ss[h][i].state = "Active"}}
<1>1. ASSUME NEW h \in Host PROVE peers(sessions', h) = peers(sessions, h)
  BY <1>1
<1>2. Conversations = [h \in Host |-> peers(sessions, h)]
  BY DEF Conversations
<1>3. Conversations' = [h \in Host |-> peers(sessions', h)]
  BY DEF Conversations, PeerOf
<1> HIDE DEF peers
<1> QED
  BY <1>1, <1>2, <1>3

\* A session that becomes Active opens one conversation.
LEMMA OpensConversation ==
  ASSUME TypeOK, NEW h \in Host, NEW sid \in SessionId, NEW t \in Session, NEW p \in User,
         sessions' = [sessions EXCEPT ![h][sid] = t],
         sessions[h][sid].state # "Active",
         t.state = "Active", PeerOf(t) = p
  PROVE  /\ Conversations' = [Conversations EXCEPT ![h] = @ \cup {Promise!Conversation(sid, p)}]
         /\ Promise!Free(h, sid)
<1>1. Promise!Free(h, sid)
  BY DEF Promise!Free, Conversations
<1>2. /\ sessions'[h][sid] = t
      /\ \A g \in Host, i \in SessionId : g # h \/ i # sid => sessions'[g][i] = sessions[g][i]
  BY DEF TypeOK
<1>3. \A g \in Host : g # h => Conversations'[g] = Conversations[g]
  BY <1>2 DEF Conversations, PeerOf
<1>4. Conversations'[h] = Conversations[h] \cup {Promise!Conversation(sid, p)}
  <2>1. Conversations'[h] = {[sid |-> i, peer |-> PeerOf(sessions'[h][i])] :
                               i \in {j \in SessionId : sessions'[h][j].state = "Active"}}
    BY DEF Conversations, PeerOf
  <2>2. Conversations[h] = {[sid |-> i, peer |-> PeerOf(sessions[h][i])] :
                               i \in {j \in SessionId : sessions[h][j].state = "Active"}}
    BY DEF Conversations
  <2> HIDE DEF Conversations
  <2> QED
    BY <1>2, <2>1, <2>2 DEF Promise!Conversation
<1> QED
  BY <1>1, <1>3, <1>4 DEF Conversations

\* Chats in flight over a step that takes, or sends, no chat.
LEMMA SameChats ==
  ASSUME NEW m, m.type # "CHAT", Send(m) \/ Take(m)
  PROVE  ChatsInFlight' = ChatsInFlight
  BY DEF Send, Take, ChatsInFlight

-----------------------------------------------------------------------------
\* invite_user, before its send: a user asks.
LEMMA InviteAsks ==
  ASSUME ConsentInv, NEW h \in Host, NEW sid \in SessionId, NEW target \in Name,
         NEW dest \in Host, InviteUser(h, sid, target, dest)
  PROVE  Promise!Ask(h, sid, target)
<1>1. Conversations' = Conversations
  BY SameConversations DEF InviteUser, Fresh, NewSession, NoSession, ConsentInv, TypeOK
<1>2. ChatsInFlight' = ChatsInFlight
  BY DEF InviteUser, ChatsInFlight
<1> QED
  BY <1>1, <1>2 DEF InviteUser, Promise!Ask, Promise!Me, UserAt, procVars

\* accept_invite: the answer to somebody who asked.
LEMMA AcceptAnswers ==
  ASSUME ConsentInv, NEW h \in Host, NEW sid \in SessionId, AcceptInvite(h, sid)
  PROVE  \E p \in User : Promise!Answer(h, sid, p)
<1> DEFINE s == sessions[h][sid]
<1>1. s \in Session /\ s.state = "IncomingPending"
  BY DEF AcceptInvite, ConsentInv, TypeOK, NoSession
<1>2. PICK t \in Session : /\ t = Activated(s)
                            /\ t.state = "Active" /\ PeerOf(t) = PeerOf(s)
  BY <1>1, ActivatedType
<1>3. sessions' = [sessions EXCEPT ![h][sid] = t]
  BY <1>2 DEF AcceptInvite
<1>4. PeerOf(s) \in User
  BY <1>1, UserType DEF ConsentInv
<1>5. /\ Conversations' = [Conversations EXCEPT
                              ![h] = @ \cup {Promise!Conversation(sid, PeerOf(s))}]
      /\ Promise!Free(h, sid)
  BY <1>1, <1>2, <1>3, <1>4, OpensConversation DEF ConsentInv
<1>6. [sid |-> sid, from |-> PeerOf(s), to |-> self[h]] \in asked
  BY <1>1 DEF ConsentInv, InvitationsAsked, Asked
<1>7. /\ accepted' = accepted \cup {[sid |-> sid, by |-> UserAt(h), from |-> PeerOf(s)]}
      /\ UNCHANGED <<self, asked, net>>
  BY DEF AcceptInvite, procVars
<1>8. ChatsInFlight' = ChatsInFlight
  BY <1>7 DEF ChatsInFlight
<1>9. Promise!Answer(h, sid, PeerOf(s))
  BY <1>5, <1>6, <1>7, <1>8 DEF Promise!Answer, Promise!Me, UserAt
<1> QED
  BY <1>4, <1>9

\* The unlocked send of send_private_chat: the conversation is still open.
LEMMA SendSays ==
  ASSUME ConsentInv, NEW h \in Host, SendChat(h)
  PROVE  \/ \E sid \in SessionId, p \in User : Promise!Say(h, sid, p)
         \/ UNCHANGED Promise!vars
<1> DEFINE m == Chat(h, main[h].sid, main[h].dst)
           s == sessions[h][main[h].sid]
<1>1. main[h].sid \in SessionId
  BY DEF SendChat, ConsentInv, TypeOK, Idle
<1>2. Conversations' = Conversations /\ UNCHANGED <<self, asked, accepted>>
  BY DEF SendChat, Conversations, PeerOf, history, procVars
<1>3. s.state = "Active" /\ s.peer_addr = main[h].dst
  BY <1>1 DEF SendChat, ConsentInv, UnlockedUseIsValid
<1>4. s \in Session
  BY <1>1, <1>3 DEF ConsentInv, TypeOK, NoSession
<1>5. PeerOf(s) \in User /\ PeerOf(s).addr = main[h].dst
  BY <1>3, <1>4, UserType DEF ConsentInv, PeerOf
<1>6. Promise!Conversation(main[h].sid, PeerOf(s)) \in Conversations[h]
  BY <1>1, <1>3 DEF Conversations, Promise!Conversation
<1>7. m.type = "CHAT" /\ m = [type |-> "CHAT", sid |-> main[h].sid, user |-> self[h],
                              src |-> h, dst |-> main[h].dst]
  BY DEF Chat
<1>8. net' = net \cup {m} \/ net' = net
  BY DEF SendChat, Send
<1>9. CASE net' = net
  BY <1>2, <1>9 DEF Promise!vars, ChatsInFlight
<1>10. CASE net' = net \cup {m}
  <2>1. ChatsInFlight' = ChatsInFlight \cup {m}
    BY <1>7, <1>10 DEF ChatsInFlight
  <2>2. Promise!Say(h, main[h].sid, PeerOf(s))
    BY <1>2, <1>5, <1>6, <1>7, <2>1 DEF Promise!Say
  <2> QED
    BY <1>1, <1>5, <2>2
<1> QED
  BY <1>8, <1>9, <1>10

\* on_room_chat: a chat is heard, and may open the conversation of the one who
\* asked.
LEMMA ChatHeard ==
  ASSUME ConsentInv, NEW h \in Host, NEW m \in net, OnRoomChat(h, m)
  PROVE  m \in ChatsInFlight /\ Promise!Hear(h, m)
<1> DEFINE s == sessions[h][m.sid]
<1>1. m \in ChatsInFlight /\ m.dst = h
  BY DEF OnRoomChat, ChatsInFlight
<1>2. m \in ChatMsg /\ m.sid \in SessionId
  BY DEF OnRoomChat, ConsentInv, TypeOK, InviteMsg, ChatMsg
<1>3. ChatsInFlight' \in {ChatsInFlight, ChatsInFlight \ {m}}
  BY DEF OnRoomChat, Take, ChatsInFlight
<1>4. UNCHANGED <<self, asked, accepted>>
  BY DEF OnRoomChat, history, procVars
<1>5. ASSUME Conversations' = Conversations PROVE Promise!Hear(h, m)
  BY <1>1, <1>3, <1>4, <1>5 DEF Promise!Hear
<1>6. CASE UNCHANGED sessions
  <2>1. Conversations' = Conversations
    BY <1>6 DEF Conversations, PeerOf
  <2> QED
    BY <1>1, <1>5, <2>1
<1>7. CASE /\ FromPeer(s, m)
           /\ s.state \in {"OutgoingPending", "Active"}
           /\ sessions' = [sessions EXCEPT ![h][m.sid] = Activated(s)]
  <2>1. s \in Session /\ PeerOf(s) = Author(m) /\ s.peer_username = m.user
    BY <1>2, <1>7 DEF FromPeer, ConsentInv, TypeOK, PeerOf, Author
  <2>2. PICK t \in Session : /\ t = Activated(s)
                              /\ t.state = "Active" /\ PeerOf(t) = PeerOf(s)
    BY <2>1, ActivatedType
  <2>3. CASE s.state = "Active"
    <3>1. ASSUME NEW g \in Host, NEW i \in SessionId
          PROVE  \/ sessions'[g][i] = sessions[g][i]
                 \/ sessions'[g][i] = t /\ sessions[g][i] = s
      BY <1>2, <1>7, <2>2 DEF ConsentInv, TypeOK
    <3>2. Conversations' = Conversations
      BY <2>2, <2>3, <3>1, SameConversations
    <3> QED
      BY <1>1, <1>5, <3>2
  <2>4. CASE s.state = "OutgoingPending"
    <3>1. /\ Conversations' = [Conversations EXCEPT
                                  ![h] = @ \cup {Promise!Conversation(m.sid, Author(m))}]
          /\ Promise!Free(h, m.sid)
      <4>1. sessions' = [sessions EXCEPT ![h][m.sid] = t] /\ Author(m) \in User
        BY <1>7, <2>1, <2>2, UserType DEF ConsentInv
      <4>2. sessions[h][m.sid].state # "Active" /\ PeerOf(t) = Author(m)
        BY <2>1, <2>2, <2>4
      <4> QED
        BY <1>2, <2>2, <4>1, <4>2, OpensConversation DEF ConsentInv
    <3>2. [sid |-> m.sid, from |-> UserAt(h), to |-> m.user] \in asked
      BY <1>2, <2>1, <2>4 DEF ConsentInv, InvitationsAsked, Asked
    <3> QED
      BY <1>1, <1>3, <1>4, <3>1, <3>2
         DEF Promise!Hear, Promise!Me, Promise!Author, UserAt, Author
  <2> QED
    BY <1>7, <2>3, <2>4
<1> QED
  BY <1>1, <1>6, <1>7 DEF OnRoomChat

\* The end of a process.
LEMMA RestartEnds ==
  ASSUME ConsentInv, NEW h \in Host, Restart(h)
  PROVE  Promise!End(h)
<1>1. /\ \A sid \in SessionId : sessions'[h][sid].state = "None"
      /\ \A g \in Host : g # h => sessions'[g] = sessions[g]
      /\ UNCHANGED <<net, asked, accepted>>
  BY DEF Restart, ConsentInv, TypeOK, history, NoSession
<1>2. /\ Conversations'[h] = {}
      /\ \A g \in Host : g # h => Conversations'[g] = Conversations[g]
  BY <1>1 DEF Conversations, PeerOf
<1>3. Conversations' = [Conversations EXCEPT ![h] = {}]
  BY <1>2 DEF Conversations
<1>4. \E n \in Name : self' = [self EXCEPT ![h] = n]
  BY NamesAssumption DEF Restart
<1> QED
  BY <1>1, <1>3, <1>4 DEF Promise!End, ChatsInFlight

\* Everything else is pending, timed or on its way, and nobody's conversation.
LEMMA Unseen ==
  ASSUME ConsentInv, NEW h \in Host,
         \/ SendInvite(h) \/ ShowChat(h)
         \/ \E sid \in SessionId : DeclineInvite(h, sid) \/ PrepareChat(h, sid)
         \/ \E m \in net : OnInvite(h, m)
         \/ HeartbeatThread(h)
  PROVE  UNCHANGED Promise!vars
<1> USE DEF ConsentInv
<1>1. CASE SendInvite(h)
  <2>1. Invite(h, main[h].sid, main[h].to, main[h].dst).type # "CHAT"
    BY DEF Invite
  <2>2. ChatsInFlight' = ChatsInFlight
    BY <1>1, <2>1, SameChats DEF SendInvite
  <2> QED
    BY <1>1, <2>2 DEF SendInvite, Conversations, PeerOf, Promise!vars, history, procVars
<1>2. ASSUME NEW sid \in SessionId, DeclineInvite(h, sid) PROVE UNCHANGED Promise!vars
  <2>1. Conversations' = Conversations
    BY <1>2, SameConversations DEF DeclineInvite, NoSession, TypeOK
  <2> QED
    BY <1>2, <2>1 DEF DeclineInvite, ChatsInFlight, Promise!vars, history, procVars
<1>3. ASSUME NEW m \in net, OnInvite(h, m) PROVE UNCHANGED Promise!vars
  <2>1. m.type # "CHAT" /\ m \in InviteMsg
    BY <1>3 DEF OnInvite, TypeOK, InviteMsg, ChatMsg
  <2>2. ChatsInFlight' = ChatsInFlight
    BY <1>3, <2>1, SameChats DEF OnInvite
  <2>3. m.sid \in SessionId
    BY <2>1 DEF InviteMsg
  <2>4. InvitedBy(m).state # "Active"
    BY DEF InvitedBy, NewSession
  <2>5. \/ sessions' = sessions
        \/ /\ sessions[h][m.sid].state = "None"
           /\ sessions' = [sessions EXCEPT ![h][m.sid] = InvitedBy(m)]
    BY <1>3 DEF OnInvite, Fresh, NoSession
  <2>6. Conversations' = Conversations
    BY <2>3, <2>4, <2>5, SameConversations DEF TypeOK
  <2> QED
    BY <1>3, <2>2, <2>6 DEF OnInvite, Promise!vars, history, procVars
<1>4. CASE BeatPrune(h)
  <2>1. Conversations' = Conversations
    BY <1>4, SameConversations DEF BeatPrune, Expired, Pending, NoSession, TypeOK
  <2> QED
    BY <1>4, <2>1 DEF BeatPrune, ChatsInFlight, Promise!vars, history, procVars
<1>5. CASE BeatCollect(h)
  <2>1. ASSUME NEW sid \in SessionId, ResendDue(sessions[h][sid])
        PROVE  Resent(sessions[h][sid]).state = sessions[h][sid].state
    BY <2>1, ResentType DEF ResendDue, NoSession, TypeOK
  <2>2. \A g \in Host, sid \in SessionId :
           \/ sessions'[g][sid] = sessions[g][sid]
           \/ /\ sessions[g][sid].state = "OutgoingPending"
              /\ sessions'[g][sid].state \in {"None", "OutgoingPending"}
    BY <1>5, <2>1 DEF BeatCollect, ResendDue, TooOld, NoSession, TypeOK
  <2>3. Conversations' = Conversations
    BY <2>2, SameConversations
  <2> QED
    BY <1>5, <2>3 DEF BeatCollect, ChatsInFlight, Promise!vars, history, procVars
<1>6. ASSUME NEW m \in resend[h], BeatSend(h, m) PROVE UNCHANGED Promise!vars
  <2>1. m.type # "CHAT"
    BY <1>6 DEF TypeOK, InviteMsg
  <2>2. ChatsInFlight' = ChatsInFlight
    BY <1>6, <2>1, SameChats DEF BeatSend
  <2> QED
    BY <1>6, <2>2 DEF BeatSend, Conversations, PeerOf, Promise!vars, history, procVars
<1>7. CASE \/ ShowChat(h) \/ BeatSleep(h)
           \/ \E sid \in SessionId : PrepareChat(h, sid)
  BY <1>7 DEF ShowChat, BeatSleep, PrepareChat, Conversations, PeerOf, ChatsInFlight,
              Promise!vars, history, procVars
<1> QED
  BY <1>1, <1>2, <1>3, <1>4, <1>5, <1>6, <1>7 DEF HeartbeatThread

\* Nor does the passing of time.
LEMMA PassUnseen ==
  ASSUME ConsentInv, Pass
  PROVE  UNCHANGED Promise!vars
<1>1. \A g \in Host, sid \in SessionId :
         /\ sessions'[g][sid].state = sessions[g][sid].state
         /\ sessions[g][sid] # NoSession =>
               PeerOf(sessions'[g][sid]) = PeerOf(sessions[g][sid])
  BY AgedType DEF Pass, ConsentInv, TypeOK
<1>2. Conversations' = Conversations
  BY <1>1, SameConversations DEF NoSession
<1> QED
  BY <1>2 DEF Pass, ChatsInFlight, Promise!vars, history, procVars

\* DirectMessageService keeps the promise of the closed rooms: with lost,
\* duplicated and reordered datagrams, resends, expiries, restarts, and sends
\* and callbacks after the unlock, it does nothing that asking, answering,
\* saying and hearing do not account for.
THEOREM Refinement == Spec => KeepsPromise
<1>1. ConsentInv /\ [Next]_vars => [Promise!Next]_(Promise!vars)
  <2> SUFFICES ASSUME ConsentInv, [Next]_vars PROVE Promise!Next \/ UNCHANGED Promise!vars
    OBVIOUS
  <2>1. ASSUME NEW h \in Host, Main(h)
        PROVE  Promise!Next \/ UNCHANGED Promise!vars
    BY <2>1, InviteAsks, AcceptAnswers, SendSays, Unseen DEF Main, Promise!Next, Promise!User, User
  <2>2. ASSUME NEW h \in Host, Receiver(h)
        PROVE  Promise!Next \/ UNCHANGED Promise!vars
    BY <2>2, ChatHeard, Unseen DEF Receiver, Promise!Next
  <2>3. ASSUME NEW h \in Host, HeartbeatThread(h) \/ Restart(h)
        PROVE  Promise!Next \/ UNCHANGED Promise!vars
    BY <2>3, RestartEnds, Unseen DEF Promise!Next
  <2>4. CASE Pass \/ UNCHANGED vars
    BY <2>4, PassUnseen DEF vars, Promise!vars, Conversations, PeerOf, ChatsInFlight
  <2> QED
    BY <2>1, <2>2, <2>3, <2>4 DEF Next
<1> QED
  BY <1>1, InitPromise, ConsentInvariant, PTL DEF Spec, KeepsPromise, Promise!Spec

-----------------------------------------------------------------------------
(* What the promise is worth *)

\* What is open, and on its way, was agreed to.
ConsentedTo ==
    /\ \A r \in asked : r.to # r.from.name
    /\ \A h \in Host : \A c \in Conversations[h] :
          /\ Party(c.sid, UserAt(h), c.peer)
          /\ OneAsker(c.sid) => Agreed(c.sid, UserAt(h), c.peer)
    /\ \A m \in ChatsInFlight :
          OneAsker(m.sid) =>
              \E n \in Name : Agreed(m.sid, Author(m), [addr |-> m.dst, name |-> n])

LEMMA ConsentedMeansMutual == ConsentedTo => MutualConsent
<1> SUFFICES ASSUME ConsentedTo PROVE MutualConsent
  OBVIOUS
<1>1. ASSUME NEW h \in Host, NEW sid \in SessionId, sessions[h][sid].state = "Active"
      PROVE  /\ Party(sid, UserAt(h), PeerOf(sessions[h][sid]))
             /\ OneAsker(sid) => Agreed(sid, UserAt(h), PeerOf(sessions[h][sid]))
  <2> DEFINE c == [sid |-> sid, peer |-> PeerOf(sessions[h][sid])]
  <2>1. c \in Conversations[h] /\ c.sid = sid /\ c.peer = PeerOf(sessions[h][sid])
    BY <1>1 DEF Conversations
  <2> HIDE DEF c
  <2>2. /\ Party(c.sid, UserAt(h), c.peer)
        /\ OneAsker(c.sid) => Agreed(c.sid, UserAt(h), c.peer)
    BY <2>1 DEF ConsentedTo
  <2> QED
    BY <2>1, <2>2, Zenon
<1>2. ASSUME NEW m \in net, m.type = "CHAT"
      PROVE  OneAsker(m.sid) =>
                \E n \in Name : Agreed(m.sid, Author(m), [addr |-> m.dst, name |-> n])
  <2>1. m \in ChatsInFlight
    BY <1>2 DEF ChatsInFlight
  <2> QED
    BY <2>1 DEF ConsentedTo
<1> QED
  BY <1>1, <1>2 DEF MutualConsent

\* Which conversations there are after one opens.
LEMMA OneMore ==
  ASSUME NEW h \in Host, NEW c,
         Conversations' = [Conversations EXCEPT ![h] = @ \cup {c}],
         NEW g \in Host, NEW d \in Conversations'[g]
  PROVE  d \in Conversations[g] \/ (g = h /\ d = c)
<1>1. Conversations'[g] = IF g = h THEN Conversations[g] \cup {c} ELSE Conversations[g]
  <2>1. DOMAIN Conversations = Host
    BY DEF Conversations
  <2> HIDE DEF Conversations
  <2> QED
    BY <2>1
<1> HIDE DEF Conversations
<1> QED
  BY <1>1

\* What a user did, and an agreement, last.
LEMMA ConsentLasts ==
  ASSUME asked \subseteq asked', accepted \subseteq accepted', NEW sid, NEW a, NEW b
  PROVE  /\ Party(sid, a, b) => Party(sid, a, b)'
         /\ Agreed(sid, a, b) => Agreed(sid, a, b)'
         /\ OneAsker(sid)' => OneAsker(sid)
  BY DEF Party, Agreed, SaidYes, OneAsker

\* Whether it holds of a step follows from what is new in it: a conversation of
\* h, or a chat.
LEMMA NewConsent ==
  ASSUME ConsentedTo, asked \subseteq asked', accepted \subseteq accepted',
         \A r \in asked' : r.to # r.from.name,
         ASSUME NEW h \in Host, NEW c \in Conversations'[h]
         PROVE  /\ UserAt(h)' = UserAt(h)
                /\ \/ c \in Conversations[h]
                   \/ /\ Party(c.sid, UserAt(h), c.peer)'
                      /\ OneAsker(c.sid) => Agreed(c.sid, UserAt(h), c.peer)',
         ASSUME NEW m \in ChatsInFlight'
         PROVE  \/ m \in ChatsInFlight
                \/ OneAsker(m.sid) =>
                      \E n \in Name : Agreed(m.sid, Author(m), [addr |-> m.dst, name |-> n])
  PROVE  ConsentedTo'
<1>1. ASSUME NEW h \in Host, NEW c \in Conversations'[h]
      PROVE  /\ Party(c.sid, UserAt(h), c.peer)'
             /\ OneAsker(c.sid)' => Agreed(c.sid, UserAt(h), c.peer)'
  <2>1. CASE c \in Conversations[h]
    <3>1. Party(c.sid, UserAt(h), c.peer) /\ (OneAsker(c.sid) => Agreed(c.sid, UserAt(h), c.peer))
      BY <2>1 DEF ConsentedTo
    <3>2. UserAt(h)' = UserAt(h)
      BY <1>1
    <3> QED
      BY <3>1, <3>2 DEF Party, Agreed, SaidYes, OneAsker
  <2> QED
    BY <1>1, <2>1, ConsentLasts
<1>2. ASSUME NEW m \in ChatsInFlight', OneAsker(m.sid)'
      PROVE  \E n \in Name : Agreed(m.sid, Author(m), [addr |-> m.dst, name |-> n])'
  <2>1. PICK n \in Name : Agreed(m.sid, Author(m), [addr |-> m.dst, name |-> n])
    <3>1. OneAsker(m.sid)
      BY <1>2, ConsentLasts
    <3> QED
      BY <1>2, <3>1 DEF ConsentedTo
  <2> QED
    BY <2>1, ConsentLasts
<1> QED
  BY <1>1, <1>2 DEF ConsentedTo

\* Every step of Consent keeps what it promises agreed to.
LEMMA PromiseKeepsConsent ==
  ASSUME ConsentedTo, Promise!Next \/ UNCHANGED Promise!vars
  PROVE  ConsentedTo'
<1> DEFINE Lasting == /\ asked \subseteq asked' /\ accepted \subseteq accepted'
                      /\ \A r \in asked' : r.to # r.from.name
           NoNewChat == ChatsInFlight' \subseteq ChatsInFlight
           SameUsers == \A g \in Host : UserAt(g)' = UserAt(g)
<1>0. \A r \in asked : r.to # r.from.name
  BY DEF ConsentedTo
<1>1. ASSUME Lasting, SameUsers, UNCHANGED Conversations, NoNewChat PROVE ConsentedTo'
  BY <1>1, NewConsent
<1>2. CASE UNCHANGED Promise!vars
  BY <1>0, <1>1, <1>2 DEF Promise!vars, UserAt
<1>3. ASSUME NEW h \in Host, NEW sid \in SessionId, NEW n \in Name, Promise!Ask(h, sid, n)
      PROVE  ConsentedTo'
  <2>1. Lasting /\ SameUsers
    BY <1>0, <1>3 DEF Promise!Ask, Promise!Me, UserAt
  <2> QED
    BY <1>1, <1>3, <2>1 DEF Promise!Ask
<1>4. ASSUME NEW h \in Host, NEW sid \in SessionId, NEW p \in User, Promise!Answer(h, sid, p)
      PROVE  ConsentedTo'
  <2>1. Lasting /\ SameUsers /\ NoNewChat
    BY <1>0, <1>4 DEF Promise!Answer, UserAt
  <2>2. Party(sid, UserAt(h), p)' /\ Agreed(sid, UserAt(h), p)'
    <3> DEFINE yes == [sid |-> sid, by |-> UserAt(h), from |-> p]
    <3>1. yes \in accepted'
      BY <1>4 DEF Promise!Answer, Promise!Me, UserAt
    <3>2. [sid |-> sid, from |-> p, to |-> UserAt(h).name] \in asked'
      BY <1>4 DEF Promise!Answer, UserAt
    <3>3. UserAt(h)' = UserAt(h)
      BY <2>1
    <3> QED
      BY <3>1, <3>2, <3>3 DEF Party, Agreed, SaidYes
  <2>3. ASSUME NEW g \in Host, NEW c \in Conversations'[g]
        PROVE  c \in Conversations[g] \/ (g = h /\ c.sid = sid /\ c.peer = p)
    <3>1. c \in Conversations[g] \/ (g = h /\ c = Promise!Conversation(sid, p))
      BY <1>4, <2>3, OneMore, Zenon DEF Promise!Answer
    <3> QED
      BY <3>1 DEF Promise!Conversation
  <2> QED
    BY <2>1, <2>2, <2>3, NewConsent
<1>5. ASSUME NEW h \in Host, NEW sid \in SessionId, NEW p \in User, Promise!Say(h, sid, p)
      PROVE  ConsentedTo'
  <2>1. Lasting /\ SameUsers /\ Conversations' = Conversations
    BY <1>0, <1>5 DEF Promise!Say, UserAt
  <2>2. OneAsker(sid) => Agreed(sid, UserAt(h), p)
    BY <1>5 DEF Promise!Say, Promise!Conversation, ConsentedTo
  <2>3. p.name \in Name /\ p = [addr |-> p.addr, name |-> p.name]
    BY DEF User
  <2>4. ASSUME NEW m \in ChatsInFlight'
        PROVE  m \in ChatsInFlight \/ (m.sid = sid /\ Author(m) = UserAt(h) /\ m.dst = p.addr)
    <3> DEFINE said == [type |-> "CHAT", sid |-> sid, user |-> self[h], src |-> h,
                        dst |-> p.addr]
    <3>1. said.sid = sid /\ Author(said) = UserAt(h) /\ said.dst = p.addr
      BY DEF Author, UserAt
    <3>2. ChatsInFlight' = ChatsInFlight \cup {said}
      BY <1>5 DEF Promise!Say
    <3> HIDE DEF said
    <3>3. m \in ChatsInFlight \/ m = said
      BY <2>4, <3>2, Zenon
    <3> QED
      BY <3>1, <3>3
  <2> QED
    BY <2>1, <2>2, <2>3, <2>4, NewConsent
<1>6. ASSUME NEW h \in Host, NEW m \in ChatsInFlight, Promise!Hear(h, m)
      PROVE  ConsentedTo'
  <2>1. Lasting /\ SameUsers /\ NoNewChat
    BY <1>0, <1>6 DEF Promise!Hear, UserAt
  <2>2. CASE UNCHANGED Conversations
    BY <1>1, <2>1, <2>2
  <2>3. CASE /\ Asked(m.sid, UserAt(h), Author(m).name)
             /\ Conversations' = [Conversations EXCEPT
                                    ![h] = @ \cup {Promise!Conversation(m.sid, Author(m))}]
    <3>1. ASSUME OneAsker(m.sid) PROVE Agreed(m.sid, UserAt(h), Author(m))
      <4>1. PICK n \in Name : Agreed(m.sid, Author(m), [addr |-> m.dst, name |-> n])
        BY <3>1 DEF ConsentedTo
      <4>2. [addr |-> m.dst, name |-> n] = UserAt(h)
        BY <1>0, <2>3, <3>1, <4>1, AskerAgreed
      <4> QED
        BY <4>1, <4>2 DEF Agreed
    <3>2. Party(m.sid, UserAt(h), Author(m))
      BY <2>3 DEF Asked, Party
    <3>3. UserAt(h)' = UserAt(h)
      BY <2>1
    <3>4. /\ Party(m.sid, UserAt(h), Author(m))'
          /\ OneAsker(m.sid) => Agreed(m.sid, UserAt(h), Author(m))'
      BY <2>1, <3>1, <3>2, <3>3 DEF Party, Agreed, SaidYes
    <3>5. ASSUME NEW g \in Host, NEW c \in Conversations'[g]
          PROVE  c \in Conversations[g] \/ (g = h /\ c.sid = m.sid /\ c.peer = Author(m))
      <4>1. c \in Conversations[g] \/ (g = h /\ c = Promise!Conversation(m.sid, Author(m)))
        BY <2>3, <3>5, OneMore, Zenon
      <4> QED
        BY <4>1 DEF Promise!Conversation
    <3> QED
      BY <2>1, <3>4, <3>5, NewConsent
  <2>4. Author(m).name = m.user
    BY DEF Author
  <2> QED
    BY <1>6, <2>2, <2>3, <2>4
       DEF Promise!Hear, Promise!Me, Promise!Author, UserAt, Author, Asked
<1>7. ASSUME NEW h \in Host, Promise!End(h) PROVE ConsentedTo'
  <2>1. Lasting /\ NoNewChat
    BY <1>0, <1>7 DEF Promise!End
  <2>2. /\ Conversations' = [Conversations EXCEPT ![h] = {}]
        /\ \E n \in Name : self' = [self EXCEPT ![h] = n]
    BY <1>7 DEF Promise!End
  <2>3. ASSUME NEW g \in Host, NEW c \in Conversations'[g]
        PROVE  g # h /\ c \in Conversations[g]
    BY <2>2, <2>3 DEF Conversations
  <2>4. \A g \in Host : g # h => UserAt(g)' = UserAt(g)
    BY <2>2 DEF UserAt
  <2> QED
    BY <2>1, <2>3, <2>4, NewConsent
<1> QED
  BY <1>2, <1>3, <1>4, <1>5, <1>6, <1>7 DEF Promise!Next, Promise!User, User

\* Consent says enough: whoever keeps the promise has, in every state, the consent
\* of the users, by name, for each conversation and each chat on its way.
THEOREM PromiseMeansConsent == KeepsPromise => []MutualConsent
<1>1. Promise!Init => ConsentedTo
  BY DEF Promise!Init, ConsentedTo
<1>2. ConsentedTo /\ [Promise!Next]_(Promise!vars) => ConsentedTo'
  BY PromiseKeepsConsent
<1> QED
  BY <1>1, <1>2, ConsentedMeansMutual, PTL DEF KeepsPromise, Promise!Spec
=============================================================================
