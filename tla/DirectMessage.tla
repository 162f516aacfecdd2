--------------------------- MODULE DirectMessage ---------------------------
(***************************************************************************)
(* The closed (1-1) rooms of the chat client: DirectMessageService, run by *)
(* one process on each of several hosts, over UDP.                         *)
(*                                                                         *)
(* Inside a process three threads use the service.  The main thread runs   *)
(* the menu and calls invite_user, accept_invite, decline_invite and       *)
(* send_private_chat; the receiver thread calls on_invite and on_room_chat *)
(* for each datagram; the heartbeat thread calls prune_pending and then    *)
(* resend_outgoing_pending.  The service's mutex is held only while the    *)
(* session map is read or written: a send or a callback happens after the  *)
(* unlock, and is therefore a step of its own here.                        *)
(*                                                                         *)
(* Time is kept as ages in seconds (steady_clock::now() minus the stored   *)
(* time point), advanced by Tick seconds at a time and held at AgeCap,     *)
(* beyond every limit they are compared with.                              *)
(***************************************************************************)
EXTENDS Integers, FiniteSets

CONSTANTS
    Host,            \* the machines, named by their IPv4 address
    Name,            \* user names
    NamesOf,         \* NamesOf[h]: names a process on h may be started with
    MayRestart,      \* hosts whose process may end and be started again
    SessionId,       \* what make_session_id may draw
    HeartbeatInterval, PruneAge, ResendInterval, InviteMaxAge,
    Tick, AgeCap,
    MaxAsked,        \* bound on the invitations ever asked for
    MaxInFlight      \* bound on the datagrams in flight: more are lost

ASSUME NamesAssumption == NamesOf \in [Host -> SUBSET Name]

ASSUME TimeAssumption ==
    /\ {HeartbeatInterval, PruneAge, ResendInterval, InviteMaxAge} \subseteq Nat
    /\ Tick \in Nat \ {0}
    /\ AgeCap \in Nat
    /\ AgeCap > PruneAge + HeartbeatInterval
    /\ AgeCap > InviteMaxAge + HeartbeatInterval
    /\ AgeCap > ResendInterval + HeartbeatInterval

VARIABLES
    self,      \* self[h]: self_username_ of the process on h
    sessions,  \* sessions[h][sid]: the entry of sessions_, or NoSession
    main,      \* main[h]: what the main thread still has to send, unlocked
    shown,     \* shown[h]: the chat the receiver is about to hand to on_private_
    beat,      \* beat[h]: where the heartbeat thread is
    slept,     \* slept[h]: how long it has been in sleep_for
    resend,    \* resend[h]: invitations it collected under the lock, to be sent
    net,       \* datagrams in flight
    asked,     \* history: every invitation a user asked for
    accepted   \* history: every invitation a user said yes to

vars == <<self, sessions, main, shown, beat, slept, resend, net, asked, accepted>>
procVars == <<self, beat, slept, resend>>
history == <<asked, accepted>>

-----------------------------------------------------------------------------
(* Data *)

Session ==
    [state : {"OutgoingPending", "IncomingPending", "Active"},
     peer_username : Name, peer_addr : Host,
     created : 0..AgeCap, last_sent : 0..AgeCap, last_update : 0..AgeCap]
NoSession == [state |-> "None"]

InviteMsg == [type : {"INVITE"}, sid : SessionId, user : Name, to : Name,
              src : Host, dst : Host]
ChatMsg == [type : {"CHAT"}, sid : SessionId, user : Name, src : Host, dst : Host]
User == [addr : Host, name : Name]

Idle == [op |-> "idle"]
NoChat == [sid |-> "none"]

\* INVITE|sid|self|CLOSED;to=target, sent to the peer's address, port 50000.
Invite(h, sid, to, dst) ==
    [type |-> "INVITE", sid |-> sid, user |-> self[h], to |-> to,
     src |-> h, dst |-> dst]

\* CHAT|sid|self|text.
Chat(h, sid, dst) ==
    [type |-> "CHAT", sid |-> sid, user |-> self[h], src |-> h, dst |-> dst]

\* A session whose three time points are now.  (on_invite leaves last_sent unset,
\* which nobody reads of an invitation that came in.)
NewSession(state, peer, addr) ==
    [state |-> state, peer_username |-> peer, peer_addr |-> addr,
     created |-> 0, last_sent |-> 0, last_update |-> 0]

\* A user is a name on a machine: who runs there now, whom a session has as its
\* peer, who sent a datagram.
UserAt(h) == [addr |-> h, name |-> self[h]]
PeerOf(s) == [addr |-> s.peer_addr, name |-> s.peer_username]
Author(m) == [addr |-> m.src, name |-> m.user]

\* No code reads the time points of an Active session: they are kept at 0.
Activated(s) ==
    [s EXCEPT !.state = "Active", !.created = 0, !.last_sent = 0, !.last_update = 0]

Pending(s) == s.state \in {"OutgoingPending", "IncomingPending"}
Older(age) == IF age + Tick > AgeCap THEN AgeCap ELSE age + Tick
Aged(s) ==
    IF Pending(s)
    THEN [s EXCEPT !.created = Older(@), !.last_sent = Older(@), !.last_update = Older(@)]
    ELSE s

\* sendto: the datagram gets on its way, or fails or is lost.
Send(m) == \/ net' = net \cup {m} /\ Cardinality(net') <= MaxInFlight
           \/ net' = net
\* recvfrom: the datagram is gone, or a duplicate is still in flight.
Take(m) == \/ net' = net \ {m}
           \/ net' = net

-----------------------------------------------------------------------------
Init ==
    /\ self \in [Host -> Name]
    /\ \A h \in Host : self[h] \in NamesOf[h]
    /\ sessions = [h \in Host |-> [sid \in SessionId |-> NoSession]]
    /\ main = [h \in Host |-> Idle]
    /\ shown = [h \in Host |-> NoChat]
    /\ beat = [h \in Host |-> "sleep"]
    /\ slept = [h \in Host |-> 0]
    /\ resend = [h \in Host |-> {}]
    /\ net = {}
    /\ asked = {}
    /\ accepted = {}

-----------------------------------------------------------------------------
(* Main thread *)

\* sessions_ holds no session of that id; the mutant forgets the pending ones.
NotActive(h, sid) == sessions[h][sid].state # "Active"
Fresh(h, sid) == sessions[h][sid] = NoSession

\* invite_user up to the unlock.  The directory may be up to 18 s stale, so
\* the address it gives for target may by now belong to anyone else.
\* (Not to this host: two processes on one machine are not modelled.)
InviteUser(h, sid, target, dest) ==
    /\ main[h] = Idle
    /\ target # self[h]
    /\ dest # h
    /\ Fresh(h, sid)
    /\ sessions' = [sessions EXCEPT ![h][sid] =
                        NewSession("OutgoingPending", target, dest)]
    /\ main' = [main EXCEPT ![h] = [op |-> "invite", sid |-> sid,
                                    to |-> target, dst |-> dest]]
    /\ asked' = asked \cup {[sid |-> sid, from |-> UserAt(h), to |-> target]}
    /\ Cardinality(asked') <= MaxAsked
    /\ UNCHANGED <<procVars, shown, net, accepted>>

\* ... and its send.  When sendto fails it returns nullopt and the session
\* stays in the map: the step is the same as a loss.
SendInvite(h) ==
    /\ main[h].op = "invite"
    /\ Send(Invite(h, main[h].sid, main[h].to, main[h].dst))
    /\ main' = [main EXCEPT ![h] = Idle]
    /\ UNCHANGED <<procVars, sessions, shown, history>>

\* Menu 9, a: nothing is sent.
AcceptInvite(h, sid) ==
    /\ main[h] = Idle
    /\ sessions[h][sid].state = "IncomingPending"
    /\ sessions' = [sessions EXCEPT ![h][sid] = Activated(@)]
    /\ accepted' = accepted \cup {[sid |-> sid, by |-> UserAt(h),
                                   from |-> PeerOf(sessions[h][sid])]}
    /\ UNCHANGED <<procVars, main, shown, net, asked>>

\* Menu 9, d: nothing is sent.
DeclineInvite(h, sid) ==
    /\ main[h] = Idle
    /\ sessions[h][sid].state = "IncomingPending"
    /\ sessions' = [sessions EXCEPT ![h][sid] = NoSession]
    /\ UNCHANGED <<procVars, main, shown, net, history>>

\* Only an Active session may be written to; the mutant lets the inviter start.
InviterMayWrite(s) == s.state \in {"OutgoingPending", "Active"}
MayWrite(s) == s.state = "Active"

\* send_private_chat: the check and the copy of the peer's address ...
PrepareChat(h, sid) ==
    /\ main[h] = Idle
    /\ MayWrite(sessions[h][sid])
    /\ main' = [main EXCEPT ![h] = [op |-> "chat", sid |-> sid,
                                    to |-> sessions[h][sid].peer_username,
                                    dst |-> sessions[h][sid].peer_addr]]
    /\ UNCHANGED <<procVars, sessions, shown, net, history>>

\* ... and the unlocked send.
SendChat(h) ==
    /\ main[h].op = "chat"
    /\ Send(Chat(h, main[h].sid, main[h].dst))
    /\ main' = [main EXCEPT ![h] = Idle]
    /\ UNCHANGED <<procVars, sessions, shown, history>>

-----------------------------------------------------------------------------
(* Receiver thread *)

\* "CLOSED;to=" names the user of this process; the mutant takes any INVITE
\* that reaches this address.
SentHere(h, m) == m.dst = h
AddressedTo(h, m) == m.to = self[h]

\* The owner field names the peer; the mutant reads the room field.
InvitedByRoom(m) == NewSession("IncomingPending", m.sid, m.src)
InvitedBy(m) == NewSession("IncomingPending", m.user, m.src)

OnInvite(h, m) ==
    /\ shown[h] = NoChat
    /\ m.type = "INVITE" /\ m.dst = h
    /\ Take(m)
    /\ \/ /\ AddressedTo(h, m) /\ Fresh(h, m.sid)
          /\ sessions' = [sessions EXCEPT ![h][m.sid] = InvitedBy(m)]
       \/ /\ ~AddressedTo(h, m) \/ ~Fresh(h, m.sid)
          /\ UNCHANGED sessions
    /\ UNCHANGED <<procVars, main, shown, history>>

\* The endpoint and the sender's name are those of the session; the mutant
\* trusts the name alone.
NamedAsPeer(s, m) ==
    /\ s # NoSession
    /\ s.peer_username = m.user
FromPeer(s, m) ==
    /\ s # NoSession
    /\ s.peer_addr = m.src
    /\ s.peer_username = m.user

\* The first valid CHAT stands for the acceptance of an outgoing invitation.
OnRoomChat(h, m) ==
    /\ shown[h] = NoChat
    /\ m.type = "CHAT" /\ m.dst = h
    /\ Take(m)
    /\ LET s == sessions[h][m.sid] IN
       \/ /\ FromPeer(s, m) /\ s.state \in {"OutgoingPending", "Active"}
          /\ sessions' = [sessions EXCEPT ![h][m.sid] = Activated(s)]
          /\ shown' = [shown EXCEPT ![h] = [sid |-> m.sid, sender |-> s.peer_username]]
       \/ /\ ~FromPeer(s, m) \/ s.state = "IncomingPending"
          /\ UNCHANGED <<sessions, shown>>
    /\ UNCHANGED <<procVars, main, history>>

\* The callback, after the unlock.
ShowChat(h) ==
    /\ shown[h] # NoChat
    /\ shown' = [shown EXCEPT ![h] = NoChat]
    /\ UNCHANGED <<procVars, sessions, main, net, history>>

-----------------------------------------------------------------------------
(* Heartbeat thread *)

\* prune_pending's test; the mutant forgets invitations waiting for an answer.
ExpiredOutgoing(s) == s.state = "OutgoingPending" /\ s.last_update > PruneAge
Expired(s) == Pending(s) /\ s.last_update > PruneAge

\* sleep_for returns; prune_pending(30s).
BeatPrune(h) ==
    /\ beat[h] = "sleep"
    /\ slept[h] = HeartbeatInterval
    /\ sessions' = [sessions EXCEPT ![h] =
           [sid \in SessionId |-> IF Expired(@[sid]) THEN NoSession ELSE @[sid]]]
    /\ beat' = [beat EXCEPT ![h] = "resend"]
    /\ UNCHANGED <<self, main, shown, slept, resend, net, history>>

\* max_age counts from created_at; the mutant counts from the last resend.
TooOldSinceResend(s) == s.state = "OutgoingPending" /\ s.last_update > InviteMaxAge
TooOld(s) == s.state = "OutgoingPending" /\ s.created > InviteMaxAge
ResendDue(s) ==
    /\ s.state = "OutgoingPending"
    /\ ~TooOld(s)
    /\ s.last_sent >= ResendInterval

\* A resend refreshes both time points; the mutant only the one it compares.
ResentOnly(s) == [s EXCEPT !.last_sent = 0]
Resent(s) == [s EXCEPT !.last_sent = 0, !.last_update = 0]

\* resend_outgoing_pending(6s, 45s) up to the unlock ...
BeatCollect(h) ==
    /\ beat[h] = "resend"
    /\ sessions' = [sessions EXCEPT ![h] =
           [sid \in SessionId |-> IF TooOld(@[sid]) THEN NoSession
                                  ELSE IF ResendDue(@[sid]) THEN Resent(@[sid])
                                  ELSE @[sid]]]
    /\ resend' = [resend EXCEPT ![h] =
           {Invite(h, sid, sessions[h][sid].peer_username, sessions[h][sid].peer_addr) :
              sid \in {i \in SessionId : ResendDue(sessions[h][i])}}]
    /\ beat' = [beat EXCEPT ![h] = "send"]
    /\ UNCHANGED <<self, main, shown, slept, net, history>>

\* ... its sends, in any order ...
BeatSend(h, m) ==
    /\ beat[h] = "send"
    /\ m \in resend[h]
    /\ Send(m)
    /\ resend' = [resend EXCEPT ![h] = @ \ {m}]
    /\ UNCHANGED <<self, sessions, main, shown, beat, slept, history>>

\* ... and back to sleep.
BeatSleep(h) ==
    /\ beat[h] = "send"
    /\ resend[h] = {}
    /\ beat' = [beat EXCEPT ![h] = "sleep"]
    /\ slept' = [slept EXCEPT ![h] = 0]
    /\ UNCHANGED <<self, sessions, main, shown, resend, net, history>>

-----------------------------------------------------------------------------
(* Environment *)

\* The process on h ends and is started again, perhaps by another user.
\* Nothing is persisted; datagrams under way stay under way.
Restart(h) ==
    /\ h \in MayRestart
    /\ \E n \in NamesOf[h] : self' = [self EXCEPT ![h] = n]
    /\ sessions' = [sessions EXCEPT ![h] = [sid \in SessionId |-> NoSession]]
    /\ main' = [main EXCEPT ![h] = Idle]
    /\ shown' = [shown EXCEPT ![h] = NoChat]
    /\ beat' = [beat EXCEPT ![h] = "sleep"]
    /\ slept' = [slept EXCEPT ![h] = 0]
    /\ resend' = [resend EXCEPT ![h] = {}]
    /\ UNCHANGED <<net, history>>

\* Time passes.  A heartbeat that is due, or under way, takes a time that is
\* negligible against the 10 s it then sleeps: it finishes first.
Pass ==
    /\ \A h \in Host : beat[h] = "sleep" /\ slept[h] < HeartbeatInterval
    /\ slept' = [h \in Host |-> IF slept[h] + Tick > HeartbeatInterval
                                THEN HeartbeatInterval ELSE slept[h] + Tick]
    /\ sessions' = [h \in Host |-> [sid \in SessionId |-> Aged(sessions[h][sid])]]
    /\ UNCHANGED <<self, main, shown, beat, resend, net, history>>

-----------------------------------------------------------------------------
Main(h) ==
    \/ \E sid \in SessionId, target \in Name, dest \in Host :
          InviteUser(h, sid, target, dest)
    \/ SendInvite(h)
    \/ \E sid \in SessionId :
          AcceptInvite(h, sid) \/ DeclineInvite(h, sid) \/ PrepareChat(h, sid)
    \/ SendChat(h)

Receiver(h) ==
    \/ \E m \in net : OnInvite(h, m) \/ OnRoomChat(h, m)
    \/ ShowChat(h)

HeartbeatThread(h) ==
    \/ BeatPrune(h)
    \/ BeatCollect(h)
    \/ \E m \in resend[h] : BeatSend(h, m)
    \/ BeatSleep(h)

Next ==
    \/ \E h \in Host : Main(h) \/ Receiver(h) \/ HeartbeatThread(h) \/ Restart(h)
    \/ Pass

Spec == Init /\ [][Next]_vars

\* Time passes, the heartbeat thread is scheduled, the main thread finishes a
\* call it began and the receiver drains its socket; no user has to do anything.
Fairness ==
    /\ WF_vars(Pass)
    /\ \A h \in Host :
          /\ WF_vars(HeartbeatThread(h))
          /\ WF_vars(SendInvite(h) \/ SendChat(h))
          /\ WF_vars(Receiver(h))

FairSpec == Spec /\ Fairness

-----------------------------------------------------------------------------
(* Properties *)

TypeOK ==
    /\ self \in [Host -> Name]
    /\ sessions \in [Host -> [SessionId -> Session \cup {NoSession}]]
    /\ main \in [Host -> {Idle} \cup
                   [op : {"invite", "chat"}, sid : SessionId, to : Name, dst : Host]]
    /\ shown \in [Host -> {NoChat} \cup [sid : SessionId, sender : Name]]
    /\ beat \in [Host -> {"sleep", "resend", "send"}]
    /\ slept \in [Host -> 0..HeartbeatInterval]
    /\ resend \in [Host -> SUBSET InviteMsg]
    /\ net \subseteq InviteMsg \cup ChatMsg
    /\ asked \subseteq [sid : SessionId, from : User, to : Name]
    /\ accepted \subseteq [sid : SessionId, by : User, from : User]

\* The user b asked for the user a by name, and a said yes to b; or the reverse.
SaidYes(sid, a, b) ==
    /\ [sid |-> sid, by |-> a, from |-> b] \in accepted
    /\ [sid |-> sid, from |-> b, to |-> a.name] \in asked
Agreed(sid, a, b) == SaidYes(sid, a, b) \/ SaidYes(sid, b, a)

\* What a did himself: he said yes to b's invitation, or asked for b by name.
Party(sid, a, b) ==
    \/ [sid |-> sid, by |-> a, from |-> b] \in accepted
    \/ [sid |-> sid, from |-> a, to |-> b.name] \in asked

\* Only one user, a name on a machine, ever drew this id for an invitation.
OneAsker(sid) == \A r, q \in asked : r.sid = sid /\ q.sid = sid => r.from = q.from

\* Whoever is in a private conversation is in it by his own doing, and not by
\* that of somebody who ran on his machine before him: he said yes to his peer's
\* invitation, or asked for his peer by name.  And his peer agreed with him, in
\* person: although the code sends no ACCEPT, neither an Active session nor a
\* chat on its way ever comes from an unanswered or declined invitation,
\* whatever is lost, duplicated, reordered or restarted.  (The second part
\* needs ids that no two users draw; make_session_id draws one of 2^24.  A
\* chat names no addressee: one meant for the former user of the machine opens
\* the invitation of the present user, if that has the same id and is to the
\* chat's author.)
MutualConsent ==
    /\ \A h \in Host, sid \in SessionId :
          LET s == sessions[h][sid] IN
          s.state = "Active" =>
              /\ Party(sid, UserAt(h), PeerOf(s))
              /\ OneAsker(sid) => Agreed(sid, UserAt(h), PeerOf(s))
    /\ \A m \in net :
          m.type = "CHAT" /\ OneAsker(m.sid) =>
              \E n \in Name : Agreed(m.sid, Author(m), [addr |-> m.dst, name |-> n])

\* What the closed rooms promise, without sessions, timers and threads: a
\* conversation is open where its session is Active.
Conversations ==
    [h \in Host |->
        {[sid |-> sid, peer |-> PeerOf(sessions[h][sid])] :
            sid \in {i \in SessionId : sessions[h][i].state = "Active"}}]
ChatsInFlight == {m \in net : m.type = "CHAT"}

Promise == INSTANCE Consent
               WITH user <- self, open <- Conversations, chats <- ChatsInFlight

\* Every step of the threads, of the network and of the environment is one that
\* the promise allows, or one that nobody can tell from none: pending sessions,
\* resends and expiries never open, redirect or close a conversation, and
\* nothing is written to one that is not open.
KeepsPromise == Promise!Spec

\* What is used after the unlock is still true then: the chat that the main
\* thread is sending goes to the peer of a session that is still Active, and
\* the chat that the receiver is showing comes from one.
UnlockedUseIsValid ==
    \A h \in Host :
        /\ main[h].op = "chat" =>
              LET s == sessions[h][main[h].sid] IN
              s.state = "Active" /\ s.peer_addr = main[h].dst
        /\ shown[h] # NoChat =>
              LET s == sessions[h][shown[h].sid] IN
              s.state = "Active" /\ s.peer_username = shown[h].sender

\* A session is bound to one peer for as long as it is in the map, whoever
\* else sends an INVITE or a CHAT with its id, and an established conversation
\* is never undone or forgotten while the process lives.
PeerBinding ==
    [][\A h \in Host, sid \in SessionId :
          LET s == sessions[h][sid]
              t == sessions'[h][sid]
          IN  /\ s # NoSession /\ t # NoSession =>
                    /\ t.peer_addr = s.peer_addr
                    /\ t.peer_username = s.peer_username
              /\ s.state = "Active" => t.state = "Active" \/ Restart(h)]_vars

\* An unanswered invitation leaves the inviter's list only once it is older
\* than max_age: the 30 s prune, which runs first in each heartbeat, never
\* cuts short the 45 s that the resend logic promises.
FullInviteWindow ==
    [][\A h \in Host, sid \in SessionId :
          sessions[h][sid].state = "OutgoingPending" /\ sessions'[h][sid] = NoSession =>
              sessions[h][sid].created > InviteMaxAge \/ Restart(h)]_vars

\* No invitation stays open for longer than its limit and one heartbeat: on
\* the inviter's side however often it is resent, on the invitee's side
\* however often it arrives again.
PendingLifetime ==
    \A h \in Host, sid \in SessionId :
        LET s == sessions[h][sid] IN
        /\ s.state = "OutgoingPending" => s.created <= InviteMaxAge + HeartbeatInterval
        /\ s.state = "IncomingPending" => s.created <= PruneAge + HeartbeatInterval

\* Every invitation is eventually answered or dropped, at both ends.
PendingResolved ==
    \A h \in Host, sid \in SessionId :
        Pending(sessions[h][sid]) ~> ~Pending(sessions[h][sid])

\* TESTING_GUIDE.md:426-464: after the invitee accepts, the inviter is told
\* and may write first.
AcceptanceReachesInviter ==
    \A h \in Host, sid \in SessionId :
        (/\ sessions[h][sid].state = "OutgoingPending"
         /\ \E r \in accepted : r.sid = sid /\ r.from = UserAt(h))
            ~> sessions[h][sid].state = "Active"
=============================================================================
