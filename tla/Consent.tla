------------------------------- MODULE Consent -------------------------------
(***************************************************************************)
(* What the closed rooms promise their users.  A user is a name on a       *)
(* machine.  A conversation opens at one end when its user says yes to     *)
(* somebody who asked for that user by name, and at the other end, of the  *)
(* one who asked, when a chat with its id arrives from the one he asked    *)
(* for.  Only what is open is written to, and what is open stays so, with  *)
(* the same peer, until the process ends.                                  *)
(*                                                                         *)
(* There are no sessions, timers, resends or threads here, and no          *)
(* invitation is ever on its way: DirectMessage shows how they bring it    *)
(* about.                                                                  *)
(***************************************************************************)

CONSTANTS Host, Name, SessionId

VARIABLES
    user,      \* user[h]: the name of the one who runs on h
    asked,     \* the invitations users asked for
    accepted,  \* the invitations users said yes to
    open,      \* open[h]: the conversations that the user of h may write to
    chats      \* the chats on their way

vars == <<user, asked, accepted, open, chats>>

User == [addr : Host, name : Name]
Me(h) == [addr |-> h, name |-> user[h]]
Author(m) == [addr |-> m.src, name |-> m.user]

Conversation(sid, p) == [sid |-> sid, peer |-> p]
Free(h, sid) == \A c \in open[h] : c.sid # sid

Init ==
    /\ user \in [Host -> Name]
    /\ asked = {}
    /\ accepted = {}
    /\ open = [h \in Host |-> {}]
    /\ chats = {}

\* The user of h asks for somebody else, called n.
Ask(h, sid, n) ==
    /\ n # user[h]
    /\ asked' = asked \cup {[sid |-> sid, from |-> Me(h), to |-> n]}
    /\ UNCHANGED <<user, accepted, open, chats>>

\* The user of h says yes to p, who asked for a user of that name.
Answer(h, sid, p) ==
    /\ [sid |-> sid, from |-> p, to |-> user[h]] \in asked
    /\ Free(h, sid)
    /\ accepted' = accepted \cup {[sid |-> sid, by |-> Me(h), from |-> p]}
    /\ open' = [open EXCEPT ![h] = @ \cup {Conversation(sid, p)}]
    /\ UNCHANGED <<user, asked, chats>>

Say(h, sid, p) ==
    /\ Conversation(sid, p) \in open[h]
    /\ chats' = chats \cup {[type |-> "CHAT", sid |-> sid, user |-> user[h],
                             src |-> h, dst |-> p.addr]}
    /\ UNCHANGED <<user, asked, accepted, open>>

\* The chat arrives, and may do so again.  At the one who asked for its author
\* it opens the conversation.
Hear(h, m) ==
    /\ m.dst = h
    /\ chats' \in {chats, chats \ {m}}
    /\ \/ UNCHANGED open
       \/ /\ [sid |-> m.sid, from |-> Me(h), to |-> m.user] \in asked
          /\ Free(h, m.sid)
          /\ open' = [open EXCEPT ![h] = @ \cup {Conversation(m.sid, Author(m))}]
    /\ UNCHANGED <<user, asked, accepted>>

\* The process on h ends; the next one there may be another user's.
End(h) ==
    /\ \E n \in Name : user' = [user EXCEPT ![h] = n]
    /\ open' = [open EXCEPT ![h] = {}]
    /\ UNCHANGED <<asked, accepted, chats>>

Next ==
    \E h \in Host :
        \/ \E sid \in SessionId, n \in Name : Ask(h, sid, n)
        \/ \E sid \in SessionId, p \in User : Answer(h, sid, p) \/ Say(h, sid, p)
        \/ \E m \in chats : Hear(h, m)
        \/ End(h)

Spec == Init /\ [][Next]_vars
=============================================================================
