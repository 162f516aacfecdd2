-------------------------- MODULE ChatRoutingProofs --------------------------
(***************************************************************************)
(* Proofs about the way of a chat, for any processes, users, rooms and     *)
(* sessions, and any number of chats, each of which may arrive any number  *)
(* of times.                                                               *)
(***************************************************************************)
EXTENDS ChatRouting, TLAPS

\* These two are the ends of a session of this name.
Ends(g, h, name) == g # h /\ \E c \in Session : c.sid = name /\ c.ends = {g, h}

\* What the three services may hand to the network: a unicast goes to the other end of
\* the session in whose name it is.
Says(h, name, how, to) ==
    /\ Send(h, name, how, to)
    /\ UNCHANGED <<room, member, recv, shown>>
    /\ h \in Host /\ name \in RoomName
    /\ how \in {"broadcast", "multicast", "unicast"}
    /\ to \subseteq Host
    /\ how = "unicast" => \A g \in to : Ends(g, h, name)

\* A step is one of six.  Who is without a socket after a switch has no room, or that
\* which he had.
LEMMA Steps ==
  ASSUME TypeOK, [Next]_vars
  PROVE  \/ UNCHANGED vars
         \/ \E h, name, how, to : Says(h, name, how, to)
         \/ \E h \in Host, r \in Room \cup {NoRoom}, joined \in BOOLEAN :
               /\ SwitchTo(h, r, joined)
               /\ IF joined THEN r # NoRoom ELSE r \in {NoRoom, room[h]}
         \/ \E h \in Host, n \in 1..MaxSaid : Take(h, n)
         \/ \E h \in Host : PassOn(h) \/ ShowInGroup(h)
         \/ \E h \in Host : MatchRoom(h)
<1>1. ASSUME NEW h \in Host, SayInLobby(h)
      PROVE  Says(h, LobbyName, "broadcast", Host)
  BY <1>1 DEF SayInLobby, Says, RoomName
<1>2. ASSUME NEW h \in Host, SayInGroup(h)
      PROVE  Says(h, room[h], "multicast", {})
  BY <1>2 DEF SayInGroup, Says, TypeOK, RoomName
<1>3. ASSUME NEW h \in Host, NEW c \in Session, SayInPrivate(h, c)
      PROVE  \E g : Says(h, c.sid, "unicast", {g})
  <2>1. PICK g \in c.ends \ {h} : Send(h, c.sid, "unicast", {g})
    BY <1>3 DEF SayInPrivate
  <2>2. g \in Host /\ g # h /\ c.ends = {g, h}
    BY <1>3, RoomAssumption DEF SayInPrivate
  <2>3. c.sid \in RoomName
    BY DEF RoomName
  <2> QED
    BY <1>3, <2>1, <2>2, <2>3 DEF SayInPrivate, Says, Ends
<1>4. ASSUME NEW h \in Host, NEW r \in Room, EnterRoom(h, r)
      PROVE  SwitchTo(h, r, TRUE) /\ r # NoRoom
  BY <1>4, RoomAssumption DEF EnterRoom
<1>5. ASSUME NEW h \in Host, FailToJoin(h)
      PROVE  SwitchTo(h, room[h], FALSE) /\ room[h] \in Room \cup {NoRoom}
  BY <1>5 DEF FailToJoin, TypeOK
<1>6. CASE \E h \in Host : Main(h)
  BY <1>1, <1>2, <1>3, <1>4, <1>5, <1>6 DEF Main, LeaveRoom
<1> QED
  BY <1>6 DEF Next, Receiver

\* A new chat is the one that was said, and who is where is noted with it.
LEMMA SaysOne ==
  ASSUME TypeOK, NEW h, NEW name, NEW how, NEW to, Says(h, name, how, to)
  PROVE  /\ said' \in Seq(SentChat)
         /\ Len(said') = Len(said) + 1 /\ Len(said) + 1 \in 1..MaxSaid
         /\ said'[Len(said) + 1] = [by |-> h, room |-> name, how |-> how, to |-> to]
         /\ since'[Len(said) + 1] = Whereabouts(name)
         /\ \A n \in 1..Len(said) : said'[n] = said[n] /\ since'[n] = since[n]
<1> DEFINE chat == [by |-> h, room |-> name, how |-> how, to |-> to]
<1>1. said \in Seq(SentChat) /\ Len(said) \in Nat
  BY DEF TypeOK
<1>2. chat \in SentChat
  BY DEF SentChat, Says
<1>3. said' = Append(said, chat) /\ Len(said) < MaxSaid
  BY DEF Says, Send
<1> HIDE DEF chat
<1>4. /\ said' \in Seq(SentChat)
      /\ Len(said') = Len(said) + 1 /\ Len(said) + 1 \in 1..MaxSaid
      /\ said'[Len(said) + 1] = chat
      /\ \A n \in 1..Len(said) : said'[n] = said[n]
  BY <1>1, <1>2, <1>3, RoomAssumption
<1>5. /\ since'[Len(said) + 1] = Whereabouts(name)
      /\ \A n \in 1..Len(said) : since'[n] = since[n]
  <2>1. since' = [since EXCEPT ![Len(said) + 1] = Whereabouts(name)]
    BY DEF Says, Send
  <2>2. DOMAIN since = 1..MaxSaid
    BY DEF TypeOK
  <2> QED
    BY <1>1, <1>4, <2>1, <2>2, RoomAssumption
<1> QED
  BY <1>4, <1>5 DEF chat

\* Who comes into a room, or into the group, is noted with the chats said before.
LEMMA SwitchNotes ==
  ASSUME TypeOK, NEW h \in Host, NEW r \in Room \cup {NoRoom}, NEW joined \in BOOLEAN,
         SwitchTo(h, r, joined), NEW n \in 1..Len(said)
  PROVE  since'[n] = [group |-> since[n].group \cup member',
                      named |-> since[n].named \cup {g \in Host : room'[g] = said[n].room},
                      joined |-> since[n].joined \cup {g \in member' : room'[g] = said[n].room}]
<1>1. n \in 1..MaxSaid /\ n <= Len(said)
  BY RoomAssumption DEF TypeOK
<1>2. said' = said
  BY DEF SwitchTo
<1> DEFINE now == Whereabouts(said[n].room)'
<1>3. now = [group |-> member',
             named |-> {g \in Host : room'[g] = said[n].room},
             joined |-> {g \in member' : room'[g] = said[n].room}]
  BY <1>2 DEF Whereabouts
<1>4. since'[n] = [f \in DOMAIN now |-> since[n][f] \cup now[f]]
  BY <1>1 DEF SwitchTo
<1> HIDE DEF now
<1>5. DOMAIN now = {"group", "named", "joined"}
  BY <1>3
<1> QED
  BY <1>3, <1>4, <1>5

\* Chats are only added to the history, and what was noted of one is not lost.
LEMMA HistoryGrows ==
  ASSUME TypeOK, [Next]_vars
  PROVE  /\ said' \in Seq(SentChat) /\ Len(said) \in Nat
         /\ Len(said) <= Len(said') /\ Len(said') <= MaxSaid
         /\ \A n \in 1..Len(said) :
              /\ said'[n] = said[n]
              /\ since[n].group \subseteq since'[n].group
              /\ since[n].named \subseteq since'[n].named
              /\ since[n].joined \subseteq since'[n].joined
              /\ Reached(n) \subseteq Reached(n)'
<1>0. said \in Seq(SentChat) /\ Len(said) \in Nat /\ Len(said) <= MaxSaid
  BY DEF TypeOK
<1>1. ASSUME NEW h, NEW name, NEW how, NEW to, Says(h, name, how, to)
      PROVE  /\ said' \in Seq(SentChat)
             /\ Len(said) <= Len(said') /\ Len(said') <= MaxSaid
             /\ \A n \in 1..Len(said) : said'[n] = said[n] /\ since'[n] = since[n]
  <2>1. /\ said' \in Seq(SentChat)
        /\ Len(said') = Len(said) + 1 /\ Len(said) + 1 \in 1..MaxSaid
        /\ \A n \in 1..Len(said) : said'[n] = said[n] /\ since'[n] = since[n]
    BY <1>1, SaysOne
  <2> QED
    BY <1>0, <2>1, RoomAssumption
<1>2. ASSUME NEW h \in Host, NEW r \in Room \cup {NoRoom}, NEW joined \in BOOLEAN,
             SwitchTo(h, r, joined)
      PROVE  /\ said' = said
             /\ \A n \in 1..Len(said) :
                  /\ since[n].group \subseteq since'[n].group
                  /\ since[n].named \subseteq since'[n].named
                  /\ since[n].joined \subseteq since'[n].joined
  <2>1. said' = said
    BY <1>2 DEF SwitchTo
  <2>2. ASSUME NEW n \in 1..Len(said)
        PROVE  /\ since[n].group \subseteq since'[n].group
               /\ since[n].named \subseteq since'[n].named
               /\ since[n].joined \subseteq since'[n].joined
    <3>1. since'[n] = [group |-> since[n].group \cup member',
                       named |-> since[n].named \cup {g \in Host : room'[g] = said[n].room},
                       joined |-> since[n].joined \cup {g \in member' : room'[g] = said[n].room}]
      BY <1>2, <2>2, SwitchNotes
    <3> QED
      BY <3>1
  <2> QED
    BY <2>1, <2>2
<1>3. /\ said' \in Seq(SentChat)
      /\ Len(said) <= Len(said') /\ Len(said') <= MaxSaid
      /\ \A n \in 1..Len(said) :
           /\ said'[n] = said[n]
           /\ since[n].group \subseteq since'[n].group
           /\ since[n].named \subseteq since'[n].named
           /\ since[n].joined \subseteq since'[n].joined
  <2>1. CASE \E h, name, how, to : Says(h, name, how, to)
    <3>1. /\ said' \in Seq(SentChat)
          /\ Len(said) <= Len(said') /\ Len(said') <= MaxSaid
          /\ \A n \in 1..Len(said) : said'[n] = said[n] /\ since'[n] = since[n]
      BY <1>1, <2>1, Zenon
    <3> QED
      BY <3>1
  <2>2. CASE \E h \in Host, r \in Room \cup {NoRoom}, joined \in BOOLEAN : SwitchTo(h, r, joined)
    <3>1. /\ said' = said
          /\ \A n \in 1..Len(said) :
               /\ since[n].group \subseteq since'[n].group
               /\ since[n].named \subseteq since'[n].named
               /\ since[n].joined \subseteq since'[n].joined
      BY <1>2, <2>2, Zenon
    <3> QED
      BY <1>0, <3>1
  <2>3. CASE said' = said /\ since' = since
    BY <1>0, <2>3
  <2> QED
    BY <2>1, <2>2, <2>3, Steps DEF vars, Take, PassOn, MatchRoom, ShowInGroup
<1> QED
  BY <1>0, <1>3 DEF Reached

-----------------------------------------------------------------------------
(* Type correctness *)

Noted == [group : SUBSET Host, named : SUBSET Host, joined : SUBSET Host]

\* Nothing was said, and nobody is in a room.
LEMMA InitTypeOK == Init => TypeOK
<1> SUFFICES ASSUME Init PROVE TypeOK
  OBVIOUS
<1>1. said \in Seq(SentChat) /\ Len(said) = 0
  BY DEF Init
<1>2. recv \in [Host -> Routing]
  BY DEF Init, Routing
<1>3. shown \in [Host -> [1..MaxSaid -> SUBSET Label]]
  BY DEF Init
<1>4. since \in [1..MaxSaid -> Noted]
  BY DEF Init, Noted, Nobody
<1>5. room \in [Host -> Room \cup {NoRoom}] /\ member \subseteq {h \in Host : room[h] # NoRoom}
  BY DEF Init
<1> QED
  BY <1>1, <1>2, <1>3, <1>4, <1>5, RoomAssumption DEF TypeOK, Noted

\* A chat that is shown has these labels too.
LEMMA ShowType ==
  ASSUME TypeOK, NEW h \in Host, NEW n \in 1..MaxSaid, NEW labels \in SUBSET Label,
         Show(h, n, labels)
  PROVE  shown' \in [Host -> [1..MaxSaid -> SUBSET Label]]
<1>1. shown \in [Host -> [1..MaxSaid -> SUBSET Label]]
  BY DEF TypeOK
<1>2. shown' = [shown EXCEPT ![h][n] = shown[h][n] \cup labels]
  BY DEF Show
<1>3. shown[h][n] \cup labels \in SUBSET Label
  BY <1>1
<1> QED
  BY <1>1, <1>2, <1>3

\* What is being routed is a chat.
LEMMA RoutedType ==
  ASSUME TypeOK, NEW h \in Host, recv[h] # NoChat
  PROVE  recv[h].chat \in 1..MaxSaid /\ recv[h] = [at |-> recv[h].at, chat |-> recv[h].chat]
  BY DEF TypeOK, Routing

\* The end of routing: a group chat is shown as one, and what is for a session as a
\* private one.
LEMMA RoutingEnds ==
  ASSUME TypeOK, NEW h \in Host, PassOn(h) \/ ShowInGroup(h)
  PROVE  /\ recv[h] # NoChat /\ recv[h].chat \in 1..MaxSaid
         /\ recv' = [recv EXCEPT ![h] = NoChat]
         /\ UNCHANGED <<room, member, said, since>>
         /\ \E labels \in SUBSET Label :
              /\ Show(h, recv[h].chat, labels)
              /\ "lobby" \notin labels
              /\ "group" \in labels => recv[h].at = "show"
              /\ "private" \in labels => IsForSession(h, recv[h].chat)
<1>1. recv[h] # NoChat
  BY DEF PassOn, ShowInGroup, NoChat
<1>2. PICK before : /\ Direct(h, recv[h].chat, before)
                    /\ before = {} \/ (before = {"group"} /\ recv[h].at = "show")
  BY DEF PassOn, ShowInGroup
<1> DEFINE labels == before \cup {l \in {"private"} : IsForSession(h, recv[h].chat)}
<1>3. Show(h, recv[h].chat, labels) /\ recv' = [recv EXCEPT ![h] = NoChat]
  BY <1>2 DEF Direct
<1>4. /\ labels \in SUBSET Label /\ "lobby" \notin labels
      /\ "group" \in labels => recv[h].at = "show"
      /\ "private" \in labels => IsForSession(h, recv[h].chat)
  BY <1>2 DEF Label
<1> HIDE DEF labels
<1> QED
  BY <1>1, <1>3, <1>4, RoutedType DEF PassOn, ShowInGroup

\* Every step of every process keeps the types.
LEMMA NextTypeOK == TypeOK /\ [Next]_vars => TypeOK'
<1> SUFFICES ASSUME TypeOK, [Next]_vars PROVE TypeOK'
  OBVIOUS
<1>0. said' \in Seq(SentChat) /\ Len(said') <= MaxSaid
  BY HistoryGrows
<1>1. CASE UNCHANGED vars
  BY <1>1 DEF TypeOK, vars
<1>2. ASSUME NEW h, NEW name, NEW how, NEW to, Says(h, name, how, to)
      PROVE  TypeOK'
  <2>1. since' = [since EXCEPT ![Len(said) + 1] = Whereabouts(name)]
    BY <1>2 DEF Says, Send
  <2>2. Whereabouts(name) \in Noted
    BY DEF Whereabouts, Noted, TypeOK
  <2>3. since' \in [1..MaxSaid -> Noted]
    BY <2>1, <2>2 DEF TypeOK, Noted
  <2>4. UNCHANGED <<room, member, recv, shown>>
    BY <1>2 DEF Says
  <2> QED
    BY <1>0, <2>3, <2>4 DEF TypeOK, Noted
<1>3. ASSUME NEW h \in Host, NEW r \in Room \cup {NoRoom}, NEW joined \in BOOLEAN,
             SwitchTo(h, r, joined), IF joined THEN r # NoRoom ELSE r \in {NoRoom, room[h]}
      PROVE  TypeOK'
  <2>1. room' \in [Host -> Room \cup {NoRoom}] /\ room'[h] = r
    BY <1>3 DEF SwitchTo, TypeOK
  <2>2. member' \subseteq {g \in Host : room'[g] # NoRoom}
    BY <1>3 DEF SwitchTo, TypeOK
  <2>3. DOMAIN since' = 1..MaxSaid /\ since' = [n \in 1..MaxSaid |-> since'[n]]
    BY <1>3 DEF SwitchTo
  <2>4. \A n \in 1..MaxSaid : since'[n] \in Noted
    <3> SUFFICES ASSUME NEW n \in 1..MaxSaid PROVE since'[n] \in Noted
      OBVIOUS
    <3>1. since[n] \in Noted
      BY DEF TypeOK, Noted
    <3>2. CASE n \in 1..Len(said)
      <4>1. since'[n] =
               [group |-> since[n].group \cup member',
                named |-> since[n].named \cup {g \in Host : room'[g] = said[n].room},
                joined |-> since[n].joined \cup {g \in member' : room'[g] = said[n].room}]
        BY <1>3, <3>2, SwitchNotes
      <4>2. /\ since[n].group \cup member' \in SUBSET Host
            /\ since[n].named \cup {g \in Host : room'[g] = said[n].room} \in SUBSET Host
            /\ since[n].joined \cup {g \in member' : room'[g] = said[n].room} \in SUBSET Host
        BY <2>2, <3>1 DEF Noted
      <4> QED
        BY <4>1, <4>2 DEF Noted
    <3>3. CASE n \notin 1..Len(said)
      <4>1. n > Len(said)
        BY <3>3, RoomAssumption DEF TypeOK
      <4> QED
        BY <1>3, <3>1, <4>1 DEF SwitchTo
    <3> QED
      BY <3>2, <3>3
  <2>5. since' \in [1..MaxSaid -> Noted]
    BY <2>3, <2>4
  <2>6. UNCHANGED <<recv, shown>>
    BY <1>3 DEF SwitchTo
  <2> QED
    BY <1>0, <2>1, <2>2, <2>5, <2>6 DEF TypeOK, Noted
<1>4. ASSUME NEW h \in Host, NEW n \in 1..MaxSaid, Take(h, n)
      PROVE  TypeOK'
  <2>1. {label \in {"lobby"} : ShowsInLobby(h, n)} \in SUBSET Label
    BY DEF Label
  <2>2. shown' \in [Host -> [1..MaxSaid -> SUBSET Label]]
    BY <1>4, <2>1, ShowType DEF Take
  <2>3. recv' \in [Host -> Routing]
    BY <1>4 DEF Take, TypeOK, Routing
  <2>4. UNCHANGED <<room, member, since>>
    BY <1>4 DEF Take
  <2> QED
    BY <1>0, <2>2, <2>3, <2>4 DEF TypeOK
<1>5. ASSUME NEW h \in Host, PassOn(h) \/ ShowInGroup(h) PROVE TypeOK'
  <2>1. recv' = [recv EXCEPT ![h] = NoChat] /\ UNCHANGED <<room, member, since>>
    BY <1>5, RoutingEnds
  <2>2. recv' \in [Host -> Routing]
    BY <2>1 DEF TypeOK, Routing
  <2>3. PICK labels \in SUBSET Label : Show(h, recv[h].chat, labels)
    BY <1>5, RoutingEnds
  <2>4. recv[h].chat \in 1..MaxSaid
    BY <1>5, RoutingEnds
  <2>5. shown' \in [Host -> [1..MaxSaid -> SUBSET Label]]
    BY <2>3, <2>4, ShowType
  <2> QED
    BY <1>0, <2>1, <2>2, <2>5 DEF TypeOK
<1>6. ASSUME NEW h \in Host, MatchRoom(h) PROVE TypeOK'
  <2>0. recv[h] # NoChat
    BY <1>6 DEF MatchRoom, NoChat
  <2>1. recv[h].chat \in 1..MaxSaid
    BY <2>0, RoutedType
  <2>2. recv' = [recv EXCEPT ![h] = [at |-> "show", chat |-> recv[h].chat]]
    BY <1>6 DEF MatchRoom
  <2>3. recv' \in [Host -> Routing]
    BY <2>1, <2>2 DEF TypeOK, Routing
  <2>4. UNCHANGED <<room, member, since, shown>>
    BY <1>6 DEF MatchRoom
  <2> QED
    BY <1>0, <2>3, <2>4 DEF TypeOK
<1> QED
  BY <1>1, <1>2, <1>3, <1>4, <1>5, <1>6, Steps

\* The types are kept by every behaviour of the program.
THEOREM TypeCorrect == Spec => []TypeOK
  BY InitTypeOK, NextTypeOK, PTL DEF Spec

-----------------------------------------------------------------------------
(* Who was where when a chat came *)

\* Who has been in the group, and in a room, since a chat was said.  Who has been in the
\* group and is in the room of the chat has been there with its socket: he can keep the
\* name without one, but not come by it.  A unicast is on its way to the other end.
WhoWasThere ==
    /\ \A h \in Host, n \in 1..Len(said) :
          /\ h \in member => h \in since[n].group
          /\ room[h] = said[n].room => h \in since[n].named
          /\ room[h] = said[n].room /\ h \in since[n].group => h \in since[n].joined
    /\ \A n \in 1..Len(said) : said[n].how = "unicast" =>
          \A g \in said[n].to : Ends(g, said[n].by, said[n].room)

\* A process routes what has reached it; what it is about to show it found to be for its
\* room, and not from a user of its name.
RoutesWhatReached ==
    \A h \in Host : recv[h] # NoChat =>
        LET n == recv[h].chat IN
        /\ n \in 1..Len(said) /\ h \in Reached(n)
        /\ recv[h].at = "show" =>
              /\ h \in since[n].named
              /\ said[n].how = "multicast" => h \in since[n].joined
              /\ UserOf[said[n].by] # UserOf[h]

\* A chat was shown for a reason that lasts.
MayShow(h, n, label) ==
    /\ n \in 1..Len(said) /\ h \in Reached(n)
    /\ h # said[n].by
    /\ label = "lobby" => said[n].room = LobbyName
    /\ label = "group" => /\ h \in since[n].named
                          /\ said[n].how = "multicast" => h \in since[n].joined
    /\ label = "private" => AreEnds(h, n)

ShownRightly == \A h \in Host, n \in 1..MaxSaid : \A label \in shown[h][n] : MayShow(h, n, label)

RoutingInv == TypeOK /\ WhoWasThere /\ RoutesWhatReached /\ ShownRightly

\* There are no chats.
LEMMA InitRoutingInv == Init => RoutingInv
<1> SUFFICES ASSUME Init PROVE RoutingInv
  OBVIOUS
<1>1. Len(said) = 0
  BY DEF Init
<1>2. \A h \in Host : recv[h] = NoChat
  BY DEF Init
<1>3. \A h \in Host, n \in 1..MaxSaid : shown[h][n] = {}
  BY DEF Init
<1> QED
  BY <1>1, <1>2, <1>3, InitTypeOK DEF RoutingInv, WhoWasThere, RoutesWhatReached, ShownRightly

\* A chat finds who is there; who comes and goes is noted.
LEMMA NextWhoWasThere ==
  ASSUME TypeOK, WhoWasThere, [Next]_vars
  PROVE  WhoWasThere'
<1>0. Len(said) \in Nat /\ member \subseteq Host
  BY DEF TypeOK
<1>1. CASE UNCHANGED <<room, member, said, since>>
  BY <1>1 DEF WhoWasThere
<1>2. ASSUME NEW by, NEW name, NEW how, NEW to, Says(by, name, how, to)
      PROVE  WhoWasThere'
  <2>1. /\ Len(said') = Len(said) + 1
        /\ said'[Len(said) + 1] = [by |-> by, room |-> name, how |-> how, to |-> to]
        /\ since'[Len(said) + 1] = Whereabouts(name)
        /\ \A n \in 1..Len(said) : said'[n] = said[n] /\ since'[n] = since[n]
    BY <1>2, SaysOne
  <2>2. room' = room /\ member' = member
    BY <1>2 DEF Says
  <2>3. \A n \in 1..Len(said') : n \in 1..Len(said) \/ n = Len(said) + 1
    BY <1>0, <2>1
  <2>4. ASSUME NEW h \in Host, NEW n \in 1..Len(said')
        PROVE  /\ h \in member' => h \in since'[n].group
               /\ room'[h] = said'[n].room => h \in since'[n].named
               /\ room'[h] = said'[n].room /\ h \in since'[n].group => h \in since'[n].joined
    <3>1. CASE n \in 1..Len(said)
      BY <2>1, <2>2, <3>1 DEF WhoWasThere
    <3>2. CASE n = Len(said) + 1
      <4>1. /\ since'[n] = [group |-> member,
                            named |-> {g \in Host : room[g] = name},
                            joined |-> {g \in member : room[g] = name}]
            /\ said'[n].room = name
        BY <2>1, <3>2 DEF Whereabouts
      <4> QED
        BY <2>2, <4>1
    <3> QED
      BY <2>3, <3>1, <3>2
  <2>5. ASSUME NEW n \in 1..Len(said'), said'[n].how = "unicast", NEW g \in said'[n].to
        PROVE  Ends(g, said'[n].by, said'[n].room)
    <3>1. CASE n \in 1..Len(said)
      BY <2>1, <2>5, <3>1 DEF WhoWasThere
    <3>2. CASE n = Len(said) + 1
      <4>1. said'[n] = [by |-> by, room |-> name, how |-> how, to |-> to]
        BY <2>1, <3>2
      <4> QED
        BY <1>2, <2>5, <4>1 DEF Says
    <3> QED
      BY <2>3, <3>1, <3>2
  <2> QED
    BY <2>4, <2>5 DEF WhoWasThere, Ends
<1>3. ASSUME NEW g \in Host, NEW r \in Room \cup {NoRoom}, NEW joined \in BOOLEAN,
             SwitchTo(g, r, joined), IF joined THEN r # NoRoom ELSE r \in {NoRoom, room[g]}
      PROVE  WhoWasThere'
  <2>1. /\ said' = said /\ room' = [room EXCEPT ![g] = r]
        /\ member' = IF joined THEN member \cup {g} ELSE member \ {g}
    BY <1>3 DEF SwitchTo
  <2>2. ASSUME NEW h \in Host, NEW n \in 1..Len(said)
        PROVE  /\ h \in member' => h \in since'[n].group
               /\ room'[h] = said[n].room => h \in since'[n].named
               /\ room'[h] = said[n].room /\ h \in since'[n].group => h \in since'[n].joined
    <3>1. since'[n] =
             [group |-> since[n].group \cup member',
              named |-> since[n].named \cup {f \in Host : room'[f] = said[n].room},
              joined |-> since[n].joined \cup {f \in member' : room'[f] = said[n].room}]
      BY <1>3, <2>2, SwitchNotes
    <3>2. ASSUME room'[h] = said[n].room, h \in since'[n].group, h \notin member'
          PROVE  room[h] = said[n].room /\ h \in since[n].group
      <4>1. h \in since[n].group
        BY <3>1, <3>2
      <4>2. CASE h # g
        BY <2>1, <3>2, <4>1, <4>2 DEF TypeOK
      <4>3. CASE h = g
        <5>1. ~joined
          <6>1. joined => member' = member \cup {g}
            BY <2>1
          <6> QED
            BY <3>2, <4>3, <6>1
        <5>2. room'[h] = r
          BY <2>1, <4>3 DEF TypeOK
        <5>3. said[n].room # NoRoom
          <6>1. said[n].room \in RoomName
            <7>1. said[n] \in SentChat
              BY <2>2 DEF TypeOK
            <7> QED
              BY <7>1 DEF SentChat
          <6>2. NoRoom \notin RoomName
            BY RoomAssumption DEF RoomName
          <6> QED
            BY <6>1, <6>2
        <5> QED
          BY <1>3, <3>2, <4>1, <4>3, <5>1, <5>3, <5>2
      <4> QED
        BY <4>2, <4>3
    <3>3. room[h] = said[n].room /\ h \in since[n].group => h \in since[n].joined
      BY DEF WhoWasThere
    <3> QED
      BY <3>1, <3>2, <3>3
  <2> QED
    BY <2>1, <2>2 DEF WhoWasThere, Ends
<1> QED
  BY <1>1, <1>2, <1>3, Steps, RoutingEnds DEF vars, Take, MatchRoom

\* The receiver takes what has reached its process, and compares the active room with
\* that of the chat while it is locked.
LEMMA NextRoutesWhatReached ==
  ASSUME TypeOK, WhoWasThere, RoutesWhatReached, [Next]_vars
  PROVE  RoutesWhatReached'
<1>0. /\ Len(said) \in Nat /\ Len(said) <= Len(said') /\ Len(said') \in Nat
      /\ \A n \in 1..Len(said) : /\ said'[n] = said[n]
                                 /\ since[n].named \subseteq since'[n].named
                                 /\ since[n].joined \subseteq since'[n].joined
                                 /\ Reached(n) \subseteq Reached(n)'
  BY HistoryGrows
<1> DEFINE Good(h, at, n) ==
      /\ n \in 1..Len(said) /\ h \in Reached(n)
      /\ at = "show" => /\ h \in since[n].named
                        /\ said[n].how = "multicast" => h \in since[n].joined
                        /\ UserOf[said[n].by] # UserOf[h]
<1>1. \A h \in Host : recv[h] # NoChat => Good(h, recv[h].at, recv[h].chat)
  BY DEF RoutesWhatReached
<1>2. ASSUME NEW h \in Host, recv'[h] # NoChat
      PROVE  Good(h, recv'[h].at, recv'[h].chat)
  <2>1. ASSUME NEW g \in Host, NEW n \in 1..MaxSaid, Take(g, n)
        PROVE  Good(h, recv'[h].at, recv'[h].chat)
    <3>1. /\ recv' = [recv EXCEPT ![g] = [at |-> "group", chat |-> n]]
          /\ n \in 1..Len(said) /\ g \in Reached(n)
      BY <2>1 DEF Take
    <3>2. CASE g = h
      <4>1. recv'[h] = [at |-> "group", chat |-> n]
        BY <3>1, <3>2 DEF TypeOK
      <4> QED
        BY <3>1, <3>2, <4>1
    <3>3. CASE g # h
      <4>1. recv'[h] = recv[h]
        BY <3>1, <3>3 DEF TypeOK
      <4> QED
        BY <1>1, <1>2, <4>1
    <3> QED
      BY <3>2, <3>3
  <2>2. ASSUME NEW g \in Host, PassOn(g) \/ ShowInGroup(g)
        PROVE  Good(h, recv'[h].at, recv'[h].chat)
    <3>1. recv' = [recv EXCEPT ![g] = NoChat]
      BY <2>2, RoutingEnds
    <3>2. recv'[h] = recv[h]
      BY <1>2, <3>1 DEF TypeOK
    <3> QED
      BY <1>1, <1>2, <3>2
  <2>3. ASSUME NEW g \in Host, MatchRoom(g)
        PROVE  Good(h, recv'[h].at, recv'[h].chat)
    <3>1. /\ recv' = [recv EXCEPT ![g] = [at |-> "show", chat |-> recv[g].chat]]
          /\ IsForGroup(g, recv[g].chat)
      BY <2>3 DEF MatchRoom
    <3>2. CASE g = h
      <4>1. recv'[h] = [at |-> "show", chat |-> recv[h].chat]
        BY <3>1, <3>2 DEF TypeOK
      <4>2. recv[h] # NoChat
        BY <2>3, <3>2 DEF MatchRoom, NoChat
      <4>3. recv[h].chat \in 1..Len(said) /\ h \in Reached(recv[h].chat)
        BY <1>1, <4>2
      <4>4. room[h] = said[recv[h].chat].room /\ UserOf[said[recv[h].chat].by] # UserOf[h]
        BY <3>1, <3>2 DEF IsForGroup
      <4>5. /\ h \in since[recv[h].chat].named
            /\ said[recv[h].chat].how = "multicast" => h \in since[recv[h].chat].joined
        BY <4>3, <4>4 DEF WhoWasThere, Reached
      <4> QED
        BY <4>1, <4>3, <4>4, <4>5
    <3>3. CASE g # h
      <4>1. recv'[h] = recv[h]
        BY <3>1, <3>3 DEF TypeOK
      <4> QED
        BY <1>1, <1>2, <4>1
    <3> QED
      BY <3>2, <3>3
  <2>4. CASE recv' = recv
    BY <1>1, <1>2, <2>4
  <2> HIDE DEF Good
  <2> QED
    BY <2>1, <2>2, <2>3, <2>4, Steps DEF vars, Says, SwitchTo
<1>3. ASSUME NEW h \in Host, NEW at, NEW n, Good(h, at, n)
      PROVE  Good(h, at, n)'
  BY <1>0, <1>3
<1> QED
  BY <1>2, <1>3 DEF RoutesWhatReached

\* What was shown keeps its reason.
LEMMA MayShowLasts ==
  ASSUME TypeOK, [Next]_vars, NEW h \in Host, NEW n, NEW label, MayShow(h, n, label)
  PROVE  MayShow(h, n, label)'
<1>1. n \in 1..Len(said)
  BY DEF MayShow
<1>2. /\ Len(said) \in Nat /\ Len(said) <= Len(said') /\ Len(said') \in Nat
      /\ said'[n] = said[n]
      /\ since[n].named \subseteq since'[n].named
      /\ since[n].joined \subseteq since'[n].joined
      /\ Reached(n) \subseteq Reached(n)'
  BY <1>1, HistoryGrows
<1>3. n \in 1..Len(said')
  BY <1>1, <1>2
<1>4. AreEnds(h, n) => AreEnds(h, n)'
  BY <1>2 DEF AreEnds
<1> QED
  BY <1>2, <1>3, <1>4 DEF MayShow

\* Each of the three labels is given for its reason.
LEMMA NextShownRightly ==
  ASSUME TypeOK, RoutesWhatReached, ShownRightly, [Next]_vars
  PROVE  ShownRightly'
<1>1. ASSUME NEW h \in Host, NEW n \in 1..MaxSaid, NEW label \in shown'[h][n]
      PROVE  MayShow(h, n, label)
  <2>0. label \in shown'[h][n]
    OBVIOUS
  <2>1. CASE label \in shown[h][n]
    BY <2>1 DEF ShownRightly
  <2>2. ASSUME label \notin shown[h][n], NEW g \in Host, NEW m \in 1..MaxSaid, Take(g, m)
        PROVE  MayShow(h, n, label)
    <3> DEFINE labels == {l \in {"lobby"} : ShowsInLobby(g, m)}
    <3>1. Show(g, m, labels) /\ m \in 1..Len(said) /\ g \in Reached(m)
      BY <2>2 DEF Take
    <3>2. labels \in SUBSET Label
      BY DEF Label
    <3>3. label \in labels => label = "lobby" /\ ShowsInLobby(g, m)
      OBVIOUS
    <3> HIDE DEF labels
    <3>4. \A f \in Host, k \in 1..MaxSaid :
             shown'[f][k] = IF f = g /\ k = m THEN shown[f][k] \cup labels ELSE shown[f][k]
      BY <3>1 DEF TypeOK, Show
    <3>5. h = g /\ n = m /\ label \in labels
      BY <2>0, <2>2, <3>4
    <3> QED
      BY <3>1, <3>3, <3>5 DEF MayShow, ShowsInLobby
  <2>3. ASSUME label \notin shown[h][n], NEW g \in Host, PassOn(g) \/ ShowInGroup(g)
        PROVE  MayShow(h, n, label)
    <3>1. recv[g] # NoChat /\ recv[g].chat \in 1..MaxSaid
      BY <2>3, RoutingEnds
    <3>2. PICK labels \in SUBSET Label :
             /\ Show(g, recv[g].chat, labels)
             /\ "lobby" \notin labels
             /\ "group" \in labels => recv[g].at = "show"
             /\ "private" \in labels => IsForSession(g, recv[g].chat)
      BY <2>3, RoutingEnds
    <3>3. \A f \in Host, k \in 1..MaxSaid :
             shown'[f][k] = IF f = g /\ k = recv[g].chat THEN shown[f][k] \cup labels
                                                        ELSE shown[f][k]
      BY <3>2 DEF TypeOK, Show
    <3>4. h = g /\ n = recv[g].chat /\ label \in labels
      BY <2>0, <2>3, <3>3
    <3>5. /\ n \in 1..Len(said) /\ h \in Reached(n)
          /\ recv[h].at = "show" => /\ h \in since[n].named
                                    /\ said[n].how = "multicast" => h \in since[n].joined
                                    /\ UserOf[said[n].by] # UserOf[h]
      BY <3>1, <3>4 DEF RoutesWhatReached
    <3>6. CASE label = "group"
      BY <3>2, <3>4, <3>5, <3>6 DEF MayShow
    <3>7. CASE label = "private"
      BY <3>2, <3>4, <3>5, <3>7 DEF MayShow, IsForSession, AreEnds
    <3> QED
      BY <3>2, <3>4, <3>6, <3>7 DEF Label
  <2>4. CASE shown' = shown
    BY <1>1, <2>1, <2>4
  <2> QED
    BY <2>1, <2>2, <2>3, <2>4, Steps DEF vars, Says, SwitchTo, MatchRoom
<1> QED
  BY <1>1, MayShowLasts DEF ShownRightly

\* The invariant is inductive.
LEMMA NextRoutingInv == RoutingInv /\ [Next]_vars => RoutingInv'
<1> SUFFICES ASSUME RoutingInv, [Next]_vars PROVE RoutingInv'
  OBVIOUS
<1>1. TypeOK /\ WhoWasThere /\ RoutesWhatReached /\ ShownRightly
  BY DEF RoutingInv
<1>2. TypeOK'
  BY <1>1, NextTypeOK
<1>3. WhoWasThere'
  BY <1>1, NextWhoWasThere
<1>4. RoutesWhatReached'
  BY <1>1, NextRoutesWhatReached
<1>5. ShownRightly'
  BY <1>1, NextShownRightly
<1> QED
  BY <1>2, <1>3, <1>4, <1>5 DEF RoutingInv

\* In every reachable state.
LEMMA RoutingInvHolds == Spec => []RoutingInv
  BY InitRoutingInv, NextRoutingInv, PTL DEF Spec

-----------------------------------------------------------------------------
(* What is shown, and where *)

\* A chat is by a process, and shown rightly.
LEMMA ShownMeans ==
  ASSUME RoutingInv, NEW n \in 1..Len(said)
  PROVE  /\ said[n].by \in Host
         /\ \A h \in Host : \A label \in shown[h][n] : MayShow(h, n, label)
<1>1. n \in 1..MaxSaid
  BY RoomAssumption DEF RoutingInv, TypeOK
<1>2. said[n] \in SentChat
  BY DEF RoutingInv, TypeOK
<1> QED
  BY <1>1, <1>2 DEF RoutingInv, ShownRightly, SentChat

\* No broadcast, no multicast and no unicast makes a process show its own chat.
THEOREM NobodyIsEchoed == Spec => []NeverEchoed
<1>1. RoutingInv => NeverEchoed
  <2> SUFFICES ASSUME RoutingInv, NEW n \in 1..Len(said)
               PROVE  shown[said[n].by][n] = {}
    BY DEF NeverEchoed
  <2>1. said[n].by \in Host
    BY ShownMeans
  <2>2. \A label \in shown[said[n].by][n] : MayShow(said[n].by, n, label)
    BY <2>1, ShownMeans
  <2> QED
    BY <2>2 DEF MayShow
<1> QED
  BY <1>1, RoutingInvHolds, PTL

\* The chat of an open room is shown as a group chat only by a process that has been in
\* that room, with its socket, since it was said.
THEOREM ShownToMembers == Spec => []MembersOnly
<1>1. RoutingInv => MembersOnly
  BY ShownMeans DEF MembersOnly, MayShow
<1> QED
  BY <1>1, RoutingInvHolds, PTL

\* What was said in a closed room, and what is shown as said in one, is shown at the
\* other end of a session of that name.
THEOREM ShownToTheOtherEnd == Spec => []PrivateBetweenEnds
<1>1. RoutingInv => PrivateBetweenEnds
  <2> SUFFICES ASSUME RoutingInv, NEW h \in Host, NEW n \in 1..Len(said),
                      "private" \in shown[h][n] \/ (said[n].how = "unicast" /\ shown[h][n] # {})
               PROVE  AreEnds(h, n)
    BY DEF PrivateBetweenEnds
  <2>1. CASE "private" \in shown[h][n]
    BY <2>1, ShownMeans DEF MayShow
  <2>2. CASE said[n].how = "unicast" /\ shown[h][n] # {}
    <3>1. h \in said[n].to
      BY <2>2, ShownMeans DEF MayShow, Reached
    <3>2. Ends(h, said[n].by, said[n].room)
      BY <2>2, <3>1 DEF RoutingInv, WhoWasThere
    <3> QED
      BY <3>2 DEF Ends, AreEnds
  <2> QED
    BY <2>1, <2>2
<1> QED
  BY <1>1, RoutingInvHolds, PTL

\* A chat is shown as what it was not said as only where it has come and where its room
\* is called like the lobby, or like a room that the process has been in since.
THEOREM CrosstalkNeedsTheName == Spec => []CrosstalkContained
<1>1. RoutingInv => CrosstalkContained
  <2> SUFFICES ASSUME RoutingInv, NEW h \in Host, NEW n \in 1..Len(said),
                      NEW label \in shown[h][n]
               PROVE  /\ h \in Reached(n)
                      /\ label = "lobby" => said[n].room = LobbyName
                      /\ label = "group" => h \in since[n].named
    BY DEF CrosstalkContained
  <2> QED
    BY ShownMeans DEF MayShow
<1> QED
  BY <1>1, RoutingInvHolds, PTL
=============================================================================
