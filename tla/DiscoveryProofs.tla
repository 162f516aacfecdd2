--------------------------- MODULE DiscoveryProofs ---------------------------
(***************************************************************************)
(* Proofs about the directory of users, for any machines, names, addresses *)
(* and limits that keep the assumptions of Discovery.                      *)
(***************************************************************************)
EXTENDS Discovery, TLAPS

\* Growing older by a tick keeps an age an age, and adds at most the tick.
LEMMA OlderAge ==
  ASSUME NEW age \in 0..AgeCap
  PROVE  Older(age) \in 0..AgeCap /\ Older(age) <= age + Tick
  BY TimeAssumption DEF Older

\* An entry that grows older keeps its address, and its age grows by at most a tick.
LEMMA OlderEntry ==
  ASSUME NEW e \in Entry
  PROVE  /\ [e EXCEPT !.age = Older(@)] \in Entry
         /\ [e EXCEPT !.age = Older(@)].addr = e.addr
         /\ [e EXCEPT !.age = Older(@)].age <= e.age + Tick
<1>1. e.age \in 0..AgeCap
  BY DEF Entry
<1>2. Older(e.age) \in 0..AgeCap /\ Older(e.age) <= e.age + Tick
  BY <1>1, OlderAge
<1>3. [e EXCEPT !.age = Older(@)] = [addr |-> e.addr, age |-> Older(e.age)]
  BY DEF Entry
<1> QED
  BY <1>2, <1>3 DEF Entry

\* The heartbeat's sleep is counted in ticks, of which its interval is a number.
Ticks == \A h \in Host : \E j \in Nat : slept[h] = j * Tick

\* So a sleep that is not over has at least a tick to go.
LEMMA TickLeft ==
  ASSUME NEW s \in Nat, s < HeartbeatInterval, NEW j \in Nat, s = j * Tick
  PROVE  s + Tick <= HeartbeatInterval /\ s + Tick = (j + 1) * Tick
<1>1. PICK k \in 0..HeartbeatInterval : HeartbeatInterval = k * Tick
  BY TimeAssumption
<1>2. k \in Nat /\ Tick \in Nat /\ Tick > 0
  BY <1>1, TimeAssumption
<1>3. (j + 1) * Tick = s + Tick
  BY <1>2
<1>4. j < k
  <2>1. SUFFICES ASSUME k <= j PROVE FALSE
    BY <1>2
  <2>2. PICK d \in Nat : j = k + d
    <3>1. j - k \in Nat /\ j = k + (j - k)
      BY <1>2, <2>1
    <3> QED
      BY <3>1
  <2>3. j * Tick = k * Tick + d * Tick /\ d * Tick >= 0
    BY <1>2, <2>2
  <2> QED
    BY <1>1, <2>3, TimeAssumption
<1>5. PICK d \in Nat : k = (j + 1) + d
  <2>1. k - (j + 1) \in Nat /\ k = (j + 1) + (k - (j + 1))
    BY <1>2, <1>4
  <2> QED
    BY <2>1
<1>6. k * Tick = (j + 1) * Tick + d * Tick /\ d * Tick >= 0
  BY <1>2, <1>5
<1> QED
  BY <1>1, <1>2, <1>3, <1>6, TimeAssumption

-----------------------------------------------------------------------------
(* Type correctness *)

\* No machine starts with an entry, a datagram or a heartbeat under way.
LEMMA InitTypeOK == Init => TypeOK
<1> SUFFICES ASSUME Init PROVE TypeOK
  OBVIOUS
<1>1. 0 \in 0..HeartbeatInterval /\ 0 \in 0..MaxDelay /\ 0 \in Nat
  BY TimeAssumption
<1>2. ip \in [Host -> Address]
  BY HostAssumption DEF Init
<1> QED
  BY <1>1, <1>2 DEF Init, TypeOK

\* What is announced is a presence of the announcing machine.
LEMMA BroadcastType ==
  ASSUME TypeOK, NEW h \in Host, NEW user \in Name, NEW addr \in Address,
         NEW reached \in SUBSET Host
  PROVE  Broadcast(h, user, addr, reached) \subseteq Presence
  BY DEF TypeOK, Broadcast, Presence

\* Those that announced themselves are machines.
LEMMA UnheardType ==
  ASSUME TypeOK, NEW h \in Host
  PROVE  Unheard(h) \in [Host -> SUBSET Host]
  BY DEF TypeOK, Unheard

\* Only ticks are added to a sleep.
LEMMA NextTicks == TypeOK /\ Ticks /\ [Next]_vars => Ticks'
<1> SUFFICES ASSUME TypeOK, Ticks, [Next]_vars, NEW h \in Host
             PROVE  \E j \in Nat : slept'[h] = j * Tick
  BY DEF Ticks
<1>1. PICK j \in Nat : slept[h] = j * Tick
  BY DEF Ticks
<1>2. \/ slept'[h] = slept[h]
      \/ slept'[h] = 0
      \/ slept'[h] = slept[h] + Tick /\ slept[h] < HeartbeatInterval
  BY DEF TypeOK, Next, Heartbeat, Start, Stop, Announce, ReadClock, PruneStale, OnPresence,
         Pass, vars
<1>3. CASE slept'[h] = slept[h]
  BY <1>1, <1>3
<1>4. CASE slept'[h] = 0
  <2>1. 0 = 0 * Tick
    BY TimeAssumption
  <2> QED
    BY <1>4, <2>1
<1>5. CASE slept'[h] = slept[h] + Tick /\ slept[h] < HeartbeatInterval
  <2>1. slept[h] \in Nat
    BY TimeAssumption DEF TypeOK
  <2>2. slept[h] + Tick = (j + 1) * Tick
    BY <1>1, <1>5, <2>1, TickLeft
  <2> QED
    BY <1>5, <2>2
<1> QED
  BY <1>2, <1>3, <1>4, <1>5

\* What is heard makes an entry of the sender under his name, and no other.
LEMMA EnteredType ==
  ASSUME TypeOK, NEW h \in Host, NEW m \in net
  PROVE  /\ Entered(h, m) \in [Name -> Entry \cup {NoPeer}]
         /\ m.user \in Name
         /\ [addr |-> m.src, age |-> 0] \in Entry
         /\ \A n \in Name : Entered(h, m)[n] =
               IF n = m.user THEN [addr |-> m.src, age |-> 0] ELSE peers[h][n]
<1>1. m.user \in Name /\ m.src \in Host
  BY DEF TypeOK, Presence
<1>2. [addr |-> m.src, age |-> 0] \in Entry
  BY <1>1, TimeAssumption DEF Entry
<1> DEFINE new == [addr |-> m.src, age |-> 0]
<1>3. Entered(h, m) = [peers[h] EXCEPT ![m.user] = new] /\ new \in Entry
  BY <1>2 DEF Entered
<1> HIDE DEF new
<1>4. /\ Entered(h, m) \in [Name -> Entry \cup {NoPeer}]
      /\ \A n \in Name : Entered(h, m)[n] = IF n = m.user THEN new ELSE peers[h][n]
  BY <1>1, <1>3 DEF TypeOK
<1> QED
  BY <1>1, <1>2, <1>4 DEF new

\* A datagram that arrives changes only its receiver's directory: what it says is
\* entered, and what is stale then goes.
LEMMA PresenceStep ==
  ASSUME TypeOK, NEW g \in Host, NEW m \in net, OnPresence(g, m),
         NEW h \in Host, NEW n \in Name
  PROVE  \/ peers'[h][n] = peers[h][n]
         \/ h = g /\ Accepted(g, m) /\ m.user = n /\ peers'[h][n] = [addr |-> m.src, age |-> 0]
         \/ peers'[h][n] = NoPeer
<1>1. PICK late \in Waits :
         \/ Accepted(g, m) /\ peers' = [peers EXCEPT ![g] = Pruned(Entered(g, m), late)]
         \/ ~Accepted(g, m) /\ peers' = [peers EXCEPT ![g] = Pruned(peers[g], late)]
  BY DEF OnPresence
<1>2. late \in Nat /\ StaleAge \in Nat
  BY TimeAssumption DEF Waits
<1>3. CASE h # g
  BY <1>1, <1>3 DEF TypeOK
<1>4. CASE h = g /\ Accepted(g, m) /\ m.user = n
  <2>1. Entered(g, m)[n] = [addr |-> m.src, age |-> 0]
    BY <1>4, EnteredType
  <2>2. ~Stale([addr |-> m.src, age |-> 0], late)
    BY <1>2 DEF Stale
  <2>3. peers'[h][n] = IF Stale(Entered(g, m)[n], late) THEN NoPeer ELSE Entered(g, m)[n]
    BY <1>1, <1>4 DEF TypeOK, Pruned
  <2> QED
    BY <1>4, <2>1, <2>2, <2>3
<1>5. CASE h = g /\ ~(Accepted(g, m) /\ m.user = n)
  <2>1. Accepted(g, m) => Entered(g, m)[n] = peers[h][n]
    BY <1>5, EnteredType
  <2>2. peers'[h][n] = IF Stale(peers[h][n], late) THEN NoPeer ELSE peers[h][n]
    BY <1>1, <1>5, <2>1 DEF TypeOK, Pruned
  <2> QED
    BY <2>2
<1> QED
  BY <1>3, <1>4, <1>5

\* What it takes from its receiver's directory was stale.
LEMMA PresenceDrops ==
  ASSUME TypeOK, NEW g \in Host, NEW m \in net, OnPresence(g, m),
         NEW h \in Host, NEW n \in Name, peers[h][n] # NoPeer, peers'[h][n] = NoPeer
  PROVE  peers[h][n].age > StaleAge
<1>1. PICK late \in Waits :
         \/ peers' = [peers EXCEPT ![g] = Pruned(Entered(g, m), late)]
         \/ peers' = [peers EXCEPT ![g] = Pruned(peers[g], late)]
  BY DEF OnPresence
<1>2. late \in Nat /\ StaleAge \in Nat /\ peers[h][n].age \in Nat
  BY TimeAssumption DEF Waits, TypeOK, Entry
<1> DEFINE new == [addr |-> m.src, age |-> 0]
<1>3. Entered(g, m)[n] = IF n = m.user THEN new ELSE peers[g][n]
  BY EnteredType
<1>4. ~Stale(new, late) /\ new # NoPeer
  BY <1>2, EnteredType, HostAssumption DEF Stale, Entry
<1> HIDE DEF new
<1>5. h = g
  BY <1>1 DEF TypeOK
<1>6. \/ NoPeer = (IF Stale(Entered(g, m)[n], late) THEN NoPeer ELSE Entered(g, m)[n])
      \/ NoPeer = (IF Stale(peers[g][n], late) THEN NoPeer ELSE peers[g][n])
  BY <1>1, <1>5 DEF TypeOK, Pruned
<1>7. Stale(peers[h][n], late)
  BY <1>3, <1>4, <1>5, <1>6
<1> QED
  BY <1>2, <1>7 DEF Stale

\* So whoever is heard is listed as just heard.
LEMMA PresenceHeard ==
  ASSUME TypeOK, NEW h \in Host, NEW m \in net, OnPresence(h, m), Accepted(h, m)
  PROVE  peers'[h][m.user] = [addr |-> m.src, age |-> 0]
<1>1. PICK late \in Waits : peers' = [peers EXCEPT ![h] = Pruned(Entered(h, m), late)]
  BY DEF OnPresence
<1>2. late \in Nat /\ StaleAge \in Nat
  BY TimeAssumption DEF Waits
<1>3. m.user \in Name /\ Entered(h, m)[m.user] = [addr |-> m.src, age |-> 0]
  BY EnteredType
<1>4. ~Stale([addr |-> m.src, age |-> 0], late)
  BY <1>2 DEF Stale
<1> QED
  BY <1>1, <1>3, <1>4 DEF TypeOK, Pruned

\* Every step of a process, of the network and of time keeps the types.
LEMMA NextTypeOK == TypeOK /\ Ticks /\ [Next]_vars => TypeOK'
<1> SUFFICES ASSUME TypeOK, Ticks, [Next]_vars PROVE TypeOK'
  OBVIOUS
<1>1. ASSUME NEW h \in Host, Start(h) PROVE TypeOK'
  <2>1. PICK n \in NamesOf[h], a \in AddressesOf[h], reached \in SUBSET Host :
          /\ self' = [self EXCEPT ![h] = n]
          /\ ip' = [ip EXCEPT ![h] = a]
          /\ been' = been \cup {<<n, h>>}
          /\ net' = Broadcast(h, n, a, reached)
    BY <1>1 DEF Start
  <2>2. n \in Name /\ a \in Address
    BY HostAssumption
  <2>3. net' \subseteq Presence
    BY <2>1, <2>2, BroadcastType
  <2>4. unheard' \in [Host -> SUBSET Host]
    BY <1>1, UnheardType DEF Start
  <2>5. starts' \in [Host -> Nat]
    BY <1>1 DEF Start, TypeOK
  <2> QED
    BY <1>1, <2>1, <2>2, <2>3, <2>4, <2>5 DEF Start, TypeOK
<1>2. ASSUME NEW h \in Host, Stop(h) PROVE TypeOK'
  <2>1. 0 \in 0..HeartbeatInterval /\ 0 \in 0..MaxDelay
    BY TimeAssumption
  <2> QED
    BY <1>2, <2>1 DEF Stop, TypeOK
<1>3. ASSUME NEW h \in Host, NEW reached \in SUBSET Host, Announce(h, reached) PROVE TypeOK'
  <2>1. self[h] \in Name /\ ip[h] \in Address
    BY <1>3 DEF Announce, Running, TypeOK
  <2>2. net' \subseteq Presence
    BY <1>3, <2>1, BroadcastType DEF Announce
  <2>3. unheard' \in [Host -> SUBSET Host]
    BY <1>3, UnheardType DEF Announce
  <2> QED
    BY <1>3, <2>2, <2>3 DEF Announce, TypeOK
<1>4. ASSUME NEW h \in Host, ReadClock(h) PROVE TypeOK'
  BY <1>4, TimeAssumption DEF ReadClock, TypeOK
<1>5. ASSUME NEW h \in Host, PruneStale(h) PROVE TypeOK'
  <2>1. Pruned(peers[h], lag[h]) \in [Name -> Entry \cup {NoPeer}]
    BY DEF Pruned, TypeOK
  <2> QED
    BY <1>5, <2>1, TimeAssumption DEF PruneStale, TypeOK
<1>6. ASSUME NEW h \in Host, NEW m \in net, OnPresence(h, m) PROVE TypeOK'
  <2>1. Entered(h, m) \in [Name -> Entry \cup {NoPeer}]
    BY EnteredType
  <2>2. PICK late \in Waits : \/ peers' = [peers EXCEPT ![h] = Pruned(Entered(h, m), late)]
                             \/ peers' = [peers EXCEPT ![h] = Pruned(@, late)]
    BY <1>6 DEF OnPresence
  <2>3. peers' \in [Host -> [Name -> Entry \cup {NoPeer}]]
    <3>1. /\ Pruned(Entered(h, m), late) \in [Name -> Entry \cup {NoPeer}]
          /\ Pruned(peers[h], late) \in [Name -> Entry \cup {NoPeer}]
      BY <2>1 DEF Pruned, TypeOK
    <3> QED
      BY <2>2, <3>1 DEF TypeOK
  <2>4. unheard' \in [Host -> SUBSET Host]
    BY <1>6 DEF OnPresence, TypeOK
  <2> QED
    BY <1>6, <2>3, <2>4 DEF OnPresence, TypeOK
<1>7. CASE Pass
  <2>1. peers' \in [Host -> [Name -> Entry \cup {NoPeer}]]
    BY <1>7, OlderEntry DEF Pass, TypeOK
  <2>2. lag' \in [Host -> 0..MaxDelay]
    BY <1>7, TimeAssumption DEF Pass, TypeOK
  <2>3. ASSUME NEW h \in Host PROVE slept'[h] \in 0..HeartbeatInterval
    <3>1. PICK j \in Nat : slept[h] = j * Tick
      BY DEF Ticks
    <3>2. slept[h] \in Nat /\ slept[h] < HeartbeatInterval =>
             slept[h] + Tick <= HeartbeatInterval
      BY <3>1, TickLeft
    <3>3. slept[h] \in 0..HeartbeatInterval
      BY DEF TypeOK
    <3> QED
      BY <1>7, <3>2, <3>3, TimeAssumption DEF Pass
  <2>4. slept' \in [Host -> 0..HeartbeatInterval]
    BY <1>7, <2>3 DEF Pass
  <2> QED
    BY <1>7, <2>1, <2>2, <2>4 DEF Pass, TypeOK
<1>8. CASE UNCHANGED vars
  BY <1>8 DEF vars, TypeOK
<1> QED
  BY <1>1, <1>2, <1>3, <1>4, <1>5, <1>6, <1>7, <1>8 DEF Next, Heartbeat

\* Only the start and the end of a process change who runs on its machine.
LEMMA SelfStep ==
  ASSUME TypeOK, [Next]_vars, NEW h \in Host
  PROVE  self'[h] = self[h] \/ Start(h) \/ Stop(h)
<1>1. ASSUME NEW g \in Host, Start(g) PROVE self'[h] = self[h] \/ Start(h)
  <2>1. PICK n \in NamesOf[g] : self' = [self EXCEPT ![g] = n]
    BY <1>1 DEF Start
  <2> QED
    BY <1>1, <2>1 DEF TypeOK
<1>2. ASSUME NEW g \in Host, Stop(g) PROVE self'[h] = self[h] \/ Stop(h)
  BY <1>2 DEF Stop, TypeOK
<1>3. \/ self' = self
      \/ \E g \in Host : Start(g) \/ Stop(g)
  BY DEF Next, Heartbeat, Announce, ReadClock, PruneStale, OnPresence, Pass, vars
<1> QED
  BY <1>1, <1>2, <1>3

-----------------------------------------------------------------------------
(* What becomes of the entries in one step *)

\* The time since the last prune of h was over, but for its last wait.
SincePrune(h) == slept[h] + (IF beat[h] = "lock" THEN lag[h] ELSE 0)

\* Only a process that runs lists anybody, and what it lists was not stale when
\* it last pruned.
Lifetime ==
    \A h \in Host, n \in Name :
        peers[h][n] # NoPeer =>
            Running(h) /\ peers[h][n].age <= StaleAge + MaxDelay + SincePrune(h)

\* At most how long ago the process on p announced itself.
SinceAnnounced(p) ==
    IF beat[p] = "sleep" THEN MaxDelay + slept[p]
    ELSE IF beat[p] = "prune" THEN 0 ELSE lag[p]

\* Who was heard since, is listed as heard since.
OnTime ==
    \A h, p \in Host, n \in Name :
        /\ peers[h][n] # NoPeer /\ peers[h][n].addr = p
        /\ self[p] = n /\ p \notin unheard[h]
        => peers[h][n].age <= SinceAnnounced(p)

\* Whoever runs, announces or is listed has run there.
Origin ==
    /\ \A h \in Host : Running(h) => <<self[h], h>> \in been
    /\ \A m \in net : <<m.user, m.src>> \in been
    /\ ListedWhereTheyWere

DiscoveryInv == TypeOK /\ Ticks /\ Lifetime /\ OnTime /\ Origin

\* How an entry e of h under the name n may become f: it is gone, because the
\* process ended or a prune found it stale; it is as it was, if not stale in a
\* prune; it is a tick older; or it was heard.
Kept(h, e, f) == f = e /\ ~Stop(h) /\ (PruneStale(h) => ~Stale(e, lag[h]))
Grown(e, f) == Pass /\ f # NoPeer /\ f.addr = e.addr /\ f.age <= e.age + Tick
Heard(h, n, f) ==
    \E m \in net : /\ OnPresence(h, m) /\ Accepted(h, m) /\ m.user = n
                   /\ f = [addr |-> m.src, age |-> 0]

\* Nothing else becomes of an entry.
LEMMA EntryStep ==
  ASSUME DiscoveryInv, [Next]_vars, NEW h \in Host, NEW n \in Name,
         peers'[h][n] # NoPeer
  PROVE  LET e == peers[h][n]
             f == peers'[h][n]
         IN  (e # NoPeer /\ (Kept(h, e, f) \/ Grown(e, f))) \/ Heard(h, n, f)
<1> DEFINE e == peers[h][n]
           f == peers'[h][n]
<1> USE DEF DiscoveryInv
<1>1. CASE f = e /\ ~Stop(h) /\ ~PruneStale(h)
  BY <1>1 DEF Kept
<1>2. CASE Stop(h)
  BY <1>2 DEF Stop, TypeOK
<1>3. CASE PruneStale(h)
  <2>1. f = IF Stale(e, lag[h]) THEN NoPeer ELSE e
    BY <1>3 DEF PruneStale, Pruned, TypeOK
  <2>2. ~Stop(h)
    BY <1>3 DEF PruneStale, Stop, TypeOK
  <2> QED
    BY <2>1, <2>2 DEF Kept
<1>4. CASE Pass
  <2>1. e # NoPeer /\ f = [e EXCEPT !.age = Older(@)]
    BY <1>4 DEF Pass
  <2>2. e \in Entry
    BY <2>1 DEF TypeOK
  <2> QED
    BY <1>4, <2>1, <2>2, OlderEntry DEF Grown
<1>5. ASSUME NEW g \in Host, NEW m \in net, OnPresence(g, m)
      PROVE  f = e \/ Heard(h, n, f)
  BY <1>5, PresenceStep DEF Heard
<1>6. f = e \/ Stop(h) \/ PruneStale(h) \/ Pass \/ Heard(h, n, f)
  BY <1>5 DEF Next, Heartbeat, Start, Stop, Announce, ReadClock, PruneStale, vars, TypeOK
<1> QED
  BY <1>1, <1>2, <1>3, <1>4, <1>6
-----------------------------------------------------------------------------
(* The invariants *)

\* Nothing is listed at first.
LEMMA InitInv == Init => Lifetime /\ OnTime /\ Origin
  BY DEF Init, Lifetime, OnTime, Origin, Running, ListedWhereTheyWere

\* A process that keeps an entry goes on running, and the time since its last
\* prune starts anew, stays, or grows by the tick that the entry grows by.
LEMMA NextLifetime == DiscoveryInv /\ [Next]_vars => Lifetime'
<1> SUFFICES ASSUME DiscoveryInv, [Next]_vars, NEW h \in Host, NEW n \in Name,
                    peers'[h][n] # NoPeer
             PROVE  /\ Running(h)'
                    /\ peers'[h][n].age <= StaleAge + MaxDelay + SincePrune(h)'
  BY DEF Lifetime
<1> DEFINE e == peers[h][n]
           f == peers'[h][n]
<1> USE DEF DiscoveryInv
<1>1. /\ slept[h] \in Nat /\ lag[h] \in Nat /\ lag[h] <= MaxDelay
      /\ {StaleAge, MaxDelay, Tick} \subseteq Nat
      /\ slept'[h] \in Nat /\ lag'[h] \in Nat
  <2>1. TypeOK'
    BY NextTypeOK
  <2> QED
    BY <2>1, TimeAssumption DEF TypeOK
<1>2. e # NoPeer => /\ e.age \in Nat /\ Running(h)
                    /\ e.age <= StaleAge + MaxDelay + SincePrune(h)
  BY TimeAssumption DEF TypeOK, Lifetime, Entry
<1>3. CASE e # NoPeer /\ Kept(h, e, f)
  <2>1. CASE PruneStale(h)
    <3>1. e.age - lag[h] <= StaleAge
      BY <1>1, <1>2, <1>3, <2>1 DEF Kept, Stale
    <3>2. SincePrune(h)' = 0 /\ self' = self
      BY <2>1, TimeAssumption DEF PruneStale, SincePrune, TypeOK
    <3> QED
      BY <1>1, <1>2, <1>3, <3>1, <3>2 DEF Kept, Running
  <2>2. CASE ~PruneStale(h) /\ ~Pass
    <3>1. SincePrune(h)' >= SincePrune(h) /\ Running(h)'
      BY <1>1, <1>2, <1>3, <2>2 DEF Kept, SincePrune, Running, TypeOK, Next, Heartbeat, Start,
         Stop, Announce, ReadClock, PruneStale, OnPresence, vars
    <3> QED
      BY <1>1, <1>2, <1>3, <3>1 DEF Kept, SincePrune
  <2>3. CASE Pass
    <3>1. SincePrune(h)' >= SincePrune(h) /\ Running(h)'
      BY <1>1, <1>2, <1>3, <2>3 DEF SincePrune, Running, TypeOK, Pass
    <3> QED
      BY <1>1, <1>2, <1>3, <3>1 DEF Kept, SincePrune
  <2> QED
    BY <2>1, <2>2, <2>3
<1>4. CASE e # NoPeer /\ Grown(e, f)
  <2>1. SincePrune(h)' = SincePrune(h) + Tick /\ Running(h)'
    BY <1>1, <1>2, <1>4 DEF Grown, SincePrune, Running, TypeOK, Pass
  <2>2. f.age \in Nat
    BY <1>4, NextTypeOK, TimeAssumption DEF Grown, TypeOK, Entry
  <2> QED
    BY <1>1, <1>2, <1>4, <2>1, <2>2 DEF Grown, SincePrune
<1>5. CASE Heard(h, n, f)
  <2>1. f.age = 0 /\ Running(h)'
    BY <1>5 DEF Heard, OnPresence, Running
  <2> QED
    BY <1>1, <2>1 DEF SincePrune
<1> QED
  BY <1>3, <1>4, <1>5, EntryStep

\* One step of the time since p announced itself: it starts anew, with p then
\* unheard, or p's process begins or ends; otherwise it does not fall, and a tick
\* adds to it what it adds to an age.
LEMMA AnnouncedStep ==
  ASSUME DiscoveryInv, [Next]_vars, NEW p \in Host, Running(p), self'[p] = self[p]
  PROVE  \/ \A h \in Host : p \in unheard'[h]
         \/ Pass /\ SinceAnnounced(p)' = SinceAnnounced(p) + Tick
         \/ ~Pass /\ SinceAnnounced(p)' >= SinceAnnounced(p)
<1> USE DEF DiscoveryInv
<1>1. /\ slept[p] \in Nat /\ lag[p] \in Nat /\ lag[p] <= MaxDelay
      /\ {StaleAge, MaxDelay, Tick} \subseteq Nat
      /\ beat[p] \in {"sleep", "prune", "lock"}
  BY TimeAssumption DEF TypeOK
<1>2. CASE Pass
  <2>1. SinceAnnounced(p)' = SinceAnnounced(p) + Tick
    BY <1>1, <1>2 DEF Pass, SinceAnnounced
  <2> QED
    BY <1>2, <2>1
<1>3. ASSUME NEW reached \in SUBSET Host, Announce(p, reached)
      PROVE  \A h \in Host : p \in unheard'[h]
  BY <1>3 DEF Announce, Unheard
<1>4. CASE ReadClock(p) \/ PruneStale(p)
  <2>1. SinceAnnounced(p)' >= SinceAnnounced(p) /\ ~Pass
    BY <1>1, <1>4 DEF ReadClock, PruneStale, SinceAnnounced, TypeOK, Pass
  <2> QED
    BY <2>1
<1>5. CASE UNCHANGED <<beat[p], slept[p], lag[p]>>
  <2>1. SinceAnnounced(p)' = SinceAnnounced(p)
    BY <1>5 DEF SinceAnnounced
  <2> QED
    BY <1>1, <1>2, <2>1 DEF SinceAnnounced
<1>6. \/ Pass
      \/ \E reached \in SUBSET Host : Announce(p, reached)
      \/ ReadClock(p) \/ PruneStale(p)
      \/ UNCHANGED <<beat[p], slept[p], lag[p]>>
  <2>1. ~Start(p) /\ ~Stop(p)
    BY HostAssumption DEF Start, Stop, Running, TypeOK
  <2>2. ASSUME NEW g \in Host, Start(g) \/ Stop(g) PROVE UNCHANGED <<beat[p], slept[p], lag[p]>>
    BY <2>1, <2>2 DEF Start, Stop, TypeOK
  <2> QED
    BY <2>2 DEF Next, Heartbeat, Announce, ReadClock, PruneStale, OnPresence, vars, TypeOK
<1> QED
  BY <1>2, <1>3, <1>4, <1>5, <1>6

\* Whoever has been heard since his last presence is listed as young as that.
LEMMA NextOnTime == DiscoveryInv /\ [Next]_vars => OnTime'
<1> SUFFICES ASSUME DiscoveryInv, [Next]_vars,
                    NEW h \in Host, NEW p \in Host, NEW n \in Name,
                    peers'[h][n] # NoPeer, peers'[h][n].addr = p,
                    self'[p] = n, p \notin unheard'[h]
             PROVE  peers'[h][n].age <= SinceAnnounced(p)'
  BY DEF OnTime
<1> DEFINE e == peers[h][n]
           f == peers'[h][n]
<1> USE DEF DiscoveryInv
<1>1. TypeOK' /\ p \in Host /\ f.age \in Nat
  <2>1. TypeOK'
    BY NextTypeOK
  <2> QED
    BY <2>1, TimeAssumption DEF TypeOK, Entry
<1>2. SinceAnnounced(p)' \in Nat
  BY <1>1, TimeAssumption DEF SinceAnnounced, TypeOK
<1>3. CASE Heard(h, n, f)
  <2>1. f.age = 0
    BY <1>3 DEF Heard
  <2> QED
    BY <1>2, <2>1
<1>4. CASE e # NoPeer /\ (Kept(h, e, f) \/ Grown(e, f)) /\ ~Heard(h, n, f)
  <2>1. e \in Entry /\ e.addr = p /\ e.age \in Nat
    BY <1>4, TimeAssumption DEF Kept, Grown, TypeOK, Entry
  <2>2. ~Start(p)
    BY <2>1, <1>1 DEF Start, Unheard, TypeOK
  <2>3. ~Stop(p)
    BY <1>1, HostAssumption DEF Stop, TypeOK
  <2>4. self[p] = n /\ Running(p) /\ self'[p] = self[p]
    BY <2>2, <2>3, SelfStep, HostAssumption DEF Running
  <2>5. p \notin unheard[h]
    <3>1. SUFFICES ASSUME p \in unheard[h], p \notin unheard'[h] PROVE FALSE
      OBVIOUS
    <3>2. PICK m \in net : /\ OnPresence(h, m) /\ Accepted(h, m)
                           /\ m.src = p /\ self[m.src] = m.user
      <4>1. PICK g \in Host, m \in net : OnPresence(g, m)
        BY <3>1 DEF Next, Heartbeat, Start, Stop, Announce, ReadClock, PruneStale, Pass,
           Unheard, vars, TypeOK
      <4>2. /\ Accepted(g, m) /\ self[m.src] = m.user
            /\ unheard' = [unheard EXCEPT ![g] = @ \ {m.src}]
        BY <3>1, <4>1 DEF OnPresence
      <4>3. g = h /\ m.src = p
        BY <3>1, <4>2 DEF TypeOK
      <4> QED
        BY <4>1, <4>2, <4>3
    <3>3. m.user = n
      BY <2>4, <3>2
    <3>4. f = [addr |-> m.src, age |-> 0]
      BY <3>2, <3>3, PresenceHeard
    <3> QED
      BY <1>4, <3>2, <3>3, <3>4 DEF Heard
  <2>6. e.age <= SinceAnnounced(p)
    BY <1>4, <2>1, <2>4, <2>5 DEF OnTime
  <2>7. SinceAnnounced(p) \in Nat
    BY <1>1, TimeAssumption DEF SinceAnnounced, TypeOK
  <2>8. \/ Pass /\ SinceAnnounced(p)' = SinceAnnounced(p) + Tick
        \/ ~Pass /\ SinceAnnounced(p)' >= SinceAnnounced(p)
    BY <1>1, <2>4, AnnouncedStep
  <2>9. f.age <= e.age + Tick /\ (~Pass => f.age = e.age)
    BY <1>4, <2>1, TimeAssumption DEF Kept, Grown
  <2> QED
    BY <1>1, <1>2, <2>1, <2>6, <2>7, <2>8, <2>9, TimeAssumption
<1> QED
  BY <1>3, <1>4, EntryStep

\* What is announced, sent and listed comes from a process that ran there.
LEMMA NextOrigin == DiscoveryInv /\ [Next]_vars => Origin'
<1> SUFFICES ASSUME DiscoveryInv, [Next]_vars PROVE Origin'
  OBVIOUS
<1> USE DEF DiscoveryInv
<1>1. been \subseteq been'
  BY DEF Next, Heartbeat, Start, Stop, Announce, ReadClock, PruneStale, OnPresence, Pass, vars
<1>2. ASSUME NEW h \in Host, Running(h)'
      PROVE  <<self'[h], h>> \in been'
  <2>1. CASE self'[h] = self[h]
    BY <1>1, <1>2, <2>1 DEF Running, Origin
  <2>2. CASE Start(h)
    <3>1. PICK n \in NamesOf[h] : self' = [self EXCEPT ![h] = n] /\ been' = been \cup {<<n, h>>}
      BY <2>2 DEF Start
    <3> QED
      BY <3>1 DEF TypeOK
  <2>3. self'[h] = self[h] \/ Start(h) \/ self'[h] = NoName
    BY DEF Next, Heartbeat, Start, Stop, Announce, ReadClock, PruneStale, OnPresence, Pass,
       vars, TypeOK
  <2> QED
    BY <1>2, <2>1, <2>2, <2>3 DEF Running
<1>3. ASSUME NEW m \in net' PROVE <<m.user, m.src>> \in been'
  <2>1. CASE m \in net
    BY <1>1, <2>1 DEF Origin
  <2>2. ASSUME NEW h \in Host, Start(h), m \notin net PROVE <<m.user, m.src>> \in been'
    <3>1. PICK n \in NamesOf[h], a \in AddressesOf[h], reached \in SUBSET Host :
             been' = been \cup {<<n, h>>} /\ net' = Broadcast(h, n, a, reached)
      BY <2>2 DEF Start
    <3>2. m.user = n /\ m.src = h
      BY <2>2, <3>1 DEF Broadcast
    <3> QED
      BY <3>1, <3>2
  <2>3. ASSUME NEW h \in Host, NEW reached \in SUBSET Host, Announce(h, reached), m \notin net
        PROVE  <<m.user, m.src>> \in been'
    <3>1. m.user = self[h] /\ m.src = h
      BY <2>3 DEF Announce, Broadcast
    <3>2. <<self[h], h>> \in been
      BY <2>3 DEF Announce, Origin
    <3> QED
      BY <1>1, <3>1, <3>2
  <2> QED
    BY <2>1, <2>2, <2>3 DEF Next, Heartbeat, Stop, ReadClock, PruneStale, OnPresence, Pass, vars
<1>4. ASSUME NEW h \in Host, NEW n \in Name, peers'[h][n] # NoPeer
      PROVE  n # self'[h] /\ <<n, peers'[h][n].addr>> \in been'
  <2> DEFINE e == peers[h][n]
             f == peers'[h][n]
  <2>1. CASE e # NoPeer /\ (Kept(h, e, f) \/ Grown(e, f))
    <3>1. f.addr = e.addr /\ n # self[h] /\ <<n, e.addr>> \in been
      BY <2>1 DEF Kept, Grown, Origin, ListedWhereTheyWere
    <3>2. Running(h)
      BY <2>1 DEF Lifetime
    <3>3. ~Stop(h) /\ ~Start(h)
      <4>1. ~Start(h)
        BY <3>2 DEF Start
      <4>2. Stop(h) => f = NoPeer
        BY DEF Stop, TypeOK
      <4> QED
        BY <1>4, <4>1, <4>2
    <3>4. self'[h] = self[h]
      BY <3>3, SelfStep
    <3> QED
      BY <1>1, <3>1, <3>4
  <2>2. CASE Heard(h, n, f)
    <3>1. PICK m \in net : /\ OnPresence(h, m) /\ Accepted(h, m) /\ m.user = n
                           /\ f = [addr |-> m.src, age |-> 0]
      BY <2>2 DEF Heard
    <3>2. f.addr = m.src
      BY <3>1
    <3>3. <<m.user, m.src>> \in been /\ m.user # self[h] /\ self' = self
      BY <3>1 DEF Origin, Accepted, OnPresence
    <3> QED
      BY <1>1, <3>1, <3>2, <3>3
  <2> QED
    BY <1>4, <2>1, <2>2, EntryStep
<1> QED
  BY <1>2, <1>3, <1>4 DEF Origin, ListedWhereTheyWere

\* The invariants hold in every state.
LEMMA DiscoveryInvariant == Spec => []DiscoveryInv
<1>1. Init => DiscoveryInv
  <2>1. Init => Ticks
    <3>1. 0 = 0 * Tick
      BY TimeAssumption
    <3> QED
      BY <3>1 DEF Init, Ticks
  <2> QED
    BY <2>1, InitTypeOK, InitInv DEF DiscoveryInv
<1>2. DiscoveryInv /\ [Next]_vars => DiscoveryInv'
  BY NextTypeOK, NextTicks, NextLifetime, NextOnTime, NextOrigin DEF DiscoveryInv
<1> QED
  BY <1>1, <1>2, PTL DEF Spec

-----------------------------------------------------------------------------
(* Theorems *)

\* Every reachable state has its types.
THEOREM TypeCorrect == Spec => []TypeOK
<1>1. DiscoveryInv => TypeOK
  BY DEF DiscoveryInv
<1> QED
  BY <1>1, DiscoveryInvariant, PTL

\* One who is gone is off the list after the stale age, a heartbeat and two waits
\* for the mutex, whatever was heard late (prune_stale, user_directory.cpp:29-39).
THEOREM EntriesEnd == Spec => []EntryLifetime
<1>1. DiscoveryInv => EntryLifetime
  <2> SUFFICES ASSUME DiscoveryInv, NEW h \in Host, NEW n \in Name, peers[h][n] # NoPeer
               PROVE  peers[h][n].age <= StaleAge + HeartbeatInterval + 2 * MaxDelay
    BY DEF EntryLifetime
  <2>1. peers[h][n].age <= StaleAge + MaxDelay + SincePrune(h) /\ peers[h][n].age \in Nat
    BY TimeAssumption DEF DiscoveryInv, Lifetime, TypeOK, Entry
  <2>2. SincePrune(h) \in Nat /\ SincePrune(h) <= HeartbeatInterval + MaxDelay
    BY TimeAssumption DEF DiscoveryInv, TypeOK, SincePrune
  <2> QED
    BY <2>1, <2>2, TimeAssumption
<1> QED
  BY <1>1, DiscoveryInvariant, PTL

\* Whoever invite_user can find has run, under that name, at that address.
THEOREM ListedTruly == Spec => []ListedWhereTheyWere
<1>1. DiscoveryInv => ListedWhereTheyWere
  BY DEF DiscoveryInv, Origin
<1> QED
  BY <1>1, DiscoveryInvariant, PTL

\* Only a prune that found it stale takes an entry from a process that goes on.
LEMMA DroppedAsStale ==
  ASSUME DiscoveryInv, [Next]_vars, NEW h \in Host, NEW n \in Name,
         peers[h][n] # NoPeer, peers'[h][n] = NoPeer, self'[h] # NoName
  PROVE  peers[h][n].age > StaleAge
<1> USE DEF DiscoveryInv
<1>1. peers[h][n].age \in Nat /\ StaleAge \in Nat
  BY TimeAssumption DEF TypeOK, Entry
<1>2. ~Stop(h)
  BY DEF Stop, TypeOK
<1>3. ASSUME NEW g \in Host, NEW m \in net, OnPresence(g, m)
      PROVE  peers[h][n].age > StaleAge
  BY <1>3, PresenceDrops
<1>4. CASE Pass
  <2>1. peers[h][n] \in Entry
    BY DEF TypeOK
  <2>2. peers'[h][n] = [peers[h][n] EXCEPT !.age = Older(@)]
    BY <1>4 DEF Pass
  <2>3. peers'[h][n] \in Entry
    BY <2>1, <2>2, OlderEntry
  <2> QED
    BY <2>3, HostAssumption DEF Entry
<1>5. CASE PruneStale(h)
  <2>1. Stale(peers[h][n], lag[h]) /\ lag[h] \in Nat
    BY <1>5, TimeAssumption DEF PruneStale, Pruned, TypeOK
  <2> QED
    BY <1>1, <2>1 DEF Stale
<1> QED
  BY <1>2, <1>3, <1>4, <1>5 DEF Next, Heartbeat, Start, Stop, Announce, ReadClock, PruneStale,
     vars, TypeOK

\* What was heard while prune_stale waited survives it (user_directory.cpp:30-33).
THEOREM PruneSparesTheFresh == Spec => FreshSurvives
<1>1. DiscoveryInv /\ [Next]_vars =>
        [\A h \in Host, n \in Name :
           peers[h][n] # NoPeer /\ peers'[h][n] = NoPeer /\ self'[h] # NoName
           => peers[h][n].age > StaleAge]_vars
  <2> SUFFICES ASSUME DiscoveryInv, [Next]_vars, NEW h \in Host, NEW n \in Name,
                      peers[h][n] # NoPeer, peers'[h][n] = NoPeer, self'[h] # NoName
               PROVE  peers[h][n].age > StaleAge
    OBVIOUS
  <2> QED
    BY DroppedAsStale
<1> QED
  BY <1>1, DiscoveryInvariant, PTL DEF Spec, FreshSurvives

\* A heartbeat that is late by no more than StaleAge leaves it does not lose its
\* user a place on any list: at least one of his presences was lost or is late.
THEOREM OnlyLossDrops == Spec => DroppedOnlyAfterLoss
<1>1. DiscoveryInv /\ [Next]_vars =>
        [\A h \in Host, n \in Name :
           /\ peers[h][n] # NoPeer /\ peers'[h][n] = NoPeer
           /\ self'[h] # NoName
           /\ self[peers[h][n].addr] = n
           => peers[h][n].addr \in unheard[h]]_vars
  <2> SUFFICES ASSUME DiscoveryInv, [Next]_vars, NEW h \in Host, NEW n \in Name,
                      peers[h][n] # NoPeer, peers'[h][n] = NoPeer, self'[h] # NoName,
                      self[peers[h][n].addr] = n, peers[h][n].addr \notin unheard[h]
               PROVE  FALSE
    OBVIOUS
  <2> DEFINE p == peers[h][n].addr
  <2>1. p \in Host
    BY DEF DiscoveryInv, TypeOK, Entry
  <2>2. peers[h][n].age <= SinceAnnounced(p)
    BY <2>1 DEF DiscoveryInv, OnTime
  <2>3. SinceAnnounced(p) \in Nat /\ SinceAnnounced(p) <= MaxDelay + HeartbeatInterval
    BY <2>1, TimeAssumption DEF DiscoveryInv, TypeOK, SinceAnnounced
  <2>4. peers[h][n].age \in Nat
    BY TimeAssumption DEF DiscoveryInv, TypeOK, Entry
  <2> QED
    BY <2>2, <2>3, <2>4, DroppedAsStale, TimeAssumption, StaleAssumption
<1> QED
  BY <1>1, DiscoveryInvariant, PTL DEF Spec, DroppedOnlyAfterLoss
=============================================================================
