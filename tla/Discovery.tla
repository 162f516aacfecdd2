------------------------------ MODULE Discovery ------------------------------
(***************************************************************************)
(* Who is on the network: DiscoveryService and the UserDirectory it fills. *)
(*                                                                         *)
(* A process broadcasts a PRESENCE when it starts and after every sleep of *)
(* its heartbeat thread, which then prunes the directory.  The receiver    *)
(* thread enters what it hears, and prunes too.  The directory's mutex     *)
(* makes an upsert one step, and a prune one step, but a prune compares    *)
(* with a clock that was read before the mutex was taken.                  *)
(*                                                                         *)
(* Time is kept as ages in seconds, as in DirectMessage.                   *)
(***************************************************************************)
EXTENDS Integers

CONSTANTS
    Host,               \* the machines, named by the source address of what they send
    Address,            \* what a presence may say: a machine may be wrong about its own
    Name,               \* user names
    NamesOf,            \* NamesOf[h]: names a process on h may be started with
    AddressesOf,        \* AddressesOf[h]: what h may find to be its address at a start
    HeartbeatInterval, StaleAge,
    Tick, AgeCap,
    MaxDelay,           \* the longest wait between the clock and the mutex
    MaxStarts,          \* bounds on the starts of a process on each machine
    NoAddress,          \* "-", which a presence may have for the address
    NoName, NoPeer

ASSUME HostAssumption ==
    /\ Host \cup {NoAddress} \subseteq Address
    /\ NoAddress \notin Host
    /\ NamesOf \in [Host -> SUBSET Name]
    /\ AddressesOf \in [Host -> SUBSET Address]
    /\ NoName \notin Name
    /\ NoPeer \notin [addr : Host, age : 0..AgeCap]

\* The heartbeat's sleep, and its wait, are whole numbers of ticks.
ASSUME TimeAssumption ==
    /\ {HeartbeatInterval, StaleAge, AgeCap, MaxDelay} \subseteq Nat
    /\ Tick \in Nat \ {0}
    /\ \E k \in 0..HeartbeatInterval : HeartbeatInterval = k * Tick
    /\ MaxStarts \in [Host -> Nat]
    /\ AgeCap > StaleAge + HeartbeatInterval + 2 * MaxDelay

\* A heartbeat that waited for the mutex is still on time.
ASSUME StaleAssumption == StaleAge >= HeartbeatInterval + MaxDelay

VARIABLES
    self,     \* self[h]: the user of the process on h, or NoName when there is none
    ip,       \* ip[h]: ipv4_, what it announces
    peers,    \* peers[h][n]: the entry of peers_, or NoPeer
    beat,     \* beat[h]: where the heartbeat thread is
    slept,    \* slept[h]: how long it has been in sleep_for
    lag,      \* lag[h]: how long ago prune_stale read the clock
    net,      \* datagrams on their way
    starts,   \* starts[h]: how many processes were started on h
    been,     \* history: which user has run where
    unheard   \* history: unheard[h]: those that announced themselves since h last heard them

vars == <<self, ip, peers, beat, slept, lag, net, starts, been, unheard>>

Entry == [addr : Host, age : 0..AgeCap]
Presence == [user : Name, ip : Address, src : Host, dst : Host]

Running(h) == self[h] # NoName
Older(age) == IF age + Tick > AgeCap THEN AgeCap ELSE age + Tick

\* A broadcast reaches some of the other machines, sooner or later.  (Its own copy reaches the
\* sender while it has that name, or never: upsert ignores it.)  The mutant has
\* no identity to announce.
NoBroadcast(h, user, addr, reached) == net
Broadcast(h, user, addr, reached) ==
    net \cup {[user |-> user, ip |-> addr, src |-> h, dst |-> g] : g \in reached \ {h}}
Unheard(h) == [g \in Host |-> unheard[g] \cup {h}]

-----------------------------------------------------------------------------
Init ==
    /\ self = [h \in Host |-> NoName]
    /\ ip = [h \in Host |-> h]
    /\ peers = [h \in Host |-> [n \in Name |-> NoPeer]]
    /\ beat = [h \in Host |-> "sleep"]
    /\ slept = [h \in Host |-> 0]
    /\ lag = [h \in Host |-> 0]
    /\ net = {}
    /\ starts = [h \in Host |-> 0]
    /\ been = {}
    /\ unheard = [h \in Host |-> {}]

-----------------------------------------------------------------------------
(* Start and end of a process *)

\* main up to the start of its threads: the name, the address the machine finds
\* for itself, an empty directory, and the first presence.
Start(h) ==
    /\ ~Running(h)
    /\ starts[h] < MaxStarts[h]
    /\ starts' = [starts EXCEPT ![h] = @ + 1]
    /\ \E n \in NamesOf[h], a \in AddressesOf[h], reached \in SUBSET Host :
          /\ self' = [self EXCEPT ![h] = n]
          /\ ip' = [ip EXCEPT ![h] = a]
          /\ been' = been \cup {<<n, h>>}
          /\ net' = Broadcast(h, n, a, reached)
    /\ unheard' = Unheard(h)
    /\ UNCHANGED <<peers, beat, slept, lag>>

\* The process ends, or crashes.  Nothing is sent, and what waits in its socket is lost;
\* what is still on its way may come to the next process.
Stop(h) ==
    /\ Running(h)
    /\ self' = [self EXCEPT ![h] = NoName]
    /\ peers' = [peers EXCEPT ![h] = [n \in Name |-> NoPeer]]
    /\ beat' = [beat EXCEPT ![h] = "sleep"]
    /\ slept' = [slept EXCEPT ![h] = 0]
    /\ lag' = [lag EXCEPT ![h] = 0]
    /\ \E waiting \in SUBSET {m \in net : m.dst = h} : net' = net \ waiting
    /\ UNCHANGED <<ip, starts, been, unheard>>

-----------------------------------------------------------------------------
(* Heartbeat thread *)

\* sleep_for returns; send_presence_broadcast.
Announce(h, reached) ==
    /\ Running(h)
    /\ beat[h] = "sleep"
    /\ slept[h] = HeartbeatInterval
    /\ net' = Broadcast(h, self[h], ip[h], reached)
    /\ unheard' = Unheard(h)
    /\ beat' = [beat EXCEPT ![h] = "prune"]
    /\ UNCHANGED <<self, ip, peers, slept, lag, starts, been>>

\* prune_stale reads the clock ...
ReadClock(h) ==
    /\ beat[h] = "prune"
    /\ beat' = [beat EXCEPT ![h] = "lock"]
    /\ lag' = [lag EXCEPT ![h] = 0]
    /\ UNCHANGED <<self, ip, peers, slept, net, starts, been, unheard>>

\* ... and compares with it what it finds once it has the mutex.  What was
\* entered in between is younger than that clock: the difference is signed.
\* The mutants: an unsigned difference, an age counted from the next heartbeat,
\* and the difference the wrong way round.
UnsignedStale(e, late) == e # NoPeer /\ (e.age < late \/ e.age - late > StaleAge)
SwappedStale(e, late) == e # NoPeer /\ late - e.age > StaleAge
StaleAfterBoth(e, late) == e # NoPeer /\ e.age - late > StaleAge + HeartbeatInterval
Stale(e, late) == e # NoPeer /\ e.age - late > StaleAge

Pruned(directory, late) ==
    [n \in Name |-> IF Stale(directory[n], late) THEN NoPeer ELSE directory[n]]

PruneStale(h) ==
    /\ beat[h] = "lock"
    /\ peers' = [peers EXCEPT ![h] = Pruned(@, lag[h])]
    /\ beat' = [beat EXCEPT ![h] = "sleep"]
    /\ slept' = [slept EXCEPT ![h] = 0]
    /\ UNCHANGED <<self, ip, lag, net, starts, been, unheard>>

-----------------------------------------------------------------------------
(* Receiver thread *)

\* The address announced, if there is one, must be that from which it came, and the
\* name not the user's own; the mutant forgets the name.
TrueAddress(h, m) == m.ip \in {m.src, NoAddress}
Accepted(h, m) == m.ip \in {m.src, NoAddress} /\ m.user # self[h]

\* An entry there already is replaced, with the sender's address; the mutants
\* forget the address, and keep the old entry.
EnteredAnywhere(h, m) == [peers[h] EXCEPT ![m.user] = [addr |-> NoName, age |-> 0]]
EnteredOnce(h, m) ==
    IF peers[h][m.user] = NoPeer
    THEN [peers[h] EXCEPT ![m.user] = [addr |-> m.src, age |-> 0]]
    ELSE peers[h]
Entered(h, m) == [peers[h] EXCEPT ![m.user] = [addr |-> m.src, age |-> 0]]

\* How long the receiver may have waited for the mutex with the clock it read.
\* It is the one who enters, so that nothing is entered meanwhile.
Waits == {w \in 0..MaxDelay : w % Tick = 0}

\* on_presence and the upsert, and then another prune whatever came.
OnPresence(h, m) ==
    /\ Running(h)
    /\ m.dst = h
    /\ net' = net \ {m}
    /\ \E late \in Waits :
          \/ /\ Accepted(h, m)
             /\ peers' = [peers EXCEPT ![h] = Pruned(Entered(h, m), late)]
             /\ unheard' = IF self[m.src] = m.user
                           THEN [unheard EXCEPT ![h] = @ \ {m.src}] ELSE unheard
          \/ /\ ~Accepted(h, m)
             /\ peers' = [peers EXCEPT ![h] = Pruned(@, late)]
             /\ UNCHANGED unheard
    /\ UNCHANGED <<self, ip, beat, slept, lag, starts, been>>

-----------------------------------------------------------------------------
(* Time passes while every heartbeat sleeps, or waits for the mutex. *)
Pass ==
    /\ \A h \in Host : Running(h) =>
          \/ beat[h] = "sleep" /\ slept[h] < HeartbeatInterval
          \/ beat[h] = "lock" /\ lag[h] + Tick <= MaxDelay
    /\ peers' = [h \in Host |-> [n \in Name |->
                    IF peers[h][n] = NoPeer THEN NoPeer
                    ELSE [peers[h][n] EXCEPT !.age = Older(@)]]]
    /\ slept' = [h \in Host |->
                    IF Running(h) /\ beat[h] = "sleep" THEN slept[h] + Tick ELSE slept[h]]
    /\ lag' = [h \in Host |->
                    IF Running(h) /\ beat[h] = "lock" THEN lag[h] + Tick ELSE lag[h]]
    /\ UNCHANGED <<self, ip, beat, net, starts, been, unheard>>

-----------------------------------------------------------------------------
Heartbeat(h) ==
    \/ \E reached \in SUBSET Host : Announce(h, reached)
    \/ ReadClock(h)
    \/ PruneStale(h)

Next ==
    \/ \E h \in Host :
          \/ Start(h) \/ Stop(h) \/ Heartbeat(h)
          \/ \E m \in net : OnPresence(h, m)
    \/ Pass

Spec == Init /\ [][Next]_vars

\* Time passes, the heartbeat thread is scheduled and the receiver takes what
\* has arrived; between two machines that go on announcing and listening, the
\* network does not lose every broadcast.
Fairness ==
    /\ WF_vars(Pass)
    /\ \A h \in Host :
          /\ WF_vars(Heartbeat(h))
          /\ \A g \in Host \ {h} :
                /\ WF_vars(\E m \in net : m.src = g /\ OnPresence(h, m))
                /\ SF_vars(\E reached \in SUBSET Host : h \in reached /\ Announce(g, reached))

FairSpec == Spec /\ Fairness

-----------------------------------------------------------------------------
(* Properties *)

TypeOK ==
    /\ self \in [Host -> Name \cup {NoName}]
    /\ ip \in [Host -> Address]
    /\ peers \in [Host -> [Name -> Entry \cup {NoPeer}]]
    /\ beat \in [Host -> {"sleep", "prune", "lock"}]
    /\ slept \in [Host -> 0..HeartbeatInterval]
    /\ lag \in [Host -> 0..MaxDelay]
    /\ net \subseteq Presence
    /\ starts \in [Host -> Nat]
    /\ been \subseteq Name \X Host
    /\ unheard \in [Host -> SUBSET Host]

\* Nobody is listed for longer after being heard than the 18 s, a heartbeat and
\* two waits for the mutex: the one that made the last prune spare the entry,
\* and the one that keeps the next from taking it.
EntryLifetime ==
    \A h \in Host, n \in Name :
        peers[h][n] # NoPeer =>
            peers[h][n].age <= StaleAge + HeartbeatInterval + 2 * MaxDelay

\* The address that invite_user will send to is one where a user of that name
\* has run, and never this user's own.
ListedWhereTheyWere ==
    \A h \in Host, n \in Name :
        peers[h][n] # NoPeer => n # self[h] /\ <<n, peers[h][n].addr>> \in been

\* A user who is still there is dropped only when a presence of his was lost or
\* is late: 18 s is long enough for a heartbeat that waited for the mutex.
DroppedOnlyAfterLoss ==
    [][\A h \in Host, n \in Name :
          /\ peers[h][n] # NoPeer /\ peers'[h][n] = NoPeer
          /\ self'[h] # NoName
          /\ self[peers[h][n].addr] = n
          => peers[h][n].addr \in unheard[h]]_vars

\* What was heard while prune_stale waited for the mutex is not dropped by it,
\* although it is younger than the clock it is compared with.
FreshSurvives ==
    [][\A h \in Host, n \in Name :
          peers[h][n] # NoPeer /\ peers'[h][n] = NoPeer /\ self'[h] # NoName
          => peers[h][n].age > StaleAge]_vars

\* One who has left for good is eventually off every list that is kept.
GoneIsForgotten ==
    \A h, g \in Host, n \in Name :
        <>[](Running(h) /\ self[g] # n)
            => <>[](peers[h][n] # NoPeer => peers[h][n].addr # g)

\* One who stays is listed time and again, whatever single presences are lost:
\* being dropped after 18 s is never for good.
ListedAgain ==
    \A h, g \in Host, n \in Name :
        <>[](h # g /\ Running(h) /\ self[h] # n /\ self[g] = n /\ ip[g] \in {g, NoAddress})
            => []<>(peers[h][n] # NoPeer)
=============================================================================
