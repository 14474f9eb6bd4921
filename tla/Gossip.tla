------------------------------- MODULE Gossip -------------------------------
(***************************************************************************)
(* How a rumor spreads: the rumor stores, the rumor heat, the push workers *)
(* and the pull thread of butterfly (rumor/mod.rs, rumor/heat.rs,          *)
(* server/push.rs, server/pull.rs), and the dat file a Supervisor that     *)
(* restarts reads its rumors back from (rumor/dat_file.rs).                *)
(*                                                                         *)
(* The rumors are those merged by incarnation: service, service_config and *)
(* service_file.  A rumor is abstracted to its incarnation and to the life *)
(* of its author that wrote it, which tells apart two contents published   *)
(* with one incarnation.  All members know and ping each other.            *)
(***************************************************************************)
EXTENDS Naturals, FiniteSets

CONSTANTS
    Node,      \* the Supervisors
    Key,       \* the rumors, by key and id
    Author,    \* Author[k]: the Supervisor whose service rumor k is
    Mortal,    \* the Supervisors that may be restarted
    Lossy,     \* whether a send may fail or its message be lost
    MaxInc,    \* bound on the incarnations published
    MaxLife    \* bound on the restarts of a Supervisor

ASSUME AuthorAssumption == Author \in [Key -> Node]
ASSUME ReliabilityAssumption == Mortal \subseteq Node /\ Lossy \in BOOLEAN
ASSUME BoundsAssumption == MaxInc \in Nat /\ MaxLife \in Nat

VARIABLES
    store,   \* store[n][k]: the rumor n holds for k; incarnation 0 when none
    heat,    \* heat[n][k][p]: how often n has sent k to p; a key that is not
             \* tracked counts as sent often enough to everybody
    worker,  \* worker[n][p]: what the push worker of n for p captured, and
             \* what of it is still to be sent
    net,     \* the rumors sent and not yet pulled
    pend,    \* pend[n][t]: what thread t of n has inserted, not yet made hot
    draft,   \* draft[n]: the rumor n is about to insert as its own
    disk,    \* disk[n]: the stores as they are in the dat file of n
    life     \* life[n]: the restarts of n

vars == <<store, heat, worker, net, pend, draft, disk, life>>

Thread == {"pull", "main"}
Rumor == [inc : 0 .. MaxInc, life : 0 .. MaxLife]
Message == [to : Node, key : Key, rumor : Rumor]
NoRumor == [inc |-> 0, life |-> 0]
Idle == [captured |-> {}, todo |-> {}]

\* Mutant: every rumor is sent once.
RumorCoolDownLimit_One == 1
RumorCoolDownLimit == 2

Peer(n) == Node \ {n}

-----------------------------------------------------------------------------
(* RumorStore::insert with the merge of the three rumors.                   *)

\* Mutant: the last to arrive wins.
Newer_Always(self, other) == self # other
Newer(self, other) == other.inc > self.inc

\* insert_service, insert_service_config and insert_service_file: a rumor that
\* changed the store is made hot in a second step.
Insert(n, t, k, r) ==
    IF Newer(store[n][k], r)
    THEN /\ store' = [store EXCEPT ![n][k] = r]
         /\ pend' = [pend EXCEPT ![n][t] = {k}]
    ELSE UNCHANGED <<store, pend>>

StartHotRumor(n, t) ==
    /\ pend[n][t] # {}
    /\ heat' = [heat EXCEPT ![n] = [k \in Key |->
            IF k \in pend[n][t] THEN [p \in Node |-> 0] ELSE @[k]]]
    /\ pend' = [pend EXCEPT ![n][t] = {}]
    /\ UNCHANGED <<store, worker, net, draft, disk, life>>

-----------------------------------------------------------------------------
Init ==
    /\ store = [n \in Node |-> [k \in Key |-> NoRumor]]
    /\ heat = [n \in Node |-> [k \in Key |-> [p \in Node |-> RumorCoolDownLimit]]]
    /\ worker = [n \in Node |-> [p \in Node |-> Idle]]
    /\ net = {}
    /\ pend = [n \in Node |-> [t \in Thread |-> {}]]
    /\ draft = [n \in Node |-> {}]
    /\ disk = [n \in Node |-> [k \in Key |-> NoRumor]]
    /\ life = [n \in Node |-> 0]

\* gossip_latest_service_rumor: the main thread takes the incarnation after the
\* stored one, lets go of the lock, and inserts.
Compose(n, k) ==
    /\ Author[k] = n
    /\ draft[n] = {} /\ pend[n]["main"] = {}
    /\ store[n][k].inc < MaxInc
    /\ draft' = [draft EXCEPT ![n] =
            {[key |-> k, rumor |-> [inc |-> store[n][k].inc + 1, life |-> life[n]]]}]
    /\ UNCHANGED <<store, heat, worker, net, pend, disk, life>>

Publish(n) ==
    \E d \in draft[n] :
        /\ Insert(n, "main", d.key, d.rumor)
        /\ draft' = [draft EXCEPT ![n] = {}]
        /\ UNCHANGED <<heat, worker, net, disk, life>>

\* Mutant: a rumor that was never sent has no heat yet.
HotRumors_OnlyTouched(n, p) == {k \in Key : heat[n][k][p] > 0 /\ heat[n][k][p] < RumorCoolDownLimit}
\* Mutant: the limit itself is still hot.
HotRumors_OffByOne(n, p) == {k \in Key : heat[n][k][p] <= RumorCoolDownLimit}
\* The push thread: currently_hot_rumors for one member, and a worker for it.
HotRumors(n, p) == {k \in Key : heat[n][k][p] < RumorCoolDownLimit}

Capture(n, p) ==
    /\ p \in Peer(n) /\ worker[n][p] = Idle
    /\ HotRumors(n, p) # {}
    /\ worker' = [worker EXCEPT ![n][p] =
            [captured |-> HotRumors(n, p), todo |-> HotRumors(n, p)]]
    /\ UNCHANGED <<store, heat, net, pend, draft, disk, life>>

\* send_rumors, one rumor: what is sent is what the store holds now.  The code
\* goes from the coldest to the hottest; here the order is any.
Send(n, p, k) ==
    /\ k \in worker[n][p].todo
    /\ worker' = [worker EXCEPT ![n][p].todo = @ \ {k}]
    /\ \/ net' = net \cup {[to |-> p, key |-> k, rumor |-> store[n][k]]}
       \/ Lossy /\ UNCHANGED net
    /\ UNCHANGED <<store, heat, pend, draft, disk, life>>

\* send_rumors when the socket does not connect: nothing is sent, nor cooled.
ConnectFails(n, p) ==
    /\ Lossy
    /\ worker[n][p].captured # {} /\ worker[n][p].todo = worker[n][p].captured
    /\ worker' = [worker EXCEPT ![n][p] = Idle]
    /\ UNCHANGED <<store, heat, net, pend, draft, disk, life>>

\* cool_rumors, at the end of send_rumors, whatever became of the sends.
CoolRumors(n, p) ==
    /\ worker[n][p].captured # {} /\ worker[n][p].todo = {}
    /\ heat' = [heat EXCEPT ![n] = [k \in Key |-> [q \in Node |->
            IF q = p /\ k \in worker[n][p].captured THEN @[k][q] + 1 ELSE @[k][q]]]]
    /\ worker' = [worker EXCEPT ![n][p] = Idle]
    /\ UNCHANGED <<store, net, pend, draft, disk, life>>

\* The pull thread takes one rumor at a time.
Pull(m) ==
    /\ m \in net /\ pend[m.to]["pull"] = {}
    /\ net' = net \ {m}
    /\ Insert(m.to, "pull", m.key, m.rumor)
    /\ UNCHANGED <<heat, worker, draft, disk, life>>

\* DatFile::write: a temporary file is renamed once it is complete.
Persist(n) ==
    /\ n \in Mortal
    /\ disk[n] # store[n]
    /\ disk' = [disk EXCEPT ![n] = store[n]]
    /\ UNCHANGED <<store, heat, worker, net, pend, draft, life>>

\* Mutant: the dat file is not read back.
Recovered_Nothing(n) == [k \in Key |-> NoRumor]
Recovered(n) == disk[n]

\* A Supervisor goes down and comes up again under its member id: it reads the
\* dat file into its stores, where every rumor of the file becomes hot.  What
\* was on its way to it may be lost.
Restart(n) ==
    /\ n \in Mortal /\ life[n] < MaxLife
    /\ store' = [store EXCEPT ![n] = Recovered(n)]
    /\ heat' = [heat EXCEPT ![n] = [k \in Key |-> [p \in Node |->
            IF Recovered(n)[k] = NoRumor THEN RumorCoolDownLimit ELSE 0]]]
    /\ worker' = [worker EXCEPT ![n] = [p \in Node |-> Idle]]
    /\ \E lost \in SUBSET {m \in net : m.to = n} : net' = net \ lost
    /\ pend' = [pend EXCEPT ![n] = [t \in Thread |-> {}]]
    /\ draft' = [draft EXCEPT ![n] = {}]
    /\ life' = [life EXCEPT ![n] = @ + 1]
    /\ UNCHANGED disk

Next ==
    \/ \E n \in Node : Publish(n) \/ Persist(n) \/ Restart(n)
    \/ \E n \in Node, k \in Key : Compose(n, k)
    \/ \E n \in Node, t \in Thread : StartHotRumor(n, t)
    \/ \E n, p \in Node : Capture(n, p) \/ ConnectFails(n, p) \/ CoolRumors(n, p)
    \/ \E n, p \in Node, k \in Key : Send(n, p, k)
    \/ \E m \in net : Pull(m)

Spec == Init /\ [][Next]_vars

\* Every thread of a Supervisor makes progress.  Nobody has to publish, nor to
\* be restarted; a send is not obliged to fail.
Fairness ==
    /\ \A n \in Node : WF_vars(Publish(n))
    /\ \A n \in Node, t \in Thread : WF_vars(StartHotRumor(n, t))
    /\ \A n, p \in Node : WF_vars(Capture(n, p)) /\ WF_vars(CoolRumors(n, p))
    /\ \A n, p \in Node, k \in Key : WF_vars(Send(n, p, k))
    /\ \A n \in Node : WF_vars(\E m \in net : m.to = n /\ Pull(m))
FairSpec == Spec /\ Fairness

-----------------------------------------------------------------------------
(* Properties.                                                              *)

\* Every variable keeps its type, and no rumor is sent to a member more often
\* than the cool-down limit, although it is made hot while workers send it.
TypeOK ==
    /\ store \in [Node -> [Key -> Rumor]]
    /\ heat \in [Node -> [Key -> [Node -> 0 .. RumorCoolDownLimit]]]
    /\ worker \in [Node -> [Node -> [captured : SUBSET Key, todo : SUBSET Key]]]
    /\ net \subseteq Message
    /\ pend \in [Node -> [Thread -> SUBSET Key]]
    /\ draft \in [Node -> SUBSET [key : Key, rumor : Rumor]]
    /\ disk \in [Node -> [Key -> Rumor]]
    /\ life \in [Node -> 0 .. MaxLife]

\* p holds k in incarnation i or later, or will when it pulls.
Reached(p, k, i) ==
    \/ store[p][k].inc >= i
    \/ \E m \in net : m.to = p /\ m.key = k /\ m.rumor.inc >= i

Settled(n, k) == \A t \in Thread : k \notin pend[n][t]

\* A rumor that has cooled off for a member was sent to it in the incarnation
\* the store holds, also when that changed while a worker was sending an older
\* one and cooled it afterwards (cool_rumors increments what start_hot_rumor
\* has reset).
ColdMeansHeard ==
    \A n \in Node, k \in Key : \A p \in Peer(n) :
        Settled(n, k) /\ heat[n][k][p] >= RumorCoolDownLimit
            => Reached(p, k, store[n][k].inc)

\* Only a restart makes a Supervisor forget: no rumor, however late, replaces a
\* newer one, and a restart of one Supervisor takes nothing from another.
OnlyRestartForgets ==
    [][\A n \in Node, k \in Key :
          store'[n][k].inc >= store[n][k].inc \/ life'[n] # life[n]]_vars

\* What the dat file holds is never newer than the stores, and a restart brings
\* all of it back.
DurableOnceSaved == \A n \in Node, k \in Key : store[n][k].inc >= disk[n][k].inc

\* Once nobody publishes any more, all Supervisors end with the same rumors.
Converges == <>[](\A n, p \in Node : store[n] = store[p])

=============================================================================
