---------------------------- MODULE GossipProofs ----------------------------
(***************************************************************************)
(* Why a cool-down limit of two is enough when no message is lost, for any *)
(* number of Supervisors, rumors and incarnations.                         *)
(***************************************************************************)
EXTENDS Gossip, TLAPS

\* Sends do not fail and nobody is restarted.
Reliable == ~Lossy /\ Mortal = {}

\* A worker only holds rumors that were hot, and nobody else cools them: this
\* is what bounds the heat.  The main thread composes a rumor only after it has
\* made the previous one hot.
Workers ==
    /\ \A n, p \in Node : worker[n][p].todo \subseteq worker[n][p].captured
    /\ \A n, p \in Node : \A k \in worker[n][p].captured :
          heat[n][k][p] < RumorCoolDownLimit
    /\ \A n \in Node : draft[n] # {} => pend[n]["main"] = {}

IInv == TypeOK /\ Workers /\ DurableOnceSaved

\* A worker that captured k before k was made hot again may have sent the older
\* incarnation, and it cools k all the same: heat 1 says nothing.  But a worker
\* that captured k at heat 1 captured it after, so what it sent is current.
Told(n, p, k) ==
    Settled(n, k) =>
        /\ heat[n][k][p] >= 2 => Reached(p, k, store[n][k].inc)
        /\ heat[n][k][p] = 1 /\ k \in worker[n][p].captured \ worker[n][p].todo
              => Reached(p, k, store[n][k].inc)

ToldInv == \A n \in Node, k \in Key : \A p \in Peer(n) : Told(n, p, k)

-----------------------------------------------------------------------------
\* What RumorStore::insert does to the stores and to the threads.
LEMMA InsertType ==
    ASSUME TypeOK, NEW n \in Node, NEW t \in Thread, NEW k \in Key, NEW r \in Rumor,
           Insert(n, t, k, r)
    PROVE  /\ store' \in [Node -> [Key -> Rumor]]
           /\ pend' \in [Node -> [Thread -> SUBSET Key]]
           /\ \A m \in Node, j \in Key : store'[m][j].inc >= store[m][j].inc
           /\ store'[n][k].inc >= r.inc
  <1>1. \A m \in Node, j \in Key : store[m][j].inc \in Nat
    BY DEF TypeOK, Rumor
  <1>2. r.inc \in Nat
    BY DEF Rumor
  <1>3. CASE Newer(store[n][k], r)
    <2>1. /\ store' = [store EXCEPT ![n][k] = r]
          /\ pend' = [pend EXCEPT ![n][t] = {k}]
      BY <1>3 DEF Insert
    <2>2. store \in [Node -> [Key -> Rumor]] /\ pend \in [Node -> [Thread -> SUBSET Key]]
      BY DEF TypeOK
    <2>3. \A m \in Node, j \in Key :
             store'[m][j] = IF m = n /\ j = k THEN r ELSE store[m][j]
      BY <2>1, <2>2
    <2>4. \A m \in Node, j \in Key : store'[m][j].inc >= store[m][j].inc
      BY <1>1, <1>2, <1>3, <2>3 DEF Newer
    <2>5. store'[n][k].inc >= r.inc
      BY <1>2, <2>3
    <2> QED BY <2>1, <2>2, <2>4, <2>5
  <1>4. CASE ~Newer(store[n][k], r)
    BY <1>1, <1>2, <1>4 DEF Insert, TypeOK, Newer
  <1> QED BY <1>3, <1>4

LEMMA IInvInit == Init => IInv
  BY BoundsAssumption
     DEF Init, IInv, TypeOK, Workers, DurableOnceSaved, Rumor, NoRumor, Idle, Thread,
         RumorCoolDownLimit

\* Incarnations can be compared.
LEMMA IncNat ==
    ASSUME TypeOK
    PROVE  \A n \in Node, k \in Key : store[n][k].inc \in Nat /\ disk[n][k].inc \in Nat
  BY DEF TypeOK, Rumor

LEMMA HeatOfHot ==
    ASSUME TypeOK, NEW n \in Node, NEW k \in Key
    PROVE  \A p \in Node : heat[n][k][p] \in 0 .. RumorCoolDownLimit
  BY DEF TypeOK

LEMMA IInvStep == IInv /\ [Next]_vars => IInv'
  <1> SUFFICES ASSUME IInv, [Next]_vars PROVE IInv'
    OBVIOUS
  <1> USE DEF IInv
  <1>1. ASSUME NEW n \in Node, NEW k \in Key, Compose(n, k) PROVE IInv'
    <2> DEFINE d == [key |-> k, rumor |-> [inc |-> store[n][k].inc + 1, life |-> life[n]]]
    <2>1. d \in [key : Key, rumor : Rumor]
      <3>1. store[n][k].inc + 1 \in 0 .. MaxInc
        BY <1>1, IncNat, BoundsAssumption DEF Compose
      <3>2. life[n] \in 0 .. MaxLife
        BY DEF TypeOK
      <3> QED BY <3>1, <3>2 DEF Rumor
    <2>2. draft' = [draft EXCEPT ![n] = {d}] /\ pend[n]["main"] = {}
      BY <1>1 DEF Compose
    <2>3. UNCHANGED <<store, heat, worker, net, pend, disk, life>>
      BY <1>1 DEF Compose
    <2>4. TypeOK'
      BY <2>1, <2>2, <2>3 DEF TypeOK
    <2>5. Workers'
      BY Zenon, <2>2, <2>3 DEF Workers, TypeOK
    <2> QED BY <2>3, <2>4, <2>5 DEF DurableOnceSaved
  <1>2. ASSUME NEW n \in Node, NEW t \in Thread, NEW k \in Key, NEW r \in Rumor,
               Insert(n, t, k, r), net' \subseteq net,
               draft' \in [Node -> SUBSET [key : Key, rumor : Rumor]],
               \A m \in Node : draft'[m] \subseteq draft[m],
               t = "main" => draft'[n] = {},
               UNCHANGED <<heat, worker, disk, life>>
        PROVE  IInv'
    <2>1. TypeOK'
      BY <1>2, InsertType DEF TypeOK
    <2>2. DurableOnceSaved'
      <3>1. \A m \in Node, j \in Key : disk'[m][j].inc = disk[m][j].inc
        BY <1>2
      <3>2. \A m \in Node, j \in Key : store'[m][j].inc \in Nat
        BY <2>1 DEF TypeOK, Rumor
      <3>3. \A m \in Node, j \in Key : store'[m][j].inc >= store[m][j].inc
        BY <1>2, InsertType
      <3>4. \A m \in Node, j \in Key :
               store[m][j].inc \in Nat /\ disk[m][j].inc \in Nat
        BY IncNat
      <3> QED BY <3>1, <3>2, <3>3, <3>4 DEF DurableOnceSaved
    <2>3. \A m \in Node : draft'[m] # {} => pend'[m]["main"] = {}
      <3>1. UNCHANGED pend \/ pend' = [pend EXCEPT ![n][t] = {k}]
        BY <1>2 DEF Insert
      <3>2. "main" \in Thread /\ pend \in [Node -> [Thread -> SUBSET Key]]
        BY DEF Thread, TypeOK
      <3>3. \A m \in Node : m # n \/ t # "main" => pend'[m]["main"] = pend[m]["main"]
        BY <3>1, <3>2
      <3> QED BY <1>2, <3>3 DEF Workers
    <2> QED BY <1>2, <2>1, <2>2, <2>3 DEF Workers
  <1>3. ASSUME NEW n \in Node, Publish(n) PROVE IInv'
    <2>1. PICK d \in draft[n] : /\ Insert(n, "main", d.key, d.rumor)
                               /\ draft' = [draft EXCEPT ![n] = {}]
                               /\ UNCHANGED <<heat, worker, net, disk, life>>
      BY <1>3 DEF Publish
    <2>2. d.key \in Key /\ d.rumor \in Rumor /\ "main" \in Thread
      BY DEF TypeOK, Thread
    <2>3. draft' \in [Node -> SUBSET [key : Key, rumor : Rumor]]
      BY <2>1 DEF TypeOK
    <2>4. draft'[n] = {} /\ \A m \in Node : draft'[m] \subseteq draft[m]
      BY <2>1 DEF TypeOK
    <2> QED BY <1>2, <2>1, <2>2, <2>3, <2>4
  <1>4. ASSUME NEW m \in net, Pull(m) PROVE IInv'
    <2>1. m.to \in Node /\ m.key \in Key /\ m.rumor \in Rumor /\ "pull" \in Thread
      BY DEF TypeOK, Message, Thread
    <2>2. Insert(m.to, "pull", m.key, m.rumor) /\ net' \subseteq net
          /\ UNCHANGED <<heat, worker, draft, disk, life>>
      BY <1>4 DEF Pull
    <2>3. draft' \in [Node -> SUBSET [key : Key, rumor : Rumor]]
      BY <2>2 DEF TypeOK
    <2> QED BY <1>2, <2>1, <2>2, <2>3
  <1>5. ASSUME NEW n \in Node, NEW t \in Thread, StartHotRumor(n, t) PROVE IInv'
    <2>1. /\ heat' \in [Node -> [Key -> [Node -> 0 .. RumorCoolDownLimit]]]
          /\ \A m \in Node, k \in Key, p \in Node :
                heat'[m][k][p] = heat[m][k][p] \/ heat'[m][k][p] = 0
      BY <1>5 DEF StartHotRumor, TypeOK, RumorCoolDownLimit
    <2>2. /\ pend' \in [Node -> [Thread -> SUBSET Key]]
          /\ \A m \in Node : pend'[m]["main"] \subseteq pend[m]["main"]
      BY <1>5 DEF StartHotRumor, TypeOK
    <2>3. UNCHANGED <<store, worker, net, draft, disk, life>>
      BY <1>5 DEF StartHotRumor
    <2>4. TypeOK'
      BY <2>1, <2>2, <2>3 DEF TypeOK
    <2>5. Workers'
      <3>1. \A m, p \in Node : worker[m][p].captured \subseteq Key
        BY DEF TypeOK
      <3>2. ASSUME NEW m \in Node, NEW p \in Node, NEW k \in worker[m][p].captured
            PROVE  heat'[m][k][p] < RumorCoolDownLimit
        <4>1. heat[m][k][p] < RumorCoolDownLimit
          BY DEF Workers
        <4>2. heat'[m][k][p] = heat[m][k][p] \/ heat'[m][k][p] = 0
          BY <2>1, <3>1
        <4> QED BY <4>1, <4>2 DEF RumorCoolDownLimit
      <3> QED BY <2>2, <2>3, <3>2 DEF Workers
    <2> QED BY <2>3, <2>4, <2>5 DEF DurableOnceSaved
  <1>6. ASSUME NEW n \in Node, NEW p \in Node, Capture(n, p) PROVE IInv'
    <2>1. worker' = [worker EXCEPT ![n][p] =
                        [captured |-> HotRumors(n, p), todo |-> HotRumors(n, p)]]
          /\ UNCHANGED <<store, heat, net, pend, draft, disk, life>>
      BY <1>6 DEF Capture
    <2>2. HotRumors(n, p) \subseteq Key
          /\ \A k \in HotRumors(n, p) : heat[n][k][p] < RumorCoolDownLimit
      BY DEF HotRumors
    <2>3. TypeOK'
      BY <2>1, <2>2 DEF TypeOK
    <2>4. \A m, q \in Node :
             worker'[m][q] = IF m = n /\ q = p
                             THEN [captured |-> HotRumors(n, p), todo |-> HotRumors(n, p)]
                             ELSE worker[m][q]
      BY <2>1 DEF TypeOK
    <2>5. Workers'
      BY <2>1, <2>2, <2>4 DEF Workers
    <2> QED BY <2>1, <2>3, <2>5 DEF DurableOnceSaved
  <1>7. ASSUME NEW n \in Node, NEW p \in Node, NEW k \in Key, Send(n, p, k) PROVE IInv'
    <2>1. worker' = [worker EXCEPT ![n][p].todo = @ \ {k}]
          /\ UNCHANGED <<store, heat, pend, draft, disk, life>>
      BY <1>7 DEF Send
    <2>2. net' \subseteq Message
      BY <1>7 DEF Send, TypeOK, Message
    <2>3. TypeOK'
      <3>1. worker \in [Node -> [Node -> [captured : SUBSET Key, todo : SUBSET Key]]]
        BY DEF TypeOK
      <3> DEFINE w == [worker[n][p] EXCEPT !.todo = @ \ {k}]
      <3>2. w \in [captured : SUBSET Key, todo : SUBSET Key]
        <4>1. worker[n][p] \in [captured : SUBSET Key, todo : SUBSET Key]
          BY <3>1
        <4>2. worker[n][p].todo \ {k} \in SUBSET Key
          BY <4>1
        <4> QED BY <4>1, <4>2
      <3>3. worker' = [worker EXCEPT ![n] = [worker[n] EXCEPT ![p] = w]]
        BY <2>1, <3>1
      <3>4. worker' \in [Node -> [Node -> [captured : SUBSET Key, todo : SUBSET Key]]]
        BY Zenon, <3>1, <3>2, <3>3
      <3> QED BY Zenon, <2>1, <2>2, <3>4 DEF TypeOK
    <2>4. \A m, q \in Node : /\ worker'[m][q].captured = worker[m][q].captured
                             /\ worker'[m][q].todo \subseteq worker[m][q].todo
      BY <2>1 DEF TypeOK
    <2>5. Workers'
      BY <2>1, <2>4 DEF Workers
    <2> QED BY <2>1, <2>3, <2>5 DEF DurableOnceSaved
  <1>8. ASSUME NEW n \in Node, NEW p \in Node, ConnectFails(n, p) PROVE IInv'
    <2>1. worker' = [worker EXCEPT ![n][p] = Idle]
          /\ UNCHANGED <<store, heat, net, pend, draft, disk, life>>
      BY <1>8 DEF ConnectFails
    <2>2. TypeOK'
      BY <2>1 DEF TypeOK, Idle
    <2>3. \A m, q \in Node : worker'[m][q] = IF m = n /\ q = p THEN Idle ELSE worker[m][q]
      BY <2>1 DEF TypeOK
    <2>4. Workers'
      BY <2>1, <2>3 DEF Workers, Idle
    <2> QED BY <2>1, <2>2, <2>4 DEF DurableOnceSaved
  <1>9. ASSUME NEW n \in Node, NEW p \in Node, CoolRumors(n, p) PROVE IInv'
    <2>1. worker' = [worker EXCEPT ![n][p] = Idle]
          /\ UNCHANGED <<store, net, pend, draft, disk, life>>
      BY <1>9 DEF CoolRumors
    <2>2. \A k \in worker[n][p].captured : heat[n][k][p] < RumorCoolDownLimit
      BY DEF Workers
    <2> DEFINE cooled == [k \in Key |-> [q \in Node |->
            IF q = p /\ k \in worker[n][p].captured THEN heat[n][k][q] + 1 ELSE heat[n][k][q]]]
    <2>a. heat' = [heat EXCEPT ![n] = cooled] /\ DOMAIN heat = Node
      BY <1>9 DEF CoolRumors, TypeOK
    <2>b. cooled \in [Key -> [Node -> 0 .. RumorCoolDownLimit]]
      <3> SUFFICES ASSUME NEW k \in Key, NEW q \in Node
                   PROVE  cooled[k][q] \in 0 .. RumorCoolDownLimit
        OBVIOUS
      <3> QED BY <2>2, HeatOfHot DEF RumorCoolDownLimit
    <2>3. heat' \in [Node -> [Key -> [Node -> 0 .. RumorCoolDownLimit]]]
      BY <2>a, <2>b DEF TypeOK
    <2>4. \A m, q \in Node, k \in Key :
             m # n \/ q # p => heat'[m][k][q] = heat[m][k][q]
      BY <2>a
    <2>5. TypeOK'
      BY Zenon, <2>1, <2>3 DEF TypeOK, Idle
    <2>6. \A m, q \in Node : /\ worker'[m][q] = IF m = n /\ q = p THEN Idle ELSE worker[m][q]
                             /\ worker[m][q].captured \subseteq Key
      BY <2>1 DEF TypeOK
    <2>7. Workers'
      BY <2>1, <2>4, <2>6 DEF Workers, Idle
    <2> QED BY <2>1, <2>5, <2>7 DEF DurableOnceSaved
  <1>10. ASSUME NEW n \in Node, Persist(n) PROVE IInv'
    <2>1. disk' = [disk EXCEPT ![n] = store[n]]
          /\ UNCHANGED <<store, heat, worker, net, pend, draft, life>>
      BY <1>10 DEF Persist
    <2>2. TypeOK'
      BY <2>1 DEF TypeOK
    <2>3. \A m \in Node : disk'[m] = disk[m] \/ disk'[m] = store[m]
      BY <2>1 DEF TypeOK
    <2>4. DurableOnceSaved'
      BY <2>1, <2>3, IncNat DEF DurableOnceSaved
    <2> QED BY <2>1, <2>2, <2>4 DEF Workers
  <1>11. ASSUME NEW n \in Node, Restart(n) PROVE IInv'
    <2>1. /\ store' = [store EXCEPT ![n] = disk[n]]
          /\ worker' = [worker EXCEPT ![n] = [p \in Node |-> Idle]]
          /\ net' \subseteq net
          /\ pend' = [pend EXCEPT ![n] = [t \in Thread |-> {}]]
          /\ draft' = [draft EXCEPT ![n] = {}]
          /\ life' = [life EXCEPT ![n] = life[n] + 1] /\ life[n] < MaxLife
          /\ UNCHANGED disk
      BY <1>11 DEF Restart, Recovered, TypeOK
    <2>2. /\ heat' \in [Node -> [Key -> [Node -> 0 .. RumorCoolDownLimit]]]
          /\ \A m \in Node : m # n => heat'[m] = heat[m]
      BY <1>11 DEF Restart, TypeOK, RumorCoolDownLimit
    <2>3. /\ store' \in [Node -> [Key -> Rumor]]
          /\ worker' \in [Node -> [Node -> [captured : SUBSET Key, todo : SUBSET Key]]]
          /\ pend' \in [Node -> [Thread -> SUBSET Key]]
          /\ draft' \in [Node -> SUBSET [key : Key, rumor : Rumor]]
      BY <2>1 DEF TypeOK, Idle
    <2>4. life' \in [Node -> 0 .. MaxLife]
      BY <2>1, BoundsAssumption DEF TypeOK
    <2>5. TypeOK'
      BY <2>1, <2>2, <2>3, <2>4 DEF TypeOK
    <2>6. \A m \in Node : store'[m] = IF m = n THEN disk[m] ELSE store[m]
      BY <2>1 DEF TypeOK
    <2>7. DurableOnceSaved'
      BY <2>1, <2>6, IncNat DEF DurableOnceSaved
    <2>8. \A m, p \in Node : worker'[m][p] = IF m = n THEN Idle ELSE worker[m][p]
      BY <2>1 DEF TypeOK
    <2>9. \A m \in Node : /\ draft'[m] = IF m = n THEN {} ELSE draft[m]
                          /\ m # n => pend'[m] = pend[m]
      BY <2>1 DEF TypeOK
    <2>10. Workers'
      <3>1. \A m, p \in Node : worker'[m][p].todo \subseteq worker'[m][p].captured
        BY <2>8 DEF Workers, Idle
      <3>2. ASSUME NEW m \in Node, NEW p \in Node, NEW k \in worker'[m][p].captured
            PROVE  heat'[m][k][p] < RumorCoolDownLimit
        <4>1. m # n /\ k \in worker[m][p].captured
          BY <2>8 DEF Idle
        <4> QED BY <2>2, <4>1 DEF Workers
      <3>3. \A m \in Node : draft'[m] # {} => pend'[m]["main"] = {}
        BY <2>9 DEF Workers
      <3> QED BY <3>1, <3>2, <3>3 DEF Workers
    <2> QED BY <2>5, <2>7, <2>10
  <1>12. CASE UNCHANGED vars
    BY Zenon, <1>12 DEF vars, TypeOK, Workers, DurableOnceSaved
  <1> QED BY <1>1, <1>3, <1>4, <1>5, <1>6, <1>7, <1>8, <1>9, <1>10, <1>11, <1>12 DEF Next

THEOREM InductiveInvariant == Spec => []IInv
  <1> QED BY IInvInit, IInvStep, PTL DEF Spec

\* Types, and with them the bound on the heat: start_hot_rumor and cool_rumors
\* may interleave in any way without a rumor being sent a third time.
THEOREM TypeCorrect == Spec => []TypeOK
  <1>1. IInv => TypeOK
    BY DEF IInv
  <1> QED BY <1>1, InductiveInvariant, PTL

\* What was saved in the dat file is never lost, whenever the restarts happen.
THEOREM SavedIsDurable == Spec => []DurableOnceSaved
  <1>1. IInv => DurableOnceSaved
    BY ZenonT(20) DEF IInv
  <1> QED BY <1>1, InductiveInvariant, PTL

\* No step but a restart replaces a stored rumor by an older one.
THEOREM RestartsAlone == Spec => OnlyRestartForgets
  <1>1. ASSUME IInv, [Next]_vars
        PROVE  [\A n \in Node, k \in Key :
                  store'[n][k].inc >= store[n][k].inc \/ life'[n] # life[n]]_vars
    <2> USE <1>1 DEF IInv
    <2>1. \A n \in Node, k \in Key : store[n][k].inc \in Nat
      BY IncNat
    <2>2. CASE UNCHANGED store
      BY <2>1, <2>2
    <2>3. ASSUME NEW n \in Node, Publish(n)
          PROVE  \A m \in Node, j \in Key : store'[m][j].inc >= store[m][j].inc
      <3>1. PICK d \in draft[n] : Insert(n, "main", d.key, d.rumor)
        BY <2>3 DEF Publish
      <3>2. d.key \in Key /\ d.rumor \in Rumor /\ "main" \in Thread
        BY DEF TypeOK, Thread
      <3> QED BY <3>1, <3>2, InsertType
    <2>4. ASSUME NEW m \in net, Pull(m)
          PROVE  \A n \in Node, k \in Key : store'[n][k].inc >= store[n][k].inc
      <3>1. m.to \in Node /\ m.key \in Key /\ m.rumor \in Rumor /\ "pull" \in Thread
        BY DEF TypeOK, Message, Thread
      <3> QED BY <2>4, <3>1, InsertType DEF Pull
    <2>5. ASSUME NEW n \in Node, Restart(n)
          PROVE  \A m \in Node, k \in Key :
                    store'[m][k].inc >= store[m][k].inc \/ life'[m] # life[m]
      <3>1. /\ life' = [life EXCEPT ![n] = life[n] + 1]
            /\ store' = [store EXCEPT ![n] = disk[n]]
        BY <2>5 DEF Restart, Recovered, TypeOK
      <3>2. life[n] \in Nat /\ life'[n] = life[n] + 1
        BY <3>1, BoundsAssumption DEF TypeOK
      <3>3. \A m \in Node : m # n => store'[m] = store[m]
        BY <3>1 DEF TypeOK
      <3> QED BY <2>1, <3>2, <3>3
    <2> QED BY <2>2, <2>3, <2>4, <2>5
        DEF Next, vars, Compose, StartHotRumor, Capture, Send, ConnectFails, CoolRumors, Persist
  <1> QED BY <1>1, InductiveInvariant, PTL DEF Spec, OnlyRestartForgets

-----------------------------------------------------------------------------
(* Reliable delivery.                                                       *)

\* Rumors that are held stay held or are replaced by newer ones, and messages
\* leave the network only into the store they are sent to.
Onward ==
    /\ \A n \in Node, k \in Key : store'[n][k].inc >= store[n][k].inc
    /\ \A m \in net : m \in net' \/ store'[m.to][m.key].inc >= m.rumor.inc

LEMMA ReachedStays ==
    ASSUME TypeOK, TypeOK', Onward,
           NEW p \in Node, NEW k \in Key, NEW i \in Nat, Reached(p, k, i)
    PROVE  \/ store'[p][k].inc >= i
           \/ \E m \in net' : m.to = p /\ m.key = k /\ m.rumor.inc >= i
  <1>1. store[p][k].inc \in Nat /\ store'[p][k].inc \in Nat
    BY DEF TypeOK, Rumor
  <1>2. CASE store[p][k].inc >= i
    BY <1>1, <1>2 DEF Onward
  <1>3. CASE \E m \in net : m.to = p /\ m.key = k /\ m.rumor.inc >= i
    <2>1. PICK m \in net : m.to = p /\ m.key = k /\ m.rumor.inc >= i
      BY <1>3
    <2>2. m.rumor.inc \in Nat
      BY DEF TypeOK, Message, Rumor
    <2>3. m \in net' \/ store'[p][k].inc >= m.rumor.inc
      BY ZenonT(20), <2>1 DEF Onward
    <2> QED BY <1>1, <2>1, <2>2, <2>3
  <1> QED BY <1>2, <1>3 DEF Reached

\* A step that neither changes the store, the heat, nor a worker with regard to
\* k keeps what is known of p.
LEMMA ToldStays ==
    ASSUME TypeOK, TypeOK', Onward, ToldInv,
           NEW n \in Node, NEW k \in Key, NEW p \in Peer(n),
           Settled(n, k)' => Settled(n, k) /\ store'[n][k] = store[n][k],
           \/ heat'[n][k][p] = 0
           \/ /\ heat'[n][k][p] = heat[n][k][p]
              /\ k \in worker'[n][p].captured \ worker'[n][p].todo
                    => k \in worker[n][p].captured \ worker[n][p].todo
    PROVE  Told(n, p, k)'
  <1>1. p \in Node /\ Told(n, p, k) /\ store[n][k].inc \in Nat
    BY IncNat DEF Peer, ToldInv
  <1>2. ASSUME Settled(n, k)', Reached(p, k, store[n][k].inc)
        PROVE  Reached(p, k, store[n][k].inc)'
    <2>1. \/ store'[p][k].inc >= store[n][k].inc
          \/ \E m \in net' : m.to = p /\ m.key = k /\ m.rumor.inc >= store[n][k].inc
      BY <1>1, <1>2, ReachedStays
    <2>2. store'[n][k].inc = store[n][k].inc
      BY <1>2
    <2> QED BY <2>1, <2>2 DEF Reached
  <1>3. heat'[n][k][p] = 0 => Told(n, p, k)'
    BY DEF Told
  <1> QED BY <1>1, <1>2, <1>3 DEF Told

LEMMA ToldInit == Init => ToldInv
  BY DEF Init, ToldInv, Told, Reached, NoRumor, Peer, Idle, RumorCoolDownLimit

\* RumorStore::insert by a thread that has nothing left to make hot.
LEMMA ToldInsert ==
    ASSUME IInv, IInv', ToldInv,
           NEW n \in Node, NEW t \in Thread, NEW k \in Key, NEW r \in Rumor,
           Insert(n, t, k, r), pend[n][t] = {},
           \A m \in net : m \in net' \/ m = [to |-> n, key |-> k, rumor |-> r],
           UNCHANGED <<heat, worker>>
    PROVE  ToldInv'
  <1> USE DEF IInv
  <1>1. Onward
    BY InsertType DEF Onward
  <1>2. ASSUME NEW m \in Node, NEW j \in Key, Settled(m, j)'
        PROVE  Settled(m, j) /\ store'[m][j] = store[m][j]
    <2>1. CASE Newer(store[n][k], r)
      <3>1. /\ store' = [store EXCEPT ![n][k] = r]
            /\ pend' = [pend EXCEPT ![n][t] = {k}]
        BY <2>1 DEF Insert
      <3>2. store \in [Node -> [Key -> Rumor]] /\ pend \in [Node -> [Thread -> SUBSET Key]]
        BY DEF TypeOK
      <3>3. ~(m = n /\ j = k)
        BY <1>2, <3>1, <3>2 DEF Settled
      <3>4. store'[m][j] = store[m][j]
        BY <3>1, <3>2, <3>3
      <3>5. \A u \in Thread : pend[m][u] \subseteq pend'[m][u]
        BY <3>1, <3>2
      <3> QED BY <1>2, <3>4, <3>5 DEF Settled
    <2>2. CASE ~Newer(store[n][k], r)
      BY <1>2, <2>2 DEF Insert, Settled
    <2> QED BY <2>1, <2>2
  <1>3. ASSUME NEW m \in Node, NEW j \in Key, NEW p \in Peer(m) PROVE Told(m, p, j)'
    BY <1>1, <1>2, ToldStays
  <1> QED BY <1>3 DEF ToldInv, Peer

LEMMA ToldStep ==
    ASSUME Reliable, IInv, IInv', ToldInv, [Next]_vars
    PROVE  ToldInv'
  <1> USE DEF IInv
  <1>0. \A n \in Node, k \in Key : store[n][k].inc \in Nat
    BY IncNat
  <1>a. UNCHANGED store /\ net \subseteq net' => Onward
    BY <1>0 DEF Onward
  <1>b. ASSUME UNCHANGED <<store, heat, pend>>, net \subseteq net',
               \A n \in Node : \A p \in Peer(n) :
                   worker'[n][p].captured \ worker'[n][p].todo
                       \subseteq worker[n][p].captured \ worker[n][p].todo
        PROVE  ToldInv'
    <2>1. ASSUME NEW n \in Node, NEW k \in Key, NEW p \in Peer(n) PROVE Told(n, p, k)'
      <3>1. Onward
        BY <1>a, <1>b
      <3>2. Settled(n, k)' => Settled(n, k) /\ store'[n][k] = store[n][k]
        BY <1>b DEF Settled
      <3>3. heat'[n][k][p] = heat[n][k][p]
        BY <1>b
      <3>4. k \in worker'[n][p].captured \ worker'[n][p].todo
               => k \in worker[n][p].captured \ worker[n][p].todo
        BY <1>b
      <3> QED BY <3>1, <3>2, <3>3, <3>4, ToldStays
    <2> QED BY <2>1 DEF ToldInv, Peer
  <1>1. ASSUME NEW n \in Node, NEW k \in Key, Compose(n, k) PROVE ToldInv'
    BY <1>1, <1>b DEF Compose
  <1>2. ASSUME NEW n \in Node, Publish(n) PROVE ToldInv'
    <2>1. PICK d \in draft[n] : /\ Insert(n, "main", d.key, d.rumor)
                               /\ UNCHANGED <<heat, worker, net>>
      BY <1>2 DEF Publish
    <2>2. d.key \in Key /\ d.rumor \in Rumor /\ "main" \in Thread
      BY DEF TypeOK, Thread
    <2>3. pend[n]["main"] = {}
      BY <2>1 DEF Workers
    <2> QED BY <2>1, <2>2, <2>3, ToldInsert
  <1>3. ASSUME NEW m \in net, Pull(m) PROVE ToldInv'
    <2>1. m.to \in Node /\ m.key \in Key /\ m.rumor \in Rumor /\ "pull" \in Thread
          /\ m = [to |-> m.to, key |-> m.key, rumor |-> m.rumor]
      BY DEF TypeOK, Message, Thread
    <2>2. /\ pend[m.to]["pull"] = {} /\ Insert(m.to, "pull", m.key, m.rumor)
          /\ net' = net \ {m} /\ UNCHANGED <<heat, worker>>
      BY <1>3 DEF Pull
    <2> QED BY <2>1, <2>2, ToldInsert
  <1>4. ASSUME NEW n \in Node, NEW t \in Thread, StartHotRumor(n, t) PROVE ToldInv'
    <2>1. ASSUME NEW m \in Node, NEW k \in Key, NEW p \in Peer(m) PROVE Told(m, p, k)'
      <3>1. Onward
        BY <1>4, <1>a DEF StartHotRumor
      <3>2. p \in Node
        BY DEF Peer
      <3>3. /\ heat'[m][k][p] = IF m = n /\ k \in pend[n][t] THEN 0 ELSE heat[m][k][p]
            /\ UNCHANGED <<store, worker>>
        BY <1>4, <3>2 DEF StartHotRumor, TypeOK
      <3>4. \A u \in Thread : pend[m][u] \ pend'[m][u] \subseteq
                                 IF m = n THEN pend[n][t] ELSE {}
        BY <1>4 DEF StartHotRumor, TypeOK
      <3>5. CASE m = n /\ k \in pend[n][t]
        BY <3>3, <3>5 DEF Told
      <3>6. CASE ~(m = n /\ k \in pend[n][t])
        <4>1. Settled(m, k)' => Settled(m, k)
          BY <3>4, <3>6 DEF Settled
        <4> QED BY <3>1, <3>3, <3>6, <4>1, ToldStays
      <3> QED BY <3>5, <3>6
    <2> QED BY <2>1 DEF ToldInv, Peer
  <1>5. ASSUME NEW n \in Node, NEW p \in Node, Capture(n, p) PROVE ToldInv'
    <2>1. worker' = [worker EXCEPT ![n][p] =
                        [captured |-> HotRumors(n, p), todo |-> HotRumors(n, p)]]
          /\ UNCHANGED <<store, heat, net, pend>>
      BY <1>5 DEF Capture
    <2>2. \A m, q \in Node :
             worker'[m][q].captured \ worker'[m][q].todo
                 \subseteq worker[m][q].captured \ worker[m][q].todo
      BY <2>1 DEF TypeOK
    <2> QED BY <1>b, <2>1, <2>2 DEF Peer
  <1>6. ASSUME NEW n \in Node, NEW p \in Node, NEW k \in Key, Send(n, p, k) PROVE ToldInv'
    <2> DEFINE msg == [to |-> p, key |-> k, rumor |-> store[n][k]]
    <2>1. /\ worker' = [worker EXCEPT ![n][p].todo = @ \ {k}]
          /\ UNCHANGED <<store, heat, pend>>
          /\ net' = net \cup {msg}
      BY <1>6 DEF Send, Reliable
    <2>2. ASSUME NEW m \in Node, NEW j \in Key, NEW q \in Peer(m) PROVE Told(m, q, j)'
      <3>1. CASE m = n /\ q = p /\ j = k
        <4>1. msg \in net' /\ msg.to = q /\ msg.key = j /\ msg.rumor.inc >= store'[m][j].inc
          BY <1>0, <2>1, <3>1
        <4>2. Reached(q, j, store[m][j].inc)'
          BY <4>1 DEF Reached
        <4> QED BY <4>2 DEF Told
      <3>2. CASE ~(m = n /\ q = p /\ j = k)
        <4>1. j \in worker'[m][q].captured \ worker'[m][q].todo
                 => j \in worker[m][q].captured \ worker[m][q].todo
          BY <2>1, <3>2 DEF TypeOK, Peer
        <4>2. Settled(m, j)' => Settled(m, j) /\ store'[m][j] = store[m][j]
          BY <2>1 DEF Settled
        <4>3. heat'[m][j][q] = heat[m][j][q] /\ Onward
          BY <1>a, <2>1
        <4> QED BY <4>1, <4>2, <4>3, ToldStays
      <3> QED BY <3>1, <3>2
    <2> QED BY <2>2 DEF ToldInv, Peer
  <1>7. ASSUME NEW n \in Node, NEW p \in Node, CoolRumors(n, p) PROVE ToldInv'
    <2>1. /\ worker' = [worker EXCEPT ![n][p] = Idle] /\ worker[n][p].todo = {}
          /\ UNCHANGED <<store, net, pend>>
      BY <1>7 DEF CoolRumors
    <2>2. \A m, q \in Node : worker'[m][q] = IF m = n /\ q = p THEN Idle ELSE worker[m][q]
      BY <2>1 DEF TypeOK
    <2>3. \A m, q \in Node, j \in Key :
             heat'[m][j][q] = IF m = n /\ q = p /\ j \in worker[n][p].captured
                              THEN heat[m][j][q] + 1 ELSE heat[m][j][q]
      BY <1>7 DEF CoolRumors, TypeOK
    <2>4. Onward
      BY <1>a, <2>1
    <2>5. ASSUME NEW m \in Node, NEW j \in Key, NEW q \in Peer(m) PROVE Told(m, q, j)'
      <3>1. q \in Node /\ heat[m][j][q] \in Nat
        BY HeatOfHot DEF Peer, RumorCoolDownLimit
      <3>2. Settled(m, j)' => Settled(m, j) /\ store'[m][j] = store[m][j]
        BY ZenonT(20), <2>1 DEF Settled
      <3>3. CASE m = n /\ q = p /\ j \in worker[n][p].captured
        <4>1. /\ heat'[m][j][q] = heat[m][j][q] + 1 /\ heat[m][j][q] < 2
              /\ j \in worker[m][q].captured \ worker[m][q].todo
              /\ worker'[m][q].captured = {}
          BY <2>1, <2>2, <2>3, <3>1, <3>3 DEF Workers, Idle, RumorCoolDownLimit
        <4>2. heat[m][j][q] = 1 /\ Settled(m, j) => Reached(q, j, store[m][j].inc)
          BY <4>1 DEF ToldInv, Told
        <4>3. Reached(q, j, store[m][j].inc) => Reached(q, j, store[m][j].inc)'
          BY <2>1 DEF Reached
        <4>4. heat'[m][j][q] >= 2 => heat[m][j][q] = 1
          BY <3>1, <4>1
        <4> QED BY <3>2, <4>1, <4>2, <4>3, <4>4 DEF Told
      <3>4. CASE ~(m = n /\ q = p /\ j \in worker[n][p].captured)
        <4>1. heat'[m][j][q] = heat[m][j][q]
          BY <2>3, <3>1, <3>4
        <4>2. j \in worker'[m][q].captured \ worker'[m][q].todo
                 => j \in worker[m][q].captured \ worker[m][q].todo
          BY <2>2, <3>1 DEF Idle
        <4> QED BY <2>4, <3>2, <4>1, <4>2, ToldStays
      <3> QED BY <3>3, <3>4
    <2> QED BY <2>5 DEF ToldInv, Peer
  <1>8. CASE UNCHANGED vars
    BY <1>8, <1>b DEF vars
  <1>9. \A n \in Node : /\ ~Restart(n) /\ ~Persist(n)
                        /\ \A p \in Node : ~ConnectFails(n, p)
    BY DEF Reliable, Restart, Persist, ConnectFails
  <1> QED BY <1>1, <1>2, <1>3, <1>4, <1>5, <1>6, <1>7, <1>8, <1>9 DEF Next

\* Without losses and restarts a rumor cools off for a member only after the
\* member was sent what the store holds now.  A limit of one would not do.
THEOREM NothingColdUnheard == Reliable => (Spec => []ColdMeansHeard)
  <1> SUFFICES ASSUME Reliable PROVE Spec => []ColdMeansHeard
    OBVIOUS
  <1>1. ASSUME IInv, ToldInv, [Next]_vars PROVE IInv' /\ ToldInv'
    BY <1>1, IInvStep, ToldStep
  <1>2. IInv /\ ToldInv => ColdMeansHeard
    BY DEF ToldInv, Told, ColdMeansHeard, RumorCoolDownLimit
  <1> QED BY <1>1, <1>2, IInvInit, ToldInit, PTL DEF Spec

=============================================================================
