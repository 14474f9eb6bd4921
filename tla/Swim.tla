-------------------------------- MODULE Swim --------------------------------
(***************************************************************************)
(* The failure detector of butterfly: the outbound thread that probes the  *)
(* members, the inbound thread that answers, the membership rumors on      *)
(* their packets, the push of those rumors, the expire thread, and the     *)
(* refutation of false suspicions (components/butterfly/src/server).       *)
(*                                                                         *)
(* MemberList::insert is one step here (InsertRow of MemberListOps); what  *)
(* its locks allow in between is the subject of MemberList, and what a     *)
(* push worker allows the subject of Gossip.  A packet holds five hot      *)
(* rumors, so an instance has at most five members.                        *)
(***************************************************************************)
EXTENDS MemberListOps, Sequences, FiniteSets

CONSTANTS
    Node,        \* the member ids
    None,        \* no member
    Seed,        \* Seed[n]: the one initial member of n, or None
    Founder,     \* the members that know each other when we start looking
    Persistent,  \* the members started as permanent peers
    Pusher,      \* the members whose push threads are looked at
    Mortal,      \* the members that may stop
    Graceful,    \* those of them that depart when they stop
    Overdue,     \* the members whose departure timers may run out
    Diskless,    \* the members that start again without a dat file
    MaxLife,     \* how often a member may be started again
    MaxRound,    \* MaxRound[n]: bound on the rounds of n's outbound thread, or None
    MaxLost,     \* bound on the packets lost
    MaxLate      \* bound on the timeouts that are too early

ASSUME NodeAssumption ==
    /\ IsFiniteSet(Node)
    /\ Seed \in [Node -> Node \cup {None}] /\ None \notin Node
    /\ Founder \subseteq Node /\ Persistent \subseteq Node /\ Pusher \subseteq Node
    /\ Mortal \subseteq Node /\ Graceful \subseteq Mortal
    /\ Overdue \subseteq Node /\ Diskless \subseteq Node
ASSUME BoundsAssumption ==
    /\ MaxRound \in [Node -> Nat \cup {None}]
    /\ MaxLife \in Nat /\ MaxLost \in Nat /\ MaxLate \in Nat

VARIABLES
    me,     \* me[n]: n's record of itself, its incarnation and its departed flag
    row,    \* row[n][m]: what the member list of n holds for m
    heat,   \* heat[n][m][p]: how often n has sent its Member rumor of m to p
    list,   \* list[n]: the members the outbound thread of n has yet to probe
    probe,  \* probe[n]: the phase of the outbound thread, the record it probes
    acks,   \* acks[n]: what the inbound thread of n passed on to the outbound one
    net,    \* the packets and the pushed rumors under way
    round,  \* round[n]: rounds of the outbound thread of n, counted if there is a bound
    up,     \* the members that run
    life,   \* life[n]: how often n was started again
    lost,   \* packets lost so far
    late    \* timeouts that were too early so far

vars == <<me, row, heat, list, probe, acks, net, round, up, life, lost, late>>
faults == <<round, up, life, lost, late>>

RumorCoolDownLimit == 2
PingReqTargets == 5
Self == [inc : Nat, departed : BOOLEAN]
Record == [id : Node, inc : Nat]
Membership == [id : Node, inc : Nat, health : Health]
\* A ping or an ack carries the record of the member it is from, the member its
\* answer is to be forwarded to, and memberships: the status of the member it is
\* addressed to, and the hot rumors.
Packet == [kind : {"ping", "ack"}, from : Node, to : Node, self : Self,
           fwd : Node \cup {None}, always : SUBSET Membership, hot : SUBSET Membership]
PingReq == [kind : {"pingreq"}, from : Node, to : Node, target : Node]
Pushed == [kind : {"rumor"}, from : Node, to : Node, hot : SUBSET Membership]
Ack == [from : Node, self : Self]
Probe == [phase : {"ping", "pingreq"}, of : Record] \cup [phase : {"idle"}]
Unstarted == [m \in Node |-> [p \in Node |-> RumorCoolDownLimit]]
NoMembers == [m \in Node |-> EmptyRow]

-----------------------------------------------------------------------------
(* What a packet carries.                                                   *)

Known(n) == {m \in Node : HasRecord(row[n][m])}
Hot(n, p) == {m \in Node : heat[n][m][p] < RumorCoolDownLimit}

MembershipFor(n, m) ==
    {[id |-> x, inc |-> row[n][x].inc, health |-> row[n][x].health] : x \in Known(n) \cap {m}}
HotFor(n, t) == UNION {MembershipFor(n, m) : m \in Hot(n, t)}

AlwaysTarget(n, t) == MembershipFor(n, t)

\* populate_membership_rumors for a member t.
PingOrAck(kind, n, t, fwd) ==
    [kind |-> kind, from |-> n, to |-> t, self |-> me[n], fwd |-> fwd,
     always |-> AlwaysTarget(n, t), hot |-> HotFor(n, t)]

\* Mutant: a rumor goes on cooling when it is cold.
Cooled_PastLimit(n, t, k) ==
    [m \in Node |-> [heat[n][m] EXCEPT ![t] =
        IF PersistentAndConfirmed(row[n][t], t \in Persistent) THEN @ ELSE @ + k]]
\* The heat of n once it has populated k packets for t.
Cooled(n, t, k) ==
    [m \in Node |-> [heat[n][m] EXCEPT ![t] =
        IF PersistentAndConfirmed(row[n][t], t \in Persistent) THEN @
        ELSE IF @ + k > RumorCoolDownLimit THEN RumorCoolDownLimit ELSE @ + k]]

-----------------------------------------------------------------------------
(* insert_member and insert_member_from_rumors.                             *)

StatusOf(self) == IF self.departed THEN "Departed" ELSE "Alive"
InsertSelf(rows, m, self) == [rows EXCEPT ![m] = InsertRow(@, self.inc, StatusOf(self))]

\* start_hot_rumor for every id in ids.
Started(h, ids) == [m \in Node |-> IF m \in ids THEN [p \in Node |-> 0] ELSE h[m]]
Changed(n, rows) == {m \in Node : rows[m] # row[n][m]}

HealthAbout(n, e) == IF e.id = n THEN "Alive" ELSE e.health

\* The list rows of n once the rumors es are inserted, of which no two are about
\* the same member.
Heard(n, rows, es) ==
    [m \in Node |->
        IF \E e \in es : e.id = m
        THEN LET e == CHOOSE x \in es : x.id = m
             IN  InsertRow(rows[m], e.inc, HealthAbout(n, e))
        ELSE rows[m]]

Against(n, es) == IF \E e \in es : e.id = n /\ e.health # "Alive" THEN 1 ELSE 0

\* Mutant: the suspicion is refuted with the incarnation it is about.
Refutations_None(n, m) == 0
\* How often n raises its incarnation over the rumors of packet m.
Refutations(n, m) == Against(n, m.always) + Against(n, m.hot)

\* n takes in the rumors of packet m; its list and its heat are rows and h.
TakeRumors(n, m, rows, h) ==
    LET then == Heard(n, Heard(n, rows, m.always), m.hot)
        bump == Refutations(n, m)
    IN  /\ row' = [row EXCEPT ![n] = then]
        /\ me' = [me EXCEPT ![n].inc = @ + bump]
        /\ heat' = [heat EXCEPT ![n] =
                       Started(h, Changed(n, then) \cup (IF bump > 0 THEN {n} ELSE {}))]

-----------------------------------------------------------------------------
\* The founders have exchanged pings until no rumor was hot; the others know
\* nobody yet.
Init ==
    /\ me = [n \in Node |-> [inc |-> 0, departed |-> FALSE]]
    /\ row = [n \in Node |-> [m \in Node |-> IF {n, m} \subseteq Founder
                                            THEN InsertRow(EmptyRow, 0, "Alive") ELSE EmptyRow]]
    /\ heat = [n \in Node |-> Unstarted]
    /\ list = [n \in Node |-> {}]
    /\ probe = [n \in Node |-> [phase |-> "idle"]]
    /\ acks = [n \in Node |-> <<>>]
    /\ net = {} /\ round = [n \in Node |-> 0] /\ up = Node
    /\ life = [n \in Node |-> 0] /\ lost = 0 /\ late = 0

(***************************************************************************)
(* The outbound thread.  Between two rounds it pings its initial members   *)
(* until it knows enough members, and takes a snapshot of its member list. *)
(***************************************************************************)
\* Packets of a probe of t by n that are still under way.
UnderWay(n, t) ==
    {m \in net : \/ m.kind = "ping" /\ m.to = t /\ (m.from = n \/ m.fwd = n)
                 \/ m.kind = "ack" /\ m.from = t /\ (m.to = n \/ m.fwd = n)
                 \/ m.kind = "pingreq" /\ m.from = n /\ m.target = t}

\* Bound: the initial member is not pinged again once it has answered.
BootPing(n) ==
    /\ n \in up /\ probe[n].phase = "idle" /\ list[n] = {}
    /\ Seed[n] # None /\ Known(n) = {}
    /\ acks[n] = <<>> /\ UnderWay(n, Seed[n]) = {}
    /\ net' = net \cup {PingOrAck("ping", n, Seed[n], None)}
    /\ UNCHANGED <<me, row, heat, list, probe, acks, faults>>

CheckList(n) ==
    /\ n \in up /\ probe[n].phase = "idle" /\ list[n] = {}
    /\ list' = [list EXCEPT ![n] = {[id |-> m, inc |-> row[n][m].inc] : m \in Known(n) \ {n}}]
    /\ IF MaxRound[n] = None THEN round' = round
       ELSE round[n] < MaxRound[n] /\ round' = [round EXCEPT ![n] = @ + 1]
    /\ UNCHANGED <<me, row, heat, probe, acks, net, up, life, lost, late>>

\* The next member of the snapshot is probed if its health allows it now.
BeginProbe(n, e) ==
    /\ n \in up /\ probe[n].phase = "idle" /\ e \in list[n]
    /\ list' = [list EXCEPT ![n] = @ \ {e}]
    /\ IF Pingable(row[n][e.id], e.id \in Persistent)
       THEN /\ net' = net \cup {PingOrAck("ping", n, e.id, None)}
            /\ heat' = [heat EXCEPT ![n] = Cooled(n, e.id, 1)]
            /\ probe' = [probe EXCEPT ![n] = [phase |-> "ping", of |-> e]]
       ELSE UNCHANGED <<net, heat, probe>>
    /\ UNCHANGED <<me, row, acks, faults>>

\* recv_ack: whichever member the ack is from is inserted; the one awaited ends
\* the probe.  An ack that came too late for its probe is still in the channel.
RecvAckFromInbound(n) ==
    /\ n \in up /\ probe[n].phase # "idle" /\ acks[n] # <<>>
    /\ LET a    == Head(acks[n])
           then == InsertSelf(row[n], a.from, a.self)
       IN  /\ row' = [row EXCEPT ![n] = then]
           /\ heat' = [heat EXCEPT ![n] = Started(@, Changed(n, then))]
           /\ probe' = IF a.from = probe[n].of.id
                       THEN [probe EXCEPT ![n] = [phase |-> "idle"]] ELSE probe
    /\ acks' = [acks EXCEPT ![n] = Tail(@)]
    /\ UNCHANGED <<me, list, net, faults>>

\* Mutant: the time is up although an answer waits in the channel.
TimesOut_AnswerWaiting(n, phase) ==
    /\ n \in up /\ probe[n].phase = phase
    /\ UnderWay(n, probe[n].of.id) = {} /\ late' = late
\* The channel is empty and the time is up.  That is too early if packets of the
\* probe are still under way.
TimesOut(n, phase) ==
    /\ n \in up /\ probe[n].phase = phase /\ acks[n] = <<>>
    /\ \/ UnderWay(n, probe[n].of.id) = {} /\ late' = late
       \/ UnderWay(n, probe[n].of.id) # {} /\ late < MaxLate /\ late' = late + 1

\* At most PINGREQ_TARGETS of the members believed alive are asked, in no order.
\* A PingReq is populated with the rumors hot for the member probed; the member
\* it is sent to reads none of them.
PingTimeout(n) ==
    /\ TimesOut(n, "ping")
    /\ LET t == probe[n].of.id
           alive == {m \in Node \ {n, t} : HasRecord(row[n][m]) /\ row[n][m].health = "Alive"}
       IN  \E count \in 0..PingReqTargets, helpers \in SUBSET alive :
              /\ count = Cardinality(helpers)
              /\ helpers = alive \/ count = PingReqTargets
              /\ net' = net \cup {[kind |-> "pingreq", from |-> n, to |-> m, target |-> t] :
                                     m \in helpers}
              /\ heat' = [heat EXCEPT ![n] = Cooled(n, t, count)]
    /\ probe' = [probe EXCEPT ![n].phase = "pingreq"]
    /\ UNCHANGED <<me, row, list, acks, round, up, life, lost>>

\* The record inserted as Suspect is the one of the snapshot.
PingReqTimeout(n) ==
    /\ TimesOut(n, "pingreq")
    /\ LET e    == probe[n].of
           then == [row[n] EXCEPT ![e.id] = InsertRow(@, e.inc, "Suspect")]
       IN  /\ row' = [row EXCEPT ![n] = then]
           /\ heat' = [heat EXCEPT ![n] = Started(@, Changed(n, then))]
    /\ probe' = [probe EXCEPT ![n] = [phase |-> "idle"]]
    /\ UNCHANGED <<me, list, acks, net, round, up, life, lost>>

(***************************************************************************)
(* The inbound thread.                                                     *)
(***************************************************************************)
\* Mutant: the sender of a ping is not inserted.
ProcessPing_SenderForgotten(n, m) ==
    /\ n \in up /\ m \in net /\ m.kind = "ping" /\ m.to = n
    /\ net' = (net \ {m}) \cup {PingOrAck("ack", n, m.from, m.fwd)}
    /\ TakeRumors(n, m, row[n], Cooled(n, m.from, 1))
    /\ UNCHANGED <<list, probe, acks, faults>>
\* The ack is populated before the ping's sender and its rumors are inserted.
ProcessPing(n, m) ==
    /\ n \in up /\ m \in net /\ m.kind = "ping" /\ m.to = n
    /\ net' = (net \ {m}) \cup {PingOrAck("ack", n, m.from, m.fwd)}
    /\ TakeRumors(n, m, InsertSelf(row[n], m.from, m.self), Cooled(n, m.from, 1))
    /\ UNCHANGED <<list, probe, acks, faults>>

\* The rumors of a PingReq are not read, its target is looked up in the list.
ProcessPingReq(n, m) ==
    /\ n \in up /\ m \in net /\ m.kind = "pingreq" /\ m.to = n
    /\ IF HasRecord(row[n][m.target])
       THEN /\ net' = (net \ {m}) \cup {PingOrAck("ping", n, m.target, m.from)}
            /\ heat' = [heat EXCEPT ![n] = Cooled(n, m.target, 1)]
       ELSE net' = net \ {m} /\ heat' = heat
    /\ UNCHANGED <<me, row, list, probe, acks, faults>>

\* An ack for another member is forwarded as it is.  Any other goes to the
\* outbound thread first; then its rumors are inserted.
ProcessAck(n, m) ==
    /\ n \in up /\ m \in net /\ m.kind = "ack" /\ m.to = n
    /\ IF m.fwd \notin {None, n}
       THEN /\ net' = (net \ {m}) \cup {[m EXCEPT !.to = m.fwd]}
            /\ UNCHANGED <<me, row, heat, acks>>
       ELSE /\ net' = net \ {m}
            /\ acks' = [acks EXCEPT ![n] = Append(@, [from |-> m.from, self |-> m.self])]
            /\ TakeRumors(n, m, row[n], heat[n])
    /\ UNCHANGED <<list, probe, faults>>

(***************************************************************************)
(* The push threads and the pull thread, as far as Member rumors go.       *)
(***************************************************************************)
Push(n, p) ==
    /\ n \in up \cap Pusher /\ p \in Known(n) \ {n}
    /\ Pingable(row[n][p], p \in Persistent)
    /\ ~PersistentAndConfirmed(row[n][p], p \in Persistent)
    /\ Hot(n, p) # {}
    /\ net' = net \cup {[kind |-> "rumor", from |-> n, to |-> p, hot |-> {e}] : e \in HotFor(n, p)}
    /\ heat' = [heat EXCEPT ![n] = Cooled(n, p, 1)]
    /\ UNCHANGED <<me, row, list, probe, acks, faults>>

Pull(n, m) ==
    /\ n \in up /\ m \in net /\ m.kind = "rumor" /\ m.to = n
    /\ net' = net \ {m}
    /\ TakeRumors(n, [always |-> {}, hot |-> m.hot], row[n], heat[n])
    /\ UNCHANGED <<list, probe, acks, faults>>

(***************************************************************************)
(* The expire thread.                                                      *)
(***************************************************************************)
\* Mutant: the timer is dropped and the health left as it is.
ExpireSuspect_NotConfirmed(n, m) ==
    /\ n \in up /\ row[n][m].suspect
    /\ row' = [row EXCEPT ![n][m].suspect = FALSE]
    /\ heat' = [heat EXCEPT ![n] = Started(@, {m})]
    /\ UNCHANGED <<me, list, probe, acks, net, faults>>
\* The suspicion timer of m runs out at n.
ExpireSuspect(n, m) ==
    /\ n \in up /\ row[n][m].suspect
    /\ row' = [row EXCEPT ![n][m] =
                  [HealthRow(row[n][m], "Confirmed") EXCEPT !.suspect = FALSE, !.depart = TRUE]]
    /\ heat' = [heat EXCEPT ![n] = Started(@, {m})]
    /\ UNCHANGED <<me, list, probe, acks, net, faults>>

\* The departure timer of m runs out at n, three days later.
ExpireDeparture(n, m) ==
    /\ n \in up /\ m \in Overdue /\ row[n][m].depart
    /\ row' = [row EXCEPT ![n][m] = [HealthRow(row[n][m], "Departed") EXCEPT !.depart = FALSE]]
    /\ heat' = [heat EXCEPT ![n] = Started(@, {m})]
    /\ UNCHANGED <<me, list, probe, acks, net, faults>>

(***************************************************************************)
(* Packets may be lost, members may stop and start again.                  *)
(***************************************************************************)
Lose(m) ==
    /\ m \in net /\ m.to \in up /\ lost < MaxLost
    /\ net' = net \ {m} /\ lost' = lost + 1
    /\ UNCHANGED <<me, row, heat, list, probe, acks, round, up, life, late>>

NobodyThere(m) ==
    /\ m \in net /\ m.to \notin up
    /\ net' = net \ {m}
    /\ UNCHANGED <<me, row, heat, list, probe, acks, faults>>

Stopped(n) ==
    /\ up' = up \ {n}
    /\ list' = [list EXCEPT ![n] = {}]
    /\ probe' = [probe EXCEPT ![n] = [phase |-> "idle"]]
    /\ acks' = [acks EXCEPT ![n] = <<>>]
    /\ UNCHANGED <<round, life, lost, late>>

Crash(n) ==
    /\ n \in Mortal \cap up
    /\ Stopped(n)
    /\ UNCHANGED <<me, row, heat, net>>

\* Mutant: the raised incarnation is sent and not kept.
SetDeparted_NotKept(n) ==
    /\ n \in Graceful \cap up
    /\ LET self == [inc |-> me[n].inc + 1, departed |-> TRUE]
       IN  net' = net \cup {[PingOrAck("ack", n, m, None) EXCEPT !.self = self] :
                               m \in Known(n) \ {n}}
    /\ row' = [row EXCEPT ![n][n] = HealthRow(@, "Departed")]
    /\ UNCHANGED <<me, heat>>
    /\ Stopped(n)
\* set_departed, on the way out: an ack nobody asked for to every member known.
SetDeparted(n) ==
    /\ n \in Graceful \cap up
    /\ LET self == [inc |-> me[n].inc + 1, departed |-> TRUE]
       IN  /\ me' = [me EXCEPT ![n] = self]
           /\ net' = net \cup {[PingOrAck("ack", n, m, None) EXCEPT !.self = self] :
                                  m \in Known(n) \ {n}}
    /\ row' = [row EXCEPT ![n][n] = HealthRow(@, "Departed")]
    /\ heat' = heat
    /\ Stopped(n)

\* A member keeps its id and forgets its incarnation.  Its list is the one of its
\* dat file, the records and healths and none of the timers, or it is empty.
Reload(r) == IF HasRecord(r) THEN InsertRow(EmptyRow, r.inc, r.health) ELSE EmptyRow
Start(n) ==
    /\ n \notin up /\ life[n] < MaxLife
    /\ up' = up \cup {n} /\ life' = [life EXCEPT ![n] = @ + 1]
    /\ me' = [me EXCEPT ![n] = [inc |-> 0, departed |-> FALSE]]
    /\ LET rows == IF n \in Diskless THEN NoMembers ELSE [m \in Node |-> Reload(row[n][m])]
       IN  /\ row' = [row EXCEPT ![n] = rows]
           /\ heat' = [heat EXCEPT ![n] = Started(Unstarted, {m \in Node : HasRecord(rows[m])})]
    /\ UNCHANGED <<list, probe, acks, net, round, lost, late>>

-----------------------------------------------------------------------------
Outbound(n) ==
    \/ BootPing(n) \/ CheckList(n) \/ RecvAckFromInbound(n)
    \/ PingTimeout(n) \/ PingReqTimeout(n)
    \/ \E e \in list[n] : BeginProbe(n, e)

\* n takes a packet or a pushed rumor of the given kind from p.
Kind == {"ping", "ack", "pingreq", "rumor"}
Inbound(n, p, kind) ==
    \E m \in net :
        /\ m.from = p /\ m.kind = kind
        /\ \/ ProcessPing(n, m) \/ ProcessPingReq(n, m)
           \/ ProcessAck(n, m) \/ Pull(n, m)

Next ==
    \/ \E n \in Node : Outbound(n) \/ Crash(n) \/ SetDeparted(n) \/ Start(n)
    \/ \E n, p \in Node, kind \in Kind : Inbound(n, p, kind)
    \/ \E n, m \in Node : Push(n, m) \/ ExpireSuspect(n, m) \/ ExpireDeparture(n, m)
    \/ \E m \in net : Lose(m) \/ NobodyThere(m)

Spec == Init /\ [][Next]_vars

\* The threads keep running; a packet not lost arrives; a suspicion timer, once
\* set, runs out.
Fairness ==
    /\ \A n \in Node : WF_vars(Outbound(n))
    /\ \A n, p \in Node, kind \in Kind : WF_vars(Inbound(n, p, kind))
    /\ \A n, m \in Node : WF_vars(Push(n, m)) /\ WF_vars(ExpireSuspect(n, m))
    /\ WF_vars(\E m \in net : NobodyThere(m))

FairSpec == Spec /\ Fairness

-----------------------------------------------------------------------------
TypeOK ==
    /\ me \in [Node -> Self]
    /\ row \in [Node -> [Node -> Row]]
    /\ heat \in [Node -> [Node -> [Node -> 0 .. RumorCoolDownLimit]]]
    /\ list \in [Node -> SUBSET Record]
    /\ probe \in [Node -> Probe]
    /\ acks \in [Node -> Seq(Ack)]
    /\ net \subseteq Packet \cup PingReq \cup Pushed
    /\ round \in [Node -> Nat] /\ up \subseteq Node /\ life \in [Node -> Nat] /\ lost \in Nat /\ late \in Nat

\* Nobody holds a newer incarnation of a member than the member itself, in a
\* list, a snapshot, a probe, the channel between its threads or a packet, as long
\* as the member has not been started again with incarnation 0.  So raising the own
\* incarnation once refutes whatever is said (insert_member_from_rumor).
Fits(m, i) == life[m] = 0 => i <= me[m].inc
OwnIncarnationLeads ==
    /\ \A n, m \in Node : Fits(m, row[n][m].inc)
    /\ \A n \in Node : \A e \in list[n] : Fits(e.id, e.inc)
    /\ \A n \in Node : probe[n].phase # "idle" => Fits(probe[n].of.id, probe[n].of.inc)
    /\ \A n \in Node : \A i \in DOMAIN acks[n] : Fits(acks[n][i].from, acks[n][i].self.inc)
    /\ \A p \in net : p.kind \in {"ping", "ack"} =>
          Fits(p.from, p.self.inc) /\ \A e \in p.always : Fits(e.id, e.inc)
    /\ \A p \in net : p.kind # "pingreq" => \A e \in p.hot : Fits(e.id, e.inc)

\* A member that runs is suspected only if something went wrong more often than
\* the probe allows for: the PingReq phase makes up for one packet lost, or one
\* timeout too early, when every member knows a third one to ask.
Tolerated == IF Founder = Node /\ Cardinality(Node) > 2 THEN 1 ELSE 0
NoFalseSuspicion ==
    (up = Node /\ (\A n \in Node : life[n] = 0) /\ lost + late <= Tolerated) =>
        \A n, m \in Node : row[n][m].health \notin {"Suspect", "Confirmed"}

EveryoneAlive == \A n, m \in up : n # m => row[n][m].health = "Alive"
\* The members that run end up seeing each other Alive and stay that way,
\* whatever they suspected each other of before.
Heals == <>[]EveryoneAlive

Detected == \A n \in up, m \in Node \ up : row[n][m].health \in {"Confirmed", "Departed", NoHealth}
\* A member that is gone for good ends up Confirmed or Departed at all the others
\* that know it.
Detects == <>[]Detected

=============================================================================
