----------------------------- MODULE SwimProofs -----------------------------
(***************************************************************************)
(* Why raising the own incarnation refutes any suspicion: for any number   *)
(* of members, losses, timeouts and restarts, no record of a member is     *)
(* newer than the member itself, unless it was started again.              *)
(*                                                                         *)
(* The second half shows that nobody is suspected in vain: an answer to a  *)
(* probe is on its way or waits, until more goes wrong than is tolerated.  *)
(***************************************************************************)
EXTENDS Swim, FiniteSetTheorems, TLAPS

Heat == [Node -> [Node -> 0 .. RumorCoolDownLimit]]

\* The rows of a list: a record comes with a health, and it is no newer than the
\* member it is about.
GoodRows(rows) ==
    /\ rows \in [Node -> Row]
    /\ \A m \in Node : HasRecord(rows[m]) => rows[m].health \in Health
    /\ \A m \in Node : Fits(m, rows[m].inc)
GoodMembership(es) == es \subseteq Membership /\ \A e \in es : Fits(e.id, e.inc)
GoodPacket(p) ==
    \/ /\ p \in Packet
       /\ Fits(p.from, p.self.inc)
       /\ GoodMembership(p.always) /\ GoodMembership(p.hot)
    \/ p \in PingReq
    \/ p \in Pushed /\ GoodMembership(p.hot)

MeInv == me \in [Node -> Self] /\ life \in [Node -> Nat]
HeatInv == heat \in [Node -> Heat]
RowInv == row \in [Node -> [Node -> Row]] /\ \A n \in Node : GoodRows(row[n])
ListInv ==
    /\ list \in [Node -> SUBSET Record]
    /\ \A n \in Node : \A e \in list[n] : Fits(e.id, e.inc)
ProbeInv ==
    /\ probe \in [Node -> Probe]
    /\ \A n \in Node : probe[n].phase # "idle" => Fits(probe[n].of.id, probe[n].of.inc)
AckInv ==
    /\ acks \in [Node -> Seq(Ack)]
    /\ \A n \in Node : \A i \in DOMAIN acks[n] : Fits(acks[n][i].from, acks[n][i].self.inc)
NetInv == \A p \in net : GoodPacket(p)
CountInv == round \in [Node -> Nat] /\ up \subseteq Node /\ lost \in Nat /\ late \in Nat

IInv == MeInv /\ HeatInv /\ RowInv /\ ListInv /\ ProbeInv /\ AckInv /\ NetInv /\ CountInv

\* What any step may do to the records members hold of themselves.
Grows ==
    /\ MeInv'
    /\ \A m \in Node : life'[m] = 0 => life[m] = 0 /\ me[m].inc <= me'[m].inc

-----------------------------------------------------------------------------
LEMMA IInvImplies == IInv => TypeOK /\ OwnIncarnationLeads
  <1> SUFFICES ASSUME IInv PROVE TypeOK /\ OwnIncarnationLeads
    OBVIOUS
  <1>1. TypeOK
    BY DEF IInv, MeInv, HeatInv, Heat, RowInv, ListInv, ProbeInv, AckInv, NetInv, CountInv,
           GoodPacket, TypeOK
  <1>2. \A p \in net : p.kind \in {"ping", "ack"} =>
          Fits(p.from, p.self.inc) /\ \A e \in p.always : Fits(e.id, e.inc)
    BY DEF IInv, NetInv, GoodPacket, GoodMembership, PingReq, Pushed
  <1>3. \A p \in net : p.kind # "pingreq" => \A e \in p.hot : Fits(e.id, e.inc)
    BY DEF IInv, NetInv, GoodPacket, GoodMembership, PingReq
  <1> QED BY <1>1, <1>2, <1>3, Zenon DEF IInv, RowInv, GoodRows, ListInv, ProbeInv, AckInv,
                                  OwnIncarnationLeads

LEMMA IInvInit == Init => IInv
  <1> SUFFICES ASSUME Init PROVE IInv
    BY Zenon
  <1> USE DEF Init
  <1>1. MeInv /\ CountInv
    BY DEF MeInv, CountInv, Self
  <1>2. HeatInv
    BY DEF HeatInv, Heat, Unstarted, RumorCoolDownLimit
  <1>3. RowInv
    BY DEF RowInv, GoodRows, Row, EmptyRow, InsertRow, ShareRumor, HasRecord, StartSuspicion,
           StopSuspicion, StopDeparture, Fits, NoRecord, NoHealth, Health, HealthOrNone,
           IncarnationOrNone, Incarnation
  <1>4. ListInv /\ ProbeInv /\ AckInv /\ NetInv
    BY DEF ListInv, ProbeInv, AckInv, NetInv, Probe
  <1> QED BY <1>1, <1>2, <1>3, <1>4 DEF IInv

\* What fits goes on fitting.
LEMMA FitsGrows ==
    ASSUME MeInv, Grows, NEW m \in Node, NEW i \in Int, Fits(m, i)
    PROVE  life'[m] = 0 => i <= me'[m].inc
  BY DEF MeInv, Grows, Fits, Self

LEMMA KeepRows ==
    ASSUME MeInv, Grows, NEW rows, GoodRows(rows)
    PROVE  \A m \in Node : life'[m] = 0 => rows[m].inc <= me'[m].inc
  <1>1. \A m \in Node : rows[m].inc \in Int /\ Fits(m, rows[m].inc)
    BY DEF GoodRows, Row, IncarnationOrNone, Incarnation, NoRecord
  <1> QED BY <1>1, FitsGrows

LEMMA KeepMembership ==
    ASSUME MeInv, Grows, NEW es, GoodMembership(es)
    PROVE  \A e \in es : life'[e.id] = 0 => e.inc <= me'[e.id].inc
  <1>1. \A e \in es : e.id \in Node /\ e.inc \in Int /\ Fits(e.id, e.inc)
    BY DEF GoodMembership, Membership
  <1> QED BY <1>1, FitsGrows

\* The invariants of what a step leaves alone, or takes away from.
LEMMA Kept ==
    ASSUME IInv, Grows
    PROVE  /\ UNCHANGED row => RowInv'
           /\ (\A n \in Node : list'[n] \subseteq list[n]) /\ list' \in [Node -> SUBSET Record]
                => ListInv'
           /\ UNCHANGED probe => ProbeInv'
           /\ UNCHANGED acks => AckInv'
           /\ \A p \in net : GoodPacket(p) /\ GoodPacket(p)'
  <1> USE DEF IInv
  <1>1. ASSUME UNCHANGED row PROVE RowInv'
    <2>1. \A n \in Node : \A m \in Node : life'[m] = 0 => row[n][m].inc <= me'[m].inc
      BY KeepRows, Zenon DEF RowInv
    <2> QED BY <1>1, <2>1, Zenon DEF RowInv, GoodRows, Fits
  <1>2. ASSUME \A n \in Node : list'[n] \subseteq list[n], list' \in [Node -> SUBSET Record]
        PROVE  ListInv'
    <2>1. \A n \in Node : \A e \in list[n] : e.id \in Node /\ e.inc \in Int /\ Fits(e.id, e.inc)
      BY DEF ListInv, Record
    <2>2. \A n \in Node : \A e \in list[n] : life'[e.id] = 0 => e.inc <= me'[e.id].inc
      BY <2>1, FitsGrows
    <2> QED BY <1>2, <2>2 DEF ListInv, Fits
  <1>3. ASSUME UNCHANGED probe PROVE ProbeInv'
    <2>1. \A n \in Node : probe[n].phase # "idle" =>
             probe[n].of.id \in Node /\ probe[n].of.inc \in Int
             /\ Fits(probe[n].of.id, probe[n].of.inc)
      BY DEF ProbeInv, Probe, Record
    <2>2. \A n \in Node : probe[n].phase # "idle" =>
             (life'[probe[n].of.id] = 0 => probe[n].of.inc <= me'[probe[n].of.id].inc)
      BY <2>1, FitsGrows, Zenon
    <2> QED BY <1>3, <2>2, Zenon DEF ProbeInv, Fits
  <1>4. ASSUME UNCHANGED acks PROVE AckInv'
    <2>1. \A n \in Node : \A i \in DOMAIN acks[n] : acks[n][i] \in Ack
      BY DEF AckInv
    <2>2. \A n \in Node : \A i \in DOMAIN acks[n] :
             acks[n][i].from \in Node /\ acks[n][i].self.inc \in Int
             /\ Fits(acks[n][i].from, acks[n][i].self.inc)
      BY <2>1 DEF AckInv, Ack, Self
    <2>3. \A n \in Node : \A i \in DOMAIN acks[n] :
             life'[acks[n][i].from] = 0 => acks[n][i].self.inc <= me'[acks[n][i].from].inc
      BY <2>2, FitsGrows, Zenon
    <2> QED BY <1>4, <2>3, Zenon DEF AckInv, Fits
  <1>5. ASSUME NEW p \in net PROVE GoodPacket(p) /\ GoodPacket(p)'
    <2>1. GoodPacket(p)
      BY Zenon DEF NetInv
    <2>2. ASSUME NEW es, GoodMembership(es)
          PROVE  es \subseteq Membership /\ \A e \in es : life'[e.id] = 0 => e.inc <= me'[e.id].inc
      BY <2>2, KeepMembership DEF GoodMembership
    <2>3. CASE p \in Packet /\ Fits(p.from, p.self.inc)
               /\ GoodMembership(p.always) /\ GoodMembership(p.hot)
      <3>1. p.from \in Node /\ p.self.inc \in Int
        BY <2>3 DEF Packet, Self
      <3>2. life'[p.from] = 0 => p.self.inc <= me'[p.from].inc
        BY <2>3, <3>1, FitsGrows, Zenon
      <3> QED BY <2>1, <2>2, <2>3, <3>2, Zenon DEF GoodPacket, GoodMembership, Fits
    <2>4. CASE p \in PingReq
      BY <2>1, <2>4, Zenon DEF GoodPacket
    <2>5. CASE p \in Pushed /\ GoodMembership(p.hot)
      BY <2>1, <2>2, <2>5, Zenon DEF GoodPacket, GoodMembership, Fits
    <2> QED BY <2>1, <2>3, <2>4, <2>5, Zenon DEF GoodPacket
  <1> QED BY <1>1, <1>2, <1>3, <1>4, <1>5

-----------------------------------------------------------------------------
\* MemberList::insert on one row.
LEMMA InsertGood ==
    ASSUME NEW r \in Row, HasRecord(r) => r.health \in Health,
           NEW inc \in Nat, NEW h \in Health
    PROVE  /\ InsertRow(r, inc, h) \in Row
           /\ HasRecord(InsertRow(r, inc, h)) => InsertRow(r, inc, h).health \in Health
           /\ InsertRow(r, inc, h).inc \in {r.inc, inc}
  <1>1. inc \in IncarnationOrNone /\ h \in HealthOrNone
    BY DEF IncarnationOrNone, Incarnation, HealthOrNone
  <1>2. CASE ShareRumor(r, inc, h)
    <2> DEFINE s == (r.suspect \/ StartSuspicion(r, inc, h)) /\ ~StopSuspicion(r, inc, h)
               d == r.depart /\ ~StopDeparture(r, inc, h)
    <2>1. InsertRow(r, inc, h) = [inc |-> inc, health |-> h, suspect |-> s, depart |-> d]
      BY <1>2, Zenon DEF InsertRow
    <2>2. s \in BOOLEAN /\ d \in BOOLEAN
      OBVIOUS
    <2> HIDE DEF s, d
    <2> QED BY <1>1, <2>1, <2>2 DEF Row
  <1>3. CASE ~ShareRumor(r, inc, h)
    BY <1>3, Zenon DEF InsertRow
  <1> QED BY <1>2, <1>3, Zenon

LEMMA HealthRowGood ==
    ASSUME NEW r \in Row, NEW h \in Health
    PROVE  /\ HealthRow(r, h) \in Row
           /\ HealthRow(r, h).health \in Health
           /\ HealthRow(r, h).inc = r.inc
  BY Zenon DEF HealthRow, Row, HealthOrNone

LEMMA InsertSelfGood ==
    ASSUME NEW rows, GoodRows(rows), NEW m \in Node, NEW self \in Self, Fits(m, self.inc)
    PROVE  GoodRows(InsertSelf(rows, m, self))
  <1>1. self.inc \in Nat /\ StatusOf(self) \in Health
    BY Zenon DEF Self, StatusOf, Health
  <1> DEFINE r == InsertRow(rows[m], self.inc, StatusOf(self))
  <1>2. r \in Row /\ (HasRecord(r) => r.health \in Health) /\ r.inc \in {rows[m].inc, self.inc}
    <2>1. rows[m] \in Row /\ (HasRecord(rows[m]) => rows[m].health \in Health)
      BY Zenon DEF GoodRows
    <2> QED BY <1>1, <2>1, InsertGood, Zenon
  <1>3. InsertSelf(rows, m, self) = [rows EXCEPT ![m] = r]
    BY DEF InsertSelf
  <1>4. Fits(m, r.inc)
    BY <1>2, Zenon DEF GoodRows
  <1> HIDE DEF r
  <1> QED BY <1>2, <1>3, <1>4, Zenon DEF GoodRows

LEMMA HeardGood ==
    ASSUME NEW n \in Node, NEW rows, GoodRows(rows), NEW es, GoodMembership(es)
    PROVE  GoodRows(Heard(n, rows, es))
  <1> SUFFICES ASSUME NEW m \in Node
               PROVE  /\ Heard(n, rows, es)[m] \in Row
                      /\ HasRecord(Heard(n, rows, es)[m]) => Heard(n, rows, es)[m].health \in Health
                      /\ Fits(m, Heard(n, rows, es)[m].inc)
    BY Zenon DEF GoodRows, Heard
  <1>1. CASE \E e \in es : e.id = m
    <2> DEFINE e == CHOOSE x \in es : x.id = m
    <2>1. e \in es /\ e.id = m
      BY <1>1, Zenon
    <2>2. e.inc \in Nat /\ HealthAbout(n, e) \in Health /\ Fits(m, e.inc)
      BY <2>1 DEF GoodMembership, Membership, HealthAbout, Health
    <2>3. Heard(n, rows, es)[m] = InsertRow(rows[m], e.inc, HealthAbout(n, e))
      BY <1>1, Zenon DEF Heard
    <2>4. rows[m] \in Row /\ (HasRecord(rows[m]) => rows[m].health \in Health)
          /\ Fits(m, rows[m].inc)
      BY DEF GoodRows
    <2> HIDE DEF e
    <2>5. /\ InsertRow(rows[m], e.inc, HealthAbout(n, e)) \in Row
          /\ HasRecord(InsertRow(rows[m], e.inc, HealthAbout(n, e)))
                => InsertRow(rows[m], e.inc, HealthAbout(n, e)).health \in Health
          /\ InsertRow(rows[m], e.inc, HealthAbout(n, e)).inc \in {rows[m].inc, e.inc}
      BY <2>2, <2>4, InsertGood, Zenon
    <2> QED BY <2>2, <2>3, <2>4, <2>5, Zenon
  <1>2. CASE ~\E e \in es : e.id = m
    BY <1>2, Zenon DEF Heard, GoodRows
  <1> QED BY <1>1, <1>2, Zenon

-----------------------------------------------------------------------------
LEMMA StartedType ==
    ASSUME NEW h \in Heat, NEW ids
    PROVE  Started(h, ids) \in Heat
  BY DEF Started, Heat, RumorCoolDownLimit

LEMMA CooledType ==
    ASSUME HeatInv, NEW n \in Node, NEW t \in Node, NEW k \in Nat
    PROVE  Cooled(n, t, k) \in Heat
  <1>1. ASSUME NEW m \in Node
        PROVE  [heat[n][m] EXCEPT ![t] =
                  IF PersistentAndConfirmed(row[n][t], t \in Persistent) THEN @
                  ELSE IF @ + k > RumorCoolDownLimit THEN RumorCoolDownLimit ELSE @ + k]
                 \in [Node -> 0 .. RumorCoolDownLimit]
    <2>1. heat[n][m] \in [Node -> 0 .. RumorCoolDownLimit]
      BY DEF HeatInv, Heat
    <2> QED BY <2>1 DEF RumorCoolDownLimit
  <1> QED BY <1>1, Zenon DEF Cooled, Heat

\* What the list of n says of the others, as it is sent.
LEMMA SentIsGood ==
    ASSUME RowInv, NEW n \in Node, NEW t \in Node
    PROVE  GoodMembership(AlwaysTarget(n, t)) /\ GoodMembership(HotFor(n, t))
  <1>1. ASSUME NEW m PROVE GoodMembership(MembershipFor(n, m))
    <2>1. \A x \in Known(n) : x \in Node /\ row[n][x].inc \in Nat /\ row[n][x].health \in Health
                              /\ Fits(x, row[n][x].inc)
      BY Zenon DEF RowInv, GoodRows, Known, HasRecord, Row, IncarnationOrNone, Incarnation
    <2>2. \A e \in MembershipFor(n, m) : e \in Membership /\ Fits(e.id, e.inc)
      BY <2>1 DEF MembershipFor, Membership
    <2> QED BY <2>2, Zenon DEF GoodMembership
  <1>2. GoodMembership(AlwaysTarget(n, t))
    BY <1>1 DEF AlwaysTarget
  <1>3. \A e \in HotFor(n, t) : \E m \in Node : e \in MembershipFor(n, m)
    BY DEF HotFor, Hot
  <1>4. GoodMembership(HotFor(n, t))
    BY <1>1, <1>3 DEF GoodMembership
  <1> QED BY <1>2, <1>4

LEMMA PingOrAckGood ==
    ASSUME IInv, NEW kind \in {"ping", "ack"}, NEW n \in Node, NEW t \in Node,
           NEW fwd \in Node \cup {None}
    PROVE  GoodPacket(PingOrAck(kind, n, t, fwd))
  <1>1. GoodMembership(AlwaysTarget(n, t)) /\ GoodMembership(HotFor(n, t))
    BY SentIsGood DEF IInv
  <1>2. me[n] \in Self /\ Fits(n, me[n].inc)
    BY DEF IInv, MeInv, Self, Fits
  <1> DEFINE p == PingOrAck(kind, n, t, fwd)
  <1>3. p = [kind |-> kind, from |-> n, to |-> t, self |-> me[n], fwd |-> fwd,
             always |-> AlwaysTarget(n, t), hot |-> HotFor(n, t)]
    BY Zenon DEF PingOrAck
  <1>4. p \in Packet
    BY <1>1, <1>2, <1>3 DEF Packet, GoodMembership
  <1>5. p.from = n /\ p.self = me[n] /\ p.always = AlwaysTarget(n, t) /\ p.hot = HotFor(n, t)
    BY <1>3
  <1> HIDE DEF p
  <1>6. GoodPacket(p)
    BY <1>1, <1>2, <1>4, <1>5, Zenon DEF GoodPacket
  <1> QED BY <1>6, Zenon DEF p

\* insert_member_from_rumors: the list stays good and the incarnation only grows.
LEMMA TakeRumorsGood ==
    ASSUME IInv, NEW n \in Node, NEW m, GoodMembership(m.always), GoodMembership(m.hot),
           NEW rows, GoodRows(rows), NEW h \in Heat, TakeRumors(n, m, rows, h),
           UNCHANGED life
    PROVE  Grows /\ HeatInv' /\ RowInv'
  <1> DEFINE once == Heard(n, rows, m.always)
             then == Heard(n, once, m.hot)
             bump == Refutations(n, m)
  <1>1. GoodRows(then)
    <2>1. GoodRows(once)
      BY HeardGood, Zenon
    <2> HIDE DEF once
    <2> QED BY <2>1, HeardGood, Zenon
  <1>2. bump \in Nat
    BY DEF Refutations, Against
  <1>3. /\ row' = [row EXCEPT ![n] = then]
        /\ me' = [me EXCEPT ![n].inc = @ + bump]
        /\ heat' = [heat EXCEPT ![n] = Started(h, Changed(n, then) \cup (IF bump > 0 THEN {n} ELSE {}))]
    BY DEF TakeRumors
  <1> HIDE DEF then, bump
  <1>4. Grows
    BY <1>2, <1>3 DEF Grows, IInv, MeInv, Self
  <1>5. HeatInv'
    <2>1. Started(h, Changed(n, then) \cup (IF bump > 0 THEN {n} ELSE {})) \in Heat
      BY ZenonT(20), StartedType
    <2> QED BY <1>3, <2>1 DEF IInv, HeatInv
  <1>6. RowInv'
    <2>1. \A x \in Node : life'[x] = 0 => then[x].inc <= me'[x].inc
      BY <1>1, <1>4, KeepRows, Zenon DEF IInv
    <2>2. \A k \in Node : \A x \in Node : life'[x] = 0 => row[k][x].inc <= me'[x].inc
      BY <1>4, KeepRows, Zenon DEF IInv, RowInv
    <2>3. row \in [Node -> [Node -> Row]] /\ \A k \in Node : GoodRows(row[k])
      BY Zenon DEF IInv, RowInv
    <2>4. \A k \in Node : row'[k] = IF k = n THEN then ELSE row[k]
      BY <1>3, <2>3
    <2>5. row' \in [Node -> [Node -> Row]]
      BY <1>1, <1>3, <2>3, Zenon DEF GoodRows
    <2> QED BY <1>1, <2>1, <2>2, <2>3, <2>4, <2>5, Zenon DEF RowInv, GoodRows, Fits
  <1> QED BY <1>4, <1>5, <1>6, Zenon

\* A list changed in one place, by a step that leaves everyone's own record alone.
LEMMA RowChanged ==
    ASSUME IInv, UNCHANGED <<me, life>>, NEW n \in Node, NEW rows, GoodRows(rows),
           row' = [row EXCEPT ![n] = rows]
    PROVE  RowInv'
  <1>1. row \in [Node -> [Node -> Row]] /\ \A k \in Node : GoodRows(row[k])
    BY Zenon DEF IInv, RowInv
  <1>2. \A k \in Node : row'[k] = IF k = n THEN rows ELSE row[k]
    BY <1>1
  <1>3. row' \in [Node -> [Node -> Row]]
    BY <1>1, Zenon DEF GoodRows
  <1> QED BY <1>1, <1>2, <1>3, Zenon DEF RowInv, GoodRows, Fits

LEMMA NothingGrows ==
    ASSUME IInv, UNCHANGED <<me, life>>
    PROVE  Grows
  BY DEF IInv, Grows, MeInv, Self

-----------------------------------------------------------------------------
(* The outbound thread.                                                     *)

LEMMA OutboundStep ==
    ASSUME IInv, NEW n \in Node, Outbound(n)
    PROVE  IInv'
  <1> USE DEF IInv
  <1>1. UNCHANGED <<me, life>>
    BY Zenon DEF Outbound, BootPing, CheckList, RecvAckFromInbound, PingTimeout, PingReqTimeout,
           BeginProbe, TimesOut, faults
  <1>2. Grows /\ MeInv'
    BY <1>1, NothingGrows, Zenon DEF Grows
  <1>3. CASE BootPing(n)
    <2>1. Seed[n] \in Node
      BY <1>3, NodeAssumption, Zenon DEF BootPing
    <2>2. GoodPacket(PingOrAck("ping", n, Seed[n], None))
      BY <2>1, PingOrAckGood, Zenon
    <2>3. net' = net \cup {PingOrAck("ping", n, Seed[n], None)}
          /\ UNCHANGED <<row, heat, list, probe, acks, round, up, lost, late>>
      BY <1>3, Zenon DEF BootPing, faults
    <2>4. NetInv'
      <3> DEFINE q == PingOrAck("ping", n, Seed[n], None)
      <3> HIDE DEF q
      <3>1. GoodPacket(q) /\ net' = net \cup {q}
        BY <2>2, <2>3, Zenon DEF q
      <3>2. \A p \in net' : GoodPacket(p)
        BY <3>1, Zenon DEF NetInv
      <3> QED BY <1>1, <3>2, Zenon DEF NetInv, GoodPacket, GoodMembership, Fits
    <2> QED BY <1>2, <2>3, <2>4, Kept, Zenon DEF HeatInv, CountInv, ListInv
  <1>4. CASE CheckList(n)
    <2> DEFINE L == {[id |-> m, inc |-> row[n][m].inc] : m \in Known(n) \ {n}}
    <2>1. \A m \in Known(n) : m \in Node /\ row[n][m].inc \in Nat /\ Fits(m, row[n][m].inc)
      BY Zenon DEF RowInv, GoodRows, Known, HasRecord, Row, IncarnationOrNone, Incarnation
    <2>2. L \subseteq Record /\ \A e \in L : Fits(e.id, e.inc)
      BY <2>1 DEF Record
    <2>3. /\ list' = [list EXCEPT ![n] = L]
          /\ UNCHANGED <<row, heat, probe, acks, net, up, lost, late>>
      BY ZenonT(20), <1>4 DEF CheckList
    <2> HIDE DEF L
    <2>4. ListInv'
      BY <1>1, <2>2, <2>3, Zenon DEF ListInv, Fits
    <2>5. CountInv'
      BY <1>4, <2>3 DEF CheckList, CountInv
    <2>6. NetInv'
      BY <1>2, <2>3, Kept, Zenon DEF NetInv
    <2> QED BY <1>2, <2>3, <2>4, <2>5, <2>6, Kept, Zenon DEF HeatInv
  <1>5. ASSUME NEW e \in list[n], BeginProbe(n, e) PROVE IInv'
    <2>1. e \in Record /\ e.id \in Node /\ e.inc \in Nat /\ Fits(e.id, e.inc)
      BY SMTT(20) DEF ListInv, Record
    <2>2. list' \in [Node -> SUBSET Record] /\ \A k \in Node : list'[k] \subseteq list[k]
      BY ZenonT(20), <1>5 DEF BeginProbe, ListInv
    <2>3. UNCHANGED <<row, acks, round, up, lost, late>>
      BY ZenonT(20), <1>5 DEF BeginProbe, faults
    <2>4. CASE Pingable(row[n][e.id], e.id \in Persistent)
      <3> DEFINE q == PingOrAck("ping", n, e.id, None)
                 b == [phase |-> "ping", of |-> e]
      <3>1. GoodPacket(q)
        BY Zenon, <2>1, PingOrAckGood
      <3>2. net' = net \cup {q} /\ heat' = [heat EXCEPT ![n] = Cooled(n, e.id, 1)]
            /\ probe' = [probe EXCEPT ![n] = b]
        BY <1>5, <2>4, Zenon DEF BeginProbe
      <3>3. b \in Probe /\ b.of = e
        BY Zenon, <2>1 DEF Probe
      <3> HIDE DEF q, b
      <3>4. NetInv'
        <4>1. \A p \in net' : GoodPacket(p)
          BY <3>1, <3>2, Zenon DEF NetInv
        <4> QED BY <1>1, <4>1, Zenon DEF NetInv, GoodPacket, GoodMembership, Fits
      <3>5. HeatInv'
        BY ZenonT(20), <2>1, <3>2, CooledType DEF HeatInv
      <3>6. ProbeInv'
        BY <1>1, <2>1, <3>2, <3>3, Zenon DEF ProbeInv, Fits
      <3> QED BY <1>2, <2>2, <2>3, <3>4, <3>5, <3>6, Kept, Zenon DEF CountInv
    <2>5. CASE ~Pingable(row[n][e.id], e.id \in Persistent)
      <3>1. UNCHANGED <<net, heat, probe>>
        BY ZenonT(20), <1>5, <2>5 DEF BeginProbe
      <3>2. NetInv'
        BY ZenonT(20), <1>2, <3>1, Kept DEF NetInv
      <3> QED BY ZenonT(30), <1>2, <2>2, <2>3, <3>1, <3>2, Kept DEF CountInv, HeatInv
    <2> QED BY <2>4, <2>5, Zenon
  <1>6. CASE RecvAckFromInbound(n)
    <2> DEFINE a == Head(acks[n])
               then == InsertSelf(row[n], a.from, a.self)
    <2>1. acks[n] \in Seq(Ack) /\ acks[n] # <<>> /\ \A i \in DOMAIN acks[n] : acks[n][i] \in Ack
      BY <1>6 DEF RecvAckFromInbound, AckInv
    <2>2. a = acks[n][1] /\ 1 \in DOMAIN acks[n]
      BY <2>1
    <2>3. a.from \in Node /\ a.self \in Self /\ Fits(a.from, a.self.inc)
      BY <2>1, <2>2, Zenon DEF AckInv, Ack
    <2>4. GoodRows(then)
      BY ZenonT(20), <2>3, InsertSelfGood DEF RowInv
    <2>5. /\ row' = [row EXCEPT ![n] = then]
          /\ heat' = [heat EXCEPT ![n] = Started(heat[n], Changed(n, then))]
          /\ probe' = IF a.from = probe[n].of.id
                      THEN [probe EXCEPT ![n] = [phase |-> "idle"]] ELSE probe
          /\ acks' = [acks EXCEPT ![n] = Tail(acks[n])]
          /\ UNCHANGED <<list, net, round, up, lost, late>>
      BY ZenonT(20), <1>6 DEF RecvAckFromInbound, HeatInv, AckInv, faults
    <2> HIDE DEF a, then
    <2>6. RowInv'
      BY Zenon, <1>1, <2>4, <2>5, RowChanged
    <2>7. HeatInv'
      BY ZenonT(20), <2>5, StartedType DEF HeatInv
    <2>8. ProbeInv'
      BY <1>1, <2>5, Zenon DEF ProbeInv, Probe, Fits
    <2>9. AckInv'
      <3>1. Tail(acks[n]) \in Seq(Ack)
        BY <2>1
      <3>2. \A i \in DOMAIN Tail(acks[n]) : i + 1 \in DOMAIN acks[n] /\ Tail(acks[n])[i] = acks[n][i + 1]
        BY <2>1
      <3>3. \A i \in DOMAIN Tail(acks[n]) : Fits(Tail(acks[n])[i].from, Tail(acks[n])[i].self.inc)
        BY ZenonT(20), <3>2 DEF AckInv
      <3>4. \A k \in Node : acks'[k] = IF k = n THEN Tail(acks[n]) ELSE acks[k]
        BY <2>5, Zenon DEF AckInv
      <3>5. acks' \in [Node -> Seq(Ack)]
        BY ZenonT(20), <2>5, <3>1 DEF AckInv
      <3> QED BY Zenon, <1>1, <3>3, <3>4, <3>5 DEF AckInv, Fits
    <2>10. NetInv'
      BY <1>2, <2>5, Kept, Zenon DEF NetInv
    <2> QED BY ZenonT(30), <1>2, <2>5, <2>6, <2>7, <2>8, <2>9, <2>10, Kept DEF CountInv, ListInv
  <1>7. CASE PingTimeout(n)
    <2> DEFINE t == probe[n].of.id
    <2>1. probe[n].phase = "ping" /\ late' \in Nat
      BY <1>7 DEF PingTimeout, TimesOut, CountInv
    <2>2. probe[n] \in [phase : {"ping"}, of : Record]
      BY <2>1, Zenon DEF ProbeInv, Probe
    <2>3. t \in Node
      BY <2>2, Zenon DEF Record
    <2>4. PICK count \in 0..PingReqTargets, helpers \in SUBSET Node :
            /\ net' = net \cup {[kind |-> "pingreq", from |-> n, to |-> m, target |-> t] :
                                   m \in helpers}
            /\ heat' = [heat EXCEPT ![n] = Cooled(n, t, count)]
      BY Zenon, <1>7 DEF PingTimeout
    <2> DEFINE Q == {[kind |-> "pingreq", from |-> n, to |-> m, target |-> t] : m \in helpers}
    <2>5. \A q \in Q : q \in PingReq
      BY <2>3 DEF PingReq
    <2>6. /\ net' = net \cup Q
          /\ probe' = [probe EXCEPT ![n].phase = "pingreq"]
          /\ UNCHANGED <<row, list, acks, round, up, lost>>
      BY <1>7, <2>4, Zenon DEF PingTimeout
    <2>7. HeatInv'
      BY <2>3, <2>4, CooledType DEF HeatInv, PingReqTargets
    <2> HIDE DEF Q
    <2>8. NetInv'
      <3>1. \A p \in net' : GoodPacket(p)
        BY ZenonT(20), <2>5, <2>6 DEF NetInv, GoodPacket
      <3> QED BY <1>1, <3>1, Zenon DEF NetInv, GoodPacket, GoodMembership, Fits
    <2>9. ProbeInv'
      <3> DEFINE b == [probe[n] EXCEPT !.phase = "pingreq"]
      <3>1. b \in [phase : {"pingreq"}, of : Record] /\ b.of = probe[n].of
        BY <2>2, Zenon
      <3>2. probe' = [probe EXCEPT ![n] = b]
        BY <2>6
      <3>3. Fits(b.of.id, b.of.inc)
        BY <2>1, <3>1 DEF ProbeInv
      <3> HIDE DEF b
      <3>4. b \in Probe
        BY ZenonT(20), <3>1 DEF Probe
      <3> QED BY <1>1, <3>2, <3>3, <3>4, Zenon DEF ProbeInv, Fits
    <2> QED BY <1>2, <2>1, <2>6, <2>7, <2>8, <2>9, Kept, Zenon DEF CountInv, ListInv
  <1>8. CASE PingReqTimeout(n)
    <2> DEFINE e == probe[n].of
               r == InsertRow(row[n][e.id], e.inc, "Suspect")
               then == [row[n] EXCEPT ![e.id] = r]
    <2>1. probe[n].phase = "pingreq" /\ late' \in Nat
      BY <1>8 DEF PingReqTimeout, TimesOut, CountInv
    <2>2. e \in Record
      BY <2>1, Zenon DEF ProbeInv, Probe
    <2>3. e.id \in Node /\ e.inc \in Nat /\ Fits(e.id, e.inc)
      BY ZenonT(20), <2>1, <2>2 DEF ProbeInv, Record
    <2>4. /\ row' = [row EXCEPT ![n] = then]
          /\ heat' = [heat EXCEPT ![n] = Started(heat[n], Changed(n, then))]
          /\ probe' = [probe EXCEPT ![n] = [phase |-> "idle"]]
          /\ UNCHANGED <<list, acks, net, round, up, lost>>
      BY ZenonT(20), <1>8, <2>3 DEF PingReqTimeout, HeatInv, RowInv
    <2>5. GoodRows(then)
      <3>1. GoodRows(row[n])
        BY ZenonT(20) DEF RowInv
      <3>2. row[n][e.id] \in Row /\ (HasRecord(row[n][e.id]) => row[n][e.id].health \in Health)
        BY ZenonT(20), <2>3, <3>1 DEF GoodRows
      <3>3. r \in Row /\ (HasRecord(r) => r.health \in Health) /\ r.inc \in {row[n][e.id].inc, e.inc}
        BY Zenon, <2>3, <3>2, InsertGood DEF Health
      <3> HIDE DEF r, e
      <3>4. Fits(e.id, r.inc)
        BY <2>3, <3>1, <3>3, Zenon DEF GoodRows
      <3> QED BY <2>3, <3>1, <3>3, <3>4, Zenon DEF GoodRows
    <2> HIDE DEF then, e
    <2>6. RowInv'
      BY Zenon, <1>1, <2>4, <2>5, RowChanged
    <2>7. HeatInv'
      BY ZenonT(20), <2>4, StartedType DEF HeatInv
    <2>8. ProbeInv'
      BY <1>1, <2>4, Zenon DEF ProbeInv, Probe, Fits
    <2>9. NetInv'
      BY <1>2, <2>4, Kept, Zenon DEF NetInv
    <2> QED BY ZenonT(30), <1>2, <2>1, <2>4, <2>6, <2>7, <2>8, <2>9, Kept DEF CountInv, ListInv
  <1> QED BY ZenonT(20), <1>3, <1>4, <1>5, <1>6, <1>7, <1>8 DEF Outbound

-----------------------------------------------------------------------------
(* The inbound thread and the pull thread.                                  *)

\* A packet that is taken, and perhaps answered.
LEMMA NetChanged ==
    ASSUME IInv, Grows, NEW Q, \A q \in Q : GoodPacket(q), net' \subseteq net \cup Q
    PROVE  NetInv'
  <1>1. \A p \in net : GoodPacket(p)'
    BY Zenon, Kept
  <1>2. ASSUME NEW q \in Q PROVE GoodPacket(q)'
    <2>1. GoodPacket(q)
      BY ZenonT(20)
    <2>2. ASSUME NEW es, GoodMembership(es)
          PROVE  es \subseteq Membership /\ \A e \in es : life'[e.id] = 0 => e.inc <= me'[e.id].inc
      BY ZenonT(20), <2>2, KeepMembership DEF GoodMembership, IInv
    <2>3. CASE q \in Packet /\ Fits(q.from, q.self.inc)
               /\ GoodMembership(q.always) /\ GoodMembership(q.hot)
      <3>1. q.from \in Node /\ q.self.inc \in Int
        BY SMTT(20), <2>3 DEF Packet, Self
      <3>2. life'[q.from] = 0 => q.self.inc <= me'[q.from].inc
        BY ZenonT(20), <2>3, <3>1, FitsGrows DEF IInv
      <3> QED BY <2>2, <2>3, <3>2, Zenon DEF GoodPacket, GoodMembership, Fits
    <2>4. CASE q \in PingReq
      BY ZenonT(20), <2>4 DEF GoodPacket
    <2>5. CASE q \in Pushed /\ GoodMembership(q.hot)
      BY <2>2, <2>5, Zenon DEF GoodPacket, GoodMembership, Fits
    <2> QED BY <2>1, <2>3, <2>4, <2>5, Zenon DEF GoodPacket
  <1> QED BY <1>1, <1>2, Zenon DEF NetInv

LEMMA NetAnswered ==
    ASSUME IInv, Grows, NEW q, GoodPacket(q), net' \subseteq net \cup {q}
    PROVE  NetInv'
  <1> DEFINE Q == {q}
  <1>1. \A x \in Q : GoodPacket(x)
    BY Zenon
  <1>2. net' \subseteq net \cup Q
    OBVIOUS
  <1> HIDE DEF Q
  <1> QED BY <1>1, <1>2, NetChanged, Zenon

LEMMA NetTaken ==
    ASSUME IInv, Grows, net' \subseteq net
    PROVE  NetInv'
  BY ZenonT(20), Kept DEF NetInv

LEMMA ProcessPingStep ==
    ASSUME IInv, NEW n \in Node, NEW m \in net, ProcessPing(n, m)
    PROVE  IInv'
  <1>1. m \in Packet /\ Fits(m.from, m.self.inc) /\ GoodMembership(m.always) /\ GoodMembership(m.hot)
    BY Zenon DEF ProcessPing, IInv, NetInv, GoodPacket, PingReq, Pushed
  <1>2. m.from \in Node /\ m.self \in Self /\ m.fwd \in Node \cup {None}
    BY <1>1, Zenon DEF Packet
  <1> DEFINE q == PingOrAck("ack", n, m.from, m.fwd)
             rows == InsertSelf(row[n], m.from, m.self)
             h == Cooled(n, m.from, 1)
  <1>3. GoodPacket(q)
    BY ZenonT(20), <1>2, PingOrAckGood
  <1>4. GoodRows(rows)
    BY <1>1, <1>2, InsertSelfGood, Zenon DEF IInv, RowInv
  <1>5. h \in Heat
    BY ZenonT(20), <1>2, CooledType DEF IInv
  <1>6. net' \subseteq net \cup {q} /\ TakeRumors(n, m, rows, h)
        /\ UNCHANGED <<list, probe, acks, round, up, life, lost, late>>
    BY ZenonT(20) DEF ProcessPing, faults
  <1> HIDE DEF q, rows, h
  <1>7. Grows /\ HeatInv' /\ RowInv'
    BY <1>1, <1>4, <1>5, <1>6, TakeRumorsGood, Zenon
  <1>8. NetInv'
    <2>1. Grows /\ net' \subseteq net \cup {q}
      BY ZenonT(20), <1>6, <1>7
    <2> QED BY <1>3, <2>1, NetAnswered, Zenon
  <1> QED BY ZenonT(30), <1>6, <1>7, <1>8, Kept DEF IInv, Grows, CountInv, ListInv

LEMMA ProcessPingReqStep ==
    ASSUME IInv, NEW n \in Node, NEW m \in net, ProcessPingReq(n, m)
    PROVE  IInv'
  <1>1. m \in PingReq
    BY Zenon DEF ProcessPingReq, IInv, NetInv, GoodPacket, Packet, Pushed
  <1>2. m.from \in Node /\ m.target \in Node
    BY <1>1, Zenon DEF PingReq
  <1> DEFINE q == PingOrAck("ping", n, m.target, m.from)
  <1>3. GoodPacket(q)
    BY ZenonT(20), <1>2, PingOrAckGood
  <1>4. UNCHANGED <<me, row, list, probe, acks, round, up, life, lost, late>>
        /\ net' \subseteq net \cup {q}
        /\ (heat' = heat \/ heat' = [heat EXCEPT ![n] = Cooled(n, m.target, 1)])
    BY Zenon DEF ProcessPingReq, faults
  <1> HIDE DEF q
  <1>5. Grows
    BY <1>4, NothingGrows, Zenon
  <1>6. NetInv'
    BY ZenonT(20), <1>3, <1>4, <1>5, NetAnswered
  <1>7. HeatInv'
    BY <1>2, <1>4, CooledType DEF IInv, HeatInv
  <1> QED BY ZenonT(30), <1>4, <1>5, <1>6, <1>7, Kept DEF IInv, Grows, CountInv, ListInv

LEMMA ProcessAckStep ==
    ASSUME IInv, NEW n \in Node, NEW m \in net, ProcessAck(n, m)
    PROVE  IInv'
  <1>1. m \in Packet /\ Fits(m.from, m.self.inc) /\ GoodMembership(m.always) /\ GoodMembership(m.hot)
    BY Zenon DEF ProcessAck, IInv, NetInv, GoodPacket, PingReq, Pushed
  <1>2. m.from \in Node /\ m.self \in Self /\ m.fwd \in Node \cup {None}
    BY <1>1, Zenon DEF Packet
  <1>3. UNCHANGED <<list, probe, round, up, life, lost, late>>
    BY ZenonT(20) DEF ProcessAck, faults
  <1>4. CASE m.fwd \notin {None, n}
    <2> DEFINE q == [m EXCEPT !.to = m.fwd]
    <2>1. net' \subseteq net \cup {q} /\ UNCHANGED <<me, row, heat, acks>>
      BY <1>4, Zenon DEF ProcessAck
    <2>2. q \in Packet /\ q.from = m.from /\ q.self = m.self /\ q.always = m.always /\ q.hot = m.hot
      BY ZenonT(20), <1>1, <1>2, <1>4 DEF Packet
    <2> HIDE DEF q
    <2>3. GoodPacket(q)
      BY <1>1, <2>2, Zenon DEF GoodPacket
    <2>4. Grows
      BY <1>3, <2>1, NothingGrows, Zenon
    <2>5. NetInv'
      <3>1. net' \subseteq net \cup {q}
        BY ZenonT(20), <2>1
      <3> QED BY <2>3, <2>4, <3>1, NetAnswered, Zenon
    <2> QED BY Zenon, <1>3, <2>1, <2>4, <2>5, Kept DEF IInv, Grows, CountInv, ListInv, HeatInv
  <1>5. CASE m.fwd \in {None, n}
    <2> DEFINE a == [from |-> m.from, self |-> m.self]
    <2>1. /\ net' \subseteq net
          /\ acks' = [acks EXCEPT ![n] = Append(acks[n], a)]
          /\ TakeRumors(n, m, row[n], heat[n])
      BY <1>5, Zenon DEF ProcessAck, IInv, AckInv
    <2>2. GoodRows(row[n]) /\ heat[n] \in Heat
      BY SMTT(20) DEF IInv, RowInv, HeatInv
    <2>3. Grows /\ HeatInv' /\ RowInv'
      BY Zenon, <1>1, <1>3, <2>1, <2>2, TakeRumorsGood
    <2>4. NetInv'
      <3>1. Grows /\ net' \subseteq net
        BY ZenonT(20), <2>1, <2>3
      <3> QED BY <3>1, NetTaken, Zenon
    <2>5. AckInv'
      <3>1. acks \in [Node -> Seq(Ack)]
        BY Zenon DEF IInv, AckInv
      <3>2. a \in Ack /\ a.from = m.from /\ a.self = m.self
        BY <1>2, Zenon DEF Ack
      <3> HIDE DEF a
      <3>3. acks' = [acks EXCEPT ![n] = Append(acks[n], a)]
        BY <2>1, Zenon
      <3>4. acks' \in [Node -> Seq(Ack)]
        BY <3>1, <3>2, <3>3
      <3>5. life'[a.from] = 0 => a.self.inc <= me'[a.from].inc
        <4>1. a.from \in Node /\ a.self.inc \in Int /\ Fits(a.from, a.self.inc)
          BY SMTT(20), <1>1, <1>2, <3>2 DEF Self
        <4> QED BY <2>3, <4>1, FitsGrows, Zenon DEF IInv
      <3>6. \A k \in Node : \A i \in DOMAIN acks[k] :
               life'[acks[k][i].from] = 0 => acks[k][i].self.inc <= me'[acks[k][i].from].inc
        <4>1. \A k \in Node : \A i \in DOMAIN acks[k] : acks[k][i] \in Ack
          BY <3>1
        <4>2. \A k \in Node : \A i \in DOMAIN acks[k] :
                 acks[k][i].from \in Node /\ acks[k][i].self.inc \in Int
                 /\ Fits(acks[k][i].from, acks[k][i].self.inc)
          BY <4>1 DEF IInv, AckInv, Ack, Self
        <4> QED BY <2>3, <4>2, FitsGrows, Zenon DEF IInv
      <3>7. \A i \in DOMAIN Append(acks[n], a) :
               Append(acks[n], a)[i] = a
               \/ (i \in DOMAIN acks[n] /\ Append(acks[n], a)[i] = acks[n][i])
        BY <3>1, <3>2
      <3>8. \A k \in Node : acks'[k] = IF k = n THEN Append(acks[n], a) ELSE acks[k]
        BY ZenonT(20), <3>1, <3>3
      <3> QED BY ZenonT(30), <3>4, <3>5, <3>6, <3>7, <3>8 DEF AckInv, Fits
    <2> QED BY Zenon, <1>3, <2>3, <2>4, <2>5, Kept DEF IInv, Grows, CountInv, ListInv
  <1> QED BY <1>4, <1>5, Zenon

LEMMA PullStep ==
    ASSUME IInv, NEW n \in Node, NEW m \in net, Pull(n, m)
    PROVE  IInv'
  <1>1. GoodMembership(m.hot)
    BY Zenon DEF Pull, IInv, NetInv, GoodPacket, PingReq, Packet
  <1> DEFINE p == [always |-> {}, hot |-> m.hot]
  <1>2. GoodMembership(p.always) /\ GoodMembership(p.hot)
    BY ZenonT(20), <1>1 DEF GoodMembership
  <1>3. TakeRumors(n, p, row[n], heat[n]) /\ net' \subseteq net
        /\ UNCHANGED <<list, probe, acks, round, up, life, lost, late>>
    BY ZenonT(20) DEF Pull, faults
  <1>4. GoodRows(row[n]) /\ heat[n] \in Heat
    BY Zenon DEF IInv, RowInv, HeatInv
  <1> HIDE DEF p
  <1>5. Grows /\ HeatInv' /\ RowInv'
    BY ZenonT(20), <1>2, <1>3, <1>4, TakeRumorsGood
  <1>6. NetInv'
    <2>1. Grows /\ net' \subseteq net
      BY ZenonT(20), <1>3, <1>5
    <2> QED BY <2>1, NetTaken, Zenon
  <1> QED BY ZenonT(30), <1>3, <1>5, <1>6, Kept DEF IInv, Grows, CountInv, ListInv

-----------------------------------------------------------------------------
(* The push threads, the expire thread, and what befalls a member.          *)

LEMMA PushStep ==
    ASSUME IInv, NEW n \in Node, NEW p \in Node, Push(n, p)
    PROVE  IInv'
  <1> DEFINE Q == {[kind |-> "rumor", from |-> n, to |-> p, hot |-> {e}] : e \in HotFor(n, p)}
  <1>1. \A q \in Q : GoodPacket(q)
    <2>1. GoodMembership(HotFor(n, p))
      BY ZenonT(20), SentIsGood DEF IInv
    <2>2. ASSUME NEW e \in HotFor(n, p)
          PROVE  GoodPacket([kind |-> "rumor", from |-> n, to |-> p, hot |-> {e}])
      <3>1. GoodMembership({e})
        BY <2>1, Zenon DEF GoodMembership
      <3>2. [kind |-> "rumor", from |-> n, to |-> p, hot |-> {e}] \in Pushed
        BY ZenonT(20), <3>1 DEF Pushed, GoodMembership
      <3> QED BY <3>1, <3>2, Zenon DEF GoodPacket
    <2> QED BY <2>2, Zenon
  <1>2. /\ net' \subseteq net \cup Q /\ heat' = [heat EXCEPT ![n] = Cooled(n, p, 1)]
        /\ UNCHANGED <<me, row, list, probe, acks, round, up, life, lost, late>>
    BY Zenon DEF Push, faults
  <1> HIDE DEF Q
  <1>3. Grows
    BY <1>2, NothingGrows, Zenon
  <1>4. NetInv'
    BY <1>1, <1>2, <1>3, NetChanged, Zenon
  <1>5. HeatInv'
    BY ZenonT(20), <1>2, CooledType DEF IInv, HeatInv
  <1> QED BY ZenonT(30), <1>2, <1>3, <1>4, <1>5, Kept DEF IInv, Grows, CountInv, ListInv

\* A row of n changed by the expire thread.
LEMMA ExpireStep ==
    ASSUME IInv, NEW n \in Node, NEW m \in Node, ExpireSuspect(n, m) \/ ExpireDeparture(n, m)
    PROVE  IInv'
  <1> DEFINE c == [HealthRow(row[n][m], "Confirmed") EXCEPT !.suspect = FALSE, !.depart = TRUE]
             d == [HealthRow(row[n][m], "Departed") EXCEPT !.depart = FALSE]
  <1>1. GoodRows(row[n]) /\ row[n][m] \in Row /\ row \in [Node -> [Node -> Row]]
    BY Zenon DEF IInv, RowInv, GoodRows
  <1>2. PICK r \in {c, d} : /\ row' = [row EXCEPT ![n][m] = r]
                            /\ heat' = [heat EXCEPT ![n] = Started(heat[n], {m})]
    <2>1. ASSUME ExpireSuspect(n, m)
          PROVE  row' = [row EXCEPT ![n][m] = c] /\ heat' = [heat EXCEPT ![n] = Started(heat[n], {m})]
      BY <2>1, Zenon DEF ExpireSuspect, IInv, HeatInv
    <2>2. ASSUME ExpireDeparture(n, m)
          PROVE  row' = [row EXCEPT ![n][m] = d] /\ heat' = [heat EXCEPT ![n] = Started(heat[n], {m})]
      BY <2>2, Zenon DEF ExpireDeparture, IInv, HeatInv
    <2> QED BY <2>1, <2>2, Zenon
  <1>3. c \in Row /\ d \in Row /\ c.health \in Health /\ d.health \in Health
        /\ c.inc = row[n][m].inc /\ d.inc = row[n][m].inc
    <2>1. \A h \in {"Confirmed", "Departed"} :
             /\ HealthRow(row[n][m], h) \in Row /\ HealthRow(row[n][m], h).health \in Health
             /\ HealthRow(row[n][m], h).inc = row[n][m].inc
      BY <1>1, HealthRowGood, Zenon DEF Health
    <2> QED BY Zenon, <2>1 DEF Row
  <1>4. UNCHANGED <<me, list, probe, acks, net, round, up, life, lost, late>>
    BY Zenon DEF ExpireSuspect, ExpireDeparture, faults
  <1> HIDE DEF c, d
  <1> DEFINE then == [row[n] EXCEPT ![m] = r]
  <1>5. GoodRows(then)
    BY <1>1, <1>2, <1>3, Zenon DEF GoodRows
  <1>6. row' = [row EXCEPT ![n] = then]
    BY <1>1, <1>2, Zenon
  <1> HIDE DEF then
  <1>7. RowInv'
    BY Zenon, <1>4, <1>5, <1>6, RowChanged
  <1>8. HeatInv'
    BY <1>2, StartedType, Zenon DEF IInv, HeatInv
  <1>9. Grows
    BY <1>4, NothingGrows, Zenon
  <1>10. NetInv'
    BY <1>4, <1>9, NetTaken, Zenon
  <1> QED BY Zenon, <1>4, <1>7, <1>8, <1>9, <1>10, Kept DEF IInv, Grows, CountInv, ListInv

LEMMA LossStep ==
    ASSUME IInv, NEW m \in net, Lose(m) \/ NobodyThere(m)
    PROVE  IInv'
  <1>1. UNCHANGED <<me, row, heat, list, probe, acks, round, up, life, late>>
        /\ net' \subseteq net /\ lost' \in Nat
    BY DEF Lose, NobodyThere, faults, IInv, CountInv
  <1>2. Grows
    BY <1>1, NothingGrows
  <1>3. NetInv'
    BY <1>1, <1>2, NetTaken, Zenon
  <1> QED BY Zenon, <1>1, <1>2, <1>3, Kept DEF IInv, Grows, CountInv, ListInv, HeatInv

\* What a member that stops leaves behind.
LEMMA StoppedGood ==
    ASSUME IInv, Grows, NEW n \in Node, Stopped(n)
    PROVE  ListInv' /\ ProbeInv' /\ AckInv' /\ CountInv'
  <1>1. /\ list' = [list EXCEPT ![n] = {}] /\ probe' = [probe EXCEPT ![n] = [phase |-> "idle"]]
        /\ acks' = [acks EXCEPT ![n] = <<>>] /\ up' = up \ {n} /\ UNCHANGED <<round, lost, late>>
    BY Zenon DEF Stopped
  <1>2. ListInv'
    <2>1. list' \in [Node -> SUBSET Record] /\ \A k \in Node : list'[k] \subseteq list[k]
      BY ZenonT(20), <1>1 DEF IInv, ListInv
    <2> QED BY <2>1, Kept, Zenon
  <1>3. ProbeInv'
    <2>1. probe' \in [Node -> Probe]
      BY ZenonT(20), <1>1 DEF IInv, ProbeInv, Probe
    <2>2. \A k \in Node : probe'[k].phase # "idle" =>
             probe'[k] = probe[k] /\ probe[k].of.id \in Node /\ probe[k].of.inc \in Int
             /\ Fits(probe[k].of.id, probe[k].of.inc)
      BY SMTT(20), <1>1 DEF IInv, ProbeInv, Probe, Record
    <2>3. \A k \in Node : probe'[k].phase # "idle" =>
             (life'[probe[k].of.id] = 0 => probe[k].of.inc <= me'[probe[k].of.id].inc)
      BY <2>2, FitsGrows, Zenon DEF IInv
    <2> QED BY ZenonT(20), <2>1, <2>2, <2>3 DEF ProbeInv, Fits
  <1>4. AckInv'
    <2>1. acks' \in [Node -> Seq(Ack)]
      BY <1>1 DEF IInv, AckInv
    <2>2. \A k \in Node : \A i \in DOMAIN acks[k] : acks[k][i] \in Ack
      BY DEF IInv, AckInv
    <2>3. \A k \in Node : \A i \in DOMAIN acks[k] :
             acks[k][i].from \in Node /\ acks[k][i].self.inc \in Int
             /\ Fits(acks[k][i].from, acks[k][i].self.inc)
      BY SMTT(20), <2>2 DEF IInv, AckInv, Ack, Self
    <2>4. \A k \in Node : \A i \in DOMAIN acks[k] :
             life'[acks[k][i].from] = 0 => acks[k][i].self.inc <= me'[acks[k][i].from].inc
      BY <2>3, FitsGrows, Zenon DEF IInv
    <2>5. \A k \in Node : acks'[k] = IF k = n THEN <<>> ELSE acks[k]
      BY <1>1, Zenon DEF IInv, AckInv
    <2>6. \A k \in Node : \A i \in DOMAIN acks'[k] : acks'[k] = acks[k]
      BY <2>5
    <2> QED BY Zenon, <2>1, <2>4, <2>6 DEF AckInv, Fits
  <1>5. CountInv'
    BY ZenonT(20), <1>1 DEF IInv, CountInv
  <1> QED BY <1>2, <1>3, <1>4, <1>5, Zenon

LEMMA CrashStep ==
    ASSUME IInv, NEW n \in Node, Crash(n)
    PROVE  IInv'
  <1>1. UNCHANGED <<me, row, heat, net, life>> /\ Stopped(n)
    BY Zenon DEF Crash, Stopped
  <1>2. Grows
    BY <1>1, NothingGrows, Zenon
  <1>3. NetInv' /\ ListInv' /\ ProbeInv' /\ AckInv' /\ CountInv'
    BY <1>1, <1>2, NetTaken, StoppedGood, Zenon
  <1> QED BY Zenon, <1>1, <1>2, <1>3, Kept DEF IInv, Grows, HeatInv

LEMMA SetDepartedStep ==
    ASSUME IInv, NEW n \in Node, SetDeparted(n)
    PROVE  IInv'
  <1> DEFINE self == [inc |-> me[n].inc + 1, departed |-> TRUE]
             Q == {[PingOrAck("ack", n, m, None) EXCEPT !.self = self] : m \in Known(n) \ {n}}
             r == HealthRow(row[n][n], "Departed")
             then == [row[n] EXCEPT ![n] = r]
  <1>1. me[n].inc \in Nat /\ self \in Self
    BY DEF IInv, MeInv, Self
  <1>2. /\ me' = [me EXCEPT ![n] = self] /\ net' = net \cup Q /\ UNCHANGED <<heat, life>>
        /\ row' = [row EXCEPT ![n] = then] /\ Stopped(n)
    BY DEF SetDeparted, Stopped, IInv, RowInv
  <1>3. Grows
    BY <1>1, <1>2 DEF Grows, IInv, MeInv, Self
  <1>4. NetInv'
    <2>1. ASSUME NEW q \in Q PROVE GoodPacket(q)'
      <3>1. PICK m \in Known(n) \ {n} : q = [PingOrAck("ack", n, m, None) EXCEPT !.self = self]
        BY Zenon
      <3>2. m \in Node
        BY DEF Known
      <3> DEFINE a == AlwaysTarget(n, m)
                 o == HotFor(n, m)
      <3>3. GoodMembership(a) /\ GoodMembership(o)
        BY <3>2, SentIsGood DEF IInv
      <3>4. q = [kind |-> "ack", from |-> n, to |-> m, self |-> self, fwd |-> None,
                 always |-> a, hot |-> o]
        BY Zenon, <3>1 DEF PingOrAck
      <3> HIDE DEF a, o, self
      <3>5. q \in Packet
        BY <1>1, <3>2, <3>3, <3>4, Zenon DEF Packet, GoodMembership
      <3>6. \A e \in a : life'[e.id] = 0 => e.inc <= me'[e.id].inc
        BY <1>3, <3>3, KeepMembership, Zenon DEF IInv
      <3>7. \A e \in o : life'[e.id] = 0 => e.inc <= me'[e.id].inc
        BY <1>3, <3>3, KeepMembership, Zenon DEF IInv
      <3>8. q.from = n /\ q.self = self /\ q.always = a /\ q.hot = o
        BY <3>4, Zenon
      <3>9. self.inc <= me'[n].inc
        BY <1>1, <1>2 DEF IInv, MeInv, Self
      <3> QED BY <3>3, <3>5, <3>6, <3>7, <3>8, <3>9, Zenon DEF GoodPacket, GoodMembership, Fits
    <2>2. \A p \in net : GoodPacket(p)'
      BY ZenonT(20), <1>3, Kept
    <2> QED BY <1>2, <2>1, <2>2, Zenon DEF NetInv
  <1>5. RowInv'
    <2>1. \A k \in Node : GoodRows(row[k])
      BY ZenonT(20) DEF IInv, RowInv
    <2>2. r \in Row /\ r.health \in Health /\ r.inc = row[n][n].inc
      BY ZenonT(20), <2>1, HealthRowGood DEF GoodRows, Health
    <2>3. GoodRows(then)
      BY <2>1, <2>2, Zenon DEF GoodRows
    <2>4. \A k, x \in Node : life'[x] = 0 => row[k][x].inc <= me'[x].inc
      BY <1>3, <2>1, KeepRows, Zenon DEF IInv
    <2> HIDE DEF then, r
    <2>5. \A x \in Node : life'[x] = 0 => then[x].inc <= me'[x].inc
      BY <1>3, <2>3, KeepRows, Zenon DEF IInv
    <2>6. \A k \in Node : row'[k] = IF k = n THEN then ELSE row[k]
      BY <1>2, Zenon DEF IInv, RowInv
    <2>7. row' \in [Node -> [Node -> Row]]
      BY Zenon, <1>2, <2>3 DEF IInv, RowInv, GoodRows
    <2> QED BY <2>1, <2>3, <2>4, <2>5, <2>6, <2>7, Zenon DEF RowInv, GoodRows, Fits
  <1>6. ListInv' /\ ProbeInv' /\ AckInv' /\ CountInv'
    BY ZenonT(20), <1>2, <1>3, StoppedGood
  <1> QED BY <1>2, <1>3, <1>4, <1>5, <1>6, Zenon DEF IInv, Grows, HeatInv

\* Once it has been started again nothing is claimed about a member; its list is
\* made of records it held before.
LEMMA StartStep ==
    ASSUME IInv, NEW n \in Node, Start(n)
    PROVE  IInv'
  <1> DEFINE old == [m \in Node |-> Reload(row[n][m])]
             rows == IF n \in Diskless THEN NoMembers ELSE old
             ids == {m \in Node : HasRecord(rows[m])}
  <1>1. /\ me' = [me EXCEPT ![n] = [inc |-> 0, departed |-> FALSE]]
        /\ life' = [life EXCEPT ![n] = @ + 1] /\ up' = up \cup {n}
        /\ row' = [row EXCEPT ![n] = rows]
        /\ heat' = [heat EXCEPT ![n] = Started(Unstarted, ids)]
        /\ UNCHANGED <<list, probe, acks, net, round, lost, late>>
    BY Zenon DEF Start
  <1>2. Grows
    <2>1. life'[n] # 0 /\ \A m \in Node \ {n} : life'[m] = life[m] /\ me'[m] = me[m]
      BY SMTT(20), <1>1 DEF IInv, MeInv
    <2>2. MeInv'
      BY SMTT(20), <1>1 DEF IInv, MeInv, Self
    <2> QED BY SMTT(20), <2>1, <2>2 DEF Grows, IInv, MeInv, Self
  <1>3. HeatInv'
    <2>1. Unstarted \in Heat
      BY DEF Unstarted, Heat, RumorCoolDownLimit
    <2>2. Started(Unstarted, ids) \in Heat
      BY ZenonT(20), <2>1, StartedType
    <2> QED BY <1>1, <2>2, Zenon DEF IInv, HeatInv
  <1>4. RowInv'
    <2>1. EmptyRow \in Row /\ ~HasRecord(EmptyRow) /\ EmptyRow.inc = -1
      BY ZenonT(20) DEF EmptyRow, Row, HasRecord, NoRecord, NoHealth, IncarnationOrNone, HealthOrNone
    <2>2. \A k \in Node : GoodRows(row[k])
      BY Zenon DEF IInv, RowInv
    <2>3. ASSUME NEW m \in Node
          PROVE  /\ Reload(row[n][m]) \in Row
                 /\ HasRecord(Reload(row[n][m])) => Reload(row[n][m]).health \in Health
                 /\ Reload(row[n][m]).inc \in {-1, row[n][m].inc}
      <3>1. CASE HasRecord(row[n][m])
        <4>1. row[n][m].inc \in Nat /\ row[n][m].health \in Health
          BY ZenonT(20), <2>2, <3>1 DEF GoodRows, HasRecord, Row, IncarnationOrNone, Incarnation
        <4>2. Reload(row[n][m]) = InsertRow(EmptyRow, row[n][m].inc, row[n][m].health)
          BY ZenonT(20), <3>1 DEF Reload
        <4> QED BY ZenonT(20), <2>1, <4>1, <4>2, InsertGood
      <3>2. CASE ~HasRecord(row[n][m])
        BY ZenonT(20), <2>1, <3>2 DEF Reload
      <3> QED BY ZenonT(20), <3>1, <3>2
    <2>4. \A m \in Node : rows[m] \in Row /\ (HasRecord(rows[m]) => rows[m].health \in Health)
                          /\ rows[m].inc \in {-1, row[n][m].inc}
      BY ZenonT(20), <2>1, <2>3 DEF NoMembers
    <2>5. rows \in [Node -> Row]
      BY <2>4, Zenon DEF NoMembers
    <2> HIDE DEF rows
    <2>6. \A k, x \in Node : life'[x] = 0 => row[k][x].inc <= me'[x].inc
      BY <1>2, <2>2, KeepRows, Zenon DEF IInv
    <2>7. \A x \in Node : me'[x].inc \in Nat
      BY ZenonT(20), <1>2 DEF Grows, MeInv, Self
    <2>8. \A x \in Node : life'[x] = 0 => rows[x].inc <= me'[x].inc
      BY SMTT(20), <2>4, <2>6, <2>7
    <2>9. \A k \in Node : row'[k] = IF k = n THEN rows ELSE row[k]
      BY ZenonT(20), <1>1 DEF IInv, RowInv
    <2>10. row' \in [Node -> [Node -> Row]]
      BY Zenon, <1>1, <2>5 DEF IInv, RowInv
    <2> QED BY ZenonT(20), <2>2, <2>4, <2>5, <2>6, <2>8, <2>9, <2>10 DEF RowInv, GoodRows, Fits
  <1>5. NetInv'
    BY <1>1, <1>2, NetTaken, Zenon
  <1> QED BY ZenonT(30), <1>1, <1>2, <1>3, <1>4, <1>5, Kept DEF IInv, Grows, CountInv, ListInv

-----------------------------------------------------------------------------
LEMMA IInvStep == IInv /\ [Next]_vars => IInv'
  <1> SUFFICES ASSUME IInv, [Next]_vars PROVE IInv'
    BY Zenon
  <1>1. CASE UNCHANGED vars
    <2>1. UNCHANGED <<me, row, heat, list, probe, acks, net, round, up, life, lost, late>>
      BY <1>1, Zenon DEF vars
    <2>2. Grows
      BY <2>1, NothingGrows, Zenon
    <2> QED BY Zenon, <2>1, <2>2, NetTaken, Kept DEF IInv, Grows, CountInv, ListInv, HeatInv
  <1>2. ASSUME NEW n \in Node, NEW m \in net,
               ProcessPing(n, m) \/ ProcessPingReq(n, m) \/ ProcessAck(n, m) \/ Pull(n, m)
        PROVE  IInv'
    BY <1>2, ProcessPingStep, ProcessPingReqStep, ProcessAckStep, PullStep, Zenon
  <1>3. ASSUME NEW n \in Node, Outbound(n) \/ Crash(n) \/ SetDeparted(n) \/ Start(n)
        PROVE  IInv'
    BY <1>3, OutboundStep, CrashStep, SetDepartedStep, StartStep, Zenon
  <1>4. ASSUME NEW n \in Node, NEW m \in Node,
               Push(n, m) \/ ExpireSuspect(n, m) \/ ExpireDeparture(n, m)
        PROVE  IInv'
    BY <1>4, PushStep, ExpireStep, Zenon
  <1>5. ASSUME NEW m \in net, Lose(m) \/ NobodyThere(m) PROVE IInv'
    BY ZenonT(20), <1>5, LossStep
  <1>6. ASSUME Next PROVE IInv'
    BY <1>2, <1>3, <1>4, <1>5, <1>6, Zenon DEF Next, Inbound
  <1> QED BY <1>1, <1>6, Zenon

\* The invariant behind both theorems below: lists, snapshots, probes, the acks
\* between the threads and the packets are well formed and claim nothing newer
\* than the member they are about.
THEOREM InductiveInvariant == Spec => []IInv
  BY IInvInit, IInvStep, PTL DEF Spec

\* The state of the failure detector stays well formed.
THEOREM TypeCorrect == Spec => []TypeOK
  BY InductiveInvariant, IInvImplies, PTL

\* No record of a member is newer than the member's own, for any number of
\* members, losses and early timeouts: raising the own incarnation by one, as
\* insert_member_from_rumor does, outbids every record under way.
THEOREM RefutationWorks == Spec => []OwnIncarnationLeads
  BY InductiveInvariant, IInvImplies, PTL

-----------------------------------------------------------------------------
(* Nobody is suspected while less went wrong than the probe allows for.     *)

\* Nobody stopped, and what went wrong so far is tolerated.
Calm == up = Node /\ (\A n \in Node : life[n] = 0) /\ lost + late <= Tolerated

\* Nothing but Alive is known, sent or waiting, and no timer runs.
Untroubled(r) == r.health \in {"Alive", NoHealth} /\ r.suspect = FALSE /\ r.depart = FALSE
AllAlive(es) == \A e \in es : e.health = "Alive"
GoodNews(p) ==
    /\ p.kind \in {"ping", "ack"} => p.self.departed = FALSE /\ AllAlive(p.always)
    /\ p.kind # "pingreq" => AllAlive(p.hot)
RowsCalm == \A n, m \in Node : Untroubled(row[n][m])
SelvesCalm == \A n \in Node : me[n].departed = FALSE
AcksCalm == \A n \in Node : \A i \in DOMAIN acks[n] : acks[n][i].self.departed = FALSE
NetCalm == \A p \in net : GoodNews(p)
FoundersKnown == \A n, m \in Founder : HasRecord(row[n][m])

\* Packet m leads to an ack of t that the inbound thread of n passes on.
Answers(m, n, t) ==
    \/ m.kind = "ping" /\ m.to = t /\ ((m.from = n /\ m.fwd = None) \/ m.fwd = n)
    \/ m.kind = "ack" /\ m.from = t /\ ((m.to = n /\ m.fwd = None) \/ m.fwd = n)
    \/ m.kind = "pingreq" /\ m.from = n /\ m.target = t /\ HasRecord(row[m.to][t])
Answered(n, t) == \E i \in DOMAIN acks[n] : acks[n][i].from = t
Promised(n, t) == Answered(n, t) \/ \E m \in net : Answers(m, n, t)

\* As long as nothing went wrong an answer is on its way; the second phase is only
\* reached once something did, and then an answer is on its way again.
ProbesCalm ==
    \A n \in Node :
        /\ probe[n].phase = "ping" /\ lost + late = 0 => Promised(n, probe[n].of.id)
        /\ probe[n].phase = "pingreq" => lost + late > 0 /\ Promised(n, probe[n].of.id)

CalmInv ==
    Calm => RowsCalm /\ SelvesCalm /\ AcksCalm /\ NetCalm /\ FoundersKnown /\ ProbesCalm

\* No record is removed.
RecordsStay == \A n, m \in Node : HasRecord(row[n][m]) => HasRecord(row'[n][m])

\* MemberList::insert of a member that is alive.
LEMMA InsertAlive ==
    ASSUME NEW r \in Row, Untroubled(r), NEW inc \in Nat
    PROVE  /\ Untroubled(InsertRow(r, inc, "Alive"))
           /\ HasRecord(r) => HasRecord(InsertRow(r, inc, "Alive"))
  <1>1. /\ ~StartSuspicion(r, inc, "Alive") /\ r.suspect = FALSE /\ r.depart = FALSE
        /\ inc # NoRecord
    BY DEF StartSuspicion, Untroubled, NoRecord
  <1>2. CASE ShareRumor(r, inc, "Alive")
    <2>1. InsertRow(r, inc, "Alive") = [inc |-> inc, health |-> "Alive", suspect |-> FALSE, depart |-> FALSE]
      BY <1>1, <1>2, Zenon DEF InsertRow
    <2> QED
      BY <1>1, <2>1 DEF Untroubled, HasRecord
  <1>3. CASE ~ShareRumor(r, inc, "Alive")
    BY <1>3, Zenon DEF InsertRow
  <1> QED
    BY <1>2, <1>3, Zenon

\* The rows of a list in which nobody is suspected.
CalmRows(rows) == \A m \in Node : Untroubled(rows[m])
Keeps(n, rows) == \A m \in Node : HasRecord(row[n][m]) => HasRecord(rows[m])

LEMMA InsertSelfCalm ==
    ASSUME NEW n, NEW rows, GoodRows(rows), CalmRows(rows), Keeps(n, rows),
           NEW m \in Node, NEW self \in Self, self.departed = FALSE
    PROVE  CalmRows(InsertSelf(rows, m, self)) /\ Keeps(n, InsertSelf(rows, m, self))
  <1> DEFINE r == InsertRow(rows[m], self.inc, "Alive")
  <1>1. rows \in [Node -> Row] /\ self.inc \in Nat /\ StatusOf(self) = "Alive"
    BY Zenon DEF GoodRows, Self, StatusOf
  <1>2. InsertSelf(rows, m, self) = [rows EXCEPT ![m] = r]
    BY <1>1, Zenon DEF InsertSelf
  <1>3. Untroubled(r) /\ (HasRecord(rows[m]) => HasRecord(r))
    BY <1>1, InsertAlive, Zenon DEF CalmRows
  <1> HIDE DEF r
  <1> QED
    BY <1>1, <1>2, <1>3, Zenon DEF CalmRows, Keeps

LEMMA HeardCalm ==
    ASSUME NEW n \in Node, NEW rows, GoodRows(rows), CalmRows(rows), Keeps(n, rows),
           NEW es, GoodMembership(es), AllAlive(es)
    PROVE  CalmRows(Heard(n, rows, es)) /\ Keeps(n, Heard(n, rows, es))
  <1> SUFFICES ASSUME NEW m \in Node
               PROVE  /\ Untroubled(Heard(n, rows, es)[m])
                      /\ HasRecord(row[n][m]) => HasRecord(Heard(n, rows, es)[m])
    BY Zenon DEF CalmRows, Keeps
  <1>1. rows[m] \in Row /\ Untroubled(rows[m]) /\ (HasRecord(row[n][m]) => HasRecord(rows[m]))
    BY Zenon DEF GoodRows, CalmRows, Keeps
  <1>2. CASE \E e \in es : e.id = m
    <2> DEFINE e == CHOOSE x \in es : x.id = m
    <2>1. e \in es
      BY <1>2, Zenon
    <2>2. e.inc \in Nat /\ HealthAbout(n, e) = "Alive"
      BY <2>1, Zenon DEF GoodMembership, Membership, HealthAbout, AllAlive
    <2>3. Heard(n, rows, es)[m] = InsertRow(rows[m], e.inc, "Alive")
      BY <1>2, <2>2, Zenon DEF Heard
    <2> HIDE DEF e
    <2> QED
      BY <1>1, <2>2, <2>3, InsertAlive, Zenon
  <1>3. CASE ~\E e \in es : e.id = m
    BY <1>1, <1>3, Zenon DEF Heard
  <1> QED
    BY <1>2, <1>3, Zenon

\* A list changed in one place.
LEMMA CalmRowsWritten ==
    ASSUME IInv, RowsCalm, NEW n \in Node, NEW rows, CalmRows(rows), Keeps(n, rows),
           row' = [row EXCEPT ![n] = rows]
    PROVE  RowsCalm' /\ RecordsStay
  <1>1. \A k \in Node : row'[k] = IF k = n THEN rows ELSE row[k]
    BY Zenon DEF IInv, RowInv
  <1> QED
    BY <1>1, Zenon DEF RowsCalm, CalmRows, Keeps, RecordsStay

LEMMA OwnRows ==
    ASSUME IInv, RowsCalm, NEW n \in Node
    PROVE  GoodRows(row[n]) /\ CalmRows(row[n]) /\ Keeps(n, row[n])
  BY Zenon DEF IInv, RowInv, RowsCalm, CalmRows, Keeps

LEMMA TakeRumorsCalm ==
    ASSUME IInv, RowsCalm, SelvesCalm, NEW n \in Node, NEW m,
           GoodMembership(m.always), GoodMembership(m.hot), AllAlive(m.always), AllAlive(m.hot),
           NEW rows, GoodRows(rows), CalmRows(rows), Keeps(n, rows), NEW h, TakeRumors(n, m, rows, h)
    PROVE  RowsCalm' /\ RecordsStay /\ SelvesCalm'
  <1> DEFINE once == Heard(n, rows, m.always)
             then == Heard(n, once, m.hot)
  <1>1. GoodRows(once) /\ CalmRows(once) /\ Keeps(n, once)
    BY HeardGood, HeardCalm, Zenon
  <1>2. row' = [row EXCEPT ![n] = then] /\ me' = [me EXCEPT ![n].inc = @ + Refutations(n, m)]
    BY Zenon DEF TakeRumors
  <1> HIDE DEF once
  <1>3. CalmRows(then) /\ Keeps(n, then)
    BY <1>1, HeardCalm, Zenon
  <1> HIDE DEF then
  <1>4. RowsCalm' /\ RecordsStay
    BY <1>2, <1>3, CalmRowsWritten, Zenon
  <1>5. SelvesCalm'
    BY <1>2, Zenon DEF SelvesCalm, IInv, MeInv, Self
  <1> QED
    BY <1>4, <1>5, Zenon

\* What is sent is good news.
LEMMA SentIsCalm ==
    ASSUME IInv, RowsCalm, NEW n \in Node, NEW t
    PROVE  AllAlive(AlwaysTarget(n, t)) /\ AllAlive(HotFor(n, t))
  <1>1. \A x \in Known(n) : row[n][x].health = "Alive"
    BY Zenon DEF IInv, RowInv, GoodRows, RowsCalm, Untroubled, Known, Health, NoHealth
  <1>2. ASSUME NEW m PROVE AllAlive(MembershipFor(n, m))
    BY <1>1 DEF AllAlive, MembershipFor
  <1> QED
    BY <1>2, Zenon DEF AlwaysTarget, HotFor, AllAlive

LEMMA PingOrAckCalm ==
    ASSUME IInv, RowsCalm, SelvesCalm, NEW kind \in {"ping", "ack"}, NEW n \in Node, NEW t, NEW fwd
    PROVE  /\ GoodNews(PingOrAck(kind, n, t, fwd))
           /\ PingOrAck(kind, n, t, fwd).kind = kind /\ PingOrAck(kind, n, t, fwd).from = n
           /\ PingOrAck(kind, n, t, fwd).to = t /\ PingOrAck(kind, n, t, fwd).fwd = fwd
  BY SentIsCalm, Zenon DEF PingOrAck, GoodNews, SelvesCalm

-----------------------------------------------------------------------------
(* The steps that keep calm. *)

CalmParts == RowsCalm /\ SelvesCalm /\ AcksCalm /\ NetCalm /\ FoundersKnown /\ ProbesCalm
PromisesKept == \A n, t \in Node : Promised(n, t) => Promised(n, t)'

LEMMA PacketTypes ==
    ASSUME IInv, NEW m \in net
    PROVE  /\ m.to \in Node /\ m.from \in Node
           /\ m.kind \in {"ping", "ack"} =>
                 /\ m \in Packet /\ m.fwd \in Node \cup {None} /\ m.self \in Self /\ Fits(m.from, m.self.inc)
                 /\ GoodMembership(m.always) /\ GoodMembership(m.hot)
           /\ m.kind = "pingreq" => m.target \in Node
           /\ m.kind = "rumor" => GoodMembership(m.hot)
  BY Zenon DEF IInv, NetInv, GoodPacket, Packet, PingReq, Pushed

LEMMA PromisesStay ==
    ASSUME IInv, RecordsStay,
           \A n, t \in Node : Answered(n, t) => Promised(n, t)',
           \A n, t \in Node : \A m \in net \ net' : Answers(m, n, t) => Promised(n, t)'
    PROVE  PromisesKept
  <1> SUFFICES ASSUME NEW n \in Node, NEW t \in Node, NEW m \in net, m \in net', Answers(m, n, t)
               PROVE  Promised(n, t)'
    BY Zenon DEF PromisesKept, Promised
  <1>1. m.to \in Node
    BY PacketTypes, Zenon
  <1>2. Answers(m, n, t)'
    BY <1>1, Zenon DEF Answers, RecordsStay
  <1> QED
    BY <1>2, Zenon DEF Promised

LEMMA NetGrows ==
    ASSUME IInv, RecordsStay, UNCHANGED acks, net \subseteq net'
    PROVE  PromisesKept
  <1>1. \A n, t \in Node : Answered(n, t) => Promised(n, t)'
    BY Zenon DEF Answered, Promised
  <1> QED
    BY <1>1, PromisesStay, Zenon

LEMMA ProbeOf ==
    ASSUME IInv, NEW n \in Node, probe[n].phase # "idle"
    PROVE  probe[n].of \in Record /\ probe[n].of.id \in Node
  BY Zenon DEF IInv, ProbeInv, Probe, Record

LEMMA KeepsCalm ==
    ASSUME IInv, CalmParts, UNCHANGED <<probe, lost, late>>, PromisesKept,
           RowsCalm', SelvesCalm', AcksCalm', NetCalm', RecordsStay
    PROVE  CalmParts'
  <1>1. FoundersKnown'
    BY NodeAssumption, Zenon DEF CalmParts, FoundersKnown, RecordsStay
  <1>2. ProbesCalm'
    BY ProbeOf, Zenon DEF CalmParts, ProbesCalm, PromisesKept
  <1> QED
    BY <1>1, <1>2, Zenon DEF CalmParts

LEMMA SameRows ==
    ASSUME CalmParts, UNCHANGED row
    PROVE  RowsCalm' /\ RecordsStay
  BY Zenon DEF CalmParts, RowsCalm, RecordsStay

LEMMA IdleCalm ==
    ASSUME IInv, CalmParts, UNCHANGED <<me, row, acks, net, probe, lost, late>>
    PROVE  CalmParts'
  <1>1. RowsCalm' /\ RecordsStay
    BY SameRows, Zenon
  <1>2. SelvesCalm' /\ AcksCalm' /\ NetCalm'
    BY Zenon DEF CalmParts, SelvesCalm, AcksCalm, NetCalm
  <1>3. PromisesKept
    BY <1>1, NetGrows, Zenon
  <1> QED
    BY <1>1, <1>2, <1>3, KeepsCalm, Zenon

LEMMA SendCalm ==
    ASSUME IInv, CalmParts, UNCHANGED <<me, row, acks, probe, lost, late>>,
           NEW qs, net' = net \cup qs, \A q \in qs : GoodNews(q)
    PROVE  CalmParts'
  <1>1. RowsCalm' /\ RecordsStay
    BY SameRows, Zenon
  <1>2. SelvesCalm' /\ AcksCalm' /\ NetCalm'
    BY Zenon DEF CalmParts, SelvesCalm, AcksCalm, NetCalm
  <1>3. PromisesKept
    BY <1>1, NetGrows, Zenon
  <1> QED
    BY <1>1, <1>2, <1>3, KeepsCalm, Zenon

LEMMA BootPingCalm ==
    ASSUME IInv, CalmParts, NEW n \in Node, BootPing(n) \/ CheckList(n)
    PROVE  CalmParts'
  <1>1. CASE BootPing(n)
    <2>1. GoodNews(PingOrAck("ping", n, Seed[n], None))
      BY PingOrAckCalm, Zenon DEF CalmParts
    <2>2. /\ net' = net \cup {PingOrAck("ping", n, Seed[n], None)}
          /\ UNCHANGED <<me, row, acks, probe, lost, late>>
      BY <1>1, Zenon DEF BootPing, faults
    <2> DEFINE qs == {PingOrAck("ping", n, Seed[n], None)}
    <2>3. net' = net \cup qs /\ \A q \in qs : GoodNews(q)
      BY <2>1, <2>2, Zenon
    <2> HIDE DEF qs
    <2> QED
      BY <2>2, <2>3, SendCalm, Zenon
  <1>2. CASE CheckList(n)
    BY <1>2, IdleCalm, Zenon DEF CheckList
  <1> QED
    BY <1>1, <1>2, Zenon

\* The ping that begins a probe is the promise of its answer.
LEMMA BeginProbeCalm ==
    ASSUME IInv, CalmParts, NEW n \in Node, NEW e \in list[n], BeginProbe(n, e)
    PROVE  CalmParts'
  <1> DEFINE q == PingOrAck("ping", n, e.id, None)
  <1>1. UNCHANGED <<me, row, acks, lost, late>>
    BY Zenon DEF BeginProbe, faults
  <1>2. CASE Pingable(row[n][e.id], e.id \in Persistent)
    <2>1. net' = net \cup {q} /\ probe' = [probe EXCEPT ![n] = [phase |-> "ping", of |-> e]]
      BY <1>2, Zenon DEF BeginProbe
    <2>2. GoodNews(q) /\ q.kind = "ping" /\ q.from = n /\ q.to = e.id /\ q.fwd = None
      BY PingOrAckCalm DEF CalmParts
    <2> HIDE DEF q
    <2>3. RowsCalm' /\ RecordsStay
      BY <1>1, SameRows, Zenon
    <2>4. SelvesCalm' /\ AcksCalm' /\ NetCalm'
      BY <1>1, <2>1, <2>2, Zenon DEF CalmParts, SelvesCalm, AcksCalm, NetCalm
    <2>5. PromisesKept
      BY <1>1, <2>1, <2>3, NetGrows, Zenon
    <2>6. FoundersKnown'
      BY <1>1, Zenon DEF CalmParts, FoundersKnown
    <2>7. Promised(n, e.id)'
      BY <2>1, <2>2, Zenon DEF Promised, Answers
    <2>8. /\ probe'[n].phase = "ping" /\ probe'[n].of.id = e.id
          /\ \A k \in Node \ {n} : probe'[k] = probe[k]
      BY <2>1, Zenon DEF IInv, ProbeInv
    <2>9. ProbesCalm'
      BY <1>1, <2>5, <2>7, <2>8, ProbeOf, Zenon DEF CalmParts, ProbesCalm, PromisesKept
    <2> QED
      BY <2>3, <2>4, <2>6, <2>9, Zenon DEF CalmParts
  <1>3. CASE ~Pingable(row[n][e.id], e.id \in Persistent)
    <2>1. UNCHANGED <<probe, net>>
      BY <1>3, Zenon DEF BeginProbe
    <2> QED
      BY <1>1, <2>1, IdleCalm, Zenon
  <1> QED
    BY <1>2, <1>3, Zenon

LEMMA RecvAckCalm ==
    ASSUME IInv, CalmParts, NEW n \in Node, RecvAckFromInbound(n)
    PROVE  CalmParts'
  <1> DEFINE a == Head(acks[n])
             rest == Tail(acks[n])
             then == InsertSelf(row[n], a.from, a.self)
  <1>1. /\ probe[n].phase # "idle" /\ acks[n] # <<>> /\ UNCHANGED <<me, net, lost, late>>
        /\ row' = [row EXCEPT ![n] = then]
        /\ acks' = [acks EXCEPT ![n] = rest]
        /\ probe' = IF a.from = probe[n].of.id THEN [probe EXCEPT ![n] = [phase |-> "idle"]] ELSE probe
    BY Zenon DEF RecvAckFromInbound, faults
  <1>2. /\ a = acks[n][1] /\ 1 \in DOMAIN acks[n] /\ a \in Ack
        /\ DOMAIN acks[n] \subseteq Nat /\ DOMAIN rest \subseteq Nat
        /\ \A i \in DOMAIN rest : i + 1 \in DOMAIN acks[n] /\ rest[i] = acks[n][i + 1]
        /\ \A i \in DOMAIN acks[n] : i # 1 => i - 1 \in DOMAIN rest
    <2>1. acks[n] \in Seq(Ack)
      BY Zenon DEF IInv, AckInv
    <2> QED
      BY <1>1, <2>1
  <1> HIDE DEF rest
  <1>3. acks'[n] = rest /\ \A k \in Node \ {n} : acks'[k] = acks[k]
    BY <1>1, Zenon DEF IInv, AckInv
  <1>4. a.from \in Node /\ a.self \in Self /\ a.self.departed = FALSE
    BY <1>2, Zenon DEF Ack, CalmParts, AcksCalm
  <1> HIDE DEF a
  <1>5. RowsCalm' /\ RecordsStay
    <2>1. CalmRows(then) /\ Keeps(n, then)
      BY <1>4, OwnRows, InsertSelfCalm, Zenon DEF CalmParts
    <2> HIDE DEF then
    <2> QED
      BY <1>1, <2>1, CalmRowsWritten, Zenon DEF CalmParts
  <1> HIDE DEF then
  <1>6. SelvesCalm' /\ NetCalm'
    BY <1>1, Zenon DEF CalmParts, SelvesCalm, NetCalm
  <1>7. AcksCalm'
    BY <1>2, <1>3 DEF CalmParts, AcksCalm
  <1>8. FoundersKnown'
    BY <1>5, NodeAssumption, Zenon DEF CalmParts, FoundersKnown, RecordsStay
  <1>9. ASSUME NEW k \in Node, NEW t \in Node, Promised(k, t), k = n => t # a.from
        PROVE  Promised(k, t)'
    <2>1. CASE Answered(k, t)
      <3>1. PICK i \in DOMAIN acks[k] : acks[k][i].from = t
        BY <2>1, Zenon DEF Answered
      <3>2. CASE k = n
        <4>1. i # 1
          BY <1>2, <1>9, <3>1, <3>2, Zenon
        <4>2. i \in Nat /\ i - 1 \in DOMAIN rest /\ (i - 1) + 1 = i
          BY <1>2, <3>1, <3>2, <4>1
        <4>3. rest[i - 1] = acks[n][i]
          BY <1>2, <4>2, Zenon
        <4> QED
          BY <1>3, <3>1, <3>2, <4>2, <4>3, Zenon DEF Promised, Answered
      <3>3. CASE k # n
        BY <1>3, <3>1, <3>3, Zenon DEF Promised, Answered
      <3> QED
        BY <3>2, <3>3, Zenon
    <2>2. CASE \E m \in net : Answers(m, k, t)
      <3>1. PICK m \in net : Answers(m, k, t)
        BY <2>2, Zenon
      <3>2. Answers(m, k, t)'
        BY <1>5, <3>1, PacketTypes, Zenon DEF Answers, RecordsStay
      <3> QED
        BY <1>1, <3>1, <3>2, Zenon DEF Promised
    <2> QED
      BY <1>9, <2>1, <2>2, Zenon DEF Promised
  <1>10. ProbesCalm'
    <2>1. \A k \in Node : probe'[k].phase # "idle" => probe'[k] = probe[k] /\ (k = n => probe[k].of.id # a.from)
      BY <1>1, Zenon DEF IInv, ProbeInv
    <2> QED
      BY <1>1, <1>9, <2>1, ProbeOf, Zenon DEF CalmParts, ProbesCalm
  <1> QED
    BY <1>5, <1>6, <1>7, <1>8, <1>10, Zenon DEF CalmParts

\* While the answer is on its way, a timeout is too early.
LEMMA EarlyTimeout ==
    ASSUME IInv, NEW n \in Node, NEW phase \in {"ping", "pingreq"}, TimesOut(n, phase),
           Promised(n, probe[n].of.id)
    PROVE  late' = late + 1
  <1> DEFINE t == probe[n].of.id
  <1>1. acks[n] = <<>> /\ probe[n].phase = phase
    BY Zenon DEF TimesOut
  <1>2. ~Answered(n, t)
    BY <1>1 DEF Answered
  <1>3. PICK m \in net : Answers(m, n, t)
    BY <1>2, Zenon DEF Promised
  <1>4. m \in UnderWay(n, t)
    BY <1>3, Zenon DEF UnderWay, Answers
  <1> QED
    BY <1>4, Zenon DEF TimesOut

LEMMA CountsAdd ==
    ASSUME IInv
    PROVE  lost \in Nat /\ late \in Nat /\ Tolerated \in {0, 1}
  BY Zenon DEF IInv, CountInv, Tolerated

\* Where a fault is tolerated there is a third member to ask.
LEMMA ThirdMember ==
    ASSUME Tolerated # 0, NEW n \in Node, NEW t \in Node
    PROVE  Founder = Node /\ Node \ {n, t} # {}
  <1>1. Founder = Node /\ Cardinality(Node) > 2
    BY Zenon DEF Tolerated
  <1>2. ASSUME Node \ {n, t} = {} PROVE FALSE
    <2>1. Node \subseteq {n, t}
      BY <1>2, Zenon
    <2>2. IsFiniteSet({n}) /\ Cardinality({n}) = 1
      BY FS_Singleton, Zenon
    <2>3. IsFiniteSet({n} \cup {t}) /\ Cardinality({n} \cup {t}) \in {1, 2}
      BY <2>2, FS_AddElement
    <2>4. {n, t} = {n} \cup {t}
      BY Zenon
    <2>5. Cardinality(Node) \in Nat /\ Cardinality(Node) <= Cardinality({n, t})
      BY <2>1, <2>3, <2>4, FS_Subset, FS_CardinalityType, Zenon
    <2> QED
      BY <1>1, <2>3, <2>4, <2>5
  <1> QED
    BY <1>1, <1>2, Zenon

\* The members asked make up for the answer that was lost.
LEMMA PingTimeoutCalm ==
    ASSUME IInv, CalmParts, NEW n \in Node, PingTimeout(n), lost' + late' <= Tolerated
    PROVE  CalmParts'
  <1>1. probe[n].phase = "ping"
    BY Zenon DEF PingTimeout, TimesOut
  <1>2. PICK t \in Node : t = probe[n].of.id
    BY <1>1, ProbeOf, Zenon
  <1> DEFINE alive == {m \in Node \ {n, t} : HasRecord(row[n][m]) /\ row[n][m].health = "Alive"}
             Asked(helpers) == {[kind |-> "pingreq", from |-> n, to |-> m, target |-> t] : m \in helpers}
  <1>3. /\ TimesOut(n, "ping") /\ lost' = lost
        /\ UNCHANGED <<me, row, acks>> /\ probe' = [probe EXCEPT ![n].phase = "pingreq"]
    BY Zenon DEF PingTimeout
  <1>4. PICK helpers \in SUBSET alive :
            /\ helpers = alive \/ Cardinality(helpers) = PingReqTargets
            /\ net' = net \cup Asked(helpers)
    BY <1>2 DEF PingTimeout
  <1>5. late' \in {late, late + 1} /\ lost + late' > 0
    <2>1. late' \in {late, late + 1}
      BY <1>3, Zenon DEF TimesOut
    <2>2. lost + late = 0 => late' = late + 1
      BY <1>1, <1>3, EarlyTimeout, Zenon DEF CalmParts, ProbesCalm
    <2> QED
      BY <2>1, <2>2, CountsAdd
  <1>6. Tolerated # 0
    BY <1>3, <1>5, CountsAdd
  <1>7. Founder = Node /\ Node \ {n, t} # {}
    BY <1>6, ThirdMember, Zenon
  <1>8. alive = Node \ {n, t}
    <2>1. \A m \in Node : HasRecord(row[n][m]) /\ row[n][m].health = "Alive"
      BY <1>7, Zenon DEF IInv, RowInv, GoodRows, CalmParts, RowsCalm, FoundersKnown, Untroubled, Health, NoHealth
    <2> QED
      BY <2>1, Zenon
  <1>9. PICK h \in helpers : h \in Node
    <2>1. Cardinality({}) = 0 /\ PingReqTargets = 5
      BY FS_EmptySet, Zenon DEF PingReqTargets
    <2>2. alive # {}
      BY <1>7, <1>8, Zenon
    <2> HIDE DEF alive, Asked
    <2>3. helpers # {} /\ helpers \subseteq Node
      BY <1>4, <1>8, <2>1, <2>2
    <2> QED
      BY <2>3, Zenon
  <1>10. RowsCalm' /\ RecordsStay
    BY <1>3, SameRows, Zenon
  <1>11. SelvesCalm' /\ AcksCalm' /\ FoundersKnown'
    BY <1>3, Zenon DEF CalmParts, SelvesCalm, AcksCalm, FoundersKnown
  <1>12. NetCalm'
    <2>1. \A q \in Asked(helpers) : q.kind = "pingreq"
      OBVIOUS
    <2> HIDE DEF Asked
    <2>2. \A q \in Asked(helpers) : GoodNews(q)
      BY <2>1, Zenon DEF GoodNews
    <2> QED
      BY <1>4, <2>2, Zenon DEF CalmParts, NetCalm
  <1>13. PromisesKept
    <2> HIDE DEF Asked
    <2> QED
      BY <1>3, <1>4, <1>10, NetGrows, Zenon
  <1>14. Promised(n, t)'
    <2> DEFINE q == [kind |-> "pingreq", from |-> n, to |-> h, target |-> t]
    <2>1. q \in net'
      BY <1>4, <1>9, Zenon
    <2>2. HasRecord(row'[h][t])
      BY <1>3, <1>7, <1>9, Zenon DEF CalmParts, FoundersKnown
    <2>3. q.kind = "pingreq" /\ q.from = n /\ q.to = h /\ q.target = t
      BY Zenon
    <2> HIDE DEF q
    <2>4. \E m \in net' : m.kind = "pingreq" /\ m.from = n /\ m.target = t /\ HasRecord(row'[m.to][t])
      BY <2>1, <2>2, <2>3, Zenon
    <2> QED
      BY <2>4, Zenon DEF Promised, Answers
  <1>15. /\ probe'[n].phase = "pingreq" /\ probe'[n].of.id = t
         /\ \A k \in Node \ {n} : probe'[k] = probe[k]
    BY <1>1, <1>3, <1>2 DEF IInv, ProbeInv, Probe
  <1>16. ProbesCalm'
    <2>1. lost' + late' > 0
      BY <1>3, <1>5, Zenon
    <2> HIDE DEF alive, Asked
    <2> QED
      BY <1>13, <1>14, <1>15, <2>1, ProbeOf DEF CalmParts, ProbesCalm, PromisesKept
  <1> QED
    BY <1>10, <1>11, <1>12, <1>16, Zenon DEF CalmParts

\* So the second timeout would be one fault too many.
LEMMA PingReqTimeoutNever ==
    ASSUME IInv, CalmParts, NEW n \in Node, PingReqTimeout(n)
    PROVE  ~(lost' + late' <= Tolerated)
  <1>1. TimesOut(n, "pingreq") /\ probe[n].phase = "pingreq" /\ lost' = lost
    BY Zenon DEF PingReqTimeout, TimesOut
  <1>2. lost + late > 0 /\ late' = late + 1
    BY <1>1, EarlyTimeout, Zenon DEF CalmParts, ProbesCalm
  <1> QED
    BY <1>1, <1>2, CountsAdd

-----------------------------------------------------------------------------
LEMMA ProcessPingCalm ==
    ASSUME IInv, CalmParts, NEW n \in Node, NEW m \in net, ProcessPing(n, m)
    PROVE  CalmParts'
  <1>1. PICK q : q = PingOrAck("ack", n, m.from, m.fwd)
    BY Zenon
  <1> DEFINE rows == InsertSelf(row[n], m.from, m.self)
  <1>2. /\ m.kind = "ping" /\ m.to = n /\ net' = (net \ {m}) \cup {q}
        /\ TakeRumors(n, m, rows, Cooled(n, m.from, 1)) /\ UNCHANGED <<probe, acks, lost, late>>
    BY <1>1, Zenon DEF ProcessPing, faults
  <1>3. /\ m.from \in Node /\ m.self \in Self /\ Fits(m.from, m.self.inc)
        /\ GoodMembership(m.always) /\ GoodMembership(m.hot)
        /\ m.self.departed = FALSE /\ AllAlive(m.always) /\ AllAlive(m.hot)
    BY <1>2, PacketTypes, Zenon DEF CalmParts, NetCalm, GoodNews
  <1>4. GoodNews(q) /\ q.kind = "ack" /\ q.from = n /\ q.to = m.from /\ q.fwd = m.fwd
    BY <1>1, PingOrAckCalm DEF CalmParts
  <1>5. GoodRows(rows) /\ CalmRows(rows) /\ Keeps(n, rows)
    BY <1>3, OwnRows, InsertSelfGood, InsertSelfCalm, Zenon DEF CalmParts
  <1> HIDE DEF rows
  <1>6. RowsCalm' /\ RecordsStay /\ SelvesCalm'
    BY <1>2, <1>3, <1>5, TakeRumorsCalm, Zenon DEF CalmParts
  <1>7. NetCalm' /\ AcksCalm'
    BY <1>2, <1>4, Zenon DEF CalmParts, NetCalm, AcksCalm
  <1>8. PromisesKept
    <2>1. \A k, t \in Node : Answered(k, t) => Promised(k, t)'
      BY <1>2, Zenon DEF Answered, Promised
    <2>2. ASSUME NEW k \in Node, NEW t \in Node, Answers(m, k, t) PROVE Promised(k, t)'
      <3>1. Answers(q, k, t)'
        BY <1>2, <1>4, <2>2, Zenon DEF Answers
      <3> QED
        BY <1>2, <3>1, Zenon DEF Promised
    <2> QED
      BY <1>2, <1>6, <2>1, <2>2, PromisesStay, Zenon
  <1> QED
    BY <1>2, <1>6, <1>7, <1>8, KeepsCalm, Zenon

LEMMA ProcessPingReqCalm ==
    ASSUME IInv, CalmParts, NEW n \in Node, NEW m \in net, ProcessPingReq(n, m)
    PROVE  CalmParts'
  <1>1. PICK q : q = PingOrAck("ping", n, m.target, m.from)
    BY Zenon
  <1>2. /\ m.kind = "pingreq" /\ m.to = n /\ UNCHANGED <<me, row, probe, acks, lost, late>>
        /\ net' = (net \ {m}) \cup (IF HasRecord(row[n][m.target]) THEN {q} ELSE {})
    BY <1>1, Zenon DEF ProcessPingReq, faults
  <1>3. GoodNews(q) /\ q.kind = "ping" /\ q.to = m.target /\ q.fwd = m.from
    BY <1>1, PingOrAckCalm DEF CalmParts
  <1>4. RowsCalm' /\ RecordsStay
    BY <1>2, SameRows, Zenon
  <1>5. SelvesCalm' /\ NetCalm' /\ AcksCalm'
    BY <1>2, <1>3, Zenon DEF CalmParts, SelvesCalm, NetCalm, AcksCalm
  <1>6. PromisesKept
    <2>1. \A k, t \in Node : Answered(k, t) => Promised(k, t)'
      BY <1>2, Zenon DEF Answered, Promised
    <2>2. ASSUME NEW k \in Node, NEW t \in Node, Answers(m, k, t) PROVE Promised(k, t)'
      <3>1. HasRecord(row[n][m.target]) /\ m.target = t /\ m.from = k
        BY <1>2, <2>2, Zenon DEF Answers
      <3>2. Answers(q, k, t)'
        BY <1>3, <3>1, Zenon DEF Answers
      <3> QED
        BY <1>2, <3>1, <3>2, Zenon DEF Promised
    <2>3. net \ net' \subseteq {m}
      BY <1>2, Zenon
    <2> QED
      BY <1>4, <2>1, <2>2, <2>3, PromisesStay, Zenon
  <1> QED
    BY <1>2, <1>4, <1>5, <1>6, KeepsCalm, Zenon

LEMMA ProcessAckCalm ==
    ASSUME IInv, CalmParts, NEW n \in Node, NEW m \in net, ProcessAck(n, m)
    PROVE  CalmParts'
  <1>1. m.kind = "ack" /\ m.to = n /\ UNCHANGED <<probe, lost, late>> /\ GoodNews(m)
    BY Zenon DEF ProcessAck, faults, CalmParts, NetCalm
  <1>2. /\ m \in Packet /\ m.fwd \in Node \cup {None} /\ m.self \in Self
        /\ GoodMembership(m.always) /\ GoodMembership(m.hot)
        /\ m.self.departed = FALSE /\ AllAlive(m.always) /\ AllAlive(m.hot)
    BY <1>1, PacketTypes, Zenon DEF GoodNews
  <1>3. CASE m.fwd \notin {None, n}
    <2> DEFINE q == [m EXCEPT !.to = m.fwd]
    <2>1. net' = (net \ {m}) \cup {q} /\ UNCHANGED <<me, row, acks>>
      BY <1>3, Zenon DEF ProcessAck
    <2>2. /\ q.kind = m.kind /\ q.from = m.from /\ q.fwd = m.fwd
          /\ q.self = m.self /\ q.always = m.always /\ q.hot = m.hot
      BY <1>2, Zenon DEF Packet
    <2> HIDE DEF q
    <2>3. GoodNews(q)
      BY <1>1, <2>2, Zenon DEF GoodNews
    <2>4. RowsCalm' /\ RecordsStay
      BY <2>1, SameRows, Zenon
    <2>5. SelvesCalm' /\ NetCalm' /\ AcksCalm'
      BY <2>1, <2>3, Zenon DEF CalmParts, SelvesCalm, NetCalm, AcksCalm
    <2>6. PromisesKept
      <3>1. \A k, t \in Node : Answered(k, t) => Promised(k, t)'
        BY <2>1, Zenon DEF Answered, Promised
      <3>2. ASSUME NEW k \in Node, NEW t \in Node, Answers(m, k, t) PROVE Promised(k, t)'
        <4>1. Answers(q, k, t)'
          BY <1>1, <1>3, <2>2, <3>2, Zenon DEF Answers
        <4> QED
          BY <2>1, <4>1, Zenon DEF Promised
      <3> QED
        BY <2>1, <2>4, <3>1, <3>2, PromisesStay, Zenon
    <2> QED
      BY <1>1, <2>4, <2>5, <2>6, KeepsCalm, Zenon
  <1>4. CASE m.fwd \in {None, n}
    <2> DEFINE a == [from |-> m.from, self |-> m.self]
               more == Append(acks[n], a)
    <2>1. /\ net' = net \ {m} /\ acks' = [acks EXCEPT ![n] = more]
          /\ TakeRumors(n, m, row[n], heat[n])
      BY <1>4, Zenon DEF ProcessAck
    <2>2. /\ DOMAIN acks[n] \subseteq DOMAIN more /\ \A i \in DOMAIN acks[n] : more[i] = acks[n][i]
          /\ \E i \in DOMAIN more : more[i] = a
          /\ \A i \in DOMAIN more : i \in DOMAIN acks[n] \/ more[i] = a
      <3>1. acks[n] \in Seq(Ack)
        BY Zenon DEF IInv, AckInv
      <3>2. Len(acks[n]) + 1 \in DOMAIN more /\ more[Len(acks[n]) + 1] = a
        BY <3>1
      <3> QED
        BY <3>1, <3>2
    <2>3. a.from = m.from /\ a.self = m.self
      BY Zenon
    <2> HIDE DEF a, more
    <2>4. acks'[n] = more /\ \A k \in Node \ {n} : acks'[k] = acks[k]
      BY <2>1, Zenon DEF IInv, AckInv
    <2>5. RowsCalm' /\ RecordsStay /\ SelvesCalm'
      BY <1>2, <2>1, OwnRows, TakeRumorsCalm, Zenon DEF CalmParts
    <2>6. NetCalm'
      BY <2>1, Zenon DEF CalmParts, NetCalm
    <2>7. AcksCalm'
      BY <1>2, <2>2, <2>3, <2>4 DEF CalmParts, AcksCalm
    <2>8. PromisesKept
      <3>1. ASSUME NEW k \in Node, NEW t \in Node, Answered(k, t) PROVE Promised(k, t)'
        <4>1. PICK i \in DOMAIN acks[k] : acks[k][i].from = t
          BY <3>1, Zenon DEF Answered
        <4>2. i \in DOMAIN acks'[k] /\ acks'[k][i] = acks[k][i]
          BY <2>2, <2>4, <4>1, Zenon
        <4> QED
          BY <4>1, <4>2, Zenon DEF Promised, Answered
      <3>2. ASSUME NEW k \in Node, NEW t \in Node, Answers(m, k, t) PROVE Promised(k, t)'
        <4>1. k = n /\ m.from = t
          BY <1>1, <1>4, <3>2, NodeAssumption, Zenon DEF Answers
        <4> QED
          BY <2>2, <2>3, <2>4, <4>1, Zenon DEF Promised, Answered
      <3> QED
        BY <2>1, <2>5, <3>1, <3>2, PromisesStay, Zenon
    <2> QED
      BY <1>1, <2>5, <2>6, <2>7, <2>8, KeepsCalm, Zenon
  <1> QED
    BY <1>3, <1>4, Zenon

LEMMA PullCalm ==
    ASSUME IInv, CalmParts, NEW n \in Node, NEW m \in net, Pull(n, m)
    PROVE  CalmParts'
  <1>1. /\ m.kind = "rumor" /\ net' = net \ {m} /\ UNCHANGED <<probe, acks, lost, late>>
        /\ TakeRumors(n, [always |-> {}, hot |-> m.hot], row[n], heat[n])
    BY Zenon DEF Pull, faults
  <1>2. GoodMembership(m.hot) /\ AllAlive(m.hot) /\ GoodMembership({}) /\ AllAlive({})
    BY <1>1, PacketTypes, Zenon DEF CalmParts, NetCalm, GoodNews, AllAlive, GoodMembership
  <1> DEFINE r == [always |-> {}, hot |-> m.hot]
  <1>3. r.always = {} /\ r.hot = m.hot /\ TakeRumors(n, r, row[n], heat[n])
    BY <1>1, Zenon
  <1> HIDE DEF r
  <1>4. RowsCalm' /\ RecordsStay /\ SelvesCalm'
    BY <1>2, <1>3, OwnRows, TakeRumorsCalm, Zenon DEF CalmParts
  <1>5. NetCalm' /\ AcksCalm'
    BY <1>1, Zenon DEF CalmParts, NetCalm, AcksCalm
  <1>6. PromisesKept
    <2>1. \A k, t \in Node : Answered(k, t) => Promised(k, t)'
      BY <1>1, Zenon DEF Answered, Promised
    <2>2. \A k, t \in Node : ~Answers(m, k, t)
      BY <1>1, Zenon DEF Answers
    <2> QED
      BY <1>1, <1>4, <2>1, <2>2, PromisesStay, Zenon
  <1> QED
    BY <1>1, <1>4, <1>5, <1>6, KeepsCalm, Zenon

LEMMA PushCalm ==
    ASSUME IInv, CalmParts, NEW n \in Node, NEW p \in Node, Push(n, p)
    PROVE  CalmParts'
  <1> DEFINE qs == {[kind |-> "rumor", from |-> n, to |-> p, hot |-> {e}] : e \in HotFor(n, p)}
  <1>1. net' = net \cup qs /\ UNCHANGED <<me, row, acks, probe, lost, late>>
    BY Zenon DEF Push, faults
  <1>2. \A q \in qs : q.kind = "rumor" /\ \E e \in HotFor(n, p) : q.hot = {e}
    OBVIOUS
  <1> HIDE DEF qs
  <1>3. \A q \in qs : GoodNews(q)
    BY <1>2, SentIsCalm DEF CalmParts, GoodNews, AllAlive
  <1> QED
    BY <1>1, <1>3, SendCalm, Zenon

LEMMA LoseCalm ==
    ASSUME IInv, CalmParts, NEW m \in net, Lose(m), lost' + late' <= Tolerated
    PROVE  CalmParts'
  <1>1. net' = net \ {m} /\ lost' = lost + 1 /\ UNCHANGED <<me, row, acks, probe, late>>
    BY Zenon DEF Lose
  <1>2. lost + late = 0 /\ lost' + late' # 0
    BY <1>1, CountsAdd
  <1>3. ProbesCalm'
    BY <1>1, <1>2 DEF CalmParts, ProbesCalm
  <1> QED
    BY <1>1, <1>3, Zenon DEF CalmParts, RowsCalm, SelvesCalm, AcksCalm, NetCalm, FoundersKnown

-----------------------------------------------------------------------------
\* Who stops is missing, and who starts again has another life.
LEMMA CalmBefore ==
    ASSUME IInv, [Next]_vars, Calm'
    PROVE  /\ Calm /\ lost' + late' <= Tolerated
           /\ ~\E n \in Node : Crash(n) \/ SetDeparted(n) \/ Start(n)
  <1>1. ASSUME NEW n \in Node, Crash(n) \/ SetDeparted(n) PROVE FALSE
    BY <1>1, Zenon DEF Crash, SetDeparted, Stopped, Calm
  <1>2. ASSUME NEW n \in Node, Start(n) PROVE FALSE
    <2>1. life'[n] = life[n] + 1 /\ life[n] \in Nat
      BY <1>2, Zenon DEF Start, IInv, MeInv
    <2> QED
      BY <2>1 DEF Calm
  <1>3. /\ UNCHANGED <<up, life>> /\ lost' \in {lost, lost + 1} /\ late' \in {late, late + 1}
    <2>1. ASSUME NEW n \in Node, Outbound(n)
          PROVE  UNCHANGED <<up, life, lost>> /\ late' \in {late, late + 1}
      BY <2>1, Zenon DEF Outbound, BootPing, CheckList, RecvAckFromInbound, PingTimeout, PingReqTimeout,
                         BeginProbe, TimesOut, faults
    <2>2. ASSUME NEW n \in Node, NEW m, ProcessPing(n, m) \/ ProcessPingReq(n, m) \/ ProcessAck(n, m) \/ Pull(n, m)
          PROVE  UNCHANGED <<up, life, lost, late>>
      BY <2>2, Zenon DEF ProcessPing, ProcessPingReq, ProcessAck, Pull, faults
    <2>3. ASSUME NEW n \in Node, NEW m \in Node, Push(n, m) \/ ExpireSuspect(n, m) \/ ExpireDeparture(n, m)
          PROVE  UNCHANGED <<up, life, lost, late>>
      BY <2>3, Zenon DEF Push, ExpireSuspect, ExpireDeparture, faults
    <2>4. ASSUME NEW m, Lose(m) \/ NobodyThere(m)
          PROVE  UNCHANGED <<up, life, late>> /\ lost' \in {lost, lost + 1}
      BY <2>4, Zenon DEF Lose, NobodyThere, faults
    <2>5. CASE UNCHANGED vars
      BY <2>5, Zenon DEF vars
    <2> QED
      BY <1>1, <1>2, <2>1, <2>2, <2>3, <2>4, <2>5, Zenon DEF Next, Inbound
  <1>4. Calm /\ lost' + late' <= Tolerated
    BY <1>3, CountsAdd DEF Calm, Tolerated
  <1> QED
    BY <1>1, <1>2, <1>4, Zenon

LEMMA InitCalm == Init => CalmInv
  <1> SUFFICES ASSUME Init PROVE CalmParts
    BY Zenon DEF CalmInv, CalmParts
  <1>1. RowsCalm /\ FoundersKnown
    <2>1. EmptyRow \in Row /\ Untroubled(EmptyRow)
      BY Zenon DEF EmptyRow, Row, Untroubled, IncarnationOrNone, HealthOrNone
    <2>2. Untroubled(InsertRow(EmptyRow, 0, "Alive"))
      BY <2>1, InsertAlive, Zenon
    <2>3. HasRecord(InsertRow(EmptyRow, 0, "Alive"))
      BY DEF InsertRow, ShareRumor, HasRecord, EmptyRow, NoRecord
    <2>4. \A n, m \in Node : row[n][m] = IF {n, m} \subseteq Founder THEN InsertRow(EmptyRow, 0, "Alive") ELSE EmptyRow
      BY Zenon DEF Init
    <2> QED
      BY <2>1, <2>2, <2>3, <2>4, NodeAssumption DEF RowsCalm, FoundersKnown
  <1>2. SelvesCalm /\ AcksCalm /\ NetCalm /\ ProbesCalm
    BY DEF Init, SelvesCalm, AcksCalm, NetCalm, ProbesCalm
  <1> QED
    BY <1>1, <1>2, Zenon DEF CalmParts

LEMMA NextCalm == IInv /\ CalmInv /\ [Next]_vars => CalmInv'
  <1> SUFFICES ASSUME IInv, CalmInv, [Next]_vars, Calm' PROVE CalmParts'
    BY Zenon DEF CalmInv, CalmParts
  <1>1. /\ Calm /\ CalmParts /\ lost' + late' <= Tolerated
        /\ ~\E n \in Node : Crash(n) \/ SetDeparted(n) \/ Start(n)
    BY CalmBefore, Zenon DEF CalmInv, CalmParts
  <1>2. ASSUME NEW n \in Node, Outbound(n) PROVE CalmParts'
    BY <1>1, <1>2, BootPingCalm, RecvAckCalm, PingTimeoutCalm, PingReqTimeoutNever, BeginProbeCalm, Zenon
    DEF Outbound
  <1>3. ASSUME NEW n \in Node, NEW p \in Node, NEW kind \in Kind, Inbound(n, p, kind) PROVE CalmParts'
    BY <1>1, <1>3, ProcessPingCalm, ProcessPingReqCalm, ProcessAckCalm, PullCalm, Zenon DEF Inbound
  <1>4. ASSUME NEW n \in Node, NEW m \in Node, Push(n, m) PROVE CalmParts'
    BY <1>1, <1>4, PushCalm, Zenon
  <1>5. ASSUME NEW n \in Node, NEW m \in Node PROVE ~ExpireSuspect(n, m) /\ ~ExpireDeparture(n, m)
    BY <1>1, Zenon DEF ExpireSuspect, ExpireDeparture, CalmParts, RowsCalm, Untroubled
  <1>6. ASSUME NEW m \in net, Lose(m) PROVE CalmParts'
    BY <1>1, <1>6, LoseCalm, Zenon
  <1>7. ASSUME NEW m \in net PROVE ~NobodyThere(m)
    BY <1>1, PacketTypes, Zenon DEF NobodyThere, Calm
  <1>8. CASE UNCHANGED vars
    BY <1>1, <1>8, IdleCalm, Zenon DEF vars
  <1> QED
    BY <1>1, <1>2, <1>3, <1>4, <1>5, <1>6, <1>7, <1>8, Zenon DEF Next

\* For any number of members, as long as nobody stopped and no more went wrong than
\* the probe allows for, nobody is taken for Suspect or Confirmed by anybody: whatever
\* the order in which pings, acks, forwarded acks and rumors arrive and are handled
\* (probe, pingreq and recv_ack in outbound.rs, process_ack in inbound.rs).
THEOREM NobodySuspectedInVain == Spec => []NoFalseSuspicion
  <1>1. CalmInv => NoFalseSuspicion
    BY Zenon DEF CalmInv, Calm, RowsCalm, Untroubled, NoHealth, NoFalseSuspicion
  <1> QED
    BY <1>1, IInvInit, IInvStep, InitCalm, NextCalm, PTL DEF Spec
=============================================================================
