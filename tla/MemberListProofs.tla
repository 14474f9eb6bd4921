-------------------------- MODULE MemberListProofs --------------------------
(***************************************************************************)
(* The panics of insert and of the expire thread are unreachable, for any  *)
(* number of members and of threads.                                       *)
(*                                                                         *)
(* Neither property is inductive.  A thread past its health write relies   *)
(* on that write still standing when it writes the record (OpHealthWritten)*)
(* and a thread that decided to start a suspicion relies on the record it  *)
(* saw still being there (OpStartHasRecord): both hold because no          *)
(* operation ever removes a health or a record.                            *)
(***************************************************************************)
EXTENDS MemberList, TLAPS

\* The writes of a thread that follow its health write find a health there.
OpHealthWritten ==
    \A t \in Thread : op[t].step \in {"suspect", "depart", "record"}
                      => health[op[t].id] # NoHealth

\* A suspicion about to start is about a member with a record.
OpStartHasRecord ==
    \A t \in Thread : (op[t].step \in {"count", "health", "suspect"} /\ op[t].start)
                      => members[op[t].id] # NoRecord

\* The inductive invariant of the lock-level member list.
IInv ==
    /\ TypeOK
    /\ RecordHasHealth
    /\ TimersHaveRecord
    /\ OpHealthWritten
    /\ OpStartHasRecord

-----------------------------------------------------------------------------
\* The two sentinels are not values of the maps.
LEMMA Sentinels == NoRecord \notin Incarnation /\ NoHealth \notin Health
BY DEF NoRecord, Incarnation, NoHealth, Health

\* Only a thread in the middle of an operation is at a step other than idle.
LEMMA BusyOp ==
    ASSUME TypeOK, NEW t \in Thread, op[t].step # "idle"
    PROVE  op[t] \in Op
BY DEF TypeOK, Idle

\* A step that removes no health and no record, starts no timer and moves no thread.
LEMMA QuietStep ==
    ASSUME IInv, TypeOK',
           \A m \in Member : members[m] # NoRecord => members'[m] # NoRecord,
           \A m \in Member : members'[m] # NoRecord => members[m] # NoRecord,
           \A m \in Member : health[m] # NoHealth => health'[m] # NoHealth,
           suspect' \subseteq suspect,
           depart' \subseteq depart \cup xcur,
           xlist' \subseteq xlist \cup suspect \cup depart,
           xcur' \subseteq xcur \cup xlist,
           UNCHANGED op
    PROVE  IInv'
<1>1. RecordHasHealth'
  BY DEF IInv, RecordHasHealth
<1>2. TimersHaveRecord'
  BY DEF IInv, TimersHaveRecord, TypeOK
<1>3. OpHealthWritten' /\ OpStartHasRecord'
  <2>1. ASSUME NEW t \in Thread, op[t].step # "idle"
        PROVE  op[t].id \in Member
    BY <2>1, BusyOp DEF IInv, Op
  <2>. QED BY <2>1 DEF IInv, OpHealthWritten, OpStartHasRecord
<1>. QED BY <1>1, <1>2, <1>3 DEF IInv

-----------------------------------------------------------------------------
\* Type correctness of the lock-level member list (member.rs, expire.rs).
THEOREM TypeCorrect == Spec => []TypeOK
<1>1. Init => TypeOK
  BY DEF Init, TypeOK, IncarnationOrNone, HealthOrNone, ExpireStep
<1>2. TypeOK /\ [Next]_vars => TypeOK'
  <2>. SUFFICES ASSUME TypeOK, [Next]_vars PROVE TypeOK'
    OBVIOUS
  <2>. USE DEF TypeOK
  <2>1. ASSUME NEW t \in Thread, NEW m \in Member, NEW inc \in 0..MaxInc, NEW h \in Health,
               Decide(t, m, inc, h)
        PROVE  TypeOK'
    <3>1. inc \in Incarnation
      BY MaxIncAssumption DEF Incarnation
    <3>2. /\ StartSuspicion(RowOf(m), inc, h) \in BOOLEAN
          /\ StopSuspicion(RowOf(m), inc, h) \in BOOLEAN
          /\ StopDeparture(RowOf(m), inc, h) \in BOOLEAN
      BY DEF StartSuspicion, StopSuspicion, StopDeparture
    <3>3. op'[t] \in Op
      BY <2>1, <3>1, <3>2 DEF Decide, Op, OpStep
    <3>. QED BY <2>1, <3>3 DEF Decide, mapVars, expireVars
  <2>2. ASSUME NEW t \in Thread, NEW m \in Member, BeginDeparture(t, m)
        PROVE  TypeOK'
    <3>1. op'[t] \in Op
      BY <2>2 DEF BeginDeparture, Op, OpStep, Incarnation, Health
    <3>. QED BY <2>2, <3>1 DEF BeginDeparture, mapVars, expireVars
  <2>3. ASSUME NEW t \in Thread, Count(t) PROVE TypeOK'
    <3>. op[t] \in Op BY <2>3, BusyOp DEF Count
    <3>. QED BY <2>3 DEF Count, Op, OpStep, expireVars
  <2>4. ASSUME NEW t \in Thread, WriteHealth(t) PROVE TypeOK'
    <3>. op[t] \in Op BY <2>4, BusyOp DEF WriteHealth
    <3>. QED BY <2>4 DEF WriteHealth, Op, OpStep, expireVars, HealthOrNone
  <2>5. ASSUME NEW t \in Thread, WriteSuspect(t) PROVE TypeOK'
    <3>. op[t] \in Op BY <2>5, BusyOp DEF WriteSuspect
    <3>1. suspect' \subseteq Member BY <2>5 DEF WriteSuspect, Op
    <3>2. op' \in [Thread -> Op \cup {Idle}] BY <2>5 DEF WriteSuspect, Op, OpStep
    <3>. QED BY <2>5, <3>1, <3>2 DEF WriteSuspect, expireVars
  <2>6. ASSUME NEW t \in Thread, WriteDepart(t) PROVE TypeOK'
    <3>. op[t] \in Op BY <2>6, BusyOp DEF WriteDepart
    <3>. QED BY <2>6 DEF WriteDepart, Op, OpStep, expireVars
  <2>7. ASSUME NEW t \in Thread, WriteRecord(t) PROVE TypeOK'
    <3>. op[t] \in Op BY <2>7, BusyOp DEF WriteRecord
    <3>. QED BY <2>7 DEF WriteRecord, Op, expireVars, IncarnationOrNone
  <2>8. ASSUME NEW t \in Thread, DepartureHealth(t) PROVE TypeOK'
    <3>. op[t] \in Op BY <2>8, BusyOp DEF DepartureHealth
    <3>. QED BY <2>8 DEF DepartureHealth, Op, OpStep, expireVars, HealthOrNone, Health
  <2>9. ASSUME NEW t \in Thread, DepartureRemove(t) PROVE TypeOK'
    BY <2>9 DEF DepartureRemove, expireVars
  <2>10. CASE Expire
    <3>1. CASE ScanSuspects BY <3>1 DEF ScanSuspects, mapVars, ExpireStep
    <3>2. CASE ReleaseSuspects BY <3>2 DEF ReleaseSuspects, mapVars, ExpireStep
    <3>3. CASE StartDeparture BY <3>3 DEF StartDeparture, ExpireStep
    <3>4. CASE ScanDepartures BY <3>4 DEF ScanDepartures, mapVars, ExpireStep
    <3>5. CASE ReleaseDepartures BY <3>5 DEF ReleaseDepartures, mapVars, ExpireStep
    <3>6. ASSUME NEW m \in Member, MarkConfirmed(m) PROVE TypeOK'
      BY <3>6 DEF MarkConfirmed, HealthOrNone, Health
    <3>7. ASSUME NEW m \in Member, ExpireSuspect(m) PROVE TypeOK'
      BY <3>7 DEF ExpireSuspect, ExpireStep
    <3>8. ASSUME NEW m \in Member, MarkDeparted(m) PROVE TypeOK'
      BY <3>8 DEF MarkDeparted, HealthOrNone, Health
    <3>9. ASSUME NEW m \in Member, RemoveDeparture(m) PROVE TypeOK'
      BY <3>9 DEF RemoveDeparture, ExpireStep
    <3>. QED BY <2>10, <3>1, <3>2, <3>3, <3>4, <3>5, <3>6, <3>7, <3>8, <3>9 DEF Expire
  <2>11. CASE UNCHANGED vars
    BY <2>11 DEF vars
  <2>. QED
    BY <2>1, <2>2, <2>3, <2>4, <2>5, <2>6, <2>7, <2>8, <2>9, <2>10, <2>11
       DEF Next, InsertStep, DepartureStep
<1>. QED BY <1>1, <1>2, PTL DEF Spec

-----------------------------------------------------------------------------
\* The inductive step: what every step of the threads and of the expire thread
\* preserves.
LEMMA IInvStep == IInv /\ [Next]_vars /\ TypeOK' => IInv'
<1>. SUFFICES ASSUME IInv, [Next]_vars, TypeOK' PROVE IInv'
  OBVIOUS
<1>. USE Sentinels
<1>0. TypeOK BY DEF IInv
<1>a. ASSUME NEW t \in Thread, op[t].step # "idle" PROVE op[t].id \in Member
  BY <1>a, <1>0, BusyOp DEF Op
<1>1. ASSUME NEW t \in Thread, NEW m \in Member, NEW inc \in 0..MaxInc, NEW h \in Health,
             Decide(t, m, inc, h)
      PROVE  IInv'
  <2>1. op'[t].step = "count" /\ op'[t].id = m
        /\ (op'[t].start => members[m] # NoRecord)
    BY Zenon, <1>1, <1>0 DEF Decide, TypeOK, StartSuspicion, HasRecord, RowOf
  <2>2. \A u \in Thread : u # t => op'[u] = op[u]
    BY <1>1, <1>0 DEF Decide, TypeOK
  <2>3. UNCHANGED <<members, health, suspect, depart, xlist, xcur>>
    BY <1>1 DEF Decide, mapVars, expireVars
  <2>4. OpHealthWritten'
    BY <2>1, <2>2, <2>3 DEF IInv, OpHealthWritten
  <2>5. OpStartHasRecord'
    BY <2>1, <2>2, <2>3 DEF IInv, OpStartHasRecord
  <2>. QED BY <2>3, <2>4, <2>5 DEF IInv, RecordHasHealth, TimersHaveRecord
<1>2. ASSUME NEW t \in Thread, Count(t) PROVE IInv'
  <2>1. op'[t].step = "health" /\ op'[t].id = op[t].id /\ op'[t].start = op[t].start
    BY <1>2, <1>0, BusyOp DEF Count, TypeOK, Op
  <2>2. \A u \in Thread : u # t => op'[u] = op[u]
    BY <1>2, <1>0 DEF Count, TypeOK
  <2>3. UNCHANGED <<members, health, suspect, depart, xlist, xcur>>
    BY <1>2 DEF Count, expireVars
  <2>4. OpHealthWritten' /\ OpStartHasRecord'
    BY <1>2, <2>1, <2>2, <2>3 DEF IInv, OpHealthWritten, OpStartHasRecord, Count
  <2>. QED BY <2>3, <2>4 DEF IInv, RecordHasHealth, TimersHaveRecord
<1>3. ASSUME NEW t \in Thread, WriteHealth(t) PROVE IInv'
  <2>. op[t] \in Op BY <1>3, <1>0, BusyOp DEF WriteHealth
  <2>1. op'[t].step = "suspect" /\ op'[t].id = op[t].id /\ op'[t].start = op[t].start
    BY <1>3, <1>0 DEF WriteHealth, TypeOK, Op
  <2>2. \A u \in Thread : u # t => op'[u] = op[u]
    BY <1>3, <1>0 DEF WriteHealth, TypeOK
  <2>3. UNCHANGED <<members, suspect, depart, xlist, xcur>>
    BY <1>3 DEF WriteHealth, expireVars
  <2>4. health'[op[t].id] # NoHealth /\ \A m \in Member : health[m] # NoHealth => health'[m] # NoHealth
    BY <1>3, <1>0 DEF WriteHealth, TypeOK, Op
  <2>5. OpHealthWritten'
    BY <1>a, <2>1, <2>2, <2>4 DEF IInv, OpHealthWritten
  <2>6. OpStartHasRecord'
    BY <1>3, <2>1, <2>2, <2>3 DEF IInv, OpStartHasRecord, WriteHealth
  <2>. QED BY <2>3, <2>4, <2>5, <2>6 DEF IInv, RecordHasHealth, TimersHaveRecord
<1>4. ASSUME NEW t \in Thread, WriteSuspect(t) PROVE IInv'
  <2>. op[t] \in Op BY <1>4, <1>0, BusyOp DEF WriteSuspect
  <2>1. op'[t].step = "depart" /\ op'[t].id = op[t].id
    BY <1>4, <1>0 DEF WriteSuspect, TypeOK, Op
  <2>2. \A u \in Thread : u # t => op'[u] = op[u]
    BY <1>4, <1>0 DEF WriteSuspect, TypeOK
  <2>3. UNCHANGED <<members, health, depart, xlist, xcur>>
    BY <1>4 DEF WriteSuspect, expireVars
  <2>4. suspect' \subseteq suspect \cup IF op[t].start THEN {op[t].id} ELSE {}
    BY <1>4 DEF WriteSuspect
  <2>5. op[t].start => members[op[t].id] # NoRecord
    BY <1>4 DEF IInv, OpStartHasRecord, WriteSuspect
  <2>6. TimersHaveRecord'
    BY <2>3, <2>4, <2>5 DEF IInv, TimersHaveRecord
  <2>7. OpHealthWritten' /\ OpStartHasRecord'
    BY <1>4, <2>1, <2>2, <2>3 DEF IInv, OpHealthWritten, OpStartHasRecord, WriteSuspect
  <2>. QED BY <2>3, <2>6, <2>7 DEF IInv, RecordHasHealth
<1>5. ASSUME NEW t \in Thread, WriteDepart(t) PROVE IInv'
  <2>. op[t] \in Op BY <1>5, <1>0, BusyOp DEF WriteDepart
  <2>1. op'[t].step = "record" /\ op'[t].id = op[t].id
    BY <1>5, <1>0 DEF WriteDepart, TypeOK, Op
  <2>2. \A u \in Thread : u # t => op'[u] = op[u]
    BY <1>5, <1>0 DEF WriteDepart, TypeOK
  <2>3. UNCHANGED <<members, health, suspect, xlist, xcur>> /\ depart' \subseteq depart
    BY <1>5 DEF WriteDepart, expireVars
  <2>4. OpHealthWritten' /\ OpStartHasRecord'
    BY <1>5, <2>1, <2>2, <2>3 DEF IInv, OpHealthWritten, OpStartHasRecord, WriteDepart
  <2>. QED BY <2>3, <2>4 DEF IInv, RecordHasHealth, TimersHaveRecord
<1>6. ASSUME NEW t \in Thread, WriteRecord(t) PROVE IInv'
  <2>. op[t] \in Op BY <1>6, <1>0, BusyOp DEF WriteRecord
  <2>1. op'[t].step = "idle" /\ \A u \in Thread : u # t => op'[u] = op[u]
    BY <1>6, <1>0 DEF WriteRecord, TypeOK, Idle
  <2>2. UNCHANGED <<health, suspect, depart, xlist, xcur>>
    BY <1>6 DEF WriteRecord, expireVars
  <2>3. \A m \in Member : members[m] # NoRecord => members'[m] # NoRecord
    BY <1>6, <1>0 DEF WriteRecord, TypeOK, Op
  <2>4. \A m \in Member : members'[m] # members[m] => m = op[t].id
    BY <1>6, <1>0 DEF WriteRecord, TypeOK
  <2>5. health[op[t].id] # NoHealth
    BY <1>6 DEF IInv, OpHealthWritten, WriteRecord
  <2>6. RecordHasHealth'
    BY <2>2, <2>4, <2>5 DEF IInv, RecordHasHealth
  <2>7. TimersHaveRecord'
    BY <1>0, <2>2, <2>3 DEF IInv, TimersHaveRecord, TypeOK
  <2>8. OpHealthWritten' /\ OpStartHasRecord'
    BY <1>a, <2>1, <2>2, <2>3 DEF IInv, OpHealthWritten, OpStartHasRecord
  <2>. QED BY <2>6, <2>7, <2>8 DEF IInv
<1>7. ASSUME NEW t \in Thread, NEW m \in Member, BeginDeparture(t, m) PROVE IInv'
  <2>1. op'[t].step = "departHealth" /\ \A u \in Thread : u # t => op'[u] = op[u]
    BY <1>7, <1>0 DEF BeginDeparture, TypeOK
  <2>2. UNCHANGED <<members, health, suspect, depart, xlist, xcur>>
    BY <1>7 DEF BeginDeparture, mapVars, expireVars
  <2>3. OpHealthWritten' /\ OpStartHasRecord'
    BY <2>1, <2>2 DEF IInv, OpHealthWritten, OpStartHasRecord
  <2>. QED BY <2>2, <2>3 DEF IInv, RecordHasHealth, TimersHaveRecord
<1>8. ASSUME NEW t \in Thread, DepartureHealth(t) PROVE IInv'
  <2>. op[t] \in Op BY <1>8, <1>0, BusyOp DEF DepartureHealth
  <2>1. op'[t].step = "departRemove" /\ \A u \in Thread : u # t => op'[u] = op[u]
    BY <1>8, <1>0 DEF DepartureHealth, TypeOK, Op
  <2>2. UNCHANGED <<members, suspect, depart, xlist, xcur>>
    BY <1>8 DEF DepartureHealth, expireVars
  <2>3. \A m \in Member : health[m] # NoHealth => health'[m] # NoHealth
    BY <1>8, <1>0 DEF DepartureHealth, TypeOK, Op, Health, NoHealth
  <2>4. OpHealthWritten' /\ OpStartHasRecord'
    BY <1>a, <2>1, <2>2, <2>3 DEF IInv, OpHealthWritten, OpStartHasRecord
  <2>. QED BY <2>2, <2>3, <2>4 DEF IInv, RecordHasHealth, TimersHaveRecord
<1>9. ASSUME NEW t \in Thread, DepartureRemove(t) PROVE IInv'
  <2>1. op'[t].step = "idle" /\ \A u \in Thread : u # t => op'[u] = op[u]
    BY <1>9, <1>0 DEF DepartureRemove, TypeOK, Idle
  <2>2. UNCHANGED <<members, health, suspect, xlist, xcur>> /\ depart' \subseteq depart
    BY <1>9 DEF DepartureRemove, expireVars
  <2>3. OpHealthWritten' /\ OpStartHasRecord'
    BY <2>1, <2>2 DEF IInv, OpHealthWritten, OpStartHasRecord
  <2>. QED BY <2>2, <2>3 DEF IInv, RecordHasHealth, TimersHaveRecord
<1>10. CASE Expire
  <2>1. CASE ScanSuspects BY <2>1, QuietStep DEF ScanSuspects, mapVars
  <2>2. CASE ReleaseSuspects BY <2>2, QuietStep DEF ReleaseSuspects, mapVars
  <2>3. CASE StartDeparture BY <2>3, QuietStep DEF StartDeparture
  <2>4. CASE ScanDepartures BY <2>4, QuietStep DEF ScanDepartures, mapVars
  <2>5. CASE ReleaseDepartures BY <2>5, QuietStep DEF ReleaseDepartures, mapVars
  <2>6. ASSUME NEW m \in Member, MarkConfirmed(m) PROVE IInv'
    <3>1. \A n \in Member : health[n] # NoHealth => health'[n] # NoHealth
      BY <2>6, <1>0 DEF MarkConfirmed, TypeOK, NoHealth
    <3>. QED BY <2>6, <3>1, QuietStep DEF MarkConfirmed
  <2>7. ASSUME NEW m \in Member, ExpireSuspect(m) PROVE IInv'
    BY <2>7, QuietStep DEF ExpireSuspect
  <2>8. ASSUME NEW m \in Member, MarkDeparted(m) PROVE IInv'
    <3>1. \A n \in Member : health[n] # NoHealth => health'[n] # NoHealth
      BY <2>8, <1>0 DEF MarkDeparted, TypeOK, NoHealth
    <3>. QED BY <2>8, <3>1, QuietStep DEF MarkDeparted
  <2>9. ASSUME NEW m \in Member, RemoveDeparture(m) PROVE IInv'
    BY <2>9, QuietStep DEF RemoveDeparture
  <2>. QED BY <1>10, <2>1, <2>2, <2>3, <2>4, <2>5, <2>6, <2>7, <2>8, <2>9 DEF Expire
<1>11. CASE UNCHANGED vars
  BY <1>11, QuietStep DEF vars
<1>. QED
  BY <1>1, <1>2, <1>3, <1>4, <1>5, <1>6, <1>7, <1>8, <1>9, <1>10, <1>11
     DEF Next, InsertStep, DepartureStep

\* The inductive invariant holds initially: no record, no timer, no operation.
LEMMA IInvInit == Init => IInv
<1>. SUFFICES ASSUME Init PROVE IInv
  OBVIOUS
<1>1. TypeOK
  BY DEF Init, TypeOK, IncarnationOrNone, HealthOrNone, ExpireStep
<1>2. RecordHasHealth /\ TimersHaveRecord
  BY DEF Init, RecordHasHealth, TimersHaveRecord
<1>3. OpHealthWritten /\ OpStartHasRecord
  BY DEF Init, OpHealthWritten, OpStartHasRecord, Idle
<1>. QED BY <1>1, <1>2, <1>3 DEF IInv

\* Every reachable state of the member list satisfies the inductive invariant.
THEOREM InductiveInvariant == Spec => []IInv
<1>1. Init => IInv
  BY IInvInit
<1>2. IInv /\ TypeOK' /\ [Next]_vars => IInv'
  BY IInvStep
<1>. QED BY <1>1, <1>2, TypeCorrect, PTL DEF Spec

\* No interleaving of any number of butterfly threads makes insert, the census or the
\* dat file meet a record without a health (member.rs:329-334).
THEOREM RecordsHaveHealth == Spec => []RecordHasHealth
<1>1. IInv => RecordHasHealth
  BY DEF IInv
<1>. QED BY <1>1, InductiveInvariant, PTL

\* No interleaving makes the expire thread meet a timer of a member without a record
\* (expire.rs:59 and :90).
THEOREM ExpireNeverPanics == Spec => []TimersHaveRecord
<1>1. IInv => TimersHaveRecord
  BY DEF IInv
<1>. QED BY <1>1, InductiveInvariant, PTL

=============================================================================
