----------------------------- MODULE MemberList -----------------------------
(***************************************************************************)
(* The MemberList of one Supervisor at the granularity of its locks        *)
(* (components/butterfly/src/member.rs, server/expire.rs).                 *)
(*                                                                         *)
(* Each of the four maps has an RwLock of its own, and the threads of the  *)
(* butterfly server (inbound, outbound, pull) call insert concurrently.    *)
(* insert decides under the read locks of members and health, releases     *)
(* them, and then writes the maps one lock at a time.  The expire thread   *)
(* walks the suspect (depart) map under its read lock and edits the map    *)
(* only after it released it.  Every atomic step below is what happens     *)
(* under one acquisition of the locks involved.                            *)
(***************************************************************************)
EXTENDS MemberListOps, FiniteSets

CONSTANTS Member,      \* member ids
          Thread,      \* the threads that call insert / insert_health_by_id
          MaxInc,      \* bound on the incarnations rumors carry
          MaxUpdates   \* bound on update_counter: no operation starts beyond it

ASSUME MaxIncAssumption == MaxInc \in Nat
ASSUME MaxUpdatesAssumption == MaxUpdates \in Nat

VARIABLES members,   \* id -> incarnation of its record, or NoRecord
          health,    \* id -> Health, or NoHealth
          suspect,   \* ids with a suspicion timer
          depart,    \* ids with a departure timer
          counter,   \* update_counter
          op,        \* thread -> the operation it is executing
          xpc,       \* the expire thread: where it is,
          xlist,     \*   its expired_list or departed_list,
          xtodo,     \*   the listed ids the walk under the lock has still to mark,
          xcur       \*   and the ids between expire() and depart()

mapVars == <<members, health, suspect, depart, counter>>
expireVars == <<xpc, xlist, xtodo, xcur>>
vars == <<members, health, suspect, depart, counter, op, xpc, xlist, xtodo, xcur>>

RowOf(m) == [inc |-> members[m], health |-> health[m],
             suspect |-> m \in suspect, depart |-> m \in depart]

-----------------------------------------------------------------------------
(* The operation a thread is executing.                                     *)

OpStep == {"idle", "count", "health", "suspect", "depart", "record",
           "departHealth", "departRemove"}
Op == [step : OpStep, id : Member, inc : Incarnation, health : Health,
       start : BOOLEAN, stop : BOOLEAN, stopDep : BOOLEAN]

Idle == [step |-> "idle"]
ExpireStep == {"idle", "suspects", "expire", "depart",
               "scanDepartures", "departures", "remove"}

TypeOK ==
    /\ members \in [Member -> IncarnationOrNone]
    /\ health \in [Member -> HealthOrNone]
    /\ suspect \subseteq Member
    /\ depart \subseteq Member
    /\ counter \in Nat
    /\ op \in [Thread -> Op \cup {Idle}]
    /\ xpc \in ExpireStep
    /\ xlist \subseteq Member
    /\ xtodo \subseteq Member
    /\ xcur \subseteq Member

Init ==
    /\ members = [m \in Member |-> NoRecord]
    /\ health = [m \in Member |-> NoHealth]
    /\ suspect = {}
    /\ depart = {}
    /\ counter = 0
    /\ op = [t \in Thread |-> Idle]
    /\ xpc = "idle" /\ xlist = {} /\ xtodo = {} /\ xcur = {}

-----------------------------------------------------------------------------
(* MemberList::insert                                                       *)

\* The read locks: decide; only an accepted rumor goes on to write.
Decide(t, m, inc, h) ==
    /\ op[t] = Idle
    /\ counter < MaxUpdates
    /\ ShareRumor(RowOf(m), inc, h)
    /\ op' = [op EXCEPT ![t] = [step |-> "count", id |-> m, inc |-> inc, health |-> h,
                                start |-> StartSuspicion(RowOf(m), inc, h),
                                stop |-> StopSuspicion(RowOf(m), inc, h),
                                stopDep |-> StopDeparture(RowOf(m), inc, h)]]
    /\ UNCHANGED <<mapVars, expireVars>>

\* Mutant: the record is written ahead of the health.
Count_RecordFirst(t) ==
    /\ op[t].step = "count"
    /\ counter' = counter + 1
    /\ members' = [members EXCEPT ![op[t].id] = op[t].inc]
    /\ op' = [op EXCEPT ![t].step = "health"]
    /\ UNCHANGED <<health, suspect, depart, expireVars>>

\* Mutant: the counter runs backwards.
Count_Down(t) ==
    /\ op[t].step = "count"
    /\ counter' = counter - 1
    /\ op' = [op EXCEPT ![t].step = "health"]
    /\ UNCHANGED <<members, health, suspect, depart, expireVars>>

\* increment_update_counter comes before any of the maps is written.
Count(t) ==
    /\ op[t].step = "count"
    /\ counter' = counter + 1
    /\ op' = [op EXCEPT ![t].step = "health"]
    /\ UNCHANGED <<members, health, suspect, depart, expireVars>>

WriteHealth(t) ==
    /\ op[t].step = "health"
    /\ health' = [health EXCEPT ![op[t].id] = op[t].health]
    /\ op' = [op EXCEPT ![t].step = "suspect"]
    /\ UNCHANGED <<members, suspect, depart, counter, expireVars>>

\* A writer of the suspect map waits while the expire thread walks it.
WriteSuspect(t) ==
    /\ op[t].step = "suspect"
    /\ (op[t].start \/ op[t].stop) => xpc # "suspects"
    /\ suspect' = CASE op[t].start -> suspect \cup {op[t].id}
                    [] op[t].stop  -> suspect \ {op[t].id}
                    [] OTHER       -> suspect
    /\ op' = [op EXCEPT ![t].step = "depart"]
    /\ UNCHANGED <<members, health, depart, counter, expireVars>>

WriteDepart(t) ==
    /\ op[t].step = "depart"
    /\ op[t].stopDep => xpc # "departures"
    /\ depart' = IF op[t].stopDep THEN depart \ {op[t].id} ELSE depart
    /\ op' = [op EXCEPT ![t].step = "record"]
    /\ UNCHANGED <<members, health, suspect, counter, expireVars>>

WriteRecord(t) ==
    /\ op[t].step = "record"
    /\ members' = [members EXCEPT ![op[t].id] = op[t].inc]
    /\ op' = [op EXCEPT ![t] = Idle]
    /\ UNCHANGED <<health, suspect, depart, counter, expireVars>>

-----------------------------------------------------------------------------
(* insert_health_by_id(id, Departed) and the depart_remove that follows it in
   insert_departure (and in insert_service).  It asks for no Member record.
   The health write and the increment that follows it are one step: between
   them a reader of the counter still sees the old value and looks again.   *)

BeginDeparture(t, m) ==
    /\ op[t] = Idle
    /\ counter < MaxUpdates
    /\ health[m] # "Departed"
    /\ op' = [op EXCEPT ![t] = [step |-> "departHealth", id |-> m, inc |-> 0,
                                health |-> "Departed",
                                start |-> FALSE, stop |-> FALSE, stopDep |-> TRUE]]
    /\ UNCHANGED <<mapVars, expireVars>>

DepartureHealth(t) ==
    /\ op[t].step = "departHealth"
    /\ health' = [health EXCEPT ![op[t].id] = "Departed"]
    /\ counter' = counter + 1
    /\ op' = [op EXCEPT ![t].step = "departRemove"]
    /\ UNCHANGED <<members, suspect, depart, expireVars>>

DepartureRemove(t) ==
    /\ op[t].step = "departRemove"
    /\ xpc # "departures"
    /\ depart' = depart \ {op[t].id}
    /\ op' = [op EXCEPT ![t] = Idle]
    /\ UNCHANGED <<members, health, suspect, counter, expireVars>>

-----------------------------------------------------------------------------
(* Expire::run.  A timer may be found expired in any pass after it started. *)

ScanSuspects ==
    /\ xpc = "idle"
    /\ \E S \in SUBSET suspect :
          /\ xlist' = S /\ xtodo' = S
          /\ xpc' = "suspects"
    /\ UNCHANGED <<mapVars, op, xcur>>

MarkConfirmed(m) ==
    /\ xpc = "suspects" /\ m \in xtodo
    /\ health' = [health EXCEPT ![m] = "Confirmed"]
    /\ counter' = IF health[m] = "Confirmed" THEN counter ELSE counter + 1
    /\ xtodo' = xtodo \ {m}
    /\ UNCHANGED <<members, suspect, depart, op, xpc, xlist, xcur>>

ReleaseSuspects ==
    /\ xpc = "suspects" /\ xtodo = {}
    /\ xpc' = IF xlist = {} THEN "scanDepartures" ELSE "expire"
    /\ UNCHANGED <<mapVars, op, xlist, xtodo, xcur>>

ExpireSuspect(m) ==
    /\ xpc = "expire" /\ m \in xlist
    /\ suspect' = suspect \ {m}
    /\ xcur' = {m}
    /\ xpc' = "depart"
    /\ UNCHANGED <<members, health, depart, counter, op, xlist, xtodo>>

StartDeparture ==
    /\ xpc = "depart"
    /\ depart' = depart \cup xcur
    /\ xlist' = xlist \ xcur
    /\ xcur' = {}
    /\ xpc' = IF xlist' = {} THEN "scanDepartures" ELSE "expire"
    /\ UNCHANGED <<members, health, suspect, counter, op, xtodo>>

ScanDepartures ==
    /\ xpc = "scanDepartures"
    /\ \E S \in SUBSET depart : xlist' = S /\ xtodo' = S
    /\ xpc' = "departures"
    /\ UNCHANGED <<mapVars, op, xcur>>

MarkDeparted(m) ==
    /\ xpc = "departures" /\ m \in xtodo
    /\ health' = [health EXCEPT ![m] = "Departed"]
    /\ counter' = IF health[m] = "Departed" THEN counter ELSE counter + 1
    /\ xtodo' = xtodo \ {m}
    /\ UNCHANGED <<members, suspect, depart, op, xpc, xlist, xcur>>

ReleaseDepartures ==
    /\ xpc = "departures" /\ xtodo = {}
    /\ xpc' = IF xlist = {} THEN "idle" ELSE "remove"
    /\ UNCHANGED <<mapVars, op, xlist, xtodo, xcur>>

RemoveDeparture(m) ==
    /\ xpc = "remove" /\ m \in xlist
    /\ depart' = depart \ {m}
    /\ xlist' = xlist \ {m}
    /\ xpc' = IF xlist' = {} THEN "idle" ELSE "remove"
    /\ UNCHANGED <<members, health, suspect, counter, op, xtodo, xcur>>

-----------------------------------------------------------------------------
InsertStep(t) ==
    \/ \E m \in Member, inc \in 0..MaxInc, h \in Health : Decide(t, m, inc, h)
    \/ Count(t) \/ WriteHealth(t) \/ WriteSuspect(t) \/ WriteDepart(t) \/ WriteRecord(t)

DepartureStep(t) ==
    \/ \E m \in Member : BeginDeparture(t, m)
    \/ DepartureHealth(t) \/ DepartureRemove(t)

Expire ==
    \/ ScanSuspects \/ ReleaseSuspects \/ StartDeparture
    \/ ScanDepartures \/ ReleaseDepartures
    \/ \E m \in Member : \/ MarkConfirmed(m) \/ ExpireSuspect(m)
                         \/ MarkDeparted(m) \/ RemoveDeparture(m)

Next == Expire \/ \E t \in Thread : InsertStep(t) \/ DepartureStep(t)

Spec == Init /\ [][Next]_vars

-----------------------------------------------------------------------------
(* Properties *)

\* insert reads the health of a member it has a record of and panics without one
\* ("We know we have a health if we have a record", member.rs:329); the census and
\* the dat file do the same.  No interleaving of the writers shows such a record.
RecordHasHealth == \A m \in Member : members[m] # NoRecord => health[m] # NoHealth

\* The expire thread panics on a timer of a member without a record
\* ("Member does not exist when expiring it", expire.rs:59 and :90).  No timer, and
\* no id on its way from one timer map to the other, is ever without its record.
TimersHaveRecord ==
    \A m \in suspect \cup depart \cup xlist \cup xcur : members[m] # NoRecord

\* With a single writer the record of a member never goes back to an older
\* incarnation ("we want to prefer our member, health and all", member.rs:313-314).
IncarnationNeverRegresses == [][\A m \in Member : members'[m] >= members[m]]_vars

\* expire.rs:17-18: the module "sets their status to confirmed if they remain suspect
\* long enough": the walk over the expired timers confirms no member that is alive.
ConfirmsOnlySuspects ==
    [][\A m \in Member : MarkConfirmed(m) => health[m] # "Alive"]_vars

\* member.rs:368-369: confirmed or departed, "we stay that way until something with a
\* higher incarnation changes our mind": a recorded member leaves Departed only when
\* an insert of a higher incarnation writes its health.
DepartedStays ==
    [][\A m \in Member :
          (members[m] # NoRecord /\ health[m] = "Departed" /\ health'[m] # "Departed")
          => \E t \in Thread : op[t].step = "health" /\ op[t].id = m /\ op[t].inc > members[m]]_vars

\* expire.rs:17-18 again: the module "keeps track of suspected members": whenever no
\* operation is in progress, every member held Suspect has a suspicion timer.
SuspectsAreTracked ==
    ((\A t \in Thread : op[t] = Idle) /\ xpc = "idle")
    => \A m \in Member : health[m] = "Suspect" => m \in suspect

=============================================================================
