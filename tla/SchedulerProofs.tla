-------------------------- MODULE SchedulerProofs --------------------------
(***************************************************************************)
(* For any projects, requests, threads and faults: the types, one active   *)
(* group for a project, and no build before those it depends on.  IInv is  *)
(* shown to survive the workers, the request handlers and the thread.      *)
(***************************************************************************)
EXTENDS Scheduler, TLAPS

USE DEF Group, Job, NoJob, NoGroup

\* What the scheduler thread holds where it is in its loop.
SchedInv ==
    /\ sched.job \in Created \cup {NoJob}
    /\ sched.at \in {"skip", "ack", "link"} => sched.job # NoJob
    /\ sched.at \in {"skip", "read", "write", "promote", "dispatch", "link"} => sched.group \in Group
    /\ \A s \in sched.todo : s.id \in Created
    /\ sched.at = "write" => sched.new # "Unused"
    /\ sched.at = "link" => jobs[sched.job].group = sched.group

\* The jobs that others hold are in the table.
JobInv ==
    /\ \A j \in Job : work[j] # "idle" => j \in Created
    /\ \A g \in Group, p \in Project : pstate[g][p] = "InProgress" => pjob[g][p] \in Created

\* Groups are used by what refers to them.
UsedInv ==
    /\ \A j \in Created : gstate[jobs[j].group] # "Unused" /\ pstate[jobs[j].group][jobs[j].project] # "Absent"
    /\ \A g \in sched.queue : gstate[g] # "Unused"
    /\ sched.at \in {"write", "promote", "dispatch", "link"} => gstate[sched.group] # "Unused"
    /\ \A h \in Handler : handler[h].op = "cancel" => gstate[handler[h].group] # "Unused"

\* The group that is about to become active is the only one of its project.
GroupInv ==
    /\ OneActiveGroup
    /\ sched.at = "promote" => \A o \in Group : Active(o) => root[o] # root[sched.group]
    /\ sched.at = "write" => \A o \in Group \ {sched.group} : Active(o) => root[o] # root[sched.group]

\* What counts as built was built, in the tables and in what has been read from them.
BuiltInv ==
    /\ \A g \in Group, p \in Project : pstate[g][p] = "Success" => <<g, p>> \in built
    /\ \A j \in Created : jobs[j].state = "Complete" => <<jobs[j].group, jobs[j].project>> \in built
    /\ \A s \in sched.todo : s.state = "Complete" => <<jobs[s.id].group, jobs[s.id].project>> \in built

\* What may be skipped or created is in the group, and what it needs is built.
PlanInv ==
    /\ sched.at \in {"skip", "dispatch", "link"} => \A p \in Project :
          sched.snap[p] = "NotStarted" => pstate[sched.group][p] # "Absent"
    /\ sched.at \in {"dispatch", "link"} => \A p \in sched.plan :
          /\ pstate[sched.group][p] # "Absent"
          /\ \A d \in Deps[p] : pstate[sched.group][d] # "Absent" => <<sched.group, d>> \in built

IInv == TypeOK /\ SchedInv /\ JobInv /\ UsedInv /\ GroupInv /\ BuiltInv /\ PlanInv /\ BuildsAfterDeps

-----------------------------------------------------------------------------
(* The operators. *)

LEMMA StateOfType ==
    ASSUME NEW s \in JobState
    PROVE  /\ ProjectStateOf(s) \in ProjectState \ {"Absent"}
           /\ ProjectStateOf(s) = "Success" => s = "Complete"
           /\ AfterStatus(s) \in {"skip", "read", "ack"}
  BY Zenon DEF ProjectStateOf, AfterStatus, JobState, ProjectState

LEMMA NewStateType ==
    ASSUME NEW snap
    PROVE  NewState(snap) \in GroupState \ {"Unused"}
  BY DEF NewState, GroupState

LEMMA SkipType ==
    ASSUME NEW snap, NEW name
    PROVE  SkipProjects(snap, name) \subseteq {p \in Project : snap[p] = "NotStarted"}
  BY DEF SkipProjects

LEMMA SetProjectsType ==
    ASSUME TypeOK, NEW g \in Group, NEW ps, NEW state \in ProjectState, SetProjects(g, ps, state)
    PROVE  /\ pstate' \in [Group -> Snapshot]
           /\ \A o \in Group, p \in Project :
                 pstate'[o][p] = IF o = g /\ p \in ps THEN state ELSE pstate[o][p]
  BY DEF TypeOK, SetProjects, Snapshot

LEMMA CreatedRow ==
    ASSUME TypeOK, NEW j \in Created
    PROVE  jobs[j] \in Row /\ j \in Job
  BY DEF TypeOK, Created

\* No row is removed or given to another project.
RowsKept ==
    /\ jobs' \in [Job -> Row \cup {Unused}]
    /\ Created' = Created
    /\ \A j \in Created : jobs'[j].group = jobs[j].group /\ jobs'[j].project = jobs[j].project

LEMMA UpdatedKeeps ==
    ASSUME TypeOK, NEW j \in Created, NEW state \in JobState, jobs' = Updated(j, state)
    PROVE  /\ RowsKept /\ jobs'[j].state = state
           /\ \A i \in Job \ {j} : jobs'[i] = jobs[i]
  <1>1. jobs[j] \in Row /\ j \in Job
    BY CreatedRow
  <1>2. jobs'[j] = [state |-> state, group |-> jobs[j].group, project |-> jobs[j].project,
                    synced |-> FALSE, count |-> jobs[j].count + 1]
    BY <1>1 DEF Updated, TypeOK
  <1>3. jobs'[j] \in Row
    BY <1>1, <1>2 DEF Row
  <1>4. \A i \in Job \ {j} : jobs'[i] = jobs[i]
    BY <1>1 DEF Updated, TypeOK
  <1>5. jobs'[j].state = state
    BY <1>2
  <1>6. jobs' \in [Job -> Row \cup {Unused}]
    BY <1>1, <1>3 DEF Updated, TypeOK
  <1>7. jobs'[j] # Unused
    BY <1>3 DEF Row, Unused, JobState
  <1>8. Created' = Created
    BY <1>4, <1>7, <1>1 DEF Created
  <1>9. \A i \in Created : jobs'[i].group = jobs[i].group /\ jobs'[i].project = jobs[i].project
    BY <1>2, <1>4 DEF Created
  <1> QED
    BY <1>4, <1>5, <1>6, <1>8, <1>9 DEF RowsKept

-----------------------------------------------------------------------------
(* Steps that only touch rows of jobs and what workers do with them. *)

LEMMA RowStepKeeps ==
    ASSUME IInv, RowsKept,
           UNCHANGED <<gstate, root, pstate, pjob, sched>>,
           TypeOK',
           built \subseteq built',
           \A j \in Created : jobs'[j].state = "Complete" =>
               jobs[j].state = "Complete" \/ <<jobs[j].group, jobs[j].project>> \in built',
           \A j \in Job : work'[j] # "idle" => j \in Created,
           \A h \in Handler : handler'[h].op = "cancel" => gstate[handler'[h].group] # "Unused"
    PROVE  IInv'
  <1> USE DEF IInv
  <1>1. SchedInv'
    BY Zenon DEF SchedInv, RowsKept
  <1>2. JobInv'
    BY DEF JobInv, RowsKept
  <1>3. UsedInv'
    BY Zenon DEF UsedInv, RowsKept
  <1>4. GroupInv'
    BY DEF GroupInv, OneActiveGroup, Active
  <1>5. BuiltInv'
    <2>1. \A s \in sched.todo : s.state = "Complete" => <<jobs[s.id].group, jobs[s.id].project>> \in built
      BY DEF BuiltInv
    <2>2. \A s \in sched.todo : s.id \in Created
      BY DEF SchedInv
    <2>3. \A s \in sched'.todo : s.state = "Complete" => <<jobs'[s.id].group, jobs'[s.id].project>> \in built'
      BY <2>1, <2>2 DEF RowsKept
    <2>4. \A j \in Created' : jobs'[j].state = "Complete" => <<jobs'[j].group, jobs'[j].project>> \in built'
      BY Zenon DEF BuiltInv, RowsKept
    <2>5. \A g \in Group, p \in Project : pstate'[g][p] = "Success" => <<g, p>> \in built'
      BY DEF BuiltInv
    <2> QED
      BY <2>3, <2>4, <2>5 DEF BuiltInv
  <1>6. PlanInv'
    BY DEF PlanInv
  <1>7. BuildsAfterDeps'
    <2> SUFFICES ASSUME NEW j \in Created, NEW d \in Deps[jobs[j].project],
                        pstate[jobs[j].group][d] # "Absent"
                 PROVE  <<jobs[j].group, d>> \in built'
      BY DEF BuildsAfterDeps, RowsKept
    <2> QED
      BY DEF BuildsAfterDeps
  <1> QED
    BY <1>1, <1>2, <1>3, <1>4, <1>5, <1>6, <1>7

\* What a status report of a job in the table does.
LEMMA ReportKeeps ==
    ASSUME IInv, NEW j \in Created, NEW state \in JobState, Report(j, state),
           work' \in [Job -> WorkState],
           \A i \in Job \ {j} : work'[i] = work[i],
           stray' \subseteq Created,
           faults' \in 0 .. MaxFault
    PROVE  IInv'
  <1> USE DEF IInv
  <1>1. /\ jobs' = Updated(j, state)
        /\ built' = IF state = "Complete" THEN built \cup {<<jobs[j].group, jobs[j].project>>} ELSE built
        /\ rejected' = IF state = "Rejected" THEN rejected \cup {j} ELSE rejected
        /\ UNCHANGED <<gstate, root, pstate, pjob, expired, sched, handler, aborted>>
    BY Zenon DEF Report
  <1>2. RowsKept /\ jobs'[j].state = state /\ \A i \in Job \ {j} : jobs'[i] = jobs[i]
    BY <1>1, UpdatedKeeps
  <1>3. jobs[j] \in Row /\ j \in Job
    BY CreatedRow
  <1>4. built' \subseteq Group \X Project /\ built \subseteq built'
    BY <1>1, <1>3 DEF TypeOK, Row
  <1>5. TypeOK'
    <2>1. handler' \in [Handler -> {Idle} \cup [op : {"create"}, root : Root]
                           \cup [op : {"cancel", "cancelJobs"}, group : Group, jobs : SUBSET Created']]
      BY <1>1, <1>2, Zenon DEF TypeOK, RowsKept
    <2>2. rejected' \subseteq Created' /\ expired' \subseteq Created' /\ stray' \subseteq Created'
      BY <1>1, <1>2, Zenon DEF TypeOK, RowsKept
    <2> QED
      BY <1>1, <1>2, <1>4, <2>1, <2>2, Zenon DEF TypeOK, RowsKept
  <1>6. \A i \in Created : jobs'[i].state = "Complete" =>
            jobs[i].state = "Complete" \/ <<jobs[i].group, jobs[i].project>> \in built'
    BY <1>1, <1>2, Zenon DEF Created
  <1>7. \A i \in Job : work'[i] # "idle" => i \in Created
    BY DEF JobInv
  <1>8. \A h \in Handler : handler'[h].op = "cancel" => gstate[handler'[h].group] # "Unused"
    BY <1>1, Zenon DEF UsedInv
  <1> QED
    BY <1>1, <1>2, <1>4, <1>5, <1>6, <1>7, <1>8, RowStepKeeps, Zenon

LEMMA WorkerKeeps ==
    ASSUME IInv, NEW j \in Job, WorkerStep(j) \/ WorkerFault(j)
    PROVE  IInv'
  <1> USE DEF IInv
  <1>0. /\ MaxFault \in Nat /\ faults \in 0 .. MaxFault /\ stray \subseteq Created
        /\ work \in [Job -> WorkState] /\ (work[j] # "idle" => j \in Created)
    BY BoundsAssumption, Zenon DEF TypeOK, JobInv
  <1>b. ASSUME NEW kind, Budget(kind) PROVE faults' \in 0 .. MaxFault
    BY <1>0, <1>b DEF Budget
  <1>1. CASE StartJob(j)
    <2>1. jobs[j] \in Row /\ j \in Created
      BY <1>1, CreatedRow, Zenon DEF StartJob
    <2>2. /\ jobs'[j] = [state |-> "Dispatched", group |-> jobs[j].group,
                    project |-> jobs[j].project, synced |-> FALSE, count |-> jobs[j].count]
          /\ \A i \in Job \ {j} : jobs'[i] = jobs[i]
      BY <1>1, Zenon DEF StartJob, TypeOK
    <2>3. jobs'[j] \in Row /\ jobs'[j].state = "Dispatched"
      BY <2>1, <2>2 DEF Row, JobState
    <2>4. jobs' \in [Job -> Row \cup {Unused}]
      BY <1>1, <2>3, Zenon DEF StartJob, TypeOK
    <2>5. jobs'[j] # Unused
      BY <2>3 DEF Unused
    <2>6. Created' = Created
      BY <2>1, <2>2, <2>5, Zenon DEF Created
    <2>7. RowsKept
      BY <2>2, <2>4, <2>6 DEF RowsKept, Created
    <2>8. work' \in [Job -> WorkState] /\ \A i \in Job \ {j} : work'[i] = work[i]
      BY <1>0, <1>1, Zenon DEF StartJob, WorkState
    <2>9. UNCHANGED <<gstate, root, pstate, pjob, stray, built, rejected, expired, sched, handler, aborted, faults>>
      BY <1>1 DEF StartJob
    <2>10. TypeOK'
      BY <2>4, <2>6, <2>8, <2>9, Zenon DEF TypeOK
    <2>11. \A i \in Created : jobs'[i].state = "Complete" => jobs[i].state = "Complete"
      BY <2>2, <2>3, Zenon DEF Created
    <2>12. \A i \in Job : work'[i] # "idle" => i \in Created
      BY <2>1, <2>8 DEF JobInv
    <2> QED
      BY <2>7, <2>9, <2>10, <2>11, <2>12, RowStepKeeps, Zenon DEF UsedInv
  <1>2. CASE Started(j)
    BY <1>0, <1>2, ReportKeeps, Zenon DEF Started, WorkState, JobState
  <1>3. CASE StopRead(j)
    BY <1>0, <1>3, ReportKeeps, Zenon DEF StopRead, WorkState, JobState
  <1>4. CASE Ready(j)
    <2>1. /\ UNCHANGED <<tables, stray, built, rejected, expired, sched, handler, aborted, faults>>
          /\ work' = [work EXCEPT ![j] = "idle"]
      BY <1>4, Zenon DEF Ready
    <2>2. Created' = Created
      BY <2>1 DEF tables, Created
    <2>3. TypeOK'
      BY <2>1, <2>2, Zenon DEF TypeOK, tables, WorkState
    <2>4. RowsKept
      BY <2>1, <2>2, Zenon DEF RowsKept, tables, TypeOK
    <2>5. \A i \in Job : work'[i] # "idle" => i \in Created
      BY <1>0, <2>1, Zenon DEF JobInv
    <2> QED
      BY <2>1, <2>3, <2>4, <2>5, RowStepKeeps, Zenon DEF tables, UsedInv
  <1>5. CASE ProcessCancel(j)
    <2>1. j \in Created /\ work' = [work EXCEPT ![j] = Stopped(work[j])] /\ UNCHANGED <<stray, faults>>
      BY <1>5, Zenon DEF ProcessCancel
    <2>2. Stopped(work[j]) \in WorkState
      BY <1>0 DEF Stopped, WorkState
    <2>3. \E state \in JobState : Report(j, state)
      BY <1>5 DEF ProcessCancel, JobState
    <2> QED
      BY <1>0, <2>1, <2>2, <2>3, ReportKeeps, Zenon
  <1>6. ASSUME NEW state \in JobState, Finish(j, state) PROVE IInv'
    BY <1>0, <1>6, ReportKeeps, Zenon DEF Finish, WorkState
  <1>7. ASSUME NEW state \in JobState, ReportLate(j, state) PROVE IInv'
    BY <1>0, <1>7, ReportKeeps, Zenon DEF ReportLate
  <1>8. CASE Reject(j)
    BY <1>0, <1>b, <1>8, ReportKeeps, Zenon DEF Reject, WorkState, JobState
  <1>9. CASE CancelExpired(j)
    <2>1. j \in Created /\ work' = [work EXCEPT ![j] = Stopped(work[j])] /\ UNCHANGED stray
      BY <1>0, <1>9, Zenon DEF CancelExpired
    <2>2. Stopped(work[j]) \in WorkState
      BY <1>0 DEF Stopped, WorkState
    <2>3. Report(j, "CancelProcessing") /\ faults' \in 0 .. MaxFault
      BY <1>b, <1>9 DEF CancelExpired
    <2> QED
      BY <1>0, <2>1, <2>2, <2>3, ReportKeeps, Zenon DEF JobState
  <1>10. CASE Requeue(j)
    <2>1. /\ j \in Created /\ work' = [work EXCEPT ![j] = "idle"] /\ expired' = expired \cup {j}
          /\ stray' \subseteq stray \cup {j} /\ faults' \in 0 .. MaxFault
          /\ UNCHANGED <<gstate, root, pstate, pjob, built, rejected, sched, handler, aborted>>
      BY <1>0, <1>b, <1>10, Zenon DEF Requeue
    <2>2. jobs' \in {Updated(j, "Pending"), Updated(j, "CancelComplete"), jobs}
      BY <1>10 DEF Requeue
    <2>3. RowsKept /\ \A i \in Created : jobs'[i].state = "Complete" => jobs[i].state = "Complete"
      <3>1. CASE jobs' = jobs
        BY <3>1, Zenon DEF RowsKept, Created, TypeOK
      <3>2. CASE jobs' = Updated(j, "Pending")
        BY <2>1, <3>2, UpdatedKeeps, Zenon DEF JobState, Created
      <3>3. CASE jobs' = Updated(j, "CancelComplete")
        BY <2>1, <3>3, UpdatedKeeps, Zenon DEF JobState, Created
      <3> QED
        BY <2>2, <3>1, <3>2, <3>3, Zenon
    <2>4. Created' = Created
      BY <2>3 DEF RowsKept
    <2>5. TypeOK'
      BY <2>1, <2>3, <2>4, Zenon DEF TypeOK, RowsKept, WorkState
    <2>6. \A i \in Job : work'[i] # "idle" => i \in Created
      BY <1>0, <2>1, Zenon DEF JobInv
    <2> QED
      BY <2>1, <2>3, <2>5, <2>6, RowStepKeeps, Zenon DEF UsedInv
  <1> QED
    BY <1>1, <1>2, <1>3, <1>4, <1>5, <1>6, <1>7, <1>8, <1>9, <1>10, Zenon DEF WorkerStep, WorkerFault

-----------------------------------------------------------------------------
(* The request handlers. *)

\* A write to the groups by somebody else than the scheduler.
LEMMA GroupStepKeeps ==
    ASSUME IInv, TypeOK',
           UNCHANGED <<root, pjob, jobs, workers, sched>>,
           \A g \in Group : gstate[g] # "Unused" => gstate'[g] # "Unused",
           \A g \in Group : gstate'[g] \in {"Pending", "Dispatching"} => Active(g),
           \A g \in Group, p \in Project :
              /\ pstate'[g][p] = "Absent" <=> pstate[g][p] = "Absent"
              /\ pstate'[g][p] \in {"Success", "InProgress"} => pstate'[g][p] = pstate[g][p],
           \A h \in Handler : handler'[h].op = "cancel" => gstate'[handler'[h].group] # "Unused"
    PROVE  IInv'
  <1> USE DEF IInv, workers
  <1>0. Created' = Created
    BY Zenon DEF Created
  <1>a. \A j \in Created : jobs[j].group \in Group /\ jobs[j].project \in Project
    BY CreatedRow, Zenon DEF Row
  <1>d. \A p \in Project : Deps[p] \subseteq Project
    BY ProjectAssumption, Zenon
  <1>1. SchedInv'
    BY <1>0, Zenon DEF SchedInv
  <1>2. JobInv'
    BY <1>0, Zenon DEF JobInv
  <1>3. UsedInv'
    <2>1. sched.queue \subseteq Group
      BY Zenon DEF TypeOK
    <2>2. sched.at \in {"write", "promote", "dispatch", "link"} => sched.group \in Group
      BY Zenon DEF SchedInv
    <2> QED
      BY <1>0, <1>a, <2>1, <2>2, Zenon DEF UsedInv
  <1>4. GroupInv'
    BY DEF GroupInv, OneActiveGroup, Active
  <1>5. BuiltInv'
    BY <1>0, Zenon DEF BuiltInv
  <1>6. PlanInv'
    <2>1. sched.at \in {"skip", "dispatch", "link"} => sched.group \in Group
      BY Zenon DEF SchedInv
    <2>2. sched.plan \subseteq Project
      BY Zenon DEF TypeOK
    <2> QED
      BY <1>d, <2>1, <2>2 DEF PlanInv
  <1>7. BuildsAfterDeps'
    BY <1>0, <1>a, <1>d DEF BuildsAfterDeps
  <1> QED
    BY <1>1, <1>2, <1>3, <1>4, <1>5, <1>6, <1>7, Zenon

Request ==
    {Idle} \cup [op : {"create"}, root : Root]
           \cup [op : {"cancel", "cancelJobs"}, group : Group, jobs : SUBSET Created]

LEMMA RequestType ==
    ASSUME TypeOK, NEW h \in Handler
    PROVE  /\ handler[h] \in Request
           /\ handler[h].op = "create" => handler[h].root \in Root
           /\ handler[h].op \in {"cancel", "cancelJobs"} =>
                 handler[h] \in [op : {"cancel", "cancelJobs"}, group : Group, jobs : SUBSET Created]
  <1>1. handler[h] \in Request
    BY Zenon DEF TypeOK, Request
  <1> QED
    BY <1>1 DEF Request, Idle

\* Only what a handler remembers changes, or a fault is counted.
LEMMA RequestKeeps ==
    ASSUME IInv, UNCHANGED <<tables, workers, sched, aborted>>, faults' \in 0 .. MaxFault,
           handler' \in [Handler -> Request],
           \A h \in Handler : handler'[h].op = "cancel" => gstate[handler'[h].group] # "Unused"
    PROVE  IInv'
  <1> USE DEF IInv, tables, workers
  <1>1. Created' = Created
    BY Zenon DEF Created
  <1>2. TypeOK'
    BY <1>1, Zenon DEF TypeOK, Request
  <1>3. RowsKept
    BY <1>1, Zenon DEF RowsKept, TypeOK
  <1>4. \A j \in Job : work'[j] # "idle" => j \in Created
    BY ZenonT(20) DEF JobInv
  <1> QED
    BY <1>2, <1>3, <1>4, RowStepKeeps, Zenon

LEMMA CancelKeeps ==
    ASSUME IInv, NEW h \in Handler, CancelGroup(h)
    PROVE  IInv'
  <1> USE DEF IInv
  <1> DEFINE g == handler[h].group
             ps == {p \in Project : pstate[g][p] = "NotStarted"}
  <1>1. handler[h] \in [op : {"cancel", "cancelJobs"}, group : Group, jobs : SUBSET Created] /\ g \in Group
    BY RequestType, Zenon DEF CancelGroup
  <1>2. gstate' = [gstate EXCEPT ![g] = "Canceled"] /\ SetProjects(g, ps, "Canceled")
    BY DEF CancelGroup
  <1>3. /\ pstate' \in [Group -> Snapshot]
        /\ \A o \in Group, p \in Project :
              pstate'[o][p] = IF o = g /\ p \in ps THEN "Canceled" ELSE pstate[o][p]
    BY <1>1, <1>2, SetProjectsType DEF ProjectState
  <1>4. UNCHANGED <<root, pjob, jobs, workers, sched, aborted, faults>>
    BY DEF CancelGroup
  <1>5. Created' = Created
    BY <1>4 DEF Created
  <1>6. handler' = [handler EXCEPT ![h].op = "cancelJobs"]
    BY DEF CancelGroup
  <1>7. handler' \in [Handler -> Request]
    BY <1>1, <1>6, RequestType, Zenon DEF Request, TypeOK
  <1>8. TypeOK'
    BY <1>2, <1>3, <1>4, <1>5, <1>7, Zenon DEF TypeOK, GroupState, Request, workers
  <1>9. \A i \in Handler : handler'[i].op = "cancel" => i # h /\ handler'[i] = handler[i]
    BY <1>1, <1>6, ZenonT(20) DEF TypeOK
  <1>10. \A i \in Handler : handler'[i].op = "cancel" => gstate'[handler'[i].group] # "Unused"
    <2> SUFFICES ASSUME NEW i \in Handler, handler'[i].op = "cancel"
                 PROVE  gstate'[handler'[i].group] # "Unused"
      BY Zenon
    <2>1. handler'[i] = handler[i] /\ handler[i].group \in Group
      BY <1>9, RequestType, Zenon
    <2>2. gstate[handler[i].group] # "Unused"
      BY <2>1, Zenon DEF UsedInv
    <2> QED
      BY <1>2, <2>1, <2>2, ZenonT(20) DEF TypeOK
  <1>11. \A o \in Group : gstate'[o] = IF o = g THEN "Canceled" ELSE gstate[o]
    BY <1>2, Zenon DEF TypeOK
  <1> QED
    BY <1>3, <1>4, <1>8, <1>10, <1>11, GroupStepKeeps DEF Active

LEMMA AbortKeeps ==
    ASSUME IInv, NEW g \in Group, Abort(g)
    PROVE  IInv'
  <1> USE DEF IInv
  <1> DEFINE ps == {p \in Project : pstate[g][p] \in {"InProgress", "NotStarted"}}
  <1>1. /\ pstate' \in [Group -> Snapshot]
        /\ \A o \in Group, p \in Project :
              pstate'[o][p] = IF o = g /\ p \in ps THEN "Failure" ELSE pstate[o][p]
    BY SetProjectsType DEF Abort, ProjectState
  <1>2. UNCHANGED <<root, pjob, jobs, workers, sched, handler>> /\ faults' \in 0 .. MaxFault
    BY BoundsAssumption DEF Abort, Budget, TypeOK
  <1>3. Created' = Created
    BY <1>2 DEF Created
  <1>4. \A o \in Group : gstate'[o] = IF o = g THEN "Complete" ELSE gstate[o]
    BY Zenon DEF Abort, TypeOK
  <1>5. TypeOK'
    BY <1>1, <1>2, <1>3, Zenon DEF TypeOK, GroupState, workers, Abort
  <1>6. \A i \in Handler : handler'[i].op = "cancel" => gstate'[handler'[i].group] # "Unused"
    BY <1>2, <1>4, RequestType, Zenon DEF UsedInv
  <1> QED
    BY <1>1, <1>2, <1>4, <1>5, <1>6, GroupStepKeeps DEF Active

LEMMA InsertKeeps ==
    ASSUME IInv, NEW h \in Handler, NEW g \in Group, NEW list \in SUBSET Project, InsertGroup(h, g, list)
    PROVE  IInv'
  <1> USE DEF IInv
  <1>1. /\ pstate' \in [Group -> Snapshot]
        /\ \A o \in Group, p \in Project :
              pstate'[o][p] = IF o = g /\ p \in list THEN "NotStarted" ELSE pstate[o][p]
    BY SetProjectsType DEF InsertGroup, ProjectState
  <1>2. UNCHANGED <<pjob, jobs, workers, sched, aborted, faults>> /\ gstate[g] = "Unused"
    BY Zenon DEF InsertGroup
  <1>3. Created' = Created
    BY <1>2, ZenonT(20) DEF Created
  <1>4. /\ \A o \in Group : gstate'[o] = IF o = g THEN "Queued" ELSE gstate[o]
        /\ \A o \in Group \ {g} : root'[o] = root[o]
    BY Zenon DEF InsertGroup, TypeOK
  <1>5. handler' = [handler EXCEPT ![h] = Idle] /\ handler[h].root \in Root
    BY RequestType, Zenon DEF InsertGroup
  <1>6. TypeOK'
    BY <1>1, <1>2, <1>3, <1>5, ZenonT(20) DEF TypeOK, GroupState, workers, InsertGroup
  <1>a. \A j \in Created : jobs[j].group \in Group \ {g} /\ jobs[j].project \in Project
    BY <1>2, CreatedRow, Zenon DEF Row, UsedInv
  <1>b. sched.at \in {"write", "promote", "dispatch", "link"} => sched.group \in Group \ {g}
    BY <1>2, Zenon DEF SchedInv, UsedInv
  <1>7. SchedInv'
    BY <1>2, <1>3, Zenon DEF SchedInv
  <1>8. JobInv'
    BY <1>1, <1>2, <1>3, Zenon DEF JobInv, workers
  <1>9. UsedInv'
    <2>1. \A i \in Handler : handler'[i].op = "cancel" => handler'[i] = handler[i]
      BY <1>5, Zenon DEF TypeOK, Idle
    <2>2. \A i \in Handler : handler'[i].op = "cancel" => gstate'[handler'[i].group] # "Unused"
      BY <1>4, <2>1, RequestType, SMTT(20) DEF UsedInv
    <2>3. \A o \in sched.queue : gstate'[o] # "Unused"
      BY <1>4, ZenonT(20) DEF UsedInv, TypeOK
    <2>4. \A j \in Created : gstate'[jobs[j].group] # "Unused" /\ pstate'[jobs[j].group][jobs[j].project] # "Absent"
      BY <1>1, <1>4, <1>a DEF UsedInv
    <2>5. sched.at \in {"write", "promote", "dispatch", "link"} => gstate'[sched.group] # "Unused"
      BY <1>4, <1>b, Zenon DEF UsedInv
    <2> QED
      BY <1>2, <1>3, <2>2, <2>3, <2>4, <2>5, Zenon DEF UsedInv
  <1>10. GroupInv'
    <2>1. \A o \in Group : gstate'[o] \in {"Pending", "Dispatching"} =>
             o # g /\ gstate[o] \in {"Pending", "Dispatching"}
      BY <1>4, Zenon
    <2>2. OneActiveGroup'
      BY <1>4, <2>1 DEF GroupInv, OneActiveGroup, Active
    <2>3. (sched.at = "promote" => \A o \in Group : Active(o) => root[o] # root[sched.group])'
      BY <1>2, <1>4, <1>b, <2>1, Zenon DEF GroupInv, Active
    <2>4. (sched.at = "write" => \A o \in Group \ {sched.group} : Active(o) => root[o] # root[sched.group])'
      BY <1>2, <1>4, <1>b, <2>1, Zenon DEF GroupInv, Active
    <2> QED
      BY <2>2, <2>3, <2>4, Zenon DEF GroupInv
  <1>11. BuiltInv'
    BY <1>1, <1>2, <1>3, Zenon DEF BuiltInv, workers
  <1>12. PlanInv'
    <2>1. sched.at \in {"skip", "dispatch", "link"} => sched.group \in Group
      BY Zenon DEF SchedInv
    <2>2. sched.plan \subseteq Project /\ \A p \in Project : Deps[p] \subseteq Project
      BY ProjectAssumption, ZenonT(20) DEF TypeOK
    <2> QED
      BY <1>1, <1>2, <1>b, <2>1, <2>2, Zenon DEF PlanInv, workers
  <1>13. BuildsAfterDeps'
    <2>1. \A p \in Project : Deps[p] \subseteq Project
      BY ProjectAssumption, Zenon
    <2> QED
      BY <1>1, <1>2, <1>3, <1>a, <2>1 DEF BuildsAfterDeps, workers
  <1> QED
    BY <1>6, <1>7, <1>8, <1>9, <1>10, <1>11, <1>12, <1>13, Zenon

LEMMA HandlerKeeps ==
    ASSUME IInv, HandlerStep
    PROVE  IInv'
  <1> USE DEF IInv
  <1>0. handler \in [Handler -> Request] /\ MaxFault \in Nat /\ faults \in 0 .. MaxFault
    BY BoundsAssumption, Zenon DEF TypeOK, Request
  <1>u. \A i \in Handler : handler[i].op = "cancel" => gstate[handler[i].group] # "Unused"
    BY Zenon DEF UsedInv
  <1>1. ASSUME NEW h \in Handler, NEW r \in Root, LookForQueued(h, r) PROVE IInv'
    <2>1. handler' = [handler EXCEPT ![h] = [op |-> "create", root |-> r]]
      BY <1>1, Zenon DEF LookForQueued
    <2>2. handler' \in [Handler -> Request]
      BY <1>0, <2>1, Zenon DEF Request
    <2>3. \A i \in Handler : handler'[i].op = "cancel" => gstate[handler'[i].group] # "Unused"
      BY <1>0, <1>u, <2>1, Zenon
    <2> QED
      BY <1>0, <1>1, <2>2, <2>3, RequestKeeps, Zenon DEF LookForQueued
  <1>2. ASSUME NEW h \in Handler, NEW g \in Group, ReadToCancel(h, g) PROVE IInv'
    <2> DEFINE held == {pjob[g][p] : p \in {q \in Project : pstate[g][q] = "InProgress"}}
    <2>1. handler' = [handler EXCEPT ![h] = [op |-> "cancel", group |-> g, jobs |-> held]]
      BY <1>2, Zenon DEF ReadToCancel
    <2>2. held \subseteq Created
      BY Zenon DEF JobInv
    <2> HIDE DEF held
    <2>3. handler' \in [Handler -> Request]
      BY <1>0, <2>1, <2>2, Zenon DEF Request
    <2>4. \A i \in Handler : handler'[i].op = "cancel" => gstate[handler'[i].group] # "Unused"
      BY <1>0, <1>2, <1>u, <2>1 DEF ReadToCancel
    <2>5. faults' \in 0 .. MaxFault
      BY <1>0, <1>2, SMTT(20) DEF ReadToCancel, Budget
    <2> QED
      BY <1>2, <2>3, <2>4, <2>5, RequestKeeps, Zenon DEF ReadToCancel
  <1>3. ASSUME NEW h \in Handler, CancelDone(h) PROVE IInv'
    <2>1. handler' = [handler EXCEPT ![h] = Idle]
      BY <1>3, Zenon DEF CancelDone
    <2>2. handler' \in [Handler -> Request]
      BY <1>0, <2>1, Zenon DEF Request
    <2>3. \A i \in Handler : handler'[i].op = "cancel" => gstate[handler'[i].group] # "Unused"
      BY <1>0, <1>u, <2>1, Zenon DEF Idle
    <2> QED
      BY <1>0, <1>3, <2>2, <2>3, RequestKeeps, Zenon DEF CancelDone
  <1>4. ASSUME NEW h \in Handler, NEW j \in Job, CancelJob(h, j) PROVE IInv'
    <2>1. handler[h] \in [op : {"cancel", "cancelJobs"}, group : Group, jobs : SUBSET Created]
      BY <1>4, RequestType, Zenon DEF CancelJob
    <2>2. j \in Created /\ jobs' = Updated(j, "CancelPending")
      BY <1>4, <2>1 DEF CancelJob
    <2>3. RowsKept /\ jobs'[j].state = "CancelPending" /\ \A i \in Job \ {j} : jobs'[i] = jobs[i]
      BY <2>2, UpdatedKeeps, Zenon DEF JobState
    <2>4. Created' = Created
      BY <2>3, Zenon DEF RowsKept
    <2>5. handler' = [handler EXCEPT ![h].jobs = handler[h].jobs \ {j}] /\ handler[h].op = "cancelJobs"
      BY <1>4 DEF CancelJob
    <2>6. handler' \in [Handler -> Request]
      BY <1>0, <2>1, <2>5 DEF Request
    <2>7. \A i \in Handler : handler'[i].op = "cancel" => gstate[handler'[i].group] # "Unused"
      BY <1>0, <1>u, <2>1, <2>5
    <2>8. UNCHANGED <<gstate, root, pstate, pjob, workers, sched, aborted, faults>>
      BY <1>4 DEF CancelJob
    <2>9. TypeOK'
      BY <2>3, <2>4, <2>6, <2>8, Zenon DEF TypeOK, Request, RowsKept, workers
    <2>10. \A i \in Created : jobs'[i].state = "Complete" => jobs[i].state = "Complete"
      BY <2>3, Zenon DEF Created
    <2>11. \A i \in Job : work'[i] # "idle" => i \in Created
      BY <2>8, Zenon DEF JobInv, workers
    <2> QED
      BY <2>3, <2>7, <2>8, <2>9, <2>10, <2>11, RowStepKeeps, Zenon DEF workers
  <1> QED
    BY <1>1, <1>2, <1>3, <1>4, CancelKeeps, AbortKeeps, InsertKeeps, Zenon DEF HandlerStep

LEMMA RestartKeeps ==
    ASSUME IInv, Restart
    PROVE  IInv'
  <1> USE DEF IInv, tables, workers
  <1>1. sched' = Waiting /\ handler' = [h \in Handler |-> Idle] /\ UNCHANGED <<tables, workers, aborted>>
        /\ faults' \in 0 .. MaxFault
    BY BoundsAssumption DEF Restart, Budget, TypeOK
  <1>2. Created' = Created
    BY <1>1, ZenonT(20) DEF Created
  <1>3. TypeOK'
    BY <1>1, <1>2, ZenonT(20) DEF TypeOK, Waiting, At, NoSnapshot, Snapshot, ProjectState, GroupState
  <1>4. SchedInv' /\ PlanInv'
    BY <1>1, ZenonT(20) DEF SchedInv, PlanInv, Waiting
  <1>5. JobInv' /\ BuildsAfterDeps' /\ BuiltInv'
    BY <1>1, <1>2, ZenonT(20) DEF JobInv, BuildsAfterDeps, BuiltInv, Waiting
  <1>6. UsedInv'
    BY <1>1, <1>2, Zenon DEF UsedInv, Waiting, Idle
  <1>7. GroupInv'
    BY <1>1, Zenon DEF GroupInv, OneActiveGroup, Active, Waiting
  <1> QED
    BY <1>3, <1>4, <1>5, <1>6, <1>7, Zenon

-----------------------------------------------------------------------------
(* The scheduler thread. *)

SchedType ==
    [at : At, todo : SUBSET Status, queue : SUBSET Group, job : Job \cup {NoJob},
     group : Group \cup {NoGroup}, snap : Snapshot, plan : SUBSET Project, new : GroupState]

\* The facts about what the thread holds that refer to the tables.
HeldInv ==
    /\ SchedInv /\ PlanInv
    /\ \A g \in sched.queue : gstate[g] # "Unused"
    /\ sched.at \in {"write", "promote", "dispatch", "link"} => gstate[sched.group] # "Unused"
    /\ sched.at = "promote" => \A o \in Group : Active(o) => root[o] # root[sched.group]
    /\ sched.at = "write" => \A o \in Group \ {sched.group} : Active(o) => root[o] # root[sched.group]
    /\ \A s \in sched.todo : s.state = "Complete" => <<jobs[s.id].group, jobs[s.id].project>> \in built

\* It reads, and writes nothing.
LEMMA ReadKeeps ==
    ASSUME IInv, UNCHANGED <<tables, workers, handler, aborted, faults>>, sched' \in SchedType, HeldInv'
    PROVE  IInv'
  <1> USE DEF IInv, tables, workers
  <1>1. Created' = Created
    BY Zenon DEF Created
  <1>2. TypeOK'
    BY <1>1, Zenon DEF TypeOK, SchedType
  <1>3. JobInv' /\ BuildsAfterDeps' /\ BuiltInv'
    BY <1>1, Zenon DEF JobInv, BuildsAfterDeps, BuiltInv, HeldInv
  <1>4. UsedInv'
    BY <1>1, Zenon DEF UsedInv, HeldInv
  <1>5. GroupInv'
    BY Zenon DEF GroupInv, OneActiveGroup, Active, HeldInv
  <1> QED
    BY <1>2, <1>3, <1>4, <1>5, Zenon DEF HeldInv

LEMMA SyncJobsKeeps ==
    ASSUME IInv, SyncJobs
    PROVE  IInv'
  <1> USE DEF IInv
  <1> DEFINE todo == {[id |-> j, state |-> jobs[j].state] : j \in Unsynced}
  <1>1. \A s \in todo : s.id \in Created /\ s.state = jobs[s.id].state /\ s \in Status
    BY CreatedRow DEF Unsynced, Status, Row
  <1> HIDE DEF todo
  <1>2. sched \in SchedType
    BY Zenon DEF TypeOK, SchedType
  <1>3. sched' = [sched EXCEPT !.at = "sync", !.todo = todo]
    BY DEF SyncJobs, todo
  <1>4. sched' \in SchedType
    BY <1>1, <1>2, <1>3, Zenon DEF SchedType, At
  <1>5. UNCHANGED <<tables, workers, handler, aborted, faults>> /\ Created' = Created
    BY DEF SyncJobs, tables, Created
  <1>6. sched'.todo = todo /\ sched'.at = "sync" /\ sched'.job = sched.job /\ sched'.queue = sched.queue
    BY <1>2, <1>3 DEF SchedType
  <1>7. SchedInv' /\ PlanInv'
    BY <1>1, <1>5, <1>6, Zenon DEF SchedInv, PlanInv
  <1>8. HeldInv'
    BY <1>1, <1>5, <1>6, <1>7, Zenon DEF HeldInv, tables, workers, UsedInv, BuiltInv
  <1> QED
    BY <1>4, <1>5, <1>8, ReadKeeps, Zenon

LEMMA ReadGroupKeeps ==
    ASSUME IInv, ReadGroup
    PROVE  IInv'
  <1> USE DEF IInv
  <1>2. sched \in SchedType /\ NoSnapshot \in Snapshot
    BY Zenon DEF TypeOK, SchedType, NoSnapshot, Snapshot, ProjectState
  <1>5. UNCHANGED <<tables, workers, handler, aborted, faults>> /\ Created' = Created /\ sched.at = "read"
    BY DEF ReadGroup, tables, Created
  <1>g. sched.group \in Group
    BY <1>5, Zenon DEF SchedInv
  <1>3. CASE gstate[sched.group] = "Dispatching"
    <2>1. sched' = [sched EXCEPT !.at = "write", !.snap = NoSnapshot, !.new = NewState(pstate[sched.group])]
      BY <1>3 DEF ReadGroup
    <2>2. sched' \in SchedType
      BY <1>2, <2>1, NewStateType, Zenon DEF SchedType, At
    <2>3. /\ sched'.at = "write" /\ sched'.new # "Unused" /\ sched'.group = sched.group
          /\ sched'.todo = sched.todo /\ sched'.queue = sched.queue /\ sched'.job = sched.job
      BY <1>2, <2>1, NewStateType DEF SchedType
    <2>4. SchedInv' /\ PlanInv'
      BY <1>5, <1>g, <2>3, Zenon DEF SchedInv, PlanInv
    <2>5. \A o \in Group \ {sched.group} : Active(o) => root[o] # root[sched.group]
      BY <1>3, <1>g, Zenon DEF GroupInv, OneActiveGroup, Active
    <2>6. HeldInv'
      BY <1>3, <1>5, <2>3, <2>4, <2>5, Zenon DEF HeldInv, tables, workers, UsedInv, BuiltInv, Active
    <2> QED
      BY <1>5, <2>2, <2>6, ReadKeeps, Zenon
  <1>4. CASE gstate[sched.group] # "Dispatching"
    <2>1. sched' = [sched EXCEPT !.at = Return, !.snap = NoSnapshot] /\ Return \in {"work", "ack"}
          /\ (Return = "ack" => sched.job # NoJob)
      BY <1>4 DEF ReadGroup, Return
    <2>2. sched' \in SchedType
      BY <1>2, <2>1, Zenon DEF SchedType, At
    <2>3. /\ sched'.at \in {"work", "ack"} /\ (sched'.at = "ack" => sched.job # NoJob)
          /\ sched'.todo = sched.todo /\ sched'.queue = sched.queue /\ sched'.job = sched.job
      BY <1>2, <2>1 DEF SchedType
    <2>4. SchedInv' /\ PlanInv'
      BY <1>5, <2>3, Zenon DEF SchedInv, PlanInv
    <2>6. HeldInv'
      BY <1>5, <2>3, <2>4, Zenon DEF HeldInv, tables, workers, UsedInv, BuiltInv
    <2> QED
      BY <1>5, <2>2, <2>6, ReadKeeps, Zenon
  <1> QED
    BY <1>3, <1>4, Zenon

LEMMA QueueKeeps ==
    ASSUME IInv, ReadQueue \/ NothingPending \/ Dispatched \/ \E g \in Group : CheckQueued(g)
    PROVE  IInv'
  <1> USE DEF IInv
  <1>2. sched \in SchedType /\ Waiting \in SchedType
    BY Zenon DEF TypeOK, SchedType, Waiting, NoSnapshot, Snapshot, ProjectState, At, GroupState
  <1>5. UNCHANGED <<tables, workers, handler, aborted, faults>> /\ Created' = Created
    BY Zenon DEF ReadQueue, NothingPending, Dispatched, CheckQueued, tables, Created
  <1>3. CASE ReadQueue
    <2>1. sched' = [sched EXCEPT !.at = "check", !.queue = {g \in Group : gstate[g] = "Queued"}]
      BY <1>3 DEF ReadQueue
    <2>2. sched' \in SchedType
      BY <1>2, <2>1, Zenon DEF SchedType, At
    <2>3. /\ sched'.at = "check" /\ sched'.queue = {g \in Group : gstate[g] = "Queued"}
          /\ sched'.todo = sched.todo /\ sched'.job = sched.job
      BY <1>2, <2>1 DEF SchedType
    <2>4. SchedInv' /\ PlanInv'
      BY <1>5, <2>3, Zenon DEF SchedInv, PlanInv
    <2>6. HeldInv'
      BY <1>5, <2>3, <2>4, Zenon DEF HeldInv, tables, workers, BuiltInv
    <2> QED
      BY <1>5, <2>2, <2>6, ReadKeeps, Zenon
  <1>4. CASE NothingPending
    <2>1. HeldInv'
      BY <1>4, Zenon DEF NothingPending, HeldInv, SchedInv, PlanInv, Waiting
    <2> QED
      BY <1>2, <1>4, <1>5, <2>1, ReadKeeps, Zenon DEF NothingPending
  <1>6. CASE Dispatched
    <2>1. sched' = [sched EXCEPT !.at = "read"] /\ sched.at = "dispatch"
      BY <1>6 DEF Dispatched
    <2>2. sched' \in SchedType
      BY <1>2, <2>1 DEF SchedType, At
    <2>3. /\ sched'.at = "read" /\ sched'.queue = sched.queue /\ sched'.group = sched.group
          /\ sched'.todo = sched.todo /\ sched'.job = sched.job
      BY <1>2, <2>1 DEF SchedType
    <2>4. SchedInv' /\ PlanInv'
      BY <1>5, <2>1, <2>3, Zenon DEF SchedInv, PlanInv
    <2>6. HeldInv'
      BY <1>5, <2>3, <2>4, Zenon DEF HeldInv, tables, workers, BuiltInv, UsedInv
    <2> QED
      BY <1>5, <2>2, <2>6, ReadKeeps, Zenon
  <1>7. ASSUME NEW g \in Group, CheckQueued(g), IsJobGroupActive(root[g]) PROVE IInv'
    <2>1. sched' = [sched EXCEPT !.queue = sched.queue \ {g}] /\ sched.at = "check"
      BY <1>7, Zenon DEF CheckQueued
    <2>2. sched' \in SchedType
      BY <1>2, <2>1 DEF SchedType, At
    <2>3. /\ sched'.at = "check" /\ sched'.queue \subseteq sched.queue
          /\ sched'.todo = sched.todo /\ sched'.job = sched.job
      BY <1>2, <2>1 DEF SchedType
    <2>4. SchedInv' /\ PlanInv'
      BY <1>5, <2>3, Zenon DEF SchedInv, PlanInv
    <2>6. HeldInv'
      BY <1>5, <2>3, <2>4, Zenon DEF HeldInv, tables, workers, BuiltInv, UsedInv
    <2> QED
      BY <1>5, <2>2, <2>6, ReadKeeps, Zenon
  <1>8. ASSUME NEW g \in Group, CheckQueued(g), ~IsJobGroupActive(root[g]) PROVE IInv'
    <2>1. sched' = [sched EXCEPT !.at = "promote", !.queue = sched.queue \ {g}, !.group = g] /\ g \in sched.queue
      BY <1>8, Zenon DEF CheckQueued
    <2>2. sched' \in SchedType
      BY <1>2, <2>1, Zenon DEF SchedType, At
    <2>3. /\ sched'.at = "promote" /\ sched'.queue \subseteq sched.queue /\ sched'.group = g
          /\ sched'.todo = sched.todo /\ sched'.job = sched.job
      BY <1>2, <2>1 DEF SchedType
    <2>4. SchedInv' /\ PlanInv'
      BY <1>5, <2>3, Zenon DEF SchedInv, PlanInv
    <2>5. \A o \in Group : Active(o) => root[o] # root[g]
      BY <1>8, Zenon DEF IsJobGroupActive
    <2>6. HeldInv'
      BY <1>5, <2>1, <2>3, <2>4, <2>5, Zenon DEF HeldInv, tables, workers, BuiltInv, UsedInv, Active
    <2> QED
      BY <1>5, <2>2, <2>6, ReadKeeps, Zenon
  <1> QED
    BY <1>3, <1>4, <1>6, <1>7, <1>8, Zenon

\* It writes to the tables of the groups.
LEMMA WriteKeeps ==
    ASSUME IInv, UNCHANGED <<root, jobs, workers, handler, aborted>>, faults' \in 0 .. MaxFault,
           sched' \in SchedType, HeldInv',
           gstate' \in [Group -> GroupState], OneActiveGroup',
           \A g \in Group : gstate[g] # "Unused" => gstate'[g] # "Unused",
           pstate' \in [Group -> Snapshot], pjob' \in [Group -> [Project -> Job \cup {NoJob}]],
           \A g \in Group, p \in Project :
              /\ pstate'[g][p] = "Absent" <=> pstate[g][p] = "Absent"
              /\ pstate'[g][p] = "Success" => <<g, p>> \in built
              /\ pstate'[g][p] = "InProgress" => pjob'[g][p] \in Created
    PROVE  IInv'
  <1> USE DEF IInv, workers
  <1>1. Created' = Created
    BY Zenon DEF Created
  <1>a. \A j \in Created : jobs[j].group \in Group /\ jobs[j].project \in Project
    BY CreatedRow, Zenon DEF Row
  <1>d. \A p \in Project : Deps[p] \subseteq Project
    BY ProjectAssumption, Zenon
  <1>2. TypeOK'
    BY <1>1, Zenon DEF TypeOK, SchedType
  <1>3. JobInv'
    BY <1>1, Zenon DEF JobInv
  <1>4. BuildsAfterDeps'
    BY <1>1, <1>a, <1>d, Zenon DEF BuildsAfterDeps
  <1>5. BuiltInv'
    BY <1>1, Zenon DEF BuiltInv, HeldInv
  <1>6. UsedInv'
    <2>1. \A h \in Handler : handler'[h].op = "cancel" => gstate'[handler'[h].group] # "Unused"
      BY RequestType, Zenon DEF UsedInv
    <2>2. \A j \in Created' : gstate'[jobs'[j].group] # "Unused" /\ pstate'[jobs'[j].group][jobs'[j].project] # "Absent"
      BY <1>1, <1>a, Zenon DEF UsedInv
    <2> QED
      BY <2>1, <2>2, Zenon DEF UsedInv, HeldInv
  <1>7. GroupInv'
    BY Zenon DEF GroupInv, HeldInv
  <1> QED
    BY <1>2, <1>3, <1>4, <1>5, <1>6, <1>7, Zenon DEF HeldInv

LEMMA PromoteKeeps ==
    ASSUME IInv, Promote
    PROVE  IInv'
  <1> USE DEF IInv
  <1>1. sched \in SchedType /\ sched.at = "promote" /\ sched.group \in Group
    BY Zenon DEF TypeOK, SchedType, Promote, SchedInv
  <1>2. UNCHANGED <<root, pstate, pjob, jobs, workers, handler, aborted, faults>>
    BY DEF Promote
  <1>3. sched' = [sched EXCEPT !.at = "check", !.group = NoGroup]
    BY DEF Promote
  <1>4. sched' \in SchedType
    BY <1>1, <1>3, Zenon DEF SchedType, At
  <1>5. /\ sched'.at = "check" /\ sched'.queue = sched.queue /\ sched'.todo = sched.todo /\ sched'.job = sched.job
    BY <1>1, <1>3 DEF SchedType
  <1>6. gstate' \in [Group -> GroupState]
        /\ \A g \in Group : gstate'[g] = IF g = sched.group THEN "Pending" ELSE gstate[g]
    BY <1>1, Zenon DEF Promote, TypeOK, GroupState
  <1>7. OneActiveGroup'
    BY <1>1, <1>2, <1>6, ZenonT(20) DEF GroupInv, OneActiveGroup, Active
  <1>8. SchedInv' /\ PlanInv'
    BY <1>2, <1>5, Zenon DEF SchedInv, PlanInv, Created
  <1>9. sched.queue \subseteq Group
    BY <1>1, Zenon DEF SchedType
  <1>10. HeldInv'
    BY <1>2, <1>5, <1>6, <1>8, <1>9, Zenon DEF HeldInv, workers, UsedInv, BuiltInv
  <1>11. \A g \in Group, p \in Project :
              /\ pstate[g][p] = "Success" => <<g, p>> \in built
              /\ pstate[g][p] = "InProgress" => pjob[g][p] \in Created
    BY Zenon DEF BuiltInv, JobInv
  <1> QED
    BY <1>2, <1>4, <1>6, <1>7, <1>10, <1>11, WriteKeeps, Zenon DEF TypeOK

LEMMA WriteGroupKeeps ==
    ASSUME IInv, WriteGroup
    PROVE  IInv'
  <1> USE DEF IInv
  <1>1. sched \in SchedType /\ sched.at = "write" /\ sched.group \in Group /\ sched.new \in GroupState \ {"Unused"}
    BY Zenon DEF TypeOK, SchedType, WriteGroup, SchedInv
  <1>2. UNCHANGED <<root, pstate, pjob, jobs, workers, handler, aborted, faults>>
    BY DEF WriteGroup
  <1>3. sched' = [sched EXCEPT !.at = Return, !.new = "Unused"] /\ Return \in {"work", "ack"}
          /\ (Return = "ack" => sched.job # NoJob)
    BY DEF WriteGroup, Return
  <1>4. sched' \in SchedType
    BY <1>1, <1>3, Zenon DEF SchedType, At, GroupState
  <1>5. /\ sched'.at \in {"work", "ack"} /\ (sched'.at = "ack" => sched.job # NoJob)
        /\ sched'.queue = sched.queue /\ sched'.todo = sched.todo /\ sched'.job = sched.job
    BY <1>1, <1>3 DEF SchedType
  <1>6. gstate' \in [Group -> GroupState]
        /\ \A g \in Group : gstate'[g] = IF g = sched.group THEN sched.new ELSE gstate[g]
    BY <1>1 DEF WriteGroup, TypeOK
  <1>7. OneActiveGroup'
    BY <1>1, <1>2, <1>6 DEF GroupInv, OneActiveGroup, Active
  <1>8. SchedInv' /\ PlanInv'
    BY <1>2, <1>5, Zenon DEF SchedInv, PlanInv, Created
  <1>9. sched.queue \subseteq Group
    BY <1>1, ZenonT(20) DEF SchedType
  <1>10. HeldInv'
    BY <1>1, <1>2, <1>5, <1>6, <1>8, <1>9, ZenonT(20) DEF HeldInv, workers, UsedInv, BuiltInv
  <1>11. \A g \in Group, p \in Project :
              /\ pstate[g][p] = "Success" => <<g, p>> \in built
              /\ pstate[g][p] = "InProgress" => pjob[g][p] \in Created
    BY Zenon DEF BuiltInv, JobInv
  <1> QED
    BY <1>1, <1>2, <1>4, <1>6, <1>7, <1>10, <1>11, WriteKeeps, Zenon DEF TypeOK

LEMMA TakeGroupKeeps ==
    ASSUME IInv, TakeGroup
    PROVE  IInv'
  <1> USE DEF IInv
  <1>0. PICK g \in PendingGroups :
          /\ gstate' = [gstate EXCEPT ![g] = "Dispatching"]
          /\ sched' = [sched EXCEPT !.at = "dispatch", !.job = NoJob, !.group = g,
                          !.snap = pstate[g], !.plan = Dispatchable(pstate[g])]
    BY Zenon DEF TakeGroup
  <1>1. sched \in SchedType /\ g \in Group /\ gstate[g] = "Pending" /\ pstate[g] \in Snapshot
    BY Zenon DEF TypeOK, SchedType, PendingGroups
  <1>2. UNCHANGED <<root, pstate, pjob, jobs, workers, handler, aborted, faults>>
    BY DEF TakeGroup
  <1>3. \A p \in Dispatchable(pstate[g]) : p \in Project /\ pstate[g][p] = "NotStarted"
            /\ \A d \in Deps[p] : d \in Project /\ pstate[g][d] \in {"Absent", "Success"}
    BY ProjectAssumption, Zenon DEF Dispatchable, DepsBuilt
  <1>4. sched' \in SchedType
    BY <1>0, <1>1, <1>3, Zenon DEF SchedType, At
  <1>5. /\ sched'.at = "dispatch" /\ sched'.job = NoJob /\ sched'.group = g /\ sched'.snap = pstate[g]
        /\ sched'.queue = sched.queue /\ sched'.todo = sched.todo /\ sched'.plan = Dispatchable(pstate[g])
    BY <1>0, <1>1 DEF SchedType
  <1>6. gstate' \in [Group -> GroupState]
        /\ \A o \in Group : gstate'[o] = IF o = g THEN "Dispatching" ELSE gstate[o]
    BY <1>0, <1>1, Zenon DEF TypeOK, GroupState
  <1>7. OneActiveGroup'
    BY <1>1, <1>2, <1>6 DEF GroupInv, OneActiveGroup, Active
  <1>8. SchedInv'
    BY <1>1, <1>2, <1>5, ZenonT(20) DEF SchedInv, Created
  <1>p. PlanInv'
    <2>1. \A p \in Dispatchable(pstate[g]) : \A d \in Deps[p] : pstate[g][d] # "Absent" => <<g, d>> \in built
      BY <1>1, <1>3, Zenon DEF BuiltInv
    <2> QED
      BY <1>2, <1>3, <1>5, <2>1, Zenon DEF PlanInv, workers
  <1>9. sched.queue \subseteq Group
    BY <1>1, Zenon DEF SchedType
  <1>10. HeldInv'
    BY <1>1, <1>2, <1>5, <1>6, <1>8, <1>p, <1>9 DEF HeldInv, workers, UsedInv, BuiltInv
  <1>11. \A o \in Group, p \in Project :
              /\ pstate[o][p] = "Success" => <<o, p>> \in built
              /\ pstate[o][p] = "InProgress" => pjob[o][p] \in Created
    BY Zenon DEF BuiltInv, JobInv
  <1> QED
    BY <1>1, <1>2, <1>4, <1>6, <1>7, <1>10, <1>11, WriteKeeps, ZenonT(20) DEF TypeOK

\* It gives projects of a group a state, and perhaps a job.
LEMMA ProjectStepKeeps ==
    ASSUME IInv, UNCHANGED <<root, jobs, workers, handler, aborted>>, faults' \in 0 .. MaxFault,
           NEW g \in Group, NEW ps \in SUBSET Project, NEW state \in ProjectState \ {"Absent"},
           SetProjects(g, ps, state),
           \A p \in ps : /\ pstate[g][p] # "Absent"
                         /\ state = "Success" => <<g, p>> \in built
                         /\ state = "InProgress" => pjob'[g][p] \in Created,
           pjob' \in [Group -> [Project -> Job \cup {NoJob}]],
           \A o \in Group, p \in Project : o # g \/ p \notin ps => pjob'[o][p] = pjob[o][p],
           gstate' \in [Group -> GroupState],
           \A o \in Group : gstate'[o] # gstate[o] => gstate'[o] = "Failed",
           sched' \in SchedType, SchedInv', PlanInv',
           sched'.todo \subseteq sched.todo, sched'.queue = sched.queue,
           sched'.at \notin {"promote", "write"},
           sched'.at \in {"dispatch", "link"} => sched.at \in {"dispatch", "link"} /\ sched'.group = sched.group
    PROVE  IInv'
  <1>0. TypeOK /\ state \in ProjectState
    BY Zenon DEF IInv
  <1>1. /\ pstate' \in [Group -> Snapshot]
        /\ \A o \in Group, p \in Project :
              pstate'[o][p] = IF o = g /\ p \in ps THEN state ELSE pstate[o][p]
    BY <1>0, SetProjectsType
  <1> USE DEF IInv
  <1>2. \A o \in Group, p \in Project :
              /\ pstate'[o][p] = "Absent" <=> pstate[o][p] = "Absent"
              /\ pstate'[o][p] = "Success" => <<o, p>> \in built
              /\ pstate'[o][p] = "InProgress" => pjob'[o][p] \in Created
    <2> TAKE o \in Group, p \in Project
    <2>1. CASE o = g /\ p \in ps
      BY <1>1, <2>1, ZenonT(20)
    <2>2. CASE ~(o = g /\ p \in ps)
      <3>1. pstate'[o][p] = pstate[o][p] /\ pjob'[o][p] = pjob[o][p]
        BY <1>1, <2>2, ZenonT(20)
      <3> QED
        BY <3>1, ZenonT(20) DEF BuiltInv, JobInv
    <2> QED
      BY <2>1, <2>2, Zenon
  <1>3. OneActiveGroup'
    BY ZenonT(20) DEF GroupInv, OneActiveGroup, Active
  <1>4. sched.queue \subseteq Group /\ (sched.at \in {"dispatch", "link"} => sched.group \in Group)
    BY Zenon DEF TypeOK, SchedInv
  <1>5. HeldInv'
    BY <1>4, Zenon DEF HeldInv, workers, UsedInv, BuiltInv
  <1> QED
    BY <1>1, <1>2, <1>3, <1>5, WriteKeeps, Zenon

LEMMA ApplyStatusKeeps ==
    ASSUME IInv, NEW s \in sched.todo, ApplyStatus(s)
    PROVE  IInv'
  <1> USE DEF IInv
  <1> DEFINE g == jobs[s.id].group
             q == jobs[s.id].project
  <1>1. s.id \in Created /\ s.id \in Job /\ s.state \in JobState /\ sched \in SchedType
    BY CreatedRow, ZenonT(20) DEF TypeOK, Status, SchedInv, SchedType
  <1>2. g \in Group /\ q \in Project /\ pstate[g] \in Snapshot /\ pstate[g][q] # "Absent"
    BY <1>1, CreatedRow, Zenon DEF Row, TypeOK, UsedInv
  <1>3. /\ SetProjects(g, {q}, ProjectStateOf(s.state))
        /\ pjob' = [pjob EXCEPT ![g][q] = s.id]
        /\ sched' = [sched EXCEPT !.at = AfterStatus(s.state), !.todo = sched.todo \ {s},
                           !.job = s.id, !.group = g, !.snap = pstate[g]]
        /\ UNCHANGED <<gstate, root, jobs, workers, handler, aborted, faults>>
    BY Zenon DEF ApplyStatus
  <1>4. s.state = "Complete" => <<g, q>> \in built
    BY Zenon DEF BuiltInv
  <1>5. AfterStatus(s.state) \in {"skip", "read", "ack"} /\ ProjectStateOf(s.state) \in ProjectState \ {"Absent"}
        /\ (ProjectStateOf(s.state) = "Success" => s.state = "Complete")
    BY <1>1, StateOfType, Zenon
  <1> HIDE DEF g, q
  <1>6. sched' \in SchedType
    BY <1>1, <1>2, <1>3, <1>5, Zenon DEF SchedType, At
  <1>7. /\ sched'.at \in {"skip", "read", "ack"} /\ sched'.todo \subseteq sched.todo /\ sched'.queue = sched.queue
        /\ sched'.job = s.id /\ sched'.group = g /\ sched'.snap = pstate[g]
    BY <1>1, <1>2, <1>3, <1>5, Zenon DEF SchedType
  <1>8. /\ pjob' \in [Group -> [Project -> Job \cup {NoJob}]] /\ pjob'[g][q] = s.id
        /\ \A o \in Group, p \in Project : o # g \/ p # q => pjob'[o][p] = pjob[o][p]
    BY <1>1, <1>2, <1>3, Zenon DEF TypeOK
  <1>9. SchedInv'
    <2>1. s.id # NoJob
      BY <1>1
    <2>2. Created' = Created
      <3>1. jobs' = jobs
        BY <1>3
      <3> QED
        BY <3>1, Zenon DEF Created
    <2> QED
      BY <1>1, <1>2, <1>7, <2>1, <2>2, Zenon DEF SchedInv
  <1>10. PlanInv'
    <2>1. \A o \in Group, p \in Project :
              pstate'[o][p] = IF o = g /\ p \in {q} THEN ProjectStateOf(s.state) ELSE pstate[o][p]
      BY <1>2, <1>3, <1>5, SetProjectsType
    <2>2. \A p \in Project : sched'.snap[p] = "NotStarted" => pstate'[sched'.group][p] # "Absent"
      BY <1>2, <1>5, <1>7, <2>1
    <2> QED
      BY <1>7, <2>2, Zenon DEF PlanInv
  <1>11. faults' \in 0 .. MaxFault /\ gstate' \in [Group -> GroupState]
    BY <1>3, Zenon DEF TypeOK
  <1> QED
    BY <1>1, <1>2, <1>3, <1>4, <1>5, <1>6, <1>7, <1>8, <1>9, <1>10, <1>11, ProjectStepKeeps, SMTT(20)

LEMMA SkipFailedKeeps ==
    ASSUME IInv, SkipFailed
    PROVE  IInv'
  <1> USE DEF IInv
  <1> DEFINE ps == SkipProjects(sched.snap, jobs[sched.job].project)
             g == sched.group
  <1>1. sched \in SchedType /\ sched.at = "skip" /\ g \in Group /\ NoSnapshot \in Snapshot
    BY Zenon DEF TypeOK, SchedType, SkipFailed, SchedInv, NoSnapshot, Snapshot, ProjectState
  <1>2. ps \subseteq {p \in Project : sched.snap[p] = "NotStarted"}
    BY SkipType, Zenon
  <1>3. /\ SetProjects(g, ps, "Skipped")
        /\ sched' = [sched EXCEPT !.at = "read", !.snap = NoSnapshot]
        /\ UNCHANGED <<gstate, root, pjob, jobs, workers, handler, aborted, faults>>
    BY DEF SkipFailed
  <1> HIDE DEF ps
  <1>4. \A p \in ps : pstate[g][p] # "Absent"
    BY <1>1, <1>2, Zenon DEF PlanInv
  <1>6. sched' \in SchedType
    BY <1>1, <1>3, Zenon DEF SchedType, At
  <1>7. /\ sched'.at = "read" /\ sched'.todo = sched.todo /\ sched'.queue = sched.queue
        /\ sched'.job = sched.job /\ sched'.group = g
    BY <1>1, <1>3 DEF SchedType
  <1>9. SchedInv' /\ PlanInv'
    BY <1>1, <1>3, <1>7 DEF SchedInv, PlanInv, Created
  <1>11. /\ faults' \in 0 .. MaxFault /\ gstate' \in [Group -> GroupState]
         /\ pjob' \in [Group -> [Project -> Job \cup {NoJob}]] /\ ps \in SUBSET Project
         /\ "Skipped" \in ProjectState \ {"Absent"}
    BY <1>2, <1>3, Zenon DEF TypeOK, ProjectState
  <1> QED
    BY <1>1, <1>3, <1>4, <1>6, <1>7, <1>9, <1>11, ProjectStepKeeps

\* What is left to dispatch stays in order while projects get a state.
LEMMA DispatchKeepsPlan ==
    ASSUME IInv, UNCHANGED workers, NEW g \in Group, g = sched.group, sched.at \in {"dispatch", "link"},
           NEW ps \in SUBSET Project, NEW state \in ProjectState \ {"Absent"}, SetProjects(g, ps, state),
           \A p \in ps : pstate[g][p] # "Absent",
           sched'.at = "dispatch", sched'.group = sched.group, sched'.snap = sched.snap,
           sched'.plan \subseteq sched.plan
    PROVE  PlanInv'
  <1> USE DEF IInv
  <1>1. \A p \in Project : pstate'[g][p] = "Absent" <=> pstate[g][p] = "Absent"
    BY SetProjectsType
  <1>2. sched.plan \subseteq Project /\ \A p \in Project : Deps[p] \subseteq Project
    BY ProjectAssumption, Zenon DEF TypeOK
  <1> QED
    BY <1>1, <1>2, Zenon DEF PlanInv, workers

LEMMA LinkJobKeeps ==
    ASSUME IInv, LinkJob
    PROVE  IInv'
  <1> USE DEF IInv
  <1> DEFINE g == sched.group
             q == jobs[sched.job].project
  <1>1. sched \in SchedType /\ sched.at = "link" /\ g \in Group /\ sched.job \in Created /\ sched.job \in Job
    BY CreatedRow, Zenon DEF TypeOK, SchedType, LinkJob, SchedInv
  <1>2. q \in Project
    BY <1>1, CreatedRow, Zenon DEF Row
  <1>3. /\ SetProjects(g, {q}, "InProgress")
        /\ pjob' = [pjob EXCEPT ![g][q] = sched.job]
        /\ sched' = [sched EXCEPT !.at = "dispatch", !.job = NoJob]
        /\ UNCHANGED <<gstate, root, jobs, workers, handler, aborted, faults>>
    BY DEF LinkJob
  <1>4. pstate[g][q] # "Absent"
    BY <1>1, Zenon DEF SchedInv, UsedInv
  <1> HIDE DEF q
  <1>6. sched' \in SchedType
    BY <1>1, <1>3, Zenon DEF SchedType, At
  <1>7. /\ sched'.at = "dispatch" /\ sched'.todo = sched.todo /\ sched'.queue = sched.queue
        /\ sched'.job = NoJob /\ sched'.group = g /\ sched'.snap = sched.snap /\ sched'.plan = sched.plan
    BY <1>1, <1>3, Zenon DEF SchedType
  <1>8. /\ pjob' \in [Group -> [Project -> Job \cup {NoJob}]] /\ pjob'[g][q] = sched.job
        /\ \A o \in Group, p \in Project : o # g \/ p # q => pjob'[o][p] = pjob[o][p]
    BY <1>1, <1>2, <1>3, Zenon DEF TypeOK
  <1>9. SchedInv'
    BY <1>1, <1>3, <1>7, Zenon DEF SchedInv, Created
  <1>11. faults' \in 0 .. MaxFault /\ gstate' \in [Group -> GroupState] /\ "InProgress" \in ProjectState \ {"Absent"}
    BY <1>3, Zenon DEF TypeOK, ProjectState
  <1>10. PlanInv'
    BY <1>1, <1>2, <1>3, <1>4, <1>7, <1>11, DispatchKeepsPlan
  <1> QED
    BY <1>1, <1>2, <1>3, <1>4, <1>6, <1>7, <1>8, <1>9, <1>10, <1>11, ProjectStepKeeps

LEMMA SkipUnconnectedKeeps ==
    ASSUME IInv, NEW q \in Project, SkipUnconnected(q)
    PROVE  IInv'
  <1> USE DEF IInv
  <1> DEFINE ps == {q} \cup SkipProjects(sched.snap, q)
             g == sched.group
  <1>1. sched \in SchedType /\ sched.at = "dispatch" /\ g \in Group /\ q \in sched.plan
    BY Zenon DEF TypeOK, SchedType, SkipUnconnected, SchedInv, NextOf
  <1>2. ps \subseteq {q} \cup {p \in Project : sched.snap[p] = "NotStarted"}
    BY SkipType, Zenon
  <1>3. /\ SetProjects(g, ps, "Skipped")
        /\ sched' = [sched EXCEPT !.plan = sched.plan \ ps]
        /\ UNCHANGED <<gstate, root, pjob, jobs, workers, handler, aborted, faults>>
    BY DEF SkipUnconnected
  <1> HIDE DEF ps
  <1>4. \A p \in ps : pstate[g][p] # "Absent"
    BY <1>1, <1>2, Zenon DEF PlanInv
  <1>6. sched' \in SchedType
    BY <1>1, <1>3 DEF SchedType
  <1>7. /\ sched'.at = "dispatch" /\ sched'.todo = sched.todo /\ sched'.queue = sched.queue
        /\ sched'.job = sched.job /\ sched'.group = g /\ sched'.snap = sched.snap
        /\ sched'.plan \subseteq sched.plan
    BY <1>1, <1>3 DEF SchedType
  <1>9. SchedInv'
    BY <1>1, <1>3, <1>7, Zenon DEF SchedInv, Created
  <1>11. /\ faults' \in 0 .. MaxFault /\ gstate' \in [Group -> GroupState]
         /\ pjob' \in [Group -> [Project -> Job \cup {NoJob}]] /\ ps \in SUBSET Project
         /\ "Skipped" \in ProjectState \ {"Absent"}
    BY <1>2, <1>3, Zenon DEF TypeOK, ProjectState
  <1>10. PlanInv'
    BY <1>1, <1>3, <1>4, <1>7, <1>11, DispatchKeepsPlan, Zenon
  <1>12. \A p \in ps : /\ pstate[g][p] # "Absent"
                       /\ "Skipped" = "Success" => <<g, p>> \in built
                       /\ "Skipped" = "InProgress" => pjob'[g][p] \in Created
    BY <1>4, Zenon
  <1>13. /\ \A o \in Group, p \in Project : o # g \/ p \notin ps => pjob'[o][p] = pjob[o][p]
         /\ \A o \in Group : gstate'[o] # gstate[o] => gstate'[o] = "Failed"
         /\ UNCHANGED <<root, jobs, workers, handler, aborted>>
         /\ sched'.at \notin {"promote", "write"} /\ sched'.todo \subseteq sched.todo
    BY <1>3, <1>7
  <1>14. /\ SetProjects(g, ps, "Skipped") /\ g \in Group /\ sched'.queue = sched.queue
         /\ sched.at \in {"dispatch", "link"} /\ sched'.group = sched.group
    BY <1>1, <1>3, <1>7
  <1> HIDE DEF g, IInv
  <1> QED
    BY <1>6, <1>9, <1>10, <1>11, <1>12, <1>13, <1>14, ProjectStepKeeps, SMTT(40)

LEMMA CreateFailsKeeps ==
    ASSUME IInv, NEW q \in Project, CreateFails(q)
    PROVE  IInv'
  <1> USE DEF IInv
  <1> DEFINE g == sched.group
  <1>1. sched \in SchedType /\ sched.at = "dispatch" /\ g \in Group /\ q \in sched.plan
    BY Zenon DEF TypeOK, SchedType, CreateFails, SchedInv, NextOf
  <1>3. /\ SetProjects(g, {q}, "Failure")
        /\ gstate' = [gstate EXCEPT ![g] = "Failed"]
        /\ sched' = [sched EXCEPT !.at = "read", !.plan = {}]
        /\ UNCHANGED <<root, pjob, jobs, workers, handler, aborted>>
    BY DEF CreateFails
  <1>4. pstate[g][q] # "Absent"
    BY <1>1, Zenon DEF PlanInv
  <1>5. faults' \in 0 .. MaxFault
    BY BoundsAssumption DEF CreateFails, Budget, TypeOK
  <1>6. sched' \in SchedType
    BY <1>1, <1>3, Zenon DEF SchedType, At
  <1>7. /\ sched'.at = "read" /\ sched'.todo = sched.todo /\ sched'.queue = sched.queue
        /\ sched'.job = sched.job /\ sched'.group = g
    BY <1>1, <1>3 DEF SchedType
  <1>8. gstate' \in [Group -> GroupState] /\ \A o \in Group : gstate'[o] # gstate[o] => gstate'[o] = "Failed"
    BY <1>1, <1>3, Zenon DEF TypeOK, GroupState
  <1>9. SchedInv' /\ PlanInv'
    BY <1>1, <1>3, <1>7, Zenon DEF SchedInv, PlanInv, Created
  <1>11. /\ pjob' \in [Group -> [Project -> Job \cup {NoJob}]]
         /\ "Failure" \in ProjectState \ {"Absent"}
    BY <1>3, Zenon DEF TypeOK, ProjectState
  <1> QED
    BY <1>1, <1>3, <1>4, <1>5, <1>6, <1>7, <1>8, <1>9, <1>11, ProjectStepKeeps

\* It writes to the table of jobs.
LEMMA JobStepKeeps ==
    ASSUME IInv, UNCHANGED <<gstate, root, pstate, pjob, workers, handler, aborted, faults>>,
           sched' \in SchedType, SchedInv', PlanInv',
           sched'.todo = sched.todo, sched'.queue = sched.queue,
           sched'.at \notin {"promote", "write"},
           sched'.at \in {"dispatch", "link"} => sched.at \in {"dispatch", "link"} /\ sched'.group = sched.group,
           jobs' \in [Job -> Row \cup {Unused}], Created \subseteq Created',
           \A i \in Created : /\ jobs'[i].group = jobs[i].group /\ jobs'[i].project = jobs[i].project
                             /\ jobs'[i].state = jobs[i].state,
           \A i \in Created' \ Created :
              /\ jobs'[i].state # "Complete"
              /\ gstate[jobs'[i].group] # "Unused" /\ pstate[jobs'[i].group][jobs'[i].project] # "Absent"
              /\ \A d \in Deps[jobs'[i].project] :
                    pstate[jobs'[i].group][d] # "Absent" => <<jobs'[i].group, d>> \in built
    PROVE  IInv'
  <1> USE DEF IInv, workers
  <1>1. handler' \in [Handler -> {Idle} \cup [op : {"create"}, root : Root]
                           \cup [op : {"cancel", "cancelJobs"}, group : Group, jobs : SUBSET Created']]
    BY ZenonT(20) DEF TypeOK
  <1>2. TypeOK'
    BY <1>1, ZenonT(20) DEF TypeOK, SchedType
  <1>3. JobInv'
    BY Zenon DEF JobInv
  <1>4. BuildsAfterDeps'
    BY ZenonT(20) DEF BuildsAfterDeps
  <1>5. BuiltInv'
    BY ZenonT(20) DEF BuiltInv, SchedInv
  <1>6. UsedInv'
    BY Zenon DEF UsedInv
  <1>7. GroupInv'
    BY Zenon DEF GroupInv, OneActiveGroup, Active
  <1> QED
    BY <1>2, <1>3, <1>4, <1>5, <1>6, <1>7, ZenonT(20)

LEMMA SetJobSyncKeeps ==
    ASSUME IInv, SetJobSync
    PROVE  IInv'
  <1> USE DEF IInv
  <1> DEFINE j == sched.job
             row == [state |-> jobs[j].state, group |-> jobs[j].group, project |-> jobs[j].project,
                     synced |-> TRUE, count |-> jobs[j].count - 1]
  <1>1. sched \in SchedType /\ sched.at = "ack" /\ j \in Created /\ j \in Job /\ jobs[j] \in Row
    BY CreatedRow, ZenonT(20) DEF TypeOK, SchedType, SetJobSync, SchedInv
  <1>2. row \in Row /\ row # Unused
    BY <1>1 DEF Row, Unused, JobState
  <1>3. /\ jobs' = [jobs EXCEPT ![j] = row]
        /\ sched' = [sched EXCEPT !.at = "sync", !.job = NoJob, !.group = NoGroup, !.snap = NoSnapshot]
        /\ UNCHANGED <<gstate, root, pstate, pjob, workers, handler, aborted, faults>>
    BY DEF SetJobSync
  <1>4. jobs' \in [Job -> Row \cup {Unused}] /\ jobs'[j] = row /\ \A i \in Job \ {j} : jobs'[i] = jobs[i]
    BY <1>1, <1>2, <1>3, Zenon DEF TypeOK
  <1>5. row.state = jobs[j].state /\ row.group = jobs[j].group /\ row.project = jobs[j].project
    BY Zenon
  <1> HIDE DEF row, j
  <1>6. Created' = Created
    BY <1>1, <1>2, <1>4, Zenon DEF Created
  <1>7. \A i \in Created : jobs'[i].group = jobs[i].group /\ jobs'[i].project = jobs[i].project
                             /\ jobs'[i].state = jobs[i].state
    BY <1>1, <1>4, <1>5, Zenon DEF Created
  <1>8. sched' \in SchedType
    BY <1>1, <1>3, Zenon DEF SchedType, At, NoSnapshot, Snapshot, ProjectState
  <1>9. sched'.at = "sync" /\ sched'.job = NoJob /\ sched'.todo = sched.todo /\ sched'.queue = sched.queue
    BY <1>1, <1>3, Zenon DEF SchedType
  <1>10. SchedInv' /\ PlanInv'
    BY <1>6, <1>9, Zenon DEF SchedInv, PlanInv
  <1> QED
    BY <1>3, <1>4, <1>6, <1>7, <1>8, <1>9, <1>10, JobStepKeeps, Zenon

LEMMA CreateJobKeeps ==
    ASSUME IInv, NEW p \in Project, NEW j \in Job, CreateJob(p, j)
    PROVE  IInv'
  <1> USE DEF IInv
  <1> DEFINE g == sched.group
             row == [state |-> "Pending", group |-> g, project |-> p, synced |-> FALSE, count |-> 0]
  <1>1. sched \in SchedType /\ sched.at = "dispatch" /\ g \in Group /\ p \in sched.plan /\ j \notin Created
    BY Zenon DEF TypeOK, SchedType, CreateJob, SchedInv, NextOf, Created
  <1>2. row \in Row /\ row # Unused
    BY <1>1 DEF Row, Unused, JobState
  <1>3. /\ jobs' = [jobs EXCEPT ![j] = row]
        /\ sched' = [sched EXCEPT !.at = "link", !.job = j, !.plan = sched.plan \ {p}]
        /\ UNCHANGED <<gstate, root, pstate, pjob, workers, handler, aborted, faults>>
    BY DEF CreateJob
  <1>4. jobs' \in [Job -> Row \cup {Unused}] /\ jobs'[j] = row /\ \A i \in Job \ {j} : jobs'[i] = jobs[i]
    BY <1>1, <1>2, <1>3 DEF TypeOK
  <1>5. row.state = "Pending" /\ row.group = g /\ row.project = p
    BY Zenon
  <1> HIDE DEF row
  <1>6. Created' = Created \cup {j}
    BY <1>1, <1>2, <1>4, Zenon DEF Created
  <1>7. \A i \in Created : jobs'[i] = jobs[i]
    BY <1>1, <1>4, Zenon DEF Created
  <1>8. sched' \in SchedType
    BY <1>1, <1>3, Zenon DEF SchedType, At
  <1>9. /\ sched'.at = "link" /\ sched'.job = j /\ sched'.todo = sched.todo /\ sched'.queue = sched.queue
        /\ sched'.group = g /\ sched'.snap = sched.snap /\ sched'.plan \subseteq sched.plan
    BY <1>1, <1>3, Zenon DEF SchedType
  <1>10. SchedInv'
    <2>1. j # NoJob /\ jobs'[j].group = g
      BY <1>4, <1>5
    <2>2. \A s \in sched.todo : s.id \in Created
      BY Zenon DEF SchedInv
    <2> QED
      BY <1>1, <1>6, <1>9, <2>1, <2>2, Zenon DEF SchedInv
  <1>11. PlanInv'
    BY <1>1, <1>3, <1>9 DEF PlanInv, workers
  <1>12. /\ gstate[g] # "Unused" /\ pstate[g][p] # "Absent"
         /\ \A d \in Deps[p] : pstate[g][d] # "Absent" => <<g, d>> \in built
    BY <1>1, Zenon DEF UsedInv, PlanInv
  <1>13. \A i \in Created' \ Created : jobs'[i].state # "Complete" /\ jobs'[i].group = g /\ jobs'[i].project = p
    BY <1>4, <1>5, <1>6, ZenonT(20)
  <1> HIDE DEF g
  <1> QED
    BY <1>1, <1>3, <1>4, <1>6, <1>7, <1>8, <1>9, <1>10, <1>11, <1>12, <1>13, JobStepKeeps, Zenon DEF g

LEMMA SchedulerKeeps ==
    ASSUME IInv, SchedulerStep
    PROVE  IInv'
  <1>1. CASE SyncJobs \/ ReadGroup \/ WriteGroup \/ Promote \/ TakeGroup
    BY <1>1, SyncJobsKeeps, ReadGroupKeeps, WriteGroupKeeps, PromoteKeeps, TakeGroupKeeps, Zenon
  <1>2. CASE SkipFailed \/ SetJobSync \/ LinkJob
    BY <1>2, SkipFailedKeeps, SetJobSyncKeeps, LinkJobKeeps, Zenon
  <1>3. CASE \E s \in sched.todo : ApplyStatus(s)
    BY <1>3, ApplyStatusKeeps, Zenon
  <1>4. CASE \E p \in Project : SkipUnconnected(p) \/ CreateFails(p) \/ \E j \in Job : CreateJob(p, j)
    BY <1>4, SkipUnconnectedKeeps, CreateFailsKeeps, CreateJobKeeps, Zenon
  <1>5. CASE ReadQueue \/ NothingPending \/ Dispatched \/ \E g \in Group : CheckQueued(g)
    BY <1>5, QueueKeeps, Zenon
  <1> QED
    BY <1>1, <1>2, <1>3, <1>4, <1>5, Zenon DEF SchedulerStep

-----------------------------------------------------------------------------
(* The invariant and what follows from it. *)

LEMMA InitInv == Init => IInv
  <1> SUFFICES ASSUME Init PROVE IInv
    BY Zenon
  <1> USE DEF Init, Waiting, NoSnapshot
  <1>1. Created = {}
    BY Zenon DEF Created
  <1>2. TypeOK
    BY <1>1, BoundsAssumption, SMTT(20) DEF TypeOK, GroupState, Snapshot, ProjectState, WorkState, At, Idle
  <1>3. SchedInv /\ PlanInv /\ BuildsAfterDeps
    BY <1>1, Zenon DEF SchedInv, PlanInv, BuildsAfterDeps
  <1>4. JobInv /\ BuiltInv
    BY <1>1, ZenonT(20) DEF JobInv, BuiltInv
  <1>5. UsedInv /\ GroupInv
    BY <1>1, ZenonT(20) DEF UsedInv, GroupInv, OneActiveGroup, Active, Idle
  <1> QED
    BY <1>2, <1>3, <1>4, <1>5, Zenon DEF IInv

LEMMA NextInv == IInv /\ [Next]_vars => IInv'
  <1> SUFFICES ASSUME IInv, [Next]_vars PROVE IInv'
    BY Zenon
  <1>1. CASE SchedulerStep
    BY <1>1, SchedulerKeeps
  <1>2. CASE HandlerStep
    BY <1>2, HandlerKeeps, Zenon
  <1>3. CASE Restart
    BY <1>3, RestartKeeps, Zenon
  <1>4. CASE \E j \in Job : WorkerStep(j) \/ WorkerFault(j)
    BY <1>4, WorkerKeeps, Zenon
  <1>5. CASE UNCHANGED vars
    BY <1>5, ZenonT(40) DEF vars, tables, workers, IInv, TypeOK, SchedInv, JobInv, UsedInv, GroupInv, BuiltInv,
        PlanInv, BuildsAfterDeps, OneActiveGroup, Active, Created
  <1> QED
    BY <1>1, <1>2, <1>3, <1>4, <1>5, Zenon DEF Next

\* For any number of projects, groups, jobs, threads and faults the tables hold what the
\* code can write (update_job, set_job_group_job_state, set_job_group_state).
THEOREM TypeCorrect == Spec => []TypeOK
  <1>1. IInv => TypeOK
    BY Zenon DEF IInv
  <1> QED
    BY <1>1, InitInv, NextInv, PTL DEF Spec

\* A project never has two active groups: the scheduler thread alone makes a group
\* active, and what it checked still holds when it writes (process_queue,
\* update_group_state).
THEOREM OneActiveGroupAlways == Spec => []OneActiveGroup
  <1>1. IInv => OneActiveGroup
    BY Zenon DEF IInv, GroupInv
  <1> QED
    BY <1>1, InitInv, NextInv, PTL DEF Spec

\* No job is created before a complete build of everything in its group that it depends
\* on was reported, although the plan is made from a group that changes afterwards
\* (dispatchable_projects, dispatch_group).
THEOREM BuildsFollowDeps == Spec => []BuildsAfterDeps
  <1>1. IInv => BuildsAfterDeps
    BY Zenon DEF IInv
  <1> QED
    BY <1>1, InitInv, NextInv, PTL DEF Spec
=============================================================================
