------------------------- MODULE BuildOrderProofs -------------------------
(***************************************************************************)
(* For any projects, requests, threads and faults the scheduler does what  *)
(* BuildOrder promises.  A row of jobs makes a build started, a row of     *)
(* group_projects makes it wanted; CreateJob is Begin, InsertGroup is Ask, *)
(* a Complete status is End, and every other step is a stutter.            *)
(*                                                                         *)
(* The second half shows that a project of a group is built again only     *)
(* after a worker rejected a job of it.                                    *)
(***************************************************************************)
EXTENDS SchedulerProofs, SchedulerRefinement

\* A group that was not created has no projects.
FreshInv == \A g \in Group : gstate[g] = "Unused" => \A p \in Project : pstate[g][p] = "Absent"

AbsentKept == \A g \in Group, p \in Project : pstate'[g][p] = "Absent" <=> pstate[g][p] = "Absent"
UsedKept == \A g \in Group : gstate'[g] = "Unused" => gstate[g] = "Unused"
RowsSame ==
    /\ Created' = Created
    /\ \A j \in Created : jobs'[j].group = jobs[j].group /\ jobs'[j].project = jobs[j].project

\* Neither what is wanted nor what is started changes.
Quiet == AbsentKept /\ UsedKept /\ RowsSame

LEMMA QuietTables ==
    ASSUME UNCHANGED <<gstate, pstate, jobs>>
    PROVE  Quiet
  BY Zenon DEF Quiet, AbsentKept, UsedKept, RowsSame, Created

LEMMA QuietRows ==
    ASSUME UNCHANGED <<gstate, pstate>>, RowsKept
    PROVE  Quiet
  BY DEF Quiet, AbsentKept, UsedKept, RowsSame, RowsKept

LEMMA QuietGroup ==
    ASSUME IInv, UNCHANGED <<pstate, jobs>>,
           NEW g \in Group, NEW state \in GroupState \ {"Unused"}, gstate' = [gstate EXCEPT ![g] = state]
    PROVE  Quiet
  <1>1. UsedKept
    BY DEF UsedKept, IInv, TypeOK
  <1> QED
    BY <1>1 DEF Quiet, AbsentKept, RowsSame, Created

LEMMA QuietProjects ==
    ASSUME IInv, UNCHANGED jobs, UsedKept,
           NEW g \in Group, NEW ps, NEW state \in ProjectState \ {"Absent"}, SetProjects(g, ps, state),
           \A p \in Project : p \in ps => pstate[g][p] # "Absent"
    PROVE  Quiet
  <1>1. \A o \in Group, p \in Project :
            pstate'[o][p] = IF o = g /\ p \in ps THEN state ELSE pstate[o][p]
    BY SetProjectsType DEF IInv
  <1>2. AbsentKept
    BY <1>1 DEF AbsentKept
  <1> QED
    BY <1>2 DEF Quiet, RowsSame, Created

-----------------------------------------------------------------------------
(* The steps of the scheduler thread. *)

LEMMA SchedulerQuiet ==
    ASSUME IInv, SchedulerStep, ~(\E p \in Project, j \in Job : CreateJob(p, j))
    PROVE  Quiet /\ built' = built
  <1> USE DEF IInv
  <1>0. built' = built
    BY ZenonT(30) DEF SchedulerStep, SyncJobs, SkipFailed, ReadGroup, WriteGroup, SetJobSync, ReadQueue, Promote,
        TakeGroup, NothingPending, LinkJob, Dispatched, ApplyStatus, CheckQueued, SkipUnconnected,
        CreateFails, workers
  <1>1. CASE SyncJobs \/ ReadGroup \/ ReadQueue \/ NothingPending \/ Dispatched \/ \E g \in Group : CheckQueued(g)
    BY Zenon, <1>0, <1>1, QuietTables DEF SyncJobs, ReadGroup, ReadQueue, NothingPending, Dispatched, CheckQueued, tables
  <1>2. CASE WriteGroup
    <2>1. sched.group \in Group /\ sched.new \in GroupState \ {"Unused"}
      BY <1>2, Zenon DEF WriteGroup, SchedInv, TypeOK
    <2> QED
      BY Zenon, <1>0, <1>2, <2>1, QuietGroup DEF WriteGroup
  <1>3. CASE Promote
    BY Zenon, <1>0, <1>3, QuietGroup DEF Promote, SchedInv, GroupState
  <1>4. CASE TakeGroup
    BY Zenon, <1>0, <1>4, QuietGroup DEF TakeGroup, PendingGroups, GroupState
  <1>5. CASE SetJobSync
    <2> DEFINE r == [state |-> jobs[sched.job].state, group |-> jobs[sched.job].group,
                     project |-> jobs[sched.job].project, synced |-> TRUE, count |-> jobs[sched.job].count - 1]
    <2>1. sched.job \in Created /\ sched.job \in Job /\ jobs[sched.job] \in Row
      BY <1>5, CreatedRow, Zenon DEF SetJobSync, SchedInv
    <2>2. r # Unused /\ r.group = jobs[sched.job].group /\ r.project = jobs[sched.job].project
      BY <2>1, Zenon DEF Unused, Row, JobState
    <2>3. jobs' = [jobs EXCEPT ![sched.job] = r] /\ UNCHANGED <<gstate, pstate>>
      BY <1>5 DEF SetJobSync
    <2> HIDE DEF r
    <2>4. jobs'[sched.job] = r /\ \A j \in Job \ {sched.job} : jobs'[j] = jobs[j]
      BY <2>1, <2>3 DEF TypeOK
    <2>5. Created' = Created
      BY <2>1, <2>2, <2>4, Zenon DEF Created
    <2>6. \A j \in Created : jobs'[j].group = jobs[j].group /\ jobs'[j].project = jobs[j].project
      BY <2>2, <2>4 DEF Created
    <2> QED
      BY <1>0, <2>3, <2>5, <2>6 DEF Quiet, AbsentKept, UsedKept, RowsSame
  <1>6. ASSUME NEW s \in sched.todo, ApplyStatus(s) PROVE Quiet
    <2>1. s.id \in Created /\ s.state \in JobState
      BY <1>6, Zenon DEF SchedInv, TypeOK, Status
    <2>2. jobs[s.id].group \in Group /\ pstate[jobs[s.id].group][jobs[s.id].project] # "Absent"
      BY <2>1, CreatedRow, Zenon DEF UsedInv, Row
    <2>3. UsedKept
      BY <1>6, Zenon DEF ApplyStatus, UsedKept
    <2>4. ProjectStateOf(s.state) \in ProjectState \ {"Absent"}
      BY <2>1, StateOfType
    <2> QED
      BY <1>6, <2>2, <2>3, <2>4, QuietProjects DEF ApplyStatus
  <1>7. CASE SkipFailed
    <2>1. \A p \in Project : p \in SkipProjects(sched.snap, jobs[sched.job].project) => pstate[sched.group][p] # "Absent"
      BY <1>7, SkipType, Zenon DEF SkipFailed, PlanInv
    <2>2. UsedKept /\ UNCHANGED jobs /\ sched.group \in Group
      BY <1>7, Zenon DEF SkipFailed, UsedKept, SchedInv
    <2>3. SetProjects(sched.group, SkipProjects(sched.snap, jobs[sched.job].project), "Skipped")
      BY <1>7 DEF SkipFailed
    <2>4. "Skipped" \in ProjectState \ {"Absent"}
      BY DEF ProjectState
    <2> QED
      BY <1>0, <2>1, <2>2, <2>3, <2>4, QuietProjects, Zenon
  <1>8. CASE LinkJob
    <2>1. pstate[sched.group][jobs[sched.job].project] # "Absent" /\ sched.group \in Group
      BY <1>8, Zenon DEF LinkJob, SchedInv, UsedInv
    <2>2. UsedKept /\ UNCHANGED jobs
      BY <1>8, Zenon DEF LinkJob, UsedKept
    <2>3. SetProjects(sched.group, {jobs[sched.job].project}, "InProgress")
      BY <1>8 DEF LinkJob
    <2>4. "InProgress" \in ProjectState \ {"Absent"}
      BY DEF ProjectState
    <2> QED
      BY <1>0, <2>1, <2>2, <2>3, <2>4, QuietProjects
  <1>9. ASSUME NEW p \in Project, SkipUnconnected(p) PROVE Quiet
    <2>1. \A q \in Project : q \in {p} \cup SkipProjects(sched.snap, p) => pstate[sched.group][q] # "Absent"
      BY <1>9, SkipType, Zenon DEF SkipUnconnected, PlanInv, NextOf
    <2>2. UsedKept /\ UNCHANGED jobs /\ sched.group \in Group
      BY <1>9, Zenon DEF SkipUnconnected, UsedKept, SchedInv
    <2>3. SetProjects(sched.group, {p} \cup SkipProjects(sched.snap, p), "Skipped")
      BY <1>9 DEF SkipUnconnected
    <2>4. "Skipped" \in ProjectState \ {"Absent"}
      BY DEF ProjectState
    <2> QED
      BY <2>1, <2>2, <2>3, <2>4, QuietProjects
  <1>10. ASSUME NEW p \in Project, CreateFails(p) PROVE Quiet
    <2>1. pstate[sched.group][p] # "Absent" /\ sched.group \in Group
      BY <1>10, Zenon DEF CreateFails, PlanInv, NextOf, SchedInv
    <2>2. UsedKept
      BY <1>10, <2>1, Zenon DEF CreateFails, UsedKept, TypeOK
    <2> QED
      BY <1>10, <2>1, <2>2, QuietProjects DEF CreateFails, ProjectState
  <1> QED
    BY ZenonT(20), <1>0, <1>1, <1>2, <1>3, <1>4, <1>5, <1>6, <1>7, <1>8, <1>9, <1>10 DEF SchedulerStep

-----------------------------------------------------------------------------
(* The steps of the request handlers, the workers and a restart. *)

LEMMA HandlerQuiet ==
    ASSUME IInv, HandlerStep,
           ~(\E h \in Handler, g \in Group, list \in SUBSET Project : InsertGroup(h, g, list))
    PROVE  Quiet /\ built' = built
  <1> USE DEF IInv
  <1>0. built' = built
    BY Zenon DEF HandlerStep, LookForQueued, ReadToCancel, CancelGroup, CancelJob, CancelDone, Abort, workers
  <1>1. ASSUME NEW h \in Handler, CancelDone(h) \/ (\E r \in Root : LookForQueued(h, r))
                                               \/ (\E g \in Group : ReadToCancel(h, g))
        PROVE  Quiet
    BY <1>1, QuietTables, Zenon DEF CancelDone, LookForQueued, ReadToCancel, tables
  <1>2. ASSUME NEW h \in Handler, CancelGroup(h) PROVE Quiet
    <2> DEFINE g == handler[h].group
               ps == {p \in Project : pstate[g][p] = "NotStarted"}
    <2>1. g \in Group
      BY <1>2, RequestType, Zenon DEF CancelGroup
    <2>2. UsedKept /\ UNCHANGED jobs
      BY <1>2, <2>1, Zenon DEF CancelGroup, UsedKept, TypeOK
    <2>3. SetProjects(g, ps, "Canceled") /\ \A p \in Project : p \in ps => pstate[g][p] # "Absent"
      BY <1>2, Zenon DEF CancelGroup
    <2>4. "Canceled" \in ProjectState \ {"Absent"}
      BY DEF ProjectState
    <2> HIDE DEF g, ps
    <2> QED
      BY <2>1, <2>2, <2>3, <2>4, QuietProjects, Zenon
  <1>3. ASSUME NEW h \in Handler, NEW j \in Job, CancelJob(h, j) PROVE Quiet
    <2>1. j \in Created
      BY <1>3, RequestType, Zenon DEF CancelJob
    <2>2. RowsKept
      BY <1>3, <2>1, UpdatedKeeps, Zenon DEF CancelJob, JobState
    <2> QED
      BY <1>3, <2>2, QuietRows DEF CancelJob
  <1>4. ASSUME NEW g \in Group, Abort(g) PROVE Quiet
    <2> DEFINE ps == {p \in Project : pstate[g][p] \in {"InProgress", "NotStarted"}}
    <2>1. UsedKept /\ UNCHANGED jobs
      BY <1>4, Zenon DEF Abort, UsedKept, TypeOK
    <2>2. SetProjects(g, ps, "Failure") /\ \A p \in Project : p \in ps => pstate[g][p] # "Absent"
      BY <1>4, Zenon DEF Abort
    <2>3. "Failure" \in ProjectState \ {"Absent"}
      BY DEF ProjectState
    <2> HIDE DEF ps
    <2> QED
      BY <2>1, <2>2, <2>3, QuietProjects, Zenon
  <1> QED
    BY <1>0, <1>1, <1>2, <1>3, <1>4, Zenon DEF HandlerStep

\* A worker reports the build of a job in the table, or nothing.
Reported == \E j \in Created : built' = built \cup {<<jobs[j].group, jobs[j].project>>}

LEMMA ReportQuiet ==
    ASSUME IInv, NEW j \in Created, NEW state \in JobState, Report(j, state)
    PROVE  Quiet /\ (built' = built \/ Reported)
  <1>1. RowsKept
    BY UpdatedKeeps, Zenon DEF Report, IInv
  <1> QED
    BY <1>1, QuietRows DEF Report, Reported

LEMMA WorkerQuiet ==
    ASSUME IInv, NEW j \in Job, WorkerStep(j) \/ WorkerFault(j)
    PROVE  Quiet /\ (built' = built \/ Reported)
  <1> USE DEF IInv
  <1>0. (work[j] # "idle" => j \in Created) /\ stray \subseteq Created
    BY Zenon DEF JobInv, TypeOK
  <1>1. CASE StartJob(j)
    <2> DEFINE r == [state |-> "Dispatched", group |-> jobs[j].group, project |-> jobs[j].project,
                     synced |-> FALSE, count |-> jobs[j].count]
    <2>1. j \in Created /\ jobs[j] \in Row
      BY <1>1, CreatedRow, Zenon DEF StartJob
    <2>2. r # Unused /\ r.group = jobs[j].group /\ r.project = jobs[j].project
      BY <2>1, Zenon DEF Unused
    <2>3. jobs' = [jobs EXCEPT ![j] = r] /\ UNCHANGED <<gstate, pstate, built>>
      BY <1>1, Zenon DEF StartJob
    <2> HIDE DEF r
    <2>4. jobs'[j] = r /\ \A i \in Job \ {j} : jobs'[i] = jobs[i]
      BY <2>3, Zenon DEF TypeOK
    <2>5. Created' = Created
      BY <2>1, <2>2, <2>4, Zenon DEF Created
    <2>6. \A i \in Created : jobs'[i].group = jobs[i].group /\ jobs'[i].project = jobs[i].project
      BY <2>2, <2>4, Zenon DEF Created
    <2> QED
      BY <2>3, <2>5, <2>6, Zenon DEF Quiet, AbsentKept, UsedKept, RowsSame
  <1>2. CASE Ready(j)
    BY <1>2, QuietTables, Zenon DEF Ready, tables
  <1>3. CASE Requeue(j)
    <2>1. j \in Created /\ UNCHANGED <<gstate, pstate, built>>
      BY <1>0, <1>3, Zenon DEF Requeue
    <2>2. jobs' \in {Updated(j, "Pending"), Updated(j, "CancelComplete"), jobs}
      BY <1>3 DEF Requeue
    <2>3. CASE jobs' = jobs
      BY <2>1, <2>3, QuietTables
    <2>4. CASE jobs' \in {Updated(j, "Pending"), Updated(j, "CancelComplete")}
      <3>1. RowsKept
        BY <2>1, <2>4, UpdatedKeeps, Zenon DEF JobState
      <3> QED
        BY <2>1, <3>1, QuietRows, Zenon
    <2> QED
      BY <2>2, <2>3, <2>4
  <1>4. CASE Started(j) \/ StopRead(j) \/ ProcessCancel(j) \/ Reject(j) \/ CancelExpired(j)
    <2>1. j \in Created
      BY <1>0, <1>4, Zenon DEF Started, StopRead, ProcessCancel, Reject, CancelExpired
    <2>2. \E state \in JobState : Report(j, state)
      BY <1>4, Zenon DEF Started, StopRead, ProcessCancel, Reject, CancelExpired, JobState
    <2> QED
      BY <2>1, <2>2, ReportQuiet, Zenon
  <1>5. CASE \E state \in JobState : Finish(j, state) \/ ReportLate(j, state)
    BY <1>0, <1>5, ReportQuiet, Zenon DEF Finish, ReportLate
  <1> QED
    BY <1>1, <1>2, <1>3, <1>4, <1>5 DEF WorkerStep, WorkerFault

-----------------------------------------------------------------------------
(* The refinement. *)

Wanted == {b \in Group \X Project : pstate[b[1]][b[2]] # "Absent"}
BegunFor == {<<jobs[j].group, jobs[j].project>> : j \in Created}

LEMMA QuietMeans ==
    ASSUME Quiet
    PROVE  Wanted' = Wanted /\ BegunFor' = BegunFor
  <1>1. Wanted' = Wanted
    BY Zenon DEF Quiet, AbsentKept, Wanted
  <1>2. BegunFor' = BegunFor
    BY DEF Quiet, RowsSame, BegunFor
  <1> QED
    BY <1>1, <1>2, Zenon

LEMMA WantedIff ==
    ASSUME NEW g \in Group, NEW p \in Project
    PROVE  <<g, p>> \in Wanted <=> pstate[g][p] # "Absent"
  BY DEF Wanted

LEMMA CreateBegins ==
    ASSUME IInv, NEW p \in Project, NEW j \in Job, CreateJob(p, j)
    PROVE  Promise!Begin(sched.group, p) /\ sched.group \in Group
  <1> USE DEF IInv
  <1> DEFINE g == sched.group
             r == [state |-> "Pending", group |-> g, project |-> p, synced |-> FALSE, count |-> 0]
  <1>1. g \in Group /\ p \in sched.plan /\ sched.at = "dispatch" /\ j \notin Created
    BY Zenon DEF CreateJob, SchedInv, NextOf, Created
  <1>2. jobs' = [jobs EXCEPT ![j] = r] /\ pstate' = pstate /\ built' = built
    BY DEF CreateJob, workers
  <1>3. r # Unused /\ r.group = g /\ r.project = p
    BY Zenon DEF Unused
  <1>4. pstate[g][p] # "Absent" /\ \A d \in Deps[p] : pstate[g][d] # "Absent" => <<g, d>> \in built
    BY <1>1, Zenon DEF PlanInv
  <1> HIDE DEF r, g
  <1>5. jobs'[j] = r /\ \A i \in Job \ {j} : jobs'[i] = jobs[i]
    BY <1>2, Zenon DEF TypeOK
  <1>6. Created' = Created \cup {j}
    BY <1>3, <1>5, Zenon DEF Created
  <1>7. BegunFor' = BegunFor \cup {<<g, p>>}
    <2>1. \A i \in Created : jobs'[i] = jobs[i]
      BY <1>1, <1>5, Zenon DEF Created
    <2> QED
      BY <1>3, <1>5, <1>6, <2>1, Zenon DEF BegunFor
  <1>8. \A d \in Deps[p] : d \in Project
    BY ProjectAssumption, Zenon
  <1>9. <<g, p>> \in Wanted /\ \A d \in Deps[p] : <<g, d>> \in Wanted => <<g, d>> \in built
    BY <1>1, <1>4, <1>8, WantedIff, Zenon
  <1>10. Wanted' = Wanted
    BY <1>2, Zenon DEF Wanted
  <1> QED
    BY <1>1, <1>2, <1>7, <1>9, <1>10, Zenon DEF Promise!Begin, Wanted, BegunFor, g

LEMMA InsertAsks ==
    ASSUME IInv, FreshInv, NEW h \in Handler, NEW g \in Group, NEW list \in SUBSET Project,
           InsertGroup(h, g, list)
    PROVE  Promise!Ask(g, list) /\ FreshInv'
  <1>1. \A o \in Group, p \in Project :
            pstate'[o][p] = IF o = g /\ p \in list THEN "NotStarted" ELSE pstate[o][p]
    BY SetProjectsType DEF InsertGroup, ProjectState, IInv
  <1>2. /\ gstate[g] = "Unused" /\ UNCHANGED <<jobs, built>>
        /\ \A o \in Group : gstate'[o] = IF o = g THEN "Queued" ELSE gstate[o]
    BY Zenon DEF InsertGroup, IInv, TypeOK, workers
  <1>3. \A p \in Project : <<g, p>> \notin Wanted
    BY <1>2, WantedIff, Zenon DEF FreshInv
  <1>4. Wanted' = Wanted \cup ({g} \X list)
    BY <1>1 DEF Wanted
  <1>5. BegunFor' = BegunFor
    BY <1>2, Zenon DEF BegunFor, Created
  <1>6. FreshInv'
    BY <1>1, <1>2 DEF FreshInv
  <1> QED
    BY <1>2, <1>3, <1>4, <1>5, <1>6, Zenon DEF Promise!Ask, Wanted, BegunFor

LEMMA QuietStep ==
    ASSUME IInv, FreshInv, Quiet, built' = built \/ Reported
    PROVE  [Promise!Next]_Promise!vars /\ FreshInv'
  <1>1. Wanted' = Wanted /\ BegunFor' = BegunFor
    BY QuietMeans
  <1>2. FreshInv'
    BY Zenon DEF FreshInv, Quiet, AbsentKept, UsedKept
  <1>3. CASE built' = built
    BY <1>1, <1>2, <1>3, Zenon DEF Promise!vars, Wanted, BegunFor
  <1>4. CASE Reported
    <2>1. PICK j \in Created : built' = built \cup {<<jobs[j].group, jobs[j].project>>}
      BY <1>4, Zenon DEF Reported
    <2>2. jobs[j].group \in Group /\ jobs[j].project \in Project
      BY CreatedRow, Zenon DEF IInv, Row
    <2>3. <<jobs[j].group, jobs[j].project>> \in BegunFor
      BY Zenon DEF BegunFor
    <2>4. Promise!End(jobs[j].group, jobs[j].project)
      BY <1>1, <2>1, <2>3, Zenon DEF Promise!End, Wanted, BegunFor
    <2> QED
      BY <1>2, <2>2, <2>4, Zenon DEF Promise!Next
  <1> QED
    BY <1>3, <1>4, Zenon

LEMMA StepMaps ==
    IInv /\ FreshInv /\ [Next]_vars => [Promise!Next]_Promise!vars /\ FreshInv'
  <1> SUFFICES ASSUME IInv, FreshInv, [Next]_vars
               PROVE  [Promise!Next]_Promise!vars /\ FreshInv'
    BY Zenon
  <1>1. CASE \E p \in Project, j \in Job : CreateJob(p, j)
    <2>1. PICK p \in Project, j \in Job : CreateJob(p, j)
      BY <1>1, Zenon
    <2>2. Promise!Begin(sched.group, p) /\ sched.group \in Group
      BY <2>1, CreateBegins, Zenon
    <2>3. FreshInv'
      BY <2>1, Zenon DEF CreateJob, FreshInv
    <2> QED
      BY <2>2, <2>3 DEF Promise!Next
  <1>2. CASE \E h \in Handler, g \in Group, list \in SUBSET Project : InsertGroup(h, g, list)
    BY <1>2, InsertAsks, Zenon DEF Promise!Next
  <1>3. CASE SchedulerStep /\ ~(\E p \in Project, j \in Job : CreateJob(p, j))
    BY <1>3, SchedulerQuiet, QuietStep, Zenon
  <1>4. CASE HandlerStep /\ ~(\E h \in Handler, g \in Group, list \in SUBSET Project : InsertGroup(h, g, list))
    BY <1>4, HandlerQuiet, QuietStep, Zenon
  <1>5. CASE Restart
    BY <1>5, QuietTables, QuietStep, Zenon DEF Restart, tables, workers
  <1>6. CASE \E j \in Job : WorkerStep(j) \/ WorkerFault(j)
    BY <1>6, WorkerQuiet, QuietStep, Zenon
  <1>7. CASE UNCHANGED vars
    BY <1>7, QuietTables, QuietStep, Zenon DEF vars, tables, workers
  <1> QED
    BY <1>1, <1>2, <1>3, <1>4, <1>5, <1>6, <1>7, Zenon DEF Next

\* Whatever requests, cancelations, worker failures and restarts come, the scheduler
\* starts only builds somebody asked for, each after those it needs, and only a started
\* build is reported complete (dispatch_group, process_status, job_group_create).
THEOREM SchedulerImplementsBuildOrder == Spec => ImplementsBuildOrder
  <1>1. Init => Promise!Init
    BY DEF Init, Promise!Init, Created, NoSnapshot
  <1>2. Init => FreshInv
    BY DEF Init, FreshInv, NoSnapshot
  <1> QED
    BY <1>1, <1>2, InitInv, NextInv, StepMaps, PTL DEF Spec, ImplementsBuildOrder, Promise!Spec

-----------------------------------------------------------------------------
(* Where the scheduler thread goes. *)

LEMMA SetProjectsMeans ==
    ASSUME IInv, NEW g \in Group, NEW ps, NEW state \in ProjectState, SetProjects(g, ps, state)
    PROVE  \A o \in Group, p \in Project : pstate'[o][p] = IF o = g /\ p \in ps THEN state ELSE pstate[o][p]
  <1>1. TypeOK
    BY Zenon DEF IInv
  <1> QED
    BY <1>1, SetProjectsType

LEMMA StatusMoves ==
    ASSUME IInv
    PROVE  /\ SyncJobs => /\ sched'.at = "sync" /\ sched'.job = sched.job
                          /\ sched'.todo = {[id |-> j, state |-> jobs[j].state] : j \in Unsynced}
           /\ \A s \in sched.todo : ApplyStatus(s) =>
                /\ sched'.at = AfterStatus(s.state) /\ sched'.todo = sched.todo \ {s}
                /\ sched'.job = s.id /\ sched'.group = jobs[s.id].group /\ sched'.snap = pstate[jobs[s.id].group]
           /\ SkipFailed => /\ sched'.at = "read" /\ sched'.todo = sched.todo
                            /\ sched'.job = sched.job /\ sched'.group = sched.group
           /\ SetJobSync => sched'.at = "sync" /\ sched'.todo = sched.todo /\ sched'.job = NoJob
  <1>1. sched \in SchedType
    BY Zenon DEF IInv, TypeOK, SchedType
  <1> QED
    BY <1>1, Zenon DEF SchedType, SyncJobs, ApplyStatus, SkipFailed, SetJobSync

LEMMA GroupMoves ==
    ASSUME IInv
    PROVE  /\ ReadGroup => /\ sched'.at \in {"write", Return} /\ sched'.todo = sched.todo
                           /\ sched'.job = sched.job /\ sched'.group = sched.group
                           /\ sched'.at = "write" => sched'.new = NewState(pstate[sched.group])
           /\ WriteGroup => /\ sched'.at = Return /\ sched'.todo = sched.todo /\ sched'.job = sched.job
           /\ ReadQueue => sched'.at = "check" /\ sched'.todo = sched.todo /\ sched'.job = sched.job
           /\ \A g \in Group : CheckQueued(g) =>
                sched'.at \in {"check", "promote"} /\ sched'.todo = sched.todo /\ sched'.job = sched.job
           /\ Promote => sched'.at = "check" /\ sched'.todo = sched.todo /\ sched'.job = sched.job
  <1>1. sched \in SchedType
    BY Zenon DEF IInv, TypeOK, SchedType
  <1>2. ReadGroup => /\ sched'.at \in {"write", Return} /\ sched'.todo = sched.todo
                     /\ sched'.job = sched.job /\ sched'.group = sched.group
                     /\ sched'.at = "write" => sched'.new = NewState(pstate[sched.group])
    <2>1. CASE gstate[sched.group] = "Dispatching"
      BY <1>1, <2>1, Zenon DEF SchedType, ReadGroup
    <2>2. CASE gstate[sched.group] # "Dispatching"
      BY <1>1, <2>2, Zenon DEF SchedType, ReadGroup, Return
    <2> QED
      BY <2>1, <2>2, Zenon
  <1>3. ASSUME NEW g \in Group, CheckQueued(g)
        PROVE  sched'.at \in {"check", "promote"} /\ sched'.todo = sched.todo /\ sched'.job = sched.job
    <2>1. CASE IsJobGroupActive(root[g])
      BY <1>1, <1>3, <2>1, Zenon DEF SchedType, CheckQueued
    <2>2. CASE ~IsJobGroupActive(root[g])
      BY <1>1, <1>3, <2>2, Zenon DEF SchedType, CheckQueued
    <2> QED
      BY <2>1, <2>2, Zenon
  <1> QED
    BY <1>1, <1>2, <1>3, Zenon DEF SchedType, WriteGroup, ReadQueue, Promote

LEMMA DispatchMoves ==
    ASSUME IInv
    PROVE  /\ TakeGroup => \E g \in PendingGroups :
                /\ gstate' = [gstate EXCEPT ![g] = "Dispatching"]
                /\ sched'.at = "dispatch" /\ sched'.todo = sched.todo /\ sched'.job = NoJob
                /\ sched'.group = g /\ sched'.snap = pstate[g] /\ sched'.plan = Dispatchable(pstate[g])
           /\ NothingPending => sched'.at = "status" /\ sched'.todo = {} /\ sched'.job = NoJob
           /\ \A p \in Project, j \in Job : CreateJob(p, j) =>
                /\ sched'.at = "link" /\ sched'.todo = sched.todo /\ sched'.job = j
                /\ sched'.group = sched.group /\ sched'.snap = sched.snap /\ sched'.plan = sched.plan \ {p}
           /\ LinkJob => /\ sched'.at = "dispatch" /\ sched'.todo = sched.todo /\ sched'.job = NoJob
                         /\ sched'.group = sched.group /\ sched'.snap = sched.snap /\ sched'.plan = sched.plan
           /\ \A p \in Project : SkipUnconnected(p) =>
                /\ sched'.at = "dispatch" /\ sched'.todo = sched.todo /\ sched'.job = sched.job
                /\ sched'.group = sched.group /\ sched'.snap = sched.snap
                /\ sched'.plan = sched.plan \ ({p} \cup SkipProjects(sched.snap, p))
           /\ \A p \in Project : CreateFails(p) =>
                /\ sched'.at = "read" /\ sched'.todo = sched.todo /\ sched'.job = sched.job
                /\ sched'.group = sched.group
           /\ Dispatched => /\ sched'.at = "read" /\ sched'.todo = sched.todo /\ sched'.job = sched.job
                            /\ sched'.group = sched.group
  <1>1. sched \in SchedType
    BY Zenon DEF IInv, TypeOK, SchedType
  <1>2. TakeGroup => \E g \in PendingGroups :
                /\ gstate' = [gstate EXCEPT ![g] = "Dispatching"]
                /\ sched'.at = "dispatch" /\ sched'.todo = sched.todo /\ sched'.job = NoJob
                /\ sched'.group = g /\ sched'.snap = pstate[g] /\ sched'.plan = Dispatchable(pstate[g])
    BY <1>1, Zenon DEF SchedType, TakeGroup
  <1>3. NothingPending => sched'.at = "status" /\ sched'.todo = {} /\ sched'.job = NoJob
    BY DEF NothingPending, Waiting
  <1> QED
    BY <1>1, <1>2, <1>3, ZenonT(40) DEF SchedType, CreateJob, LinkJob, SkipUnconnected, CreateFails, Dispatched

-----------------------------------------------------------------------------
(* A project is built once, unless a job of it was rejected. *)

Of(j) == <<jobs[j].group, jobs[j].project>>
\* What a job of was rejected, so that it may be built again.
Again == {Of(k) : k \in rejected}

\* A job has been created and its project does not say so.
Open(j) == pstate[jobs[j].group][jobs[j].project] = "NotStarted" /\ Of(j) \notin Again

\* The thread handles the status of a job.
Handling == sched.at \in {"skip", "read", "write", "ack"} /\ sched.job # NoJob

BuiltTwice == \A i, j \in Created : i # j /\ Of(i) = Of(j) => Of(j) \in Again

\* Who has a job that its project does not know will hear of it before the next dispatch:
\* the thread is about to write it, or has it in the list of statuses, or will read it.
OpenInv == \A j \in Created : Open(j) =>
    /\ ~jobs[j].synced
    /\ \/ sched.at = "status"
       \/ sched.at = "link" /\ sched.job = j
       \/ \E s \in sched.todo : s.id = j

\* The list of statuses is empty once they are handled, and a handled job is not open.
TodoInv ==
    /\ sched.todo # {} => sched.at = "sync" \/ Handling
    /\ sched.at = "dispatch" => sched.job = NoJob
    /\ Handling => ~Open(sched.job)

\* What is left to dispatch has no job yet.
PlanOnce ==
    sched.at \in {"dispatch", "link"} => \A p \in sched.plan : \A j \in Created :
        Of(j) = <<sched.group, p>> => Of(j) \in Again

RejectedInv ==
    /\ \A j \in Created : jobs[j].state = "Rejected" => j \in rejected
    /\ \A s \in sched.todo : s.state = "Rejected" => s.id \in rejected

OnceInv == BuiltTwice /\ OpenInv /\ TodoInv /\ PlanOnce /\ RejectedInv

LEMMA AgainGrows ==
    ASSUME IInv, RowsSame, rejected \subseteq rejected'
    PROVE  /\ Again \subseteq Again'
           /\ \A j \in Created : Of(j)' = Of(j)
  <1>1. \A j \in Created : Of(j)' = Of(j)
    BY Zenon DEF RowsSame, Of
  <1>2. rejected \subseteq Created
    BY Zenon DEF IInv, TypeOK
  <1> QED
    BY <1>1, <1>2 DEF Again

\* A project that has a state keeps one.
StartedStays == \A j \in Created :
    pstate'[jobs[j].group][jobs[j].project] = "NotStarted" =>
        pstate[jobs[j].group][jobs[j].project] = "NotStarted" \/ Of(j) \in Again

LEMMA OpenKept ==
    ASSUME IInv, RowsSame, rejected \subseteq rejected', StartedStays
    PROVE  \A j \in Created : Open(j)' => Open(j)
  <1> TAKE j \in Created
  <1>1. Again \subseteq Again' /\ Of(j)' = Of(j)
    BY AgainGrows, Zenon
  <1>2. Open(j)' => pstate'[jobs[j].group][jobs[j].project] = "NotStarted" /\ Of(j)' \notin Again'
    BY Zenon DEF Open, RowsSame
  <1> QED
    BY <1>1, <1>2, Zenon DEF Open, StartedStays

\* What the thread holds does not change.
LEMMA OthersKeepOnce ==
    ASSUME IInv, OnceInv, UNCHANGED sched, RowsSame, rejected \subseteq rejected', StartedStays,
           \A j \in Created : /\ jobs'[j].synced => jobs[j].synced
                              /\ jobs'[j].state = "Rejected" => jobs[j].state = "Rejected" \/ j \in rejected'
    PROVE  OnceInv'
  <1> USE DEF OnceInv
  <1>1. /\ Again \subseteq Again' /\ \A j \in Created : Of(j)' = Of(j) /\ (Open(j)' => Open(j))
        /\ Created' = Created
    BY AgainGrows, OpenKept, Zenon DEF RowsSame
  <1>2. BuiltTwice'
    BY <1>1 DEF BuiltTwice
  <1>3. OpenInv'
    <2>1. \A j \in Created : Open(j)' => ~jobs'[j].synced
      BY <1>1, Zenon DEF OpenInv
    <2> QED
      BY <1>1, <2>1, Zenon DEF OpenInv
  <1>4. TodoInv'
    <2>1. Handling' = Handling /\ (Handling => sched.job \in Created)
      BY Zenon DEF Handling, IInv, SchedInv
    <2>2. Handling => ~Open(sched.job)'
      BY <1>1, <2>1, Zenon DEF TodoInv, Open, Of
    <2> QED
      BY <2>1, <2>2, Zenon DEF TodoInv
  <1>5. PlanOnce'
    BY <1>1, Zenon DEF PlanOnce
  <1>6. RejectedInv'
    <2>1. \A j \in Created : jobs'[j].state = "Rejected" => j \in rejected'
      BY Zenon DEF RejectedInv
    <2>2. \A s \in sched'.todo : s.state = "Rejected" => s.id \in rejected'
      BY Zenon DEF RejectedInv
    <2> QED
      BY <1>1, <2>1, <2>2, Zenon DEF RejectedInv
  <1> QED
    BY <1>2, <1>3, <1>4, <1>5, <1>6, Zenon

LEMMA ReportOnce ==
    ASSUME IInv, OnceInv, NEW j \in Created, NEW state \in JobState, Report(j, state)
    PROVE  OnceInv'
  <1>1. RowsKept /\ jobs'[j].state = state /\ \A i \in Job \ {j} : jobs'[i] = jobs[i]
    BY UpdatedKeeps, Zenon DEF Report, IInv
  <1>2. j \in Job /\ TypeOK
    BY CreatedRow, Zenon DEF IInv
  <1>3. ~jobs'[j].synced
    BY <1>2, Zenon DEF Report, Updated, TypeOK
  <1>4. /\ rejected' = IF state = "Rejected" THEN rejected \cup {j} ELSE rejected
        /\ UNCHANGED <<sched, pstate>>
    BY Zenon DEF Report
  <1>5. \A i \in Created : /\ jobs'[i].synced => jobs[i].synced
                           /\ jobs'[i].state = "Rejected" => jobs[i].state = "Rejected" \/ i \in rejected'
    BY <1>1, <1>3, <1>4, Zenon DEF Created
  <1> QED
    BY <1>1, <1>4, <1>5, OthersKeepOnce, Zenon DEF RowsKept, RowsSame, StartedStays

LEMMA WorkerOnce ==
    ASSUME IInv, OnceInv, NEW j \in Job, WorkerStep(j) \/ WorkerFault(j)
    PROVE  OnceInv'
  <1> USE DEF IInv
  <1>0. (work[j] # "idle" => j \in Created) /\ stray \subseteq Created
    BY Zenon DEF JobInv, TypeOK
  <1>q. RowsSame
    BY WorkerQuiet, Zenon DEF Quiet
  <1>1. CASE StartJob(j)
    <2>1. /\ jobs' = [jobs EXCEPT ![j] = [state |-> "Dispatched", group |-> jobs[j].group,
                    project |-> jobs[j].project, synced |-> FALSE, count |-> jobs[j].count]]
          /\ UNCHANGED <<sched, pstate, rejected>>
      BY <1>1, Zenon DEF StartJob
    <2>2. /\ jobs'[j].state = "Dispatched" /\ jobs'[j].synced = FALSE
          /\ \A i \in Job \ {j} : jobs'[i] = jobs[i]
      BY <2>1, Zenon DEF TypeOK
    <2>3. \A i \in Created : /\ jobs'[i].synced => jobs[i].synced
                             /\ jobs'[i].state = "Rejected" => jobs[i].state = "Rejected"
      BY <2>2, Zenon DEF Created
    <2> QED
      BY <1>q, <2>1, <2>3, OthersKeepOnce, Zenon DEF StartedStays
  <1>2. CASE Ready(j)
    BY <1>2, <1>q, OthersKeepOnce, Zenon DEF Ready, tables, StartedStays
  <1>3. CASE Requeue(j)
    <2>1. j \in Created /\ UNCHANGED <<sched, pstate, rejected>>
      BY <1>0, <1>3, Zenon DEF Requeue
    <2>2. jobs' \in {Updated(j, "Pending"), Updated(j, "CancelComplete"), jobs}
      BY <1>3, Zenon DEF Requeue
    <2>3. jobs' # jobs => /\ jobs'[j].state # "Rejected" /\ jobs'[j].synced = FALSE
                          /\ \A i \in Job \ {j} : jobs'[i] = jobs[i]
      BY <2>1, <2>2 DEF Updated, TypeOK
    <2>4. \A i \in Created : /\ jobs'[i].synced => jobs[i].synced
                             /\ jobs'[i].state = "Rejected" => jobs[i].state = "Rejected"
      BY <2>3, Zenon DEF Created
    <2> QED
      BY <1>q, <2>1, <2>4, OthersKeepOnce, Zenon DEF StartedStays
  <1>4. CASE Started(j) \/ StopRead(j) \/ ProcessCancel(j) \/ Reject(j) \/ CancelExpired(j)
    <2>1. j \in Created
      BY <1>0, <1>4, Zenon DEF Started, StopRead, ProcessCancel, Reject, CancelExpired
    <2>2. \E state \in JobState : Report(j, state)
      BY <1>4, Zenon DEF Started, StopRead, ProcessCancel, Reject, CancelExpired, JobState
    <2> QED
      BY <2>1, <2>2, ReportOnce, Zenon
  <1>5. CASE \E state \in JobState : Finish(j, state) \/ ReportLate(j, state)
    BY <1>0, <1>5, ReportOnce, Zenon DEF Finish, ReportLate
  <1> QED
    BY <1>1, <1>2, <1>3, <1>4, <1>5, Zenon DEF WorkerStep, WorkerFault

\* No group that has jobs gets a project that is not started.
LEMMA HandlerStarted ==
    ASSUME IInv, HandlerStep
    PROVE  \A j \in Created :
              pstate'[jobs[j].group][jobs[j].project] = "NotStarted" =>
                  pstate[jobs[j].group][jobs[j].project] = "NotStarted"
  <1> USE DEF IInv
  <1> TAKE j \in Created
  <1> DEFINE g == jobs[j].group
             p == jobs[j].project
  <1>1. g \in Group /\ p \in Project /\ gstate[g] # "Unused"
    BY CreatedRow, Zenon DEF Row, UsedInv
  <1> HIDE DEF g, p
  <1>2. ASSUME NEW h \in Handler, NEW o \in Group, NEW list \in SUBSET Project, InsertGroup(h, o, list)
        PROVE  pstate'[g][p] = pstate[g][p]
    BY <1>1, <1>2, SetProjectsType DEF InsertGroup, ProjectState
  <1>3. ASSUME NEW h \in Handler, CancelGroup(h)
        PROVE  pstate'[g][p] = "NotStarted" => pstate[g][p] = "NotStarted"
    <2>1. handler[h].group \in Group
      BY <1>3, RequestType, Zenon DEF CancelGroup
    <2> QED
      BY <1>1, <1>3, <2>1, SetProjectsType DEF CancelGroup, ProjectState
  <1>4. ASSUME NEW o \in Group, Abort(o)
        PROVE  pstate'[g][p] = "NotStarted" => pstate[g][p] = "NotStarted"
    BY <1>1, <1>4, SetProjectsType DEF Abort, ProjectState
  <1>5. ASSUME NEW h \in Handler, \/ CancelDone(h) \/ (\E i \in Job : CancelJob(h, i))
                                  \/ (\E r \in Root : LookForQueued(h, r))
                                  \/ (\E o \in Group : ReadToCancel(h, o))
        PROVE  pstate' = pstate
    BY <1>5, Zenon DEF CancelDone, CancelJob, LookForQueued, ReadToCancel, tables
  <1>6. pstate'[g][p] = "NotStarted" => pstate[g][p] = "NotStarted"
    BY <1>2, <1>3, <1>4, <1>5, Zenon DEF HandlerStep
  <1> QED
    BY <1>6, Zenon DEF g, p

LEMMA HandlerOnce ==
    ASSUME IInv, OnceInv, HandlerStep
    PROVE  OnceInv'
  <1> USE DEF IInv
  <1>1. UNCHANGED <<sched, rejected>>
    BY Zenon DEF HandlerStep, LookForQueued, InsertGroup, ReadToCancel, CancelGroup, CancelJob, CancelDone, Abort, workers
  <1>2. StartedStays
    BY HandlerStarted, Zenon DEF StartedStays
  <1>3. CASE \E h \in Handler, j \in Job : CancelJob(h, j)
    <2>1. PICK h \in Handler, j \in Job : CancelJob(h, j)
      BY <1>3, Zenon
    <2>2. j \in Created /\ jobs' = Updated(j, "CancelPending")
      BY <2>1, RequestType, Zenon DEF CancelJob
    <2>3. RowsKept /\ jobs'[j].state = "CancelPending" /\ \A i \in Job \ {j} : jobs'[i] = jobs[i]
      BY <2>2, UpdatedKeeps, Zenon DEF JobState
    <2>4. jobs'[j].synced = FALSE
      BY <2>2, Zenon DEF Updated, TypeOK
    <2>5. \A i \in Created : /\ jobs'[i].synced => jobs[i].synced
                             /\ jobs'[i].state = "Rejected" => jobs[i].state = "Rejected"
      BY <2>3, <2>4, Zenon DEF Created
    <2> QED
      BY <1>1, <1>2, <2>3, <2>5, OthersKeepOnce, Zenon DEF RowsKept, RowsSame
  <1>4. CASE ~(\E h \in Handler, j \in Job : CancelJob(h, j))
    <2>1. UNCHANGED jobs
      BY <1>4, Zenon DEF HandlerStep, LookForQueued, InsertGroup, ReadToCancel, CancelGroup, CancelDone, Abort, tables
    <2>2. RowsSame
      BY <2>1, Zenon DEF RowsSame, Created
    <2> QED
      BY <1>1, <1>2, <2>1, <2>2, OthersKeepOnce, Zenon
  <1> QED
    BY <1>3, <1>4, Zenon

LEMMA RestartOnce ==
    ASSUME IInv, OnceInv, Restart
    PROVE  OnceInv'
  <1>1. UNCHANGED <<jobs, pstate, rejected>> /\ sched'.at = "status" /\ sched'.todo = {}
    BY Zenon DEF Restart, tables, workers, Waiting
  <1>2. Created' = Created /\ Again' = Again
    BY <1>1, Zenon DEF Created, Again, Of
  <1>3. \A j \in Created : Of(j)' = Of(j) /\ (Open(j)' => Open(j))
    BY <1>1, <1>2, Zenon DEF Of, Open
  <1>4. OpenInv'
    BY <1>1, <1>2, <1>3, Zenon DEF OpenInv, OnceInv
  <1>5. BuiltTwice'
    BY <1>2, <1>3 DEF BuiltTwice, OnceInv
  <1>6. RejectedInv' /\ TodoInv' /\ PlanOnce'
    BY <1>1, <1>2, Zenon DEF RejectedInv, TodoInv, PlanOnce, Handling, OnceInv
  <1> QED
    BY <1>4, <1>5, <1>6, Zenon DEF OnceInv

-----------------------------------------------------------------------------
(* The thread itself. *)

\* A step that changes no row: what is left to show is about where the thread is.
LEMMA ThreadKeepsOnce ==
    ASSUME IInv, OnceInv, UNCHANGED <<jobs, rejected>>, StartedStays,
           sched'.todo \subseteq sched.todo,
           \A j \in Created : Open(j)' =>
              \/ sched'.at = "status"
              \/ sched'.at = "link" /\ sched'.job = j
              \/ \E s \in sched'.todo : s.id = j,
           TodoInv',
           sched'.at \in {"dispatch", "link"} =>
              sched.at \in {"dispatch", "link"} /\ sched'.group = sched.group /\ sched'.plan \subseteq sched.plan
    PROVE  OnceInv'
  <1> USE DEF OnceInv
  <1>1. RowsSame /\ Created' = Created /\ Again' = Again
    BY Zenon DEF RowsSame, Created, Again, Of
  <1>2. \A j \in Created : Of(j)' = Of(j) /\ (Open(j)' => Open(j))
    BY <1>1, OpenKept, Zenon DEF Of
  <1>3. BuiltTwice'
    BY <1>1, <1>2 DEF BuiltTwice
  <1>4. OpenInv'
    <2>1. \A j \in Created : Open(j)' => ~jobs'[j].synced
      BY <1>2, Zenon DEF OpenInv
    <2> QED
      BY <1>1, <2>1, Zenon DEF OpenInv
  <1>5. PlanOnce'
    BY <1>1, <1>2 DEF PlanOnce
  <1>6. RejectedInv'
    BY <1>1, Zenon DEF RejectedInv
  <1> QED
    BY <1>3, <1>4, <1>5, <1>6, Zenon

\* The states the thread gives projects while it works, other than by a status.
LEMMA SetKeepsStarted ==
    ASSUME IInv, NEW g \in Group, NEW ps, NEW state \in ProjectState \ {"NotStarted"}, SetProjects(g, ps, state)
    PROVE  StartedStays
  <1>1. \A j \in Created : jobs[j].group \in Group /\ jobs[j].project \in Project
    BY CreatedRow, Zenon DEF IInv, Row
  <1>2. \A o \in Group, p \in Project : pstate'[o][p] = IF o = g /\ p \in ps THEN state ELSE pstate[o][p]
    BY SetProjectsMeans
  <1> QED
    BY <1>1, <1>2, Zenon DEF StartedStays

LEMMA QueueOnce ==
    ASSUME IInv, OnceInv,
           ReadQueue \/ Promote \/ NothingPending \/ Dispatched \/ \E g \in Group : CheckQueued(g)
    PROVE  OnceInv'
  <1>1. UNCHANGED <<jobs, rejected, pstate>> /\ StartedStays
    BY Zenon DEF ReadQueue, Promote, NothingPending, Dispatched, CheckQueued, tables, workers, StartedStays
  <1>2. /\ sched'.at \in {"check", "promote", "status", "read"} /\ sched'.todo = {} /\ sched.todo = {}
        /\ sched'.at = "read" => sched'.job = NoJob
    BY GroupMoves, DispatchMoves, Zenon
    DEF ReadQueue, Promote, NothingPending, Dispatched, CheckQueued, AtWork, OnceInv, TodoInv, Handling
  <1>3. sched.at \notin {"status", "link"}
    BY Zenon DEF ReadQueue, Promote, NothingPending, Dispatched, CheckQueued, AtWork
  <1>4. \A j \in Created : ~Open(j)
    BY <1>2, <1>3, Zenon DEF OnceInv, OpenInv
  <1>5. TodoInv' /\ \A j \in Created : Open(j)' => Open(j)
    BY <1>1, <1>2, Zenon DEF TodoInv, Handling, Open, Again, Of
  <1> QED
    BY <1>1, <1>2, <1>4, <1>5, ThreadKeepsOnce, Zenon

LEMMA ReadOnce ==
    ASSUME IInv, OnceInv, ReadGroup \/ WriteGroup
    PROVE  OnceInv'
  <1>1. UNCHANGED <<jobs, rejected, pstate>> /\ StartedStays
    BY Zenon DEF ReadGroup, WriteGroup, tables, workers, StartedStays
  <1>2. /\ sched.at \in {"read", "write"} /\ sched'.at \in {"write", Return}
        /\ sched'.todo = sched.todo /\ sched'.job = sched.job
    BY GroupMoves DEF ReadGroup, WriteGroup
  <1>3. Handling' = Handling /\ sched'.at \in {"write", "work", "ack"}
    BY <1>2, Zenon DEF Handling, Return
  <1>4. \A j : Open(j)' = Open(j)
    BY <1>1, Zenon DEF Open, Again, Of
  <1>5. TodoInv'
    BY <1>1, <1>2, <1>3, Zenon DEF TodoInv, OnceInv, Open, Again, Of
  <1> QED
    BY <1>1, <1>2, <1>3, <1>4, <1>5, ThreadKeepsOnce, Zenon DEF OnceInv, OpenInv

LEMMA SkipOnce ==
    ASSUME IInv, OnceInv, SkipFailed \/ \E p \in Project : SkipUnconnected(p) \/ CreateFails(p)
    PROVE  OnceInv'
  <1>1. UNCHANGED <<jobs, rejected>>
    BY Zenon DEF SkipFailed, SkipUnconnected, CreateFails, workers
  <1>2. sched.group \in Group
    BY Zenon DEF SkipFailed, SkipUnconnected, CreateFails, IInv, SchedInv
  <1>3. StartedStays
    BY <1>2, SetKeepsStarted, Zenon DEF SkipFailed, SkipUnconnected, CreateFails, ProjectState
  <1>4. /\ sched.at \in {"skip", "dispatch"} /\ sched'.at \in {"read", "dispatch"}
        /\ sched'.at = "dispatch" => sched.at = "dispatch" /\ sched'.plan \subseteq sched.plan
        /\ sched'.todo = sched.todo /\ sched'.job = sched.job /\ sched'.group = sched.group
    BY StatusMoves, DispatchMoves, Zenon DEF SkipFailed, SkipUnconnected, CreateFails
  <1>5. Handling' = Handling
    BY <1>4, Zenon DEF Handling, OnceInv, TodoInv
  <1>6. \A j \in Created : Open(j)' => Open(j)
    BY <1>1, <1>3, OpenKept, Zenon DEF RowsSame, Created
  <1>7. Handling => ~Open(sched.job)'
    <2>1. Handling => sched.job \in Created /\ ~Open(sched.job)
      BY Zenon DEF OnceInv, TodoInv, Handling, IInv, SchedInv
    <2> QED
      BY <1>4, <1>6, <2>1, Zenon DEF Open, Of
  <1>8. TodoInv'
    BY <1>4, <1>5, <1>7, Zenon DEF TodoInv, OnceInv
  <1> QED
    BY <1>1, <1>3, <1>4, <1>6, <1>8, ThreadKeepsOnce, Zenon DEF OnceInv, OpenInv

LEMMA LinkOnce ==
    ASSUME IInv, OnceInv, LinkJob
    PROVE  OnceInv'
  <1>1. UNCHANGED <<jobs, rejected>> /\ sched.at = "link"
    BY Zenon DEF LinkJob, workers
  <1>2. sched.group \in Group /\ sched.job \in Created /\ jobs[sched.job].group = sched.group
    BY <1>1, Zenon DEF IInv, SchedInv
  <1>3. StartedStays
    BY <1>2, SetKeepsStarted, Zenon DEF LinkJob, ProjectState
  <1>4. /\ sched'.at = "dispatch" /\ sched'.plan = sched.plan
        /\ sched'.todo = sched.todo /\ sched'.job = NoJob /\ sched'.group = sched.group
    BY DispatchMoves, Zenon
  <1>5. sched.todo = {}
    BY <1>1, Zenon DEF OnceInv, TodoInv, Handling
  <1>6. \A j \in Created : Open(j)' => Open(j)
    BY <1>1, <1>3, OpenKept, Zenon DEF RowsSame, Created
  <1>7. pstate'[jobs[sched.job].group][jobs[sched.job].project] = "InProgress"
    <2>1. jobs[sched.job].project \in Project
      BY <1>2, CreatedRow, Zenon DEF IInv, Row
    <2> QED
      BY <1>2, <2>1, SetProjectsType DEF LinkJob, ProjectState, IInv
  <1>8. \A j \in Created : Open(j)' => j # sched.job
    BY <1>1, <1>7, Zenon DEF Open
  <1>9. \A j \in Created : ~Open(j)'
    BY <1>1, <1>5, <1>6, <1>8, Zenon DEF OnceInv, OpenInv
  <1>10. TodoInv'
    BY <1>4, <1>5, Zenon DEF TodoInv, Handling
  <1> QED
    BY <1>1, <1>3, <1>4, <1>9, <1>10, ThreadKeepsOnce, Zenon

LEMMA ApplyOnce ==
    ASSUME IInv, OnceInv, NEW s \in sched.todo, ApplyStatus(s)
    PROVE  OnceInv'
  <1> USE DEF IInv
  <1> DEFINE g == jobs[s.id].group
             q == jobs[s.id].project
  <1>1. UNCHANGED <<jobs, rejected>> /\ sched.at = "sync"
    BY Zenon DEF ApplyStatus, workers
  <1>2. s.id \in Created /\ s.id \in Job /\ s.state \in JobState
    BY CreatedRow, Zenon DEF TypeOK, Status, SchedInv
  <1>3. g \in Group /\ q \in Project
    BY <1>2, CreatedRow, Zenon DEF Row
  <1>4. /\ sched'.at \in {"skip", "read", "ack"} /\ sched'.todo = sched.todo \ {s} /\ sched'.job = s.id
        /\ sched'.job # NoJob
    <2>1. AfterStatus(s.state) \in {"skip", "read", "ack"}
      BY <1>2, StateOfType, Zenon
    <2>3. s.id # NoJob
      BY <1>2 DEF Job, NoJob
    <2>2. sched'.at = AfterStatus(s.state) /\ sched'.todo = sched.todo \ {s} /\ sched'.job = s.id
      BY StatusMoves, Zenon
    <2> QED
      BY <2>1, <2>2, <2>3, Zenon
  <1>5. ProjectStateOf(s.state) = "NotStarted" => Of(s.id) \in Again
    <2>1. ProjectStateOf(s.state) = "NotStarted" => s.state = "Rejected"
      BY <1>2, Zenon DEF ProjectStateOf, JobState
    <2>2. s.state = "Rejected" => s.id \in rejected
      BY Zenon DEF OnceInv, RejectedInv
    <2> QED
      BY <2>1, <2>2, Zenon DEF Again
  <1>6. \A o \in Group, p \in Project :
            pstate'[o][p] = IF o = g /\ p = q THEN ProjectStateOf(s.state) ELSE pstate[o][p]
    <2>1. ProjectStateOf(s.state) \in ProjectState
      BY <1>2, StateOfType, Zenon
    <2> QED
      BY <1>3, <2>1, SetProjectsType DEF ApplyStatus
  <1>7. \A j \in Created : Of(j) = Of(s.id) => jobs[j].group = g /\ jobs[j].project = q
    BY Zenon DEF Of
  <1>8. \A j \in Created : jobs[j].group \in Group /\ jobs[j].project \in Project
    BY CreatedRow, Zenon DEF Row
  <1>9. StartedStays
    BY <1>5, <1>6, <1>8, Zenon DEF StartedStays, Of
  <1>10. Created' = Created /\ Again' = Again
    BY <1>1, Zenon DEF Created, Again, Of
  <1>11. ~Open(s.id)'
    BY <1>1, <1>3, <1>5, <1>6, <1>10, Zenon DEF Open, Of
  <1>12. \A j \in Created : Open(j)' => Open(j) /\ j # s.id
    BY <1>1, <1>9, <1>11, OpenKept, Zenon DEF RowsSame, Created
  <1>13. TodoInv'
    BY <1>4, <1>11, Zenon DEF TodoInv, Handling, Open, Of
  <1>14. \A j \in Created : Open(j)' => \E t \in sched'.todo : t.id = j
    BY <1>1, <1>4, <1>12, Zenon DEF OnceInv, OpenInv
  <1> QED
    BY <1>1, <1>4, <1>9, <1>13, <1>14, ThreadKeepsOnce, Zenon

LEMMA SyncOnce ==
    ASSUME IInv, OnceInv, SyncJobs
    PROVE  OnceInv'
  <1>1. UNCHANGED <<jobs, rejected, pstate>> /\ sched.at = "status"
    BY Zenon DEF SyncJobs, tables, workers
  <1>2. Created' = Created /\ Again' = Again
    BY <1>1, Zenon DEF Created, Again, Of
  <1>3. \A j \in Created : Of(j)' = Of(j) /\ Open(j)' = Open(j)
    BY <1>1, <1>2, Zenon DEF Of, Open
  <1>4. sched'.at = "sync" /\ sched'.todo = {[id |-> j, state |-> jobs[j].state] : j \in Unsynced}
    BY StatusMoves, Zenon
  <1>5. OpenInv'
    <2>1. \A j \in Created : Open(j) => ~jobs[j].synced /\ j \in Unsynced
      BY Zenon DEF OnceInv, OpenInv, Unsynced
    <2>2. ASSUME NEW j \in Unsynced PROVE \E s \in sched'.todo : s.id = j
      <3>1. [id |-> j, state |-> jobs[j].state] \in sched'.todo
        BY <1>4, Zenon
      <3> QED
        BY <3>1, Zenon
    <2> QED
      BY <1>1, <1>2, <1>3, <2>1, <2>2, Zenon DEF OpenInv
  <1>6. RejectedInv'
    <2>1. \A s \in sched'.todo : s.id \in Created /\ s.state = jobs[s.id].state
      BY <1>4 DEF Unsynced
    <2> QED
      BY <1>1, <1>2, <2>1, Zenon DEF OnceInv, RejectedInv
  <1>7. TodoInv' /\ PlanOnce' /\ BuiltTwice'
    BY <1>2, <1>3, <1>4 DEF OnceInv, TodoInv, PlanOnce, BuiltTwice, Handling
  <1> QED
    BY <1>5, <1>6, <1>7, Zenon DEF OnceInv

LEMMA AckOnce ==
    ASSUME IInv, OnceInv, SetJobSync
    PROVE  OnceInv'
  <1> USE DEF IInv
  <1> DEFINE j == sched.job
  <1>1. sched.at = "ack" /\ j \in Created /\ j \in Job /\ j # NoJob
    BY CreatedRow, Zenon DEF SetJobSync, SchedInv
  <1>2. UNCHANGED <<pstate, rejected>>
    BY Zenon DEF SetJobSync, workers
  <1>3. jobs' = [jobs EXCEPT ![j] = [state |-> jobs[j].state, group |-> jobs[j].group, project |-> jobs[j].project,
                                     synced |-> TRUE, count |-> jobs[j].count - 1]]
    BY Zenon DEF SetJobSync
  <1>4. jobs'[j].state = jobs[j].state /\ \A i \in Job \ {j} : jobs'[i] = jobs[i]
    BY <1>1, <1>3, Zenon DEF TypeOK
  <1>5. RowsSame
    <2>1. SchedulerStep /\ ~(\E p \in Project, i \in Job : CreateJob(p, i))
      BY <1>1, Zenon DEF SchedulerStep, CreateJob
    <2> QED
      BY <2>1, SchedulerQuiet, Zenon DEF Quiet
  <1>6. Created' = Created /\ Again \subseteq Again' /\ \A i \in Created : Of(i)' = Of(i)
    BY <1>2, <1>5, AgainGrows, Zenon DEF RowsSame
  <1>7. \A i \in Created : Open(i)' => Open(i)
    BY <1>2, <1>5, OpenKept, Zenon DEF StartedStays
  <1>8. sched'.at = "sync" /\ sched'.todo = sched.todo
    BY StatusMoves, Zenon
  <1>9. ~Open(j)
    BY <1>1, Zenon DEF OnceInv, TodoInv, Handling
  <1>10. OpenInv'
    <2>1. \A i \in Created : Open(i)' => i \in Job \ {j} /\ Open(i)
      BY <1>7, <1>9, Zenon DEF Created
    <2>2. \A i \in Created : Open(i) => ~jobs[i].synced /\ \E s \in sched.todo : s.id = i
      BY <1>1, Zenon DEF OnceInv, OpenInv
    <2>3. \A i \in Created : Open(i)' => ~jobs'[i].synced
      BY <1>4, <2>1, <2>2, Zenon
    <2> QED
      BY <1>6, <1>8, <2>1, <2>2, <2>3, Zenon DEF OpenInv
  <1>11. RejectedInv'
    <2>1. \A i \in Created : jobs'[i].state = jobs[i].state
      BY <1>4, Zenon DEF Created
    <2> QED
      BY <1>2, <1>6, <1>8, <2>1, Zenon DEF OnceInv, RejectedInv
  <1>12. BuiltTwice'
    BY <1>6 DEF OnceInv, BuiltTwice
  <1>13. TodoInv' /\ PlanOnce'
    BY <1>8, Zenon DEF OnceInv, TodoInv, PlanOnce, Handling
  <1> QED
    BY <1>10, <1>11, <1>12, <1>13, Zenon DEF OnceInv

LEMMA TakeOnce ==
    ASSUME IInv, OnceInv, TakeGroup
    PROVE  OnceInv'
  <1> USE DEF IInv
  <1>1. UNCHANGED <<jobs, rejected, pstate>> /\ sched.at \in {"work", "check"}
    BY Zenon DEF TakeGroup, workers, AtWork
  <1>2. PICK g \in PendingGroups :
          /\ sched'.at = "dispatch" /\ sched'.todo = sched.todo /\ sched'.job = NoJob
          /\ sched'.group = g /\ sched'.plan = Dispatchable(pstate[g])
    BY DispatchMoves, Zenon
  <1>3. Created' = Created /\ Again' = Again
    BY <1>1, Zenon DEF Created, Again, Of
  <1>4. \A j \in Created : Of(j)' = Of(j) /\ Open(j)' = Open(j)
    BY <1>1, <1>3, Zenon DEF Of, Open
  <1>5. sched.todo = {} /\ \A j \in Created : ~Open(j)
    BY <1>1, Zenon DEF OnceInv, TodoInv, OpenInv, Handling
  <1>6. PlanOnce'
    <2> SUFFICES ASSUME NEW p \in Dispatchable(pstate[g]), NEW j \in Created, Of(j) = <<g, p>>
                 PROVE  Of(j) \in Again
      BY <1>2, <1>3, <1>4, Zenon DEF PlanOnce
    <2>1. pstate[jobs[j].group][jobs[j].project] = "NotStarted"
      BY Zenon DEF Of, Dispatchable
    <2> QED
      BY <1>5, <2>1, Zenon DEF Open
  <1>7. OpenInv' /\ TodoInv'
    BY <1>2, <1>3, <1>4, <1>5, Zenon DEF OpenInv, TodoInv, Handling
  <1>8. BuiltTwice' /\ RejectedInv'
    BY <1>1, <1>2, <1>3, <1>4 DEF OnceInv, BuiltTwice, RejectedInv
  <1> QED
    BY <1>6, <1>7, <1>8, Zenon DEF OnceInv

LEMMA CreateOnce ==
    ASSUME IInv, OnceInv, NEW p \in Project, NEW j \in Job, CreateJob(p, j)
    PROVE  OnceInv'
  <1> USE DEF IInv
  <1> DEFINE g == sched.group
             row == [state |-> "Pending", group |-> g, project |-> p, synced |-> FALSE, count |-> 0]
  <1>1. sched.at = "dispatch" /\ p \in sched.plan /\ j \notin Created /\ UNCHANGED <<pstate, rejected>>
    BY Zenon DEF CreateJob, NextOf, Created, workers
  <1>2. jobs'[j] = row /\ \A i \in Job \ {j} : jobs'[i] = jobs[i]
    BY Zenon DEF CreateJob, TypeOK
  <1>3. row.state = "Pending" /\ row.group = g /\ row.project = p /\ row.synced = FALSE /\ row # Unused
    BY Zenon DEF Unused
  <1> HIDE DEF row, g
  <1>4. Created' = Created \cup {j} /\ \A i \in Created : jobs'[i] = jobs[i]
    BY <1>1, <1>2, <1>3, Zenon DEF Created
  <1>5. rejected \subseteq Created
    BY Zenon DEF TypeOK
  <1>6. /\ \A i \in Created : Of(i)' = Of(i)
        /\ Of(j)' = <<g, p>>
    BY <1>2, <1>3, <1>4, Zenon DEF Of
  <1>7. Again' = Again
    BY <1>1, <1>5, <1>6, Zenon DEF Again
  <1>8. sched.todo = {} /\ \A i \in Created : ~Open(i)
    BY <1>1, Zenon DEF OnceInv, TodoInv, OpenInv, Handling
  <1>9. \A i \in Created : ~Open(i)'
    BY <1>1, <1>4, <1>6, <1>7, <1>8, Zenon DEF Open
  <1>10. /\ sched'.at = "link" /\ sched'.todo = sched.todo /\ sched'.job = j
         /\ sched'.group = g /\ sched'.plan = sched.plan \ {p}
    BY DispatchMoves, Zenon DEF g
  <1>11. \A q \in sched.plan : \A i \in Created : Of(i) = <<g, q>> => Of(i) \in Again
    BY <1>1, Zenon DEF OnceInv, PlanOnce, g
  <1>12. BuiltTwice'
    <2>1. \A i \in Created : Of(i) = <<g, p>> => <<g, p>> \in Again
      BY <1>1, <1>11, Zenon
    <2>2. \A i, k \in Created : i # k /\ Of(i) = Of(k) => Of(k) \in Again
      BY Zenon DEF OnceInv, BuiltTwice
    <2> QED
      BY <1>4, <1>6, <1>7, <2>1, <2>2 DEF BuiltTwice
  <1>13. OpenInv'
    BY <1>2, <1>3, <1>4, <1>9, <1>10, Zenon DEF OpenInv
  <1>14. TodoInv'
    BY <1>8, <1>10, Zenon DEF TodoInv, Handling
  <1>15. PlanOnce'
    <2>1. \A q \in sched.plan \ {p} : <<g, p>> # <<g, q>>
      BY Zenon
    <2> QED
      BY <1>4, <1>6, <1>7, <1>10, <1>11, <2>1, Zenon DEF PlanOnce
  <1>16. RejectedInv'
    BY <1>1, <1>2, <1>3, <1>4, <1>8, <1>10, Zenon DEF OnceInv, RejectedInv
  <1> QED
    BY <1>12, <1>13, <1>14, <1>15, <1>16, Zenon DEF OnceInv

LEMMA InitOnce == Init => OnceInv
  <1> SUFFICES ASSUME Init PROVE OnceInv
    BY Zenon
  <1>1. Created = {} /\ sched.at = "status" /\ sched.todo = {}
    BY Zenon DEF Init, Created, Waiting
  <1> QED
    BY <1>1, Zenon DEF OnceInv, BuiltTwice, OpenInv, TodoInv, PlanOnce, RejectedInv, Handling

LEMMA NextOnce == IInv /\ OnceInv /\ [Next]_vars => OnceInv'
  <1> SUFFICES ASSUME IInv, OnceInv, [Next]_vars PROVE OnceInv'
    BY Zenon
  <1>1. CASE SchedulerStep
    BY <1>1, QueueOnce, ReadOnce, SkipOnce, LinkOnce, ApplyOnce, SyncOnce, AckOnce, TakeOnce, CreateOnce, Zenon
    DEF SchedulerStep
  <1>2. CASE HandlerStep
    BY <1>2, HandlerOnce, Zenon
  <1>3. CASE Restart
    BY <1>3, RestartOnce, Zenon
  <1>4. CASE \E j \in Job : WorkerStep(j) \/ WorkerFault(j)
    BY <1>4, WorkerOnce, Zenon
  <1>5. CASE UNCHANGED vars
    BY <1>5, OthersKeepOnce, Zenon DEF vars, tables, workers, RowsSame, Created, StartedStays
  <1> QED
    BY <1>1, <1>2, <1>3, <1>4, <1>5, Zenon DEF Next

\* A second job of a project in a group means that a worker rejected one of its jobs.
BuiltOnceUnlessRejected ==
    \A i, j \in Created : i # j /\ jobs[i].group = jobs[j].group /\ jobs[i].project = jobs[j].project
        => \E k \in rejected : jobs[k].group = jobs[j].group /\ jobs[k].project = jobs[j].project

\* However requests, faults and restarts interrupt the thread between create_job and the
\* write that links the job to its project, no job is created for a project that has
\* one, unless a worker rejected it (schedule_job, dispatch_group, process_status).
THEOREM BuiltAgainOnlyIfRejected == Spec => []BuiltOnceUnlessRejected
  <1>1. OnceInv => BuiltOnceUnlessRejected
    BY Zenon DEF OnceInv, BuiltTwice, BuiltOnceUnlessRejected, Of, Again
  <1> QED
    BY <1>1, InitInv, NextInv, InitOnce, NextOnce, PTL DEF Spec

LEMMA NoneRejected ==
    ASSUME "reject" \notin Fault, rejected = {}, [Next]_vars
    PROVE  rejected' = {}
  <1>1. CASE SchedulerStep
    BY <1>1, ZenonT(30) DEF SchedulerStep, SyncJobs, SkipFailed, ReadGroup, WriteGroup, SetJobSync, ReadQueue, Promote,
        TakeGroup, NothingPending, LinkJob, Dispatched, ApplyStatus, CheckQueued, SkipUnconnected,
        CreateFails, CreateJob, workers
  <1>2. CASE HandlerStep
    BY <1>2, Zenon DEF HandlerStep, LookForQueued, InsertGroup, ReadToCancel, CancelGroup, CancelJob, CancelDone,
        Abort, workers
  <1>3. ASSUME NEW j \in Job, WorkerStep(j) \/ WorkerFault(j) PROVE rejected' = {}
    <2>1. CASE Started(j) \/ StopRead(j) \/ ProcessCancel(j) \/ CancelExpired(j)
      BY <2>1, Zenon DEF Started, StopRead, ProcessCancel, CancelExpired, Report
    <2>2. CASE \E state \in JobState : Finish(j, state) \/ ReportLate(j, state)
      BY <2>2, Zenon DEF Finish, ReportLate, Report
    <2>3. CASE StartJob(j) \/ Ready(j) \/ Requeue(j)
      BY <2>3, Zenon DEF StartJob, Ready, Requeue
    <2>4. CASE Reject(j)
      BY <2>4, Zenon DEF Reject, Budget
    <2> QED
      BY <1>3, <2>1, <2>2, <2>3, <2>4, Zenon DEF WorkerStep, WorkerFault
  <1>4. CASE Restart \/ UNCHANGED vars
    BY <1>4, Zenon DEF Restart, vars, workers
  <1> QED
    BY <1>1, <1>2, <1>3, <1>4, Zenon DEF Next

\* Where no worker rejects a job nothing is built twice, whatever else happens: workers
\* that are lost, late results, cancelations and restarts (schedule_job, requeue_job).
THEOREM NoDoubleBuildWithoutRejects ==
    "reject" \notin Fault => (Spec => []NoDoubleBuild)
  <1> SUFFICES ASSUME "reject" \notin Fault PROVE Spec => []NoDoubleBuild
    BY Zenon
  <1>1. Init => rejected = {}
    BY Zenon DEF Init
  <1>2. rejected = {} /\ [Next]_vars => (rejected = {})'
    BY NoneRejected, Zenon
  <1>3. OnceInv /\ rejected = {} => NoDoubleBuild
    <2>1. \A i, j \in Created : i < j => i # j
      BY DEF Created, Job
    <2>2. rejected = {} => Again = {}
      BY DEF Again
    <2> QED
      BY <2>1, <2>2, Zenon DEF OnceInv, BuiltTwice, NoDoubleBuild, Of
  <1> QED
    BY <1>1, <1>2, <1>3, InitInv, NextInv, InitOnce, NextOnce, PTL DEF Spec
=============================================================================
