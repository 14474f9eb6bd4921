----------------------------- MODULE Scheduler -----------------------------
(***************************************************************************)
(* The job scheduler of builder-jobsrv: the scheduler thread, the request  *)
(* handlers and the worker manager, which only meet in the database tables *)
(* groups, group_projects and jobs (server/scheduler.rs, handlers.rs,      *)
(* worker_manager.rs, data_store.rs, migrations).                          *)
(*                                                                         *)
(* A step is one database call; calls whose order nobody can observe are   *)
(* one step.  Projects are numbered in the order of the package graph, so  *)
(* that of the project list of every group; what a project depends on does *)
(* not change.  The worker manager and its workers appear as the statuses  *)
(* they write, one writer per job in the order of its messages, until the  *)
(* manager gives a worker up for lost that may still answer.               *)
(***************************************************************************)
EXTENDS Integers, FiniteSets

CONSTANTS
    Project,    \* the projects, numbered in topological order
    Deps,       \* Deps[p]: the projects whose packages p is built with
    Root,       \* the projects groups are created for
    Connected,  \* the projects the origin server has a plan for
    Handler,    \* the threads that serve requests
    MaxGroup,   \* bound on the groups created
    MaxJob,     \* bound on the jobs created
    Fault,      \* what may happen besides building, see Budget
    MaxFault    \* how often it may happen

ASSUME ProjectAssumption ==
    /\ Project \subseteq Nat \ {0} /\ IsFiniteSet(Project)
    /\ Deps \in [Project -> SUBSET Project]
    /\ \A p \in Project : \A d \in Deps[p] : d < p
    /\ Root \subseteq Project /\ Connected \subseteq Project
ASSUME BoundsAssumption ==
    /\ MaxGroup \in Nat /\ MaxJob \in Nat /\ MaxFault \in Nat
    /\ Fault \subseteq {"cancel", "abort", "reject", "requeue", "timeout", "refuse", "restart"}

Group == 1 .. MaxGroup
Job == 1 .. MaxJob
NoJob == 0
NoGroup == 0

VARIABLES
    gstate,   \* groups: the state of a group, "Unused" before it is created
    root,     \* groups: the project it was created for
    pstate,   \* group_projects: the state of a project in a group
    pjob,     \* group_projects: the job of a project in a group
    jobs,     \* jobs: state, owner, project, scheduler_sync and sync_count
    work,     \* what the worker of a job is doing
    sched,    \* the scheduler thread: where it is and what it has read
    handler,  \* handler[h]: the request thread h is serving
    stray,    \* the jobs a worker given up for lost is still building
    built,    \* history: <<g, p>> when a build of p for group g was reported Complete
    rejected, \* history: the jobs a worker rejected
    expired,  \* history: the jobs whose worker was given up for lost
    aborted,  \* history: the groups that were aborted
    faults    \* faults so far

tables == <<gstate, root, pstate, pjob, jobs>>
workers == <<work, stray, built, rejected, expired>>
vars == <<tables, workers, sched, handler, aborted, faults>>

GroupState == {"Unused", "Queued", "Pending", "Dispatching", "Complete", "Failed", "Canceled"}
ProjectState == {"Absent", "NotStarted", "InProgress", "Success", "Failure", "Skipped", "Canceled"}
JobState == {"Pending", "Dispatched", "Complete", "Failed", "Rejected",
             "CancelPending", "CancelProcessing", "CancelComplete"}
Row == [state : JobState, group : Group, project : Project, synced : BOOLEAN, count : Int]
Unused == [state |-> "Unused"]
\* No worker; StartJob sent, CancelJob sent after it; building, CancelJob sent, CancelJob
\* read; the result sent, the worker not known to be ready.
WorkState == {"idle", "sent", "sentStop", "running", "runStop", "stopping", "done"}

Snapshot == [Project -> ProjectState]
NoSnapshot == [p \in Project |-> "Absent"]
Status == [id : Job, state : JobState]
At == {"status", "sync", "skip", "read", "write", "ack", "promote", "check", "work",
       "dispatch", "link"}
Waiting == [at |-> "status", todo |-> {}, queue |-> {}, job |-> NoJob, group |-> NoGroup,
            snap |-> NoSnapshot, plan |-> {}, new |-> "Unused"]
Idle == [op |-> "idle"]

Active(g) == gstate[g] \in {"Pending", "Dispatching"}
QueuedFor(r) == {g \in Group : gstate[g] = "Queued" /\ root[g] = r}
Created == {j \in Job : jobs[j] # Unused}

\* Something that need not happen, of the given kind, happens once more.
Budget(kind) == kind \in Fault /\ faults < MaxFault /\ faults' = faults + 1

-----------------------------------------------------------------------------
(* What the scheduler computes from a group it has read.                    *)

\* check_dispatchable for every dependency.
DepsBuilt(snap, p) == \A d \in Deps[p] : snap[d] \in {"Absent", "Success"}

\* Mutant: what a project depends on only has to be settled.
Dispatchable_AnyOutcome(snap) ==
    {p \in Project : snap[p] = "NotStarted" /\
        \A d \in Deps[p] : snap[d] \in {"Absent", "Success", "Skipped", "InProgress"}}
Dispatchable(snap) == {p \in Project : snap[p] = "NotStarted" /\ DepsBuilt(snap, p)}

\* Mutant: a project is skipped whether or not it is in the group.
SkipProjects_NotInGroup(snap, name) ==
    LET skipped[p \in Project] == p = name \/ \E d \in Deps[p] : skipped[d]
    IN  {p \in Project \ {name} : snap[p] \in {"NotStarted", "Absent"} /\ skipped[p]}
\* skip_projects: one pass over the list; a project that depends on a skipped one
\* is skipped too.
SkipProjects(snap, name) ==
    LET skipped[p \in Project] ==
            p = name \/ (snap[p] = "NotStarted" /\ \E d \in Deps[p] : skipped[d])
    IN  {p \in Project \ {name} : snap[p] = "NotStarted" /\ skipped[p]}

\* Mutant: what is being built does not count as remaining.
NewState_InProgressDone(snap) ==
    IF \A p \in Project : snap[p] \notin {"NotStarted", "Canceled"} THEN "Complete"
    ELSE IF \E p \in Project : snap[p] = "Canceled" THEN "Canceled"
    ELSE IF Dispatchable(snap) # {} THEN "Pending" ELSE "Dispatching"
\* The state update_group_state gives a group that is Dispatching.
NewState(snap) ==
    LET remaining == {p \in Project : snap[p] \in {"NotStarted", "InProgress", "Canceled"}}
    IN  IF remaining = {} THEN "Complete"
        ELSE IF \E p \in Project : snap[p] = "Canceled" THEN "Canceled"
        ELSE IF Dispatchable(snap) # {} THEN "Pending" ELSE "Dispatching"

\* Mutant: a cancelation on its way is no state of a project.
ProjectStateOf_CancelAsIs(state) ==
    CASE state = "Complete" -> "Success"
      [] state = "Rejected" -> "NotStarted"
      [] state = "Failed" -> "Failure"
      [] state \in {"Pending", "Dispatched"} -> "InProgress"
      [] OTHER -> state
\* set_job_group_job_state.
ProjectStateOf(state) ==
    CASE state = "Complete" -> "Success"
      [] state = "Rejected" -> "NotStarted"
      [] state = "Failed" -> "Failure"
      [] state \in {"Pending", "Dispatched"} -> "InProgress"
      [] OTHER -> "Canceled"

SetProjects(g, ps, state) ==
    pstate' = [pstate EXCEPT ![g] = [p \in Project |-> IF p \in ps THEN state ELSE pstate[g][p]]]

-----------------------------------------------------------------------------
Init ==
    /\ gstate = [g \in Group |-> "Unused"]
    /\ root = [g \in Group |-> NoGroup]
    /\ pstate = [g \in Group |-> NoSnapshot]
    /\ pjob = [g \in Group |-> [p \in Project |-> NoJob]]
    /\ jobs = [j \in Job |-> Unused]
    /\ work = [j \in Job |-> "idle"]
    /\ sched = Waiting
    /\ handler = [h \in Handler |-> Idle]
    /\ stray = {} /\ built = {} /\ rejected = {} /\ expired = {} /\ aborted = {} /\ faults = 0

(***************************************************************************)
(* The scheduler thread, process_status: the jobs whose status is not      *)
(* synced are read once and then handled in any order.                     *)
(***************************************************************************)
Unsynced == {j \in Created : ~jobs[j].synced \/ jobs[j].count > 0}

SyncJobs ==
    /\ sched.at = "status"
    /\ sched' = [sched EXCEPT !.at = "sync",
                    !.todo = {[id |-> j, state |-> jobs[j].state] : j \in Unsynced}]
    /\ UNCHANGED <<tables, workers, handler, aborted, faults>>

\* Where a status leads once the project has it.
AfterStatus(state) ==
    CASE state = "Failed" -> "skip"
      [] state \in {"Complete", "CancelComplete"} -> "read"
      [] OTHER -> "ack"

\* get_group and set_job_group_job_state for one of the jobs.
ApplyStatus(s) ==
    /\ sched.at = "sync" /\ s \in sched.todo
    /\ LET g == jobs[s.id].group
       IN  /\ SetProjects(g, {jobs[s.id].project}, ProjectStateOf(s.state))
           /\ pjob' = [pjob EXCEPT ![g][jobs[s.id].project] = s.id]
           /\ sched' = [sched EXCEPT !.at = AfterStatus(s.state), !.todo = @ \ {s},
                           !.job = s.id, !.group = g, !.snap = pstate[g]]
    /\ UNCHANGED <<gstate, root, jobs, workers, handler, aborted, faults>>

SkipFailed ==
    /\ sched.at = "skip"
    /\ SetProjects(sched.group, SkipProjects(sched.snap, jobs[sched.job].project) , "Skipped")
    /\ sched' = [sched EXCEPT !.at = "read", !.snap = NoSnapshot]
    /\ UNCHANGED <<gstate, root, pjob, jobs, workers, handler, aborted, faults>>

\* Where update_group_state returns to: process_status or process_work.
Return == IF sched.job = NoJob THEN "work" ELSE "ack"

\* update_group_state reads the group; only one that is Dispatching is updated.
ReadGroup ==
    /\ sched.at = "read"
    /\ sched' = IF gstate[sched.group] = "Dispatching"
                THEN [sched EXCEPT !.at = "write", !.snap = NoSnapshot,
                        !.new = NewState(pstate[sched.group])]
                ELSE [sched EXCEPT !.at = Return, !.snap = NoSnapshot]
    /\ UNCHANGED <<tables, workers, handler, aborted, faults>>

WriteGroup ==
    /\ sched.at = "write"
    /\ gstate' = [gstate EXCEPT ![sched.group] = sched.new]
    /\ sched' = [sched EXCEPT !.at = Return, !.new = "Unused"]
    /\ UNCHANGED <<root, pstate, pjob, jobs, workers, handler, aborted, faults>>

SetJobSync ==
    /\ sched.at = "ack"
    /\ LET row == jobs[sched.job]
       IN  jobs' = [jobs EXCEPT ![sched.job] = [state |-> row.state, group |-> row.group,
                        project |-> row.project, synced |-> TRUE, count |-> row.count - 1]]
    /\ sched' = [sched EXCEPT !.at = "sync", !.job = NoJob, !.group = NoGroup, !.snap = NoSnapshot]
    /\ UNCHANGED <<gstate, root, pstate, pjob, workers, handler, aborted, faults>>

(***************************************************************************)
(* process_queue: a queued group becomes Pending if no group of the same   *)
(* project is active.                                                      *)
(***************************************************************************)
ReadQueue ==
    /\ sched.at = "sync" /\ sched.todo = {}
    /\ sched' = [sched EXCEPT !.at = "check", !.queue = {g \in Group : gstate[g] = "Queued"}]
    /\ UNCHANGED <<tables, workers, handler, aborted, faults>>

\* Mutant: a group that is being dispatched does not count.
IsJobGroupActive_PendingOnly(r) == \E g \in Group : root[g] = r /\ gstate[g] = "Pending"
IsJobGroupActive(r) == \E g \in Group : root[g] = r /\ Active(g)

CheckQueued(g) ==
    /\ sched.at = "check" /\ g \in sched.queue
    /\ sched' = IF IsJobGroupActive(root[g])
                THEN [sched EXCEPT !.queue = @ \ {g}]
                ELSE [sched EXCEPT !.at = "promote", !.queue = @ \ {g}, !.group = g]
    /\ UNCHANGED <<tables, workers, handler, aborted, faults>>

Promote ==
    /\ sched.at = "promote"
    /\ gstate' = [gstate EXCEPT ![sched.group] = "Pending"]
    /\ sched' = [sched EXCEPT !.at = "check", !.group = NoGroup]
    /\ UNCHANGED <<root, pstate, pjob, jobs, workers, handler, aborted, faults>>

(***************************************************************************)
(* process_work: the pending groups, the oldest first, until none is left. *)
(***************************************************************************)
AtWork == sched.at = "work" \/ (sched.at = "check" /\ sched.queue = {})
PendingGroups == {g \in Group : gstate[g] = "Pending"}

\* pending_groups sets the group it returns to Dispatching.
TakeGroup ==
    /\ AtWork
    /\ \E g \in PendingGroups :
          /\ \A o \in PendingGroups : g <= o
          /\ gstate' = [gstate EXCEPT ![g] = "Dispatching"]
          /\ sched' = [sched EXCEPT !.at = "dispatch", !.job = NoJob, !.group = g,
                          !.snap = pstate[g], !.plan = Dispatchable(pstate[g])]
    /\ UNCHANGED <<root, pstate, pjob, jobs, workers, handler, aborted, faults>>

NothingPending ==
    /\ AtWork /\ PendingGroups = {}
    /\ sched' = Waiting
    /\ UNCHANGED <<tables, workers, handler, aborted, faults>>

\* The next project of dispatch_group.
NextOf(plan, p) == p \in plan /\ \A q \in plan : p <= q

\* schedule_job and create_job: the job is in its table before its project knows.
CreateJob(p, j) ==
    /\ sched.at = "dispatch" /\ NextOf(sched.plan, p) /\ p \in Connected
    /\ jobs[j] = Unused /\ \A i \in Job : i < j => jobs[i] # Unused
    /\ jobs' = [jobs EXCEPT ![j] = [state |-> "Pending", group |-> sched.group, project |-> p,
                                    synced |-> FALSE, count |-> 0]]
    /\ sched' = [sched EXCEPT !.at = "link", !.job = j, !.plan = @ \ {p}]
    /\ UNCHANGED <<gstate, root, pstate, pjob, workers, handler, aborted, faults>>

\* Mutant: the project is left to process_status.
LinkJob_Deferred ==
    /\ sched.at = "link"
    /\ sched' = [sched EXCEPT !.at = "dispatch", !.job = NoJob]
    /\ UNCHANGED <<tables, workers, handler, aborted, faults>>
LinkJob ==
    /\ sched.at = "link"
    /\ SetProjects(sched.group, {jobs[sched.job].project}, "InProgress")
    /\ pjob' = [pjob EXCEPT ![sched.group][jobs[sched.job].project] = sched.job]
    /\ sched' = [sched EXCEPT !.at = "dispatch", !.job = NoJob]
    /\ UNCHANGED <<gstate, root, jobs, workers, handler, aborted, faults>>

\* A project the origin server does not know is skipped with all that need it.
SkipUnconnected(p) ==
    /\ sched.at = "dispatch" /\ NextOf(sched.plan, p) /\ p \notin Connected
    /\ LET skipped == {p} \cup SkipProjects(sched.snap, p)
       IN  /\ SetProjects(sched.group, skipped, "Skipped")
           /\ sched' = [sched EXCEPT !.plan = @ \ skipped]
    /\ UNCHANGED <<gstate, root, pjob, jobs, workers, handler, aborted, faults>>

\* create_job fails: so does the group, with projects left as they are.
CreateFails(p) ==
    /\ sched.at = "dispatch" /\ NextOf(sched.plan, p) /\ p \in Connected
    /\ Budget("refuse")
    /\ gstate' = [gstate EXCEPT ![sched.group] = "Failed"]
    /\ SetProjects(sched.group, {p}, "Failure")
    /\ sched' = [sched EXCEPT !.at = "read", !.plan = {}]
    /\ UNCHANGED <<root, pjob, jobs, workers, handler, aborted>>

Dispatched ==
    /\ sched.at = "dispatch" /\ sched.plan = {}
    /\ sched' = [sched EXCEPT !.at = "read"]
    /\ UNCHANGED <<tables, workers, handler, aborted, faults>>

SchedulerStep ==
    \/ SyncJobs \/ SkipFailed \/ ReadGroup \/ WriteGroup \/ SetJobSync
    \/ ReadQueue \/ Promote \/ TakeGroup \/ NothingPending \/ LinkJob \/ Dispatched
    \/ \E s \in sched.todo : ApplyStatus(s)
    \/ \E g \in Group : CheckQueued(g)
    \/ \E p \in Project : SkipUnconnected(p) \/ CreateFails(p) \/ \E j \in Job : CreateJob(p, j)

(***************************************************************************)
(* The request handlers.                                                   *)
(***************************************************************************)
\* What the package graph says is built again when a project changes.
Above[p \in Project] ==
    Deps[p] \cup UNION {Above[d] : d \in Deps[p]}
Rdeps(r) == {p \in Project : r \in Above[p]}
\* The lists a request can ask for: everything, without r itself, or r alone.
ProjectLists(r) == {Rdeps(r) \cup {r}, Rdeps(r), {r}} \ {{}}

\* job_group_create looks for a queued group first, and returns that.
LookForQueued(h, r) ==
    /\ handler[h] = Idle /\ QueuedFor(r) = {}
    /\ handler' = [handler EXCEPT ![h] = [op |-> "create", root |-> r]]
    /\ UNCHANGED <<tables, workers, sched, aborted, faults>>

InsertGroup(h, g, list) ==
    /\ handler[h].op = "create" /\ list \in ProjectLists(handler[h].root)
    /\ gstate[g] = "Unused" /\ \A o \in Group : o < g => gstate[o] # "Unused"
    /\ gstate' = [gstate EXCEPT ![g] = "Queued"]
    /\ root' = [root EXCEPT ![g] = handler[h].root]
    /\ SetProjects(g, list, "NotStarted")
    /\ handler' = [handler EXCEPT ![h] = Idle]
    /\ UNCHANGED <<pjob, jobs, workers, sched, aborted, faults>>

\* job_group_cancel reads the group,
ReadToCancel(h, g) ==
    /\ handler[h] = Idle /\ gstate[g] # "Unused"
    /\ Budget("cancel")
    /\ handler' = [handler EXCEPT ![h] = [op |-> "cancel", group |-> g,
            jobs |-> {pjob[g][p] : p \in {q \in Project : pstate[g][q] = "InProgress"}}]]
    /\ UNCHANGED <<tables, workers, sched, aborted>>

\* cancels it with the projects not started,
CancelGroup(h) ==
    /\ handler[h].op = "cancel"
    /\ LET g == handler[h].group
       IN  /\ gstate' = [gstate EXCEPT ![g] = "Canceled"]
           /\ SetProjects(g, {p \in Project : pstate[g][p] = "NotStarted"}, "Canceled")
    /\ handler' = [handler EXCEPT ![h].op = "cancelJobs"]
    /\ UNCHANGED <<root, pjob, jobs, workers, sched, aborted, faults>>

\* update_job.
Updated(j, state) ==
    [jobs EXCEPT ![j] = [state |-> state, group |-> jobs[j].group, project |-> jobs[j].project,
                         synced |-> FALSE, count |-> jobs[j].count + 1]]

\* and then the jobs it read, whatever has become of them.
CancelJob(h, j) ==
    /\ handler[h].op = "cancelJobs" /\ j \in handler[h].jobs
    /\ jobs' = Updated(j, "CancelPending")
    /\ handler' = [handler EXCEPT ![h].jobs = @ \ {j}]
    /\ UNCHANGED <<gstate, root, pstate, pjob, workers, sched, aborted, faults>>

CancelDone(h) ==
    /\ handler[h].op = "cancelJobs" /\ handler[h].jobs = {}
    /\ handler' = [handler EXCEPT ![h] = Idle]
    /\ UNCHANGED <<tables, workers, sched, aborted, faults>>

\* job_group_abort.
Abort(g) ==
    /\ gstate[g] # "Unused"
    /\ Budget("abort")
    /\ gstate' = [gstate EXCEPT ![g] = "Complete"]
    /\ SetProjects(g, {p \in Project : pstate[g][p] \in {"InProgress", "NotStarted"}}, "Failure")
    /\ aborted' = aborted \cup {g}
    /\ UNCHANGED <<root, pjob, jobs, workers, sched, handler>>

HandlerStep ==
    \/ \E h \in Handler, r \in Root : LookForQueued(h, r)
    \/ \E h \in Handler, g \in Group, list \in SUBSET Project : InsertGroup(h, g, list)
    \/ \E h \in Handler, g \in Group : ReadToCancel(h, g)
    \/ \E h \in Handler : CancelGroup(h) \/ CancelDone(h) \/ \E j \in Job : CancelJob(h, j)
    \/ \E g \in Group : Abort(g)

(***************************************************************************)
(* The worker manager and its workers, as the statuses they write.         *)
(***************************************************************************)
\* next_pending_job and worker_start_job: the oldest pending job.
StartJob(j) ==
    /\ j \in Created /\ jobs[j].state = "Pending"
    /\ \A i \in Created : jobs[i].state = "Pending" => j <= i
    /\ work[j] = "idle"
    /\ jobs' = [jobs EXCEPT ![j] = [state |-> "Dispatched", group |-> jobs[j].group,
                    project |-> jobs[j].project, synced |-> FALSE, count |-> jobs[j].count]]
    /\ work' = [work EXCEPT ![j] = "sent"]
    /\ UNCHANGED <<gstate, root, pstate, pjob, stray, built, rejected, expired, sched, handler, aborted, faults>>

\* process_job_status: the state the worker sends, whatever the table says.
Report(j, state) ==
    /\ jobs' = Updated(j, state)
    /\ built' = IF state = "Complete" THEN built \cup {<<jobs[j].group, jobs[j].project>>} ELSE built
    /\ rejected' = IF state = "Rejected" THEN rejected \cup {j} ELSE rejected
    /\ UNCHANGED <<gstate, root, pstate, pjob, expired, sched, handler, aborted>>

Started(j) ==
    /\ work[j] \in {"sent", "sentStop"}
    /\ work' = [work EXCEPT ![j] = IF @ = "sent" THEN "running" ELSE "runStop"]
    /\ Report(j, "Dispatched")
    /\ UNCHANGED <<stray, faults>>

\* A worker that is busy after all.
Reject(j) ==
    /\ work[j] = "sent"
    /\ Budget("reject")
    /\ work' = [work EXCEPT ![j] = "done"]
    /\ Report(j, "Rejected")
    /\ UNCHANGED stray

StopRead(j) ==
    /\ work[j] = "runStop"
    /\ work' = [work EXCEPT ![j] = "stopping"]
    /\ Report(j, "CancelProcessing")
    /\ UNCHANGED <<stray, faults>>

\* A build that is to stop may be past the last point where it looks.
Finish(j, state) ==
    /\ work[j] \in {"running", "runStop", "stopping"}
    /\ state \in {"Complete", "Failed"} \/ (state = "CancelComplete" /\ work[j] = "stopping")
    /\ work' = [work EXCEPT ![j] = "done"]
    /\ Report(j, state)
    /\ UNCHANGED <<stray, faults>>

\* process_heartbeat: a Ready worker whose job is over.
Ready(j) ==
    /\ work[j] = "done"
    /\ jobs[j].state \in {"Complete", "Failed", "CancelComplete", "Rejected"}
    /\ work' = [work EXCEPT ![j] = "idle"]
    /\ UNCHANGED <<tables, stray, built, rejected, expired, sched, handler, aborted, faults>>

Stopped(w) ==
    CASE w = "sent" -> "sentStop" [] w = "running" -> "runStop" [] OTHER -> w

\* process_cancelations.  A worker that is ready again ignores CancelJob.
ProcessCancel(j) ==
    /\ j \in Created /\ jobs[j].state = "CancelPending"
    /\ work' = [work EXCEPT ![j] = Stopped(@)]
    /\ Report(j, IF work[j] = "idle" THEN "CancelComplete" ELSE "CancelProcessing")
    /\ UNCHANGED <<stray, faults>>

\* process_heartbeat: a Busy worker whose job has taken too long.
CancelExpired(j) ==
    /\ work[j] \in {"running", "done"}
    /\ Budget("timeout")
    /\ work' = [work EXCEPT ![j] = Stopped(@)]
    /\ Report(j, "CancelProcessing")
    /\ UNCHANGED stray

\* expire_workers and requeue_job.  The worker is dead, or only silent.
Requeue(j) ==
    /\ work[j] # "idle"
    /\ Budget("requeue")
    /\ work' = [work EXCEPT ![j] = "idle"]
    /\ stray' \in {stray, IF work[j] = "done" THEN stray ELSE stray \cup {j}}
    /\ expired' = expired \cup {j}
    /\ jobs' = CASE jobs[j].state = "Dispatched" -> Updated(j, "Pending")
                 [] jobs[j].state \in {"CancelPending", "CancelProcessing"} -> Updated(j, "CancelComplete")
                 [] OTHER -> jobs
    /\ UNCHANGED <<gstate, root, pstate, pjob, built, rejected, sched, handler, aborted>>

\* The result of a worker that was given up for lost.
ReportLate(j, state) ==
    /\ j \in stray /\ state \in {"Complete", "Failed"}
    /\ stray' = stray \ {j}
    /\ Report(j, state)
    /\ UNCHANGED <<work, faults>>

WorkerStep(j) ==
    \/ StartJob(j) \/ Started(j) \/ StopRead(j) \/ Ready(j) \/ ProcessCancel(j)
    \/ \E state \in JobState : Finish(j, state) \/ ReportLate(j, state)

WorkerFault(j) == Reject(j) \/ CancelExpired(j) \/ Requeue(j)

\* The server is started again: it knows what the tables say.
Restart ==
    /\ Budget("restart")
    /\ sched' = Waiting
    /\ handler' = [h \in Handler |-> Idle]
    /\ UNCHANGED <<tables, workers, aborted>>

Next == SchedulerStep \/ HandlerStep \/ Restart \/ \E j \in Job : WorkerStep(j) \/ WorkerFault(j)
Spec == Init /\ [][Next]_vars

-----------------------------------------------------------------------------
(* Properties *)

\* The tables hold what the code can write, and the scheduler thread is somewhere in
\* its loop with the values it needs there.
TypeOK ==
    /\ gstate \in [Group -> GroupState]
    /\ root \in [Group -> Root \cup {NoGroup}]
    /\ pstate \in [Group -> Snapshot]
    /\ pjob \in [Group -> [Project -> Job \cup {NoJob}]]
    /\ jobs \in [Job -> Row \cup {Unused}]
    /\ work \in [Job -> WorkState] /\ stray \subseteq Created
    /\ built \subseteq Group \X Project /\ rejected \subseteq Created /\ expired \subseteq Created
    /\ sched \in [at : At, todo : SUBSET Status, queue : SUBSET Group, job : Job \cup {NoJob},
                  group : Group \cup {NoGroup}, snap : Snapshot, plan : SUBSET Project,
                  new : GroupState]
    /\ handler \in [Handler -> {Idle} \cup [op : {"create"}, root : Root]
                           \cup [op : {"cancel", "cancelJobs"}, group : Group, jobs : SUBSET Created]]
    /\ aborted \subseteq Group /\ faults \in 0 .. MaxFault

\* At most one group of a project is Pending or Dispatching, although groups are
\* created, canceled and aborted between the reads and the writes of the scheduler
\* (is_job_group_active in process_queue, the write of update_group_state).
OneActiveGroup ==
    \A g, o \in Group : g # o /\ Active(g) /\ Active(o) => root[g] # root[o]

\* A job is created only when a worker has reported a complete build of everything in
\* the group that its project depends on (check_dispatchable, set_job_group_job_state).
BuildsAfterDeps ==
    \A j \in Created : \A d \in Deps[jobs[j].project] :
        pstate[jobs[j].group][d] # "Absent" => <<jobs[j].group, d>> \in built

\* A group builds a project again only after the job was rejected, whatever interrupts
\* the scheduler between creating a job and recording it (schedule_job, dispatch_group).
NoDoubleBuild ==
    \A i, j \in Created : i < j /\ jobs[i].group = jobs[j].group /\ jobs[i].project = jobs[j].project
        => i \in rejected

\* No build of a group that is Complete waits or runs, unless the group was aborted or
\* the worker of the job was given up for lost and reported after all (update_group_state).
CompleteMeansDone ==
    \A j \in Created \ expired : gstate[jobs[j].group] = "Complete" /\ jobs[j].group \notin aborted
        => jobs[j].state # "Pending" /\ work[j] \in {"idle", "done"}

\* Between two rounds of the scheduler, the project of a job that sync_jobs does not
\* return has the state of that job: "Get a list of jobs with un-sync'd status"
\* (scheduler.rs, process_status).
StatusSynced ==
    sched.at = "status" =>
        \A j \in Created \ Unsynced :
            pstate[jobs[j].group][jobs[j].project] = ProjectStateOf(jobs[j].state)

\* get_queued_job_group asserts that a project has one queued group at most: "should
\* never have more than one" (data_store.rs).
OneQueued == \A r \in Root : Cardinality(QueuedFor(r)) <= 1
=============================================================================
