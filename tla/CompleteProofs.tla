-------------------------- MODULE CompleteProofs --------------------------
(***************************************************************************)
(* A group that is Complete has no build that waits or runs, where workers *)
(* neither reject jobs nor are given up for lost.                          *)
(***************************************************************************)
EXTENDS BuildOrderProofs

-----------------------------------------------------------------------------
(* What skip_projects skips depends on something that is skipped.           *)

IsSkipped(f, snap, name) ==
    f = [p \in Project |-> p = name \/ (snap[p] = "NotStarted" /\ \E d \in Deps[p] : f[d])]

\* The list that skip_projects builds exists: it is the least set that has the project
\* and, with a project, what is not started and depends on it.
LEMMA SkippedExists ==
    ASSUME NEW snap, NEW name
    PROVE  \E f : IsSkipped(f, snap, name)
  <1> DEFINE Follows(S) == {p \in Project : p = name \/ (snap[p] = "NotStarted" /\ \E d \in Deps[p] : d \in S)}
             Least == {p \in Project : \A S \in SUBSET Project : Follows(S) \subseteq S => p \in S}
  <1>1. \A p \in Project : Deps[p] \subseteq Project
    BY ProjectAssumption
  <1>2. Follows(Least) \subseteq Least
    <2> SUFFICES ASSUME NEW p \in Follows(Least), NEW S \in SUBSET Project, Follows(S) \subseteq S
                 PROVE  p \in S
      OBVIOUS
    <2>1. Least \subseteq S
      OBVIOUS
    <2>2. p \in Follows(S)
      BY <2>1
    <2> QED
      BY <2>2
  <1>3. Least \subseteq Follows(Least)
    <2>1. Follows(Least) \in SUBSET Project
      BY Zenon
    <2>2. Follows(Follows(Least)) \subseteq Follows(Least)
      BY <1>2
    <2> QED
      BY <2>1, <2>2, Zenon
  <1> DEFINE f == [p \in Project |-> p \in Least]
  <1>4. \A p \in Project : p \in Least <=> p = name \/ (snap[p] = "NotStarted" /\ \E d \in Deps[p] : d \in Least)
    BY <1>2, <1>3, Zenon
  <1> HIDE DEF Least
  <1>5. f = [p \in Project |-> p = name \/ (snap[p] = "NotStarted" /\ \E d \in Deps[p] : f[d])]
    <2>1. ASSUME NEW p \in Project
          PROVE  f[p] = (p = name \/ (snap[p] = "NotStarted" /\ \E d \in Deps[p] : f[d]))
      <3>1. \A d \in Deps[p] : f[d] = (d \in Least)
        BY <1>1, Zenon
      <3>2. f[p] = (p \in Least)
        OBVIOUS
      <3> HIDE DEF f
      <3>3. (\E d \in Deps[p] : f[d]) <=> (\E d \in Deps[p] : d \in Least)
        BY <3>1, Zenon
      <3>4. (p \in Least) <=> (p = name \/ (snap[p] = "NotStarted" /\ \E d \in Deps[p] : f[d]))
        BY <1>4, <3>3, Zenon
      <3> QED
        BY <3>2, <3>4
    <2>2. f = [p \in Project |-> f[p]]
      BY Zenon
    <2> HIDE DEF f
    <2> QED
      BY <2>1, <2>2, Zenon
  <1> QED
    BY <1>5, Zenon DEF IsSkipped

LEMMA SkipDeps ==
    ASSUME NEW snap, NEW name, NEW q \in SkipProjects(snap, name)
    PROVE  \E d \in Deps[q] : d = name \/ snap[d] = "NotStarted"
  <1> DEFINE skipped == CHOOSE f : IsSkipped(f, snap, name)
  <1>1. IsSkipped(skipped, snap, name)
    BY SkippedExists, Zenon
  <1>2. q \in Project \ {name} /\ skipped[q]
    BY DEF SkipProjects, IsSkipped
  <1> HIDE DEF skipped
  <1>3. PICK d \in Deps[q] : skipped[d]
    BY <1>1, <1>2, Zenon DEF IsSkipped
  <1>4. d \in Project
    BY <1>2, ProjectAssumption, Zenon
  <1> QED
    BY <1>1, <1>3, <1>4, Zenon DEF IsSkipped

-----------------------------------------------------------------------------
(* A group is complete when its builds are over, if workers neither reject  *)
(* jobs nor are given up for lost.                                          *)

Reliable == "reject" \notin Fault /\ "requeue" \notin Fault

\* No worker will start the job any more or is building it.
Over(j) == jobs[j].state \notin {"Pending", "Dispatched"} /\ work[j] \in {"idle", "done"}
Settled(j) == Over(j) \/ jobs[j].group \in aborted

\* The states of a job after its build was reported Complete.
Final == {"Complete", "CancelPending", "CancelProcessing", "CancelComplete"}

\* A result is reported at the end of the build, and stays the result.
ReportedInv ==
    /\ rejected = {} /\ stray = {}
    /\ \A j \in Created : jobs[j].state \in {"Complete", "Failed"} => Over(j)
    /\ \A b \in built : \E j \in Created : b = Of(j)
    /\ \A j \in Created : Of(j) \in built => jobs[j].state \in Final /\ Over(j)

\* The same of what the thread has read; what a job needs was complete before the job
\* was created.
ListInv ==
    /\ \A s \in sched.todo : s.state \in {"Complete", "Failed"} => Over(s.id)
    /\ \A s \in sched.todo : \A j \in Created : \A d \in Deps[jobs[j].project] :
          Of(s.id) = <<jobs[j].group, d>> => s.state \in Final

\* A project that is settled has no build going on, and so a group that is Complete.
SettledInv ==
    /\ \A j \in Created : pstate[jobs[j].group][jobs[j].project] \in {"Success", "Failure", "Skipped"} => Settled(j)
    /\ \A j \in Created : gstate[jobs[j].group] = "Complete" => Settled(j)

WriteInv ==
    sched.at = "write" /\ sched.new = "Complete" =>
        \A j \in Created : jobs[j].group = sched.group => Settled(j)

\* What a job needs is never skipped, nor does it fail.
NeedsInv ==
    \A j \in Created : \A d \in Deps[jobs[j].project] :
        pstate[jobs[j].group][d] \in {"Absent", "Success", "Canceled"}

\* Nor is it about to be skipped with what failed,
SkipInv ==
    sched.at = "skip" => \A j \in Created : jobs[j].group = sched.group =>
        \A d \in Deps[jobs[j].project] : sched.snap[d] # "NotStarted" /\ d # jobs[sched.job].project

\* or with what cannot be built, while what was read of the group stays true of what
\* was built.
DispatchInv ==
    sched.at \in {"dispatch", "link"} =>
        /\ gstate[sched.group] = "Complete" => sched.group \in aborted
        /\ sched.plan \subseteq Dispatchable(sched.snap)
        /\ \A p \in sched.plan : pstate[sched.group][p] \in {"NotStarted", "Canceled"} \/ sched.group \in aborted
        /\ \A d \in Project : sched.snap[d] \in {"Absent", "Success"} => pstate[sched.group][d] = sched.snap[d]
        /\ \A j \in Created : jobs[j].group = sched.group =>
              \A d \in Deps[jobs[j].project] : sched.snap[d] # "NotStarted"
        /\ sched.at = "link" => sched.snap[jobs[sched.job].project] = "NotStarted"

DoneInv == ReportedInv /\ ListInv /\ SettledInv /\ WriteInv /\ NeedsInv /\ SkipInv /\ DispatchInv

\* A project has one job, and one that is left to dispatch has none.
LEMMA OneJob ==
    ASSUME OnceInv, DoneInv
    PROVE  /\ \A i, j \in Created : Of(i) = Of(j) => i = j
           /\ sched.at \in {"dispatch", "link"} => \A p \in sched.plan : \A j \in Created : Of(j) # <<sched.group, p>>
           /\ sched.at \in {"dispatch", "link"} => sched.todo = {}
  <1>1. Again = {}
    BY DEF DoneInv, ReportedInv, Again
  <1> QED
    BY <1>1, Zenon DEF OnceInv, BuiltTwice, PlanOnce, TodoInv, Handling

LEMMA RowTypes ==
    ASSUME IInv, NEW j \in Created
    PROVE  /\ j \in Job /\ jobs[j] \in Row /\ jobs[j].group \in Group /\ jobs[j].project \in Project
           /\ jobs[j].state \in JobState /\ Deps[jobs[j].project] \subseteq Project
           /\ gstate[jobs[j].group] # "Unused" /\ pstate[jobs[j].group][jobs[j].project] # "Absent"
  <1>1. jobs[j] \in Row /\ j \in Job
    BY CreatedRow, Zenon DEF IInv
  <1>2. jobs[j].group \in Group /\ jobs[j].project \in Project /\ jobs[j].state \in JobState
    BY <1>1, Zenon DEF Row
  <1> QED
    BY <1>1, <1>2, ProjectAssumption, Zenon DEF IInv, UsedInv

-----------------------------------------------------------------------------
(* The workers. *)

\* Only rows and what workers do with them change, and what is over stays over.
LEMMA RowsKeepDone ==
    ASSUME IInv, DoneInv, RowsSame, UNCHANGED <<gstate, pstate, sched, aborted>>,
           \A j \in Created : Over(j) => Over(j)',
           ReportedInv'
    PROVE  DoneInv'
  <1> USE DEF DoneInv
  <1>1. /\ Created' = Created
        /\ \A j \in Created : jobs'[j].group = jobs[j].group /\ jobs'[j].project = jobs[j].project /\ Of(j)' = Of(j)
    BY Zenon DEF RowsSame, Of
  <1>2. \A j \in Created : Settled(j) => Settled(j)'
    BY <1>1 DEF Settled
  <1>3. \A s \in sched.todo : s.id \in Created
    BY Zenon DEF IInv, SchedInv
  <1>4. ListInv'
    <2>1. \A s \in sched.todo : s.state \in {"Complete", "Failed"} => Over(s.id)'
      BY <1>3, Zenon DEF ListInv
    <2>2. \A s \in sched.todo : \A j \in Created : \A d \in Deps[jobs[j].project] :
             Of(s.id) = <<jobs[j].group, d>> => s.state \in Final
      BY Zenon DEF ListInv
    <2>3. \A s \in sched.todo : Of(s.id)' = Of(s.id)
      BY <1>1, <1>3
    <2> QED
      BY <1>1, <2>1, <2>2, <2>3, Zenon DEF ListInv
  <1>5. SettledInv'
    BY <1>1, <1>2, Zenon DEF SettledInv
  <1>6. WriteInv'
    BY <1>1, <1>2, Zenon DEF WriteInv
  <1>7. NeedsInv'
    BY <1>1, Zenon DEF NeedsInv
  <1>8. SkipInv'
    BY <1>1, Zenon DEF SkipInv, IInv, SchedInv
  <1>9. DispatchInv'
    BY <1>1, Zenon DEF DispatchInv, IInv, SchedInv
  <1> QED
    BY <1>4, <1>5, <1>6, <1>7, <1>8, <1>9

\* A report leaves over what is over, and a result is not followed by another.
LEMMA ReportDone ==
    ASSUME IInv, OnceInv, DoneInv, NEW j \in Created, NEW state \in JobState \ {"Pending", "Rejected"}, Report(j, state),
           NEW w \in WorkState, work' = [work EXCEPT ![j] = w], UNCHANGED stray,
           Over(j) => state \in Final /\ w \in {"idle", "done"},
           state \in {"Complete", "Failed"} => w \in {"idle", "done"}
    PROVE  DoneInv'
  <1> USE DEF DoneInv
  <1>1. RowsKept /\ jobs'[j].state = state /\ \A i \in Job \ {j} : jobs'[i] = jobs[i]
    BY UpdatedKeeps, Zenon DEF Report, IInv
  <1>2. /\ built' = IF state = "Complete" THEN built \cup {Of(j)} ELSE built
        /\ rejected' = rejected /\ UNCHANGED <<gstate, pstate, sched, aborted>>
    BY Zenon DEF Report, Of
  <1>3. j \in Job /\ work'[j] = w /\ \A i \in Job \ {j} : work'[i] = work[i]
    BY RowTypes, Zenon DEF IInv, TypeOK
  <1>4. \A i \in Created \ {j} : /\ i \in Job /\ jobs'[i] = jobs[i] /\ work'[i] = work[i]
                                  /\ Over(i)' = Over(i) /\ Of(i)' = Of(i)
    BY <1>1, <1>3, Zenon DEF Over, Of, Created
  <1>5. Of(j)' = Of(j) /\ Created' = Created /\ RowsSame
    BY <1>1, Zenon DEF RowsKept, Of, RowsSame
  <1>6. Over(j)' <=> state # "Dispatched" /\ w \in {"idle", "done"}
    BY <1>1, <1>3, Zenon DEF Over
  <1>7. Over(j) => Over(j)'
    BY <1>6, Zenon DEF Final
  <1>8. ReportedInv'
    <2>1. (rejected = {} /\ stray = {})'
      BY <1>2, Zenon DEF ReportedInv
    <2>2. \A i \in Created' : jobs'[i].state \in {"Complete", "Failed"} => Over(i)'
      BY <1>1, <1>4, <1>5, <1>6, Zenon DEF ReportedInv
    <2>3. \A b \in built' : \E i \in Created' : b = Of(i)'
      <3> SUFFICES ASSUME NEW b \in built' PROVE \E i \in Created : b = Of(i)
        BY <1>4, <1>5, Zenon
      <3> QED
        BY <1>2, Zenon DEF ReportedInv
    <2>4. \A i \in Created' : Of(i)' \in built' => jobs'[i].state \in Final /\ Over(i)'
      <3> SUFFICES ASSUME NEW i \in Created, Of(i) \in built'
                   PROVE  jobs'[i].state \in Final /\ Over(i)'
        BY <1>4, <1>5, Zenon
      <3>1. CASE i = j
        <4>1. CASE Of(j) \in built
          BY <1>1, <1>7, <3>1, <4>1, Zenon DEF ReportedInv
        <4>2. CASE state = "Complete"
          BY <1>1, <1>6, <3>1, <4>2, Zenon DEF Final
        <4> QED
          BY <1>2, <3>1, <4>1, <4>2, Zenon
      <3>2. CASE i # j
        <4>1. Of(i) # Of(j)
          BY <3>2, OneJob, Zenon
        <4>2. Of(i) \in built
          BY <1>2, <4>1, Zenon
        <4> QED
          BY <1>4, <3>2, <4>2, Zenon DEF ReportedInv
      <3> QED
        BY <3>1, <3>2, Zenon
    <2> QED
      BY <2>1, <2>2, <2>3, <2>4, Zenon DEF ReportedInv
  <1>9. \A i \in Created : Over(i) => Over(i)'
    BY <1>4, <1>7, Zenon
  <1> QED
    BY <1>2, <1>5, <1>8, <1>9, RowsKeepDone, Zenon

LEMMA WorkerDone ==
    ASSUME Reliable, IInv, OnceInv, DoneInv, NEW j \in Job, WorkerStep(j) \/ WorkerFault(j)
    PROVE  DoneInv'
  <1> USE DEF IInv
  <1>0. (work[j] # "idle" => j \in Created) /\ stray = {} /\ work \in [Job -> WorkState]
    BY Zenon DEF JobInv, TypeOK, DoneInv, ReportedInv
  <1>1. CASE StartJob(j)
    <2>1. /\ j \in Created /\ jobs[j].state = "Pending" /\ work' = [work EXCEPT ![j] = "sent"]
          /\ jobs' = [jobs EXCEPT ![j] = [state |-> "Dispatched", group |-> jobs[j].group,
                    project |-> jobs[j].project, synced |-> FALSE, count |-> jobs[j].count]]
          /\ UNCHANGED <<gstate, pstate, stray, built, rejected, sched, aborted>>
      BY <1>1, Zenon DEF StartJob
    <2>2. /\ jobs'[j].state = "Dispatched"
          /\ \A i \in Job \ {j} : jobs'[i] = jobs[i] /\ work'[i] = work[i]
      BY <2>1, Zenon DEF TypeOK
    <2>3. RowsSame /\ Created' = Created /\ \A i \in Created : Of(i)' = Of(i)
      BY WorkerQuiet, Zenon DEF Quiet, RowsSame, Of
    <2>4. ~Over(j) /\ Of(j) \notin built
      BY <2>1, Zenon DEF Over, DoneInv, ReportedInv
    <2>5. \A i \in Created \ {j} : i \in Job /\ jobs'[i] = jobs[i] /\ Over(i)' = Over(i)
      BY <2>2, Zenon DEF Over, Created
    <2>6. ReportedInv'
      <3>1. \A i \in Created : jobs'[i].state \in {"Complete", "Failed"} => Over(i)'
        BY <2>2, <2>5, Zenon DEF DoneInv, ReportedInv
      <3>2. \A i \in Created : Of(i) \in built => jobs'[i].state \in Final /\ Over(i)'
        BY <2>4, <2>5, Zenon DEF DoneInv, ReportedInv
      <3>3. \A b \in built : \E i \in Created : b = Of(i)'
        BY <2>3, Zenon DEF DoneInv, ReportedInv
      <3> QED
        BY <2>1, <2>3, <3>1, <3>2, <3>3, Zenon DEF DoneInv, ReportedInv
    <2> QED
      BY <2>1, <2>3, <2>4, <2>5, <2>6, RowsKeepDone, Zenon
  <1>2. CASE Ready(j)
    <2>1. /\ work[j] = "done" /\ work' = [work EXCEPT ![j] = "idle"]
          /\ UNCHANGED <<gstate, pstate, jobs, stray, built, rejected, sched, aborted>>
      BY <1>2, Zenon DEF Ready, tables
    <2>2. Created' = Created /\ RowsSame /\ \A i : Of(i)' = Of(i)
      BY <2>1, Zenon DEF Created, RowsSame, Of
    <2>3. \A i \in Created : Over(i)' = Over(i)
      BY <1>0, <2>1, Zenon DEF Over, Created
    <2>4. ReportedInv'
      BY <2>1, <2>2, <2>3, Zenon DEF DoneInv, ReportedInv
    <2> QED
      BY <2>1, <2>2, <2>3, <2>4, RowsKeepDone, Zenon
  <1>3. CASE Started(j) \/ StopRead(j)
    <2>1. PICK state \in {"Dispatched", "CancelProcessing"}, w \in WorkState :
            Report(j, state) /\ work' = [work EXCEPT ![j] = w] /\ UNCHANGED stray
      BY <1>3, Zenon DEF Started, StopRead, WorkState
    <2>2. j \in Created /\ ~Over(j)
      BY <1>0, <1>3, Zenon DEF Started, StopRead, Over
    <2> QED
      BY <2>1, <2>2, ReportDone, Zenon DEF JobState
  <1>4. CASE ProcessCancel(j) \/ CancelExpired(j)
    <2>1. PICK state \in {"CancelComplete", "CancelProcessing"} :
            Report(j, state) /\ work' = [work EXCEPT ![j] = Stopped(work[j])] /\ UNCHANGED stray
      BY <1>4, Zenon DEF ProcessCancel, CancelExpired
    <2>2. j \in Created
      BY <1>0, <1>4, Zenon DEF ProcessCancel, CancelExpired
    <2>3. Stopped(work[j]) \in WorkState /\ (Over(j) => Stopped(work[j]) \in {"idle", "done"})
      BY <1>0, Zenon DEF Stopped, WorkState, Over
    <2> HIDE DEF IInv
    <2> QED
      BY <2>1, <2>2, <2>3, ReportDone, Zenon DEF JobState, Final
  <1>5. ASSUME NEW state \in JobState, Finish(j, state) PROVE DoneInv'
    <2>1. /\ state \in {"Complete", "Failed", "CancelComplete"} /\ work' = [work EXCEPT ![j] = "done"]
          /\ Report(j, state) /\ UNCHANGED stray /\ "done" \in WorkState
      BY <1>5, Zenon DEF Finish, WorkState
    <2>2. j \in Created /\ ~Over(j)
      BY <1>0, <1>5, Zenon DEF Finish, Over
    <2> QED
      BY <2>1, <2>2, ReportDone, Zenon DEF JobState
  <1>6. ASSUME NEW state \in JobState, ReportLate(j, state) PROVE FALSE
    BY <1>0, <1>6, Zenon DEF ReportLate
  <1>7. ~Reject(j) /\ ~Requeue(j)
    BY Zenon DEF Reject, Requeue, Budget, Reliable
  <1> QED
    BY <1>1, <1>2, <1>3, <1>4, <1>5, <1>6, <1>7, Zenon DEF WorkerStep, WorkerFault

-----------------------------------------------------------------------------
(* The request handlers. *)

\* What a request does to the projects of a group that has been created.
Stops(g) == \A p \in Project :
    \/ pstate'[g][p] = pstate[g][p]
    \/ pstate[g][p] = "NotStarted" /\ pstate'[g][p] = "Canceled"
    \/ pstate[g][p] \in {"NotStarted", "InProgress"} /\ g \in aborted'

LEMMA RequestKeepsDone ==
    ASSUME IInv, DoneInv, UNCHANGED <<jobs, work, stray, built, rejected, sched>>, aborted \subseteq aborted',
           \A g \in Group : gstate[g] # "Unused" =>
              Stops(g) /\ (gstate'[g] = "Complete" => gstate[g] = "Complete" \/ g \in aborted')
    PROVE  DoneInv'
  <1> USE DEF DoneInv
  <1>1. Created' = Created /\ \A j : Of(j)' = Of(j) /\ Over(j)' = Over(j) /\ (Settled(j) => Settled(j)')
    BY Zenon DEF Created, Of, Over, Settled
  <1>2. ReportedInv' /\ ListInv' /\ SkipInv'
    BY <1>1 DEF ReportedInv, ListInv, SkipInv, Over, Of
  <1>3. SettledInv'
    <2> SUFFICES ASSUME NEW j \in Created
                 PROVE  /\ pstate'[jobs[j].group][jobs[j].project] \in {"Success", "Failure", "Skipped"} => Settled(j)'
                        /\ gstate'[jobs[j].group] = "Complete" => Settled(j)'
      BY <1>1, Zenon DEF SettledInv
    <2>1. Stops(jobs[j].group) /\ (gstate'[jobs[j].group] = "Complete" =>
                gstate[jobs[j].group] = "Complete" \/ jobs[j].group \in aborted')
      BY RowTypes, Zenon
    <2>2. jobs[j].group \in aborted' => Settled(j)'
      BY Zenon DEF Settled
    <2>3. jobs[j].project \in Project
      BY RowTypes, Zenon
    <2> QED
      BY <1>1, <2>1, <2>2, <2>3, Zenon DEF SettledInv, Stops
  <1>4. WriteInv'
    BY <1>1, Zenon DEF WriteInv
  <1>5. NeedsInv'
    <2> SUFFICES ASSUME NEW j \in Created, NEW d \in Deps[jobs[j].project]
                 PROVE  pstate'[jobs[j].group][d] \in {"Absent", "Success", "Canceled"}
      BY <1>1, Zenon DEF NeedsInv
    <2>1. Stops(jobs[j].group) /\ d \in Project
      BY RowTypes, Zenon
    <2> QED
      BY <2>1, Zenon DEF Stops, NeedsInv
  <1>6. DispatchInv'
    <2> SUFFICES ASSUME sched.at \in {"dispatch", "link"} PROVE DispatchInv'
      BY Zenon DEF DispatchInv
    <2>1. /\ sched.group \in Group /\ gstate[sched.group] # "Unused" /\ sched.plan \subseteq Project
      BY Zenon DEF IInv, SchedInv, UsedInv, TypeOK
    <2>2. Stops(sched.group) /\ (gstate'[sched.group] = "Complete" =>
                gstate[sched.group] = "Complete" \/ sched.group \in aborted')
      BY <2>1, Zenon
    <2>3. \A p \in sched.plan : pstate'[sched.group][p] \in {"NotStarted", "Canceled"} \/ sched.group \in aborted'
      BY <2>1, <2>2, Zenon DEF DispatchInv, Stops
    <2>4. \A d \in Project : sched.snap[d] \in {"Absent", "Success"} => pstate'[sched.group][d] = sched.snap[d]
      BY <2>2, Zenon DEF DispatchInv, Stops
    <2>5. gstate'[sched.group] = "Complete" => sched.group \in aborted'
      BY <2>2, Zenon DEF DispatchInv
    <2> QED
      BY <1>1, <2>3, <2>4, <2>5, Zenon DEF DispatchInv
  <1> QED
    BY <1>2, <1>3, <1>4, <1>5, <1>6, Zenon

LEMMA HandlerDone ==
    ASSUME IInv, OnceInv, DoneInv, HandlerStep
    PROVE  DoneInv'
  <1> USE DEF IInv
  <1>1. ASSUME NEW h \in Handler, NEW j \in Job, CancelJob(h, j) PROVE DoneInv'
    <2>1. j \in Created /\ jobs' = Updated(j, "CancelPending")
      BY <1>1, RequestType, Zenon DEF CancelJob
    <2>2. RowsKept /\ jobs'[j].state = "CancelPending" /\ \A i \in Job \ {j} : jobs'[i] = jobs[i]
      BY <2>1, UpdatedKeeps, Zenon DEF JobState
    <2>3. UNCHANGED <<gstate, pstate, work, stray, built, rejected, sched, aborted>>
      BY <1>1, Zenon DEF CancelJob, workers
    <2>4. RowsSame /\ Created' = Created /\ \A i \in Created : Of(i)' = Of(i)
      BY <2>2, Zenon DEF RowsKept, RowsSame, Of
    <2>5. \A i \in Created : /\ Over(i) => Over(i)'
                             /\ jobs'[i].state = jobs[i].state \/ jobs'[i].state = "CancelPending"
      BY <2>2, <2>3, Zenon DEF Over, Created
    <2>6. ReportedInv'
      BY <2>3, <2>4, <2>5, Zenon DEF DoneInv, ReportedInv, Final
    <2> QED
      BY <2>3, <2>4, <2>5, <2>6, RowsKeepDone, Zenon
  <1>2. ASSUME NEW h \in Handler, \/ CancelDone(h) \/ (\E r \in Root : LookForQueued(h, r))
                                  \/ (\E g \in Group : ReadToCancel(h, g))
        PROVE  DoneInv'
    <2>1. UNCHANGED <<gstate, pstate, jobs, work, stray, built, rejected, sched, aborted>>
      BY <1>2, Zenon DEF CancelDone, LookForQueued, ReadToCancel, tables, workers
    <2> QED
      BY <2>1, RequestKeepsDone, Zenon DEF Stops
  <1>3. ASSUME NEW h \in Handler, NEW o \in Group, NEW list \in SUBSET Project, InsertGroup(h, o, list)
        PROVE  DoneInv'
    <2>1. UNCHANGED <<jobs, work, stray, built, rejected, sched, aborted>> /\ gstate[o] = "Unused"
      BY <1>3, Zenon DEF InsertGroup, workers
    <2>2. \A g \in Group, p \in Project :
              pstate'[g][p] = IF g = o /\ p \in list THEN "NotStarted" ELSE pstate[g][p]
      BY <1>3, SetProjectsType DEF InsertGroup, ProjectState
    <2>3. \A g \in Group : g # o => gstate'[g] = gstate[g]
      BY <1>3, Zenon DEF InsertGroup, TypeOK
    <2>4. \A g \in Group : gstate[g] # "Unused" => Stops(g) /\ gstate'[g] = gstate[g]
      BY <2>1, <2>2, <2>3, Zenon DEF Stops
    <2> QED
      BY <2>1, <2>4, RequestKeepsDone, Zenon
  <1>4. ASSUME NEW h \in Handler, CancelGroup(h) PROVE DoneInv'
    <2> DEFINE o == handler[h].group
    <2>1. UNCHANGED <<jobs, work, stray, built, rejected, sched, aborted>> /\ o \in Group
      BY <1>4, RequestType, Zenon DEF CancelGroup, workers
    <2>2. \A g \in Group, p \in Project :
              pstate'[g][p] = IF g = o /\ pstate[o][p] = "NotStarted" THEN "Canceled" ELSE pstate[g][p]
      BY <1>4, <2>1, SetProjectsType DEF CancelGroup, ProjectState
    <2>3. \A g \in Group : gstate'[g] = "Complete" => gstate[g] = "Complete"
      BY <1>4, <2>1, Zenon DEF CancelGroup, TypeOK
    <2>4. \A g \in Group : Stops(g)
      BY <2>2 DEF Stops
    <2> QED
      BY <2>1, <2>3, <2>4, RequestKeepsDone, Zenon
  <1>5. ASSUME NEW o \in Group, Abort(o) PROVE DoneInv'
    <2>1. UNCHANGED <<jobs, work, stray, built, rejected, sched>> /\ aborted' = aborted \cup {o}
      BY <1>5, Zenon DEF Abort, workers
    <2>2. \A g \in Group, p \in Project :
              pstate'[g][p] = IF g = o /\ pstate[o][p] \in {"InProgress", "NotStarted"} THEN "Failure" ELSE pstate[g][p]
      BY <1>5, SetProjectsType DEF Abort, ProjectState
    <2>3. \A g \in Group : gstate'[g] = "Complete" => gstate[g] = "Complete" \/ g \in aborted'
      BY <1>5, <2>1, Zenon DEF Abort, TypeOK
    <2>4. \A g \in Group : Stops(g)
      BY <2>1, <2>2, Zenon DEF Stops
    <2> QED
      BY <2>1, <2>3, <2>4, RequestKeepsDone, Zenon
  <1> QED
    BY <1>1, <1>2, <1>3, <1>4, <1>5, Zenon DEF HandlerStep

LEMMA RestartDone ==
    ASSUME IInv, DoneInv, Restart
    PROVE  DoneInv'
  <1>1. UNCHANGED <<gstate, pstate, jobs, work, stray, built, rejected, aborted>>
        /\ sched'.at = "status" /\ sched'.todo = {}
    BY Zenon DEF Restart, tables, workers, Waiting
  <1>2. Created' = Created /\ \A j : Of(j)' = Of(j) /\ Over(j)' = Over(j) /\ Settled(j)' = Settled(j)
    BY <1>1, Zenon DEF Created, Of, Over, Settled
  <1>3. ReportedInv' /\ SettledInv' /\ NeedsInv'
    BY <1>1, <1>2, Zenon DEF DoneInv, ReportedInv, SettledInv, NeedsInv
  <1> QED
    BY <1>1, <1>3, Zenon DEF DoneInv, ListInv, WriteInv, SkipInv, DispatchInv

-----------------------------------------------------------------------------
(* The scheduler thread. *)

\* It creates no job: what is left to show is about the projects it writes and where it
\* goes.
LEMMA ThreadKeepsDone ==
    ASSUME IInv, OnceInv, DoneInv, RowsSame, UNCHANGED <<work, stray, built, rejected, aborted>>,
           \A j \in Created : jobs'[j].state = jobs[j].state,
           sched'.todo \subseteq sched.todo,
           \A j \in Created :
              /\ pstate'[jobs[j].group][jobs[j].project] \in {"Success", "Failure", "Skipped"} =>
                    pstate'[jobs[j].group][jobs[j].project] = pstate[jobs[j].group][jobs[j].project] \/ Over(j)
              /\ gstate'[jobs[j].group] = "Complete" => gstate[jobs[j].group] = "Complete" \/ Settled(j)
              /\ \A d \in Deps[jobs[j].project] :
                    \/ pstate'[jobs[j].group][d] = pstate[jobs[j].group][d]
                    \/ pstate'[jobs[j].group][d] \in {"Success", "Canceled"},
           sched'.at \notin {"write", "skip", "dispatch", "link"}
           \/ (WriteInv' /\ SkipInv' /\ DispatchInv')
    PROVE  DoneInv'
  <1> USE DEF DoneInv
  <1>1. /\ Created' = Created
        /\ \A j \in Created : /\ jobs'[j].group = jobs[j].group /\ jobs'[j].project = jobs[j].project
                               /\ Of(j)' = Of(j) /\ Over(j)' = Over(j) /\ Settled(j)' = Settled(j)
    BY Zenon DEF RowsSame, Of, Over, Settled
  <1>2. ReportedInv'
    BY <1>1, Zenon DEF ReportedInv
  <1>3. ListInv'
    <2>1. \A s \in sched'.todo : s.id \in Created
      BY Zenon DEF IInv, SchedInv
    <2>2. \A s \in sched'.todo : Of(s.id)' = Of(s.id) /\ Over(s.id)' = Over(s.id)
      BY <1>1, <2>1, Zenon
    <2>3. \A s \in sched'.todo : s.state \in {"Complete", "Failed"} => Over(s.id)
      BY Zenon DEF ListInv
    <2>4. \A s \in sched'.todo : \A j \in Created : \A d \in Deps[jobs[j].project] :
             Of(s.id) = <<jobs[j].group, d>> => s.state \in Final
      BY Zenon DEF ListInv
    <2> QED
      BY <1>1, <2>2, <2>3, <2>4, Zenon DEF ListInv
  <1>4. SettledInv'
    <2>1. \A j \in Created : Over(j) => Settled(j)
      BY Zenon DEF Settled
    <2> QED
      BY <1>1, <2>1 DEF SettledInv
  <1>5. NeedsInv'
    BY <1>1 DEF NeedsInv
  <1>6. WriteInv' /\ SkipInv' /\ DispatchInv'
    BY Zenon DEF WriteInv, SkipInv, DispatchInv
  <1> QED
    BY <1>2, <1>3, <1>4, <1>5, <1>6, Zenon

LEMMA StillDone ==
    ASSUME IInv, OnceInv, DoneInv,
           ReadQueue \/ NothingPending \/ Dispatched \/ Promote \/ (\E g \in Group : CheckQueued(g))
    PROVE  DoneInv'
  <1>1. UNCHANGED <<pstate, jobs, work, stray, built, rejected, aborted>>
    BY Zenon DEF ReadQueue, Promote, NothingPending, Dispatched, CheckQueued, tables, workers
  <1>2. \A g \in Group : gstate'[g] = "Complete" => gstate[g] = "Complete"
    <2>1. CASE ~Promote
      BY <2>1, Zenon DEF ReadQueue, NothingPending, Dispatched, CheckQueued, tables
    <2>2. CASE Promote
      BY <2>2, Zenon DEF Promote, IInv, TypeOK, SchedInv
    <2> QED
      BY <2>1, <2>2, Zenon
  <1>3. sched'.at \in {"check", "promote", "status", "read"} /\ sched'.todo \subseteq sched.todo
    BY GroupMoves, DispatchMoves, Zenon
  <1>4. RowsSame
    BY <1>1, Zenon DEF RowsSame, Created
  <1> QED
    BY <1>1, <1>2, <1>3, <1>4, ThreadKeepsDone, RowTypes, Zenon

LEMMA ReadDone ==
    ASSUME IInv, OnceInv, DoneInv, ReadGroup
    PROVE  DoneInv'
  <1>1. UNCHANGED <<gstate, pstate, jobs, work, stray, built, rejected, aborted>> /\ RowsSame
    BY Zenon DEF ReadGroup, tables, workers, RowsSame, Created
  <1>2. /\ sched'.at \in {"write", "work", "ack"} /\ sched'.todo = sched.todo /\ sched'.group = sched.group
        /\ sched'.at = "write" => sched'.new = NewState(pstate[sched.group])
    BY GroupMoves, Zenon DEF Return
  <1>3. WriteInv'
    <2> SUFFICES ASSUME NewState(pstate[sched.group]) = "Complete", NEW j \in Created, jobs[j].group = sched.group
                 PROVE  Settled(j)
      BY <1>1, <1>2, Zenon DEF WriteInv, Created, Settled, Over
    <2>1. \A p \in Project : pstate[sched.group][p] \notin {"NotStarted", "InProgress", "Canceled"}
      BY Zenon DEF NewState
    <2>2. pstate[jobs[j].group][jobs[j].project] \in ProjectState \ {"Absent", "NotStarted", "InProgress", "Canceled"}
      BY <2>1, RowTypes DEF IInv, TypeOK, Snapshot
    <2> QED
      BY <2>2, Zenon DEF DoneInv, SettledInv, ProjectState
  <1>4. SkipInv' /\ DispatchInv'
    BY <1>2, Zenon DEF SkipInv, DispatchInv
  <1> QED
    BY <1>1, <1>2, <1>3, <1>4, ThreadKeepsDone, Zenon

LEMMA WriteDone ==
    ASSUME IInv, OnceInv, DoneInv, WriteGroup
    PROVE  DoneInv'
  <1>1. UNCHANGED <<pstate, jobs, work, stray, built, rejected, aborted>> /\ RowsSame /\ sched.at = "write"
    BY Zenon DEF WriteGroup, workers, RowsSame, Created
  <1>2. sched'.at \in {"work", "ack"} /\ sched'.todo = sched.todo
    BY GroupMoves, Zenon DEF Return
  <1>3. \A g \in Group : gstate'[g] = IF g = sched.group THEN sched.new ELSE gstate[g]
    BY Zenon DEF WriteGroup, IInv, TypeOK
  <1>4. ASSUME NEW j \in Created, gstate'[jobs[j].group] = "Complete"
        PROVE  gstate[jobs[j].group] = "Complete" \/ Settled(j)
    BY <1>1, <1>3, <1>4, RowTypes, Zenon DEF DoneInv, WriteInv
  <1> QED
    BY <1>1, <1>2, <1>4, ThreadKeepsDone, Zenon

LEMMA AckDone ==
    ASSUME IInv, OnceInv, DoneInv, SetJobSync
    PROVE  DoneInv'
  <1>1. sched.at = "ack" /\ sched.job \in Created /\ sched.job \in Job
    BY RowTypes, Zenon DEF SetJobSync, IInv, SchedInv
  <1>2. UNCHANGED <<gstate, pstate, work, stray, built, rejected, aborted>>
    BY Zenon DEF SetJobSync, workers
  <1>3. RowsSame
    <2>1. SchedulerStep /\ ~(\E p \in Project, i \in Job : CreateJob(p, i))
      BY <1>1, Zenon DEF SchedulerStep, CreateJob
    <2> QED
      BY <2>1, SchedulerQuiet, Zenon DEF Quiet
  <1>4. \A j \in Created : jobs'[j].state = jobs[j].state
    BY <1>1, Zenon DEF SetJobSync, IInv, TypeOK, Created
  <1>5. sched'.at = "sync" /\ sched'.todo = sched.todo
    BY StatusMoves, Zenon
  <1> QED
    BY <1>2, <1>3, <1>4, <1>5, ThreadKeepsDone, Zenon

LEMMA SyncDone ==
    ASSUME IInv, OnceInv, DoneInv, SyncJobs
    PROVE  DoneInv'
  <1>1. UNCHANGED <<gstate, pstate, jobs, work, stray, built, rejected, aborted>>
    BY Zenon DEF SyncJobs, tables, workers
  <1>2. Created' = Created /\ \A j : Of(j)' = Of(j) /\ Over(j)' = Over(j) /\ Settled(j)' = Settled(j)
    BY <1>1, Zenon DEF Created, Of, Over, Settled
  <1>3. ReportedInv' /\ SettledInv' /\ NeedsInv'
    BY <1>1, <1>2, Zenon DEF DoneInv, ReportedInv, SettledInv, NeedsInv
  <1>4. sched'.at = "sync" /\ \A s \in sched'.todo : s.id \in Created /\ s.state = jobs[s.id].state
    BY StatusMoves DEF Unsynced
  <1>5. ListInv'
    <2>1. ASSUME NEW i \in Created, NEW j \in Created, NEW d \in Deps[jobs[j].project], Of(i) = <<jobs[j].group, d>>
          PROVE  jobs[i].state \in Final
      <3>1. jobs[i].group = jobs[j].group /\ jobs[i].project = d
        BY <2>1, Zenon DEF Of
      <3>2. <<jobs[j].group, d>> \in built
        BY <3>1, RowTypes, Zenon DEF IInv, BuildsAfterDeps
      <3> QED
        BY <2>1, <3>2, Zenon DEF DoneInv, ReportedInv
    <2>2. \A s \in sched'.todo : s.state \in {"Complete", "Failed"} => Over(s.id)
      BY <1>4, Zenon DEF DoneInv, ReportedInv
    <2>3. \A s \in sched'.todo : \A j \in Created : \A d \in Deps[jobs[j].project] :
             Of(s.id) = <<jobs[j].group, d>> => s.state \in Final
      BY <1>4, <2>1, Zenon
    <2> QED
      BY <1>1, <1>2, <2>2, <2>3, Zenon DEF ListInv
  <1> QED
    BY <1>3, <1>4, <1>5, Zenon DEF DoneInv, WriteInv, SkipInv, DispatchInv

LEMMA ApplyDone ==
    ASSUME IInv, OnceInv, DoneInv, NEW s \in sched.todo, ApplyStatus(s)
    PROVE  DoneInv'
  <1> DEFINE g == jobs[s.id].group
             q == jobs[s.id].project
             new == ProjectStateOf(s.state)
  <1>1. UNCHANGED <<gstate, jobs, work, stray, built, rejected, aborted>> /\ RowsSame
    BY Zenon DEF ApplyStatus, workers, RowsSame, Created
  <1>2. s.id \in Created /\ s.state \in JobState
    BY Zenon DEF IInv, TypeOK, Status, SchedInv
  <1>3. g \in Group /\ q \in Project
    BY <1>2, RowTypes, Zenon
  <1>4. /\ sched'.at = AfterStatus(s.state) /\ sched'.todo = sched.todo \ {s}
        /\ sched'.job = s.id /\ sched'.group = g /\ sched'.snap = pstate[g]
    BY StatusMoves, Zenon
  <1>5. \A o \in Group, p \in Project : pstate'[o][p] = IF o = g /\ p = q THEN new ELSE pstate[o][p]
    <2>1. new \in ProjectState
      BY <1>2, StateOfType, Zenon
    <2> QED
      BY <1>3, <2>1, SetProjectsType DEF ApplyStatus, IInv
  <1>6. /\ new \in {"Success", "Failure", "Skipped"} => Over(s.id)
        /\ s.state \in Final => new \in {"Success", "Canceled"}
        /\ sched'.at = "skip" => s.state = "Failed"
        /\ sched'.at \in {"skip", "read", "ack"}
    <2>1. /\ new \in {"Success", "Failure", "Skipped"} => s.state \in {"Complete", "Failed"}
          /\ s.state \in Final => new \in {"Success", "Canceled"}
          /\ AfterStatus(s.state) = "skip" => s.state = "Failed"
          /\ AfterStatus(s.state) \in {"skip", "read", "ack"}
      BY <1>2, Zenon DEF ProjectStateOf, AfterStatus, JobState, Final
    <2> QED
      BY <1>4, <2>1, Zenon DEF DoneInv, ListInv
  <1> HIDE DEF new
  <1>7. ASSUME NEW j \in Created,
               pstate'[jobs[j].group][jobs[j].project] \in {"Success", "Failure", "Skipped"}
        PROVE  pstate'[jobs[j].group][jobs[j].project] = pstate[jobs[j].group][jobs[j].project] \/ Over(j)
    <2>1. CASE Of(j) = Of(s.id)
      <3>1. j = s.id
        BY <1>2, <2>1, OneJob, Zenon
      <3> QED
        BY <1>3, <1>5, <1>6, <1>7, <3>1, Zenon
    <2>2. CASE Of(j) # Of(s.id)
      BY <1>5, <2>2, RowTypes, Zenon DEF Of
    <2> QED
      BY <2>1, <2>2, Zenon
  <1>8. ASSUME NEW j \in Created, NEW d \in Deps[jobs[j].project], jobs[j].group = g, d = q
        PROVE  s.state \in Final
    BY <1>8, Zenon DEF DoneInv, ListInv, Of
  <1>9. ASSUME NEW j \in Created, NEW d \in Deps[jobs[j].project]
        PROVE  \/ pstate'[jobs[j].group][d] = pstate[jobs[j].group][d]
               \/ pstate'[jobs[j].group][d] \in {"Success", "Canceled"}
    <2>1. jobs[j].group \in Group /\ d \in Project
      BY RowTypes, Zenon
    <2> QED
      BY <1>3, <1>5, <1>6, <1>8, <2>1, Zenon
  <1>10. SkipInv'
    <2> SUFFICES ASSUME sched'.at = "skip", NEW j \in Created, jobs[j].group = g, NEW d \in Deps[jobs[j].project]
                 PROVE  pstate[g][d] # "NotStarted" /\ d # q
      BY <1>1, <1>4, Zenon DEF SkipInv, Created
    <2>1. pstate[g][d] # "NotStarted"
      BY Zenon DEF DoneInv, NeedsInv
    <2> QED
      BY <1>6, <1>8, <2>1, Zenon DEF Final
  <1>11. WriteInv' /\ DispatchInv'
    BY <1>6, Zenon DEF WriteInv, DispatchInv
  <1> QED
    BY <1>1, <1>4, <1>7, <1>9, <1>10, <1>11, ThreadKeepsDone, Zenon

\* The projects that are skipped have no job, nor is one of them needed by a job.
LEMMA SkipKeepsDone ==
    ASSUME IInv, OnceInv, DoneInv, UNCHANGED <<jobs, work, stray, built, rejected, aborted>>,
           \A j \in Created : gstate'[jobs[j].group] = "Complete" => gstate[jobs[j].group] = "Complete",
           NEW g \in Group, NEW ps, NEW state \in ProjectState, SetProjects(g, ps, state),
           \A j \in Created : jobs[j].group = g => jobs[j].project \notin ps /\ Deps[jobs[j].project] \cap ps = {},
           sched'.todo = sched.todo, sched'.at \notin {"write", "skip"},
           DispatchInv'
    PROVE  DoneInv'
  <1>1. \A o \in Group, p \in Project : pstate'[o][p] = IF o = g /\ p \in ps THEN state ELSE pstate[o][p]
    BY SetProjectsMeans
  <1>2. ASSUME NEW j \in Created
        PROVE  /\ pstate'[jobs[j].group][jobs[j].project] = pstate[jobs[j].group][jobs[j].project]
               /\ \A d \in Deps[jobs[j].project] : pstate'[jobs[j].group][d] = pstate[jobs[j].group][d]
    <2>1. jobs[j].group \in Group /\ jobs[j].project \in Project /\ Deps[jobs[j].project] \subseteq Project
      BY RowTypes, Zenon
    <2> QED
      BY <1>1, <2>1, Zenon
  <1>3. RowsSame /\ WriteInv' /\ SkipInv'
    BY Zenon DEF RowsSame, Created, WriteInv, SkipInv
  <1> QED
    BY <1>2, <1>3, ThreadKeepsDone, Zenon

LEMMA SkipFailedDone ==
    ASSUME IInv, OnceInv, DoneInv, SkipFailed
    PROVE  DoneInv'
  <1> DEFINE ps == SkipProjects(sched.snap, jobs[sched.job].project)
  <1>1. /\ UNCHANGED <<gstate, jobs, work, stray, built, rejected, aborted>> /\ sched.at = "skip"
        /\ SetProjects(sched.group, ps, "Skipped") /\ "Skipped" \in ProjectState
    BY Zenon DEF SkipFailed, workers, ProjectState
  <1>2. sched.group \in Group
    BY <1>1, Zenon DEF IInv, SchedInv
  <1>3. sched'.at = "read" /\ sched'.todo = sched.todo
    BY StatusMoves, Zenon
  <1>4. ASSUME NEW j \in Created, jobs[j].group = sched.group
        PROVE  jobs[j].project \notin ps /\ Deps[jobs[j].project] \cap ps = {}
    <2>1. \A d \in Deps[jobs[j].project] : sched.snap[d] # "NotStarted" /\ d # jobs[sched.job].project
      BY <1>1, <1>4, Zenon DEF DoneInv, SkipInv
    <2> QED
      BY <2>1, SkipType, SkipDeps
  <1>5. DispatchInv'
    BY <1>3, Zenon DEF DispatchInv
  <1> HIDE DEF ps
  <1> QED
    BY <1>1, <1>2, <1>3, <1>4, <1>5, SkipKeepsDone, Zenon

LEMMA DispatchFacts ==
    ASSUME IInv, OnceInv, DoneInv, sched.at \in {"dispatch", "link"}
    PROVE  /\ sched.group \in Group /\ sched.plan \subseteq Project /\ sched.todo = {}
           /\ \A p \in sched.plan : sched.snap[p] = "NotStarted"
           /\ \A p \in sched.plan : \A d \in Deps[p] : d \in Project /\ sched.snap[d] \in {"Absent", "Success"}
           /\ \A j \in Created : jobs[j].group = sched.group =>
                 jobs[j].project \notin sched.plan /\ \A d \in Deps[jobs[j].project] : sched.snap[d] # "NotStarted"
  <1>1. sched.plan \subseteq Dispatchable(sched.snap)
    BY Zenon DEF DoneInv, DispatchInv
  <1>2. sched.group \in Group /\ sched.plan \subseteq Project
    BY Zenon DEF IInv, SchedInv, TypeOK
  <1>3. \A j \in Created : jobs[j].group = sched.group => jobs[j].project \notin sched.plan
    BY OneJob, Zenon DEF Of
  <1>4. \A j \in Created : jobs[j].group = sched.group => \A d \in Deps[jobs[j].project] : sched.snap[d] # "NotStarted"
    BY Zenon DEF DoneInv, DispatchInv
  <1>5. \A p \in sched.plan : \A d \in Deps[p] : d \in Project
    BY <1>2, ProjectAssumption, Zenon
  <1> QED
    BY <1>1, <1>2, <1>3, <1>4, <1>5, OneJob, Zenon DEF Dispatchable, DepsBuilt

LEMMA SkipUnconnectedDone ==
    ASSUME IInv, OnceInv, DoneInv, NEW p \in Project, SkipUnconnected(p)
    PROVE  DoneInv'
  <1> DEFINE ps == {p} \cup SkipProjects(sched.snap, p)
  <1>1. /\ UNCHANGED <<gstate, jobs, work, stray, built, rejected, aborted>> /\ sched.at = "dispatch"
        /\ SetProjects(sched.group, ps, "Skipped") /\ "Skipped" \in ProjectState /\ p \in sched.plan
    BY Zenon DEF SkipUnconnected, workers, ProjectState, NextOf
  <1>2. sched.group \in Group /\ sched.snap[p] = "NotStarted"
    BY <1>1, DispatchFacts, Zenon
  <1>3. /\ sched'.at = "dispatch" /\ sched'.todo = sched.todo /\ sched'.group = sched.group
        /\ sched'.snap = sched.snap /\ sched'.plan = sched.plan \ ps
    BY DispatchMoves, Zenon
  <1>4. \A q \in ps : q \in Project /\ sched.snap[q] = "NotStarted"
    BY <1>2, SkipType, Zenon
  <1>5. ASSUME NEW j \in Created, jobs[j].group = sched.group
        PROVE  jobs[j].project \notin ps /\ Deps[jobs[j].project] \cap ps = {}
    <2>1. jobs[j].project # p /\ \A d \in Deps[jobs[j].project] : sched.snap[d] # "NotStarted"
      BY <1>1, <1>5, DispatchFacts, Zenon
    <2>2. jobs[j].project \notin SkipProjects(sched.snap, p)
      BY <1>2, <2>1, SkipDeps
    <2> QED
      BY <1>4, <2>1, <2>2, Zenon
  <1>6. DispatchInv'
    <2>1. \A q \in Project : q \notin ps => pstate'[sched.group][q] = pstate[sched.group][q]
      BY <1>1, <1>2, SetProjectsMeans
    <2>2. sched.plan \subseteq Project
      BY <1>1, DispatchFacts, Zenon
    <2>3. \A q \in sched.plan \ ps : pstate'[sched.group][q] \in {"NotStarted", "Canceled"} \/ sched.group \in aborted
      BY <1>1, <2>1, <2>2, Zenon DEF DoneInv, DispatchInv
    <2>4. \A d \in Project : sched.snap[d] \in {"Absent", "Success"} => pstate'[sched.group][d] = sched.snap[d]
      BY <1>1, <1>4, <2>1, Zenon DEF DoneInv, DispatchInv
    <2>5. gstate[sched.group] = "Complete" => sched.group \in aborted
      BY <1>1, Zenon DEF DoneInv, DispatchInv
    <2>6. \A j \in Created : jobs[j].group = sched.group => \A d \in Deps[jobs[j].project] : sched.snap[d] # "NotStarted"
      BY <1>1, DispatchFacts, Zenon
    <2>7. sched.plan \subseteq Dispatchable(sched.snap) /\ Created' = Created
      BY <1>1, Zenon DEF DoneInv, DispatchInv, Created
    <2> HIDE DEF ps
    <2> QED
      BY <1>1, <1>3, <2>3, <2>4, <2>5, <2>6, <2>7, Zenon DEF DispatchInv
  <1> HIDE DEF ps
  <1> QED
    BY <1>1, <1>2, <1>3, <1>5, <1>6, SkipKeepsDone, Zenon

LEMMA CreateFailsDone ==
    ASSUME IInv, OnceInv, DoneInv, NEW p \in Project, CreateFails(p)
    PROVE  DoneInv'
  <1>1. /\ UNCHANGED <<jobs, work, stray, built, rejected, aborted>> /\ sched.at = "dispatch"
        /\ SetProjects(sched.group, {p}, "Failure") /\ "Failure" \in ProjectState /\ p \in sched.plan
        /\ gstate' = [gstate EXCEPT ![sched.group] = "Failed"]
    BY Zenon DEF CreateFails, workers, ProjectState, NextOf
  <1>2. sched.group \in Group /\ sched.snap[p] = "NotStarted"
    BY <1>1, DispatchFacts, Zenon
  <1>3. sched'.at = "read" /\ sched'.todo = sched.todo
    BY DispatchMoves, Zenon
  <1>4. \A j \in Created : jobs[j].group = sched.group =>
            jobs[j].project \notin {p} /\ Deps[jobs[j].project] \cap {p} = {}
    BY <1>1, <1>2, DispatchFacts, Zenon
  <1>5. \A j \in Created : gstate'[jobs[j].group] = "Complete" => gstate[jobs[j].group] = "Complete"
    BY <1>1, <1>2, RowTypes, Zenon DEF IInv, TypeOK
  <1>6. DispatchInv'
    BY <1>3, Zenon DEF DispatchInv
  <1> QED
    BY <1>1, <1>2, <1>3, <1>4, <1>5, <1>6, SkipKeepsDone, Zenon

LEMMA TakeDone ==
    ASSUME IInv, OnceInv, DoneInv, TakeGroup
    PROVE  DoneInv'
  <1>1. UNCHANGED <<pstate, jobs, work, stray, built, rejected, aborted>> /\ RowsSame
    BY Zenon DEF TakeGroup, workers, RowsSame, Created
  <1>2. PICK g \in PendingGroups :
          /\ gstate' = [gstate EXCEPT ![g] = "Dispatching"]
          /\ sched'.at = "dispatch" /\ sched'.todo = sched.todo /\ sched'.job = NoJob
          /\ sched'.group = g /\ sched'.snap = pstate[g] /\ sched'.plan = Dispatchable(pstate[g])
    BY DispatchMoves, Zenon
  <1>3. g \in Group /\ \A o \in Group : gstate'[o] = IF o = g THEN "Dispatching" ELSE gstate[o]
    BY <1>2, Zenon DEF PendingGroups, IInv, TypeOK
  <1>4. \A j \in Created : gstate'[jobs[j].group] = "Complete" => gstate[jobs[j].group] = "Complete"
    BY <1>3, RowTypes, Zenon
  <1>5. DispatchInv'
    <2>1. \A j \in Created : jobs[j].group = g => \A d \in Deps[jobs[j].project] : pstate[g][d] # "NotStarted"
      BY Zenon DEF DoneInv, NeedsInv
    <2>2. \A p \in Dispatchable(pstate[g]) : pstate[g][p] = "NotStarted"
      BY Zenon DEF Dispatchable
    <2>3. gstate'[g] # "Complete" /\ Created' = Created
      BY <1>1, <1>3, Zenon DEF RowsSame
    <2> QED
      BY <1>1, <1>2, <2>1, <2>2, <2>3 DEF DispatchInv
  <1>6. WriteInv' /\ SkipInv'
    BY <1>2, Zenon DEF WriteInv, SkipInv
  <1> QED
    BY <1>1, <1>2, <1>4, <1>5, <1>6, ThreadKeepsDone, Zenon

LEMMA LinkDone ==
    ASSUME IInv, OnceInv, DoneInv, LinkJob
    PROVE  DoneInv'
  <1> DEFINE g == sched.group
             q == jobs[sched.job].project
  <1>1. /\ UNCHANGED <<gstate, jobs, work, stray, built, rejected, aborted>> /\ RowsSame /\ sched.at = "link"
        /\ SetProjects(g, {q}, "InProgress")
    BY Zenon DEF LinkJob, workers, RowsSame, Created
  <1>2. /\ sched.job \in Created /\ jobs[sched.job].group = g /\ g \in Group /\ q \in Project
        /\ sched.snap[q] = "NotStarted" /\ q \notin sched.plan
    BY <1>1, DispatchFacts, RowTypes, Zenon DEF IInv, SchedInv, DoneInv, DispatchInv
  <1>3. /\ sched'.at = "dispatch" /\ sched'.todo = sched.todo
        /\ sched'.group = g /\ sched'.snap = sched.snap /\ sched'.plan = sched.plan
    BY DispatchMoves, Zenon
  <1>4. \A o \in Group, p \in Project : pstate'[o][p] = IF o = g /\ p = q THEN "InProgress" ELSE pstate[o][p]
    BY <1>1, <1>2, SetProjectsMeans DEF ProjectState
  <1> HIDE DEF q
  <1>5. ASSUME NEW j \in Created
        PROVE  /\ pstate'[jobs[j].group][jobs[j].project] \in {"Success", "Failure", "Skipped"} =>
                     pstate'[jobs[j].group][jobs[j].project] = pstate[jobs[j].group][jobs[j].project]
               /\ \A d \in Deps[jobs[j].project] : pstate'[jobs[j].group][d] = pstate[jobs[j].group][d]
    <2>1. jobs[j].group \in Group /\ jobs[j].project \in Project /\ Deps[jobs[j].project] \subseteq Project
      BY RowTypes, Zenon
    <2>2. jobs[j].group = g => \A d \in Deps[jobs[j].project] : d # q
      BY <1>1, <1>2, DispatchFacts, Zenon
    <2> QED
      BY <1>4, <2>1, <2>2, Zenon
  <1>6. DispatchInv'
    <2>1. sched.plan \subseteq Project
      BY <1>1, DispatchFacts, Zenon
    <2>2. \A p \in sched.plan : pstate'[g][p] = pstate[g][p]
      BY <1>2, <1>4, <2>1, Zenon
    <2>3. \A d \in Project : sched.snap[d] \in {"Absent", "Success"} => pstate'[g][d] = sched.snap[d]
      BY <1>1, <1>2, <1>4, Zenon DEF DoneInv, DispatchInv
    <2>4. Created' = Created
      BY <1>1, Zenon DEF RowsSame
    <2> QED
      BY <1>1, <1>3, <2>2, <2>3, <2>4 DEF DoneInv, DispatchInv
  <1>7. WriteInv' /\ SkipInv'
    BY <1>3, Zenon DEF WriteInv, SkipInv
  <1> QED
    BY <1>1, <1>3, <1>5, <1>6, <1>7, ThreadKeepsDone, Zenon

LEMMA CreateDone ==
    ASSUME IInv, OnceInv, DoneInv, NEW p \in Project, NEW j \in Job, CreateJob(p, j)
    PROVE  DoneInv'
  <1> USE DEF DoneInv
  <1> DEFINE g == sched.group
             row == [state |-> "Pending", group |-> g, project |-> p, synced |-> FALSE, count |-> 0]
  <1>1. /\ sched.at = "dispatch" /\ p \in sched.plan /\ j \notin Created
        /\ UNCHANGED <<gstate, pstate, work, stray, built, rejected, aborted>>
    BY Zenon DEF CreateJob, NextOf, Created, workers
  <1>2. jobs'[j] = row /\ \A i \in Job \ {j} : jobs'[i] = jobs[i]
    BY Zenon DEF CreateJob, IInv, TypeOK
  <1>3. row.state = "Pending" /\ row.group = g /\ row.project = p /\ row # Unused
    BY Zenon DEF Unused
  <1> HIDE DEF row
  <1>4. Created' = Created \cup {j} /\ \A i \in Created : jobs'[i] = jobs[i]
    BY <1>1, <1>2, <1>3, Zenon DEF Created
  <1>5. /\ \A i \in Created : Of(i)' = Of(i) /\ Over(i)' = Over(i) /\ Settled(i)' = Settled(i)
        /\ Of(j)' = <<g, p>>
    BY <1>1, <1>2, <1>3, <1>4, Zenon DEF Of, Over, Settled
  <1>6. /\ sched'.at = "link" /\ sched'.todo = sched.todo /\ sched'.job = j
        /\ sched'.group = g /\ sched'.snap = sched.snap /\ sched'.plan = sched.plan \ {p}
    BY DispatchMoves, Zenon
  <1>7. /\ g \in Group /\ sched.plan \subseteq Project /\ sched.todo = {} /\ sched.snap[p] = "NotStarted"
        /\ \A d \in Deps[p] : d \in Project /\ sched.snap[d] \in {"Absent", "Success"}
        /\ \A i \in Created : jobs[i].group = g =>
              jobs[i].project # p /\ \A d \in Deps[jobs[i].project] : sched.snap[d] # "NotStarted"
    BY <1>1, DispatchFacts, Zenon
  <1>8. ReportedInv'
    <2>1. <<g, p>> \notin built
      <3>1. \A i \in Created : Of(i) # <<g, p>>
        BY <1>7, Zenon DEF Of
      <3> QED
        BY <3>1, Zenon DEF ReportedInv
    <2>2. \A i \in Created' : jobs'[i].state \in {"Complete", "Failed"} => Over(i)'
      BY <1>2, <1>3, <1>4, <1>5, Zenon DEF ReportedInv
    <2>3. \A b \in built : \E i \in Created' : b = Of(i)'
      BY <1>4, <1>5, Zenon DEF ReportedInv
    <2>4. \A i \in Created' : Of(i)' \in built => jobs'[i].state \in Final /\ Over(i)'
      BY <1>4, <1>5, <2>1, Zenon DEF ReportedInv
    <2> QED
      BY <1>1, <2>2, <2>3, <2>4, Zenon DEF ReportedInv
  <1>9. ListInv'
    BY <1>6, <1>7, Zenon DEF ListInv
  <1>10. SettledInv'
    <2>1. /\ pstate[g][p] \in {"Success", "Failure", "Skipped"} => g \in aborted
          /\ gstate[g] = "Complete" => g \in aborted
      BY <1>1, Zenon DEF DispatchInv
    <2>2. jobs'[j].group = g /\ jobs'[j].project = p /\ (g \in aborted => Settled(j)')
      BY <1>1, <1>2, <1>3, Zenon DEF Settled
    <2> HIDE DEF g
    <2> QED
      BY <1>1, <1>4, <1>5, <2>1, <2>2, Zenon DEF SettledInv
  <1>11. NeedsInv'
    <2>1. \A d \in Deps[p] : pstate[g][d] \in {"Absent", "Success"}
      BY <1>1, <1>7, Zenon DEF DispatchInv
    <2>2. jobs'[j].group = g /\ jobs'[j].project = p
      BY <1>2, <1>3, Zenon
    <2> HIDE DEF g
    <2> QED
      BY <1>1, <1>4, <2>1, <2>2 DEF NeedsInv
  <1>12. DispatchInv'
    <2>1. jobs'[j].group = g /\ jobs'[j].project = p
      BY <1>2, <1>3, Zenon
    <2>2. \A i \in Created' : jobs'[i].group = g => \A d \in Deps[jobs'[i].project] : sched.snap[d] # "NotStarted"
      BY <1>4, <1>7, <2>1, Zenon
    <2> QED
      BY <1>1, <1>6, <1>7, <2>1, <2>2, ZenonT(30) DEF DispatchInv
  <1>13. WriteInv' /\ SkipInv'
    BY <1>6, Zenon DEF WriteInv, SkipInv
  <1> QED
    BY <1>8, <1>9, <1>10, <1>11, <1>12, <1>13, Zenon

-----------------------------------------------------------------------------
LEMMA InitDone == Init => DoneInv
  <1> SUFFICES ASSUME Init PROVE DoneInv
    BY Zenon
  <1>1. Created = {} /\ sched.at = "status" /\ sched.todo = {}
    BY Zenon DEF Init, Created, Waiting
  <1>2. ReportedInv
    BY <1>1, Zenon DEF Init, ReportedInv
  <1> QED
    BY <1>1, <1>2, Zenon DEF DoneInv, ListInv, SettledInv, WriteInv, NeedsInv, SkipInv, DispatchInv

LEMMA NextDone ==
    ASSUME Reliable, IInv, OnceInv, DoneInv, [Next]_vars
    PROVE  DoneInv'
  <1>1. CASE SchedulerStep
    BY <1>1, StillDone, ReadDone, WriteDone, AckDone, SyncDone, ApplyDone, SkipFailedDone, SkipUnconnectedDone,
        CreateFailsDone, TakeDone, LinkDone, CreateDone, ZenonT(20)
    DEF SchedulerStep
  <1>2. CASE HandlerStep
    BY <1>2, HandlerDone
  <1>3. CASE Restart
    BY <1>3, RestartDone, Zenon
  <1>4. CASE \E j \in Job : WorkerStep(j) \/ WorkerFault(j)
    BY <1>4, WorkerDone, Zenon
  <1>5. CASE UNCHANGED vars
    BY <1>5, RequestKeepsDone, Zenon DEF vars, tables, workers, Stops
  <1> QED
    BY <1>1, <1>2, <1>3, <1>4, <1>5, Zenon DEF Next

\* Where no worker rejects a job or is given up for lost, a group that update_group_state
\* has made Complete has no build that waits or runs, unless the group was aborted:
\* although cancelations and restarts fall between the reads and writes of the thread
\* and statuses are handled late (update_group_state, skip_projects, process_status).
THEOREM CompleteGroupsAreDone ==
    Reliable => (Spec => []CompleteMeansDone)
  <1> SUFFICES ASSUME Reliable PROVE Spec => []CompleteMeansDone
    BY Zenon
  <1>1. IInv /\ OnceInv /\ DoneInv /\ [Next]_vars => DoneInv'
    BY NextDone, Zenon
  <1>2. DoneInv => CompleteMeansDone
    BY Zenon DEF DoneInv, SettledInv, Settled, Over, CompleteMeansDone
  <1> QED
    BY <1>1, <1>2, InitInv, NextInv, InitOnce, NextOnce, InitDone, PTL DEF Spec
=============================================================================
