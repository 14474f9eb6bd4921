------------------------ MODULE SchedulerRefinement ------------------------
(* How the tables of the scheduler stand for the builds of BuildOrder. *)
EXTENDS Scheduler

\* The scheduler, its handlers and its workers together do what BuildOrder promises:
\* the rows of group_projects are what was asked for, those of jobs what was started.
Promise == INSTANCE BuildOrder WITH
    wanted <- {b \in Group \X Project : pstate[b[1]][b[2]] # "Absent"},
    started <- {<<jobs[j].group, jobs[j].project>> : j \in Created},
    finished <- built
ImplementsBuildOrder == Promise!Spec
=============================================================================
