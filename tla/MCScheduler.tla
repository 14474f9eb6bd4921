---------------------------- MODULE MCScheduler ----------------------------
(* Instances of Scheduler, with its refinement, for TLC. *)
EXTENDS SchedulerRefinement

\* A package, one built with it, and one built with that.
MCChain == [p \in Project |-> {q \in Project : q = p - 1}]
=============================================================================
