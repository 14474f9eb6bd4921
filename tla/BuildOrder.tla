---------------------------- MODULE BuildOrder ----------------------------
(***************************************************************************)
(* What the job scheduler promises to whoever asks for a group of builds:  *)
(* a build starts when everything in the group that it needs has been      *)
(* built, only what was asked for is built, and what was asked for a group *)
(* does not change.  Scheduler implements it.                              *)
(***************************************************************************)
CONSTANTS
    Project,  \* the projects
    Deps,     \* Deps[p]: what p is built with
    Group     \* the groups

VARIABLES
    wanted,   \* the builds <<g, p>> asked for
    started,  \* those that were given to a worker, or wait for one
    finished  \* those that were reported complete

vars == <<wanted, started, finished>>

Init == wanted = {} /\ started = {} /\ finished = {}

Ask(g, list) ==
    /\ \A p \in Project : <<g, p>> \notin wanted
    /\ wanted' = wanted \cup ({g} \X list)
    /\ UNCHANGED <<started, finished>>

Begin(g, p) ==
    /\ <<g, p>> \in wanted
    /\ \A d \in Deps[p] : <<g, d>> \in wanted => <<g, d>> \in finished
    /\ started' = started \cup {<<g, p>>}
    /\ UNCHANGED <<wanted, finished>>

End(g, p) ==
    /\ <<g, p>> \in started
    /\ finished' = finished \cup {<<g, p>>}
    /\ UNCHANGED <<wanted, started>>

Next ==
    \/ \E g \in Group, list \in SUBSET Project : Ask(g, list)
    \/ \E g \in Group, p \in Project : Begin(g, p) \/ End(g, p)

Spec == Init /\ [][Next]_vars
=============================================================================
