------------------------------ MODULE Updater ------------------------------
(***************************************************************************)
(* The rolling update of one service group                                 *)
(* (components/sup/src/manager/service_updater.rs), as the main loops of   *)
(* the Supervisors drive it, with the census each of them bases it on      *)
(* (components/sup/src/census.rs) and the rumors the census is built from. *)
(*                                                                         *)
(* The group is complete: every Supervisor has a service rumor of every    *)
(* other, all run version 1, and nobody has started the update election    *)
(* yet.  A turn of the main loop is two steps: the updater, the elections  *)
(* and the reading of the stores; then the noting of their counters.  The  *)
(* gossip threads write to the stores between the two; what they write     *)
(* within the first step might as well come before or after it.            *)
(*                                                                         *)
(* Gossip, Swim and Election model how rumors travel, healths change and   *)
(* elections end.  Here a rumor may arrive at any time and in any order,   *)
(* and an election has one winner.                                         *)
(***************************************************************************)
EXTENDS Integers, Sequences, FiniteSets

CONSTANTS
    Member,      \* ids of the Supervisors that run the service, in their order
    Mortal,      \* those of them that may be killed
    MaxVersion,  \* bound on the versions that are released
    MaxTerm,     \* bound on the update elections that are restarted
    MaxFaults,   \* bound on kills, failed updates and dead workers
    MaxDoubts    \* bound on the false suspicions

ASSUME MemberAssumption == Member \subseteq Nat \ {0} /\ Mortal \subseteq Member
ASSUME BoundsAssumption ==
    /\ MaxVersion \in Nat \ {0}
    /\ MaxTerm \in Nat /\ MaxFaults \in Nat /\ MaxDoubts \in Nat

VARIABLES
    latest,     \* the newest version in the channel of Builder
    up,         \* the Supervisors that run
    pkg,        \* pkg[m]: the version that m runs
    state,      \* state[m]: the RollingState of m
    worker,     \* worker[m]: its update worker, and the version it installs or has
    published,  \* published[m]: the versions in the service rumors of m, by incarnation
    known,      \* known[m][x]: the incarnation of the service rumor of x in the store of m
    health,     \* health[m][x]: the health of x in the member list of m
    election,   \* election[m]: the update election in the store of m
    winner,     \* winner[t]: who has won the update election of term t
    census,     \* census[m]: packages, alive members and update leader as m sees them
    news,       \* news[m]: what the counters of the stores of m tell its census
    faults, doubts

vars == <<latest, up, pkg, state, worker, published, known, health, election,
          winner, census, news, faults, doubts>>

NoMember == 0
Version == 1..MaxVersion
Term == 0..MaxTerm
Health == {"Alive", "Suspect", "Confirmed"}
State == {"AwaitingElection", "InElection", "LeaderWaiting", "LeaderPolling",
          "FollowerWaiting", "FollowerUpdating"}
Census == [pkg : [Member -> Version], alive : SUBSET Member, lead : Member \cup {NoMember}]

\* No worker, or one that installs a version or the newest one, waits in send
\* with the package, or has died.
Newest == 0
Idle == [at |-> "Idle", ident |-> Newest]
Dead == [at |-> "Dead", ident |-> Newest]
Install(v) == [at |-> "Installing", ident |-> v]
Worker == [at : {"Idle", "Installing", "Sending", "Dead"}, ident : {Newest} \cup Version]

\* The state of the updaters, the stores and the census has its type.
TypeOK ==
    /\ latest \in Version
    /\ up \subseteq Member
    /\ pkg \in [Member -> Version]
    /\ state \in [Member -> State]
    /\ worker \in [Member -> Worker]
    /\ published \in [Member -> Seq(Version)]
    /\ known \in [Member -> [Member -> Nat]]
    /\ health \in [Member -> [Member -> Health]]
    /\ election \in [Member -> [term : Term, status : {"None", "Running", "Finished"}]]
    /\ winner \in [Term -> Member \cup {NoMember}]
    /\ census \in [Member -> Census]
    /\ news \in [Member -> {"none", "some", "noting"}]
    /\ faults \in 0..MaxFaults /\ doubts \in 0..MaxDoubts

FirstCensus == [pkg |-> [x \in Member |-> 1], alive |-> Member, lead |-> NoMember]

Init ==
    /\ latest = 1
    /\ up = Member
    /\ pkg = [m \in Member |-> 1]
    /\ state = [m \in Member |-> "AwaitingElection"]
    /\ worker = [m \in Member |-> Idle]
    /\ published = [m \in Member |-> <<1>>]
    /\ known = [m \in Member |-> [x \in Member |-> 1]]
    /\ health = [m \in Member |-> [x \in Member |-> "Alive"]]
    /\ election = [m \in Member |-> [term |-> 0, status |-> "None"]]
    /\ winner = [t \in Term |-> NoMember]
    /\ census = [m \in Member |-> FirstCensus]
    /\ news = [m \in Member |-> "none"]
    /\ faults = 0 /\ doubts = 0

-----------------------------------------------------------------------------
(* The stores, as the gossip threads change them.                           *)

\* A store of m counts an update.  The census never learns of it when it comes
\* between the reading of the stores and the noting of the counters.
Counts(m) == news' = [news EXCEPT ![m] = IF @ = "noting" THEN @ ELSE "some"]

Electorate(m) == {x \in Member : health[m][x] = "Alive"}

CheckQuorum(m) ==
    /\ Cardinality(Member) >= 3
    /\ Cardinality(Electorate(m)) >= Cardinality(Member) \div 2 + 1

\* A service rumor of x arrives that is newer than the one in the store of m.
InsertService(m, x) ==
    /\ m \in up
    /\ \E i \in known[m][x] + 1..Len(published[x]) : known' = [known EXCEPT ![m][x] = i]
    /\ Counts(m)
    /\ UNCHANGED <<latest, up, pkg, state, worker, published, health, election,
                   winner, census, faults, doubts>>

\* The member list of m changes its mind about x; about one that runs it is
\* wrong at most MaxDoubts times.
InsertHealth(m, x, h) ==
    /\ m \in up /\ x # m /\ h # health[m][x]
    /\ IF x \in up THEN h = "Alive" \/ doubts < MaxDoubts
       ELSE <<health[m][x], h>> \in {<<"Alive", "Suspect">>, <<"Suspect", "Confirmed">>}
    /\ doubts' = IF x \in up /\ h # "Alive" THEN doubts + 1 ELSE doubts
    /\ health' = [health EXCEPT ![m][x] = h]
    /\ Counts(m)
    /\ UNCHANGED <<latest, up, pkg, state, worker, published, known, election,
                   winner, census, faults>>

Newer(e, f) ==
    \/ f.status = "None"
    \/ e.term > f.term
    \/ e.term = f.term /\ e.status = "Finished" /\ f.status = "Running"

\* An update election rumor arrives that is ahead of the one m has.
HearElection(m, e) ==
    /\ m \in up
    /\ \E x \in Member : election[x].status # "None" /\ election[x].term >= e.term
    /\ e.status = "Finished" => winner[e.term] # NoMember
    /\ Newer(e, election[m])
    /\ election' = [election EXCEPT ![m] = e]
    /\ Counts(m)
    /\ UNCHANGED <<latest, up, pkg, state, worker, published, known, health,
                   winner, census, faults, doubts>>

\* The rumor that names m comes back to it with the votes of all its electorate.
FinishElection(m) ==
    LET t == election[m].term IN
    /\ m \in up /\ election[m].status = "Running"
    /\ winner[t] = NoMember
    /\ CheckQuorum(m)
    /\ \A x \in Electorate(m) : election[x].status # "None" /\ election[x].term >= t
    /\ winner' = [winner EXCEPT ![t] = m]
    /\ election' = [election EXCEPT ![m].status = "Finished"]
    /\ Counts(m)
    /\ UNCHANGED <<latest, up, pkg, state, worker, published, known, health,
                   census, faults, doubts>>

Gossip(m) ==
    \/ FinishElection(m)
    \/ \E x \in Member : InsertService(m, x)
    \/ \E t \in Term, s \in {"Running", "Finished"} : HearElection(m, [term |-> t, status |-> s])

-----------------------------------------------------------------------------
(* Builder, the update workers, and the end of a Supervisor.                *)

Release ==
    /\ latest < MaxVersion
    /\ latest' = latest + 1
    /\ UNCHANGED <<up, pkg, state, worker, published, known, health, election,
                   winner, census, news, faults, doubts>>

\* Mutant: the worker hands over what it asked for, not what it has installed.
RunWorker_AskedFor(m) ==
    /\ m \in up /\ worker[m].at = "Installing"
    /\ worker[m].ident = Newest => pkg[m] < latest
    /\ worker' = [worker EXCEPT ![m].at = "Sending"]
    /\ UNCHANGED <<latest, up, pkg, state, published, known, health, election,
                   winner, census, news, faults, doubts>>
\* run_once installs the version it was started for, run_poll the newest one
\* once that is newer than the version the service runs.  Both then wait in
\* send; an installation that fails is tried again.
RunWorker(m) ==
    LET v == worker[m].ident IN
    /\ m \in up /\ worker[m].at = "Installing"
    /\ v = Newest => pkg[m] < latest
    /\ worker' = [worker EXCEPT ![m] =
                    [at |-> "Sending", ident |-> IF v = Newest THEN latest ELSE v]]
    /\ UNCHANGED <<latest, up, pkg, state, published, known, health, election,
                   winner, census, news, faults, doubts>>

WorkerDies(m) ==
    /\ m \in up /\ worker[m].at \in {"Installing", "Sending"}
    /\ faults < MaxFaults
    /\ faults' = faults + 1
    /\ worker' = [worker EXCEPT ![m] = Dead]
    /\ UNCHANGED <<latest, up, pkg, state, published, known, health, election,
                   winner, census, news, doubts>>

\* A Supervisor is killed.  Its rumors are still around; what was only in its
\* memory is gone.
Crash(m) ==
    /\ m \in up \cap Mortal /\ faults < MaxFaults
    /\ faults' = faults + 1
    /\ up' = up \ {m}
    /\ state' = [state EXCEPT ![m] = "AwaitingElection"]
    /\ worker' = [worker EXCEPT ![m] = Idle]
    /\ known' = [known EXCEPT ![m] = [x \in Member |-> 1]]
    /\ health' = [health EXCEPT ![m] = [x \in Member |-> "Alive"]]
    /\ census' = [census EXCEPT ![m] = FirstCensus]
    /\ news' = [news EXCEPT ![m] = "none"]
    /\ UNCHANGED <<latest, pkg, published, election, winner, doubts>>

-----------------------------------------------------------------------------
(* The census.                                                              *)

\* Mutant: an election under way has no leader, the one before it included.
UpdateFromElection_Cleared(lead, e) == IF e.status = "Finished" THEN winner[e.term] ELSE NoMember
\* Only a finished election says who leads.  While another one runs, the flags
\* on the members, and with them the leader, stay as they are.
UpdateFromElection(lead, e) == IF e.status = "Finished" THEN winner[e.term] ELSE lead

KnownPkgs(m) == [x \in Member |-> published[x][known[m][x]]]

\* CensusRing::update_from_rumors: the census of m from its stores.
Rebuilt(m, pkgs, e) ==
    [pkg |-> pkgs, alive |-> Electorate(m), lead |-> UpdateFromElection(census[m].lead, e)]

\* The alive members to the left of one, or all of them if it is the first.
LeftOf(m, alive) ==
    LET left == {x \in alive : x < m}
    IN  IF left = {} THEN alive ELSE left

\* p is the previous alive peer of m.
IsPreviousPeer(p, m, alive) ==
    /\ m \in alive /\ p # m
    /\ p \in LeftOf(m, alive)
    /\ \A x \in LeftOf(m, alive) : x =< p

CensusCurrent(m) == census[m] = Rebuilt(m, KnownPkgs(m), election[m])

\* Something else is counted: a vote, a configuration, a rumor of another group.
\* It matters where the census has missed something.
OtherRumor(m) ==
    /\ m \in up /\ news[m] = "none" /\ ~CensusCurrent(m)
    /\ Counts(m)
    /\ UNCHANGED <<latest, up, pkg, state, worker, published, known, health, election,
                   winner, census, faults, doubts>>

-----------------------------------------------------------------------------
(* A turn of the main loop: check_for_updated_packages, restart_elections   *)
(* and update_from_rumors.                                                  *)

AtCheck(m, s) == m \in up /\ news[m] # "noting" /\ state[m] = s

\* What restart_elections leaves of the update election e of m.
RestartElections(m, e) ==
    LET w == winner[e.term]
        lost == IF w = m THEN ~CheckQuorum(m) ELSE health[m][w] = "Confirmed"
    IN  IF e.status = "Finished" /\ e.term < MaxTerm /\ lost
        THEN [term |-> e.term + 1, status |-> "Running"]
        ELSE e

\* The end of the step: the elections and, if a store has news, the census.
UpdateFromRumors(m, e, gossiped) ==
    LET f == RestartElections(m, e) IN
    /\ election' = [election EXCEPT ![m] = f]
    /\ IF news[m] = "some" \/ gossiped \/ f # election[m]
       THEN /\ census' = [census EXCEPT ![m] = Rebuilt(m, KnownPkgs(m)', f)]
            /\ news' = [news EXCEPT ![m] = "noting"]
       ELSE UNCHANGED <<census, news>>
    /\ UNCHANGED <<latest, up, health, winner, doubts>>

Become(m, s, w) ==
    /\ state' = [state EXCEPT ![m] = s]
    /\ worker' = [worker EXCEPT ![m] = w]
    /\ UNCHANGED <<pkg, published, known, faults>>
    /\ UpdateFromRumors(m, election[m], FALSE)

StartUpdateElection(m) ==
    /\ AtCheck(m, "AwaitingElection")
    /\ state' = [state EXCEPT ![m] = "InElection"]
    /\ UNCHANGED <<pkg, worker, published, known, faults>>
    /\ UpdateFromRumors(m, IF election[m].status = "None"
                           THEN [term |-> 0, status |-> "Running"]
                           ELSE election[m], FALSE)

TakeRole(m) ==
    /\ AtCheck(m, "InElection")
    /\ census[m].lead # NoMember
    /\ Become(m, IF census[m].lead = m THEN "LeaderWaiting" ELSE "FollowerWaiting", Idle)

\* The update leader looks for a new version once all members agree with its own.
AllAgree(m) == \A x \in Member : census[m].pkg[x] = census[m].pkg[m]

StartPolling(m) ==
    /\ AtCheck(m, "LeaderWaiting")
    /\ AllAgree(m)
    /\ Become(m, "LeaderPolling", Install(Newest))

\* Mutant: a follower updates as soon as the leader has.
ItsTurn_WithTheLeader(m) ==
    census[m].lead # NoMember /\ census[m].pkg[census[m].lead] # census[m].pkg[m]
\* A follower updates when its previous peer has the version of the leader.
ItsTurn(m) ==
    LET g == census[m] IN
    /\ g.lead # NoMember
    /\ g.pkg[g.lead] # g.pkg[m]
    /\ \E p \in Member : IsPreviousPeer(p, m, g.alive) /\ g.pkg[p] = g.pkg[g.lead]

StartUpdating(m) ==
    /\ AtCheck(m, "FollowerWaiting")
    /\ ItsTurn(m)
    /\ Become(m, "FollowerUpdating", Install(census[m].pkg[census[m].lead]))

\* The package that a worker hands over; update_package may fail and leave the
\* service as it is, and the rumor is gossiped in either case.
UpdatePackage(m, s, after) ==
    /\ AtCheck(m, s) /\ worker[m].at = "Sending"
    /\ \/ pkg' = [pkg EXCEPT ![m] = worker[m].ident] /\ faults' = faults
       \/ faults < MaxFaults /\ faults' = faults + 1 /\ pkg' = pkg
    /\ published' = [published EXCEPT ![m] = Append(@, pkg'[m])]
    /\ known' = [known EXCEPT ![m][m] = Len(published[m]) + 1]
    /\ state' = [state EXCEPT ![m] = after]
    /\ worker' = [worker EXCEPT ![m] = Idle]
    /\ UpdateFromRumors(m, election[m], TRUE)

\* Mutant: the leader goes on polling before the others have followed.
UpdateLeader_NotWaiting(m) == UpdatePackage(m, "LeaderPolling", "LeaderPolling")
UpdateLeader(m) == UpdatePackage(m, "LeaderPolling", "LeaderWaiting")

\* Mutant: a follower does not gossip its new version.
UpdateFollower_NotGossiped(m) ==
    /\ AtCheck(m, "FollowerUpdating") /\ worker[m].at = "Sending"
    /\ pkg' = [pkg EXCEPT ![m] = worker[m].ident]
    /\ state' = [state EXCEPT ![m] = "FollowerWaiting"]
    /\ worker' = [worker EXCEPT ![m] = Idle]
    /\ UNCHANGED <<published, known, faults>>
    /\ UpdateFromRumors(m, election[m], FALSE)
UpdateFollower(m) == UpdatePackage(m, "FollowerUpdating", "FollowerWaiting")

\* A worker that has died is replaced.
RestartWorker(m) ==
    /\ worker[m].at = "Dead"
    /\ \/ /\ AtCheck(m, "LeaderPolling")
          /\ Become(m, "LeaderPolling", Install(Newest))
       \/ /\ AtCheck(m, "FollowerUpdating")
          /\ Become(m, "FollowerUpdating", Install(census[m].pkg[census[m].lead]))

\* Early returns of check_for_updated_package.
NothingToDo(m) ==
    /\ \/ AtCheck(m, "InElection") /\ census[m].lead = NoMember
       \/ AtCheck(m, "LeaderWaiting") /\ ~AllAgree(m)
       \/ AtCheck(m, "FollowerWaiting") /\ ~ItsTurn(m)
       \/ AtCheck(m, "LeaderPolling") /\ worker[m].at = "Installing"
       \/ AtCheck(m, "FollowerUpdating") /\ worker[m].at = "Installing"
    /\ Become(m, state[m], worker[m])

\* The counters are noted as they are by now, not as they were when the stores
\* were read.
NoteCounters(m) ==
    /\ m \in up /\ news[m] = "noting"
    /\ news' = [news EXCEPT ![m] = "none"]
    /\ UNCHANGED <<latest, up, pkg, state, worker, published, known, health,
                   election, winner, census, faults, doubts>>

MainLoop(m) ==
    \/ StartUpdateElection(m) \/ TakeRole(m)
    \/ StartPolling(m) \/ UpdateLeader(m)
    \/ StartUpdating(m) \/ UpdateFollower(m)
    \/ RestartWorker(m) \/ NothingToDo(m) \/ NoteCounters(m)

Next ==
    \/ Release
    \/ \E m \in Member :
         \/ MainLoop(m) \/ Gossip(m) \/ RunWorker(m) \/ WorkerDies(m) \/ Crash(m)
         \/ OtherRumor(m)
         \/ \E x \in Member, h \in Health : InsertHealth(m, x, h)

\* Main loops, workers and gossip go on for ever.
Fairness ==
    \A m \in Member : WF_vars(MainLoop(m)) /\ WF_vars(Gossip(m)) /\ WF_vars(RunWorker(m))

Spec == Init /\ [][Next]_vars /\ Fairness

-----------------------------------------------------------------------------
(* Properties.                                                              *)

Live(s) == {m \in up : state[m] = s}

\* The first update leader has not been given up, and nobody has been wrong
\* about another's health.
Calm == doubts = 0 /\ \A m \in Member : election[m].term = 0

\* The order of Follower(Waiting) in check_for_updated_package, each behind its
\* previous peer, lets one follower update at a time, although each of them
\* goes by a census of its own that lags behind.
OneAtATime == Calm => \A m, x \in Live("FollowerUpdating") : m = x

\* When the leader looks for the next version, Leader(Waiting) has seen to it
\* that all that are alive run the last one and none is still updating.
PollsWhenAgreed ==
    Calm => \A m \in Live("LeaderPolling"), x \in up :
              pkg[x] = pkg[m] /\ state[x] # "FollowerUpdating"

\* A follower whose worker died takes the version from the leader in its
\* census: update_leader().unwrap() in Follower(Updating) never panics, even
\* while the next update election runs.
UpdaterHasLeader == \A m \in Live("FollowerUpdating") : census[m].lead # NoMember

\* As long as no Supervisor stops, and each census catches up with what
\* NoteCounters made it miss, every member ends up with the last version.
RolloutCompletes ==
    []<>(\A m \in Member : m \in up /\ CensusCurrent(m))
      => (latest = MaxVersion ~> \A m \in Member : pkg[m] = MaxVersion)

\* "If ANY new rumor, of any type, has been received, reconstruct the entire
\* census state": a census that sees no news agrees with the stores.
CensusInStep == \A m \in up : news[m] = "none" => CensusCurrent(m)

\* The updates of a rolling update are one at a time, whatever becomes of the
\* leader.
OneAtATimeEver == \A m, x \in Live("FollowerUpdating") : m = x

\* A service is never updated to an older version.
NeverOlder == [][\A m \in Member : pkg'[m] >= pkg[m]]_vars
=============================================================================
