------------------------------ MODULE Election ------------------------------
(***************************************************************************)
(* The leader election of one service group in a ring of Supervisors       *)
(* (components/butterfly/src/server/mod.rs, insert_election and around),   *)
(* gossiped by the push thread and taken in by the pull thread.            *)
(*                                                                         *)
(* A handler is one step here; Gossip has the finer steps of the push      *)
(* worker.  What a Supervisor's member list says of its peers changes as   *)
(* MemberList and Swim let it change; of that only the health is kept:     *)
(* Doubt and Refute stand for every false suspicion and its end.           *)
(***************************************************************************)
EXTENDS ElectionOps, FiniteSets

CONSTANTS
    Server,       \* member ids of the Supervisors of the ring
    Founder,      \* those that know each other's service from the beginning
    Mortal,       \* those that may stop
    Graceful,     \* those of them that depart from the ring when they stop
    Flaky,        \* the pairs <<s, t>> where s may be wrong about the health of t
    Suitability,  \* what the suitability hook of each Supervisor answers
    MaxTerm,      \* bound on the restarts of the election
    MaxChurn,     \* bound on the false suspicions
    MaxInFlight   \* bound on the rumors pushed and not yet pulled

ASSUME ServerAssumption ==
    /\ Server \subseteq Int
    /\ Founder \subseteq Server
    /\ Mortal \subseteq Server /\ Graceful \subseteq Mortal
ASSUME FlakyAssumption == Flaky \subseteq Server \X Server
ASSUME SuitabilityAssumption == Suitability \in [Server -> Nat]
ASSUME BoundsAssumption ==
    MaxTerm \in Nat /\ MaxChurn \in Nat /\ MaxInFlight \in Nat

VARIABLES
    joined,  \* the Supervisors that have loaded the service
    known,   \* known[s]: whose service rumor is in the service store of s
    view,    \* view[s][t]: the health of t in the member list of s
    elec,    \* elec[s]: the election store of s, empty or a single rumor
    heat,    \* heat[s][t]: how often s has pushed its election rumor to t
    msgs,    \* election rumors pushed and not yet pulled
    up,      \* the Supervisors that run
    churn    \* false suspicions so far

vars == <<joined, known, view, elec, heat, msgs, up, churn>>

Health == {"Alive", "Suspect", "Confirmed", "Departed"}

RumorCoolDownLimit == 2
Rumor == ElectionOf(Server)
Message == [kind : {"election"}, from : Server, to : Server, rumor : Rumor]
           \cup [kind : {"service", "gone"}, from : Server, to : Server, id : Server]

-----------------------------------------------------------------------------
(* The group as one Supervisor sees it.                                     *)

Electorate(s) == {t \in known[s] : view[s][t] = "Alive"}

TotalPopulation(s) == {t \in known[s] : view[s][t] # "Departed"}

CheckQuorum(s) ==
    /\ Cardinality(TotalPopulation(s)) >= 3
    /\ Cardinality(Electorate(s)) >= (Cardinality(TotalPopulation(s)) \div 2) + 1

QuorumStatus(s) == IF CheckQuorum(s) THEN "Running" ELSE "NoQuorum"

OwnElection(s, term) == NewElection(s, Suitability[s], term, QuorumStatus(s))

-----------------------------------------------------------------------------
(* insert_election.  The rumor is restamped before it is merged: by its     *)
(* winner, who alone may finish it, and then with this server's quorum.     *)

Stamped(s, e) == IF IsFinished(e) THEN e ELSE [e EXCEPT !.status = QuorumStatus(s)]

\* Mutant: a majority of the electorate is enough to win.
Judged_Majority(s, e) ==
    IF ~CheckQuorum(s) THEN [e EXCEPT !.status = "NoQuorum"]
    ELSE IF 2 * Cardinality(Electorate(s) \cap e.votes) > Cardinality(Electorate(s))
    THEN [e EXCEPT !.status = "Finished"]
    ELSE e

Judged(s, e) ==
    IF ~CheckQuorum(s) THEN [e EXCEPT !.status = "NoQuorum"]
    ELSE IF Electorate(s) \subseteq e.votes THEN [e EXCEPT !.status = "Finished"]
    ELSE e

\* Mutant: any other term is taken for a new one.
NewTerm_AnyOther(s, e) == \E ce \in elec[s] : e.term # ce.term
NewTerm(s, e) == \E ce \in elec[s] : e.term > ce.term

\* The rumor of s that the incoming one is merged with.
Base(s, e) ==
    IF elec[s] = {} \/ NewTerm(s, e) THEN {OwnElection(s, e.term)} ELSE elec[s]

Restamped(s, e) ==
    Stamped(s, IF elec[s] # {} /\ e.member = s THEN Judged(s, e) ELSE e)

\* RumorStore::insert: the merge with what is stored, and whether it is shared.
StoreInsert(store, e) == IF store = {} THEN {e} ELSE {Merged(ce, e) : ce \in store}
StoreShares(store, e) == \A ce \in store : MergeShares(ce, e)

Rekindle(s) == heat' = [heat EXCEPT ![s] = [t \in Server |-> 0]]

InsertElection(s, e) ==
    LET base     == IF s \in joined THEN Base(s, e) ELSE elec[s]
        incoming == IF s \in joined THEN Restamped(s, e) ELSE e
        started  == base # elec[s]
    IN  /\ elec' = [elec EXCEPT ![s] = StoreInsert(base, incoming)]
        /\ IF started \/ StoreShares(base, incoming) THEN Rekindle(s) ELSE UNCHANGED heat

-----------------------------------------------------------------------------
\* The founders have loaded the service and started their elections before they
\* learned of each other's service rumor, so without a quorum.
Init ==
    /\ joined = Founder
    /\ known = [s \in Server |-> IF s \in Founder THEN Founder ELSE {}]
    /\ view = [s \in Server |-> [t \in Server |-> "Alive"]]
    /\ elec = [s \in Server |->
                IF s \in Founder THEN {NewElection(s, Suitability[s], 0, "NoQuorum")} ELSE {}]
    /\ heat = [s \in Server |-> [t \in Server |-> 0]]
    /\ msgs = {}
    /\ up = Server
    /\ churn = 0

\* add_service of the Supervisor, topology leader: it gossips its service and
\* starts an election in term 0.
Join(s) ==
    /\ s \in up \ joined
    /\ joined' = joined \cup {s}
    /\ known' = [known EXCEPT ![s] = @ \cup {s}]
    /\ UNCHANGED <<view, msgs, up, churn>>
    /\ elec' = [elec EXCEPT ![s] = StoreInsert(@, NewElection(s, Suitability[s], 0,
                    QuorumStatus(s)'))]
    /\ Rekindle(s)

\* What s has to tell t besides the election: the services of the group and the
\* members that stopped, of which t does not know.
Gone(s) == {x \in Server \ up : view[s][x] \in {"Confirmed", "Departed"}}
News(s, t) ==
    [kind : {"service"}, from : {s}, to : {t}, id : known[s] \ known[t]]
    \cup [kind : {"gone"}, from : {s}, to : {t}, id : Gone(s) \ (Gone(t) \cup {t})]

\* Mutant: one push too many.
Hot_OffByOne(s, t) == heat[s][t] <= RumorCoolDownLimit
Hot(s, t) == heat[s][t] < RumorCoolDownLimit

\* One push worker: it sends a peer every rumor that is hot for it in one go and
\* cools them.  The next push to that peer finds them pulled.
Push(s, t) ==
    LET hot == IF Hot(s, t)
               THEN [kind : {"election"}, from : {s}, to : {t}, rumor : elec[s]] ELSE {}
    IN  /\ s \in up /\ t # s
        /\ view[s][t] \in {"Alive", "Suspect"}
        /\ hot \cup News(s, t) # {}
        /\ \A m \in msgs : m.from # s \/ m.to # t
        /\ Cardinality(msgs) < MaxInFlight
        /\ msgs' = msgs \cup hot \cup News(s, t)
        /\ heat' = [heat EXCEPT ![s][t] = IF hot = {} THEN @ ELSE @ + 1]
        /\ UNCHANGED <<joined, known, view, elec, up, churn>>

\* The pull thread takes the rumors of a push in any order.
ReceiveElection(m) ==
    /\ m \in msgs /\ m.to \in up /\ m.kind = "election"
    /\ msgs' = msgs \ {m}
    /\ InsertElection(m.to, m.rumor)
    /\ UNCHANGED <<joined, known, view, up, churn>>

\* insert_service: a newcomer takes the place of the first member that is
\* confirmed dead, which becomes departed.
ReceiveService(m) ==
    LET dead == {d \in known[m.to] : view[m.to][d] = "Confirmed"}
    IN  /\ m \in msgs /\ m.to \in up /\ m.kind = "service"
        /\ msgs' = msgs \ {m}
        /\ known' = [known EXCEPT ![m.to] = @ \cup {m.id}]
        /\ view' = [view EXCEPT ![m.to] = [d \in Server |->
                IF m.id \notin known[m.to] /\ d \in dead /\ \A o \in dead : d <= o
                THEN "Departed" ELSE @[d]]]
        /\ UNCHANGED <<joined, elec, heat, up, churn>>

\* Hearing that a member has stopped, or finding out, one is told how.
Learn(s, x) ==
    view' = [view EXCEPT ![s][x] =
        IF x \in Graceful \/ @ = "Departed" THEN "Departed" ELSE "Confirmed"]

ReceiveGone(m) ==
    /\ m \in msgs /\ m.to \in up /\ m.kind = "gone"
    /\ msgs' = msgs \ {m}
    /\ Learn(m.to, m.id)
    /\ UNCHANGED <<joined, known, elec, heat, up, churn>>

\* A push to a Supervisor that no longer runs is lost.
Lose(m) ==
    /\ m \in msgs /\ m.to \notin up
    /\ msgs' = msgs \ {m}
    /\ UNCHANGED <<joined, known, view, elec, heat, up, churn>>

\* Mutant: only a leader that departed is replaced.
MustRestart_Departed(s, e) ==
    /\ IsFinished(e)
    /\ IF e.member = s THEN ~CheckQuorum(s) ELSE view[s][e.member] = "Departed"

MustRestart(s, e) ==
    /\ IsFinished(e)
    /\ IF e.member = s THEN ~CheckQuorum(s) ELSE view[s][e.member] = "Confirmed"

\* restart_elections, from the main loop of the Supervisor.
RestartElections(s) ==
    /\ s \in up \cap joined
    /\ \E e \in elec[s] :
          /\ MustRestart(s, e)
          /\ e.term < MaxTerm
          /\ elec' = [elec EXCEPT ![s] = {OwnElection(s, e.term + 1)}]
    /\ Rekindle(s)
    /\ UNCHANGED <<joined, known, view, msgs, up, churn>>

\* A Supervisor that runs is suspected, or even confirmed dead.
Doubt(s, t, h) ==
    /\ s \in up /\ t \in up /\ <<s, t>> \in Flaky
    /\ churn < MaxChurn
    /\ <<view[s][t], h>> \in {<<"Alive", "Suspect">>, <<"Suspect", "Confirmed">>}
    /\ view' = [view EXCEPT ![s][t] = h]
    /\ churn' = churn + 1
    /\ UNCHANGED <<joined, known, elec, heat, msgs, up>>

\* It hears of that, and refutes it with a higher incarnation.
Refute(s, t) ==
    /\ s \in up /\ t \in up
    /\ view[s][t] # "Alive"
    /\ view' = [view EXCEPT ![s][t] = "Alive"]
    /\ UNCHANGED <<joined, known, elec, heat, msgs, up, churn>>

\* A Supervisor crashes, or departs from the ring as it shuts down.
Stop(s) ==
    /\ s \in up \cap Mortal
    /\ up' = up \ {s}
    /\ UNCHANGED <<joined, known, view, elec, heat, msgs, churn>>

\* The failure detector of s finds out that t has stopped.
Detect(s, t) ==
    /\ s \in up /\ t \notin up
    /\ view[s][t] \in {"Alive", "Suspect"}
    /\ Learn(s, t)
    /\ UNCHANGED <<joined, known, elec, heat, msgs, up, churn>>

Pull(m) == ReceiveElection(m) \/ ReceiveService(m) \/ ReceiveGone(m) \/ Lose(m)

Next ==
    \/ \E s \in Server : Join(s) \/ RestartElections(s) \/ Stop(s)
    \/ \E s, t \in Server : Push(s, t) \/ Detect(s, t) \/ Refute(s, t)
    \/ \E m \in msgs : Pull(m)
    \/ \E s, t \in Server, h \in Health : Doubt(s, t, h)

Spec == Init /\ [][Next]_vars

\* Every thread of a Supervisor that runs keeps running; nobody has to stop,
\* nor to be suspected.  The push thread goes through all its peers, round after
\* round; fairness is strong for it because the bound MaxInFlight, which the
\* code does not have, can disable a push that is due.
Fairness ==
    /\ WF_vars(\E s \in Server : Join(s))
    /\ WF_vars(\E s, t \in Server : Detect(s, t) \/ Refute(s, t))
    /\ \A s \in Server : WF_vars(RestartElections(s))
    /\ \A s \in Server : \A t \in Server \ {s} :
          SF_vars(Push(s, t)) /\ WF_vars(\E m \in msgs : m.from = s /\ m.to = t /\ Pull(m))
FairSpec == Spec /\ Fairness

-----------------------------------------------------------------------------
(* Properties.                                                              *)

\* Every election rumor in a store or under way.
Rumors == (UNION {elec[s] : s \in Server})
          \cup {m.rumor : m \in {n \in msgs : n.kind = "election"}}

\* Every variable keeps its type, an election store holds at most one rumor,
\* and no rumor is pushed more often than the cool-down limit allows.
TypeOK ==
    /\ joined \subseteq Server
    /\ known \in [Server -> SUBSET Server]
    /\ view \in [Server -> [Server -> Health]]
    /\ elec \in [Server -> SUBSET Rumor] /\ \A s \in Server : \A e, f \in elec[s] : e = f
    /\ heat \in [Server -> [Server -> 0 .. RumorCoolDownLimit]]
    /\ msgs \subseteq Message
    /\ up \subseteq Server
    /\ churn \in 0 .. MaxChurn

\* Votes only ever move from a weaker candidate to a stronger one: whoever is
\* in the tally of a candidate does not outrank it (merge, which decides who
\* steals whose votes).
VotesFlowUp ==
    \A e \in Rumors : \A v \in e.votes :
        Outranks(e, [suitability |-> Suitability[v], member |-> v])

\* Two Supervisors can only both win a term if one of them was counted without
\* the other's vote: winners that hold each other's vote are the same member.
SoleWinner ==
    \A e, f \in Rumors :
        /\ IsFinished(e) /\ IsFinished(f) /\ e.term = f.term
        /\ f.member \in e.votes /\ e.member \in f.votes
        => e.member = f.member

\* The stored election never goes back to an earlier term, and is never lost
\* (insert_election and restart_elections remove it only to start a new one).
TermNeverDecreases ==
    [][\A s \in Server : \A e \in elec[s] : \E f \in elec'[s] : f.term >= e.term]_vars

\* Without false suspicions a term has one winner, also when a Supervisor joins the
\* group while the others vote (insert_election finishes an election only with the
\* votes of the whole electorate).
OneLeaderPerTerm ==
    churn = 0 => \A e, f \in Rumors :
        IsFinished(e) /\ IsFinished(f) /\ e.term = f.term => e.member = f.member

AgreedOn(l) == \A s \in up : \E e \in elec[s] : IsFinished(e) /\ e.member = l

\* While nobody stops, the election devolves to one rumor that every Supervisor holds
\* (the documentation of Election: "There can, in the end, be only one").
EventuallyOne == [](up = Server) => <>[](\E l \in Server : AgreedOn(l))

\* A leader the others agreed on is replaced after it stopped.
LeaderReplaced ==
    \A l \in Mortal : (l \notin up /\ AgreedOn(l)) ~> (\E k \in up : AgreedOn(k))

\* Once the Supervisors that run have a quorum for good, one of them is elected.
QuorumElects ==
    <>[](\A s \in up : CheckQuorum(s)) => <>(\E l \in Server : AgreedOn(l))

=============================================================================
