--------------------------- MODULE ElectionProofs ---------------------------
(***************************************************************************)
(* What the merge of election rumors guarantees whatever the Supervisors   *)
(* believe of each other's health: votes only move up, and two winners of  *)
(* one term that hold each other's vote are the same member.  And what it  *)
(* guarantees of a complete group as long as nobody is falsely suspected.  *)
(***************************************************************************)
EXTENDS Election, FiniteSetTheorems, TLAPS

\* A candidate as Outranks sees it.
Rank(v) == [suitability |-> Suitability[v], member |-> v]

\* A rumor that is well formed, carries its candidate's own suitability, and
\* whose voters its candidate outranks.
Sound(e) ==
    /\ e \in Rumor
    /\ e.suitability = Suitability[e.member]
    /\ \A v \in e.votes : Outranks(e, Rank(v))

\* VotesFlowUp alone is not inductive: a merge compares the suitabilities the
\* rumors carry, so these must be those of their candidates.
IInv ==
    /\ TypeOK
    /\ \A s \in Server : \A e \in elec[s] : Sound(e)
    /\ \A m \in msgs : m.kind = "election" => Sound(m.rumor)

-----------------------------------------------------------------------------
\* The fields the order on candidates compares.
LEMMA RumorFields ==
    ASSUME NEW e \in Rumor
    PROVE  e.member \in Int /\ e.suitability \in Nat
  <1>1. e.member \in Server /\ e.suitability \in Nat
    BY DEF Rumor, ElectionOf
  <1> QED BY Zenon, <1>1, ServerAssumption

LEMMA RankFields ==
    ASSUME NEW v \in Server
    PROVE  Rank(v).member \in Int /\ Rank(v).suitability \in Nat
  BY ServerAssumption, SuitabilityAssumption DEF Rank

\* Outranks is a total preorder on candidates, which is what lets the rumors
\* of one term devolve to one.
LEMMA OutranksTotal ==
    ASSUME NEW e \in Rumor, NEW f \in Rumor, ~Outranks(e, f)
    PROVE  Outranks(f, e)
  <1>1. /\ e.member \in Int /\ e.suitability \in Nat
        /\ f.member \in Int /\ f.suitability \in Nat
    BY RumorFields
  <1> QED BY <1>1 DEF Outranks

LEMMA OutranksTransitive ==
    ASSUME NEW e, e.member \in Int, e.suitability \in Nat,
           NEW f, f.member \in Int, f.suitability \in Nat,
           NEW g, g.member \in Int, g.suitability \in Nat,
           Outranks(e, f), Outranks(f, g)
    PROVE  Outranks(e, g)
  BY DEF Outranks

\* Election::new: a fresh candidacy holds its own vote only.
LEMMA FreshSound ==
    ASSUME NEW s \in Server, NEW term \in Nat, NEW status \in Status
    PROVE  Sound(NewElection(s, Suitability[s], term, status))
  BY ServerAssumption, SuitabilityAssumption
     DEF Sound, Rumor, ElectionOf, NewElection, Outranks, Rank

LEMMA QuorumStatusType == ASSUME NEW s PROVE QuorumStatus(s) \in Status
  BY DEF QuorumStatus, Status

\* steal_votes from a candidate one outranks.
LEMMA StealSound ==
    ASSUME NEW e, NEW f, Sound(e), Sound(f), Outranks(e, f)
    PROVE  Sound(StealVotes(e, f))
  <1> DEFINE r == StealVotes(e, f)
  <1>1. /\ r \in Rumor /\ r.suitability = e.suitability /\ r.member = e.member
        /\ r.votes = e.votes \cup f.votes
    BY DEF StealVotes, Sound, Rumor, ElectionOf
  <1>2. ASSUME NEW v \in r.votes PROVE Outranks(r, Rank(v))
    <2>1. v \in Server
      BY <1>1 DEF Rumor, ElectionOf
    <2>2. CASE v \in e.votes
      BY <1>1, <2>2 DEF Sound, Outranks, Rank
    <2>3. CASE v \in f.votes
      <3>1. Outranks(f, Rank(v))
        BY <2>3 DEF Sound
      <3>2. e \in Rumor /\ f \in Rumor
        BY DEF Sound
      <3>3. Outranks(e, Rank(v))
        BY <2>1, <3>1, <3>2, RumorFields, RankFields, OutranksTransitive
      <3> QED
        BY <1>1, <3>3 DEF Outranks
    <2> QED BY <1>1, <2>2, <2>3
  <1> QED BY <1>1, <1>2 DEF Sound

\* merge keeps what it is given sound.
LEMMA MergedSound ==
    ASSUME NEW e, NEW f, Sound(e), Sound(f)
    PROVE  Sound(Merged(e, f))
  <1>1. e \in Rumor /\ f \in Rumor
    BY DEF Sound
  <1>2. CASE Outranks(e, f)
    BY <1>2, StealSound DEF Merged
  <1>3. CASE ~Outranks(e, f)
    BY <1>1, <1>3, OutranksTotal, StealSound DEF Merged
  <1> QED BY <1>2, <1>3

\* Only the status of an incoming rumor is rewritten before it is merged.
LEMMA StatusSound ==
    ASSUME NEW e, Sound(e), NEW st \in Status
    PROVE  Sound([e EXCEPT !.status = st])
  <1> DEFINE r == [e EXCEPT !.status = st]
  <1>1. /\ r \in Rumor /\ r.suitability = e.suitability /\ r.member = e.member
        /\ r.votes = e.votes
    BY DEF Sound, Rumor, ElectionOf
  <1>2. \A v \in r.votes : Outranks(r, Rank(v))
    BY <1>1 DEF Sound, Outranks
  <1> QED BY <1>1, <1>2 DEF Sound

LEMMA RestampedSound ==
    ASSUME NEW s \in Server, NEW e, Sound(e)
    PROVE  Sound(Restamped(s, e))
  <1>1. Sound(Judged(s, e))
    BY Zenon, StatusSound DEF Judged, Status
  <1>2. ASSUME NEW f, Sound(f) PROVE Sound(Stamped(s, f))
    BY <1>2, StatusSound, QuorumStatusType DEF Stamped
  <1> QED BY <1>1, <1>2 DEF Restamped

-----------------------------------------------------------------------------
(* insert_election as a whole.                                              *)

\* merge never goes back to an earlier term.
LEMMA MergedTerm ==
    ASSUME NEW e \in Rumor, NEW f \in Rumor
    PROVE  Merged(e, f).term >= e.term
  <1>1. e.term \in Nat /\ f.term \in Nat
    BY DEF Rumor, ElectionOf
  <1>2. StealVotes(e, f).term = e.term /\ StealVotes(f, e).term = f.term
    BY DEF StealVotes, Rumor, ElectionOf
  <1> QED BY <1>1, <1>2 DEF Merged, TakesWinner

\* What an election store of Supervisor s may hold.
Store(S) == (\A e \in S : Sound(e)) /\ (\A e, f \in S : e = f)

LEMMA StoreInsertSound ==
    ASSUME NEW S, Store(S), NEW e, Sound(e)
    PROVE  Store(StoreInsert(S, e))
  BY MergedSound DEF Store, StoreInsert

\* The store of s after insert_election.
Inserted(s, e) ==
    StoreInsert(IF s \in joined THEN Base(s, e) ELSE elec[s],
                IF s \in joined THEN Restamped(s, e) ELSE e)

LEMMA BaseSound ==
    ASSUME NEW s \in Server, Store(elec[s]), NEW e, Sound(e)
    PROVE  Store(Base(s, e))
  <1>1. e.term \in Nat
    BY DEF Sound, Rumor, ElectionOf
  <1>2. Sound(OwnElection(s, e.term))
    BY <1>1, FreshSound, QuorumStatusType DEF OwnElection
  <1> QED BY <1>2 DEF Base, Store

LEMMA InsertedSound ==
    ASSUME NEW s \in Server, Store(elec[s]), NEW e, Sound(e)
    PROVE  Store(Inserted(s, e))
  BY BaseSound, RestampedSound, StoreInsertSound DEF Inserted

LEMMA InsertedTerm ==
    ASSUME NEW s \in Server, Store(elec[s]), NEW e, Sound(e), NEW ce \in elec[s]
    PROVE  \E f \in Inserted(s, e) : f.term >= ce.term
  <1> DEFINE base     == IF s \in joined THEN Base(s, e) ELSE elec[s]
             incoming == IF s \in joined THEN Restamped(s, e) ELSE e
  <1>1. Store(base) /\ Sound(incoming)
    BY BaseSound, RestampedSound
  <1>2. ce.term \in Nat /\ e.term \in Nat
    BY DEF Store, Sound, Rumor, ElectionOf
  <1>3. PICK b \in base : b.term >= ce.term /\ b.term \in Nat
    <2>1. CASE s \in joined /\ NewTerm(s, e)
      <3>1. \A c \in elec[s] : c = ce
        BY DEF Store
      <3>2. e.term > ce.term
        BY <2>1, <3>1 DEF NewTerm
      <3>3. OwnElection(s, e.term).term = e.term
        BY DEF OwnElection, NewElection
      <3>4. base = {OwnElection(s, e.term)}
        BY <2>1 DEF Base
      <3> QED BY <1>2, <3>2, <3>3, <3>4
    <2>2. CASE ~(s \in joined /\ NewTerm(s, e))
      <3>1. base = elec[s]
        BY <2>2 DEF Base
      <3> QED BY <1>2, <3>1
    <2> QED BY <2>1, <2>2
  <1>4. b \in Rumor /\ incoming \in Rumor
    BY <1>1 DEF Store, Sound
  <1>5. Merged(b, incoming).term >= b.term
    BY <1>4, MergedTerm
  <1>6. Merged(b, incoming) \in Inserted(s, e)
    BY <1>3 DEF Inserted, StoreInsert
  <1>7. Merged(b, incoming).term \in Nat
    BY <1>1, MergedSound DEF Store, Sound, Rumor, ElectionOf
  <1> QED BY <1>2, <1>3, <1>5, <1>6, <1>7

-----------------------------------------------------------------------------
(* The inductive invariant.                                                 *)

LEMMA IInvInit == Init => IInv
  <1> SUFFICES ASSUME Init PROVE IInv
    OBVIOUS
  <1>1. \A s \in Server : Sound(NewElection(s, Suitability[s], 0, "NoQuorum"))
    BY FreshSound DEF Status
  <1>2. \A s \in Server : Store(elec[s])
    BY <1>1 DEF Init, Store
  <1>3. elec \in [Server -> SUBSET Rumor]
    BY <1>1 DEF Init, Sound
  <1>4. TypeOK
    BY <1>2, <1>3, ServerAssumption, BoundsAssumption
       DEF Init, TypeOK, Store, Health, RumorCoolDownLimit
  <1> QED BY <1>2, <1>4 DEF Init, IInv, Store

\* What the invariant says of every store.
LEMMA StoresOfIInv ==
    ASSUME IInv
    PROVE  \A s \in Server : Store(elec[s])
  BY DEF IInv, TypeOK, Store

\* A step that replaces the store of one Supervisor by a sound one.
LEMMA SetStore ==
    ASSUME IInv, NEW s \in Server, NEW S, Store(S),
           elec' = [elec EXCEPT ![s] = S]
    PROVE  /\ elec' \in [Server -> SUBSET Rumor]
           /\ \A t \in Server : Store(elec'[t])
  <1>1. \A t \in Server : Store(elec[t])
    BY StoresOfIInv
  <1>2. S \subseteq Rumor
    BY DEF Store, Sound
  <1> QED BY <1>1, <1>2 DEF IInv, TypeOK

LEMMA RekindleType ==
    ASSUME IInv, NEW s \in Server, Rekindle(s)
    PROVE  heat' \in [Server -> [Server -> 0 .. RumorCoolDownLimit]]
  BY DEF IInv, TypeOK, Rekindle, RumorCoolDownLimit

LEMMA InsertElectionStore ==
    ASSUME IInv, NEW s \in Server, NEW e, Sound(e), InsertElection(s, e)
    PROVE  /\ elec' = [elec EXCEPT ![s] = Inserted(s, e)]
           /\ elec' \in [Server -> SUBSET Rumor]
           /\ \A t \in Server : Store(elec'[t])
           /\ heat' \in [Server -> [Server -> 0 .. RumorCoolDownLimit]]
  <1>1. elec' = [elec EXCEPT ![s] = Inserted(s, e)]
    BY DEF InsertElection, Inserted
  <1>2. Store(Inserted(s, e))
    BY StoresOfIInv, InsertedSound
  <1>3. Rekindle(s) \/ UNCHANGED heat
    BY DEF InsertElection
  <1>4. heat' \in [Server -> [Server -> 0 .. RumorCoolDownLimit]]
    BY <1>3, RekindleType DEF IInv, TypeOK
  <1> QED BY Zenon, <1>1, <1>2, <1>4, SetStore

LEMMA LearnType ==
    ASSUME IInv, NEW s \in Server, NEW x \in Server, Learn(s, x)
    PROVE  view' \in [Server -> [Server -> Health]]
  BY DEF IInv, TypeOK, Learn, Health

LEMMA IInvStep == IInv /\ [Next]_vars => IInv'
  <1> SUFFICES ASSUME IInv, [Next]_vars PROVE IInv'
    OBVIOUS
  <1> DEFINE StoresOK == /\ elec' \in [Server -> SUBSET Rumor]
                         /\ \A t \in Server : Store(elec'[t])
             HeatOK   == heat' \in [Server -> [Server -> 0 .. RumorCoolDownLimit]]
             MsgsOK   == /\ msgs' \subseteq Message
                         /\ \A m \in msgs' : m.kind = "election" => Sound(m.rumor)
             RestOK   == /\ joined' \subseteq Server
                         /\ known' \in [Server -> SUBSET Server]
                         /\ view' \in [Server -> [Server -> Health]]
                         /\ up' \subseteq Server
                         /\ churn' \in 0 .. MaxChurn
  <1>a. (StoresOK /\ HeatOK /\ MsgsOK /\ RestOK) => IInv'
    BY DEF IInv, TypeOK, Store
  <1>b. UNCHANGED elec => StoresOK
    BY StoresOfIInv DEF IInv, TypeOK
  <1>c. UNCHANGED heat => HeatOK
    BY DEF IInv, TypeOK
  <1>d. msgs' \subseteq msgs => MsgsOK
    BY DEF IInv, TypeOK
  <1>e. UNCHANGED <<joined, known, view, up, churn>> => RestOK
    BY DEF IInv, TypeOK
  <1>1. ASSUME NEW s \in Server, Join(s) PROVE IInv'
    <2>1. RestOK
      BY <1>1 DEF Join, IInv, TypeOK
    <2>2. QuorumStatus(s)' \in Status
      BY DEF QuorumStatus, Status
    <2>3. Sound(NewElection(s, Suitability[s], 0, QuorumStatus(s)'))
      BY <2>2, FreshSound
    <2>4. Store(StoreInsert(elec[s], NewElection(s, Suitability[s], 0, QuorumStatus(s)')))
      BY <2>3, StoresOfIInv, StoreInsertSound
    <2>5. StoresOK
      <3>1. elec' = [elec EXCEPT ![s] =
                        StoreInsert(elec[s], NewElection(s, Suitability[s], 0, QuorumStatus(s)'))]
        BY <1>1 DEF Join, IInv, TypeOK
      <3> QED BY Zenon, <2>4, <3>1, SetStore
    <2>6. HeatOK
      BY <1>1, RekindleType DEF Join
    <2> QED BY <1>1, <1>a, <1>d, <2>1, <2>5, <2>6 DEF Join
  <1>2. ASSUME NEW s \in Server, RestartElections(s) PROVE IInv'
    <2>1. PICK e \in elec[s] : elec' = [elec EXCEPT ![s] = {OwnElection(s, e.term + 1)}]
      BY Zenon, <1>2 DEF RestartElections
    <2>2. e.term + 1 \in Nat
      BY DEF IInv, TypeOK, Rumor, ElectionOf
    <2>3. Store({OwnElection(s, e.term + 1)})
      BY <2>2, FreshSound, QuorumStatusType DEF OwnElection, Store
    <2>4. StoresOK
      BY Zenon, <2>1, <2>3, SetStore
    <2>5. HeatOK
      BY <1>2, RekindleType DEF RestartElections
    <2> QED BY Zenon, <1>2, <1>a, <1>d, <1>e, <2>4, <2>5 DEF RestartElections
  <1>3. ASSUME NEW s \in Server, Stop(s) PROVE IInv'
    <2>1. RestOK
      BY <1>3 DEF Stop, IInv, TypeOK
    <2> QED BY <1>3, <1>a, <1>b, <1>c, <1>d, <2>1 DEF Stop
  <1>4. ASSUME NEW s \in Server, NEW t \in Server, Push(s, t) PROVE IInv'
    <2> DEFINE hot == IF Hot(s, t)
                      THEN [kind : {"election"}, from : {s}, to : {t}, rumor : elec[s]] ELSE {}
    <2>1. msgs' = msgs \cup hot \cup News(s, t)
      BY <1>4 DEF Push
    <2>2. ASSUME NEW m \in hot PROVE m \in Message /\ Sound(m.rumor)
      <3>1. m \in [kind : {"election"}, from : {s}, to : {t}, rumor : elec[s]]
        BY <2>2
      <3>2. elec[s] \subseteq Rumor /\ \A e \in elec[s] : Sound(e)
        BY DEF IInv, TypeOK
      <3> QED BY <3>1, <3>2 DEF Message
    <2>3. ASSUME NEW m \in News(s, t) PROVE m \in Message /\ m.kind # "election"
      <3>1. known[s] \subseteq Server /\ Gone(s) \subseteq Server
        BY DEF IInv, TypeOK, Gone
      <3> QED BY <2>3, <3>1 DEF News, Message
    <2>4. MsgsOK
      BY <2>1, <2>2, <2>3 DEF IInv, TypeOK
    <2>5. HeatOK
      <3>1. hot # {} => heat[s][t] < RumorCoolDownLimit
        BY DEF Hot
      <3>2. heat' = [heat EXCEPT ![s][t] = IF hot = {} THEN @ ELSE @ + 1]
        BY <1>4 DEF Push
      <3> QED BY <3>1, <3>2 DEF IInv, TypeOK, RumorCoolDownLimit
    <2> QED BY <1>4, <1>a, <1>b, <1>e, <2>4, <2>5 DEF Push
  <1>5. ASSUME NEW s \in Server, NEW t \in Server, Detect(s, t) PROVE IInv'
    <2>1. RestOK
      BY <1>5, LearnType DEF Detect, IInv, TypeOK
    <2> QED BY <1>5, <1>a, <1>b, <1>c, <1>d, <2>1 DEF Detect
  <1>6. ASSUME NEW s \in Server, NEW t \in Server, Refute(s, t) PROVE IInv'
    <2>1. RestOK
      BY <1>6 DEF Refute, IInv, TypeOK, Health
    <2> QED BY <1>6, <1>a, <1>b, <1>c, <1>d, <2>1 DEF Refute
  <1>7. ASSUME NEW s \in Server, NEW t \in Server, NEW h \in Health, Doubt(s, t, h)
        PROVE  IInv'
    <2>1. RestOK
      BY <1>7, BoundsAssumption DEF Doubt, IInv, TypeOK
    <2> QED BY <1>7, <1>a, <1>b, <1>c, <1>d, <2>1 DEF Doubt
  <1>8. ASSUME NEW m \in msgs, ReceiveElection(m) PROVE IInv'
    <2>1. m.to \in Server /\ Sound(m.rumor)
      BY <1>8 DEF ReceiveElection, IInv, TypeOK, Message
    <2>2. StoresOK /\ HeatOK
      BY <1>8, <2>1, InsertElectionStore DEF ReceiveElection
    <2> QED BY <1>8, <1>a, <1>d, <1>e, <2>2 DEF ReceiveElection
  <1>9. ASSUME NEW m \in msgs, ReceiveService(m) PROVE IInv'
    <2>1. m.to \in Server /\ m.id \in Server
      BY <1>9 DEF ReceiveService, IInv, TypeOK, Message
    <2>2. RestOK
      BY <1>9, <2>1 DEF ReceiveService, IInv, TypeOK, Health
    <2> QED BY <1>9, <1>a, <1>b, <1>c, <1>d, <2>2 DEF ReceiveService
  <1>10. ASSUME NEW m \in msgs, ReceiveGone(m) PROVE IInv'
    <2>1. m.to \in Server /\ m.id \in Server
      BY <1>10 DEF ReceiveGone, IInv, TypeOK, Message
    <2>2. RestOK
      BY <1>10, <2>1, LearnType DEF ReceiveGone, IInv, TypeOK
    <2> QED BY <1>10, <1>a, <1>b, <1>c, <1>d, <2>2 DEF ReceiveGone
  <1>11. ASSUME NEW m \in msgs, Lose(m) PROVE IInv'
    BY <1>11, <1>a, <1>b, <1>c, <1>d, <1>e DEF Lose
  <1>12. CASE UNCHANGED vars
    BY <1>12, <1>a, <1>b, <1>c, <1>d, <1>e DEF vars
  <1> QED BY <1>1, <1>2, <1>3, <1>4, <1>5, <1>6, <1>7, <1>8, <1>9, <1>10, <1>11, <1>12
      DEF Next, Pull

-----------------------------------------------------------------------------
\* Stores and messages stay sound however the members' health goes up and down.
THEOREM InductiveInvariant == Spec => []IInv
  <1> QED BY IInvInit, IInvStep, PTL DEF Spec

\* Every variable keeps its type: no push exceeds the cool-down limit, no store
\* ever holds two elections of the group.
THEOREM TypeCorrect == Spec => []TypeOK
  <1>1. IInv => TypeOK
    BY DEF IInv
  <1> QED BY <1>1, InductiveInvariant, PTL

\* Every rumor of a reachable state is sound.
LEMMA RumorsSound == ASSUME IInv PROVE \A e \in Rumors : Sound(e)
  <1> SUFFICES ASSUME NEW e \in Rumors PROVE Sound(e)
    OBVIOUS
  <1>1. CASE \E s \in Server : e \in elec[s]
    BY <1>1 DEF IInv
  <1>2. CASE \E m \in msgs : m.kind = "election" /\ e = m.rumor
    BY <1>2 DEF IInv
  <1> QED BY <1>1, <1>2 DEF Rumors

\* merge only ever lets the stronger candidate steal votes, for any number of
\* Supervisors, restarts and false suspicions.
THEOREM VotesOnlyFlowUp == Spec => []VotesFlowUp
  <1>1. IInv => VotesFlowUp
    BY RumorsSound DEF VotesFlowUp, Sound, Rank
  <1> QED BY <1>1, InductiveInvariant, PTL

\* Candidates that outrank each other are the same.
LEMMA MutualOutranks ==
    ASSUME NEW e, NEW f, Sound(e), Sound(f),
           Outranks(e, Rank(f.member)), Outranks(f, Rank(e.member))
    PROVE  e.member = f.member
  <1>1. /\ Rank(f.member).suitability = f.suitability /\ Rank(f.member).member = f.member
        /\ Rank(e.member).suitability = e.suitability /\ Rank(e.member).member = e.member
    BY DEF Rank, Sound
  <1>2. /\ e.member \in Int /\ e.suitability \in Nat
        /\ f.member \in Int /\ f.suitability \in Nat
    BY RumorFields DEF Sound
  <1> QED BY <1>1, <1>2 DEF Outranks

\* Two winners of one term that hold each other's vote are the same member:
\* double leadership takes a winner that was counted without the other's vote.
THEOREM MutualVotesDecide == Spec => []SoleWinner
  <1>1. ASSUME IInv PROVE SoleWinner
    <2> SUFFICES ASSUME NEW e \in Rumors, NEW f \in Rumors,
                        f.member \in e.votes, e.member \in f.votes
                 PROVE  e.member = f.member
      BY DEF SoleWinner
    <2>1. Sound(e) /\ Sound(f)
      BY <1>1, RumorsSound
    <2>2. Outranks(e, Rank(f.member)) /\ Outranks(f, Rank(e.member))
      BY <2>1 DEF Sound
    <2> QED BY <2>1, <2>2, MutualOutranks
  <1> QED BY <1>1, InductiveInvariant, PTL

\* insert_election and restart_elections remove the stored election only to put
\* one of a later term in its place.
THEOREM TermsOnlyGrow == Spec => TermNeverDecreases
  <1> DEFINE Later(S, T) == \A e \in S : \E f \in T : f.term >= e.term
  <1>1. ASSUME IInv, [Next]_vars
        PROVE  [\A s \in Server : \A e \in elec[s] : \E f \in elec'[s] : f.term >= e.term]_vars
    <2> SUFFICES ASSUME NEW s \in Server PROVE Later(elec[s], elec'[s])
      OBVIOUS
    <2>1. \A t \in Server : \A e \in elec[t] : Sound(e) /\ e.term \in Nat
      BY <1>1 DEF IInv, Sound, Rumor, ElectionOf
    <2>2. CASE UNCHANGED elec
      BY <2>1, <2>2
    <2>3. ASSUME NEW t \in Server, Join(t) PROVE Later(elec[s], elec'[s])
      <3> DEFINE new == NewElection(t, Suitability[t], 0, QuorumStatus(t)')
      <3>1. elec' = [elec EXCEPT ![t] = StoreInsert(elec[t], new)] /\ DOMAIN elec = Server
        BY <1>1, <2>3 DEF Join, IInv, TypeOK
      <3>2. new \in Rumor
        BY FreshSound DEF QuorumStatus, Status, Sound
      <3>3. \A e \in elec[t] : Merged(e, new).term >= e.term
        BY <2>1, <3>2, MergedTerm DEF Sound
      <3>4. Later(elec[t], StoreInsert(elec[t], new))
        BY <3>3 DEF StoreInsert
      <3> QED BY <2>1, <3>1, <3>4
    <2>4. ASSUME NEW t \in Server, RestartElections(t) PROVE Later(elec[s], elec'[s])
      <3>1. PICK e \in elec[t] : elec' = [elec EXCEPT ![t] = {OwnElection(t, e.term + 1)}]
        BY Zenon, <2>4 DEF RestartElections
      <3>2. OwnElection(t, e.term + 1).term = e.term + 1
        BY DEF OwnElection, NewElection
      <3>3. DOMAIN elec = Server /\ \A c \in elec[t] : c = e
        BY <1>1 DEF IInv, TypeOK
      <3> QED BY <2>1, <3>1, <3>2, <3>3
    <2>5. ASSUME NEW m \in msgs, ReceiveElection(m) PROVE Later(elec[s], elec'[s])
      <3>1. m.to \in Server /\ Sound(m.rumor)
        BY <1>1, <2>5 DEF ReceiveElection, IInv, TypeOK, Message
      <3>2. elec' = [elec EXCEPT ![m.to] = Inserted(m.to, m.rumor)]
        BY <1>1, <2>5, <3>1, InsertElectionStore DEF ReceiveElection
      <3>3. Later(elec[m.to], Inserted(m.to, m.rumor))
        BY <1>1, <3>1, StoresOfIInv, InsertedTerm
      <3>4. DOMAIN elec = Server
        BY <1>1 DEF IInv, TypeOK
      <3> QED BY <2>1, <3>1, <3>2, <3>3, <3>4
    <2> QED BY Zenon, <1>1, <2>2, <2>3, <2>4, <2>5
        DEF Next, Pull, vars, Stop, Push, Detect, Refute, Doubt, ReceiveService,
            ReceiveGone, Lose
  <1> QED BY <1>1, InductiveInvariant, PTL DEF Spec, TermNeverDecreases
-----------------------------------------------------------------------------
(* One winner per term, while nobody stops and nobody is suspected.         *)

\* Nobody stops, and whoever sees a quorum knows all Supervisors: those that
\* know each other from the beginning, or a ring no larger than a quorum.
Complete ==
    /\ Mortal = {}
    /\ Founder = Server \/ (IsFiniteSet(Server) /\ Cardinality(Server) =< 3)

\* A finished election has the votes of all, so of the strongest candidate.
Decided(e) == IsFinished(e) => Server \subseteq e.votes

OneInv ==
    /\ up = Server
    /\ Founder = Server => \A s \in Server : known[s] = Server
    /\ \A m \in msgs : m.kind # "gone"
    /\ churn = 0 => /\ \A s, t \in Server : view[s][t] = "Alive"
                    /\ \A s \in Server : \A e \in elec[s] : Decided(e)
                    /\ \A m \in msgs : m.kind = "election" => Decided(m.rumor)

\* An election that is finished by its candidate has the votes of all.
LEMMA JudgedDecided ==
    ASSUME IInv, Complete, OneInv, churn = 0, NEW s \in Server, NEW e, Sound(e), Decided(e)
    PROVE  Decided(Judged(s, e))
  <1>1. known[s] \subseteq Server /\ Electorate(s) = known[s] /\ TotalPopulation(s) = known[s]
    BY DEF IInv, TypeOK, OneInv, Electorate, TotalPopulation
  <1>2. ASSUME CheckQuorum(s) PROVE known[s] = Server
    <2>1. CASE Founder = Server
      BY <2>1 DEF OneInv
    <2>2. CASE IsFiniteSet(Server) /\ Cardinality(Server) =< 3
      <3>1. /\ Cardinality(known[s]) =< Cardinality(Server)
            /\ Cardinality(Server) = Cardinality(known[s]) => Server = known[s]
            /\ IsFiniteSet(known[s])
        BY <1>1, <2>2, FS_Subset
      <3>2. Cardinality(known[s]) \in Nat /\ Cardinality(Server) \in Nat
        BY <2>2, <3>1, FS_CardinalityType
      <3>3. Cardinality(known[s]) >= 3
        BY <1>1, <1>2 DEF CheckQuorum
      <3> QED BY <2>2, <3>1, <3>2, <3>3
    <2> QED BY <2>1, <2>2 DEF Complete
  <1>3. ASSUME NEW st \in Status
        PROVE  /\ [e EXCEPT !.status = st].status = st
               /\ [e EXCEPT !.status = st].votes = e.votes
    BY DEF Sound, Rumor, ElectionOf
  <1>4. CASE ~CheckQuorum(s)
    BY <1>3, <1>4 DEF Judged, Decided, IsFinished, Status
  <1>5. CASE CheckQuorum(s) /\ Electorate(s) \subseteq e.votes
    BY <1>1, <1>2, <1>3, <1>5 DEF Judged, Decided, Status
  <1>6. CASE CheckQuorum(s) /\ ~(Electorate(s) \subseteq e.votes)
    BY <1>6 DEF Judged
  <1> QED BY <1>4, <1>5, <1>6

LEMMA RestampedDecided ==
    ASSUME IInv, Complete, OneInv, churn = 0, NEW s \in Server, NEW e, Sound(e), Decided(e)
    PROVE  Decided(Restamped(s, e))
  <1>1. Decided(Judged(s, e))
    BY JudgedDecided
  <1>2. Sound(Judged(s, e))
    BY Zenon, StatusSound DEF Judged, Status
  <1>3. ASSUME NEW f, Sound(f), Decided(f) PROVE Decided(Stamped(s, f))
    <2>1. [f EXCEPT !.status = QuorumStatus(s)].status = QuorumStatus(s)
      BY <1>3 DEF Sound, Rumor, ElectionOf
    <2>2. QuorumStatus(s) # "Finished"
      BY DEF QuorumStatus
    <2> QED BY <1>3, <2>1, <2>2 DEF Stamped, Decided, IsFinished
  <1> QED BY <1>1, <1>2, <1>3 DEF Restamped

\* A merge adds votes to a rumor or leaves it as it is.
LEMMA MergedDecided ==
    ASSUME NEW e, NEW f, Sound(e), Sound(f), Decided(e), Decided(f)
    PROVE  Decided(Merged(e, f))
  <1>1. ASSUME NEW a, NEW b, Sound(a), Decided(a) PROVE Decided(StealVotes(a, b))
    <2>1. StealVotes(a, b).status = a.status /\ StealVotes(a, b).votes = a.votes \cup b.votes
      BY <1>1 DEF StealVotes, Sound, Rumor, ElectionOf
    <2> QED BY <1>1, <2>1 DEF Decided, IsFinished
  <1> QED BY Zenon, <1>1 DEF Merged

LEMMA NewDecided ==
    ASSUME NEW s, NEW suit, NEW term, NEW status, status # "Finished"
    PROVE  Decided(NewElection(s, suit, term, status))
  BY DEF Decided, NewElection, IsFinished

LEMMA InsertDecided ==
    ASSUME NEW S, Store(S), \A c \in S : Decided(c), NEW e, Sound(e), Decided(e)
    PROVE  \A c \in StoreInsert(S, e) : Decided(c)
  BY Zenon, MergedDecided DEF StoreInsert, Store

LEMMA InsertedDecided ==
    ASSUME IInv, Complete, OneInv, churn = 0, NEW s \in Server, NEW e, Sound(e), Decided(e)
    PROVE  \A c \in Inserted(s, e) : Decided(c)
  <1> DEFINE base     == IF s \in joined THEN Base(s, e) ELSE elec[s]
             incoming == IF s \in joined THEN Restamped(s, e) ELSE e
  <1>1. Store(elec[s]) /\ \A c \in elec[s] : Decided(c)
    BY StoresOfIInv DEF OneInv
  <1>2. Store(base) /\ Sound(incoming)
    BY <1>1, BaseSound, RestampedSound
  <1>3. Decided(incoming)
    BY RestampedDecided
  <1>4. QuorumStatus(s) # "Finished"
    BY DEF QuorumStatus
  <1>5. \A c \in base : Decided(c)
    BY <1>1, <1>4, NewDecided DEF Base, OwnElection
  <1> HIDE DEF base, incoming
  <1>6. \A c \in StoreInsert(base, incoming) : Decided(c)
    BY Zenon, <1>2, <1>3, <1>5, InsertDecided
  <1> QED BY Zenon, <1>6 DEF Inserted, base, incoming

LEMMA OneInvInit == Complete /\ Init => OneInv
  <1> SUFFICES ASSUME Complete, Init PROVE OneInv
    OBVIOUS
  <1>1. \A s \in Server : \A e \in elec[s] : Decided(e)
    BY NewDecided DEF Init
  <1> QED BY <1>1 DEF Init, OneInv

LEMMA OneInvStep == Complete /\ IInv /\ OneInv /\ [Next]_vars => OneInv'
  <1> SUFFICES ASSUME Complete, IInv, OneInv, [Next]_vars PROVE OneInv'
    OBVIOUS
  <1> DEFINE KnownOK == Founder = Server => \A s \in Server : known'[s] = Server
             ViewOK  == churn = 0 => \A s, t \in Server : view'[s][t] = "Alive"
             StoreOK == churn = 0 => \A s \in Server : \A e \in elec'[s] : Decided(e)
             MsgsOK  == /\ \A m \in msgs' : m.kind # "gone"
                        /\ churn = 0 => \A m \in msgs' : m.kind = "election" => Decided(m.rumor)
  <1>a. up' = Server /\ churn' = churn /\ KnownOK /\ ViewOK /\ StoreOK /\ MsgsOK => OneInv'
    BY Zenon DEF OneInv
  <1>b. UNCHANGED elec => StoreOK
    BY Zenon DEF OneInv
  <1>c. UNCHANGED known => KnownOK
    BY Zenon DEF OneInv
  <1>d. UNCHANGED view => ViewOK
    BY Zenon DEF OneInv
  <1>e. msgs' \subseteq msgs => MsgsOK
    BY Zenon DEF OneInv
  <1>f. up = Server /\ Mortal = {}
    BY DEF OneInv, Complete
  <1>g. ASSUME NEW s \in Server, NEW S, elec' = [elec EXCEPT ![s] = S],
               churn = 0 => \A e \in S : Decided(e)
        PROVE  StoreOK
    BY <1>g DEF IInv, TypeOK, OneInv
  <1> HIDE DEF KnownOK, ViewOK, StoreOK, MsgsOK
  <1>1. ASSUME NEW s \in Server, Join(s) PROVE OneInv'
    <2> DEFINE new == NewElection(s, Suitability[s], 0, QuorumStatus(s)')
    <2>1. elec' = [elec EXCEPT ![s] = StoreInsert(elec[s], new)]
      BY <1>1 DEF Join, IInv, TypeOK
    <2>2. Sound(new) /\ Decided(new)
      BY FreshSound, NewDecided DEF QuorumStatus, Status
    <2>3. churn = 0 => \A e \in StoreInsert(elec[s], new) : Decided(e)
      <3>1. churn = 0 => Store(elec[s]) /\ \A e \in elec[s] : Decided(e)
        BY Zenon, StoresOfIInv DEF OneInv
      <3> HIDE DEF new
      <3> QED BY Zenon, <2>2, <3>1, InsertDecided
    <2>4. StoreOK
      BY Zenon, <1>g, <2>1, <2>3
    <2>5. KnownOK
      BY <1>1 DEF Join, IInv, TypeOK, OneInv, KnownOK
    <2> QED BY Zenon, <1>1, <1>a, <1>d, <1>e, <1>f, <2>4, <2>5 DEF Join
  <1>2. ASSUME NEW s \in Server, RestartElections(s) PROVE OneInv'
    <2>1. PICK e \in elec[s] : elec' = [elec EXCEPT ![s] = {OwnElection(s, e.term + 1)}]
      BY Zenon, <1>2 DEF RestartElections
    <2>2. Decided(OwnElection(s, e.term + 1))
      BY NewDecided DEF OwnElection, QuorumStatus
    <2>3. StoreOK
      BY Zenon, <1>g, <2>1, <2>2
    <2> QED BY Zenon, <1>2, <1>a, <1>c, <1>d, <1>e, <1>f, <2>3 DEF RestartElections
  <1>3. ASSUME NEW s \in Server PROVE ~Stop(s)
    BY <1>f DEF Stop
  <1>4. ASSUME NEW s \in Server, NEW t \in Server, Push(s, t) PROVE OneInv'
    <2> DEFINE hot == IF Hot(s, t)
                      THEN [kind : {"election"}, from : {s}, to : {t}, rumor : elec[s]] ELSE {}
    <2>1. msgs' = msgs \cup hot \cup News(s, t)
      BY <1>4 DEF Push
    <2>2. \A m \in hot : m.kind = "election" /\ m.rumor \in elec[s]
      OBVIOUS
    <2>3. \A m \in News(s, t) : m.kind = "service"
      <3>1. Gone(s) = {}
        BY <1>f DEF Gone
      <3> QED BY <3>1 DEF News
    <2> HIDE DEF hot
    <2>4. MsgsOK
      BY <2>1, <2>2, <2>3 DEF OneInv, MsgsOK
    <2> QED BY Zenon, <1>4, <1>a, <1>b, <1>c, <1>d, <1>f, <2>4 DEF Push
  <1>5. ASSUME NEW s \in Server, NEW t \in Server PROVE ~Detect(s, t)
    BY <1>f DEF Detect
  <1>6. ASSUME NEW s \in Server, NEW t \in Server, Refute(s, t) PROVE OneInv'
    <2>1. ViewOK
      BY <1>6 DEF Refute, IInv, TypeOK, OneInv, ViewOK
    <2> QED BY Zenon, <1>6, <1>a, <1>b, <1>c, <1>e, <1>f, <2>1 DEF Refute
  <1>7. ASSUME NEW s \in Server, NEW t \in Server, NEW h \in Health, Doubt(s, t, h)
        PROVE  OneInv'
    <2>1. churn' # 0
      BY <1>7, BoundsAssumption DEF Doubt, IInv, TypeOK
    <2> QED BY Zenon, <1>7, <1>f, <2>1 DEF Doubt, OneInv
  <1>8. ASSUME NEW m \in msgs, ReceiveElection(m) PROVE OneInv'
    <2>1. m.to \in Server /\ Sound(m.rumor)
      BY <1>8 DEF ReceiveElection, IInv, TypeOK, Message
    <2>2. elec' = [elec EXCEPT ![m.to] = Inserted(m.to, m.rumor)]
      BY <1>8, <2>1, InsertElectionStore DEF ReceiveElection
    <2>3. churn = 0 => Decided(m.rumor)
      BY Zenon, <1>8 DEF ReceiveElection, OneInv
    <2>4. churn = 0 => \A e \in Inserted(m.to, m.rumor) : Decided(e)
      BY Zenon, <2>1, <2>3, InsertedDecided
    <2>5. StoreOK
      BY Zenon, <1>g, <2>1, <2>2, <2>4
    <2>6. msgs' \subseteq msgs
      BY <1>8 DEF ReceiveElection
    <2> QED BY Zenon, <1>8, <1>a, <1>c, <1>d, <1>e, <1>f, <2>5, <2>6 DEF ReceiveElection
  <1>9. ASSUME NEW m \in msgs, ReceiveService(m) PROVE OneInv'
    <2>1. m.to \in Server /\ m.id \in Server
      BY <1>9 DEF ReceiveService, IInv, TypeOK, Message
    <2>2. KnownOK
      BY <1>9, <2>1 DEF ReceiveService, IInv, TypeOK, OneInv, KnownOK
    <2>3. ViewOK
      BY <1>9, <2>1 DEF ReceiveService, IInv, TypeOK, OneInv, ViewOK
    <2>4. msgs' \subseteq msgs
      BY <1>9 DEF ReceiveService
    <2> QED BY Zenon, <1>9, <1>a, <1>b, <1>e, <1>f, <2>2, <2>3, <2>4 DEF ReceiveService
  <1>10. ASSUME NEW m \in msgs PROVE ~ReceiveGone(m)
    BY DEF ReceiveGone, OneInv
  <1>11. ASSUME NEW m \in msgs PROVE ~Lose(m)
    BY <1>f DEF Lose, IInv, TypeOK, Message
  <1>12. CASE UNCHANGED vars
    BY Zenon, <1>12, <1>a, <1>b, <1>c, <1>d, <1>e, <1>f DEF vars
  <1> QED BY Zenon, <1>1, <1>2, <1>3, <1>4, <1>5, <1>6, <1>7, <1>8, <1>9, <1>10, <1>11, <1>12
      DEF Next, Pull

\* In a complete group no term, of however many Supervisors, restarts and pushes
\* in whatever order, has two leaders until one of them is falsely suspected:
\* insert_election lets a candidate win with the votes of all only, and only the
\* strongest one can have them.
THEOREM OneLeaderInCompleteGroup == Complete => (Spec => []OneLeaderPerTerm)
  <1> SUFFICES ASSUME Complete PROVE Spec => []OneLeaderPerTerm
    OBVIOUS
  <1>1. ASSUME IInv, OneInv PROVE OneLeaderPerTerm
    <2> SUFFICES ASSUME churn = 0, NEW e \in Rumors, NEW f \in Rumors, IsFinished(e), IsFinished(f)
                 PROVE  e.member = f.member
      BY DEF OneLeaderPerTerm
    <2>1. Sound(e) /\ Sound(f)
      BY <1>1, RumorsSound
    <2>2. \A r \in Rumors : Decided(r)
      BY <1>1 DEF OneInv, Rumors
    <2>3. e.member \in Server /\ f.member \in Server
      BY <2>1 DEF Sound, Rumor, ElectionOf
    <2>4. Outranks(e, Rank(f.member)) /\ Outranks(f, Rank(e.member))
      BY <2>1, <2>2, <2>3 DEF Sound, Decided
    <2> QED BY <2>1, <2>4, MutualOutranks
  <1>2. Init => OneInv
    BY OneInvInit
  <1>3. IInv /\ OneInv /\ [Next]_vars => OneInv'
    BY OneInvStep
  <1> QED BY <1>1, <1>2, <1>3, InductiveInvariant, PTL DEF Spec

=============================================================================
