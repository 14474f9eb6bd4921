---------------------------- MODULE UpdaterProofs ----------------------------
(***************************************************************************)
(* Why followers that go by a census of their own take turns.  As long as   *)
(* the first update leader stands and nobody is wrong about another's       *)
(* health, the leader looks for the next version only when all live members *)
(* run its own, so what anyone has seen of the leader is either the version *)
(* it runs itself or the one the leader runs; and the live members that     *)
(* have the leader's version are those next to it, in the order of the ids. *)
(***************************************************************************)
EXTENDS Updater, TLAPS

\* The last service rumor of a member tells its version, and its own store has
\* it.  A worker that hands a package over knows its version.
Stored ==
    /\ \A x \in Member : /\ Len(published[x]) >= 1
                         /\ published[x][Len(published[x])] = pkg[x]
    /\ \A m, x \in Member : known[m][x] \in 1..Len(published[x])
    /\ \A m \in up : known[m][m] = Len(published[m])
    /\ \A m \in Member : worker[m].at = "Sending" => worker[m].ident \in Version

ElectionOK(e) ==
    /\ e \in [term : Term, status : {"None", "Running", "Finished"}]
    /\ e.status = "None" => e.term = 0
    /\ e.status = "Finished" => winner[e.term] # NoMember

Elected == \A m \in Member : ElectionOK(election[m])

\* What holds whatever becomes of the leader.
Sane ==
    /\ TypeOK /\ Stored /\ Elected /\ UpdaterHasLeader
    /\ \A m \in up : census[m].pkg[m] = pkg[m]

Leading == {"LeaderWaiting", "LeaderPolling"}
Following == {"FollowerWaiting", "FollowerUpdating"}

\* Nobody holds a live member for dead, and all follow the winner of term 0.
Settled ==
    /\ \A m, x \in up : health[m][x] = "Alive" /\ x \in census[m].alive
    /\ \A m \in up : census[m].lead \in {NoMember, winner[0]}
    /\ \A m \in up : state[m] \in Leading => m = winner[0]
    /\ \A m \in up : state[m] \in Following => winner[0] # NoMember /\ m # winner[0]

\* Before somebody has won, all run and have seen the first version only.
Untouched ==
    /\ \A m \in Member : pkg[m] = 1 /\ published[m] = <<1>>
    /\ \A m \in up, x \in Member : census[m].pkg[x] = 1

\* Versions only grow, up to the one of the leader l; of its rumors a member may
\* still see or hear of those with its own version and the current one.
Versions(l) ==
    /\ \A x \in Member : pkg[x] =< pkg[l]
    /\ \A x \in Member : \A i, j \in 1..Len(published[x]) :
          i =< j => published[x][i] =< published[x][j]
    /\ \A m \in up, x \in Member : census[m].pkg[x] =< published[x][known[m][x]]
    /\ \A m \in up : census[m].pkg[l] \in {pkg[m], pkg[l]}
    /\ \A m \in up : \A i \in known[m][l]..Len(published[l]) :
          published[l][i] \in {pkg[m], pkg[l]}

\* y comes after l and before x in the circle of the ids.
Between(l, y, x) ==
    \/ l < y /\ y < x
    \/ y < x /\ x < l
    \/ x < l /\ l < y

\* A follower that updates takes the version of the leader, and all live
\* members between the leader and it have that version.
Updates(l, x) ==
    /\ pkg[x] # pkg[l]
    /\ census[x].pkg[l] = pkg[l]
    /\ worker[x].at \in {"Installing", "Sending"} => worker[x].ident = pkg[l]

Done(l, x) == \A y \in up : Between(l, y, x) => pkg[y] = pkg[l]

Turns(l) ==
    /\ \A x \in Live("FollowerUpdating") : Updates(l, x) /\ Done(l, x)
    /\ \A x \in Member \ {l} : pkg[x] = pkg[l] => Done(l, x)

Polls(l) ==
    l \in Live("LeaderPolling") =>
      /\ \A x \in up : pkg[x] = pkg[l] /\ state[x] # "FollowerUpdating"
      /\ worker[l].at = "Installing" => worker[l].ident = Newest
      /\ worker[l].at = "Sending" => worker[l].ident > pkg[l]

Rolling(l) == Versions(l) /\ Turns(l) /\ Polls(l)

\* The inductive invariant.  The order of the updates rests on what the members
\* have seen of each other, which says nothing once a leader has been replaced.
IInv ==
    /\ Sane
    /\ Calm => /\ Settled
               /\ winner[0] = NoMember => Untouched
               /\ \A l \in Member : winner[0] = l => Rolling(l)

-----------------------------------------------------------------------------
(* What a step may do.                                                      *)

Busy == {"Installing", "Sending"}

\* What any step leaves of the stores and the census of the others.
StoreStep ==
    /\ up' \subseteq up
    /\ \A t \in Term : winner'[t] = winner[t] \/ winner[t] = NoMember
    /\ Calm' => /\ Calm
                /\ \A n, x \in up' : health[n][x] = "Alive" => health'[n][x] = "Alive"
    /\ \A n \in up' :
         /\ census'[n].alive \in {census[n].alive, Electorate(n)}
         /\ \/ census'[n].lead = census[n].lead
            \/ election'[n].status = "Finished" /\ census'[n].lead = winner'[election'[n].term]
    /\ \A n \in up', x \in Member :
         /\ known'[n][x] >= known[n][x]
         /\ census'[n].pkg[x] \in {census[n].pkg[x], published'[x][known'[n][x]]}

\* What any step makes of the updater of n.
RoleStep(n) ==
    /\ state'[n] \in Leading => state[n] \in Leading \/ census[n].lead = n
    /\ state'[n] \in Following => state[n] \in Following \/ census[n].lead \notin {NoMember, n}
    /\ state'[n] = "FollowerUpdating" =>
         /\ state[n] = "FollowerUpdating" \/ (state[n] \in Following /\ ItsTurn(n))
         /\ worker'[n].at \in Busy =>
              \/ worker'[n].ident = census[n].pkg[census[n].lead]
              \/ /\ state[n] = "FollowerUpdating" /\ worker[n].at \in Busy
                 /\ worker[n].ident # Newest => worker'[n].ident = worker[n].ident
    /\ state'[n] = "LeaderPolling" =>
         \/ worker'[n] = Install(Newest)
            /\ (state[n] = "LeaderPolling" \/ (state[n] \in Leading /\ AllAgree(n)))
         \/ state[n] = "LeaderPolling" /\ worker'[n] \in {worker[n], Dead}
         \/ /\ state[n] = "LeaderPolling" /\ worker[n].at = "Installing"
            /\ worker[n].ident = Newest => worker'[n].at = "Sending" /\ worker'[n].ident > pkg[n]

Quiet == pkg' = pkg /\ published' = published

\* n installs what its worker hands over, or fails to.
Installs(n) ==
    /\ n \in up /\ worker[n].at = "Sending"
    /\ state[n] \in {"LeaderPolling", "FollowerUpdating"}
    /\ pkg' = pkg \/ pkg' = [pkg EXCEPT ![n] = worker[n].ident]
    /\ published' = [published EXCEPT ![n] = Append(@, pkg'[n])]
    /\ known'[n][n] = Len(published[n]) + 1
    /\ state'[n] \notin {"LeaderPolling", "FollowerUpdating"}
    /\ \A x \in Member : census'[n].pkg[x] = published'[x][known'[n][x]]

Evolves ==
    /\ StoreStep
    /\ \A n \in up' : RoleStep(n)
    /\ Quiet \/ \E n \in Member : Installs(n)

-----------------------------------------------------------------------------
LEMMA Numbers == Version \subseteq Nat /\ NoMember \notin Member /\ Newest \notin Version /\ 0 \in Term
  BY MemberAssumption, BoundsAssumption DEF Version, NoMember, Newest, Term

LEMMA StoreTypes ==
    ASSUME TypeOK
    PROVE  /\ \A x \in Member : /\ published[x] \in Seq(Version) /\ Len(published[x]) \in Nat
                                /\ pkg[x] \in Version /\ pkg[x] \in Nat
                                /\ \A i \in 1..Len(published[x]) :
                                      published[x][i] \in Version /\ published[x][i] \in Nat
           /\ \A m, x \in Member : known[m][x] \in Nat /\ census[m].pkg[x] \in Nat
  <1>1. /\ published \in [Member -> Seq(Version)] /\ pkg \in [Member -> Version]
        /\ known \in [Member -> [Member -> Nat]] /\ census \in [Member -> Census]
    BY DEF TypeOK
  <1>2. \A m, x \in Member : census[m].pkg[x] \in Version
    BY <1>1 DEF Census
  <1>3. \A s \in Seq(Version) : Len(s) \in Nat /\ \A i \in 1..Len(s) : s[i] \in Version
    OBVIOUS
  <1> QED BY <1>1, <1>2, <1>3, Numbers, ZenonT(40)

LEMMA StoreTypesPrimed ==
    ASSUME TypeOK'
    PROVE  /\ \A x \in Member : /\ published'[x] \in Seq(Version) /\ Len(published'[x]) \in Nat
                                /\ pkg'[x] \in Version /\ pkg'[x] \in Nat
                                /\ \A i \in 1..Len(published'[x]) :
                                      published'[x][i] \in Version /\ published'[x][i] \in Nat
           /\ \A m, x \in Member : known'[m][x] \in Nat /\ census'[m].pkg[x] \in Nat
  <1>1. /\ published' \in [Member -> Seq(Version)] /\ pkg' \in [Member -> Version]
        /\ known' \in [Member -> [Member -> Nat]] /\ census' \in [Member -> Census]
    BY DEF TypeOK
  <1>2. \A m, x \in Member : census'[m].pkg[x] \in Version
    BY <1>1 DEF Census
  <1>3. \A s \in Seq(Version) : Len(s) \in Nat /\ \A i \in 1..Len(s) : s[i] \in Version
    OBVIOUS
  <1> QED BY <1>1, <1>2, <1>3, Numbers, ZenonT(40)

\* restart_elections and update_from_rumors at the end of a turn.
LEMMA Turn ==
    ASSUME TypeOK, NEW m \in Member, NEW e, ElectionOK(e), NEW g \in BOOLEAN,
           published' \in [Member -> Seq(Version)],
           \A x \in Member : known'[m][x] \in 1..Len(published'[x]),
           UpdateFromRumors(m, e, g)
    PROVE  /\ UNCHANGED <<latest, up, health, winner, doubts>>
           /\ election' = [election EXCEPT ![m] = election'[m]]
           /\ ElectionOK(election'[m])
           /\ election'[m].term = 0 => e.term = 0
           /\ census' \in [Member -> Census]
           /\ news' \in [Member -> {"none", "some", "noting"}]
           /\ \A n \in Member \ {m} : census'[n] = census[n]
           /\ census'[m].alive \in {census[m].alive, Electorate(m)}
           /\ \/ census'[m].lead = census[m].lead
              \/ election'[m].status = "Finished" /\ census'[m].lead = winner[election'[m].term]
           /\ \/ \A x \in Member : census'[m].pkg[x] = published'[x][known'[m][x]]
              \/ ~g /\ census'[m].pkg = census[m].pkg
  <1> DEFINE f == RestartElections(m, e)
  <1>1. UNCHANGED <<latest, up, health, winner, doubts>> /\ election' = [election EXCEPT ![m] = f]
    BY DEF UpdateFromRumors
  <1>2. election \in [Member -> [term : Term, status : {"None", "Running", "Finished"}]]
    BY DEF TypeOK
  <1>3. election'[m] = f
    BY <1>1, <1>2
  <1>4. ElectionOK(f) /\ (f.term = 0 => e.term = 0)
    <2>1. CASE f = e
      BY <2>1
    <2>2. CASE f = [term |-> e.term + 1, status |-> "Running"] /\ e.term < MaxTerm
      BY <2>2, BoundsAssumption DEF ElectionOK, Term
    <2> QED BY <2>1, <2>2 DEF RestartElections
  <1>5. f.status = "Finished" => winner[f.term] \in Member
    BY <1>4 DEF ElectionOK, TypeOK
  <1> DEFINE c == Rebuilt(m, KnownPkgs(m)', f)
  <1>6. \A x \in Member : KnownPkgs(m)'[x] = published'[x][known'[m][x]]
    BY DEF KnownPkgs
  <1>7. c \in Census
    <2>1. \A s \in Seq(Version) : \A i \in 1..Len(s) : s[i] \in Version
      OBVIOUS
    <2>2. KnownPkgs(m)' \in [Member -> Version]
      BY <2>1 DEF KnownPkgs
    <2>3. Electorate(m) \subseteq Member
      BY DEF Electorate
    <2>4. UpdateFromElection(census[m].lead, f) \in Member \cup {NoMember}
      BY <1>5 DEF UpdateFromElection, TypeOK, Census
    <2> QED BY <2>2, <2>3, <2>4 DEF Rebuilt, Census
  <1>8. \/ census' = [census EXCEPT ![m] = c] /\ news' = [news EXCEPT ![m] = "noting"]
        \/ ~g /\ census' = census /\ news' = news
    BY DEF UpdateFromRumors
  <1>9. census \in [Member -> Census] /\ news \in [Member -> {"none", "some", "noting"}]
    BY DEF TypeOK
  <1>10. c.alive = Electorate(m) /\ c.pkg = KnownPkgs(m)'
         /\ c.lead = UpdateFromElection(census[m].lead, f)
    BY DEF Rebuilt
  <1>11. CASE census' = [census EXCEPT ![m] = c] /\ news' = [news EXCEPT ![m] = "noting"]
    <2>1. census'[m] = c /\ \A n \in Member \ {m} : census'[n] = census[n]
      BY <1>9, <1>11
    <2>2. census' \in [Member -> Census] /\ news' \in [Member -> {"none", "some", "noting"}]
      BY <1>7, <1>9, <1>11
    <2>3. \/ census'[m].lead = census[m].lead
          \/ election'[m].status = "Finished" /\ census'[m].lead = winner[election'[m].term]
      BY <1>3, <1>10, <2>1 DEF UpdateFromElection
    <2> HIDE DEF c, f
    <2>4. \A x \in Member : census'[m].pkg[x] = published'[x][known'[m][x]]
      BY <1>6, <1>10, <2>1
    <2> QED BY <1>1, <1>3, <1>4, <1>10, <2>1, <2>2, <2>3, <2>4, ZenonT(40)
  <1>12. CASE ~g /\ census' = census /\ news' = news
    <2> HIDE DEF c, f
    <2> QED BY <1>1, <1>3, <1>4, <1>9, <1>12, ZenonT(40)
  <1> QED BY <1>8, <1>11, <1>12

\* The part of a turn that is the same for all states of the updater.
LEMMA TurnStores ==
    ASSUME Sane, NEW m \in up, NEW e, ElectionOK(e), e.term = 0 => election[m].term = 0,
           NEW g \in BOOLEAN,
           published' \in [Member -> Seq(Version)],
           \A n, x \in Member : known'[n][x] \in 1..Len(published'[x]),
           \A n, x \in Member : known'[n][x] >= known[n][x],
           UpdateFromRumors(m, e, g)
    PROVE  /\ StoreStep
           /\ Elected'
           /\ \A n \in up : census[n].lead # NoMember => census'[n].lead # NoMember
  <1>1. TypeOK /\ Elected /\ m \in Member /\ up \subseteq Member
    BY Zenon DEF Sane, TypeOK
  <1>2. /\ UNCHANGED <<latest, up, health, winner, doubts>>
        /\ election' = [election EXCEPT ![m] = election'[m]]
        /\ ElectionOK(election'[m])
        /\ election'[m].term = 0 => e.term = 0
        /\ \A n \in Member \ {m} : census'[n] = census[n]
        /\ census'[m].alive \in {census[m].alive, Electorate(m)}
        /\ \/ census'[m].lead = census[m].lead
           \/ election'[m].status = "Finished" /\ census'[m].lead = winner[election'[m].term]
        /\ \/ \A x \in Member : census'[m].pkg[x] = published'[x][known'[m][x]]
           \/ ~g /\ census'[m].pkg = census[m].pkg
    <2>1. \A x \in Member : known'[m][x] \in 1..Len(published'[x])
      BY Zenon, <1>1
    <2> QED BY SMTT(20), Turn, <1>1, <2>1
  <1>3. election \in [Member -> [term : Term, status : {"None", "Running", "Finished"}]]
    BY <1>1 DEF TypeOK
  <1>4. \A n \in Member \ {m} : election'[n] = election[n]
    BY <1>2, <1>3
  <1>5. Elected'
    BY Zenon, <1>1, <1>2, <1>4 DEF Elected, ElectionOK
  <1>6. Calm' => Calm
    BY Zenon, <1>2, <1>4 DEF Calm
  <1>7. StoreStep
    <2>1. \A n \in up' : /\ census'[n].alive \in {census[n].alive, Electorate(n)}
                         /\ \/ census'[n].lead = census[n].lead
                            \/ /\ election'[n].status = "Finished"
                               /\ census'[n].lead = winner'[election'[n].term]
      BY ZenonT(20), <1>1, <1>2
    <2>2. \A n \in up', x \in Member :
             census'[n].pkg[x] \in {census[n].pkg[x], published'[x][known'[n][x]]}
      BY ZenonT(20), <1>1, <1>2
    <2> QED BY ZenonT(20), <1>1, <1>2, <1>6, <2>1, <2>2 DEF StoreStep
  <1>8. ASSUME NEW n \in up, census[n].lead # NoMember PROVE census'[n].lead # NoMember
    BY Zenon, <1>1, <1>2, <1>8 DEF ElectionOK
  <1> QED BY <1>5, <1>7, <1>8

\* A turn in which nothing is installed.
LEMMA QuietTurn ==
    ASSUME Sane, NEW m \in up, NEW e, ElectionOK(e), e.term = 0 => election[m].term = 0,
           NEW s \in State, NEW w \in Worker,
           w.at = "Sending" => w.ident \in Version,
           s = "FollowerUpdating" => census[m].lead # NoMember,
           state' = [state EXCEPT ![m] = s], worker' = [worker EXCEPT ![m] = w],
           UNCHANGED <<pkg, published, known, faults>>,
           UpdateFromRumors(m, e, FALSE)
    PROVE  Sane' /\ StoreStep /\ Quiet
  <1>1. TypeOK /\ Stored /\ UpdaterHasLeader /\ m \in Member /\ up \subseteq Member
    BY Zenon DEF Sane, TypeOK
  <1>2. /\ published' \in [Member -> Seq(Version)]
        /\ \A n, x \in Member : known'[n][x] \in 1..Len(published'[x])
    BY Zenon, <1>1 DEF TypeOK, Stored
  <1>3. \A n, x \in Member : known'[n][x] >= known[n][x]
    BY <1>1, StoreTypes
  <1>4. StoreStep /\ Elected' /\ \A n \in up : census[n].lead # NoMember => census'[n].lead # NoMember
    BY ZenonT(20), <1>2, <1>3, TurnStores
  <1>5. /\ UNCHANGED <<latest, up, health, winner, doubts>>
        /\ census' \in [Member -> Census]
        /\ news' \in [Member -> {"none", "some", "noting"}]
        /\ \A n \in Member \ {m} : census'[n] = census[n]
        /\ \/ \A x \in Member : census'[m].pkg[x] = published'[x][known'[m][x]]
           \/ census'[m].pkg = census[m].pkg
    BY ZenonT(20), <1>1, <1>2, Turn
  <1>6. /\ state'[m] = s /\ worker'[m] = w
        /\ \A n \in Member \ {m} : state'[n] = state[n] /\ worker'[n] = worker[n]
        /\ state' \in [Member -> State] /\ worker' \in [Member -> Worker]
    BY <1>1 DEF TypeOK
  <1>7. TypeOK'
    <2>1. election' \in [Member -> [term : Term, status : {"None", "Running", "Finished"}]]
      BY <1>1, <1>4 DEF Elected, ElectionOK, TypeOK, UpdateFromRumors
    <2> QED BY Zenon, <1>1, <1>5, <1>6, <2>1 DEF TypeOK
  <1>8. Stored'
    BY Zenon, <1>1, <1>5, <1>6 DEF Stored
  <1>9. UpdaterHasLeader'
    BY ZenonT(20), <1>1, <1>4, <1>5, <1>6 DEF UpdaterHasLeader, Live
  <1>10. \A n \in up' : census'[n].pkg[n] = pkg'[n]
    <2>1. \A n \in up : census[n].pkg[n] = pkg[n] /\ published[n][known[n][n]] = pkg[n]
      BY Zenon, <1>1 DEF Sane, Stored
    <2>2. up' = up /\ pkg' = pkg /\ published' = published /\ known' = known
      BY Zenon, <1>5
    <2> QED BY Zenon, <1>1, <1>5, <2>1, <2>2
  <1> QED BY <1>4, <1>7, <1>8, <1>9, <1>10 DEF Sane, Quiet

\* A turn in which a package is taken from the worker.
LEMMA InstallTurn ==
    ASSUME Sane, NEW m \in Member, NEW s \in {"LeaderPolling", "FollowerUpdating"},
           NEW after \in {"LeaderWaiting", "FollowerWaiting"},
           UpdatePackage(m, s, after)
    PROVE  /\ Sane' /\ StoreStep /\ Installs(m)
           /\ state' = [state EXCEPT ![m] = after] /\ worker' = [worker EXCEPT ![m] = Idle]
  <1> DEFINE v == pkg'[m]
  <1>1. TypeOK /\ Stored /\ Elected /\ UpdaterHasLeader
    BY Zenon DEF Sane
  <1>2. /\ m \in up /\ state[m] = s /\ worker[m].at = "Sending" /\ worker[m].ident \in Version
        /\ pkg' = pkg \/ pkg' = [pkg EXCEPT ![m] = worker[m].ident]
        /\ published' = [published EXCEPT ![m] = Append(@, v)]
        /\ known' = [known EXCEPT ![m][m] = Len(published[m]) + 1]
        /\ state' = [state EXCEPT ![m] = after] /\ worker' = [worker EXCEPT ![m] = Idle]
        /\ UpdateFromRumors(m, election[m], TRUE)
    BY Zenon, <1>1 DEF UpdatePackage, AtCheck, Stored
  <1>3. faults' \in 0..MaxFaults
    BY <1>1, BoundsAssumption DEF UpdatePackage, TypeOK
  <1>4. /\ pkg' \in [Member -> Version] /\ v \in Version
        /\ \A x \in Member \ {m} : pkg'[x] = pkg[x]
    BY <1>1, <1>2, ZenonT(40) DEF TypeOK
  <1>5. \A x \in Member : published[x] \in Seq(Version) /\ Len(published[x]) \in Nat
    BY Zenon, <1>1, StoreTypes
  <1> HIDE DEF v
  <1>6. /\ published'[m] = Append(published[m], v) /\ \A x \in Member \ {m} : published'[x] = published[x]
        /\ DOMAIN published' = Member
    BY <1>1, <1>2 DEF TypeOK
  <1>7. /\ published'[m] \in Seq(Version) /\ Len(published'[m]) = Len(published[m]) + 1
        /\ published'[m][Len(published[m]) + 1] = v
    BY <1>4, <1>5, <1>6
  <1>8. published' \in [Member -> Seq(Version)]
    BY <1>1, <1>2, <1>5, <1>6, <1>7 DEF TypeOK
  <1>9. /\ known'[m][m] = Len(published[m]) + 1
        /\ \A n, x \in Member : n # m \/ x # m => known'[n][x] = known[n][x]
        /\ known' \in [Member -> [Member -> Nat]]
    BY <1>1, <1>2, <1>5 DEF TypeOK
  <1>10. ASSUME NEW n \in Member, NEW x \in Member
         PROVE  known'[n][x] \in 1..Len(published'[x]) /\ known'[n][x] >= known[n][x]
    <2>1. known[n][x] \in 1..Len(published[x]) /\ known[n][x] \in Nat
      BY Zenon, <1>1, StoreTypes DEF Stored
    <2>2. CASE x = m
      BY <1>5, <1>7, <1>9, <2>1, <2>2
    <2>3. CASE x # m
      BY <1>6, <1>9, <2>1, <2>3
    <2> QED BY <2>2, <2>3
  <1>11. ElectionOK(election[m])
    BY Zenon, <1>1 DEF Elected
  <1>12. StoreStep /\ Elected' /\ \A n \in up : census[n].lead # NoMember => census'[n].lead # NoMember
    BY ZenonT(20), <1>2, <1>8, <1>10, <1>11, TurnStores
  <1>13. /\ UNCHANGED <<latest, up, health, winner, doubts>>
         /\ census' \in [Member -> Census]
         /\ news' \in [Member -> {"none", "some", "noting"}]
         /\ \A n \in Member \ {m} : census'[n] = census[n]
         /\ \A x \in Member : census'[m].pkg[x] = published'[x][known'[m][x]]
    <2>1. \A x \in Member : known'[m][x] \in 1..Len(published'[x])
      BY Zenon, <1>10
    <2>2. /\ UNCHANGED <<latest, up, health, winner, doubts>>
          /\ census' \in [Member -> Census]
          /\ news' \in [Member -> {"none", "some", "noting"}]
          /\ \A n \in Member \ {m} : census'[n] = census[n]
          /\ \/ \A x \in Member : census'[m].pkg[x] = published'[x][known'[m][x]]
             \/ ~TRUE /\ census'[m].pkg = census[m].pkg
      BY ZenonT(20), <1>1, <1>2, <1>8, <1>11, <2>1, Turn
    <2> QED BY Zenon, <2>2
  <1>14. /\ state'[m] = after /\ worker'[m] = Idle
         /\ \A n \in Member \ {m} : state'[n] = state[n] /\ worker'[n] = worker[n]
         /\ state' \in [Member -> State] /\ worker' \in [Member -> Worker]
    BY <1>1, <1>2 DEF TypeOK, State, Worker, Idle
  <1>15. TypeOK'
    <2>1. election' \in [Member -> [term : Term, status : {"None", "Running", "Finished"}]]
      BY <1>1, <1>2, <1>12, Zenon DEF Elected, ElectionOK, TypeOK, UpdateFromRumors
    <2> QED BY Zenon, <1>1, <1>3, <1>4, <1>8, <1>9, <1>13, <1>14, <2>1 DEF TypeOK
  <1>16. Stored'
    <2>1. ASSUME NEW x \in Member
          PROVE  Len(published'[x]) >= 1 /\ published'[x][Len(published'[x])] = pkg'[x]
      <3>1. CASE x = m
        BY <1>5, <1>7, <3>1 DEF v
      <3>2. CASE x # m
        BY Zenon, <1>1, <1>4, <1>6, <3>2 DEF Stored
      <3> QED BY <3>1, <3>2
    <2>2. ASSUME NEW n \in up' PROVE known'[n][n] = Len(published'[n])
      <3>1. n \in up /\ n \in Member
        BY Zenon, <1>1, <1>13 DEF TypeOK
      <3> QED BY Zenon, <1>1, <1>6, <1>7, <1>9, <3>1 DEF Stored
    <2>3. ASSUME NEW n \in Member, worker'[n].at = "Sending" PROVE worker'[n].ident \in Version
      <3>1. n # m
        BY <1>14, <2>3 DEF Idle
      <3> QED BY Zenon, <1>1, <1>14, <2>3, <3>1 DEF Stored
    <2> QED BY Zenon, <1>10, <2>1, <2>2, <2>3 DEF Stored
  <1>17. UpdaterHasLeader'
    <2>1. after # "FollowerUpdating"
      OBVIOUS
    <2> QED BY ZenonT(20), <1>1, <1>12, <1>13, <1>14, <2>1 DEF UpdaterHasLeader, Live, TypeOK
  <1>18. \A n \in up' : census'[n].pkg[n] = pkg'[n]
    <2>1. census'[m].pkg[m] = pkg'[m]
      BY Zenon, <1>7, <1>9, <1>13 DEF v
    <2>2. \A n \in up : n # m => census[n].pkg[n] = pkg[n]
      BY Zenon DEF Sane
    <2> QED BY ZenonT(20), <1>1, <1>4, <1>13, <2>1, <2>2 DEF TypeOK
  <1>19. Installs(m)
    <2>1. state'[m] \notin {"LeaderPolling", "FollowerUpdating"}
      BY <1>14
    <2> QED BY Zenon, <1>2, <1>9, <1>13, <2>1 DEF Installs, v
  <1> QED BY Zenon, <1>1, <1>2, <1>12, <1>15, <1>16, <1>17, <1>18, <1>19 DEF Sane

\* An updater that a step leaves alone.
LEMMA SameRole ==
    ASSUME NEW n, state'[n] = state[n], worker'[n] = worker[n]
    PROVE  RoleStep(n)
  BY Zenon DEF RoleStep

LEMMA RoleNames ==
    /\ "LeaderWaiting" \in Leading /\ "LeaderWaiting" \notin Following
    /\ "LeaderPolling" \in Leading /\ "LeaderPolling" \notin Following
    /\ "FollowerWaiting" \in Following /\ "FollowerWaiting" \notin Leading
    /\ "FollowerUpdating" \in Following /\ "FollowerUpdating" \notin Leading
    /\ "InElection" \notin Following \cup Leading
    /\ "LeaderPolling" \notin {"LeaderWaiting", "FollowerWaiting", "FollowerUpdating", "InElection"}
    /\ "FollowerUpdating" \notin {"LeaderWaiting", "FollowerWaiting", "InElection"}
  BY DEF Leading, Following

LEMMA OneRole ==
    ASSUME TypeOK, NEW m \in Member, NEW s, NEW w,
           state' = [state EXCEPT ![m] = s], worker' = [worker EXCEPT ![m] = w],
           StoreStep, Quiet \/ Installs(m), RoleStep(m)
    PROVE  Evolves
  <1>1. up' \subseteq Member
    BY Zenon DEF StoreStep, TypeOK
  <1>2. \A n \in Member \ {m} : state'[n] = state[n] /\ worker'[n] = worker[n]
    BY DEF TypeOK
  <1>3. \A n \in up' : RoleStep(n)
    BY Zenon, <1>1, <1>2, SameRole
  <1> QED BY Zenon, <1>3 DEF Evolves

LEMMA Workers ==
    /\ Idle \in Worker /\ Dead \in Worker /\ Install(Newest) \in Worker
    /\ \A v \in Version : Install(v) \in Worker
    /\ \A v : Install(v).at = "Installing" /\ Install(v).ident = v
    /\ Idle.at = "Idle" /\ Dead.at = "Dead"
  BY DEF Idle, Dead, Install, Worker

\* A step that leaves the services and the census as they are.
LEMMA Frame ==
    ASSUME Sane, TypeOK', Elected', UNCHANGED <<up, pkg, state, published, census>>,
           \A n, x \in Member : known'[n][x] \in 1..Len(published[x]),
           \A n, x \in Member : known'[n][x] >= known[n][x],
           \A n \in Member : worker'[n].at = "Sending" => worker'[n].ident \in Version,
           \A t \in Term : winner'[t] = winner[t] \/ winner[t] = NoMember,
           Calm' => /\ Calm
                    /\ \A n, x \in up' : health[n][x] = "Alive" => health'[n][x] = "Alive"
    PROVE  Sane' /\ StoreStep /\ Quiet
  <1>1. TypeOK /\ Stored /\ UpdaterHasLeader /\ \A m \in up : m \in Member /\ census[m].pkg[m] = pkg[m]
    BY Zenon DEF Sane, TypeOK
  <1>2. \A m \in up : known'[m][m] = Len(published[m])
    <2> SUFFICES ASSUME NEW m \in up PROVE known'[m][m] = Len(published[m])
      OBVIOUS
    <2>1. m \in Member /\ known[m][m] = Len(published[m])
      BY Zenon, <1>1 DEF Stored
    <2>2. known'[m][m] \in 1..Len(published[m]) /\ known'[m][m] >= known[m][m]
      BY Zenon, <2>1
    <2>3. Len(published[m]) \in Nat
      BY Zenon, <1>1, <2>1, StoreTypes
    <2> QED BY <2>1, <2>2, <2>3
  <1>3. Stored'
    BY Zenon, <1>1, <1>2 DEF Stored
  <1>4. UpdaterHasLeader'
    BY Zenon, <1>1 DEF UpdaterHasLeader, Live
  <1>5. Sane'
    BY Zenon, <1>1, <1>3, <1>4 DEF Sane
  <1>6. StoreStep
    <2>1. \A n \in up', x \in Member : known'[n][x] >= known[n][x]
      BY Zenon, <1>1
    <2> QED BY ZenonT(20), <2>1 DEF StoreStep
  <1> QED BY <1>5, <1>6 DEF Quiet

\* The turns of check_for_updated_package that install nothing.
LEMMA BecomeStep ==
    ASSUME Sane, NEW m \in up, NEW s \in State, NEW w \in Worker,
           w.at = "Sending" => w.ident \in Version,
           s = "FollowerUpdating" => census[m].lead # NoMember,
           Become(m, s, w),
           state'[m] = s /\ worker'[m] = w => RoleStep(m)
    PROVE  Sane' /\ Evolves
  <1>1. TypeOK /\ Elected /\ m \in Member
    BY Zenon DEF Sane, TypeOK
  <1>2. state' = [state EXCEPT ![m] = s] /\ worker' = [worker EXCEPT ![m] = w]
        /\ UNCHANGED <<pkg, published, known, faults>> /\ UpdateFromRumors(m, election[m], FALSE)
    BY Zenon DEF Become
  <1>3. ElectionOK(election[m])
    BY Zenon, <1>1 DEF Elected
  <1>4. Sane' /\ StoreStep /\ Quiet
    BY ZenonT(20), <1>2, <1>3, QuietTurn
  <1>5. state'[m] = s /\ worker'[m] = w
    BY <1>1, <1>2 DEF TypeOK
  <1> QED BY ZenonT(20), <1>1, <1>2, <1>4, <1>5, OneRole

LEMMA MainLoopStep ==
    ASSUME Sane, NEW m \in Member, MainLoop(m)
    PROVE  Sane' /\ Evolves
  <1>1. /\ TypeOK /\ Stored /\ Elected /\ UpdaterHasLeader /\ up \subseteq Member
        /\ census[m].lead \in Member \cup {NoMember} /\ worker[m] \in Worker /\ state[m] \in State
        /\ worker[m].at = "Sending" => worker[m].ident \in Version
        /\ \A x \in Member : census[m].pkg[x] \in Version
    BY Zenon DEF Sane, TypeOK, Stored, Census
  <1>2. CASE StartUpdateElection(m)
    <2> DEFINE e == IF election[m].status = "None"
                    THEN [term |-> 0, status |-> "Running"] ELSE election[m]
    <2>1. m \in up /\ state' = [state EXCEPT ![m] = "InElection"] /\ worker' = worker
          /\ UNCHANGED <<pkg, published, known, faults>> /\ UpdateFromRumors(m, e, FALSE)
      BY Zenon, <1>2 DEF StartUpdateElection, AtCheck
    <2>2. ElectionOK(e) /\ (e.term = 0 => election[m].term = 0)
      BY <1>1, Numbers DEF Elected, ElectionOK
    <2> HIDE DEF e
    <2>3. worker' = [worker EXCEPT ![m] = worker[m]] /\ state'[m] = "InElection"
      BY <1>1, <2>1 DEF TypeOK
    <2>4. "InElection" \in State
      BY DEF State
    <2>5. Sane' /\ StoreStep /\ Quiet
      BY ZenonT(20), <1>1, <2>1, <2>2, <2>3, <2>4, QuietTurn
    <2>6. RoleStep(m)
      BY Zenon, <2>3, RoleNames DEF RoleStep
    <2> QED BY ZenonT(20), <1>1, <2>1, <2>3, <2>5, <2>6, OneRole
  <1>3. CASE TakeRole(m)
    <2> DEFINE s == IF census[m].lead = m THEN "LeaderWaiting" ELSE "FollowerWaiting"
    <2>1. m \in up /\ census[m].lead # NoMember /\ Become(m, s, Idle)
      BY Zenon, <1>3 DEF TakeRole, AtCheck
    <2>2. s \in State /\ s # "FollowerUpdating"
      BY DEF State
    <2>3. state'[m] = s /\ worker'[m] = Idle => RoleStep(m)
      BY Zenon, <2>1, RoleNames DEF RoleStep
    <2> HIDE DEF s
    <2> QED BY <2>1, <2>2, <2>3, BecomeStep, Workers
  <1>4. CASE StartPolling(m)
    <2>1. m \in up /\ state[m] = "LeaderWaiting" /\ AllAgree(m)
          /\ Become(m, "LeaderPolling", Install(Newest))
      BY Zenon, <1>4 DEF StartPolling, AtCheck
    <2>2. "LeaderPolling" \in State
      BY DEF State
    <2>3. state'[m] = "LeaderPolling" /\ worker'[m] = Install(Newest) => RoleStep(m)
      BY Zenon, <2>1, RoleNames DEF RoleStep
    <2> QED BY <2>1, <2>2, <2>3, BecomeStep, Workers
  <1>5. CASE StartUpdating(m)
    <2> DEFINE v == census[m].pkg[census[m].lead]
    <2>1. m \in up /\ state[m] = "FollowerWaiting" /\ ItsTurn(m) /\ census[m].lead # NoMember
          /\ Become(m, "FollowerUpdating", Install(v))
      BY Zenon, <1>5 DEF StartUpdating, AtCheck, ItsTurn
    <2>2. "FollowerUpdating" \in State
      BY DEF State
    <2>3. v \in Version
      BY <1>1, <2>1
    <2>4. state'[m] = "FollowerUpdating" /\ worker'[m] = Install(v) => RoleStep(m)
      BY Zenon, <2>1, Workers, RoleNames DEF RoleStep
    <2> HIDE DEF v
    <2> QED BY <2>1, <2>2, <2>3, <2>4, BecomeStep, Workers
  <1>6. CASE UpdateLeader(m)
    <2>1. Sane' /\ StoreStep /\ Installs(m)
          /\ state' = [state EXCEPT ![m] = "LeaderWaiting"] /\ worker' = [worker EXCEPT ![m] = Idle]
      BY <1>6, InstallTurn DEF UpdateLeader
    <2>2. state'[m] = "LeaderWaiting" /\ state[m] = "LeaderPolling"
      BY <1>1, <1>6, <2>1, Zenon DEF TypeOK, UpdateLeader, UpdatePackage, AtCheck
    <2>3. RoleStep(m)
      BY Zenon, <2>2, RoleNames DEF RoleStep
    <2> QED BY ZenonT(20), <1>1, <2>1, <2>3, OneRole
  <1>7. CASE UpdateFollower(m)
    <2>1. Sane' /\ StoreStep /\ Installs(m)
          /\ state' = [state EXCEPT ![m] = "FollowerWaiting"] /\ worker' = [worker EXCEPT ![m] = Idle]
      BY <1>7, InstallTurn DEF UpdateFollower
    <2>2. state'[m] = "FollowerWaiting" /\ state[m] = "FollowerUpdating"
      BY <1>1, <1>7, <2>1, Zenon DEF TypeOK, UpdateFollower, UpdatePackage, AtCheck
    <2>3. RoleStep(m)
      BY Zenon, <2>2, RoleNames DEF RoleStep
    <2> QED BY ZenonT(20), <1>1, <2>1, <2>3, OneRole
  <1>8. CASE RestartWorker(m)
    <2>1. CASE AtCheck(m, "LeaderPolling") /\ Become(m, "LeaderPolling", Install(Newest))
      <3>1. m \in up /\ state[m] = "LeaderPolling"
        BY Zenon, <2>1 DEF AtCheck
      <3>2. state'[m] = "LeaderPolling" /\ worker'[m] = Install(Newest) => RoleStep(m)
        BY Zenon, <3>1, RoleNames DEF RoleStep
      <3> QED BY <1>1, <2>1, <3>1, <3>2, BecomeStep, Workers, Zenon
    <2>2. CASE /\ AtCheck(m, "FollowerUpdating")
               /\ Become(m, "FollowerUpdating", Install(census[m].pkg[census[m].lead]))
      <3> DEFINE v == census[m].pkg[census[m].lead]
      <3>1. m \in up /\ state[m] = "FollowerUpdating" /\ census[m].lead # NoMember
        BY Zenon, <1>1, <2>2 DEF AtCheck, UpdaterHasLeader, Live
      <3>2. v \in Version
        BY <1>1, <3>1
      <3>3. state'[m] = "FollowerUpdating" /\ worker'[m] = Install(v) => RoleStep(m)
        BY Zenon, <3>1, Workers, RoleNames DEF RoleStep
      <3>4. Become(m, "FollowerUpdating", Install(v))
        BY <2>2, Zenon
      <3> HIDE DEF v
      <3> QED BY <1>1, <3>1, <3>2, <3>3, <3>4, BecomeStep, Workers, Zenon
    <2> QED BY Zenon, <1>8, <2>1, <2>2 DEF RestartWorker
  <1>9. CASE NothingToDo(m)
    <2>1. m \in up /\ Become(m, state[m], worker[m])
      BY Zenon, <1>9 DEF NothingToDo, AtCheck
    <2>2. state[m] = "FollowerUpdating" => census[m].lead # NoMember
      BY Zenon, <1>1, <2>1 DEF UpdaterHasLeader, Live
    <2>3. state'[m] = state[m] /\ worker'[m] = worker[m] => RoleStep(m)
      BY Zenon, SameRole
    <2> QED BY ZenonT(20), <1>1, <2>1, <2>2, <2>3, BecomeStep
  <1>10. CASE NoteCounters(m)
    <2>1. UNCHANGED <<latest, up, pkg, state, worker, published, known, health,
                      election, winner, census, faults, doubts>>
      BY Zenon, <1>10 DEF NoteCounters
    <2>2. news' \in [Member -> {"none", "some", "noting"}]
      BY <1>1, <1>10, Zenon DEF NoteCounters, TypeOK
    <2>3. TypeOK' /\ Elected' /\ (Calm' => Calm)
      BY Zenon, <1>1, <2>1, <2>2 DEF TypeOK, Elected, ElectionOK, Calm
    <2>4. \A n, x \in Member : known'[n][x] \in 1..Len(published[x])
      BY Zenon, <1>1, <2>1 DEF Stored
    <2>5. \A n, x \in Member : known'[n][x] >= known[n][x]
      BY <1>1, <2>1, StoreTypes
    <2>6. \A n \in Member : worker'[n].at = "Sending" => worker'[n].ident \in Version
      BY Zenon, <1>1, <2>1 DEF Stored
    <2>7. Sane' /\ StoreStep /\ Quiet
      BY ZenonT(20), <2>1, <2>3, <2>4, <2>5, <2>6, Frame
    <2> QED BY Zenon, <2>1, <2>7, SameRole DEF Evolves
  <1> QED BY Zenon, <1>2, <1>3, <1>4, <1>5, <1>6, <1>7, <1>8, <1>9, <1>10 DEF MainLoop

LEMMA ReleaseStep ==
    ASSUME Sane, Release
    PROVE  Sane' /\ Evolves
  <1>1. TypeOK /\ Stored /\ Elected
    BY Zenon DEF Sane
  <1>2. UNCHANGED <<up, pkg, state, worker, published, known, health, election,
                    winner, census, news, faults, doubts>>
    BY Zenon DEF Release
  <1>3. latest' \in Version
    BY <1>1, BoundsAssumption DEF Release, TypeOK, Version
  <1>4. TypeOK' /\ Elected' /\ (Calm' => Calm)
    BY Zenon, <1>1, <1>2, <1>3 DEF TypeOK, Elected, ElectionOK, Calm
  <1>5. /\ \A n, x \in Member : known'[n][x] \in 1..Len(published[x])
        /\ \A n \in Member : worker'[n].at = "Sending" => worker'[n].ident \in Version
    BY Zenon, <1>1, <1>2 DEF Stored
  <1>6. \A n, x \in Member : known'[n][x] >= known[n][x]
    BY <1>1, <1>2, StoreTypes
  <1>7. Sane' /\ StoreStep /\ Quiet
    BY ZenonT(20), <1>2, <1>4, <1>5, <1>6, Frame
  <1> QED BY Zenon, <1>2, <1>7, SameRole DEF Evolves

\* A rumor, a health or an election changes a store.
LEMMA GossipStep ==
    ASSUME Sane, NEW m \in Member,
           \/ Gossip(m)
           \/ OtherRumor(m)
           \/ \E x \in Member, h \in Health : InsertHealth(m, x, h)
    PROVE  Sane' /\ Evolves
  <1>1. TypeOK /\ Stored /\ Elected /\ up \subseteq Member
    BY Zenon DEF Sane, TypeOK
  <1>2. \A n, x \in Member : /\ known[n][x] \in 1..Len(published[x]) /\ known[n][x] \in Nat
                             /\ known[n][x] >= known[n][x]
    BY <1>1, StoreTypes DEF Stored
  <1>3. \A n \in Member : worker[n].at = "Sending" => worker[n].ident \in Version
    BY Zenon, <1>1 DEF Stored
  <1>4. Counts(m) => news' \in [Member -> {"none", "some", "noting"}]
    BY <1>1 DEF Counts, TypeOK
  <1> DEFINE Alone == UNCHANGED <<up, pkg, state, worker, published, census>>
             Same == UNCHANGED <<election, winner, health, doubts>>
  <1>5. ASSUME Alone, TypeOK', Elected',
               \A n, x \in Member : known'[n][x] \in 1..Len(published[x]),
               \A n, x \in Member : known'[n][x] >= known[n][x],
               \A t \in Term : winner'[t] = winner[t] \/ winner[t] = NoMember,
               Calm' => /\ Calm
                        /\ \A n, x \in up' : health[n][x] = "Alive" => health'[n][x] = "Alive"
        PROVE  Sane' /\ Evolves
    <2>1. Sane' /\ StoreStep /\ Quiet
      BY ZenonT(20), <1>3, <1>5, Frame
    <2> QED BY Zenon, <1>5, <2>1, SameRole DEF Evolves
  <1>6. Same => Elected' /\ (Calm' => Calm)
    BY Zenon, <1>1 DEF Elected, ElectionOK, Calm
  <1>7. CASE OtherRumor(m)
    <2>1. Alone /\ Same /\ UNCHANGED <<known, latest, faults>> /\ Counts(m)
      BY Zenon, <1>7 DEF OtherRumor
    <2>2. TypeOK'
      BY Zenon, <1>1, <1>4, <2>1 DEF TypeOK
    <2> QED BY Zenon, <1>2, <1>5, <1>6, <2>1, <2>2
  <1>8. ASSUME NEW x \in Member, InsertService(m, x) PROVE Sane' /\ Evolves
    <2>1. Alone /\ Same /\ UNCHANGED <<latest, faults>> /\ Counts(m)
      BY Zenon, <1>8 DEF InsertService
    <2>2. PICK i \in known[m][x] + 1..Len(published[x]) : known' = [known EXCEPT ![m][x] = i]
      BY Zenon, <1>8 DEF InsertService
    <2>3. Len(published[x]) \in Nat
      BY Zenon, <1>1, StoreTypes
    <2>4. i \in 1..Len(published[x]) /\ i \in Nat /\ i >= known[m][x]
      BY <1>2, <2>2, <2>3
    <2>5. /\ known' \in [Member -> [Member -> Nat]]
          /\ \A n, y \in Member : known'[n][y] = IF n = m /\ y = x THEN i ELSE known[n][y]
      BY <1>1, <2>2, <2>4, ZenonT(40) DEF TypeOK
    <2>6. TypeOK'
      BY Zenon, <1>1, <1>4, <2>1, <2>5 DEF TypeOK
    <2>7. \A n, y \in Member : known'[n][y] \in 1..Len(published[y]) /\ known'[n][y] >= known[n][y]
      BY Zenon, <1>2, <2>4, <2>5
    <2> QED BY Zenon, <1>5, <1>6, <2>1, <2>6, <2>7
  <1>9. ASSUME NEW x \in Member, NEW h \in Health, InsertHealth(m, x, h) PROVE Sane' /\ Evolves
    <2>1. /\ Alone /\ UNCHANGED <<known, latest, election, winner, faults>> /\ Counts(m)
          /\ health' = [health EXCEPT ![m][x] = h]
          /\ x \in up => h = "Alive" \/ doubts < MaxDoubts
          /\ doubts' = IF x \in up /\ h # "Alive" THEN doubts + 1 ELSE doubts
      BY Zenon, <1>9 DEF InsertHealth
    <2>2. /\ health' \in [Member -> [Member -> Health]]
          /\ \A n, y \in Member : health'[n][y] = IF n = m /\ y = x THEN h ELSE health[n][y]
      BY <1>1, <2>1, ZenonT(40) DEF TypeOK
    <2>3. doubts' \in 0..MaxDoubts /\ (doubts' = 0 => doubts = 0 /\ (x \in up => h = "Alive"))
      BY <1>1, <2>1, BoundsAssumption DEF TypeOK
    <2>4. TypeOK'
      BY Zenon, <1>1, <1>4, <2>1, <2>2, <2>3 DEF TypeOK
    <2>5. Elected'
      BY Zenon, <1>1, <2>1 DEF Elected, ElectionOK
    <2>6. Calm' => /\ Calm
                   /\ \A n, y \in up' : health[n][y] = "Alive" => health'[n][y] = "Alive"
      BY ZenonT(20), <1>1, <2>1, <2>2, <2>3 DEF Calm
    <2>7. \A n, y \in Member : known'[n][y] \in 1..Len(published[y]) /\ known'[n][y] >= known[n][y]
      BY Zenon, <1>2, <2>1
    <2> QED BY ZenonT(20), <1>5, <2>1, <2>4, <2>5, <2>6, <2>7
  <1>10. ASSUME NEW e, NEW t \in Term, NEW s \in {"Running", "Finished"},
                e = [term |-> t, status |-> s], HearElection(m, e)
         PROVE  Sane' /\ Evolves
    <2>1. /\ Alone /\ UNCHANGED <<known, latest, health, winner, faults, doubts>> /\ Counts(m)
          /\ election' = [election EXCEPT ![m] = e]
          /\ e.status = "Finished" => winner[e.term] # NoMember
          /\ Newer(e, election[m])
      BY Zenon, <1>10 DEF HearElection
    <2>2. ElectionOK(e)
      BY <1>10, <2>1 DEF ElectionOK
    <2>3. /\ election' \in [Member -> [term : Term, status : {"None", "Running", "Finished"}]]
          /\ election'[m] = e /\ \A n \in Member \ {m} : election'[n] = election[n]
      BY <1>1, <2>1, <2>2 DEF TypeOK, ElectionOK
    <2>4. TypeOK'
      BY Zenon, <1>1, <1>4, <2>1, <2>3 DEF TypeOK
    <2>5. Elected'
      BY Zenon, <1>1, <2>1, <2>2, <2>3 DEF Elected, ElectionOK
    <2>6. e.term = 0 => election[m].term = 0
      <3>1. election[m].term \in Nat /\ (election[m].status = "None" => election[m].term = 0)
        BY <1>1, BoundsAssumption DEF Elected, ElectionOK, Term
      <3>2. e.term \in Nat
        BY <1>10, BoundsAssumption DEF Term
      <3> QED BY <2>1, <3>1, <3>2 DEF Newer
    <2>7. Calm' => Calm
      BY Zenon, <2>1, <2>3, <2>6 DEF Calm
    <2>8. \A n, y \in Member : known'[n][y] \in 1..Len(published[y]) /\ known'[n][y] >= known[n][y]
      BY Zenon, <1>2, <2>1
    <2> QED BY ZenonT(20), <1>5, <2>1, <2>4, <2>5, <2>7, <2>8
  <1>11. CASE FinishElection(m)
    <2> DEFINE t == election[m].term
    <2>1. /\ Alone /\ UNCHANGED <<known, latest, health, faults, doubts>> /\ Counts(m)
          /\ winner[t] = NoMember /\ winner' = [winner EXCEPT ![t] = m]
          /\ election' = [election EXCEPT ![m].status = "Finished"]
      BY Zenon, <1>11 DEF FinishElection
    <2>2. t \in Term
      BY <1>1 DEF TypeOK
    <2>3. /\ winner' \in [Term -> Member \cup {NoMember}] /\ winner'[t] = m
          /\ \A u \in Term \ {t} : winner'[u] = winner[u]
      BY <1>1, <2>1, <2>2 DEF TypeOK
    <2>4. /\ election' \in [Member -> [term : Term, status : {"None", "Running", "Finished"}]]
          /\ election'[m].term = t /\ election'[m].status = "Finished"
          /\ \A n \in Member \ {m} : election'[n] = election[n]
      BY <1>1, <2>1, ZenonT(40) DEF TypeOK
    <2>5. m # NoMember
      BY Numbers
    <2>6. TypeOK'
      BY Zenon, <1>1, <1>4, <2>1, <2>3, <2>4 DEF TypeOK
    <2>7. Elected'
      <3> SUFFICES ASSUME NEW n \in Member PROVE ElectionOK(election[n])'
        BY Zenon DEF Elected
      <3>1. CASE n = m
        BY Zenon, <2>3, <2>4, <2>5, <3>1 DEF ElectionOK
      <3>2. CASE n # m
        <4>1. ElectionOK(election[n]) /\ election'[n] = election[n] /\ election[n].term \in Term
          BY <1>1, <2>4, <3>2 DEF Elected, ElectionOK
        <4> QED BY Zenon, <2>3, <2>5, <4>1 DEF ElectionOK
      <3> QED BY <3>1, <3>2
    <2>8. Calm' => Calm
      BY Zenon, <2>1, <2>4 DEF Calm
    <2>9. \A u \in Term : winner'[u] = winner[u] \/ winner[u] = NoMember
      BY Zenon, <2>1, <2>3
    <2>10. \A n, y \in Member : known'[n][y] \in 1..Len(published[y]) /\ known'[n][y] >= known[n][y]
      BY Zenon, <1>2, <2>1
    <2> QED BY ZenonT(20), <1>5, <2>1, <2>6, <2>7, <2>8, <2>9, <2>10
  <1> QED BY Zenon, <1>7, <1>8, <1>9, <1>10, <1>11 DEF Gossip

LEMMA WorkerStep ==
    ASSUME Sane, NEW m \in Member, RunWorker(m) \/ WorkerDies(m)
    PROVE  Sane' /\ Evolves
  <1>1. TypeOK /\ Stored /\ Elected /\ m \in up
    BY Zenon DEF Sane, RunWorker, WorkerDies
  <1>2. UNCHANGED <<latest, up, pkg, state, published, known, health, election, winner,
                    census, news, doubts>>
    BY Zenon DEF RunWorker, WorkerDies
  <1>3. faults' \in 0..MaxFaults
    BY <1>1, BoundsAssumption DEF RunWorker, WorkerDies, TypeOK
  <1>4. PICK w \in Worker :
           /\ worker' = [worker EXCEPT ![m] = w]
           /\ w.at = "Sending" => w.ident \in Version
           /\ \/ w = Dead
              \/ /\ worker[m].at = "Installing" /\ w.at = "Sending"
                 /\ worker[m].ident # Newest => w.ident = worker[m].ident
                 /\ worker[m].ident = Newest => w.ident > pkg[m]
    <2>1. CASE RunWorker(m)
      <3> DEFINE v == worker[m].ident
                 w == [at |-> "Sending", ident |-> IF v = Newest THEN latest ELSE v]
      <3>1. worker[m].at = "Installing" /\ (v = Newest => pkg[m] < latest) /\ worker' = [worker EXCEPT ![m] = w]
        BY Zenon, <2>1 DEF RunWorker
      <3>2. v \in {Newest} \cup Version /\ latest \in Version /\ pkg[m] \in Version
        BY <1>1 DEF TypeOK, Worker
      <3>3. w \in Worker /\ w.ident \in Version
        BY <3>2, Zenon DEF Worker
      <3>4. v = Newest => w.ident > pkg[m]
        BY <3>1, <3>2, Numbers
      <3> QED BY <3>1, <3>3, <3>4, ZenonT(40)
    <2>2. CASE WorkerDies(m)
      BY <2>2, Workers, ZenonT(40) DEF WorkerDies
    <2> QED BY <2>1, <2>2
  <1>5. worker' \in [Member -> Worker] /\ worker'[m] = w
        /\ \A n \in Member \ {m} : worker'[n] = worker[n]
    BY <1>1, <1>4 DEF TypeOK
  <1>6. TypeOK'
    BY Zenon, <1>1, <1>2, <1>3, <1>5 DEF TypeOK
  <1>7. Elected' /\ (Calm' => Calm)
    BY Zenon, <1>1, <1>2 DEF Elected, ElectionOK, Calm
  <1>8. \A n, x \in Member : known'[n][x] \in 1..Len(published[x])
    BY Zenon, <1>1, <1>2 DEF Stored
  <1>9. \A n, x \in Member : known'[n][x] >= known[n][x]
    BY <1>1, <1>2, StoreTypes
  <1>10. \A n \in Member : worker'[n].at = "Sending" => worker'[n].ident \in Version
    BY Zenon, <1>1, <1>4, <1>5 DEF Stored
  <1>11. Sane' /\ StoreStep /\ Quiet
    BY ZenonT(20), <1>2, <1>6, <1>7, <1>8, <1>9, <1>10, Frame
  <1>12. state' = [state EXCEPT ![m] = state[m]] /\ state'[m] = state[m]
    BY <1>1, <1>2, Zenon DEF TypeOK
  <1>13. RoleStep(m)
    BY ZenonT(20), <1>4, <1>5, <1>12, Workers, RoleNames DEF RoleStep, Busy
  <1> QED BY ZenonT(20), <1>1, <1>4, <1>11, <1>12, <1>13, OneRole

LEMMA CrashStep ==
    ASSUME Sane, NEW m \in Member, Crash(m)
    PROVE  Sane' /\ Evolves
  <1>1. TypeOK /\ Stored /\ Elected /\ UpdaterHasLeader /\ up \subseteq Member
    BY Zenon DEF Sane, TypeOK
  <1>2. /\ up' = up \ {m} /\ m \in up
        /\ UNCHANGED <<latest, pkg, published, election, winner, doubts>>
    BY Zenon DEF Crash
  <1>3. FirstCensus \in Census /\ "AwaitingElection" \in State
    BY BoundsAssumption DEF FirstCensus, Census, State, Version
  <1>4. TypeOK'
    <2>1. /\ state' \in [Member -> State] /\ worker' \in [Member -> Worker]
          /\ health' \in [Member -> [Member -> Health]] /\ known' \in [Member -> [Member -> Nat]]
      BY <1>1, <1>3, Workers, Zenon DEF TypeOK, Crash, Health
    <2>2. /\ census' \in [Member -> Census] /\ news' \in [Member -> {"none", "some", "noting"}]
          /\ faults' \in 0..MaxFaults /\ up' \subseteq Member
      BY <1>1, <1>2, <1>3, BoundsAssumption DEF TypeOK, Crash
    <2> QED BY Zenon, <1>1, <1>2, <2>1, <2>2 DEF TypeOK
  <1>5. \A n \in Member \ {m} : /\ state'[n] = state[n] /\ worker'[n] = worker[n]
                                /\ known'[n] = known[n] /\ health'[n] = health[n]
                                /\ census'[n] = census[n]
    BY <1>1 DEF Crash, TypeOK
  <1>6. worker'[m] = Idle /\ \A x \in Member : known'[m][x] = 1
    BY <1>1 DEF Crash, TypeOK
  <1>7. \A n \in up' : n \in Member \ {m} /\ n \in up
    BY Zenon, <1>1, <1>2
  <1>8. Stored'
    <2>1. \A x \in Member : 1 \in 1..Len(published[x])
      BY <1>1, StoreTypes DEF Stored
    <2>2. \A n, x \in Member : known'[n][x] \in 1..Len(published'[x])
      BY ZenonT(40), <1>1, <1>2, <1>5, <1>6, <2>1 DEF Stored
    <2>3. \A n \in Member : worker'[n].at = "Sending" => worker'[n].ident \in Version
      <3>1. worker'[m].at # "Sending"
        BY <1>6, Workers
      <3> QED BY Zenon, <1>1, <1>5, <3>1 DEF Stored
    <2>4. \A n \in up' : known'[n][n] = Len(published'[n])
      BY Zenon, <1>1, <1>2, <1>5, <1>7 DEF Stored
    <2> QED BY Zenon, <1>1, <1>2, <2>2, <2>3, <2>4 DEF Stored
  <1>9. Elected' /\ (Calm' => Calm)
    BY Zenon, <1>1, <1>2 DEF Elected, ElectionOK, Calm
  <1>10. UpdaterHasLeader'
    BY Zenon, <1>1, <1>5, <1>7 DEF UpdaterHasLeader, Live
  <1>11. \A n \in up' : census'[n].pkg[n] = pkg'[n]
    BY Zenon, <1>2, <1>5, <1>7 DEF Sane
  <1>12. StoreStep
    <2>1. \A n \in up', x \in Member : known'[n][x] >= known[n][x]
      BY <1>1, <1>5, <1>7, StoreTypes
    <2>2. up' \subseteq up
      BY Zenon, <1>2
    <2> QED BY ZenonT(20), <1>1, <1>2, <1>5, <1>7, <1>9, <2>1, <2>2 DEF StoreStep
  <1>13. \A n \in up' : RoleStep(n)
    BY Zenon, <1>5, <1>7, SameRole
  <1> QED BY Zenon, <1>2, <1>4, <1>8, <1>9, <1>10, <1>11, <1>12, <1>13 DEF Sane, Evolves, Quiet

LEMMA NextStep ==
    ASSUME Sane, Next
    PROVE  Sane' /\ Evolves
  <1>2. ASSUME NEW m \in Member,
               \/ MainLoop(m) \/ Gossip(m) \/ RunWorker(m) \/ WorkerDies(m) \/ Crash(m)
               \/ OtherRumor(m)
               \/ \E x \in Member, h \in Health : InsertHealth(m, x, h)
        PROVE  Sane' /\ Evolves
    BY Zenon, <1>2, MainLoopStep, GossipStep, WorkerStep, CrashStep
  <1> QED BY Zenon, <1>2, ReleaseStep DEF Next

-----------------------------------------------------------------------------
(* The leader.                                                              *)

LEMMA SettledStep ==
    ASSUME Sane, Sane', Evolves, Calm', Settled
    PROVE  Settled'
  <1>1. /\ StoreStep /\ up' \subseteq up /\ up \subseteq Member /\ 0 \in Term
        /\ \A n \in up' : RoleStep(n) /\ n \in Member /\ n # NoMember
    <2>1. StoreStep /\ \A n \in up' : RoleStep(n)
      BY Zenon DEF Evolves
    <2>2. up' \subseteq up
      BY Zenon, <2>1 DEF StoreStep
    <2>3. up \subseteq Member
      BY Zenon DEF Sane, TypeOK
    <2> QED BY Zenon, <2>1, <2>2, <2>3, Numbers
  <1>2. winner'[0] = winner[0] \/ winner[0] = NoMember
    BY Zenon, <1>1 DEF StoreStep
  <1>3. ASSUME NEW n \in up', NEW x \in up'
        PROVE  health'[n][x] = "Alive" /\ x \in census'[n].alive
    <2>1. health[n][x] = "Alive" /\ x \in census[n].alive /\ x \in Member
      BY Zenon, <1>1 DEF Settled
    <2>2. x \in Electorate(n)
      BY <2>1 DEF Electorate
    <2> QED BY Zenon, <1>1, <2>1, <2>2 DEF StoreStep
  <1>4. ASSUME NEW n \in up' PROVE census'[n].lead \in {NoMember, winner'[0]}
    <2>1. election'[n].term = 0
      BY Zenon, <1>1 DEF Calm
    <2>2. census[n].lead \in {NoMember, winner[0]}
      BY Zenon, <1>1 DEF Settled
    <2>3. \/ census'[n].lead = census[n].lead
          \/ census'[n].lead = winner'[election'[n].term]
      BY Zenon, <1>1 DEF StoreStep
    <2> QED BY Zenon, <1>2, <2>1, <2>2, <2>3
  <1>5. ASSUME NEW n \in up', state'[n] \in Leading PROVE n = winner'[0]
    <2>1. state[n] \in Leading \/ census[n].lead = n
      BY Zenon, <1>1, <1>5 DEF RoleStep
    <2>2. n = winner[0]
      BY Zenon, <1>1, <2>1 DEF Settled
    <2> QED BY Zenon, <1>1, <1>2, <2>2
  <1>6. ASSUME NEW n \in up', state'[n] \in Following
        PROVE  winner'[0] # NoMember /\ n # winner'[0]
    <2>1. state[n] \in Following \/ census[n].lead \notin {NoMember, n}
      BY Zenon, <1>1, <1>6 DEF RoleStep
    <2>2. winner[0] # NoMember /\ n # winner[0]
      BY Zenon, <1>1, <2>1 DEF Settled
    <2> QED BY Zenon, <1>2, <2>2
  <1> QED BY Zenon, <1>3, <1>4, <1>5, <1>6 DEF Settled

\* As long as nobody has won, nobody has a role.
LEMMA NoRoles ==
    ASSUME Sane, Settled, winner[0] = NoMember, NEW n \in up
    PROVE  state[n] \notin Leading \cup Following
  <1>1. n # NoMember
    BY Zenon, Numbers DEF Sane, TypeOK
  <1> QED BY Zenon, <1>1 DEF Settled

LEMMA UntouchedStep ==
    ASSUME Sane, Sane', Evolves, Settled, winner[0] = NoMember, Untouched
    PROVE  Untouched'
  <1>1. \A n \in up : state[n] \notin {"LeaderPolling", "FollowerUpdating"}
    BY Zenon, NoRoles, RoleNames
  <1>2. Quiet
    BY Zenon, <1>1 DEF Evolves, Installs
  <1>3. \A m \in Member : pkg'[m] = 1 /\ published'[m] = <<1>>
    BY Zenon, <1>2 DEF Quiet, Untouched
  <1>4. ASSUME NEW n \in up', NEW x \in Member PROVE census'[n].pkg[x] = 1
    <2>1. n \in up /\ n \in Member
      BY Zenon DEF Evolves, StoreStep, Sane, TypeOK
    <2>2. known'[n][x] \in 1..Len(published'[x])
      BY Zenon, <2>1 DEF Sane, Stored
    <2>3. published'[x][known'[n][x]] = 1
      BY <1>3, <2>2
    <2>4. census'[n].pkg[x] \in {census[n].pkg[x], published'[x][known'[n][x]]}
      BY Zenon DEF Evolves, StoreStep
    <2> QED BY Zenon, <2>1, <2>3, <2>4 DEF Untouched
  <1> QED BY Zenon, <1>3, <1>4 DEF Untouched

\* The first winner finds a group that agrees.
NobodyUpdates == \A n \in up : state[n] \notin {"LeaderPolling", "FollowerUpdating"}

Begun == \A l \in Member : Rolling(l)

LEMMA FirstWinner == Sane /\ Untouched /\ NobodyUpdates => Begun
  <1> SUFFICES ASSUME Sane, Untouched, NobodyUpdates, NEW l \in Member PROVE Rolling(l)
    BY Zenon DEF Begun
  <1>1. up \subseteq Member
    BY Zenon DEF Sane, TypeOK
  <1>2. \A n, x \in Member : known[n][x] \in 1..Len(published[x])
    BY Zenon DEF Sane, Stored
  <1>3. /\ \A n \in Member : pkg[n] = 1 /\ published[n] = <<1>>
        /\ \A n \in up, x \in Member : census[n].pkg[x] = 1
    BY Zenon DEF Untouched
  <1>4. \A x \in Member : \A i \in 1..Len(published[x]) : published[x][i] = 1
    <2>1. Len(<<1>>) = 1 /\ <<1>>[1] = 1 /\ \A i \in 1..1 : i = 1
      OBVIOUS
    <2> QED BY Zenon, <1>3, <2>1
  <1>5. \A n, x \in Member : \A i \in known[n][x]..Len(published[x]) : published[x][i] = 1
    <2> SUFFICES ASSUME NEW n \in Member, NEW x \in Member, NEW i \in known[n][x]..Len(published[x])
                 PROVE  published[x][i] = 1
      OBVIOUS
    <2>1. known[n][x] \in 1..Len(published[x]) /\ Len(published[x]) \in Nat
      BY <1>2, <1>3
    <2>2. i \in 1..Len(published[x])
      BY <2>1
    <2> QED BY Zenon, <1>4, <2>2
  <1>6. Versions(l)
    <2>1. \A m \in up, x \in Member : census[m].pkg[x] =< published[x][known[m][x]]
      BY <1>1, <1>2, <1>3, <1>4
    <2>2. \A x \in Member : \A i, j \in 1..Len(published[x]) : i =< j => published[x][i] =< published[x][j]
      BY <1>4
    <2>3. \A x \in Member : pkg[x] =< pkg[l]
      BY <1>3
    <2> QED BY ZenonT(40), <1>1, <1>3, <1>5, <2>1, <2>2, <2>3 DEF Versions
  <1>7. Turns(l) /\ Polls(l)
    BY Zenon, <1>1, <1>3 DEF NobodyUpdates, Turns, Done, Polls, Live
  <1> QED BY <1>6, <1>7 DEF Rolling

LEMMA FirstWinnerPrimed == (Sane /\ Untouched /\ NobodyUpdates => Begun)'
  BY FirstWinner, PTL

-----------------------------------------------------------------------------
(* Versions.                                                                *)

\* What is known of a member is not newer than what it runs, nor is that newer
\* than what the leader runs.
LEMMA Bounded ==
    ASSUME Sane, NEW l \in Member, Versions(l)
    PROVE  /\ \A x \in Member : \A i \in 1..Len(published[x]) :
                 published[x][i] =< pkg[x] /\ published[x][i] =< pkg[l]
           /\ \A m \in up, x \in Member : census[m].pkg[x] =< pkg[x]
           /\ \A m \in up : \A i \in known[m][l]..Len(published[l]) :
                 i \in 1..Len(published[l]) /\ census[m].pkg[l] =< published[l][i]
  <1>1. TypeOK /\ Stored /\ up \subseteq Member
    BY Zenon DEF Sane, TypeOK
  <1>2. ASSUME NEW x \in Member, NEW i \in 1..Len(published[x])
        PROVE  published[x][i] =< pkg[x] /\ published[x][i] =< pkg[l]
    <2>1. /\ Len(published[x]) \in Nat /\ Len(published[x]) >= 1
          /\ published[x][Len(published[x])] = pkg[x]
          /\ pkg[x] \in Nat /\ pkg[l] \in Nat /\ published[x][i] \in Nat
      BY Zenon, <1>1, StoreTypes DEF Stored
    <2>2. i =< Len(published[x]) /\ Len(published[x]) \in 1..Len(published[x])
      BY <2>1
    <2>3. published[x][i] =< published[x][Len(published[x])] /\ pkg[x] =< pkg[l]
      BY Zenon, <2>2 DEF Versions
    <2> QED BY <2>1, <2>3
  <1>3. ASSUME NEW m \in up, NEW x \in Member
        PROVE  /\ census[m].pkg[x] =< pkg[x]
               /\ \A i \in known[m][x]..Len(published[x]) :
                    i \in 1..Len(published[x]) /\ census[m].pkg[x] =< published[x][i]
    <2> DEFINE k == known[m][x]
    <2>1. /\ k \in 1..Len(published[x]) /\ Len(published[x]) \in Nat
          /\ census[m].pkg[x] \in Nat /\ pkg[x] \in Nat
          /\ \A i \in 1..Len(published[x]) : published[x][i] \in Nat
      BY Zenon, <1>1, StoreTypes DEF Stored
    <2>2. census[m].pkg[x] =< published[x][k]
      BY Zenon DEF Versions
    <2>3. published[x][k] =< pkg[x]
      BY Zenon, <1>2, <2>1
    <2>4. ASSUME NEW i \in k..Len(published[x])
          PROVE  i \in 1..Len(published[x]) /\ census[m].pkg[x] =< published[x][i]
      <3>1. i \in 1..Len(published[x]) /\ k =< i
        BY <2>1
      <3>2. published[x][k] =< published[x][i]
        BY Zenon, <2>1, <3>1 DEF Versions
      <3>3. census[m].pkg[x] \in Nat /\ published[x][k] \in Nat /\ published[x][i] \in Nat
        BY Zenon, <2>1, <3>1
      <3> QED BY <2>2, <3>1, <3>2, <3>3
    <2> QED BY <2>1, <2>2, <2>3, <2>4
  <1> QED BY ZenonT(20), <1>2, <1>3

\* A census that is rebuilt does not go back, as long as rumors only add to
\* what was published.
LEMMA SeenStep ==
    ASSUME Sane, Sane', NEW l \in Member, Versions(l), StoreStep,
           \A x \in Member : /\ Len(published'[x]) >= Len(published[x])
                             /\ \A i \in 1..Len(published[x]) : published'[x][i] = published[x][i]
                             /\ \A i, j \in 1..Len(published'[x]) :
                                   i =< j => published'[x][i] =< published'[x][j]
    PROVE  \A m \in up', x \in Member : census'[m].pkg[x] =< published'[x][known'[m][x]]
  <1> SUFFICES ASSUME NEW m \in up', NEW x \in Member
               PROVE  census'[m].pkg[x] =< published'[x][known'[m][x]]
    OBVIOUS
  <1> DEFINE k == known[m][x]
             kk == known'[m][x]
  <1>1. TypeOK /\ Stored /\ TypeOK' /\ Stored'
    BY Zenon DEF Sane
  <1>2. m \in up /\ m \in Member
    BY Zenon, <1>1 DEF StoreStep, TypeOK
  <1>3. /\ k \in 1..Len(published[x]) /\ kk \in 1..Len(published'[x]) /\ kk >= k
        /\ Len(published[x]) \in Nat /\ Len(published'[x]) \in Nat
    <2>1. Len(published[x]) \in Nat /\ k \in 1..Len(published[x])
      BY Zenon, <1>1, <1>2, StoreTypes DEF Stored
    <2>2. Len(published'[x]) \in Nat /\ kk \in 1..Len(published'[x])
      BY Zenon, <1>1, <1>2, StoreTypesPrimed DEF Stored
    <2>3. kk >= k
      BY Zenon DEF StoreStep
    <2> QED BY <2>1, <2>2, <2>3
  <1>4. published'[x][kk] \in Nat /\ published'[x][k] \in Nat /\ census[m].pkg[x] \in Nat
    <2>1. k \in 1..Len(published'[x])
      BY <1>3
    <2> QED BY Zenon, <1>1, <1>2, <1>3, <2>1, StoreTypes, StoreTypesPrimed
  <1>5. census[m].pkg[x] =< published'[x][k]
    BY Zenon, <1>2, <1>3 DEF Versions
  <1>6. published'[x][k] =< published'[x][kk]
    <2>1. k \in 1..Len(published'[x]) /\ k =< kk
      BY <1>3
    <2> QED BY Zenon, <1>3, <2>1
  <1>7. census'[m].pkg[x] \in {census[m].pkg[x], published'[x][kk]}
    BY Zenon DEF StoreStep
  <1> QED BY <1>4, <1>5, <1>6, <1>7

LEMMA AppendGrows ==
    ASSUME NEW s \in Seq(Version), NEW v \in Version,
           \A i, j \in 1..Len(s) : i =< j => s[i] =< s[j],
           \A i \in 1..Len(s) : s[i] =< v
    PROVE  /\ Len(Append(s, v)) >= Len(s)
           /\ \A i \in 1..Len(s) : Append(s, v)[i] = s[i]
           /\ \A i, j \in 1..Len(Append(s, v)) : i =< j => Append(s, v)[i] =< Append(s, v)[j]
  <1>1. /\ Len(s) \in Nat /\ Len(Append(s, v)) = Len(s) + 1
        /\ \A i \in 1..Len(s) : Append(s, v)[i] = s[i]
        /\ Append(s, v)[Len(s) + 1] = v
    OBVIOUS
  <1>2. v =< v
    BY Numbers
  <1>3. ASSUME NEW i \in 1..Len(s) + 1, NEW j \in 1..Len(s) + 1, i =< j
        PROVE  Append(s, v)[i] =< Append(s, v)[j]
    <2>1. CASE j \in 1..Len(s)
      <3>1. i \in 1..Len(s)
        BY <1>1, <1>3, <2>1
      <3> QED BY Zenon, <1>1, <1>3, <2>1, <3>1
    <2>2. CASE j = Len(s) + 1 /\ i \in 1..Len(s)
      BY Zenon, <1>1, <2>2
    <2>3. CASE j = Len(s) + 1 /\ i = Len(s) + 1
      BY Zenon, <1>1, <1>2, <2>3
    <2> QED BY <1>1, <2>1, <2>2, <2>3
  <1>4. Len(Append(s, v)) >= Len(s)
    BY <1>1
  <1> QED BY Zenon, <1>1, <1>3, <1>4

\* A step in which the leader l does not change: a follower takes its version.
Follows(l) ==
    /\ pkg'[l] = pkg[l] /\ published'[l] = published[l]
    /\ \A x \in Member :
         /\ \/ pkg'[x] = pkg[x]
            \/ /\ pkg'[x] = pkg[l]
               /\ x \in Live("FollowerUpdating") /\ state'[x] # "FollowerUpdating"
         /\ published'[x] \in {published[x], Append(published[x], pkg'[x])}

\* A step in which it updates, which it does when all live members agree.
Leads(l) ==
    /\ \A x \in up : pkg[x] = pkg[l] /\ state[x] # "FollowerUpdating"
    /\ pkg'[l] >= pkg[l]
    /\ published'[l] = Append(published[l], pkg'[l])
    /\ \A x \in Member \ {l} : pkg'[x] = pkg[x] /\ published'[x] = published[x]

LEMMA FollowsOrLeads ==
    ASSUME Sane, Sane', Settled, NEW l \in Member, winner[0] = l, Rolling(l), Evolves
    PROVE  Follows(l) \/ (Leads(l) /\ state'[l] # "LeaderPolling")
  <1>1. TypeOK /\ up \subseteq Member
    BY Zenon DEF Sane, TypeOK
  <1>2. CASE Quiet
    BY Zenon, <1>2 DEF Quiet, Follows
  <1>3. ASSUME NEW n \in Member, Installs(n)
        PROVE  Follows(l) \/ (Leads(l) /\ state'[l] # "LeaderPolling")
    <2>1. /\ n \in up /\ worker[n].at = "Sending"
          /\ state[n] = "LeaderPolling" \/ state[n] = "FollowerUpdating"
          /\ pkg' = pkg \/ pkg' = [pkg EXCEPT ![n] = worker[n].ident]
          /\ published' = [published EXCEPT ![n] = Append(@, pkg'[n])]
          /\ state'[n] # "LeaderPolling" /\ state'[n] # "FollowerUpdating"
      BY Zenon, <1>3 DEF Installs
    <2>2. /\ pkg'[n] \in {pkg[n], worker[n].ident} /\ published'[n] = Append(published[n], pkg'[n])
          /\ \A x \in Member \ {n} : pkg'[x] = pkg[x] /\ published'[x] = published[x]
      BY <1>1, <2>1, Zenon DEF TypeOK
    <2>3. CASE state[n] = "LeaderPolling"
      <3>1. n = l
        BY Zenon, <2>1, <2>3, RoleNames DEF Settled
      <3>2. /\ \A x \in up : pkg[x] = pkg[l] /\ state[x] # "FollowerUpdating"
            /\ worker[l].ident > pkg[l]
        BY Zenon, <2>1, <2>3, <3>1 DEF Rolling, Polls, Live
      <3>3. pkg[l] \in Nat /\ pkg'[l] \in Nat
        BY Zenon, StoreTypes, StoreTypesPrimed DEF Sane
      <3>4. pkg'[l] >= pkg[l]
        BY <2>2, <3>1, <3>2, <3>3
      <3> QED BY Zenon, <2>1, <2>2, <3>1, <3>2, <3>4 DEF Leads
    <2>4. CASE state[n] = "FollowerUpdating"
      <3>1. n # l /\ n \in Live("FollowerUpdating")
        BY Zenon, <2>1, <2>4, RoleNames DEF Settled, Live
      <3>2. worker[n].ident = pkg[l]
        BY <2>1, <3>1, Zenon DEF Rolling, Turns, Updates
      <3> QED BY Zenon, <2>1, <2>2, <3>1, <3>2 DEF Follows
    <2> QED BY Zenon, <2>1, <2>3, <2>4
  <1> QED BY Zenon, <1>2, <1>3 DEF Evolves

\* Either way the rumors of a member stay in the order of its versions.
LEMMA PublishedGrows ==
    ASSUME Sane, Sane', NEW l \in Member, Versions(l), Follows(l) \/ Leads(l), NEW x \in Member
    PROVE  /\ pkg[x] =< pkg'[x] /\ pkg'[x] =< pkg'[l]
           /\ Len(published'[x]) >= Len(published[x])
           /\ \A i \in 1..Len(published[x]) : published'[x][i] = published[x][i]
           /\ \A i, j \in 1..Len(published'[x]) : i =< j => published'[x][i] =< published'[x][j]
  <1>1. /\ pkg[x] \in Nat /\ pkg[l] \in Nat /\ pkg'[x] \in Version /\ pkg'[l] \in Nat /\ pkg'[x] \in Nat
        /\ published[x] \in Seq(Version) /\ Len(published[x]) \in Nat
        /\ \A i \in 1..Len(published[x]) : published[x][i] \in Nat
    BY Zenon, StoreTypes, StoreTypesPrimed DEF Sane
  <1>2. pkg[x] =< pkg[l]
    BY Zenon DEF Versions
  <1>3. /\ pkg[x] =< pkg'[x] /\ pkg'[x] =< pkg'[l]
        /\ published'[x] \in {published[x], Append(published[x], pkg'[x])}
    <2>1. CASE Follows(l)
      <3>1. pkg'[l] = pkg[l] /\ (pkg'[x] = pkg[x] \/ pkg'[x] = pkg[l])
            /\ published'[x] \in {published[x], Append(published[x], pkg'[x])}
        BY Zenon, <2>1 DEF Follows
      <3> QED BY <1>1, <1>2, <3>1
    <2>2. CASE Leads(l)
      <3>1. pkg'[l] >= pkg[l] /\ (x # l => pkg'[x] = pkg[x])
            /\ published'[x] \in {published[x], Append(published[x], pkg'[x])}
        BY Zenon, <2>2 DEF Leads
      <3> QED BY <1>1, <1>2, <3>1
    <2> QED BY <2>1, <2>2, Zenon
  <1>4. \A i, j \in 1..Len(published[x]) : i =< j => published[x][i] =< published[x][j]
    BY Zenon DEF Versions
  <1>5. \A i \in 1..Len(published[x]) : published[x][i] =< pkg'[x]
    <2> SUFFICES ASSUME NEW i \in 1..Len(published[x]) PROVE published[x][i] =< pkg'[x]
      OBVIOUS
    <2>1. published[x][i] =< pkg[x]
      BY Zenon, Bounded
    <2> QED BY <1>1, <1>3, <2>1
  <1>6. CASE published'[x] = published[x]
    BY <1>1, <1>3, <1>4, <1>6
  <1>7. CASE published'[x] = Append(published[x], pkg'[x])
    <2> DEFINE s == published[x]
               v == pkg'[x]
    <2>1. /\ Len(Append(s, v)) >= Len(s)
          /\ \A i \in 1..Len(s) : Append(s, v)[i] = s[i]
          /\ \A i, j \in 1..Len(Append(s, v)) : i =< j => Append(s, v)[i] =< Append(s, v)[j]
      BY ZenonT(20), <1>1, <1>4, <1>5, AppendGrows
    <2> QED BY Zenon, <1>3, <1>7, <2>1
  <1> QED BY Zenon, <1>3, <1>6, <1>7

LEMMA VersionsStep ==
    ASSUME Sane, Sane', NEW l \in Member, Versions(l), Turns(l), StoreStep,
           Follows(l) \/ Leads(l)
    PROVE  Versions(l)'
  <1>1. /\ TypeOK /\ Stored /\ TypeOK' /\ Stored' /\ up' \subseteq up /\ up \subseteq Member
        /\ \A m \in up' : census'[m].pkg[m] = pkg'[m]
    BY Zenon DEF Sane, TypeOK, StoreStep
  <1>2. \A m \in up', x \in Member : census'[m].pkg[x] =< published'[x][known'[m][x]]
    BY ZenonT(20), SeenStep, PublishedGrows
  <1>3. ASSUME NEW m \in up',
               NEW i \in known'[m][l]..Len(published'[l])
        PROVE  published'[l][i] \in {pkg'[m], pkg'[l]}
    <2>1. /\ m \in up /\ m \in Member /\ known'[m][l] >= known[m][l]
          /\ known[m][l] \in Nat /\ known'[m][l] \in Nat
          /\ Len(published[l]) \in Nat /\ Len(published'[l]) \in Nat
      BY Zenon, <1>1, StoreTypes, StoreTypesPrimed DEF StoreStep
    <2>2. CASE Follows(l)
      <3>1. /\ pkg'[l] = pkg[l] /\ published'[l] = published[l]
            /\ pkg'[m] = pkg[m] \/ (pkg'[m] = pkg[l] /\ m \in Live("FollowerUpdating"))
        BY Zenon, <2>1, <2>2 DEF Follows
      <3>2. i \in known[m][l]..Len(published[l])
        BY <2>1, <3>1
      <3>3. published[l][i] \in {pkg[m], pkg[l]}
        BY Zenon, <2>1, <3>2 DEF Versions
      <3>4. CASE m \in Live("FollowerUpdating")
        <4>1. census[m].pkg[l] = pkg[l]
          BY Zenon, <3>4 DEF Turns, Updates
        <4>2. i \in 1..Len(published[l]) /\ census[m].pkg[l] =< published[l][i]
              /\ published[l][i] =< pkg[l]
          BY Zenon, <2>1, <3>2, Bounded
        <4>3. published[l][i] \in Nat /\ pkg[l] \in Nat
          BY Zenon, <1>1, <4>2, StoreTypes
        <4>4. published[l][i] = pkg[l]
          BY <4>1, <4>2, <4>3
        <4> QED BY Zenon, <3>1, <4>4
      <3> QED BY Zenon, <3>1, <3>3, <3>4
    <2>3. CASE Leads(l)
      <3>1. /\ pkg[m] = pkg[l] /\ published'[l] = Append(published[l], pkg'[l])
            /\ m # l => pkg'[m] = pkg[m]
        BY Zenon, <2>1, <2>3 DEF Leads
      <3>2. published[l] \in Seq(Version) /\ pkg'[l] \in Version
        BY Zenon, <1>1, StoreTypes, StoreTypesPrimed
      <3>3. /\ Len(published'[l]) = Len(published[l]) + 1
            /\ published'[l][Len(published[l]) + 1] = pkg'[l]
            /\ \A j \in 1..Len(published[l]) : published'[l][j] = published[l][j]
        BY <3>1, <3>2
      <3>4. CASE m = l
        <4>1. known'[m][l] = Len(published'[l])
          BY Zenon, <1>1, <3>4 DEF Stored
        <4>2. i = Len(published[l]) + 1
          BY <2>1, <3>3, <4>1
        <4> QED BY Zenon, <3>3, <4>2
      <3>5. CASE m # l /\ i \in known[m][l]..Len(published[l])
        <4>1. i \in 1..Len(published[l])
          BY Zenon, <2>1, <3>5, Bounded
        <4>2. published[l][i] \in {pkg[m], pkg[l]}
          BY Zenon, <2>1, <3>5 DEF Versions
        <4> QED BY Zenon, <3>1, <3>3, <3>5, <4>1, <4>2
      <3>6. CASE i = Len(published[l]) + 1
        BY Zenon, <3>3, <3>6
      <3>7. i \in known[m][l]..Len(published[l]) \/ i = Len(published[l]) + 1
        BY <2>1, <3>3
      <3> QED BY Zenon, <3>4, <3>5, <3>6, <3>7
    <2> QED BY <2>2, <2>3
  <1>4. ASSUME NEW m \in up' PROVE census'[m].pkg[l] \in {pkg'[m], pkg'[l]}
    <2>1. m \in up /\ m \in Member
      BY Zenon, <1>1
    <2>2. known'[m][l] \in 1..Len(published'[l]) /\ Len(published'[l]) \in Nat
      BY Zenon, <1>1, <2>1, StoreTypesPrimed DEF Stored
    <2>3. known'[m][l] \in known'[m][l]..Len(published'[l])
      BY <2>2
    <2>4. published'[l][known'[m][l]] \in {pkg'[m], pkg'[l]}
      BY Zenon, <1>3, <2>3
    <2>5. census'[m].pkg[l] \in {census[m].pkg[l], published'[l][known'[m][l]]}
      BY Zenon DEF StoreStep
    <2>6. census[m].pkg[l] \in {pkg[m], pkg[l]}
      BY Zenon, <2>1 DEF Versions
    <2>7. CASE Follows(l)
      <3>1. /\ pkg'[l] = pkg[l]
            /\ pkg'[m] = pkg[m] \/ (pkg'[m] = pkg[l] /\ m \in Live("FollowerUpdating"))
        BY Zenon, <2>1, <2>7 DEF Follows
      <3>2. m \in Live("FollowerUpdating") => census[m].pkg[l] = pkg[l]
        BY Zenon DEF Turns, Updates
      <3> QED BY Zenon, <2>4, <2>5, <2>6, <3>1, <3>2
    <2>8. CASE Leads(l)
      <3>1. pkg[m] = pkg[l] /\ (m # l => pkg'[m] = pkg[m])
        BY Zenon, <2>1, <2>8 DEF Leads
      <3>2. m = l => census'[m].pkg[l] = pkg'[l]
        BY Zenon, <1>1
      <3> QED BY Zenon, <2>4, <2>5, <2>6, <3>1, <3>2
    <2> QED BY <2>7, <2>8, Zenon
  <1>5. \A x \in Member : pkg'[x] =< pkg'[l]
    BY Zenon, PublishedGrows
  <1>6. \A x \in Member : \A i, j \in 1..Len(published'[x]) :
           i =< j => published'[x][i] =< published'[x][j]
    BY Zenon, PublishedGrows
  <1> QED BY Zenon, <1>2, <1>3, <1>4, <1>5, <1>6 DEF Versions

-----------------------------------------------------------------------------
(* Turns.                                                                   *)

\* The live members between the leader and a follower are its previous peer
\* and those between the leader and that peer.
LEMMA PreviousPeer ==
    ASSUME NEW alive \in SUBSET Member, NEW l \in Member, NEW x \in Member, NEW p \in Member,
           NEW y \in alive, IsPreviousPeer(p, x, alive), Between(l, y, x)
    PROVE  y = p \/ (p # l /\ Between(l, y, p))
  <1>1. x \in alive /\ p # x /\ p \in LeftOf(x, alive) /\ \A z \in LeftOf(x, alive) : z =< p
    BY Zenon DEF IsPreviousPeer
  <1>2. l \in Nat /\ x \in Nat /\ p \in Nat /\ y \in Nat /\ \A z \in alive : z \in Nat
    BY MemberAssumption
  <1>3. CASE \A z \in alive : ~(z < x)
    <2>1. LeftOf(x, alive) = alive
      BY <1>3 DEF LeftOf
    <2>2. y =< p /\ ~(y < x) /\ ~(p < x)
      BY <1>1, <1>3, <2>1
    <2> QED BY <1>1, <1>2, <2>2 DEF Between
  <1>4. CASE \E z \in alive : z < x
    <2>1. LeftOf(x, alive) = {z \in alive : z < x}
      BY <1>4 DEF LeftOf
    <2>2. p < x /\ (y < x => y =< p)
      BY <1>1, <2>1
    <2> QED BY <1>2, <2>2 DEF Between
  <1> QED BY <1>3, <1>4

\* A follower whose turn has come: its previous peer, and so all between the
\* leader and it, have the version of the leader.
LEMMA TurnComes ==
    ASSUME Sane, Settled, NEW l \in Member, winner[0] = l, Versions(l), Turns(l),
           NEW x \in up, state[x] \in Following, ItsTurn(x)
    PROVE  /\ pkg[x] # pkg[l] /\ census[x].lead = l /\ census[x].pkg[l] = pkg[l]
           /\ Done(l, x)
  <1>1. TypeOK /\ up \subseteq Member /\ x \in Member /\ x # l
    BY Zenon DEF Sane, TypeOK, Settled
  <1>2. census[x].lead = l /\ census[x].pkg[l] # census[x].pkg[x]
    BY Zenon DEF ItsTurn, Settled
  <1>3. PICK p \in Member : /\ IsPreviousPeer(p, x, census[x].alive)
                            /\ census[x].pkg[p] = census[x].pkg[l]
    BY Zenon, <1>2 DEF ItsTurn
  <1>4. census[x].pkg[x] = pkg[x] /\ census[x].pkg[l] \in {pkg[x], pkg[l]}
    BY Zenon DEF Sane, Versions
  <1>5. census[x].pkg[l] = pkg[l] /\ pkg[x] # pkg[l]
    BY Zenon, <1>2, <1>4
  <1>6. pkg[p] = pkg[l]
    <2>1. census[x].pkg[p] =< pkg[p] /\ pkg[p] =< pkg[l]
      BY Zenon, <1>3, Bounded DEF Versions
    <2>2. pkg[p] \in Nat /\ pkg[l] \in Nat
      BY Zenon, <1>1, StoreTypes
    <2> QED BY <1>3, <1>5, <2>1, <2>2
  <1>7. ASSUME NEW y \in up, Between(l, y, x) PROVE pkg[y] = pkg[l]
    <2>1. y \in census[x].alive /\ census[x].alive \in SUBSET Member
      BY <1>1, Zenon DEF Settled, TypeOK, Census
    <2>2. y = p \/ (p # l /\ Between(l, y, p))
      BY SMTT(20), <1>1, <1>3, <1>7, <2>1, PreviousPeer
    <2>3. p # l => Done(l, p)
      BY Zenon, <1>6 DEF Turns
    <2> QED BY Zenon, <1>6, <2>2, <2>3 DEF Done
  <1> QED BY Zenon, <1>2, <1>5, <1>7 DEF Done

\* A follower that updates after the step, if the leader has not changed.
LEMMA UpdatesStep ==
    ASSUME Sane, Sane', Settled, NEW l \in Member, winner[0] = l, Versions(l), Turns(l), StoreStep,
           NEW x \in up', RoleStep(x), state'[x] = "FollowerUpdating", published'[l] = published[l]
    PROVE  /\ pkg[x] # pkg[l] /\ census'[x].pkg[l] = pkg[l] /\ Done(l, x)
           /\ worker'[x].at \in Busy => worker'[x].ident = pkg[l]
           /\ x # l
  <1>1. TypeOK /\ Stored /\ TypeOK' /\ Stored' /\ x \in up /\ x \in Member
    BY Zenon DEF Sane, TypeOK, StoreStep
  <1>2. state[x] = "FollowerUpdating" \/ (state[x] \in Following /\ ItsTurn(x))
    BY Zenon DEF RoleStep
  <1>3. x # l
    BY Zenon, <1>1, <1>2, RoleNames DEF Settled
  <1>4. pkg[x] # pkg[l] /\ census[x].lead = l /\ census[x].pkg[l] = pkg[l] /\ Done(l, x)
    <2>1. CASE state[x] = "FollowerUpdating"
      <3>1. census[x].lead # NoMember /\ census[x].lead \in {NoMember, winner[0]}
        BY Zenon, <1>1, <2>1 DEF Sane, UpdaterHasLeader, Live, Settled
      <3> QED BY Zenon, <1>1, <2>1, <3>1 DEF Turns, Updates, Live
    <2>2. CASE state[x] \in Following /\ ItsTurn(x)
      BY Zenon, <1>1, <2>2, TurnComes
    <2> QED BY <1>2, <2>1, <2>2, Zenon
  <1>5. census'[x].pkg[l] = pkg[l]
    <2>1. /\ known'[x][l] >= known[x][l] /\ known[x][l] \in Nat /\ known'[x][l] \in 1..Len(published[l])
          /\ Len(published[l]) \in Nat
          /\ census'[x].pkg[l] \in {census[x].pkg[l], published[l][known'[x][l]]}
      <3>1. /\ known'[x][l] >= known[x][l]
            /\ census'[x].pkg[l] \in {census[x].pkg[l], published'[l][known'[x][l]]}
        BY Zenon DEF StoreStep
      <3>2. known[x][l] \in Nat /\ Len(published[l]) \in Nat
        BY Zenon, <1>1, StoreTypes
      <3>3. known'[x][l] \in 1..Len(published'[l])
        BY Zenon, <1>1 DEF Stored
      <3> QED BY Zenon, <3>1, <3>2, <3>3
    <2>2. known'[x][l] \in known[x][l]..Len(published[l])
      BY <2>1
    <2>3. census[x].pkg[l] =< published[l][known'[x][l]] /\ published[l][known'[x][l]] =< pkg[l]
      BY Zenon, <1>1, <2>1, <2>2, Bounded
    <2>4. published[l][known'[x][l]] \in Nat /\ pkg[l] \in Nat
      BY Zenon, <1>1, <2>1, StoreTypes
    <2> QED BY <1>4, <2>1, <2>3, <2>4
  <1>6. ASSUME worker'[x].at \in Busy PROVE worker'[x].ident = pkg[l]
    <2>1. \/ worker'[x].ident = census[x].pkg[census[x].lead]
          \/ /\ state[x] = "FollowerUpdating" /\ worker[x].at \in Busy
             /\ worker[x].ident # Newest => worker'[x].ident = worker[x].ident
      BY Zenon, <1>6 DEF RoleStep
    <2>2. CASE worker'[x].ident = census[x].pkg[census[x].lead]
      BY Zenon, <1>4, <2>2
    <2>3. CASE /\ state[x] = "FollowerUpdating" /\ worker[x].at \in Busy
               /\ worker[x].ident # Newest => worker'[x].ident = worker[x].ident
      <3>1. worker[x].ident = pkg[l]
        BY Zenon, <1>1, <2>3 DEF Turns, Updates, Live, Busy
      <3>2. pkg[l] # Newest
        BY Zenon, <1>1, StoreTypes, Numbers
      <3> QED BY Zenon, <2>3, <3>1, <3>2
    <2> QED BY <2>1, <2>2, <2>3, Zenon
  <1> QED BY Zenon, <1>3, <1>4, <1>5, <1>6

\* When all live members agree, it is nobody's turn.
LEMMA NobodysTurn ==
    ASSUME Sane, Settled, NEW l \in Member, winner[0] = l, Versions(l), Turns(l),
           \A x \in up : pkg[x] = pkg[l],
           NEW x \in up, RoleStep(x)
    PROVE  state'[x] # "FollowerUpdating"
  <1> SUFFICES ASSUME state'[x] = "FollowerUpdating" PROVE FALSE
    BY Zenon
  <1>1. state[x] = "FollowerUpdating" \/ (state[x] \in Following /\ ItsTurn(x))
    BY Zenon DEF RoleStep
  <1>2. state[x] # "FollowerUpdating"
    BY Zenon DEF Turns, Updates, Live
  <1> QED BY Zenon, <1>1, <1>2, TurnComes

LEMMA TurnsStep ==
    ASSUME Sane, Sane', Settled, NEW l \in Member, winner[0] = l, Rolling(l), Evolves,
           Follows(l) \/ Leads(l)
    PROVE  Turns(l)'
  <1>1. /\ StoreStep /\ Versions(l) /\ Turns(l) /\ up' \subseteq up /\ up \subseteq Member
        /\ \A x \in up' : RoleStep(x)
    <2>1. StoreStep /\ Versions(l) /\ Turns(l) /\ \A x \in up' : RoleStep(x)
      BY Zenon DEF Evolves, Rolling
    <2> QED BY Zenon, <2>1 DEF StoreStep, Sane, TypeOK
  <1>2. CASE Follows(l)
    <2>1. /\ pkg'[l] = pkg[l] /\ published'[l] = published[l]
          /\ \A y \in Member : pkg[y] = pkg[l] => pkg'[y] = pkg[l]
      BY Zenon, <1>2 DEF Follows
    <2>2. ASSUME NEW x \in Member, Done(l, x) PROVE Done(l, x)'
      BY Zenon, <1>1, <2>1, <2>2 DEF Done
    <2>3. ASSUME NEW x \in up', state'[x] = "FollowerUpdating"
          PROVE  Updates(l, x)' /\ Done(l, x)'
      <3>1. /\ pkg[x] # pkg[l] /\ census'[x].pkg[l] = pkg[l] /\ Done(l, x)
            /\ worker'[x].at \in Busy => worker'[x].ident = pkg[l]
            /\ x # l
        BY ZenonT(20), <1>1, <2>1, <2>3, UpdatesStep
      <3>2. pkg'[x] # pkg[l]
        BY Zenon, <1>1, <1>2, <2>3, <3>1 DEF Follows
      <3> QED BY Zenon, <1>1, <2>1, <2>2, <3>1, <3>2 DEF Updates, Busy
    <2>4. ASSUME NEW x \in Member \ {l}, pkg'[x] = pkg'[l] PROVE Done(l, x)'
      <3>1. pkg[x] = pkg[l] \/ x \in Live("FollowerUpdating")
        BY Zenon, <1>2, <2>1, <2>4 DEF Follows
      <3> QED BY Zenon, <1>1, <2>2, <3>1 DEF Turns
    <2> QED BY Zenon, <2>3, <2>4 DEF Turns, Live
  <1>3. CASE Leads(l)
    <2>1. ASSUME NEW x \in up' PROVE state'[x] # "FollowerUpdating"
      <3>1. x \in up /\ \A y \in up : pkg[y] = pkg[l]
        BY Zenon, <1>1, <1>3 DEF Leads
      <3> QED BY ZenonT(20), <1>1, <3>1, NobodysTurn
    <2>2. ASSUME NEW x \in Member \ {l}, pkg'[x] = pkg'[l] PROVE Done(l, x)'
      <3>1. pkg'[x] = pkg[x] /\ pkg'[l] >= pkg[l] /\ pkg[x] =< pkg[l]
        BY Zenon, <1>1, <1>3 DEF Leads, Versions
      <3>2. pkg[x] \in Nat /\ pkg[l] \in Nat /\ pkg'[l] \in Nat
        BY Zenon, StoreTypes, StoreTypesPrimed DEF Sane
      <3>3. pkg'[l] = pkg[l]
        BY <2>2, <3>1, <3>2
      <3>4. \A y \in up : pkg'[y] = pkg'[l]
        BY Zenon, <1>1, <1>3, <3>3 DEF Leads
      <3> QED BY Zenon, <1>1, <3>4 DEF Done
    <2> QED BY Zenon, <2>1, <2>2 DEF Turns, Live
  <1> QED BY <1>2, <1>3

\* The leader polls only when all live members have its version.
LEMMA PollsStep ==
    ASSUME Sane, Sane', Settled, NEW l \in Member, winner[0] = l, Rolling(l), Evolves,
           Follows(l) \/ (Leads(l) /\ state'[l] # "LeaderPolling")
    PROVE  Polls(l)'
  <1> SUFFICES ASSUME l \in up', state'[l] = "LeaderPolling"
               PROVE  /\ \A x \in up' : pkg'[x] = pkg'[l] /\ state'[x] # "FollowerUpdating"
                      /\ worker'[l].at = "Installing" => worker'[l].ident = Newest
                      /\ worker'[l].at = "Sending" => worker'[l].ident > pkg'[l]
    BY Zenon DEF Polls, Live
  <1>1. /\ StoreStep /\ Versions(l) /\ Turns(l) /\ Polls(l) /\ up' \subseteq up /\ up \subseteq Member
        /\ \A x \in up' : RoleStep(x)
    <2>1. StoreStep /\ Versions(l) /\ Turns(l) /\ Polls(l) /\ \A x \in up' : RoleStep(x)
      BY Zenon DEF Evolves, Rolling
    <2> QED BY Zenon, <2>1 DEF StoreStep, Sane, TypeOK
  <1>2. Follows(l)
    OBVIOUS
  <1>3. RoleStep(l) /\ l \in up
    BY Zenon, <1>1
  <1>4. \/ worker'[l] = Install(Newest)
           /\ (state[l] = "LeaderPolling" \/ (state[l] \in Leading /\ AllAgree(l)))
        \/ state[l] = "LeaderPolling" /\ worker'[l] \in {worker[l], Dead}
        \/ /\ state[l] = "LeaderPolling" /\ worker[l].at = "Installing"
           /\ worker[l].ident = Newest => worker'[l].at = "Sending" /\ worker'[l].ident > pkg[l]
    BY Zenon, <1>3 DEF RoleStep
  <1>5. \A x \in up : pkg[x] = pkg[l]
    <2>1. CASE state[l] = "LeaderPolling"
      BY Zenon, <1>1, <1>3, <2>1 DEF Polls, Live
    <2>2. CASE AllAgree(l)
      <3> SUFFICES ASSUME NEW x \in up PROVE pkg[x] = pkg[l]
        BY Zenon
      <3>1. x \in Member /\ census[l].pkg[x] = census[l].pkg[l] /\ census[l].pkg[l] = pkg[l]
        BY Zenon, <1>1, <1>3, <2>2 DEF AllAgree, Sane
      <3>2. census[l].pkg[x] =< pkg[x] /\ pkg[x] =< pkg[l]
        BY Zenon, <1>1, <1>3, <3>1, Bounded DEF Versions
      <3>3. pkg[x] \in Nat /\ pkg[l] \in Nat
        BY Zenon, <3>1, StoreTypes DEF Sane
      <3> QED BY <3>1, <3>2, <3>3
    <2> QED BY Zenon, <1>4, <2>1, <2>2
  <1>6. \A x \in up' : state'[x] # "FollowerUpdating"
    BY ZenonT(20), <1>1, <1>5, NobodysTurn
  <1>7. pkg'[l] = pkg[l] /\ \A x \in up' : pkg'[x] = pkg[l]
    BY Zenon, <1>1, <1>2, <1>5 DEF Follows
  <1>8. /\ worker'[l].at = "Installing" => worker'[l].ident = Newest
        /\ worker'[l].at = "Sending" => worker'[l].ident > pkg[l]
    <2>1. CASE worker'[l] = Install(Newest)
      BY <2>1, Workers, Zenon
    <2>2. CASE state[l] = "LeaderPolling"
      <3>1. /\ worker[l].at = "Installing" => worker[l].ident = Newest
            /\ worker[l].at = "Sending" => worker[l].ident > pkg[l]
        BY Zenon, <1>1, <1>3, <2>2 DEF Polls, Live
      <3>2. CASE worker'[l] = Dead
        BY <3>2, Workers, Zenon
      <3>3. CASE worker'[l] = worker[l]
        BY Zenon, <3>1, <3>3
      <3>4. CASE worker[l].at = "Installing" /\ worker'[l].at = "Sending" /\ worker'[l].ident > pkg[l]
        BY <3>4, Zenon
      <3> QED BY Zenon, <1>4, <2>1, <3>1, <3>2, <3>3, <3>4
    <2> QED BY Zenon, <1>4, <2>1, <2>2
  <1> QED BY Zenon, <1>6, <1>7, <1>8

-----------------------------------------------------------------------------
(* The invariant and the theorems.                                          *)

LEMMA InitInv == Init => IInv
  <1> SUFFICES ASSUME Init PROVE IInv
    OBVIOUS
  <1>1. /\ up = Member /\ pkg = [m \in Member |-> 1] /\ state = [m \in Member |-> "AwaitingElection"]
        /\ worker = [m \in Member |-> Idle] /\ published = [m \in Member |-> <<1>>]
        /\ known = [m \in Member |-> [x \in Member |-> 1]]
        /\ health = [m \in Member |-> [x \in Member |-> "Alive"]]
        /\ election = [m \in Member |-> [term |-> 0, status |-> "None"]]
        /\ winner = [t \in Term |-> NoMember] /\ census = [m \in Member |-> FirstCensus]
        /\ news = [m \in Member |-> "none"] /\ latest = 1 /\ faults = 0 /\ doubts = 0
    BY Zenon DEF Init
  <1>2. 1 \in Version /\ 0 \in Term /\ 0 \in 0..MaxFaults /\ 0 \in 0..MaxDoubts /\ 1 \in Nat
    BY BoundsAssumption DEF Version, Term
  <1>3. FirstCensus \in Census
    BY <1>2 DEF FirstCensus, Census
  <1>4. <<1>> \in Seq(Version) /\ Len(<<1>>) = 1 /\ <<1>>[1] = 1 /\ 1 \in 1..1 /\ 1 >= 1
    BY <1>2
  <1>5. TypeOK
    <2>1. "AwaitingElection" \in State /\ "Alive" \in Health
      BY DEF State, Health
    <2>2. [term |-> 0, status |-> "None"] \in [term : Term, status : {"None", "Running", "Finished"}]
      BY <1>2
    <2>3. [x \in Member |-> "Alive"] \in [Member -> Health] /\ [x \in Member |-> 1] \in [Member -> Nat]
      BY <1>2, <2>1
    <2>4. published \in [Member -> Seq(Version)] /\ census \in [Member -> Census]
      BY <1>1, <1>3, <1>4
    <2> QED BY <1>1, <1>2, <2>1, <2>2, <2>3, <2>4, Workers, Zenon DEF TypeOK
  <1>6. Stored
    <2>1. \A m \in Member : worker[m].at # "Sending"
      BY <1>1, Workers, Zenon
    <2>2. \A m, x \in Member : pkg[x] = 1 /\ published[x] = <<1>> /\ known[m][x] = 1
      BY <1>1
    <2> QED BY <1>1, <1>4, <2>1, <2>2, Zenon DEF Stored
  <1>7. Elected
    BY <1>1, <1>2 DEF Elected, ElectionOK
  <1>8. UpdaterHasLeader /\ \A m \in up : census[m].pkg[m] = pkg[m]
    BY <1>1, Zenon DEF UpdaterHasLeader, Live, FirstCensus
  <1>9. Settled
    BY <1>1, <1>2, Zenon DEF Settled, FirstCensus, Leading, Following
  <1>10. Untouched /\ winner[0] = NoMember
    BY <1>1, <1>2 DEF Untouched, FirstCensus
  <1>11. \A l \in Member : winner[0] # l
    BY Zenon, <1>10, Numbers
  <1> QED BY Zenon, <1>5, <1>6, <1>7, <1>8, <1>9, <1>10, <1>11 DEF IInv, Sane

LEMMA NextInv == IInv /\ [Next]_vars => IInv'
  <1> SUFFICES ASSUME IInv, [Next]_vars PROVE IInv'
    OBVIOUS
  <1>1. CASE Next
    <2>1. Sane /\ Sane' /\ Evolves
      BY Zenon, <1>1, NextStep DEF IInv
    <2> SUFFICES ASSUME Calm'
                 PROVE  /\ Settled'
                        /\ winner'[0] = NoMember => Untouched'
                        /\ \A l \in Member : winner'[0] = l => Rolling(l)'
      BY Zenon, <2>1 DEF IInv
    <2>2. StoreStep /\ Calm
      BY Zenon, <2>1 DEF Evolves, StoreStep
    <2>3. /\ Settled /\ (winner[0] = NoMember => Untouched)
          /\ \A l \in Member : winner[0] = l => Rolling(l)
      BY Zenon, <2>2 DEF IInv
    <2>4. Settled'
      BY Zenon, <2>1, <2>3, SettledStep
    <2>5. winner'[0] = winner[0] \/ winner[0] = NoMember
      BY Zenon, <2>2, Numbers DEF StoreStep
    <2>6. winner[0] = NoMember => Untouched'
      BY Zenon, <2>1, <2>3, UntouchedStep
    <2>7. ASSUME NEW l \in Member, winner'[0] = l PROVE Rolling(l)'
      <3>1. CASE winner[0] = NoMember
        <4>1. ASSUME NEW n \in up' PROVE state'[n] \notin {"LeaderPolling", "FollowerUpdating"}
          <5>1. n \in up /\ RoleStep(n)
            BY Zenon, <2>1 DEF Evolves, StoreStep
          <5>2. state[n] \notin Leading \cup Following
            BY Zenon, <2>1, <2>3, <3>1, <5>1, NoRoles
          <5> QED BY Zenon, <5>1, <5>2, RoleNames DEF RoleStep
        <4>2. NobodyUpdates'
          BY Zenon, <4>1 DEF NobodyUpdates
        <4> QED BY Zenon, <2>1, <2>6, <3>1, <4>2, FirstWinnerPrimed DEF Begun
      <3>2. CASE winner[0] = l
        <4>1. Rolling(l) /\ Versions(l) /\ Turns(l)
          BY Zenon, <2>3, <3>2 DEF Rolling
        <4>2. Follows(l) \/ (Leads(l) /\ state'[l] # "LeaderPolling")
          BY Zenon, <2>1, <2>3, <3>2, <4>1, FollowsOrLeads
        <4>3. Versions(l)'
          BY Zenon, <2>1, <2>2, <4>1, <4>2, VersionsStep
        <4>4. Turns(l)'
          BY Zenon, <2>1, <2>3, <3>2, <4>1, <4>2, TurnsStep
        <4>5. Polls(l)'
          BY Zenon, <2>1, <2>3, <3>2, <4>1, <4>2, PollsStep
        <4> QED BY Zenon, <4>3, <4>4, <4>5 DEF Rolling
      <3> QED BY Zenon, <2>5, <2>7, <3>1, <3>2
    <2> QED BY Zenon, <2>4, <2>5, <2>6, <2>7
  <1>2. CASE UNCHANGED vars
    <2>1. UNCHANGED <<up, pkg, state, worker, published, known, health, election, winner,
                      census, latest, news, faults, doubts>>
      BY Zenon, <1>2 DEF vars
    <2>2. TypeOK' <=> TypeOK
      BY Zenon, <2>1 DEF TypeOK
    <2>3. (Stored' <=> Stored) /\ (Elected' <=> Elected)
      BY Zenon, <2>1 DEF Stored, Elected, ElectionOK
    <2>4. (UpdaterHasLeader' <=> UpdaterHasLeader) /\ (Calm' <=> Calm)
      BY Zenon, <2>1 DEF UpdaterHasLeader, Live, Calm
    <2>5. (Settled' <=> Settled) /\ (Untouched' <=> Untouched)
      BY Zenon, <2>1 DEF Settled, Untouched
    <2>6. ASSUME NEW l \in Member PROVE Rolling(l)' <=> Rolling(l)
      <3>1. Versions(l)' <=> Versions(l)
        BY Zenon, <2>1 DEF Versions
      <3>2. Turns(l)' <=> Turns(l)
        BY Zenon, <2>1 DEF Turns, Updates, Done, Live
      <3>3. Polls(l)' <=> Polls(l)
        BY Zenon, <2>1 DEF Polls, Live
      <3> QED BY Zenon, <3>1, <3>2, <3>3 DEF Rolling
    <2> QED BY Zenon, <2>1, <2>2, <2>3, <2>4, <2>5, <2>6 DEF IInv, Sane
  <1> QED BY <1>1, <1>2

\* The invariant holds throughout a rolling update.
LEMMA Invariance == Spec => []IInv
  BY InitInv, NextInv, PTL DEF Spec

\* The updaters, their workers and what they know of each other keep their types.
THEOREM UpdaterTypeCorrect == Spec => []TypeOK
  <1>1. IInv => TypeOK
    BY Zenon DEF IInv, Sane
  <1> QED BY <1>1, Invariance, PTL

\* A follower that updates always has a leader in its census to take the version
\* from: update_leader().unwrap() in Follower(Updating) does not panic.
THEOREM FollowersHaveLeader == Spec => []UpdaterHasLeader
  <1>1. IInv => UpdaterHasLeader
    BY Zenon DEF IInv, Sane
  <1> QED BY <1>1, Invariance, PTL

\* In a group of any size the followers update one at a time, behind their
\* previous peers, as long as the first leader stands and no health is wrong.
THEOREM UpdatesTakeTurns == Spec => []OneAtATime
  <1>1. ASSUME IInv, Calm, NEW m \in Live("FollowerUpdating"), NEW x \in Live("FollowerUpdating")
        PROVE  m = x
    <2>1. /\ m \in up /\ x \in up /\ state[m] = "FollowerUpdating" /\ state[x] = "FollowerUpdating"
          /\ up \subseteq Member /\ Settled
      BY Zenon, <1>1 DEF Live, IInv, Sane, TypeOK
    <2>2. winner[0] # NoMember /\ m # winner[0] /\ x # winner[0] /\ winner[0] \in Member
      <3>1. winner[0] \in Member \cup {NoMember}
        BY <1>1, Numbers, Zenon DEF IInv, Sane, TypeOK
      <3> QED BY Zenon, <2>1, <3>1, RoleNames DEF Settled
    <2> DEFINE l == winner[0]
    <2>3. Turns(l)
      BY Zenon, <1>1, <2>2 DEF IInv, Rolling
    <2>4. ~Between(l, m, x) /\ ~Between(l, x, m)
      BY Zenon, <1>1, <2>1, <2>3 DEF Turns, Updates, Done
    <2>5. l \in Nat /\ m \in Nat /\ x \in Nat
      BY <2>1, <2>2, MemberAssumption, ZenonT(40)
    <2> HIDE DEF l
    <2> QED BY <2>2, <2>4, <2>5 DEF Between, l
  <1>2. IInv => OneAtATime
    BY Zenon, <1>1 DEF OneAtATime
  <1> QED BY <1>2, Invariance, PTL

\* Under the same conditions the leader looks for the next version only when all
\* live members run the last one.
THEOREM LeaderPollsLast == Spec => []PollsWhenAgreed
  <1>1. ASSUME IInv, Calm, NEW m \in Live("LeaderPolling"), NEW x \in up
        PROVE  pkg[x] = pkg[m] /\ state[x] # "FollowerUpdating"
    <2>1. m \in up /\ state[m] = "LeaderPolling" /\ m \in Member /\ Settled
      BY Zenon, <1>1 DEF Live, IInv, Sane, TypeOK
    <2>2. winner[0] = m
      BY Zenon, <2>1, RoleNames DEF Settled
    <2> QED BY Zenon, <1>1, <2>1, <2>2 DEF IInv, Rolling, Polls
  <1>2. IInv => PollsWhenAgreed
    BY Zenon, <1>1 DEF PollsWhenAgreed
  <1> QED BY <1>2, Invariance, PTL
==============================================================================
