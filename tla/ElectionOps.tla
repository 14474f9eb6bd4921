---------------------------- MODULE ElectionOps ----------------------------
(***************************************************************************)
(* The election rumor of a service group and how two of them are merged    *)
(* (components/butterfly/src/rumor/election.rs).  Member ids are integers, *)
(* which have the total order the code takes from strings.  The votes are  *)
(* a set: insert_vote never pushes an id twice, and the order of the list  *)
(* only matters to ==, where two tallies that differ in order alone count  *)
(* as different and the rumor is shared once more than it is here.         *)
(***************************************************************************)
EXTENDS Integers

Status == {"Running", "NoQuorum", "Finished"}

ElectionOf(Id) ==
    [member : Id, suitability : Nat, votes : SUBSET Id, status : Status, term : Nat]

\* Election::new followed by set_term: a candidate votes for itself.
NewElection(id, suit, term, status) ==
    [member |-> id, suitability |-> suit, votes |-> {id}, status |-> status, term |-> term]

IsFinished(e) == e.status = "Finished"

StealVotes(e, from) == [e EXCEPT !.votes = @ \cup from.votes]

\* Whether a keeps the election when it meets b in a comparable term.
Outranks(a, b) ==
    \/ a.suitability > b.suitability
    \/ a.suitability = b.suitability /\ a.member >= b.member

\* The first conditions of merge, in the order the code tests them.
TakesWinner(self, other) == other.term >= self.term /\ IsFinished(other)
AlreadyDecided(self, other) ==
    self.term = other.term /\ IsFinished(self) /\ ~IsFinished(other)

\* Mutant: the votes follow the weaker candidate.
Merged_WeakerWins(self, other) ==
    IF TakesWinner(self, other) THEN other
    ELSE IF AlreadyDecided(self, other) \/ self.term > other.term THEN self
    ELSE IF Outranks(self, other) THEN StealVotes(other, self)
    ELSE StealVotes(self, other)

\* What merge leaves in self.
Merged(self, other) ==
    IF TakesWinner(self, other) THEN other
    ELSE IF AlreadyDecided(self, other) \/ self.term > other.term THEN self
    ELSE IF Outranks(self, other) THEN StealVotes(self, other)
    ELSE StealVotes(other, self)

\* Mutant: stolen votes are not news.
MergeShares_OnlyWhenTaken(self, other) ==
    self # other /\ ~AlreadyDecided(self, other) /\ Merged(self, other).member # self.member

\* What merge returns: whether the rumor is to be shared again.
MergeShares(self, other) == self # other /\ ~AlreadyDecided(self, other)

=============================================================================
