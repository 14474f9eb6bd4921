------------------------------- MODULE MCSwim -------------------------------
(* Instances of Swim for TLC. *)
EXTENDS Swim

\* Member 1 has no initial member, the others start with it.
MCSeed == [n \in Node |-> IF n = 1 THEN None ELSE 1]
MCNoBound == [n \in Node |-> None]
MCOneRound == [n \in Node |-> 1]
MCFirstProbes == [n \in Node |-> IF n = 1 THEN 2 ELSE 0]
MCFirstKeepsProbing == [n \in Node |-> IF n = 1 THEN None ELSE 0]

=============================================================================
