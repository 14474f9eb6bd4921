----------------------------- MODULE MCElection -----------------------------
EXTENDS Election
\* The hook of Supervisor 1 makes it the most suitable, against the id order.
MCSuitability == [s \in Server |-> IF s = 1 THEN 1 ELSE 0]
MCNoPair == {}
MCAnyPair == {p \in Server \X Server : p[1] # p[2]}
\* The strongest candidate is wrong about another, or another about it.
MCStrongest == {p \in MCAnyPair : 1 \in {p[1], p[2]}}
\* The two strongest candidates lose sight of each other.
MCRivals == {<<1, 3>>, <<3, 1>>}
=============================================================================
