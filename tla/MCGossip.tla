------------------------------ MODULE MCGossip ------------------------------
EXTENDS Gossip

\* The first key is the service of Supervisor 1, another one that of 2.
MCAuthor == [k \in Key |-> IF k = "k1" THEN 1 ELSE 2]
=============================================================================
