------------------------------- MODULE MCPbft -------------------------------
(* Instances of Pbft for TLC.  n1 is always a client. *)
EXTENDS Pbft

CONSTANTS n1, n2, n3, n4, v1, write, read

MCClientOf == [c \in Call |-> n1]
MCOpOf == [c \in Call |-> IF c = read THEN <<"READ">> ELSE <<"WRITE", v1>>]

\* The read is called after the write.
Later == [c \in Call |-> IF c = read THEN 2 ELSE 1]

Two == {<<n1, n2>>}
Four == {<<n1, n2, n3, n4>>}

\* Lookups that disagree about the primary, about who is a replica, and so
\* about f.
Disagreeing == {<<n1, n2, n3, n4>>, <<n2, n1>>}
=============================================================================
