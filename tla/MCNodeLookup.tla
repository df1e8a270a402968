---------------------------- MODULE MCNodeLookup ----------------------------
(* Instances of NodeLookup for TLC. *)
EXTENDS NodeLookup

CONSTANTS self, other, far, last

\* IDs, the low order bit first.  last is an old address of far.
MCIdOf == [c \in Contact |->
    CASE c = self  -> <<0, 0, 0>>
      [] c = other -> <<0, 1, 0>>
      [] c \in {far, last} -> <<0, 1, 1>>]
MCNet == [c \in Contact |-> IF c = last THEN 2 ELSE 1]
MCFrom == [c \in Contact |-> IF c = last THEN far ELSE c]
MCTarget == <<0, 1, 0>>

\* Answers of every kind, the one from an old address that lists it included.
MCLists == [c \in Contact |-> {L \in SUBSET Contact : Cardinality(L) <= K_SIZE}]
=============================================================================
