----------------------------- MODULE MCDhtNode -----------------------------
(* Instances of DhtNode for TLC. *)
EXTENDS DhtNode

CONSTANTS self, near, far, k1, k2, v1

\* IDs, the low order bit first.
MCIdOf == [c \in Contact |->
    CASE c = self -> <<0, 0, 0>>
      [] c = near -> <<0, 0, 1>>
      [] c = far  -> <<1, 0, 0>>]
MCKeyId == [k \in Key |-> IF k = k1 THEN <<0, 0, 0>> ELSE <<1, 1, 0>>]
=============================================================================
