-------------------------------- MODULE MCBus --------------------------------
(* Instances of Bus for TLC. *)
EXTENDS Bus

CONSTANTS a, b, c1, c2

\* a asks b twice; b's answers make it shake hands with a as well.
MCFrom == [c \in Call |-> a]
MCTo == [c \in Call |-> b]
=============================================================================
