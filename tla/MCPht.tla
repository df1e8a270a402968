------------------------------- MODULE MCPht -------------------------------
(***************************************************************************)
(* Instances of Pht.  Four bits stand for the eighty of the code: enough   *)
(* for splits of one, two and three levels and both parities of a label's  *)
(* length.                                                                 *)
(***************************************************************************)
EXTENDS Pht

Bits(n) == <<(n \div 8) % 2, (n \div 4) % 2, (n \div 2) % 2, n % 2>>
K(n, m) == [integral |-> Bits(n), meta |-> m]
Rect(lo, hi) == [min |-> Bits(lo), max |-> Bits(hi)]

\* Keys that a common prefix of at most three bits tells apart.
Spread == {K(1, "a"), K(2, "a"), K(6, "a"), K(9, "a"), K(14, "a")}

\* One key of each quadrant, all of them around the middle of the plane: with
\* B = 2 every split is one level deep.
Apart == {K(3, "a"), K(6, "a"), K(9, "a"), K(12, "a")}

\* Keys of three leaves, up to three levels deep: merges climb.
Three == {K(1, "a"), K(2, "a"), K(9, "a")}

\* The plane without its far edges, the lower left quadrant and a square around
\* the middle of the plane.
Queries == {Rect(0, 15), Rect(0, 12), Rect(3, 15)}
\* A quadrant, and a cell of it.
Cell == {Rect(0, 12), Rect(0, 3)}

CONSTANTS c1, c2

Querying == [c \in Client |-> {"insert", "range"}]
\* c1 inserts and deletes, c2 reads.
UpdaterAndReader == [c \in Client |-> IF c = c1 THEN {"insert", "delete"} ELSE {"range"}]
\* c1 writes and c2 reads.
WriterAndReader == [c \in Client |-> IF c = c1 THEN {"insert"} ELSE {"range"}]

\* Bounds on calls.
FiveCalls == [c \in Client |-> 5]
ThreeCalls == [c \in Client |-> 3]
ReaderOnce == [c \in Client |-> IF c = c1 THEN 5 ELSE 1]
=============================================================================
