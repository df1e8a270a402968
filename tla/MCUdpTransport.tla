--------------------------- MODULE MCUdpTransport ---------------------------
(* Instances of UdpTransport for TLC. *)
EXTENDS UdpTransport

CONSTANTS peerA, peerB, small, big, huge

\* SLICE_SZ is 2 in every instance: small is one slice, big two, huge three.
MCByteLen == [m \in Msg |-> IF m = huge THEN 5 ELSE IF m = big THEN 3 ELSE 1]

\* The hash keeps the contents apart.
MCChecksum == [m \in Msg |-> m]

\* Chunks of different lengths, to one peer.
OneWay == {<<peerA, peerB, small>>, <<peerA, peerB, big>>}
\* The same and a chunk of MAX_SLICES slices, when that is 3.
AndHuge == OneWay \cup {<<peerA, peerB, huge>>}
=============================================================================
