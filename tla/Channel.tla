------------------------------- MODULE Channel -------------------------------
(***************************************************************************)
(* What Passerby's transport promises the protocol layer above it          *)
(* (src/src/transport/transport.js: send(msg, rinfo, ttl) and the          *)
(* "message" event of recv): whatever a peer is handed as a message from   *)
(* another peer is, byte for byte, something that peer sent it.  A message *)
(* may be handed over late, more than once, or never.                      *)
(***************************************************************************)
CONSTANTS
    Peer,   \* the network endpoints (address:port)
    Data    \* the byte strings that can be sent

VARIABLES
    sent,      \* <<from, to, data>> for every call of send
    delivered  \* <<from, to, data>> for every "message" event

vars == <<sent, delivered>>

Init ==
    /\ sent = {}
    /\ delivered = {}

Send(p, q, d) ==
    /\ sent' = sent \cup {<<p, q, d>>}
    /\ UNCHANGED delivered

Deliver(x) ==
    /\ x \in sent
    /\ delivered' = delivered \cup {x}
    /\ UNCHANGED sent

Next ==
    \/ \E p, q \in Peer, d \in Data : Send(p, q, d)
    \/ \E x \in sent : Deliver(x)

Spec == Init /\ [][Next]_vars
==============================================================================
