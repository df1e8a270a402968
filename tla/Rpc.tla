--------------------------------- MODULE Rpc ---------------------------------
(***************************************************************************)
(* What Io (src/src/protocol/io.js) promises the modules that send         *)
(* requests: of the success and the timeout callback of a request one is   *)
(* called, and once; success means that the peer served this request.      *)
(* A request may be served more than once, or after its timeout.           *)
(*                                                                         *)
(* A process that restarts forgets its calls and numbers anew, and may     *)
(* take the answer to a call of its past for that of a later one.          *)
(***************************************************************************)
CONSTANT
    Call        \* the requests that are sent

VARIABLES
    outcome,    \* of each Call: "none", "open", "success", "timeout", "forgotten"
    served,     \* the Calls that the peer has handled
    past        \* the Calls that were made before the last restart of the caller

vars == <<outcome, served, past>>

Init ==
    /\ outcome = [c \in Call |-> "none"]
    /\ served = {}
    /\ past = {}

Ask(c) ==
    /\ outcome[c] = "none"
    /\ outcome' = [outcome EXCEPT ![c] = "open"]
    /\ UNCHANGED <<served, past>>

Serve(c) ==
    /\ outcome[c] # "none"
    /\ served' = served \cup {c}
    /\ UNCHANGED <<outcome, past>>

Succeed(c) ==
    /\ outcome[c] = "open"
    /\ \E d \in served : d = c \/ d \in past
    /\ outcome' = [outcome EXCEPT ![c] = "success"]
    /\ UNCHANGED <<served, past>>

TimeOut(c) ==
    /\ outcome[c] = "open"
    /\ outcome' = [outcome EXCEPT ![c] = "timeout"]
    /\ UNCHANGED <<served, past>>

\* D are the calls of one process.
Forget(D) ==
    /\ outcome' = [c \in Call |->
           IF c \in D /\ outcome[c] = "open" THEN "forgotten" ELSE outcome[c]]
    /\ past' = past \cup {c \in D : outcome[c] # "none"}
    /\ UNCHANGED served

Next ==
    \/ \E c \in Call : Ask(c) \/ Serve(c) \/ Succeed(c) \/ TimeOut(c)
    \/ \E D \in SUBSET Call : Forget(D)

Spec == Init /\ [][Next]_vars
=============================================================================
