--------------------------------- MODULE Bus ---------------------------------
(***************************************************************************)
(* The message bus of every node: requests with their timers and answers   *)
(* (protocol/io.js), the sessions that messages wait for                   *)
(* (protocol/protocol.js, protocol/handshake.js) and the numbers that tie  *)
(* an answer to its request (protocol/codec.js).                           *)
(*                                                                         *)
(* Below is the transport: what was sent may be received late, again, or   *)
(* never, so transit only grows.  Every promise that a callback settles is *)
(* followed to its end in the same step: nothing else runs in between.     *)
(***************************************************************************)
EXTENDS Integers, FiniteSets

CONSTANTS
    Node,
    Call,           \* the requests that the modules above send
    From, To,       \* the node that makes a Call, and the one it asks
    GEN_MAX,        \* the largest number
    MaxRestarts,    \* bound: restarts of all nodes together
    None            \* no Call

ASSUME BusAssumption ==
    /\ From \in [Call -> Node]
    /\ To \in [Call -> Node]
    /\ GEN_MAX \in Nat \ {0}
    /\ MaxRestarts \in Nat
    /\ None \notin Call

VARIABLES
    generation, \* _generation of each node
    listening,  \* the once-listeners of each node, each with its timer
    sessions,   \* "none", "shaking" (a promise) or "up", for each node and peer
    waiting,    \* the messages of each node that wait for a session
    transit,    \* everything that was ever given to the transport
    outcome,    \* history: what became of each Call
    served,     \* history: the Calls that a handler ran for
    past,       \* history: the Calls made before the last restart of the caller
    restarts

vars == <<generation, listening, sessions, waiting, transit, outcome, served, past, restarts>>

-----------------------------------------------------------------------------
\* Numbers.

\* Codec.GEN_MIN is not exported, and so undefined.  A number stands for it that
\* is neither a request's nor an answer's.
Undefined == -GEN_MAX - 1

\* Mutant of next_gen: it goes on beyond the width of the field.
next_gen_NoLimit(g) == IF g # Undefined THEN g + 1 ELSE Undefined

\* undefined < GEN_MAX is false as well.
next_gen(g) == IF g # Undefined /\ g < GEN_MAX THEN g + 1 ELSE Undefined

\* undefined > 0 is false.
is_gen_req(g) == g > 0

get_gen_res(g) == -g

\* write_int32be puts down undefined as 0, and any number as it is.
OnWire(g) == IF g = Undefined THEN 0 ELSE g

\* The Handshake's messages, and those of all other modules.
MSG_TYPE == {"HANDSHAKE", "DHT"}

Gen == -GEN_MAX .. GEN_MAX
Message == [type : MSG_TYPE, src : Node, dst : Node, gen : Gen, call : Call \cup {None}]

\* Whose success callback a listener calls: a Call's, or Handshake.begin's.
Listener == [type : MSG_TYPE, peer : Node, gen : 1 .. GEN_MAX, call : Call \cup {None}]

HELLO(n, p, g) == [type |-> "HANDSHAKE", src |-> n, dst |-> p, gen |-> OnWire(g), call |-> None]

\* Io.send: listeners only for what is_gen_req takes for a request.
Listeners(type, p, g, c) ==
    IF is_gen_req(g) THEN {[type |-> type, peer |-> p, gen |-> g, call |-> c]} ELSE {}

-----------------------------------------------------------------------------
Init ==
    /\ generation = [n \in Node |-> 0]
    /\ listening = [n \in Node |-> {}]
    /\ sessions = [n \in Node |-> [p \in Node |-> "none"]]
    /\ waiting = [n \in Node |-> {}]
    /\ transit = {}
    /\ outcome = [c \in Call |-> "none"]
    /\ served = {}
    /\ past = {}
    /\ restarts = 0

\* Mutant of Established: a handshake that was begun is enough.
Established_Begun(n, p) == sessions[n][p] # "none"

Established(n, p) == sessions[n][p] = "up"

\* send_secure for a message of node n that is no handshake.  g and ls are the
\* node's number and listeners as Io.send left them.
send_secure(n, m, g, ls) ==
    \/ /\ Established(n, m.dst)
       /\ transit' = transit \cup {m}
       /\ generation' = [generation EXCEPT ![n] = g]
       /\ listening' = [listening EXCEPT ![n] = ls]
       /\ UNCHANGED <<sessions, waiting>>
    \/ /\ ~Established(n, m.dst)
       /\ sessions[n][m.dst] = "shaking"
       /\ waiting' = [waiting EXCEPT ![n] = @ \cup {m}]
       /\ generation' = [generation EXCEPT ![n] = g]
       /\ listening' = [listening EXCEPT ![n] = ls]
       /\ UNCHANGED <<sessions, transit>>
    \/ /\ sessions[n][m.dst] = "none"
       /\ LET h == next_gen(g)      \* Handshake.begin
          IN  /\ generation' = [generation EXCEPT ![n] = h]
              /\ listening' = [listening EXCEPT
                                   ![n] = ls \cup Listeners("HANDSHAKE", m.dst, h, None)]
              /\ transit' = transit \cup {HELLO(n, m.dst, h)}
       /\ sessions' = [sessions EXCEPT ![n][m.dst] = "shaking"]
       /\ waiting' = [waiting EXCEPT ![n] = @ \cup {m}]

\* A module sends a request.
Request(c) ==
    LET n == From[c]
        p == To[c]
        g == next_gen(generation[n])
    IN  /\ outcome[c] = "none"
        /\ send_secure(n, [type |-> "DHT", src |-> n, dst |-> p, gen |-> OnWire(g), call |-> c],
                       g, listening[n] \cup Listeners("DHT", p, g, c))
        /\ outcome' = [outcome EXCEPT ![c] = "open"]
        /\ UNCHANGED <<served, past, restarts>>

\* A request of a peer comes in, and its handler answers.
OnRequest(m) ==
    /\ m.type = "DHT"
    /\ is_gen_req(m.gen)
    /\ send_secure(m.dst, [m EXCEPT !.src = m.dst, !.dst = m.src, !.gen = get_gen_res(m.gen)],
                   generation[m.dst], listening[m.dst])
    /\ served' = served \cup {m.call}
    /\ UNCHANGED <<outcome, past, restarts>>

\* A HELLO comes in.  Its answer does not wait for a session.
OnHello(m) ==
    /\ m.type = "HANDSHAKE"
    /\ is_gen_req(m.gen)
    /\ transit' = transit \cup {HELLO(m.dst, m.src, get_gen_res(m.gen))}
    /\ UNCHANGED <<generation, listening, sessions, waiting, outcome, served, past, restarts>>

\* The listeners under the label of an answer.
Heard(m) ==
    {l \in listening[m.dst] :
        l.type = m.type /\ l.peer = m.src /\ get_gen_res(l.gen) = m.gen}

\* Mutant of Unheard: the timer and its listener stay.
Unheard_Stay(n, L) == listening[n]

\* What is left when a listener was called, or removed by its timer.
Unheard(n, L) == listening[n] \ L

\* The answer to a request: its success callback.
OnAnswer(m) ==
    /\ m.type = "DHT"
    /\ \E l \in Heard(m) :
          /\ listening' = [listening EXCEPT ![m.dst] = Unheard(m.dst, {l})]
          /\ outcome' = [outcome EXCEPT ![l.call] =
                             IF @ = "open" THEN "success" ELSE "twice"]
    /\ UNCHANGED <<generation, sessions, waiting, transit, served, past, restarts>>

\* The messages of node n that wait for a session with p.
WaitingFor(n, p) == {m \in waiting[n] : m.dst = p}

\* The answer to a HELLO: what waits for the session is sent.
OnHelloAnswer(m) ==
    LET n == m.dst
        p == m.src
    IN  /\ m.type = "HANDSHAKE"
        /\ \E l \in Heard(m) : listening' = [listening EXCEPT ![n] = Unheard(n, {l})]
        /\ sessions' = [sessions EXCEPT ![n][p] = "up"]
        /\ transit' = transit \cup WaitingFor(n, p)
        /\ waiting' = [waiting EXCEPT ![n] = @ \ WaitingFor(n, p)]
        /\ UNCHANGED <<generation, outcome, served, past, restarts>>

\* Mutant of AfterTimer: the timer removes the listener and rejects nothing.
AfterTimer_NoReject(o) == o

AfterTimer(o) == IF o = "open" THEN "timeout" ELSE "twice"

\* The time of a request is over.
Timeout(n, l) ==
    /\ l \in listening[n]
    /\ l.type = "DHT"
    /\ listening' = [listening EXCEPT ![n] = Unheard(n, {l})]
    /\ outcome' = [outcome EXCEPT ![l.call] = AfterTimer(@)]
    /\ UNCHANGED <<generation, sessions, waiting, transit, served, past, restarts>>

\* Mutant of AfterFailure: the promise that failed stays in the map.
AfterFailure_Kept == "shaking"

AfterFailure == "none"

\* The time of a HELLO is over: what waits for the session is dropped.
HelloTimeout(n, l) ==
    /\ l \in listening[n]
    /\ l.type = "HANDSHAKE"
    /\ listening' = [listening EXCEPT ![n] = Unheard(n, {l})]
    /\ sessions' = [sessions EXCEPT ![n][l.peer] = AfterFailure]
    /\ waiting' = [waiting EXCEPT ![n] = @ \ WaitingFor(n, l.peer)]
    /\ UNCHANGED <<generation, transit, outcome, served, past, restarts>>

CallsOf(n) == {c \in Call : From[c] = n}

\* The process ends and starts anew.
Restart(n) ==
    /\ restarts < MaxRestarts
    /\ restarts' = restarts + 1
    /\ generation' = [generation EXCEPT ![n] = 0]
    /\ listening' = [listening EXCEPT ![n] = {}]
    /\ sessions' = [sessions EXCEPT ![n] = [p \in Node |-> "none"]]
    /\ waiting' = [waiting EXCEPT ![n] = {}]
    /\ outcome' = [c \in Call |->
           IF c \in CallsOf(n) /\ outcome[c] = "open" THEN "forgotten" ELSE outcome[c]]
    /\ past' = past \cup {c \in CallsOf(n) : outcome[c] # "none"}
    /\ UNCHANGED <<transit, served>>

Next ==
    \/ \E c \in Call : Request(c)
    \/ \E m \in transit : OnRequest(m)
    \/ \E m \in transit : OnHello(m)
    \/ \E m \in transit : OnAnswer(m)
    \/ \E m \in transit : OnHelloAnswer(m)
    \/ \E n \in Node : \E l \in listening[n] : Timeout(n, l)
    \/ \E n \in Node : \E l \in listening[n] : HelloTimeout(n, l)
    \/ \E n \in Node : Restart(n)

Spec == Init /\ [][Next]_vars

\* The timers of a process that runs go off.
Fairness ==
    /\ \A n \in Node : \A l \in Listener : WF_vars(Timeout(n, l))
    /\ \A n \in Node : \A l \in Listener : WF_vars(HelloTimeout(n, l))

FairSpec == Spec /\ Fairness

-----------------------------------------------------------------------------
\* The state variables hold what their comments say.
TypeOK ==
    /\ generation \in [Node -> 0 .. GEN_MAX \cup {Undefined}]
    /\ \A n \in Node : listening[n] \subseteq Listener
    /\ sessions \in [Node -> [Node -> {"none", "shaking", "up"}]]
    /\ \A n \in Node : waiting[n] \subseteq Message
    /\ transit \subseteq Message
    /\ outcome \in [Call -> {"none", "open", "success", "timeout", "forgotten"}]
    /\ served \subseteq Call
    /\ past \subseteq Call
    /\ restarts \in 0 .. MaxRestarts

\* No message but a handshake's is given to the transport before the peer has
\* answered a HELLO (protocol.js:134-137), whatever restarted or timed out.
SecureFirst ==
    \A m \in transit : m.type = "DHT" =>
        \E h \in transit : /\ h.type = "HANDSHAKE" /\ h.gen < 0
                           /\ h.src = m.dst /\ h.dst = m.src

\* Messages wait only while a handshake runs that an answer or a timer ends,
\* unless the node's numbers have run out.
NothingStuck ==
    \A n, p \in Node :
        /\ WaitingFor(n, p) # {} => sessions[n][p] = "shaking"
        /\ sessions[n][p] = "shaking" =>
              \/ generation[n] = Undefined
              \/ \E l \in listening[n] : l.type = "HANDSHAKE" /\ l.peer = p

\* One of the two callbacks of a request is called, once, and success only for
\* an answer to this request or, after a restart, to one with its number.
Calls == INSTANCE Rpc
ImplementsRpc == Calls!Spec

\* The callback of a request is called at last, if the process lives and had
\* a number for it.
Numbered(c) == \E l \in listening[From[c]] : l.call = c
EveryCallSettles ==
    \A c \in Call : Numbered(c) ~> outcome[c] \in {"success", "timeout", "forgotten"}
=============================================================================
