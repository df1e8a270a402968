-------------------------------- MODULE Pbft --------------------------------
(***************************************************************************)
(* Consensus on the operations of the replicated database                  *)
(* (src/src/consensus, with src/src/psm and src/src/repman): a client      *)
(* sends a REQUEST to the primary replica of the operation's key, the      *)
(* primary multicasts a PRE_PREPARE, the replicas exchange PREPAREs and    *)
(* COMMITs, execute the operation and REPLY to the client.                 *)
(*                                                                         *)
(* Every handler suspends at most once, at its first statement (await      *)
(* fetch_r), before it reads any state; so a handler is one action, taken  *)
(* when it resumes, and the suspension is part of the message's delay.     *)
(* (commit.js awaits Psm.exec too, whose body has run by then: that only   *)
(* delays the REPLY.)                                                      *)
(* Predicates never look at the sender of a message: the network is a bag  *)
(* of messages without senders.  All operations are on one key; operations *)
(* on different keys share only the sequence number.                       *)
(***************************************************************************)
EXTENDS Naturals, Sequences, FiniteSets

CONSTANTS
    Node,         \* DHT nodes; each is a client and may be a replica
    Call,         \* the calls of Pbft.request
    ClientOf,     \* [Call -> Node]
    OpOf,         \* [Call -> Op], the instruction
    TimeOf,       \* [Call -> milliseconds], Date.now() at the call
    ReplicaSets,  \* what fetch_r may resolve to: non-empty sequences of nodes
    Value,        \* the values written
    NoValue,      \* what a READ of an absent key returns
    H,            \* high water mark of the sequence numbers
    MaxCount,     \* bound: log counters stop here, above every threshold
    MaxCopies,    \* bound: copies of one message under way at a time
    MaxCommits,   \* bound: copies of one COMMIT under way at a time
    MaxDuplicated,\* bound: messages the network duplicates
    MaxLost,      \* bound: messages the network loses
    MaxCrashed,   \* bound: nodes that stop for good
    Offline       \* nodes that are contacts of others but do not run

compute_f(r) == (Len(r) - 1) \div 3

Op == {<<"READ">>} \cup ({"WRITE"} \X Value)

ASSUME ConstantsAssumption ==
    /\ IsFiniteSet(Node)
    /\ ClientOf \in [Call -> Node]
    /\ OpOf \in [Call -> Op]
    /\ TimeOf \in [Call -> Nat]
    /\ ReplicaSets \subseteq Seq(Node) \ {<<>>}
    /\ NoValue \notin Value
    /\ H \in Nat
    /\ MaxCount \in Nat
    /\ \A r \in ReplicaSets : 2 * compute_f(r) + 1 <= MaxCount
    /\ MaxCopies \in Nat \ {0}
    /\ MaxCommits \in Nat \ {0}
    /\ Offline \subseteq Node
    /\ MaxDuplicated \in Nat /\ MaxLost \in Nat /\ MaxCrashed \in Nat

VARIABLES
    alive,       \* the nodes that run
    net,         \* [Message -> Nat], how many of each are under way
    call,        \* [Call -> "idle", "waiting" or "resolved"]
    f_of,        \* [Call -> Nat], f of the replica set the client fetched
    tally,       \* [Call -> [Result -> Nat]], replica_replies
    listening,   \* [Call -> BOOLEAN], is its reply listener installed?
    answer,      \* [Call -> what the promise resolved to]
    log,         \* [Node -> [Digest -> Op entry]]
    _n,          \* [Node -> Nat], sequence number
    store,       \* [Node -> Value or NoValue]
    \* history
    before,      \* [Call -> the calls answered when it was made]
    history,     \* [Node -> Seq(Digest)], operations executed, in order
    replies,     \* <<node, digest, result>> of every operation executed
    preparers,   \* [Digest -> nodes that multicast PREPARE]
    committers,  \* [Digest -> nodes that multicast COMMIT]
    faults       \* [dup, lost, crashed |-> number so far]

clientVars == <<call, f_of, tally, listening, answer>>
replicaVars == <<log, _n, store>>
historyVars == <<before, history, replies, preparers, committers>>
vars == <<alive, net, call, f_of, tally, listening, answer, log, _n, store,
          before, history, replies, preparers, committers, faults>>

-----------------------------------------------------------------------------
\* A request is identified by its digest: the hash of client, operation and
\* timestamp.
DigestOf(c) == [c |-> ClientOf[c], o |-> OpOf[c], t |-> TimeOf[c]]

Digest == {DigestOf(c) : c \in Call}

Result == {TRUE, NoValue} \cup Value

Message ==
    [type : {"REQUEST", "PREPARE", "COMMIT"}, dst : Node, d : Digest]
        \cup [type : {"PRE_PREPARE"}, dst : Node, d : Digest, n : 0 .. H]
        \cup [type : {"REPLY"}, dst : Node, t : {TimeOf[c] : c \in Call}, r : Result]

NoneUnderWay == [m \in Message |-> 0]

\* Log.append creates the entry of a digest on the first message about it.
EmptyEntry == [pre |-> <<>>, prepares |-> 0, commits |-> 0, committed_local |-> FALSE]

\* r[v % r.length] with the view v, which nothing ever changes from 0.
Primary(r) == r[1]

Members(r) == {r[i] : i \in 1 .. Len(r)}

Capped(k, max) == IF k > max THEN max ELSE k

\* One message more of each in M, and one fewer of m.
Capacity(x) == IF x.type = "COMMIT" THEN MaxCommits ELSE MaxCopies

Plus(M) == [x \in Message |-> Capped(net[x] + (IF x \in M THEN 1 ELSE 0), Capacity(x))]

Replace(m, M) ==
    [x \in Message |-> Capped(net[x] - (IF x = m THEN 1 ELSE 0)
                                     + (IF x \in M THEN 1 ELSE 0), Capacity(x))]

_multicast(r, type, d) == {[type |-> type, dst |-> q, d |-> d] : q \in Members(r)}

-----------------------------------------------------------------------------
Init ==
    /\ alive = Node \ Offline
    /\ net = NoneUnderWay
    /\ call = [c \in Call |-> "idle"]
    /\ f_of = [c \in Call |-> 0]
    /\ tally = [c \in Call |-> [x \in Result |-> 0]]
    /\ listening = [c \in Call |-> FALSE]
    /\ answer = [c \in Call |-> NoValue]
    /\ log = [p \in Node |-> [d \in Digest |-> EmptyEntry]]
    /\ _n = [p \in Node |-> 0]
    /\ store = [p \in Node |-> NoValue]
    /\ before = [c \in Call |-> {}]
    /\ history = [p \in Node |-> <<>>]
    /\ replies = {}
    /\ preparers = [d \in Digest |-> {}]
    /\ committers = [d \in Digest |-> {}]
    /\ faults = [dup |-> 0, lost |-> 0, crashed |-> 0]

\* Pbft.request.  Calls happen in the order of their clock readings.
request(c) ==
    /\ call[c] = "idle"
    /\ ClientOf[c] \in alive
    /\ \A e \in Call : TimeOf[e] < TimeOf[c] => call[e] # "idle"
    /\ \E r \in ReplicaSets :
         /\ f_of' = [f_of EXCEPT ![c] = compute_f(r)]
         /\ net' = Plus({[type |-> "REQUEST", dst |-> Primary(r), d |-> DigestOf(c)]})
    /\ call' = [call EXCEPT ![c] = "waiting"]
    /\ listening' = [listening EXCEPT ![c] = TRUE]
    /\ before' = [before EXCEPT ![c] = {e \in Call : call[e] = "resolved"}]
    /\ UNCHANGED <<alive, tally, answer, replicaVars, history, replies,
                   preparers, committers, faults>>

\* A message of the type is handled by a running node.
Handles(p, m, type) ==
    /\ m.type = type
    /\ m.dst = p
    /\ p \in alive
    /\ net[m] > 0

\* Mutant of _next_sequence: one step beyond the high water mark.
_next_sequence_OffByOne(p) == IF _n[p] <= H THEN _n[p] + 1 ELSE 0

\* The sequence number that a primary gives to a request; wraps to 0.
_next_sequence(p) == IF _n[p] < H THEN _n[p] + 1 ELSE 0

\* request.js: a node that is not the primary passes the REQUEST on.
_request(p, m) ==
    /\ Handles(p, m, "REQUEST")
    /\ \E r \in ReplicaSets :
         \/ /\ Primary(r) # p
            /\ net' = Replace(m, {[m EXCEPT !.dst = Primary(r)]})
            /\ UNCHANGED _n
         \/ /\ Primary(r) = p
            /\ _n' = [_n EXCEPT ![p] = _next_sequence(p)]
            /\ net' = Replace(m, {[type |-> "PRE_PREPARE", dst |-> q, d |-> m.d,
                                   n |-> _next_sequence(p)] : q \in Members(r)})
    /\ UNCHANGED <<alive, clientVars, log, store, historyVars, faults>>

\* pre_prepare.js: the first PRE_PREPARE in the log decides the replica set
\* that the predicates use (pre_prepare[0].r).
Logged(e, r) == IF e.pre = <<>> THEN [e EXCEPT !.pre = r] ELSE e

_pre_prepare(p, m) ==
    /\ Handles(p, m, "PRE_PREPARE")
    /\ \E r \in ReplicaSets :
         \/ /\ p \notin Members(r)
            /\ net' = Replace(m, {})
            /\ UNCHANGED <<log, _n, preparers>>
         \/ /\ p \in Members(r)
            /\ log' = [log EXCEPT ![p][m.d] = Logged(@, r)]
            /\ _n' = [_n EXCEPT ![p] = IF @ > m.n THEN @ ELSE m.n]
            /\ net' = Replace(m, _multicast(r, "PREPARE", m.d))
            /\ preparers' = [preparers EXCEPT ![m.d] = @ \cup {p}]
    /\ UNCHANGED <<alive, clientVars, store, before, history, replies, committers, faults>>

\* Mutants of Prepared: any PREPARE will do; only the 2f-th PREPARE counts.
Prepared_Any(e) == e.pre # <<>>
Prepared_Exactly(e) == e.pre # <<>> /\ e.prepares = 2 * compute_f(e.pre)

\* prepare.js: the prepared predicate.
Prepared(e) == e.pre # <<>> /\ e.prepares >= 2 * compute_f(e.pre)

\* Once prepared, every further PREPARE multicasts a COMMIT again.
_prepare(p, m) ==
    LET e == [log[p][m.d] EXCEPT !.prepares = Capped(@ + 1, MaxCount)]
    IN  /\ Handles(p, m, "PREPARE")
        /\ log' = [log EXCEPT ![p][m.d] = e]
        /\ \/ /\ Prepared(e)
              /\ net' = Replace(m, _multicast(e.pre, "COMMIT", m.d))
              /\ committers' = [committers EXCEPT ![m.d] = @ \cup {p}]
           \/ /\ ~Prepared(e)
              /\ net' = Replace(m, {})
              /\ UNCHANGED committers
        /\ UNCHANGED <<alive, clientVars, _n, store, before, history, replies,
                       preparers, faults>>

\* commit.js: the committed predicate (f + 1) is implied by the committed-local
\* one (2f + 1), which decides.
CommittedLocal(e) == e.pre # <<>> /\ e.commits >= 2 * compute_f(e.pre) + 1

\* Mutant of Executes: nothing remembers that the operation was executed.
Executes_Again(e) == CommittedLocal(e)

Executes(e) == CommittedLocal(e) /\ ~e.committed_local

\* Psm.exec
Outcome(p, d) == IF d.o = <<"READ">> THEN store[p] ELSE TRUE

Written(p, d) == IF d.o = <<"READ">> THEN store[p] ELSE d.o[2]

_commit(p, m) ==
    LET e == [log[p][m.d] EXCEPT !.commits = Capped(@ + 1, MaxCount)]
        reply == [type |-> "REPLY", dst |-> m.d.c, t |-> m.d.t, r |-> Outcome(p, m.d)]
    IN  /\ Handles(p, m, "COMMIT")
        /\ \/ /\ Executes(e)
              /\ log' = [log EXCEPT ![p][m.d] = [e EXCEPT !.committed_local = TRUE]]
              /\ store' = [store EXCEPT ![p] = Written(p, m.d)]
              /\ history' = [history EXCEPT ![p] = Append(@, m.d)]
              /\ replies' = replies \cup {<<p, m.d, Outcome(p, m.d)>>}
              /\ net' = Replace(m, {reply})
           \/ /\ ~Executes(e)
              /\ log' = [log EXCEPT ![p][m.d] = e]
              /\ net' = Replace(m, {})
              /\ UNCHANGED <<store, history, replies>>
        /\ UNCHANGED <<alive, clientVars, _n, before, preparers, committers, faults>>

\* The listeners that reply.emit(t) calls.
Listeners(p, t) == {c \in Call : listening[c] /\ ClientOf[c] = p /\ TimeOf[c] = t}

\* Mutant of Enough: f replies of a category resolve the call.
Enough_F(c, r) == tally[c][r] + 1 >= f_of[c]

\* n_received > f
Enough(c, r) == tally[c][r] + 1 > f_of[c]

\* The first category with more than f replies resolves the call and removes
\* every listener for that millisecond.
OnReply(p, m) ==
    LET L   == Listeners(p, m.t)
        won == {c \in L : Enough(c, m.r)}
    IN  /\ Handles(p, m, "REPLY")
        /\ tally' = [c \in Call |-> IF c \in L
                                    THEN [tally[c] EXCEPT ![m.r] = @ + 1]
                                    ELSE tally[c]]
        /\ call' = [c \in Call |-> IF c \in won THEN "resolved" ELSE call[c]]
        /\ answer' = [c \in Call |-> IF c \in won THEN m.r ELSE answer[c]]
        /\ listening' = [c \in Call |-> IF won # {} /\ c \in L THEN FALSE ELSE listening[c]]
        /\ net' = Replace(m, {})
        /\ UNCHANGED <<alive, f_of, replicaVars, historyVars, faults>>

-----------------------------------------------------------------------------
\* The environment.  The UDP transport may hand a message over twice (its
\* receiver forgets a chunk when it is complete) and drops one whose tries run
\* out.

Duplicate(m) ==
    /\ net[m] > 0
    /\ faults.dup < MaxDuplicated
    /\ faults' = [faults EXCEPT !.dup = @ + 1]
    /\ net' = Plus({m})
    /\ UNCHANGED <<alive, clientVars, replicaVars, historyVars>>

Lose(m) ==
    /\ net[m] > 0
    /\ faults.lost < MaxLost
    /\ faults' = [faults EXCEPT !.lost = @ + 1]
    /\ net' = Replace(m, {})
    /\ UNCHANGED <<alive, clientVars, replicaVars, historyVars>>

Crash(p) ==
    /\ p \in alive
    /\ faults.crashed < MaxCrashed
    /\ faults' = [faults EXCEPT !.crashed = @ + 1]
    /\ alive' = alive \ {p}
    /\ UNCHANGED <<net, clientVars, replicaVars, historyVars>>

Handle(p, m) ==
    \/ _request(p, m)
    \/ _pre_prepare(p, m)
    \/ _prepare(p, m)
    \/ _commit(p, m)
    \/ OnReply(p, m)

Next ==
    \/ \E c \in Call : request(c)
    \/ \E m \in Message : _request(m.dst, m)
    \/ \E m \in Message : _pre_prepare(m.dst, m)
    \/ \E m \in Message : _prepare(m.dst, m)
    \/ \E m \in Message : _commit(m.dst, m)
    \/ \E m \in Message : OnReply(m.dst, m)
    \/ \E m \in Message : Duplicate(m)
    \/ \E m \in Message : Lose(m)
    \/ \E p \in Node : Crash(p)

Spec == Init /\ [][Next]_vars

-----------------------------------------------------------------------------
Entry == [pre : ReplicaSets \cup {<<>>}, prepares : 0 .. MaxCount,
          commits : 0 .. MaxCount, committed_local : BOOLEAN]

\* The state variables hold what their comments say; sequence numbers stay
\* between the water marks.
TypeOK ==
    /\ alive \subseteq Node
    /\ net \in [Message -> Nat]
    /\ call \in [Call -> {"idle", "waiting", "resolved"}]
    /\ f_of \in [Call -> Nat]
    /\ tally \in [Call -> [Result -> Nat]]
    /\ listening \in [Call -> BOOLEAN]
    /\ answer \in [Call -> Result]
    /\ log \in [Node -> [Digest -> Entry]]
    /\ _n \in [Node -> 0 .. H]
    /\ store \in [Node -> Value \cup {NoValue}]
    /\ before \in [Call -> SUBSET Call]
    /\ history \in [Node -> Seq(Digest)]
    /\ replies \subseteq Node \X Digest \X Result
    /\ preparers \in [Digest -> SUBSET Node]
    /\ committers \in [Digest -> SUBSET Node]
    /\ faults \in [dup : 0 .. MaxDuplicated, lost : 0 .. MaxLost,
                   crashed : 0 .. MaxCrashed]

\* The replicas that executed d with result x.
ExecutedWith(d, x) == {p \in Node : <<p, d, x>> \in replies}

\* A call is answered with a result only after more than f different replicas
\* executed its operation with that result (consensus.js:48-74 counts replies,
\* not repliers).
AnswerBacked ==
    \A c \in Call : call[c] = "resolved" =>
        Cardinality(ExecutedWith(DigestOf(c), answer[c])) > f_of[c]

\* A replica executes an operation at most once, however many COMMITs for it
\* arrive before, after and between its PRE_PREPAREs, and duplicates included.
ExecOnce ==
    \A p \in Node : \A i, j \in 1 .. Len(history[p]) :
        history[p][i] = history[p][j] => i = j

\* No replica multicasts a COMMIT for an operation before 2f different replicas
\* have accepted its PRE_PREPARE (prepare.js:18-36 counts PREPAREs, not their
\* senders).
PreparedCertificate ==
    \A d \in Digest : \A p \in committers[d] :
        Cardinality(preparers[d]) >= 2 * compute_f(log[p][d].pre)

-----------------------------------------------------------------------------
\* What documentation and comments say and the code does not keep

\* An operation is executed only after 2f + 1 different replicas committed it.
CommitQuorum ==
    \A p \in Node, d \in Digest : log[p][d].committed_local =>
        Cardinality(committers[d]) >= 2 * compute_f(log[p][d].pre) + 1

\* Replicas execute operations in the same order: what one has executed is a
\* prefix of what the other has.
SameOrder ==
    \A p, q \in Node : \A i \in 1 .. Len(history[p]) :
        i <= Len(history[q]) => history[p][i] = history[q][i]

\* A READ that is called after a WRITE was answered finds a value.
ReadSeesWrite ==
    \A r \in Call : \A w \in before[r] :
        (call[r] = "resolved" /\ OpOf[r] = <<"READ">> /\ OpOf[w] # <<"READ">>)
            => answer[r] # NoValue

\* A COMMIT never finds the log without the PRE_PREPARE of its operation.
CommitFindsPrePrepare ==
    \A p \in Node, d \in Digest : log[p][d].commits > 0 => log[p][d].pre # <<>>

-----------------------------------------------------------------------------
\* Liveness.  As long as messages for a node are under way its event loop
\* handles one of them, and the calls are made.
Fairness ==
    /\ \A c \in Call : WF_vars(request(c))
    /\ \A p \in Node : WF_vars(\E m \in Message : Handle(p, m))

FairSpec == Spec /\ Fairness

\* Every call is answered, f replicas being offline.
EveryCallResolves == \A c \in Call : <>(call[c] = "resolved")

\* Every running replica executes every operation.
EveryReplicaExecutes ==
    \A d \in Digest : \A p \in Node \ Offline :
        <>(\E x \in Result : <<p, d, x>> \in replies)
=============================================================================
