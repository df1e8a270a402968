----------------------------- MODULE Pbft_proofs -----------------------------
(***************************************************************************)
(* Theorems about Pbft, for every set of nodes and calls, every outcome of *)
(* the replica lookups, and any loss and crashes.                          *)
(***************************************************************************)
EXTENDS Pbft, FiniteSetTheorems, TLAPS

-----------------------------------------------------------------------------
\* Operators

LEMMA ComputeFType ==
    ASSUME NEW r \in ReplicaSets
    PROVE  compute_f(r) \in Nat
<1>1. Len(r) \in Nat /\ Len(r) >= 1
  BY ConstantsAssumption
<1>2. \A x \in Nat : x \div 3 \in Nat
  OBVIOUS
<1> QED
  BY <1>1, <1>2 DEF compute_f

\* What taking one message off the net and adding others can do to a count.
LEMMA ReplaceBounds ==
    ASSUME net \in [Message -> Nat], NEW m \in Message, net[m] > 0, NEW M
    PROVE  /\ Replace(m, M) \in [Message -> Nat]
           /\ \A x \in Message \ M : Replace(m, M)[x] <= net[x]
           /\ \A x \in M \cap Message : Replace(m, M)[x] <= net[x] + 1
           /\ m \notin M => Replace(m, M)[m] <= net[m] - 1
<1>1. \A x \in Message : Capacity(x) \in Nat
  BY ConstantsAssumption DEF Capacity
<1>2. \A k, max \in Nat : Capped(k, max) \in Nat /\ Capped(k, max) <= k
  BY DEF Capped
<1> DEFINE k(x) == net[x] - (IF x = m THEN 1 ELSE 0) + (IF x \in M THEN 1 ELSE 0)
<1>3. \A x \in Message : k(x) \in Nat
  OBVIOUS
<1>4. \A x \in Message : Replace(m, M)[x] = Capped(k(x), Capacity(x))
  BY DEF Replace
<1>5. \A x \in Message : Replace(m, M)[x] \in Nat /\ Replace(m, M)[x] <= k(x)
  <2> HIDE DEF k
  <2> QED
    BY <1>1, <1>2, <1>3, <1>4
<1>6. Replace(m, M) \in [Message -> Nat]
  BY <1>5 DEF Replace
<1> QED
  BY <1>5, <1>6

LEMMA PlusBounds ==
    ASSUME net \in [Message -> Nat], NEW M
    PROVE  /\ Plus(M) \in [Message -> Nat]
           /\ \A x \in Message \ M : Plus(M)[x] <= net[x]
           /\ \A x \in M \cap Message : Plus(M)[x] <= net[x] + 1
<1>1. \A x \in Message : Capacity(x) \in Nat
  BY ConstantsAssumption DEF Capacity
<1>2. \A k, max \in Nat : Capped(k, max) \in Nat /\ Capped(k, max) <= k
  BY DEF Capped
<1> DEFINE k(x) == net[x] + (IF x \in M THEN 1 ELSE 0)
<1>3. \A x \in Message : k(x) \in Nat
  OBVIOUS
<1>4. \A x \in Message : Plus(M)[x] = Capped(k(x), Capacity(x))
  BY DEF Plus
<1>5. \A x \in Message : Plus(M)[x] \in Nat /\ Plus(M)[x] <= k(x)
  <2> HIDE DEF k
  <2> QED
    BY <1>1, <1>2, <1>3, <1>4
<1>6. Plus(M) \in [Message -> Nat]
  BY <1>5 DEF Plus
<1> QED
  BY <1>5, <1>6

LEMMA CountType ==
    ASSUME NEW k \in 0 .. MaxCount
    PROVE  Capped(k + 1, MaxCount) \in 0 .. MaxCount
BY ConstantsAssumption DEF Capped

LEMMA MessageFields ==
    ASSUME NEW m \in Message
    PROVE  /\ m.dst \in Node
           /\ m.type \in {"REQUEST", "PRE_PREPARE", "PREPARE", "COMMIT"} => m.d \in Digest
           /\ m.type = "PRE_PREPARE" => m.n \in 0 .. H
           /\ m.type = "REPLY" => m.r \in Result
BY DEF Message

LEMMA DigestFields ==
    ASSUME NEW d \in Digest
    PROVE  d.c \in Node /\ d.o \in Op /\ d.t \in {TimeOf[c] : c \in Call}
BY ConstantsAssumption DEF Digest, DigestOf

-----------------------------------------------------------------------------
\* Type correctness

LEMMA TypeInit == Init => TypeOK
<1> SUFFICES ASSUME Init PROVE TypeOK
  OBVIOUS
<1>1. EmptyEntry \in Entry
  BY ConstantsAssumption DEF EmptyEntry, Entry
<1>2. <<>> \in Seq(Digest)
  OBVIOUS
<1>3. NoValue \in Result /\ H \in Nat
  BY ConstantsAssumption DEF Result
<1>4. faults \in [dup : 0 .. MaxDuplicated, lost : 0 .. MaxLost, crashed : 0 .. MaxCrashed]
  BY ConstantsAssumption DEF Init
<1> QED
  BY <1>1, <1>2, <1>3, <1>4 DEF Init, TypeOK, NoneUnderWay

LEMMA TypeCall ==
    ASSUME TypeOK, NEW c \in Call, request(c)
    PROVE  TypeOK'
<1>1. net' \in [Message -> Nat]
  BY PlusBounds DEF TypeOK, request
<1>2. f_of' \in [Call -> Nat]
  BY ComputeFType DEF TypeOK, request
<1> QED
  BY <1>1, <1>2 DEF TypeOK, request, replicaVars

LEMMA TypeRequest ==
    ASSUME TypeOK, NEW m \in Message, _request(m.dst, m)
    PROVE  TypeOK'
<1>1. net' \in [Message -> Nat]
  <2>1. \E M : net' = Replace(m, M)
    BY DEF _request
  <2> QED
    BY <2>1, ReplaceBounds DEF TypeOK, _request, Handles
<1>2. _n' \in [Node -> 0 .. H]
  <2>1. _n[m.dst] \in 0 .. H /\ H \in Nat
    BY MessageFields, ConstantsAssumption DEF TypeOK
  <2>2. _next_sequence(m.dst) \in 0 .. H
    BY <2>1 DEF _next_sequence
  <2> QED
    BY <2>2 DEF TypeOK, _request
<1> QED
  BY <1>1, <1>2 DEF TypeOK, _request, clientVars, historyVars

\* Changing the log entry of one operation at one node.
LEMMA LogType ==
    ASSUME log \in [Node -> [Digest -> Entry]],
           NEW p \in Node, NEW d \in Digest, NEW e \in Entry
    PROVE  [log EXCEPT ![p][d] = e] \in [Node -> [Digest -> Entry]]
OBVIOUS

\* Adding a node to the history of one operation.
LEMMA SetType ==
    ASSUME NEW F \in [Digest -> SUBSET Node], NEW p \in Node, NEW d \in Digest
    PROVE  [F EXCEPT ![d] = F[d] \cup {p}] \in [Digest -> SUBSET Node]
<1>1. F[d] \cup {p} \in SUBSET Node
  OBVIOUS
<1> QED
  BY <1>1

LEMMA TypePrePrepare ==
    ASSUME TypeOK, NEW m \in Message, _pre_prepare(m.dst, m)
    PROVE  TypeOK'
<1> DEFINE p == m.dst  d == m.d
<1>1. p \in Node /\ d \in Digest /\ m.n \in 0 .. H
  BY MessageFields DEF _pre_prepare, Handles
<1>2. net' \in [Message -> Nat]
  <2>1. \E M : net' = Replace(m, M)
    BY DEF _pre_prepare
  <2> QED
    BY <2>1, ReplaceBounds DEF TypeOK, _pre_prepare, Handles
<1>3. log' \in [Node -> [Digest -> Entry]]
  <2>1. log \in [Node -> [Digest -> Entry]]
    BY DEF TypeOK
  <2>2. ASSUME NEW r \in ReplicaSets PROVE Logged(log[p][d], r) \in Entry
    <3>1. log[p][d] \in Entry
      BY <1>1, <2>1
    <3> QED
      BY <3>1 DEF Logged, Entry
  <2>3. \/ log' = log
        \/ \E r \in ReplicaSets : log' = [log EXCEPT ![p][d] = Logged(log[p][d], r)]
    BY <1>1, <2>1 DEF _pre_prepare
  <2> HIDE DEF p, d
  <2> QED
    BY <1>1, <2>1, <2>2, <2>3, LogType
<1>4. _n' \in [Node -> 0 .. H]
  BY <1>1 DEF TypeOK, _pre_prepare
<1>5. preparers' \in [Digest -> SUBSET Node]
  <2>1. \/ preparers' = preparers
        \/ preparers' = [preparers EXCEPT ![d] = preparers[d] \cup {p}]
    BY DEF _pre_prepare
  <2>2. preparers \in [Digest -> SUBSET Node]
    BY DEF TypeOK
  <2> HIDE DEF p, d
  <2> QED
    BY <1>1, <2>1, <2>2, SetType
<1>6. UNCHANGED <<alive, call, f_of, tally, listening, answer, store, before,
                  history, replies, committers, faults>>
  BY DEF _pre_prepare, clientVars
<1> QED
  BY <1>2, <1>3, <1>4, <1>5, <1>6 DEF TypeOK

LEMMA TypePrepare ==
    ASSUME TypeOK, NEW m \in Message, _prepare(m.dst, m)
    PROVE  TypeOK'
<1> DEFINE p == m.dst  d == m.d
           e == [log[p][d] EXCEPT !.prepares = Capped(@ + 1, MaxCount)]
<1>1. p \in Node /\ d \in Digest
  BY MessageFields DEF _prepare, Handles
<1>2. net' \in [Message -> Nat]
  <2>1. \E M : net' = Replace(m, M)
    BY DEF _prepare
  <2> QED
    BY <2>1, ReplaceBounds DEF TypeOK, _prepare, Handles
<1>3. log' \in [Node -> [Digest -> Entry]]
  <2>1. log \in [Node -> [Digest -> Entry]]
    BY DEF TypeOK
  <2>2. e \in Entry
    <3>1. log[p][d] \in Entry
      BY <1>1, <2>1
    <3>2. Capped(log[p][d].prepares + 1, MaxCount) \in 0 .. MaxCount
      BY <3>1, CountType DEF Entry
    <3> QED
      BY <3>1, <3>2 DEF Entry
  <2>3. log' = [log EXCEPT ![p][d] = e]
    BY DEF _prepare
  <2> HIDE DEF e, p, d
  <2> QED
    BY <1>1, <2>1, <2>2, <2>3, LogType
<1>4. committers' \in [Digest -> SUBSET Node]
  <2>1. \/ committers' = committers
        \/ committers' = [committers EXCEPT ![d] = committers[d] \cup {p}]
    BY DEF _prepare
  <2>2. committers \in [Digest -> SUBSET Node]
    BY DEF TypeOK
  <2> HIDE DEF p, d
  <2> QED
    BY <1>1, <2>1, <2>2, SetType
<1>5. UNCHANGED <<alive, call, f_of, tally, listening, answer, _n, store, before,
                  history, replies, preparers, faults>>
  BY DEF _prepare, clientVars
<1> QED
  BY <1>2, <1>3, <1>4, <1>5 DEF TypeOK

\* What _commit does, in terms of the new log entry.
LEMMA TypeCommit ==
    ASSUME TypeOK, NEW m \in Message, _commit(m.dst, m)
    PROVE  TypeOK'
<1> DEFINE p == m.dst  d == m.d
           e == [log[p][d] EXCEPT !.commits = Capped(@ + 1, MaxCount)]
           e2 == [e EXCEPT !.committed_local = TRUE]
<1>1. p \in Node /\ d \in Digest
  BY MessageFields DEF _commit, Handles
<1>2. net' \in [Message -> Nat]
  <2>1. \E M : net' = Replace(m, M)
    BY DEF _commit
  <2> QED
    BY <2>1, ReplaceBounds DEF TypeOK, _commit, Handles
<1>3. log' \in [Node -> [Digest -> Entry]]
  <2>1. log \in [Node -> [Digest -> Entry]]
    BY DEF TypeOK
  <2>2. e \in Entry /\ e2 \in Entry
    <3>1. log[p][d] \in Entry
      BY <1>1, <2>1
    <3>2. Capped(log[p][d].commits + 1, MaxCount) \in 0 .. MaxCount
      BY <3>1, CountType DEF Entry
    <3> QED
      BY <3>1, <3>2 DEF Entry
  <2>3. log' = [log EXCEPT ![p][d] = e] \/ log' = [log EXCEPT ![p][d] = e2]
    BY DEF _commit
  <2> HIDE DEF e, e2, p, d
  <2> QED
    BY <1>1, <2>1, <2>2, <2>3, LogType
<1>4. d.o \in Op
  BY <1>1, DigestFields
<1>5. Outcome(p, d) \in Result /\ Written(p, d) \in Value \cup {NoValue}
  BY <1>1, <1>4 DEF TypeOK, Outcome, Written, Op, Result
<1>6. store' \in [Node -> Value \cup {NoValue}]
  BY <1>1, <1>5 DEF TypeOK, _commit
<1>7. replies' \subseteq Node \X Digest \X Result
  BY <1>1, <1>5 DEF TypeOK, _commit
<1>8. history' \in [Node -> Seq(Digest)]
  <2>1. history[p] \in Seq(Digest) /\ history \in [Node -> Seq(Digest)]
    BY <1>1 DEF TypeOK
  <2>2. Append(history[p], d) \in Seq(Digest)
    BY <1>1, <2>1
  <2>3. history' = history \/ history' = [history EXCEPT ![p] = Append(history[p], d)]
    BY DEF _commit
  <2> HIDE DEF p, d
  <2> QED
    BY <1>1, <2>1, <2>2, <2>3
<1>9. UNCHANGED <<alive, call, f_of, tally, listening, answer, _n, before,
                  preparers, committers, faults>>
  BY DEF _commit, clientVars
<1> QED
  BY <1>2, <1>3, <1>6, <1>7, <1>8, <1>9 DEF TypeOK

LEMMA TypeReply ==
    ASSUME TypeOK, NEW m \in Message, OnReply(m.dst, m)
    PROVE  TypeOK'
<1>1. net' \in [Message -> Nat]
  <2>1. net' = Replace(m, {})
    BY DEF OnReply
  <2> QED
    BY <2>1, ReplaceBounds DEF TypeOK, OnReply, Handles
<1>2. m.r \in Result
  BY MessageFields DEF OnReply, Handles
<1>3. tally' \in [Call -> [Result -> Nat]]
  <2>1. \A c \in Call : /\ tally[c] \in [Result -> Nat]
                       /\ [tally[c] EXCEPT ![m.r] = @ + 1] \in [Result -> Nat]
    BY <1>2 DEF TypeOK
  <2> QED
    BY <2>1 DEF OnReply
<1>4. call' \in [Call -> {"idle", "waiting", "resolved"}]
  BY DEF TypeOK, OnReply
<1>5. answer' \in [Call -> Result]
  BY <1>2 DEF TypeOK, OnReply
<1>6. listening' \in [Call -> BOOLEAN]
  BY DEF TypeOK, OnReply
<1>7. UNCHANGED <<alive, f_of, log, _n, store, before, history, replies,
                  preparers, committers, faults>>
  BY DEF OnReply, replicaVars, historyVars
<1> QED
  BY <1>1, <1>3, <1>4, <1>5, <1>6, <1>7 DEF TypeOK

LEMMA TypeFault ==
    ASSUME TypeOK,
           \/ \E m \in Message : Duplicate(m) \/ Lose(m)
           \/ \E p \in Node : Crash(p)
    PROVE  TypeOK'
<1> DEFINE Faults == [dup : 0 .. MaxDuplicated, lost : 0 .. MaxLost,
                      crashed : 0 .. MaxCrashed]
<1>1. MaxDuplicated \in Nat /\ MaxLost \in Nat /\ MaxCrashed \in Nat
  BY ConstantsAssumption
<1>2. faults \in Faults
  BY DEF TypeOK
<1>3. faults' \in Faults
  <2>1. /\ faults.dup \in 0 .. MaxDuplicated
        /\ faults.lost \in 0 .. MaxLost
        /\ faults.crashed \in 0 .. MaxCrashed
    BY <1>2
  <2>2. \/ faults.dup < MaxDuplicated /\ faults' = [faults EXCEPT !.dup = @ + 1]
        \/ faults.lost < MaxLost /\ faults' = [faults EXCEPT !.lost = @ + 1]
        \/ faults.crashed < MaxCrashed /\ faults' = [faults EXCEPT !.crashed = @ + 1]
    BY DEF Duplicate, Lose, Crash
  <2> QED
    BY <1>1, <1>2, <2>1, <2>2
<1>4. net' \in [Message -> Nat]
  <2>1. ASSUME NEW m \in Message, Duplicate(m) PROVE net' \in [Message -> Nat]
    BY <2>1, PlusBounds DEF TypeOK, Duplicate
  <2>2. ASSUME NEW m \in Message, Lose(m) PROVE net' \in [Message -> Nat]
    BY <2>2, ReplaceBounds DEF TypeOK, Lose
  <2>3. ASSUME NEW p \in Node, Crash(p) PROVE net' \in [Message -> Nat]
    BY <2>3 DEF TypeOK, Crash
  <2> QED
    BY <2>1, <2>2, <2>3
<1>5. alive' \subseteq Node
  BY DEF TypeOK, Duplicate, Lose, Crash
<1>6. UNCHANGED <<clientVars, replicaVars, historyVars>>
  BY DEF Duplicate, Lose, Crash
<1> QED
  BY <1>3, <1>4, <1>5, <1>6 DEF TypeOK, clientVars, replicaVars, historyVars

\* Every reachable state has the types of TypeOK: sequence numbers stay between
\* the water marks and log counters within their bound.
THEOREM TypeCorrect == Spec => []TypeOK
<1>1. TypeOK /\ [Next]_vars => TypeOK'
  <2> SUFFICES ASSUME TypeOK, [Next]_vars PROVE TypeOK'
    OBVIOUS
  <2>1. ASSUME NEW c \in Call, request(c) PROVE TypeOK'
    BY <2>1, TypeCall
  <2>2. ASSUME NEW m \in Message, _request(m.dst, m) PROVE TypeOK'
    BY <2>2, TypeRequest
  <2>3. ASSUME NEW m \in Message, _pre_prepare(m.dst, m) PROVE TypeOK'
    BY <2>3, TypePrePrepare
  <2>4. ASSUME NEW m \in Message, _prepare(m.dst, m) PROVE TypeOK'
    BY <2>4, TypePrepare
  <2>5. ASSUME NEW m \in Message, _commit(m.dst, m) PROVE TypeOK'
    BY <2>5, TypeCommit
  <2>6. ASSUME NEW m \in Message, OnReply(m.dst, m) PROVE TypeOK'
    BY <2>6, TypeReply
  <2>7. CASE UNCHANGED vars
    BY <2>7 DEF TypeOK, vars
  <2> QED
    BY <2>1, <2>2, <2>3, <2>4, <2>5, <2>6, <2>7, TypeFault DEF Next
<1> QED
  BY <1>1, TypeInit, PTL DEF Spec

-----------------------------------------------------------------------------
\* A replica executes an operation at most once.  The invariant: whatever it
\* has executed, its log remembers (committed_local).

Remembered ==
    \A p \in Node : \A i \in 1 .. Len(history[p]) :
        log[p][history[p][i]].committed_local

ExecInv == TypeOK /\ Remembered /\ ExecOnce

LEMMA ExecInit == Init => ExecInv
BY TypeInit DEF Init, ExecInv, Remembered, ExecOnce

\* The steps that execute nothing: they keep the history and clear no mark.
LEMMA ExecKept ==
    ASSUME ExecInv, TypeOK', UNCHANGED history,
           \A p \in Node, d \in Digest :
               log[p][d].committed_local => log'[p][d].committed_local
    PROVE  ExecInv'
<1>1. \A p \in Node : history[p] \in Seq(Digest)
  BY DEF ExecInv, TypeOK
<1>2. Remembered'
  BY <1>1 DEF ExecInv, Remembered
<1>3. ExecOnce'
  BY DEF ExecInv, ExecOnce
<1> QED
  BY <1>2, <1>3 DEF ExecInv

LEMMA ExecCommit ==
    ASSUME ExecInv, TypeOK', NEW m \in Message, _commit(m.dst, m)
    PROVE  ExecInv'
<1> DEFINE p == m.dst  d == m.d
           e == [log[p][d] EXCEPT !.commits = Capped(@ + 1, MaxCount)]
           e2 == [e EXCEPT !.committed_local = TRUE]
<1>1. p \in Node /\ d \in Digest
  BY MessageFields DEF _commit, Handles
<1>2. log \in [Node -> [Digest -> Entry]] /\ history \in [Node -> Seq(Digest)]
  BY DEF ExecInv, TypeOK
<1>3. log[p][d] \in Entry
  BY <1>1, <1>2
<1>4. e.committed_local = log[p][d].committed_local /\ e2.committed_local = TRUE
  BY <1>3 DEF Entry
<1>5. CASE ~Executes(e)
  <2>1. log' = [log EXCEPT ![p][d] = e] /\ UNCHANGED history
    BY <1>5 DEF _commit
  <2> HIDE DEF e, e2, p, d
  <2>2. \A q \in Node, b \in Digest :
            log[q][b].committed_local => log'[q][b].committed_local
    BY <1>1, <1>2, <1>4, <2>1
  <2> QED
    BY <2>1, <2>2, ExecKept
<1>6. CASE Executes(e)
  <2>1. /\ log' = [log EXCEPT ![p][d] = e2]
        /\ history' = [history EXCEPT ![p] = Append(history[p], d)]
    BY <1>6 DEF _commit
  <2>2. ~log[p][d].committed_local
    BY <1>4, <1>6 DEF Executes
  <2> HIDE DEF e, e2, p, d
  <2>3. \A q \in Node, b \in Digest :
            log[q][b].committed_local => log'[q][b].committed_local
    BY <1>1, <1>2, <1>4, <2>1
  <2>4. log'[p][d].committed_local
    BY <1>1, <1>2, <1>4, <2>1
  <2>5. \A q \in Node : history[q] \in Seq(Digest)
    BY <1>2
  <2>6. history'[p] = Append(history[p], d)
    BY <1>1, <1>2, <2>1
  <2>7. \A q \in Node : q # p => history'[q] = history[q]
    BY <1>1, <1>2, <2>1
  <2>8. /\ Len(history'[p]) = Len(history[p]) + 1
        /\ \A i \in 1 .. Len(history[p]) : history'[p][i] = history[p][i]
        /\ history'[p][Len(history[p]) + 1] = d
    BY <1>1, <2>5, <2>6
  <2>9. \A i \in 1 .. Len(history[p]) : history[p][i] # d
    BY <1>1, <2>2 DEF ExecInv, Remembered
  <2>10. Len(history[p]) \in Nat
    BY <1>1, <2>5
  <2>11. Remembered'
    <3>1. ASSUME NEW q \in Node, NEW i \in 1 .. Len(history'[q])
          PROVE  log'[q][history'[q][i]].committed_local
      <4>1. CASE q # p \/ i <= Len(history[p])
        <5>1. i \in 1 .. Len(history[q]) /\ history'[q][i] = history[q][i]
          BY <2>7, <2>8, <2>10, <4>1
        <5>2. history[q][i] \in Digest /\ log[q][history[q][i]].committed_local
          BY <2>5, <5>1 DEF ExecInv, Remembered
        <5> QED
          BY <2>3, <5>1, <5>2
      <4>2. CASE q = p /\ i = Len(history[p]) + 1
        BY <2>4, <2>8, <4>2
      <4> QED
        BY <2>8, <2>10, <4>1, <4>2
    <3> QED
      BY <3>1 DEF Remembered
  <2>12. ExecOnce'
    <3>1. ASSUME NEW q \in Node, NEW i \in 1 .. Len(history'[q]),
                 NEW j \in 1 .. Len(history'[q]), history'[q][i] = history'[q][j]
          PROVE  i = j
      <4>1. CASE q # p
        BY <2>7, <3>1, <4>1 DEF ExecInv, ExecOnce
      <4>2. CASE q = p
        <5>1. /\ i <= Len(history[p]) \/ i = Len(history[p]) + 1
              /\ j <= Len(history[p]) \/ j = Len(history[p]) + 1
          BY <2>8, <2>10, <4>2
        <5>2. CASE i <= Len(history[p]) /\ j <= Len(history[p])
          <6>1. i \in 1 .. Len(history[p]) /\ j \in 1 .. Len(history[p])
            BY <5>2, <2>10
          <6> QED
            BY <1>1, <2>8, <3>1, <4>2, <6>1 DEF ExecInv, ExecOnce
        <5>3. CASE ~(i <= Len(history[p]) /\ j <= Len(history[p]))
          BY <2>8, <2>9, <2>10, <3>1, <4>2, <5>1, <5>3
        <5> QED
          BY <5>2, <5>3
      <4> QED
        BY <4>1, <4>2
    <3> QED
      BY <3>1 DEF ExecOnce
  <2> QED
    BY <2>11, <2>12 DEF ExecInv
<1> QED
  BY <1>5, <1>6

\* The log entry's mark survives the two other handlers that write it.
LEMMA MarkKept ==
    ASSUME TypeOK, NEW m \in Message, _pre_prepare(m.dst, m) \/ _prepare(m.dst, m)
    PROVE  /\ \A p \in Node, d \in Digest :
                  log'[p][d].committed_local = log[p][d].committed_local
           /\ UNCHANGED <<history, replies>>
<1> DEFINE p == m.dst  d == m.d
           e == [log[p][d] EXCEPT !.prepares = Capped(@ + 1, MaxCount)]
<1>1. p \in Node /\ d \in Digest
  BY MessageFields DEF _pre_prepare, _prepare, Handles
<1>2. log \in [Node -> [Digest -> Entry]]
  BY DEF TypeOK
<1>3. log[p][d] \in Entry
  BY <1>1, <1>2
<1>4. e.committed_local = log[p][d].committed_local
  BY <1>3 DEF Entry
<1>5. \A r \in ReplicaSets :
          Logged(log[p][d], r).committed_local = log[p][d].committed_local
  BY <1>3 DEF Entry, Logged
<1>6. \/ UNCHANGED log
      \/ log' = [log EXCEPT ![p][d] = e]
      \/ \E r \in ReplicaSets : log' = [log EXCEPT ![p][d] = Logged(log[p][d], r)]
  BY DEF _pre_prepare, _prepare
<1>7. UNCHANGED <<history, replies>>
  BY DEF _pre_prepare, _prepare
<1> HIDE DEF p, d, e
<1> QED
  BY <1>1, <1>2, <1>4, <1>5, <1>6, <1>7

\* Every other step leaves the log, the histories and the replies as they are.
LEMMA Others ==
    ASSUME \/ \E c \in Call : request(c)
           \/ \E m \in Message : \/ _request(m.dst, m) \/ OnReply(m.dst, m)
                                 \/ Duplicate(m) \/ Lose(m)
           \/ \E p \in Node : Crash(p)
           \/ UNCHANGED vars
    PROVE  UNCHANGED <<log, history, replies>>
BY DEF request, _request, OnReply, Duplicate, Lose, Crash, vars, replicaVars, historyVars

\* However many COMMITs for an operation arrive, in whatever order, and whatever
\* the network loses or delivers twice, no replica executes the operation twice.
THEOREM ExecOnceCorrect == Spec => []ExecOnce
<1>1. ExecInv /\ TypeOK' /\ [Next]_vars => ExecInv'
  <2> SUFFICES ASSUME ExecInv, TypeOK', [Next]_vars PROVE ExecInv'
    OBVIOUS
  <2>1. ASSUME NEW m \in Message, _commit(m.dst, m) PROVE ExecInv'
    BY <2>1, ExecCommit
  <2>2. ASSUME NEW m \in Message, _pre_prepare(m.dst, m) \/ _prepare(m.dst, m)
        PROVE  ExecInv'
    BY <2>2, MarkKept, ExecKept DEF ExecInv
  <2>3. CASE UNCHANGED <<log, history, replies>>
    BY <2>3, ExecKept
  <2> QED
    BY <2>1, <2>2, <2>3, Others DEF Next
<1>2. ExecInv => ExecOnce
  BY DEF ExecInv
<1> QED
  BY <1>1, <1>2, ExecInit, TypeCorrect, PTL DEF Spec

-----------------------------------------------------------------------------
\* An answer is backed by more than f different replicas.  The invariant: the
\* REPLYs a client has counted for a result and those under way are no more
\* than the replicas that executed its operation with that result, since a
\* replica replies when it executes, and executes once.

ReplyTo(c, x) == [type |-> "REPLY", dst |-> ClientOf[c], t |-> TimeOf[c], r |-> x]

Backing(c, x) == Cardinality(ExecutedWith(DigestOf(c), x))

CountBacked == \A c \in Call, x \in Result : tally[c][x] + net[ReplyTo(c, x)] <= Backing(c, x)

ReplyMarked == \A p \in Node, d \in Digest, x \in Result :
                   <<p, d, x>> \in replies => log[p][d].committed_local

BackedInv == TypeOK /\ CountBacked /\ ReplyMarked /\ AnswerBacked

\* A client makes one call a millisecond, and the network delivers no message
\* twice.
DistinctTimes ==
    /\ \A c, e \in Call : ClientOf[c] = ClientOf[e] /\ TimeOf[c] = TimeOf[e] => c = e
    /\ MaxDuplicated = 0

LEMMA CallFields ==
    ASSUME NEW c \in Call, NEW x \in Result
    PROVE  ReplyTo(c, x) \in Message /\ DigestOf(c) \in Digest
BY ConstantsAssumption DEF ReplyTo, Message, DigestOf, Digest

LEMMA BackingType ==
    ASSUME NEW c \in Call, NEW x \in Result
    PROVE  Backing(c, x) \in Nat /\ Backing(c, x)' \in Nat
<1>1. /\ ExecutedWith(DigestOf(c), x) \subseteq Node
      /\ ExecutedWith(DigestOf(c), x)' \subseteq Node
  BY DEF ExecutedWith
<1>2. /\ IsFiniteSet(ExecutedWith(DigestOf(c), x))
      /\ IsFiniteSet(ExecutedWith(DigestOf(c), x)')
  BY <1>1, ConstantsAssumption, FS_Subset
<1> QED
  BY <1>2, FS_CardinalityType DEF Backing

LEMMA BackedInit == Init => BackedInv
<1> SUFFICES ASSUME Init PROVE BackedInv
  OBVIOUS
<1>1. CountBacked
  <2>1. ASSUME NEW c \in Call, NEW x \in Result
        PROVE  tally[c][x] = 0 /\ net[ReplyTo(c, x)] = 0 /\ Backing(c, x) >= 0
    BY BackingType, CallFields DEF Init, NoneUnderWay
  <2> QED
    BY <2>1, BackingType DEF CountBacked
<1> QED
  BY <1>1, TypeInit DEF Init, BackedInv, ReplyMarked, AnswerBacked

\* The steps that add no reply, count none and send none.
LEMMA BackedKept ==
    ASSUME BackedInv, TypeOK', UNCHANGED <<tally, replies>>,
           \A c \in Call, x \in Result : net'[ReplyTo(c, x)] <= net[ReplyTo(c, x)],
           \A p \in Node, d \in Digest :
               log[p][d].committed_local => log'[p][d].committed_local,
           \A c \in Call : call'[c] = "resolved" =>
               /\ call[c] = "resolved"
               /\ answer'[c] = answer[c]
               /\ f_of'[c] = f_of[c]
    PROVE  BackedInv'
<1>1. ASSUME NEW c \in Call, NEW x \in Result
      PROVE  Backing(c, x)' = Backing(c, x)
  BY DEF Backing, ExecutedWith
<1>2. CountBacked'
  <2>1. ASSUME NEW c \in Call, NEW x \in Result
        PROVE  tally'[c][x] + net'[ReplyTo(c, x)] <= Backing(c, x)'
    <3>1. /\ tally[c][x] \in Nat /\ net[ReplyTo(c, x)] \in Nat
          /\ net'[ReplyTo(c, x)] \in Nat /\ Backing(c, x) \in Nat
      BY CallFields, BackingType DEF BackedInv, TypeOK
    <3>2. tally[c][x] + net[ReplyTo(c, x)] <= Backing(c, x)
      BY DEF BackedInv, CountBacked
    <3>3. net'[ReplyTo(c, x)] <= net[ReplyTo(c, x)] /\ tally'[c][x] = tally[c][x]
      OBVIOUS
    <3> HIDE DEF Backing
    <3> QED
      BY <1>1, <3>1, <3>2, <3>3
  <2> QED
    BY <2>1 DEF CountBacked, ReplyTo
<1>3. ReplyMarked'
  BY DEF BackedInv, ReplyMarked
<1>4. AnswerBacked'
  <2>1. ASSUME NEW c \in Call, call'[c] = "resolved"
        PROVE  Backing(c, answer[c])' > f_of'[c]
    <3>1. call[c] = "resolved" /\ answer'[c] = answer[c] /\ f_of'[c] = f_of[c]
      BY <2>1
    <3>2. Cardinality(ExecutedWith(DigestOf(c), answer[c])) > f_of[c]
      BY <3>1 DEF BackedInv, AnswerBacked
    <3> QED
      BY <3>1, <3>2 DEF Backing, ExecutedWith
  <2> QED
    BY <2>1 DEF AnswerBacked, Backing
<1> QED
  BY <1>2, <1>3, <1>4 DEF BackedInv

LEMMA ReplyToFields ==
    ASSUME NEW c \in Call, NEW x
    PROVE  /\ ReplyTo(c, x).type = "REPLY" /\ ReplyTo(c, x).dst = ClientOf[c]
           /\ ReplyTo(c, x).t = TimeOf[c] /\ ReplyTo(c, x).r = x
BY DEF ReplyTo

\* A node executes the operation of the COMMIT and replies to its client.
LEMMA BackedExecute ==
    ASSUME BackedInv, TypeOK', DistinctTimes,
           NEW p \in Node, NEW m \in Message, NEW d \in Digest, NEW x \in Result,
           net[m] > 0, ~log[p][d].committed_local, log'[p][d].committed_local,
           \A q \in Node, b \in Digest :
               log[q][b].committed_local => log'[q][b].committed_local,
           replies' = replies \cup {<<p, d, x>>},
           net' = Replace(m, {[type |-> "REPLY", dst |-> d.c, t |-> d.t, r |-> x]}),
           UNCHANGED clientVars
    PROVE  BackedInv'
<1> DEFINE reply == [type |-> "REPLY", dst |-> d.c, t |-> d.t, r |-> x]
<1>1. net \in [Message -> Nat]
  BY DEF BackedInv, TypeOK
<1>2. \A c \in Call, y \in Result : IF DigestOf(c) = d /\ y = x
                                    THEN ReplyTo(c, y) = reply
                                    ELSE ReplyTo(c, y) # reply
  <2>1. PICK e \in Call : d = DigestOf(e)
    BY DEF Digest
  <2>2. d.c = ClientOf[e] /\ d.t = TimeOf[e]
    BY <2>1 DEF DigestOf
  <2>3. ASSUME NEW c \in Call, NEW y \in Result, ReplyTo(c, y) = reply
        PROVE  DigestOf(c) = d /\ y = x
    <3>1. ReplyTo(c, y).dst = reply.dst /\ ReplyTo(c, y).t = reply.t /\ ReplyTo(c, y).r = reply.r
      BY <2>3
    <3>2. ClientOf[c] = d.c /\ TimeOf[c] = d.t /\ y = x
      BY <3>1, ReplyToFields
    <3>3. c = e
      BY <2>2, <3>2 DEF DistinctTimes
    <3> QED
      BY <2>1, <3>2, <3>3
  <2>4. ASSUME NEW c \in Call, DigestOf(c) = d PROVE ReplyTo(c, x) = reply
    BY <2>4 DEF DigestOf, ReplyTo
  <2> QED
    BY <2>3, <2>4
<1>3. ASSUME NEW c \in Call, NEW y \in Result
      PROVE  /\ ExecutedWith(DigestOf(c), y)' =
                   IF DigestOf(c) = d /\ y = x
                   THEN ExecutedWith(d, x) \cup {p}
                   ELSE ExecutedWith(DigestOf(c), y)
  BY DEF ExecutedWith
<1>4. IsFiniteSet(ExecutedWith(d, x)) /\ p \notin ExecutedWith(d, x)
  <2>1. ExecutedWith(d, x) \subseteq Node
    BY DEF ExecutedWith
  <2>2. <<p, d, x>> \notin replies
    BY DEF BackedInv, ReplyMarked
  <2> QED
    BY <2>1, <2>2, ConstantsAssumption, FS_Subset DEF ExecutedWith
<1>5. Cardinality(ExecutedWith(d, x) \cup {p}) = Cardinality(ExecutedWith(d, x)) + 1
  BY <1>4, FS_AddElement
<1>6. ASSUME NEW c \in Call, NEW y \in Result
      PROVE  Backing(c, y)' = Backing(c, y) + (IF ReplyTo(c, y) = reply THEN 1 ELSE 0)
  <2>1. Backing(c, y) \in Nat
    BY BackingType
  <2>2. CASE ReplyTo(c, y) = reply
    BY <1>2, <1>3, <1>5, <2>2 DEF Backing
  <2>3. CASE ReplyTo(c, y) # reply
    <3>1. Backing(c, y)' = Backing(c, y)
      BY <1>2, <1>3, <2>3 DEF Backing
    <3> QED
      BY <2>1, <2>3, <3>1
  <2> QED
    BY <2>2, <2>3
<1>7. ASSUME NEW c \in Call, NEW y \in Result
      PROVE  net'[ReplyTo(c, y)] <=
                 net[ReplyTo(c, y)] + (IF ReplyTo(c, y) = reply THEN 1 ELSE 0)
  <2>1. ReplyTo(c, y) \in Message /\ net[ReplyTo(c, y)] \in Nat
    BY <1>1, CallFields
  <2>2. net' = Replace(m, {reply})
    OBVIOUS
  <2> HIDE DEF reply
  <2> QED
    BY <1>1, <2>1, <2>2, ReplaceBounds
<1>8. CountBacked'
  <2>1. ASSUME NEW c \in Call, NEW y \in Result
        PROVE  tally'[c][y] + net'[ReplyTo(c, y)] <= Backing(c, y)'
    <3>1. /\ tally[c][y] \in Nat
          /\ net[ReplyTo(c, y)] \in Nat
          /\ net'[ReplyTo(c, y)] \in Nat
      <4>1. tally \in [Call -> [Result -> Nat]] /\ net' \in [Message -> Nat]
        BY DEF BackedInv, TypeOK
      <4> QED
        BY <1>1, <4>1, CallFields
    <3>4. Backing(c, y) \in Nat
      BY BackingType
    <3>2. tally[c][y] + net[ReplyTo(c, y)] <= Backing(c, y)
      BY DEF BackedInv, CountBacked
    <3>3. tally'[c][y] = tally[c][y]
      BY DEF clientVars
    <3> DEFINE one == IF ReplyTo(c, y) = reply THEN 1 ELSE 0
    <3>5. Backing(c, y)' = Backing(c, y) + one
      BY <1>6
    <3>6. net'[ReplyTo(c, y)] <= net[ReplyTo(c, y)] + one
      BY <1>7
    <3>7. one \in Nat
      OBVIOUS
    <3> HIDE DEF Backing, one
    <3> QED
      BY <3>1, <3>2, <3>3, <3>4, <3>5, <3>6, <3>7
  <2> QED
    BY <2>1 DEF CountBacked, ReplyTo
<1>9. ReplyMarked'
  BY DEF BackedInv, ReplyMarked
<1>10. AnswerBacked'
  <2>1. ASSUME NEW c \in Call, call[c] = "resolved" PROVE Backing(c, answer[c])' > f_of[c]
    <3>1. answer[c] \in Result /\ f_of[c] \in Nat
      BY DEF BackedInv, TypeOK
    <3>2. Backing(c, answer[c]) > f_of[c]
      BY <2>1 DEF BackedInv, AnswerBacked, Backing
    <3>3. \A y \in Result : Backing(c, y)' >= Backing(c, y) /\ Backing(c, y)' \in Nat
      BY <1>6, BackingType
    <3>4. /\ ExecutedWith(DigestOf(c), answer[c])' = {q \in Node : <<q, DigestOf(c), answer[c]>> \in replies'}
      BY DEF ExecutedWith, clientVars
    <3>5. Backing(c, answer[c])' >= Backing(c, answer[c])
      BY <3>1, <3>3 DEF Backing, ExecutedWith, clientVars
    <3>6. Backing(c, answer[c]) \in Nat
      BY <3>1, BackingType
    <3>7. Backing(c, answer[c])' \in Nat
      BY <3>1, <3>3 DEF Backing, ExecutedWith, clientVars
    <3> HIDE DEF Backing
    <3> QED
      BY <3>1, <3>2, <3>5, <3>6, <3>7
  <2> QED
    BY <2>1 DEF AnswerBacked, Backing, clientVars, DigestOf
<1> QED
  BY <1>8, <1>9, <1>10 DEF BackedInv

LEMMA BackedCommit ==
    ASSUME BackedInv, TypeOK', DistinctTimes, NEW m \in Message, _commit(m.dst, m)
    PROVE  BackedInv'
<1> DEFINE p == m.dst  d == m.d
           e == [log[p][d] EXCEPT !.commits = Capped(@ + 1, MaxCount)]
           e2 == [e EXCEPT !.committed_local = TRUE]
           reply == [type |-> "REPLY", dst |-> d.c, t |-> d.t, r |-> Outcome(p, d)]
<1>1. p \in Node /\ d \in Digest /\ net[m] > 0
  BY MessageFields DEF _commit, Handles
<1>2. log \in [Node -> [Digest -> Entry]] /\ net \in [Message -> Nat]
  BY DEF BackedInv, TypeOK
<1>3. log[p][d] \in Entry
  BY <1>1, <1>2
<1>4. e.committed_local = log[p][d].committed_local /\ e2.committed_local = TRUE
  BY <1>3 DEF Entry
<1>5. UNCHANGED clientVars
  BY DEF _commit
<1>6. \A c \in Call, x \in Result : ReplyTo(c, x) \in Message
  BY CallFields
<1>7. CASE ~Executes(e)
  <2>1. log' = [log EXCEPT ![p][d] = e] /\ net' = Replace(m, {}) /\ UNCHANGED replies
    BY <1>7 DEF _commit
  <2> HIDE DEF e, e2, p, d, reply
  <2>2. \A q \in Node, b \in Digest :
            log[q][b].committed_local => log'[q][b].committed_local
    BY <1>1, <1>2, <1>4, <2>1
  <2>3. \A c \in Call, x \in Result : net'[ReplyTo(c, x)] <= net[ReplyTo(c, x)]
    BY <1>1, <1>2, <1>6, <2>1, ReplaceBounds
  <2> QED
    BY <1>5, <2>1, <2>2, <2>3, BackedKept DEF clientVars
<1>8. CASE Executes(e)
  <2>1. /\ log' = [log EXCEPT ![p][d] = e2]
        /\ replies' = replies \cup {<<p, d, Outcome(p, d)>>}
        /\ net' = Replace(m, {reply})
    BY <1>8 DEF _commit
  <2>2. ~log[p][d].committed_local
    BY <1>4, <1>8 DEF Executes
  <2>3. Outcome(p, d) \in Result
    BY <1>1, DigestFields DEF BackedInv, TypeOK, Outcome, Op, Result
  <2>4. net' = Replace(m, {[type |-> "REPLY", dst |-> d.c, t |-> d.t, r |-> Outcome(p, d)]})
    BY <2>1
  <2> HIDE DEF e, e2, p, d, reply
  <2>5. log'[p][d].committed_local /\ \A q \in Node, b \in Digest :
            log[q][b].committed_local => log'[q][b].committed_local
    BY <1>1, <1>2, <1>4, <2>1
  <2> QED
    BY <1>1, <1>5, <2>1, <2>2, <2>3, <2>4, <2>5, BackedExecute
<1> QED
  BY <1>7, <1>8

\* A client counts a REPLY: it moves from the network to the tally.
LEMMA BackedReply ==
    ASSUME BackedInv, TypeOK', DistinctTimes, NEW m \in Message, OnReply(m.dst, m)
    PROVE  BackedInv'
<1> DEFINE L == Listeners(m.dst, m.t)
           won == {c \in L : Enough(c, m.r)}
<1>1. m.type = "REPLY" /\ net[m] > 0 /\ m.r \in Result
  BY MessageFields DEF OnReply, Handles
<1>2. net' = Replace(m, {}) /\ UNCHANGED <<f_of, log, replies>>
  BY DEF OnReply, replicaVars, historyVars
<1>3. /\ net \in [Message -> Nat] /\ net' \in [Message -> Nat]
      /\ tally \in [Call -> [Result -> Nat]]
      /\ tally' \in [Call -> [Result -> Nat]]
  BY DEF BackedInv, TypeOK
<1>4. ASSUME NEW c \in L PROVE c \in Call /\ m = ReplyTo(c, m.r)
  <2>1. c \in Call /\ ClientOf[c] = m.dst /\ TimeOf[c] = m.t
    BY DEF Listeners
  <2>2. m = [type |-> "REPLY", dst |-> m.dst, t |-> m.t, r |-> m.r]
    BY <1>1 DEF Message
  <2> QED
    BY <2>1, <2>2 DEF ReplyTo
<1>5. ASSUME NEW c \in Call, NEW x \in Result
      PROVE  tally'[c][x] + net'[ReplyTo(c, x)] <= tally[c][x] + net[ReplyTo(c, x)]
  <2>1. ReplyTo(c, x) \in Message
    BY CallFields
  <2>2. /\ tally[c][x] \in Nat /\ tally'[c][x] \in Nat
        /\ net[ReplyTo(c, x)] \in Nat /\ net'[ReplyTo(c, x)] \in Nat
    BY <1>3, <2>1
  <2>3. net'[ReplyTo(c, x)] <= net[ReplyTo(c, x)]
    BY <1>1, <1>2, <1>3, <2>1, ReplaceBounds
  <2>4. CASE c \in L /\ x = m.r
    <3>1. tally'[c][x] = tally[c][x] + 1
      <4>1. tally'[c] = [tally[c] EXCEPT ![m.r] = @ + 1]
        BY <2>4 DEF OnReply
      <4>2. tally[c] \in [Result -> Nat]
        BY <1>3
      <4> QED
        BY <1>1, <2>4, <4>1, <4>2
    <3>2. net'[ReplyTo(c, x)] <= net[ReplyTo(c, x)] - 1
      <4>1. m = ReplyTo(c, x)
        BY <1>4, <2>4
      <4>2. m \notin {}
        OBVIOUS
      <4> QED
        BY <1>1, <1>2, <1>3, <4>1, <4>2, ReplaceBounds
    <3> QED
      BY <2>2, <3>1, <3>2
  <2>5. CASE ~(c \in L /\ x = m.r)
    <3>1. tally'[c][x] = tally[c][x]
      <4>1. tally'[c] = tally[c] \/ tally'[c] = [tally[c] EXCEPT ![m.r] = @ + 1]
        BY DEF OnReply
      <4>2. c \notin L => tally'[c] = tally[c]
        BY DEF OnReply
      <4>3. tally[c] \in [Result -> Nat]
        BY <1>3
      <4> QED
        BY <1>1, <2>5, <4>1, <4>2, <4>3
    <3> QED
      BY <2>2, <2>3, <3>1
  <2> QED
    BY <2>4, <2>5
<1>6. ASSUME NEW c \in Call, NEW x \in Result PROVE Backing(c, x)' = Backing(c, x)
  BY <1>2 DEF Backing, ExecutedWith
<1>7. CountBacked'
  <2>1. ASSUME NEW c \in Call, NEW x \in Result
        PROVE  tally'[c][x] + net'[ReplyTo(c, x)] <= Backing(c, x)'
    <3>1. /\ tally[c][x] \in Nat /\ tally'[c][x] \in Nat
          /\ net[ReplyTo(c, x)] \in Nat /\ net'[ReplyTo(c, x)] \in Nat
      BY <1>3, CallFields
    <3>2. tally[c][x] + net[ReplyTo(c, x)] <= Backing(c, x)
      BY DEF BackedInv, CountBacked
    <3>3. Backing(c, x) \in Nat
      BY BackingType
    <3> HIDE DEF Backing, L, won
    <3> QED
      BY <1>5, <1>6, <3>1, <3>2, <3>3
  <2> QED
    BY <2>1 DEF CountBacked, ReplyTo
<1>8. ReplyMarked'
  BY <1>2 DEF BackedInv, ReplyMarked
<1>9. AnswerBacked'
  <2>1. ASSUME NEW c \in Call, call'[c] = "resolved"
        PROVE  Backing(c, answer[c])' > f_of[c]'
    <3>1. CASE c \notin won
      <4>1. call'[c] = call[c] /\ answer'[c] = answer[c] /\ f_of'[c] = f_of[c]
        BY <1>2, <3>1 DEF OnReply
      <4>2. Backing(c, answer[c]) > f_of[c]
        BY <2>1, <4>1 DEF BackedInv, AnswerBacked, Backing
      <4> QED
        BY <1>2, <4>1, <4>2 DEF Backing, ExecutedWith
    <3>2. CASE c \in won
      <4>1. answer'[c] = m.r /\ f_of'[c] = f_of[c]
        BY <1>2, <3>2 DEF OnReply
      <4>2. c \in L /\ tally[c][m.r] + 1 > f_of[c]
        BY <3>2 DEF Enough
      <4>3. tally[c][m.r] + net[m] <= Backing(c, m.r)
        BY <1>1, <1>4, <4>2 DEF BackedInv, CountBacked
      <4>4. /\ tally[c][m.r] \in Nat /\ net[m] \in Nat
            /\ f_of[c] \in Nat /\ Backing(c, m.r) \in Nat
        <5>1. f_of \in [Call -> Nat]
          BY DEF BackedInv, TypeOK
        <5> QED
          BY <1>1, <1>3, <5>1, BackingType
      <4>5. Backing(c, m.r) > f_of[c]
        <5> HIDE DEF Backing, L, won
        <5> QED
          BY <1>1, <4>2, <4>3, <4>4
      <4> QED
        BY <1>2, <4>1, <4>5 DEF Backing, ExecutedWith
    <3> QED
      BY <3>1, <3>2
  <2> QED
    BY <2>1 DEF AnswerBacked, Backing
<1> QED
  BY <1>7, <1>8, <1>9 DEF BackedInv

\* Making a call, ordering a request and losing a message back no answer.
LEMMA BackedOther ==
    ASSUME BackedInv, TypeOK', DistinctTimes,
           \/ \E c \in Call : request(c)
           \/ \E m \in Message : \/ _request(m.dst, m) \/ _pre_prepare(m.dst, m)
                                 \/ _prepare(m.dst, m) \/ Duplicate(m) \/ Lose(m)
           \/ \E p \in Node : Crash(p)
           \/ UNCHANGED vars
    PROVE  BackedInv'
<1>1. net \in [Message -> Nat]
  BY DEF BackedInv, TypeOK
<1>2. \A c \in Call, x \in Result :
          ReplyTo(c, x) \in Message /\ ReplyTo(c, x).type = "REPLY"
  BY CallFields, ReplyToFields
<1>3. ASSUME NEW c \in Call, request(c) PROVE BackedInv'
  <2>1. PICK r \in ReplicaSets :
            net' = Plus({[type |-> "REQUEST", dst |-> Primary(r), d |-> DigestOf(c)]})
    BY <1>3 DEF request
  <2>2. \A e \in Call, x \in Result : net'[ReplyTo(e, x)] <= net[ReplyTo(e, x)]
    BY <1>1, <1>2, <2>1, PlusBounds
  <2>3. UNCHANGED <<tally, replies, log, answer>>
    BY <1>3 DEF request, replicaVars
  <2>4. \A e \in Call : call'[e] = "resolved" => call[e] = "resolved" /\ f_of'[e] = f_of[e]
    BY <1>3 DEF request, BackedInv, TypeOK
  <2> QED
    BY <2>2, <2>3, <2>4, BackedKept
<1>4. ASSUME NEW m \in Message, _request(m.dst, m) \/ _pre_prepare(m.dst, m) \/ _prepare(m.dst, m)
      PROVE  BackedInv'
  <2>1. PICK M : net' = Replace(m, M) /\ \A x \in M : x.type # "REPLY"
    <3>1. ASSUME _request(m.dst, m)
          PROVE  \E M : net' = Replace(m, M) /\ \A x \in M : x.type # "REPLY"
      <4>1. m.type = "REQUEST"
        BY <3>1 DEF _request, Handles
      <4>2. \A q : [m EXCEPT !.dst = q].type = "REQUEST"
        BY <4>1 DEF Message
      <4>3. PICK r \in ReplicaSets :
                \/ net' = Replace(m, {[m EXCEPT !.dst = Primary(r)]})
                \/ net' = Replace(m, {[type |-> "PRE_PREPARE", dst |-> q, d |-> m.d,
                                       n |-> _next_sequence(m.dst)] : q \in Members(r)})
        BY <3>1 DEF _request
      <4>4. \A x \in {[m EXCEPT !.dst = Primary(r)]} : x.type # "REPLY"
        BY <4>2
      <4>5. \A x \in {[type |-> "PRE_PREPARE", dst |-> q, d |-> m.d,
                       n |-> _next_sequence(m.dst)] : q \in Members(r)} : x.type # "REPLY"
        OBVIOUS
      <4> QED
        BY <4>3, <4>4, <4>5
    <3>2. ASSUME _pre_prepare(m.dst, m)
          PROVE  \E M : net' = Replace(m, M) /\ \A x \in M : x.type # "REPLY"
      BY <3>2 DEF _pre_prepare, _multicast
    <3>3. ASSUME _prepare(m.dst, m)
          PROVE  \E M : net' = Replace(m, M) /\ \A x \in M : x.type # "REPLY"
      BY <3>3 DEF _prepare, _multicast
    <3> QED
      BY <1>4, <3>1, <3>2, <3>3
  <2>2. net[m] > 0 /\ UNCHANGED clientVars
    BY <1>4 DEF _request, _pre_prepare, _prepare, Handles
  <2>3. \A e \in Call, x \in Result : net'[ReplyTo(e, x)] <= net[ReplyTo(e, x)]
    BY <1>1, <1>2, <2>1, <2>2, ReplaceBounds
  <2>4. /\ UNCHANGED replies
        /\ \A p \in Node, d \in Digest :
               log[p][d].committed_local => log'[p][d].committed_local
    BY <1>4, MarkKept DEF BackedInv, _request, historyVars
  <2> QED
    BY <2>2, <2>3, <2>4, BackedKept DEF clientVars
<1>5. ASSUME NEW m \in Message, Duplicate(m) PROVE BackedInv'
  <2>1. faults.dup \in 0 .. 0 /\ faults.dup < 0
    BY <1>5 DEF Duplicate, DistinctTimes, BackedInv, TypeOK
  <2> QED
    BY <2>1
<1>6. ASSUME NEW m \in Message, Lose(m) PROVE BackedInv'
  <2>1. net[m] > 0 /\ net' = Replace(m, {}) /\ UNCHANGED <<clientVars, log, replies>>
    BY <1>6 DEF Lose, replicaVars, historyVars
  <2>2. \A e \in Call, x \in Result : net'[ReplyTo(e, x)] <= net[ReplyTo(e, x)]
    BY <1>1, <1>2, <2>1, ReplaceBounds
  <2> QED
    BY <2>1, <2>2, BackedKept DEF clientVars
<1>7. ASSUME (\E p \in Node : Crash(p)) \/ UNCHANGED vars PROVE BackedInv'
  <2>1. UNCHANGED <<net, clientVars, log, replies>>
    BY <1>7 DEF Crash, vars, clientVars, replicaVars, historyVars
  <2>2. \A e \in Call, x \in Result : net'[ReplyTo(e, x)] <= net[ReplyTo(e, x)]
    BY <1>1, <1>2, <2>1
  <2> QED
    BY <2>1, <2>2, BackedKept DEF clientVars
<1> QED
  BY <1>3, <1>4, <1>5, <1>6, <1>7

\* As long as a client makes one call a millisecond and no message is delivered
\* twice, a call is answered with a result only after more than f different
\* replicas executed its operation with that result, whatever replica sets the
\* lookups of client and replicas returned.
THEOREM AnswerBackedCorrect ==
    ASSUME DistinctTimes
    PROVE  Spec => []AnswerBacked
<1>1. BackedInv /\ TypeOK' /\ [Next]_vars => BackedInv'
  <2> SUFFICES ASSUME BackedInv, TypeOK', [Next]_vars PROVE BackedInv'
    OBVIOUS
  <2>1. ASSUME NEW m \in Message, _commit(m.dst, m) PROVE BackedInv'
    BY <2>1, BackedCommit
  <2>2. ASSUME NEW m \in Message, OnReply(m.dst, m) PROVE BackedInv'
    BY <2>2, BackedReply
  <2> QED
    BY <2>1, <2>2, BackedOther DEF Next
<1>2. BackedInv => AnswerBacked
  BY DEF BackedInv
<1> QED
  BY <1>1, <1>2, BackedInit, TypeCorrect, PTL DEF Spec

-----------------------------------------------------------------------------
\* No COMMIT without 2f nodes that accepted the PRE_PREPARE.  The invariant
\* follows an operation through its life: one REQUEST wanders until a node
\* orders it, that node's PRE_PREPAREs reach every replica at most once, and a
\* replica that accepts one sends every other at most one PREPARE.  So the
\* PREPAREs that a replica has counted and those under way to it are no more
\* than the replicas that accepted.

Ordering == {x \in Message : x.type \in {"REQUEST", "PRE_PREPARE"}}

\* A REQUEST under way is all that is under way to order its operation, and no
\* two PRE_PREPAREs of an operation go to the same node.
OneOrder ==
    \A x, y \in Ordering : net[x] > 0 /\ net[y] > 0 /\ x.d = y.d =>
        /\ net[x] <= 1
        /\ (x.type = "REQUEST" \/ x.dst = y.dst) => x = y

NotYetAccepted ==
    \A x \in Ordering : net[x] > 0 =>
        /\ x.type = "REQUEST" => preparers[x.d] = {}
        /\ x.dst \notin preparers[x.d]

OnceCalled ==
    \A c \in Call : call[c] = "idle" =>
        /\ preparers[DigestOf(c)] = {}
        /\ \A x \in Ordering : x.d = DigestOf(c) => net[x] = 0

PrepareTo(q, d) == [type |-> "PREPARE", dst |-> q, d |-> d]

Accepted(d) == Cardinality(preparers[d])

PreparesCounted ==
    \A q \in Node, d \in Digest :
        log[q][d].prepares + net[PrepareTo(q, d)] <= Accepted(d)

CommitsLogged ==
    \A d \in Digest : \A p \in committers[d] : log[p][d].pre # <<>>

OrderInv == OneOrder /\ NotYetAccepted /\ OnceCalled

CertInv == TypeOK /\ OrderInv /\ PreparesCounted /\ CommitsLogged /\ PreparedCertificate

\* No client makes the same call twice in one millisecond, and the network
\* delivers no message twice.
DistinctCalls ==
    /\ \A c, e \in Call : DigestOf(c) = DigestOf(e) => c = e
    /\ MaxDuplicated = 0

LEMMA CertFields ==
    /\ \A q \in Node, d \in Digest :
           /\ PrepareTo(q, d) \in Message \ Ordering
           /\ PrepareTo(q, d).type = "PREPARE"
           /\ PrepareTo(q, d).dst = q
           /\ PrepareTo(q, d).d = d
    /\ \A x \in Ordering : x \in Message /\ x.dst \in Node /\ x.d \in Digest
BY MessageFields DEF PrepareTo, Message, Ordering

LEMMA AcceptedType ==
    ASSUME NEW A \in SUBSET Node
    PROVE  /\ Cardinality(A) \in Nat
           /\ \A p \in Node \ A : Cardinality(A \cup {p}) = Cardinality(A) + 1
           /\ \A p \in A : A \cup {p} = A
<1>1. IsFiniteSet(A)
  BY ConstantsAssumption, FS_Subset
<1> QED
  BY <1>1, FS_CardinalityType, FS_AddElement

LEMMA CertInit == Init => CertInv
<1> SUFFICES ASSUME Init PROVE CertInv
  OBVIOUS
<1>1. OrderInv
  BY CertFields DEF Init, NoneUnderWay, OrderInv, OneOrder, NotYetAccepted, OnceCalled,
     Digest
<1>2. PreparesCounted
  <2>1. ASSUME NEW q \in Node, NEW d \in Digest
        PROVE  /\ log[q][d].prepares = 0 /\ net[PrepareTo(q, d)] = 0
               /\ Accepted(d) = 0
    BY CertFields, FS_EmptySet DEF Init, NoneUnderWay, EmptyEntry, Accepted
  <2> QED
    BY <2>1 DEF PreparesCounted
<1> QED
  BY <1>1, <1>2, TypeInit DEF Init, CertInv, CommitsLogged, PreparedCertificate

\* A step that sends nothing about an ordering, makes no call and takes no part
\* in an agreement.
LEMMA OrderKept ==
    ASSUME OrderInv, net \in [Message -> Nat], net' \in [Message -> Nat],
           UNCHANGED preparers,
           \A x \in Ordering : net'[x] <= net[x],
           \A c \in Call : call'[c] = "idle" => call[c] = "idle"
    PROVE  OrderInv'
<1>1. \A x \in Ordering : net[x] \in Nat /\ net'[x] \in Nat /\ net'[x] <= net[x]
  BY CertFields
<1>2. OneOrder'
  BY <1>1 DEF OrderInv, OneOrder
<1>3. NotYetAccepted'
  BY <1>1 DEF OrderInv, NotYetAccepted
<1>4. OnceCalled'
  BY <1>1 DEF OrderInv, OnceCalled
<1> QED
  BY <1>2, <1>3, <1>4 DEF OrderInv

\* One more REQUEST or set of PRE_PREPAREs of an operation that nothing else
\* under way orders and nobody has accepted.
LEMMA OrderSent ==
    ASSUME OrderInv, net \in [Message -> Nat], net' \in [Message -> Nat],
           UNCHANGED preparers,
           NEW d \in Digest, preparers[d] = {}, NEW M,
           \A x \in Ordering \ M : net'[x] <= net[x] /\ (x.d = d => net'[x] = 0),
           \A x \in Ordering \cap M : x.d = d /\ net'[x] <= 1,
           \A x, y \in Ordering \cap M : x.type = "REQUEST" \/ x.dst = y.dst => x = y,
           \A c \in Call : call'[c] = "idle" => call[c] = "idle" /\ DigestOf(c) # d
    PROVE  OrderInv'
<1>1. \A x \in Ordering : net[x] \in Nat /\ net'[x] \in Nat
  BY CertFields
<1>2. \A x \in Ordering : net'[x] > 0 => (x.d = d /\ x \in M) \/ (x.d # d /\ net[x] > 0)
  BY <1>1
<1>3. OneOrder'
  <2> SUFFICES ASSUME NEW x \in Ordering, NEW y \in Ordering,
                      net'[x] > 0, net'[y] > 0, x.d = y.d
               PROVE  net'[x] <= 1 /\ (x.type = "REQUEST" \/ x.dst = y.dst => x = y)
    BY DEF OneOrder
  <2>1. CASE x.d = d
    BY <1>2, <2>1
  <2>2. CASE x.d # d
    <3>1. net[x] > 0 /\ net[y] > 0 /\ net'[x] <= net[x]
      BY <1>2, <2>2
    <3> QED
      BY <1>1, <3>1 DEF OrderInv, OneOrder
  <2> QED
    BY <2>1, <2>2
<1>4. NotYetAccepted'
  <2> SUFFICES ASSUME NEW x \in Ordering, net'[x] > 0
               PROVE  /\ x.type = "REQUEST" => preparers[x.d] = {}
                      /\ x.dst \notin preparers[x.d]
    BY DEF NotYetAccepted
  <2> QED
    BY <1>2 DEF OrderInv, NotYetAccepted
<1>5. OnceCalled'
  <2> SUFFICES ASSUME NEW c \in Call, call'[c] = "idle"
               PROVE  /\ preparers[DigestOf(c)] = {}
                      /\ \A x \in Ordering : x.d = DigestOf(c) => net'[x] = 0
    BY DEF OnceCalled
  <2>1. call[c] = "idle" /\ DigestOf(c) # d
    OBVIOUS
  <2>2. \A x \in Ordering : x.d = DigestOf(c) => net[x] = 0
    BY <2>1 DEF OrderInv, OnceCalled
  <2>3. \A x \in Ordering : x.d = DigestOf(c) => net'[x] = 0
    BY <1>1, <1>2, <2>1, <2>2
  <2> QED
    BY <2>1, <2>3 DEF OrderInv, OnceCalled
<1> QED
  BY <1>3, <1>4, <1>5 DEF OrderInv

\* Steps that send no PREPARE, accept nothing and change no certificate.
LEMMA CertKept ==
    ASSUME CertInv, TypeOK', OrderInv', UNCHANGED <<preparers, committers>>,
           \A q \in Node, d \in Digest :
               /\ net'[PrepareTo(q, d)] <= net[PrepareTo(q, d)]
               /\ log'[q][d].prepares = log[q][d].prepares
               /\ log'[q][d].pre = log[q][d].pre
    PROVE  CertInv'
<1>1. PreparesCounted'
  <2> SUFFICES ASSUME NEW q \in Node, NEW d \in Digest
               PROVE  log'[q][d].prepares + net'[PrepareTo(q, d)] <= Accepted(d)'
    BY DEF PreparesCounted, PrepareTo
  <2>1. /\ net[PrepareTo(q, d)] \in Nat /\ net'[PrepareTo(q, d)] \in Nat
        /\ log[q][d].prepares \in Nat
    BY CertFields, ConstantsAssumption DEF CertInv, TypeOK, Entry
  <2>2. Accepted(d)' = Accepted(d) /\ Accepted(d) \in Nat
    BY AcceptedType DEF Accepted, CertInv, TypeOK
  <2>3. log[q][d].prepares + net[PrepareTo(q, d)] <= Accepted(d)
    BY DEF CertInv, PreparesCounted
  <2>4. /\ net'[PrepareTo(q, d)] <= net[PrepareTo(q, d)]
        /\ log'[q][d].prepares = log[q][d].prepares
    OBVIOUS
  <2> QED
    BY <2>1, <2>2, <2>3, <2>4
<1>2. \A d \in Digest : committers[d] \subseteq Node
  BY DEF CertInv, TypeOK
<1>3. CommitsLogged'
  BY <1>2 DEF CertInv, CommitsLogged
<1>4. PreparedCertificate'
  BY <1>2 DEF CertInv, PreparedCertificate
<1> QED
  BY <1>1, <1>3, <1>4 DEF CertInv

LEMMA CertCall ==
    ASSUME CertInv, TypeOK', DistinctCalls, NEW c \in Call, request(c)
    PROVE  CertInv'
<1> DEFINE d == DigestOf(c)
           M(p) == {[type |-> "REQUEST", dst |-> p, d |-> d]}
<1>1. d \in Digest
  BY DEF Digest
<1>2. PICK p : p \in Node /\ net' = Plus(M(p))
  <2>1. PICK r \in ReplicaSets : net' = Plus(M(Primary(r)))
    BY DEF request
  <2>2. Primary(r) \in Node
    BY ConstantsAssumption DEF Primary
  <2> QED
    BY <2>1, <2>2
<1>3. /\ net \in [Message -> Nat] /\ net' \in [Message -> Nat]
      /\ call \in [Call -> {"idle", "waiting", "resolved"}]
  BY DEF CertInv, TypeOK
<1>4. /\ \A x \in Message \ M(p) : net'[x] <= net[x]
      /\ \A x \in Message \cap M(p) : net'[x] <= net[x] + 1
  <2> HIDE DEF M
  <2> QED
    BY <1>2, <1>3, PlusBounds
<1>5. call[c] = "idle" /\ call' = [call EXCEPT ![c] = "waiting"]
  BY DEF request
<1>6. UNCHANGED <<preparers, committers, log>>
  BY DEF request, replicaVars
<1>7. preparers[d] = {} /\ \A x \in Ordering : x.d = d => net[x] = 0
  BY <1>5 DEF CertInv, OrderInv, OnceCalled
<1>8. \A x \in M(p) : x.type = "REQUEST" /\ x.d = d
  OBVIOUS
<1>9. \A x, y \in Ordering \cap M(p) : x.type = "REQUEST" \/ x.dst = y.dst => x = y
  OBVIOUS
<1>10. \A e \in Call : call'[e] = "idle" => call[e] = "idle" /\ DigestOf(e) # d
  BY <1>3, <1>5 DEF DistinctCalls
<1>11. \A x \in Ordering : net[x] \in Nat /\ net'[x] \in Nat
  BY <1>3, CertFields
<1> HIDE DEF M, d
<1>12. \A x \in Ordering \ M(p) : net'[x] <= net[x] /\ (x.d = d => net'[x] = 0)
  BY <1>4, <1>7, <1>11, CertFields
<1>13. \A x \in Ordering \cap M(p) : x.d = d /\ net'[x] <= 1
  BY <1>4, <1>7, <1>8, <1>11, CertFields
<1>14. OrderInv'
  <2>1. OrderInv
    BY DEF CertInv
  <2> DEFINE N == M(p)
  <2>2. /\ \A x \in Ordering \ N : net'[x] <= net[x] /\ (x.d = d => net'[x] = 0)
        /\ \A x \in Ordering \cap N : x.d = d /\ net'[x] <= 1
        /\ \A x, y \in Ordering \cap N : x.type = "REQUEST" \/ x.dst = y.dst => x = y
    BY <1>9, <1>12, <1>13
  <2> HIDE DEF N
  <2> QED
    BY <1>1, <1>3, <1>6, <1>7, <1>10, <2>1, <2>2, OrderSent
<1>15. \A q \in Node, b \in Digest : net'[PrepareTo(q, b)] <= net[PrepareTo(q, b)]
  BY <1>4, <1>8, CertFields
<1> QED
  BY <1>6, <1>14, <1>15, CertKept

\* A REQUEST is passed on, or ordered.
LEMMA CertRequest ==
    ASSUME CertInv, TypeOK', NEW m \in Message, _request(m.dst, m)
    PROVE  CertInv'
<1> DEFINE d == m.d
<1>1. m.type = "REQUEST" /\ net[m] > 0 /\ d \in Digest /\ m \in Ordering
  BY MessageFields DEF _request, Handles, Ordering
<1>2. PICK M : /\ net' = Replace(m, M) /\ m \notin M
               /\ \A x \in M : x.type \in {"REQUEST", "PRE_PREPARE"} /\ x.d = d
               /\ \A x, y \in M : x.type = "REQUEST" \/ x.dst = y.dst => x = y
  <2>1. PICK r \in ReplicaSets :
            \/ /\ Primary(r) # m.dst
               /\ net' = Replace(m, {[m EXCEPT !.dst = Primary(r)]})
            \/ net' = Replace(m, {[type |-> "PRE_PREPARE", dst |-> q, d |-> m.d,
                                   n |-> _next_sequence(m.dst)] : q \in Members(r)})
    BY DEF _request
  <2>2. ASSUME Primary(r) # m.dst
        PROVE  /\ [m EXCEPT !.dst = Primary(r)].type = "REQUEST"
               /\ [m EXCEPT !.dst = Primary(r)].d = d
               /\ [m EXCEPT !.dst = Primary(r)] # m
    BY <1>1, <2>2 DEF Message
  <2>3. CASE /\ Primary(r) # m.dst
             /\ net' = Replace(m, {[m EXCEPT !.dst = Primary(r)]})
    <3> WITNESS {[m EXCEPT !.dst = Primary(r)]}
    <3> QED
      BY <2>2, <2>3
  <2>4. CASE net' = Replace(m, {[type |-> "PRE_PREPARE", dst |-> q, d |-> m.d,
                                 n |-> _next_sequence(m.dst)] : q \in Members(r)})
    <3> DEFINE P == {[type |-> "PRE_PREPARE", dst |-> q, d |-> m.d,
                      n |-> _next_sequence(m.dst)] : q \in Members(r)}
    <3>1. \A x \in P : x.type = "PRE_PREPARE" /\ x.d = d
      OBVIOUS
    <3>2. \A x, y \in P : x.dst = y.dst => x = y
      OBVIOUS
    <3>3. m \notin P
      BY <1>1, <3>1
    <3>4. net' = Replace(m, P)
      BY <2>4
    <3> HIDE DEF P
    <3> WITNESS P
    <3> QED
      BY <3>1, <3>2, <3>3, <3>4
  <2> QED
    BY <2>1, <2>3, <2>4
<1>3. net \in [Message -> Nat] /\ net' \in [Message -> Nat]
  BY DEF CertInv, TypeOK
<1>4. /\ \A x \in Message \ M : net'[x] <= net[x]
      /\ \A x \in Message \cap M : net'[x] <= net[x] + 1
      /\ net'[m] <= net[m] - 1
  BY <1>1, <1>2, <1>3, ReplaceBounds
<1>5. UNCHANGED <<preparers, committers, log, call>>
  BY DEF _request, clientVars, historyVars
<1>6. /\ preparers[d] = {} /\ net[m] <= 1
      /\ \A x \in Ordering : x.d = d /\ x # m => net[x] = 0
  <2>1. \A x \in Ordering : net[x] \in Nat
    BY <1>3, CertFields
  <2> QED
    BY <1>1, <2>1 DEF CertInv, OrderInv, OneOrder, NotYetAccepted
<1>7. \A c \in Call : call[c] = "idle" => DigestOf(c) # d
  BY <1>1 DEF CertInv, OrderInv, OnceCalled
<1>8. \A x \in Ordering : net[x] \in Nat /\ net'[x] \in Nat
  BY <1>3, CertFields
<1> HIDE DEF d
<1>9. \A x \in Ordering \ M : net'[x] <= net[x] /\ (x.d = d => net'[x] = 0)
  <2>1. net'[m] = 0
    BY <1>1, <1>4, <1>6, <1>8
  <2> QED
    BY <1>4, <1>6, <1>8, <2>1, CertFields
<1>10. \A x \in Ordering \cap M : x.d = d /\ net'[x] <= 1
  BY <1>2, <1>4, <1>6, <1>8, CertFields
<1>11. OrderInv'
  BY <1>1, <1>2, <1>3, <1>5, <1>6, <1>7, <1>9, <1>10, OrderSent DEF CertInv
<1>12. \A q \in Node, b \in Digest : net'[PrepareTo(q, b)] <= net[PrepareTo(q, b)]
  BY <1>2, <1>4, CertFields
<1> QED
  BY <1>5, <1>11, <1>12, CertKept

\* A replica accepts a PRE_PREPARE: one more has, and everyone gets at most one
\* PREPARE more.
LEMMA CertPrePrepare ==
    ASSUME CertInv, TypeOK', NEW m \in Message, _pre_prepare(m.dst, m)
    PROVE  CertInv'
<1> DEFINE p == m.dst  d == m.d
<1>1. /\ m.type = "PRE_PREPARE" /\ net[m] > 0 /\ p \in Node /\ d \in Digest
      /\ m \in Ordering
  BY MessageFields DEF _pre_prepare, Handles, Ordering
<1>2. /\ net \in [Message -> Nat] /\ net' \in [Message -> Nat]
      /\ log \in [Node -> [Digest -> Entry]]
      /\ preparers \in [Digest -> SUBSET Node]
      /\ committers \in [Digest -> SUBSET Node]
  BY DEF CertInv, TypeOK
<1>3. UNCHANGED <<call, committers>>
  BY DEF _pre_prepare, clientVars
<1>4. \A x \in Ordering : net[x] \in Nat /\ net'[x] \in Nat
  BY <1>2, CertFields
<1>5. CASE net' = Replace(m, {}) /\ UNCHANGED <<log, preparers>>
  <2>1. \A x \in Message : net'[x] <= net[x]
    BY <1>1, <1>2, <1>5, ReplaceBounds
  <2>2. OrderInv'
    BY <1>2, <1>3, <1>5, <2>1, OrderKept DEF CertInv, Ordering
  <2> QED
    BY <1>3, <1>5, <2>1, <2>2, CertFields, CertKept
<1>6. ASSUME NEW r \in ReplicaSets,
             log' = [log EXCEPT ![p][d] = Logged(@, r)],
             net' = Replace(m, _multicast(r, "PREPARE", d)),
             preparers' = [preparers EXCEPT ![d] = @ \cup {p}]
      PROVE  CertInv'
  <2> DEFINE M == _multicast(r, "PREPARE", d)
  <2>1. \A x \in M : x.type = "PREPARE" /\ x.d = d
    BY DEF _multicast
  <2>2. /\ \A x \in Message \ M : net'[x] <= net[x]
        /\ \A x \in Message \cap M : net'[x] <= net[x] + 1
        /\ net'[m] <= net[m] - 1
    <3>1. m \notin M /\ net' = Replace(m, M)
      BY <1>1, <1>6, <2>1
    <3> HIDE DEF M
    <3> QED
      BY <1>1, <1>2, <3>1, ReplaceBounds
  <2>3. \A q \in Node, b \in Digest :
            /\ log'[q][b].prepares = log[q][b].prepares
            /\ log[q][b].pre # <<>> => log'[q][b].pre = log[q][b].pre
    <3>1. log[p][d] \in Entry
      BY <1>1, <1>2
    <3>2. /\ Logged(log[p][d], r).prepares = log[p][d].prepares
          /\ log[p][d].pre # <<>> => Logged(log[p][d], r).pre = log[p][d].pre
      BY <3>1 DEF Logged, Entry
    <3>3. log' = [log EXCEPT ![p][d] = Logged(log[p][d], r)]
      BY <1>6
    <3> HIDE DEF p, d
    <3> QED
      BY <1>1, <1>2, <3>2, <3>3
  <2>4. /\ preparers'[d] = preparers[d] \cup {p}
        /\ \A b \in Digest : b # d => preparers'[b] = preparers[b]
    BY <1>1, <1>2, <1>6
  <2>5. p \notin preparers[d] /\ net[m] <= 1
    BY <1>1 DEF CertInv, OrderInv, NotYetAccepted, OneOrder
  <2> HIDE DEF M, p, d
  <2>6. \A x \in Ordering : net'[x] <= net[x]
    BY <2>1, <2>2, CertFields DEF Ordering
  <2>7. \A b \in Digest : /\ Accepted(b) \in Nat
                          /\ Accepted(b)' = Accepted(b) + (IF b = d THEN 1 ELSE 0)
    BY <1>1, <1>2, <2>4, <2>5, AcceptedType DEF Accepted
  <2>8. OneOrder'
    BY <1>4, <2>6 DEF CertInv, OrderInv, OneOrder
  <2>9. NotYetAccepted'
    <3> SUFFICES ASSUME NEW x \in Ordering, net'[x] > 0
                 PROVE  /\ x.type = "REQUEST" => preparers'[x.d] = {}
                        /\ x.dst \notin preparers'[x.d]
      BY DEF NotYetAccepted
    <3>1. net[x] > 0 /\ x # m
      BY <1>1, <1>4, <2>2, <2>5, <2>6
    <3>2. /\ x.type = "REQUEST" => preparers[x.d] = {}
          /\ x.dst \notin preparers[x.d]
      BY <3>1 DEF CertInv, OrderInv, NotYetAccepted
    <3>3. CASE x.d # d
      BY <2>4, <3>2, <3>3, CertFields
    <3>4. CASE x.d = d
      <4>1. x.type # "REQUEST" /\ x.dst # m.dst
        BY <1>1, <3>1, <3>4 DEF CertInv, OrderInv, OneOrder, d
      <4> QED
        BY <2>4, <3>2, <3>4, <4>1 DEF p
    <3> QED
      BY <3>3, <3>4
  <2>10. OnceCalled'
    <3> SUFFICES ASSUME NEW c \in Call, call[c] = "idle"
                 PROVE  /\ preparers'[DigestOf(c)] = {}
                        /\ \A x \in Ordering : x.d = DigestOf(c) => net'[x] = 0
      BY <1>3 DEF OnceCalled
    <3>1. /\ preparers[DigestOf(c)] = {}
          /\ \A x \in Ordering : x.d = DigestOf(c) => net[x] = 0
      BY DEF CertInv, OrderInv, OnceCalled
    <3>2. DigestOf(c) # d /\ DigestOf(c) \in Digest
      BY <1>1, <3>1 DEF d, Digest
    <3> QED
      BY <1>4, <2>4, <2>6, <3>1, <3>2
  <2>11. PreparesCounted'
    <3> SUFFICES ASSUME NEW q \in Node, NEW b \in Digest
                 PROVE  log'[q][b].prepares + net'[PrepareTo(q, b)] <= Accepted(b)'
      BY DEF PreparesCounted, PrepareTo
    <3>1. /\ net[PrepareTo(q, b)] \in Nat /\ net'[PrepareTo(q, b)] \in Nat
          /\ log[q][b].prepares \in Nat
      BY <1>2, CertFields, ConstantsAssumption DEF Entry
    <3>2. net'[PrepareTo(q, b)] <= net[PrepareTo(q, b)] + (IF b = d THEN 1 ELSE 0)
      <4>1. CASE b = d
        BY <2>2, <3>1, <4>1, CertFields
      <4>2. CASE b # d
        <5>1. PrepareTo(q, b) \in Message \ M
          BY <2>1, <4>2, CertFields
        <5> QED
          BY <2>2, <3>1, <4>2, <5>1
      <4> QED
        BY <4>1, <4>2
    <3>3. log[q][b].prepares + net[PrepareTo(q, b)] <= Accepted(b)
      BY DEF CertInv, PreparesCounted
    <3>4. log'[q][b].prepares = log[q][b].prepares
      BY <2>3
    <3> QED
      BY <2>7, <3>1, <3>2, <3>3, <3>4
  <2>12. ASSUME NEW b \in Digest, NEW q \in committers[b]
         PROVE  /\ log'[q][b].pre # <<>>
                /\ Accepted(b)' >= 2 * compute_f(log'[q][b].pre)
    <3>1. q \in Node /\ log[q][b].pre # <<>>
      BY <1>2 DEF CertInv, CommitsLogged
    <3>2. log'[q][b].pre = log[q][b].pre
      BY <2>3, <3>1
    <3>3. Accepted(b) >= 2 * compute_f(log[q][b].pre)
      BY DEF CertInv, PreparedCertificate, Accepted
    <3>4. compute_f(log[q][b].pre) \in Nat
      <4>1. log[q][b] \in Entry
        BY <1>2, <3>1
      <4>2. log[q][b].pre \in ReplicaSets
        BY <3>1, <4>1 DEF Entry
      <4> QED
        BY <4>2, ComputeFType
    <3> QED
      BY <2>7, <3>1, <3>2, <3>3, <3>4
  <2>13. CommitsLogged' /\ PreparedCertificate'
    BY <1>3, <2>12 DEF CommitsLogged, PreparedCertificate, Accepted
  <2> QED
    BY <2>8, <2>9, <2>10, <2>11, <2>13 DEF CertInv, OrderInv
<1> QED
  BY <1>5, <1>6 DEF _pre_prepare

\* A PREPARE moves from the network into the log.
LEMMA CertPrepare ==
    ASSUME CertInv, TypeOK', NEW m \in Message, _prepare(m.dst, m)
    PROVE  CertInv'
<1> DEFINE p == m.dst  d == m.d
           e == [log[p][d] EXCEPT !.prepares = Capped(@ + 1, MaxCount)]
<1>1. /\ m.type = "PREPARE" /\ net[m] > 0 /\ p \in Node /\ d \in Digest
      /\ m = PrepareTo(p, d)
  BY MessageFields DEF _prepare, Handles, Message, PrepareTo
<1>2. /\ net \in [Message -> Nat] /\ net' \in [Message -> Nat]
      /\ log \in [Node -> [Digest -> Entry]]
      /\ preparers \in [Digest -> SUBSET Node]
      /\ committers \in [Digest -> SUBSET Node]
  BY DEF CertInv, TypeOK
<1>3. UNCHANGED <<call, preparers>>
  BY DEF _prepare, clientVars
<1>4. PICK M : net' = Replace(m, M) /\ \A x \in M : x.type = "COMMIT"
  <2>1. \/ net' = Replace(m, _multicast(e.pre, "COMMIT", d))
        \/ net' = Replace(m, {})
    BY DEF _prepare
  <2>2. \A x \in _multicast(e.pre, "COMMIT", d) : x.type = "COMMIT"
    BY DEF _multicast
  <2> HIDE DEF e, d
  <2> QED
    BY <2>1, <2>2
<1>5. /\ \A x \in Message : x.type # "COMMIT" => net'[x] <= net[x]
      /\ net'[m] <= net[m] - 1
  <2>1. m \notin M /\ \A x \in Message : x.type # "COMMIT" => x \in Message \ M
    BY <1>1, <1>4
  <2> QED
    BY <1>1, <1>2, <1>4, <2>1, ReplaceBounds
<1>6. OrderInv'
  BY <1>2, <1>3, <1>5, OrderKept DEF CertInv, Ordering
<1>7. /\ log' = [log EXCEPT ![p][d] = e]
      /\ \/ Prepared(e) /\ committers' = [committers EXCEPT ![d] = committers[d] \cup {p}]
         \/ UNCHANGED committers
  BY DEF _prepare
<1>8. /\ e.pre = log[p][d].pre /\ e.prepares \in Nat
      /\ e.prepares <= log[p][d].prepares + 1
  <2>1. log[p][d] \in Entry
    BY <1>1, <1>2
  <2>2. MaxCount \in Nat /\ log[p][d].prepares \in 0 .. MaxCount
    BY <2>1, ConstantsAssumption DEF Entry
  <2>3. /\ Capped(log[p][d].prepares + 1, MaxCount) <= log[p][d].prepares + 1
        /\ Capped(log[p][d].prepares + 1, MaxCount) \in Nat
    BY <2>2 DEF Capped
  <2>4. e.prepares = Capped(log[p][d].prepares + 1, MaxCount) /\ e.pre = log[p][d].pre
    BY <2>1 DEF Entry
  <2> QED
    BY <2>3, <2>4
<1>9. \A b \in Digest : Accepted(b)' = Accepted(b) /\ Accepted(b) \in Nat
  BY <1>2, <1>3, AcceptedType DEF Accepted
<1> HIDE DEF e, p, d
<1>10. /\ log'[p][d] = e
       /\ \A q \in Node, b \in Digest : q # p \/ b # d => log'[q][b] = log[q][b]
  BY <1>1, <1>2, <1>7
<1>11. PreparesCounted'
  <2> SUFFICES ASSUME NEW q \in Node, NEW b \in Digest
               PROVE  log'[q][b].prepares + net'[PrepareTo(q, b)] <= Accepted(b)'
    BY DEF PreparesCounted, PrepareTo
  <2>1. /\ net[PrepareTo(q, b)] \in Nat /\ net'[PrepareTo(q, b)] \in Nat
        /\ log[q][b].prepares \in Nat
    BY <1>2, CertFields, ConstantsAssumption DEF Entry
  <2>2. log[q][b].prepares + net[PrepareTo(q, b)] <= Accepted(b)
    BY DEF CertInv, PreparesCounted
  <2>3. CASE q # p \/ b # d
    <3>1. net'[PrepareTo(q, b)] <= net[PrepareTo(q, b)]
      BY <1>5, CertFields
    <3> QED
      BY <1>9, <1>10, <2>1, <2>2, <2>3, <3>1
  <2>4. CASE q = p /\ b = d
    <3>1. net'[PrepareTo(q, b)] <= net[PrepareTo(q, b)] - 1
      BY <1>1, <1>5, <2>4
    <3>2. log'[q][b].prepares <= log[q][b].prepares + 1 /\ log'[q][b].prepares \in Nat
      BY <1>8, <1>10, <2>4
    <3> QED
      BY <1>9, <2>1, <2>2, <3>1, <3>2
  <2> QED
    BY <2>3, <2>4
<1>12. ASSUME NEW b \in Digest, NEW q \in committers'[b]
       PROVE  /\ log'[q][b].pre # <<>>
              /\ Accepted(b)' >= 2 * compute_f(log'[q][b].pre)
  <2>1. CASE q \in committers[b]
    <3>1. q \in Node /\ log[q][b].pre # <<>>
      BY <1>2, <2>1 DEF CertInv, CommitsLogged
    <3>2. log'[q][b].pre = log[q][b].pre
      BY <1>8, <1>10, <3>1
    <3>3. Accepted(b) >= 2 * compute_f(log[q][b].pre)
      BY <2>1 DEF CertInv, PreparedCertificate, Accepted
    <3> QED
      BY <1>9, <3>1, <3>2, <3>3
  <2>2. CASE q \notin committers[b]
    <3>1. Prepared(e) /\ q = p /\ b = d
      BY <1>1, <1>2, <1>7, <2>2
    <3>2. e.pre # <<>> /\ e.prepares >= 2 * compute_f(e.pre)
      BY <3>1 DEF Prepared
    <3>3. e.prepares + net'[m] <= Accepted(d)'
      BY <1>1, <1>10, <1>11 DEF PreparesCounted, PrepareTo
    <3>4. net'[m] \in Nat
      BY <1>2
    <3>5. compute_f(e.pre) \in Nat
      <4>1. log'[p][d] \in Entry
        BY <1>1 DEF TypeOK
      <4>2. e.pre \in ReplicaSets
        BY <1>10, <3>2, <4>1 DEF Entry
      <4> QED
        BY <4>2, ComputeFType
    <3>6. Accepted(d)' >= 2 * compute_f(e.pre)
      BY <1>1, <1>8, <1>9, <3>2, <3>3, <3>4, <3>5
    <3> QED
      BY <1>10, <3>1, <3>2, <3>6
  <2> QED
    BY <2>1, <2>2
<1>13. CommitsLogged' /\ PreparedCertificate'
  BY <1>12 DEF CommitsLogged, PreparedCertificate, Accepted
<1> QED
  BY <1>6, <1>11, <1>13 DEF CertInv

\* Commits, replies and faults leave the agreement as it is.
LEMMA CertOther ==
    ASSUME CertInv, TypeOK', DistinctCalls,
           \/ \E m \in Message : \/ _commit(m.dst, m) \/ OnReply(m.dst, m)
                                 \/ Duplicate(m) \/ Lose(m)
           \/ \E p \in Node : Crash(p)
           \/ UNCHANGED vars
    PROVE  CertInv'
<1>1. net \in [Message -> Nat] /\ net' \in [Message -> Nat]
  BY DEF CertInv, TypeOK
<1>2. log \in [Node -> [Digest -> Entry]]
  BY DEF CertInv, TypeOK
<1>3. ASSUME NEW m \in Message, Duplicate(m) PROVE FALSE
  <2>1. faults.dup \in 0 .. 0 /\ faults.dup < 0
    BY <1>3 DEF Duplicate, DistinctCalls, CertInv, TypeOK
  <2> QED
    BY <2>1
<1>4. ASSUME UNCHANGED <<preparers, committers>>,
             \A x \in Message : x.type # "REPLY" => net'[x] <= net[x],
             \A c \in Call : call'[c] = "idle" => call[c] = "idle",
             \A q \in Node, d \in Digest : /\ log'[q][d].prepares = log[q][d].prepares
                                           /\ log'[q][d].pre = log[q][d].pre
      PROVE  CertInv'
  <2>1. OrderInv'
    BY <1>1, <1>4, OrderKept DEF CertInv, Ordering
  <2> QED
    BY <1>4, <2>1, CertFields, CertKept
<1>5. ASSUME NEW m \in Message, _commit(m.dst, m) PROVE CertInv'
  <2> DEFINE p == m.dst  d == m.d
             e == [log[p][d] EXCEPT !.commits = Capped(@ + 1, MaxCount)]
             e2 == [e EXCEPT !.committed_local = TRUE]
  <2>1. p \in Node /\ d \in Digest /\ net[m] > 0
    BY <1>5, MessageFields DEF _commit, Handles
  <2>2. log[p][d] \in Entry
    BY <1>2, <2>1
  <2>3. /\ e.prepares = log[p][d].prepares /\ e.pre = log[p][d].pre
        /\ e2.prepares = log[p][d].prepares /\ e2.pre = log[p][d].pre
    BY <2>2 DEF Entry
  <2>4. log' = [log EXCEPT ![p][d] = e] \/ log' = [log EXCEPT ![p][d] = e2]
    BY <1>5 DEF _commit
  <2>5. PICK M : net' = Replace(m, M) /\ \A x \in M : x.type = "REPLY"
    <3> DEFINE reply == [type |-> "REPLY", dst |-> d.c, t |-> d.t, r |-> Outcome(p, d)]
    <3>1. net' = Replace(m, {reply}) \/ net' = Replace(m, {})
      BY <1>5 DEF _commit
    <3>2. reply.type = "REPLY"
      OBVIOUS
    <3> HIDE DEF reply
    <3> QED
      BY <3>1, <3>2
  <2>6. UNCHANGED <<preparers, committers, call>>
    BY <1>5 DEF _commit, clientVars
  <2> HIDE DEF e, e2, p, d
  <2>7. \A q \in Node, b \in Digest : /\ log'[q][b].prepares = log[q][b].prepares
                                      /\ log'[q][b].pre = log[q][b].pre
    BY <1>2, <2>1, <2>3, <2>4
  <2>8. \A x \in Message : x.type # "REPLY" => net'[x] <= net[x]
    BY <1>1, <2>1, <2>5, ReplaceBounds
  <2> QED
    BY <1>4, <2>6, <2>7, <2>8
<1>6. ASSUME NEW m \in Message, OnReply(m.dst, m) \/ Lose(m) PROVE CertInv'
  <2>1. net[m] > 0 /\ net' = Replace(m, {}) /\ UNCHANGED <<log, preparers, committers>>
    BY <1>6 DEF OnReply, Handles, Lose, replicaVars, historyVars
  <2>2. \A x \in Message : net'[x] <= net[x]
    BY <1>1, <2>1, ReplaceBounds
  <2>3. \A c \in Call : call'[c] = "idle" => call[c] = "idle"
    BY <1>6 DEF OnReply, Lose, clientVars
  <2> QED
    BY <1>4, <2>1, <2>2, <2>3
<1>7. ASSUME (\E p \in Node : Crash(p)) \/ UNCHANGED vars PROVE CertInv'
  <2>1. UNCHANGED <<net, call, log, preparers, committers>>
    BY <1>7 DEF Crash, vars, clientVars, replicaVars, historyVars
  <2> QED
    BY <1>1, <1>4, <2>1
<1> QED
  BY <1>3, <1>5, <1>6, <1>7

\* As long as a client does not make the same call twice in one millisecond and
\* no message is delivered twice, no replica multicasts a COMMIT before 2f
\* different replicas accepted the PRE_PREPARE, although it counts PREPAREs and
\* not their senders, and although lookups may disagree about who is a replica.
THEOREM PreparedCertificateCorrect ==
    ASSUME DistinctCalls
    PROVE  Spec => []PreparedCertificate
<1>1. CertInv /\ TypeOK' /\ [Next]_vars => CertInv'
  <2> SUFFICES ASSUME CertInv, TypeOK', [Next]_vars PROVE CertInv'
    OBVIOUS
  <2>1. ASSUME NEW c \in Call, request(c) PROVE CertInv'
    BY <2>1, CertCall
  <2>2. ASSUME NEW m \in Message, _request(m.dst, m) PROVE CertInv'
    BY <2>2, CertRequest
  <2>3. ASSUME NEW m \in Message, _pre_prepare(m.dst, m) PROVE CertInv'
    BY <2>3, CertPrePrepare
  <2>4. ASSUME NEW m \in Message, _prepare(m.dst, m) PROVE CertInv'
    BY <2>4, CertPrepare
  <2> QED
    BY <2>1, <2>2, <2>3, <2>4, CertOther DEF Next
<1>2. CertInv => PreparedCertificate
  BY DEF CertInv
<1> QED
  BY <1>1, <1>2, CertInit, TypeCorrect, PTL DEF Spec

=============================================================================
