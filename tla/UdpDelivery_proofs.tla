-------------------------- MODULE UdpDelivery_proofs --------------------------
(***************************************************************************)
(* What the transport may forget: a sender gives a slice up only when it   *)
(* was processed or its tries ran out, and a receiver does not lose a      *)
(* chunk between the last ack and the "message" event.  Both hold as long  *)
(* as a chunk ID stands for one chunk.                                     *)
(***************************************************************************)
EXTENDS UdpTransport_proofs

\* No peer has used up its chunk IDs, nor started again with the first one.
IdsNotReused == MaxReboots = 0 /\ MaxSends <= MAX_CHUNKS

LEMMA ModFacts ==
    ASSUME NEW y \in Nat, y >= 1
    PROVE  /\ \A x \in Nat : x < y => x % y = x
           /\ y % y = 0
OBVIOUS

-----------------------------------------------------------------------------
\* One chunk for every chunk ID.  The invariant: IDs are given in the order in
\* which chunks are cut, so those in use are below the number cut so far.

CutSoFar(p) == nsent[p] - Len(chunk_queue[p])

\* The slices of chunk m are, or were, on their way from p to q under chunk ID c.
InUse(p, c, q, m) ==
    \/ \E s \in send_map[p] : s.chunk_id = c /\ s.dst = q /\ s.m = m
    \/ \E k \in wire : /\ k.type = "slice" /\ k.src = p /\ k.dst = q
                       /\ k.chunk_id = c /\ k.part.m = m
    \/ \E k \in got : k.src = p /\ k.dst = q /\ k.chunk_id = c /\ k.part.m = m

\* The write pointer is where the chunks cut so far have moved it.
Counted ==
    \A p \in Peer : /\ Len(chunk_queue[p]) <= nsent[p]
                    /\ wr_ptr[p] = CutSoFar(p) % MAX_CHUNKS

InTraffic ==
    \A p \in Peer : \A i \in 1 .. Len(chunk_queue[p]) :
        <<p, chunk_queue[p][i].dst, chunk_queue[p][i].m>> \in Traffic

IdsFresh ==
    \A p \in Peer, c \in Nat, q \in Peer, m \in Msg :
        InUse(p, c, q, m) => c < CutSoFar(p) /\ <<p, q, m>> \in Traffic

OneChunk ==
    \A p \in Peer, c \in Nat, q, r \in Peer, m, n \in Msg :
        InUse(p, c, q, m) /\ InUse(p, c, r, n) => q = r /\ m = n

IdInv == Counted /\ InTraffic /\ IdsFresh /\ OneChunk

\* The chunk that a tick cuts from the i-th place of the queue.
NewUse(p, c, q, m) ==
    \E i \in 1 .. Len(chunk_queue[p]) :
        c = ChunkId(p, i) /\ q = chunk_queue[p][i].dst /\ m = chunk_queue[p][i].m

LEMMA QueueTypes ==
    ASSUME TypeOK, NEW p \in Peer
    PROVE  /\ Len(chunk_queue[p]) \in Nat /\ nsent[p] \in Nat /\ nsent[p] <= MaxSends
           /\ wr_ptr[p] \in Nat
           /\ \A i \in 1 .. Len(chunk_queue[p]) : chunk_queue[p][i] \in QueuedChunk
<1>1. chunk_queue[p] \in Seq(QueuedChunk)
  BY DEF TypeOK
<1>2. nsent[p] \in 0 .. MaxSends /\ wr_ptr[p] \in 0 .. MAX_CHUNKS - 1
  BY DEF TypeOK
<1>3. MaxSends \in Nat /\ MAX_CHUNKS \in Nat /\ MAX_CHUNKS >= 1
  BY ConstantsAssumption
<1> QED
  BY <1>1, <1>2, <1>3, ElementType

\* New chunk IDs follow those in use, one by one.
LEMMA NewIds ==
    ASSUME TypeOK, IdsNotReused, Counted,
           NEW p \in Peer, NEW i \in 1 .. Len(chunk_queue[p])
    PROVE  ChunkId(p, i) = CutSoFar(p) + i - 1
<1>1. MAX_CHUNKS \in Nat /\ MAX_CHUNKS >= 1 /\ MaxSends <= MAX_CHUNKS /\ MaxSends \in Nat
  BY ConstantsAssumption DEF IdsNotReused
<1>2. /\ Len(chunk_queue[p]) \in Nat /\ nsent[p] \in Nat /\ nsent[p] <= MaxSends
      /\ Len(chunk_queue[p]) <= nsent[p]
      /\ wr_ptr[p] = CutSoFar(p) % MAX_CHUNKS
  BY QueueTypes DEF Counted
<1>3. CutSoFar(p) \in Nat /\ CutSoFar(p) < MAX_CHUNKS
  BY <1>1, <1>2 DEF CutSoFar
<1>4. wr_ptr[p] = CutSoFar(p)
  BY <1>1, <1>2, <1>3, ModFacts
<1>5. CutSoFar(p) + i - 1 \in Nat /\ CutSoFar(p) + i - 1 < MAX_CHUNKS
  <2>1. i \in Nat /\ i >= 1 /\ i <= Len(chunk_queue[p])
    BY <1>2
  <2>2. CutSoFar(p) + Len(chunk_queue[p]) = nsent[p]
    BY <1>2 DEF CutSoFar
  <2> HIDE DEF CutSoFar
  <2> QED
    BY <1>1, <1>2, <1>3, <2>1, <2>2
<1> HIDE DEF CutSoFar
<1> QED
  BY <1>1, <1>4, <1>5, ModFacts DEF ChunkId

-----------------------------------------------------------------------------
\* What a send tick does to the slices

SameSlice(s, t) ==
    /\ s.chunk_id = t.chunk_id /\ s.slice_id = t.slice_id
    /\ s.dst = t.dst /\ s.m = t.m

LEMMA PlacedSame ==
    ASSUME NEW p, NEW s \in SendState
    PROVE  SameSlice(Placed(p, s), s)
<1>1. \A o : SameSlice([s EXCEPT !.ord = o], s)
  BY DEF SendState, SameSlice
<1> QED
  BY <1>1 DEF Placed, SameSlice

LEMMA AgedSame ==
    ASSUME NEW s \in SendState, NEW w
    PROVE  /\ SameSlice([s EXCEPT !.wait = w], s)
           /\ [s EXCEPT !.wait = w].tries = s.tries
BY DEF SendState, SameSlice

\* Every slice that a tick works on was in send_map or has just been cut.
LEMMA AgedFrom ==
    ASSUME TypeOK, NEW p \in Peer, NEW elapsed \in Nat
    PROVE  \A s \in Age(Ticked(p), elapsed) :
               s \in SendState /\ \E t \in send_map[p] \cup Cut(p) : SameSlice(s, t)
<1>1. Ticked(p) \subseteq SendState /\ Cut(p) \subseteq SendState
  BY TickedType, CutType
<1>2. Age(Ticked(p), elapsed) \subseteq SendState
  BY <1>1, AgeType
<1>3. ASSUME NEW s \in Ticked(p)
      PROVE  \E t \in send_map[p] \cup Cut(p) : SameSlice(s, t)
  <2>1. CASE s \in Unacked(p)
    BY <2>1 DEF Unacked, SameSlice
  <2>2. ASSUME NEW t \in Cut(p), s = Placed(p, t)
        PROVE  \E u \in send_map[p] \cup Cut(p) : SameSlice(s, u)
    BY <1>1, <2>2, PlacedSame
  <2> QED
    BY <2>1, <2>2 DEF Ticked
<1>4. ASSUME NEW s \in Age(Ticked(p), elapsed)
      PROVE  \E t \in Ticked(p) : SameSlice(s, t)
  <2>1. PICK t \in Ticked(p) :
            s = [t EXCEPT !.wait = IF @ > elapsed THEN @ - elapsed ELSE 0]
    BY DEF Age
  <2> QED
    BY <1>1, <2>1, AgedSame
<1> QED
  BY <1>2, <1>3, <1>4 DEF SameSlice

\* So was every slice that it keeps, and the one that it sends.
LEMMA TickSlices ==
    ASSUME TypeOK, NEW p \in Peer, NEW elapsed \in 1 .. WAIT_UNTIL_RETRY,
           NEW budget \in BOOLEAN, Tick(p, elapsed, budget)
    PROVE  /\ \A s \in send_map'[p] : \E t \in send_map[p] \cup Cut(p) : SameSlice(s, t)
           /\ \A q \in Peer : q # p => send_map'[q] = send_map[q]
           /\ \A k \in wire' : \/ k \in wire
                               \/ \E t \in send_map[p] \cup Cut(p) :
                                      k = SlicePacket(p, t)
<1> DEFINE S == Age(Ticked(p), elapsed)
<1>1. elapsed \in Nat
  BY ConstantsAssumption
<1>2. \A s \in S : s \in SendState /\ \E t \in send_map[p] \cup Cut(p) : SameSlice(s, t)
  BY <1>1, AgedFrom
<1>3. send_map \in [Peer -> SUBSET SendState]
  BY DEF TypeOK
<1>4. CASE send_map' = [send_map EXCEPT ![p] = S] /\ UNCHANGED wire
  <2> HIDE DEF S
  <2> QED
    BY <1>2, <1>3, <1>4
<1>5. ASSUME NEW s \in S,
             send_map' = [send_map EXCEPT ![p] = AfterSending(S, s)],
             wire' = wire \cup {SlicePacket(p, s)}
      PROVE  /\ \A u \in send_map'[p] : \E t \in send_map[p] \cup Cut(p) : SameSlice(u, t)
             /\ \A q \in Peer : q # p => send_map'[q] = send_map[q]
             /\ \A k \in wire' : \/ k \in wire
                                 \/ \E t \in send_map[p] \cup Cut(p) :
                                        k = SlicePacket(p, t)
  <2> HIDE DEF S
  <2>1. PICK t \in send_map[p] \cup Cut(p) : SameSlice(s, t)
    BY <1>2
  <2>2. SlicePacket(p, s) = SlicePacket(p, t)
    BY <2>1 DEF SlicePacket, SameSlice
  <2>3. ASSUME NEW u \in AfterSending(S, s) PROVE u \in S \/ SameSlice(u, s)
    <3>1. s \in SendState
      BY <1>2
    <3>2. SameSlice([s EXCEPT !.tries = s.tries + 1, !.wait = WAIT_UNTIL_RETRY], s)
      BY <3>1 DEF SendState, SameSlice
    <3> QED
      BY <2>3, <3>2 DEF AfterSending
  <2>4. send_map'[p] = AfterSending(S, s)
    BY <1>3, <1>5
  <2>5. \A u \in send_map'[p] : \E v \in send_map[p] \cup Cut(p) : SameSlice(u, v)
    BY <1>2, <2>1, <2>3, <2>4 DEF SameSlice
  <2> QED
    BY <1>3, <1>5, <2>1, <2>2, <2>5
<1> QED
  BY <1>4, <1>5 DEF Tick, Due

\* The slices cut in a tick are of a new chunk.
LEMMA CutIsNew ==
    ASSUME TypeOK, NEW p \in Peer, NEW t \in Cut(p)
    PROVE  /\ NewUse(p, t.chunk_id, t.dst, t.m)
           /\ t.slice_id \in SliceIds(t.m) /\ t \in SendState
<1>1. t \in SendState
  BY CutType
<1>2. PICK i \in 1 .. Len(chunk_queue[p]) : \E j \in SliceIds(chunk_queue[p][i].m) :
          t = [chunk_id |-> ChunkId(p, i), slice_id |-> j,
               dst |-> chunk_queue[p][i].dst, m |-> chunk_queue[p][i].m,
               tries |-> 0, wait |-> 0, ord |-> chunk_queue[p][i].ord]
  BY DEF Cut
<1> QED
  BY <1>1, <1>2 DEF NewUse

LEMMA TickUses ==
    ASSUME TypeOK, NEW p \in Peer, NEW elapsed \in 1 .. WAIT_UNTIL_RETRY,
           NEW budget \in BOOLEAN, Tick(p, elapsed, budget),
           NEW r \in Peer, NEW c \in Nat, NEW q \in Peer, NEW m \in Msg,
           InUse(r, c, q, m)'
    PROVE  InUse(r, c, q, m) \/ (r = p /\ NewUse(p, c, q, m))
<1>1. ASSUME NEW t \in send_map[p] \cup Cut(p), t.chunk_id = c, t.dst = q, t.m = m, r = p
      PROVE  InUse(r, c, q, m) \/ (r = p /\ NewUse(p, c, q, m))
  BY <1>1, CutIsNew DEF InUse
<1>2. CASE \E s \in send_map'[r] : s.chunk_id = c /\ s.dst = q /\ s.m = m
  <2>1. PICK s \in send_map'[r] : s.chunk_id = c /\ s.dst = q /\ s.m = m
    BY <1>2
  <2>2. CASE r # p
    BY <2>1, <2>2, TickSlices DEF InUse
  <2>3. CASE r = p
    <3>1. PICK t \in send_map[p] \cup Cut(p) : SameSlice(s, t)
      BY <2>1, <2>3, TickSlices
    <3> QED
      BY <1>1, <2>1, <2>3, <3>1 DEF SameSlice
  <2> QED
    BY <2>2, <2>3
<1>3. CASE \E k \in wire' : /\ k.type = "slice" /\ k.src = r /\ k.dst = q
                            /\ k.chunk_id = c /\ k.part.m = m
  <2>1. PICK k \in wire' : /\ k.type = "slice" /\ k.src = r /\ k.dst = q
                           /\ k.chunk_id = c /\ k.part.m = m
    BY <1>3
  <2>2. CASE k \in wire
    BY <2>1, <2>2 DEF InUse
  <2>3. ASSUME NEW t \in send_map[p] \cup Cut(p), k = SlicePacket(p, t)
        PROVE  InUse(r, c, q, m) \/ (r = p /\ NewUse(p, c, q, m))
    <3>1. k.src = p /\ k.dst = t.dst /\ k.chunk_id = t.chunk_id /\ k.part.m = t.m
      BY <2>3 DEF SlicePacket
    <3> QED
      BY <1>1, <2>1, <3>1
  <2> QED
    BY <2>1, <2>2, <2>3, TickSlices
<1>4. CASE \E k \in got' : k.src = r /\ k.dst = q /\ k.chunk_id = c /\ k.part.m = m
  <2>1. got' = got
    BY DEF Tick, historyVars
  <2> QED
    BY <1>4, <2>1 DEF InUse
<1> QED
  BY <1>2, <1>3, <1>4 DEF InUse

\* A step that cuts nothing and sends no slice.
LEMMA IdKept ==
    ASSUME TypeOK, IdInv, Counted', InTraffic',
           \A p \in Peer : CutSoFar(p)' = CutSoFar(p),
           \A p \in Peer, c \in Nat, q \in Peer, m \in Msg :
               InUse(p, c, q, m)' => InUse(p, c, q, m)
    PROVE  IdInv'
<1>1. IdsFresh'
  <2> SUFFICES ASSUME NEW p \in Peer, NEW c \in Nat, NEW q \in Peer, NEW m \in Msg,
                      InUse(p, c, q, m)'
               PROVE  c < CutSoFar(p)' /\ <<p, q, m>> \in Traffic
    BY DEF IdsFresh
  <2> QED
    BY DEF IdInv, IdsFresh
<1>2. OneChunk'
  <2> SUFFICES ASSUME NEW p \in Peer, NEW c \in Nat, NEW q \in Peer, NEW r \in Peer,
                      NEW m \in Msg, NEW n \in Msg,
                      InUse(p, c, q, m)', InUse(p, c, r, n)'
               PROVE  q = r /\ m = n
    BY DEF OneChunk
  <2> QED
    BY DEF IdInv, OneChunk
<1> QED
  BY <1>1, <1>2 DEF IdInv

LEMMA IdSend ==
    ASSUME TypeOK, TypeOK', IdInv, NEW t \in Traffic, Send(t[1], t[2], t[3])
    PROVE  IdInv'
<1> DEFINE p == t[1]
           x == [m |-> t[3], dst |-> t[2], ord |-> nsent[p]]
<1>1. p \in Peer /\ t[2] \in Peer /\ t[3] \in Msg /\ t = <<p, t[2], t[3]>>
  BY ConstantsAssumption
<1>2. /\ chunk_queue' = [chunk_queue EXCEPT ![p] = Append(chunk_queue[p], x)]
      /\ nsent' = [nsent EXCEPT ![p] = @ + 1]
      /\ UNCHANGED <<wr_ptr, send_map, wire, got>>
  BY DEF Send
<1>3. /\ chunk_queue \in [Peer -> Seq(QueuedChunk)]
      /\ nsent \in [Peer -> 0 .. MaxSends]
  BY DEF TypeOK
<1>4. /\ Len(chunk_queue'[p]) = Len(chunk_queue[p]) + 1
      /\ \A i \in 1 .. Len(chunk_queue[p]) : chunk_queue'[p][i] = chunk_queue[p][i]
      /\ chunk_queue'[p][Len(chunk_queue[p]) + 1] = x
  <2>1. chunk_queue[p] \in Seq(QueuedChunk) /\ chunk_queue'[p] = Append(chunk_queue[p], x)
    BY <1>1, <1>2, <1>3
  <2> HIDE DEF x
  <2> QED
    BY <2>1
<1>5. \A q \in Peer : /\ Len(chunk_queue[q]) \in Nat /\ nsent[q] \in Nat
                      /\ q # p => chunk_queue'[q] = chunk_queue[q] /\ nsent'[q] = nsent[q]
                      /\ q = p => nsent'[q] = nsent[q] + 1
  BY <1>2, <1>3, QueueTypes
<1> HIDE DEF p, x
<1>6. \A q \in Peer : CutSoFar(q)' = CutSoFar(q)
  BY <1>4, <1>5 DEF CutSoFar
<1>7. Counted'
  <2> SUFFICES ASSUME NEW q \in Peer
               PROVE  /\ Len(chunk_queue'[q]) <= nsent'[q]
                      /\ wr_ptr'[q] = CutSoFar(q)' % MAX_CHUNKS
    BY DEF Counted
  <2>1. Len(chunk_queue[q]) <= nsent[q] /\ wr_ptr[q] = CutSoFar(q) % MAX_CHUNKS
    BY DEF IdInv, Counted
  <2>2. Len(chunk_queue'[q]) <= nsent'[q]
    BY <1>4, <1>5, <2>1
  <2> QED
    BY <1>2, <1>6, <2>1, <2>2
<1>8. InTraffic'
  <2> SUFFICES ASSUME NEW q \in Peer, NEW i \in 1 .. Len(chunk_queue'[q])
               PROVE  <<q, chunk_queue'[q][i].dst, chunk_queue'[q][i].m>> \in Traffic
    BY DEF InTraffic
  <2>1. CASE q # p \/ i <= Len(chunk_queue[p])
    <3>1. i \in 1 .. Len(chunk_queue[q]) /\ chunk_queue'[q][i] = chunk_queue[q][i]
      BY <1>4, <1>5, <2>1
    <3> QED
      BY <3>1 DEF IdInv, InTraffic
  <2>2. CASE q = p /\ i = Len(chunk_queue[p]) + 1
    BY <1>1, <1>4, <2>2 DEF x
  <2> QED
    BY <1>4, <1>5, <2>1, <2>2
<1>9. \A q \in Peer, c \in Nat, r \in Peer, m \in Msg :
          InUse(q, c, r, m)' => InUse(q, c, r, m)
  BY <1>2 DEF InUse
<1> QED
  BY <1>6, <1>7, <1>8, <1>9, IdKept

LEMMA IdTick ==
    ASSUME TypeOK, TypeOK', IdsNotReused, IdInv,
           NEW p \in Peer, NEW elapsed \in 1 .. WAIT_UNTIL_RETRY,
           NEW budget \in BOOLEAN, Tick(p, elapsed, budget)
    PROVE  IdInv'
<1>1. /\ chunk_queue' = [chunk_queue EXCEPT ![p] = <<>>]
      /\ wr_ptr' = [wr_ptr EXCEPT ![p] = (@ + Len(chunk_queue[p])) % MAX_CHUNKS]
      /\ UNCHANGED <<nsent, got>>
  BY DEF Tick, historyVars
<1>2. /\ chunk_queue \in [Peer -> Seq(QueuedChunk)]
      /\ wr_ptr \in [Peer -> 0 .. MAX_CHUNKS - 1]
  BY DEF TypeOK
<1>3. /\ chunk_queue'[p] = <<>>
      /\ wr_ptr'[p] = (wr_ptr[p] + Len(chunk_queue[p])) % MAX_CHUNKS
      /\ \A q \in Peer : q # p => chunk_queue'[q] = chunk_queue[q] /\ wr_ptr'[q] = wr_ptr[q]
  BY <1>1, <1>2
<1>4. MAX_CHUNKS \in Nat /\ MAX_CHUNKS >= 1 /\ MaxSends <= MAX_CHUNKS /\ MaxSends \in Nat
  BY ConstantsAssumption DEF IdsNotReused
<1>5. \A q \in Peer : /\ Len(chunk_queue[q]) \in Nat /\ nsent[q] \in Nat
                      /\ nsent[q] <= MaxSends /\ Len(chunk_queue[q]) <= nsent[q]
                      /\ wr_ptr[q] = CutSoFar(q) % MAX_CHUNKS
  BY QueueTypes DEF IdInv, Counted
<1>6. CutSoFar(p)' = nsent[p] /\ CutSoFar(p) <= nsent[p] /\ CutSoFar(p) \in Nat
  BY <1>1, <1>3, <1>5 DEF CutSoFar
<1>7. \A q \in Peer : q # p => CutSoFar(q)' = CutSoFar(q)
  BY <1>1, <1>3 DEF CutSoFar
<1>8. Counted'
  <2>1. wr_ptr'[p] = nsent[p] % MAX_CHUNKS
    <3>1. CASE CutSoFar(p) < MAX_CHUNKS
      <4>1. wr_ptr[p] = CutSoFar(p)
        BY <1>4, <1>5, <1>6, <3>1, ModFacts
      <4>2. wr_ptr[p] + Len(chunk_queue[p]) = nsent[p]
        BY <1>5, <4>1 DEF CutSoFar
      <4> QED
        BY <1>3, <4>2
    <3>2. CASE CutSoFar(p) >= MAX_CHUNKS
      <4>1. Len(chunk_queue[p]) = 0 /\ nsent[p] = MAX_CHUNKS /\ CutSoFar(p) = MAX_CHUNKS
        BY <1>4, <1>5, <3>2 DEF CutSoFar
      <4>2. wr_ptr[p] = 0
        BY <1>4, <1>5, <4>1, ModFacts
      <4>3. 0 % MAX_CHUNKS = 0 /\ MAX_CHUNKS % MAX_CHUNKS = 0
        BY <1>4, ModFacts
      <4> QED
        BY <1>3, <4>1, <4>2, <4>3
    <3> QED
      BY <1>4, <1>6, <3>1, <3>2
  <2>2. ASSUME NEW q \in Peer
        PROVE  /\ Len(chunk_queue'[q]) <= nsent'[q]
               /\ wr_ptr'[q] = CutSoFar(q)' % MAX_CHUNKS
    <3>1. CASE q = p
      BY <1>1, <1>3, <1>5, <1>6, <2>1, <3>1
    <3>2. CASE q # p
      BY <1>1, <1>3, <1>5, <1>7, <3>2
    <3> QED
      BY <3>1, <3>2
  <2> QED
    BY <2>2 DEF Counted
<1>9. InTraffic'
  BY <1>3 DEF IdInv, InTraffic
<1>10. ASSUME NEW c, NEW q, NEW m, NewUse(p, c, q, m)
       PROVE  /\ c >= CutSoFar(p) /\ c < nsent[p]
              /\ <<p, q, m>> \in Traffic
  <2>1. PICK i \in 1 .. Len(chunk_queue[p]) :
            c = ChunkId(p, i) /\ q = chunk_queue[p][i].dst /\ m = chunk_queue[p][i].m
    BY <1>10 DEF NewUse
  <2>2. c = CutSoFar(p) + i - 1
    BY <2>1, NewIds DEF IdInv
  <2>3. i \in Nat /\ i >= 1 /\ i <= Len(chunk_queue[p])
    BY <1>5
  <2>4. c >= CutSoFar(p) /\ c < nsent[p]
    BY <1>5, <2>2, <2>3 DEF CutSoFar
  <2> QED
    BY <2>1, <2>4 DEF IdInv, InTraffic
<1>11. ASSUME NEW c, NEW q, NEW m, NEW r, NEW n, NewUse(p, c, q, m), NewUse(p, c, r, n)
       PROVE  q = r /\ m = n
  <2>1. PICK i \in 1 .. Len(chunk_queue[p]) :
            c = ChunkId(p, i) /\ q = chunk_queue[p][i].dst /\ m = chunk_queue[p][i].m
    BY <1>11 DEF NewUse
  <2>2. PICK j \in 1 .. Len(chunk_queue[p]) :
            c = ChunkId(p, j) /\ r = chunk_queue[p][j].dst /\ n = chunk_queue[p][j].m
    BY <1>11 DEF NewUse
  <2>3. CutSoFar(p) + i - 1 = CutSoFar(p) + j - 1
    BY <2>1, <2>2, NewIds DEF IdInv
  <2>4. i = j
    BY <1>6, <2>3
  <2> QED
    BY <2>1, <2>2, <2>4
<1>12. IdsFresh'
  <2> SUFFICES ASSUME NEW r \in Peer, NEW c \in Nat, NEW q \in Peer, NEW m \in Msg,
                      InUse(r, c, q, m)'
               PROVE  c < CutSoFar(r)' /\ <<r, q, m>> \in Traffic
    BY DEF IdsFresh
  <2>1. CASE InUse(r, c, q, m)
    <3>1. c < CutSoFar(r) /\ <<r, q, m>> \in Traffic
      BY <2>1 DEF IdInv, IdsFresh
    <3> QED
      BY <1>5, <1>6, <1>7, <3>1
  <2>2. CASE r = p /\ NewUse(p, c, q, m)
    BY <1>6, <1>10, <2>2
  <2> QED
    BY <2>1, <2>2, TickUses
<1>13. OneChunk'
  <2> SUFFICES ASSUME NEW s \in Peer, NEW c \in Nat, NEW q \in Peer, NEW r \in Peer,
                      NEW m \in Msg, NEW n \in Msg,
                      InUse(s, c, q, m)', InUse(s, c, r, n)'
               PROVE  q = r /\ m = n
    BY DEF OneChunk
  <2>1. /\ InUse(s, c, q, m) \/ (s = p /\ NewUse(p, c, q, m))
        /\ InUse(s, c, r, n) \/ (s = p /\ NewUse(p, c, r, n))
    BY TickUses
  <2>2. /\ InUse(s, c, q, m) => c < CutSoFar(s)
        /\ InUse(s, c, r, n) => c < CutSoFar(s)
    BY DEF IdInv, IdsFresh
  <2>3. CASE InUse(s, c, q, m) /\ InUse(s, c, r, n)
    BY <2>3 DEF IdInv, OneChunk
  <2>4. CASE s = p /\ NewUse(p, c, q, m) /\ NewUse(p, c, r, n)
    BY <1>11, <2>4
  <2>5. CASE s = p /\ c < CutSoFar(p) /\ c >= CutSoFar(p)
    BY <1>6, <2>5
  <2> QED
    BY <1>10, <2>1, <2>2, <2>3, <2>4, <2>5
<1> QED
  BY <1>8, <1>9, <1>12, <1>13 DEF IdInv

\* Nobody starts again.
LEMMA NoReboot ==
    ASSUME TypeOK, IdsNotReused, NEW p \in Peer, Reboot(p)
    PROVE  FALSE
<1>1. nreboots \in 0 .. 0 /\ nreboots < 0
  BY DEF TypeOK, IdsNotReused, Reboot
<1> QED
  BY <1>1

LEMMA IdOther ==
    ASSUME TypeOK, IdInv,
           \/ \E k \in wire : RecvSlice(k) \/ RecvAck(k)
           \/ \E p \in Peer : RecvTick(p) \/ Gc(p)
           \/ UNCHANGED vars
    PROVE  IdInv'
<1>1. UNCHANGED <<chunk_queue, nsent, wr_ptr, send_map>>
  BY DEF RecvSlice, RecvAck, RecvTick, Gc, senderVars, historyVars, vars
<1>2. /\ \A k \in wire' : k.type = "slice" => k \in wire
      /\ \A k \in got' : k \in got \/ (k \in wire /\ k.type = "slice")
  <2>1. ASSUME NEW k \in wire, RecvSlice(k)
        PROVE  /\ \A l \in wire' : l.type = "slice" => l \in wire
               /\ \A l \in got' : l \in got \/ (l \in wire /\ l.type = "slice")
    <3> DEFINE ack == AckPacket(k, Ids(Filled(k)) \cap (0 .. Filled(k).nslices - 1))
    <3>1. wire' \subseteq wire \cup {ack}
      BY <2>1 DEF RecvSlice, Received
    <3>2. ack.type # "slice"
      BY DEF AckPacket
    <3> HIDE DEF ack
    <3> QED
      BY <2>1, <3>1, <3>2 DEF RecvSlice
  <2>2. ASSUME NEW k \in wire, RecvAck(k)
        PROVE  wire' \subseteq wire /\ got' = got
    BY <2>2 DEF RecvAck, Received, historyVars
  <2>3. ASSUME (\E p \in Peer : RecvTick(p) \/ Gc(p)) \/ UNCHANGED vars
        PROVE  wire' = wire /\ got' = got
    BY <2>3 DEF RecvTick, Gc, historyVars, vars
  <2> QED
    BY <2>1, <2>2, <2>3
<1>3. \A p \in Peer, c \in Nat, q \in Peer, m \in Msg :
          InUse(p, c, q, m)' => InUse(p, c, q, m)
  BY <1>1, <1>2 DEF InUse
<1>4. \A p \in Peer : CutSoFar(p)' = CutSoFar(p)
  BY <1>1 DEF CutSoFar
<1>5. Counted' /\ InTraffic'
  BY <1>1 DEF IdInv, Counted, InTraffic, CutSoFar
<1> QED
  BY <1>3, <1>4, <1>5, IdKept

\* As long as no chunk ID is used twice, one stands for the slices of one chunk
\* to one peer, in send_map, on the wire and at the receivers.
THEOREM IdsStandForOneChunk ==
    ASSUME IdsNotReused
    PROVE  Spec => []IdInv
<1>1. Init => IdInv
  <2> SUFFICES ASSUME Init PROVE IdInv
    OBVIOUS
  <2>1. \A p \in Peer : CutSoFar(p) = 0 /\ wr_ptr[p] = 0 /\ Len(chunk_queue[p]) = 0
    BY DEF Init, CutSoFar
  <2>2. 0 % MAX_CHUNKS = 0
    BY ConstantsAssumption, ModFacts
  <2> QED
    BY <2>1, <2>2 DEF Init, IdInv, Counted, InTraffic, IdsFresh, OneChunk, InUse
<1>2. TypeOK /\ TypeOK' /\ IdInv /\ [Next]_vars => IdInv'
  <2> SUFFICES ASSUME TypeOK, TypeOK', IdInv, [Next]_vars PROVE IdInv'
    OBVIOUS
  <2>1. ASSUME NEW t \in Traffic, Send(t[1], t[2], t[3]) PROVE IdInv'
    BY <2>1, IdSend
  <2>2. ASSUME NEW p \in Peer, NEW elapsed \in 1 .. WAIT_UNTIL_RETRY,
               NEW budget \in BOOLEAN, Tick(p, elapsed, budget)
        PROVE  IdInv'
    BY <2>2, IdTick
  <2> QED
    BY <2>1, <2>2, IdOther, NoReboot DEF Next
<1> QED
  BY <1>1, <1>2, TypeCorrect, PTL DEF Spec
-----------------------------------------------------------------------------
\* An ack names only slices that its receiver has processed.  The invariant
\* follows a slice ID from the packet that was processed into a buffer, into the
\* ack, and into the sender's queue of acks.

\* The header of a slice is that of its chunk.
TrueHeader(k) ==
    /\ k.part.i \in SliceIds(k.part.m)
    /\ k.slice_id = k.part.i % MAX_SLICES
    /\ k.nslices = NumSlices(k.part.m) % MAX_SLICES
    /\ k.checksum = Checksum[k.part.m]

TrueHeaders ==
    /\ \A p \in Peer : \A s \in send_map[p] : s.slice_id \in SliceIds(s.m)
    /\ \A k \in wire : k.type = "slice" => TrueHeader(k)
    /\ \A k \in got : TrueHeader(k)

\* q has processed a slice of p's under chunk ID c and slice ID i.
Processed(p, q, c, i) ==
    \E k \in got : k.src = p /\ k.dst = q /\ k.chunk_id = c /\ k.slice_id = i

\* Slice x in buffer b of peer p is the content of packet k.
Holds(k, p, b, x) ==
    /\ k.dst = p /\ KeyOf(k) = KeyOf(b)
    /\ x = [id |-> k.slice_id, part |-> k.part]

BufferTraced(p, b) ==
    /\ b.slices # {}
    /\ \A x \in b.slices : \E k \in got : Holds(k, p, b, x)

AcksTraced ==
    /\ \A p \in Peer : \A b \in recv_map[p] : BufferTraced(p, b)
    /\ \A k \in wire : k.type = "ack" =>
           \A i \in k.acked : Processed(k.dst, k.src, k.chunk_id, i)
    /\ \A p \in Peer : \A a \in acked_queue[p] :
           \A i \in a.acked : Processed(p, a.src, a.chunk_id, i)

TraceInv == TrueHeaders /\ AcksTraced

LEMMA TracedGrows ==
    ASSUME got \subseteq got'
    PROVE  /\ \A p, q, c, i : Processed(p, q, c, i) => Processed(p, q, c, i)'
           /\ \A p, b : BufferTraced(p, b) => BufferTraced(p, b)'
           /\ \A k : TrueHeader(k) <=> TrueHeader(k)'
BY DEF Processed, BufferTraced, Holds, KeyOf, TrueHeader, SliceIds, NumSlices

\* The buffer that takes in a slice holds it, and of what it held before all
\* that has another slice ID.
LEMMA FilledHas ==
    ASSUME TypeOK, NEW k \in SliceType
    PROVE  /\ Filled(k) \in RecvBuf /\ KeyOf(Filled(k)) = KeyOf(k)
           /\ [id |-> k.slice_id, part |-> k.part] \in Filled(k).slices
           /\ \/ /\ BufFor(k) \in recv_map[k.dst] /\ KeyOf(BufFor(k)) = KeyOf(k)
                 /\ Filled(k).nslices = BufFor(k).nslices
                 /\ Filled(k).slices =
                        {x \in BufFor(k).slices : x.id # k.slice_id}
                            \cup {[id |-> k.slice_id, part |-> k.part]}
              \/ /\ \A b \in recv_map[k.dst] : KeyOf(b) # KeyOf(k)
                 /\ Filled(k).nslices = k.nslices
                 /\ Filled(k).slices = {[id |-> k.slice_id, part |-> k.part]}
<1> DEFINE x == [id |-> k.slice_id, part |-> k.part]
           f == BufFor(k)
<1>1. k.dst \in Peer /\ recv_map[k.dst] \subseteq RecvBuf
  BY DEF TypeOK, SliceType
<1>2. Filled(k) = [f EXCEPT !.slices = {y \in @ : y.id # k.slice_id} \cup {x}]
  BY DEF Filled
<1>3. Filled(k) \in RecvBuf
  BY FilledType
<1>4. CASE \E b \in recv_map[k.dst] : KeyOf(b) = KeyOf(k)
  <2>1. f \in recv_map[k.dst] /\ KeyOf(f) = KeyOf(k)
    BY <1>4 DEF BufFor
  <2>2. f \in RecvBuf
    BY <1>1, <2>1
  <2> HIDE DEF f, x
  <2>3. /\ Filled(k).slices = {y \in f.slices : y.id # k.slice_id} \cup {x}
        /\ Filled(k).nslices = f.nslices /\ Filled(k).src = f.src
        /\ Filled(k).chunk_id = f.chunk_id /\ Filled(k).checksum = f.checksum
    BY <1>2, <2>2 DEF RecvBuf
  <2>4. KeyOf(Filled(k)) = KeyOf(f)
    BY <2>3 DEF KeyOf
  <2> QED
    BY <1>3, <2>1, <2>3, <2>4 DEF f, x
<1>5. CASE ~\E b \in recv_map[k.dst] : KeyOf(b) = KeyOf(k)
  <2>1. f = [src |-> k.src, chunk_id |-> k.chunk_id, checksum |-> k.checksum,
             nslices |-> k.nslices, slices |-> {}]
    BY <1>5 DEF BufFor
  <2> HIDE DEF f, x
  <2>2. /\ Filled(k).slices = {x}
        /\ Filled(k).nslices = k.nslices /\ Filled(k).src = k.src
        /\ Filled(k).chunk_id = k.chunk_id /\ Filled(k).checksum = k.checksum
    BY <1>2, <2>1
  <2>3. KeyOf(Filled(k)) = KeyOf(k)
    BY <2>2 DEF KeyOf
  <2> QED
    BY <1>3, <1>5, <2>2, <2>3 DEF x
<1> QED
  BY <1>4, <1>5

\* A send tick sends true headers, and no ack.
LEMMA TraceTick ==
    ASSUME TypeOK, TraceInv, NEW p \in Peer, NEW elapsed \in 1 .. WAIT_UNTIL_RETRY,
           NEW budget \in BOOLEAN, Tick(p, elapsed, budget)
    PROVE  TraceInv'
<1>1. /\ acked_queue' = [acked_queue EXCEPT ![p] = {}]
      /\ UNCHANGED <<got, recv_map>>
  BY DEF Tick, historyVars, receiverVars
<1>2. \A t \in send_map[p] \cup Cut(p) : t.slice_id \in SliceIds(t.m)
  BY CutIsNew DEF TraceInv, TrueHeaders
<1>3. \A k \in wire' : k \in wire \/ (k.type = "slice" /\ TrueHeader(k))
  <2>1. ASSUME NEW t \in send_map[p] \cup Cut(p)
        PROVE  SlicePacket(p, t).type = "slice" /\ TrueHeader(SlicePacket(p, t))
    BY <1>2 DEF SlicePacket, TrueHeader
  <2> QED
    BY <2>1, TickSlices
<1>4. \A q \in Peer : \A s \in send_map'[q] : s.slice_id \in SliceIds(s.m)
  <2> SUFFICES ASSUME NEW q \in Peer, NEW s \in send_map'[q]
               PROVE  s.slice_id \in SliceIds(s.m)
    OBVIOUS
  <2>1. CASE q = p
    <3>1. PICK t \in send_map[p] \cup Cut(p) : SameSlice(s, t)
      BY <2>1, TickSlices
    <3> QED
      BY <1>2, <3>1 DEF SameSlice
  <2>2. CASE q # p
    BY <2>2, TickSlices DEF TraceInv, TrueHeaders
  <2> QED
    BY <2>1, <2>2
<1>5. TrueHeaders'
  <2>1. got' \subseteq got /\ got \subseteq got'
    BY <1>1
  <2> QED
    BY <1>3, <1>4, <2>1, TracedGrows DEF TraceInv, TrueHeaders, SliceIds, NumSlices
<1>6. AcksTraced'
  <2>1. \A q \in Peer : acked_queue'[q] \subseteq acked_queue[q]
    BY <1>1 DEF TypeOK
  <2>2. \A k \in wire' : k.type = "ack" => k \in wire
    BY <1>3
  <2> QED
    BY <1>1, <2>1, <2>2, TracedGrows DEF TraceInv, AcksTraced
<1> QED
  BY <1>5, <1>6 DEF TraceInv

\* A slice is processed: its buffer and the ack name it.
LEMMA TraceRecvSlice ==
    ASSUME TypeOK, TraceInv, NEW k \in wire, RecvSlice(k)
    PROVE  TraceInv'
<1> DEFINE p == k.dst
           b == Filled(k)
           ack == AckPacket(k, Ids(b) \cap (0 .. b.nslices - 1))
<1>1. k \in SliceType /\ p \in Peer /\ TrueHeader(k)
  BY DEF TypeOK, RecvSlice, SliceType, AckType, TraceInv, TrueHeaders
<1>2. /\ got' = got \cup {k} /\ UNCHANGED <<send_map, acked_queue>>
      /\ wire' \subseteq wire \cup {ack}
      /\ \/ recv_map' = [recv_map EXCEPT ![p] = {c \in recv_map[p] : KeyOf(c) # KeyOf(k)}]
         \/ recv_map' = [recv_map EXCEPT ![p] =
                           {c \in recv_map[p] : KeyOf(c) # KeyOf(k)} \cup {b}]
  BY DEF RecvSlice, Received, senderVars
<1>3. got \subseteq got'
  BY <1>2
<1>4. /\ ack.type = "ack" /\ ack.src = p /\ ack.dst = k.src
      /\ ack.chunk_id = k.chunk_id /\ ack.acked \subseteq Ids(b)
  BY DEF AckPacket
<1>5. /\ b.slices # {}
      /\ \A y \in b.slices : \E l \in got' : Holds(l, p, b, y)
  <2> DEFINE x == [id |-> k.slice_id, part |-> k.part]
             f == BufFor(k)
  <2>1. KeyOf(b) = KeyOf(k) /\ x \in b.slices
    BY <1>1, FilledHas
  <2>2. Holds(k, p, b, x)
    BY <2>1 DEF Holds
  <2>3. ASSUME NEW y \in b.slices, y # x
        PROVE  \E l \in got : Holds(l, p, b, y)
    <3>1. f \in recv_map[p] /\ KeyOf(f) = KeyOf(k) /\ y \in f.slices
      BY <1>1, <2>3, FilledHas
    <3>2. PICK l \in got : Holds(l, p, f, y)
      BY <1>1, <3>1 DEF TraceInv, AcksTraced, BufferTraced
    <3> QED
      BY <2>1, <3>1, <3>2 DEF Holds
  <2> HIDE DEF b, x, f
  <2>4. \A y \in b.slices : \E l \in got' : Holds(l, p, b, y)
    BY <1>2, <2>2, <2>3
  <2> QED
    BY <2>1, <2>4 DEF b, p
<1>6. \A q \in Peer : \A c \in recv_map'[q] : BufferTraced(q, c)'
  <2>1. recv_map \in [Peer -> SUBSET RecvBuf]
    BY DEF TypeOK
  <2>2. \A q \in Peer : \A c \in recv_map[q] : BufferTraced(q, c)'
    BY <1>3, TracedGrows DEF TraceInv, AcksTraced
  <2> HIDE DEF b, p
  <2>3. \A q \in Peer : \A c \in recv_map'[q] : c \in recv_map[q] \/ (q = p /\ c = b)
    BY <1>1, <1>2, <2>1
  <2>4. \A q \in Peer : \A c \in recv_map'[q] : q = p /\ c = b => BufferTraced(q, c)'
    BY <1>5 DEF BufferTraced, Holds, KeyOf
  <2> QED
    BY <2>2, <2>3, <2>4
<1>7. \A i \in Ids(b) : Processed(k.src, p, k.chunk_id, i)'
  <2> SUFFICES ASSUME NEW i \in Ids(b)
               PROVE  \E l \in got' : /\ l.src = k.src /\ l.dst = p
                                      /\ l.chunk_id = k.chunk_id /\ l.slice_id = i
    BY DEF Processed
  <2>1. PICK y \in b.slices : y.id = i
    BY DEF Ids
  <2>2. PICK l \in got' : /\ l.dst = p /\ KeyOf(l) = KeyOf(b)
                          /\ y = [id |-> l.slice_id, part |-> l.part]
    BY <1>5 DEF Holds
  <2>3. KeyOf(l) = KeyOf(k)
    BY <1>1, <2>2, FilledHas
  <2>4. l.src = k.src /\ l.chunk_id = k.chunk_id /\ l.slice_id = i
    BY <2>1, <2>2, <2>3 DEF KeyOf
  <2> QED
    BY <2>2, <2>4
<1>8. TrueHeaders'
  <2>1. \A l \in wire' : l.type = "slice" => l \in wire
    <3> HIDE DEF ack
    <3> QED
      BY <1>2, <1>4
  <2>2. \A l : TrueHeader(l) <=> TrueHeader(l)'
    BY <1>3, TracedGrows
  <2> QED
    BY <1>1, <1>2, <2>1, <2>2 DEF TraceInv, TrueHeaders, SliceIds, NumSlices
<1> HIDE DEF ack
<1>9. \A l \in wire' : l.type = "ack" =>
          \A i \in l.acked : Processed(l.dst, l.src, l.chunk_id, i)'
  <2> SUFFICES ASSUME NEW l \in wire', l.type = "ack", NEW i \in l.acked
               PROVE  Processed(l.dst, l.src, l.chunk_id, i)'
    OBVIOUS
  <2>1. CASE l \in wire
    BY <1>3, <2>1, TracedGrows DEF TraceInv, AcksTraced
  <2>2. CASE l = ack
    <3>1. l.src = p /\ l.dst = k.src /\ l.chunk_id = k.chunk_id /\ i \in Ids(b)
      BY <1>4, <2>2
    <3> QED
      BY <1>7, <3>1
  <2> QED
    BY <1>2, <2>1, <2>2
<1>10. AcksTraced'
  BY <1>2, <1>3, <1>6, <1>9, TracedGrows DEF TraceInv, AcksTraced
<1> QED
  BY <1>8, <1>10 DEF TraceInv

\* An ack is queued for the next tick.
LEMMA TraceRecvAck ==
    ASSUME TypeOK, TraceInv, NEW k \in wire, RecvAck(k)
    PROVE  TraceInv'
<1> DEFINE a == [src |-> k.src, chunk_id |-> k.chunk_id, acked |-> k.acked]
<1>1. k.type = "ack" /\ k.dst \in Peer
  BY DEF TypeOK, RecvAck, SliceType, AckType
<1>2. /\ acked_queue' = [acked_queue EXCEPT ![k.dst] = @ \cup {a}]
      /\ wire' \subseteq wire /\ UNCHANGED <<send_map, recv_map, got>>
  BY DEF RecvAck, Received, receiverVars, historyVars
<1>3. \A i \in a.acked : Processed(k.dst, a.src, a.chunk_id, i)
  BY <1>1 DEF TraceInv, AcksTraced
<1>4. TrueHeaders'
  BY <1>2, TracedGrows DEF TraceInv, TrueHeaders, SliceIds, NumSlices
<1>5. AcksTraced'
  <2> HIDE DEF a
  <2>1. \A p \in Peer : \A e \in acked_queue'[p] :
            e \in acked_queue[p] \/ (p = k.dst /\ e = a)
    BY <1>2 DEF TypeOK
  <2>2. \A p \in Peer : \A e \in acked_queue'[p] :
            \A i \in e.acked : Processed(p, e.src, e.chunk_id, i)
    BY <1>3, <2>1 DEF TraceInv, AcksTraced
  <2> QED
    BY <1>2, <2>2, TracedGrows DEF TraceInv, AcksTraced
<1> QED
  BY <1>4, <1>5 DEF TraceInv

LEMMA TraceOther ==
    ASSUME TypeOK, TraceInv,
           \/ \E t \in Traffic : Send(t[1], t[2], t[3])
           \/ \E p \in Peer : RecvTick(p) \/ Gc(p) \/ Reboot(p)
           \/ UNCHANGED vars
    PROVE  TraceInv'
<1>1. UNCHANGED <<wire, got>>
  BY DEF Send, RecvTick, Gc, Reboot, senderVars, historyVars, vars
<1>2. \A p \in Peer : /\ send_map'[p] \subseteq send_map[p]
                      /\ recv_map'[p] \subseteq recv_map[p]
                      /\ acked_queue'[p] \subseteq acked_queue[p]
  BY DEF TypeOK, Send, RecvTick, Gc, Reboot, senderVars, receiverVars, vars
<1>3. TrueHeaders'
  BY <1>1, <1>2, TracedGrows DEF TraceInv, TrueHeaders, SliceIds, NumSlices
<1>4. AcksTraced'
  BY <1>1, <1>2, TracedGrows DEF TraceInv, AcksTraced
<1> QED
  BY <1>3, <1>4 DEF TraceInv

LEMMA TraceStep ==
    ASSUME TypeOK, TraceInv, [Next]_vars
    PROVE  TraceInv'
<1>1. ASSUME NEW p \in Peer, NEW elapsed \in 1 .. WAIT_UNTIL_RETRY,
             NEW budget \in BOOLEAN, Tick(p, elapsed, budget)
      PROVE  TraceInv'
  BY <1>1, TraceTick
<1>2. ASSUME NEW k \in wire, RecvSlice(k) \/ RecvAck(k) PROVE TraceInv'
  BY <1>2, TraceRecvSlice, TraceRecvAck
<1> QED
  BY <1>1, <1>2, TraceOther DEF Next

\* No ack names a slice that its sender has not processed: on the wire, in the
\* sender's queue or under way from a buffer, whatever is lost, duplicated,
\* collected or restarted.
THEOREM AcksName == Spec => []TraceInv
<1>1. Init => TraceInv
  BY DEF Init, TraceInv, TrueHeaders, AcksTraced
<1> QED
  BY <1>1, TraceStep, TypeCorrect, PTL DEF Spec

-----------------------------------------------------------------------------
\* A slice leaves send_map when it was processed or its tries ran out.

\* A slice that is not acked stays through the first part of a tick.
LEMMA UnackedStays ==
    ASSUME TypeOK, IdsNotReused, IdInv, NEW p \in Peer, NEW elapsed \in Nat,
           NEW s \in Unacked(p)
    PROVE  \E t \in Age(Ticked(p), elapsed) : SameKey(s, t) /\ t.tries = s.tries
<1>1. s \in send_map[p] /\ s \in SendState
  BY DEF Unacked, TypeOK
<1>2. s.chunk_id \in Nat /\ s.dst \in Peer /\ s.m \in Msg
  BY <1>1 DEF SendState
<1>3. s.chunk_id < CutSoFar(p)
  <2>1. InUse(p, s.chunk_id, s.dst, s.m)
    BY <1>1 DEF InUse
  <2> QED
    BY <1>2, <2>1 DEF IdInv, IdsFresh
<1>4. CutSoFar(p) \in Nat
  BY QueueTypes DEF IdInv, Counted, CutSoFar
<1>5. ASSUME NEW t \in Cut(p) PROVE t.chunk_id # s.chunk_id
  <2>1. PICK i \in 1 .. Len(chunk_queue[p]) : t.chunk_id = ChunkId(p, i)
    BY CutIsNew DEF NewUse
  <2>2. t.chunk_id = CutSoFar(p) + i - 1 /\ i >= 1 /\ i \in Nat
    BY <2>1, NewIds, QueueTypes DEF IdInv
  <2> HIDE DEF CutSoFar
  <2> QED
    BY <1>2, <1>3, <1>4, <2>2
<1>6. s \in Ticked(p)
  BY <1>5 DEF Ticked, SameKey
<1> DEFINE t == [s EXCEPT !.wait = IF @ > elapsed THEN @ - elapsed ELSE 0]
<1>7. t \in Age(Ticked(p), elapsed)
  BY <1>6 DEF Age
<1>8. SameSlice(t, s) /\ t.tries = s.tries
  BY <1>1, AgedSame
<1> HIDE DEF t
<1> QED
  BY <1>7, <1>8 DEF SameKey, SameSlice

\* What an ack takes out of send_map has been processed.
LEMMA AckedIsProcessed ==
    ASSUME ChunksFit, TypeOK, IdInv, TraceInv,
           NEW p \in Peer, NEW s \in send_map[p], IsAcked(p, s)
    PROVE  \E k \in got : /\ k.src = p /\ k.dst = s.dst /\ k.chunk_id = s.chunk_id
                          /\ k.part = [m |-> s.m, i |-> s.slice_id]
<1>1. s \in SendState
  BY DEF TypeOK
<1>2. s.chunk_id \in Nat /\ s.dst \in Peer /\ s.m \in Msg
  BY <1>1 DEF SendState
<1>3. PICK k \in got : /\ k.src = p /\ k.dst = s.dst
                       /\ k.chunk_id = s.chunk_id /\ k.slice_id = s.slice_id
  <2>1. PICK a \in acked_queue[p] :
            a.src = s.dst /\ a.chunk_id = s.chunk_id /\ s.slice_id \in a.acked
    BY DEF IsAcked
  <2>2. Processed(p, a.src, a.chunk_id, s.slice_id)
    BY <2>1 DEF TraceInv, AcksTraced
  <2> QED
    BY <2>1, <2>2 DEF Processed
<1>4. k \in SliceType /\ k.part.m \in Msg /\ k.part.i \in Nat
      /\ k.part = [m |-> k.part.m, i |-> k.part.i]
  BY DEF TypeOK, SliceType, Part
<1>5. k.part.m = s.m
  <2>1. InUse(p, s.chunk_id, s.dst, s.m) /\ InUse(p, s.chunk_id, s.dst, k.part.m)
    BY <1>3 DEF InUse
  <2> QED
    BY <1>2, <1>4, <2>1 DEF IdInv, OneChunk
<1>6. k.part.i = s.slice_id
  <2>1. k.part.i \in SliceIds(k.part.m) /\ k.slice_id = k.part.i % MAX_SLICES
    BY DEF TraceInv, TrueHeaders, TrueHeader
  <2>2. NumSlices(k.part.m) \in Nat /\ NumSlices(k.part.m) <= MAX_SLICES
    BY <1>4, NumSlicesType DEF ChunksFit
  <2>3. MAX_SLICES \in Nat /\ MAX_SLICES >= 1
    BY ConstantsAssumption
  <2>4. k.part.i < MAX_SLICES
    BY <1>4, <2>1, <2>2, <2>3 DEF SliceIds
  <2>5. k.part.i % MAX_SLICES = k.part.i
    BY <1>4, <2>3, <2>4, ModFacts
  <2> QED
    BY <1>3, <2>1, <2>5
<1> QED
  BY <1>3, <1>4, <1>5, <1>6

LEMMA TickAcked ==
    ASSUME IdsNotReused, ChunksFit, TypeOK, IdInv, TraceInv,
           NEW p \in Peer, NEW elapsed \in 1 .. WAIT_UNTIL_RETRY,
           NEW budget \in BOOLEAN, Tick(p, elapsed, budget), NEW s \in send_map[p]
    PROVE  \/ s.tries >= MaxTries
           \/ \E t \in send_map'[p] : SameKey(s, t)
           \/ \E k \in got : /\ k.src = p /\ k.dst = s.dst /\ k.chunk_id = s.chunk_id
                             /\ k.part = [m |-> s.m, i |-> s.slice_id]
<1> DEFINE S == Age(Ticked(p), elapsed)
<1>1. CASE IsAcked(p, s)
  BY <1>1, AckedIsProcessed
<1>2. CASE ~IsAcked(p, s)
  <2>1. elapsed \in Nat /\ MaxTries \in Nat
    BY ConstantsAssumption
  <2>2. s \in Unacked(p) /\ s \in SendState
    BY <1>2 DEF Unacked, TypeOK
  <2>3. PICK t \in S : SameKey(s, t) /\ t.tries = s.tries
    BY <2>1, <2>2, UnackedStays
  <2>4. \A u \in S : u \in SendState
    BY <2>1, AgedFrom
  <2>5. send_map \in [Peer -> SUBSET SendState]
    BY DEF TypeOK
  <2>6. CASE send_map' = [send_map EXCEPT ![p] = S]
    <3> HIDE DEF S
    <3> QED
      BY <2>3, <2>5, <2>6
  <2>7. ASSUME NEW u \in S, send_map' = [send_map EXCEPT ![p] = AfterSending(S, u)]
        PROVE  s.tries >= MaxTries \/ \E v \in send_map'[p] : SameKey(s, v)
    <3> HIDE DEF S
    <3>1. send_map'[p] = AfterSending(S, u)
      BY <2>5, <2>7
    <3>2. CASE t # u
      <4>1. t \in AfterSending(S, u)
        BY <3>2 DEF AfterSending
      <4> QED
        BY <2>3, <3>1, <4>1
    <3>3. CASE t = u /\ u.tries < MaxTries
      <4> DEFINE v == [u EXCEPT !.tries = @ + 1, !.wait = WAIT_UNTIL_RETRY]
      <4>1. v \in AfterSending(S, u)
        BY <3>3 DEF AfterSending
      <4>2. SameKey(s, v)
        BY <2>3, <2>4, <3>3 DEF SameKey, SendState
      <4> QED
        BY <3>1, <4>1, <4>2
    <3>4. CASE t = u /\ ~(u.tries < MaxTries)
      <4>1. s.tries \in Nat
        BY <2>1, <2>2 DEF SendState
      <4> QED
        BY <2>1, <2>3, <3>4, <4>1
    <3> QED
      BY <3>2, <3>3, <3>4
  <2> QED
    BY <2>6, <2>7 DEF Tick, Due
<1> QED
  BY <1>1, <1>2

\* A sender gives a slice up, while it has tries left, only when its destination
\* has processed it: for any loss, duplication and reordering of slices and
\* acks, until a chunk ID is used again.
THEOREM AckedWasReceivedCorrect ==
    ASSUME IdsNotReused, ChunksFit
    PROVE  Spec => AckedWasReceived
<1> DEFINE Given(p, s) ==
               \/ nreboots' # nreboots
               \/ s.tries >= MaxTries
               \/ \E t \in send_map'[p] : SameKey(s, t)
               \/ \E k \in got :
                     /\ k.src = p /\ k.dst = s.dst /\ k.chunk_id = s.chunk_id
                     /\ k.part = [m |-> s.m, i |-> s.slice_id]
           A == \A p \in Peer : \A s \in send_map[p] : Given(p, s)
<1>1. TypeOK /\ IdInv /\ TraceInv /\ [Next]_vars => [A]_vars
  <2> SUFFICES ASSUME TypeOK, IdInv, TraceInv, Next, NEW p \in Peer, NEW s \in send_map[p]
               PROVE  Given(p, s)
    OBVIOUS
  <2>1. CASE send_map'[p] = send_map[p]
    BY <2>1 DEF SameKey
  <2>2. ASSUME NEW q \in Peer, NEW elapsed \in 1 .. WAIT_UNTIL_RETRY,
               NEW budget \in BOOLEAN, Tick(q, elapsed, budget)
        PROVE  Given(p, s)
    <3>1. CASE q = p
      BY <2>2, <3>1, TickAcked
    <3>2. CASE q # p
      BY <2>1, <2>2, <3>2, TickSlices
    <3> QED
      BY <3>1, <3>2
  <2>3. \/ \E q \in Peer, elapsed \in 1 .. WAIT_UNTIL_RETRY, budget \in BOOLEAN :
               Tick(q, elapsed, budget)
        \/ \E q \in Peer : Reboot(q)
        \/ UNCHANGED send_map
    BY DEF Next, Send, RecvSlice, RecvAck, RecvTick, Gc, senderVars
  <2> QED
    BY <2>1, <2>2, <2>3, NoReboot
<1> QED
  BY <1>1, TypeCorrect, IdsStandForOneChunk, AcksName, PTL DEF Spec, AckedWasReceived

-----------------------------------------------------------------------------
\* A received chunk is not lost between its last ack and the "message" event.
\* The invariant follows every slice that was processed: it lies in the one
\* buffer of its chunk until the chunk is queued.

\* No chunk takes as many slices as [n slices] has values.
ChunksCountable == \A m \in Msg : NumSlices(m) < MAX_SLICES

\* No peer is sent two chunks of the same length.
LengthsDiffer ==
    \A t, u \in Traffic : t[2] = u[2] /\ ByteLen[t[3]] = ByteLen[u[3]] => t = u

Queued(q) == recv_queue[q] \cup delivered[q]

Emitted(k) == [src |-> k.src, chunk |-> Whole(k.part.m)]

Content(k) == [id |-> k.slice_id, part |-> k.part]

Kept(k) ==
    \/ Emitted(k) \in Queued(k.dst)
    \/ \E b \in recv_map[k.dst] : KeyOf(b) = KeyOf(k) /\ Content(k) \in b.slices

OneBuffer ==
    \A p \in Peer : \A b, c \in recv_map[p] : KeyOf(b) = KeyOf(c) => b = c

\* A buffer waits for a slice of the chunk it holds slices of.
Waiting(b) ==
    /\ ~Complete(b)
    /\ \A x \in b.slices : b.nslices = NumSlices(x.part.m)

QueuedInTraffic ==
    \A p \in Peer : \A d \in Queued(p) :
        \E m \in Msg : d.chunk = Whole(m) /\ <<d.src, p, m>> \in Traffic

KeptInv ==
    /\ \A k \in got : Kept(k)
    /\ OneBuffer
    /\ \A p \in Peer : \A b \in recv_map[p] : Waiting(b)
    /\ QueuedInTraffic

LEMMA NumSlicesPositive ==
    ASSUME NEW m \in Msg
    PROVE  NumSlices(m) >= 1
<1>1. ByteLen[m] \in Nat /\ ByteLen[m] >= 1 /\ SLICE_SZ \in Nat /\ SLICE_SZ >= 1
  BY ConstantsAssumption
<1>2. \A x, y \in Nat : y >= 1 /\ x >= y => x \div y >= 1
  OBVIOUS
<1>3. ByteLen[m] + SLICE_SZ - 1 \in Nat /\ ByteLen[m] + SLICE_SZ - 1 >= SLICE_SZ
  BY <1>1
<1> QED
  BY <1>1, <1>2, <1>3 DEF NumSlices

LEMMA WholeSize ==
    ASSUME NEW m \in Msg
    PROVE  IsFiniteSet(Whole(m)) /\ Cardinality(Whole(m)) = NumSlices(m)
<1>1. NumSlices(m) \in Nat /\ NumSlices(m) >= 1
  BY NumSlicesType, NumSlicesPositive
<1>2. IsFiniteSet(SliceIds(m)) /\ Cardinality(SliceIds(m)) = NumSlices(m)
  BY <1>1, FS_Interval DEF SliceIds
<1> DEFINE f == [i \in SliceIds(m) |-> [id |-> i, part |-> [m |-> m, i |-> i]]]
<1>3. /\ f \in [SliceIds(m) -> Whole(m)]
      /\ \A i, j \in SliceIds(m) : f[i] = f[j] => i = j
      /\ \A x \in Whole(m) : \E i \in SliceIds(m) : f[i] = x
  BY DEF Whole
<1> HIDE DEF f
<1>4. f \in Bijection(SliceIds(m), Whole(m))
  BY <1>3, Fun_IsBij
<1> QED
  BY <1>2, <1>4, FS_Bijection DEF ExistsBijection

\* The length that the receive queue sorts by is that of the chunk.
LEMMA WholeLength ==
    ASSUME NEW m \in Msg
    PROVE  ChunkLen(Whole(m)) = ByteLen[m]
<1> DEFINE n == NumSlices(m)
           last == CHOOSE x \in Whole(m) : x.id = n - 1
<1>1. n \in Nat /\ n >= 1 /\ ByteLen[m] \in Nat /\ SLICE_SZ \in Nat
  BY NumSlicesType, NumSlicesPositive, ConstantsAssumption
<1>2. last.part = [m |-> m, i |-> n - 1]
  <2>1. n - 1 \in SliceIds(m)
    BY <1>1 DEF SliceIds
  <2> HIDE DEF n
  <2>2. \E x \in Whole(m) : x.id = n - 1
    <3>1. [id |-> n - 1, part |-> [m |-> m, i |-> n - 1]] \in Whole(m)
      BY <2>1 DEF Whole
    <3> QED
      BY <3>1
  <2>3. last \in Whole(m) /\ last.id = n - 1
    BY <2>2
  <2> HIDE DEF last
  <2> QED
    BY <2>3 DEF Whole
<1>3. PartLen(last.part) = ByteLen[m] - SLICE_SZ * (n - 1)
  BY <1>1, <1>2 DEF PartLen
<1>4. ChunkLen(Whole(m)) = SLICE_SZ * (n - 1) + PartLen(last.part)
  BY WholeSize DEF ChunkLen
<1>5. SLICE_SZ * (n - 1) \in Int
  BY <1>1
<1> HIDE DEF n, last
<1>6. \A a, l \in Int : a + (l - a) = l
  OBVIOUS
<1> QED
  BY <1>1, <1>3, <1>4, <1>5, <1>6

-----------------------------------------------------------------------------
\* Slices of one chunk ID

Packets == {k \in wire \cup got : k.type = "slice"}

LEMMA PacketFacts ==
    ASSUME ChunksCountable, TypeOK, TraceInv, NEW k \in Packets
    PROVE  /\ k \in SliceType /\ k.part.m \in Msg /\ k.part.i \in Nat
           /\ k.src \in Peer /\ k.dst \in Peer /\ k.chunk_id \in Nat
           /\ k.part = [m |-> k.part.m, i |-> k.part.i]
           /\ k.slice_id = k.part.i /\ k.part.i \in SliceIds(k.part.m)
           /\ k.nslices = NumSlices(k.part.m)
           /\ k.checksum = Checksum[k.part.m]
           /\ Content(k) \in Whole(k.part.m)
<1>1. k \in SliceType
  BY DEF Packets, TypeOK, SliceType, AckType
<1>2. /\ k.part.m \in Msg /\ k.part.i \in Nat
      /\ k.part = [m |-> k.part.m, i |-> k.part.i]
  BY <1>1 DEF SliceType, Part
<1>3. TrueHeader(k)
  BY DEF Packets, TraceInv, TrueHeaders
<1>4. /\ NumSlices(k.part.m) \in Nat /\ NumSlices(k.part.m) < MAX_SLICES
      /\ MAX_SLICES \in Nat /\ MAX_SLICES >= 1
  BY <1>2, NumSlicesType, ConstantsAssumption DEF ChunksCountable
<1>5. k.part.i \in SliceIds(k.part.m) /\ k.part.i < MAX_SLICES
  BY <1>2, <1>3, <1>4 DEF TrueHeader, SliceIds
<1>6. /\ k.part.i % MAX_SLICES = k.part.i
      /\ NumSlices(k.part.m) % MAX_SLICES = NumSlices(k.part.m)
  BY <1>2, <1>4, <1>5, ModFacts
<1>7. k.slice_id = k.part.i /\ k.nslices = NumSlices(k.part.m)
  BY <1>3, <1>6 DEF TrueHeader
<1>8. Content(k) \in Whole(k.part.m)
  BY <1>2, <1>5, <1>7 DEF Content, Whole
<1> QED
  BY <1>1, <1>2, <1>3, <1>5, <1>7, <1>8 DEF SliceType, TrueHeader

LEMMA PacketsAgree ==
    ASSUME ChunksCountable, TypeOK, IdInv, TraceInv, NEW k \in Packets, NEW l \in Packets,
           k.src = l.src, k.chunk_id = l.chunk_id
    PROVE  /\ k.part.m = l.part.m /\ k.dst = l.dst /\ KeyOf(k) = KeyOf(l)
           /\ k.slice_id = l.slice_id => Content(k) = Content(l)
<1>1. /\ InUse(k.src, k.chunk_id, k.dst, k.part.m)
      /\ InUse(k.src, k.chunk_id, l.dst, l.part.m)
  <2>1. \A x \in Packets : InUse(x.src, x.chunk_id, x.dst, x.part.m)
    BY DEF Packets, InUse
  <2> QED
    BY <2>1
<1>0. /\ k.src \in Peer /\ k.chunk_id \in Nat
      /\ k.dst \in Peer /\ l.dst \in Peer /\ k.part.m \in Msg /\ l.part.m \in Msg
  BY PacketFacts
<1>2. k.part.m = l.part.m /\ k.dst = l.dst
  <2>1. OneChunk
    BY DEF IdInv
  <2> QED
    BY <1>0, <1>1, <2>1 DEF OneChunk
<1>3. k.checksum = l.checksum
  BY <1>2, PacketFacts
<1>4. k.slice_id = l.slice_id => k.part = l.part
  BY <1>2, PacketFacts
<1> QED
  BY <1>2, <1>3, <1>4 DEF KeyOf, Content

\* A buffer holds slices of the chunk of its chunk ID only, and one with the
\* last of them does not overflow.
LEMMA FilledChunk ==
    ASSUME ChunksCountable, TypeOK, IdInv, TraceInv, KeptInv,
           NEW k \in wire, k.type = "slice"
    PROVE  /\ Filled(k).slices \subseteq Whole(k.part.m)
           /\ Filled(k).nslices = NumSlices(k.part.m)
           /\ ~Overflows(Filled(k))
           /\ Complete(Filled(k)) => Filled(k).slices = Whole(k.part.m)
<1> DEFINE m == k.part.m
           b == Filled(k)
           f == BufFor(k)
<1>1. k \in Packets /\ k \in SliceType /\ k.dst \in Peer /\ m \in Msg
  BY PacketFacts DEF Packets
<1>2. \A l \in got : l \in Packets
  BY DEF TypeOK, SliceType, Packets
<1>3. Content(k) \in Whole(m) /\ k.nslices = NumSlices(m)
  BY <1>1, PacketFacts
<1>4. ASSUME f \in recv_map[k.dst], KeyOf(f) = KeyOf(k)
      PROVE  f.slices \subseteq Whole(m) /\ f.nslices = NumSlices(m)
  <2>1. f.slices # {} /\ \A x \in f.slices : \E l \in got : Holds(l, k.dst, f, x)
    BY <1>1, <1>4 DEF TraceInv, AcksTraced, BufferTraced
  <2>2. ASSUME NEW x \in f.slices PROVE x \in Whole(m) /\ x.part.m = m
    <3>1. PICK l \in got : Holds(l, k.dst, f, x)
      BY <2>1
    <3>2. l.src = k.src /\ l.chunk_id = k.chunk_id /\ x = Content(l)
      BY <1>4, <3>1 DEF Holds, KeyOf, Content
    <3>3. l.part.m = m
      BY <1>1, <1>2, <3>2, PacketsAgree
    <3>4. x \in Whole(m)
      BY <1>2, <3>2, <3>3, PacketFacts
    <3> QED
      BY <3>2, <3>3, <3>4 DEF Content
  <2>3. f.nslices = NumSlices(m)
    BY <1>1, <1>4, <2>1, <2>2 DEF KeptInv, Waiting
  <2> QED
    BY <2>2, <2>3
<1>5. b.slices \subseteq Whole(m) /\ b.nslices = NumSlices(m) /\ b.slices # {}
  BY <1>1, <1>3, <1>4, FilledHas DEF Content
<1> HIDE DEF b, m
<1>6. ~Overflows(b)
  <2>1. IsFiniteSet(Whole(m)) /\ Cardinality(Whole(m)) = NumSlices(m) /\ NumSlices(m) \in Nat
    BY <1>1, WholeSize, NumSlicesType
  <2>2. IsFiniteSet(b.slices) /\ Cardinality(b.slices) <= Cardinality(Whole(m))
    BY <1>5, <2>1, FS_Subset
  <2>3. Cardinality(b.slices) \in Nat
    BY <2>2, FS_CardinalityType
  <2> QED
    BY <1>5, <2>1, <2>2, <2>3 DEF Overflows
<1>7. Complete(b) => b.slices = Whole(m)
  <2> SUFFICES ASSUME Complete(b), NEW i \in SliceIds(m)
               PROVE  [id |-> i, part |-> [m |-> m, i |-> i]] \in b.slices
    BY <1>5 DEF Whole
  <2>1. PICK x \in b.slices : x.id = i
    BY <1>5 DEF Complete, Ids, SliceIds
  <2>2. PICK j \in SliceIds(m) : x = [id |-> j, part |-> [m |-> m, i |-> j]]
    BY <1>5, <2>1 DEF Whole
  <2> QED
    BY <2>1, <2>2
<1> QED
  BY <1>5, <1>6, <1>7 DEF b, m

-----------------------------------------------------------------------------
\* The steps

\* Where a slice that was processed before is kept while another one comes in.
LEMMA KeptRecvSlice ==
    ASSUME ChunksCountable, LengthsDiffer, TypeOK, TypeOK', IdInv, TraceInv, KeptInv,
           NEW k \in wire, RecvSlice(k)
    PROVE  KeptInv'
<1> DEFINE p == k.dst
           m == k.part.m
           b == Filled(k)
           old == {c \in recv_map[p] : KeyOf(c) # KeyOf(k)}
           d == [src |-> k.src, chunk |-> b.slices]
<1>1. k \in Packets /\ k \in SliceType /\ p \in Peer /\ m \in Msg /\ k.type = "slice"
  BY PacketFacts DEF Packets, RecvSlice
<1>2. \A l \in got : l \in Packets /\ l.dst \in Peer
  <2>1. \A l \in got : l \in Packets
    BY DEF TypeOK, SliceType, Packets
  <2> QED
    BY <2>1, PacketFacts
<1>3. /\ b.slices \subseteq Whole(m) /\ b.nslices = NumSlices(m)
      /\ ~Overflows(b) /\ (Complete(b) => b.slices = Whole(m))
      /\ KeyOf(b) = KeyOf(k) /\ Content(k) \in b.slices
  BY <1>1, FilledChunk, FilledHas DEF Content
<1>4. <<k.src, p, m>> \in Traffic
  <2>1. InUse(k.src, k.chunk_id, p, m)
    BY <1>1 DEF InUse
  <2> QED
    BY <1>1, <2>1, PacketFacts DEF IdInv, IdsFresh
<1>5. /\ got' = got \cup {k} /\ UNCHANGED delivered
      /\ \/ /\ ~Complete(b)
            /\ recv_map' = [recv_map EXCEPT ![p] = old \cup {b}]
            /\ UNCHANGED recv_queue
         \/ /\ Complete(b)
            /\ recv_map' = [recv_map EXCEPT ![p] = old]
            /\ recv_queue' = [recv_queue EXCEPT ![p] =
                                OtherLengths(recv_queue[p], b.slices) \cup {d}]
  BY <1>3 DEF RecvSlice
<1>6. /\ recv_map \in [Peer -> SUBSET RecvBuf]
      /\ recv_queue \in [Peer -> SUBSET [src : Peer, chunk : Slices]]
  BY DEF TypeOK
<1>7. /\ \A q \in Peer : q # p => recv_map'[q] = recv_map[q] /\ Queued(q)' = Queued(q)
      /\ ~Complete(b) => recv_map'[p] = old \cup {b} /\ Queued(p)' = Queued(p)
      /\ Complete(b) => /\ recv_map'[p] = old
                        /\ recv_queue'[p] = OtherLengths(recv_queue[p], b.slices) \cup {d}
  <2> HIDE DEF p, old, b, d
  <2> QED
    BY <1>1, <1>5, <1>6 DEF Queued
<1>8. Complete(b) => /\ d = Emitted(k) /\ Emitted(k) \in Queued(p)'
                     /\ Queued(p)' \subseteq Queued(p) \cup {Emitted(k)}
  <2> SUFFICES ASSUME Complete(b)
               PROVE  /\ d = Emitted(k) /\ Emitted(k) \in Queued(p)'
                      /\ Queued(p)' \subseteq Queued(p) \cup {Emitted(k)}
    OBVIOUS
  <2>1. d = Emitted(k)
    BY <1>3 DEF Emitted
  <2>2. OtherLengths(recv_queue[p], b.slices) \subseteq recv_queue[p]
    BY DEF OtherLengths
  <2> HIDE DEF b, d, p
  <2> QED
    BY <1>5, <1>7, <2>1, <2>2 DEF Queued
\* Nothing that was queued is overwritten by a chunk of another length.
<1>9. \A q \in Peer : Queued(q) \subseteq Queued(q)'
  <2> SUFFICES ASSUME Complete(b), NEW e \in recv_queue[p]
               PROVE  e \in Queued(p)'
    BY <1>1, <1>5, <1>7 DEF Queued
  <2>1. PICK n \in Msg : e.chunk = Whole(n) /\ <<e.src, p, n>> \in Traffic
    BY <1>1 DEF KeptInv, QueuedInTraffic, Queued
  <2>2. CASE ChunkLen(e.chunk) # ChunkLen(b.slices)
    <3>1. e \in OtherLengths(recv_queue[p], b.slices)
      BY <2>2 DEF OtherLengths
    <3> HIDE DEF b, p, d
    <3> QED
      BY <1>7, <3>1 DEF Queued
  <2>3. CASE ChunkLen(e.chunk) = ChunkLen(b.slices)
    <3>1. ByteLen[n] = ByteLen[m]
      BY <1>1, <1>3, <2>1, <2>3, WholeLength
    <3> DEFINE t == <<e.src, p, n>>
               u == <<k.src, p, m>>
    <3>2. t \in Traffic /\ u \in Traffic
      BY <1>4, <2>1
    <3>3. t[2] = u[2] /\ ByteLen[t[3]] = ByteLen[u[3]]
      BY <3>1
    <3>4. t = u
      <4> HIDE DEF t, u
      <4> QED
        BY <3>2, <3>3 DEF LengthsDiffer
    <3>5. e.src = k.src /\ n = m
      BY <3>4
    <3>6. e = [src |-> e.src, chunk |-> e.chunk]
      BY <1>1, <1>6
    <3>7. e = Emitted(k)
      BY <2>1, <3>5, <3>6 DEF Emitted
    <3> HIDE DEF b, d, p, m
    <3> QED
      BY <1>8, <3>7
  <2> QED
    BY <2>2, <2>3
<1>10. \A l \in got' : Kept(l)'
  <2> SUFFICES ASSUME NEW l \in got'
               PROVE  \/ Emitted(l) \in Queued(l.dst)'
                      \/ \E c \in recv_map'[l.dst] :
                             KeyOf(c) = KeyOf(l) /\ Content(l) \in c.slices
    BY DEF Kept, Emitted, Content, KeyOf, Queued, Whole, SliceIds, NumSlices
  <2> HIDE DEF b, d
  <2>1. CASE l = k
    <3>1. CASE Complete(b)
      BY <1>8, <2>1, <3>1
    <3>2. CASE ~Complete(b)
      BY <1>3, <1>7, <2>1, <3>2
    <3> QED
      BY <3>1, <3>2
  <2>2. CASE l \in got /\ Emitted(l) \in Queued(l.dst)
    BY <1>2, <1>9, <2>2
  <2>3. ASSUME l \in got, NEW c \in recv_map[l.dst], KeyOf(c) = KeyOf(l), Content(l) \in c.slices
        PROVE  \/ Emitted(l) \in Queued(l.dst)'
               \/ \E e \in recv_map'[l.dst] : KeyOf(e) = KeyOf(l) /\ Content(l) \in e.slices
    <3>1. CASE l.dst # p
      BY <1>2, <1>7, <2>3, <3>1
    <3>2. CASE l.dst = p /\ KeyOf(l) # KeyOf(k)
      <4>1. c \in old
        BY <2>3, <3>2
      <4> HIDE DEF old
      <4> QED
        BY <1>7, <2>3, <3>2, <4>1
    <3>3. CASE l.dst = p /\ KeyOf(l) = KeyOf(k)
      <4>1. l.src = k.src /\ l.chunk_id = k.chunk_id
        BY <3>3 DEF KeyOf
      <4>2. l.part.m = m /\ (l.slice_id = k.slice_id => Content(l) = Content(k))
        BY <1>1, <1>2, <2>3, <4>1, PacketsAgree
      <4>3. CASE Complete(b)
        <5>1. Emitted(l) = Emitted(k)
          BY <4>1, <4>2 DEF Emitted
        <5> QED
          BY <1>8, <3>3, <4>3, <5>1
      <4>4. CASE ~Complete(b)
        <5>1. Content(l) \in b.slices
          <6>1. BufFor(k) = c /\
                b.slices = {x \in c.slices : x.id # k.slice_id} \cup {Content(k)}
            <7>1. c \in recv_map[k.dst] /\ KeyOf(c) = KeyOf(k)
              BY <2>3, <3>3
            <7>2. /\ BufFor(k) \in recv_map[k.dst] /\ KeyOf(BufFor(k)) = KeyOf(k)
                  /\ Filled(k).slices =
                        {x \in BufFor(k).slices : x.id # k.slice_id} \cup {Content(k)}
              BY <1>1, <7>1, FilledHas DEF Content
            <7>3. BufFor(k) = c
              BY <1>1, <7>1, <7>2 DEF KeptInv, OneBuffer
            <7> QED
              BY <7>2, <7>3 DEF b
          <6>2. Content(l).id = l.slice_id
            BY DEF Content
          <6> QED
            BY <2>3, <4>2, <6>1, <6>2
        <5> QED
          BY <1>3, <1>7, <3>3, <4>4, <5>1
      <4> QED
        BY <4>3, <4>4
    <3> QED
      BY <3>1, <3>2, <3>3
  <2> QED
    BY <1>5, <2>1, <2>2, <2>3 DEF KeptInv, Kept
<1>11. \A q \in Peer : \A c \in recv_map'[q] :
           c \in recv_map[q] \/ (q = p /\ c = b /\ ~Complete(b))
  <2> HIDE DEF b
  <2> QED
    BY <1>7
<1>12. OneBuffer'
  <2> SUFFICES ASSUME NEW q \in Peer, NEW c \in recv_map'[q], NEW e \in recv_map'[q],
                      KeyOf(c) = KeyOf(e)
               PROVE  c = e
    BY DEF OneBuffer, KeyOf
  <2>1. CASE c \in recv_map[q] /\ e \in recv_map[q]
    BY <2>1 DEF KeptInv, OneBuffer
  <2>2. CASE q = p
    <3> HIDE DEF b
    <3>1. \A x \in recv_map'[p] : (x \in recv_map[p] /\ KeyOf(x) # KeyOf(k)) \/ x = b
      BY <1>7
    <3> QED
      BY <1>3, <2>1, <2>2, <3>1
  <2> QED
    BY <1>11, <2>1, <2>2
<1>13. \A q \in Peer : \A c \in recv_map'[q] : Waiting(c)'
  <2> SUFFICES ASSUME NEW q \in Peer, NEW c \in recv_map'[q]
               PROVE  ~Complete(c) /\ \A x \in c.slices : c.nslices = NumSlices(x.part.m)
    BY DEF Waiting, Complete, Ids, NumSlices
  <2>1. CASE c \in recv_map[q]
    BY <2>1 DEF KeptInv, Waiting
  <2>2. CASE c = b /\ ~Complete(b)
    <3>1. \A x \in Whole(m) : x.part.m = m
      BY DEF Whole
    <3> HIDE DEF b, m
    <3> QED
      BY <1>3, <2>2, <3>1
  <2> QED
    BY <1>11, <2>1, <2>2
<1>14. QueuedInTraffic'
  <2> SUFFICES ASSUME NEW q \in Peer, NEW e \in Queued(q)'
               PROVE  \E n \in Msg : e.chunk = Whole(n) /\ <<e.src, q, n>> \in Traffic
    BY DEF QueuedInTraffic, Whole, SliceIds, NumSlices
  <2>1. CASE e \in Queued(q)
    BY <2>1 DEF KeptInv, QueuedInTraffic
  <2>2. CASE q = p /\ e = Emitted(k)
    <3>1. e.chunk = Whole(m) /\ e.src = k.src
      BY <2>2 DEF Emitted
    <3> QED
      BY <1>1, <1>4, <2>2, <3>1
  <2> HIDE DEF b, d
  <2> QED
    BY <1>7, <1>8, <2>1, <2>2
<1> QED
  BY <1>10, <1>12, <1>13, <1>14 DEF KeptInv

\* Steps that take nothing out of a buffer or of the queue, except to hand it
\* to the protocol layer.
LEMMA KeptSame ==
    ASSUME TypeOK, KeptInv, UNCHANGED <<got, recv_map>>,
           \A p \in Peer : Queued(p)' = Queued(p)
    PROVE  KeptInv'
<1>1. \A k \in got : k.dst \in Peer
  BY DEF TypeOK, SliceType
<1>2. \A k \in got' : Kept(k)'
  BY <1>1 DEF KeptInv, Kept, Emitted, Content, KeyOf, Whole, SliceIds, NumSlices
<1>3. OneBuffer' /\ \A p \in Peer : \A b \in recv_map'[p] : Waiting(b)'
  BY DEF KeptInv, OneBuffer, KeyOf, Waiting, Complete, Ids, NumSlices
<1>4. QueuedInTraffic'
  BY DEF KeptInv, QueuedInTraffic, Whole, SliceIds, NumSlices
<1> QED
  BY <1>2, <1>3, <1>4 DEF KeptInv

LEMMA KeptOther ==
    ASSUME IdsNotReused, ~GcEnabled, TypeOK, KeptInv, [Next]_vars,
           ~\E k \in wire : RecvSlice(k)
    PROVE  KeptInv'
<1>1. ASSUME NEW p \in Peer, RecvTick(p) PROVE KeptInv'
  <2>1. PICK d \in recv_queue[p] :
            /\ recv_queue' = [recv_queue EXCEPT ![p] = @ \ {d}]
            /\ delivered' = [delivered EXCEPT ![p] = @ \cup {d}]
    BY <1>1 DEF RecvTick
  <2>2. /\ recv_queue \in [Peer -> SUBSET [src : Peer, chunk : Slices]]
        /\ delivered \in [Peer -> SUBSET [src : Peer, chunk : Slices]]
    BY DEF TypeOK
  <2>3. \A q \in Peer : Queued(q)' = Queued(q)
    BY <2>1, <2>2 DEF Queued
  <2>4. UNCHANGED <<got, recv_map>>
    BY <1>1 DEF RecvTick
  <2> QED
    BY <2>3, <2>4, KeptSame
<1>2. CASE UNCHANGED <<got, recv_map, recv_queue, delivered>>
  BY <1>2, KeptSame DEF Queued
<1>3. ASSUME NEW p \in Peer, Gc(p) PROVE FALSE
  BY <1>3 DEF Gc
<1>4. \/ UNCHANGED <<got, recv_map, recv_queue, delivered>>
      \/ \E p \in Peer : RecvTick(p) \/ Gc(p) \/ Reboot(p)
  BY DEF Next, Send, Tick, RecvAck, receiverVars, historyVars, vars
<1> QED
  BY <1>1, <1>2, <1>3, <1>4, NoReboot

\* A chunk whose slices have all been processed is queued or has been emitted:
\* the invariant puts all of them into one buffer otherwise, and no buffer is
\* complete.
LEMMA KeptImpliesReceivedIsKept ==
    ASSUME ChunksCountable, TypeOK, TraceInv, KeptInv
    PROVE  ReceivedIsKept
<1> SUFFICES ASSUME NEW x \in sent, NEW c,
                    SliceIds(x[3]) \subseteq Arrived(x[1], x[2], x[3], c),
                    [src |-> x[1], chunk |-> Whole(x[3])] \notin Queued(x[2])
             PROVE  FALSE
  BY DEF ReceivedIsKept, Queued
<1> DEFINE p == x[1]  q == x[2]  m == x[3]
<1>1. p \in Peer /\ q \in Peer /\ m \in Msg
  BY DEF TypeOK
<1>2. \A l \in got : l \in Packets
  BY DEF TypeOK, SliceType, Packets
<1> HIDE DEF p, q, m
<1>3. ASSUME NEW i \in SliceIds(m)
      PROVE  \E b \in recv_map[q] : /\ KeyOf(b) = <<p, c, Checksum[m]>> /\ i \in Ids(b)
                                    /\ b.nslices = NumSlices(m)
  <2>1. PICK k \in got : /\ k.src = p /\ k.dst = q /\ k.chunk_id = c
                         /\ k.part.m = m /\ k.part.i = i
    BY <1>3 DEF Arrived, p, q, m
  <2>2. k.slice_id = i /\ k.checksum = Checksum[m]
    BY <1>2, <2>1, PacketFacts
  <2>3. Emitted(k) \notin Queued(k.dst)
    BY <2>1 DEF Emitted, p, q, m
  <2>4. PICK b \in recv_map[k.dst] : KeyOf(b) = KeyOf(k) /\ Content(k) \in b.slices
    BY <2>3 DEF KeptInv, Kept
  <2>5. KeyOf(b) = <<p, c, Checksum[m]>>
    BY <2>1, <2>2, <2>4 DEF KeyOf
  <2>6. Content(k).id = i /\ Content(k).part.m = m
    BY <2>1, <2>2 DEF Content
  <2>7. b.nslices = NumSlices(m)
    BY <1>1, <2>1, <2>4, <2>6 DEF KeptInv, Waiting
  <2> QED
    BY <2>1, <2>4, <2>5, <2>6, <2>7 DEF Ids
<1>4. 0 \in SliceIds(m)
  BY <1>1, NumSlicesType, NumSlicesPositive DEF SliceIds
<1>5. PICK b \in recv_map[q] : /\ KeyOf(b) = <<p, c, Checksum[m]>>
                               /\ b.nslices = NumSlices(m)
  BY <1>3, <1>4
<1>6. \A i \in SliceIds(m) : i \in Ids(b)
  BY <1>1, <1>3, <1>5 DEF KeptInv, OneBuffer
<1>7. Complete(b)
  BY <1>5, <1>6 DEF Complete, SliceIds
<1> QED
  BY <1>1, <1>5, <1>7 DEF KeptInv, Waiting

\* A chunk whose slices have all been processed, and so acked and given up by its
\* sender, is queued or has been emitted, as long as no two chunks for a peer
\* have the same length, none takes 256 slices, no buffer is collected, no chunk
\* ID is used again and nobody restarts: these five are all that can lose it.
THEOREM ReceivedIsKeptCorrect ==
    ASSUME IdsNotReused, ChunksCountable, LengthsDiffer, ~GcEnabled
    PROVE  Spec => []ReceivedIsKept
<1>1. Init => KeptInv
  BY DEF Init, KeptInv, OneBuffer, QueuedInTraffic, Queued
<1>2. TypeOK /\ TypeOK' /\ IdInv /\ TraceInv /\ KeptInv /\ [Next]_vars => KeptInv'
  BY KeptRecvSlice, KeptOther
<1>3. TypeOK /\ TraceInv /\ KeptInv => ReceivedIsKept
  BY KeptImpliesReceivedIsKept
<1> QED
  BY <1>1, <1>2, <1>3, TypeCorrect, IdsStandForOneChunk, AcksName, PTL DEF Spec

=============================================================================
