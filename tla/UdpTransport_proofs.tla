------------------------- MODULE UdpTransport_proofs -------------------------
(***************************************************************************)
(* Theorems about UdpTransport, for every set of peers and messages, every *)
(* slice size and field width, and any loss, duplication and reordering.   *)
(***************************************************************************)
EXTENDS UdpTransport, FiniteSetTheorems, FunctionTheorems, TLAPS

\* The number of slices of a chunk (chunk.js:36-40) is a natural number.
LEMMA NumSlicesType ==
    ASSUME NEW m \in Msg
    PROVE  NumSlices(m) \in Nat
<1> USE ConstantsAssumption
<1>1. ByteLen[m] \in Nat /\ ByteLen[m] >= 1
  OBVIOUS
<1>2. SLICE_SZ \in Nat /\ SLICE_SZ >= 1
  OBVIOUS
<1> HIDE ConstantsAssumption
<1>3. \A x, y \in Nat : y >= 1 => x \div y \in Nat
  OBVIOUS
<1>4. ByteLen[m] + SLICE_SZ - 1 \in Nat
  BY <1>1, <1>2
<1> QED
  BY <1>2, <1>3, <1>4 DEF NumSlices

LEMMA ElementType ==
    ASSUME NEW S, NEW q \in Seq(S), NEW i \in 1 .. Len(q)
    PROVE  q[i] \in S
OBVIOUS

LEMMA ModType ==
    ASSUME NEW x \in Nat, NEW y \in Nat, y >= 1
    PROVE  x % y \in 0 .. y - 1
OBVIOUS

-----------------------------------------------------------------------------
\* Types of the operators a send tick is made of

\* Cutting the queued chunks gives well-formed entries of send_map.
LEMMA CutType ==
    ASSUME TypeOK, NEW p \in Peer
    PROVE  Cut(p) \subseteq SendState
<1> SUFFICES ASSUME NEW i \in 1 .. Len(chunk_queue[p]),
                    NEW j \in SliceIds(chunk_queue[p][i].m)
             PROVE  [chunk_id |-> ChunkId(p, i), slice_id |-> j,
                     dst |-> chunk_queue[p][i].dst, m |-> chunk_queue[p][i].m,
                     tries |-> 0, wait |-> 0, ord |-> chunk_queue[p][i].ord]
                        \in SendState
  BY DEF Cut
<1>1. chunk_queue[p][i] \in QueuedChunk
  <2>1. chunk_queue[p] \in Seq(QueuedChunk)
    BY DEF TypeOK
  <2> QED
    BY <2>1, ElementType
<1>2. MAX_CHUNKS \in Nat /\ MAX_CHUNKS >= 1 /\ MaxTries \in Nat /\ WAIT_UNTIL_RETRY \in Nat
  BY ConstantsAssumption
<1>3. wr_ptr[p] \in Nat /\ i \in Nat /\ i >= 1
  <2>1. chunk_queue[p] \in Seq(QueuedChunk) /\ wr_ptr[p] \in 0 .. MAX_CHUNKS - 1
    BY DEF TypeOK
  <2> QED
    BY <1>2, <2>1
<1>4. wr_ptr[p] + i - 1 \in Nat
  BY <1>3
<1>5. ChunkId(p, i) \in Nat
  <2>1. ChunkId(p, i) \in 0 .. MAX_CHUNKS - 1
    BY <1>2, <1>4, ModType DEF ChunkId
  <2> QED
    BY <1>2, <2>1
<1>6. j \in Nat
  BY <1>1, NumSlicesType DEF QueuedChunk, SliceIds
<1>7. 0 \in 0 .. MaxTries /\ 0 \in 0 .. WAIT_UNTIL_RETRY
  BY <1>2
<1> QED
  BY <1>1, <1>5, <1>6, <1>7 DEF QueuedChunk, SendState

\* What send_map holds after the acks and the new chunks of a tick.
LEMMA TickedType ==
    ASSUME TypeOK, NEW p \in Peer
    PROVE  Ticked(p) \subseteq SendState
<1>1. Unacked(p) \subseteq SendState
  BY DEF TypeOK, Unacked
<1>2. ASSUME NEW s \in SendState PROVE Placed(p, s) \in SendState
  <2>1. CASE \E t \in Unacked(p) : SameKey(s, t)
    <3> DEFINE t == CHOOSE t \in Unacked(p) : SameKey(s, t)
    <3>1. t \in SendState
      BY <1>1, <2>1
    <3>2. t.ord \in Nat
      BY <3>1 DEF SendState
    <3>3. Placed(p, s) = [s EXCEPT !.ord = t.ord]
      BY <2>1 DEF Placed
    <3> HIDE DEF t
    <3> QED
      BY <3>2, <3>3 DEF SendState
  <2>2. CASE ~\E t \in Unacked(p) : SameKey(s, t)
    BY <2>2 DEF Placed
  <2> QED
    BY <2>1, <2>2
<1> QED
  BY <1>1, <1>2, CutType DEF Ticked

LEMMA AgeType ==
    ASSUME NEW S \in SUBSET SendState, NEW elapsed \in Nat
    PROVE  Age(S, elapsed) \subseteq SendState
<1> SUFFICES ASSUME NEW s \in S
             PROVE  [s EXCEPT !.wait = IF @ > elapsed THEN @ - elapsed ELSE 0]
                        \in SendState
  BY DEF Age
<1>1. WAIT_UNTIL_RETRY \in Nat
  BY ConstantsAssumption
<1>2. s.wait \in 0 .. WAIT_UNTIL_RETRY
  BY DEF SendState
<1>3. (IF s.wait > elapsed THEN s.wait - elapsed ELSE 0) \in 0 .. WAIT_UNTIL_RETRY
  BY <1>1, <1>2
<1> QED
  BY <1>3 DEF SendState

LEMMA AfterSendingType ==
    ASSUME NEW S \in SUBSET SendState, NEW s \in S
    PROVE  AfterSending(S, s) \subseteq SendState
<1>1. MaxTries \in Nat /\ WAIT_UNTIL_RETRY \in Nat
  BY ConstantsAssumption
<1>2. CASE s.tries < MaxTries
  <2>1. s.tries + 1 \in 0 .. MaxTries /\ WAIT_UNTIL_RETRY \in 0 .. WAIT_UNTIL_RETRY
    BY <1>1, <1>2 DEF SendState
  <2>2. [s EXCEPT !.tries = s.tries + 1, !.wait = WAIT_UNTIL_RETRY] \in SendState
    BY <2>1 DEF SendState
  <2> QED
    BY <1>2, <2>2 DEF AfterSending
<1>3. CASE ~(s.tries < MaxTries)
  BY <1>3 DEF AfterSending
<1> QED
  BY <1>2, <1>3

LEMMA SlicePacketType ==
    ASSUME NEW p \in Peer, NEW s \in SendState
    PROVE  SlicePacket(p, s) \in SliceType
<1>1. MAX_SLICES \in Nat /\ MAX_SLICES >= 1
  BY ConstantsAssumption
<1>2. s.m \in Msg /\ s.slice_id \in Nat /\ s.dst \in Peer /\ s.chunk_id \in Nat
  BY DEF SendState
<1>3. NumSlices(s.m) \in Nat
  BY <1>2, NumSlicesType
<1>4. s.slice_id % MAX_SLICES \in Nat
  BY <1>1, <1>2, ModType
<1>5. NumSlices(s.m) % MAX_SLICES \in Nat
  BY <1>1, <1>3, ModType
<1> QED
  BY <1>2, <1>4, <1>5 DEF SlicePacket, SliceType, Part

-----------------------------------------------------------------------------
\* Types of the operators a received slice is made of

LEMMA FilledType ==
    ASSUME TypeOK, NEW k \in SliceType
    PROVE  Filled(k) \in RecvBuf
<1>1. BufFor(k) \in RecvBuf
  <2>1. k.dst \in Peer /\ recv_map[k.dst] \subseteq RecvBuf
    BY DEF TypeOK, SliceType
  <2>2. CASE \E b \in recv_map[k.dst] : KeyOf(b) = KeyOf(k)
    BY <2>1, <2>2 DEF BufFor
  <2>3. CASE ~\E b \in recv_map[k.dst] : KeyOf(b) = KeyOf(k)
    BY <2>3 DEF BufFor, SliceType, RecvBuf, Slices
  <2> QED
    BY <2>2, <2>3
<1>2. [id |-> k.slice_id, part |-> k.part] \in [id : Nat, part : Part]
  BY DEF SliceType
<1> QED
  BY <1>1, <1>2 DEF Filled, RecvBuf, Slices

LEMMA AckPacketType ==
    ASSUME NEW k \in SliceType, NEW ids \in SUBSET Nat
    PROVE  AckPacket(k, ids) \in AckType
BY DEF AckPacket, AckType, SliceType

-----------------------------------------------------------------------------
\* Type correctness

LEMMA TypeInit == Init => TypeOK
BY ConstantsAssumption DEF Init, TypeOK

LEMMA TypeSend ==
    ASSUME TypeOK, NEW t \in Traffic, Send(t[1], t[2], t[3])
    PROVE  TypeOK'
<1>1. t[1] \in Peer /\ t[2] \in Peer /\ t[3] \in Msg
  BY ConstantsAssumption
<1> DEFINE p == t[1]  q == t[2]  m == t[3]
           c == [m |-> m, dst |-> q, ord |-> nsent[p]]
<1>2. nsent[p] \in 0 .. MaxSends /\ nsent[p] < MaxSends /\ MaxSends \in Nat
  BY <1>1, ConstantsAssumption DEF TypeOK, Send
<1>3. c \in QueuedChunk
  BY <1>1, <1>2 DEF QueuedChunk
<1>4. chunk_queue[p] \in Seq(QueuedChunk)
  BY <1>1 DEF TypeOK
<1>5. Append(chunk_queue[p], c) \in Seq(QueuedChunk)
  BY <1>3, <1>4
<1>6. chunk_queue' = [chunk_queue EXCEPT ![p] = Append(chunk_queue[p], c)]
  BY DEF Send
<1>7. chunk_queue' \in [Peer -> Seq(QueuedChunk)]
  BY <1>1, <1>5, <1>6 DEF TypeOK
<1>8. nsent' \in [Peer -> 0 .. MaxSends]
  <2>1. nsent[p] + 1 \in 0 .. MaxSends
    BY <1>2
  <2> QED
    BY <1>1, <2>1 DEF TypeOK, Send
<1>9. sent' \subseteq Peer \X Peer \X Msg
  BY <1>1 DEF TypeOK, Send
<1> QED
  BY <1>7, <1>8, <1>9 DEF TypeOK, Send, receiverVars

LEMMA TypeTick ==
    ASSUME TypeOK, NEW p \in Peer, NEW elapsed \in 1 .. WAIT_UNTIL_RETRY,
           NEW budget \in BOOLEAN, Tick(p, elapsed, budget)
    PROVE  TypeOK'
<1> DEFINE S == Age(Ticked(p), elapsed)
<1>1. S \subseteq SendState
  <2>1. elapsed \in Nat
    BY ConstantsAssumption
  <2> QED
    BY <2>1, AgeType, TickedType
<1>2. send_map' \in [Peer -> SUBSET SendState] /\ wire' \subseteq SliceType \cup AckType
  <2>1. CASE /\ send_map' = [send_map EXCEPT ![p] = S]
             /\ wire' = wire
    BY <1>1, <2>1 DEF TypeOK
  <2>2. ASSUME NEW s \in Due(S),
               send_map' = [send_map EXCEPT ![p] = AfterSending(S, s)],
               wire' = wire \cup {SlicePacket(p, s)}
        PROVE  send_map' \in [Peer -> SUBSET SendState] /\ wire' \subseteq SliceType \cup AckType
    <3>1. s \in S
      BY DEF Due
    <3>2. AfterSending(S, s) \subseteq SendState
      BY <1>1, <3>1, AfterSendingType
    <3>3. SlicePacket(p, s) \in SliceType
      BY <1>1, <3>1, SlicePacketType
    <3> QED
      BY <2>2, <3>2, <3>3 DEF TypeOK
  <2> QED
    BY <2>1, <2>2 DEF Tick
<1>3. wr_ptr' \in [Peer -> 0 .. MAX_CHUNKS - 1]
  <2>1. wr_ptr[p] \in 0 .. MAX_CHUNKS - 1 /\ MAX_CHUNKS \in Nat /\ MAX_CHUNKS >= 1
    BY ConstantsAssumption DEF TypeOK
  <2>2. chunk_queue[p] \in Seq(QueuedChunk)
    BY DEF TypeOK
  <2>3. wr_ptr[p] + Len(chunk_queue[p]) \in Nat
    BY <2>1, <2>2
  <2>4. (wr_ptr[p] + Len(chunk_queue[p])) % MAX_CHUNKS \in 0 .. MAX_CHUNKS - 1
    BY <2>1, <2>3, ModType
  <2> QED
    BY <2>4 DEF TypeOK, Tick
<1>4. chunk_queue' \in [Peer -> Seq(QueuedChunk)]
  <2>1. <<>> \in Seq(QueuedChunk)
    OBVIOUS
  <2> QED
    BY <2>1 DEF TypeOK, Tick
<1> QED
  BY <1>2, <1>3, <1>4 DEF TypeOK, Tick, receiverVars, historyVars

LEMMA TypeRecvSlice ==
    ASSUME TypeOK, NEW k \in wire, RecvSlice(k)
    PROVE  TypeOK'
<1>1. k \in SliceType /\ k.dst \in Peer /\ k.src \in Peer
  BY DEF TypeOK, RecvSlice, SliceType, AckType
<1> DEFINE b == Filled(k)
           ack == AckPacket(k, Ids(b) \cap (0 .. b.nslices - 1))
<1>2. b \in RecvBuf
  BY <1>1, FilledType
<1>3. ack \in AckType
  <2>1. b.nslices \in Nat /\ b.slices \subseteq [id : Nat, part : Part]
    BY <1>2 DEF RecvBuf, Slices
  <2>2. Ids(b) \cap (0 .. b.nslices - 1) \in SUBSET Nat
    BY <2>1 DEF Ids
  <2> HIDE DEF b
  <2> QED
    BY <1>1, <2>2, AckPacketType
<1>4. [src |-> k.src, chunk |-> b.slices] \in [src : Peer, chunk : Slices]
  BY <1>1, <1>2 DEF RecvBuf
<1>5. Received(k) \subseteq wire
  BY DEF Received
<1> HIDE DEF b, ack
<1>6. wire' \subseteq SliceType \cup AckType
  <2>1. wire' \subseteq wire \cup {ack}
    BY <1>5 DEF RecvSlice, b, ack
  <2> QED
    BY <1>3, <2>1 DEF TypeOK
<1>7. recv_map' \in [Peer -> SUBSET RecvBuf]
  <2> DEFINE old == {c \in recv_map[k.dst] : KeyOf(c) # KeyOf(k)}
  <2>1. old \subseteq RecvBuf
    BY <1>1 DEF TypeOK
  <2>2. \/ recv_map' = [recv_map EXCEPT ![k.dst] = old]
        \/ recv_map' = [recv_map EXCEPT ![k.dst] = old \cup {b}]
    BY DEF RecvSlice, b
  <2>3. recv_map \in [Peer -> SUBSET RecvBuf]
    BY DEF TypeOK
  <2> HIDE DEF old
  <2> QED
    BY <1>1, <1>2, <2>1, <2>2, <2>3
<1>8. recv_queue' \in [Peer -> SUBSET [src : Peer, chunk : Slices]]
  <2> DEFINE kept == OtherLengths(recv_queue[k.dst], b.slices)
  <2>1. kept \subseteq [src : Peer, chunk : Slices]
    BY <1>1 DEF TypeOK, OtherLengths
  <2>2. \/ recv_queue' = recv_queue
        \/ recv_queue' = [recv_queue EXCEPT ![k.dst] =
                            kept \cup {[src |-> k.src, chunk |-> b.slices]}]
    BY DEF RecvSlice, b
  <2>3. recv_queue \in [Peer -> SUBSET [src : Peer, chunk : Slices]]
    BY DEF TypeOK
  <2> HIDE DEF kept
  <2> QED
    BY <1>1, <1>4, <2>1, <2>2, <2>3
<1>9. got' \subseteq SliceType
  BY <1>1 DEF TypeOK, RecvSlice
<1> QED
  BY <1>6, <1>7, <1>8, <1>9 DEF TypeOK, RecvSlice, senderVars

LEMMA TypeRecvAck ==
    ASSUME TypeOK, NEW k \in wire, RecvAck(k)
    PROVE  TypeOK'
<1>1. k \in AckType
  BY DEF TypeOK, RecvAck, SliceType, AckType
<1>2. k.dst \in Peer
      /\ [src |-> k.src, chunk_id |-> k.chunk_id, acked |-> k.acked]
            \in [src : Peer, chunk_id : Nat, acked : SUBSET Nat]
  BY <1>1 DEF AckType
<1>3. acked_queue' \in [Peer -> SUBSET [src : Peer, chunk_id : Nat, acked : SUBSET Nat]]
  BY <1>2 DEF TypeOK, RecvAck
<1>4. wire' \subseteq SliceType \cup AckType
  BY DEF TypeOK, RecvAck, Received
<1> QED
  BY <1>3, <1>4 DEF TypeOK, RecvAck, receiverVars, historyVars

LEMMA TypeReboot ==
    ASSUME TypeOK, NEW p \in Peer, Reboot(p)
    PROVE  TypeOK'
<1>1. 0 \in 0 .. MAX_CHUNKS - 1 /\ MaxReboots \in Nat
  BY ConstantsAssumption
<1>2. nreboots' \in 0 .. MaxReboots
  BY <1>1 DEF TypeOK, Reboot
<1>3. chunk_queue' \in [Peer -> Seq(QueuedChunk)]
  <2>1. <<>> \in Seq(QueuedChunk)
    OBVIOUS
  <2> QED
    BY <2>1 DEF TypeOK, Reboot
<1> QED
  BY <1>1, <1>2, <1>3 DEF TypeOK, Reboot

\* Every reachable state has the types of TypeOK: the retry counters and the
\* chunk ID stay within their widths whatever the network does.
THEOREM TypeCorrect == Spec => []TypeOK
<1>1. TypeOK /\ [Next]_vars => TypeOK'
  <2> SUFFICES ASSUME TypeOK, [Next]_vars PROVE TypeOK'
    OBVIOUS
  <2>1. ASSUME NEW t \in Traffic, Send(t[1], t[2], t[3]) PROVE TypeOK'
    BY <2>1, TypeSend
  <2>2. ASSUME NEW p \in Peer, NEW elapsed \in 1 .. WAIT_UNTIL_RETRY,
               NEW budget \in BOOLEAN, Tick(p, elapsed, budget)
        PROVE  TypeOK'
    BY <2>2, TypeTick
  <2>3. ASSUME NEW k \in wire, RecvSlice(k) PROVE TypeOK'
    BY <2>3, TypeRecvSlice
  <2>4. ASSUME NEW k \in wire, RecvAck(k) PROVE TypeOK'
    BY <2>4, TypeRecvAck
  <2>5. ASSUME NEW p \in Peer, RecvTick(p) PROVE TypeOK'
    BY <2>5 DEF TypeOK, RecvTick, senderVars
  <2>6. ASSUME NEW p \in Peer, Gc(p) PROVE TypeOK'
    BY <2>6 DEF TypeOK, Gc, senderVars, historyVars
  <2>7. ASSUME NEW p \in Peer, Reboot(p) PROVE TypeOK'
    BY <2>7, TypeReboot
  <2>8. CASE UNCHANGED vars
    BY <2>8 DEF TypeOK, vars
  <2> QED
    BY <2>1, <2>2, <2>3, <2>4, <2>5, <2>6, <2>7, <2>8 DEF Next
<1> QED
  BY <1>1, TypeInit, PTL DEF Spec

-----------------------------------------------------------------------------
\* Integrity

\* No chunk is longer than MAX_CHUNK_SZ.
ChunksFit == \A m \in Msg : NumSlices(m) <= MAX_SLICES

\* The 4-byte hash tells the chunks that are sent apart.
ChecksumInjective == \A m, n \in Msg : Checksum[m] = Checksum[n] => m = n

\* What is genuine stays genuine when more has been sent.
LEMMA GenuineGrows ==
    ASSUME sent \subseteq sent'
    PROVE  /\ \A k : GenuineSlice(k) => GenuineSlice(k)'
           /\ \A p, b : GenuineBuf(p, b) => GenuineBuf(p, b)'
BY DEF GenuineSlice, GenuineBuf

\* The history of the protocol layer stays genuine too.
LEMMA IntegrityGrows ==
    ASSUME sent \subseteq sent', Integrity,
           \A p \in Peer : recv_queue'[p] \cup delivered'[p]
                                \subseteq recv_queue[p] \cup delivered[p]
    PROVE  Integrity'
BY DEF Integrity

LEMMA ProvenanceSend ==
    ASSUME TypeOK, Provenance, NEW t \in Traffic, Send(t[1], t[2], t[3])
    PROVE  Provenance'
<1> DEFINE p == t[1]
           c == [m |-> t[3], dst |-> t[2], ord |-> nsent[p]]
<1>1. p \in Peer
  BY ConstantsAssumption
<1>2. sent \subseteq sent' /\ <<p, c.dst, c.m>> \in sent'
  BY DEF Send
<1>3. ASSUME NEW q \in Peer, NEW i \in 1 .. Len(chunk_queue'[q])
      PROVE  <<q, chunk_queue'[q][i].dst, chunk_queue'[q][i].m>> \in sent'
  <2>1. chunk_queue' = [chunk_queue EXCEPT ![p] = Append(chunk_queue[p], c)]
    BY DEF Send
  <2>2. chunk_queue \in [Peer -> Seq(QueuedChunk)]
    BY DEF TypeOK
  <2>3. CASE q # p
    BY <1>2, <1>3, <2>1, <2>2, <2>3 DEF Provenance
  <2>4. CASE q = p
    <3>1. chunk_queue'[q] = Append(chunk_queue[p], c) /\ chunk_queue[p] \in Seq(QueuedChunk)
      BY <1>1, <2>1, <2>2, <2>4
    <3>2. CASE i = Len(chunk_queue[p]) + 1
      BY <1>2, <2>4, <3>1, <3>2
    <3>3. CASE i # Len(chunk_queue[p]) + 1
      <4>1. i \in 1 .. Len(chunk_queue[p]) /\ chunk_queue'[q][i] = chunk_queue[p][i]
        BY <1>3, <3>1, <3>3
      <4> QED
        BY <1>1, <1>2, <2>4, <4>1 DEF Provenance
    <3> QED
      BY <3>2, <3>3
  <2> QED
    BY <2>3, <2>4
<1>4. /\ UNCHANGED <<send_map, wire, recv_map, recv_queue, delivered>>
  BY DEF Send, receiverVars
<1>5. Integrity'
  BY <1>2, <1>4, IntegrityGrows DEF Provenance
<1> QED
  BY <1>2, <1>3, <1>4, <1>5, GenuineGrows DEF Provenance

\* What a tick sends and keeps comes from what was queued or kept before.
LEMMA TickedGenuine ==
    ASSUME TypeOK, Provenance, NEW p \in Peer, NEW s \in Ticked(p)
    PROVE  <<p, s.dst, s.m>> \in sent /\ s.slice_id \in SliceIds(s.m)
<1>1. CASE s \in Unacked(p)
  BY <1>1 DEF Unacked, Provenance
<1>2. ASSUME NEW c \in Cut(p), s = Placed(p, c)
      PROVE  <<p, s.dst, s.m>> \in sent /\ s.slice_id \in SliceIds(s.m)
  <2>1. c \in SendState
    BY CutType
  <2>2. s.dst = c.dst /\ s.m = c.m /\ s.slice_id = c.slice_id
    BY <1>2, <2>1 DEF Placed, SendState
  <2>3. <<p, c.dst, c.m>> \in sent /\ c.slice_id \in SliceIds(c.m)
    BY DEF Cut, Provenance
  <2> QED
    BY <2>2, <2>3
<1> QED
  BY <1>1, <1>2 DEF Ticked

LEMMA ProvenanceTick ==
    ASSUME TypeOK, Provenance, NEW p \in Peer,
           NEW elapsed \in 1 .. WAIT_UNTIL_RETRY, NEW budget \in BOOLEAN,
           Tick(p, elapsed, budget)
    PROVE  Provenance'
<1> DEFINE S == Age(Ticked(p), elapsed)
           Good(s) == <<p, s.dst, s.m>> \in sent /\ s.slice_id \in SliceIds(s.m)
<1>1. S \subseteq SendState
  <2>1. elapsed \in Nat
    BY ConstantsAssumption
  <2> QED
    BY <2>1, AgeType, TickedType
<1>2. \A s \in S : Good(s)
  <2>1. SUFFICES ASSUME NEW t \in Ticked(p),
                        NEW s, s = [t EXCEPT !.wait = IF @ > elapsed THEN @ - elapsed ELSE 0]
                 PROVE  Good(s)
    BY DEF Age
  <2>2. t \in SendState
    BY TickedType
  <2>3. s.dst = t.dst /\ s.m = t.m /\ s.slice_id = t.slice_id
    BY <2>1, <2>2 DEF SendState
  <2> QED
    BY <2>3, TickedGenuine
<1>3. ASSUME NEW s \in S, NEW x \in AfterSending(S, s)
      PROVE  Good(x)
  <2>1. CASE x \in S
    BY <1>2, <2>1
  <2>2. CASE x = [s EXCEPT !.tries = @ + 1, !.wait = WAIT_UNTIL_RETRY]
    <3>1. x.dst = s.dst /\ x.m = s.m /\ x.slice_id = s.slice_id
      BY <1>1, <2>2 DEF SendState
    <3> QED
      BY <1>2, <3>1
  <2> QED
    BY <1>3, <2>1, <2>2 DEF AfterSending
<1>4. ASSUME NEW s \in S
      PROVE  GenuineSlice(SlicePacket(p, s))
  BY <1>2 DEF SlicePacket, GenuineSlice
<1> HIDE DEF S
<1>5. \/ /\ send_map' = [send_map EXCEPT ![p] = S]
         /\ wire' = wire
      \/ \E s \in S : /\ send_map' = [send_map EXCEPT ![p] = AfterSending(S, s)]
                      /\ wire' = wire \cup {SlicePacket(p, s)}
  BY DEF Tick, Due, S
<1>6. /\ UNCHANGED <<sent, recv_map, recv_queue, delivered>>
      /\ chunk_queue' = [chunk_queue EXCEPT ![p] = <<>>]
  BY DEF Tick, receiverVars, historyVars
<1>7. \A q \in Peer : \A i \in 1 .. Len(chunk_queue'[q]) :
        <<q, chunk_queue'[q][i].dst, chunk_queue'[q][i].m>> \in sent'
  BY <1>6 DEF Provenance, TypeOK
<1>8. \A q \in Peer : \A s \in send_map'[q] :
        <<q, s.dst, s.m>> \in sent' /\ s.slice_id \in SliceIds(s.m)
  BY <1>2, <1>3, <1>5, <1>6 DEF Provenance, TypeOK
<1>9. \A k \in wire' : k.type = "slice" => GenuineSlice(k)'
  <2>1. \A k : GenuineSlice(k) => GenuineSlice(k)'
    BY <1>6, GenuineGrows
  <2> QED
    BY <1>4, <1>5, <2>1 DEF Provenance
<1>10. Integrity'
  BY <1>6 DEF Provenance, Integrity
<1>11. \A q \in Peer : \A b \in recv_map'[q] : GenuineBuf(q, b)'
  BY <1>6, GenuineGrows DEF Provenance
<1> QED
  BY <1>7, <1>8, <1>9, <1>10, <1>11 DEF Provenance

\* The buffer a genuine slice is put into holds slices of that chunk only: the
\* checksum in the key decides which chunk.
LEMMA FilledGenuine ==
    ASSUME ChunksFit, ChecksumInjective, TypeOK, Provenance,
           NEW k \in wire, k \in SliceType
    PROVE  /\ Filled(k).checksum = Checksum[k.part.m]
           /\ Filled(k).src = k.src
           /\ Filled(k).nslices = NumSlices(k.part.m) % MAX_SLICES
           /\ Filled(k).slices \subseteq Whole(k.part.m)
           /\ [id |-> k.slice_id, part |-> k.part] \in Filled(k).slices
<1> DEFINE m == k.part.m
           x == [id |-> k.slice_id, part |-> k.part]
<1>1. m \in Msg /\ k.dst \in Peer /\ k.part = [m |-> m, i |-> k.part.i]
  BY DEF SliceType, Part
<1>2. GenuineSlice(k)
  BY DEF Provenance, SliceType
<1>3. x \in Whole(m)
  <2>1. MAX_SLICES \in Nat /\ NumSlices(m) \in Nat /\ NumSlices(m) <= MAX_SLICES
    BY <1>1, ConstantsAssumption, NumSlicesType DEF ChunksFit
  <2>2. k.part.i \in 0 .. NumSlices(m) - 1
    BY <1>2 DEF GenuineSlice, SliceIds
  <2>3. k.part.i \in Nat /\ k.part.i < MAX_SLICES
    BY <2>1, <2>2
  <2>4. k.part.i % MAX_SLICES = k.part.i
    BY <2>1, <2>3
  <2>5. x = [id |-> k.part.i, part |-> [m |-> m, i |-> k.part.i]]
    BY <1>1, <1>2, <2>4 DEF GenuineSlice
  <2> QED
    BY <1>2, <2>5 DEF Whole, GenuineSlice
<1> DEFINE b == BufFor(k)
<1>4. /\ b.checksum = Checksum[m] /\ b.src = k.src
      /\ b.nslices = NumSlices(m) % MAX_SLICES
      /\ b.slices \subseteq Whole(m)
  <2>1. CASE \E c \in recv_map[k.dst] : KeyOf(c) = KeyOf(k)
    <3>1. b \in recv_map[k.dst] /\ KeyOf(b) = KeyOf(k)
      BY <2>1 DEF BufFor
    <3>2. b.src = k.src /\ b.checksum = Checksum[m]
      BY <1>2, <3>1 DEF KeyOf, GenuineSlice
    <3>3. PICK n \in Msg : /\ b.checksum = Checksum[n]
                           /\ b.nslices = NumSlices(n) % MAX_SLICES
                           /\ b.slices \subseteq Whole(n)
      BY <1>1, <3>1 DEF Provenance, GenuineBuf
    <3>4. n = m
      BY <1>1, <3>2, <3>3 DEF ChecksumInjective
    <3> QED
      BY <3>2, <3>3, <3>4
  <2>2. CASE ~\E c \in recv_map[k.dst] : KeyOf(c) = KeyOf(k)
    BY <1>2, <2>2 DEF BufFor, GenuineSlice
  <2> QED
    BY <2>1, <2>2
<1>5. b \in RecvBuf
  <2>1. recv_map[k.dst] \subseteq RecvBuf
    BY <1>1 DEF TypeOK
  <2>2. CASE \E c \in recv_map[k.dst] : KeyOf(c) = KeyOf(k)
    BY <2>1, <2>2 DEF BufFor
  <2>3. CASE ~\E c \in recv_map[k.dst] : KeyOf(c) = KeyOf(k)
    BY <2>3 DEF BufFor, SliceType, RecvBuf, Slices
  <2> QED
    BY <2>2, <2>3
<1> HIDE DEF b
<1>6. Filled(k) = [b EXCEPT !.slices = {y \in b.slices : y.id # k.slice_id} \cup {x}]
  BY DEF Filled, b
<1>7. /\ Filled(k).checksum = b.checksum /\ Filled(k).src = b.src
      /\ Filled(k).nslices = b.nslices
      /\ Filled(k).slices = {y \in b.slices : y.id # k.slice_id} \cup {x}
  BY <1>5, <1>6 DEF RecvBuf
<1> QED
  BY <1>3, <1>4, <1>7

\* What is reassembled is the whole chunk: a buffer in which no slice is missing
\* and which does not hold more slices than it has room for is complete.
LEMMA CompleteIsWhole ==
    ASSUME NEW m \in Msg, NumSlices(m) <= MAX_SLICES,
           NEW b, b.nslices = NumSlices(m) % MAX_SLICES,
           b.slices \subseteq Whole(m), b.slices # {},
           Complete(b), ~Overflows(b)
    PROVE  b.slices = Whole(m)
<1>1. MAX_SLICES \in Nat /\ MAX_SLICES >= 1 /\ NumSlices(m) \in Nat
  BY ConstantsAssumption, NumSlicesType
<1>2. CASE NumSlices(m) < MAX_SLICES
  <2>1. b.nslices = NumSlices(m)
    BY <1>1, <1>2
  <2>2. SUFFICES ASSUME NEW i \in SliceIds(m)
                 PROVE  [id |-> i, part |-> [m |-> m, i |-> i]] \in b.slices
    BY DEF Whole
  <2>3. PICK x \in b.slices : x.id = i
    BY <2>1, <2>2 DEF Complete, Ids, SliceIds
  <2>4. PICK j \in SliceIds(m) : x = [id |-> j, part |-> [m |-> m, i |-> j]]
    BY <2>3 DEF Whole
  <2> QED
    BY <2>3, <2>4
<1>3. CASE NumSlices(m) = MAX_SLICES
  <2>1. b.nslices = 0
    BY <1>1, <1>3
  <2>2. IsFiniteSet(b.slices)
    <3>1. IsFiniteSet(SliceIds(m))
      BY <1>1, FS_Interval DEF SliceIds
    <3>2. IsFiniteSet(Whole(m))
      <4> DEFINE f == [i \in SliceIds(m) |-> [id |-> i, part |-> [m |-> m, i |-> i]]]
      <4>1. f \in [SliceIds(m) -> Whole(m)] /\ \A x \in Whole(m) : \E i \in SliceIds(m) : f[i] = x
        BY DEF Whole
      <4> HIDE DEF f
      <4>2. f \in Surjection(SliceIds(m), Whole(m))
        BY <4>1, Fun_IsSurj
      <4> QED
        BY <3>1, <4>2, FS_Surjection
    <3> QED
      BY <3>2, FS_Subset
  <2>3. Cardinality(b.slices) \in Nat /\ Cardinality(b.slices) # 0
    BY <2>2, FS_CardinalityType, FS_EmptySet
  <2> QED
    BY <2>1, <2>3 DEF Overflows
<1> QED
  BY <1>1, <1>2, <1>3

LEMMA ProvenanceRecvSlice ==
    ASSUME ChunksFit, ChecksumInjective, TypeOK, Provenance,
           NEW k \in wire, RecvSlice(k)
    PROVE  Provenance'
<1> DEFINE p == k.dst
           m == k.part.m
           b == Filled(k)
           d == [src |-> k.src, chunk |-> b.slices]
           ack == AckPacket(k, Ids(b) \cap (0 .. b.nslices - 1))
<1>1. k \in SliceType /\ p \in Peer /\ m \in Msg
  BY DEF TypeOK, RecvSlice, SliceType, AckType, Part
<1>2. UNCHANGED <<chunk_queue, send_map, sent, delivered>>
  BY DEF RecvSlice, senderVars
<1>3. <<k.src, p, m>> \in sent
  BY <1>1 DEF Provenance, GenuineSlice, SliceType
<1>4. /\ b.checksum = Checksum[m] /\ b.src = k.src
      /\ b.nslices = NumSlices(m) % MAX_SLICES
      /\ b.slices \subseteq Whole(m) /\ b.slices # {}
  BY <1>1, FilledGenuine
<1>5. GenuineBuf(p, b)
  BY <1>1, <1>3, <1>4 DEF GenuineBuf
<1>6. Complete(b) /\ ~Overflows(b) => d = [src |-> k.src, chunk |-> Whole(m)]
  <2> SUFFICES ASSUME Complete(b), ~Overflows(b)
               PROVE  d = [src |-> k.src, chunk |-> Whole(m)]
    OBVIOUS
  <2>1. NumSlices(m) <= MAX_SLICES
    BY <1>1 DEF ChunksFit
  <2> HIDE DEF b, m
  <2>2. b.slices = Whole(m)
    BY <1>1, <1>4, <2>1, CompleteIsWhole
  <2> QED
    BY <2>2
<1>7. \A q \in Peer : \A c \in recv_map'[q] : GenuineBuf(q, c)'
  <2> DEFINE old == {c \in recv_map[p] : KeyOf(c) # KeyOf(k)}
  <2>1. \/ recv_map' = [recv_map EXCEPT ![p] = old]
        \/ recv_map' = [recv_map EXCEPT ![p] = old \cup {b}]
    BY DEF RecvSlice
  <2>2. recv_map \in [Peer -> SUBSET RecvBuf]
    BY DEF TypeOK
  <2>3. \A q \in Peer : \A c \in recv_map[q] : GenuineBuf(q, c)
    BY DEF Provenance
  <2> HIDE DEF b, p
  <2>4. \A q \in Peer : \A c \in recv_map'[q] : GenuineBuf(q, c)
    BY <1>1, <1>5, <2>1, <2>2, <2>3
  <2> QED
    BY <1>2, <2>4, GenuineGrows
<1>8. \A l \in wire' : l.type = "slice" => GenuineSlice(l)'
  <2>1. wire' \subseteq wire \cup {ack}
    BY DEF RecvSlice, Received
  <2>2. ack.type # "slice"
    BY DEF AckPacket
  <2> QED
    BY <1>2, <2>1, <2>2, GenuineGrows DEF Provenance
<1>9. Integrity'
  <2>1. \/ recv_queue' = recv_queue
        \/ /\ Complete(b) /\ ~Overflows(b)
           /\ recv_queue' = [recv_queue EXCEPT ![p] =
                               OtherLengths(recv_queue[p], b.slices) \cup {d}]
    BY DEF RecvSlice
  <2>2. OtherLengths(recv_queue[p], b.slices) \subseteq recv_queue[p]
    BY DEF OtherLengths
  <2>3. recv_queue \in [Peer -> SUBSET [src : Peer, chunk : Slices]]
    BY DEF TypeOK
  <2>4. Integrity
    BY DEF Provenance
  <2> HIDE DEF b, p, d, m
  <2>5. CASE recv_queue' = recv_queue
    BY <1>2, <2>4, <2>5 DEF Integrity
  <2>6. CASE /\ Complete(b) /\ ~Overflows(b)
             /\ recv_queue' = [recv_queue EXCEPT ![p] =
                                 OtherLengths(recv_queue[p], b.slices) \cup {d}]
    <3> SUFFICES ASSUME NEW q \in Peer, NEW e \in recv_queue'[q] \cup delivered'[q]
                 PROVE  \E n \in Msg : /\ e.chunk = Whole(n)
                                       /\ <<e.src, q, n>> \in sent
      BY <1>2 DEF Integrity
    <3>1. CASE e \in recv_queue[q] \cup delivered[q]
      BY <2>4, <3>1 DEF Integrity
    <3>2. CASE e = d /\ q = p
      <4>1. e = [src |-> k.src, chunk |-> Whole(m)]
        BY <1>6, <2>6, <3>2
      <4> QED
        BY <1>1, <1>3, <3>2, <4>1
    <3> QED
      BY <1>1, <1>2, <2>2, <2>3, <2>6, <3>1, <3>2
  <2> QED
    BY <2>1, <2>5, <2>6
<1> QED
  BY <1>2, <1>7, <1>8, <1>9 DEF Provenance

LEMMA ProvenanceStep ==
    ASSUME ChunksFit, ChecksumInjective, TypeOK, Provenance, [Next]_vars
    PROVE  Provenance'
<1>1. ASSUME NEW t \in Traffic, Send(t[1], t[2], t[3]) PROVE Provenance'
  BY <1>1, ProvenanceSend
<1>2. ASSUME NEW p \in Peer, NEW elapsed \in 1 .. WAIT_UNTIL_RETRY,
             NEW budget \in BOOLEAN, Tick(p, elapsed, budget)
      PROVE  Provenance'
  BY <1>2, ProvenanceTick
<1>3. ASSUME NEW k \in wire, RecvSlice(k) PROVE Provenance'
  BY <1>3, ProvenanceRecvSlice
<1>4. ASSUME NEW k \in wire, RecvAck(k) PROVE Provenance'
  <2>1. UNCHANGED <<chunk_queue, send_map, recv_map, recv_queue, sent, delivered>>
        /\ wire' \subseteq wire
    BY <1>4 DEF RecvAck, Received, receiverVars, historyVars
  <2> QED
    BY <2>1, GenuineGrows, IntegrityGrows DEF Provenance
<1>5. ASSUME NEW p \in Peer, RecvTick(p) PROVE Provenance'
  <2>1. UNCHANGED <<chunk_queue, send_map, wire, recv_map, sent>>
    BY <1>5 DEF RecvTick, senderVars
  <2>2. \A q \in Peer : recv_queue'[q] \cup delivered'[q]
                            \subseteq recv_queue[q] \cup delivered[q]
    BY <1>5 DEF RecvTick, TypeOK
  <2> QED
    BY <2>1, <2>2, GenuineGrows, IntegrityGrows DEF Provenance
<1>6. ASSUME NEW p \in Peer, Gc(p) PROVE Provenance'
  <2>1. UNCHANGED <<chunk_queue, send_map, wire, recv_queue, delivered, sent>>
    BY <1>6 DEF Gc, senderVars, historyVars
  <2>2. \A q \in Peer : recv_map'[q] \subseteq recv_map[q]
    BY <1>6 DEF Gc, TypeOK
  <2> QED
    BY <2>1, <2>2, GenuineGrows, IntegrityGrows DEF Provenance
<1>7. ASSUME NEW p \in Peer, Reboot(p) PROVE Provenance'
  <2>1. UNCHANGED <<wire, delivered, sent>>
    BY <1>7 DEF Reboot
  <2>2. \A q \in Peer : /\ chunk_queue'[q] \in {chunk_queue[q], <<>>}
                        /\ send_map'[q] \subseteq send_map[q]
                        /\ recv_map'[q] \subseteq recv_map[q]
                        /\ recv_queue'[q] \subseteq recv_queue[q]
    BY <1>7 DEF Reboot, TypeOK
  <2>3. \A q \in Peer : \A i \in 1 .. Len(chunk_queue'[q]) :
          <<q, chunk_queue'[q][i].dst, chunk_queue'[q][i].m>> \in sent'
    BY <2>1, <2>2 DEF Provenance
  <2>4. Integrity'
    BY <2>1, <2>2, IntegrityGrows DEF Provenance
  <2> QED
    BY <2>1, <2>2, <2>3, <2>4, GenuineGrows DEF Provenance
<1>8. CASE UNCHANGED vars
  <2>1. UNCHANGED <<chunk_queue, send_map, wire, recv_map, recv_queue, delivered, sent>>
    BY <1>8 DEF vars
  <2> QED
    BY <2>1, GenuineGrows, IntegrityGrows DEF Provenance
<1> QED
  BY <1>1, <1>2, <1>3, <1>4, <1>5, <1>6, <1>7, <1>8 DEF Next

\* Every place that holds a chunk or a slice of it holds what its sender passed
\* to send, if no chunk is too long and the checksum keeps them apart.
THEOREM ProvenanceCorrect ==
    ASSUME ChunksFit, ChecksumInjective
    PROVE  Spec => []Provenance
<1>1. Init => Provenance
  BY DEF Init, Provenance, Integrity
<1>2. TypeOK /\ Provenance /\ [Next]_vars => Provenance'
  BY ProvenanceStep
<1> QED
  BY <1>1, <1>2, TypeCorrect, PTL DEF Spec

\* What is queued for or handed to the protocol layer is one whole chunk that
\* its source sent to this peer, whatever the network and crashes do.
THEOREM IntegrityCorrect ==
    ASSUME ChunksFit, ChecksumInjective
    PROVE  Spec => []Integrity
<1>1. Provenance => Integrity
  BY DEF Provenance
<1> QED
  BY <1>1, ProvenanceCorrect, PTL

-----------------------------------------------------------------------------
\* The transport implements Channel

LEMMA ChannelInit == Init => Chan!Init
BY DEF Init, Chan!Init

LEMMA ChannelStep ==
    ASSUME TypeOK, Integrity, [Next]_vars
    PROVE  [Chan!Next]_(Chan!vars)
<1> DEFINE S == {<<x[1], x[2], Whole(x[3])>> : x \in sent}
           D == UNION {{<<d.src, p, d.chunk>> : d \in delivered[p]} : p \in Peer}
<1>1. ASSUME NEW t \in Traffic, Send(t[1], t[2], t[3])
      PROVE  Chan!Next
  <2>1. t[1] \in Peer /\ t[2] \in Peer /\ t[3] \in Msg
    BY ConstantsAssumption
  <2>2. S' = S \cup {<<t[1], t[2], Whole(t[3])>>}
    <3> DEFINE x == <<t[1], t[2], t[3]>>
               Image(y) == <<y[1], y[2], Whole(y[3])>>
    <3>1. sent' = sent \cup {x}
      BY <1>1 DEF Send
    <3>2. Image(x) = <<t[1], t[2], Whole(t[3])>>
      OBVIOUS
    <3> HIDE DEF x
    <3>3. S' = {Image(y) : y \in sent'}
      BY DEF Whole, SliceIds, NumSlices
    <3>4. {Image(y) : y \in sent \cup {x}} = S \cup {Image(x)}
      <4> HIDE DEF Image
      <4>1. S = {Image(y) : y \in sent}
        BY DEF Image
      <4> HIDE DEF S
      <4> QED
        BY <4>1
    <3> QED
      BY <3>1, <3>2, <3>3, <3>4
  <2>3. D' = D
    BY <1>1 DEF Send
  <2>4. Chan!Send(t[1], t[2], Whole(t[3]))
    BY <2>2, <2>3 DEF Chan!Send
  <2> QED
    BY <2>1, <2>4 DEF Chan!Next
<1>2. ASSUME NEW p \in Peer, RecvTick(p)
      PROVE  Chan!Next
  <2>1. PICK d \in recv_queue[p] : delivered' = [delivered EXCEPT ![p] = @ \cup {d}]
    BY <1>2 DEF RecvTick
  <2> DEFINE x == <<d.src, p, d.chunk>>
  <2>2. D' = D \cup {x}
    <3>1. \A q \in Peer : delivered'[q] = IF q = p THEN delivered[q] \cup {d} ELSE delivered[q]
      BY <2>1 DEF TypeOK
    <3>2. D' = UNION {{<<e.src, q, e.chunk>> : e \in delivered'[q]} : q \in Peer}
      OBVIOUS
    <3>3. ASSUME NEW y PROVE y \in D' <=> y \in D \cup {x}
      <4>1. y \in D' <=> \E q \in Peer : \E e \in delivered'[q] : y = <<e.src, q, e.chunk>>
        BY <3>2
      <4>2. y \in D <=> \E q \in Peer : \E e \in delivered[q] : y = <<e.src, q, e.chunk>>
        OBVIOUS
      <4> HIDE DEF D
      <4> QED
        BY <3>1, <4>1, <4>2
    <3> HIDE DEF D, x
    <3> QED
      BY <3>3
  <2>3. x \in S
    <3>1. PICK m \in Msg : d.chunk = Whole(m) /\ <<d.src, p, m>> \in sent
      BY DEF Integrity
    <3> DEFINE y == <<d.src, p, m>>
    <3>2. <<y[1], y[2], Whole(y[3])>> \in S
      BY <3>1
    <3> QED
      BY <3>1, <3>2
  <2>4. S' = S
    BY <1>2 DEF RecvTick
  <2>5. Chan!Deliver(x)
    BY <2>2, <2>3, <2>4 DEF Chan!Deliver
  <2> QED
    BY <2>3, <2>5 DEF Chan!Next
<1>3. CASE UNCHANGED <<sent, delivered>>
  BY <1>3 DEF Chan!vars
<1>4. \/ \E t \in Traffic : Send(t[1], t[2], t[3])
      \/ \E p \in Peer : RecvTick(p)
      \/ UNCHANGED <<sent, delivered>>
  BY DEF Next, Tick, RecvSlice, RecvAck, Gc, Reboot, vars, historyVars
<1> QED
  BY <1>1, <1>2, <1>3, <1>4

\* The transport implements Channel: only what was sent is ever handed over.
THEOREM ChannelImplemented ==
    ASSUME ChunksFit, ChecksumInjective
    PROVE  Spec => ImplementsChannel
<1>1. TypeOK /\ Integrity /\ [Next]_vars => [Chan!Next]_(Chan!vars)
  BY ChannelStep
<1> QED
  BY <1>1, ChannelInit, TypeCorrect, IntegrityCorrect, PTL
     DEF Spec, ImplementsChannel, Chan!Spec

=============================================================================
