---------------------------- MODULE UdpTransport ----------------------------
(***************************************************************************)
(* The UDP transport (src/src/transport/udp): a message ("chunk") is cut   *)
(* into slices, each slice is retransmitted until it is acked or its tries *)
(* run out, and the receiver reassembles the chunk and queues it for the   *)
(* protocol layer.  Every peer runs three timers (send, receive, garbage   *)
(* collection) and one socket callback; each is one action below.          *)
(*                                                                         *)
(* Contents are abstract: a chunk is a member of Msg, the payload of its   *)
(* i-th slice is the pair [m, i].  Time is counted in send ticks.  The     *)
(* outbound byte budget of udp.js is a Boolean choice of each send tick.   *)
(***************************************************************************)
EXTENDS Naturals, Sequences, FiniteSets

CONSTANTS
    Peer,             \* address:port of every peer
    Msg,              \* the contents a chunk can have
    ByteLen,          \* [Msg -> Nat \ {0}], chunk.length
    Checksum,         \* [Msg -> ...], the 4-byte hash of a chunk
    SLICE_SZ,         \* bytes of payload per slice
    MAX_SLICES,       \* 2^8: [slice ID] and [n slices] are one byte wide
    MAX_CHUNKS,       \* 2^16: [chunk ID] is two bytes wide
    WAIT_UNTIL_RETRY, \* in send ticks
    MaxTries,         \* msg_timeout / WAIT_UNTIL_RETRY, rounded up
    Traffic,          \* who may send what to whom: subset of Peer \X Peer \X Msg
    MaxSends,         \* bound: chunks each peer sends
    MaxReboots,       \* bound: crashes of all peers together
    NetDuplicates,    \* may the network duplicate packets?
    GcEnabled         \* may buffers get old enough to be collected?

ASSUME ConstantsAssumption ==
    /\ ByteLen \in [Msg -> Nat \ {0}]
    /\ SLICE_SZ \in Nat \ {0}
    /\ MAX_SLICES \in Nat \ {0}
    /\ MAX_CHUNKS \in Nat \ {0}
    /\ WAIT_UNTIL_RETRY \in Nat \ {0}
    /\ MaxTries \in Nat
    /\ Traffic \subseteq Peer \X Peer \X Msg
    /\ MaxSends \in Nat
    /\ MaxReboots \in Nat
    /\ NetDuplicates \in BOOLEAN
    /\ GcEnabled \in BOOLEAN

VARIABLES
    \* Chunk_sender
    chunk_queue,  \* [Peer -> Seq]: chunks added since the last tick
    acked_queue,  \* [Peer -> set]: acks received since the last tick
    send_map,     \* [Peer -> set of Send_state]
    wr_ptr,       \* [Peer -> next chunk ID]
    \* Chunk_receiver and Udp
    recv_map,     \* [Peer -> set of Recv_buf]
    recv_queue,   \* [Peer -> set of reassembled chunks], the BST
    \* the network
    wire,         \* the packets under way
    \* history and bounds
    sent,         \* <<p, q, m>> for every call of send
    got,          \* the slice packets some receiver has processed
    delivered,    \* [Peer -> set of chunks emitted to the protocol layer]
    nsent,        \* [Peer -> number of calls of send]
    nreboots

senderVars == <<chunk_queue, acked_queue, send_map, wr_ptr>>
receiverVars == <<recv_map, recv_queue>>
historyVars == <<sent, got, delivered, nsent, nreboots>>
vars == <<chunk_queue, acked_queue, send_map, wr_ptr, recv_map, recv_queue,
          wire, sent, got, delivered, nsent, nreboots>>

-----------------------------------------------------------------------------
\* Chunks and slices

\* _make_slices cuts another slice while (start < chunk.length).
NumSlices(m) == (ByteLen[m] + SLICE_SZ - 1) \div SLICE_SZ

SliceIds(m) == 0 .. NumSlices(m) - 1

PartLen(part) ==
    IF part.i < NumSlices(part.m) - 1
    THEN SLICE_SZ
    ELSE ByteLen[part.m] - SLICE_SZ * (NumSlices(part.m) - 1)

\* A buffered or reassembled chunk is the set of its slices.
Whole(m) == {[id |-> i, part |-> [m |-> m, i |-> i]] : i \in SliceIds(m)}

\* The length of the Uint8Array that _reassemble_unsafe allocates.
ChunkLen(slices) ==
    LET n    == Cardinality(slices)
        last == CHOOSE x \in slices : x.id = n - 1
    IN  SLICE_SZ * (n - 1) + PartLen(last.part)

\* Writing a Number into a Uint8Array keeps its low eight bits.
SlicePacket(p, s) ==
    [type     |-> "slice",
     src      |-> p,
     dst      |-> s.dst,
     chunk_id |-> s.chunk_id,
     slice_id |-> s.slice_id % MAX_SLICES,
     nslices  |-> NumSlices(s.m) % MAX_SLICES,
     checksum |-> Checksum[s.m],
     part     |-> [m |-> s.m, i |-> s.slice_id]]

\* An ack has no checksum and no slice IDs beyond its [n slices] bits.
AckPacket(k, ids) ==
    [type     |-> "ack",
     src      |-> k.dst,
     dst      |-> k.src,
     chunk_id |-> k.chunk_id,
     acked    |-> {i \in ids : i < k.nslices}]

-----------------------------------------------------------------------------
Init ==
    /\ chunk_queue = [p \in Peer |-> <<>>]
    /\ acked_queue = [p \in Peer |-> {}]
    /\ send_map = [p \in Peer |-> {}]
    /\ wr_ptr = [p \in Peer |-> 0]
    /\ recv_map = [p \in Peer |-> {}]
    /\ recv_queue = [p \in Peer |-> {}]
    /\ wire = {}
    /\ sent = {}
    /\ got = {}
    /\ delivered = [p \in Peer |-> {}]
    /\ nsent = [p \in Peer |-> 0]
    /\ nreboots = 0

\* Udp.send: the chunk waits for the next tick.  (Bound: no more than
\* MAX_CHUNKS chunks in the 10 ms of one tick.)
Send(p, q, m) ==
    /\ nsent[p] < MaxSends
    /\ Len(chunk_queue[p]) < MAX_CHUNKS
    /\ chunk_queue' = [chunk_queue EXCEPT ![p] =
                         Append(@, [m |-> m, dst |-> q, ord |-> nsent[p]])]
    /\ sent' = sent \cup {<<p, q, m>>}
    /\ nsent' = [nsent EXCEPT ![p] = @ + 1]
    /\ UNCHANGED <<acked_queue, send_map, wr_ptr, receiverVars, wire, got,
                   delivered, nreboots>>

-----------------------------------------------------------------------------
\* The send tick: Chunk_sender.tick, then Chunk_sender.next if the budget
\* allows, both in one timer callback.

\* Mutant of IsAcked: an ack of any slice of the chunk acks the slice.
IsAcked_AnySlice(p, s) ==
    \E a \in acked_queue[p] : a.src = s.dst /\ a.chunk_id = s.chunk_id

IsAcked(p, s) ==
    \E a \in acked_queue[p] :
        /\ a.src = s.dst
        /\ a.chunk_id = s.chunk_id
        /\ s.slice_id \in a.acked

Unacked(p) == {s \in send_map[p] : ~IsAcked(p, s)}

SameKey(s, t) ==
    /\ s.chunk_id = t.chunk_id
    /\ s.slice_id = t.slice_id
    /\ s.dst = t.dst

\* The i-th queued chunk gets the i-th chunk ID from wr_ptr on.
ChunkId(p, i) == (wr_ptr[p] + i - 1) % MAX_CHUNKS

Cut(p) ==
    UNION {{[chunk_id |-> ChunkId(p, i),
             slice_id |-> j,
             dst      |-> chunk_queue[p][i].dst,
             m        |-> chunk_queue[p][i].m,
             tries    |-> 0,
             wait     |-> 0,
             ord      |-> chunk_queue[p][i].ord] :
                j \in SliceIds(chunk_queue[p][i].m)} :
                    i \in 1 .. Len(chunk_queue[p])}

\* Map.set on a key that is present replaces the value and keeps its place in
\* the iteration order; ord is that place.
Placed(p, s) ==
    IF \E t \in Unacked(p) : SameKey(s, t)
    THEN [s EXCEPT !.ord = (CHOOSE t \in Unacked(p) : SameKey(s, t)).ord]
    ELSE s

Ticked(p) ==
    {t \in Unacked(p) : ~\E s \in Cut(p) : SameKey(s, t)}
        \cup {Placed(p, s) : s \in Cut(p)}

\* After `elapsed` ticks a slice last sent WAIT_UNTIL_RETRY ago is due again.
Age(S, elapsed) ==
    {[s EXCEPT !.wait = IF @ > elapsed THEN @ - elapsed ELSE 0] : s \in S}

Due(S) == {s \in S : s.wait = 0}

Before(s, t) == s.ord < t.ord \/ (s.ord = t.ord /\ s.slice_id <= t.slice_id)

IsFirst(s, S) == s \in S /\ \A t \in S : Before(s, t)

\* Mutants of AfterSending: no limit of tries; tries not counted.
AfterSending_NoLimit(S, s) ==
    (S \ {s}) \cup {[s EXCEPT !.tries = @ + 1, !.wait = WAIT_UNTIL_RETRY]}

AfterSending_NotCounted(S, s) ==
    (S \ {s}) \cup {[s EXCEPT !.wait = WAIT_UNTIL_RETRY]}

\* next(): a slice out of tries is dropped, but still returned and sent.
AfterSending(S, s) ==
    (S \ {s}) \cup
        (IF s.tries < MaxTries
         THEN {[s EXCEPT !.tries = @ + 1, !.wait = WAIT_UNTIL_RETRY]}
         ELSE {})

Tick(p, elapsed, budget) ==
    LET S == Age(Ticked(p), elapsed)
    IN  /\ \/ /\ budget
              /\ \E s \in Due(S) :
                   /\ IsFirst(s, Due(S))
                   /\ send_map' = [send_map EXCEPT ![p] = AfterSending(S, s)]
                   /\ wire' = wire \cup {SlicePacket(p, s)}
           \/ /\ budget => Due(S) = {}
              /\ send_map' = [send_map EXCEPT ![p] = S]
              /\ UNCHANGED wire
        /\ acked_queue' = [acked_queue EXCEPT ![p] = {}]
        /\ chunk_queue' = [chunk_queue EXCEPT ![p] = <<>>]
        /\ wr_ptr' = [wr_ptr EXCEPT ![p] =
                        (@ + Len(chunk_queue[p])) % MAX_CHUNKS]
        /\ UNCHANGED <<receiverVars, historyVars>>

-----------------------------------------------------------------------------
\* The socket callback on_network.  A packet leaves the wire when it is
\* received, or stays there for ever, to be received any number of times, if
\* the network duplicates; one that is never received is lost.

Received(k) == IF NetDuplicates THEN wire ELSE wire \ {k}

\* Mutant of KeyOf: buffers told apart by chunk ID alone, as they were before
\* the checksum was added to slices.
KeyOf_NoChecksum(b) == <<b.src, b.chunk_id>>

KeyOf(b) == <<b.src, b.chunk_id, b.checksum>>

\* Recv_buf: the one under the packet's key, or a new one.
BufFor(k) ==
    LET p == k.dst
    IN  IF \E b \in recv_map[p] : KeyOf(b) = KeyOf(k)
        THEN CHOOSE b \in recv_map[p] : KeyOf(b) = KeyOf(k)
        ELSE [src      |-> k.src,
              chunk_id |-> k.chunk_id,
              checksum |-> k.checksum,
              nslices  |-> k.nslices,
              slices   |-> {}]

\* slice_buf.set: a second slice with the same ID replaces the first.
Filled(k) ==
    [BufFor(k) EXCEPT !.slices =
        {x \in @ : x.id # k.slice_id}
            \cup {[id |-> k.slice_id, part |-> k.part]}]

Ids(b) == {x.id : x \in b.slices}

\* Mutant of Complete: the last slice is not waited for.
Complete_OffByOne(b) == 0 .. b.nslices - 2 \subseteq Ids(b)

\* acked.every(state => state): no null left of the nslices it started with.
Complete(b) == 0 .. b.nslices - 1 \subseteq Ids(b)

\* Mutant of Overflows: the array is as large as its slices need.
Overflows_Never(b) == FALSE

\* _reassemble_unsafe allocates room for nslices slices and throws a RangeError
\* when slice_buf holds more; on_network swallows it, before the ack is sent.
Overflows(b) == Cardinality(b.slices) > b.nslices

\* Mutant of OtherLengths: the queue holds one chunk only.
OtherLengths_None(Q, slices) == {}

\* The other chunks of the BST; bst_insert overwrites one of equal length.
OtherLengths(Q, slices) == {d \in Q : ChunkLen(d.chunk) # ChunkLen(slices)}

RecvSlice(k) ==
    LET p   == k.dst
        b   == Filled(k)
        ack == AckPacket(k, Ids(b) \cap (0 .. b.nslices - 1))
        old == {c \in recv_map[p] : KeyOf(c) # KeyOf(k)}
    IN  /\ k.type = "slice"
        /\ got' = got \cup {k}
        /\ \/ /\ ~Complete(b)
              /\ recv_map' = [recv_map EXCEPT ![p] = old \cup {b}]
              /\ wire' = Received(k) \cup {ack}
              /\ UNCHANGED recv_queue
           \/ /\ Complete(b) /\ Overflows(b)
              /\ recv_map' = [recv_map EXCEPT ![p] = old \cup {b}]
              /\ wire' = Received(k)
              /\ UNCHANGED recv_queue
           \/ /\ Complete(b) /\ ~Overflows(b)
              /\ recv_map' = [recv_map EXCEPT ![p] = old]
              /\ wire' = Received(k) \cup {ack}
              /\ recv_queue' = [recv_queue EXCEPT ![p] =
                                  OtherLengths(@, b.slices)
                                    \cup {[src |-> k.src, chunk |-> b.slices]}]
        /\ UNCHANGED <<senderVars, sent, delivered, nsent, nreboots>>

\* Acks only take effect at the next tick.
RecvAck(k) ==
    LET p == k.dst
    IN  /\ k.type = "ack"
        /\ acked_queue' = [acked_queue EXCEPT ![p] = @ \cup
                             {[src |-> k.src, chunk_id |-> k.chunk_id,
                               acked |-> k.acked]}]
        /\ wire' = Received(k)
        /\ UNCHANGED <<chunk_queue, send_map, wr_ptr, receiverVars,
                       historyVars>>

\* The receive tick emits the shortest queued chunk.
RecvTick(p) ==
    \E d \in recv_queue[p] :
        /\ \A e \in recv_queue[p] : ChunkLen(d.chunk) <= ChunkLen(e.chunk)
        /\ recv_queue' = [recv_queue EXCEPT ![p] = @ \ {d}]
        /\ delivered' = [delivered EXCEPT ![p] = @ \cup {d}]
        /\ UNCHANGED <<senderVars, recv_map, wire, sent, got, nsent, nreboots>>

\* Chunk_receiver.gc drops incomplete buffers older than T_INBOUND_TTL.
Gc(p) ==
    /\ GcEnabled
    /\ \E stale \in SUBSET recv_map[p] :
         /\ stale # {}
         /\ recv_map' = [recv_map EXCEPT ![p] = @ \ stale]
    /\ UNCHANGED <<senderVars, recv_queue, wire, historyVars>>

\* The process of p ends and starts again: nothing of the transport persists.
Reboot(p) ==
    /\ nreboots < MaxReboots
    /\ nreboots' = nreboots + 1
    /\ chunk_queue' = [chunk_queue EXCEPT ![p] = <<>>]
    /\ acked_queue' = [acked_queue EXCEPT ![p] = {}]
    /\ send_map' = [send_map EXCEPT ![p] = {}]
    /\ wr_ptr' = [wr_ptr EXCEPT ![p] = 0]
    /\ recv_map' = [recv_map EXCEPT ![p] = {}]
    /\ recv_queue' = [recv_queue EXCEPT ![p] = {}]
    /\ UNCHANGED <<wire, sent, got, delivered, nsent>>

Next ==
    \/ \E t \in Traffic : Send(t[1], t[2], t[3])
    \/ \E p \in Peer, elapsed \in 1 .. WAIT_UNTIL_RETRY, budget \in BOOLEAN :
         Tick(p, elapsed, budget)
    \/ \E k \in wire : RecvSlice(k)
    \/ \E k \in wire : RecvAck(k)
    \/ \E p \in Peer : RecvTick(p)
    \/ \E p \in Peer : Gc(p)
    \/ \E p \in Peer : Reboot(p)

Spec == Init /\ [][Next]_vars

-----------------------------------------------------------------------------
\* Types

Part == [m : Msg, i : Nat]

QueuedChunk == [m : Msg, dst : Peer, ord : Nat]

Slices == SUBSET [id : Nat, part : Part]

SendState ==
    [chunk_id : Nat, slice_id : Nat, dst : Peer, m : Msg,
     tries : 0 .. MaxTries, wait : 0 .. WAIT_UNTIL_RETRY, ord : Nat]

RecvBuf ==
    [src : Peer, chunk_id : Nat, checksum : {Checksum[m] : m \in Msg},
     nslices : Nat, slices : Slices]

SliceType ==
    [type : {"slice"}, src : Peer, dst : Peer, chunk_id : Nat,
     slice_id : Nat, nslices : Nat,
     checksum : {Checksum[m] : m \in Msg}, part : Part]

AckType ==
    [type : {"ack"}, src : Peer, dst : Peer, chunk_id : Nat,
     acked : SUBSET Nat]

\* The state variables hold what their comments say; the counters stay within
\* their bounds, the retry counters of Send_state included.
TypeOK ==
    /\ chunk_queue \in [Peer -> Seq(QueuedChunk)]
    /\ acked_queue \in [Peer -> SUBSET [src : Peer, chunk_id : Nat,
                                        acked : SUBSET Nat]]
    /\ send_map \in [Peer -> SUBSET SendState]
    /\ wr_ptr \in [Peer -> 0 .. MAX_CHUNKS - 1]
    /\ recv_map \in [Peer -> SUBSET RecvBuf]
    /\ recv_queue \in [Peer -> SUBSET [src : Peer, chunk : Slices]]
    /\ wire \subseteq SliceType \cup AckType
    /\ sent \subseteq Peer \X Peer \X Msg
    /\ got \subseteq SliceType
    /\ delivered \in [Peer -> SUBSET [src : Peer, chunk : Slices]]
    /\ nsent \in [Peer -> 0 .. MaxSends]
    /\ nreboots \in 0 .. MaxReboots

-----------------------------------------------------------------------------
\* Safety

\* Whatever is queued for, or has been handed to, the protocol layer is the
\* complete content of one chunk that the named peer sent to this one: slices
\* of different chunks never end up in one buffer (Recv_buf, keyed by chunk ID
\* and checksum), and a chunk is not emitted before its last slice is there.
Integrity ==
    \A p \in Peer : \A d \in recv_queue[p] \cup delivered[p] :
        \E m \in Msg : /\ d.chunk = Whole(m)
                       /\ <<d.src, p, m>> \in sent

\* A slice on the wire is a slice of something its sender passed to send, under
\* that chunk's own checksum and number of slices.
GenuineSlice(k) ==
    /\ <<k.src, k.dst, k.part.m>> \in sent
    /\ k.part.i \in SliceIds(k.part.m)
    /\ k.slice_id = k.part.i % MAX_SLICES
    /\ k.nslices = NumSlices(k.part.m) % MAX_SLICES
    /\ k.checksum = Checksum[k.part.m]

\* A buffer for chunks from src holds slices of one chunk src sent.
GenuineBuf(p, b) ==
    \E m \in Msg : /\ <<b.src, p, m>> \in sent
                   /\ b.checksum = Checksum[m]
                   /\ b.nslices = NumSlices(m) % MAX_SLICES
                   /\ b.slices \subseteq Whole(m)

\* The path of a chunk from send to the "message" event: every place that holds
\* it or a slice of it holds what was sent.  This is Integrity made inductive.
Provenance ==
    /\ \A p \in Peer : \A i \in 1 .. Len(chunk_queue[p]) :
         <<p, chunk_queue[p][i].dst, chunk_queue[p][i].m>> \in sent
    /\ \A p \in Peer : \A s \in send_map[p] :
         <<p, s.dst, s.m>> \in sent /\ s.slice_id \in SliceIds(s.m)
    /\ \A k \in wire : k.type = "slice" => GenuineSlice(k)
    /\ \A p \in Peer : \A b \in recv_map[p] : GenuineBuf(p, b)
    /\ Integrity

\* Every state and step of the transport is one of Channel.
Chan == INSTANCE Channel WITH
    Data      <- {Whole(m) : m \in Msg},
    sent      <- {<<x[1], x[2], Whole(x[3])>> : x \in sent},
    delivered <- UNION {{<<d.src, p, d.chunk>> : d \in delivered[p]} : p \in Peer}

\* The transport implements Channel: a chunk reaches the protocol layer of q as
\* coming from p only after p passed exactly that content to send, whatever is
\* lost, duplicated, reordered, collected or forgotten on the way.
ImplementsChannel == Chan!Spec

\* A slice that leaves send_map while it has tries left, other than by a crash,
\* has reached its destination: Chunk_sender.tick believes every ack, so no ack
\* may name a slice its sender has not processed.
AckedWasReceived ==
    [][\A p \in Peer : \A s \in send_map[p] :
          \/ nreboots' # nreboots
          \/ s.tries >= MaxTries
          \/ \E t \in send_map'[p] : SameKey(s, t)
          \/ \E k \in got :
                /\ k.src = p /\ k.dst = s.dst /\ k.chunk_id = s.chunk_id
                /\ k.part = [m |-> s.m, i |-> s.slice_id]]_vars

\* The slices of m that reached q from p under chunk ID c.
Arrived(p, q, m, c) ==
    {k.part.i : k \in {l \in got : /\ l.src = p /\ l.dst = q
                                   /\ l.chunk_id = c /\ l.part.m = m}}

\* A chunk whose slices have all been received, and so acked and given up by
\* its sender, is in the receive queue or has been emitted: nothing between
\* the ack of the last slice and the "message" event may lose it.
ReceivedIsKept ==
    \A x \in sent, c \in {k.chunk_id : k \in got} :
        SliceIds(x[3]) \subseteq Arrived(x[1], x[2], x[3], c) =>
            [src |-> x[1], chunk |-> Whole(x[3])]
                \in recv_queue[x[2]] \cup delivered[x[2]]

-----------------------------------------------------------------------------
\* Liveness.  The send timer is re-armed by every send tick and the budget
\* grows with the time since the last one (udp.js:147-160), so ticks that may
\* send keep happening.  Nothing is assumed of the network: slices and acks may
\* all be lost.
Fairness ==
    \A p \in Peer : WF_vars(\E e \in 1 .. WAIT_UNTIL_RETRY : Tick(p, e, TRUE))

FairSpec == Spec /\ Fairness

\* Every chunk stops being retransmitted: whether its slices are acked or not,
\* send_map becomes empty after the last call of send.
SendersDrain ==
    \A p \in Peer : (chunk_queue[p] # <<>>) ~>
                        (chunk_queue[p] = <<>> /\ send_map[p] = {})
=============================================================================
