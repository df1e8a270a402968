# A TLA+ development of Passerby

Passerby is a peer-to-peer protocol for discovering resources by location, written
in JavaScript. This directory holds TLA+ models of the parts of it where order,
loss, retries and concurrency decide whether it is right, TLC configurations that
check them, and theorems that TLAPS proves. Paths below are relative to
`src/src/`, where the implementation is. `PROJECT.json` maps every definition to the lines it
stands for, and lists the runs, their mutants, the hazards and the theorems.

    tlc -workers 2 -config udp_integrity.cfg MCUdpTransport     # a run
    tlapm Pbft_proofs.tla                                        # the proofs of a module

## 1. The system

A peer is one JavaScript process. All its concurrency comes from timers, socket
events and promises: code runs to its next `await` (or to the end of its callback)
without interruption, and anything may happen in between.

| Component | State | Operations | Uses |
|---|---|---|---|
| UDP transport (`transport/udp`) | queue of new chunks, `send_map` of slices, acks received, `recv_map` of reassembly buffers, queue of reassembled chunks (a search tree by length), outbound budget | `send`, send tick, receive tick, garbage collection, `on_network` | the socket; emits "message" |
| Local transport (`transport/local`) | a map of peers | `send` | for the emulator |
| Message bus and sessions (`protocol/io.js`, `handshake.js`, `protocol.js`) | requests in flight with generation and timeout, sessions per peer | `send`, `on_message`, handshake | transport, codec |
| DHT (`dht`) | binary trie of k-buckets, stored values with timestamps, refresh and replication timers | ping, store, find node/value, lookup, insert/evict contacts, replicate | message bus |
| Replica management (`repman`) | none | `fetch_r`: the K nodes closest to a key; `compute_f` | DHT lookup |
| Consensus (`consensus`) | per replica: view, sequence number, log per request digest; per client: pending requests with reply tallies | `request`, handlers of REQUEST, PRE_PREPARE, PREPARE, COMMIT, REPLY | replica management, message bus, state machine |
| State machine (`psm`) | none of its own: the local DHT store | READ, WRITE | DHT store |
| Database (`protocol/db.js`) | none | read, write | consensus |
| Prefix hash tree (`pht`) | nodes, in the database, each under the hash of its label | init, insert, delete, two-dimensional range query | database |
| Whoami (`whoami`) | none | asks a peer for one's own public address | message bus |
| Integers, geography, journal (`core`) | none | Morton codes, distance, bit operations, logging | |

The hard behaviours, in the order of the stack:

* *Transport.* Packets are lost, duplicated and reordered; peers restart and use
  their chunk IDs again; retransmission meets late acks; queues are keyed by
  truncated or colliding values. Right means: nothing is handed up that was not
  sent, nothing that was acked is lost, and queues drain.
* *Consensus.* Messages of several phases and operations interleave at every
  replica, nobody checks who sent them, every node looks the replica set up for
  itself. Right means: one execution per operation and replica, answers backed by
  enough replicas, one order of operations, progress with f replicas offline.
* *Trie.* An operation is many database accesses, and other clients run, or the
  client stops, between any two. Right means: every key can be found, the nodes
  form a trie with leaves within the block size, range queries are exact.
* *DHT.* Buckets split, fill and evict while contacts are locked and unlocked; a
  lookup's answers change the search trees its rounds read; replication awaits an
  answer between two keys while the table and the store go on changing. Right means:
  a contact is found where it belongs and not lost, a lookup ends and overlooks nobody,
  a new contact gets every key that is due to it.
* *Message bus.* A timer races an answer, a handshake fails while messages wait for
  it, a peer restarts and numbers its messages from 1 again. Right means: one of the two callbacks
  of a request, once, and success only for a request that was served.

## 2. Modules

| Module | Models | Rests on |
|---|---|---|
| `Channel` | abstract: a transport that may delay, repeat and lose, and never invents | |
| `UdpTransport` | `transport/udp` with the search tree of `core/types/bintree.js` | implements `Channel` |
| `Rpc` | abstract: requests that are answered or time out, once | |
| `Bus` | `protocol/io.js`, `protocol.js`, `handshake.js`, the numbers of `codec.js` | implements `Rpc`; a transport that may repeat and lose for ever |
| `RoutingTable` | the table of `dht/dht.js` and `dht/kbucket.js` | |
| `NodeLookup` | `node_lookup` of `dht/dht.js`, with the table | extends and implements `RoutingTable` |
| `DhtNode` | `dht/store.js`, requests and replication of `dht/dht.js`, with the table | extends and implements `RoutingTable` |
| `Pbft` | `consensus`, with `psm`, `repman` and `protocol/db.js` | any result of lookups |
| `Pht` | `pht`, with the Morton code of `core/math.js` | an atomic database, which `Pbft` is to provide |
| `UdpTransport_proofs`, `UdpDelivery_proofs`, `Bus_proofs`, `RoutingTable_proofs`, `NodeLookup_proofs`, `DhtNode_proofs`, `Pbft_proofs`, `Pht_proofs` | theorems | the modules they are named for; `UdpDelivery_proofs` (what is acked and kept) extends `UdpTransport_proofs` (what is handed up) |
| `MCUdpTransport`, `MCBus`, `MCNodeLookup`, `MCDhtNode`, `MCPbft`, `MCPht` | the constants of TLC's instances | |

What one module leaves to another: `UdpTransport` hands up chunks as `Channel` says, and `Bus`
assumes less, a transport that repeats without end. `NodeLookup` and `DhtNode` take their
requests to be settled by an answer or by a timer, which is `Rpc`. `Pbft` lets every call of
`fetch_r` return any replica set, whatever `NodeLookup` finds. The interfaces that are
refinements are `Bus` to `Rpc`, `UdpTransport` to `Channel`, and `NodeLookup` and `DhtNode` to
`RoutingTable!TableSpec`; the others are assumptions that are written down in the upper module.

### UdpTransport

The variables `chunk_queue`, `acked_queue`, `send_map`, `wr_ptr`, `recv_map` and
`recv_queue` are the fields of the same names of `Chunk_sender`, `Chunk_receiver` and
`Udp`, per peer; `wire` is the network. One action per callback:

| Action | Code |
|---|---|
| `Send` | `Udp.send` → `Chunk_sender.add` |
| `Tick` | the send timer: `Chunk_sender.tick` (acks, then new chunks), then at most one slice from `next` |
| `RecvSlice`, `RecvAck` | `on_network` on a slice or an ack |
| `RecvTick` | the receive timer: emits the shortest reassembled chunk |
| `Gc` | `Chunk_receiver.gc` |
| `Reboot` | the process ends and starts again with empty memory |

Contents are abstract: the payload of the i-th slice of m is the pair of m and i, which is what
makes a chunk of mixed slices visible. One-byte and two-byte fields wrap at
`MAX_SLICES` and `MAX_CHUNKS`. Time is counted in send ticks; the outbound budget is a
choice at each tick. `sent`, `got`, `delivered` are history.

### Bus and Rpc

`generation` and `sessions` are the fields of `Passerby`; `listening` is the emitter of `Io` with
the timers of its requests; `waiting` holds the messages that stand behind the promise of a
handshake; `transit` is everything that was ever sent, so that any of it may arrive again.

| Action | Code |
|---|---|
| `Request` | `Io.send` of a request, `send_secure`, and `Handshake.begin` when there is no session |
| `OnRequest`, `OnAnswer` | `on_message` with a request, which its handler answers; with an answer, which calls the success callback |
| `OnHello`, `OnHelloAnswer` | `on_message` with the same of a handshake; an answer releases what waits |
| `Timeout`, `HelloTimeout` | the timer of a request; of a handshake, which drops what waits |
| `Restart` | the process ends and starts again |

`outcome`, `served` and `past` are history and the variables of `Rpc`. `past` is there because the code
numbers from 1 after a restart: an answer to an old request is then taken for the answer to
a new one, and `Rpc` says so instead of hiding it.

### RoutingTable

`buckets` maps the leaves of the tree, by their prefixes, to their sets of Records;
`inserting` is the contact that `routing_table_insert` runs for. A bit of an ID is numbered as
`get_bit` does, from the low order end, while `Nearer` compares from the high one, as the code does.

| Action | Code |
|---|---|
| `Receive` | `on_message` calls `routing_table_insert` |
| `Refresh`, `InsertNew` | cases 1 and 2 |
| `SplitBucket`, `Forget` | cases 3A, with the recursive call as the next activation, and 3B |
| `BootstrapEnqueue` | `bootstrap`, which enqueues without looking whether the bucket is full |
| `ContactTimeout`, `LockExpires` | `_contact_lock_timeout`, `Record.lock` and its timer |

### NodeLookup

`active` and `inactive` are the search trees of `_do_node_lookup` as the sets they hold,
`awaiting` the requests of the running round, `values` the contacts that returned the value, each with
the nearest active contact at that moment. Rounds (`RoundOfAlpha`, `RoundOfAll`) start when the
last one is settled (`Promise.all`); `OnNodes`, `OnValue` and `OnTimeout` settle
one request, in any order; `ReturnValue`, `ReturnNodes` and `Throw` end the lookup. A contact may
answer with any of its `Lists`, and under another address than it was asked at (`From`), as a
node does whose address changed. Every answer goes to the routing table first.

### DhtNode

`data` is the `Store`; `loop[c]` a running `_replicate` for c, with its snapshot of
keys and the STORE it awaits; `serving` the request that `on_message` answers after it inserted the
sender. A task runs until nothing in it is ready (`Idle`), then the next one starts.

| Action | Code |
|---|---|
| `OnRequest`, `Serve` | a FIND_VALUE or STORE request, before and after the insertion |
| `OnStored`, `OnOther` | the answer to a STORE of a replication; any other message |
| `Insert` | `routing_table_insert`; case 2 calls `_replicate` |
| `ReplicateNext`, `ReplicateEnd`, `ReplicateThrow` | `_replicate` up to its next `await`, its end, its exception |
| `LocalWrite`, `LocalRead` | `Kademlia.write` and `read`, for the state machine |
| `Expire` | the time to live of a record |
| `OnTimeout`, `OnStoreTimeout`, `Bootstrap`, `Unlock` | the table's steps; a STORE's timer also moves its loop on |

`owed` is history: the keys that were in the store when a contact was inserted and that it was
not sent, as long as neither the record nor the contact's standing changed.

### Pbft

A handler suspends once, at `await fetch_r`, before it reads any state, so each
handler is one action and the suspension is part of its message's delay:
`request`, `_request`, `_pre_prepare`, `_prepare`, `_commit`, `OnReply`. The network is a bag of
messages without senders, since no predicate of the code looks at one. `fetch_r` returns
any member of `ReplicaSets`, anew at each call: what DHT lookups at different nodes and times
may find. `Duplicate`, `Lose` and `Crash` are the environment. A log entry keeps the
replica set of the first PRE_PREPARE, which is the one the predicates use, and
the numbers of PREPAREs and COMMITs.

### Pht

`pc[c]` names the next database access of client c, `frame[c]` its local variables, `out[c]`
the writes a split or merge still has to make. One action per access:
`InitTrie`; `LookupStart`, `LookupBin`, `LookupLin` (searches); `ReadSibling`, `ReadParent`,
`ReadLeft`, `ReadRight`, `ReadCousin` (a merge); `Write`; `Visit` (a range query). `Begin` is
a call, `Crash` stops a client between two accesses. The data of a node is its set of
keys; `MergeWrites` includes the write of the right neighbour to the hash of an
object instead of its label (`pht/pht.js:266`), which ends up at the key `Stray`.

## 3. What the runs check

Each property has a mutant: a plausible bug of one definition that TLC finds under
the same configuration.

| Run | Checks | Instance |
|---|---|---|
| `udp_integrity` | `TypeOK`, `Integrity`, `Provenance`, `ImplementsChannel` | two chunks of one, two or three slices, `MAX_SLICES` = 3 |
| `udp_live` | `ReceivedIsKept`, `AckedWasReceived`, `SendersDrain` | two chunks of one or two slices, one retransmission |
| `bus` | `TypeOK`, `SecureFirst`, `NothingStuck`, `ImplementsRpc`, `EveryCallSettles` | two nodes, two calls of one to the other, three numbers, one restart |
| `dht_lookup` | the table: `OneLeaf`, `Placed`, `NeighboursKept`, `ContactsKept`; the lookup: `TypeOK`, `Exhaustive`, `AskedOnce`, `CachedAway`, `LookupEnds` | four contacts, one of them an old address of another; `K_SIZE` = 2 |
| `dht_node` | `TypeOK`, `ReplicationComplete`, `ThrowsWithoutSelf` | three contacts, two keys, `K_SIZE` = 2 |
| `pbft_lookups` | `AnswerBacked`, `PreparedCertificate` | four nodes, one offline, two replica sets of four and two nodes with different primaries |
| `pbft_faults` | `TypeOK`, `ExecOnce` | two replicas; one duplicate, one loss, one crash |
| `pbft_live` | `EveryCallResolves`, `EveryReplicaExecutes` | four replicas (f = 1), one offline |
| `pbft_order` (violation) | `SameOrder` | a write and a read, two replicas |
| `pht_insert` | `FoundAtRest`, `TrieAtRest`, `BlockSize`, `RangeExact`, `NeverCorrupted` | one client, B = 1, five keys, three rectangles |
| `pht_delete` | `TypeOK`, `DepthBounded`, `EveryCallReturns` | one client with five inserts or deletes of three keys, another with one range query |
| `pht_reader` | `RangeExact`, `NeverLost` | a writer that may stop between writes and a reader, B = 2 |

### Bounds

* Transport: `MaxSends`, `MaxTries`, `MaxReboots`. Mixing two chunks takes two chunks, one
  restart of the sender and one slice of each; a lost last slice takes one
  retransmission; a wrapped slice count takes a chunk of exactly `MAX_SLICES` slices. A send tick sends at
  most one slice, so more chunks repeat the same interplay. In `udp_live` packets leave the
  wire when received; copies come from retransmission.
* Message bus: `GEN_MAX` = 3 is small enough for a node to run out of numbers, which
  two calls and two handshakes do; `MaxRestarts` = 1 suffices for an answer of the past
  to meet a call of the present. Two calls to one peer, from before and
  after a session is up, show every state of a session.
* Routing table: three bits and `K_SIZE` = 2, so that the bucket of a node's own ID is split up to
  three times, with leaves that get no Record, and a bucket elsewhere is full. `MAX_LOCK_ATTEMPTS` = 2
  has a lock that ends and one that does not. The table is unbounded in time: contacts come, are
  locked and unlocked without end. `Len(p) < Width` in `SplitBucket` bounds a recursion of the code.
* Lookup: one lookup; `ALPHA` = 2 lets answers of a round overtake each other, four contacts
  give at least two rounds, `K_SIZE` = 2 lets a lookup end early. The table changes under a lookup
  by its own answers and timeouts; other messages come before and after it. The lists of contacts are all
  the sets of at most `K_SIZE`; the answer from an old address may list it.
* Node: replication takes a contact, a key in the store and an await between two keys; two
  keys and three contacts have a key that belongs to a contact and one that does not, a
  replication that runs beside another, a record that is rewritten, deleted or expires between, and a
  table where every contact is locked. Their IDs differ; two addresses of one ID are in `dht_lookup`, and
  `ReplicationCorrect` has no such restriction.
* Consensus: `MaxCount`, above every quorum, so a capped counter answers every predicate as the
  real one does; `MaxCopies` and `MaxCommits`, the copies of one message under way. A
  replica multicasts COMMIT once per PREPARE beyond the 2f-th, so copies do
  accumulate; the bounds allow the ones that quorums tell apart. The theorems
  do not depend on them. H = 1 makes the sequence number wrap.
* Trie: four bits per key, so that splits are one to three levels deep and
  labels have both parities; `MaxCalls` of each client. A merge that climbs
  needs three leaves, which three keys and B = 1 give.

`CHECK_DEADLOCK FALSE` is in every configuration: the bounds on calls and sends
end, and then nothing is left to do.

### Fairness

* Transport: the send and receive timers re-arm themselves in their own
  callbacks (`transport/udp/udp.js:122-134`) and the budget grows with time, so ticks that may
  send are weakly fair. Nothing is assumed of the network: slices and acks may all be lost.
* Message bus: `WF` of each timer, of a request and of a handshake. Nothing is assumed of
  the network: a call is settled though every message is lost.
* Lookup: `WF` of the node's own steps (an insertion, the next round), and of the
  settling of each request, which its timer does if no answer does. `LookupEnds` is about the
  lookups in which old addresses do not go on listing old addresses for ever, and holds whatever else the peers
  answer (section 5 has the others).
* Consensus: `WF` of each node's event loop over the messages for it, and of the calls.
* Trie: `WF` of a client's next database access: a promise of the database settles.
  `EveryCallReturns` says nothing of a client that stopped.

## 4. What is proved

TLAPS proves these for every value of the constants that satisfies the modules'
assumptions (`ConstantsAssumption` of `UdpTransport`, `Pbft` and `Pht`, `BusAssumption`, `TableAssumption`,
`LookupAssumption`, `NodeAssumption`, and `DistinctAssumption` of `Pht`: null is no label, call or node); TLC evaluates each of them in a run.

| Theorem | States | Argument |
|---|---|---|
| `UdpTransport_proofs!TypeCorrect` | `TypeOK` | inductive as it stands, one lemma per action |
| `ProvenanceCorrect`, `IntegrityCorrect` | `Provenance`, `Integrity` | `Integrity` alone is not inductive: a receiver cannot tell a buffer with foreign slices. `Provenance` follows a chunk through queue, `send_map`, wire and buffer; `CompleteIsWhole` shows that a full buffer of genuine slices is the whole chunk |
| `ChannelImplemented` | `ImplementsChannel` | each step is a `Send`, a `Deliver` (the receive tick) or a stutter, given `Integrity` |
| `UdpDelivery_proofs!IdsStandForOneChunk` | a chunk ID stands for one chunk to one peer | `IdInv`: every use of an ID, in `send_map`, on the wire and at the receivers, is below the sender's counter (`InUse`), and a tick cuts the queue into IDs above it |
| `AcksName` | an ack names slices that its sender processed | `TraceInv` follows the processed slices into the buffers' `acked` lists, the queued acks and the wire |
| `AckedWasReceivedCorrect` | `AckedWasReceived` | from `IdInv` and `TraceInv`: the slice that an ack removes from `send_map` is then the one that was processed |
| `ReceivedIsKeptCorrect` | `ReceivedIsKept` | `KeptInv`: a processed slice is in the one buffer of its chunk, or the chunk is queued or emitted; a buffer that waits lacks a slice. Since lengths differ, no chunk takes the place of another in the receive queue |
| `Bus_proofs!TypeCorrect`, `SecureFirstCorrect`, `NothingStuckCorrect` | `TypeOK`, `SecureFirst`, `NothingStuck` | `BusInv`. That no call is settled twice, which `TypeOK` says, needs `ListenInv`: a listener's call is open, a call has one listener, and no number of a node is above its counter, so a new listener gets a label of its own. `MessageInv` ties every message to its call, `SessionInv` a session that is up to an answered HELLO |
| `RpcImplemented` | `ImplementsRpc` | each step is a step of `Rpc` or a stutter, given `BusInv`; `Succeed` needs `GoodMessage`: an answer is to a call that was served, and that the listener has or had before a restart |
| `RoutingTable_proofs!LeavesPartition`, `RecordsPlaced`, `RecordsUnique`, `BucketsBounded`, `SplitsFollowSelf`, `StaleLocked`, `NeighbourhoodKept` | `OneLeaf`, `Placed`, `OneRecord`, `AtMostK`, `OwnPath`, `StaleIsLocked`, `NeighboursKept` | `TableInv`, their conjunction with `TableTypeOK`: where a Record goes is only defined while the leaves partition the IDs, and `NeighboursKept` survives a split because only our own leaf is split. `OneRecord`, `AtMostK`, `OwnPath` and `StaleIsLocked` are parts of this argument that no run repeats |
| `NoContactLost` | `ContactsKept` | from `TableInv`, per action |
| `NodeLookup_proofs!TypeCorrect`, `ExhaustiveCorrect`, `AskedOnceCorrect`, `CachedAwayCorrect` | `TypeOK`, `Exhaustive`, `AskedOnce`, `CachedAway` | `LookupInv`: `Stages` (what each phase implies), `Accounted` (a contact that was mentioned waits, answered or timed out), `CachePlaces` (what an entry of `values` may point at) |
| `DhtNode_proofs!TypeCorrect`, `ReplicationCorrect`, `ThrowsCorrect` | `TypeOK`, `ReplicationComplete`, `ThrowsWithoutSelf` | `OwedInv`: a contact that is owed a key is in the table and not locked, and the key is still in its loop. `DueReplicates` shows that a key that is due to a contact passes the code's condition in every table, for every list that `get_nodes_closest_to` may return: the sort leaves contacts of one ID in any order and the list is cut to `K_SIZE`, so a key is due to a contact only if those that are not farther, ties included, are fewer than `K_SIZE`, and if there are none of them or nobody is nearer than we are |
| `NodeLookup_proofs!ImplementsTable`, `DhtNode_proofs!ImplementsTable` | `Spec => TableSpec` | every step is one of `RoutingTable` or leaves its variables alone, so the theorems about the table are cited instead of proved again |
| `Pbft_proofs!TypeCorrect` | `TypeOK` | inductive with the bounds of the log counters |
| `ExecOnceCorrect` | `ExecOnce` | `ExecInv` adds `Remembered`: what a replica executed is marked in its log |
| `AnswerBackedCorrect` | `AnswerBacked` | `BackedInv` adds `CountBacked` (the replies counted and under way for a result are no more than the replicas that executed with it) and `ReplyMarked` |
| `PreparedCertificateCorrect` | `PreparedCertificate` | `CertInv`. The code counts PREPAREs and not their senders; `PreparesCounted` says that a replica's count and the PREPAREs under way to it are no more than the replicas that accepted the PRE_PREPARE. `OrderInv` is why: one REQUEST of an operation wanders until a node orders it, so each replica gets at most one PRE_PREPARE and sends each other at most one PREPARE |
| `Pht_proofs!TypeCorrect`, `TypeOKCorrect` | `TypeInv`, `TypeOK` | `TypeInv` with `KeysApart`: the database holds well-formed nodes, each under its own label (`SoundNode`), and `Staged` says what each stage of a search, merge or traversal has in its local variables |
| `BlockSizeCorrect` | `BlockSize` | `SizeInv`: nor is a leaf too large that is yet to be written. `SplitFits`: of a full leaf and one more pair, neither last child gets all, since their common prefix ends where two keys differ |
| `TrieAtRestCorrect` | `TrieAtRest` | the database is no trie while the writes of a split are under way, so `TrieInv` is about `After(out[c], db)`, the database as the pending writes will leave it: that is a trie, and has all keys kept and the one being inserted. `SplitTrie` and its lemmas show it for a split of any number of levels |
| `FoundAtRestCorrect` | `FoundAtRest` | `TrieInv` says that each key is in a leaf on its path, above the last bit (`Located`, `Shallow`). `BinSearchFinds`: the code's binary search ends there, by the least interval that still has the leaf's depth and fails |
| `NeverLostCorrect` | `NeverLost` | `LiveInv`: each key kept is found in the database as it is and as it will be after each of the pending writes. `Spanned` says what makes it found in a database that is not a trie: on its way internal nodes, then leaves that all have it (the leaf being split and its child), then nothing; `BinSearchFinds` holds for that too. The writes of a split go to the children first and to their parent last, which is what `SplitSpans` uses |
| `NeverCorruptedCorrect` | `NeverCorrupted` | `SureInv`, of a client that alone writes: a search that is alone has its leaf between its bounds (`Ahead`), so it needs no linear fallback, and what a traversal has yet to visit is in the database |
| `NoGhostsCorrect` | no query returns a key that was out of the trie while it ran | `GhostInv`: a key whose insertion has not begun is in no node, pending write or answer. The half of `RangeExact` that needs no assumption but `NoDeletes` |
| `DepthCorrect` | `DepthBounded`: no node is deeper than the m bits that tell any B + 1 keys apart | `DepthInv`, of every node in the database, in a pending write or in the hands of a client. A split ends where its keys differ (`SplitLow`), a merge goes towards the root (`MergeLow`), so it holds with deletions, any number of clients and crashes |
| `RangeExactCorrect`, `RangeExactApart`, `RangeExactAlone` | `RangeExact` | `CoverInv`: a wanted key is in the data found so far, or below a subtree on the way (`Leads`), or the search for the common prefix is still to find its leaf. That the traversal may skip a subtree is `Anchored`: if a subtree has a key of the rectangle, the anchor that the code computes from its label, wrong as it is for a label of odd length, is below the rectangle's maximum. That is arithmetic on Morton codes (`BitsBetween`, `Shifted`, `Cancel`), and it needs the assumption `NearDiagonal` below. `GhostInv` is the other direction |

What a Morton code is worth is a recursive function of the code (`ToInt`), and no induction over
it can be proved here. `ToIntValues` gets around that: the values of all suffixes of a string form a function,
and two such functions that differ would differ at a least place, which well-foundedness of the numbers
refutes. Nearest contacts are minima of finite sets. Their existence (`Least`, `NearestIn`) is
proved from the well-foundedness of the numbers that order the contacts, since
induction over sets is out of the prover's reach.

Assumptions of single theorems, stated in them: `ProvenanceCorrect`, `IntegrityCorrect` and
`ChannelImplemented` assume `ChunksFit` (no chunk has more than `MAX_SLICES` slices) and
`ChecksumInjective` (the four-byte hash tells the chunks apart that are sent).
`AnswerBackedCorrect` assumes `DistinctTimes`: one call of a client per millisecond, and no message
delivered twice. Both are needed: replies are matched by millisecond
(`consensus/consensus.js:60`) and counted without looking at who sent them. `ExecOnceCorrect` has
no such assumption, and neither theorem needs the lookups of `fetch_r` to agree. The theorems about
`Bus`, the table, the lookup and the node have no assumptions but those of their constants;
`LookupAssumption` says that a node answers with its own ID and knows its own address.

* `PreparedCertificateCorrect` assumes `DistinctCalls`: a client does not make the same call twice in
  one millisecond, and no message is delivered twice. A PREPARE that is delivered twice counts
  twice (`consensus/prepare.js:32`).
* `IdsStandForOneChunk`, `AckedWasReceivedCorrect` and `ReceivedIsKeptCorrect` assume `IdsNotReused`: no
  restart, and no more sends than there are chunk IDs. Section 5 has what a restart does. `AcksName` needs neither;
  `AckedWasReceivedCorrect` assumes `ChunksFit` too.
* `ReceivedIsKeptCorrect` assumes further `LengthsDiffer` (two chunks for one peer differ in length), `ChunksCountable`
  (no chunk of exactly `MAX_SLICES` slices) and `~GcEnabled` (no buffer is collected). Without
  any one of them the property fails: the first two are rows of section 5, the third is a hazard of `PROJECT.json`.
* `BlockSizeCorrect` assumes `NoDeletes` and `FewAlike` (no more than B keys on one integral). With two
  clients that delete, merges that read the same leaf leave one that is too large, on an instance of four bits.
* `TrieAtRestCorrect` and `FoundAtRestCorrect` assume `OneInserter`: nobody deletes, one client inserts and
  any number query and stop, and the trie exists or there is one client, since every client that starts may
  overwrite the root (`pht/pht.js:74`). `FoundAtRestCorrect` also assumes `FewClose`: of more than B keys two
  differ before the last bit. Otherwise the leaf is too deep to be probed.
* `NeverLostCorrect` has the assumptions of `FoundAtRestCorrect`, and is about the behaviours with
  `[]OneLevel`: no split has more than three writes, so none goes on for a second level. So are all of run `pht_reader`;
  with the keys `Spread` a split of two levels has pairs that no search finds until its last writes.
* `NeverCorruptedCorrect` assumes nothing: `NeverCorrupted` itself is about one client that inserts where nobody
  deletes, keys that differ before the last bit, and a trie that exists when others start. Without the first
  two a client meets a corrupted trie (section 5). `DepthCorrect` assumes nothing either.
* `RangeExactCorrect` and `RangeExactApart` assume `OneInserter` and `FewClose`, as `FoundAtRestCorrect` does, and
  are about the behaviours with `[]OneLevel`, or with `[]QueriesApart` (no query runs while a client
  writes, so splits may have any number of levels). `RangeExactAlone` is about one client and all of its
  behaviours, which is run `pht_insert`; the run `pht_reader` has the hypotheses of `RangeExactCorrect`.
* All three assume `NearDiagonal(e)` for some e, with `FewWithin(m)` (any B + 1 keys differ within m bits) and
  m + 2e <= `BIT_DOMAIN`. `NearDiagonal(e)` says that neither coordinate of a query's maximum is more than 2^e times
  the other (for x, 2^(e + 1) times). On six bits and every pair of corners TLC finds that this is not
  only enough but exact: when it fails, some label of at most `BIT_DOMAIN` - 2e bits is skipped although a key
  of the rectangle lies below it. For e = 0, m = `BIT_DOMAIN` asks nothing of the keys; the queries of the runs
  satisfy it. In the program x and y are latitude and longitude, counted from the south pole and the date line and
  both scaled by 360 degrees (`core/geo.js:27-33`). For a rectangle in New York they are as 131 to 106, and e = 0 holds; in
  London as 142 to 180, and e = 1 holds: queries there are exact as long as no node has more than 78 of the 80 bits.
  With no node below 40 bits e = 20 will do, which leaves out a strip of less than a mile at the pole and at the date line.

Only model-checked: all liveness (`LookupEnds`, `EveryCallSettles`, `EveryCallReturns`, the transport's and the
consensus's), which the prover cannot do. Every invariant that a run checks has a theorem, under the assumptions
above. Of the trie with deletions and merges its types and its depth are checked and proved (`TypeOKCorrect`,
`DepthCorrect`), and little else holds of it (section 5).

## 5. Where the code departs from what it says

`pbft_order` is a run whose violation shows a divergence; `PROJECT.json` lists it with the line it
contradicts. The others below came up while modelling. Each is seen by
checking the named property on the instance described.

| Property | Instance | What happens |
|---|---|---|
| `ReceivedIsKept` | `udp_live`, two different chunks of one length | the second takes the place of the first in the receive queue (`transport/udp/udp.js:201`, `core/types/bintree.js:107-110`), though "reliable UDP" (`src/README.md:106`) acked both |
| `ReceivedIsKept` | `udp_live`, `MAX_SLICES` = 2 | a chunk of exactly `MAX_SLICES` slices announces 0 slices and is never reassembled (`transport/udp/slice.js:126`) |
| `AckedWasReceived` | `udp_live`, one reboot | an ack of the chunk that had the ID before a reboot acks a slice of the new one (`transport/udp/chunk.js:65`) |
| `NothingStuck`, without its exception | `bus` | after `GEN_MAX` numbers `_generation` is `Codec.GEN_MIN`, which is not exported, and stays undefined: numbers do not wrap as `protocol/protocol.js:166-169` says, and a handshake that begins then has no timer and never ends |
| `EveryCallSettles`, for all open calls | `bus`, `GEN_MAX` = 2 | by the same, requests have no timer either |
| `ImplementsRpc` | `bus`, `Rpc!Succeed` without `past` | a late answer from before a restart ends another call, since numbers start at 1 again |
| `LookupEnds`, without its hypothesis | `dht_lookup` | an answer from an old address lists that address: it is never active, so it is listed and asked again round after round, and the lookup goes on for ever (`dht/dht.js:465`) |
| that `cached'` is the nearest active contact without the value, when it is set | `dht_lookup` | the value is cached at the nearest contact that was active when the answer came, which need not be "the closest node we observed" that did not have it (`dht/dht.js:551-554`) |
| `CommitQuorum` | `pbft_live` without fairness | COMMITs of one replica count several times towards 2f + 1 (`consensus/prepare.js:42`) |
| `ReadSeesWrite` | `pbft_order` | a read after an answered write finds nothing |
| `CommitFindsPrePrepare` | two replicas | a COMMIT arrives before the PRE_PREPARE without any fault (`consensus/commit.js:33-35` wonders why) |
| `AnswerBacked` | `pbft_order`, equal `TimeOf` | two calls in one millisecond share their replies |
| `RangeExact` | `pht_insert`, the rectangle `Rect(0, 9)`, a single column | the anchor of a label of odd length has its coordinates swapped, since the label is padded on the left (`pht/pht.js:421`), and the traversal is pruned where it should not be (comment at `pht/pht.js:427`). Section 4 has the exact condition, `NearDiagonal` |
| `NeverCorrupted`, without `FewWithin` | one client that inserts more than B keys of one integral, or keys that only the last bit tells apart | a leaf at a depth no search probes (`pht/pht.js:99`, `178`) |
| `NeverCorrupted`, without `NoDeletes` | one client that inserts and deletes, B = 1, eight bits and the keys 0, 16, 32, 48, 64 and 128, nine calls | a merge that went on at an internal sibling leaves leaves behind that nothing leads to; a search probes one of them first, and the deletion there finds no parent and throws (`pht/pht.js:317`, `272-278`) |
| `FoundAtRest`, `NeverLost` | one client, B = 1, the keys `Spread`: insert 1 and 14, delete 1, insert 9 and 1 | a key is lost. The merge leaves the leaf `1` behind (`pht/pht.js:257`), which a search finds and a split turns into a subtree; the next split of the root writes `1` again, as a leaf (`pht/pht.js:153-173`), and what is below it is not found any more |
| `TrieAtRest` | one client, B = 1 or 2, the keys `Spread`, insertions and a deletion | after a merge the root is a leaf and one of its children is still there (`pht/pht.js:257`) |
| `RangeExact` | one client with the keys `Spread` that also deletes: insert 2 and 9, delete both, query | the query starts at the root, which has the copy of 9 that the merge made; the deletion took it from the leaf left behind, where a search finds it first |
| `RangeExact`, without `OneLevel` | a client that inserts the keys `Spread` while another queries | a split of several levels writes its first children empty, under an internal node, before the pairs are below them (`pht/pht.js:145`) |
| `StaysDeleted` | `pht_delete` | a merge deletes one leaf of two; a search finds the other later (`pht/pht.js:257`) |
| `MergesLeavesOnly` | `pht_delete` with one client, six calls and the five keys `Spread` | a merge goes on at a sibling that is an internal node (`pht/pht.js:317`) |
| `FoundAtRest` | two inserting clients, B = 2 | the second write of a leaf overwrites the first (`pht/pht.js:220`) |
| `FoundAtRest` | an inserting client and one that only starts | an empty root overwrites the trie (`pht/pht.js:74`) |

Some things were seen without a run.

* Replication to a new contact, which `ReplicationComplete` states as far as the code keeps it: one lost
  STORE locks the contact, which then is not among the nearest for the rest of its keys
  (`dht/dht.js:291`); a key that is written after `_replicate` took its list is not sent, a record that expired
  meanwhile is sent as null, which deletes the receiver's copy (`dht/dht.js:285`); `bootstrap` puts a
  contact in the table without a replication (`dht/dht.js:106`).
* More than `K_SIZE` contacts of our own ID make `routing_table_insert` split past the last bit and call
  itself for ever (`dht/dht.js:366`; the bound of `SplitBucket`).
* A full bucket that is not ours keeps contacts that are locked for ever and refuses others
  (`dht/dht.js:374`, a TODO).
* A lookup that nobody answers throws, since `dfs_in` is called on an empty tree (`NodeLookup!Throw`). The
  STORE that caches a value has no timeout callback, and its timer throws (`dht/dht.js:557`).
* The hourly replication throws a ReferenceError at its first record (`dht/dht.js:829`, `Fkad_node`).

## 6. Not modelled, and why

* The encoding of the codec, and the checksum and digest functions: assumed injective where a
  proof needs it, never where a run can do without.
* Byzantine senders: the code authenticates nothing, so the models have the honest
  protocol under faults of network and processes.
* View changes, checkpoints and the water marks' garbage collection: not in the code.
* The outbound byte budget, as a quantity: a choice at each send tick.
* The refresh of buckets: a timer that starts lookups, of which `NodeLookup` has one. The hourly replication: see
  section 5. `Passerby.start` and `stop`: the order in which components are made.
* `whoami`: one request that runs once; its timer and its answer are those of `Io`, which `Bus` has.
* `core/geo.js` (floating point), `core/journal.js` (logging), `transport/local` (a function call).

Hazards without a property are listed with a note each. Some because the code promises nothing
(a call whose primary stops, a chunk that is collected, a contact that timed out), some because
the code does not keep the property that would cover them, and section 5 says so.

## 7. Plan

1. `Budget`: the outbound byte budget with acks outside of it.
2. Deeper runs of `Pht`: splits of several levels with crashes, climbing merges with crashes; `Morton`:
   the code and its inverse against a reference definition.
3. An abstract replicated register, with the part of it `Pbft` implements for one call, and
   `Pht` over what `Pbft` really promises.
4. Lookups at several nodes: what `ReplicaSets` of `Pbft` may be, from what `NodeLookup` finds in
   tables that `RoutingTable` reaches.
5. Theorems: insertions take effect at one write (`Spanned` has what is needed for it); what deletions keep, once a
   merge deletes both leaves.
