--------------------------- MODULE DhtNode_proofs ---------------------------
(***************************************************************************)
(* Theorems about DhtNode, for every set of contacts, keys and values.     *)
(* The node's part of the invariant is OwedInv: what is owed to a known    *)
(* contact and due to it is still before the loop of that contact.  A key  *)
(* that is due cannot be skipped by the loop (DueReplicates), and the      *)
(* contact cannot be locked without its loop's end (TimeoutRecords).       *)
(***************************************************************************)
EXTENDS DhtNode, RoutingTable_proofs

-----------------------------------------------------------------------------
\* What the table's steps do to the Records.

\* A Record that get_nodes_closest_to returns the contact of.
Open(r) == ~r.locked /\ ~is_stale(r)

\* A bucket changes into b.
LEMMA RecordsNext ==
    ASSUME NEW p, NEW b, buckets' = [buckets EXCEPT ![p] = b]
    PROVE  \A r \in Records' : r \in Records \/ r \in b
BY DEF Records

\* enqueue adds a fresh Record, and no other.
LEMMA EnqueueRecords ==
    ASSUME NEW b, NEW c, NEW b2 \in enqueue(b, c)
    PROVE  b2 \subseteq b \cup {Fresh(c)}
BY DEF enqueue

\* A contact that comes in adds a fresh Record of it alone,
LEMMA AddedRecords ==
    ASSUME NEW c \in Contact, Refresh(c) \/ InsertNew(c) \/ BootstrapEnqueue(c), TreeInv
    PROVE  Records' \subseteq Records \cup {Fresh(c)}
<1> DEFINE p == LeafOf(c)
<1>1. p \in DOMAIN buckets
  BY AtLeaf
<1>2. PICK b : /\ \/ b \in enqueue(buckets[p], c)
                  \/ b \in enqueue(Without(buckets[p], c), c)
               /\ buckets' = [buckets EXCEPT ![p] = b]
  BY DEF Refresh, InsertNew, BootstrapEnqueue
<1>3. b \subseteq buckets[p] \cup {Fresh(c)}
  BY <1>2, EnqueueRecords DEF Without
<1> HIDE DEF p
<1> QED
  BY <1>1, <1>2, <1>3, RecordsNext DEF Records

\* a split adds none,
LEMMA SplitRecords ==
    ASSUME TreeInv, NEW c \in Contact, SplitBucket(c)
    PROVE  Records' \subseteq Records
<1> DEFINE p == LeafOf(c)
<1>1. buckets' = SplitAt(p) /\ p \in DOMAIN buckets
  BY AtLeaf DEF SplitBucket
<1> HIDE DEF p
<1>2. \A q \in DOMAIN buckets' :
         \/ buckets'[q] \subseteq buckets[p]
         \/ q \in DOMAIN buckets /\ buckets'[q] = buckets[q]
  BY <1>1 DEF SplitAt
<1> QED
  BY <1>1, <1>2 DEF Records

\* a timeout locks Records of the silent contact alone,
LEMMA TimeoutRecords ==
    ASSUME TreeInv, NEW c \in Contact, ContactTimeout(c)
    PROVE  \A r \in Records' : r.node # c => r \in Records
<1> DEFINE p == LeafOf(c)
           b == {IF Lockable(c, r) THEN lock(r) ELSE r : r \in buckets[p]}
<1>1. p \in DOMAIN buckets /\ buckets' = [buckets EXCEPT ![p] = b]
  BY AtLeaf DEF ContactTimeout
<1>2. ASSUME NEW r \in buckets[p], Lockable(c, r)
      PROVE  lock(r).node = c
  <2>1. r \in Record /\ r.node = c
    BY <1>1, <1>2 DEF TreeInv, Lockable
  <2> QED
    BY <2>1 DEF Record, lock
<1>3. \A r \in b : r.node # c => r \in buckets[p]
  BY <1>2
<1> HIDE DEF p, b
<1> QED
  BY <1>1, <1>3, RecordsNext DEF Records

\* and a lock that expires opens a Record of a known contact.
LEMMA ExpiredRecords ==
    ASSUME TreeInv, LockExpires
    PROVE  \A r \in Records' : r \in Records \/ (Open(r) /\ r.node \in Known)
<1>1. PICK p \in DOMAIN buckets : \E r \in buckets[p] :
         /\ Expires(r)
         /\ buckets' = [buckets EXCEPT ![p] = (@ \ {r}) \cup {[r EXCEPT !.locked = FALSE]}]
  BY DEF LockExpires
<1>2. PICK r \in buckets[p] :
         /\ Expires(r)
         /\ buckets' = [buckets EXCEPT ![p] = (@ \ {r}) \cup {[r EXCEPT !.locked = FALSE]}]
  BY <1>1
<1>3. r \in Record /\ r.node \in Known
  BY <1>1 DEF TreeInv, Known, Records
<1>4. Open([r EXCEPT !.locked = FALSE]) /\ [r EXCEPT !.locked = FALSE].node = r.node
  BY <1>2, <1>3 DEF Record, Open, Expires, is_stale
<1>5. \A s \in (buckets[p] \ {r}) \cup {[r EXCEPT !.locked = FALSE]} :
         s \in Records \/ (Open(s) /\ s.node \in Known)
  BY <1>3, <1>4 DEF Records
<1> QED
  BY <1>2, <1>5, RecordsNext

\* Usable and Known in terms of Open.
LEMMA UsableIs ==
    /\ \A c : c \in Usable <=> \E r \in Records : r.node = c /\ Open(r)
    /\ \A c : c \in Usable' <=> \E r \in Records' : r.node = c /\ Open(r)
    /\ \A c : c \in Known <=> \E r \in Records : r.node = c
    /\ \A c : c \in Known' <=> \E r \in Records' : r.node = c
BY DEF Usable, Known, Open, is_stale

\* A contact that is known stays usable, unless a timeout locks it.
LEMMA UsableKept ==
    ASSUME OneRecord, NEW d \in Known', d \in Known => d \in Usable,
           \A r \in Records' : r.node = d => r \in Records \/ Open(r)
    PROVE  d \in Usable'
<1>1. PICK r \in Records' : r.node = d
  BY UsableIs
<1>2. CASE Open(r)
  BY <1>1, <1>2, UsableIs
<1>3. CASE r \in Records
  <2>1. d \in Known
    BY <1>1, <1>3, UsableIs
  <2>2. PICK s \in Records : s.node = d /\ Open(s)
    BY <2>1, UsableIs
  <2>3. s = r
    BY <1>1, <1>3, <2>2 DEF OneRecord
  <2> QED
    BY <1>1, <2>2, <2>3, UsableIs
<1> QED
  BY <1>1, <1>2, <1>3

-----------------------------------------------------------------------------
\* The store and the loops.

\* TypeOK without the table, in parts.
LoopTypeOK == loop \in [Contact -> [todo : SUBSET Key, awaits : Key \cup {None}] \cup {None}]

DataTypeOK == data \in [Key -> [val : Val, expired : BOOLEAN] \cup {None}]

NodeTypeOK ==
    /\ DataTypeOK
    /\ serving \in Request \cup {None}
    /\ LoopTypeOK
    /\ owed \in [Contact -> SUBSET Key]

\* Whom a key is owed to, as long as it is known: a contact that is usable, with
\* a loop that has the key before it.
OwedUsable == \A c \in Known : owed[c] # {} => c \in Usable
OwedLoops ==
    \A c \in Known : \A k \in owed[c] : Due(c, k) => loop[c] # None /\ k \in loop[c].todo
OwedKnown == ~joined => \A c \in Contact : owed[c] # {} => c \in Known

\* The inductive invariant, next to TableInv and the types.
OwedInv == OwedUsable /\ OwedLoops /\ OwedKnown

\* A key that is due to a usable contact is not passed over: whatever list the
\* code gets, the contact is in it, and it is the first or nobody is nearer than
\* this node.
LEMMA DueReplicates ==
    ASSUME TableInv, NEW c \in Usable, NEW k \in Key, Due(c, k)
    PROVE  ~Passes(c, k)
<1> DEFINE key == KeyId[k]
           rivals == {d \in Contact \ {c} : ~Nearer(IdOf[c], IdOf[d], key)}
<1> SUFFICES ASSUME NEW l \in Closest(key)
             PROVE  Replicates(c, l, key)
  BY DEF Passes
<1>1. Usable \subseteq Contact
  BY DEF TableInv, TreeInv, Usable, Records, Record
<1>2. /\ Cardinality(rivals) < K_SIZE
      /\ rivals = {} \/ IsNearest(Self, Contact, key)
  BY DEF Due
<1>3. /\ l.contacts \subseteq Usable
      /\ l.contacts # Usable => Cardinality(l.contacts) = K_SIZE
      /\ \A d \in Usable \ l.contacts : \A e \in l.contacts : ~Nearer(IdOf[d], IdOf[e], key)
      /\ l.first \in l.contacts /\ IsNearest(l.first, l.contacts, key)
  BY DEF Closest, get_nodes_closest_to
<1>4. c \in l.contacts
  <2> SUFFICES ASSUME c \notin l.contacts PROVE FALSE
    OBVIOUS
  <2>1. l.contacts \subseteq rivals
    BY <1>1, <1>3
  <2>2. IsFiniteSet(rivals) /\ Cardinality(rivals) \in Nat
    BY FS_Subset, FS_CardinalityType, TableAssumption
  <2> HIDE DEF rivals
  <2>3. Cardinality(l.contacts) <= Cardinality(rivals)
    BY <2>1, <2>2, FS_Subset
  <2>4. Cardinality(l.contacts) = K_SIZE
    BY <1>3
  <2> QED
    BY <1>2, <2>2, <2>3, <2>4, TableAssumption
<1>5. CASE rivals = {}
  <2>1. ~Nearer(IdOf[c], IdOf[l.first], key)
    BY <1>3, <1>4 DEF IsNearest
  <2>2. l.first = c
    BY <1>1, <1>3, <1>5, <2>1
  <2> QED
    BY <1>4, <2>2 DEF Replicates
<1>6. CASE IsNearest(Self, Contact, key)
  BY <1>1, <1>3, <1>4, <1>6 DEF IsNearest, Replicates
<1> QED
  BY <1>2, <1>5, <1>6

\* It holds when the node starts.
LEMMA NodeInit == Init => NodeTypeOK /\ OwedInv
<1> SUFFICES ASSUME Init PROVE NodeTypeOK /\ OwedInv
  OBVIOUS
<1>1. NodeTypeOK
  BY DEF Init, NodeTypeOK, DataTypeOK, LoopTypeOK
<1>2. \A c \in Contact : owed[c] = {}
  BY DEF Init
<1>3. Known \subseteq Contact
  BY InitInv, KnownAt DEF Init, TableInv, KnownIsAtLeaf
<1>4. OwedInv
  BY <1>2, <1>3 DEF OwedInv, OwedUsable, OwedLoops, OwedKnown
<1> QED
  BY <1>1, <1>4

\* What Ds.get returns and leaves behind,
LEMMA GetType ==
    ASSUME DataTypeOK, NEW k \in Key
    PROVE  /\ get(k) \in Val \cup {None}
           /\ DataAfterGet(k) \in [Key -> [val : Val, expired : BOOLEAN] \cup {None}]
BY DEF DataTypeOK, get, DataAfterGet, Held

\* and what Ds.put leaves.
LEMMA WrittenType ==
    ASSUME DataTypeOK, NEW k \in Key, NEW v \in Val \cup {None}
    PROVE  Written(k, v) \in [Key -> [val : Val, expired : BOOLEAN] \cup {None}]
BY DEF DataTypeOK, Written, Rec

\* What is owed shrinks, and loops keep the keys they have before them.
LEMMA OwedShrinks ==
    ASSUME OwedInv, NodeTypeOK, NodeTypeOK', Known' = Known, Usable' = Usable,
           joined' = joined,
           \A c \in Contact : owed'[c] \subseteq owed[c],
           \A c \in Contact : \A k \in owed'[c] :
              loop[c] # None /\ k \in loop[c].todo /\ c \in Usable /\ Due(c, k) =>
                 loop'[c] # None /\ k \in loop'[c].todo,
           Known \subseteq Contact
    PROVE  OwedInv'
<1>1. OwedUsable'
  BY DEF OwedInv, OwedUsable
<1>2. OwedKnown'
  BY DEF OwedInv, OwedKnown
<1>3. OwedLoops'
  <2> SUFFICES ASSUME NEW c \in Known', NEW k \in owed'[c], Due(c, k)
               PROVE  loop'[c] # None /\ k \in loop'[c].todo
    BY DEF OwedLoops, Due
  <2>1. k \in owed[c] /\ c \in Contact /\ c \in Known
    OBVIOUS
  <2>2. c \in Usable /\ loop[c] # None /\ k \in loop[c].todo
    BY <2>1 DEF OwedInv, OwedUsable, OwedLoops
  <2> QED
    BY <2>1, <2>2
<1> QED
  BY <1>1, <1>2, <1>3 DEF OwedInv

\* What is known and usable is a matter of the buckets.
LEMMA SameTableFacts ==
    ASSUME buckets' = buckets
    PROVE  Known' = Known /\ Usable' = Usable
BY DEF Known, Usable, Records, is_stale

\* The types are inductive.
LEMMA NodeTyped ==
    ASSUME NodeTypeOK, Next
    PROVE  NodeTypeOK'
<1> DEFINE Datum == [val : Val, expired : BOOLEAN] \cup {None}
           Loop == [todo : SUBSET Key, awaits : Key \cup {None}]
<1>1. /\ data \in [Key -> Datum] /\ serving \in Request \cup {None}
      /\ loop \in [Contact -> Loop \cup {None}] /\ owed \in [Contact -> SUBSET Key]
      /\ Held \subseteq Key
  BY DEF NodeTypeOK, DataTypeOK, LoopTypeOK, Held
<1>2. ASSUME NEW c \in Contact, loop[c] # None
      PROVE  [loop EXCEPT ![c].awaits = None] \in [Contact -> Loop \cup {None}]
  <2>1. loop[c] \in Loop
    BY <1>1, <1>2
  <2>2. [loop[c] EXCEPT !.awaits = None] \in Loop
    BY <2>1
  <2> QED
    BY <1>1, <2>2
<1>3. ASSUME NEW c \in Contact, OnStored(c) \/ OnStoreTimeout(c)
      PROVE  NodeTypeOK'
  <2>1. loop' \in [Contact -> Loop \cup {None}] /\ data' = data /\ serving' = serving
    BY <1>2, <1>3 DEF OnStored, OnStoreTimeout
  <2>2. owed' \in [Contact -> SUBSET Key]
    BY <1>1, <1>3 DEF OnStored, OnStoreTimeout
  <2> QED
    BY <1>1, <2>1, <2>2 DEF NodeTypeOK, DataTypeOK, LoopTypeOK
<1>4. ASSUME NEW c \in Contact,
             \/ \E m \in Request : OnRequest(c, m)
             \/ OnOther(c) \/ OnTimeout(c) \/ Bootstrap(c) \/ Unlock
      PROVE  NodeTypeOK'
  <2>1. data' = data /\ loop' = loop /\ serving' \in Request \cup {None}
    BY <1>1, <1>4 DEF OnRequest, OnOther, OnTimeout, Bootstrap, Unlock, storeVars
  <2>2. owed' \in [Contact -> SUBSET Key]
    BY <1>1, <1>4 DEF OnRequest, OnOther, OnTimeout, Bootstrap, Unlock, storeVars
  <2> QED
    BY <1>1, <2>1, <2>2 DEF NodeTypeOK, DataTypeOK, LoopTypeOK
<1>5. CASE Insert
  <2>1. PICK c \in Contact :
           /\ IF InsertNew(c)
              THEN /\ loop' = [loop EXCEPT ![c] = [todo |-> Snapshot, awaits |-> None]]
                   /\ owed' = [owed EXCEPT ![c] = {k \in Held : ~data[k].expired}]
              ELSE UNCHANGED <<loop, owed>>
           /\ UNCHANGED <<data, serving>>
    BY <1>5 DEF Insert
  <2>2. loop' \in [Contact -> Loop \cup {None}] /\ owed' \in [Contact -> SUBSET Key]
    <3>1. CASE InsertNew(c)
      BY <1>1, <2>1, <3>1 DEF Snapshot
    <3>2. CASE ~InsertNew(c)
      BY <1>1, <2>1, <3>2
    <3> QED
      BY <3>1, <3>2
  <2> QED
    BY <1>1, <2>1, <2>2 DEF NodeTypeOK, DataTypeOK, LoopTypeOK
<1>6. ASSUME NEW c \in Contact, ReplicateNext(c)
      PROVE  NodeTypeOK'
  <2>1. loop[c] \in Loop
    BY <1>1, <1>6 DEF ReplicateNext, Ready
  <2>2. PICK k \in loop[c].todo :
           /\ \E passed \in SUBSET {j \in loop[c].todo : Passes(c, j)} :
                 loop' = [loop EXCEPT ![c] = [todo |-> (@.todo \ {k}) \ passed, awaits |-> k]]
           /\ data' = DataAfterGet(k)
           /\ owed' = [owed EXCEPT ![c] = @ \ {k}]
    BY <1>6 DEF ReplicateNext
  <2>3. k \in Key /\ data' \in [Key -> Datum]
    BY <1>1, <2>1, <2>2, GetType DEF NodeTypeOK
  <2>4. loop' \in [Contact -> Loop \cup {None}] /\ owed' \in [Contact -> SUBSET Key]
    BY <1>1, <2>1, <2>2, <2>3
  <2>5. serving' = serving
    BY <1>6 DEF ReplicateNext
  <2> QED
    BY <1>1, <2>3, <2>4, <2>5 DEF NodeTypeOK, DataTypeOK, LoopTypeOK
<1>7. ASSUME NEW c \in Contact, ReplicateEnd(c) \/ ReplicateThrow(c)
      PROVE  NodeTypeOK'
  <2>1. /\ loop' = [loop EXCEPT ![c] = None] /\ data' = data /\ serving' = serving
        /\ owed' = owed \/ owed' = [owed EXCEPT ![c] = {}]
    BY <1>7 DEF ReplicateEnd, ReplicateThrow
  <2>2. loop' \in [Contact -> Loop \cup {None}] /\ owed' \in [Contact -> SUBSET Key]
    BY <1>1, <2>1
  <2> QED
    BY <1>1, <2>1, <2>2 DEF NodeTypeOK, DataTypeOK, LoopTypeOK
<1>8. \A k \in Key : StillOwed(k) \in [Contact -> SUBSET Key]
  BY <1>1 DEF StillOwed
<1>9. ASSUME NEW k \in Key,
             \/ \E v \in Val \cup {None} : LocalWrite(k, v)
             \/ LocalRead(k) \/ Expire(k)
      PROVE  NodeTypeOK'
  <2>1. data' \in [Key -> Datum]
    <3>1. CASE \E v \in Val \cup {None} : LocalWrite(k, v)
      BY <3>1, WrittenType DEF LocalWrite, NodeTypeOK
    <3>2. CASE LocalRead(k)
      BY <3>2, GetType DEF LocalRead, NodeTypeOK
    <3>3. CASE Expire(k)
      <4>1. data[k] \in [val : Val, expired : BOOLEAN]
        BY <1>1, <3>3 DEF Expire, get, Held
      <4>2. [data[k] EXCEPT !.expired = TRUE] \in Datum
        BY <4>1
      <4> QED
        BY <1>1, <3>3, <4>2 DEF Expire
    <3> QED
      BY <1>9, <3>1, <3>2, <3>3
  <2>2. serving' = serving /\ loop' = loop /\ owed' \in [Contact -> SUBSET Key]
    BY <1>1, <1>8, <1>9 DEF LocalWrite, LocalRead, Expire
  <2> QED
    BY <1>1, <2>1, <2>2 DEF NodeTypeOK, DataTypeOK, LoopTypeOK
<1>10. CASE Serve
  <2>1. serving \in Request
    BY <1>1, <1>10 DEF Serve
  <2>2. serving.key \in Key /\ (serving.type = "STORE" => serving.val \in Val \cup {None})
    BY <2>1 DEF Request
  <2>3. data' \in [Key -> Datum] /\ owed' \in [Contact -> SUBSET Key]
    BY <1>1, <1>8, <1>10, <2>2, GetType, WrittenType DEF Serve, NodeTypeOK
  <2>4. serving' = None /\ loop' = loop
    BY <1>10 DEF Serve
  <2> QED
    BY <1>1, <2>3, <2>4 DEF NodeTypeOK, DataTypeOK, LoopTypeOK
<1>11. CASE Unlock
  BY <1>4, <1>11, TableAssumption
<1> QED
  BY <1>3, <1>4, <1>5, <1>6, <1>7, <1>9, <1>10, <1>11 DEF Next

\* A step of the table after which nobody is owed more.
LEMMA OwedTable ==
    ASSUME TableInv, OwedInv, NodeTypeOK, NodeTypeOK',
           \A r \in Records' :
              \/ owed'[r.node] = {}
              \/ r \in Records
              \/ Open(r) /\ r.node \in Known,
           Known \subseteq Known' \/ (~joined /\ joined'), joined => joined',
           \A c \in Contact : owed'[c] \subseteq owed[c],
           \A c \in Contact : loop[c] # None => loop'[c] # None /\ loop'[c].todo = loop[c].todo,
           Known' \subseteq Contact
    PROVE  OwedInv'
<1>1. ASSUME NEW d \in Known', owed'[d] # {}
      PROVE  d \in Contact /\ d \in Known /\ d \in Usable /\ d \in Usable'
  <2>1. d \in Contact /\ owed[d] # {}
    BY <1>1
  <2>2. PICK r \in Records' : r.node = d
    BY UsableIs
  <2>3. d \in Known
    BY <1>1, <2>2, UsableIs
  <2>4. d \in Usable
    BY <2>1, <2>3 DEF OwedInv, OwedUsable
  <2>5. \A x \in Records' : x.node = d => x \in Records \/ Open(x)
    BY <1>1
  <2>6. d \in Usable'
    BY <2>4, <2>5, UsableKept, UniqueRecords
  <2> QED
    BY <2>1, <2>3, <2>4, <2>6
<1>2. OwedUsable'
  BY <1>1 DEF OwedUsable
<1>3. OwedLoops'
  <2> SUFFICES ASSUME NEW c \in Known', NEW k \in owed'[c], Due(c, k)
               PROVE  loop'[c] # None /\ k \in loop'[c].todo
    BY DEF OwedLoops, Due
  <2>1. c \in Contact /\ c \in Known /\ k \in owed[c]
    BY <1>1
  <2>2. loop[c] # None /\ k \in loop[c].todo
    BY <2>1 DEF OwedInv, OwedLoops
  <2> QED
    BY <2>1, <2>2
<1>4. OwedKnown'
  BY DEF OwedInv, OwedKnown
<1> QED
  BY <1>2, <1>3, <1>4 DEF OwedInv

\* A new contact gets a loop with all that is owed to it.
LEMMA OwedNewContact ==
    ASSUME TableInv, OwedInv, NodeTypeOK, NodeTypeOK', NEW c \in Contact, InsertNew(c),
           loop' = [loop EXCEPT ![c] = [todo |-> Snapshot, awaits |-> None]],
           owed' = [owed EXCEPT ![c] = {k \in Held : ~data[k].expired}]
    PROVE  OwedInv'
<1>1. TreeInv /\ TableInv' /\ c \in Known'
      /\ (Known \subseteq Known' \/ (~joined /\ joined')) /\ joined' = joined
  BY InsertStep DEF TableInv, TableStep, InsertNew
<1>2. Known' \subseteq Contact
  BY <1>1, KnownAtNext DEF KnownIsAtLeaf, TableInv
<1>3. Records' \subseteq Records \cup {Fresh(c)}
  BY <1>1, AddedRecords
<1>4. c \notin Known
  BY <1>1, KnownAt DEF InsertNew, KnownIsAtLeaf, KnownAtLeaf, Names, exists
<1>5. Fresh(c).node = c /\ Open(Fresh(c))
  BY FreshRecord DEF Open
<1>6. c \in Usable'
  BY <1>1, <1>3, <1>4, <1>5, UsableIs
<1>7. owed \in [Contact -> SUBSET Key] /\ loop \in [Contact -> [todo : SUBSET Key, awaits : Key \cup {None}] \cup {None}]
  BY DEF NodeTypeOK, LoopTypeOK
<1>8. ASSUME NEW d \in Known', d # c, owed'[d] # {}
      PROVE  d \in Contact /\ d \in Known /\ d \in Usable /\ d \in Usable'
  <2>1. d \in Contact /\ owed[d] # {}
    BY <1>2, <1>7, <1>8
  <2>2. \A x \in Records' : x.node = d => x \in Records
    BY <1>3, <1>5, <1>8
  <2>3. d \in Known
    BY <2>2, UsableIs
  <2>4. d \in Usable
    BY <2>1, <2>3 DEF OwedInv, OwedUsable
  <2>5. d \in Usable'
    BY <2>2, <2>4, UsableKept, UniqueRecords
  <2> QED
    BY <2>1, <2>3, <2>4, <2>5
<1>9. OwedUsable'
  BY <1>6, <1>8 DEF OwedUsable
<1>10. OwedLoops'
  <2> SUFFICES ASSUME NEW d \in Known', NEW k \in owed'[d], Due(d, k)
               PROVE  loop'[d] # None /\ k \in loop'[d].todo
    BY DEF OwedLoops, Due
  <2>1. CASE d = c
    <3>1. loop'[c] = [todo |-> Snapshot, awaits |-> None] /\ k \in Held
      BY <1>7, <2>1
    <3>2. loop'[c].todo = Held
      BY <3>1 DEF Snapshot
    <3>3. None \notin Key \cup Val \cup [todo : SUBSET Key, awaits : Key \cup {None}]
      BY NodeAssumption
    <3>4. loop'[c] \in [todo : SUBSET Key, awaits : Key \cup {None}]
      BY <3>1 DEF Snapshot, Held
    <3> QED
      BY <2>1, <3>1, <3>2, <3>3, <3>4
  <2>2. CASE d # c
    <3>1. d \in Contact /\ d \in Known /\ k \in owed[d] /\ loop'[d] = loop[d]
      BY <1>7, <1>8, <2>2
    <3> QED
      BY <3>1 DEF OwedInv, OwedLoops
  <2> QED
    BY <2>1, <2>2
<1>11. OwedKnown'
  BY <1>1, <1>7 DEF OwedInv, OwedKnown
<1> QED
  BY <1>9, <1>10, <1>11 DEF OwedInv

\* What is owed is before a loop, after every step.
LEMMA OwedStep ==
    ASSUME TableInv, TableInv', NodeTypeOK, NodeTypeOK', OwedInv, Next
    PROVE  OwedInv'
<1> DEFINE Loop == [todo : SUBSET Key, awaits : Key \cup {None}]
<1>1. /\ loop \in [Contact -> Loop \cup {None}] /\ owed \in [Contact -> SUBSET Key]
      /\ \A c \in Contact : loop[c] # None => loop[c] \in Loop
      /\ None \notin Loop
  BY NodeAssumption DEF NodeTypeOK, LoopTypeOK
<1>2. TreeInv /\ Known \subseteq Contact /\ Known' \subseteq Contact
  BY KnownAt, KnownAtNext DEF TableInv, KnownIsAtLeaf
<1>3. ASSUME buckets' = buckets, joined' = joined,
             \A c \in Contact : owed'[c] \subseteq owed[c],
             \A c \in Contact : \A k \in owed'[c] :
                loop[c] # None /\ k \in loop[c].todo /\ c \in Usable /\ Due(c, k) =>
                   loop'[c] # None /\ k \in loop'[c].todo
      PROVE  OwedInv'
  <2>1. Known' = Known /\ Usable' = Usable
    BY <1>3, SameTableFacts
  <2> QED
    BY <1>2, <1>3, <2>1, OwedShrinks
<1>4. ASSUME NEW c \in Contact, loop[c] # None, loop' = [loop EXCEPT ![c].awaits = None]
      PROVE  \A d \in Contact : loop[d] # None => loop'[d] # None /\ loop'[d].todo = loop[d].todo
  <2>1. loop[c] \in Loop
    BY <1>1, <1>4
  <2>2. /\ [loop[c] EXCEPT !.awaits = None] \in Loop
        /\ [loop[c] EXCEPT !.awaits = None].todo = loop[c].todo
    BY <2>1
  <2> QED
    BY <1>1, <1>4, <2>2
<1>5. ASSUME NEW c \in Contact,
             (\E m \in Request : OnRequest(c, m)) \/ OnOther(c)
      PROVE  OwedInv'
  BY <1>3, <1>5 DEF OnRequest, OnOther, Receive, storeVars
<1>6. ASSUME NEW c \in Contact, OnStored(c)
      PROVE  OwedInv'
  BY <1>3, <1>4, <1>6 DEF OnStored, Receive
<1>7. ASSUME NEW c \in Contact, ReplicateNext(c)
      PROVE  OwedInv'
  <2>1. loop[c] # None /\ loop[c] \in Loop
    BY <1>1, <1>7 DEF ReplicateNext, Ready
  <2>2. PICK k \in loop[c].todo :
           /\ \E passed \in SUBSET {j \in loop[c].todo : Passes(c, j)} :
                 loop' = [loop EXCEPT ![c] = [todo |-> (@.todo \ {k}) \ passed, awaits |-> k]]
           /\ owed' = [owed EXCEPT ![c] = @ \ {k}]
    BY <1>7 DEF ReplicateNext
  <2>3. PICK passed \in SUBSET {j \in loop[c].todo : Passes(c, j)} :
           loop' = [loop EXCEPT ![c] = [todo |-> (@.todo \ {k}) \ passed, awaits |-> k]]
    BY <2>2
  <2>4. k \in Key /\ passed \subseteq Key
    BY <2>1, <2>2, <2>3
  <2>5. /\ loop'[c] = [todo |-> (loop[c].todo \ {k}) \ passed, awaits |-> k]
        /\ loop'[c] \in Loop
        /\ \A d \in Contact : d # c => loop'[d] = loop[d]
    BY <1>1, <2>1, <2>3, <2>4
  <2>6. \A d \in Contact : owed'[d] = IF d = c THEN owed[c] \ {k} ELSE owed[d]
    BY <1>1, <2>2
  <2>7. ASSUME NEW j \in owed'[c], j \in loop[c].todo, c \in Usable, Due(c, j)
        PROVE  loop'[c] # None /\ j \in loop'[c].todo
    <3>1. j \in Key /\ j # k
      BY <2>1, <2>6, <2>7
    <3>2. ~Passes(c, j)
      BY <2>7, <3>1, DueReplicates
    <3>3. j \notin passed
      BY <2>3, <3>2
    <3> QED
      BY <1>1, <2>5, <2>7, <3>1, <3>3
  <2>8. buckets' = buckets /\ joined' = joined
    BY <1>7 DEF ReplicateNext, tableVars
  <2> QED
    BY <1>3, <2>5, <2>6, <2>7, <2>8
<1>8. ASSUME NEW c \in Contact, ReplicateEnd(c)
      PROVE  OwedInv'
  <2>1. /\ loop[c] # None /\ loop[c] \in Loop
        /\ loop' = [loop EXCEPT ![c] = None] /\ owed' = owed
        /\ \A k \in loop[c].todo : Passes(c, k)
        /\ buckets' = buckets /\ joined' = joined
    BY <1>1, <1>8 DEF ReplicateEnd, Ready, tableVars
  <2>2. ASSUME NEW k \in owed[c], k \in loop[c].todo, c \in Usable, Due(c, k)
        PROVE  FALSE
    <3>1. k \in Key
      BY <2>1, <2>2
    <3>2. ~Passes(c, k)
      BY <2>2, <3>1, DueReplicates
    <3> QED
      BY <2>1, <2>2, <3>2
  <2>3. \A d \in Contact : d # c => loop'[d] = loop[d]
    BY <1>1, <2>1
  <2> QED
    BY <1>3, <2>1, <2>2, <2>3
<1>9. ASSUME NEW c \in Contact, ReplicateThrow(c)
      PROVE  OwedInv'
  <2>1. /\ loop' = [loop EXCEPT ![c] = None] /\ owed' = [owed EXCEPT ![c] = {}]
        /\ buckets' = buckets /\ joined' = joined
    BY <1>9 DEF ReplicateThrow, tableVars
  <2>2. \A d \in Contact : d # c => loop'[d] = loop[d] /\ owed'[d] = owed[d]
    BY <1>1, <2>1
  <2>3. owed'[c] = {}
    BY <1>1, <2>1
  <2> QED
    BY <1>3, <2>1, <2>2, <2>3
<1>10. ASSUME buckets' = buckets, joined' = joined, loop' = loop,
              owed' = owed \/ \E k : owed' = StillOwed(k)
       PROVE  OwedInv'
  <2>1. \A c \in Contact : owed'[c] \subseteq owed[c]
    BY <1>10 DEF StillOwed
  <2> QED
    BY <1>3, <1>10, <2>1
<1>11. CASE Serve
  BY <1>10, <1>11 DEF Serve, tableVars
<1>12. ASSUME NEW k \in Key,
              (\E v \in Val \cup {None} : LocalWrite(k, v)) \/ LocalRead(k) \/ Expire(k)
       PROVE  OwedInv'
  BY <1>10, <1>12 DEF LocalWrite, LocalRead, Expire, tableVars
<1>13. ASSUME NEW c \in Contact, Bootstrap(c)
       PROVE  OwedInv'
  <2>1. owed' = owed /\ loop' = loop /\ BootstrapEnqueue(c) /\ ~joined /\ joined'
    BY <1>13 DEF Bootstrap, BootstrapEnqueue, storeVars
  <2>2. Records' \subseteq Records \cup {Fresh(c)}
    BY <1>2, <2>1, AddedRecords
  <2>3. Fresh(c).node = c /\ Open(Fresh(c)) /\ (owed[c] = {} \/ c \in Known)
    BY <2>1, FreshRecord DEF Open, OwedInv, OwedKnown
  <2> QED
    BY <1>2, <2>1, <2>2, <2>3, OwedTable
<1>14. CASE Unlock
  <2>1. owed' = owed /\ loop' = loop /\ LockExpires /\ joined' = joined
    BY <1>14 DEF Unlock, LockExpires, storeVars
  <2>2. Known \subseteq Known' \/ (~joined /\ joined')
    BY <2>1, ExpiresStep DEF TableStep
  <2>3. \A r \in Records' : r \in Records \/ (Open(r) /\ r.node \in Known)
    BY <1>2, <2>1, ExpiredRecords
  <2> QED
    BY <1>2, <2>1, <2>2, <2>3, OwedTable
<1>15. ASSUME NEW c \in Contact, OnTimeout(c) \/ OnStoreTimeout(c)
       PROVE  OwedInv'
  <2>1. /\ owed' = [owed EXCEPT ![c] = {}] /\ ContactTimeout(c) /\ joined' = joined
        /\ \/ loop' = loop
           \/ loop[c] # None /\ loop' = [loop EXCEPT ![c].awaits = None]
    BY <1>15 DEF OnTimeout, OnStoreTimeout, ContactTimeout
  <2>2. \A d \in Contact : loop[d] # None => loop'[d] # None /\ loop'[d].todo = loop[d].todo
    BY <1>4, <2>1
  <2>3. Known \subseteq Known' \/ (~joined /\ joined')
    BY <2>1, TimeoutStep DEF TableStep
  <2>4. \A r \in Records' : r.node = c \/ r \in Records
    BY <1>2, <2>1, TimeoutRecords
  <2>5. owed'[c] = {} /\ \A d \in Contact : owed'[d] \subseteq owed[d]
    BY <1>1, <2>1
  <2> QED
    BY <1>2, <2>1, <2>2, <2>3, <2>4, <2>5, OwedTable
<1>16. CASE Insert
  <2>1. PICK c \in Contact :
           /\ routing_table_insert(c)
           /\ IF InsertNew(c)
              THEN /\ loop' = [loop EXCEPT ![c] = [todo |-> Snapshot, awaits |-> None]]
                   /\ owed' = [owed EXCEPT ![c] = {k \in Held : ~data[k].expired}]
              ELSE UNCHANGED <<loop, owed>>
    BY <1>16 DEF Insert
  <2>2. CASE InsertNew(c)
    BY <2>1, <2>2, OwedNewContact, NodeAssumption
  <2>3. CASE ~InsertNew(c) /\ Refresh(c)
    <3>1. owed' = owed /\ loop' = loop /\ joined' = joined
      BY <2>1, <2>3 DEF Refresh
    <3>2. Records' \subseteq Records \cup {Fresh(c)}
      BY <1>2, <2>3, AddedRecords
    <3>3. c \in Known
      BY <1>2, <2>3, KnownAt DEF Refresh, KnownIsAtLeaf, KnownAtLeaf, Names, exists
    <3>4. Fresh(c).node = c /\ Open(Fresh(c))
      BY FreshRecord DEF Open
    <3>5. Known \subseteq Known' \/ (~joined /\ joined')
      BY <2>3, RefreshStep DEF TableStep
    <3> QED
      BY <1>2, <3>1, <3>2, <3>3, <3>4, <3>5, OwedTable
  <2>4. CASE ~InsertNew(c) /\ SplitBucket(c)
    <3>1. owed' = owed /\ loop' = loop /\ joined' = joined
      BY <2>1, <2>4 DEF SplitBucket
    <3>2. Records' \subseteq Records
      BY <1>2, <2>4, SplitRecords
    <3>3. Known \subseteq Known' \/ (~joined /\ joined')
      BY <2>4, SplitStep DEF TableStep
    <3> QED
      BY <1>2, <3>1, <3>2, <3>3, OwedTable
  <2>5. CASE ~InsertNew(c) /\ Forget(c)
    <3>1. owed' = owed /\ loop' = loop /\ joined' = joined /\ buckets' = buckets
      BY <2>1, <2>5 DEF Forget
    <3> QED
      BY <1>3, <3>1
  <2> QED
    BY <2>1, <2>2, <2>3, <2>4, <2>5 DEF routing_table_insert
<1> QED
  BY <1>5, <1>6, <1>7, <1>8, <1>9, <1>11, <1>12, <1>13, <1>14, <1>15, <1>16 DEF Next

-----------------------------------------------------------------------------
\* A node that stores and replicates keeps its table as RoutingTable says: the
\* theorems of RoutingTable_proofs hold of it.
THEOREM ImplementsTable == Spec => TableSpec
<1>1. Init => TableInit
  BY DEF Init
<1>2. ASSUME [Next]_vars PROVE [TableNext]_tableVars
  <2>1. CASE Serve \/ UNCHANGED vars
    BY <2>1 DEF Serve, vars, tableVars
  <2>2. ASSUME NEW c \in Contact,
               \/ (\E m \in Request : OnRequest(c, m)) \/ OnStored(c) \/ OnOther(c)
               \/ OnTimeout(c) \/ OnStoreTimeout(c) \/ Bootstrap(c)
        PROVE  TableNext
    BY <2>2 DEF OnRequest, OnStored, OnOther, OnTimeout, OnStoreTimeout, Bootstrap, TableNext
  <2>3. ASSUME NEW c \in Contact, ReplicateNext(c) \/ ReplicateEnd(c) \/ ReplicateThrow(c)
        PROVE  UNCHANGED tableVars
    BY <2>3 DEF ReplicateNext, ReplicateEnd, ReplicateThrow, tableVars
  <2>4. ASSUME NEW k \in Key,
               (\E v \in Val \cup {None} : LocalWrite(k, v)) \/ LocalRead(k) \/ Expire(k)
        PROVE  UNCHANGED tableVars
    BY <2>4 DEF LocalWrite, LocalRead, Expire, tableVars
  <2>5. CASE Insert \/ Unlock
    BY <2>5 DEF Insert, Unlock, TableNext
  <2> QED
    BY <1>2, <2>1, <2>2, <2>3, <2>4, <2>5 DEF Next
<1> QED
  BY <1>1, <1>2, PTL DEF Spec, TableSpec

\* The inductive invariant holds in every state.
THEOREM NodeInvariant == Spec => [](NodeTypeOK /\ OwedInv)
<1>1. Init => NodeTypeOK /\ OwedInv
  BY NodeInit
<1>2. ASSUME TableInv, TableInv', NodeTypeOK, OwedInv, [Next]_vars
      PROVE  NodeTypeOK' /\ OwedInv'
  <2>1. CASE Next
    BY <1>2, <2>1, NodeTyped, OwedStep, NodeAssumption
  <2>2. CASE UNCHANGED vars
    <3>1. NodeTypeOK'
      BY <1>2, <2>2 DEF vars, storeVars, NodeTypeOK, DataTypeOK, LoopTypeOK
    <3>2. Known' = Known /\ Usable' = Usable
      BY <2>2, SameTableFacts DEF vars, tableVars
    <3>3. Known \subseteq Contact
      BY <1>2, KnownAt DEF TableInv, KnownIsAtLeaf
    <3> QED
      BY <1>2, <2>2, <3>1, <3>2, <3>3, OwedShrinks DEF vars, tableVars, storeVars
  <2> QED
    BY <1>2, <2>1, <2>2
<1>3. Spec => []TableInv
  BY ImplementsTable, TableInvariant, PTL
<1> QED
  BY <1>1, <1>2, <1>3, PTL DEF Spec

\* The state variables hold what their comments say.
THEOREM TypeCorrect == Spec => []TypeOK
<1>1. TableTypeOK /\ NodeTypeOK => TypeOK
  BY DEF NodeTypeOK, DataTypeOK, LoopTypeOK, TypeOK
<1> QED
  BY <1>1, ImplementsTable, TableTyped, NodeInvariant, PTL

\* Once the loop of a contact that came in has ended, and as long as it answers,
\* it was sent every pair that was held when it came in and is due to it
\* (dht.js:262-300).
THEOREM ReplicationCorrect == Spec => []ReplicationComplete
<1>1. OwedInv => ReplicationComplete
  BY DEF OwedInv, OwedLoops, ReplicationComplete
<1> QED
  BY <1>1, NodeInvariant, PTL

\* _replicate finds no closest node only in a table that does not hold our own
\* node (dht.js:278).
THEOREM ThrowsCorrect == Spec => ThrowsWithoutSelf
<1>1. ASSUME TableInv, NEW c \in Contact, ReplicateThrow(c)
      PROVE  Self \notin Known
  <2>1. SUFFICES ASSUME Self \in Known PROVE FALSE
    OBVIOUS
  <2>2. PICK r \in Records : r.node = Self
    BY <2>1, UsableIs
  <2>3. ~r.locked /\ ~is_stale(r)
    BY <1>1, <2>2 DEF TableInv, TreeInv, GoodBucket, Records
  <2>4. Self \in Usable
    BY <2>2, <2>3, UsableIs DEF Open
  <2> QED
    BY <1>1, <2>4 DEF ReplicateThrow
<1>2. TableInv /\ [Next]_vars => [\A c \in Contact : ReplicateThrow(c) => Self \notin Known]_vars
  BY <1>1
<1> QED
  BY <1>2, ImplementsTable, TableInvariant, PTL DEF Spec, ThrowsWithoutSelf
=============================================================================
