---------------------------- MODULE RoutingTable ----------------------------
(***************************************************************************)
(* The routing table of one Kademlia node (dht/dht.js, dht/kbucket.js): a  *)
(* binary tree whose leaves are k-buckets.  A message from a contact       *)
(* inserts it, a request that times out locks it.                          *)
(*                                                                         *)
(* A leaf is named by its prefix, and a k-bucket is the set of its         *)
(* Records: nothing but an eviction reads their order, and an eviction     *)
(* takes any Record here.                                                  *)
(***************************************************************************)
EXTENDS Integers, Sequences, FiniteSets

CONSTANTS
    Contact,            \* node_infos: an ID together with a network address
    Self,               \* this.node_info
    Width,              \* DHT_BIT_WIDTH
    IdOf,               \* a contact's ID; get_bit(i) is its element i + 1
    K_SIZE,             \* capacity of a k-bucket
    MAX_LOCK_ATTEMPTS,  \* locks after which a Record is stale
    None                \* no contact

Id == [1 .. Width -> {0, 1}]

ASSUME TableAssumption ==
    /\ Width \in Nat
    /\ IsFiniteSet(Contact)
    /\ Self \in Contact
    /\ None \notin Contact
    /\ IdOf \in [Contact -> Id]
    /\ K_SIZE \in Nat \ {0}
    /\ MAX_LOCK_ATTEMPTS \in Nat \ {0}

VARIABLES
    buckets,    \* the leaves of the tree: their prefixes, each with its Records
    inserting,  \* the contact routing_table_insert is called with, or None
    heard,      \* history: the contacts that a message came from
    joined      \* history: bootstrap has enqueued the bootstrap node

tableVars == <<buckets, inserting, heard, joined>>

-----------------------------------------------------------------------------
\* Kbucket and Record.

Record == [node : Contact, locked : BOOLEAN, n_locks : 0 .. MAX_LOCK_ATTEMPTS]

\* new Record({node_info})
Fresh(c) == [node |-> c, locked |-> FALSE, n_locks |-> 0]

exists(bucket, c) == \E r \in bucket : r.node = c

\* What is left when the Record of c, if any, is deleted.
Without(bucket, c) == {r \in bucket : r.node # c}

\* Mutant of is_full: one more fits.
is_full_OffByOne(bucket) == Cardinality(bucket) > K_SIZE

is_full(bucket) == Cardinality(bucket) >= K_SIZE

\* What a bucket may be after enqueue(new Record({node_info: c})).
enqueue(bucket, c) ==
    IF exists(bucket, c) THEN {bucket}
    ELSE IF Cardinality(bucket) < K_SIZE THEN {bucket \cup {Fresh(c)}}
    ELSE {(bucket \ {evicted}) \cup {Fresh(c)} : evicted \in bucket}

\* Mutant of is_stale: one attempt more.
is_stale_OffByOne(r) == r.n_locks > MAX_LOCK_ATTEMPTS

is_stale(r) == r.n_locks = MAX_LOCK_ATTEMPTS

lock(r) == IF is_stale(r) THEN r ELSE [r EXCEPT !.locked = TRUE, !.n_locks = @ + 1]

\* The locks that end: the last one is for POSITIVE_INFINITY.
Expires(r) == r.locked /\ ~is_stale(r)

-----------------------------------------------------------------------------
\* The tree.

Prefix == {p \in Seq({0, 1}) : Len(p) <= Width}

\* The walk from the root to p turns as the bits of id say.
Follows(p, id) == \A i \in 1 .. Len(p) : p[i] = id[i]

\* The leaf for an ID.
find_kbucket_for_id(id) == CHOOSE p \in DOMAIN buckets : Follows(p, id)

LeafOf(c) == find_kbucket_for_id(IdOf[c])

OurLeaf == LeafOf(Self)

\* The contacts of all buckets.
Records == UNION {buckets[p] : p \in DOMAIN buckets}
Known == {r.node : r \in Records}

\* Mutant of ChildOf: the bit of the parent's level decides.
ChildOf_OffByOne(p, id) == Append(p, id[IF Len(p) = 0 THEN 1 ELSE Len(p)])

\* The child of p that an ID belongs to: get_bit(prefix.length).
ChildOf(p, id) == Append(p, id[Len(p) + 1])

\* Mutant of SplitAt: a child without Records is not made.
SplitAt_Lazy(p) ==
    [q \in (DOMAIN buckets \ {p}) \cup {ChildOf(p, IdOf[r.node]) : r \in buckets[p]} |->
        IF q \in DOMAIN buckets \ {p} THEN buckets[q]
        ELSE {r \in buckets[p] : ChildOf(p, IdOf[r.node]) = q}]

\* The tree after the leaf p became a node with two leaves.
SplitAt(p) ==
    [q \in (DOMAIN buckets \ {p}) \cup {Append(p, 0), Append(p, 1)} |->
        IF q \in DOMAIN buckets \ {p} THEN buckets[q]
        ELSE {r \in buckets[p] : ChildOf(p, IdOf[r.node]) = q}]

-----------------------------------------------------------------------------
\* Closest contacts.

\* get_distance(x, key).less(get_distance(y, key)): the high order bit that x
\* and y differ in decides.
Nearer(x, y, key) ==
    \E i \in 1 .. Width :
        /\ x[i] # y[i] /\ x[i] = key[i]
        /\ \A j \in i + 1 .. Width : x[j] = y[j]

\* The contacts get_nodes_closest_to looks at.
Usable == {r.node : r \in {s \in Records : ~s.locked /\ ~is_stale(s)}}

\* Nobody in S is nearer than c.
IsNearest(c, S, key) == \A d \in S : ~Nearer(IdOf[d], IdOf[c], key)

\* The lists get_nodes_closest_to may return, as sets: the first max usable
\* contacts by distance.  The order of two addresses that share an ID is left
\* open by the sort, and so is which of them is cut off.
get_nodes_closest_to(key, max) ==
    {S \in SUBSET Usable :
        /\ Cardinality(S) <= max
        /\ S # Usable => Cardinality(S) = max
        /\ \A d \in Usable \ S : \A c \in S : ~Nearer(IdOf[d], IdOf[c], key)}

-----------------------------------------------------------------------------
\* The actions.

TableInit ==
    /\ buckets = [p \in {<<>>} |-> {}]
    /\ inserting = None
    /\ heard = {}
    /\ joined = FALSE

\* on_message calls routing_table_insert(body.from).  It runs to its end before
\* anything else does: the other actions wait for inserting = None.
Receive(c) ==
    /\ inserting = None
    /\ inserting' = c
    /\ heard' = heard \cup {c}
    /\ UNCHANGED <<buckets, joined>>

\* Case 1: a known contact gets a fresh Record, which unlocks it.
Refresh(c) ==
    LET p == LeafOf(c)
    IN  /\ inserting = c
        /\ exists(buckets[p], c)
        /\ \E b \in enqueue(Without(buckets[p], c), c) : buckets' = [buckets EXCEPT ![p] = b]
        /\ inserting' = None
        /\ UNCHANGED <<heard, joined>>

\* Case 2: an unknown contact goes to a bucket with room.
InsertNew(c) ==
    LET p == LeafOf(c)
    IN  /\ inserting = c
        /\ ~exists(buckets[p], c)
        /\ ~is_full(buckets[p])
        /\ \E b \in enqueue(buckets[p], c) : buckets' = [buckets EXCEPT ![p] = b]
        /\ inserting' = None
        /\ UNCHANGED <<heard, joined>>

\* Mutant of Splits: no bucket does.
Splits_None(p) == FALSE

\* Case 3 goes by whether the full bucket's range includes our ID.
Splits(p) == p = OurLeaf

\* Case 3A: our own full bucket is split, and routing_table_insert called again.
\* Bound: Len(p) < Width.  With more than K_SIZE contacts of our own ID the code
\* would call itself for ever.
SplitBucket(c) ==
    LET p == LeafOf(c)
    IN  /\ inserting = c
        /\ ~exists(buckets[p], c)
        /\ is_full(buckets[p])
        /\ Splits(p)
        /\ Len(p) < Width
        /\ buckets' = SplitAt(p)
        /\ UNCHANGED <<inserting, heard, joined>>

\* Case 3B: another full bucket stays as it is, and the contact is forgotten.
Forget(c) ==
    LET p == LeafOf(c)
    IN  /\ inserting = c
        /\ ~exists(buckets[p], c)
        /\ is_full(buckets[p])
        /\ ~Splits(p)
        /\ inserting' = None
        /\ UNCHANGED <<buckets, heard, joined>>

\* One activation of routing_table_insert.
routing_table_insert(c) ==
    \/ Refresh(c)
    \/ InsertNew(c)
    \/ SplitBucket(c)
    \/ Forget(c)

\* bootstrap enqueues the contact the pong came from, which on_message inserted
\* before or, its bucket being full, forgot: then a Record is evicted.
BootstrapEnqueue(c) ==
    LET p == LeafOf(c)
    IN  /\ inserting = None
        /\ ~joined
        /\ c \in heard
        /\ joined' = TRUE
        /\ \E b \in enqueue(buckets[p], c) : buckets' = [buckets EXCEPT ![p] = b]
        /\ UNCHANGED <<inserting, heard>>

\* Mutant of Lockable: the node may lock itself.
Lockable_Self(c, r) == r.node = c /\ ~r.locked

\* _contact_lock_timeout's conditions.
Lockable(c, r) == c # Self /\ r.node = c /\ ~r.locked

\* A request to c was not answered: _contact_lock_timeout.
ContactTimeout(c) ==
    /\ inserting = None
    /\ buckets' = [buckets EXCEPT ![LeafOf(c)] =
                      {IF Lockable(c, r) THEN lock(r) ELSE r : r \in @}]
    /\ UNCHANGED <<inserting, heard, joined>>

\* The time of a lock is over.
LockExpires ==
    /\ inserting = None
    /\ \E p \in DOMAIN buckets : \E r \in buckets[p] :
          /\ Expires(r)
          /\ buckets' = [buckets EXCEPT ![p] =
                            (@ \ {r}) \cup {[r EXCEPT !.locked = FALSE]}]
    /\ UNCHANGED <<inserting, heard, joined>>

TableNext ==
    \/ \E c \in Contact : Receive(c)
    \/ \E c \in Contact : routing_table_insert(c)
    \/ \E c \in Contact : BootstrapEnqueue(c)
    \/ \E c \in Contact : ContactTimeout(c)
    \/ LockExpires

TableSpec == TableInit /\ [][TableNext]_tableVars

-----------------------------------------------------------------------------
\* Safety.

\* The state variables hold what their comments say.
TableTypeOK ==
    /\ DOMAIN buckets \subseteq Prefix
    /\ buckets \in [DOMAIN buckets -> SUBSET Record]
    /\ inserting \in Contact \cup {None}
    /\ heard \subseteq Contact
    /\ joined \in BOOLEAN

\* The leaves cover the ID space and do not overlap: every walk down the tree,
\* for a contact's ID or a key, ends in one leaf (dht.js:250-260).
OneLeaf ==
    \A id \in Id : \E p \in DOMAIN buckets :
        /\ Follows(p, id)
        /\ \A q \in DOMAIN buckets : Follows(q, id) => q = p

\* A contact is in the bucket that a walk for its ID ends in, even after that
\* bucket was split several times: exists and delete find its Record.
Placed ==
    \A p \in DOMAIN buckets : \A r \in buckets[p] : Follows(p, IdOf[r.node])

\* No contact has two Records, in one bucket or in two: "all the kbucket
\* records in a kbucket must describe unique contacts" (kbucket.js:64).
OneRecord == \A r, s \in Records : r.node = s.node => r = s

\* A bucket holds at most K_SIZE Records.
AtMostK == \A p \in DOMAIN buckets : Cardinality(buckets[p]) <= K_SIZE

\* The tree is split along the path of our own ID only: the rest of the ID
\* space keeps one bucket for each level.
OwnPath ==
    \A p \in DOMAIN buckets :
        Len(p) > 0 => \A i \in 1 .. Len(p) - 1 : p[i] = IdOf[Self][i]

\* A node that we heard of and do not know was refused by, or evicted from, a
\* bucket that is full and not ours: our own neighbourhood is known completely,
\* however its bucket was split since.
NeighboursKept ==
    \A c \in heard \ {inserting} :
        c \in Known \/ (is_full(buckets[LeafOf(c)]) /\ LeafOf(c) # OurLeaf)

\* The node is never locked in its own table, so that get_nodes_closest_to has
\* something to return once it is there (dht.js:573-576).
SelfUsable == \A r \in Records : r.node = Self => ~r.locked

\* A Record is locked for ever after its last attempt: the filters is_locked and
\* is_stale agree (dht.js:764).
StaleIsLocked == \A r \in Records : is_stale(r) => r.locked

\* Contacts do not get lost: a step that drops one is the eviction of bootstrap.
ContactsKept == [][Known \subseteq Known' \/ (~joined /\ joined')]_tableVars
=============================================================================
