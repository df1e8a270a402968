------------------------------ MODULE DhtNode ------------------------------
(***************************************************************************)
(* One Kademlia node (dht/dht.js, dht/store.js): its routing table, its    *)
(* store and the replication of the store to new contacts.  The requests   *)
(* of other nodes, the answers to its own and the writes of the state      *)
(* machine come from the environment.                                      *)
(*                                                                         *)
(* A macrotask (a message, a timer) runs to its end, with the promises it  *)
(* settles, before the next one starts: Idle says when that may be.        *)
(***************************************************************************)
EXTENDS RoutingTable

CONSTANTS
    Key,            \* keys of the store
    KeyId,          \* a key's place in the ID space
    Val             \* values

ASSUME NodeAssumption ==
    /\ KeyId \in [Key -> Id]
    /\ None \notin Key \cup Val \cup [todo : SUBSET Key, awaits : Key \cup {None}]

VARIABLES
    data,       \* the Store: a record of each key, or None
    serving,    \* the request to answer when its sender is inserted, or None
    loop,       \* the running _replicate of each contact, or None
    owed        \* history: keys a contact was not sent yet, held without a
                \* change since _replicate was called

storeVars == <<data, serving, loop, owed>>
vars == <<tableVars, storeVars>>

-----------------------------------------------------------------------------
\* What cnodes may be: the contacts of the list, and cnodes[0].
Closest(key) ==
    {l \in [contacts : get_nodes_closest_to(key, K_SIZE), first : Usable] :
        l.first \in l.contacts /\ IsNearest(l.first, l.contacts, key)}

\* Mutant of Replicates: only what is nearest to this node itself.
Replicates_Own(c, l, key) ==
    c \in l.contacts /\ ~Nearer(IdOf[l.first], IdOf[Self], key)

\* is_node_k_closest && (is_self_closer || is_node_closer)
Replicates(c, l, key) ==
    /\ c \in l.contacts
    /\ ~Nearer(IdOf[l.first], IdOf[Self], key) \/ l.first = c

\* Whether _replicate may send a key to c, and whether it may pass it over.
Sends(c, k) == \E l \in Closest(KeyId[k]) : Replicates(c, l, KeyId[k])
Passes(c, k) == \E l \in Closest(KeyId[k]) : ~Replicates(c, l, KeyId[k])

-----------------------------------------------------------------------------
\* The store.

Held == {k \in Key : data[k] # None}

Rec(v) == [val |-> v, expired |-> FALSE]

\* Store.get, which deletes an expired record.
get(k) == IF k \in Held /\ ~data[k].expired THEN data[k].val ELSE None
DataAfterGet(k) == IF get(k) = None THEN [data EXCEPT ![k] = None] ELSE data

\* Kademlia.write: null deletes.
Written(k, v) == [data EXCEPT ![k] = IF v = None THEN None ELSE Rec(v)]

-----------------------------------------------------------------------------
\* The tasks.

\* A loop goes on in the task that settled what it waited for.
Ready == {c \in Contact : loop[c] # None /\ loop[c].awaits = None}

Idle == inserting = None /\ serving = None /\ Ready = {}

Init ==
    /\ TableInit
    /\ data = [k \in Key |-> None]
    /\ serving = None
    /\ loop = [c \in Contact |-> None]
    /\ owed = [c \in Contact |-> {}]

\* The requests that touch the store.
Request == [type : {"FIND_VALUE"}, key : Key]
           \cup [type : {"STORE"}, key : Key, val : Val \cup {None}]

\* on_message with a request: routing_table_insert comes before _on_req.
OnRequest(c, m) ==
    /\ Idle
    /\ Receive(c)
    /\ serving' = m
    /\ UNCHANGED <<data, loop, owed>>

\* on_message with the answer to a STORE of _replicate: the success callback
\* comes before routing_table_insert, the rest of the loop after it.
OnStored(c) ==
    /\ Idle
    /\ loop[c] # None
    /\ Receive(c)
    /\ loop' = [loop EXCEPT ![c].awaits = None]
    /\ UNCHANGED <<data, serving, owed>>

\* on_message with PING, FIND_NODE or any other answer.
OnOther(c) ==
    /\ Idle
    /\ Receive(c)
    /\ UNCHANGED storeVars

\* this.data.keys() has the expired keys too.
Snapshot == Held

\* An activation of routing_table_insert; case 2 calls _replicate.
Insert ==
    \E c \in Contact :
        /\ routing_table_insert(c)
        /\ IF InsertNew(c)
           THEN /\ loop' = [loop EXCEPT ![c] = [todo |-> Snapshot, awaits |-> None]]
                /\ owed' = [owed EXCEPT ![c] = {k \in Held : ~data[k].expired}]
           ELSE UNCHANGED <<loop, owed>>
        /\ UNCHANGED <<data, serving>>

\* _replicate up to its next STORE: keys that the contact should not have are
\* passed over.  The STORE carries what the store has at that moment, null for
\* a record that expired or was deleted meanwhile.
ReplicateNext(c) ==
    /\ inserting = None
    /\ c \in Ready
    /\ \E k \in loop[c].todo :
          /\ Sends(c, k)
          /\ \E passed \in SUBSET {j \in loop[c].todo : Passes(c, j)} :
                loop' = [loop EXCEPT ![c] = [todo |-> (@.todo \ {k}) \ passed,
                                             awaits |-> k]]
          /\ data' = DataAfterGet(k)
          /\ owed' = [owed EXCEPT ![c] = @ \ {k}]
    /\ UNCHANGED <<tableVars, serving>>

\* No key is left for the contact.
ReplicateEnd(c) ==
    /\ inserting = None
    /\ c \in Ready
    /\ \A k \in loop[c].todo : Passes(c, k)
    /\ loop' = [loop EXCEPT ![c] = None]
    /\ UNCHANGED <<tableVars, data, serving, owed>>

\* Every contact is locked: cnodes[0].node_id is a TypeError.
ReplicateThrow(c) ==
    /\ inserting = None
    /\ c \in Ready
    /\ Usable = {} /\ loop[c].todo # {}
    /\ loop' = [loop EXCEPT ![c] = None]
    /\ owed' = [owed EXCEPT ![c] = {}]
    /\ UNCHANGED <<tableVars, data, serving>>

\* A key that was deleted or rewritten is not owed to anyone in its old form.
StillOwed(k) == [c \in Contact |-> owed[c] \ {k}]

\* _on_req: FIND_VALUE reads the store and STORE writes it.
Serve ==
    /\ inserting = None
    /\ Ready = {}
    /\ serving # None
    /\ serving' = None
    /\ \/ /\ serving.type = "FIND_VALUE"
          /\ data' = DataAfterGet(serving.key)
          /\ UNCHANGED owed
       \/ /\ serving.type = "STORE"
          /\ data' = Written(serving.key, serving.val)
          /\ owed' = StillOwed(serving.key)
    /\ UNCHANGED <<tableVars, loop>>

\* The state machine writes (Psm.exec calls write_f), null for a merge.
LocalWrite(k, v) ==
    /\ Idle
    /\ data' = Written(k, v)
    /\ owed' = StillOwed(k)
    /\ UNCHANGED <<tableVars, serving, loop>>

\* The state machine reads.
LocalRead(k) ==
    /\ Idle
    /\ data' = DataAfterGet(k)
    /\ UNCHANGED <<tableVars, serving, loop, owed>>

\* The time to live of a record is over.
Expire(k) ==
    /\ Idle
    /\ get(k) # None
    /\ data' = [data EXCEPT ![k].expired = TRUE]
    /\ owed' = StillOwed(k)
    /\ UNCHANGED <<tableVars, serving, loop>>

\* A request was not answered: the contact is locked.
OnTimeout(c) ==
    /\ Idle
    /\ ContactTimeout(c)
    /\ owed' = [owed EXCEPT ![c] = {}]
    /\ UNCHANGED <<data, serving, loop>>

\* The same of a STORE of _replicate: the loop goes on with its next key.
OnStoreTimeout(c) ==
    /\ Idle
    /\ loop[c] # None
    /\ ContactTimeout(c)
    /\ loop' = [loop EXCEPT ![c].awaits = None]
    /\ owed' = [owed EXCEPT ![c] = {}]
    /\ UNCHANGED <<data, serving>>

\* The table's own steps.
Bootstrap(c) == Idle /\ BootstrapEnqueue(c) /\ UNCHANGED storeVars
Unlock == Idle /\ LockExpires /\ UNCHANGED storeVars

Next ==
    \/ \E c \in Contact, m \in Request : OnRequest(c, m)
    \/ \E c \in Contact : OnStored(c)
    \/ \E c \in Contact : OnOther(c)
    \/ \E c \in Contact : OnTimeout(c)
    \/ \E c \in Contact : OnStoreTimeout(c)
    \/ \E c \in Contact : Bootstrap(c)
    \/ Insert
    \/ \E c \in Contact : ReplicateNext(c)
    \/ \E c \in Contact : ReplicateEnd(c)
    \/ \E c \in Contact : ReplicateThrow(c)
    \/ Serve
    \/ \E k \in Key, v \in Val \cup {None} : LocalWrite(k, v)
    \/ \E k \in Key : LocalRead(k)
    \/ \E k \in Key : Expire(k)
    \/ Unlock

Spec == Init /\ [][Next]_vars

-----------------------------------------------------------------------------
\* The state variables hold what their comments say.
TypeOK ==
    /\ TableTypeOK
    /\ data \in [Key -> [val : Val, expired : BOOLEAN] \cup {None}]
    /\ serving \in Request \cup {None}
    /\ \A c \in Contact : loop[c] # None =>
           loop[c] \in [todo : SUBSET Key, awaits : Key \cup {None}]
    /\ owed \in [Contact -> SUBSET Key]

\* Whatever else the table holds, a key belongs to c: fewer than K_SIZE others
\* are as near to it as c, and either c alone is the nearest or nobody is nearer
\* than this node.
Due(c, k) ==
    LET rivals == {d \in Contact \ {c} : ~Nearer(IdOf[c], IdOf[d], KeyId[k])}
    IN  /\ Cardinality(rivals) < K_SIZE
        /\ rivals = {} \/ IsNearest(Self, Contact, KeyId[k])

\* A new contact that answers gets every key that belongs to it: "if the new
\* node is one of the K closest nodes to the key AND we are closer ... replicate
\* it to the new node" (dht.js:263-266).  The contacts that are locked, learnt
\* and split meanwhile, and the order of the keys, make no difference.
ReplicationComplete ==
    \A c \in Known : loop[c] = None => \A k \in owed[c] : ~Due(c, k)

\* _replicate finds no closest contact only in a node that is not in its own
\* table, as the comment at dht.js:573-576 hopes.
ThrowsWithoutSelf ==
    [][\A c \in Contact : ReplicateThrow(c) => Self \notin Known]_vars
=============================================================================
