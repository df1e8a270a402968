----------------------------- MODULE NodeLookup -----------------------------
(***************************************************************************)
(* One Kademlia lookup (dht/dht.js: node_lookup, _do_node_lookup): rounds  *)
(* of parallel requests to the nearest contacts that were not asked yet,   *)
(* until enough of them answered or none is left.                          *)
(*                                                                         *)
(* The two search trees of contacts are the sets they hold, in the order   *)
(* Before.  The peers are the environment: a request is answered, with any *)
(* of the lists the peer may send, or times out (protocol/io.js).          *)
(***************************************************************************)
EXTENDS RoutingTable

CONSTANTS
    Target,     \* the key, a place in the ID space
    Net,        \* the order of addresses, for contacts of one ID
    From,       \* body.from of the answer from a contact: what the node that
                \* runs at this address takes for its own node_info
    Lists,      \* the NODE_LISTs a contact may answer with
    Holders,    \* contacts that answer FIND_VALUE with the value
    ALPHA

Undefined == "undefined"

ASSUME LookupAssumption ==
    /\ Target \in Id
    /\ Net \in [Contact -> Nat]
    /\ \A c, d \in Contact : IdOf[c] = IdOf[d] /\ Net[c] = Net[d] => c = d
    /\ From \in [Contact -> Contact]
    /\ \A c \in Contact : IdOf[From[c]] = IdOf[c] /\ From[From[c]] = From[c]
    /\ From[Self] = Self
    /\ Lists \in [Contact -> SUBSET SUBSET Contact]
    /\ Holders \subseteq Contact
    /\ ALPHA \in Nat \ {0}
    /\ Undefined \notin Contact \cup {None}

VARIABLES
    phase,          \* "idle", "looking", "nodes", "value" or "thrown"
    rpc,            \* FIND_NODE or FIND_VALUE
    active,         \* contacts that answered, as they call themselves
    inactive,       \* contacts to ask, and those asked in this round
    awaiting,       \* the requests of this round that are not settled
    values,         \* contacts that sent the value in this round, each with
                    \* the nearest active contact at that moment
    last_closest,   \* the nearest active contact when the last round of ALPHA
                    \* started
    cached,         \* the contact the value is stored at on the way, or None
    mentioned,      \* history: contacts that were seeds or in an answer
    answered,       \* history: contacts that answered
    silent          \* history: contacts with a request that timed out

lookupVars == <<phase, rpc, active, inactive, awaiting, values, last_closest,
                cached, mentioned, answered, silent>>
vars == <<tableVars, lookupVars>>

-----------------------------------------------------------------------------
\* _insert_by_xor_lex
Before(c, d) ==
    \/ Nearer(IdOf[c], IdOf[d], Target)
    \/ IdOf[c] = IdOf[d] /\ Net[c] < Net[d]

\* bst_min
Nearest(S) ==
    IF S = {} THEN None ELSE CHOOSE c \in S : \A d \in S \ {c} : Before(c, d)

\* The first n in order.
First(S, n) == {c \in S : Cardinality({d \in S : Before(d, c)}) < n}

Init ==
    /\ TableInit
    /\ phase = "idle"
    /\ rpc = "FIND_NODE"
    /\ active = {} /\ inactive = {} /\ awaiting = {}
    /\ values = [c \in {} |-> None]
    /\ last_closest = Undefined
    /\ cached = None
    /\ mentioned = {} /\ answered = {} /\ silent = {}

\* node_lookup starts with what the table has.
node_lookup(r) ==
    /\ phase = "idle"
    /\ inserting = None
    /\ phase' = "looking"
    /\ rpc' = r
    /\ inactive' \in get_nodes_closest_to(Target, ALPHA)
    /\ mentioned' = inactive'
    /\ UNCHANGED <<tableVars, active, awaiting, values, last_closest, cached,
                   answered, silent>>

\* Between two rounds: every request of the last one is settled.
Between == phase = "looking" /\ awaiting = {} /\ inserting = None

\* active.size() < K_SIZE && !val
Searching == Cardinality(active) < K_SIZE /\ DOMAIN values = {}

\* Mutant of Progress: every round counts as progress.
Progress_Always == TRUE

\* A nearer contact answered, or none was asked yet.
Progress == Nearest(active) # last_closest

\* Mutant of Exhausted: contacts that were not asked do not matter.
Exhausted_Anyway == ~Progress

Exhausted == ~Progress /\ inactive = {}

\* A round with the ALPHA nearest contacts.
RoundOfAlpha ==
    /\ Between /\ Searching /\ Progress
    /\ last_closest' = Nearest(active)
    /\ awaiting' = First(inactive, ALPHA)
    /\ UNCHANGED <<tableVars, phase, rpc, active, inactive, values, cached,
                   mentioned, answered, silent>>

\* The last answers brought nothing nearer: all the others are asked.
RoundOfAll ==
    /\ Between /\ Searching /\ ~Progress /\ inactive # {}
    /\ awaiting' = inactive
    /\ UNCHANGED <<tableVars, phase, rpc, active, inactive, values, last_closest, cached,
                   mentioned, answered, silent>>

\* Mutant of Unasked: contacts that answered are asked again.
Unasked_All(list, a) == list

\* The contacts of an answer that are not active.
Unasked(list, a) == list \ a

\* The answer of a contact is a list of contacts.  The node that answered goes
\* to the routing table after the lookup's own work.
OnNodes(c, list) ==
    /\ c \in awaiting
    /\ rpc = "FIND_VALUE" => c \notin Holders
    /\ Receive(From[c])
    /\ active' = active \cup {From[c]}
    /\ inactive' = (inactive \ {c}) \cup Unasked(list, active')
    /\ awaiting' = awaiting \ {c}
    /\ mentioned' = mentioned \cup list
    /\ answered' = answered \cup {c}
    /\ UNCHANGED <<phase, rpc, values, last_closest, cached, silent>>

\* Mutant of NearestSoFar: the contact counts as active before its answer is read.
NearestSoFar_WithIt(c) == Nearest(active \cup {From[c]})

\* active.bst_min() when the value of c arrives.
NearestSoFar(c) == Nearest(active)

\* The answer is the value.
OnValue(c) ==
    /\ c \in awaiting
    /\ rpc = "FIND_VALUE" /\ c \in Holders
    /\ Receive(From[c])
    /\ values' = [d \in DOMAIN values \cup {c} |->
                     IF d = c THEN NearestSoFar(c) ELSE values[d]]
    /\ awaiting' = awaiting \ {c}
    /\ answered' = answered \cup {c}
    /\ UNCHANGED <<phase, rpc, active, inactive, last_closest, cached,
                   mentioned, silent>>

\* No answer: the contact is locked in the table.
OnTimeout(c) ==
    /\ c \in awaiting
    /\ ContactTimeout(c)
    /\ inactive' = inactive \ {c}
    /\ awaiting' = awaiting \ {c}
    /\ silent' = silent \cup {c}
    /\ UNCHANGED <<phase, rpc, active, values, last_closest, cached,
                   mentioned, answered>>

\* Of several values the nearest contact's counts; it is stored, on the way, at
\* the nearest contact that was active when this value came.
ReturnValue ==
    /\ Between /\ DOMAIN values # {}
    /\ phase' = "value"
    /\ cached' = values[Nearest(DOMAIN values)]
    /\ UNCHANGED <<tableVars, rpc, active, inactive, awaiting, values, last_closest,
                   mentioned, answered, silent>>

\* All active contacts are returned, K_SIZE or more of them as it happens.
ReturnNodes ==
    /\ Between /\ DOMAIN values = {}
    /\ ~Searching \/ Exhausted
    /\ active # {}
    /\ phase' = "nodes"
    /\ UNCHANGED <<tableVars, rpc, active, inactive, awaiting, values, last_closest, cached,
                   mentioned, answered, silent>>

\* Nobody answered: dfs_in throws on the empty tree.
Throw ==
    /\ Between /\ Searching /\ Exhausted
    /\ active = {}
    /\ phase' = "thrown"
    /\ UNCHANGED <<tableVars, rpc, active, inactive, awaiting, values, last_closest, cached,
                   mentioned, answered, silent>>

Round == RoundOfAlpha \/ RoundOfAll \/ ReturnValue \/ ReturnNodes \/ Throw

Settle(c) ==
    \/ \E list \in Lists[c] : OnNodes(c, list)
    \/ OnValue(c)
    \/ OnTimeout(c)

\* What happens to the table besides.  Bound: not while a lookup runs.
Otherwise(Step) == phase # "looking" /\ Step /\ UNCHANGED lookupVars

Insert == (\E c \in Contact : routing_table_insert(c)) /\ UNCHANGED lookupVars

Next ==
    \/ \E r \in {"FIND_NODE", "FIND_VALUE"} : node_lookup(r)
    \/ RoundOfAlpha
    \/ RoundOfAll
    \/ ReturnValue
    \/ ReturnNodes
    \/ Throw
    \/ \E c \in Contact : \E list \in Lists[c] : OnNodes(c, list)
    \/ \E c \in Contact : OnValue(c)
    \/ \E c \in Contact : OnTimeout(c)
    \/ Insert
    \/ \E c \in Contact : Otherwise(Receive(c))
    \/ \E c \in Contact : Otherwise(BootstrapEnqueue(c))
    \/ \E c \in Contact : Otherwise(ContactTimeout(c))
    \/ Otherwise(LockExpires)

Spec == Init /\ [][Next]_vars

\* The node runs, and each request is settled by its timer if nothing else.
Fairness ==
    /\ WF_vars(Insert)
    /\ WF_vars(Round)
    /\ \A c \in Contact : WF_vars(Settle(c))

FairSpec == Spec /\ Fairness

-----------------------------------------------------------------------------
Done == phase \in {"nodes", "value", "thrown"}

\* The state variables hold what their comments say.
TypeOK ==
    /\ TableTypeOK
    /\ phase \in {"idle", "looking", "nodes", "value", "thrown"}
    /\ rpc \in {"FIND_NODE", "FIND_VALUE"}
    /\ active \subseteq Contact
    /\ inactive \subseteq Contact
    /\ awaiting \subseteq inactive
    /\ values \in [DOMAIN values -> Contact \cup {None}]
    /\ DOMAIN values \subseteq Contact
    /\ last_closest \in Contact \cup {None, Undefined}
    /\ cached \in Contact \cup {None}

\* A lookup gives up, with an exception or fewer than K_SIZE contacts, only when
\* every contact it heard of was asked and either answered or did not: a nearer
\* contact is not overlooked because its name came late or from far away.
Exhaustive ==
    phase = "thrown" \/ (phase = "nodes" /\ Cardinality(active) < K_SIZE) =>
        \A c \in mentioned : c \in answered \cup silent \cup active

\* Nobody is asked again after an answer in its own name, whoever lists it.
AskedOnce ==
    \A c \in awaiting : c \in answered => From[c] # c

\* The value is not cached at a contact that has it: what receives it answered
\* this lookup without the value (dht.js:551-554).
CachedAway == cached # None => cached \in {From[c] : c \in answered \ Holders}

\* A node that was asked at an address it no longer has lists such an address.
ListsOldAddress ==
    \E c \in Contact : \E list \in Lists[c] :
        /\ From[c] # c
        /\ \E d \in list : From[d] # d
        /\ OnNodes(c, list)

\* Every lookup ends, whoever is silent and whatever the lists say, unless old
\* addresses go on listing old addresses: these are never active, so they are
\* asked again each time (dht.js:465).
LookupEnds ==
    <>[][~ListsOldAddress]_vars => (phase = "looking" ~> Done)
=============================================================================
