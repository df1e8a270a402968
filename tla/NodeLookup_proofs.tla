-------------------------- MODULE NodeLookup_proofs --------------------------
(***************************************************************************)
(* Theorems about NodeLookup, for every set of contacts, whatever they     *)
(* answer.  The lookup's part of the invariant is LookupInv: where a       *)
(* contact can be at each stage (Stages, Accounted) and where a value may  *)
(* be cached (CachePlaces).  Its table is RoutingTable's.                  *)
(***************************************************************************)
EXTENDS NodeLookup, RoutingTable_proofs

\* Before is a strict order of the contacts,
LEMMA BeforeOrder ==
    /\ \A c \in Contact : ~Before(c, c)
    /\ \A c, d, e \in Contact : Before(c, d) /\ Before(d, e) => Before(c, e)
<1>1. Target \in Id /\ \A c \in Contact : IdOf[c] \in Id /\ Net[c] \in Nat
  BY TableAssumption, LookupAssumption
<1>2. \A c \in Contact : ~Before(c, c)
  BY <1>1, NearerOrder DEF Before
<1>3. ASSUME NEW c \in Contact, NEW d \in Contact, NEW e \in Contact,
             Before(c, d), Before(d, e)
      PROVE  Before(c, e)
  BY <1>1, <1>3, NearerOrder DEF Before
<1> QED
  BY <1>2, <1>3

\* and a total one.
LEMMA BeforeTotal ==
    ASSUME NEW c \in Contact, NEW d \in Contact, c # d
    PROVE  Before(c, d) \/ Before(d, c)
<1>1. /\ Target \in Id /\ IdOf[c] \in Id /\ IdOf[d] \in Id
      /\ Net[c] \in Nat /\ Net[d] \in Nat
      /\ IdOf[c] = IdOf[d] => Net[c] # Net[d]
  BY TableAssumption, LookupAssumption
<1>2. CASE IdOf[c] = IdOf[d]
  BY <1>1, <1>2 DEF Before
<1>3. CASE IdOf[c] # IdOf[d]
  BY <1>1, <1>3, NearerTotal DEF Before
<1> QED
  BY <1>2, <1>3

\* bst_min finds something in a tree that has something.
LEMMA NearestIn ==
    ASSUME NEW S \in SUBSET Contact
    PROVE  /\ S # {} => Nearest(S) \in S
           /\ S = {} => Nearest(S) = None
<1>1. CASE S # {}
  <2> DEFINE R == {e \in Contact \X Contact : Before(e[1], e[2])}
  <2>1. \A c, d \in Contact : <<c, d>> \in R <=> Before(c, d)
    OBVIOUS
  <2>2. \A x \in S : <<x, x>> \notin R
    BY <2>1, BeforeOrder
  <2>3. \A x, y, z \in S : <<x, y>> \in R /\ <<y, z>> \in R => <<x, z>> \in R
    BY <2>1, BeforeOrder
  <2>4. IsFiniteSet(S)
    BY FS_Subset, TableAssumption
  <2> HIDE DEF R
  <2>5. PICK c \in S : \A d \in S : <<d, c>> \notin R
    BY <1>1, <2>2, <2>3, <2>4, FiniteLeast
  <2>6. \A d \in S \ {c} : Before(c, d)
    BY <2>1, <2>5, BeforeTotal
  <2> QED
    BY <1>1, <2>6 DEF Nearest
<1>2. CASE S = {}
  BY <1>2 DEF Nearest
<1> QED
  BY <1>1, <1>2

\* What the contacts that answered without the value call themselves.
Emptyhanded == {From[c] : c \in answered \ Holders}

\* TypeOK without the table, and that a contact that is asked is inactive.
LookupTypeOK ==
    /\ phase \in {"idle", "looking", "nodes", "value", "thrown"}
    /\ rpc \in {"FIND_NODE", "FIND_VALUE"}
    /\ active \subseteq Contact
    /\ inactive \subseteq Contact
    /\ awaiting \subseteq inactive
    /\ values \in [DOMAIN values -> Contact \cup {None}]
    /\ DOMAIN values \subseteq Contact
    /\ last_closest \in Contact \cup {None, Undefined}
    /\ cached \in Contact \cup {None}
    /\ answered \subseteq Contact

\* What has happened at each stage of a lookup.
Stages ==
    /\ awaiting # {} => phase = "looking"
    /\ phase = "idle" =>
          answered = {} /\ active = {} /\ DOMAIN values = {} /\ cached = None
    /\ phase = "thrown" \/ (phase = "nodes" /\ Cardinality(active) < K_SIZE) =>
          inactive = {}

\* Where the contacts are that were mentioned, and those that answered.
Accounted ==
    /\ mentioned \subseteq inactive \cup answered \cup silent \cup active
    /\ \A c \in answered : From[c] = c => c \in active \cup DOMAIN values
    /\ \A c \in inactive : c \in answered /\ From[c] = c => c \in DOMAIN values
    /\ AskedOnce

\* Where the value may be cached.
CachePlaces ==
    /\ DOMAIN values # {} => rpc = "FIND_VALUE"
    /\ rpc = "FIND_VALUE" => active \subseteq Emptyhanded
    /\ \A c \in DOMAIN values : values[c] \in Emptyhanded \cup {None}
    /\ cached \in Emptyhanded \cup {None}

\* The inductive invariant, next to TableInv.
LookupInv == LookupTypeOK /\ Stages /\ Accounted /\ CachePlaces

\* It holds in Node's constructor.
LEMMA LookupInit == Init => LookupInv
BY DEF Init, LookupInv, LookupTypeOK, Stages, Accounted, AskedOnce, CachePlaces

\* A lookup starts with contacts of the table and forgets the last one.
LEMMA StartStep ==
    ASSUME TableTypeOK, LookupInv, NEW r \in {"FIND_NODE", "FIND_VALUE"}, node_lookup(r)
    PROVE  LookupInv'
<1> USE DEF LookupInv, node_lookup
<1>1. inactive' \subseteq Contact
  BY DEF get_nodes_closest_to, Usable, Records, Record, TableTypeOK
<1>2. LookupTypeOK'
  BY <1>1 DEF LookupTypeOK, Stages
<1>3. Stages'
  BY DEF Stages
<1>4. Accounted'
  BY DEF Accounted, Stages, AskedOnce
<1>5. CachePlaces'
  BY DEF CachePlaces, Stages, Emptyhanded
<1> QED
  BY <1>2, <1>3, <1>4, <1>5

\* A round asks contacts that are inactive.
LEMMA RoundOfAlphaStep ==
    ASSUME LookupInv, RoundOfAlpha
    PROVE  LookupInv'
<1> USE DEF LookupInv, RoundOfAlpha
<1>1. Nearest(active) \in Contact \cup {None}
  BY NearestIn DEF LookupTypeOK
<1>2. awaiting' \subseteq inactive /\ DOMAIN values = {}
  BY DEF First, Searching
<1>3. LookupTypeOK'
  BY <1>1, <1>2 DEF LookupTypeOK
<1>4. Stages'
  BY DEF Stages, Between
<1>5. Accounted'
  BY <1>2 DEF Accounted, AskedOnce
<1>6. CachePlaces'
  BY DEF CachePlaces, Emptyhanded
<1> QED
  BY <1>3, <1>4, <1>5, <1>6

\* So does the last round.
LEMMA RoundOfAllStep ==
    ASSUME LookupInv, RoundOfAll
    PROVE  LookupInv'
<1> USE DEF LookupInv, RoundOfAll
<1>1. DOMAIN values = {}
  BY DEF Searching
<1>2. LookupTypeOK'
  BY DEF LookupTypeOK
<1>3. Stages'
  BY DEF Stages, Between
<1>4. Accounted'
  BY <1>1 DEF Accounted, AskedOnce
<1>5. CachePlaces'
  BY DEF CachePlaces, Emptyhanded
<1> QED
  BY <1>2, <1>3, <1>4, <1>5

\* An answer with nodes moves the contact to where it says it is, and adds its
\* list to the inactive ones.
LEMMA NodesStep ==
    ASSUME LookupInv, NEW c \in Contact, NEW list \in Lists[c], OnNodes(c, list)
    PROVE  LookupInv'
<1> USE DEF LookupInv, OnNodes
<1>1. list \subseteq Contact /\ From[c] \in Contact /\ c \in inactive
  BY LookupAssumption DEF LookupTypeOK
<1>2. LookupTypeOK'
  BY <1>1 DEF LookupTypeOK, Unasked
<1>3. phase = "looking"
  BY DEF Stages
<1>4. Stages'
  BY <1>3 DEF Stages
<1>5. Accounted'
  BY DEF Accounted, AskedOnce, Unasked
<1>6. CachePlaces'
  BY DEF CachePlaces, Emptyhanded
<1> QED
  BY <1>2, <1>4, <1>5, <1>6

\* A value is stored at a contact that answered without one.
LEMMA ValueStep ==
    ASSUME LookupInv, NEW c \in Contact, OnValue(c)
    PROVE  LookupInv'
<1> USE DEF LookupInv, OnValue
<1>1. NearestSoFar(c) \in active \cup {None} /\ c \in inactive
  BY NearestIn DEF LookupTypeOK, NearestSoFar
<1>2. LookupTypeOK'
  BY <1>1 DEF LookupTypeOK
<1>3. phase = "looking"
  BY DEF Stages
<1>4. Stages'
  BY <1>3 DEF Stages
<1>5. Accounted'
  BY DEF Accounted, AskedOnce
<1>6. CachePlaces'
  <2>1. Emptyhanded' = Emptyhanded
    BY DEF Emptyhanded
  <2> QED
    BY <1>1, <2>1 DEF CachePlaces
<1> QED
  BY <1>2, <1>4, <1>5, <1>6

\* A timeout takes the contact out of the inactive ones.
LEMMA SilentStep ==
    ASSUME LookupInv, NEW c \in Contact, OnTimeout(c)
    PROVE  LookupInv'
<1> USE DEF LookupInv, OnTimeout
<1>1. LookupTypeOK'
  BY DEF LookupTypeOK
<1>2. phase = "looking"
  BY DEF Stages
<1>3. Stages'
  BY <1>2 DEF Stages
<1>4. Accounted'
  BY DEF Accounted, AskedOnce
<1>5. CachePlaces'
  BY DEF CachePlaces, Emptyhanded
<1> QED
  BY <1>1, <1>3, <1>4, <1>5

\* The ends of a lookup change its phase alone.
LEMMA EndStep ==
    ASSUME LookupInv, ReturnValue \/ ReturnNodes \/ Throw
    PROVE  LookupInv'
<1> USE DEF LookupInv
<1>1. CASE ReturnValue
  <2> USE DEF ReturnValue
  <2>1. Nearest(DOMAIN values) \in DOMAIN values
    BY <1>1, NearestIn DEF LookupTypeOK
  <2>2. cached' \in Emptyhanded \cup {None}
    BY <1>1, <2>1 DEF CachePlaces
  <2>3. LookupTypeOK'
    BY <1>1, <2>1 DEF LookupTypeOK
  <2>4. Stages'
    BY <1>1 DEF Stages, Between
  <2>5. Accounted' 
    BY <1>1 DEF Accounted, AskedOnce
  <2>6. CachePlaces'
    BY <1>1, <2>2 DEF CachePlaces, Emptyhanded
  <2> QED
    BY <2>3, <2>4, <2>5, <2>6
<1>2. CASE ReturnNodes
  <2> USE DEF ReturnNodes
  <2>1. LookupTypeOK'
    BY <1>2 DEF LookupTypeOK
  <2>2. Stages'
    BY <1>2 DEF Stages, Between, Searching, Exhausted
  <2>3. Accounted' 
    BY <1>2 DEF Accounted, AskedOnce
  <2>4. CachePlaces'
    BY <1>2 DEF CachePlaces, Emptyhanded
  <2> QED
    BY <2>1, <2>2, <2>3, <2>4
<1>3. CASE Throw
  <2> USE DEF Throw
  <2>1. LookupTypeOK'
    BY <1>3 DEF LookupTypeOK
  <2>2. Stages'
    BY <1>3 DEF Stages, Between, Exhausted
  <2>3. Accounted' 
    BY <1>3 DEF Accounted, AskedOnce
  <2>4. CachePlaces'
    BY <1>3 DEF CachePlaces, Emptyhanded
  <2> QED
    BY <2>1, <2>2, <2>3, <2>4
<1> QED
  BY <1>1, <1>2, <1>3

\* Messages that are not the lookup's leave it alone.
LEMMA OtherStep ==
    ASSUME LookupInv, UNCHANGED lookupVars
    PROVE  LookupInv'
BY DEF lookupVars, LookupInv, LookupTypeOK, Stages, Accounted, AskedOnce, CachePlaces,
   Emptyhanded

\* The invariant is inductive.
LEMMA LookupStep == TableTypeOK /\ LookupInv /\ [Next]_vars => LookupInv'
<1> SUFFICES ASSUME TableTypeOK, LookupInv, [Next]_vars PROVE LookupInv'
  OBVIOUS
<1>1. CASE Next
  BY <1>1, StartStep, RoundOfAlphaStep, RoundOfAllStep, NodesStep, ValueStep, SilentStep,
     EndStep, OtherStep DEF Next, Insert, Otherwise
<1>2. CASE UNCHANGED vars
  BY <1>2, OtherStep DEF vars
<1> QED
  BY <1>1, <1>2

\* A node that looks up keeps its table as RoutingTable says: the theorems of
\* RoutingTable_proofs hold of it.
THEOREM ImplementsTable == Spec => TableSpec
<1>1. Init => TableInit
  BY DEF Init
<1>2. ASSUME [Next]_vars PROVE [TableNext]_tableVars
  <2>1. CASE \/ \E r \in {"FIND_NODE", "FIND_VALUE"} : node_lookup(r)
             \/ RoundOfAlpha \/ RoundOfAll \/ ReturnValue \/ ReturnNodes \/ Throw
             \/ UNCHANGED vars
    BY <2>1 DEF node_lookup, RoundOfAlpha, RoundOfAll, ReturnValue, ReturnNodes, Throw,
       vars, tableVars
  <2>2. ASSUME NEW c \in Contact,
               \/ \E list \in Lists[c] : OnNodes(c, list)
               \/ OnValue(c)
               \/ Otherwise(Receive(c))
        PROVE  TableNext
    <3>1. From[c] \in Contact /\ (Receive(c) \/ Receive(From[c]))
      BY <2>2, LookupAssumption DEF OnNodes, OnValue, Otherwise
    <3> QED
      BY <3>1 DEF TableNext
  <2>3. ASSUME NEW c \in Contact,
               OnTimeout(c) \/ Otherwise(BootstrapEnqueue(c)) \/ Otherwise(ContactTimeout(c))
        PROVE  TableNext
    BY <2>3 DEF OnTimeout, Otherwise, TableNext
  <2>4. CASE Insert \/ Otherwise(LockExpires)
    BY <2>4 DEF Insert, Otherwise, TableNext
  <2> QED
    BY <1>2, <2>1, <2>2, <2>3, <2>4 DEF Next
<1> QED
  BY <1>1, <1>2, PTL DEF Spec, TableSpec

\* The inductive invariant holds in every state.
THEOREM LookupInvariant == Spec => []LookupInv
<1>1. Spec => []TableTypeOK
  BY ImplementsTable, TableTyped, PTL
<1> QED
  BY <1>1, LookupInit, LookupStep, PTL DEF Spec

\* The state variables hold what their comments say.
THEOREM TypeCorrect == Spec => []TypeOK
<1>1. TableTypeOK /\ LookupInv => TypeOK
  BY DEF LookupInv, LookupTypeOK, TypeOK
<1> QED
  BY <1>1, ImplementsTable, TableTyped, LookupInvariant, PTL

\* A lookup that ends with fewer than K_SIZE nodes has asked every contact that
\* was mentioned to it (dht.js:518-543).
THEOREM ExhaustiveCorrect == Spec => []Exhaustive
<1>1. LookupInv => Exhaustive
  BY DEF LookupInv, Stages, Accounted, Exhaustive
<1> QED
  BY <1>1, LookupInvariant, PTL

\* No contact that answered under its own address, or was silent, waits to be
\* asked again (dht.js:458-478).
THEOREM AskedOnceCorrect == Spec => []AskedOnce
<1>1. LookupInv => AskedOnce
  BY DEF LookupInv, Accounted
<1> QED
  BY <1>1, LookupInvariant, PTL

\* A value that was found is cached at a contact that answered without it
\* (dht.js:548-561).
THEOREM CachedAwayCorrect == Spec => []CachedAway
<1>1. LookupInv => CachedAway
  BY DEF LookupInv, CachePlaces, CachedAway, Emptyhanded
<1> QED
  BY <1>1, LookupInvariant, PTL
=============================================================================
