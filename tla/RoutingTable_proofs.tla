------------------------- MODULE RoutingTable_proofs -------------------------
(***************************************************************************)
(* Theorems about RoutingTable, for every set of contacts, width of the    *)
(* IDs, bucket size and number of lock attempts.  TableInv is inductive:   *)
(* the leaves are a partition of the ID space (TreeInv), each bucket holds *)
(* at most K_SIZE Records of different contacts that belong there          *)
(* (GoodBucket), and whoever was heard is known or was refused             *)
(* (NeighboursKept).                                                       *)
(***************************************************************************)
EXTENDS RoutingTable, FiniteSetTheorems, SequenceTheorems,
        WellFoundedInduction, TLAPS

-----------------------------------------------------------------------------
\* The contacts of a bucket; each has one Record there.
Names(b) == {r.node : r \in b}
\* No contact has two Records in b.
Unique(b) == \A r, s \in b : r.node = s.node => r = s

\* An ID is made of bits.
LEMMA IdBits ==
    ASSUME NEW id \in Id, NEW i \in 1 .. Width
    PROVE  id[i] \in {0, 1}
BY DEF Id

\* OneLeaf and find_kbucket_for_id for a set D of leaves.
OneLeafIn(D) ==
    \A id \in Id : \E p \in D :
        /\ Follows(p, id)
        /\ \A q \in D : Follows(q, id) => q = p
\* The leaf of D that an ID belongs to.
LeafIn(D, id) == CHOOSE p \in D : Follows(p, id)

\* The walk down for an ID ends in one leaf, and in no other.
LEMMA LeafInProps ==
    ASSUME NEW D, OneLeafIn(D), NEW id \in Id
    PROVE  /\ LeafIn(D, id) \in D
           /\ Follows(LeafIn(D, id), id)
           /\ \A q \in D : Follows(q, id) => q = LeafIn(D, id)
<1>1. PICK p \in D : Follows(p, id) /\ \A q \in D : Follows(q, id) => q = p
  BY DEF OneLeafIn
<1>2. LeafIn(D, id) \in D /\ Follows(LeafIn(D, id), id)
  BY <1>1 DEF LeafIn
<1> QED
  BY <1>1, <1>2

\* The two definitions above say of the tree's leaves what the model says.
LEMMA Leaves ==
    /\ OneLeaf <=> OneLeafIn(DOMAIN buckets)
    /\ \A id : find_kbucket_for_id(id) = LeafIn(DOMAIN buckets, id)
BY DEF OneLeaf, OneLeafIn, find_kbucket_for_id, LeafIn

\* The same after a step.
LEMMA LeavesNext ==
    /\ OneLeaf' <=> OneLeafIn(DOMAIN buckets')
    /\ \A id : find_kbucket_for_id(id)' = LeafIn(DOMAIN buckets', id)
BY DEF OneLeaf, OneLeafIn, find_kbucket_for_id, LeafIn, Follows

\* A bucket has as many Records as contacts.
LEMMA BucketCount ==
    ASSUME NEW b \in SUBSET Record, Unique(b)
    PROVE  /\ IsFiniteSet(b) /\ Cardinality(b) \in Nat
           /\ IsFiniteSet(Names(b)) /\ Cardinality(b) = Cardinality(Names(b))
<1>1. Names(b) \subseteq Contact
  BY DEF Names, Record
<1>2. IsFiniteSet(Names(b))
  BY <1>1, FS_Subset, TableAssumption
<1> DEFINE f == [r \in b |-> r.node]
<1>3. f \in Bijection(b, Names(b))
  BY DEF Unique, Names, Bijection, Injection, Surjection, IsInjective
<1>4. IsFiniteSet(b) /\ Cardinality(b) <= Cardinality(Names(b))
  BY <1>2, <1>3, FS_Injection DEF Bijection
<1>5. Cardinality(Names(b)) = Cardinality(b)
  BY <1>4, <1>3, FS_Bijection DEF ExistsBijection
<1> QED
  BY <1>2, <1>4, <1>5, FS_CardinalityType

\* The two children of a leaf divide its IDs by their next bit.
LEMMA Child ==
    ASSUME NEW p \in Prefix, Len(p) < Width, NEW b \in {0, 1}, NEW id \in Id
    PROVE  /\ Append(p, b) \in Prefix /\ Append(p, b) # p
           /\ Len(Append(p, b)) = Len(p) + 1
           /\ \A i \in 1 .. Len(p) : Append(p, b)[i] = p[i]
           /\ Follows(Append(p, b), id) <=> Follows(p, id) /\ id[Len(p) + 1] = b
<1>1. p \in Seq({0, 1}) /\ Len(p) \in Nat /\ Len(p) <= Width /\ Width \in Nat
  BY TableAssumption DEF Prefix
<1>2. /\ Append(p, b) \in Seq({0, 1})
      /\ Len(Append(p, b)) = Len(p) + 1
      /\ \A i \in 1 .. Len(p) : Append(p, b)[i] = p[i]
      /\ Append(p, b)[Len(p) + 1] = b
  BY <1>1, AppendProperties
<1>3. Append(p, b) \in Prefix /\ Append(p, b) # p
  BY <1>1, <1>2 DEF Prefix
<1>4. 1 .. (Len(p) + 1) = (1 .. Len(p)) \cup {Len(p) + 1}
  BY <1>1
<1>5. Follows(Append(p, b), id) <=> Follows(p, id) /\ id[Len(p) + 1] = b
  BY <1>1, <1>2, <1>4 DEF Follows
<1> QED
  BY <1>2, <1>3, <1>5

\* What a bucket under the prefix p must be.
GoodBucket(p, b) ==
    /\ b \in SUBSET Record
    /\ \A r \in b : Follows(p, IdOf[r.node])
    /\ Unique(b)
    /\ Cardinality(b) <= K_SIZE
    /\ \A r \in b : r.node = Self => ~r.locked
    /\ \A r \in b : is_stale(r) => r.locked

\* The tree and its buckets.
TreeInv ==
    /\ DOMAIN buckets \subseteq Prefix
    /\ buckets \in [DOMAIN buckets -> SUBSET Record]
    /\ OneLeaf
    /\ OwnPath
    /\ \A p \in DOMAIN buckets : GoodBucket(p, buckets[p])

\* The other variables.
CallInv ==
    /\ inserting \in Contact \cup {None}
    /\ heard \subseteq Contact
    /\ joined \in BOOLEAN

\* What NeighboursKept says of one contact.
KnownAtLeaf(c) == c \in Names(buckets[LeafOf(c)])
\* Or else its bucket is full, and not ours.
RefusedAtLeaf(c) == is_full(buckets[LeafOf(c)]) /\ LeafOf(c) # OurLeaf

\* The inductive invariant.
TableInv == TreeInv /\ CallInv /\ NeighboursKept

\* A new Record is usable.
LEMMA FreshRecord ==
    ASSUME NEW c \in Contact
    PROVE  /\ Fresh(c) \in Record /\ Fresh(c).node = c
           /\ ~Fresh(c).locked /\ ~is_stale(Fresh(c))
BY TableAssumption DEF Fresh, Record, is_stale

\* What enqueue makes of a good bucket.
Takes(p, b, c, b2) ==
    /\ GoodBucket(p, b2)
    /\ c \in Names(b2)
    /\ is_full(b) => is_full(b2)
    /\ ~is_full(b) => Names(b2) = Names(b) \cup {c}
    /\ exists(b, c) => b2 = b

\* enqueue keeps a bucket good, has the contact in it, and drops another only
\* from a full bucket.
LEMMA Enqueued ==
    ASSUME NEW p, NEW b, GoodBucket(p, b), NEW c \in Contact, Follows(p, IdOf[c]),
           NEW b2 \in enqueue(b, c)
    PROVE  Takes(p, b, c, b2)
<1> SUFFICES /\ GoodBucket(p, b2)
             /\ c \in Names(b2)
             /\ is_full(b) => is_full(b2)
             /\ ~is_full(b) => Names(b2) = Names(b) \cup {c}
             /\ exists(b, c) => b2 = b
  BY DEF Takes
<1>1. IsFiniteSet(b) /\ Cardinality(b) \in Nat
  BY BucketCount DEF GoodBucket
<1>2. K_SIZE \in Nat
  BY TableAssumption
<1>3. CASE exists(b, c)
  <2>1. b2 = b
    BY <1>3 DEF enqueue
  <2>2. c \in Names(b)
    BY <1>3 DEF exists, Names
  <2>3. Names(b) \cup {c} = Names(b)
    BY <2>2
  <2> QED
    BY <1>3, <2>1, <2>2, <2>3
<1>4. CASE ~exists(b, c) /\ Cardinality(b) < K_SIZE
  <2>1. b2 = b \cup {Fresh(c)}
    BY <1>4 DEF enqueue
  <2>2. IsFiniteSet(b2) /\ Cardinality(b2) \in Nat /\ Cardinality(b2) <= Cardinality(b) + 1
    BY <1>1, <2>1, FS_AddElement
  <2>3. Cardinality(b2) <= K_SIZE
    BY <1>1, <1>2, <1>4, <2>2
  <2>4. GoodBucket(p, b2)
    BY <1>4, <2>1, <2>3, FreshRecord DEF GoodBucket, exists, Unique
  <2>5. Names(b2) = Names(b) \cup {c}
    BY <2>1, FreshRecord DEF Names
  <2>6. ~is_full(b)
    BY <1>1, <1>2, <1>4 DEF is_full
  <2> QED
    BY <1>4, <2>4, <2>5, <2>6
<1>5. CASE ~exists(b, c) /\ ~(Cardinality(b) < K_SIZE)
  <2>1. PICK e \in b : b2 = (b \ {e}) \cup {Fresh(c)}
    BY <1>5 DEF enqueue
  <2>2. Fresh(c) \notin b \ {e}
    BY <1>5, FreshRecord DEF exists
  <2>3. Cardinality(b2) = Cardinality(b)
    <3>1. IsFiniteSet(b \ {e}) /\ Cardinality(b \ {e}) = Cardinality(b) - 1
      BY <1>1, FS_RemoveElement
    <3>2. Cardinality(b2) = Cardinality(b \ {e}) + 1
      BY <2>1, <2>2, <3>1, FS_AddElement
    <3> QED
      BY <1>1, <3>1, <3>2
  <2>4. GoodBucket(p, b2)
    BY <1>5, <2>1, <2>3, FreshRecord DEF GoodBucket, exists, Unique
  <2>5. c \in Names(b2)
    BY <2>1, FreshRecord DEF Names
  <2>6. is_full(b) /\ is_full(b2)
    BY <1>1, <1>2, <1>5, <2>3 DEF is_full
  <2> QED
    BY <1>5, <2>4, <2>5, <2>6
<1> QED
  BY <1>3, <1>4, <1>5

\* The leaf of a contact is a leaf, its bucket is good.
LEMMA AtLeaf ==
    ASSUME TreeInv, NEW c \in Contact
    PROVE  /\ IdOf[c] \in Id
           /\ LeafOf(c) \in DOMAIN buckets /\ LeafOf(c) \in Prefix
           /\ Follows(LeafOf(c), IdOf[c])
           /\ \A q \in DOMAIN buckets : Follows(q, IdOf[c]) => q = LeafOf(c)
           /\ GoodBucket(LeafOf(c), buckets[LeafOf(c)])
           /\ OurLeaf \in DOMAIN buckets
<1>1. IdOf[c] \in Id /\ IdOf[Self] \in Id
  BY TableAssumption
<1> QED
  BY <1>1, Leaves, LeafInProps DEF TreeInv, LeafOf, OurLeaf

\* A contact is known just when the bucket of its leaf has it.
KnownIsAtLeaf ==
    /\ Known \subseteq Contact
    /\ \A c \in Contact : c \in Known <=> KnownAtLeaf(c)

\* Looking into one bucket is enough.
LEMMA KnownAt == TreeInv => KnownIsAtLeaf
<1> SUFFICES ASSUME TreeInv PROVE KnownIsAtLeaf
  OBVIOUS
<1>1. Known \subseteq Contact
  BY DEF TreeInv, Known, Records, Record
<1>2. ASSUME NEW c \in Contact, c \in Known PROVE KnownAtLeaf(c)
  <2>1. PICK p \in DOMAIN buckets : \E r \in buckets[p] : r.node = c
    BY <1>2 DEF Known, Records
  <2>2. Follows(p, IdOf[c])
    BY <2>1 DEF TreeInv, GoodBucket
  <2>3. p = LeafOf(c)
    BY <2>2, AtLeaf
  <2> QED
    BY <2>1, <2>3 DEF KnownAtLeaf, Names
<1>3. ASSUME NEW c \in Contact, KnownAtLeaf(c) PROVE c \in Known
  BY <1>3, AtLeaf DEF KnownAtLeaf, Names, Known, Records
<1> QED
  BY <1>1, <1>2, <1>3 DEF KnownIsAtLeaf

\* The same after a step.
LEMMA KnownAtNext == TreeInv' => KnownIsAtLeaf'
BY KnownAt, PTL

\* A step that changes one bucket leaves every walk down the tree as it was.
LEMMA OneBucket ==
    ASSUME TreeInv, NEW p \in DOMAIN buckets, NEW b, GoodBucket(p, b),
           buckets' = [buckets EXCEPT ![p] = b]
    PROVE  /\ TreeInv'
           /\ \A c : LeafOf(c)' = LeafOf(c)
           /\ OurLeaf' = OurLeaf
           /\ \A q \in DOMAIN buckets : buckets'[q] = IF q = p THEN b ELSE buckets[q]
<1>1. DOMAIN buckets' = DOMAIN buckets
  OBVIOUS
<1>2. \A q \in DOMAIN buckets : buckets'[q] = IF q = p THEN b ELSE buckets[q]
  OBVIOUS
<1>3. \A q \in DOMAIN buckets' : GoodBucket(q, buckets'[q])
  BY <1>1, <1>2 DEF TreeInv
<1>4. buckets' \in [DOMAIN buckets' -> SUBSET Record]
  BY <1>1, <1>2 DEF TreeInv, GoodBucket
<1>5. OneLeaf' /\ \A id : find_kbucket_for_id(id)' = find_kbucket_for_id(id)
  BY <1>1, Leaves, LeavesNext DEF TreeInv
<1>6. OwnPath'
  BY <1>1 DEF TreeInv, OwnPath
<1>7. \A c : LeafOf(c)' = LeafOf(c)
  BY <1>5 DEF LeafOf
<1>8. DOMAIN buckets' \subseteq Prefix
  BY <1>1 DEF TreeInv
<1>9. TreeInv'
  BY <1>3, <1>4, <1>5, <1>6, <1>8 DEF TreeInv
<1> QED
  BY <1>2, <1>7, <1>9 DEF OurLeaf

\* A bucket that keeps its contacts loses nobody, nor the reason to refuse one.
LEMMA Grow ==
    ASSUME TreeInv, NEW p \in DOMAIN buckets, NEW b, GoodBucket(p, b),
           Names(buckets[p]) \subseteq Names(b),
           buckets' = [buckets EXCEPT ![p] = b]
    PROVE  /\ TreeInv'
           /\ Known \subseteq Known'
           /\ \A d \in Contact : RefusedAtLeaf(d) => RefusedAtLeaf(d)'
           /\ Names(b) \subseteq Known'
<1>1. /\ TreeInv'
      /\ \A c : LeafOf(c)' = LeafOf(c)
      /\ OurLeaf' = OurLeaf
      /\ \A q \in DOMAIN buckets : buckets'[q] = IF q = p THEN b ELSE buckets[q]
  BY OneBucket
<1>2. is_full(buckets[p]) => is_full(b)
  <2>1. b \in SUBSET Record /\ Unique(b)
    BY DEF GoodBucket
  <2>2. buckets[p] \in SUBSET Record /\ Unique(buckets[p])
    BY DEF TreeInv, GoodBucket
  <2>3. /\ Cardinality(b) \in Nat /\ IsFiniteSet(Names(b))
        /\ Cardinality(b) = Cardinality(Names(b))
    BY <2>1, BucketCount
  <2>4. /\ Cardinality(buckets[p]) \in Nat
        /\ Cardinality(buckets[p]) = Cardinality(Names(buckets[p]))
    BY <2>2, BucketCount
  <2>5. Cardinality(Names(buckets[p])) <= Cardinality(Names(b))
    BY <2>3, FS_Subset
  <2>6. K_SIZE \in Nat
    BY TableAssumption
  <2> QED
    BY <2>3, <2>4, <2>5, <2>6 DEF is_full
<1>3. ASSUME NEW d \in Contact PROVE
         /\ KnownAtLeaf(d) => KnownAtLeaf(d)'
         /\ RefusedAtLeaf(d) => RefusedAtLeaf(d)'
  <2>1. LeafOf(d) \in DOMAIN buckets
    BY AtLeaf
  <2>2. buckets'[LeafOf(d)'] = IF LeafOf(d) = p THEN b ELSE buckets[LeafOf(d)]
    BY <1>1, <2>1
  <2>3. KnownAtLeaf(d) => KnownAtLeaf(d)'
    BY <2>2 DEF KnownAtLeaf
  <2>4. RefusedAtLeaf(d) => RefusedAtLeaf(d)'
    BY <1>1, <1>2, <2>2 DEF RefusedAtLeaf, is_full
  <2> QED
    BY <2>3, <2>4
<1>4. Known \subseteq Known'
  BY <1>1, <1>3, KnownAt, KnownAtNext DEF KnownIsAtLeaf
<1>5. Names(b) \subseteq Known'
  BY <1>1 DEF Names, Known, Records
<1> QED
  BY <1>1, <1>3, <1>4, <1>5

\* Some Records of a good bucket are a good bucket, where they belong.
LEMMA Fewer ==
    ASSUME NEW p, NEW b, GoodBucket(p, b), NEW q, NEW d \in SUBSET b,
           \A r \in d : Follows(q, IdOf[r.node])
    PROVE  GoodBucket(q, d)
<1>1. IsFiniteSet(b) /\ Cardinality(b) \in Nat
  BY BucketCount DEF GoodBucket
<1>2. IsFiniteSet(d) /\ Cardinality(d) \in Nat /\ Cardinality(d) <= Cardinality(b)
  BY <1>1, FS_Subset, FS_CardinalityType
<1>3. Cardinality(d) <= K_SIZE
  BY <1>1, <1>2, TableAssumption DEF GoodBucket
<1> QED
  BY <1>3 DEF GoodBucket, Unique

\* Case 1 keeps the contacts of the bucket.
LEMMA Renewed ==
    ASSUME NEW p, NEW b, GoodBucket(p, b), NEW c \in Contact, exists(b, c),
           NEW b2 \in enqueue(Without(b, c), c)
    PROVE  GoodBucket(p, b2) /\ Names(b2) = Names(b)
<1> DEFINE w == Without(b, c)
<1>1. PICK r \in b : r.node = c
  BY DEF exists
<1>2. Follows(p, IdOf[c])
  BY <1>1 DEF GoodBucket
<1>3. GoodBucket(p, w)
  <2>1. w \subseteq b /\ \A x \in w : Follows(p, IdOf[x.node])
    BY DEF Without, GoodBucket
  <2> QED
    BY <2>1, Fewer
<1>4. Cardinality(w) < K_SIZE
  <2>1. IsFiniteSet(b) /\ Cardinality(b) \in Nat
    BY BucketCount DEF GoodBucket
  <2>2. IsFiniteSet(b \ {r}) /\ Cardinality(b \ {r}) = Cardinality(b) - 1
    BY <1>1, <2>1, FS_RemoveElement
  <2>3. w \subseteq b \ {r}
    BY <1>1 DEF Without
  <2>4. Cardinality(w) <= Cardinality(b \ {r}) /\ Cardinality(w) \in Nat
    BY <2>2, <2>3, FS_Subset, FS_CardinalityType
  <2>5. Cardinality(b) <= K_SIZE /\ K_SIZE \in Nat
    BY TableAssumption DEF GoodBucket
  <2> QED
    BY <2>1, <2>2, <2>4, <2>5
<1>5. ~is_full(w)
  <2>1. Cardinality(w) \in Nat /\ K_SIZE \in Nat
    BY <1>3, BucketCount, TableAssumption DEF GoodBucket
  <2> QED
    BY <1>4, <2>1 DEF is_full
<1>6. Names(w) \cup {c} = Names(b)
  BY <1>1 DEF Names, Without
<1>7. b2 \in enqueue(w, c)
  OBVIOUS
<1> HIDE DEF w
<1>8. GoodBucket(p, b2) /\ Names(b2) = Names(w) \cup {c}
  <2>1. Takes(p, w, c, b2)
    BY <1>2, <1>3, <1>7, Enqueued
  <2> QED
    BY <1>5, <2>1 DEF Takes
<1> QED
  BY <1>6, <1>8

\* Locking keeps the contacts of the bucket, and never locks this node.
LEMMA Locked ==
    ASSUME NEW p, NEW b, GoodBucket(p, b), NEW c \in Contact,
           NEW b2, b2 = {IF Lockable(c, r) THEN lock(r) ELSE r : r \in b}
    PROVE  GoodBucket(p, b2) /\ Names(b2) = Names(b)
<1> DEFINE f(r) == IF Lockable(c, r) THEN lock(r) ELSE r
<1>1. ASSUME NEW r \in b
      PROVE  /\ f(r) \in Record /\ f(r).node = r.node
             /\ f(r).node = Self => ~f(r).locked
             /\ is_stale(f(r)) => f(r).locked
  <2>1. r \in Record /\ (r.node = Self => ~r.locked) /\ (is_stale(r) => r.locked)
    BY DEF GoodBucket
  <2>2. CASE Lockable(c, r)
    <3>1. /\ f(r) = [r EXCEPT !.locked = TRUE, !.n_locks = @ + 1]
          /\ r.node # Self /\ r.n_locks # MAX_LOCK_ATTEMPTS
      BY <2>1, <2>2 DEF Lockable, lock, is_stale
    <3>2. r.n_locks + 1 \in 0 .. MAX_LOCK_ATTEMPTS
      BY <2>1, <3>1, TableAssumption DEF Record
    <3> QED
      BY <2>1, <3>1, <3>2 DEF Record
  <2> QED
    BY <2>1, <2>2
<1>2. b2 = {f(r) : r \in b}
  OBVIOUS
<1> HIDE DEF f
<1>3. Names(b2) = Names(b)
  <2>1. \A r \in b : f(r).node = r.node
    BY <1>1
  <2>2. Names(b2) = {f(r).node : r \in b}
    BY <1>2 DEF Names
  <2> QED
    BY <2>1, <2>2 DEF Names
<1>4. b2 \in SUBSET Record /\ Unique(b2)
  BY <1>1, <1>2 DEF Unique, GoodBucket
<1>5. Cardinality(b2) <= K_SIZE
  <2>1. Cardinality(b2) = Cardinality(Names(b2))
    BY <1>4, BucketCount
  <2>2. Cardinality(b) = Cardinality(Names(b))
    BY BucketCount DEF GoodBucket
  <2> QED
    BY <1>3, <2>1, <2>2 DEF GoodBucket
<1>6. \A x \in b2 : Follows(p, IdOf[x.node])
  BY <1>1, <1>2 DEF GoodBucket
<1>7. \A x \in b2 : (x.node = Self => ~x.locked) /\ (is_stale(x) => x.locked)
  BY <1>1, <1>2
<1>8. GoodBucket(p, b2)
  BY <1>4, <1>5, <1>6, <1>7 DEF GoodBucket
<1> QED
  BY <1>3, <1>8

\* So does the end of a lock, which no stale Record sees.
LEMMA Unlocked ==
    ASSUME NEW p, NEW b, GoodBucket(p, b), NEW r \in b, Expires(r),
           NEW b2, b2 = (b \ {r}) \cup {[r EXCEPT !.locked = FALSE]}
    PROVE  GoodBucket(p, b2) /\ Names(b2) = Names(b)
<1> DEFINE u == [r EXCEPT !.locked = FALSE]
<1>1. r \in Record /\ ~is_stale(r)
  BY DEF GoodBucket, Expires
<1>2. u \in Record /\ u.node = r.node /\ ~u.locked /\ ~is_stale(u)
  BY <1>1 DEF Record, is_stale
<1> HIDE DEF u
<1>3. b2 = (b \ {r}) \cup {u}
  BY DEF u
<1>4. Names(b2) = Names(b)
  BY <1>2, <1>3 DEF Names
<1>5. b2 \in SUBSET Record /\ Unique(b2)
  BY <1>2, <1>3 DEF Unique, GoodBucket
<1>6. Cardinality(b2) <= K_SIZE
  <2>1. Cardinality(b2) = Cardinality(Names(b2))
    BY <1>5, BucketCount
  <2>2. Cardinality(b) = Cardinality(Names(b))
    BY BucketCount DEF GoodBucket
  <2> QED
    BY <1>4, <2>1, <2>2 DEF GoodBucket
<1> QED
  BY <1>2, <1>3, <1>4, <1>5, <1>6 DEF GoodBucket

\* A leaf above the last level has a next bit to go by.
LEMMA ChildInBits ==
    ASSUME NEW p \in Prefix, Len(p) < Width, NEW id \in Id
    PROVE  id[Len(p) + 1] \in {0, 1}
<1>1. Len(p) \in Nat /\ Width \in Nat
  BY TableAssumption DEF Prefix
<1>2. Len(p) + 1 \in 1 .. Width
  BY <1>1
<1> QED
  BY <1>2, IdBits

\* What the leaves E are when p of the leaves D became two.
SplitsInto(D, p, E) ==
    /\ OneLeafIn(E) /\ E \subseteq Prefix
    /\ \A id \in Id :
          LeafIn(E, id) = IF LeafIn(D, id) = p THEN ChildOf(p, id) ELSE LeafIn(D, id)
    /\ \A id \in Id : Follows(p, id) => ChildOf(p, id) \notin D

\* A split leaves a partition, and moves the IDs of the leaf alone.
LEMMA SplitLeaves ==
    ASSUME NEW D \in SUBSET Prefix, OneLeafIn(D), NEW p \in D, Len(p) < Width,
           NEW E, E = (D \ {p}) \cup {Append(p, 0), Append(p, 1)}
    PROVE  SplitsInto(D, p, E)
<1>1. p \in Prefix
  OBVIOUS
<1>2. ASSUME NEW id \in Id
      PROVE  /\ Append(p, 0) \in Prefix /\ Append(p, 1) \in Prefix
             /\ ChildOf(p, id) \in {Append(p, 0), Append(p, 1)}
             /\ Follows(p, id) => Follows(ChildOf(p, id), id) /\ ChildOf(p, id) \notin D
             /\ Follows(Append(p, 0), id) => Follows(p, id) /\ Append(p, 0) = ChildOf(p, id)
             /\ Follows(Append(p, 1), id) => Follows(p, id) /\ Append(p, 1) = ChildOf(p, id)
  <2>1. id[Len(p) + 1] \in {0, 1}
    BY ChildInBits
  <2>2. \A b \in {0, 1} :
           /\ Append(p, b) \in Prefix /\ Append(p, b) # p
           /\ Follows(Append(p, b), id) <=> Follows(p, id) /\ id[Len(p) + 1] = b
    BY Child
  <2>3. /\ ChildOf(p, id) \in {Append(p, 0), Append(p, 1)}
        /\ ChildOf(p, id) # p
        /\ Follows(ChildOf(p, id), id) <=> Follows(p, id)
    BY <2>1, <2>2 DEF ChildOf
  <2>4. Follows(p, id) => ChildOf(p, id) \notin D
    BY <2>3, LeafInProps
  <2>5. \A b \in {0, 1} :
           Follows(Append(p, b), id) => Follows(p, id) /\ Append(p, b) = ChildOf(p, id)
    BY <2>2 DEF ChildOf
  <2> QED
    BY <2>2, <2>3, <2>4, <2>5
<1>3. ASSUME NEW id \in Id
      PROVE  \E l \in E :
                /\ l = IF LeafIn(D, id) = p THEN ChildOf(p, id) ELSE LeafIn(D, id)
                /\ Follows(l, id)
                /\ \A q \in E : Follows(q, id) => q = l
  <2>1. /\ LeafIn(D, id) \in D /\ Follows(LeafIn(D, id), id)
        /\ \A q \in D : Follows(q, id) => q = LeafIn(D, id)
    BY LeafInProps
  <2>2. CASE LeafIn(D, id) = p
    <3>1. /\ ChildOf(p, id) \in E /\ Follows(ChildOf(p, id), id)
          /\ \A q \in E : Follows(q, id) => q = ChildOf(p, id)
      BY <1>2, <2>1, <2>2
    <3> QED
      BY <2>2, <3>1
  <2>3. CASE LeafIn(D, id) # p
    <3>1. /\ LeafIn(D, id) \in E
          /\ \A q \in E : Follows(q, id) => q = LeafIn(D, id)
      BY <1>2, <2>1, <2>3
    <3> QED
      BY <2>1, <2>3, <3>1
  <2> QED
    BY <2>2, <2>3
<1>4. OneLeafIn(E)
  BY <1>3 DEF OneLeafIn
<1>5. ASSUME NEW id \in Id
      PROVE  LeafIn(E, id) = IF LeafIn(D, id) = p THEN ChildOf(p, id) ELSE LeafIn(D, id)
  <2>1. PICK l \in E :
           /\ l = IF LeafIn(D, id) = p THEN ChildOf(p, id) ELSE LeafIn(D, id)
           /\ Follows(l, id)
           /\ \A q \in E : Follows(q, id) => q = l
    BY <1>3
  <2>2. LeafIn(E, id) = CHOOSE q \in E : Follows(q, id)
    BY DEF LeafIn
  <2>3. LeafIn(E, id) = l
    BY <2>1, <2>2
  <2> QED
    BY <2>1, <2>3
<1>6. IdOf[Self] \in Id
  BY TableAssumption
<1>7. E \subseteq Prefix
  BY <1>2, <1>6
<1> QED
  BY <1>2, <1>4, <1>5, <1>7 DEF SplitsInto

\* A split of our own leaf keeps every contact where a walk finds it, and makes
\* no bucket ours that refused somebody.
LEMMA Split ==
    ASSUME TreeInv, NEW p, p = OurLeaf, Len(p) < Width, buckets' = SplitAt(p)
    PROVE  /\ TreeInv'
           /\ Known \subseteq Known'
           /\ \A d \in Contact : RefusedAtLeaf(d) => RefusedAtLeaf(d)'
<1> DEFINE D == DOMAIN buckets
           E == (D \ {p}) \cup {Append(p, 0), Append(p, 1)}
           Half(q) == {r \in buckets[p] : ChildOf(p, IdOf[r.node]) = q}
<1>1. /\ p \in D /\ p \in Prefix /\ IdOf[Self] \in Id /\ Follows(p, IdOf[Self])
      /\ GoodBucket(p, buckets[p])
  BY AtLeaf, TableAssumption DEF OurLeaf
<1>2. buckets' = [q \in E |-> IF q \in D \ {p} THEN buckets[q] ELSE Half(q)]
  BY DEF SplitAt
<1>3. DOMAIN buckets' = E
  BY <1>2
<1>4. /\ OneLeafIn(E) /\ E \subseteq Prefix
      /\ \A id \in Id : LeafIn(E, id) =
             IF LeafIn(D, id) = p THEN ChildOf(p, id) ELSE LeafIn(D, id)
      /\ \A id \in Id : Follows(p, id) => ChildOf(p, id) \notin D
  <2>1. OneLeafIn(D) /\ D \in SUBSET Prefix
    BY Leaves DEF TreeInv
  <2>2. p \in D /\ Len(p) < Width
    BY <1>1
  <2>3. E = (D \ {p}) \cup {Append(p, 0), Append(p, 1)}
    OBVIOUS
  <2> HIDE DEF D, E
  <2>4. SplitsInto(D, p, E)
    BY <2>1, <2>2, <2>3, SplitLeaves
  <2> QED
    BY <2>4 DEF SplitsInto
<1>5. ASSUME NEW q \in {Append(p, 0), Append(p, 1)}, q \notin D \ {p}
      PROVE  GoodBucket(q, Half(q))
  <2>1. \A b \in {0, 1}, id \in Id :
           Follows(Append(p, b), id) <=> Follows(p, id) /\ id[Len(p) + 1] = b
    BY <1>1, Child
  <2>2. ASSUME NEW r \in Half(q) PROVE Follows(q, IdOf[r.node])
    <3>1. r \in buckets[p] /\ ChildOf(p, IdOf[r.node]) = q
      OBVIOUS
    <3>2. r.node \in Contact /\ Follows(p, IdOf[r.node])
      BY <1>1, <3>1 DEF GoodBucket, Record
    <3>3. IdOf[r.node] \in Id
      BY <3>2, TableAssumption
    <3>4. IdOf[r.node][Len(p) + 1] \in {0, 1}
      BY <1>1, <3>3, ChildInBits
    <3> QED
      BY <2>1, <3>1, <3>2, <3>3, <3>4 DEF ChildOf
  <2>3. Half(q) \in SUBSET buckets[p]
    OBVIOUS
  <2> HIDE DEF Half
  <2> QED
    BY <1>1, <2>2, <2>3, Fewer
<1>6. \A q \in E : GoodBucket(q, buckets'[q])
  BY <1>2, <1>5 DEF TreeInv
<1>7. OwnPath'
  <2>1. ASSUME NEW q \in E, Len(q) > 0
        PROVE  \A i \in 1 .. Len(q) - 1 : q[i] = IdOf[Self][i]
    <3>1. CASE q \in D
      BY <2>1, <3>1 DEF TreeInv, OwnPath
    <3>2. CASE q \in {Append(p, 0), Append(p, 1)}
      <4>1. Len(q) = Len(p) + 1 /\ \A i \in 1 .. Len(p) : q[i] = p[i]
        BY <1>1, <3>2, Child
      <4>2. Len(p) \in Nat
        BY <1>1 DEF Prefix
      <4> QED
        BY <1>1, <4>1, <4>2 DEF Follows
    <3> QED
      BY <3>1, <3>2
  <2> QED
    BY <1>3, <2>1 DEF OwnPath
<1>8. TreeInv'
  <2>1. OneLeaf'
    BY <1>3, <1>4, LeavesNext
  <2>2. buckets' \in [DOMAIN buckets' -> SUBSET Record]
    <3>1. \A q \in E : buckets'[q] \in SUBSET Record
      BY <1>6 DEF GoodBucket
    <3> QED
      BY <1>2, <1>3, <3>1
  <2> HIDE DEF E
  <2> QED
    BY <1>3, <1>4, <1>6, <1>7, <2>1, <2>2 DEF TreeInv
<1>9. ASSUME NEW d \in Contact
      PROVE  LeafOf(d)' = IF LeafOf(d) = p THEN ChildOf(p, IdOf[d]) ELSE LeafOf(d)
  <2>1. IdOf[d] \in Id
    BY TableAssumption
  <2> QED
    BY <1>3, <1>4, <2>1, Leaves, LeavesNext DEF LeafOf
<1>10. ASSUME NEW d \in Contact, KnownAtLeaf(d) PROVE KnownAtLeaf(d)'
  <2>1. /\ LeafOf(d) \in D /\ IdOf[d] \in Id /\ Follows(LeafOf(d), IdOf[d])
    BY AtLeaf
  <2>2. LeafOf(d)' \in E
    BY <1>3, <1>8, Leaves, LeavesNext, <1>4, <2>1, LeafInProps DEF LeafOf
  <2>3. PICK r \in buckets[LeafOf(d)] : r.node = d
    BY <1>10 DEF KnownAtLeaf, Names
  <2>4. CASE LeafOf(d) = p
    <3>1. LeafOf(d)' = ChildOf(p, IdOf[d]) /\ ChildOf(p, IdOf[d]) \notin D
      BY <1>4, <1>9, <2>1, <2>4
    <3>2. buckets'[LeafOf(d)'] = Half(LeafOf(d)')
      BY <1>2, <2>2, <3>1
    <3>3. r \in Half(LeafOf(d)')
      BY <2>3, <2>4, <3>1
    <3> QED
      BY <2>3, <3>2, <3>3 DEF KnownAtLeaf, Names
  <2>5. CASE LeafOf(d) # p
    <3>1. buckets'[LeafOf(d)'] = buckets[LeafOf(d)]
      BY <1>2, <1>9, <2>1, <2>2, <2>5
    <3> QED
      BY <2>3, <3>1 DEF KnownAtLeaf, Names
  <2> QED
    BY <2>4, <2>5
<1>11. ASSUME NEW d \in Contact, RefusedAtLeaf(d) PROVE RefusedAtLeaf(d)'
  <2>1. LeafOf(d) \in D /\ LeafOf(d) # p /\ is_full(buckets[LeafOf(d)])
    BY <1>11, AtLeaf DEF RefusedAtLeaf
  <2>2. LeafOf(d)' = LeafOf(d)
    BY <1>9, <2>1
  <2>3. buckets'[LeafOf(d)'] = buckets[LeafOf(d)]
    BY <1>2, <2>1, <2>2
  <2>4. OurLeaf' = ChildOf(p, IdOf[Self])
    BY <1>9, TableAssumption DEF OurLeaf
  <2>5. LeafOf(d)' # OurLeaf'
    BY <1>1, <1>4, <2>1, <2>2, <2>4
  <2> QED
    BY <2>1, <2>3, <2>5 DEF RefusedAtLeaf, is_full
<1>12. Known \subseteq Known'
  BY <1>8, <1>10, KnownAt, KnownAtNext DEF KnownIsAtLeaf
<1> QED
  BY <1>8, <1>11, <1>12

\* When NeighboursKept outlives a step.
LEMMA Kept ==
    ASSUME TableInv, heard' = heard, Known \subseteq Known',
           \A d \in Contact : RefusedAtLeaf(d) => RefusedAtLeaf(d)',
           \A d \in heard \ {inserting'} :
              d \in heard \ {inserting} \/ d \in Known' \/ RefusedAtLeaf(d)'
    PROVE  NeighboursKept'
<1> SUFFICES ASSUME NEW d \in heard', d # inserting'
             PROVE  d \in Known' \/ RefusedAtLeaf(d)'
  BY DEF NeighboursKept, RefusedAtLeaf
<1>1. d \in Contact
  BY DEF TableInv, CallInv
<1>2. CASE d \in heard \ {inserting}
  <2>1. d \in Known \/ RefusedAtLeaf(d)
    BY <1>2 DEF TableInv, NeighboursKept, RefusedAtLeaf
  <2> QED
    BY <1>1, <2>1
<1> QED
  BY <1>2

\* What every step guarantees.
TableStep ==
    /\ TableInv'
    /\ Known \subseteq Known' \/ (~joined /\ joined')

\* The empty table is as it should be.
LEMMA InitInv == TableInit => TableInv
<1> SUFFICES ASSUME TableInit PROVE TableInv
  OBVIOUS
<1>1. DOMAIN buckets = {<<>>} /\ buckets[<<>>] = {}
  BY DEF TableInit
<1>2. <<>> \in Seq({0, 1}) /\ Len(<<>>) = 0
  OBVIOUS
<1>3. <<>> \in Prefix
  BY <1>2, TableAssumption DEF Prefix
<1>4. OneLeaf
  BY <1>1, <1>2 DEF OneLeaf, Follows
<1>5. OwnPath
  BY <1>1, <1>2 DEF OwnPath
<1>6. GoodBucket(<<>>, {})
  <2>1. Cardinality({}) = 0
    BY FS_EmptySet
  <2>2. 0 <= K_SIZE
    BY TableAssumption
  <2> QED
    BY <2>1, <2>2 DEF GoodBucket, Unique
<1>7. TreeInv
  BY <1>1, <1>3, <1>4, <1>5, <1>6 DEF TreeInv, TableInit
<1>8. CallInv /\ NeighboursKept
  BY DEF TableInit, CallInv, NeighboursKept
<1> QED
  BY <1>7, <1>8 DEF TableInv

\* A step that leaves the tree alone.
LEMMA SameTree ==
    ASSUME TreeInv, buckets' = buckets
    PROVE  /\ TreeInv' /\ Known' = Known
           /\ \A d : RefusedAtLeaf(d)' <=> RefusedAtLeaf(d)
<1>1. TreeInv' /\ Known' = Known
  BY DEF TreeInv, OneLeaf, OwnPath, Known, Records, Follows
<1>2. \A d : LeafOf(d)' = LeafOf(d)
  BY DEF LeafOf, find_kbucket_for_id, Follows
<1>3. \A d : RefusedAtLeaf(d)' <=> RefusedAtLeaf(d)
  BY <1>2 DEF RefusedAtLeaf, OurLeaf
<1> QED
  BY <1>1, <1>3

\* The contact being inserted is not judged yet.
LEMMA ReceiveStep ==
    ASSUME TableInv, NEW c \in Contact, Receive(c)
    PROVE  TableStep
<1>1. /\ TreeInv' /\ Known' = Known
      /\ \A d : RefusedAtLeaf(d)' <=> RefusedAtLeaf(d)
  BY SameTree DEF Receive, TableInv
<1>2. CallInv'
  BY DEF TableInv, CallInv, Receive
<1>3. NeighboursKept'
  <2>1. \A d \in heard' \ {inserting'} : d \in heard \ {inserting}
    BY TableAssumption DEF Receive, TableInv, CallInv
  <2>2. \A d \in heard \ {inserting} : d \in Known \/ RefusedAtLeaf(d)
    BY DEF TableInv, NeighboursKept, RefusedAtLeaf
  <2>3. \A d \in heard' \ {inserting'} : d \in Known' \/ RefusedAtLeaf(d)'
    BY <1>1, <2>1, <2>2
  <2> QED
    BY <2>3 DEF NeighboursKept, RefusedAtLeaf
<1> QED
  BY <1>1, <1>2, <1>3 DEF TableStep, TableInv

\* Case 1 finds the contact and keeps it.
LEMMA RefreshStep ==
    ASSUME TableInv, NEW c \in Contact, Refresh(c)
    PROVE  TableStep
<1> DEFINE p == LeafOf(c)
<1>1. /\ inserting = c /\ inserting' = None /\ heard' = heard /\ joined' = joined
      /\ exists(buckets[p], c)
  BY DEF Refresh
<1>2. PICK b \in enqueue(Without(buckets[p], c), c) : buckets' = [buckets EXCEPT ![p] = b]
  BY DEF Refresh
<1>3. p \in DOMAIN buckets /\ GoodBucket(p, buckets[p]) /\ TreeInv
  BY AtLeaf DEF TableInv
<1> HIDE DEF p
<1>4. GoodBucket(p, b) /\ Names(b) = Names(buckets[p])
  BY <1>1, <1>2, <1>3, Renewed
<1>5. /\ TreeInv' /\ Known \subseteq Known' /\ Names(b) \subseteq Known'
      /\ \A d \in Contact : RefusedAtLeaf(d) => RefusedAtLeaf(d)'
  BY <1>2, <1>3, <1>4, Grow
<1>6. c \in Known'
  BY <1>1, <1>4, <1>5 DEF exists, Names
<1>7. NeighboursKept'
  BY <1>1, <1>5, <1>6, Kept
<1>8. CallInv'
  BY <1>1 DEF CallInv, TableInv
<1> QED
  BY <1>5, <1>7, <1>8 DEF TableStep, TableInv

\* Case 2 makes the contact known.
LEMMA InsertStep ==
    ASSUME TableInv, NEW c \in Contact, InsertNew(c)
    PROVE  TableStep /\ c \in Known'
<1> DEFINE p == LeafOf(c)
<1>1. /\ inserting = c /\ inserting' = None /\ heard' = heard /\ joined' = joined
      /\ ~is_full(buckets[p])
  BY DEF InsertNew
<1>2. PICK b \in enqueue(buckets[p], c) : buckets' = [buckets EXCEPT ![p] = b]
  BY DEF InsertNew
<1>3. /\ p \in DOMAIN buckets /\ GoodBucket(p, buckets[p]) /\ Follows(p, IdOf[c])
      /\ TreeInv
  BY AtLeaf DEF TableInv
<1> HIDE DEF p
<1>4. GoodBucket(p, b) /\ Names(b) = Names(buckets[p]) \cup {c}
  <2>1. Takes(p, buckets[p], c, b)
    BY <1>2, <1>3, Enqueued
  <2> QED
    BY <1>1, <2>1 DEF Takes
<1>5. /\ TreeInv' /\ Known \subseteq Known' /\ Names(b) \subseteq Known'
      /\ \A d \in Contact : RefusedAtLeaf(d) => RefusedAtLeaf(d)'
  BY <1>2, <1>3, <1>4, Grow
<1>6. NeighboursKept'
  BY <1>1, <1>4, <1>5, Kept
<1>7. CallInv'
  BY <1>1 DEF CallInv, TableInv
<1> QED
  BY <1>4, <1>5, <1>6, <1>7 DEF TableStep, TableInv

\* Case 3A forgets nobody, and the contact is tried again.
LEMMA SplitStep ==
    ASSUME TableInv, NEW c \in Contact, SplitBucket(c)
    PROVE  TableStep
<1> DEFINE p == LeafOf(c)
<1>1. /\ inserting' = inserting /\ heard' = heard /\ joined' = joined
      /\ p = OurLeaf /\ Len(p) < Width /\ buckets' = SplitAt(p) /\ TreeInv
  BY DEF SplitBucket, Splits, TableInv
<1> HIDE DEF p
<1>2. /\ TreeInv' /\ Known \subseteq Known'
      /\ \A d \in Contact : RefusedAtLeaf(d) => RefusedAtLeaf(d)'
  BY <1>1, Split
<1>3. NeighboursKept'
  BY <1>1, <1>2, Kept
<1>4. CallInv'
  BY <1>1 DEF CallInv, TableInv
<1> QED
  BY <1>2, <1>3, <1>4 DEF TableStep, TableInv

\* Case 3B refuses the contact in a full bucket that is not ours.
LEMMA ForgetStep ==
    ASSUME TableInv, NEW c \in Contact, Forget(c)
    PROVE  TableStep
<1>1. /\ inserting = c /\ inserting' = None
      /\ heard' = heard /\ joined' = joined /\ buckets' = buckets
      /\ is_full(buckets[LeafOf(c)]) /\ LeafOf(c) # OurLeaf
  BY DEF Forget, Splits
<1>2. /\ TreeInv' /\ Known' = Known
      /\ \A d : RefusedAtLeaf(d)' <=> RefusedAtLeaf(d)
  BY <1>1, SameTree DEF TableInv
<1>3. NeighboursKept'
  <2>1. RefusedAtLeaf(c)
    BY <1>1 DEF RefusedAtLeaf
  <2> QED
    BY <1>1, <1>2, <2>1, Kept
<1>4. CallInv'
  BY <1>1 DEF CallInv, TableInv
<1> QED
  BY <1>2, <1>3, <1>4 DEF TableStep, TableInv

\* Only a full bucket that is not ours loses a contact to the bootstrap node.
LEMMA BootstrapStep ==
    ASSUME TableInv, NEW c \in Contact, BootstrapEnqueue(c)
    PROVE  TableStep
<1> DEFINE p == LeafOf(c)
<1>1. /\ inserting = None /\ inserting' = None /\ heard' = heard
      /\ ~joined /\ joined' = TRUE /\ c \in heard
  BY DEF BootstrapEnqueue
<1>2. PICK b \in enqueue(buckets[p], c) : buckets' = [buckets EXCEPT ![p] = b]
  BY DEF BootstrapEnqueue
<1>3. /\ p \in DOMAIN buckets /\ GoodBucket(p, buckets[p]) /\ Follows(p, IdOf[c])
      /\ TreeInv
  BY AtLeaf DEF TableInv
<1>4. c \in Known \/ RefusedAtLeaf(c)
  BY <1>1, TableAssumption DEF TableInv, NeighboursKept, RefusedAtLeaf
<1>5. KnownAtLeaf(c) \/ RefusedAtLeaf(c)
  BY <1>3, <1>4, KnownAt DEF KnownIsAtLeaf
<1>6. Takes(p, buckets[p], c, b)
  <2> HIDE DEF p
  <2> QED
    BY <1>2, <1>3, Enqueued
<1>7. /\ TreeInv' /\ OurLeaf' = OurLeaf /\ \A d : LeafOf(d)' = LeafOf(d)
      /\ \A q \in DOMAIN buckets : buckets'[q] = IF q = p THEN b ELSE buckets[q]
  <2> HIDE DEF p
  <2> QED
    BY <1>2, <1>3, <1>6, OneBucket DEF Takes
<1>8. CallInv'
  BY <1>1 DEF CallInv, TableInv
<1>9. NeighboursKept'
  <2>1. CASE KnownAtLeaf(c)
    <3>1. b = buckets[p]
      BY <1>6, <2>1 DEF Takes, KnownAtLeaf, Names, exists
    <3>2. Known \subseteq Known' /\ \A d \in Contact : RefusedAtLeaf(d) => RefusedAtLeaf(d)'
      BY <1>2, <1>3, <1>6, <3>1, Grow DEF Takes
    <3> QED
      BY <1>1, <3>2, Kept
  <2>2. CASE RefusedAtLeaf(c)
    <3>1. is_full(buckets[p]) /\ p # OurLeaf /\ is_full(b)
      BY <1>6, <2>2 DEF Takes, RefusedAtLeaf
    <3>2. ASSUME NEW d \in heard
          PROVE  d \in Known' \/ RefusedAtLeaf(d)'
      <4>1. d \in Contact /\ (d \in Known \/ RefusedAtLeaf(d))
        BY <1>1, TableAssumption DEF TableInv, CallInv, NeighboursKept, RefusedAtLeaf
      <4>2. LeafOf(d) \in DOMAIN buckets
        BY <1>3, <4>1, AtLeaf
      <4>3. CASE LeafOf(d) = p
        BY <1>7, <3>1, <4>2, <4>3 DEF RefusedAtLeaf, is_full
      <4>4. CASE LeafOf(d) # p
        <5>1. buckets'[LeafOf(d)'] = buckets[LeafOf(d)]
          BY <1>7, <4>2, <4>4
        <5>2. KnownAtLeaf(d) => KnownAtLeaf(d)'
          BY <5>1 DEF KnownAtLeaf
        <5>3. RefusedAtLeaf(d) => RefusedAtLeaf(d)'
          BY <1>7, <5>1 DEF RefusedAtLeaf, is_full
        <5> QED
          BY <1>3, <1>7, <4>1, <5>2, <5>3, KnownAt, KnownAtNext DEF KnownIsAtLeaf
      <4> QED
        BY <4>3, <4>4
    <3> QED
      BY <1>1, <3>2 DEF NeighboursKept, RefusedAtLeaf
  <2> QED
    BY <1>5, <2>1, <2>2
<1> QED
  BY <1>1, <1>7, <1>8, <1>9 DEF TableStep, TableInv

\* A timeout changes no bucket's contacts.
LEMMA TimeoutStep ==
    ASSUME TableInv, NEW c \in Contact, ContactTimeout(c)
    PROVE  TableStep
<1> DEFINE p == LeafOf(c)
           b == {IF Lockable(c, r) THEN lock(r) ELSE r : r \in buckets[p]}
<1>1. /\ inserting' = inserting /\ heard' = heard /\ joined' = joined
      /\ buckets' = [buckets EXCEPT ![p] = b]
  BY DEF ContactTimeout
<1>2. p \in DOMAIN buckets /\ GoodBucket(p, buckets[p]) /\ TreeInv
  BY AtLeaf DEF TableInv
<1>3. GoodBucket(p, b) /\ Names(b) = Names(buckets[p])
  BY <1>2, Locked
<1> HIDE DEF p, b
<1>4. /\ TreeInv' /\ Known \subseteq Known'
      /\ \A d \in Contact : RefusedAtLeaf(d) => RefusedAtLeaf(d)'
  BY <1>1, <1>2, <1>3, Grow
<1>5. NeighboursKept'
  BY <1>1, <1>4, Kept
<1>6. CallInv'
  BY <1>1 DEF CallInv, TableInv
<1> QED
  BY <1>4, <1>5, <1>6 DEF TableStep, TableInv

\* Nor does the end of a lock.
LEMMA ExpiresStep ==
    ASSUME TableInv, LockExpires
    PROVE  TableStep
<1>1. inserting' = inserting /\ heard' = heard /\ joined' = joined /\ TreeInv
  BY DEF LockExpires, TableInv
<1>2. PICK p \in DOMAIN buckets : \E r \in buckets[p] :
         /\ Expires(r)
         /\ buckets' = [buckets EXCEPT ![p] = (@ \ {r}) \cup {[r EXCEPT !.locked = FALSE]}]
  BY DEF LockExpires
<1>3. PICK r \in buckets[p] :
         /\ Expires(r)
         /\ buckets' = [buckets EXCEPT ![p] = (@ \ {r}) \cup {[r EXCEPT !.locked = FALSE]}]
  BY <1>2
<1> DEFINE b == (buckets[p] \ {r}) \cup {[r EXCEPT !.locked = FALSE]}
<1>4. GoodBucket(p, buckets[p]) /\ buckets' = [buckets EXCEPT ![p] = b]
  BY <1>1, <1>3 DEF TreeInv
<1>5. GoodBucket(p, b) /\ Names(b) = Names(buckets[p])
  BY <1>3, <1>4, Unlocked
<1> HIDE DEF b
<1>6. /\ TreeInv' /\ Known \subseteq Known'
      /\ \A d \in Contact : RefusedAtLeaf(d) => RefusedAtLeaf(d)'
  BY <1>1, <1>4, <1>5, Grow
<1>7. NeighboursKept'
  BY <1>1, <1>6, Kept
<1>8. CallInv'
  BY <1>1 DEF CallInv, TableInv
<1> QED
  BY <1>6, <1>7, <1>8 DEF TableStep, TableInv

\* Every step keeps the invariant, and loses contacts to bootstrap alone.
LEMMA NextStep ==
    ASSUME TableInv, [TableNext]_tableVars
    PROVE  TableInv' /\ [Known \subseteq Known' \/ (~joined /\ joined')]_tableVars
<1>1. CASE TableNext
  <2>1. TableStep
    BY <1>1, ReceiveStep, RefreshStep, InsertStep, SplitStep, ForgetStep, BootstrapStep,
       TimeoutStep, ExpiresStep DEF TableNext, routing_table_insert
  <2> QED
    BY <2>1 DEF TableStep
<1>2. CASE UNCHANGED tableVars
  <2>1. /\ buckets' = buckets /\ inserting' = inserting /\ heard' = heard
        /\ joined' = joined
    BY <1>2 DEF tableVars
  <2>2. /\ TreeInv' /\ Known' = Known
        /\ \A d : RefusedAtLeaf(d)' <=> RefusedAtLeaf(d)
    BY <2>1, SameTree DEF TableInv
  <2>3. NeighboursKept'
    BY <2>1, <2>2, Kept
  <2>4. CallInv'
    BY <2>1 DEF TableInv, CallInv
  <2> QED
    BY <1>2, <2>2, <2>3, <2>4 DEF TableInv
<1> QED
  BY <1>1, <1>2

\* A contact has one Record in the whole tree: in one bucket by Unique, and in
\* two buckets none, since both would be the leaf of its ID.
LEMMA UniqueRecords == TableInv => OneRecord
<1> SUFFICES ASSUME TableInv, NEW r \in Records, NEW s \in Records, r.node = s.node
             PROVE  r = s
  BY DEF OneRecord
<1>1. PICK p \in DOMAIN buckets : r \in buckets[p]
  BY DEF Records
<1>2. PICK q \in DOMAIN buckets : s \in buckets[q]
  BY DEF Records
<1>3. /\ GoodBucket(p, buckets[p]) /\ GoodBucket(q, buckets[q]) /\ TreeInv
  BY DEF TableInv, TreeInv
<1>4. r.node \in Contact /\ Follows(p, IdOf[r.node]) /\ Follows(q, IdOf[r.node])
  BY <1>1, <1>2, <1>3 DEF GoodBucket, Record
<1>5. p = q
  BY <1>3, <1>4, AtLeaf
<1> QED
  BY <1>1, <1>2, <1>3, <1>5 DEF GoodBucket, Unique

-----------------------------------------------------------------------------
\* TableInv holds in every state of every table.
THEOREM TableInvariant == TableSpec => []TableInv
<1>1. TableInit => TableInv
  BY InitInv
<1>2. TableInv /\ [TableNext]_tableVars => TableInv'
  BY NextStep
<1> QED
  BY <1>1, <1>2, PTL DEF TableSpec

\* The table's variables keep their types.
THEOREM TableTyped == TableSpec => []TableTypeOK
<1>1. TableInv => TableTypeOK
  BY DEF TableInv, TreeInv, CallInv, TableTypeOK
<1> QED
  BY <1>1, TableInvariant, PTL

\* However often the tree was split, every walk down it ends in one leaf.
THEOREM LeavesPartition == TableSpec => []OneLeaf
<1>1. TableInv => OneLeaf
  BY DEF TableInv, TreeInv
<1> QED
  BY <1>1, TableInvariant, PTL

\* The splits follow our own ID.
THEOREM SplitsFollowSelf == TableSpec => []OwnPath
<1>1. TableInv => OwnPath
  BY DEF TableInv, TreeInv
<1> QED
  BY <1>1, TableInvariant, PTL

\* A contact's Record is where the walk for its ID ends.
THEOREM RecordsPlaced == TableSpec => []Placed
<1>1. TableInv => Placed
  BY DEF TableInv, TreeInv, GoodBucket, Placed
<1> QED
  BY <1>1, TableInvariant, PTL

\* A contact has one Record.
THEOREM RecordsUnique == TableSpec => []OneRecord
BY UniqueRecords, TableInvariant, PTL

\* No bucket outgrows K_SIZE: not by refreshing, splitting, or bootstrap.
THEOREM BucketsBounded == TableSpec => []AtMostK
<1>1. TableInv => AtMostK
  BY DEF TableInv, TreeInv, GoodBucket, AtMostK
<1> QED
  BY <1>1, TableInvariant, PTL

\* A Record is locked for ever after its last attempt.
THEOREM StaleLocked == TableSpec => []StaleIsLocked
<1>1. TableInv => StaleIsLocked
  BY DEF TableInv, TreeInv, GoodBucket, StaleIsLocked, Records
<1> QED
  BY <1>1, TableInvariant, PTL

\* This node is never locked in its own table.
THEOREM SelfNeverLocked == TableSpec => []SelfUsable
<1>1. TableInv => SelfUsable
  BY DEF TableInv, TreeInv, GoodBucket, SelfUsable, Records
<1> QED
  BY <1>1, TableInvariant, PTL

\* Whoever was heard and is not known belongs to a full bucket that is not ours.
THEOREM NeighbourhoodKept == TableSpec => []NeighboursKept
<1>1. TableInv => NeighboursKept
  BY DEF TableInv
<1> QED
  BY <1>1, TableInvariant, PTL

\* No step but bootstrap's takes a contact out of the table.
THEOREM NoContactLost == TableSpec => ContactsKept
<1>1. TableInv /\ [TableNext]_tableVars => [Known \subseteq Known' \/ (~joined /\ joined')]_tableVars
  BY NextStep
<1> QED
  BY <1>1, TableInvariant, PTL DEF TableSpec, ContactsKept

-----------------------------------------------------------------------------
\* Distances: what the modules that search the table need of Nearer.

\* Every set of numbers has a least one.
LEMMA Least ==
    ASSUME NEW T \in SUBSET Nat, T # {}
    PROVE  \E m \in T : \A n \in T : m <= n
<1>1. PICK m \in T : \A n \in T : <<n, m>> \notin OpToRel(<, Nat)
  BY WFMin, NatLessThanWellFounded
<1>2. \A n \in T : ~(n < m)
  BY <1>1 DEF OpToRel
<1> QED
  BY <1>2

\* Every finite set has a least element in a strict order.
LEMMA FiniteLeast ==
    ASSUME NEW S, IsFiniteSet(S), S # {}, NEW R,
           \A x \in S : <<x, x>> \notin R,
           \A x, y, z \in S : <<x, y>> \in R /\ <<y, z>> \in R => <<x, z>> \in R
    PROVE  \E x \in S : \A y \in S : <<y, x>> \notin R
<1> DEFINE Below(x) == {y \in S : <<y, x>> \in R}
           T == {n \in Nat : \E x \in S : n = Cardinality(Below(x))}
<1>1. ASSUME NEW x \in S
      PROVE  IsFiniteSet(Below(x)) /\ Cardinality(Below(x)) \in Nat
  BY FS_Subset, FS_CardinalityType
<1>2. ASSUME NEW x \in S, NEW y \in S, <<y, x>> \in R
      PROVE  Cardinality(Below(y)) < Cardinality(Below(x))
  <2>1. Below(y) \subseteq Below(x)
    BY <1>2
  <2>2. y \in Below(x) /\ y \notin Below(y)
    BY <1>2
  <2>3. IsFiniteSet(Below(x)) /\ Cardinality(Below(x)) \in Nat /\ Cardinality(Below(y)) \in Nat
    BY <1>1
  <2> HIDE DEF Below
  <2>4. /\ Cardinality(Below(y)) <= Cardinality(Below(x))
        /\ Cardinality(Below(y)) # Cardinality(Below(x))
    BY <2>1, <2>2, <2>3, FS_Subset
  <2> QED
    BY <2>3, <2>4
<1> HIDE DEF Below
<1>3. T \in SUBSET Nat /\ T # {}
  BY <1>1
<1>4. PICK m \in T : \A n \in T : m <= n
  <2> HIDE DEF T
  <2> QED
    BY <1>3, Least
<1>5. PICK x \in S : m = Cardinality(Below(x))
  OBVIOUS
<1>6. ASSUME NEW y \in S, <<y, x>> \in R
      PROVE  FALSE
  <2>1. Cardinality(Below(y)) \in T /\ Cardinality(Below(x)) \in Nat
    BY <1>1
  <2>2. Cardinality(Below(y)) < Cardinality(Below(x))
    BY <1>2, <1>6
  <2>3. Cardinality(Below(x)) <= Cardinality(Below(y))
    BY <1>4, <1>5, <2>1
  <2> QED
    BY <1>1, <2>2, <2>3
<1> QED
  BY <1>6

\* Nearer is a strict order,
LEMMA NearerOrder ==
    ASSUME NEW key \in Id
    PROVE  /\ \A x \in Id : ~Nearer(x, x, key)
           /\ \A x, y, z \in Id :
                 Nearer(x, y, key) /\ Nearer(y, z, key) => Nearer(x, z, key)
<1>1. \A x \in Id : ~Nearer(x, x, key)
  BY DEF Nearer
<1>2. ASSUME NEW x \in Id, NEW y \in Id, NEW z \in Id,
             Nearer(x, y, key), Nearer(y, z, key)
      PROVE  Nearer(x, z, key)
  <2>1. PICK i \in 1 .. Width :
           /\ x[i] # y[i] /\ x[i] = key[i]
           /\ \A j \in i + 1 .. Width : x[j] = y[j]
    BY <1>2 DEF Nearer
  <2>2. PICK k \in 1 .. Width :
           /\ y[k] # z[k] /\ y[k] = key[k]
           /\ \A j \in k + 1 .. Width : y[j] = z[j]
    BY <1>2 DEF Nearer
  <2>3. Width \in Nat
    BY TableAssumption
  <2>4. CASE i < k
    <3>1. x[k] # z[k] /\ x[k] = key[k] /\ \A j \in k + 1 .. Width : x[j] = z[j]
      BY <2>1, <2>2, <2>3, <2>4
    <3> QED
      BY <3>1 DEF Nearer
  <2>5. CASE k < i
    <3>1. x[i] # z[i] /\ x[i] = key[i] /\ \A j \in i + 1 .. Width : x[j] = z[j]
      BY <2>1, <2>2, <2>3, <2>5
    <3> QED
      BY <3>1 DEF Nearer
  <2>6. i # k
    BY <2>1, <2>2
  <2> QED
    BY <2>3, <2>4, <2>5, <2>6
<1> QED
  BY <1>1, <1>2

\* and a total one: the highest bit in which two IDs differ decides.
LEMMA NearerTotal ==
    ASSUME NEW key \in Id, NEW x \in Id, NEW y \in Id, x # y
    PROVE  Nearer(x, y, key) \/ Nearer(y, x, key)
<1> DEFINE T == {n \in 0 .. Width : Width - n \in 1 .. Width /\ x[Width - n] # y[Width - n]}
<1>1. Width \in Nat
  BY TableAssumption
<1>2. PICK i \in 1 .. Width : x[i] # y[i]
  <2>1. x = [i \in 1 .. Width |-> x[i]] /\ y = [i \in 1 .. Width |-> y[i]]
    BY DEF Id
  <2> QED
    BY <2>1
<1>3. Width - i \in T
  BY <1>1, <1>2
<1>4. T \in SUBSET Nat /\ T # {}
  <2>1. 0 .. Width \subseteq Nat
    BY <1>1
  <2> QED
    BY <1>3, <2>1
<1>5. PICK m \in T : \A n \in T : m <= n
  <2> HIDE DEF T
  <2> QED
    BY <1>4, Least
<1> DEFINE k == Width - m
<1>6. k \in 1 .. Width /\ x[k] # y[k]
  OBVIOUS
<1>7. ASSUME NEW j \in k + 1 .. Width PROVE x[j] = y[j]
  <2>1. Width - j \in 0 .. Width /\ Width - (Width - j) = j /\ Width - j < m /\ j \in 1 .. Width
    BY <1>1
  <2>2. Width - j \notin T
    BY <1>1, <1>5, <2>1
  <2> QED
    BY <2>1, <2>2
<1>8. x[k] \in {0, 1} /\ y[k] \in {0, 1} /\ key[k] \in {0, 1}
  BY <1>6 DEF Id
<1> QED
  BY <1>6, <1>7, <1>8 DEF Nearer
=============================================================================
