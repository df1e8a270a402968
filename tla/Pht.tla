-------------------------------- MODULE Pht --------------------------------
(***************************************************************************)
(* The prefix hash tree (src/src/pht): a binary trie over the integral     *)
(* parts of the keys, whose nodes live in the replicated database under    *)
(* the hash of their label.  Several clients run insert, delete and        *)
(* range_query_2d on it.                                                   *)
(*                                                                         *)
(* Every operation is a sequence of database reads and writes with an      *)
(* await at each: one access, with the computation up to the next one, is  *)
(* one action, and the accesses of different clients interleave.  The      *)
(* database is the one Db promises: an access takes effect at one instant  *)
(* (what Pbft really gives is the subject of module Pbft).                 *)
(*                                                                         *)
(* A label, and the integral part of a key, is a sequence of bits, high    *)
(* order bit first.  The data of a node is the set of its keys: the values *)
(* stored under them are truthy and play no part.                          *)
(***************************************************************************)
EXTENDS Naturals, Sequences, FiniteSets

CONSTANTS
    BIT_DOMAIN,   \* bits of the integral part of a key
    B,            \* block size: pairs in a leaf
    Client,       \* processes that operate on the trie
    Key,          \* the keys: records of integral and meta
    Query,        \* the range queries: records of min and max
    OpsOf,        \* [Client -> which of "insert", "delete", "range" it calls]
    MaxCalls,     \* bound: [Client -> its calls]
    MaxCrashed,   \* bound: clients that stop in the middle of a call
    Rooted,       \* does the trie exist at the start?
    None,         \* null
    Stray         \* the database key of the label "[object Object]"

BitStrings(n) == UNION {[1 .. i -> {0, 1}] : i \in 0 .. n}

\* The value of a bit string (Bigboy.from_base2_str).
ToInt(b) ==
    LET v[i \in 0 .. Len(b)] == IF i = 0 THEN 0 ELSE 2 * v[i - 1] + b[i]
    IN  v[Len(b)]

ASSUME ConstantsAssumption ==
    /\ BIT_DOMAIN \in Nat \ {0} /\ BIT_DOMAIN % 2 = 0
    /\ B \in Nat \ {0}
    /\ \A k \in Key : k.integral \in [1 .. BIT_DOMAIN -> {0, 1}]
    /\ \A q \in Query : /\ q.min \in [1 .. BIT_DOMAIN -> {0, 1}]
                        /\ q.max \in [1 .. BIT_DOMAIN -> {0, 1}]
                        /\ ToInt(q.min) < ToInt(q.max)
    /\ OpsOf \in [Client -> SUBSET {"insert", "delete", "range"}]
    /\ Rooted \in BOOLEAN
    /\ MaxCalls \in [Client -> Nat] /\ MaxCrashed \in Nat

VARIABLES
    db,       \* [Label and Stray -> Node or None]
    pc,       \* [Client -> the access that comes next]
    call,     \* [Client -> its operation]
    frame,    \* [Client -> its local variables]
    out,      \* [Client -> the writes it still makes, in order]
    answer,   \* [Client -> what its last range query returned]
    stopped,  \* clients that stopped
    \* history
    calls,    \* [Client -> calls made]
    kept,     \* keys inserted, and not deleted since
    gone,     \* keys deleted, and not inserted since
    wanted,   \* [Client -> keys kept since its range query began]
    unwanted  \* [Client -> keys gone since its range query began]

vars == <<db, pc, call, frame, out, answer, stopped, calls, kept, gone, wanted,
          unwanted>>

-----------------------------------------------------------------------------
\* Labels and nodes

\* With more than B keys on one integral, a leaf is one bit longer than a key.
Label == BitStrings(BIT_DOMAIN + 1)

Prefix(s, n) == IF n < Len(s) THEN SubSeq(s, 1, n) ELSE s

get_lcp(S) ==
    LET s == CHOOSE s \in S : TRUE
        n == CHOOSE n \in 0 .. Len(s) :
                /\ \A t \in S : n <= Len(t) /\ Prefix(t, n) = Prefix(s, n)
                /\ n = Len(s) \/ \E t \in S : Len(t) = n \/ t[n + 1] # s[n + 1]
    IN  Prefix(s, n)

get_sibling_label(node) ==
    IF node.label = <<>> THEN None
    ELSE [node.label EXCEPT ![Len(node.label)] = 1 - @]

get_parent_label(node) == Prefix(node.label, Len(node.label) - 1)

LastBit(node) == node.label[Len(node.label)]

\* child_0 and child_1 are null, or the labels one bit longer.
LeafNode(label) ==
    [label |-> label, is_leaf |-> TRUE, l_ptr |-> None, r_ptr |-> None, data |-> {}]

InternalNode(label) == [LeafNode(label) EXCEPT !.is_leaf = FALSE]

size(node) == Cardinality(node.data)

\* Mutants of Fits: a full leaf takes one more pair; a leaf is full one pair
\* early.
Fits_OffByOne(leaf) == size(leaf) <= B

Fits_Early(leaf) == size(leaf) + 1 < B

\* The insertion does not exceed the block size.
Fits(leaf) == size(leaf) < B

IsLeaf(node) == node # None /\ node.is_leaf

dht_lookup(label) == IF label = None THEN None ELSE db[label]

\* A database write: db.write(get_label_hash(at), node).
Put(at, node) == [at |-> at, node |-> node]

Publish(node) == Put(node.label, node)

-----------------------------------------------------------------------------
\* What _do_split_insert publishes: at every depth from the leaf's to that of
\* the longest common prefix, two children and then their parent.  Only the
\* last children get the pairs.

\* The 0 or 1 child that takes its outer pointer from the node split.
Child(node, bit) ==
    [LeafNode(Append(node.label, bit)) EXCEPT
        !.l_ptr = IF bit = 0 THEN node.l_ptr ELSE Append(node.label, 0),
        !.r_ptr = IF bit = 1 THEN node.r_ptr ELSE Append(node.label, 1)]

\* Mutant of Goes: the bit before the one that tells the keys apart.
Goes_OffByOne(key, n, bit) == IF n > 0 THEN key.integral[n] = bit ELSE bit = 1

\* A key that ends with the common prefix goes to the 1 child.
Goes(key, n, bit) == IF n < Len(key.integral) THEN key.integral[n + 1] = bit ELSE bit = 1

\* Mutants of _do_split_insert, for splits of one level: the new parent is
\* published before its children; the children get their pairs after it.
_do_split_insert_ParentFirst(leaf, pairs) ==
    LET Kid(bit) == [Child(leaf, bit) EXCEPT
                        !.data = {k \in pairs : Goes(k, Len(leaf.label), bit)}]
    IN  <<Publish(InternalNode(leaf.label)), Publish(Kid(0)), Publish(Kid(1))>>

_do_split_insert_PairsLast(leaf, pairs) ==
    LET Kid(bit) == [Child(leaf, bit) EXCEPT
                        !.data = {k \in pairs : Goes(k, Len(leaf.label), bit)}]
    IN  <<Publish(Child(leaf, 0)), Publish(Child(leaf, 1)),
          Publish(InternalNode(leaf.label)), Publish(Kid(0)), Publish(Kid(1))>>

\* The nodes it splits, by depth.
Path(leaf, lcp) ==
    LET at[d \in Len(leaf.label) .. Len(lcp)] ==
            IF d = Len(leaf.label) THEN leaf ELSE Child(at[d - 1], lcp[d])
    IN  at

\* Mutant of _do_split_insert: an empty child is not published.
_do_split_insert_NoEmpty(leaf, pairs) ==
    LET lcp   == get_lcp({k.integral : k \in pairs})
        first == Len(leaf.label)
        at    == Path(leaf, lcp)
        Kid(d, bit) ==
            [Child(at[d], bit) EXCEPT
                !.data = IF d = Len(lcp) THEN {k \in pairs : Goes(k, d, bit)} ELSE {}]
        all == [i \in 1 .. 3 * (Len(lcp) - first + 1) |->
                   LET d == first + (i - 1) \div 3
                   IN  CASE i % 3 = 1 -> Publish(Kid(d, 0))
                         [] i % 3 = 2 -> Publish(Kid(d, 1))
                         [] i % 3 = 0 -> Publish(InternalNode(at[d].label))]
        Empty(w) == w.node.is_leaf /\ w.node.data = {}
    IN  SelectSeq(all, LAMBDA w : ~Empty(w))

_do_split_insert(leaf, pairs) ==
    LET lcp   == get_lcp({k.integral : k \in pairs})
        first == Len(leaf.label)
        at    == Path(leaf, lcp)
        Kid(d, bit) ==
            [Child(at[d], bit) EXCEPT
                !.data = IF d = Len(lcp) THEN {k \in pairs : Goes(k, d, bit)} ELSE {}]
    IN  [i \in 1 .. 3 * (Len(lcp) - first + 1) |->
            LET d == first + (i - 1) \div 3
            IN  CASE i % 3 = 1 -> Publish(Kid(d, 0))
                  [] i % 3 = 2 -> Publish(Kid(d, 1))
                  [] i % 3 = 0 -> Publish(InternalNode(at[d].label))]

-----------------------------------------------------------------------------
\* The plane: morton_invert_2d, for a string of fewer bits padded on the left.

Padded(b) ==
    LET pad == BIT_DOMAIN - Len(b)
    IN  [i \in 1 .. BIT_DOMAIN |-> IF i <= pad THEN 0 ELSE b[i - pad]]

X(b) == ToInt([i \in 1 .. BIT_DOMAIN \div 2 |-> Padded(b)[2 * i]])
Y(b) == ToInt([i \in 1 .. BIT_DOMAIN \div 2 |-> Padded(b)[2 * i - 1]])

\* Does the query's rectangle contain the point of the key?
InRange(key, q) ==
    /\ X(q.min) <= X(key.integral) /\ X(key.integral) < X(q.max)
    /\ Y(q.min) <= Y(key.integral) /\ Y(key.integral) < Y(q.max)

\* Mutant of Visits: the subtree at the anchor just below the maximum is left out.
Visits_OffByOne(label, q) == X(label) + 1 < X(q.max) /\ Y(label) + 1 < Y(q.max)

\* The traversal descends to a subtree whose anchor, the value of its label, is
\* below the query's maximum.
Visits(label, q) == X(label) < X(q.max) /\ Y(label) < Y(q.max)

-----------------------------------------------------------------------------
EmptyFrame ==
    [str |-> <<>>, p |-> 0, r |-> 0, i |-> 0, leaf |-> None, sib |-> None,
     parent |-> None, l_nbr |-> None, r_nbr |-> None, pairs |-> {},
     merge_on |-> FALSE, todo |-> <<>>, data |-> {}]

Call ==
    [type : {"insert", "delete"}, key : Key] \cup [type : {"range"}, query : Query]

\* A client starts with Pht.init(true).
Init ==
    /\ db = [x \in Label \cup {Stray} |->
                IF Rooted /\ x = <<>> THEN LeafNode(<<>>) ELSE None]
    /\ pc = [c \in Client |-> "init"]
    /\ call = [c \in Client |-> None]
    /\ frame = [c \in Client |-> EmptyFrame]
    /\ out = [c \in Client |-> <<>>]
    /\ answer = [c \in Client |-> None]
    /\ calls = [c \in Client |-> 0]
    /\ stopped = {}
    /\ kept = {}
    /\ gone = Key
    /\ wanted = [c \in Client |-> {}]
    /\ unwanted = [c \in Client |-> {}]

\* How an action of the client ends: at the next access of the database,
\* with writes to make, with an exception, or with the call's return.
Goto(c, access, f) ==
    /\ pc' = [pc EXCEPT ![c] = access]
    /\ frame' = [frame EXCEPT ![c] = f]
    /\ UNCHANGED <<out, answer, kept, gone>>

Writes(c, seq, f) ==
    /\ pc' = [pc EXCEPT ![c] = "write"]
    /\ frame' = [frame EXCEPT ![c] = f]
    /\ out' = [out EXCEPT ![c] = seq]
    /\ UNCHANGED <<answer, kept, gone>>

Fatal(c) == Goto(c, "fatal", EmptyFrame)

Return(c, result) ==
    /\ pc' = [pc EXCEPT ![c] = "idle"]
    /\ frame' = [frame EXCEPT ![c] = EmptyFrame]
    /\ out' = [out EXCEPT ![c] = <<>>]
    /\ answer' = [answer EXCEPT ![c] = result]
    /\ kept' = IF call[c] # None /\ call[c].type = "insert" THEN kept \cup {call[c].key} ELSE kept
    /\ gone' = IF call[c] # None /\ call[c].type = "delete" THEN gone \cup {call[c].key} ELSE gone

At(c, access) == pc[c] = access /\ c \notin stopped

Read == UNCHANGED <<db, call, calls, stopped, wanted, unwanted>>

-----------------------------------------------------------------------------
\* Pht.init(true)
InitTrie(c) ==
    /\ At(c, "init")
    /\ \/ dht_lookup(<<>>) # None /\ Return(c, None)
       \/ dht_lookup(<<>>) = None /\ Writes(c, <<Publish(LeafNode(<<>>))>>, EmptyFrame)
    /\ Read

\* A call; the key's meta is the caller's own (protocol.js:110), so no two
\* clients work on one key at the same time.
Begin(c) ==
    /\ At(c, "idle") \/ At(c, "fatal")
    /\ calls[c] < MaxCalls[c]
    /\ calls' = [calls EXCEPT ![c] = @ + 1]
    /\ \E m \in Call :
         /\ m.type \in OpsOf[c]
         /\ call' = [call EXCEPT ![c] = m]
         /\ \/ /\ m.type # "range"
               /\ \A e \in Client : pc[e] \notin {"init", "idle", "fatal"} /\ call[e] # None
                                        /\ call[e].type # "range" => call[e].key # m.key
               /\ pc' = [pc EXCEPT ![c] = "bin"]
               /\ frame' = [frame EXCEPT ![c] =
                               [EmptyFrame EXCEPT !.str = m.key.integral, !.r = BIT_DOMAIN]]
               /\ kept' = IF m.type = "delete" THEN kept \ {m.key} ELSE kept
               /\ gone' = IF m.type = "insert" THEN gone \ {m.key} ELSE gone
               /\ wanted' = [e \in Client |->
                                IF m.type = "delete" THEN wanted[e] \ {m.key} ELSE wanted[e]]
               /\ unwanted' = [e \in Client |->
                                IF m.type = "insert" THEN unwanted[e] \ {m.key} ELSE unwanted[e]]
            \/ /\ m.type = "range"
               /\ pc' = [pc EXCEPT ![c] = "start"]
               /\ frame' = [frame EXCEPT ![c] =
                               [EmptyFrame EXCEPT !.str = get_lcp({m.query.min, m.query.max}),
                                                  !.r = BIT_DOMAIN]]
               /\ wanted' = [wanted EXCEPT ![c] = {k \in kept : InRange(k, m.query)}]
               /\ unwanted' = [unwanted EXCEPT ![c] = gone]
               /\ UNCHANGED <<kept, gone>>
    /\ answer' = [answer EXCEPT ![c] = None]
    /\ UNCHANGED <<db, out, stopped>>

\* _do_range_query_2d at a node, with the subtrees still to visit and the data
\* found so far.
Traverse(c, node, todo, data) ==
    LET q     == call[c].query
        Below(label) == IF Visits(label, q) THEN <<label>> ELSE <<>>
        found == IF node.is_leaf THEN data \cup {k \in node.data : InRange(k, q)} ELSE data
        rest  == IF node.is_leaf THEN todo
                 ELSE Below(Append(node.label, 0)) \o Below(Append(node.label, 1)) \o todo
    IN  \/ rest = <<>> /\ Return(c, found)
        \/ rest # <<>> /\ Goto(c, "visit", [EmptyFrame EXCEPT !.todo = rest, !.data = found])

\* What insert, delete and range_query_2d do with the leaf full_search found.
Found(c, node) ==
    \/ /\ call[c].type = "insert"
       /\ LET key == call[c].key
          IN  \/ /\ key \in node.data \/ Fits(node)
                 /\ Writes(c, <<Publish([node EXCEPT !.data = @ \cup {key}])>>, EmptyFrame)
              \/ /\ key \notin node.data /\ ~Fits(node)
                 /\ Writes(c, _do_split_insert(node, node.data \cup {key}), EmptyFrame)
    \/ /\ call[c].type = "delete"
       /\ LET key == call[c].key
          IN  \/ key \notin node.data /\ Return(c, None)
              \/ /\ key \in node.data
                 /\ Goto(c, "sibling",
                         [EmptyFrame EXCEPT !.leaf = [node EXCEPT !.data = @ \ {key}]])
    \/ /\ call[c].type = "range"
       /\ Return(c, {k \in node.data : InRange(k, call[c].query)})

\* range_query_2d looks for the node of the common prefix first.
LookupStart(c) ==
    LET node == dht_lookup(frame[c].str)
    IN  /\ At(c, "start")
        /\ \/ node # None /\ Traverse(c, node, <<>>, {})
           \/ node = None /\ Goto(c, "bin", frame[c])
        /\ Read

\* Mutant of Narrowed: the lower end stays at the probe.
Narrowed_Stuck(f, q, node) ==
    IF node = None THEN [f EXCEPT !.r = q] ELSE [f EXCEPT !.p = q]

\* The rest of the interval after a probe that found no leaf.
Narrowed(f, q, node) ==
    IF node = None THEN [f EXCEPT !.r = q] ELSE [f EXCEPT !.p = q + 1]

\* One probe of lookup_bin; frame.r is one above its r.  The string is not
\* empty: the root is never removed, and range_query_2d finds it first.
LookupBin(c) ==
    LET f    == frame[c]
        q    == (f.p + f.r - 1) \div 2
        node == dht_lookup(Prefix(f.str, q))
        next == Narrowed(f, q, node)
    IN  /\ At(c, "bin")
        /\ \/ IsLeaf(node) /\ Found(c, node)
           \/ /\ ~IsLeaf(node)
              /\ \/ next.p < next.r /\ Goto(c, "bin", next)
                 \/ next.p >= next.r /\ Goto(c, "lin", next)
        /\ Read

\* One probe of lookup_lin, where full_search falls back to.
LookupLin(c) ==
    LET f    == frame[c]
        node == dht_lookup(Prefix(f.str, f.i))
    IN  /\ At(c, "lin")
        /\ \/ IsLeaf(node) /\ Found(c, node)
           \/ /\ ~IsLeaf(node)
              /\ \/ f.i + 1 < Len(f.str) /\ Goto(c, "lin", [f EXCEPT !.i = @ + 1])
                 \/ f.i + 1 >= Len(f.str) /\ Fatal(c)
        /\ Read

\* delete: a leaf and its sibling merge when both are leaves and their pairs
\* fit in one.
Merges(leaf, sib) == IsLeaf(sib) /\ size(leaf) + size(sib) <= B

ReadSibling(c) ==
    LET f   == frame[c]
        sib == dht_lookup(get_sibling_label(f.leaf))
    IN  /\ At(c, "sibling")
        /\ \/ ~Merges(f.leaf, sib) /\ Writes(c, <<Publish(f.leaf)>>, EmptyFrame)
           \/ /\ Merges(f.leaf, sib)
              /\ Goto(c, "parent", [f EXCEPT !.sib = sib, !.pairs = f.leaf.data \cup sib.data])
        /\ Read

\* _do_merge_delete reads parent, left and right neighbour, and the parent's
\* sibling.
ReadParent(c) ==
    LET f      == frame[c]
        parent == dht_lookup(get_parent_label(f.leaf))
    IN  /\ At(c, "parent")
        /\ \/ parent = None /\ Fatal(c)
           \/ /\ parent # None
              /\ Goto(c, "left", [f EXCEPT !.parent = [parent EXCEPT !.is_leaf = TRUE]])
        /\ Read

ReadLeft(c) ==
    LET f    == frame[c]
        node == IF LastBit(f.leaf) = 0 THEN f.leaf ELSE f.sib
    IN  /\ At(c, "left")
        /\ Goto(c, "right", [f EXCEPT !.l_nbr = dht_lookup(node.l_ptr)])
        /\ Read

ReadRight(c) ==
    LET f    == frame[c]
        node == IF LastBit(f.leaf) = 1 THEN f.leaf ELSE f.sib
    IN  /\ At(c, "right")
        /\ Goto(c, "cousin", [f EXCEPT !.r_nbr = dht_lookup(node.r_ptr)])
        /\ Read

LabelOf(node) == IF node = None THEN None ELSE node.label

\* Mutant of MergeWrites: the right neighbour goes to the parent's key.
MergeWrites_WrongKey(f, parent) ==
    <<Publish(parent), Put(f.leaf.label, None)>>
        \o (IF f.r_nbr = None THEN <<>>
            ELSE <<Put(parent.label, [f.r_nbr EXCEPT !.l_ptr = parent.label])>>)

\* What _do_merge_delete publishes: the right neighbour goes to the hash of
\* the node, not of its label (pht.js:266).
MergeWrites(f, parent) ==
    <<Publish(parent), Put(f.leaf.label, None)>>
        \o (IF f.l_nbr = None THEN <<>>
            ELSE <<Publish([f.l_nbr EXCEPT !.r_ptr = parent.label])>>)
        \o (IF f.r_nbr = None THEN <<>>
            ELSE <<Put(Stray, [f.r_nbr EXCEPT !.l_ptr = parent.label])>>)

ReadCousin(c) ==
    LET f      == frame[c]
        parent == [f.parent EXCEPT !.l_ptr = LabelOf(f.l_nbr), !.r_ptr = LabelOf(f.r_nbr)]
        sib    == dht_lookup(get_sibling_label(parent))
        climbs == sib # None /\ Cardinality(f.pairs) + size(sib) <= B
    IN  /\ At(c, "cousin")
        /\ \/ /\ ~climbs
              /\ Writes(c, MergeWrites(f, [parent EXCEPT !.data = @ \cup f.pairs]), EmptyFrame)
           \/ /\ climbs
              /\ Writes(c, MergeWrites(f, parent),
                        [EmptyFrame EXCEPT !.leaf = parent, !.sib = sib,
                                           !.pairs = f.pairs, !.merge_on = TRUE])
        /\ Read

\* The next write of the operation; a merge may go on at the parent.
Write(c) ==
    LET w == Head(out[c])
    IN  /\ At(c, "write")
        /\ db' = [db EXCEPT ![w.at] = w.node]
        /\ \/ Tail(out[c]) # <<>> /\ Writes(c, Tail(out[c]), frame[c])
           \/ /\ Tail(out[c]) = <<>> /\ frame[c].merge_on
              /\ pc' = [pc EXCEPT ![c] = "parent"]
              /\ frame' = [frame EXCEPT ![c].merge_on = FALSE]
              /\ out' = [out EXCEPT ![c] = <<>>]
              /\ UNCHANGED <<answer, kept, gone>>
           \/ Tail(out[c]) = <<>> /\ ~frame[c].merge_on /\ Return(c, None)
        /\ UNCHANGED <<call, calls, stopped, wanted, unwanted>>

\* The range query reads the next subtree on its way.  The anchors of labels
\* longer than BIT_DOMAIN are a RangeError.
Visit(c) ==
    LET f        == frame[c]
        node     == dht_lookup(Head(f.todo))
        proceeds == node # None /\ (node.is_leaf \/ Len(node.label) < BIT_DOMAIN)
    IN  /\ At(c, "visit")
        /\ \/ ~proceeds /\ Fatal(c)
           \/ proceeds /\ Traverse(c, node, Tail(f.todo), f.data)
        /\ Read

\* A client stops in the middle of a call.
Crash(c) ==
    /\ c \notin stopped
    /\ pc[c] \notin {"idle", "fatal"}
    /\ Cardinality(stopped) < MaxCrashed
    /\ stopped' = stopped \cup {c}
    /\ UNCHANGED <<db, pc, call, frame, out, answer, calls, kept, gone, wanted, unwanted>>

\* The next access of the client's operation.
Proceed(c) ==
    \/ InitTrie(c)
    \/ LookupStart(c)
    \/ LookupBin(c)
    \/ LookupLin(c)
    \/ ReadSibling(c)
    \/ ReadParent(c)
    \/ ReadLeft(c)
    \/ ReadRight(c)
    \/ ReadCousin(c)
    \/ Write(c)
    \/ Visit(c)

Next == \E c \in Client : Begin(c) \/ Proceed(c) \/ Crash(c)

Spec == Init /\ [][Next]_vars

-----------------------------------------------------------------------------
Node == [label : Label, is_leaf : BOOLEAN, l_ptr : Label \cup {None},
         r_ptr : Label \cup {None}, data : SUBSET Key]

ASSUME DistinctAssumption ==
    Stray \notin Label \cup {None} /\ None \notin Label \cup Call \cup Node

Access == {"init", "idle", "fatal", "start", "bin", "lin", "sibling", "parent",
           "left", "right", "cousin", "write", "visit"}

\* The database holds trie nodes, each under its own label.
TypeOK ==
    /\ db \in [Label \cup {Stray} -> Node \cup {None}]
    /\ \A x \in Label : db[x] # None => db[x].label = x
    /\ pc \in [Client -> Access]
    /\ \A c \in Client : out[c] # <<>> <=> pc[c] = "write"
    /\ calls \in [Client -> Nat]
    /\ \A c \in Client : calls[c] <= MaxCalls[c]
    /\ stopped \subseteq Client
    /\ kept \subseteq Key /\ gone \subseteq Key /\ kept \cap gone = {}

\* The leaf full_search finds for the string in the database as it is.
BinSearch(str) ==
    LET leaf[i \in (0 .. BIT_DOMAIN) \X (0 .. BIT_DOMAIN)] ==
            LET p    == i[1]
                r    == i[2]
                q    == (p + r - 1) \div 2
                node == db[Prefix(str, q)]
            IN  IF p >= r THEN None
                ELSE IF node = None THEN leaf[<<p, q>>]
                ELSE IF node.is_leaf THEN node ELSE leaf[<<q + 1, r>>]
    IN  leaf[<<0, BIT_DOMAIN>>]

LinSearch(str) ==
    LET hits == {i \in 0 .. Len(str) - 1 :
                    IsLeaf(db[Prefix(str, i)])}
    IN  IF hits = {} THEN None
        ELSE db[Prefix(str, CHOOSE i \in hits : \A j \in hits : i <= j)]

Search(str) == IF BinSearch(str) # None THEN BinSearch(str) ELSE LinSearch(str)

Quiet == \A c \in Client : pc[c] \in {"idle", "fatal"}

\* Every key whose insertion was completed, and that nobody deletes, is in the
\* leaf a search for it finds, at every moment, in the middle of other
\* clients' insertions and after a client stopped in the middle of one.
NeverLost ==
    \A k \in kept : Search(k.integral) # None /\ k \in Search(k.integral).data

\* The same when no operation is under way.
FoundAtRest == Quiet => NeverLost

\* A key whose deletion was completed, and that nobody inserts, is not found.
StaysDeleted ==
    Quiet => \A k \in gone :
                 Search(k.integral) # None => k \notin Search(k.integral).data

\* A merge happens between leaves: a leaf whose sibling is an internal node
\* does not merge (pht.js:368-371).
MergesLeavesOnly == \A c \in Client : pc[c] = "parent" => frame[c].sib.is_leaf

\* Nobody deletes.
NoDeletes == \A c \in Client : "delete" \notin OpsOf[c]

\* Of more than B keys, two differ in the first m bits.
FewWithin(m) ==
    \A S \in SUBSET Key :
        IsFiniteSet(S) /\ B < Cardinality(S) =>
            \E k, l \in S : \E i \in 1 .. m : k.integral[i] # l.integral[i]

\* A client that alone inserts, where nobody deletes, never finds the trie
\* corrupted (pht.js:206-212, 272-278, 503-509): splits, of however many levels,
\* leave a leaf for each of its searches and a node for each step of its
\* queries.  This is of a trie that exists when others start, and of keys that
\* differ before the last bit; with deletions it fails.
NeverCorrupted ==
    /\ NoDeletes
    /\ FewWithin(BIT_DOMAIN - 1)
    /\ Rooted \/ \A c, d \in Client : c = d
    => \A c \in Client :
           (\A d \in Client \ {c} : "insert" \notin OpsOf[d]) => pc[c] # "fatal"

\* Whatever is inserted and deleted, and however merges and what they leave
\* behind are split again, no node lies deeper than the bits that tell any
\* B + 1 keys apart: searches probe no deeper than BIT_DOMAIN - 1 (pht.js:99,
\* 178).
DepthBounded ==
    \A m \in 0 .. BIT_DOMAIN :
        FewWithin(m) => \A x \in Label : db[x] # None => Len(x) <= m

\* No leaf holds more than B pairs.
BlockSize ==
    \A x \in Label : IsLeaf(db[x]) => size(db[x]) <= B

\* The nodes form a trie: an internal node has both children, a leaf has none,
\* and every node but the root has an internal node above it.
Trie ==
    \A x \in Label :
        /\ db[x] # None /\ ~db[x].is_leaf =>
               db[Append(x, 0)] # None /\ db[Append(x, 1)] # None
        /\ db[x] # None /\ x # <<>> =>
               LET up == db[Prefix(x, Len(x) - 1)] IN up # None /\ ~up.is_leaf

TrieAtRest == Quiet => Trie

\* A range query returns every key in the rectangle that was in the trie all
\* the time it ran, and none that was out of it all that time.
RangeExact ==
    \A c \in Client : answer[c] # None =>
        /\ wanted[c] \subseteq answer[c]
        /\ answer[c] \cap unwanted[c] = {}

-----------------------------------------------------------------------------
\* Liveness.  A client that runs gets its answers from the database.
Fairness == \A c \in Client : WF_vars(Proceed(c))

FairSpec == Spec /\ Fairness

\* Every call returns, or throws, unless its client stops.
EveryCallReturns ==
    \A c \in Client :
        pc[c] \in {"start", "bin"} ~> (pc[c] \in {"idle", "fatal"} \/ c \in stopped)
=============================================================================
