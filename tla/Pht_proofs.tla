----------------------------- MODULE Pht_proofs -----------------------------
(***************************************************************************)
(* Theorems about Pht, for every set of clients, keys and queries, width   *)
(* of the keys and block size, and every interleaving and crash.           *)
(***************************************************************************)
EXTENDS Pht, FiniteSetTheorems, WellFoundedInduction, TLAPS

-----------------------------------------------------------------------------
\* Labels

\* A set of numbers that is not empty has a least one.
LEMMA Least ==
    ASSUME NEW S \in SUBSET Nat, S # {}
    PROVE  \E n \in S : \A m \in S : n <= m
<1>1. PICK n \in S : \A m \in S : <<m, n>> \notin OpToRel(<, Nat)
  BY WFMin, NatLessThanWellFounded
<1>2. \A m \in S : ~(m < n)
  BY <1>1 DEF OpToRel
<1> QED
  BY <1>2

\* A bit string is a sequence of bits.
LEMMA BitStringIsSeq ==
    ASSUME NEW n \in Nat, NEW s
    PROVE  s \in BitStrings(n) <=> s \in Seq({0, 1}) /\ Len(s) <= n
<1>1. ASSUME s \in BitStrings(n)
      PROVE  s \in Seq({0, 1}) /\ Len(s) <= n
  <2>1. PICK i \in 0 .. n : s \in [1 .. i -> {0, 1}]
    BY <1>1 DEF BitStrings
  <2> QED
    BY <2>1
<1>2. ASSUME s \in Seq({0, 1}), Len(s) <= n
      PROVE  s \in BitStrings(n)
  <2>1. Len(s) \in 0 .. n /\ s \in [1 .. Len(s) -> {0, 1}]
    BY <1>2
  <2> QED
    BY <2>1 DEF BitStrings
<1> QED
  BY <1>1, <1>2

\* The empty string has room in every bound.
LEMMA EmptyString ==
    ASSUME NEW n \in Nat
    PROVE  <<>> \in BitStrings(n) /\ Len(<<>>) = 0
<1>1. <<>> \in Seq({0, 1}) /\ Len(<<>>) = 0 /\ 0 <= n
  OBVIOUS
<1> QED
  BY <1>1, BitStringIsSeq

\* A string within a bound is within a larger one.
LEMMA LongerString ==
    ASSUME NEW n \in Nat, NEW m \in Nat, n <= m, NEW s \in BitStrings(n)
    PROVE  s \in BitStrings(m)
BY BitStringIsSeq

\* The first k bits.
LEMMA PrefixString ==
    ASSUME NEW n \in Nat, NEW s \in BitStrings(n), NEW k \in Nat
    PROVE  /\ Prefix(s, k) \in BitStrings(n)
           /\ Len(Prefix(s, k)) = IF k < Len(s) THEN k ELSE Len(s)
           /\ \A i \in 1 .. Len(Prefix(s, k)) : Prefix(s, k)[i] = s[i]
<1>1. s \in Seq({0, 1}) /\ Len(s) <= n
  BY BitStringIsSeq
<1>2. CASE k < Len(s)
  <2>1. Prefix(s, k) = SubSeq(s, 1, k)
    BY <1>2 DEF Prefix
  <2>2. /\ SubSeq(s, 1, k) \in Seq({0, 1}) /\ Len(SubSeq(s, 1, k)) = k
        /\ \A i \in 1 .. k : SubSeq(s, 1, k)[i] = s[i]
    BY <1>1, <1>2
  <2> DEFINE t == SubSeq(s, 1, k)
  <2>3. t \in Seq({0, 1}) /\ Len(t) = k /\ k <= n
    BY <1>1, <1>2, <2>2
  <2> HIDE DEF t
  <2>4. t \in BitStrings(n)
    BY <2>3, BitStringIsSeq
  <2> QED
    BY <1>2, <2>1, <2>2, <2>4 DEF t
<1>3. CASE ~(k < Len(s))
  BY <1>1, <1>3 DEF Prefix
<1> QED
  BY <1>2, <1>3

\* One more bit.
LEMMA AppendString ==
    ASSUME NEW n \in Nat, NEW s \in BitStrings(n), NEW b \in {0, 1}
    PROVE  /\ Append(s, b) \in BitStrings(n + 1)
           /\ Len(Append(s, b)) = Len(s) + 1
           /\ \A i \in 1 .. Len(s) : Append(s, b)[i] = s[i]
           /\ Append(s, b)[Len(s) + 1] = b
           /\ \A m \in Nat : Len(s) < m => Append(s, b) \in BitStrings(m)
<1>1. s \in Seq({0, 1}) /\ Len(s) <= n
  BY BitStringIsSeq
<1> DEFINE t == Append(s, b)
<1>2. /\ t \in Seq({0, 1}) /\ Len(t) = Len(s) + 1 /\ Len(s) \in Nat
      /\ \A i \in 1 .. Len(s) : t[i] = s[i]
      /\ t[Len(s) + 1] = b
  BY <1>1
<1> HIDE DEF t
<1>3. \A m \in Nat : Len(s) < m => t \in BitStrings(m)
  BY <1>2, BitStringIsSeq
<1>4. t \in BitStrings(n + 1)
  BY <1>1, <1>2, <1>3
<1> QED
  BY <1>2, <1>3, <1>4 DEF t

\* Bit strings of one length with the same bits are equal.
LEMMA SameString ==
    ASSUME NEW n \in Nat, NEW s \in BitStrings(n), NEW t \in BitStrings(n),
           Len(s) = Len(t), \A i \in 1 .. Len(s) : s[i] = t[i]
    PROVE  s = t
BY BitStringIsSeq

\* Do the bits of the label start the key's?
Under(s, x) == \A i \in 1 .. BIT_DOMAIN : i <= Len(x) => s[i] = x[i]

KeyString == [1 .. BIT_DOMAIN -> {0, 1}]

\* The two constants as the leaves below need them.
LEMMA WidthType ==
    BIT_DOMAIN \in Nat /\ BIT_DOMAIN >= 2 /\ B \in Nat /\ B >= 1
BY ConstantsAssumption

\* The bits of a key are a string of BIT_DOMAIN of them.
LEMMA KeyStrings ==
    ASSUME NEW s \in KeyString
    PROVE  s \in BitStrings(BIT_DOMAIN) /\ Len(s) = BIT_DOMAIN
BY WidthType DEF KeyString, BitStrings

\* A key lies under the prefixes of its bits, and under those of a label above it.
LEMMA UnderPrefix ==
    ASSUME NEW s \in KeyString, NEW k \in Nat
    PROVE  Under(s, Prefix(s, k))
<1>1. s \in BitStrings(BIT_DOMAIN)
  BY KeyStrings
<1>2. Prefix(s, k) \in BitStrings(BIT_DOMAIN)
  BY <1>1, PrefixString, WidthType
<1> QED
  BY <1>1, <1>2, PrefixString, WidthType, BitStringIsSeq DEF Under

\* A key under a label lies under each of its prefixes.
LEMMA UnderShorter ==
    ASSUME NEW s \in KeyString, NEW x \in Label, NEW k \in Nat, Under(s, x)
    PROVE  Under(s, Prefix(x, k))
<1>1. /\ Prefix(x, k) \in BitStrings(BIT_DOMAIN + 1)
      /\ Len(Prefix(x, k)) = IF k < Len(x) THEN k ELSE Len(x)
      /\ \A i \in 1 .. Len(Prefix(x, k)) : Prefix(x, k)[i] = x[i]
  BY PrefixString, WidthType DEF Label
<1>2. Len(Prefix(x, k)) \in Nat /\ Len(x) \in Nat
  BY <1>1, BitStringIsSeq, WidthType DEF Label
<1> QED
  BY <1>1, <1>2, WidthType DEF Under

-----------------------------------------------------------------------------
\* The longest common prefix: of a set of keys it is one, and there is none
\* longer: the keys that differ do so at the next bit.
LEMMA LcpProps ==
    ASSUME NEW S, S \subseteq KeyString, S # {}
    PROVE  LET l == get_lcp(S)
           IN  /\ l \in BitStrings(BIT_DOMAIN) /\ Len(l) \in 0 .. BIT_DOMAIN
               /\ \A t \in S : Under(t, l)
               /\ \/ Len(l) = BIT_DOMAIN /\ S = {l}
                  \/ /\ Len(l) < BIT_DOMAIN
                     /\ \E s, t \in S : s[Len(l) + 1] # t[Len(l) + 1]
<1> DEFINE s == CHOOSE s \in S : TRUE
           P(n) == /\ \A t \in S : n <= Len(t) /\ Prefix(t, n) = Prefix(s, n)
                   /\ n = Len(s) \/ \E t \in S : Len(t) = n \/ t[n + 1] # s[n + 1]
           N == CHOOSE n \in 0 .. Len(s) : P(n)
           Differ == {i \in Nat : i < BIT_DOMAIN /\ \E t \in S : t[i + 1] # s[i + 1]}
<1>1. s \in S /\ s \in KeyString
  OBVIOUS
<1>2. get_lcp(S) = Prefix(s, N)
  BY DEF get_lcp
<1> HIDE DEF s
<1>3. \A t \in S : t \in KeyString /\ t \in BitStrings(BIT_DOMAIN) /\ Len(t) = BIT_DOMAIN
  BY KeyStrings
<1>4. ASSUME NEW n \in 0 .. BIT_DOMAIN, NEW t \in S
      PROVE  /\ Prefix(t, n) \in BitStrings(BIT_DOMAIN)
             /\ Len(Prefix(t, n)) = n
             /\ \A i \in 1 .. n : Prefix(t, n)[i] = t[i]
  BY <1>3, PrefixString, WidthType
<1>5. ASSUME NEW n \in 0 .. BIT_DOMAIN, NEW t \in S, \A i \in 1 .. n : t[i] = s[i]
      PROVE  Prefix(t, n) = Prefix(s, n)
  BY <1>1, <1>4, <1>5, SameString, WidthType
<1>6. \E n \in 0 .. BIT_DOMAIN : P(n)
  <2>1. CASE Differ = {}
    <3>1. \A t \in S, i \in 1 .. BIT_DOMAIN : t[i] = s[i]
      <4> SUFFICES ASSUME NEW t \in S, NEW i \in 1 .. BIT_DOMAIN
                   PROVE  t[i] = s[i]
        OBVIOUS
      <4>1. i - 1 \in Nat /\ i - 1 < BIT_DOMAIN /\ (i - 1) + 1 = i
        BY WidthType
      <4> QED
        BY <2>1, <4>1
    <3>2. BIT_DOMAIN \in 0 .. BIT_DOMAIN
      BY WidthType
    <3>3. \A t \in S : BIT_DOMAIN <= Len(t) /\ Prefix(t, BIT_DOMAIN) = Prefix(s, BIT_DOMAIN)
      BY <1>3, <1>5, <3>1, <3>2, WidthType
    <3> QED
      BY <1>1, <1>3, <3>2, <3>3
  <2>2. CASE Differ # {}
    <3>1. PICK n \in Differ : \A m \in Differ : n <= m
      BY <2>2, Least
    <3>2. n \in Nat /\ n < BIT_DOMAIN /\ \E t \in S : t[n + 1] # s[n + 1]
      OBVIOUS
    <3>3. \A t \in S, i \in 1 .. n : t[i] = s[i]
      <4> SUFFICES ASSUME NEW t \in S, NEW i \in 1 .. n, t[i] # s[i]
                   PROVE  FALSE
        OBVIOUS
      <4>1. i - 1 \in Nat /\ i - 1 < n /\ (i - 1) + 1 = i /\ i - 1 < BIT_DOMAIN
        BY <3>2, WidthType
      <4>2. i - 1 \in Differ
        BY <4>1
      <4> QED
        BY <3>1, <3>2, <4>1, <4>2
    <3>4. n \in 0 .. BIT_DOMAIN
      BY <3>2, WidthType
    <3>5. \A t \in S : n <= Len(t) /\ Prefix(t, n) = Prefix(s, n)
      BY <1>3, <1>5, <3>2, <3>3, <3>4, WidthType
    <3> QED
      BY <3>2, <3>4, <3>5
  <2> QED
    BY <2>1, <2>2
<1>7. N \in 0 .. BIT_DOMAIN /\ P(N)
  BY <1>1, <1>3, <1>6
<1> HIDE DEF N
<1> DEFINE l == Prefix(s, N)
<1>8. l \in BitStrings(BIT_DOMAIN) /\ Len(l) = N /\ N \in 0 .. BIT_DOMAIN
  BY <1>1, <1>4, <1>7
<1>9. ASSUME NEW t \in S
      PROVE  \A i \in 1 .. N : t[i] = l[i]
  BY <1>1, <1>4, <1>7, <1>9
<1>10. \A t \in S : Under(t, l)
  BY <1>8, <1>9, WidthType DEF Under
<1>11. CASE N = BIT_DOMAIN
  <2>1. \A t \in S : t = l
    <3> SUFFICES ASSUME NEW t \in S PROVE t = l
      OBVIOUS
    <3> HIDE DEF l
    <3> QED
      BY <1>3, <1>8, <1>9, <1>11, SameString, WidthType
  <2> QED
    BY <1>1, <1>2, <1>8, <1>10, <1>11, <2>1
<1>12. CASE N # BIT_DOMAIN
  <2>1. N < BIT_DOMAIN
    BY <1>7, <1>12, WidthType
  <2>2. \E t \in S : t[N + 1] # s[N + 1]
    BY <1>1, <1>3, <1>7, <1>12
  <2>3. \E u, t \in S : u[Len(l) + 1] # t[Len(l) + 1]
    BY <1>1, <1>8, <2>2
  <2> HIDE DEF l
  <2> QED
    BY <1>2, <1>8, <1>10, <2>1, <2>3 DEF l
<1> QED
  BY <1>11, <1>12

-----------------------------------------------------------------------------
\* The inductive invariant of TypeCorrect

\* A node with keys that belong under its label.
SoundNode == {n \in Node : \A k \in n.data : Under(k.integral, n.label)}

\* A write of a node goes to its label, or to Stray.
SoundWrite ==
    {w \in [at : Label \cup {Stray}, node : SoundNode \cup {None}] :
        w.node # None => w.at \in {w.node.label, Stray}}

Frame ==
    [str : BitStrings(BIT_DOMAIN), p : Nat, r : Nat, i : Nat,
     leaf : SoundNode \cup {None}, sib : SoundNode \cup {None},
     parent : SoundNode \cup {None}, l_nbr : SoundNode \cup {None},
     r_nbr : SoundNode \cup {None}, pairs : SUBSET Key, merge_on : BOOLEAN,
     todo : Seq(BitStrings(BIT_DOMAIN)), data : SUBSET Key]

\* The database holds sound nodes, each under its own label.
DbTyped ==
    /\ db \in [Label \cup {Stray} -> SoundNode \cup {None}]
    /\ \A x \in Label : db[x] # None => db[x].label = x

\* What a client keeps from one access to the next.
LocalsTyped ==
    /\ pc \in [Client -> Access]
    /\ call \in [Client -> Call \cup {None}]
    /\ frame \in [Client -> Frame]
    /\ out \in [Client -> Seq(SoundWrite)]

CountsTyped ==
    /\ calls \in [Client -> Nat]
    /\ \A c \in Client : calls[c] <= MaxCalls[c]
    /\ stopped \subseteq Client

\* A search for the key of an update, or for the common prefix of a query.
Searches(m, f) ==
    /\ m \in Call
    /\ m.type # "range" => f.str = m.key.integral
    /\ m.type = "range" => Len(f.str) < BIT_DOMAIN

\* A merge of the pairs of a leaf, which is not the root, with its sibling's.
Merging(f) ==
    /\ f.leaf \in SoundNode /\ f.sib \in SoundNode
    /\ f.leaf.label # <<>> /\ f.sib.label = get_sibling_label(f.leaf)
    /\ \A k \in f.pairs : Under(k.integral, get_parent_label(f.leaf))

\* What the place of a client in its operation m says of its local variables f
\* and of the writes o it still makes.
Stage(access, m, f, o) ==
    /\ access = "start" => /\ Searches(m, f) /\ m.type = "range"
                           /\ f.p = 0 /\ f.r = BIT_DOMAIN /\ f.i = 0
    /\ access = "bin" => Searches(m, f) /\ f.p < f.r /\ f.r <= BIT_DOMAIN /\ f.i = 0
    /\ access = "lin" => Searches(m, f) /\ (f.i = 0 \/ f.i < Len(f.str))
    /\ access = "visit" => m \in Call /\ m.type = "range" /\ f.todo # <<>>
    /\ access = "sibling" => m \in Call /\ m.type = "delete" /\ f.leaf \in SoundNode
    /\ access \in {"parent", "left", "right", "cousin"} => Merging(f)
    /\ access \in {"left", "right", "cousin"} =>
           f.parent \in SoundNode /\ f.parent.label = get_parent_label(f.leaf)
    /\ access = "write" <=> o # <<>>
    /\ access = "write" /\ f.merge_on => Merging(f)

Staged == \A c \in Client : Stage(pc[c], call[c], frame[c], out[c])

\* Is the client in the middle of an insertion or a deletion?
Updates(c) ==
    /\ pc[c] \notin {"init", "idle", "fatal"}
    /\ call[c] # None /\ call[c].type # "range"

\* No two updates of one key are under way; a key under insertion is not gone,
\* and one under deletion is not kept.
KeysApart ==
    /\ kept \subseteq Key /\ gone \subseteq Key /\ kept \cap gone = {}
    /\ \A c, d \in Client :
           Updates(c) /\ Updates(d) /\ c # d => call[c].key # call[d].key
    /\ \A c \in Client : Updates(c) =>
           /\ call[c].type = "insert" => call[c].key \notin gone
           /\ call[c].type = "delete" => call[c].key \notin kept
    /\ \A c \in Client : pc[c] = "init" => call[c] = None

-----------------------------------------------------------------------------
\* The nodes of a split

\* Path is the function its recursion describes.
LEMMA PathDef ==
    ASSUME NEW leaf, NEW lcp, Len(leaf.label) \in Nat, Len(lcp) \in Nat,
           Len(leaf.label) <= Len(lcp)
    PROVE  Path(leaf, lcp) =
             [d \in Len(leaf.label) .. Len(lcp) |->
                 IF d = Len(leaf.label) THEN leaf ELSE Child(Path(leaf, lcp)[d - 1], lcp[d])]
<1> DEFINE a == Len(leaf.label)
           L == Len(lcp)
           Good(f, m) == f = [d \in a .. m |->
                                 IF d = a THEN leaf ELSE Child(f[d - 1], lcp[d])]
           Bad == {n \in Nat : a + n <= L /\ ~ \E f : Good(f, a + n)}
<1>1. a \in Nat /\ L \in Nat /\ a <= L
  OBVIOUS
<1>2. Path(leaf, lcp) = CHOOSE f : Good(f, L)
  BY DEF Path
<1> HIDE DEF a, L
<1>3. Bad = {}
  <2> SUFFICES ASSUME Bad # {} PROVE FALSE
    OBVIOUS
  <2>1. PICK n \in Bad : \A m \in Bad : n <= m
    BY Least
  <2>2. n \in Nat /\ a + n <= L /\ ~ \E f : Good(f, a + n)
    OBVIOUS
  <2>3. CASE n = 0
    <3>1. Good([d \in a .. a |-> leaf], a)
      BY <1>1
    <3>2. a + n = a
      BY <1>1, <2>3
    <3> QED
      BY <2>2, <3>1, <3>2
  <2>4. CASE n # 0
    <3>1. n - 1 \in Nat /\ n - 1 < n /\ a + (n - 1) <= L /\ a + (n - 1) = (a + n) - 1
      BY <1>1, <2>2, <2>4
    <3>2. n - 1 \notin Bad
      BY <2>1, <2>2, <3>1
    <3>3. PICK f : Good(f, a + (n - 1))
      BY <3>1, <3>2
    <3> DEFINE m == a + n
               g == [d \in a .. m |-> IF d = m THEN Child(f[d - 1], lcp[d]) ELSE f[d]]
    <3>4. m \in Nat /\ a < m /\ a + (n - 1) = m - 1
      BY <1>1, <2>2, <2>4, <3>1
    <3>5. \A d \in a .. (m - 1) : f[d] = IF d = a THEN leaf ELSE Child(f[d - 1], lcp[d])
      BY <3>3, <3>4
    <3> HIDE DEF m, Good
    <3>6. ASSUME NEW d \in a .. m
          PROVE  g[d] = IF d = a THEN leaf ELSE Child(g[d - 1], lcp[d])
      <4>1. CASE d = m
        <5>1. m - 1 \in a .. m /\ m - 1 # m /\ d # a /\ g[d] = Child(f[d - 1], lcp[d])
          BY <1>1, <3>4, <4>1
        <5>2. g[m - 1] = f[m - 1]
          BY <5>1
        <5> QED
          BY <4>1, <5>1, <5>2
      <4>2. CASE d # m
        <5>1. d \in a .. (m - 1) /\ g[d] = f[d]
          BY <1>1, <3>4, <4>2
        <5>2. d # a => d - 1 \in a .. m /\ d - 1 # m
          BY <1>1, <3>4, <5>1
        <5>3. d # a => g[d - 1] = f[d - 1]
          BY <5>2
        <5> QED
          BY <3>5, <5>1, <5>3
      <4> QED
        BY <4>1, <4>2
    <3>7. g = [d \in a .. m |-> g[d]]
      OBVIOUS
    <3> HIDE DEF g
    <3>8. g = [d \in a .. m |-> IF d = a THEN leaf ELSE Child(g[d - 1], lcp[d])]
      BY <3>6, <3>7
    <3>9. Good(g, m)
      BY <3>8 DEF Good
    <3> QED
      BY <2>2, <3>9 DEF m
  <2> QED
    BY <2>3, <2>4
<1>4. \E f : Good(f, L)
  <2>1. L - a \in Nat /\ a + (L - a) = L
    BY <1>1
  <2>2. L - a \notin Bad
    BY <1>3
  <2>3. ~(~ \E f : Good(f, a + (L - a)))
    BY <1>1, <2>1, <2>2
  <2> QED
    BY <2>1, <2>3
<1>5. Good(Path(leaf, lcp), L)
  <2> HIDE DEF Good
  <2> QED
    BY <1>2, <1>4
<1> QED
  BY <1>5 DEF a, L

\* The fields of a node whose keys lie under its label.
LEMMA NodeFacts ==
    ASSUME NEW n \in SoundNode
    PROVE  /\ n \in Node /\ n.label \in Label /\ n.is_leaf \in BOOLEAN
           /\ n.l_ptr \in Label \cup {None} /\ n.r_ptr \in Label \cup {None}
           /\ n.data \subseteq Key /\ \A k \in n.data : Under(k.integral, n.label)
           /\ n.label \in Seq({0, 1}) /\ Len(n.label) \in Nat
           /\ Len(n.label) <= BIT_DOMAIN + 1
BY BitStringIsSeq, WidthType DEF SoundNode, Node, Label

\* The two kinds of node the code constructs, empty.
LEMMA EmptyLeaf ==
    ASSUME NEW x \in Label
    PROVE  /\ LeafNode(x) \in SoundNode /\ InternalNode(x) \in SoundNode
           /\ LeafNode(x).label = x /\ InternalNode(x).label = x
           /\ LeafNode(x).is_leaf /\ ~InternalNode(x).is_leaf
           /\ LeafNode(x).data = {} /\ InternalNode(x).data = {}
BY DEF LeafNode, InternalNode, SoundNode, Node

\* A child made by a split: an empty leaf, one bit longer.
LEMMA ChildProps ==
    ASSUME NEW n \in Node, Len(n.label) <= BIT_DOMAIN, NEW bit \in {0, 1}
    PROVE  /\ Child(n, bit) \in Node
           /\ Child(n, bit).label = Append(n.label, bit)
           /\ Child(n, bit).is_leaf /\ Child(n, bit).data = {}
<1>1. n.label \in Label /\ n.l_ptr \in Label \cup {None} /\ n.r_ptr \in Label \cup {None}
  BY DEF Node
<1>2. \A b \in {0, 1} : Append(n.label, b) \in Label
  <2>1. n.label \in BitStrings(BIT_DOMAIN + 1) /\ BIT_DOMAIN + 1 \in Nat
    BY <1>1, WidthType DEF Label
  <2>2. n.label \in Seq({0, 1}) /\ Len(n.label) \in Nat /\ Len(n.label) < BIT_DOMAIN + 1
    BY <2>1, BitStringIsSeq, WidthType
  <2> QED
    BY <2>1, <2>2, AppendString DEF Label
<1>3. 0 \in {0, 1} /\ 1 \in {0, 1}
  OBVIOUS
<1> QED
  BY <1>1, <1>2, <1>3 DEF Child, LeafNode, Node

\* The nodes of Path lie on the way from the leaf to the common prefix.
LEMMA PathProps ==
    ASSUME NEW leaf \in Node, NEW lcp \in BitStrings(BIT_DOMAIN),
           Len(leaf.label) <= Len(lcp),
           \A i \in 1 .. Len(leaf.label) : leaf.label[i] = lcp[i]
    PROVE  \A d \in Len(leaf.label) .. Len(lcp) :
               /\ Path(leaf, lcp)[d] \in Node
               /\ Path(leaf, lcp)[d].label = Prefix(lcp, d)
<1> DEFINE a == Len(leaf.label)
           L == Len(lcp)
           at == Path(leaf, lcp)
           Bad == {d \in Nat : /\ a <= d /\ d <= L
                               /\ ~(at[d] \in Node /\ at[d].label = Prefix(lcp, d))}
<1>1. /\ leaf.label \in BitStrings(BIT_DOMAIN + 1) /\ a \in Nat
      /\ lcp \in Seq({0, 1}) /\ L \in Nat /\ L <= BIT_DOMAIN /\ a <= L
  BY BitStringIsSeq, WidthType DEF Node, Label
<1>2. \A d \in a .. L : at[d] = IF d = a THEN leaf ELSE Child(at[d - 1], lcp[d])
  BY <1>1, PathDef
<1>3. \A d \in 0 .. L : /\ Prefix(lcp, d) \in BitStrings(BIT_DOMAIN)
                        /\ Len(Prefix(lcp, d)) = d
                        /\ \A i \in 1 .. d : Prefix(lcp, d)[i] = lcp[i]
  BY <1>1, PrefixString, WidthType
<1>4. leaf.label \in BitStrings(BIT_DOMAIN)
  BY <1>1, BitStringIsSeq, WidthType
<1>5. leaf.label = Prefix(lcp, a)
  BY <1>1, <1>3, <1>4, SameString, WidthType
<1> SUFFICES ASSUME Bad # {} PROVE FALSE
  BY <1>1
<1>6. PICK d \in Bad : \A e \in Bad : d <= e
  BY Least
<1>7. d \in Nat /\ a <= d /\ d <= L /\ ~(at[d] \in Node /\ at[d].label = Prefix(lcp, d))
  OBVIOUS
<1> HIDE DEF at
<1>8. CASE d = a
  <2>1. at[d] = leaf
    BY <1>1, <1>2, <1>7, <1>8
  <2> QED
    BY <1>5, <1>7, <1>8, <2>1
<1>9. CASE d # a
  <2>1. d - 1 \in Nat /\ a <= d - 1 /\ d - 1 <= L /\ d - 1 < d /\ d \in 1 .. L
    BY <1>1, <1>7, <1>9
  <2>2. at[d - 1] \in Node /\ at[d - 1].label = Prefix(lcp, d - 1)
    BY <1>6, <2>1
  <2>3. at[d] = Child(at[d - 1], lcp[d]) /\ lcp[d] \in {0, 1}
    BY <1>1, <1>2, <1>7, <1>9, <2>1
  <2>4. Prefix(lcp, d - 1) \in BitStrings(BIT_DOMAIN) /\ Len(Prefix(lcp, d - 1)) = d - 1
    BY <1>3, <2>1
  <2> DEFINE x == Append(Prefix(lcp, d - 1), lcp[d])
  <2>5. at[d] \in Node /\ at[d].label = x
    <3> DEFINE y == at[d - 1]
               b == lcp[d]
    <3>1. Len(y.label) <= BIT_DOMAIN
      <4>1. Len(y.label) = d - 1
        BY <2>2, <2>4
      <4> HIDE DEF y, Bad
      <4> QED
        BY <1>1, <2>1, <4>1, WidthType
    <3>2. Child(y, b) \in Node /\ Child(y, b).label = Append(y.label, b)
      <4>1. y \in Node /\ b \in {0, 1}
        BY <2>2, <2>3
      <4> HIDE DEF y, b, Bad
      <4> QED
        BY <3>1, <4>1, ChildProps
    <3> QED
      BY <2>2, <2>3, <3>2
  <2>6. /\ x \in BitStrings(BIT_DOMAIN) /\ Len(x) = d
        /\ \A i \in 1 .. (d - 1) : x[i] = Prefix(lcp, d - 1)[i]
        /\ x[d] = lcp[d]
    BY <1>1, <2>1, <2>3, <2>4, AppendString, WidthType
  <2>7. \A i \in 1 .. d : x[i] = lcp[i]
    BY <1>3, <2>1, <2>6
  <2> HIDE DEF x
  <2>8. x = Prefix(lcp, d)
    BY <1>3, <2>1, <2>6, <2>7, SameString, WidthType
  <2> QED
    BY <1>7, <2>5, <2>8
<1> QED
  BY <1>8, <1>9

\* The keys of a full leaf and the new one have a common prefix at least as
\* long as the leaf's label.
LEMMA SplitPrefix ==
    ASSUME NEW leaf \in SoundNode, Len(leaf.label) < BIT_DOMAIN,
           NEW pairs, pairs \subseteq Key, pairs # {},
           \A k \in pairs : Under(k.integral, leaf.label)
    PROVE  LET lcp == get_lcp({k.integral : k \in pairs})
           IN  /\ lcp \in BitStrings(BIT_DOMAIN)
               /\ Len(lcp) \in Nat /\ Len(leaf.label) <= Len(lcp) /\ Len(lcp) <= BIT_DOMAIN
               /\ \A i \in 1 .. Len(leaf.label) : leaf.label[i] = lcp[i]
               /\ \A k \in pairs : Under(k.integral, lcp)
               /\ \/ \A k, l \in pairs : k.integral = l.integral
                  \/ /\ Len(lcp) < BIT_DOMAIN
                     /\ \E k, l \in pairs :
                            k.integral[Len(lcp) + 1] # l.integral[Len(lcp) + 1]
<1> DEFINE S == {k.integral : k \in pairs}
           lcp == get_lcp(S)
<1>1. S \subseteq KeyString /\ S # {}
  BY ConstantsAssumption DEF KeyString
<1>2. \A t \in S : Under(t, leaf.label)
  OBVIOUS
<1> HIDE DEF S
<1>3. /\ lcp \in BitStrings(BIT_DOMAIN) /\ Len(lcp) \in 0 .. BIT_DOMAIN
      /\ \A t \in S : Under(t, lcp)
      /\ \/ Len(lcp) = BIT_DOMAIN /\ S = {lcp}
         \/ /\ Len(lcp) < BIT_DOMAIN
            /\ \E s, t \in S : s[Len(lcp) + 1] # t[Len(lcp) + 1]
  BY <1>1, LcpProps
<1> HIDE DEF lcp
<1>4. Len(leaf.label) \in Nat
  BY NodeFacts
<1>5. Len(leaf.label) <= Len(lcp)
  <2> SUFFICES ASSUME Len(lcp) < Len(leaf.label) PROVE FALSE
    BY <1>3, <1>4
  <2>1. PICK s \in S, t \in S : s[Len(lcp) + 1] # t[Len(lcp) + 1]
    BY <1>3, <1>4
  <2>2. Len(lcp) + 1 \in 1 .. BIT_DOMAIN /\ Len(lcp) + 1 <= Len(leaf.label)
    BY <1>3, <1>4, WidthType
  <2> QED
    BY <1>2, <2>1, <2>2 DEF Under
<1>6. \A i \in 1 .. Len(leaf.label) : leaf.label[i] = lcp[i]
  <2> SUFFICES ASSUME NEW i \in 1 .. Len(leaf.label)
               PROVE  leaf.label[i] = lcp[i]
    OBVIOUS
  <2>1. PICK t \in S : TRUE
    BY <1>1
  <2>2. i \in 1 .. BIT_DOMAIN /\ i <= Len(lcp) /\ i <= Len(leaf.label)
    BY <1>3, <1>4, <1>5, WidthType
  <2> QED
    BY <1>2, <1>3, <2>1, <2>2 DEF Under
<1>7. \A k \in pairs : Under(k.integral, lcp)
  BY <1>3 DEF S
<1>8. \/ \A k, l \in pairs : k.integral = l.integral
      \/ /\ Len(lcp) < BIT_DOMAIN
         /\ \E k, l \in pairs : k.integral[Len(lcp) + 1] # l.integral[Len(lcp) + 1]
  BY <1>3 DEF S
<1>9. /\ lcp \in BitStrings(BIT_DOMAIN)
      /\ Len(lcp) \in Nat /\ Len(leaf.label) <= Len(lcp) /\ Len(lcp) <= BIT_DOMAIN
  BY <1>3, <1>5
<1> QED
  BY <1>6, <1>7, <1>8, <1>9 DEF lcp, S

\* The common prefix of the keys that a split distributes, and the children it
\* publishes at depth d.
Lcp(pairs) == get_lcp({k.integral : k \in pairs})

KidData(pairs, d, bit) ==
    IF d = Len(Lcp(pairs)) THEN {k \in pairs : Goes(k, d, bit)} ELSE {}

KidLabel(pairs, d, bit) == Append(Prefix(Lcp(pairs), d), bit)

SplitKid(leaf, pairs, d, bit) ==
    [Child(Path(leaf, Lcp(pairs))[d], bit) EXCEPT !.data = KidData(pairs, d, bit)]

\* May the pairs of the leaf and one more be split?
Splits(leaf, pairs) ==
    /\ leaf \in SoundNode /\ Len(leaf.label) < BIT_DOMAIN
    /\ pairs \subseteq Key /\ pairs # {}
    /\ \A k \in pairs : Under(k.integral, leaf.label)

\* The leaf a split hangs at depth d, with its label and its keys.
LEMMA SplitKidProps ==
    ASSUME NEW leaf, NEW pairs, Splits(leaf, pairs),
           NEW d \in Len(leaf.label) .. Len(Lcp(pairs)), NEW bit \in {0, 1}
    PROVE  /\ SplitKid(leaf, pairs, d, bit) \in SoundNode
           /\ SplitKid(leaf, pairs, d, bit).label = KidLabel(pairs, d, bit)
           /\ SplitKid(leaf, pairs, d, bit).is_leaf
           /\ SplitKid(leaf, pairs, d, bit).data = KidData(pairs, d, bit)
<1> DEFINE lcp == Lcp(pairs)
           n == Path(leaf, lcp)[d]
           data == IF d = Len(lcp) THEN {k \in pairs : Goes(k, d, bit)} ELSE {}
           kid == SplitKid(leaf, pairs, d, bit)
<1>1. /\ lcp \in BitStrings(BIT_DOMAIN) /\ lcp \in Seq({0, 1})
      /\ Len(lcp) \in Nat /\ Len(leaf.label) <= Len(lcp) /\ Len(lcp) <= BIT_DOMAIN
      /\ \A i \in 1 .. Len(leaf.label) : leaf.label[i] = lcp[i]
      /\ \A k \in pairs : Under(k.integral, lcp)
  BY SplitPrefix, BitStringIsSeq, WidthType DEF Splits, Lcp
<1>2. kid = [Child(n, bit) EXCEPT !.data = data]
  BY DEF SplitKid, KidData
<1>0. d \in Len(leaf.label) .. Len(lcp)
  OBVIOUS
<1> HIDE DEF lcp, kid
<1>3. n \in Node /\ n.label = Prefix(lcp, d)
  <2>1. leaf \in Node
    BY DEF Splits, SoundNode
  <2> QED
    BY <1>0, <1>1, <2>1, PathProps
<1>4. d \in Nat /\ d <= BIT_DOMAIN /\ d <= Len(lcp)
  <2>1. Len(leaf.label) \in Nat
    BY NodeFacts DEF Splits
  <2> QED
    BY <1>0, <1>1, <2>1, WidthType
<1>5. /\ n.label \in BitStrings(BIT_DOMAIN) /\ Len(n.label) = d
      /\ \A i \in 1 .. d : n.label[i] = lcp[i]
  BY <1>1, <1>3, <1>4, PrefixString, WidthType
<1> HIDE DEF n
<1>6. Child(n, bit) \in Node /\ Child(n, bit).label = Append(n.label, bit) /\ Child(n, bit).is_leaf
  BY <1>3, <1>4, <1>5, ChildProps
<1>7. data \subseteq Key
  BY DEF Splits
<1>8. /\ kid \in Node /\ kid.label = Append(n.label, bit) /\ kid.is_leaf /\ kid.data = data
  <2> HIDE DEF data
  <2> QED
    BY <1>2, <1>6, <1>7 DEF Node
<1>9. \A k \in data : Under(k.integral, kid.label)
  <2> SUFFICES ASSUME NEW k \in data, NEW i \in 1 .. BIT_DOMAIN, i <= Len(kid.label)
               PROVE  k.integral[i] = kid.label[i]
    BY DEF Under
  <2>1. d = Len(lcp) /\ k \in pairs /\ Goes(k, d, bit)
    BY DEF data
  <2>2. Len(kid.label) = d + 1 /\ kid.label[d + 1] = bit
        /\ \A j \in 1 .. d : kid.label[j] = n.label[j]
    BY <1>5, <1>8, AppendString, WidthType
  <2>3. CASE i <= d
    <3>1. k.integral[i] = lcp[i]
      BY <1>1, <2>1, <2>3 DEF Under
    <3> QED
      BY <1>4, <1>5, <2>2, <2>3, <3>1
  <2>4. CASE ~(i <= d)
    <3>1. i = d + 1 /\ d < BIT_DOMAIN
      BY <1>4, <2>2, <2>4, WidthType
    <3>2. k.integral \in KeyString
      BY <2>1, ConstantsAssumption DEF Splits, KeyString
    <3>3. Len(k.integral) = BIT_DOMAIN
      BY <3>2, KeyStrings
    <3> QED
      BY <2>1, <2>2, <3>1, <3>3 DEF Goes
  <2> QED
    BY <2>3, <2>4
<1>10. kid \in SoundNode
  BY <1>8, <1>9 DEF SoundNode
<1> HIDE DEF data
<1> QED
  BY <1>3, <1>8, <1>10 DEF data, lcp, kid, KidLabel, KidData

\* What a split writes, and where.
LEMMA SplitEntries ==
    ASSUME NEW leaf, NEW pairs, Splits(leaf, pairs)
    PROVE  LET a == Len(leaf.label)
               L == Len(Lcp(pairs))
               w == _do_split_insert(leaf, pairs)
           IN  /\ a \in Nat /\ L \in Nat /\ a <= L /\ L <= BIT_DOMAIN
               /\ w = [i \in 1 .. 3 * (L - a + 1) |-> w[i]]
               /\ \A i \in 1 .. 3 * (L - a + 1) :
                      LET d == a + (i - 1) \div 3
                      IN  /\ d \in a .. L
                          /\ i % 3 \in {0, 1, 2}
                          /\ i % 3 = 1 => w[i] = Publish(SplitKid(leaf, pairs, d, 0))
                          /\ i % 3 = 2 => w[i] = Publish(SplitKid(leaf, pairs, d, 1))
                          /\ i % 3 = 0 => w[i] = Publish(InternalNode(Prefix(Lcp(pairs), d)))
<1> DEFINE a == Len(leaf.label)
           lcp == Lcp(pairs)
           L == Len(lcp)
           w == _do_split_insert(leaf, pairs)
           D(i) == a + (i - 1) \div 3
<1>1. /\ lcp \in BitStrings(BIT_DOMAIN) /\ lcp \in Seq({0, 1})
      /\ Len(lcp) \in Nat /\ Len(leaf.label) <= Len(lcp) /\ Len(lcp) <= BIT_DOMAIN
      /\ \A i \in 1 .. Len(leaf.label) : leaf.label[i] = lcp[i]
  BY SplitPrefix, BitStringIsSeq, WidthType DEF Splits, Lcp
<1>2. a \in Nat
  BY NodeFacts DEF Splits
<1>3. \A d \in a .. L : Path(leaf, lcp)[d].label = Prefix(lcp, d)
  BY <1>1, PathProps DEF Splits, SoundNode
<1>4. w = [i \in 1 .. 3 * (L - a + 1) |->
              CASE i % 3 = 1 -> Publish(SplitKid(leaf, pairs, D(i), 0))
                [] i % 3 = 2 -> Publish(SplitKid(leaf, pairs, D(i), 1))
                [] i % 3 = 0 -> Publish(InternalNode(Path(leaf, lcp)[D(i)].label))]
  BY DEF _do_split_insert, SplitKid, Lcp, KidData
<1>5. a <= L /\ L \in Nat /\ L <= BIT_DOMAIN
  BY <1>1
<1> HIDE DEF w, L, a
<1>6. ASSUME NEW i \in 1 .. 3 * (L - a + 1)
      PROVE  D(i) \in a .. L /\ i % 3 \in {0, 1, 2}
  BY <1>2, <1>5
<1> HIDE DEF D
<1>7. ASSUME NEW i \in 1 .. 3 * (L - a + 1)
      PROVE  /\ i % 3 = 1 => w[i] = Publish(SplitKid(leaf, pairs, D(i), 0))
             /\ i % 3 = 2 => w[i] = Publish(SplitKid(leaf, pairs, D(i), 1))
             /\ i % 3 = 0 => w[i] = Publish(InternalNode(Prefix(lcp, D(i))))
  BY <1>3, <1>4, <1>6
<1>8. w = [i \in 1 .. 3 * (L - a + 1) |-> w[i]]
  BY <1>4
<1> QED
  BY <1>2, <1>5, <1>6, <1>7, <1>8 DEF w, L, a, D, lcp

\* Every node a split writes is sound, and it writes at least one.
LEMMA SplitWritesSound ==
    ASSUME NEW leaf, NEW pairs, Splits(leaf, pairs)
    PROVE  /\ _do_split_insert(leaf, pairs) \in Seq(SoundWrite)
           /\ _do_split_insert(leaf, pairs) # <<>>
<1> DEFINE a == Len(leaf.label)
           lcp == Lcp(pairs)
           L == Len(lcp)
           w == _do_split_insert(leaf, pairs)
           n == 3 * (L - a + 1)
<1>1. /\ a \in Nat /\ L \in Nat /\ a <= L /\ L <= BIT_DOMAIN
      /\ w = [i \in 1 .. n |-> w[i]]
  BY SplitEntries
<1>2. n \in Nat /\ n >= 1
  <2> HIDE DEF a, L
  <2> QED
    BY <1>1
<1>3. lcp \in BitStrings(BIT_DOMAIN)
  BY SplitPrefix DEF Splits, Lcp
<1>4. ASSUME NEW x \in SoundNode
      PROVE  Publish(x) \in SoundWrite
  BY <1>4, NodeFacts DEF Publish, Put, SoundWrite
<1>5. ASSUME NEW i \in 1 .. n
      PROVE  w[i] \in SoundWrite
  <2> DEFINE d == a + (i - 1) \div 3
  <2>1. /\ d \in a .. L
        /\ i % 3 \in {0, 1, 2}
        /\ i % 3 = 1 => w[i] = Publish(SplitKid(leaf, pairs, d, 0))
        /\ i % 3 = 2 => w[i] = Publish(SplitKid(leaf, pairs, d, 1))
        /\ i % 3 = 0 => w[i] = Publish(InternalNode(Prefix(lcp, d)))
    BY SplitEntries
  <2> HIDE DEF d, w, n
  <2>2. \A bit \in {0, 1} : SplitKid(leaf, pairs, d, bit) \in SoundNode
    BY <2>1, SplitKidProps
  <2>3. d \in Nat /\ d <= BIT_DOMAIN
    <3> HIDE DEF a, L
    <3> QED
      BY <1>1, <2>1, WidthType
  <2>4. Prefix(lcp, d) \in Label
    BY <1>3, <2>3, PrefixString, LongerString, WidthType DEF Label
  <2>5. InternalNode(Prefix(lcp, d)) \in SoundNode
    BY <2>4, EmptyLeaf
  <2> QED
    BY <1>4, <2>1, <2>2, <2>5
<1> HIDE DEF w, n
<1>6. w \in [1 .. n -> SoundWrite]
  BY <1>1, <1>5
<1>7. w \in Seq(SoundWrite) /\ Len(w) = n
  BY <1>2, <1>6
<1> QED
  BY <1>2, <1>7 DEF w

-----------------------------------------------------------------------------
\* Type correctness

\* The parts of the invariant.
TypeInv == DbTyped /\ LocalsTyped /\ CountsTyped /\ Staged

\* The frame a client starts a call with.
LEMMA EmptyFrameTyped ==
    EmptyFrame \in Frame
BY EmptyString, WidthType DEF EmptyFrame, Frame

\* A node read from the database is sound and has the label it was read under.
LEMMA Looked ==
    ASSUME TypeInv, NEW x \in Label \cup {None}
    PROVE  /\ dht_lookup(x) \in SoundNode \cup {None}
           /\ dht_lookup(x) # None =>
                  /\ dht_lookup(x) \in SoundNode
                  /\ x \in Label /\ dht_lookup(x) = db[x] /\ dht_lookup(x).label = x
BY DEF TypeInv, DbTyped, dht_lookup

\* One client's variables change.
LEMMA ClientStep ==
    ASSUME TypeInv, DbTyped', CountsTyped',
           NEW c \in Client, NEW a \in Access, NEW m \in Call \cup {None}, NEW f \in Frame,
           NEW o \in Seq(SoundWrite), Stage(a, m, f, o),
           pc' = [pc EXCEPT ![c] = a], call' = [call EXCEPT ![c] = m],
           frame' = [frame EXCEPT ![c] = f], out' = [out EXCEPT ![c] = o]
    PROVE  TypeInv'
<1>1. LocalsTyped'
  BY DEF TypeInv, LocalsTyped
<1>2. Staged'
  <2> SUFFICES ASSUME NEW e \in Client
               PROVE  Stage(pc'[e], call'[e], frame'[e], out'[e])
    BY DEF Staged
  <2>1. CASE e = c
    BY <2>1 DEF TypeInv, LocalsTyped
  <2>2. CASE e # c
    <3>1. Stage(pc[e], call[e], frame[e], out[e])
      BY DEF TypeInv, Staged
    <3>2. pc'[e] = pc[e] /\ call'[e] = call[e] /\ frame'[e] = frame[e] /\ out'[e] = out[e]
      BY <2>2 DEF TypeInv, LocalsTyped
    <3> QED
      BY <3>1, <3>2
  <2> QED
    BY <2>1, <2>2
<1> QED
  BY <1>1, <1>2 DEF TypeInv

\* One client's variables change within a call, and the database does not.
LEMMA OwnStep ==
    ASSUME TypeInv, NEW c \in Client, NEW a \in Access, NEW f \in Frame,
           NEW o \in Seq(SoundWrite), Stage(a, call[c], f, o),
           pc' = [pc EXCEPT ![c] = a], frame' = [frame EXCEPT ![c] = f],
           out' = [out EXCEPT ![c] = o],
           UNCHANGED <<db, call, calls, stopped>>
    PROVE  TypeInv'
<1>1. DbTyped' /\ CountsTyped'
  BY DEF TypeInv, DbTyped, CountsTyped
<1>2. call[c] \in Call \cup {None} /\ call' = [call EXCEPT ![c] = call[c]]
  BY DEF TypeInv, LocalsTyped
<1> QED
  BY <1>1, <1>2, ClientStep

\* The four ways an action ends.
LEMMA GotoTyped ==
    ASSUME TypeInv, NEW c \in Client, NEW a \in Access, NEW f \in Frame,
           Stage(a, call[c], f, <<>>), pc[c] # "write", Goto(c, a, f), Read
    PROVE  TypeInv'
<1>1. out[c] = <<>>
  BY DEF TypeInv, Staged, Stage
<1>2. out' = [out EXCEPT ![c] = <<>>]
  BY <1>1 DEF Goto, TypeInv, LocalsTyped
<1>3. <<>> \in Seq(SoundWrite)
  OBVIOUS
<1> QED
  BY <1>2, <1>3, OwnStep DEF Goto, Read

\* A client that starts to write keeps the types.
LEMMA WritesTyped ==
    ASSUME TypeInv, NEW c \in Client, NEW f \in Frame, NEW o \in Seq(SoundWrite),
           o # <<>>, f.merge_on => Merging(f), Writes(c, o, f), Read
    PROVE  TypeInv'
<1>1. Stage("write", call[c], f, o)
  BY DEF Stage
<1> QED
  BY <1>1, OwnStep DEF Writes, Read, Access

\* A client whose call throws keeps the types.
LEMMA FatalTyped ==
    ASSUME TypeInv, NEW c \in Client, pc[c] # "write", Fatal(c), Read
    PROVE  TypeInv'
<1>1. Stage("fatal", call[c], EmptyFrame, <<>>)
  BY DEF Stage
<1> QED
  BY <1>1, EmptyFrameTyped, GotoTyped DEF Fatal, Access

\* A client that returns keeps the types.
LEMMA ReturnTyped ==
    ASSUME TypeInv, NEW c \in Client, NEW result, Return(c, result), Read
    PROVE  TypeInv'
<1>1. Stage("idle", call[c], EmptyFrame, <<>>)
  BY DEF Stage
<1>2. <<>> \in Seq(SoundWrite)
  OBVIOUS
<1> QED
  BY <1>1, <1>2, EmptyFrameTyped, OwnStep DEF Return, Read, Access

\* The types hold at the start.
LEMMA TypeInit ==
    Init => TypeInv
<1> SUFFICES ASSUME Init PROVE TypeInv
  OBVIOUS
<1>1. <<>> \in Label
  BY EmptyString, WidthType DEF Label
<1>2. DbTyped
  BY <1>1, EmptyLeaf DEF Init, DbTyped
<1>3. LocalsTyped
  <2>1. <<>> \in Seq(SoundWrite) /\ "init" \in Access
    BY DEF Access
  <2> QED
    BY <2>1, EmptyFrameTyped DEF Init, LocalsTyped
<1>4. CountsTyped
  BY ConstantsAssumption DEF Init, CountsTyped
<1>5. Staged
  BY DEF Init, Staged, Stage
<1> QED
  BY <1>2, <1>3, <1>4, <1>5 DEF TypeInv

\* Publishing a sound node is a sound write.
LEMMA SoundPublish ==
    ASSUME NEW n \in SoundNode
    PROVE  Publish(n) \in SoundWrite /\ <<Publish(n)>> \in Seq(SoundWrite)
<1>1. Publish(n) \in SoundWrite
  BY NodeFacts DEF Publish, Put, SoundWrite
<1> QED
  BY <1>1

\* init writes an empty root or finds one.
LEMMA InitTrieTyped ==
    ASSUME TypeInv, NEW c \in Client, InitTrie(c)
    PROVE  TypeInv'
<1>1. CASE Return(c, None)
  BY <1>1, ReturnTyped DEF InitTrie
<1>2. CASE Writes(c, <<Publish(LeafNode(<<>>))>>, EmptyFrame)
  <2>1. <<Publish(LeafNode(<<>>))>> \in Seq(SoundWrite)
    BY EmptyString, EmptyLeaf, SoundPublish, WidthType DEF Label
  <2>2. ~EmptyFrame.merge_on
    BY DEF EmptyFrame
  <2> QED
    BY <1>2, <2>1, <2>2, EmptyFrameTyped, WritesTyped DEF InitTrie
<1> QED
  BY <1>1, <1>2 DEF InitTrie

\* The value of a bit string is a number.
LEMMA ToIntType ==
    ASSUME NEW b \in BitStrings(BIT_DOMAIN)
    PROVE  ToInt(b) \in Nat
<1> DEFINE L == Len(b)
           Good(f, m) == f = [i \in 0 .. m |-> IF i = 0 THEN 0 ELSE 2 * f[i - 1] + b[i]]
           Typed(f, m) == Good(f, m) /\ \A i \in 0 .. m : f[i] \in Nat
           Bad == {n \in Nat : n <= L /\ ~ \E f : Typed(f, n)}
           Wrong(f) == {i \in Nat : i <= L /\ f[i] \notin Nat}
<1>1. L \in Nat /\ \A i \in 1 .. L : b[i] \in Nat
  BY BitStringIsSeq, WidthType
<1>2. ToInt(b) = (CHOOSE f : Good(f, L))[L]
  BY DEF ToInt
<1> HIDE DEF L
<1>3. Bad = {}
  <2> SUFFICES ASSUME Bad # {} PROVE FALSE
    OBVIOUS
  <2>1. PICK n \in Bad : \A m \in Bad : n <= m
    BY Least
  <2>2. n \in Nat /\ n <= L /\ ~ \E f : Typed(f, n)
    OBVIOUS
  <2>3. CASE n = 0
    <3> DEFINE g == [i \in 0 .. 0 |-> 0]
    <3>1. Typed(g, 0)
      OBVIOUS
    <3> QED
      BY <2>2, <2>3, <3>1
  <2>4. CASE n # 0
    <3>1. n - 1 \in Nat /\ n - 1 < n /\ n - 1 <= L
      BY <1>1, <2>2, <2>4
    <3>2. n - 1 \notin Bad
      BY <2>1, <2>2, <3>1
    <3>3. PICK f : Typed(f, n - 1)
      BY <3>1, <3>2
    <3> DEFINE g == [i \in 0 .. n |-> IF i = n THEN 2 * f[i - 1] + b[i] ELSE f[i]]
    <3>4. \A i \in 0 .. (n - 1) : f[i] \in Nat /\ f[i] = IF i = 0 THEN 0 ELSE 2 * f[i - 1] + b[i]
      BY <3>1, <3>3
    <3> HIDE DEF Good
    <3>5. ASSUME NEW i \in 0 .. n
          PROVE  g[i] \in Nat /\ g[i] = IF i = 0 THEN 0 ELSE 2 * g[i - 1] + b[i]
      <4>1. CASE i = n
        <5>1. n - 1 \in 0 .. n /\ n - 1 # n /\ n - 1 \in 0 .. (n - 1)
              /\ g[n] = 2 * f[n - 1] + b[n] /\ n \in 1 .. L
          BY <2>2, <2>4, <3>1
        <5>2. g[n - 1] = f[n - 1] /\ f[n - 1] \in Nat /\ b[n] \in Nat
          BY <1>1, <3>4, <5>1
        <5> QED
          BY <2>4, <4>1, <5>1, <5>2
      <4>2. CASE i # n
        <5>1. i \in 0 .. (n - 1) /\ g[i] = f[i]
          BY <2>2, <4>2
        <5>2. i # 0 => i - 1 \in 0 .. n /\ i - 1 # n
          BY <2>2, <5>1
        <5>3. i # 0 => g[i - 1] = f[i - 1]
          BY <5>2
        <5> QED
          BY <3>4, <5>1, <5>3
      <4> QED
        BY <4>1, <4>2
    <3>6. g = [i \in 0 .. n |-> g[i]]
      OBVIOUS
    <3> HIDE DEF g
    <3>7. g = [i \in 0 .. n |-> IF i = 0 THEN 0 ELSE 2 * g[i - 1] + b[i]]
      BY <3>5, <3>6
    <3>8. Typed(g, n)
      BY <3>5, <3>7 DEF Good
    <3> QED
      BY <2>2, <3>8
  <2> QED
    BY <2>3, <2>4
<1>4. \E f : Good(f, L)
  <2>1. L \notin Bad
    BY <1>3
  <2> HIDE DEF Good
  <2>2. \E f : Typed(f, L)
    BY <1>1, <2>1
  <2> QED
    BY <2>2
<1> DEFINE v == CHOOSE f : Good(f, L)
<1>5. Good(v, L)
  <2> HIDE DEF Good
  <2> QED
    BY <1>4
<1> HIDE DEF v
<1>6. \A i \in 0 .. L : v[i] = IF i = 0 THEN 0 ELSE 2 * v[i - 1] + b[i]
  BY <1>5
<1>7. Wrong(v) = {}
  <2> SUFFICES ASSUME Wrong(v) # {} PROVE FALSE
    OBVIOUS
  <2>1. PICK i \in Wrong(v) : \A j \in Wrong(v) : i <= j
    BY Least
  <2>2. i \in Nat /\ i <= L /\ v[i] \notin Nat
    OBVIOUS
  <2>3. i # 0
    BY <1>1, <1>6, <2>2
  <2>4. i - 1 \in Nat /\ i - 1 <= L /\ i - 1 < i /\ i \in 1 .. L
    BY <1>1, <2>2, <2>3
  <2>5. v[i - 1] \in Nat
    BY <2>1, <2>2, <2>4
  <2>6. v[i] = 2 * v[i - 1] + b[i] /\ b[i] \in Nat
    BY <1>1, <1>6, <2>3, <2>4
  <2> QED
    BY <2>2, <2>5, <2>6
<1>8. v[L] \in Nat
  BY <1>1, <1>7
<1> QED
  BY <1>2, <1>8 DEF v

\* The common prefix of the ends of a query is shorter than they are.
LEMMA QueryPrefix ==
    ASSUME NEW q \in Query
    PROVE  /\ get_lcp({q.min, q.max}) \in BitStrings(BIT_DOMAIN)
           /\ Len(get_lcp({q.min, q.max})) < BIT_DOMAIN
<1> DEFINE S == {q.min, q.max}
<1>1. S \subseteq KeyString /\ S # {}
  BY ConstantsAssumption DEF KeyString
<1>2. ToInt(q.min) < ToInt(q.max)
  BY ConstantsAssumption
<1>3. q.min # q.max
  <2> SUFFICES ASSUME q.min = q.max PROVE FALSE
    OBVIOUS
  <2>1. ToInt(q.min) < ToInt(q.min) /\ ToInt(q.min) \in Nat
    BY <1>2, ToIntType, KeyStrings, ConstantsAssumption DEF KeyString
  <2> QED
    BY <2>1
<1>4. \A l : S # {l}
  BY <1>3
<1> HIDE DEF S
<1>5. /\ get_lcp(S) \in BitStrings(BIT_DOMAIN)
      /\ Len(get_lcp(S)) < BIT_DOMAIN
  BY <1>1, <1>4, LcpProps
<1> QED
  BY <1>5 DEF S

\* insert, delete and the queries start with a search.
LEMMA BeginTyped ==
    ASSUME TypeInv, NEW c \in Client, Begin(c)
    PROVE  TypeInv'
<1>1. PICK m \in Call :
        /\ call' = [call EXCEPT ![c] = m]
        /\ \/ /\ m.type # "range"
              /\ pc' = [pc EXCEPT ![c] = "bin"]
              /\ frame' = [frame EXCEPT ![c] =
                              [EmptyFrame EXCEPT !.str = m.key.integral, !.r = BIT_DOMAIN]]
           \/ /\ m.type = "range"
              /\ pc' = [pc EXCEPT ![c] = "start"]
              /\ frame' = [frame EXCEPT ![c] =
                              [EmptyFrame EXCEPT !.str = get_lcp({m.query.min, m.query.max}),
                                                 !.r = BIT_DOMAIN]]
  BY DEF Begin
<1>2. DbTyped'
  BY DEF Begin, TypeInv, DbTyped
<1>3. CountsTyped'
  <2>1. calls[c] \in Nat /\ calls[c] < MaxCalls[c] /\ MaxCalls[c] \in Nat
        /\ calls' = [calls EXCEPT ![c] = @ + 1] /\ stopped' = stopped
    BY ConstantsAssumption DEF Begin, TypeInv, CountsTyped
  <2>2. calls' \in [Client -> Nat]
    BY <2>1 DEF TypeInv, CountsTyped
  <2>3. calls'[c] <= MaxCalls[c]
    BY <2>1 DEF TypeInv, CountsTyped
  <2> QED
    BY <2>1, <2>2, <2>3 DEF TypeInv, CountsTyped
<1>4. out[c] = <<>> /\ <<>> \in Seq(SoundWrite)
  <2>1. pc[c] # "write"
    BY DEF Begin, At
  <2> QED
    BY <2>1 DEF TypeInv, Staged, Stage
<1>5. out' = [out EXCEPT ![c] = <<>>]
  BY <1>4 DEF Begin, TypeInv, LocalsTyped
<1>6. CASE m.type # "range"
  <2> DEFINE f == [EmptyFrame EXCEPT !.str = m.key.integral, !.r = BIT_DOMAIN]
  <2>1. m.key \in Key
    BY <1>6 DEF Call
  <2>2. m.key.integral \in BitStrings(BIT_DOMAIN)
    BY <2>1, KeyStrings, ConstantsAssumption DEF KeyString
  <2>3. f \in Frame /\ f.str = m.key.integral /\ f.p = 0 /\ f.r = BIT_DOMAIN /\ f.i = 0
    BY <2>2, EmptyFrameTyped, WidthType DEF EmptyFrame, Frame
  <2>4. pc' = [pc EXCEPT ![c] = "bin"] /\ frame' = [frame EXCEPT ![c] = f]
    BY <1>1, <1>6
  <2> HIDE DEF f
  <2>5. Stage("bin", m, f, <<>>)
    BY <1>6, <2>3, WidthType DEF Stage, Searches
  <2>6. "bin" \in Access
    BY DEF Access
  <2> QED
    BY <1>1, <1>2, <1>3, <1>4, <1>5, <2>3, <2>4, <2>5, <2>6, ClientStep
<1>7. CASE m.type = "range"
  <2> DEFINE f == [EmptyFrame EXCEPT !.str = get_lcp({m.query.min, m.query.max}),
                                     !.r = BIT_DOMAIN]
  <2>1. m.query \in Query
    BY <1>7 DEF Call
  <2>2. /\ get_lcp({m.query.min, m.query.max}) \in BitStrings(BIT_DOMAIN)
        /\ Len(get_lcp({m.query.min, m.query.max})) < BIT_DOMAIN
    BY <2>1, QueryPrefix
  <2>3. f \in Frame /\ f.str = get_lcp({m.query.min, m.query.max})
        /\ f.p = 0 /\ f.r = BIT_DOMAIN /\ f.i = 0
    BY <2>2, EmptyFrameTyped, WidthType DEF EmptyFrame, Frame
  <2>4. pc' = [pc EXCEPT ![c] = "start"] /\ frame' = [frame EXCEPT ![c] = f]
    BY <1>1, <1>7
  <2> HIDE DEF f
  <2>5. Stage("start", m, f, <<>>)
    BY <1>7, <2>2, <2>3 DEF Stage, Searches
  <2>6. "start" \in Access
    BY DEF Access
  <2> QED
    BY <1>1, <1>2, <1>3, <1>4, <1>5, <2>3, <2>4, <2>5, <2>6, ClientStep
<1> QED
  BY <1>6, <1>7


\* The traversal goes on at sound nodes whose subtrees have labels of at most
\* BIT_DOMAIN bits.
LEMMA TraverseTyped ==
    ASSUME TypeInv, NEW c \in Client, call[c] \in Call, call[c].type = "range",
           pc[c] # "write", NEW node \in SoundNode,
           node.is_leaf \/ Len(node.label) < BIT_DOMAIN,
           NEW todo \in Seq(BitStrings(BIT_DOMAIN)), NEW data \in SUBSET Key,
           Traverse(c, node, todo, data), Read
    PROVE  TypeInv'
<1> DEFINE q == call[c].query
           Below(label) == IF Visits(label, q) THEN <<label>> ELSE <<>>
           found == IF node.is_leaf THEN data \cup {k \in node.data : InRange(k, q)} ELSE data
           below == Below(Append(node.label, 0)) \o Below(Append(node.label, 1))
           rest == IF node.is_leaf THEN todo ELSE below \o todo
           f == [EmptyFrame EXCEPT !.todo = rest, !.data = found]
<1>1. \/ Return(c, found)
      \/ rest # <<>> /\ Goto(c, "visit", f)
  BY DEF Traverse
<1>2. found \in SUBSET Key
  BY NodeFacts
<1>3. ASSUME ~node.is_leaf
      PROVE  below \in Seq(BitStrings(BIT_DOMAIN))
  <2>1. node.label \in BitStrings(BIT_DOMAIN)
    BY <1>3, NodeFacts, BitStringIsSeq, WidthType
  <2>2. \A b \in {0, 1} : Append(node.label, b) \in BitStrings(BIT_DOMAIN)
    BY <1>3, <2>1, AppendString, WidthType
  <2> DEFINE x == Append(node.label, 0)  y == Append(node.label, 1)
  <2>3. x \in BitStrings(BIT_DOMAIN) /\ y \in BitStrings(BIT_DOMAIN)
    BY <2>2
  <2> HIDE DEF x, y
  <2>4. Below(x) \in Seq(BitStrings(BIT_DOMAIN)) /\ Below(y) \in Seq(BitStrings(BIT_DOMAIN))
    BY <2>3
  <2> HIDE DEF Below
  <2>5. Below(x) \o Below(y) \in Seq(BitStrings(BIT_DOMAIN))
    BY <2>4
  <2> QED
    BY <2>5 DEF x, y
<1> HIDE DEF below, found
<1>4. rest \in Seq(BitStrings(BIT_DOMAIN))
  BY <1>3
<1>5. CASE Return(c, found)
  BY <1>5, ReturnTyped
<1>6. CASE rest # <<>> /\ Goto(c, "visit", f)
  <2> HIDE DEF rest
  <2>1. f \in Frame /\ f.todo = rest
    BY <1>2, <1>4, EmptyFrameTyped DEF EmptyFrame, Frame
  <2> HIDE DEF f
  <2>2. Stage("visit", call[c], f, <<>>)
    BY <1>6, <2>1 DEF Stage
  <2>3. "visit" \in Access
    BY DEF Access
  <2> QED
    BY <1>6, <2>1, <2>2, <2>3, GotoTyped
<1> QED
  BY <1>1, <1>5, <1>6

\* The leaf a search ends at: a prefix of the string it looks for.
LEMMA FoundTyped ==
    ASSUME TypeInv, NEW c \in Client, Searches(call[c], frame[c]), pc[c] # "write",
           NEW node \in SoundNode, NEW n \in Nat,
           node.label = Prefix(frame[c].str, n), Len(node.label) < BIT_DOMAIN,
           Found(c, node), Read
    PROVE  TypeInv'
<1>1. CASE call[c].type = "insert"
  <2> DEFINE key == call[c].key
             new == [node EXCEPT !.data = @ \cup {key}]
             pairs == node.data \cup {key}
  <2>1. key \in Key /\ frame[c].str = key.integral
    BY <1>1 DEF Searches, Call
  <2>2. Under(key.integral, node.label)
    BY <2>1, UnderPrefix, ConstantsAssumption DEF KeyString
  <2>3. /\ pairs \subseteq Key /\ pairs # {}
        /\ \A k \in pairs : Under(k.integral, node.label)
    BY <2>1, <2>2, NodeFacts
  <2>4. new \in SoundNode
    <3>1. new \in Node /\ new.label = node.label /\ new.data = pairs
      BY <2>1, NodeFacts DEF Node
    <3> HIDE DEF new, pairs
    <3> QED
      BY <2>3, <3>1 DEF SoundNode
  <2>5. Splits(node, pairs)
    BY <2>3 DEF Splits
  <2>6. \/ Writes(c, <<Publish(new)>>, EmptyFrame)
        \/ Writes(c, _do_split_insert(node, pairs), EmptyFrame)
    BY <1>1 DEF Found
  <2> HIDE DEF new, pairs
  <2>7. <<Publish(new)>> \in Seq(SoundWrite) /\ <<Publish(new)>> # <<>>
    BY <2>4, SoundPublish
  <2>8. /\ _do_split_insert(node, pairs) \in Seq(SoundWrite)
        /\ _do_split_insert(node, pairs) # <<>>
    BY <2>5, SplitWritesSound
  <2>9. ~EmptyFrame.merge_on
    BY DEF EmptyFrame
  <2> QED
    BY <2>6, <2>7, <2>8, <2>9, EmptyFrameTyped, WritesTyped
<1>2. CASE call[c].type = "delete"
  <2> DEFINE key == call[c].key
             leaf == [node EXCEPT !.data = @ \ {key}]
             f == [EmptyFrame EXCEPT !.leaf = leaf]
  <2>1. Return(c, None) \/ Goto(c, "sibling", f)
    BY <1>2 DEF Found
  <2>2. leaf \in SoundNode
    <3>1. leaf \in Node /\ leaf.label = node.label /\ leaf.data \subseteq node.data
      BY NodeFacts DEF Node
    <3> HIDE DEF leaf
    <3> QED
      BY <3>1, NodeFacts DEF SoundNode
  <2> HIDE DEF leaf
  <2>3. f \in Frame /\ f.leaf = leaf
    BY <2>2, EmptyFrameTyped DEF EmptyFrame, Frame
  <2> HIDE DEF f
  <2>4. Stage("sibling", call[c], f, <<>>) /\ "sibling" \in Access
    BY <1>2, <2>2, <2>3 DEF Stage, Searches, Access
  <2> QED
    BY <2>1, <2>3, <2>4, ReturnTyped, GotoTyped
<1>3. CASE call[c].type = "range"
  BY <1>3, ReturnTyped DEF Found
<1> QED
  BY <1>1, <1>2, <1>3 DEF Found

\* What TypeInv says of one client.
LEMMA FrameOf ==
    ASSUME TypeInv, NEW c \in Client
    PROVE  /\ frame[c] \in Frame /\ pc[c] \in Access /\ out[c] \in Seq(SoundWrite)
           /\ Stage(pc[c], call[c], frame[c], out[c])
           /\ call[c] \in Call \cup {None}
BY DEF TypeInv, LocalsTyped, Staged

\* A range query reads the node of its common prefix.
LEMMA LookupStartTyped ==
    ASSUME TypeInv, NEW c \in Client, LookupStart(c)
    PROVE  TypeInv'
<1> DEFINE f == frame[c]
           node == dht_lookup(f.str)
<1>1. pc[c] = "start" /\ Read
  BY DEF LookupStart, At
<1>2. /\ Searches(call[c], f) /\ call[c].type = "range" /\ call[c] \in Call
      /\ f.p = 0 /\ f.r = BIT_DOMAIN /\ f.i = 0
  BY <1>1, FrameOf DEF Stage, Searches
<1>3. f \in Frame /\ f.str \in BitStrings(BIT_DOMAIN) /\ Len(f.str) < BIT_DOMAIN
  BY <1>2, FrameOf DEF Frame, Searches
<1>4. f.str \in Label
  BY <1>3, LongerString, WidthType DEF Label
<1>5. CASE node # None
  <2>1. node \in SoundNode /\ node.label = f.str
    BY <1>4, <1>5, Looked
  <2>2. Traverse(c, node, <<>>, {})
    BY <1>5 DEF LookupStart
  <2>3. <<>> \in Seq(BitStrings(BIT_DOMAIN)) /\ {} \in SUBSET Key
    OBVIOUS
  <2> HIDE DEF f, node
  <2> QED
    BY <1>1, <1>2, <1>3, <2>1, <2>2, <2>3, TraverseTyped
<1>6. CASE node = None
  <2>1. Goto(c, "bin", f)
    BY <1>6 DEF LookupStart
  <2>2. Stage("bin", call[c], f, <<>>) /\ "bin" \in Access
    BY <1>2, WidthType DEF Stage, Access
  <2> QED
    BY <1>1, <1>3, <2>1, <2>2, GotoTyped
<1> QED
  BY <1>5, <1>6

\* A probe of the binary search.
LEMMA LookupBinTyped ==
    ASSUME TypeInv, NEW c \in Client, LookupBin(c)
    PROVE  TypeInv'
<1> DEFINE f == frame[c]
           q == (f.p + f.r - 1) \div 2
           node == dht_lookup(Prefix(f.str, q))
           next == Narrowed(f, q, node)
<1>1. pc[c] = "bin" /\ Read
  BY DEF LookupBin, At
<1>2. Searches(call[c], f) /\ f.p < f.r /\ f.r <= BIT_DOMAIN /\ f.i = 0
  BY <1>1, FrameOf DEF Stage
<1>3. f \in Frame /\ f.str \in BitStrings(BIT_DOMAIN) /\ f.p \in Nat /\ f.r \in Nat
  BY FrameOf DEF Frame
<1>4. q \in Nat /\ q < BIT_DOMAIN /\ q < f.r /\ f.p <= q
  BY <1>2, <1>3, WidthType
<1>5. Prefix(f.str, q) \in Label /\ Len(Prefix(f.str, q)) < BIT_DOMAIN
  <2> HIDE DEF f, q
  <2>1. /\ Prefix(f.str, q) \in BitStrings(BIT_DOMAIN)
        /\ Len(Prefix(f.str, q)) = IF q < Len(f.str) THEN q ELSE Len(f.str)
    BY <1>3, <1>4, PrefixString, WidthType
  <2>2. Len(f.str) \in Nat
    BY <1>3, BitStringIsSeq, WidthType
  <2> QED
    BY <1>4, <2>1, <2>2, LongerString, WidthType DEF Label
<1>6. CASE IsLeaf(node) /\ Found(c, node)
  <2>1. node \in SoundNode /\ node.label = Prefix(f.str, q)
    BY <1>5, <1>6, Looked DEF IsLeaf
  <2> HIDE DEF node, q
  <2> QED
    BY <1>1, <1>2, <1>4, <1>5, <1>6, <2>1, FoundTyped
<1>7. CASE ~IsLeaf(node)
  <2>1. \/ next.p < next.r /\ Goto(c, "bin", next)
        \/ next.p >= next.r /\ Goto(c, "lin", next)
    BY <1>7 DEF LookupBin
  <2> HIDE DEF node, q
  <2>2. /\ next \in Frame /\ next.str = f.str /\ next.i = 0
        /\ next.p \in Nat /\ next.r \in Nat /\ next.r <= BIT_DOMAIN
    BY <1>2, <1>3, <1>4, WidthType DEF Narrowed, Frame
  <2> HIDE DEF next
  <2>3. Searches(call[c], next)
    BY <1>2, <2>2 DEF Searches
  <2>4. Stage("lin", call[c], next, <<>>) /\ "lin" \in Access
    BY <2>2, <2>3 DEF Stage, Access
  <2>5. next.p < next.r => Stage("bin", call[c], next, <<>>) /\ "bin" \in Access
    BY <2>2, <2>3 DEF Stage, Access
  <2> QED
    BY <1>1, <2>1, <2>2, <2>4, <2>5, GotoTyped
<1> QED
  BY <1>6, <1>7 DEF LookupBin

\* A probe of the linear search.
LEMMA LookupLinTyped ==
    ASSUME TypeInv, NEW c \in Client, LookupLin(c)
    PROVE  TypeInv'
<1> DEFINE f == frame[c]
           node == dht_lookup(Prefix(f.str, f.i))
           next == [f EXCEPT !.i = @ + 1]
<1>1. pc[c] = "lin" /\ Read
  BY DEF LookupLin, At
<1>2. Searches(call[c], f) /\ (f.i = 0 \/ f.i < Len(f.str))
  BY <1>1, FrameOf DEF Stage
<1>3. f \in Frame /\ f.str \in BitStrings(BIT_DOMAIN) /\ f.i \in Nat
  BY FrameOf DEF Frame
<1>4. Len(f.str) \in Nat /\ Len(f.str) <= BIT_DOMAIN
  BY <1>3, BitStringIsSeq, WidthType
<1>5. Prefix(f.str, f.i) \in Label /\ Len(Prefix(f.str, f.i)) < BIT_DOMAIN
  <2> HIDE DEF f
  <2>1. /\ Prefix(f.str, f.i) \in BitStrings(BIT_DOMAIN)
        /\ Len(Prefix(f.str, f.i)) = IF f.i < Len(f.str) THEN f.i ELSE Len(f.str)
    BY <1>3, PrefixString, WidthType
  <2> QED
    BY <1>2, <1>3, <1>4, <2>1, LongerString, WidthType DEF Label
<1>6. CASE IsLeaf(node) /\ Found(c, node)
  <2>1. node \in SoundNode /\ node.label = Prefix(f.str, f.i)
    BY <1>5, <1>6, Looked DEF IsLeaf
  <2> HIDE DEF node
  <2> QED
    BY <1>1, <1>2, <1>3, <1>5, <1>6, <2>1, FoundTyped
<1>7. CASE ~IsLeaf(node)
  <2>1. \/ f.i + 1 < Len(f.str) /\ Goto(c, "lin", next)
        \/ Fatal(c)
    BY <1>7 DEF LookupLin
  <2>2. CASE f.i + 1 < Len(f.str) /\ Goto(c, "lin", next)
    <3>1. next \in Frame /\ next.str = f.str /\ next.i = f.i + 1
      BY <1>3 DEF Frame
    <3> HIDE DEF next
    <3>2. Searches(call[c], next)
      BY <1>2, <3>1 DEF Searches
    <3>3. Stage("lin", call[c], next, <<>>) /\ "lin" \in Access
      BY <2>2, <3>1, <3>2 DEF Stage, Access
    <3> QED
      BY <1>1, <2>2, <3>1, <3>3, GotoTyped
  <2> QED
    BY <1>1, <2>1, <2>2, FatalTyped
<1> QED
  BY <1>6, <1>7 DEF LookupLin


\* The label of the other child, and of the parent.
LEMMA SiblingLabel ==
    ASSUME NEW n \in SoundNode
    PROVE  /\ get_sibling_label(n) \in Label \cup {None}
           /\ get_sibling_label(n) # None => n.label # <<>>
           /\ n.label # <<>> =>
                  /\ get_sibling_label(n) \in Label
                  /\ Len(get_sibling_label(n)) = Len(n.label)
                  /\ \A i \in 1 .. Len(n.label) - 1 : get_sibling_label(n)[i] = n.label[i]
<1> DEFINE x == n.label
           L == Len(x)
           y == [x EXCEPT ![L] = 1 - @]
<1>1. x \in Seq({0, 1}) /\ L \in Nat /\ L <= BIT_DOMAIN + 1
  BY NodeFacts
<1>2. CASE x = <<>>
  BY <1>2 DEF get_sibling_label
<1>3. CASE x # <<>>
  <2>1. get_sibling_label(n) = y
    BY <1>3 DEF get_sibling_label
  <2>2. L >= 1 /\ x \in [1 .. L -> {0, 1}]
    BY <1>1, <1>3
  <2> HIDE DEF x, L
  <2>3. 1 - x[L] \in {0, 1}
    <3>1. x[L] \in {0, 1}
      BY <1>1, <2>2
    <3> QED
      BY <3>1
  <2>4. y \in [1 .. L -> {0, 1}] /\ \A i \in 1 .. L - 1 : y[i] = x[i]
    BY <1>1, <2>2, <2>3
  <2> HIDE DEF y
  <2>5. y \in Seq({0, 1}) /\ Len(y) = L
    BY <1>1, <2>4
  <2>6. y \in Label
    BY <1>1, <2>5, BitStringIsSeq, WidthType DEF Label
  <2> QED
    BY <1>3, <2>1, <2>4, <2>5, <2>6 DEF x, L
<1> QED
  BY <1>2, <1>3

\* The parent's label is the label without its last bit.
LEMMA ParentLabel ==
    ASSUME NEW n \in SoundNode, n.label # <<>>
    PROVE  /\ get_parent_label(n) \in Label
           /\ Len(get_parent_label(n)) = Len(n.label) - 1
           /\ Len(n.label) >= 1
           /\ \A i \in 1 .. Len(n.label) - 1 : get_parent_label(n)[i] = n.label[i]
<1>1. n.label \in Label /\ n.label \in Seq({0, 1}) /\ Len(n.label) \in Nat
  BY NodeFacts
<1>2. Len(n.label) >= 1 /\ Len(n.label) - 1 \in Nat /\ Len(n.label) - 1 < Len(n.label)
  BY <1>1
<1> QED
  BY <1>1, <1>2, PrefixString, WidthType DEF get_parent_label, Label

\* The keys of two siblings lie under their parent's label.
LEMMA MergedPairs ==
    ASSUME NEW leaf \in SoundNode, NEW sib \in SoundNode, leaf.label # <<>>,
           sib.label = get_sibling_label(leaf), NEW k \in leaf.data \cup sib.data
    PROVE  k \in Key /\ Under(k.integral, get_parent_label(leaf))
<1> DEFINE p == get_parent_label(leaf)
<1>1. /\ Len(p) = Len(leaf.label) - 1 /\ Len(leaf.label) >= 1
      /\ \A i \in 1 .. Len(leaf.label) - 1 : p[i] = leaf.label[i]
  BY ParentLabel
<1>2. /\ Len(sib.label) = Len(leaf.label)
      /\ \A i \in 1 .. Len(leaf.label) - 1 : sib.label[i] = leaf.label[i]
  BY SiblingLabel
<1>3. Len(leaf.label) \in Nat
  BY NodeFacts
<1>4. Under(k.integral, leaf.label) \/ Under(k.integral, sib.label)
  BY NodeFacts
<1> HIDE DEF p
<1>5. Under(k.integral, p)
  BY <1>1, <1>2, <1>3, <1>4, WidthType DEF Under
<1> QED
  BY <1>5, NodeFacts DEF p

\* delete reads the leaf's sibling.
LEMMA ReadSiblingTyped ==
    ASSUME TypeInv, NEW c \in Client, ReadSibling(c)
    PROVE  TypeInv'
<1> DEFINE f == frame[c]
           sib == dht_lookup(get_sibling_label(f.leaf))
           g == [f EXCEPT !.sib = sib, !.pairs = f.leaf.data \cup sib.data]
<1>1. pc[c] = "sibling" /\ Read
  BY DEF ReadSibling, At
<1>2. f \in Frame /\ f.leaf \in SoundNode
  BY <1>1, FrameOf DEF Stage
<1>3. CASE Writes(c, <<Publish(f.leaf)>>, EmptyFrame)
  <2>1. <<Publish(f.leaf)>> \in Seq(SoundWrite) /\ <<Publish(f.leaf)>> # <<>>
    BY <1>2, SoundPublish
  <2>2. ~EmptyFrame.merge_on
    BY DEF EmptyFrame
  <2> QED
    BY <1>1, <1>3, <2>1, <2>2, EmptyFrameTyped, WritesTyped
<1>4. CASE Merges(f.leaf, sib) /\ Goto(c, "parent", g)
  <2>1. sib # None
    BY <1>4 DEF Merges, IsLeaf
  <2>2. get_sibling_label(f.leaf) \in Label \cup {None}
    BY <1>2, SiblingLabel
  <2>3. sib \in SoundNode /\ sib.label = get_sibling_label(f.leaf)
        /\ get_sibling_label(f.leaf) \in Label
    BY <2>1, <2>2, Looked
  <2>4. f.leaf.label # <<>>
    BY <1>2, <2>3, SiblingLabel, DistinctAssumption
  <2> HIDE DEF sib
  <2>5. \A k \in f.leaf.data \cup sib.data :
            k \in Key /\ Under(k.integral, get_parent_label(f.leaf))
    BY <1>2, <2>3, <2>4, MergedPairs
  <2>6. /\ g \in Frame /\ g.leaf = f.leaf /\ g.sib = sib
        /\ g.pairs = f.leaf.data \cup sib.data
    BY <1>2, <2>3, <2>5 DEF Frame
  <2> HIDE DEF g
  <2>7. Merging(g)
    BY <1>2, <2>3, <2>4, <2>5, <2>6 DEF Merging
  <2>8. Stage("parent", call[c], g, <<>>) /\ "parent" \in Access
    BY <2>7 DEF Stage, Access
  <2> QED
    BY <1>1, <1>4, <2>6, <2>8, GotoTyped
<1> QED
  BY <1>3, <1>4 DEF ReadSibling

\* A merge reads the parent.
LEMMA ReadParentTyped ==
    ASSUME TypeInv, NEW c \in Client, ReadParent(c)
    PROVE  TypeInv'
<1> DEFINE f == frame[c]
           parent == dht_lookup(get_parent_label(f.leaf))
           new == [parent EXCEPT !.is_leaf = TRUE]
           g == [f EXCEPT !.parent = new]
<1>1. pc[c] = "parent" /\ Read
  BY DEF ReadParent, At
<1>2. f \in Frame /\ Merging(f)
  BY <1>1, FrameOf DEF Stage
<1>3. CASE Fatal(c)
  BY <1>1, <1>3, FatalTyped
<1>4. CASE parent # None /\ Goto(c, "left", g)
  <2>1. get_parent_label(f.leaf) \in Label
    BY <1>2, ParentLabel DEF Merging
  <2>2. parent \in SoundNode /\ parent.label = get_parent_label(f.leaf)
    BY <1>4, <2>1, Looked
  <2> HIDE DEF parent
  <2>3. new \in SoundNode /\ new.label = get_parent_label(f.leaf)
    BY <2>2, NodeFacts DEF SoundNode, Node
  <2> HIDE DEF new
  <2>4. g \in Frame /\ g.leaf = f.leaf /\ g.sib = f.sib /\ g.pairs = f.pairs /\ g.parent = new
    BY <1>2, <2>3 DEF Frame
  <2> HIDE DEF g
  <2>5. Merging(g)
    BY <1>2, <2>4 DEF Merging
  <2>6. Stage("left", call[c], g, <<>>) /\ "left" \in Access
    BY <2>3, <2>4, <2>5 DEF Stage, Access
  <2> QED
    BY <1>1, <1>4, <2>4, <2>6, GotoTyped
<1> QED
  BY <1>3, <1>4 DEF ReadParent

\* A merge reads the neighbours that the two leaves' pointers name.
LEMMA ReadNeighbourTyped ==
    ASSUME TypeInv, NEW c \in Client, ReadLeft(c) \/ ReadRight(c)
    PROVE  TypeInv'
<1> DEFINE f == frame[c]
<1>1. pc[c] \in {"left", "right"} /\ Read
  BY DEF ReadLeft, ReadRight, At
<1>2. /\ f \in Frame /\ Merging(f)
      /\ f.parent \in SoundNode /\ f.parent.label = get_parent_label(f.leaf)
  BY <1>1, FrameOf DEF Stage
<1>3. f.leaf \in SoundNode /\ f.sib \in SoundNode
  BY <1>2 DEF Merging
<1> HIDE DEF f
<1>4. ASSUME NEW x \in Label \cup {None}, NEW a \in {"right", "cousin"}, NEW g,
             \/ g = [f EXCEPT !.l_nbr = dht_lookup(x)]
             \/ g = [f EXCEPT !.r_nbr = dht_lookup(x)],
             Goto(c, a, g)
      PROVE  TypeInv'
  <2>1. dht_lookup(x) \in SoundNode \cup {None}
    BY Looked
  <2>2. /\ g \in Frame /\ g.leaf = f.leaf /\ g.sib = f.sib /\ g.pairs = f.pairs
        /\ g.parent = f.parent
    BY <1>2, <1>4, <2>1 DEF Frame
  <2>3. Merging(g)
    BY <1>2, <2>2 DEF Merging
  <2>4. Stage(a, call[c], g, <<>>) /\ a \in Access
    BY <1>2, <2>2, <2>3 DEF Stage, Access
  <2> QED
    BY <1>1, <1>4, <2>2, <2>4, GotoTyped
<1>5. CASE ReadLeft(c)
  <2> DEFINE n == IF LastBit(f.leaf) = 0 THEN f.leaf ELSE f.sib
  <2>1. n.l_ptr \in Label \cup {None}
    BY <1>3, NodeFacts
  <2>2. Goto(c, "right", [f EXCEPT !.l_nbr = dht_lookup(n.l_ptr)])
    BY <1>5 DEF ReadLeft, f
  <2> QED
    BY <1>4, <2>1, <2>2
<1>6. CASE ReadRight(c)
  <2> DEFINE n == IF LastBit(f.leaf) = 1 THEN f.leaf ELSE f.sib
  <2>1. n.r_ptr \in Label \cup {None}
    BY <1>3, NodeFacts
  <2>2. Goto(c, "cousin", [f EXCEPT !.r_nbr = dht_lookup(n.r_ptr)])
    BY <1>6 DEF ReadRight, f
  <2> QED
    BY <1>4, <2>1, <2>2
<1> QED
  BY <1>5, <1>6

\* Every node a merge writes is sound.
LEMMA MergeWritesSound ==
    ASSUME NEW f \in Frame, Merging(f), NEW parent \in SoundNode
    PROVE  MergeWrites(f, parent) \in Seq(SoundWrite) /\ MergeWrites(f, parent) # <<>>
<1>1. f.l_nbr \in SoundNode \cup {None} /\ f.r_nbr \in SoundNode \cup {None}
  BY DEF Frame
<1>2. parent.label \in Label
  BY NodeFacts
<1> DEFINE one == <<Publish(parent), Put(f.leaf.label, None)>>
           l == [f.l_nbr EXCEPT !.r_ptr = parent.label]
           r == [f.r_nbr EXCEPT !.l_ptr = parent.label]
           two == IF f.l_nbr = None THEN <<>> ELSE <<Publish(l)>>
           three == IF f.r_nbr = None THEN <<>> ELSE <<Put(Stray, r)>>
<1>3. one \in Seq(SoundWrite) /\ one # <<>> /\ Len(one) = 2
  <2>1. Publish(parent) \in SoundWrite
    BY SoundPublish
  <2>2. Put(f.leaf.label, None) \in SoundWrite
    BY NodeFacts DEF Merging, Put, SoundWrite
  <2> QED
    BY <2>1, <2>2
<1>4. two \in Seq(SoundWrite)
  <2>1. ASSUME f.l_nbr # None PROVE l \in SoundNode
    BY <1>1, <1>2, <2>1, NodeFacts DEF SoundNode, Node
  <2> QED
    BY <2>1, SoundPublish
<1>5. three \in Seq(SoundWrite)
  <2>1. ASSUME f.r_nbr # None PROVE r \in SoundNode
    BY <1>1, <1>2, <2>1, NodeFacts DEF SoundNode, Node
  <2>2. ASSUME f.r_nbr # None PROVE Put(Stray, r) \in SoundWrite
    <3> HIDE DEF r
    <3> QED
      BY <2>1, <2>2 DEF Put, SoundWrite
  <2> QED
    BY <2>2
<1>6. MergeWrites(f, parent) = one \o two \o three
  BY DEF MergeWrites
<1> HIDE DEF one, two, three
<1>7. one \o two \o three \in Seq(SoundWrite) /\ Len(one \o two \o three) >= 2
  BY <1>3, <1>4, <1>5
<1> QED
  BY <1>6, <1>7

\* A merge reads its parent's sibling and starts to write, to climb afterwards or not.
LEMMA ReadCousinTyped ==
    ASSUME TypeInv, NEW c \in Client, ReadCousin(c)
    PROVE  TypeInv'
<1> DEFINE f == frame[c]
           parent == [f.parent EXCEPT !.l_ptr = LabelOf(f.l_nbr), !.r_ptr = LabelOf(f.r_nbr)]
           sib == dht_lookup(get_sibling_label(parent))
           full == [parent EXCEPT !.data = @ \cup f.pairs]
           g == [EmptyFrame EXCEPT !.leaf = parent, !.sib = sib, !.pairs = f.pairs,
                                   !.merge_on = TRUE]
<1>1. pc[c] = "cousin" /\ Read
  BY DEF ReadCousin, At
<1>2. /\ f \in Frame /\ Merging(f)
      /\ f.parent \in SoundNode /\ f.parent.label = get_parent_label(f.leaf)
  BY <1>1, FrameOf DEF Stage
<1>3. LabelOf(f.l_nbr) \in Label \cup {None} /\ LabelOf(f.r_nbr) \in Label \cup {None}
  BY <1>2, NodeFacts DEF LabelOf, Frame
<1>4. /\ parent \in SoundNode /\ parent.label = get_parent_label(f.leaf)
      /\ parent.data = f.parent.data
  <2>1. /\ parent \in Node /\ parent.label = f.parent.label /\ parent.data = f.parent.data
    BY <1>2, <1>3, NodeFacts DEF Node
  <2> HIDE DEF parent
  <2> QED
    BY <1>2, <2>1, NodeFacts DEF SoundNode
<1>5. f.pairs \subseteq Key /\ \A k \in f.pairs : Under(k.integral, parent.label)
  BY <1>2, <1>4 DEF Frame, Merging
<1>6. \/ Writes(c, MergeWrites(f, full), EmptyFrame)
      \/ sib # None /\ Writes(c, MergeWrites(f, parent), g)
  BY DEF ReadCousin
<1> HIDE DEF parent
<1>7. CASE Writes(c, MergeWrites(f, full), EmptyFrame)
  <2>1. full \in Node /\ full.label = parent.label /\ full.data = parent.data \cup f.pairs
    BY <1>4, <1>5, NodeFacts DEF Node
  <2> HIDE DEF full
  <2>2. full \in SoundNode
    BY <1>4, <1>5, <2>1, NodeFacts DEF SoundNode
  <2>3. ~EmptyFrame.merge_on
    BY DEF EmptyFrame
  <2> QED
    BY <1>1, <1>2, <1>7, <2>2, <2>3, MergeWritesSound, EmptyFrameTyped, WritesTyped
<1>8. CASE sib # None /\ Writes(c, MergeWrites(f, parent), g)
  <2>1. get_sibling_label(parent) \in Label \cup {None}
    BY <1>4, SiblingLabel
  <2>2. sib \in SoundNode /\ sib.label = get_sibling_label(parent)
        /\ get_sibling_label(parent) \in Label
    BY <1>8, <2>1, Looked
  <2>3. parent.label # <<>>
    BY <1>4, <2>2, SiblingLabel, DistinctAssumption
  <2> HIDE DEF sib
  <2>4. /\ g \in Frame /\ g.leaf = parent /\ g.sib = sib /\ g.pairs = f.pairs
    BY <1>4, <1>5, <2>2, EmptyFrameTyped DEF EmptyFrame, Frame
  <2> HIDE DEF g
  <2>5. \A k \in f.pairs : Under(k.integral, get_parent_label(parent))
    <3> SUFFICES ASSUME NEW k \in f.pairs
                 PROVE  Under(k.integral, get_parent_label(parent))
      OBVIOUS
    <3>1. k.integral \in KeyString /\ Under(k.integral, parent.label)
      BY <1>5, ConstantsAssumption DEF KeyString
    <3>2. parent.label \in Label /\ Len(parent.label) - 1 \in Nat
      BY <1>4, <2>3, ParentLabel, NodeFacts
    <3> QED
      BY <3>1, <3>2, UnderShorter DEF get_parent_label
  <2>6. Merging(g)
    BY <1>4, <2>2, <2>3, <2>4, <2>5 DEF Merging
  <2> QED
    BY <1>1, <1>2, <1>4, <1>8, <2>4, <2>6, MergeWritesSound, WritesTyped
<1> QED
  BY <1>6, <1>7, <1>8

\* The next write of a call is done.
LEMMA WriteTyped ==
    ASSUME TypeInv, NEW c \in Client, Write(c)
    PROVE  TypeInv'
<1> DEFINE w == Head(out[c])
           rest == Tail(out[c])
           f == frame[c]
           g == [f EXCEPT !.merge_on = FALSE]
<1>1. /\ pc[c] = "write" /\ f \in Frame /\ out[c] \in Seq(SoundWrite)
      /\ Stage("write", call[c], f, out[c]) /\ call[c] \in Call \cup {None}
  BY FrameOf DEF Write, At
<1>2. out[c] # <<>> /\ (f.merge_on => Merging(f))
  BY <1>1 DEF Stage
<1>3. w \in SoundWrite /\ rest \in Seq(SoundWrite)
  BY <1>1, <1>2
<1>4. /\ db' = [db EXCEPT ![w.at] = w.node] /\ UNCHANGED <<call, calls, stopped>>
      /\ \/ rest # <<>> /\ Writes(c, rest, f)
         \/ /\ f.merge_on
            /\ pc' = [pc EXCEPT ![c] = "parent"]
            /\ frame' = [frame EXCEPT ![c].merge_on = FALSE]
            /\ out' = [out EXCEPT ![c] = <<>>]
         \/ Return(c, None)
  BY DEF Write
<1> HIDE DEF w, rest
<1>5. DbTyped'
  <2>1. /\ w.at \in Label \cup {Stray} /\ w.node \in SoundNode \cup {None}
        /\ w.node # None => w.at \in {w.node.label, Stray}
    BY <1>3 DEF SoundWrite
  <2> QED
    BY <1>4, <2>1, DistinctAssumption DEF TypeInv, DbTyped
<1>6. CountsTyped' /\ call' = [call EXCEPT ![c] = call[c]]
  BY <1>4 DEF TypeInv, LocalsTyped, CountsTyped
<1>7. <<>> \in Seq(SoundWrite) /\ {"write", "parent", "idle"} \subseteq Access
  BY DEF Access
<1>8. CASE rest # <<>> /\ Writes(c, rest, f)
  <2>1. Stage("write", call[c], f, rest)
    BY <1>2, <1>8 DEF Stage
  <2> QED
    BY <1>1, <1>3, <1>5, <1>6, <1>7, <1>8, <2>1, ClientStep DEF Writes
<1>9. CASE /\ f.merge_on
           /\ pc' = [pc EXCEPT ![c] = "parent"]
           /\ frame' = [frame EXCEPT ![c].merge_on = FALSE]
           /\ out' = [out EXCEPT ![c] = <<>>]
  <2>1. frame' = [frame EXCEPT ![c] = g]
    BY <1>9
  <2>2. g \in Frame /\ g.leaf = f.leaf /\ g.sib = f.sib /\ g.pairs = f.pairs
    BY <1>1 DEF Frame
  <2> HIDE DEF g
  <2>3. Merging(g)
    BY <1>2, <1>9, <2>2 DEF Merging
  <2>4. Stage("parent", call[c], g, <<>>)
    BY <2>3 DEF Stage
  <2> QED
    BY <1>1, <1>5, <1>6, <1>7, <1>9, <2>1, <2>2, <2>4, ClientStep
<1>10. CASE Return(c, None)
  <2>1. Stage("idle", call[c], EmptyFrame, <<>>)
    BY DEF Stage
  <2> QED
    BY <1>1, <1>5, <1>6, <1>7, <1>10, <2>1, EmptyFrameTyped, ClientStep DEF Return
<1> QED
  BY <1>4, <1>8, <1>9, <1>10

\* A range query reads the next node of its traversal.
LEMMA VisitTyped ==
    ASSUME TypeInv, NEW c \in Client, Visit(c)
    PROVE  TypeInv'
<1> DEFINE f == frame[c]
           node == dht_lookup(Head(f.todo))
<1>1. pc[c] = "visit" /\ Read
  BY DEF Visit, At
<1>2. /\ f \in Frame /\ call[c] \in Call /\ call[c].type = "range" /\ f.todo # <<>>
  BY <1>1, FrameOf DEF Stage
<1>3. f.todo \in Seq(BitStrings(BIT_DOMAIN)) /\ f.data \in SUBSET Key
  BY <1>2 DEF Frame
<1>4. Head(f.todo) \in BitStrings(BIT_DOMAIN) /\ Tail(f.todo) \in Seq(BitStrings(BIT_DOMAIN))
  BY <1>2, <1>3
<1>5. Head(f.todo) \in Label
  BY <1>4, LongerString, WidthType DEF Label
<1>6. CASE Fatal(c)
  BY <1>1, <1>6, FatalTyped
<1>7. CASE /\ node # None /\ (node.is_leaf \/ Len(node.label) < BIT_DOMAIN)
           /\ Traverse(c, node, Tail(f.todo), f.data)
  <2>1. node \in SoundNode
    BY <1>5, <1>7, Looked
  <2> HIDE DEF node, f
  <2> QED
    BY <1>1, <1>2, <1>3, <1>4, <1>7, <2>1, TraverseTyped
<1> QED
  BY <1>6, <1>7 DEF Visit

\* Every step keeps the invariant.
LEMMA TypeNext ==
    ASSUME TypeInv, [Next]_vars
    PROVE  TypeInv'
<1>1. ASSUME NEW c \in Client, Crash(c)
      PROVE  TypeInv'
  BY <1>1 DEF Crash, TypeInv, DbTyped, LocalsTyped, CountsTyped, Staged
<1>2. CASE UNCHANGED vars
  BY <1>2 DEF vars, TypeInv, DbTyped, LocalsTyped, CountsTyped, Staged
<1> QED
  BY <1>1, <1>2, BeginTyped, InitTrieTyped, LookupStartTyped, LookupBinTyped,
     LookupLinTyped, ReadSiblingTyped, ReadParentTyped, ReadNeighbourTyped,
     ReadCousinTyped, WriteTyped, VisitTyped
  DEF Next, Proceed


\* An update has a key.
LEMMA UpdateKey ==
    ASSUME TypeInv, NEW c \in Client, call[c] # None, call[c].type # "range"
    PROVE  call[c].key \in Key /\ call[c].type \in {"insert", "delete"}
BY DEF TypeInv, LocalsTyped, Call

\* A client that goes on with its update keeps its key to itself.
LEMMA KeysStep ==
    ASSUME TypeInv, KeysApart, NEW c \in Client, NEW a, a # "init",
           pc[c] \notin {"idle", "fatal"}, pc' = [pc EXCEPT ![c] = a],
           UNCHANGED <<call, kept, gone>>
    PROVE  KeysApart'
<1>1. \A e \in Client : pc'[e] = IF e = c THEN a ELSE pc[e]
  BY DEF TypeInv, LocalsTyped
<1>2. \A e \in Client : Updates(e)' => Updates(e)
  BY <1>1 DEF Updates, KeysApart
<1> QED
  BY <1>1, <1>2 DEF KeysApart

\* When an update returns, its key is kept, or gone, and nobody else works on it.
LEMMA KeysReturn ==
    ASSUME TypeInv, KeysApart, NEW c \in Client, NEW result,
           pc[c] \notin {"idle", "fatal"}, Return(c, result), UNCHANGED call
    PROVE  KeysApart'
<1>1. \A e \in Client : pc'[e] = IF e = c THEN "idle" ELSE pc[e]
  BY DEF TypeInv, LocalsTyped, Return
<1>2. \A e \in Client : Updates(e)' => Updates(e) /\ e # c
  BY <1>1 DEF Updates
<1>3. call[c] # None => pc[c] # "init"
  BY DEF KeysApart
<1>4. CASE call[c] # None /\ call[c].type # "range"
  <2> DEFINE key == call[c].key
  <2>1. key \in Key
    BY <1>4, UpdateKey
  <2>2. Updates(c)
    BY <1>3, <1>4 DEF Updates
  <2>3. \A e \in Client : Updates(e)' => call[e].key # key
    BY <1>2, <2>2 DEF KeysApart
  <2>4. /\ kept' = IF call[c].type = "insert" THEN kept \cup {key} ELSE kept
        /\ gone' = IF call[c].type = "delete" THEN gone \cup {key} ELSE gone
    BY <1>4 DEF Return
  <2>5. /\ call[c].type = "insert" => key \notin gone
        /\ call[c].type = "delete" => key \notin kept
    BY <2>2 DEF KeysApart
  <2>6. /\ kept' \subseteq Key /\ gone' \subseteq Key /\ kept' \cap gone' = {}
    BY <2>1, <2>4, <2>5 DEF KeysApart
  <2>7. \A e \in Client : Updates(e)' =>
            /\ call[e].type = "insert" => call[e].key \notin gone'
            /\ call[e].type = "delete" => call[e].key \notin kept'
    BY <1>2, <2>3, <2>4 DEF KeysApart
  <2> QED
    BY <1>1, <1>2, <2>6, <2>7 DEF KeysApart
<1>5. CASE ~(call[c] # None /\ call[c].type # "range")
  <2>1. kept' = kept /\ gone' = gone
    BY <1>5 DEF Return
  <2> QED
    BY <1>1, <1>2, <2>1 DEF KeysApart
<1> QED
  BY <1>4, <1>5

\* A call that begins has its key to itself.
LEMMA KeysBegin ==
    ASSUME TypeInv, KeysApart, NEW c \in Client, Begin(c)
    PROVE  KeysApart'
<1>1. PICK m \in Call :
        /\ call' = [call EXCEPT ![c] = m]
        /\ \/ /\ m.type # "range"
              /\ \A e \in Client : pc[e] \notin {"init", "idle", "fatal"} /\ call[e] # None
                                       /\ call[e].type # "range" => call[e].key # m.key
              /\ pc' = [pc EXCEPT ![c] = "bin"]
              /\ kept' = IF m.type = "delete" THEN kept \ {m.key} ELSE kept
              /\ gone' = IF m.type = "insert" THEN gone \ {m.key} ELSE gone
           \/ /\ m.type = "range"
              /\ pc' = [pc EXCEPT ![c] = "start"]
              /\ UNCHANGED <<kept, gone>>
  BY DEF Begin
<1>2. \A e \in Client : call'[e] = IF e = c THEN m ELSE call[e]
  BY <1>1 DEF TypeInv, LocalsTyped
<1>3. \A e \in Client : pc'[e] = IF e = c THEN pc'[c] ELSE pc[e]
  BY <1>1 DEF TypeInv, LocalsTyped
<1>4. pc'[c] # "init"
  BY <1>1 DEF TypeInv, LocalsTyped
<1>5. \A e \in Client : e # c /\ Updates(e)' => Updates(e)
  BY <1>2, <1>3 DEF Updates
<1>6. \A e \in Client : e # c => call'[e] = call[e]
  BY <1>2
<1>7. CASE m.type = "range"
  <2>1. ~Updates(c)'
    BY <1>2, <1>7 DEF Updates
  <2>2. kept' = kept /\ gone' = gone
    BY <1>1, <1>7
  <2> QED
    BY <1>3, <1>4, <1>5, <1>6, <2>1, <2>2 DEF KeysApart
<1>8. CASE m.type # "range"
  <2>1. \A e \in Client : Updates(e) => call[e].key # m.key
    BY <1>1, <1>8 DEF Updates
  <2>2. /\ kept' = IF m.type = "delete" THEN kept \ {m.key} ELSE kept
        /\ gone' = IF m.type = "insert" THEN gone \ {m.key} ELSE gone
    BY <1>1, <1>8
  <2>3. /\ kept' \subseteq Key /\ gone' \subseteq Key /\ kept' \cap gone' = {}
        /\ kept' \subseteq kept /\ gone' \subseteq gone
    BY <2>2 DEF KeysApart
  <2>4. \A d, e \in Client : Updates(d)' /\ Updates(e)' /\ d # e => call'[d].key # call'[e].key
    <3> SUFFICES ASSUME NEW d \in Client, NEW e \in Client, Updates(d)', Updates(e)', d # e
                 PROVE  call'[d].key # call'[e].key
      OBVIOUS
    <3>1. CASE d # c /\ e # c
      BY <1>5, <1>6, <3>1 DEF KeysApart
    <3>2. CASE d = c
      BY <1>2, <1>5, <2>1, <3>2
    <3>3. CASE e = c
      BY <1>2, <1>5, <2>1, <3>3
    <3> QED
      BY <3>1, <3>2, <3>3
  <2>5. \A e \in Client : Updates(e)' =>
            /\ call'[e].type = "insert" => call'[e].key \notin gone'
            /\ call'[e].type = "delete" => call'[e].key \notin kept'
    <3> SUFFICES ASSUME NEW e \in Client, Updates(e)'
                 PROVE  /\ call'[e].type = "insert" => call'[e].key \notin gone'
                        /\ call'[e].type = "delete" => call'[e].key \notin kept'
      OBVIOUS
    <3>1. CASE e # c
      BY <1>5, <1>6, <2>3, <3>1 DEF KeysApart
    <3>2. CASE e = c
      BY <1>2, <2>2, <3>2
    <3> QED
      BY <3>1, <3>2
  <2>6. \A e \in Client : pc'[e] = "init" => call'[e] = None
    BY <1>3, <1>4, <1>6 DEF KeysApart
  <2> QED
    BY <2>3, <2>4, <2>5, <2>6 DEF KeysApart
<1> QED
  BY <1>7, <1>8

\* KeysApart is kept by every step.
LEMMA KeysNext ==
    ASSUME TypeInv, KeysApart, [Next]_vars
    PROVE  KeysApart'
<1>1. CASE UNCHANGED vars
  BY <1>1 DEF vars, KeysApart, Updates
<1>2. ASSUME NEW c \in Client, Crash(c)
      PROVE  KeysApart'
  BY <1>2 DEF Crash, KeysApart, Updates
<1>3. ASSUME NEW c \in Client, Proceed(c)
      PROVE  KeysApart'
  <2>1. pc[c] \notin {"idle", "fatal"} /\ call' = call
    BY <1>3 DEF Proceed, InitTrie, LookupStart, LookupBin, LookupLin, ReadSibling,
                ReadParent, ReadLeft, ReadRight, ReadCousin, Write, Visit, At, Read
  <2>2. \/ \E result : Return(c, result)
        \/ \E a : a # "init" /\ pc' = [pc EXCEPT ![c] = a] /\ UNCHANGED <<kept, gone>>
    <3>1. ASSUME NEW a, NEW f, Goto(c, a, f), a # "init"
          PROVE  \E x : x # "init" /\ pc' = [pc EXCEPT ![c] = x] /\ UNCHANGED <<kept, gone>>
      BY <3>1 DEF Goto
    <3>2. ASSUME NEW o, NEW f, Writes(c, o, f)
          PROVE  \E x : x # "init" /\ pc' = [pc EXCEPT ![c] = x] /\ UNCHANGED <<kept, gone>>
      <4>1. "write" # "init"
        OBVIOUS
      <4> QED
        BY <3>2, <4>1 DEF Writes
    <3>3. ASSUME Fatal(c)
          PROVE  \E x : x # "init" /\ pc' = [pc EXCEPT ![c] = x] /\ UNCHANGED <<kept, gone>>
      BY <3>1, <3>3 DEF Fatal
    <3>4. ASSUME NEW node, NEW todo, NEW data, Traverse(c, node, todo, data)
          PROVE  \/ \E result : Return(c, result)
                 \/ \E x : x # "init" /\ pc' = [pc EXCEPT ![c] = x] /\ UNCHANGED <<kept, gone>>
      BY <3>1, <3>4 DEF Traverse
    <3>5. ASSUME NEW node, Found(c, node)
          PROVE  \/ \E result : Return(c, result)
                 \/ \E x : x # "init" /\ pc' = [pc EXCEPT ![c] = x] /\ UNCHANGED <<kept, gone>>
      BY <3>1, <3>2, <3>5 DEF Found
    <3>6. CASE InitTrie(c)
      BY <3>2, <3>6 DEF InitTrie
    <3>7. CASE LookupStart(c)
      BY <3>1, <3>4, <3>7 DEF LookupStart
    <3>8. CASE LookupBin(c)
      BY <3>1, <3>5, <3>8 DEF LookupBin
    <3>9. CASE LookupLin(c)
      BY <3>1, <3>3, <3>5, <3>9 DEF LookupLin
    <3>10. CASE ReadSibling(c)
      BY <3>1, <3>2, <3>10 DEF ReadSibling
    <3>11. CASE ReadParent(c)
      BY <3>1, <3>3, <3>11 DEF ReadParent
    <3>12. CASE ReadLeft(c) \/ ReadRight(c)
      BY <3>1, <3>12 DEF ReadLeft, ReadRight
    <3>13. CASE ReadCousin(c)
      BY <3>2, <3>13 DEF ReadCousin
    <3>14. CASE Write(c)
      <4>1. "parent" # "init"
        OBVIOUS
      <4> QED
        BY <3>2, <3>14, <4>1 DEF Write
    <3>15. CASE Visit(c)
      BY <3>3, <3>4, <3>15 DEF Visit
    <3> QED
      BY <1>3, <3>6, <3>7, <3>8, <3>9, <3>10, <3>11, <3>12, <3>13, <3>14, <3>15 DEF Proceed
  <2> QED
    BY <2>1, <2>2, KeysReturn, KeysStep
<1> QED
  BY <1>1, <1>2, <1>3, KeysBegin DEF Next

\* The database holds trie nodes, each under its own label, whoever inserts,
\* deletes, queries and stops, and however their accesses interleave; no key is
\* both kept and gone.
THEOREM TypeCorrect == Spec => [](TypeInv /\ KeysApart)
<1>1. Init => KeysApart
  BY DEF Init, KeysApart, Updates
<1>2. Init => TypeInv
  BY TypeInit
<1>3. TypeInv /\ KeysApart /\ [Next]_vars => (TypeInv /\ KeysApart)'
  BY TypeNext, KeysNext
<1> QED
  BY <1>1, <1>2, <1>3, PTL DEF Spec

\* The type invariant that the runs check, in particular that no node is stored
\* under the label of another.
THEOREM TypeOKCorrect == Spec => []TypeOK
<1>1. TypeInv /\ KeysApart => TypeOK
  <2> SUFFICES ASSUME TypeInv, KeysApart PROVE TypeOK
    OBVIOUS
  <2>1. SoundNode \subseteq Node
    BY DEF SoundNode
  <2>2. db \in [Label \cup {Stray} -> Node \cup {None}]
    BY <2>1 DEF TypeInv, DbTyped
  <2>3. \A c \in Client : out[c] # <<>> <=> pc[c] = "write"
    BY DEF TypeInv, Staged, Stage
  <2> QED
    BY <2>2, <2>3 DEF TypeOK, TypeInv, DbTyped, LocalsTyped, CountsTyped, KeysApart
<1> QED
  BY <1>1, TypeCorrect, PTL


-----------------------------------------------------------------------------
\* The block size

\* No more than B keys have the same integral part.
FewAlike ==
    \A S \in SUBSET Key :
        IsFiniteSet(S) /\ B < Cardinality(S) => \E k, l \in S : k.integral # l.integral

NodeFits(n) == n.is_leaf => IsFiniteSet(n.data) /\ Cardinality(n.data) <= B

\* No leaf is too large, in the database or on its way there.
SizeInv ==
    /\ \A x \in Label \cup {Stray} : db[x] # None => NodeFits(db[x])
    /\ \A c \in Client, i \in Nat :
           i \in 1 .. Len(out[c]) /\ out[c][i].node # None => NodeFits(out[c][i].node)
    /\ \A c \in Client :
           /\ call[c] # None => call[c].type # "delete"
           /\ pc[c] \notin {"sibling", "parent", "left", "right", "cousin"}
           /\ pc[c] = "write" => ~frame[c].merge_on

\* A split divides the pairs of a full leaf and one more: neither of the last
\* children gets all of them.
LEMMA SplitFits ==
    ASSUME FewAlike, NEW leaf, NEW pairs, Splits(leaf, pairs),
           IsFiniteSet(pairs), Cardinality(pairs) = B + 1,
           NEW d \in Len(leaf.label) .. Len(Lcp(pairs)), NEW bit \in {0, 1}
    PROVE  NodeFits(SplitKid(leaf, pairs, d, bit))
<1> DEFINE lcp == Lcp(pairs)
           L == Len(lcp)
           T == {k \in pairs : Goes(k, d, bit)}
           kid == SplitKid(leaf, pairs, d, bit)
<1>1. kid.data = IF d = L THEN T ELSE {}
  <2>1. kid.data = KidData(pairs, d, bit)
    BY SplitKidProps
  <2> HIDE DEF kid
  <2> QED
    BY <2>1 DEF KidData
<1> HIDE DEF kid
<1>2. CASE d # L
  <2>1. kid.data = {}
    BY <1>1, <1>2
  <2> QED
    BY <2>1, FS_EmptySet, WidthType DEF NodeFits, kid
<1>3. CASE d = L
  <2>1. pairs \in SUBSET Key
    BY DEF Splits
  <2>2. \E k, l \in pairs : k.integral # l.integral
    <3>1. B < Cardinality(pairs)
      BY WidthType
    <3> QED
      BY <2>1, <3>1 DEF FewAlike
  <2>3. L \in Nat /\ L < BIT_DOMAIN /\ \E k, l \in pairs : k.integral[L + 1] # l.integral[L + 1]
    BY <2>2, SplitPrefix DEF Splits, Lcp
  <2> HIDE DEF L
  <2>4. \A k \in pairs : /\ k.integral[L + 1] \in {0, 1}
                         /\ Goes(k, L, bit) <=> k.integral[L + 1] = bit
    <3> SUFFICES ASSUME NEW k \in pairs
                 PROVE  /\ k.integral[L + 1] \in {0, 1}
                        /\ Goes(k, L, bit) <=> k.integral[L + 1] = bit
      OBVIOUS
    <3>1. k.integral \in KeyString
      BY <2>1, ConstantsAssumption DEF KeyString
    <3>2. Len(k.integral) = BIT_DOMAIN /\ L + 1 \in 1 .. BIT_DOMAIN
      BY <2>3, <3>1, KeyStrings, WidthType
    <3> QED
      BY <2>3, <3>1, <3>2 DEF Goes, KeyString
  <2>5. T # pairs
    BY <1>3, <2>3, <2>4
  <2>6. T \in SUBSET pairs
    OBVIOUS
  <2> HIDE DEF T
  <2>7. IsFiniteSet(T) /\ Cardinality(T) <= Cardinality(pairs) /\ Cardinality(T) # Cardinality(pairs)
    BY <2>5, <2>6, FS_Subset
  <2>8. Cardinality(T) \in Nat
    BY <2>7, FS_CardinalityType
  <2>9. Cardinality(T) <= B
    BY <2>7, <2>8, WidthType
  <2> QED
    BY <1>1, <1>3, <2>7, <2>9 DEF NodeFits, kid
<1> QED
  BY <1>2, <1>3

\* An empty node has room.
LEMMA EmptyFits ==
    ASSUME NEW x
    PROVE  NodeFits(LeafNode(x)) /\ NodeFits(InternalNode(x))
<1>1. LeafNode(x).data = {} /\ ~InternalNode(x).is_leaf
  BY DEF LeafNode, InternalNode
<1> QED
  BY <1>1, FS_EmptySet, WidthType DEF NodeFits

\* Every leaf a split writes has room, when few keys share all their bits.
LEMMA SplitWritesFit ==
    ASSUME FewAlike, NEW leaf, NEW pairs, Splits(leaf, pairs),
           IsFiniteSet(pairs), Cardinality(pairs) = B + 1
    PROVE  \A i \in 1 .. Len(_do_split_insert(leaf, pairs)) :
               NodeFits(_do_split_insert(leaf, pairs)[i].node)
<1> DEFINE a == Len(leaf.label)
           lcp == Lcp(pairs)
           L == Len(lcp)
           w == _do_split_insert(leaf, pairs)
           n == 3 * (L - a + 1)
<1>1. /\ a \in Nat /\ L \in Nat /\ a <= L
      /\ w = [i \in 1 .. n |-> w[i]]
  BY SplitEntries
<1>2. n \in Nat
  <2> HIDE DEF a, L
  <2> QED
    BY <1>1
<1>3. w \in Seq(SoundWrite)
  BY SplitWritesSound
<1>4. ASSUME NEW i \in 1 .. n
      PROVE  NodeFits(w[i].node)
  <2> DEFINE d == a + (i - 1) \div 3
  <2>1. /\ d \in a .. L
        /\ i % 3 \in {0, 1, 2}
        /\ i % 3 = 1 => w[i] = Publish(SplitKid(leaf, pairs, d, 0))
        /\ i % 3 = 2 => w[i] = Publish(SplitKid(leaf, pairs, d, 1))
        /\ i % 3 = 0 => w[i] = Publish(InternalNode(Prefix(lcp, d)))
    BY SplitEntries
  <2> HIDE DEF d, w, n
  <2>2. \A bit \in {0, 1} : NodeFits(SplitKid(leaf, pairs, d, bit))
    BY <2>1, SplitFits
  <2>3. NodeFits(InternalNode(Prefix(lcp, d)))
    BY EmptyFits
  <2>4. \A x : Publish(x).node = x
    BY DEF Publish, Put
  <2> QED
    BY <2>1, <2>2, <2>3, <2>4
<1> HIDE DEF w, n
<1>5. Len(w) = n
  BY <1>1, <1>2, <1>3
<1> QED
  BY <1>4, <1>5 DEF w

\* What a client that does not delete does at a leaf: it returns, or it writes
\* nodes that fit.
LEMMA FoundFits ==
    ASSUME FewAlike, TypeInv, SizeInv, NEW c \in Client, Searches(call[c], frame[c]),
           NEW node \in SoundNode, NodeFits(node), node.is_leaf, NEW n \in Nat,
           node.label = Prefix(frame[c].str, n), Len(node.label) < BIT_DOMAIN,
           Found(c, node)
    PROVE  \/ \E result : Return(c, result)
           \/ \E o \in Seq(SoundWrite) :
                  Writes(c, o, EmptyFrame) /\ \A i \in 1 .. Len(o) : NodeFits(o[i].node)
<1>1. call[c] \in Call /\ call[c].type # "delete"
  <2>1. call[c] \in Call
    BY DEF Searches
  <2> QED
    <3>1. CASE call[c] # None
      BY <2>1, <3>1 DEF SizeInv
    <3>2. CASE call[c] = None
      BY <2>1, <3>2, DistinctAssumption
    <3> QED
      BY <3>1, <3>2
<1>2. CASE call[c].type = "range"
  BY <1>2 DEF Found
<1>3. CASE call[c].type = "insert"
  <2> DEFINE key == call[c].key
             pairs == node.data \cup {key}
             new == [node EXCEPT !.data = @ \cup {key}]
  <2>1. key \in Key /\ frame[c].str = key.integral
    BY <1>3 DEF Searches, Call
  <2>2. Under(key.integral, node.label)
    BY <2>1, UnderPrefix, ConstantsAssumption DEF KeyString
  <2>3. Splits(node, pairs)
    BY <2>1, <2>2, NodeFacts DEF Splits
  <2>4. /\ IsFiniteSet(node.data) /\ Cardinality(node.data) \in Nat
        /\ Cardinality(node.data) <= B
    BY FS_CardinalityType DEF NodeFits
  <2>5. /\ IsFiniteSet(pairs)
        /\ Cardinality(pairs) = IF key \in node.data THEN Cardinality(node.data)
                                ELSE Cardinality(node.data) + 1
    BY <2>4, FS_AddElement
  <2>6. new \in SoundNode /\ new.data = pairs
    <3>1. new \in Node /\ new.label = node.label /\ new.data = pairs
      BY <2>1, NodeFacts DEF Node
    <3> HIDE DEF new
    <3> QED
      BY <2>3, <3>1 DEF SoundNode, Splits
  <2>7. \/ /\ key \in node.data \/ Cardinality(node.data) < B
           /\ Writes(c, <<Publish(new)>>, EmptyFrame)
        \/ /\ key \notin node.data /\ ~(Cardinality(node.data) < B)
           /\ Writes(c, _do_split_insert(node, pairs), EmptyFrame)
    BY <1>3 DEF Found, Fits, size
  <2> HIDE DEF new, pairs
  <2>8. CASE /\ key \in node.data \/ Cardinality(node.data) < B
             /\ Writes(c, <<Publish(new)>>, EmptyFrame)
    <3>1. NodeFits(new)
      BY <2>4, <2>5, <2>6, <2>8, WidthType DEF NodeFits
    <3>2. <<Publish(new)>> \in Seq(SoundWrite) /\ Publish(new).node = new
      BY <2>6, SoundPublish DEF Publish, Put
    <3>3. \A i \in 1 .. Len(<<Publish(new)>>) : NodeFits(<<Publish(new)>>[i].node)
      BY <3>1, <3>2
    <3> QED
      BY <2>8, <3>2, <3>3
  <2>9. CASE /\ key \notin node.data /\ ~(Cardinality(node.data) < B)
             /\ Writes(c, _do_split_insert(node, pairs), EmptyFrame)
    <3>1. Cardinality(pairs) = B + 1
      BY <2>4, <2>5, <2>9, WidthType
    <3> QED
      BY <2>3, <2>5, <2>9, <3>1, SplitWritesFit, SplitWritesSound
  <2> QED
    BY <2>7, <2>8, <2>9
<1> QED
  BY <1>1, <1>2, <1>3 DEF Call


\* One client's variables change, and the database does not.
LEMMA SizeStep ==
    ASSUME TypeInv, SizeInv, NEW c \in Client, NEW a, NEW f, NEW o,
           a \notin {"sibling", "parent", "left", "right", "cousin"},
           a = "write" => ~f.merge_on,
           \A i \in 1 .. Len(o) : o[i].node # None => NodeFits(o[i].node),
           pc' = [pc EXCEPT ![c] = a], frame' = [frame EXCEPT ![c] = f],
           out' = [out EXCEPT ![c] = o], UNCHANGED <<db, call>>
    PROVE  SizeInv'
<1>1. \A e \in Client : /\ pc'[e] = IF e = c THEN a ELSE pc[e]
                        /\ frame'[e] = IF e = c THEN f ELSE frame[e]
                        /\ out'[e] = IF e = c THEN o ELSE out[e]
  BY DEF TypeInv, LocalsTyped
<1>2. \A x \in Label \cup {Stray} : db'[x] # None => NodeFits(db'[x])
  BY DEF SizeInv
<1>3. \A e \in Client, i \in Nat :
          i \in 1 .. Len(out'[e]) /\ out'[e][i].node # None => NodeFits(out'[e][i].node)
  BY <1>1 DEF SizeInv
<1>4. \A e \in Client :
          /\ call'[e] # None => call'[e].type # "delete"
          /\ pc'[e] \notin {"sibling", "parent", "left", "right", "cousin"}
          /\ pc'[e] = "write" => ~frame'[e].merge_on
  BY <1>1 DEF SizeInv
<1> QED
  BY <1>2, <1>3, <1>4 DEF SizeInv, NodeFits

\* A client that goes on reading outside a merge.
LEMMA SizeGoto ==
    ASSUME TypeInv, SizeInv, NEW c \in Client, NEW a, NEW f,
           a \notin {"write", "sibling", "parent", "left", "right", "cousin"},
           Goto(c, a, f), pc[c] # "write", UNCHANGED <<db, call>>
    PROVE  SizeInv'
<1>1. out[c] = <<>>
  BY DEF TypeInv, Staged, Stage
<1>2. out' = [out EXCEPT ![c] = <<>>]
  BY <1>1 DEF Goto, TypeInv, LocalsTyped
<1>3. \A i \in 1 .. Len(<<>>) : <<>>[i].node # None => NodeFits(<<>>[i].node)
  OBVIOUS
<1> QED
  BY <1>2, <1>3, SizeStep DEF Goto

\* A client that returns.
LEMMA SizeReturn ==
    ASSUME TypeInv, SizeInv, NEW c \in Client, NEW result, Return(c, result),
           UNCHANGED <<db, call>>
    PROVE  SizeInv'
<1>1. \A i \in 1 .. Len(<<>>) : <<>>[i].node # None => NodeFits(<<>>[i].node)
  OBVIOUS
<1> QED
  BY <1>1, SizeStep DEF Return

\* A client that starts to write nodes with room.
LEMMA SizeWrites ==
    ASSUME TypeInv, SizeInv, NEW c \in Client, NEW o,
           \A i \in 1 .. Len(o) : o[i].node # None => NodeFits(o[i].node),
           Writes(c, o, EmptyFrame), UNCHANGED <<db, call>>
    PROVE  SizeInv'
<1>1. ~EmptyFrame.merge_on
  BY DEF EmptyFrame
<1> QED
  BY <1>1, SizeStep DEF Writes

\* Every step of clients that do not delete keeps the block size.
LEMMA SizeWrite ==
    ASSUME TypeInv, SizeInv, NEW c \in Client, Write(c)
    PROVE  SizeInv'
<1> DEFINE w == Head(out[c])
           rest == Tail(out[c])
<1>1. pc[c] = "write" /\ out[c] \in Seq(SoundWrite) /\ out[c] # <<>>
  BY FrameOf DEF Write, At, Stage
<1>2. /\ w = out[c][1] /\ 1 \in 1 .. Len(out[c]) /\ w \in SoundWrite
      /\ rest \in Seq(SoundWrite) /\ Len(rest) \in Nat
      /\ \A i \in 1 .. Len(rest) : i + 1 \in 1 .. Len(out[c]) /\ rest[i] = out[c][i + 1]
  BY <1>1
<1>3. ~frame[c].merge_on
  BY <1>1 DEF SizeInv
<1>4. /\ db' = [db EXCEPT ![w.at] = w.node] /\ call' = call
      /\ Writes(c, rest, frame[c]) \/ Return(c, None)
  BY <1>3 DEF Write
<1>5. w.node # None => NodeFits(w.node)
  BY <1>2 DEF SizeInv
<1>6. \A i \in Nat : i \in 1 .. Len(rest) /\ rest[i].node # None => NodeFits(rest[i].node)
  BY <1>2 DEF SizeInv
<1> HIDE DEF w, rest
<1>7. \A x \in Label \cup {Stray} : db'[x] # None => NodeFits(db'[x])
  BY <1>4, <1>5 DEF SizeInv, TypeInv, DbTyped
<1>8. \E a, f, o : /\ pc' = [pc EXCEPT ![c] = a] /\ frame' = [frame EXCEPT ![c] = f]
                   /\ out' = [out EXCEPT ![c] = o]
                   /\ a \in {"write", "idle"} /\ ~f.merge_on
                   /\ \A i \in Nat : i \in 1 .. Len(o) /\ o[i].node # None => NodeFits(o[i].node)
  <2>1. CASE Writes(c, rest, frame[c])
    BY <1>3, <1>6, <2>1 DEF Writes
  <2>2. CASE Return(c, None)
    <3>1. ~EmptyFrame.merge_on
      BY DEF EmptyFrame
    <3>2. Len(<<>>) = 0
      OBVIOUS
    <3>3. \A i \in Nat : i \in 1 .. Len(<<>>) /\ <<>>[i].node # None => NodeFits(<<>>[i].node)
      BY <3>2
    <3> QED
      BY <2>2, <3>1, <3>3 DEF Return
  <2> QED
    BY <1>4, <2>1, <2>2
<1>9. PICK a, f, o : /\ pc' = [pc EXCEPT ![c] = a] /\ frame' = [frame EXCEPT ![c] = f]
                     /\ out' = [out EXCEPT ![c] = o]
                     /\ a \in {"write", "idle"} /\ ~f.merge_on
                     /\ \A i \in Nat : i \in 1 .. Len(o) /\ o[i].node # None => NodeFits(o[i].node)
  BY <1>8
<1>10. \A e \in Client : /\ pc'[e] = IF e = c THEN a ELSE pc[e]
                         /\ frame'[e] = IF e = c THEN f ELSE frame[e]
                         /\ out'[e] = IF e = c THEN o ELSE out[e]
  BY <1>9 DEF TypeInv, LocalsTyped
<1>11. \A e \in Client, i \in Nat :
           i \in 1 .. Len(out'[e]) /\ out'[e][i].node # None => NodeFits(out'[e][i].node)
  BY <1>9, <1>10 DEF SizeInv
<1>12. \A e \in Client :
           /\ call'[e] # None => call'[e].type # "delete"
           /\ pc'[e] \notin {"sibling", "parent", "left", "right", "cousin"}
           /\ pc'[e] = "write" => ~frame'[e].merge_on
  BY <1>4, <1>9, <1>10 DEF SizeInv
<1> QED
  BY <1>7, <1>11, <1>12 DEF SizeInv, NodeFits

\* The steps of a search, the insertion at its end included.
LEMMA SizeSearch ==
    ASSUME FewAlike, TypeInv, SizeInv, NEW c \in Client,
           LookupStart(c) \/ LookupBin(c) \/ LookupLin(c) \/ Visit(c)
    PROVE  SizeInv'
<1>1. pc[c] \in {"start", "bin", "lin", "visit"} /\ UNCHANGED <<db, call>>
  BY DEF LookupStart, LookupBin, LookupLin, Visit, At, Read
<1>2. ASSUME NEW node, NEW todo, NEW data, Traverse(c, node, todo, data)
      PROVE  SizeInv'
  BY <1>1, <1>2, SizeGoto, SizeReturn DEF Traverse
<1>3. ASSUME Fatal(c)
      PROVE  SizeInv'
  BY <1>1, <1>3, SizeGoto DEF Fatal
<1>4. ASSUME NEW n \in Nat, pc[c] \in {"bin", "lin"}, n < BIT_DOMAIN \/ n < Len(frame[c].str) \/ n = 0,
             IsLeaf(dht_lookup(Prefix(frame[c].str, n))),
             Found(c, dht_lookup(Prefix(frame[c].str, n)))
      PROVE  SizeInv'
  <2> DEFINE str == frame[c].str
             x == Prefix(str, n)
             node == dht_lookup(x)
  <2>1. Searches(call[c], frame[c]) /\ str \in BitStrings(BIT_DOMAIN)
    BY <1>4, FrameOf DEF Stage, Frame
  <2>2. Len(str) \in Nat /\ Len(str) <= BIT_DOMAIN
    BY <2>1, BitStringIsSeq, WidthType
  <2>3. x \in BitStrings(BIT_DOMAIN) /\ Len(x) = IF n < Len(str) THEN n ELSE Len(str)
    <3> HIDE DEF str
    <3> QED
      BY <2>1, PrefixString, WidthType
  <2>4. Len(x) < BIT_DOMAIN
    <3> HIDE DEF x, str
    <3> QED
      BY <1>4, <2>2, <2>3, WidthType DEF str
  <2>5. x \in Label
    BY <2>3, LongerString, WidthType DEF Label
  <2>6. node \in SoundNode /\ node.label = x /\ node.is_leaf /\ node = db[x]
    BY <1>4, <2>5, Looked DEF IsLeaf
  <2>7. NodeFits(node)
    BY <1>4, <2>5, <2>6 DEF SizeInv, IsLeaf
  <2>8. Found(c, node)
    BY <1>4
  <2> HIDE DEF node
  <2>9. \/ \E result : Return(c, result)
        \/ \E o \in Seq(SoundWrite) :
               Writes(c, o, EmptyFrame) /\ \A i \in 1 .. Len(o) : NodeFits(o[i].node)
    <3> HIDE DEF x
    <3> QED
      BY <2>1, <2>4, <2>6, <2>7, <2>8, FoundFits DEF x
  <2> QED
    BY <1>1, <2>9, SizeReturn, SizeWrites
<1>5. CASE LookupStart(c)
  BY <1>1, <1>2, <1>5, SizeGoto DEF LookupStart
<1>6. CASE LookupBin(c)
  <2> DEFINE f == frame[c]
             q == (f.p + f.r - 1) \div 2
             node == dht_lookup(Prefix(f.str, q))
             next == Narrowed(f, q, node)
  <2>1. pc[c] = "bin" /\ f.p \in Nat /\ f.r \in Nat /\ f.p < f.r /\ f.r <= BIT_DOMAIN
    BY <1>6, FrameOf DEF LookupBin, At, Stage, Frame
  <2>2. q \in Nat /\ q < BIT_DOMAIN
    BY <2>1, WidthType
  <2>3. \/ IsLeaf(node) /\ Found(c, node)
        \/ Goto(c, "bin", next) \/ Goto(c, "lin", next)
    BY <1>6 DEF LookupBin
  <2> HIDE DEF next, q
  <2> QED
    BY <1>1, <1>4, <2>1, <2>2, <2>3, SizeGoto
<1>7. CASE LookupLin(c)
  <2> DEFINE f == frame[c]
             node == dht_lookup(Prefix(f.str, f.i))
             next == [f EXCEPT !.i = @ + 1]
  <2>1. pc[c] = "lin" /\ f.i \in Nat /\ (f.i = 0 \/ f.i < Len(f.str))
    BY <1>7, FrameOf DEF LookupLin, At, Stage, Frame
  <2>2. \/ IsLeaf(node) /\ Found(c, node)
        \/ Goto(c, "lin", next) \/ Fatal(c)
    BY <1>7 DEF LookupLin
  <2> HIDE DEF next
  <2> QED
    BY <1>1, <1>3, <1>4, <2>1, <2>2, SizeGoto
<1>8. CASE Visit(c)
  BY <1>1, <1>2, <1>3, <1>8 DEF Visit
<1> QED
  BY <1>5, <1>6, <1>7, <1>8

\* SizeInv is kept by every step.
LEMMA SizeNext ==
    ASSUME NoDeletes, FewAlike, TypeInv, SizeInv, [Next]_vars
    PROVE  SizeInv'
<1>1. CASE UNCHANGED vars
  BY <1>1 DEF vars, SizeInv, NodeFits
<1>2. ASSUME NEW c \in Client, Crash(c)
      PROVE  SizeInv'
  BY <1>2 DEF Crash, SizeInv, NodeFits
<1>3. ASSUME NEW c \in Client, Begin(c)
      PROVE  SizeInv'
  <2>1. PICK m \in Call :
          /\ m.type \in OpsOf[c] /\ call' = [call EXCEPT ![c] = m]
          /\ pc' = [pc EXCEPT ![c] = "bin"] \/ pc' = [pc EXCEPT ![c] = "start"]
    BY <1>3 DEF Begin
  <2>2. UNCHANGED <<db, out>>
    BY <1>3 DEF Begin
  <2>3. \A e \in Client : e # c => frame'[e] = frame[e]
    BY <1>3 DEF Begin, TypeInv, LocalsTyped
  <2>4. m.type # "delete"
    BY <2>1 DEF NoDeletes
  <2>5. \A e \in Client : /\ call'[e] = IF e = c THEN m ELSE call[e]
                          /\ IF e = c THEN pc'[e] \in {"bin", "start"} ELSE pc'[e] = pc[e]
    BY <2>1 DEF TypeInv, LocalsTyped
  <2>6. \A e \in Client :
            /\ call'[e] # None => call'[e].type # "delete"
            /\ pc'[e] \notin {"sibling", "parent", "left", "right", "cousin"}
            /\ pc'[e] = "write" => ~frame'[e].merge_on
    BY <2>3, <2>4, <2>5 DEF SizeInv
  <2> QED
    BY <2>2, <2>6 DEF SizeInv, NodeFits
<1>4. ASSUME NEW c \in Client, InitTrie(c)
      PROVE  SizeInv'
  <2>1. UNCHANGED <<db, call>>
    BY <1>4 DEF InitTrie, Read
  <2>2. CASE Return(c, None)
    BY <2>1, <2>2, SizeReturn
  <2>3. CASE Writes(c, <<Publish(LeafNode(<<>>))>>, EmptyFrame)
    <3> DEFINE o == <<Publish(LeafNode(<<>>))>>
    <3>1. \A i \in 1 .. Len(o) : o[i].node = LeafNode(<<>>)
      BY DEF Publish, Put
    <3>2. \A i \in 1 .. Len(o) : NodeFits(o[i].node)
      BY <3>1, EmptyFits
    <3> HIDE DEF o
    <3> QED
      BY <2>1, <2>3, <3>2, SizeWrites DEF o
  <2> QED
    BY <1>4, <2>2, <2>3 DEF InitTrie
<1>5. ASSUME NEW c \in Client,
             ReadSibling(c) \/ ReadParent(c) \/ ReadLeft(c) \/ ReadRight(c) \/ ReadCousin(c)
      PROVE  SizeInv'
  BY <1>5 DEF ReadSibling, ReadParent, ReadLeft, ReadRight, ReadCousin, At, SizeInv
<1> QED
  BY <1>1, <1>2, <1>3, <1>4, <1>5, SizeWrite, SizeSearch DEF Next, Proceed

\* However many clients insert and query, however their accesses interleave and
\* whoever stops, no leaf holds more than B pairs: as long as nobody deletes,
\* and no more than B keys share their integral part.
THEOREM BlockSizeCorrect ==
    ASSUME NoDeletes, FewAlike
    PROVE  Spec => []BlockSize
<1>1. Init => SizeInv
  <2> SUFFICES ASSUME Init PROVE SizeInv
    OBVIOUS
  <2>1. \A x \in Label \cup {Stray} : db[x] # None => NodeFits(db[x])
    BY EmptyFits DEF Init
  <2>2. \A c \in Client : Len(out[c]) = 0 /\ call[c] = None /\ pc[c] = "init"
    BY DEF Init
  <2> QED
    BY <2>1, <2>2 DEF SizeInv
<1>2. TypeInv /\ SizeInv /\ [Next]_vars => SizeInv'
  BY SizeNext
<1>3. SizeInv => BlockSize
  BY DEF SizeInv, BlockSize, IsLeaf, NodeFits, size
<1> QED
  BY <1>1, <1>2, <1>3, TypeCorrect, PTL DEF Spec


-----------------------------------------------------------------------------
\* The trie, when one client inserts and the others query

\* One client inserts, nobody deletes, and no two clients make the root.
OneInserter ==
    /\ NoDeletes
    /\ \A c, d \in Client : "insert" \in OpsOf[c] /\ "insert" \in OpsOf[d] => c = d
    /\ Rooted \/ \A c, d \in Client : c = d

\* The contents T of the database after the writes o.
After(o, T) ==
    [x \in Label \cup {Stray} |->
        LET at == {i \in 1 .. Len(o) : o[i].at = x}
        IN  IF at = {} THEN T[x]
            ELSE o[CHOOSE i \in at : \A j \in at : j <= i].node]

\* The nodes of T form a trie, and those of BIT_DOMAIN + 1 bits are leaves.
TrieOf(T) ==
    \A x \in Label :
        /\ T[x] # None /\ ~T[x].is_leaf =>
               /\ Len(x) <= BIT_DOMAIN
               /\ T[Append(x, 0)] # None /\ T[Append(x, 1)] # None
        /\ T[x] # None /\ x # <<>> =>
               T[Prefix(x, Len(x) - 1)] # None /\ ~T[Prefix(x, Len(x) - 1)].is_leaf

\* T has the key in a leaf that a search can probe.
Located(T, k) ==
    \E n \in 0 .. BIT_DOMAIN - 1 :
        LET node == T[Prefix(k.integral, n)]
        IN  node # None /\ node.is_leaf /\ k \in node.data

AllWritten == \A c \in Client : out[c] = <<>>

\* Of more than B keys, two differ before the last bit.
FewClose ==
    \A S \in SUBSET Key :
        IsFiniteSet(S) /\ B < Cardinality(S) =>
            \E k, l \in S : \E i \in 1 .. BIT_DOMAIN - 1 : k.integral[i] # l.integral[i]

\* Every node of T can be probed.
Shallow(T) == \A x \in Label : T[x] # None => Len(x) < BIT_DOMAIN

Holds(T, keys) == FewClose => Shallow(T) /\ \A k \in keys : Located(T, k)

\* The key of the client's insertion.
Inserted(c) ==
    IF call[c] # None /\ call[c].type = "insert" THEN {call[c].key} ELSE {}

\* May the client write to the database?
Writer(c) == "insert" \in OpsOf[c] \/ ~Rooted

\* The database is a trie with all the keys kept, or a client still has the
\* writes that complete one, with the key of its insertion too.
TrieInv ==
    /\ \A c \in Client :
           /\ call[c] # None => call[c].type \in OpsOf[c]
           /\ pc[c] \notin {"sibling", "parent", "left", "right", "cousin"}
           /\ pc[c] = "write" => ~frame[c].merge_on
    /\ \A c \in Client : out[c] # <<>> =>
           /\ Writer(c)
           /\ \A i \in 1 .. Len(out[c]) : out[c][i].node # None
           /\ TrieOf(After(out[c], db))
           /\ Holds(After(out[c], db), kept \cup Inserted(c))
    /\ Rooted => db[<<>>] # None
    /\ AllWritten => TrieOf(db) /\ Holds(db, kept)

\* A set of numbers that is not empty and has a bound has a greatest one.
LEMMA Greatest ==
    ASSUME NEW n \in Nat, NEW S \in SUBSET (1 .. n), S # {}
    PROVE  \E i \in S : \A j \in S : j <= i
<1> DEFINE D == {m \in Nat : n - m \in S}
<1>1. \A i \in S : n - i \in D /\ i \in Nat
  OBVIOUS
<1>2. PICK m \in D : \A k \in D : m <= k
  BY <1>1, Least
<1>3. n - m \in S /\ m \in Nat
  OBVIOUS
<1>4. \A j \in S : m <= n - j
  BY <1>1, <1>2
<1>5. \A j \in S : j <= n - m
  BY <1>1, <1>3, <1>4
<1> QED
  BY <1>3, <1>5

\* After: the last write to a key counts.
LEMMA AfterLast ==
    ASSUME NEW o, NEW T, Len(o) \in Nat, NEW x \in Label \cup {Stray},
           NEW i \in 1 .. Len(o), o[i].at = x, \A j \in 1 .. Len(o) : i < j => o[j].at # x
    PROVE  After(o, T)[x] = o[i].node
<1> DEFINE at == {j \in 1 .. Len(o) : o[j].at = x}
           m == CHOOSE m \in at : \A j \in at : j <= m
<1>1. i \in at /\ \A j \in at : j <= i
  OBVIOUS
<1>2. m \in at /\ \A j \in at : j <= m
  BY <1>1
<1>3. m = i
  BY <1>1, <1>2
<1>4. After(o, T)[x] = o[m].node
  BY <1>1 DEF After
<1> QED
  BY <1>3, <1>4

\* Writes that do not name a place leave it as it is.
LEMMA AfterNone ==
    ASSUME NEW o, NEW T, NEW x \in Label \cup {Stray},
           \A j \in 1 .. Len(o) : o[j].at # x
    PROVE  After(o, T)[x] = T[x]
BY DEF After

\* A write done, or none to do, changes nothing of what there will be.
LEMMA AfterEmpty ==
    ASSUME NEW V, NEW T \in [Label \cup {Stray} -> V]
    PROVE  After(<<>>, T) = T
<1>1. \A x \in Label \cup {Stray} : After(<<>>, T)[x] = T[x]
  BY AfterNone
<1>2. After(<<>>, T) = [x \in Label \cup {Stray} |-> After(<<>>, T)[x]]
  BY DEF After
<1>3. T = [x \in Label \cup {Stray} |-> T[x]]
  OBVIOUS
<1> QED
  BY <1>1, <1>2, <1>3

\* Doing the first of the writes leaves the same outcome ahead.
LEMMA AfterTail ==
    ASSUME NEW V, NEW T \in [Label \cup {Stray} -> V], NEW o \in Seq(SoundWrite), o # <<>>
    PROVE  After(Tail(o), [T EXCEPT ![Head(o).at] = Head(o).node]) = After(o, T)
<1> DEFINE w == Head(o)
           r == Tail(o)
           U == [T EXCEPT ![w.at] = w.node]
<1>1. /\ Len(o) \in Nat /\ Len(r) \in Nat /\ Len(o) = Len(r) + 1 /\ w = o[1]
      /\ \A i \in 1 .. Len(r) : r[i] = o[i + 1]
  OBVIOUS
<1>2. U \in [Label \cup {Stray} -> V \cup {w.node}]
      /\ \A x \in Label \cup {Stray} : U[x] = IF x = w.at THEN w.node ELSE T[x]
  OBVIOUS
<1> HIDE DEF w, r, U
<1>3. ASSUME NEW x \in Label \cup {Stray}
      PROVE  After(r, U)[x] = After(o, T)[x]
  <2> DEFINE at == {i \in 1 .. Len(r) : r[i].at = x}
  <2>1. CASE at # {}
    <3>1. PICK i \in at : \A j \in at : j <= i
      BY <1>1, <2>1, Greatest
    <3>2. i \in 1 .. Len(r) /\ r[i].at = x /\ \A j \in 1 .. Len(r) : i < j => r[j].at # x
      BY <1>1, <3>1
    <3>3. After(r, U)[x] = r[i].node
      BY <1>1, <3>2, AfterLast
    <3>4. i + 1 \in 1 .. Len(o) /\ o[i + 1].at = x
      BY <1>1, <3>2
    <3>5. \A j \in 1 .. Len(o) : i + 1 < j => o[j].at # x
      <4> SUFFICES ASSUME NEW j \in 1 .. Len(o), i + 1 < j
                   PROVE  o[j].at # x
        OBVIOUS
      <4>1. j - 1 \in 1 .. Len(r) /\ i < j - 1 /\ (j - 1) + 1 = j
        BY <1>1, <3>2
      <4> QED
        BY <1>1, <3>2, <4>1
    <3>6. After(o, T)[x] = o[i + 1].node
      BY <1>1, <3>4, <3>5, AfterLast
    <3> QED
      BY <1>1, <3>2, <3>3, <3>6
  <2>2. CASE at = {}
    <3>1. \A i \in 1 .. Len(r) : r[i].at # x
      BY <2>2
    <3>2. After(r, U)[x] = U[x]
      BY <3>1, AfterNone
    <3>3. \A j \in 1 .. Len(o) : 1 < j => o[j].at # x
      <4> SUFFICES ASSUME NEW j \in 1 .. Len(o), 1 < j
                   PROVE  o[j].at # x
        OBVIOUS
      <4>1. j - 1 \in 1 .. Len(r) /\ (j - 1) + 1 = j
        BY <1>1
      <4> QED
        BY <1>1, <3>1, <4>1
    <3>4. 1 \in 1 .. Len(o)
      BY <1>1
    <3>5. CASE w.at = x
      <4>1. o[1].at = x /\ o[1].node = w.node
        BY <1>1, <3>5
      <4>2. After(o, T)[x] = w.node
        BY <1>1, <3>3, <3>4, <4>1, AfterLast
      <4> QED
        BY <1>2, <3>2, <3>5, <4>2
    <3>6. CASE w.at # x
      <4>1. \A j \in 1 .. Len(o) : o[j].at # x
        BY <1>1, <3>3, <3>6
      <4> QED
        BY <1>2, <3>2, <3>6, <4>1, AfterNone
    <3> QED
      BY <3>5, <3>6
  <2> QED
    BY <2>1, <2>2
<1>4. After(r, U) = [x \in Label \cup {Stray} |-> After(r, U)[x]]
  BY DEF After
<1>5. After(o, T) = [x \in Label \cup {Stray} |-> After(o, T)[x]]
  BY DEF After
<1>6. After(r, U) = After(o, T)
  BY <1>3, <1>4, <1>5
<1> QED
  BY <1>6 DEF w, r, U

\* A single write.
LEMMA AfterOne ==
    ASSUME NEW V, NEW T \in [Label \cup {Stray} -> V], NEW w \in SoundWrite
    PROVE  After(<<w>>, T) = [T EXCEPT ![w.at] = w.node]
<1> DEFINE U == [T EXCEPT ![w.at] = w.node]
<1>1. <<w>> \in Seq(SoundWrite) /\ <<w>> # <<>> /\ Head(<<w>>) = w /\ Tail(<<w>>) = <<>>
  OBVIOUS
<1>2. After(<<>>, U) = After(<<w>>, T)
  BY <1>1, AfterTail
<1>3. U \in [Label \cup {Stray} -> V \cup {w.node}]
  OBVIOUS
<1> HIDE DEF U
<1>4. After(<<>>, U) = U
  BY <1>3, AfterEmpty
<1> QED
  BY <1>2, <1>4 DEF U

-----------------------------------------------------------------------------
\* Tries

\* Of the prefixes of a label, the shorter is one of the longer.
LEMMA PrefixPrefix ==
    ASSUME NEW n \in Nat, NEW s \in BitStrings(n), NEW j \in 0 .. Len(s), NEW k \in 0 .. j
    PROVE  Prefix(Prefix(s, j), k) = Prefix(s, k)
<1>1. Len(s) \in Nat /\ j \in Nat /\ k \in Nat /\ k <= j /\ j <= Len(s)
  BY BitStringIsSeq
<1>2. /\ Prefix(s, j) \in BitStrings(n) /\ Len(Prefix(s, j)) = j
      /\ \A i \in 1 .. j : Prefix(s, j)[i] = s[i]
  BY <1>1, PrefixString
<1>3. /\ Prefix(s, k) \in BitStrings(n) /\ Len(Prefix(s, k)) = k
      /\ \A i \in 1 .. k : Prefix(s, k)[i] = s[i]
  BY <1>1, PrefixString
<1> DEFINE t == Prefix(s, j)
<1> HIDE DEF t
<1>4. /\ Prefix(t, k) \in BitStrings(n) /\ Len(Prefix(t, k)) = k
      /\ \A i \in 1 .. k : Prefix(t, k)[i] = t[i]
  BY <1>1, <1>2, PrefixString DEF t
<1>5. \A i \in 1 .. k : Prefix(t, k)[i] = Prefix(s, k)[i]
  BY <1>1, <1>2, <1>3, <1>4 DEF t
<1>6. Prefix(t, k) = Prefix(s, k)
  BY <1>1, <1>3, <1>4, <1>5, SameString
<1> QED
  BY <1>6 DEF t

\* The shortest and the longest prefix.
LEMMA PrefixEmpty ==
    ASSUME NEW n \in Nat, NEW s \in BitStrings(n)
    PROVE  Prefix(s, 0) = <<>> /\ Prefix(s, Len(s)) = s
<1>1. Len(Prefix(s, 0)) = 0 /\ Prefix(s, 0) \in BitStrings(n)
  BY PrefixString, BitStringIsSeq
<1>2. Prefix(s, 0) \in Seq({0, 1})
  BY <1>1, BitStringIsSeq
<1>3. Prefix(s, 0) = <<>>
  BY <1>1, <1>2
<1>4. Len(s) \in Nat
  BY BitStringIsSeq
<1> QED
  BY <1>3, <1>4 DEF Prefix

\* Above a node there are internal nodes.
LEMMA Above ==
    ASSUME NEW T, TrieOf(T), NEW x \in Label, T[x] # None, NEW n \in 0 .. Len(x) - 1
    PROVE  T[Prefix(x, n)] # None /\ ~T[Prefix(x, n)].is_leaf
<1> DEFINE Internal(k) == T[Prefix(x, k)] # None /\ ~T[Prefix(x, k)].is_leaf
           Bad == {m \in Nat : 1 <= m /\ m <= Len(x) /\ ~Internal(Len(x) - m)}
<1>1. Len(x) \in Nat /\ x \in BitStrings(BIT_DOMAIN + 1) /\ BIT_DOMAIN + 1 \in Nat
  BY BitStringIsSeq, WidthType DEF Label
<1> SUFFICES ASSUME Bad # {} PROVE FALSE
  <2>1. Len(x) - n \in Nat /\ 1 <= Len(x) - n /\ Len(x) - n <= Len(x) /\ Len(x) - (Len(x) - n) = n
    BY <1>1
  <2> HIDE DEF Internal
  <2>2. Bad = {} => Internal(n)
    BY <2>1
  <2> QED
    BY <2>2 DEF Internal
<1>2. PICK m \in Bad : \A k \in Bad : m <= k
  BY Least
<1> DEFINE k == Len(x) - m
           y == Prefix(x, k + 1)
<1>3. m \in Nat /\ 1 <= m /\ m <= Len(x) /\ ~Internal(k)
  OBVIOUS
<1>4. k \in Nat /\ k + 1 \in 0 .. Len(x) /\ k \in 0 .. (k + 1) /\ k < Len(x)
  BY <1>1, <1>3
<1>5. /\ y \in Label /\ Len(y) = k + 1
  <2> HIDE DEF k
  <2> QED
    BY <1>1, <1>4, PrefixString DEF Label
<1>6. T[y] # None
  <2>1. CASE m = 1
    <3>1. k + 1 = Len(x)
      BY <1>1, <1>3, <2>1
    <3>2. y = x
      BY <1>1, <3>1, PrefixEmpty
    <3> QED
      BY <3>2
  <2>2. CASE m # 1
    <3>1. m - 1 \in Nat /\ 1 <= m - 1 /\ m - 1 <= Len(x) /\ m - 1 < m /\ Len(x) - (m - 1) = k + 1
      BY <1>1, <1>3, <2>2
    <3> HIDE DEF Internal, k
    <3>2. Internal(k + 1)
      BY <1>2, <1>3, <3>1
    <3> QED
      BY <3>2 DEF Internal
  <2> QED
    BY <2>1, <2>2
<1>7. y # <<>>
  <2> HIDE DEF y, k
  <2> QED
    BY <1>4, <1>5
<1>8. Prefix(y, Len(y) - 1) = Prefix(x, k)
  <2>1. Len(y) - 1 = k
    <3> HIDE DEF y, k
    <3> QED
      BY <1>4, <1>5
  <2> HIDE DEF k
  <2>2. Prefix(Prefix(x, k + 1), k) = Prefix(x, k)
    BY <1>1, <1>4, PrefixPrefix
  <2> QED
    BY <2>1, <2>2
<1> HIDE DEF y, k
<1>9. Internal(k)
  BY <1>5, <1>6, <1>7, <1>8 DEF TrieOf
<1> QED
  BY <1>3, <1>9

\* Below a leaf there is nothing, and without a root there is nothing at all.
LEMMA BelowLeaf ==
    ASSUME NEW T, TrieOf(T), NEW x \in Label, T[x].is_leaf,
           NEW y \in Label, Len(x) < Len(y), Prefix(y, Len(x)) = x
    PROVE  T[y] = None
<1>1. Len(x) \in Nat /\ Len(y) \in Nat
  BY BitStringIsSeq, WidthType DEF Label
<1>2. Len(x) \in 0 .. Len(y) - 1
  BY <1>1
<1> QED
  BY <1>2, Above

\* A trie without its root is empty.
LEMMA NoRoot ==
    ASSUME NEW T, TrieOf(T), T[<<>>] = None, NEW x \in Label
    PROVE  T[x] = None
<1>1. Len(x) \in Nat /\ x \in Seq({0, 1}) /\ x \in BitStrings(BIT_DOMAIN + 1)
      /\ BIT_DOMAIN + 1 \in Nat
  BY BitStringIsSeq, WidthType DEF Label
<1>2. CASE x = <<>>
  BY <1>2
<1>3. CASE x # <<>>
  <2>1. 0 \in 0 .. Len(x) - 1
    BY <1>1, <1>3
  <2>2. Prefix(x, 0) = <<>>
    BY <1>1, PrefixEmpty
  <2> QED
    BY <2>1, <2>2, Above
<1> QED
  BY <1>2, <1>3

\* A prefix and one more bit.
LEMMA PrefixAppend ==
    ASSUME NEW n \in Nat, NEW s \in BitStrings(n), NEW k \in 0 .. Len(s), NEW b \in {0, 1}
    PROVE  LET x == Append(Prefix(s, k), b)
           IN  /\ x \in BitStrings(n + 1) /\ Len(x) = k + 1 /\ x[k + 1] = b
               /\ \A j \in 0 .. k : Prefix(x, j) = Prefix(s, j)
               /\ k < Len(s) /\ s[k + 1] = b => x = Prefix(s, k + 1)
<1> DEFINE p == Prefix(s, k)
           x == Append(p, b)
<1>1. Len(s) \in Nat /\ k \in Nat /\ k <= Len(s) /\ n + 1 \in Nat
  BY BitStringIsSeq
<1>2. /\ p \in BitStrings(n) /\ Len(p) = k /\ \A i \in 1 .. k : p[i] = s[i]
  BY <1>1, PrefixString
<1>3. s \in BitStrings(n + 1)
  BY <1>1, LongerString
<1> HIDE DEF p
<1>4. /\ x \in BitStrings(n + 1) /\ Len(x) = k + 1 /\ x[k + 1] = b
      /\ \A i \in 1 .. k : x[i] = p[i]
  BY <1>2, AppendString
<1>5. \A i \in 1 .. k : x[i] = s[i]
  BY <1>2, <1>4
<1> HIDE DEF x
<1>6. ASSUME NEW j \in 0 .. k
      PROVE  Prefix(x, j) = Prefix(s, j)
  <2>1. j \in Nat /\ j <= k /\ j <= Len(s) /\ j < Len(x)
    BY <1>1, <1>4
  <2>2. /\ Prefix(x, j) \in BitStrings(n + 1) /\ Len(Prefix(x, j)) = j
        /\ \A i \in 1 .. j : Prefix(x, j)[i] = x[i]
    BY <1>1, <1>4, <2>1, PrefixString
  <2>3. /\ Prefix(s, j) \in BitStrings(n + 1) /\ Len(Prefix(s, j)) = j
        /\ \A i \in 1 .. j : Prefix(s, j)[i] = s[i]
    BY <1>1, <1>3, <2>1, PrefixString
  <2>4. \A i \in 1 .. j : Prefix(x, j)[i] = Prefix(s, j)[i]
    BY <1>1, <1>5, <2>1, <2>2, <2>3
  <2> QED
    BY <1>1, <2>2, <2>3, <2>4, SameString
<1>7. ASSUME k < Len(s), s[k + 1] = b
      PROVE  x = Prefix(s, k + 1)
  <2>1. k + 1 \in Nat /\ k + 1 <= Len(s)
    BY <1>1, <1>7
  <2>2. /\ Prefix(s, k + 1) \in BitStrings(n + 1) /\ Len(Prefix(s, k + 1)) = k + 1
        /\ \A i \in 1 .. k + 1 : Prefix(s, k + 1)[i] = s[i]
    BY <1>1, <1>3, <2>1, PrefixString
  <2>3. \A i \in 1 .. k + 1 : x[i] = Prefix(s, k + 1)[i]
    <3> SUFFICES ASSUME NEW i \in 1 .. k + 1 PROVE x[i] = Prefix(s, k + 1)[i]
      OBVIOUS
    <3>1. i \in 1 .. k \/ i = k + 1
      BY <1>1
    <3> QED
      BY <1>4, <1>5, <1>7, <2>2, <3>1
  <2> QED
    BY <1>1, <1>4, <2>2, <2>3, SameString
<1> QED
  BY <1>4, <1>6, <1>7 DEF x, p

\* The labels a split writes to: those from the leaf's to the common prefix, one
\* below the other, and the two below each of them.
LEMMA SplitLabels ==
    ASSUME NEW leaf, NEW pairs, Splits(leaf, pairs),
           NEW d \in Len(leaf.label) .. Len(Lcp(pairs))
    PROVE  LET a == Len(leaf.label)
               lcp == Lcp(pairs)
               P(e) == Prefix(lcp, e)
               Q(bit) == KidLabel(pairs, d, bit)
           IN  /\ a \in Nat /\ Len(lcp) \in Nat /\ a <= Len(lcp) /\ Len(lcp) <= BIT_DOMAIN
               /\ lcp \in BitStrings(BIT_DOMAIN) /\ P(a) = leaf.label
               /\ P(d) \in Label /\ Len(P(d)) = d /\ Prefix(P(d), a) = leaf.label
               /\ d > a => Prefix(P(d), d - 1) = P(d - 1)
               /\ d < Len(lcp) => P(d + 1)[d + 1] = lcp[d + 1]
               /\ \A bit \in {0, 1} :
                      /\ Q(bit) \in Label /\ Len(Q(bit)) = d + 1 /\ Q(bit)[d + 1] = bit
                      /\ Prefix(Q(bit), d) = P(d) /\ Prefix(Q(bit), a) = leaf.label
                      /\ d < Len(lcp) /\ lcp[d + 1] = bit => Q(bit) = P(d + 1)
<1> DEFINE a == Len(leaf.label)
           lcp == Lcp(pairs)
           L == Len(lcp)
           P(e) == Prefix(lcp, e)
           Q(bit) == KidLabel(pairs, d, bit)
<1>1. /\ lcp \in BitStrings(BIT_DOMAIN) /\ L \in Nat /\ a <= L /\ L <= BIT_DOMAIN
      /\ \A i \in 1 .. a : leaf.label[i] = lcp[i]
  BY SplitPrefix DEF Splits, Lcp
<1>2. a \in Nat /\ leaf.label \in BitStrings(BIT_DOMAIN + 1) /\ BIT_DOMAIN + 1 \in Nat
  BY NodeFacts, WidthType DEF Splits, Label
<1>0. d \in a .. L
  OBVIOUS
<1> HIDE DEF lcp, a, L
<1>3. d \in Nat /\ a <= d /\ d <= L /\ d <= BIT_DOMAIN /\ d \in 0 .. L /\ a \in 0 .. d /\ a \in 0 .. L
  BY <1>0, <1>1, <1>2, WidthType
<1>4. P(a) = leaf.label
  <2>1. /\ P(a) \in BitStrings(BIT_DOMAIN + 1) /\ Len(P(a)) = a
        /\ \A i \in 1 .. a : P(a)[i] = lcp[i]
    BY <1>1, <1>2, <1>3, PrefixString, LongerString, WidthType DEF L
  <2> HIDE DEF P
  <2>2. \A i \in 1 .. a : P(a)[i] = leaf.label[i]
    BY <1>1, <2>1
  <2> QED
    BY <1>2, <2>1, <2>2, SameString DEF a
<1>5. P(d) \in BitStrings(BIT_DOMAIN) /\ P(d) \in Label /\ Len(P(d)) = d
  BY <1>1, <1>2, <1>3, PrefixString, LongerString, WidthType DEF L, Label
<1>6. \A k \in 0 .. d : Prefix(P(d), k) = P(k)
  BY <1>1, <1>3, PrefixPrefix, WidthType DEF L
<1>7. d > a => Prefix(P(d), d - 1) = P(d - 1)
  <2>1. d > a => d - 1 \in 0 .. d
    BY <1>2, <1>3
  <2> HIDE DEF P
  <2> QED
    BY <1>6, <2>1
<1>8. d < L => P(d + 1)[d + 1] = lcp[d + 1]
  <2>1. ASSUME d < L
        PROVE  d + 1 \in Nat /\ d + 1 <= L /\ d + 1 \in 1 .. d + 1
    BY <1>1, <1>3, <2>1
  <2> QED
    BY <1>1, <2>1, PrefixString, WidthType DEF L
<1>9. ASSUME NEW bit \in {0, 1}
      PROVE  /\ Q(bit) \in Label /\ Len(Q(bit)) = d + 1 /\ Q(bit)[d + 1] = bit
             /\ \A j \in 0 .. d : Prefix(Q(bit), j) = P(j)
             /\ d < L /\ lcp[d + 1] = bit => Q(bit) = P(d + 1)
  <2>1. Q(bit) = Append(Prefix(lcp, d), bit)
    BY DEF KidLabel, lcp
  <2> HIDE DEF Q
  <2> QED
    BY <1>1, <1>3, <2>1, PrefixAppend, WidthType DEF L, Label
<1> HIDE DEF P, Q
<1> QED
  BY <1>1, <1>2, <1>3, <1>4, <1>5, <1>6, <1>7, <1>8, <1>9 DEF lcp, a, L, P, Q

-----------------------------------------------------------------------------
\* The database after a split

\* Three writes for every depth from a to L.
LEMMA ThreePerDepth ==
    ASSUME NEW a \in Nat, NEW L \in Nat, a <= L
    PROVE  /\ \A d \in a .. L, r \in {1, 2, 3} :
                  LET i == 3 * (d - a) + r
                  IN  i \in 1 .. 3 * (L - a + 1) /\ i % 3 = r % 3 /\ a + (i - 1) \div 3 = d
           /\ \A j \in 1 .. 3 * (L - a + 1) : \E d \in a .. L :
                  j = 3 * (d - a) + 1 \/ j = 3 * (d - a) + 2 \/ j = 3 * (d - a) + 3
<1>1. ASSUME NEW d \in a .. L, NEW r \in {1, 2, 3}
      PROVE  LET i == 3 * (d - a) + r
             IN  i \in 1 .. 3 * (L - a + 1) /\ i % 3 = r % 3 /\ a + (i - 1) \div 3 = d
  OBVIOUS
<1>2. ASSUME NEW j \in 1 .. 3 * (L - a + 1)
      PROVE  \E d \in a .. L :
                 j = 3 * (d - a) + 1 \/ j = 3 * (d - a) + 2 \/ j = 3 * (d - a) + 3
  <2> DEFINE d == a + (j - 1) \div 3
  <2>1. d \in a .. L
    OBVIOUS
  <2>2. j = 3 * (d - a) + 1 \/ j = 3 * (d - a) + 2 \/ j = 3 * (d - a) + 3
    OBVIOUS
  <2> QED
    BY <2>1, <2>2
<1> QED
  BY <1>1, <1>2

\* The writes of a split by depth.
LEMMA SplitAt ==
    ASSUME NEW leaf, NEW pairs, Splits(leaf, pairs)
    PROVE  LET a == Len(leaf.label)
               lcp == Lcp(pairs)
               L == Len(lcp)
               w == _do_split_insert(leaf, pairs)
               Kid(d, bit) == SplitKid(leaf, pairs, d, bit)
           IN  /\ a \in Nat /\ L \in Nat /\ a <= L /\ L <= BIT_DOMAIN
               /\ Len(w) = 3 * (L - a + 1)
               /\ \A d \in a .. L :
                      /\ w[3 * (d - a) + 1].at = KidLabel(pairs, d, 0)
                      /\ w[3 * (d - a) + 2].at = KidLabel(pairs, d, 1)
                      /\ w[3 * (d - a) + 3].at = Prefix(lcp, d)
                      /\ w[3 * (d - a) + 1].node = Kid(d, 0)
                      /\ w[3 * (d - a) + 2].node = Kid(d, 1)
                      /\ w[3 * (d - a) + 3].node = InternalNode(Prefix(lcp, d))
               /\ \A j \in 1 .. Len(w) : \E d \in a .. L :
                      \/ j = 3 * (d - a) + 1 \/ j = 3 * (d - a) + 2 \/ j = 3 * (d - a) + 3
<1> DEFINE a == Len(leaf.label)
           lcp == Lcp(pairs)
           L == Len(lcp)
           w == _do_split_insert(leaf, pairs)
           n == 3 * (L - a + 1)
           D(i) == a + (i - 1) \div 3
<1>1. /\ a \in Nat /\ L \in Nat /\ a <= L /\ L <= BIT_DOMAIN
      /\ w = [i \in 1 .. n |-> w[i]]
      /\ \A i \in 1 .. n :
             /\ i % 3 = 1 => w[i] = Publish(SplitKid(leaf, pairs, D(i), 0))
             /\ i % 3 = 2 => w[i] = Publish(SplitKid(leaf, pairs, D(i), 1))
             /\ i % 3 = 0 => w[i] = Publish(InternalNode(Prefix(lcp, D(i))))
  BY SplitEntries
<1>2. ASSUME NEW d \in a .. L, NEW bit \in {0, 1}
      PROVE  SplitKid(leaf, pairs, d, bit).label = KidLabel(pairs, d, bit)
  BY SplitKidProps
<1>3. \A x : InternalNode(x).label = x
  BY DEF InternalNode, LeafNode
<1>4. w \in Seq(SoundWrite)
  BY SplitWritesSound
<1> HIDE DEF a, L, w, lcp
<1>5. Len(w) = n
  <2>1. n \in Nat
    BY <1>1
  <2> HIDE DEF n
  <2> QED
    BY <1>1, <2>1
<1>6. ASSUME NEW d \in a .. L
      PROVE  /\ w[3 * (d - a) + 1].at = KidLabel(pairs, d, 0)
             /\ w[3 * (d - a) + 2].at = KidLabel(pairs, d, 1)
             /\ w[3 * (d - a) + 3].at = Prefix(lcp, d)
             /\ w[3 * (d - a) + 1].node = SplitKid(leaf, pairs, d, 0)
             /\ w[3 * (d - a) + 2].node = SplitKid(leaf, pairs, d, 1)
             /\ w[3 * (d - a) + 3].node = InternalNode(Prefix(lcp, d))
  <2> DEFINE i == 3 * (d - a)
  <2>1. /\ i + 1 \in 1 .. n /\ (i + 1) % 3 = 1 /\ D(i + 1) = d
        /\ i + 2 \in 1 .. n /\ (i + 2) % 3 = 2 /\ D(i + 2) = d
        /\ i + 3 \in 1 .. n /\ (i + 3) % 3 = 0 /\ D(i + 3) = d
    BY <1>1, ThreePerDepth
  <2> HIDE DEF i, n, D
  <2>2. /\ w[i + 1] = Publish(SplitKid(leaf, pairs, d, 0))
        /\ w[i + 2] = Publish(SplitKid(leaf, pairs, d, 1))
        /\ w[i + 3] = Publish(InternalNode(Prefix(lcp, d)))
    BY <1>1, <2>1
  <2> QED
    BY <1>2, <1>3, <2>2 DEF i, Publish, Put
<1>7. ASSUME NEW j \in 1 .. Len(w)
      PROVE  \E d \in a .. L :
                 j = 3 * (d - a) + 1 \/ j = 3 * (d - a) + 2 \/ j = 3 * (d - a) + 3
  BY <1>1, <1>5, ThreePerDepth
<1> QED
  BY <1>1, <1>5, <1>6, <1>7 DEF a, L, w, lcp

\* After a split the common prefix and the labels above it, down from the leaf's,
\* are internal nodes, the labels beside them its children, and the others are
\* what they were.
LEMMA SplitAfter ==
    ASSUME NEW leaf, NEW pairs, Splits(leaf, pairs), NEW T
    PROVE  LET a == Len(leaf.label)
               lcp == Lcp(pairs)
               L == Len(lcp)
               U == After(_do_split_insert(leaf, pairs), T)
           IN  /\ \A d \in a .. L : U[Prefix(lcp, d)] = InternalNode(Prefix(lcp, d))
               /\ \A d \in a .. L, bit \in {0, 1} :
                      d = L \/ lcp[d + 1] # bit =>
                          U[KidLabel(pairs, d, bit)] = SplitKid(leaf, pairs, d, bit)
               /\ \A x \in Label :
                      (\A d \in a .. L : /\ x # Prefix(lcp, d)
                                         /\ x # KidLabel(pairs, d, 0)
                                         /\ x # KidLabel(pairs, d, 1))
                          => U[x] = T[x]
<1> DEFINE a == Len(leaf.label)
           lcp == Lcp(pairs)
           L == Len(lcp)
           w == _do_split_insert(leaf, pairs)
           U == After(w, T)
           P(d) == Prefix(lcp, d)
           Q(d, bit) == KidLabel(pairs, d, bit)
<1>1. /\ a \in Nat /\ L \in Nat /\ a <= L /\ L <= BIT_DOMAIN
      /\ Len(w) = 3 * (L - a + 1)
      /\ \A d \in a .. L :
             /\ w[3 * (d - a) + 1].at = Q(d, 0)
             /\ w[3 * (d - a) + 2].at = Q(d, 1)
             /\ w[3 * (d - a) + 3].at = P(d)
             /\ w[3 * (d - a) + 1].node = SplitKid(leaf, pairs, d, 0)
             /\ w[3 * (d - a) + 2].node = SplitKid(leaf, pairs, d, 1)
             /\ w[3 * (d - a) + 3].node = InternalNode(P(d))
      /\ \A j \in 1 .. Len(w) : \E d \in a .. L :
             j = 3 * (d - a) + 1 \/ j = 3 * (d - a) + 2 \/ j = 3 * (d - a) + 3
  BY SplitAt
<1>3. ASSUME NEW d \in a .. L
      PROVE  /\ P(d) \in Label /\ Len(P(d)) = d
             /\ \A bit \in {0, 1} : /\ Q(d, bit) \in Label /\ Len(Q(d, bit)) = d + 1
                                    /\ Q(d, bit)[d + 1] = bit
             /\ d < L => P(d + 1)[d + 1] = lcp[d + 1]
  BY SplitLabels
<1>5. 0 \in {0, 1} /\ 1 \in {0, 1} /\ 0 # 1
  OBVIOUS
<1> HIDE DEF a, L, lcp, w, P, Q
<1>6. ASSUME NEW d \in a .. L
      PROVE  After(w, T)[P(d)] = InternalNode(P(d))
  <2> DEFINE i == 3 * (d - a) + 3
  <2>1. i \in 1 .. Len(w) /\ d \in Nat /\ Len(w) \in Nat
    BY <1>1
  <2>2. w[i].at = P(d) /\ w[i].node = InternalNode(P(d))
    BY <1>1
  <2>3. ASSUME NEW j \in 1 .. Len(w), i < j
        PROVE  w[j].at # P(d)
    <3>1. PICK e \in a .. L :
              j = 3 * (e - a) + 1 \/ j = 3 * (e - a) + 2 \/ j = 3 * (e - a) + 3
      BY <1>1
    <3>2. e > d /\ e \in Nat
      BY <1>1, <2>1, <2>3, <3>1
    <3>3. w[j].at \in {Q(e, 0), Q(e, 1), P(e)}
      BY <1>1, <3>1
    <3>4. Len(w[j].at) \in {e, e + 1}
      BY <1>3, <1>5, <3>3
    <3>5. Len(w[j].at) > d
      BY <2>1, <3>2, <3>4
    <3>6. Len(P(d)) = d
      BY <1>3
    <3> QED
      BY <2>1, <3>5, <3>6
  <2>4. P(d) \in Label \cup {Stray}
    BY <1>3
  <2> HIDE DEF i
  <2> QED
    BY <2>1, <2>2, <2>3, <2>4, AfterLast
<1>7. ASSUME NEW d \in a .. L, NEW bit \in {0, 1}, d = L \/ lcp[d + 1] # bit
      PROVE  After(w, T)[Q(d, bit)] = SplitKid(leaf, pairs, d, bit)
  <2> DEFINE i == 3 * (d - a) + 1 + bit
  <2>1. i \in 1 .. Len(w) /\ d \in Nat /\ Len(w) \in Nat /\ (bit = 0 \/ bit = 1)
    BY <1>1
  <2>2. w[i].at = Q(d, bit) /\ w[i].node = SplitKid(leaf, pairs, d, bit)
    <3>1. CASE bit = 0
      <4>1. i = 3 * (d - a) + 1
        BY <1>1, <2>1, <3>1
      <4> QED
        BY <1>1, <3>1, <4>1
    <3>2. CASE bit = 1
      <4>1. i = 3 * (d - a) + 2
        BY <1>1, <2>1, <3>2
      <4> QED
        BY <1>1, <3>2, <4>1
    <3> QED
      BY <3>1, <3>2
  <2>3. ASSUME NEW j \in 1 .. Len(w), i < j
        PROVE  w[j].at # Q(d, bit)
    <3>1. PICK e \in a .. L :
              j = 3 * (e - a) + 1 \/ j = 3 * (e - a) + 2 \/ j = 3 * (e - a) + 3
      BY <1>1
    <3>2. e \in Nat /\ e >= d
      BY <1>1, <2>1, <2>3, <3>1
    <3>3. Len(Q(d, bit)) = d + 1 /\ Q(d, bit)[d + 1] = bit
      BY <1>3
    <3>4. CASE w[j].at = P(e)
      <4>1. Len(P(e)) = e
        BY <1>3
      <4>2. CASE e = d + 1
        <5>1. d < L
          BY <1>1, <2>1, <4>2
        <5>2. P(d + 1)[d + 1] = lcp[d + 1]
          BY <1>3, <5>1
        <5>3. lcp[d + 1] # bit
          BY <1>1, <1>7, <2>1, <5>1
        <5> QED
          BY <3>3, <3>4, <4>2, <5>2, <5>3
      <4>3. CASE e # d + 1
        BY <2>1, <3>2, <3>3, <3>4, <4>1, <4>3
      <4> QED
        BY <4>2, <4>3
    <3>5. CASE w[j].at # P(e)
      <4>1. \/ j = 3 * (e - a) + 1 /\ w[j].at = Q(e, 0)
            \/ j = 3 * (e - a) + 2 /\ w[j].at = Q(e, 1)
        BY <1>1, <3>1, <3>5
      <4>2. Len(Q(e, 0)) = e + 1 /\ Len(Q(e, 1)) = e + 1
            /\ Q(e, 0)[e + 1] = 0 /\ Q(e, 1)[e + 1] = 1
        BY <1>3, <1>5
      <4>3. CASE e = d
        <5>1. bit = 0 /\ w[j].at = Q(e, 1)
          BY <1>1, <2>1, <2>3, <4>1, <4>3
        <5> QED
          BY <3>3, <4>2, <4>3, <5>1
      <4>4. CASE e # d
        BY <2>1, <3>2, <3>3, <4>1, <4>2, <4>4
      <4> QED
        BY <4>3, <4>4
    <3> QED
      BY <3>4, <3>5
  <2>4. Q(d, bit) \in Label \cup {Stray}
    BY <1>3
  <2> HIDE DEF i
  <2> QED
    BY <2>1, <2>2, <2>3, <2>4, AfterLast
<1>8. ASSUME NEW x \in Label,
             \A d \in a .. L : x # P(d) /\ x # Q(d, 0) /\ x # Q(d, 1)
      PROVE  After(w, T)[x] = T[x]
  <2>1. ASSUME NEW j \in 1 .. Len(w)
        PROVE  w[j].at # x
    <3>1. PICK e \in a .. L :
              j = 3 * (e - a) + 1 \/ j = 3 * (e - a) + 2 \/ j = 3 * (e - a) + 3
      BY <1>1
    <3> QED
      BY <1>1, <1>8, <3>1
  <2> QED
    BY <2>1, AfterNone
<1> QED
  BY <1>6, <1>7, <1>8 DEF a, L, lcp, w, P, Q

\* Where a split of a leaf of a trie writes there was nothing, but for the leaf.
LEMMA SplitNodes ==
    ASSUME NEW leaf, NEW pairs, Splits(leaf, pairs),
           NEW T, TrieOf(T), T[leaf.label].is_leaf, NEW x \in Label
    PROVE  LET a == Len(leaf.label)
               lcp == Lcp(pairs)
               U == After(_do_split_insert(leaf, pairs), T)
           IN  \/ \E d \in a .. Len(lcp) :
                      /\ x = Prefix(lcp, d) /\ Len(x) = d /\ U[x] = InternalNode(x)
                      /\ d > a => T[x] = None /\ Prefix(x, d - 1) = Prefix(lcp, d - 1)
                      /\ d = a => x = leaf.label
               \/ \E d \in a .. Len(lcp), bit \in {0, 1} :
                      /\ x = KidLabel(pairs, d, bit) /\ U[x] = SplitKid(leaf, pairs, d, bit)
                      /\ T[x] = None /\ Len(x) = d + 1 /\ Prefix(x, d) = Prefix(lcp, d)
               \/ U[x] = T[x] /\ x # leaf.label
<1> DEFINE a == Len(leaf.label)
           lcp == Lcp(pairs)
           L == Len(lcp)
           U == After(_do_split_insert(leaf, pairs), T)
           P(d) == Prefix(lcp, d)
           Q(d, bit) == KidLabel(pairs, d, bit)
<1>1. /\ \A d \in a .. L : U[P(d)] = InternalNode(P(d))
      /\ \A d \in a .. L, bit \in {0, 1} :
             d = L \/ lcp[d + 1] # bit => U[Q(d, bit)] = SplitKid(leaf, pairs, d, bit)
      /\ \A y \in Label :
             (\A d \in a .. L : y # P(d) /\ y # Q(d, 0) /\ y # Q(d, 1)) => U[y] = T[y]
  BY SplitAfter
<1>2. leaf.label \in Label
  BY NodeFacts DEF Splits
<1>3. ASSUME NEW d \in a .. L
      PROVE  /\ a \in Nat /\ L \in Nat /\ a <= L /\ P(a) = leaf.label
             /\ P(d) \in Label /\ Len(P(d)) = d /\ Prefix(P(d), a) = leaf.label
             /\ d > a => Prefix(P(d), d - 1) = P(d - 1)
             /\ \A bit \in {0, 1} :
                    /\ Q(d, bit) \in Label /\ Len(Q(d, bit)) = d + 1
                    /\ Prefix(Q(d, bit), d) = P(d) /\ Prefix(Q(d, bit), a) = leaf.label
                    /\ d < L /\ lcp[d + 1] = bit => Q(d, bit) = P(d + 1)
  <2>1. /\ a \in Nat /\ L \in Nat /\ a <= L /\ P(a) = leaf.label
        /\ P(d) \in Label /\ Len(P(d)) = d /\ Prefix(P(d), a) = leaf.label
        /\ d > a => Prefix(P(d), d - 1) = P(d - 1)
    BY SplitLabels
  <2>2. ASSUME NEW bit \in {0, 1}
        PROVE  /\ Q(d, bit) \in Label /\ Len(Q(d, bit)) = d + 1
               /\ Prefix(Q(d, bit), d) = P(d) /\ Prefix(Q(d, bit), a) = leaf.label
               /\ d < L /\ lcp[d + 1] = bit => Q(d, bit) = P(d + 1)
    BY SplitLabels
  <2> HIDE DEF a, L, lcp, P, Q
  <2> QED
    BY <2>1, <2>2
<1>4. a \in Nat /\ L \in Nat /\ a <= L /\ a \in a .. L
  <2>1. a \in Nat /\ L \in Nat /\ a <= L
    BY SplitAt
  <2> HIDE DEF a, L
  <2> QED
    BY <2>1
<1>5. \A y \in Label : a < Len(y) /\ Prefix(y, a) = leaf.label => T[y] = None
  BY <1>2, BelowLeaf
<1> HIDE DEF a, L, lcp, U, P, Q
<1>6. ASSUME NEW d \in a .. L, x = P(d)
      PROVE  /\ x = P(d) /\ Len(x) = d /\ U[x] = InternalNode(x)
             /\ d > a => T[x] = None /\ Prefix(x, d - 1) = P(d - 1)
             /\ d = a => x = leaf.label
  BY <1>1, <1>3, <1>5, <1>6
<1>7. ASSUME NEW d \in a .. L, NEW bit \in {0, 1}, x = Q(d, bit), \A e \in a .. L : x # P(e)
      PROVE  /\ x = Q(d, bit) /\ U[x] = SplitKid(leaf, pairs, d, bit)
             /\ T[x] = None /\ Len(x) = d + 1 /\ Prefix(x, d) = P(d)
  <2>1. d = L \/ lcp[d + 1] # bit
    <3>1. ASSUME d # L
          PROVE  d < L /\ d + 1 \in a .. L
      BY <1>4, <3>1
    <3> QED
      BY <1>3, <1>7, <3>1
  <2>2. a < Len(x)
    BY <1>3, <1>4, <1>7
  <2> QED
    BY <1>1, <1>3, <1>5, <1>7, <2>1, <2>2
<1>8. CASE \A d \in a .. L : x # P(d) /\ x # Q(d, 0) /\ x # Q(d, 1)
  <2>1. x # leaf.label
    BY <1>3, <1>4, <1>8
  <2> QED
    BY <1>1, <1>8, <2>1 DEF a, L, lcp, U, P, Q
<1>9. CASE \E d \in a .. L : x = P(d)
  BY <1>6, <1>9 DEF a, L, lcp, U, P, Q
<1>10. CASE /\ \A d \in a .. L : x # P(d)
            /\ \E d \in a .. L : x = Q(d, 0) \/ x = Q(d, 1)
  <2>1. PICK d \in a .. L : x = Q(d, 0) \/ x = Q(d, 1)
    BY <1>10
  <2>2. PICK bit \in {0, 1} : x = Q(d, bit)
    BY <2>1
  <2> QED
    BY <1>7, <1>10, <2>2 DEF a, L, lcp, U, P, Q
<1> QED
  BY <1>8, <1>9, <1>10

\* A split makes a trie of a trie.
LEMMA SplitTrie ==
    ASSUME NEW leaf, NEW pairs, Splits(leaf, pairs),
           NEW T, TrieOf(T), T[leaf.label] # None, T[leaf.label].is_leaf
    PROVE  TrieOf(After(_do_split_insert(leaf, pairs), T))
<1> DEFINE a == Len(leaf.label)
           lcp == Lcp(pairs)
           L == Len(lcp)
           U == After(_do_split_insert(leaf, pairs), T)
           P(d) == Prefix(lcp, d)
           Q(d, bit) == KidLabel(pairs, d, bit)
           Internal(x) == U[x] # None /\ ~U[x].is_leaf
<1>1. a \in Nat /\ L \in Nat /\ a <= L /\ L <= BIT_DOMAIN
  BY SplitAt
<1>2. \A d \in a .. L : U[P(d)] = InternalNode(P(d))
  BY SplitAfter
<1>3. ASSUME NEW d \in a .. L
      PROVE  P(d) \in Label /\ \A bit \in {0, 1} : Q(d, bit) \in Label /\ Q(d, bit) = Append(P(d), bit)
  BY SplitLabels DEF KidLabel
<1>4. ASSUME NEW x \in Label
      PROVE  \/ \E d \in a .. L :
                    /\ x = P(d) /\ Len(x) = d /\ U[x] = InternalNode(x)
                    /\ d > a => T[x] = None /\ Prefix(x, d - 1) = P(d - 1)
                    /\ d = a => x = leaf.label
             \/ \E d \in a .. L, bit \in {0, 1} :
                    /\ x = Q(d, bit) /\ U[x] = SplitKid(leaf, pairs, d, bit)
                    /\ T[x] = None /\ Len(x) = d + 1 /\ Prefix(x, d) = P(d)
             \/ U[x] = T[x] /\ x # leaf.label
  BY SplitNodes
<1>5. ASSUME NEW d \in a .. L, NEW bit \in {0, 1}
      PROVE  SplitKid(leaf, pairs, d, bit) # None /\ SplitKid(leaf, pairs, d, bit).is_leaf
  <2>1. SplitKid(leaf, pairs, d, bit) \in SoundNode /\ SplitKid(leaf, pairs, d, bit).is_leaf
    BY SplitKidProps
  <2> QED
    BY <2>1, DistinctAssumption DEF SoundNode
<1>6. ASSUME NEW x \in Label
      PROVE  InternalNode(x) # None /\ ~InternalNode(x).is_leaf
  BY EmptyLeaf, DistinctAssumption DEF SoundNode
<1> HIDE DEF a, L, lcp, U, P, Q
<1>7. ASSUME NEW x \in Label, T[x] # None
      PROVE  U[x] # None
  BY <1>4, <1>6, <1>7
<1>8. ASSUME NEW x \in Label, T[x] # None, ~T[x].is_leaf
      PROVE  Internal(x)
  BY <1>4, <1>6, <1>8
<1>9. ASSUME NEW d \in a .. L
      PROVE  Internal(P(d))
  BY <1>2, <1>3, <1>6
<1> HIDE DEF Internal
<1>10. ASSUME NEW x \in Label, Internal(x)
       PROVE  Len(x) <= BIT_DOMAIN /\ U[Append(x, 0)] # None /\ U[Append(x, 1)] # None
  <2>1. CASE \E d \in a .. L : x = P(d) /\ Len(x) = d
    <3>1. PICK d \in a .. L : x = P(d) /\ Len(x) = d
      BY <2>1
    <3>2. ASSUME NEW bit \in {0, 1}
          PROVE  U[Append(x, bit)] # None
      <4>1. Append(x, bit) = Q(d, bit) /\ Q(d, bit) \in Label
        BY <1>3, <3>1
      <4>2. Len(Q(d, bit)) = d + 1 /\ a < d + 1
        <5>1. Len(Q(d, bit)) = d + 1
          BY SplitLabels DEF Q, a, L, lcp
        <5> QED
          BY <1>1, <5>1
      <4>3. U[Q(d, bit)] # None
        <5>1. Q(d, bit) # leaf.label
          BY <4>2, <1>1 DEF a
        <5>2. CASE \E e \in a .. L : Q(d, bit) = P(e)
          BY <1>2, <1>3, <1>6, <5>2
        <5>3. CASE \A e \in a .. L : Q(d, bit) # P(e)
          <6>1. d = L \/ lcp[d + 1] # bit
            <7>1. d < L /\ lcp[d + 1] = bit => Q(d, bit) = P(d + 1)
              BY SplitLabels DEF Q, P, a, L, lcp
            <7>2. d # L => d < L /\ d + 1 \in a .. L
              BY <1>1
            <7> QED
              BY <5>3, <7>1, <7>2
          <6>2. U[Q(d, bit)] = SplitKid(leaf, pairs, d, bit)
            BY <6>1, SplitAfter DEF U, Q, a, L, lcp
          <6> QED
            BY <1>5, <6>2
        <5> QED
          BY <5>2, <5>3
      <4> QED
        BY <4>1, <4>3
    <3>3. d <= BIT_DOMAIN
      BY <1>1, WidthType
    <3> QED
      BY <3>1, <3>2, <3>3
  <2>2. CASE U[x] = T[x]
    <3>1. T[x] # None /\ ~T[x].is_leaf
      BY <1>10, <2>2 DEF Internal
    <3>2. /\ Len(x) <= BIT_DOMAIN
          /\ T[Append(x, 0)] # None /\ T[Append(x, 1)] # None
      BY <3>1 DEF TrieOf
    <3>3. Append(x, 0) \in Label /\ Append(x, 1) \in Label
      <4>1. x \in BitStrings(BIT_DOMAIN + 1) /\ BIT_DOMAIN + 1 \in Nat /\ Len(x) \in Nat
        BY BitStringIsSeq, WidthType DEF Label
      <4>2. Len(x) < BIT_DOMAIN + 1
        BY <3>2, <4>1, WidthType
      <4> QED
        BY <4>1, <4>2, AppendString DEF Label
    <3> QED
      BY <1>7, <3>2, <3>3
  <2>3. ~ \E d \in a .. L, bit \in {0, 1} : U[x] = SplitKid(leaf, pairs, d, bit)
    BY <1>5, <1>10 DEF Internal
  <2> QED
    BY <1>4, <2>1, <2>2, <2>3
<1>11. ASSUME NEW x \in Label, U[x] # None, x # <<>>
       PROVE  Internal(Prefix(x, Len(x) - 1))
  <2>1. ASSUME T[x] # None
        PROVE  Internal(Prefix(x, Len(x) - 1))
    <3>1. T[Prefix(x, Len(x) - 1)] # None /\ ~T[Prefix(x, Len(x) - 1)].is_leaf
      BY <1>11, <2>1 DEF TrieOf
    <3>2. Prefix(x, Len(x) - 1) \in Label
      <4>1. x \in BitStrings(BIT_DOMAIN + 1) /\ BIT_DOMAIN + 1 \in Nat /\ Len(x) - 1 \in Nat
        BY <1>11, BitStringIsSeq, WidthType DEF Label
      <4> QED
        BY <4>1, PrefixString DEF Label
    <3> QED
      BY <1>8, <3>1, <3>2
  <2>2. CASE \E d \in a .. L :
                 /\ x = P(d) /\ Len(x) = d
                 /\ d > a => Prefix(x, d - 1) = P(d - 1)
                 /\ d = a => x = leaf.label
    <3>1. PICK d \in a .. L :
                 /\ x = P(d) /\ Len(x) = d
                 /\ d > a => Prefix(x, d - 1) = P(d - 1)
                 /\ d = a => x = leaf.label
      BY <2>2
    <3>2. CASE d = a
      BY <2>1, <3>1, <3>2
    <3>3. CASE d # a
      <4>1. d > a /\ d - 1 \in a .. L
        BY <1>1, <3>3
      <4> QED
        BY <1>9, <3>1, <4>1
    <3> QED
      BY <3>2, <3>3
  <2>3. CASE \E d \in a .. L : Len(x) = d + 1 /\ Prefix(x, d) = P(d)
    <3>1. PICK d \in a .. L : Len(x) = d + 1 /\ Prefix(x, d) = P(d)
      BY <2>3
    <3>2. Len(x) - 1 = d
      BY <1>1, <3>1
    <3> QED
      BY <1>9, <3>1, <3>2
  <2>4. CASE U[x] = T[x]
    BY <1>11, <2>1, <2>4
  <2> QED
    BY <1>4, <2>2, <2>3, <2>4
<1>12. TrieOf(U)
  BY <1>10, <1>11 DEF TrieOf, Internal
<1> QED
  BY <1>12 DEF U

\* A split keeps every key that can be found, and adds those it distributes.
LEMMA SplitLocates ==
    ASSUME NEW leaf, NEW pairs, Splits(leaf, pairs),
           NEW T, TrieOf(T), T[leaf.label].is_leaf, T[leaf.label].data \subseteq pairs,
           Len(Lcp(pairs)) < BIT_DOMAIN - 1,
           NEW k \in Key, k \in pairs \/ Located(T, k)
    PROVE  Located(After(_do_split_insert(leaf, pairs), T), k)
<1> DEFINE a == Len(leaf.label)
           lcp == Lcp(pairs)
           L == Len(lcp)
           U == After(_do_split_insert(leaf, pairs), T)
           s == k.integral
           bit == s[L + 1]
<1>1. /\ a \in Nat /\ L \in Nat /\ a <= L /\ L <= BIT_DOMAIN
  BY SplitAt
<1>2. s \in KeyString /\ s \in BitStrings(BIT_DOMAIN) /\ Len(s) = BIT_DOMAIN
  BY KeyStrings, ConstantsAssumption DEF KeyString
<1>3. BIT_DOMAIN \in Nat /\ L < BIT_DOMAIN - 1
  BY WidthType
<1>4. lcp \in BitStrings(BIT_DOMAIN) /\ \A l \in pairs : Under(l.integral, lcp)
  BY SplitPrefix DEF Splits, Lcp
<1>5. L \in a .. L /\ L \in 0 .. Len(s) /\ L + 1 \in 0 .. BIT_DOMAIN - 1 /\ L + 1 \in 1 .. BIT_DOMAIN
      /\ L < Len(s)
  <2> HIDE DEF a, L
  <2> QED
    BY <1>1, <1>2, <1>3
<1>6. bit \in {0, 1}
  <2> HIDE DEF L
  <2> QED
    BY <1>2, <1>5 DEF KeyString
<1>7. CASE k \in pairs
  <2>1. Prefix(s, L) = Prefix(lcp, L)
    <3>1. Prefix(lcp, L) = lcp
      BY <1>4, <1>3, PrefixEmpty
    <3>2. /\ Prefix(s, L) \in BitStrings(BIT_DOMAIN) /\ Len(Prefix(s, L)) = L
          /\ \A i \in 1 .. L : Prefix(s, L)[i] = s[i]
      <4> HIDE DEF s
      <4> QED
        BY <1>1, <1>2, <1>3, <1>5, PrefixString
    <3>3. \A i \in 1 .. L : s[i] = lcp[i]
      BY <1>1, <1>3, <1>4, <1>7 DEF Under
    <3> HIDE DEF L, s, lcp
    <3>4. Prefix(s, L) = lcp
      BY <1>3, <1>4, <3>2, <3>3, SameString DEF L
    <3> QED
      BY <3>1, <3>4
  <2>2. KidLabel(pairs, L, bit) = Prefix(s, L + 1)
    <3>1. KidLabel(pairs, L, bit) = Append(Prefix(s, L), bit)
      BY <2>1 DEF KidLabel
    <3> HIDE DEF s, L
    <3>2. L \in 0 .. Len(s) /\ bit \in {0, 1} /\ L < Len(s) /\ s[L + 1] = bit
      BY <1>5, <1>6
    <3> HIDE DEF bit
    <3>3. Append(Prefix(s, L), bit) = Prefix(s, L + 1)
      BY <1>2, <1>3, <3>2, PrefixAppend
    <3> QED
      BY <3>1, <3>3
  <2>3. U[KidLabel(pairs, L, bit)] = SplitKid(leaf, pairs, L, bit)
    BY <1>5, <1>6, SplitAfter
  <2>4. /\ SplitKid(leaf, pairs, L, bit) \in SoundNode /\ SplitKid(leaf, pairs, L, bit).is_leaf
        /\ SplitKid(leaf, pairs, L, bit).data = KidData(pairs, L, bit)
    BY <1>5, <1>6, SplitKidProps
  <2>5. k \in KidData(pairs, L, bit)
    BY <1>5, <1>7 DEF KidData, Goes
  <2>6. SplitKid(leaf, pairs, L, bit) # None
    BY <2>4, DistinctAssumption DEF SoundNode
  <2>7. L + 1 \in 0 .. BIT_DOMAIN - 1
    BY <1>5
  <2> HIDE DEF L, bit, U
  <2>8. LET node == U[Prefix(s, L + 1)]
        IN  node # None /\ node.is_leaf /\ k \in node.data
    BY <2>2, <2>3, <2>4, <2>5, <2>6
  <2> QED
    BY <2>7, <2>8 DEF Located, U, s
<1>8. CASE k \notin pairs
  <2>1. PICK n \in 0 .. BIT_DOMAIN - 1 :
            T[Prefix(s, n)] # None /\ T[Prefix(s, n)].is_leaf /\ k \in T[Prefix(s, n)].data
    BY <1>8 DEF Located
  <2> DEFINE x == Prefix(s, n)
  <2>2. n \in Nat
    BY <1>3
  <2>3. x \in Label
    BY <1>2, <1>3, <2>2, PrefixString, LongerString DEF Label
  <2>4. x # leaf.label
    BY <1>8, <2>1
  <2> HIDE DEF x
  <2>5. U[x] = T[x]
    <3>1. \/ \E d \in a .. L : (d > a => T[x] = None) /\ (d = a => x = leaf.label)
          \/ T[x] = None
          \/ U[x] = T[x]
      BY <2>3, SplitNodes
    <3>2. \A d \in a .. L : d > a \/ d = a
      BY <1>1
    <3> HIDE DEF a, L, U
    <3> QED
      BY <2>1, <2>4, <3>1, <3>2 DEF x
  <2> QED
    BY <2>1, <2>5 DEF Located, x
<1> QED
  BY <1>7, <1>8

\* A leaf of a trie may be replaced by another.
LEMMA LeafTrie ==
    ASSUME NEW V, NEW T \in [Label \cup {Stray} -> V], TrieOf(T),
           NEW x \in Label, T[x] # None, T[x].is_leaf, NEW new, new # None, new.is_leaf
    PROVE  TrieOf([T EXCEPT ![x] = new])
<1> DEFINE U == [T EXCEPT ![x] = new]
<1>1. U[x] = new /\ \A y \in Label : y # x => U[y] = T[y]
  OBVIOUS
<1> HIDE DEF U
<1>2. \A y \in Label : U[y] # None <=> T[y] # None
  BY <1>1
<1>3. \A y \in Label : T[y] # None => (U[y].is_leaf <=> T[y].is_leaf)
  BY <1>1
<1>4. ASSUME NEW y \in Label, U[y] # None, ~U[y].is_leaf
      PROVE  Len(y) <= BIT_DOMAIN /\ U[Append(y, 0)] # None /\ U[Append(y, 1)] # None
  <2>1. /\ Len(y) <= BIT_DOMAIN /\ T[Append(y, 0)] # None /\ T[Append(y, 1)] # None
    BY <1>2, <1>3, <1>4 DEF TrieOf
  <2>2. Append(y, 0) \in Label /\ Append(y, 1) \in Label
    <3>1. y \in BitStrings(BIT_DOMAIN + 1) /\ BIT_DOMAIN + 1 \in Nat /\ Len(y) \in Nat
      BY BitStringIsSeq, WidthType DEF Label
    <3>2. Len(y) < BIT_DOMAIN + 1
      BY <2>1, <3>1, WidthType
    <3> QED
      BY <3>1, <3>2, AppendString DEF Label
  <2> QED
    BY <1>2, <2>1, <2>2
<1>5. ASSUME NEW y \in Label, U[y] # None, y # <<>>
      PROVE  U[Prefix(y, Len(y) - 1)] # None /\ ~U[Prefix(y, Len(y) - 1)].is_leaf
  <2>1. T[Prefix(y, Len(y) - 1)] # None /\ ~T[Prefix(y, Len(y) - 1)].is_leaf
    BY <1>2, <1>5 DEF TrieOf
  <2>2. Prefix(y, Len(y) - 1) \in Label
    <3>1. y \in BitStrings(BIT_DOMAIN + 1) /\ BIT_DOMAIN + 1 \in Nat /\ Len(y) - 1 \in Nat
      BY <1>5, BitStringIsSeq, WidthType DEF Label
    <3> QED
      BY <3>1, PrefixString DEF Label
  <2> QED
    BY <1>2, <1>3, <2>1, <2>2
<1>6. TrieOf(U)
  BY <1>4, <1>5 DEF TrieOf
<1> QED
  BY <1>6 DEF U

\* The root alone is a trie.
LEMMA RootTrie ==
    ASSUME NEW V, NEW T \in [Label \cup {Stray} -> V], \A x \in Label : T[x] = None
    PROVE  TrieOf([T EXCEPT ![<<>>] = LeafNode(<<>>)])
<1> DEFINE U == [T EXCEPT ![<<>>] = LeafNode(<<>>)]
<1>1. <<>> \in Label
  BY EmptyString, WidthType DEF Label
<1>2. LeafNode(<<>>).is_leaf
  BY <1>1, EmptyLeaf
<1>3. \A x \in Label : U[x] # None => x = <<>> /\ U[x] = LeafNode(<<>>)
  OBVIOUS
<1> HIDE DEF U
<1>4. TrieOf(U)
  BY <1>2, <1>3 DEF TrieOf
<1> QED
  BY <1>4 DEF U

-----------------------------------------------------------------------------
\* Every step keeps TrieInv

\* When one client has writes to make, or may have, no other has any.
LEMMA OneWriter ==
    ASSUME OneInserter, TrieInv, NEW c \in Client, Writer(c)
    PROVE  \A e \in Client : e # c => out[e] = <<>>
BY DEF OneInserter, TrieInv, Writer

\* One client's variables change, and neither the database nor the keys kept do.
LEMMA TrieStep ==
    ASSUME OneInserter, TypeInv, TrieInv, NEW c \in Client, NEW a, NEW f, NEW o,
           a \notin {"sibling", "parent", "left", "right", "cousin"},
           a = "write" => ~f.merge_on,
           pc' = [pc EXCEPT ![c] = a], frame' = [frame EXCEPT ![c] = f],
           out' = [out EXCEPT ![c] = o], UNCHANGED <<db, call, kept>>,
           \/ o = out[c]
           \/ /\ o # <<>> /\ Writer(c)
              /\ \A i \in 1 .. Len(o) : o[i].node # None
              /\ TrieOf(After(o, db)) /\ Holds(After(o, db), kept \cup Inserted(c))
    PROVE  TrieInv'
<1>1. \A e \in Client : /\ pc'[e] = IF e = c THEN a ELSE pc[e]
                        /\ frame'[e] = IF e = c THEN f ELSE frame[e]
                        /\ out'[e] = IF e = c THEN o ELSE out[e]
  BY DEF TypeInv, LocalsTyped
<1>2. \A e \in Client :
          /\ call'[e] # None => call'[e].type \in OpsOf[e]
          /\ pc'[e] \notin {"sibling", "parent", "left", "right", "cousin"}
          /\ pc'[e] = "write" => ~frame'[e].merge_on
  BY <1>1 DEF TrieInv
<1>3. \A e \in Client : Inserted(e)' = Inserted(e)
  BY DEF Inserted
<1>4. ASSUME NEW e \in Client, out'[e] # <<>>
      PROVE  /\ Writer(e)
             /\ \A i \in 1 .. Len(out'[e]) : out'[e][i].node # None
             /\ TrieOf(After(out'[e], db'))
             /\ Holds(After(out'[e], db'), kept' \cup Inserted(e)')
  <2>1. CASE out'[e] = out[e]
    BY <1>3, <1>4, <2>1 DEF TrieInv
  <2>2. CASE out'[e] # out[e]
    BY <1>1, <1>3, <2>2
  <2> QED
    BY <2>1, <2>2
<1>5. AllWritten' => TrieOf(db') /\ Holds(db', kept')
  <2> SUFFICES ASSUME AllWritten'
               PROVE  TrieOf(db') /\ Holds(db', kept')
    OBVIOUS
  <2>1. out'[c] = <<>> /\ \A e \in Client : e # c => out[e] = <<>>
    BY <1>1 DEF AllWritten
  <2>2. AllWritten
    BY <1>1, <2>1 DEF AllWritten
  <2> QED
    BY <2>2 DEF TrieInv
<1> QED
  BY <1>2, <1>4, <1>5 DEF TrieInv, AllWritten, Writer

\* A client that goes on reading outside a merge.
LEMMA TrieGoto ==
    ASSUME OneInserter, TypeInv, TrieInv, NEW c \in Client, NEW a, NEW f,
           a \notin {"write", "sibling", "parent", "left", "right", "cousin"},
           Goto(c, a, f), UNCHANGED <<db, call>>
    PROVE  TrieInv'
<1>1. out' = [out EXCEPT ![c] = out[c]]
  BY DEF Goto, TypeInv, LocalsTyped
<1> QED
  BY <1>1, TrieStep DEF Goto

\* A client that returns with no key of its own inserted.
LEMMA TrieReturn ==
    ASSUME OneInserter, TypeInv, TrieInv, NEW c \in Client, NEW result,
           Return(c, result), pc[c] # "write", Inserted(c) = {}, UNCHANGED <<db, call>>
    PROVE  TrieInv'
<1>1. out[c] = <<>>
  BY DEF TypeInv, Staged, Stage
<1>2. kept' = kept
  BY DEF Return, Inserted
<1> QED
  BY <1>1, <1>2, TrieStep DEF Return

\* The inserting client starts to write, and what it will leave is a trie.
LEMMA TrieWrites ==
    ASSUME OneInserter, TypeInv, TrieInv, NEW c \in Client, NEW o, o # <<>>, Writer(c),
           \A i \in 1 .. Len(o) : o[i].node # None,
           TrieOf(After(o, db)), Holds(After(o, db), kept \cup Inserted(c)),
           Writes(c, o, EmptyFrame), UNCHANGED <<db, call>>
    PROVE  TrieInv'
<1>1. ~EmptyFrame.merge_on
  BY DEF EmptyFrame
<1> QED
  BY <1>1, TrieStep DEF Writes

\* A write brings the database one step closer to what the writes left make of it.
LEMMA TrieWrite ==
    ASSUME OneInserter, TypeInv, TrieInv, NEW c \in Client, Write(c)
    PROVE  TrieInv'
<1> DEFINE w == Head(out[c])
           rest == Tail(out[c])
<1>1. pc[c] = "write" /\ out[c] \in Seq(SoundWrite) /\ out[c] # <<>>
  BY FrameOf DEF Write, At, Stage
<1>2. /\ w = out[c][1] /\ 1 \in 1 .. Len(out[c]) /\ w \in SoundWrite
      /\ rest \in Seq(SoundWrite) /\ Len(rest) \in Nat
      /\ \A i \in 1 .. Len(rest) : i + 1 \in 1 .. Len(out[c]) /\ rest[i] = out[c][i + 1]
  BY <1>1
<1>3. /\ ~frame[c].merge_on /\ Writer(c)
      /\ \A i \in 1 .. Len(out[c]) : out[c][i].node # None
      /\ TrieOf(After(out[c], db)) /\ Holds(After(out[c], db), kept \cup Inserted(c))
  BY <1>1 DEF TrieInv
<1>4. db' = [db EXCEPT ![w.at] = w.node] /\ call' = call
  BY DEF Write
<1>5. \/ rest # <<>> /\ Writes(c, rest, frame[c])
      \/ rest = <<>> /\ Return(c, None)
  BY <1>3 DEF Write
<1>6. After(rest, db') = After(out[c], db)
  BY <1>1, <1>4, AfterTail DEF TypeInv, DbTyped
<1>7. w.node # None /\ \A i \in 1 .. Len(rest) : rest[i].node # None
  BY <1>2, <1>3
<1> HIDE DEF w, rest
<1>8. \E a, f : /\ pc' = [pc EXCEPT ![c] = a] /\ frame' = [frame EXCEPT ![c] = f]
                /\ out' = [out EXCEPT ![c] = rest]
                /\ a \in {"write", "idle"} /\ ~f.merge_on
  <2>1. CASE rest # <<>> /\ Writes(c, rest, frame[c])
    BY <1>3, <2>1 DEF Writes
  <2>2. CASE rest = <<>> /\ Return(c, None)
    <3>1. ~EmptyFrame.merge_on
      BY DEF EmptyFrame
    <3> QED
      BY <2>2, <3>1 DEF Return
  <2> QED
    BY <1>5, <2>1, <2>2
<1>9. PICK a, f : /\ pc' = [pc EXCEPT ![c] = a] /\ frame' = [frame EXCEPT ![c] = f]
                  /\ out' = [out EXCEPT ![c] = rest]
                  /\ a \in {"write", "idle"} /\ ~f.merge_on
  BY <1>8
<1>10. \A e \in Client : /\ pc'[e] = IF e = c THEN a ELSE pc[e]
                         /\ frame'[e] = IF e = c THEN f ELSE frame[e]
                         /\ out'[e] = IF e = c THEN rest ELSE out[e]
  BY <1>9 DEF TypeInv, LocalsTyped
<1>11. \A e \in Client : e # c => out'[e] = <<>>
  BY <1>3, <1>10, OneWriter
<1>12. \A e \in Client :
           /\ call'[e] # None => call'[e].type \in OpsOf[e]
           /\ pc'[e] \notin {"sibling", "parent", "left", "right", "cousin"}
           /\ pc'[e] = "write" => ~frame'[e].merge_on
  BY <1>4, <1>9, <1>10 DEF TrieInv
<1>13. kept' = (IF rest = <<>> THEN kept \cup Inserted(c) ELSE kept) /\ Inserted(c)' = Inserted(c)
  BY <1>4, <1>5 DEF Writes, Return, Inserted
<1>14. ASSUME NEW e \in Client, out'[e] # <<>>
       PROVE  /\ Writer(e)
              /\ \A i \in 1 .. Len(out'[e]) : out'[e][i].node # None
              /\ TrieOf(After(out'[e], db'))
              /\ Holds(After(out'[e], db'), kept' \cup Inserted(e)')
  <2>1. e = c /\ out'[e] = rest /\ rest # <<>>
    BY <1>10, <1>11, <1>14
  <2> QED
    BY <1>3, <1>6, <1>7, <1>13, <2>1
<1>15. ASSUME AllWritten'
       PROVE  TrieOf(db') /\ Holds(db', kept')
  <2>1. rest = <<>>
    BY <1>10, <1>15 DEF AllWritten
  <2>2. After(rest, db') = db'
    <3>1. db' \in [Label \cup {Stray} -> SoundNode \cup {None}]
      BY <1>2, <1>4 DEF TypeInv, DbTyped, SoundWrite
    <3> QED
      BY <2>1, <3>1, AfterEmpty
  <2> QED
    BY <1>3, <1>6, <1>13, <2>1, <2>2
<1>16. Rooted => db'[<<>>] # None
  <2>1. <<>> \in Label \cup {Stray}
    BY EmptyString, WidthType DEF Label
  <2> QED
    BY <1>4, <1>7, <2>1 DEF TrieInv, TypeInv, DbTyped
<1> QED
  BY <1>12, <1>14, <1>15, <1>16 DEF TrieInv, AllWritten, Writer

\* FewClose says more than FewAlike.
LEMMA FewCloseAlike ==
    ASSUME FewClose
    PROVE  FewAlike
<1> SUFFICES ASSUME NEW S \in SUBSET Key, IsFiniteSet(S), B < Cardinality(S)
             PROVE  \E k, l \in S : k.integral # l.integral
  BY DEF FewAlike
<1>1. PICK k \in S, l \in S : \E i \in 1 .. BIT_DOMAIN - 1 : k.integral[i] # l.integral[i]
  BY DEF FewClose
<1>2. k.integral # l.integral
  BY <1>1
<1> QED
  BY <1>2

\* Then the leaves of a split are short enough for a search to probe them.
LEMMA ShortPrefix ==
    ASSUME FewClose, NEW leaf, NEW pairs, Splits(leaf, pairs),
           IsFiniteSet(pairs), Cardinality(pairs) = B + 1
    PROVE  Len(Lcp(pairs)) < BIT_DOMAIN - 1
<1> DEFINE lcp == Lcp(pairs)
           L == Len(lcp)
<1>1. pairs \in SUBSET Key /\ B < Cardinality(pairs)
  BY WidthType DEF Splits
<1>2. PICK k \in pairs, l \in pairs : \E i \in 1 .. BIT_DOMAIN - 1 : k.integral[i] # l.integral[i]
  BY <1>1 DEF FewClose
<1>3. PICK i \in 1 .. BIT_DOMAIN - 1 : k.integral[i] # l.integral[i]
  BY <1>2
<1>4. L \in Nat /\ Under(k.integral, lcp) /\ Under(l.integral, lcp)
  BY SplitPrefix DEF Splits, Lcp
<1> HIDE DEF lcp
<1>5. ~(i <= L)
  BY <1>3, <1>4, WidthType DEF Under
<1> QED
  BY <1>3, <1>4, <1>5, WidthType DEF lcp

\* If its leaves can be probed, so can all that a split leaves in the database.
LEMMA SplitShallow ==
    ASSUME NEW leaf, NEW pairs, Splits(leaf, pairs),
           NEW T, TrieOf(T), T[leaf.label].is_leaf, Shallow(T),
           Len(Lcp(pairs)) < BIT_DOMAIN - 1
    PROVE  Shallow(After(_do_split_insert(leaf, pairs), T))
<1> DEFINE a == Len(leaf.label)
           L == Len(Lcp(pairs))
           U == After(_do_split_insert(leaf, pairs), T)
<1>1. a \in Nat /\ L \in Nat /\ L < BIT_DOMAIN - 1
  BY SplitAt
<1> HIDE DEF a
<1> SUFFICES ASSUME NEW x \in Label, U[x] # None PROVE Len(x) < BIT_DOMAIN
  BY DEF Shallow
<1>2. \/ \E d \in a .. L : Len(x) = d
      \/ \E d \in a .. L : Len(x) = d + 1
      \/ U[x] = T[x]
  BY SplitNodes DEF a
<1> HIDE DEF L, U
<1>3. CASE U[x] = T[x]
  BY <1>3 DEF Shallow
<1>4. CASE \E d \in a .. L : Len(x) = d \/ Len(x) = d + 1
  BY <1>1, <1>4, WidthType
<1> QED
  BY <1>2, <1>3, <1>4

\* A split writes nodes.
LEMMA SplitSome ==
    ASSUME NEW leaf, NEW pairs, Splits(leaf, pairs)
    PROVE  \A i \in 1 .. Len(_do_split_insert(leaf, pairs)) :
               _do_split_insert(leaf, pairs)[i].node # None
<1> DEFINE a == Len(leaf.label)
           lcp == Lcp(pairs)
           L == Len(lcp)
           w == _do_split_insert(leaf, pairs)
<1>1. /\ \A d \in a .. L :
             /\ w[3 * (d - a) + 1].node = SplitKid(leaf, pairs, d, 0)
             /\ w[3 * (d - a) + 2].node = SplitKid(leaf, pairs, d, 1)
             /\ w[3 * (d - a) + 3].node = InternalNode(Prefix(lcp, d))
      /\ \A j \in 1 .. Len(w) : \E d \in a .. L :
             j = 3 * (d - a) + 1 \/ j = 3 * (d - a) + 2 \/ j = 3 * (d - a) + 3
  BY SplitAt
<1>2. ASSUME NEW d \in a .. L
      PROVE  /\ SplitKid(leaf, pairs, d, 0) # None /\ SplitKid(leaf, pairs, d, 1) # None
             /\ InternalNode(Prefix(lcp, d)) # None
  <2>1. SplitKid(leaf, pairs, d, 0) \in SoundNode /\ SplitKid(leaf, pairs, d, 1) \in SoundNode
    BY SplitKidProps
  <2>2. InternalNode(Prefix(lcp, d)) \in SoundNode
    <3>1. Prefix(lcp, d) \in Label
      BY SplitLabels
    <3> QED
      BY <3>1, EmptyLeaf
  <2> QED
    BY <2>1, <2>2, DistinctAssumption DEF SoundNode
<1> HIDE DEF a, L, lcp, w
<1>3. \A j \in 1 .. Len(w) : w[j].node # None
  BY <1>1, <1>2
<1> QED
  BY <1>3 DEF w

\* The insertion at a leaf writes what makes a trie of the trie, in which the
\* keys kept and the new one are found.
LEMMA FoundInserts ==
    ASSUME OneInserter, TypeInv, KeysApart, TrieInv, FewClose => SizeInv,
           NEW c \in Client, Searches(call[c], frame[c]), call[c].type = "insert",
           out[c] = <<>>, NEW x \in Label, db[x] # None, db[x].is_leaf,
           NEW n \in Nat, x = Prefix(frame[c].str, n), Len(x) < BIT_DOMAIN, Found(c, db[x])
    PROVE  \E o : /\ Writes(c, o, EmptyFrame) /\ o # <<>> /\ Writer(c)
                  /\ \A i \in 1 .. Len(o) : o[i].node # None
                  /\ TrieOf(After(o, db)) /\ Holds(After(o, db), kept \cup Inserted(c))
<1> DEFINE node == db[x]
           key == call[c].key
           pairs == node.data \cup {key}
           new == [node EXCEPT !.data = @ \cup {key}]
<1>1. call[c] \in Call /\ call[c] # None
  BY DistinctAssumption DEF Searches
<1>2. Writer(c)
  BY <1>1 DEF TrieInv, Writer
<1>3. TrieOf(db) /\ Holds(db, kept)
  <2>1. AllWritten
    BY <1>2, OneWriter DEF AllWritten
  <2> QED
    BY <2>1 DEF TrieInv
<1>4. node \in SoundNode /\ node.label = x
  BY DEF TypeInv, DbTyped
<1>5. key \in Key /\ frame[c].str = key.integral /\ Inserted(c) = {key}
  BY <1>1 DEF Searches, Call, Inserted
<1>6. key.integral \in KeyString
  BY <1>5, ConstantsAssumption DEF KeyString
<1>7. Splits(node, pairs)
  <2>1. Under(key.integral, node.label)
    BY <1>4, <1>5, <1>6, UnderPrefix
  <2> HIDE DEF node
  <2> QED
    BY <1>4, <1>5, <2>1, NodeFacts DEF Splits
<1>8. kept \subseteq Key
  BY DEF KeysApart
<1>9. node.data \subseteq pairs /\ key \in pairs /\ node # None /\ node.is_leaf
  OBVIOUS
<1>10. \/ Writes(c, <<Publish(new)>>, EmptyFrame)
       \/ /\ key \notin node.data /\ ~(Cardinality(node.data) < B)
          /\ Writes(c, _do_split_insert(node, pairs), EmptyFrame)
  BY DEF Found, Fits, size
<1>11. new \in SoundNode /\ new.label = x /\ new.is_leaf /\ new.data = pairs
  <2>1. new \in Node /\ new.label = node.label /\ new.is_leaf = node.is_leaf /\ new.data = pairs
    <3> HIDE DEF node
    <3> QED
      BY <1>4, <1>5, NodeFacts DEF Node
  <2> HIDE DEF new, pairs
  <2> QED
    BY <1>4, <1>7, <1>9, <2>1 DEF SoundNode, Splits
<1> HIDE DEF new, pairs, node
<1>12. CASE Writes(c, <<Publish(new)>>, EmptyFrame)
  <2> DEFINE o == <<Publish(new)>>
             U == [db EXCEPT ![x] = new]
  <2>1. Publish(new) \in SoundWrite /\ Publish(new).at = x /\ Publish(new).node = new
    BY <1>11 DEF Publish, Put, SoundWrite, SoundNode, Node
  <2>2. After(o, db) = U
    <3> DEFINE w == Publish(new)
    <3>1. db \in [Label \cup {Stray} -> SoundNode \cup {None}]
      BY DEF TypeInv, DbTyped
    <3>2. w \in SoundWrite /\ w.at = x /\ w.node = new
      BY <2>1
    <3> HIDE DEF w
    <3>3. After(<<w>>, db) = [db EXCEPT ![w.at] = w.node]
      BY <3>1, <3>2, AfterOne
    <3> QED
      BY <3>2, <3>3 DEF w
  <2>3. new # None
    BY <1>11, DistinctAssumption DEF SoundNode
  <2>4. TrieOf(U)
    BY <1>3, <1>11, <2>3, LeafTrie DEF TypeInv, DbTyped
  <2>5. \A y \in Label : U[y] = IF y = x THEN new ELSE db[y]
    BY DEF TypeInv, DbTyped
  <2> HIDE DEF U
  <2>6. ASSUME NEW k \in kept \cup {key}, FewClose
        PROVE  Located(U, k)
    <3>1. CASE k = key
      <4>1. n \in 0 .. BIT_DOMAIN - 1
        <5>1. Len(x) = IF n < BIT_DOMAIN THEN n ELSE BIT_DOMAIN
          BY <1>5, <1>6, KeyStrings, PrefixString, WidthType
        <5> QED
          BY <5>1, WidthType
      <4> QED
        BY <1>5, <1>9, <1>11, <2>3, <2>5, <3>1, <4>1 DEF Located
    <3>2. CASE k # key
      <4>1. k \in Key /\ Located(db, k)
        BY <1>3, <1>8, <2>6, <3>2 DEF Holds
      <4>2. PICK m \in 0 .. BIT_DOMAIN - 1 :
                LET z == db[Prefix(k.integral, m)]
                IN  z # None /\ z.is_leaf /\ k \in z.data
        BY <4>1 DEF Located
      <4>3. Prefix(k.integral, m) \in Label
        <5>1. k.integral \in BitStrings(BIT_DOMAIN)
          BY <4>1, ConstantsAssumption, KeyStrings DEF KeyString
        <5> QED
          BY <5>1, PrefixString, LongerString, WidthType DEF Label
      <4>4. LET z == U[Prefix(k.integral, m)]
            IN  z # None /\ z.is_leaf /\ k \in z.data
        <5>1. CASE Prefix(k.integral, m) = x
          BY <1>9, <1>11, <2>3, <2>5, <4>2, <4>3, <5>1 DEF node
        <5>2. CASE Prefix(k.integral, m) # x
          BY <2>5, <4>2, <4>3, <5>2
        <5> QED
          BY <5>1, <5>2
      <4> QED
        BY <4>4 DEF Located
    <3> QED
      BY <3>1, <3>2
  <2>7. o # <<>> /\ \A i \in 1 .. Len(o) : o[i].node = new
    BY <2>1
  <2> HIDE DEF o
  <2>8. Holds(After(o, db), kept \cup Inserted(c))
    <3>1. FewClose => Shallow(U)
      BY <1>3, <2>5 DEF Holds, Shallow
    <3> QED
      BY <1>5, <2>2, <2>6, <3>1 DEF Holds
  <2> QED
    BY <1>2, <1>12, <2>2, <2>3, <2>4, <2>7, <2>8 DEF o
<1>13. CASE /\ key \notin node.data /\ ~(Cardinality(node.data) < B)
            /\ Writes(c, _do_split_insert(node, pairs), EmptyFrame)
  <2> DEFINE o == _do_split_insert(node, pairs)
  <2>1. o # <<>> /\ \A i \in 1 .. Len(o) : o[i].node # None
    BY <1>7, SplitWritesSound, SplitSome
  <2>2. db[node.label] = node
    BY <1>4 DEF node
  <2>3. TrieOf(After(o, db))
    BY <1>3, <1>7, <1>9, <2>2, SplitTrie
  <2>4. ASSUME FewClose
        PROVE  Len(Lcp(pairs)) < BIT_DOMAIN - 1
    <3>1. SizeInv
      BY <2>4
    <3>2. IsFiniteSet(node.data) /\ Cardinality(node.data) <= B
      BY <3>1, <1>9 DEF SizeInv, NodeFits, node
    <3>3. IsFiniteSet(pairs) /\ Cardinality(pairs) = B + 1
      <4>1. Cardinality(node.data) \in Nat
        BY <3>2, FS_CardinalityType
      <4>2. Cardinality(node.data) = B
        BY <1>13, <3>2, <4>1, WidthType
      <4> QED
        BY <1>13, <3>2, <4>2, FS_AddElement DEF pairs
    <3> QED
      BY <1>7, <2>4, <3>3, ShortPrefix
  <2>5. ASSUME FewClose, NEW k \in kept \cup {key}
        PROVE  Located(After(o, db), k)
    <3>1. k \in Key /\ (k \in pairs \/ Located(db, k))
      BY <1>3, <1>5, <1>8, <1>9, <2>5 DEF Holds
    <3> HIDE DEF o
    <3> QED
      BY <1>3, <1>7, <1>9, <2>2, <2>4, <2>5, <3>1, SplitLocates DEF o
  <2>6. ASSUME FewClose
        PROVE  Shallow(After(o, db))
    <3>1. Shallow(db)
      BY <1>3, <2>6 DEF Holds
    <3> HIDE DEF o
    <3> QED
      BY <1>3, <1>7, <1>9, <2>2, <2>4, <2>6, <3>1, SplitShallow DEF o
  <2> HIDE DEF o
  <2>7. Holds(After(o, db), kept \cup Inserted(c))
    BY <1>5, <2>5, <2>6 DEF Holds
  <2> QED
    BY <1>2, <1>13, <2>1, <2>3, <2>7 DEF o
<1> QED
  BY <1>10, <1>12, <1>13

\* init leaves a trie, or one that is only its root.
LEMMA TrieInit ==
    ASSUME OneInserter, TypeInv, KeysApart, TrieInv, NEW c \in Client, InitTrie(c)
    PROVE  TrieInv'
<1> DEFINE root == LeafNode(<<>>)
           o == <<Publish(root)>>
<1>1. pc[c] = "init" /\ UNCHANGED <<db, call>>
  BY DEF InitTrie, At, Read
<1>2. call[c] = None /\ out[c] = <<>>
  BY <1>1 DEF KeysApart, TypeInv, Staged, Stage
<1>3. Inserted(c) = {}
  BY <1>2 DEF Inserted
<1>4. CASE Return(c, None)
  BY <1>1, <1>3, <1>4, TrieReturn
<1>5. CASE db[<<>>] = None /\ Writes(c, o, EmptyFrame)
  <2>1. Writer(c)
    BY <1>5 DEF TrieInv, Writer
  <2>2. TrieOf(db) /\ Holds(db, kept)
    <3>1. AllWritten
      BY <1>2, <2>1, OneWriter DEF AllWritten
    <3> QED
      BY <3>1 DEF TrieInv
  <2>3. \A x \in Label : db[x] = None
    BY <1>5, <2>2, NoRoot
  <2>4. <<>> \in Label
    BY EmptyString, WidthType DEF Label
  <2>5. root \in SoundNode /\ root.label = <<>> /\ root # None
    BY <2>4, EmptyLeaf, DistinctAssumption DEF SoundNode
  <2>6. o # <<>> /\ \A i \in 1 .. Len(o) : o[i].node = root
    BY DEF Publish, Put
  <2>7. db \in [Label \cup {Stray} -> SoundNode \cup {None}]
    BY DEF TypeInv, DbTyped
  <2>8. After(o, db) = [db EXCEPT ![<<>>] = root]
    <3> DEFINE w == Publish(root)
    <3>1. w \in SoundWrite /\ w.at = <<>> /\ w.node = root
      BY <2>4, <2>5 DEF Publish, Put, SoundWrite
    <3> HIDE DEF w
    <3>2. After(<<w>>, db) = [db EXCEPT ![w.at] = w.node]
      BY <2>7, <3>1, AfterOne
    <3>3. o = <<w>>
      BY DEF w
    <3> HIDE DEF root, o
    <3> QED
      BY <3>1, <3>2, <3>3
  <2>9. TrieOf(After(o, db))
    <3> HIDE DEF o
    <3>1. TrieOf([db EXCEPT ![<<>>] = LeafNode(<<>>)])
      BY <2>3, <2>7, RootTrie
    <3> QED
      BY <2>8, <3>1
  <2>10. ASSUME FewClose
         PROVE  kept = {}
    <3> SUFFICES ASSUME NEW k \in kept PROVE FALSE
      OBVIOUS
    <3>1. PICK n \in 0 .. BIT_DOMAIN - 1 : db[Prefix(k.integral, n)] # None
      BY <2>2, <2>10 DEF Holds, Located
    <3>2. k.integral \in BitStrings(BIT_DOMAIN)
      BY ConstantsAssumption, KeyStrings DEF KeyString, KeysApart
    <3>3. Prefix(k.integral, n) \in Label
      BY <3>2, PrefixString, LongerString, WidthType DEF Label
    <3> QED
      BY <2>3, <3>1, <3>3
  <2>11. Holds(After(o, db), kept \cup Inserted(c))
    <3>1. \A x \in Label : [db EXCEPT ![<<>>] = root][x] = IF x = <<>> THEN root ELSE None
      BY <2>3, <2>4, <2>7
    <3>2. Shallow([db EXCEPT ![<<>>] = root])
      BY <3>1, EmptyString, WidthType DEF Shallow
    <3> HIDE DEF root, o
    <3> QED
      BY <1>3, <2>8, <2>10, <3>2 DEF Holds
  <2>12. \A i \in 1 .. Len(o) : o[i].node # None
    BY <2>5, <2>6
  <2>13. Writes(c, o, EmptyFrame) /\ o # <<>>
    BY <1>5, <2>6
  <2> HIDE DEF o
  <2> QED
    BY <1>1, <2>1, <2>9, <2>11, <2>12, <2>13, TrieWrites
<1> QED
  <2>1. <<>> # None
    BY EmptyString, WidthType, DistinctAssumption DEF Label
  <2> QED
    BY <1>4, <1>5, <2>1 DEF InitTrie, dht_lookup

\* The client searches for a key to insert, and x is the leaf of it that its search
\* has come to, n bits down.
Inserting(c, x, n) ==
    /\ Searches(call[c], frame[c]) /\ call[c].type = "insert"
    /\ db[x] # None /\ db[x].is_leaf
    /\ x = Prefix(frame[c].str, n) /\ Len(x) < BIT_DOMAIN /\ Found(c, db[x])

\* What a step of a search or of a query comes to, when nobody deletes.
SearchStep(c) ==
    \/ \E a, f : a \notin {"write", "sibling", "parent", "left", "right", "cousin"} /\ Goto(c, a, f)
    \/ Inserted(c) = {} /\ \E result : Return(c, result)
    \/ \E x \in Label, n \in Nat : Inserting(c, x, n)

\* What a step of a search can do: go on, return, throw, or insert at a leaf.
LEMMA SearchSteps ==
    ASSUME OneInserter, TypeInv, TrieInv, NEW c \in Client,
           LookupStart(c) \/ LookupBin(c) \/ LookupLin(c) \/ Visit(c)
    PROVE  UNCHANGED <<db, call>> /\ out[c] = <<>> /\ pc[c] # "write" /\ SearchStep(c)
<1>1. pc[c] \in {"start", "bin", "lin", "visit"} /\ UNCHANGED <<db, call>>
  BY DEF LookupStart, LookupBin, LookupLin, Visit, At, Read
<1>2. out[c] = <<>>
  BY <1>1 DEF TypeInv, Staged, Stage
<1> SUFFICES SearchStep(c)
  BY <1>1, <1>2
<1>0. ASSUME NEW a, NEW f, a \notin {"write", "sibling", "parent", "left", "right", "cousin"},
             Goto(c, a, f)
      PROVE  SearchStep(c)
  BY <1>0 DEF SearchStep
<1>3. ASSUME NEW node, NEW todo, NEW data, Traverse(c, node, todo, data),
             pc[c] \in {"start", "visit"}
      PROVE  SearchStep(c)
  <2>1. call[c].type = "range"
    BY <1>3, FrameOf DEF Stage
  <2>2. Inserted(c) = {}
    BY <2>1 DEF Inserted
  <2> QED
    BY <1>0, <1>3, <2>2 DEF Traverse, SearchStep
<1>4. ASSUME Fatal(c)
      PROVE  SearchStep(c)
  BY <1>0, <1>4 DEF Fatal
<1>5. ASSUME NEW n \in Nat, pc[c] \in {"bin", "lin"}, n < BIT_DOMAIN \/ n < Len(frame[c].str) \/ n = 0,
             IsLeaf(dht_lookup(Prefix(frame[c].str, n))),
             Found(c, dht_lookup(Prefix(frame[c].str, n)))
      PROVE  SearchStep(c)
  <2> DEFINE str == frame[c].str
             x == Prefix(str, n)
             node == dht_lookup(x)
  <2>1. Searches(call[c], frame[c]) /\ str \in BitStrings(BIT_DOMAIN)
    BY <1>5, FrameOf DEF Stage, Frame
  <2>2. Len(str) \in Nat /\ Len(str) <= BIT_DOMAIN
    BY <2>1, BitStringIsSeq, WidthType
  <2>3. x \in BitStrings(BIT_DOMAIN) /\ Len(x) = IF n < Len(str) THEN n ELSE Len(str)
    <3> HIDE DEF str
    <3> QED
      BY <2>1, PrefixString, WidthType
  <2>4. Len(x) < BIT_DOMAIN
    <3> HIDE DEF x, str
    <3> QED
      BY <1>5, <2>2, <2>3, WidthType DEF str
  <2>5. x \in Label
    BY <2>3, LongerString, WidthType DEF Label
  <2>6. node = db[x] /\ db[x] # None /\ db[x].is_leaf
    BY <1>5, <2>5, Looked DEF IsLeaf
  <2>7. Found(c, db[x])
    BY <1>5, <2>6
  <2>8. call[c] \in Call /\ call[c] # None
    BY <2>1, DistinctAssumption DEF Searches
  <2>9. CASE call[c].type = "insert"
    <3>1. x = Prefix(frame[c].str, n)
      OBVIOUS
    <3> HIDE DEF x, node, str
    <3> QED
      BY <2>1, <2>4, <2>5, <2>6, <2>7, <2>9, <3>1 DEF Inserting, SearchStep
  <2>10. CASE call[c].type = "range"
    <3>1. \E result : Return(c, result)
      BY <2>7, <2>10 DEF Found
    <3>2. Inserted(c) = {}
      BY <2>10 DEF Inserted
    <3> QED
      BY <3>1, <3>2 DEF SearchStep
  <2>11. call[c].type # "delete"
    BY <2>8 DEF TrieInv, OneInserter, NoDeletes
  <2> QED
    BY <2>8, <2>9, <2>10, <2>11 DEF Call
<1>6. CASE LookupStart(c)
  BY <1>0, <1>1, <1>3, <1>6 DEF LookupStart, At
<1>7. CASE LookupBin(c)
  <2> DEFINE f == frame[c]
             q == (f.p + f.r - 1) \div 2
             node == dht_lookup(Prefix(f.str, q))
             next == Narrowed(f, q, node)
  <2>1. pc[c] = "bin" /\ f.p \in Nat /\ f.r \in Nat /\ f.p < f.r /\ f.r <= BIT_DOMAIN
    BY <1>7, FrameOf DEF LookupBin, At, Stage, Frame
  <2>2. q \in Nat /\ q < BIT_DOMAIN
    BY <2>1, WidthType
  <2>3. \/ IsLeaf(node) /\ Found(c, node)
        \/ Goto(c, "bin", next) \/ Goto(c, "lin", next)
    BY <1>7 DEF LookupBin
  <2> HIDE DEF next, q
  <2> QED
    BY <1>0, <1>5, <2>1, <2>2, <2>3
<1>8. CASE LookupLin(c)
  <2> DEFINE f == frame[c]
             node == dht_lookup(Prefix(f.str, f.i))
             next == [f EXCEPT !.i = @ + 1]
  <2>1. pc[c] = "lin" /\ f.i \in Nat /\ (f.i = 0 \/ f.i < Len(f.str))
    BY <1>8, FrameOf DEF LookupLin, At, Stage, Frame
  <2>2. \/ IsLeaf(node) /\ Found(c, node)
        \/ Goto(c, "lin", next) \/ Fatal(c)
    BY <1>8 DEF LookupLin
  <2> HIDE DEF next
  <2> QED
    BY <1>0, <1>4, <1>5, <2>1, <2>2
<1>9. CASE Visit(c)
  BY <1>1, <1>3, <1>4, <1>9 DEF Visit, At
<1> QED
  BY <1>6, <1>7, <1>8, <1>9

\* TrieInv is kept by the steps of a search.
LEMMA TrieSearch ==
    ASSUME OneInserter, TypeInv, KeysApart, TrieInv, FewClose => SizeInv, NEW c \in Client,
           LookupStart(c) \/ LookupBin(c) \/ LookupLin(c) \/ Visit(c)
    PROVE  TrieInv'
<1>1. UNCHANGED <<db, call>> /\ out[c] = <<>> /\ pc[c] # "write" /\ SearchStep(c)
  BY SearchSteps
<1>2. ASSUME NEW x \in Label, NEW n \in Nat, Inserting(c, x, n)
      PROVE  TrieInv'
  BY <1>1, <1>2, FoundInserts, TrieWrites DEF Inserting
<1> QED
  BY <1>1, <1>2, TrieGoto, TrieReturn DEF SearchStep

\* TrieInv is kept by every step.
LEMMA TrieNext ==
    ASSUME OneInserter, TypeInv, KeysApart, TrieInv, FewClose => SizeInv, [Next]_vars
    PROVE  TrieInv'
<1>0. ASSUME UNCHANGED <<db, out, kept>>,
             \A e \in Client : out[e] # <<>> => call'[e] = call[e],
             \A e \in Client :
                 /\ call'[e] # None => call'[e].type \in OpsOf[e]
                 /\ pc'[e] \notin {"sibling", "parent", "left", "right", "cousin"}
                 /\ pc'[e] = "write" => ~frame'[e].merge_on
      PROVE  TrieInv'
  <2>1. \A e \in Client : out[e] # <<>> => Inserted(e)' = Inserted(e)
    BY <1>0 DEF Inserted
  <2>2. ASSUME NEW e \in Client, out'[e] # <<>>
        PROVE  /\ Writer(e)
               /\ \A i \in 1 .. Len(out'[e]) : out'[e][i].node # None
               /\ TrieOf(After(out'[e], db'))
               /\ Holds(After(out'[e], db'), kept' \cup Inserted(e)')
    BY <1>0, <2>1, <2>2 DEF TrieInv
  <2>3. AllWritten' => TrieOf(db') /\ Holds(db', kept')
    BY <1>0 DEF AllWritten, TrieInv
  <2> QED
    BY <1>0, <2>2, <2>3 DEF TrieInv, Writer
<1>1. CASE UNCHANGED vars
  BY <1>0, <1>1 DEF vars, TrieInv
<1>2. ASSUME NEW c \in Client, Crash(c)
      PROVE  TrieInv'
  BY <1>0, <1>2 DEF Crash, TrieInv
<1>3. ASSUME NEW c \in Client, Begin(c)
      PROVE  TrieInv'
  <2>1. PICK m \in Call :
          /\ m.type \in OpsOf[c] /\ call' = [call EXCEPT ![c] = m]
          /\ pc' = [pc EXCEPT ![c] = "bin"] \/ pc' = [pc EXCEPT ![c] = "start"]
          /\ kept' = kept
    BY <1>3 DEF Begin, OneInserter, NoDeletes
  <2>2. UNCHANGED <<db, out>> /\ out[c] = <<>>
    BY <1>3 DEF Begin, At, TypeInv, Staged, Stage
  <2>3. \A e \in Client : e # c => frame'[e] = frame[e]
    BY <1>3 DEF Begin, TypeInv, LocalsTyped
  <2>4. \A e \in Client : /\ call'[e] = IF e = c THEN m ELSE call[e]
                          /\ IF e = c THEN pc'[e] \in {"bin", "start"} ELSE pc'[e] = pc[e]
    BY <2>1 DEF TypeInv, LocalsTyped
  <2>5. \A e \in Client :
            /\ call'[e] # None => call'[e].type \in OpsOf[e]
            /\ pc'[e] \notin {"sibling", "parent", "left", "right", "cousin"}
            /\ pc'[e] = "write" => ~frame'[e].merge_on
    BY <2>1, <2>3, <2>4 DEF TrieInv
  <2>6. \A e \in Client : out[e] # <<>> => call'[e] = call[e]
    BY <2>2, <2>4
  <2> QED
    BY <1>0, <2>1, <2>2, <2>5, <2>6
<1>4. ASSUME NEW c \in Client,
             ReadSibling(c) \/ ReadParent(c) \/ ReadLeft(c) \/ ReadRight(c) \/ ReadCousin(c)
      PROVE  TrieInv'
  BY <1>4 DEF ReadSibling, ReadParent, ReadLeft, ReadRight, ReadCousin, At, TrieInv
<1> QED
  BY <1>1, <1>2, <1>3, <1>4, TrieInit, TrieWrite, TrieSearch DEF Next, Proceed

\* The invariant of the theorems below.
LEMMA TrieCorrect ==
    ASSUME OneInserter
    PROVE  Spec => [](TypeInv /\ KeysApart /\ TrieInv /\ (FewClose => SizeInv))
<1> DEFINE J == TypeInv /\ KeysApart
           I == TrieInv /\ (FewClose => SizeInv)
<1>1. Init => I
  <2> SUFFICES ASSUME Init PROVE I
    OBVIOUS
  <2>1. /\ db \in [Label \cup {Stray} -> {LeafNode(<<>>), None}]
        /\ \A x \in Label : db[x] = IF Rooted /\ x = <<>> THEN LeafNode(<<>>) ELSE None
        /\ \A x \in Label \cup {Stray} : db[x] # None => db[x] = LeafNode(<<>>)
    BY DEF Init
  <2>2. \A c \in Client : out[c] = <<>> /\ call[c] = None /\ pc[c] = "init"
    BY DEF Init
  <2>3. <<>> \in Label
    BY EmptyString, WidthType DEF Label
  <2>4. LeafNode(<<>>) \in SoundNode /\ LeafNode(<<>>) # None /\ LeafNode(<<>>).is_leaf
    BY <2>3, EmptyLeaf, DistinctAssumption DEF SoundNode
  <2>5. TrieOf(db)
    BY <2>1, <2>3, <2>4 DEF TrieOf
  <2>6. Holds(db, kept)
    BY <2>1, EmptyString, WidthType DEF Init, Holds, Shallow
  <2>7. TrieInv
    BY <2>1, <2>2, <2>3, <2>4, <2>5, <2>6 DEF TrieInv
  <2>8. SizeInv
    BY <2>1, <2>2, EmptyFits DEF SizeInv
  <2> QED
    BY <2>7, <2>8
<1>2. J /\ I /\ [Next]_vars => I'
  <2>1. ASSUME J, I, [Next]_vars
        PROVE  TrieInv'
    BY <2>1, TrieNext
  <2>2. ASSUME J, I, [Next]_vars, FewClose
        PROVE  SizeInv'
    BY <2>2, FewCloseAlike, SizeNext DEF OneInserter
  <2> QED
    BY <2>1, <2>2
<1>3. Spec => []J
  BY TypeCorrect
<1> HIDE DEF J, I
<1>4. Spec => [](J /\ I)
  BY <1>1, <1>2, <1>3, PTL DEF Spec
<1> QED
  BY <1>4 DEF J, I

\* Whatever one client inserts, and however many others query and stop at any
\* time, the database at rest is a trie: the writes of a split never leave an
\* internal node without its children, nor a node that nothing leads to.
THEOREM TrieAtRestCorrect ==
    ASSUME OneInserter
    PROVE  Spec => []TrieAtRest
<1>1. TypeInv /\ TrieInv => TrieAtRest
  <2> SUFFICES ASSUME TypeInv, TrieInv, Quiet PROVE Trie
    BY DEF TrieAtRest
  <2>1. AllWritten
    BY DEF Quiet, TypeInv, Staged, Stage, AllWritten
  <2> QED
    BY <2>1 DEF TrieInv, TrieOf, Trie
<1> QED
  BY <1>1, TrieCorrect, PTL

-----------------------------------------------------------------------------
\* The search

\* One probe of BinSearch in the interval i, when f gives the answers for those
\* inside it.
Interval == (0 .. BIT_DOMAIN) \X (0 .. BIT_DOMAIN)

Middle(i) == (i[1] + i[2] - 1) \div 2

Probe(f, str, i) ==
    LET node == db[Prefix(str, Middle(i))]
    IN  IF i[1] >= i[2] THEN None
        ELSE IF node = None THEN f[<<i[1], Middle(i)>>]
        ELSE IF node.is_leaf THEN node ELSE f[<<Middle(i) + 1, i[2]>>]

\* The two halves of an interval the binary search has not finished with.
LEMMA Halves ==
    ASSUME NEW i \in Interval, i[1] < i[2]
    PROVE  /\ i[1] \in 0 .. BIT_DOMAIN /\ i[2] \in 0 .. BIT_DOMAIN /\ i = <<i[1], i[2]>>
           /\ Middle(i) \in Nat /\ i[1] <= Middle(i) /\ Middle(i) < i[2]
           /\ <<i[1], Middle(i)>> \in Interval /\ <<Middle(i) + 1, i[2]>> \in Interval
           /\ Middle(i) - i[1] < i[2] - i[1] /\ i[2] - (Middle(i) + 1) < i[2] - i[1]
<1> DEFINE p == i[1]
           r == i[2]
           q == (p + r - 1) \div 2
<1>1. p \in 0 .. BIT_DOMAIN /\ r \in 0 .. BIT_DOMAIN /\ i = <<p, r>>
  BY DEF Interval
<1>2. BIT_DOMAIN \in Nat /\ p < r
  BY WidthType
<1> HIDE DEF p, r
<1>3. q \in Nat /\ p <= q /\ q < r /\ q - p < r - p /\ r - (q + 1) < r - p
      /\ q \in 0 .. BIT_DOMAIN /\ q + 1 \in 0 .. BIT_DOMAIN
  BY <1>1, <1>2
<1>4. Middle(i) = q
  BY DEF Middle, p, r
<1> HIDE DEF q
<1> QED
  BY <1>1, <1>3, <1>4 DEF Interval, p, r

\* The two halves of an interval of at most m steps have at most m - 1.
LEMMA Narrower ==
    ASSUME NEW i \in Interval, NEW m \in Nat, i[2] <= i[1] + m
    PROVE  /\ i[1] < i[2] \/ i[1] >= i[2]
           /\ m = 0 => i[1] >= i[2]
           /\ i[1] < i[2] => /\ Middle(i) <= i[1] + (m - 1)
                             /\ i[2] <= (Middle(i) + 1) + (m - 1)
<1> DEFINE p == i[1]
           r == i[2]
           q == Middle(i)
<1>1. BIT_DOMAIN \in Nat
  BY WidthType
<1>2. p \in Int /\ r \in Int /\ r <= p + m
  <2>1. p \in 0 .. BIT_DOMAIN /\ r \in 0 .. BIT_DOMAIN
    BY DEF Interval
  <2>2. r <= p + m
    OBVIOUS
  <2> HIDE DEF p, r
  <2> QED
    BY <1>1, <2>1, <2>2
<1>3. ASSUME p < r
      PROVE  q \in Int /\ q - p < r - p /\ r - (q + 1) < r - p
  <2>1. q \in Nat /\ q - p < r - p /\ r - (q + 1) < r - p
    BY <1>3, Halves
  <2> HIDE DEF p, q, r
  <2> QED
    BY <2>1
<1> HIDE DEF p, q, r
<1>4. /\ p < r \/ p >= r
      /\ m = 0 => p >= r
      /\ p < r => q <= p + (m - 1) /\ r <= (q + 1) + (m - 1)
  BY <1>2, <1>3
<1> QED
  BY <1>4 DEF p, q, r

\* BinSearch is what its recursion describes.
LEMMA BinSearchDef ==
    ASSUME NEW str
    PROVE  \E f : /\ \A i \in Interval : f[i] = Probe(f, str, i)
                  /\ BinSearch(str) = f[<<0, BIT_DOMAIN>>]
<1> DEFINE Good(f) == f = [i \in Interval |-> Probe(f, str, i)]
           Stages(f, m) == \A i \in Interval : i[2] <= i[1] + m => f[i] = Probe(f, str, i)
           Bad == {m \in Nat : ~ \E f : Stages(f, m)}
<1>0. BIT_DOMAIN \in Nat
  BY WidthType
<1>1. BinSearch(str) = (CHOOSE f : Good(f))[<<0, BIT_DOMAIN>>]
  BY DEF BinSearch, Probe, Interval, Middle
<1>2. Bad = {}
  <2> SUFFICES ASSUME Bad # {} PROVE FALSE
    OBVIOUS
  <2>1. PICK m \in Bad : \A n \in Bad : m <= n
    BY Least
  <2>2. m \in Nat /\ ~ \E f : Stages(f, m)
    OBVIOUS
  <2>3. CASE m = 0
    <3> DEFINE g == [i \in Interval |-> None]
    <3>1. Stages(g, m)
      <4> SUFFICES ASSUME NEW i \in Interval, i[2] <= i[1] + m
                   PROVE  g[i] = Probe(g, str, i)
        OBVIOUS
      <4> HIDE DEF g, Stages, Bad
      <4>1. i[2] <= i[1] + m
        OBVIOUS
      <4>2. i[1] >= i[2]
        BY <2>2, <2>3, <4>1, Narrower
      <4> USE DEF g
      <4> QED
        BY <4>2 DEF Probe
    <3> QED
      BY <2>2, <3>1
  <2>4. CASE m # 0
    <3>1. m - 1 \in Nat /\ m - 1 < m
      BY <2>2, <2>4
    <3>2. m - 1 \notin Bad
      <4> HIDE DEF Bad
      <4> QED
        BY <2>1, <2>2, <3>1
    <3>3. PICK f : Stages(f, m - 1)
      BY <3>1, <3>2
    <3> DEFINE g == [i \in Interval |-> IF i[2] <= i[1] + (m - 1) THEN f[i] ELSE Probe(f, str, i)]
    <3>4. ASSUME NEW i \in Interval, i[2] <= i[1] + m
          PROVE  g[i] = Probe(g, str, i)
      <4>1. g[i] = Probe(f, str, i)
        BY <3>3
      <4>2. Probe(f, str, i) = Probe(g, str, i)
        <5>1. CASE i[1] < i[2]
          <6>1. /\ i[1] \in 0 .. BIT_DOMAIN /\ i[2] \in 0 .. BIT_DOMAIN
                /\ Middle(i) \in Nat
                /\ <<i[1], Middle(i)>> \in Interval /\ <<Middle(i) + 1, i[2]>> \in Interval
                /\ Middle(i) - i[1] < i[2] - i[1] /\ i[2] - (Middle(i) + 1) < i[2] - i[1]
            BY <5>1, Halves
          <6>2. Middle(i) <= i[1] + (m - 1) /\ i[2] <= (Middle(i) + 1) + (m - 1)
            BY <2>2, <3>4, <5>1, Narrower
          <6>3. \A u, v : <<u, v>>[1] = u /\ <<u, v>>[2] = v
            OBVIOUS
          <6>4. /\ g[<<i[1], Middle(i)>>] = f[<<i[1], Middle(i)>>]
                /\ g[<<Middle(i) + 1, i[2]>>] = f[<<Middle(i) + 1, i[2]>>]
            BY <6>1, <6>2, <6>3
          <6> HIDE DEF g
          <6> QED
            BY <6>4 DEF Probe
        <5>2. CASE ~(i[1] < i[2])
          <6>2. i[1] >= i[2]
            BY <2>2, <3>4, <5>2, Narrower
          <6> HIDE DEF g
          <6> QED
            BY <6>2 DEF Probe
        <5> QED
          BY <5>1, <5>2
      <4> QED
        BY <4>1, <4>2
    <3> HIDE DEF g
    <3>5. Stages(g, m)
      BY <3>4
    <3> QED
      BY <2>2, <3>5
  <2> QED
    BY <2>3, <2>4
<1>3. \E f : Good(f)
  <2>1. PICK f : Stages(f, BIT_DOMAIN)
    BY <1>0, <1>2
  <2> DEFINE g == [i \in Interval |-> f[i]]
  <2>2. ASSUME NEW i \in Interval
        PROVE  g[i] = Probe(g, str, i)
    <3>1. i[1] \in 0 .. BIT_DOMAIN /\ i[2] \in 0 .. BIT_DOMAIN
      BY DEF Interval
    <3>2. i[2] <= i[1] + BIT_DOMAIN
      BY <1>0, <3>1
    <3>3. f[i] = Probe(f, str, i)
      BY <2>1, <3>2
    <3>4. Probe(f, str, i) = Probe(g, str, i)
      <4>1. CASE i[1] < i[2]
        <5>1. <<i[1], Middle(i)>> \in Interval /\ <<Middle(i) + 1, i[2]>> \in Interval
          BY <4>1, Halves
        <5>2. /\ g[<<i[1], Middle(i)>>] = f[<<i[1], Middle(i)>>]
              /\ g[<<Middle(i) + 1, i[2]>>] = f[<<Middle(i) + 1, i[2]>>]
          BY <5>1
        <5> HIDE DEF g
        <5> QED
          BY <5>2 DEF Probe
      <4>2. CASE ~(i[1] < i[2])
        <5>1. i[1] >= i[2]
          BY <1>0, <3>1, <4>2
        <5> HIDE DEF g
        <5> QED
          BY <5>1 DEF Probe
      <4> QED
        BY <4>1, <4>2
    <3> QED
      BY <3>3, <3>4
  <2>3. g = [i \in Interval |-> g[i]]
    OBVIOUS
  <2> HIDE DEF g
  <2>4. g = [i \in Interval |-> Probe(g, str, i)]
    BY <2>2, <2>3
  <2> QED
    BY <2>4
<1> DEFINE h == CHOOSE f : Good(f)
<1>4. Good(h)
  <2> HIDE DEF Good
  <2> QED
    BY <1>3
<1>5. BinSearch(str) = h[<<0, BIT_DOMAIN>>]
  BY <1>1
<1> HIDE DEF h
<1>6. \A i \in Interval : h[i] = Probe(h, str, i)
  BY <1>4
<1> QED
  BY <1>5, <1>6

\* In a trie the probes above the leaf of a string find internal nodes, and
\* those below it nothing.
LEMMA Probes ==
    ASSUME NEW T, TrieOf(T), NEW str \in BitStrings(BIT_DOMAIN), NEW n \in Nat, n < Len(str),
           T[Prefix(str, n)] # None, T[Prefix(str, n)].is_leaf, NEW q \in Nat
    PROVE  /\ q < n => T[Prefix(str, q)] # None /\ ~T[Prefix(str, q)].is_leaf
           /\ n < q => T[Prefix(str, q)] = None
<1> DEFINE x == Prefix(str, n)
           y == Prefix(str, q)
<1>1. Len(str) \in Nat
  BY BitStringIsSeq, WidthType
<1>2. x \in BitStrings(BIT_DOMAIN) /\ Len(x) = n /\ x \in Label
  BY PrefixString, LongerString, WidthType DEF Label
<1>3. /\ y \in BitStrings(BIT_DOMAIN) /\ y \in Label
      /\ Len(y) = IF q < Len(str) THEN q ELSE Len(str)
  BY PrefixString, LongerString, WidthType DEF Label
<1>4. ASSUME q < n
      PROVE  T[y] # None /\ ~T[y].is_leaf
  <2>1. n \in 0 .. Len(str) /\ q \in 0 .. n /\ q \in 0 .. Len(x) - 1
    BY <1>1, <1>2, <1>4
  <2>2. Prefix(x, q) = y
    BY <2>1, PrefixPrefix, WidthType
  <2>3. T[Prefix(x, q)] # None /\ ~T[Prefix(x, q)].is_leaf
    BY <1>2, <2>1, Above
  <2> QED
    BY <2>2, <2>3
<1>5. ASSUME n < q
      PROVE  T[y] = None
  <2>1. Len(x) < Len(y)
    <3> HIDE DEF x, y
    <3> QED
      BY <1>1, <1>2, <1>3, <1>5
  <2>2. Prefix(y, n) = x
    <3>1. CASE q < Len(str)
      <4>1. q \in 0 .. Len(str) /\ n \in 0 .. q
        BY <1>1, <1>5, <3>1
      <4> QED
        BY <4>1, PrefixPrefix, WidthType
    <3>2. CASE ~(q < Len(str))
      BY <3>2 DEF Prefix
    <3> QED
      BY <3>1, <3>2
  <2> HIDE DEF x, y
  <2>3. Prefix(y, Len(x)) = x
    BY <1>2, <2>2
  <2> QED
    BY <1>2, <1>3, <2>1, <2>3, BelowLeaf DEF x
<1> QED
  BY <1>4, <1>5

\* On the way of the string s there are internal nodes above depth n, leaves from
\* n to m, and nothing below.
Span(T, s, n, m) ==
    \A q \in 0 .. BIT_DOMAIN :
        LET node == T[Prefix(s, q)]
        IN  /\ q < n => node # None /\ ~node.is_leaf
            /\ n <= q /\ q <= m => node # None /\ node.is_leaf
            /\ m < q => node = None

\* In a trie there is one leaf on the way.
LEMMA TrieSpan ==
    ASSUME NEW T, TrieOf(T), NEW s \in KeyString, NEW n \in 0 .. BIT_DOMAIN - 1,
           T[Prefix(s, n)] # None, T[Prefix(s, n)].is_leaf
    PROVE  Span(T, s, n, n)
<1>1. /\ s \in BitStrings(BIT_DOMAIN) /\ Len(s) = BIT_DOMAIN
      /\ n \in Nat /\ n < Len(s) /\ \A q \in 0 .. BIT_DOMAIN : q \in Nat
  BY KeyStrings, WidthType
<1>2. \A q \in 0 .. BIT_DOMAIN :
          /\ q < n => T[Prefix(s, q)] # None /\ ~T[Prefix(s, q)].is_leaf
          /\ n < q => T[Prefix(s, q)] = None
  BY <1>1, Probes
<1>3. \A q \in 0 .. BIT_DOMAIN : n <= q /\ q <= n => q = n
  BY <1>1
<1> QED
  BY <1>2, <1>3 DEF Span

\* The binary search finds one of the leaves on the way.
LEMMA BinSearchFinds ==
    ASSUME NEW str \in KeyString, NEW n \in 0 .. BIT_DOMAIN - 1,
           NEW m \in n .. BIT_DOMAIN - 1, Span(db, str, n, m)
    PROVE  \E q \in n .. m : BinSearch(str) = db[Prefix(str, q)]
<1> DEFINE Hit(v) == \E q \in n .. m : v = db[Prefix(str, q)]
<1>1. PICK f : /\ \A i \in Interval : f[i] = Probe(f, str, i)
               /\ BinSearch(str) = f[<<0, BIT_DOMAIN>>]
  BY BinSearchDef
<1>2. BIT_DOMAIN \in Nat /\ n \in Nat /\ m \in Nat /\ n <= m /\ m < BIT_DOMAIN
  BY WidthType
<1>3. ASSUME NEW q \in 0 .. BIT_DOMAIN
      PROVE  /\ q < n => db[Prefix(str, q)] # None /\ ~db[Prefix(str, q)].is_leaf
             /\ n <= q /\ q <= m => db[Prefix(str, q)] # None /\ db[Prefix(str, q)].is_leaf
             /\ m < q => db[Prefix(str, q)] = None
  BY DEF Span
<1> DEFINE Bad == {k \in Nat : \E i \in Interval : /\ i[1] <= n /\ m < i[2] /\ i[2] - i[1] = k
                                                   /\ ~Hit(f[i])}
<1> HIDE DEF Hit
<1>6. Bad = {}
  <2> SUFFICES ASSUME Bad # {} PROVE FALSE
    OBVIOUS
  <2>1. PICK k \in Bad : \A j \in Bad : k <= j
    BY Least
  <2>2. PICK i \in Interval : i[1] <= n /\ m < i[2] /\ i[2] - i[1] = k /\ ~Hit(f[i])
    OBVIOUS
  <2> DEFINE q == Middle(i)
             left == <<i[1], q>>
             right == <<q + 1, i[2]>>
  <2>3. i[1] \in 0 .. BIT_DOMAIN /\ i[2] \in 0 .. BIT_DOMAIN
    BY <2>2 DEF Interval
  <2>4. i[1] < i[2]
    BY <1>2, <2>2, <2>3
  <2>5. /\ q \in Nat /\ i[1] <= q /\ q < i[2] /\ left \in Interval /\ right \in Interval
        /\ left[1] = i[1] /\ left[2] = q /\ right[1] = q + 1 /\ right[2] = i[2]
        /\ q - i[1] < k /\ i[2] - (q + 1) < k
    BY <2>2, <2>4, Halves
  <2>6. q \in 0 .. BIT_DOMAIN /\ ~(i[1] >= i[2])
    BY <1>2, <2>3, <2>4, <2>5
  <2>7. f[i] = LET node == db[Prefix(str, q)]
               IN  IF node = None THEN f[left]
                   ELSE IF node.is_leaf THEN node ELSE f[right]
    BY <1>1, <2>6 DEF Probe
  <2> HIDE DEF q, left, right
  <2>8. CASE q < n
    <3>1. f[i] = f[right]
      BY <1>3, <2>6, <2>7, <2>8
    <3>2. /\ right[1] <= n /\ m < right[2]
          /\ right[2] - right[1] \in Nat /\ right[2] - right[1] < k
      BY <1>2, <2>2, <2>3, <2>5, <2>8
    <3>3. right[2] - right[1] \in Bad
      BY <2>2, <2>5, <3>1, <3>2
    <3> QED
      BY <2>1, <3>2, <3>3
  <2>9. CASE n <= q /\ q <= m
    <3>1. f[i] = db[Prefix(str, q)]
      BY <1>3, <2>6, <2>7, <2>9
    <3>2. q \in n .. m
      BY <1>2, <2>5, <2>9
    <3> QED
      BY <2>2, <3>1, <3>2 DEF Hit
  <2>10. CASE m < q
    <3>1. f[i] = f[left]
      BY <1>3, <2>6, <2>7, <2>10
    <3>2. /\ left[1] <= n /\ m < left[2]
          /\ left[2] - left[1] \in Nat /\ left[2] - left[1] < k
      BY <1>2, <2>2, <2>3, <2>5, <2>10
    <3>3. left[2] - left[1] \in Bad
      BY <2>2, <2>5, <3>1, <3>2
    <3> QED
      BY <2>1, <3>2, <3>3
  <2> QED
    BY <1>2, <2>5, <2>8, <2>9, <2>10
<1>7. Hit(f[<<0, BIT_DOMAIN>>])
  <2> DEFINE i == <<0, BIT_DOMAIN>>
  <2>1. i \in Interval /\ i[1] = 0 /\ i[2] = BIT_DOMAIN /\ BIT_DOMAIN - 0 = BIT_DOMAIN
    BY <1>2 DEF Interval
  <2> HIDE DEF i
  <2>2. ~Hit(f[i]) => BIT_DOMAIN \in Bad
    BY <1>2, <2>1
  <2>3. Hit(f[i])
    BY <1>6, <2>2
  <2> QED
    BY <2>3 DEF i
<1> QED
  BY <1>1, <1>7 DEF Hit

\* Whatever one client inserts, and however many others query and stop at any
\* time, every key inserted is found by a search in the database at rest: as
\* long as of more than B keys two differ before the last bit.
THEOREM FoundAtRestCorrect ==
    ASSUME OneInserter, FewClose
    PROVE  Spec => []FoundAtRest
<1>1. TypeInv /\ KeysApart /\ TrieInv => FoundAtRest
  <2> SUFFICES ASSUME TypeInv, KeysApart, TrieInv, Quiet, NEW k \in kept
               PROVE  Search(k.integral) # None /\ k \in Search(k.integral).data
    BY DEF FoundAtRest, NeverLost
  <2>1. AllWritten
    BY DEF Quiet, TypeInv, Staged, Stage, AllWritten
  <2>2. TrieOf(db) /\ Located(db, k)
    BY <2>1 DEF TrieInv, Holds
  <2>3. PICK n \in 0 .. BIT_DOMAIN - 1 :
            LET node == db[Prefix(k.integral, n)]
            IN  node # None /\ node.is_leaf /\ k \in node.data
    BY <2>2 DEF Located
  <2>4. k.integral \in KeyString
    BY ConstantsAssumption DEF KeyString, KeysApart
  <2>5. n \in n .. BIT_DOMAIN - 1 /\ Span(db, k.integral, n, n)
    BY <2>2, <2>3, <2>4, TrieSpan, WidthType
  <2>6. \E q \in n .. n : BinSearch(k.integral) = db[Prefix(k.integral, q)]
    BY <2>4, <2>5, BinSearchFinds
  <2>7. BinSearch(k.integral) = db[Prefix(k.integral, n)]
    BY <2>6, WidthType
  <2> QED
    BY <2>3, <2>7 DEF Search
<1> QED
  BY <1>1, TrieCorrect, PTL

-----------------------------------------------------------------------------
\* No corruption

\* Nobody but the client writes to the trie.
Alone(c) == \A d \in Client \ {c} : OpsOf[d] \cap {"insert", "delete"} = {}

Filled == {x \in Label : db[x] # None}

\* The leaf of the string is n levels down, where its search has yet to probe.
Ahead(f, n) ==
    /\ n < Len(f.str) /\ f.p <= n /\ n < f.r
    /\ db[Prefix(f.str, n)] # None /\ db[Prefix(f.str, n)].is_leaf

\* What a client that is alone can rely on: the root, the leaf that a search is
\* for, and the nodes that a range query has yet to visit.
Sure(c) ==
    /\ pc[c] \notin {"lin", "fatal"}
    /\ pc[c] # "init" => After(out[c], db)[<<>>] # None
    /\ pc[c] = "bin" => \E n \in Nat : Ahead(frame[c], n)
    /\ pc[c] = "visit" => frame[c].todo \in Seq(Filled)

SureInv == \A c \in Client : Alone(c) => Sure(c)

\* The root is in the database, or is on its way there.
LEMMA RootStays ==
    ASSUME NEW o, NEW T, T[<<>>] # None, Len(o) \in Nat,
           \A i \in 1 .. Len(o) : o[i].node # None
    PROVE  After(o, T)[<<>>] # None
<1> DEFINE at == {i \in 1 .. Len(o) : o[i].at = <<>>}
<1>1. <<>> \in Label \cup {Stray}
  BY EmptyString, WidthType DEF Label
<1>2. CASE at = {}
  BY <1>1, <1>2, AfterNone
<1>3. CASE at # {}
  <2>1. at \in SUBSET (1 .. Len(o))
    OBVIOUS
  <2>2. PICK i \in at : \A j \in at : j <= i
    BY <1>3, <2>1, Greatest
  <2>3. i \in 1 .. Len(o) /\ o[i].at = <<>> /\ \A j \in 1 .. Len(o) : i < j => o[j].at # <<>>
    BY <2>2
  <2>4. After(o, T)[<<>>] = o[i].node
    BY <1>1, <2>3, AfterLast
  <2> QED
    BY <2>3, <2>4
<1> QED
  BY <1>2, <1>3

\* While it writes nothing, its database is a trie of nodes that can be probed.
LEMMA AloneTrie ==
    ASSUME OneInserter, FewClose, TypeInv, TrieInv, NEW c \in Client, Alone(c)
    PROVE  /\ \A e \in Client : e # c => out[e] = <<>>
           /\ out[c] = <<>> => /\ TrieOf(db) /\ Shallow(db)
                               /\ After(out[c], db) = db
<1>1. \A e \in Client : e # c => out[e] = <<>>
  BY DEF OneInserter, TrieInv, Writer, Alone
<1>2. ASSUME out[c] = <<>>
      PROVE  TrieOf(db) /\ Shallow(db) /\ After(out[c], db) = db
  <2>1. AllWritten
    BY <1>1, <1>2 DEF AllWritten
  <2>2. After(<<>>, db) = db
    BY AfterEmpty DEF TypeInv, DbTyped
  <2> QED
    BY <1>2, <2>1, <2>2 DEF TrieInv, Holds
<1> QED
  BY <1>1, <1>2

\* On the way of a string that is not itself in a trie there is a leaf.
LEMMA LeafOnWay ==
    ASSUME TypeInv, TrieOf(db), db[<<>>] # None,
           NEW str \in BitStrings(BIT_DOMAIN), db[str] = None
    PROVE  \E n \in Nat : /\ n < Len(str)
                          /\ db[Prefix(str, n)] # None /\ db[Prefix(str, n)].is_leaf
<1> DEFINE L == Len(str)
           Bad == {d \in Nat : d <= L /\ db[Prefix(str, d)] = None}
<1>1. L \in Nat /\ str \in Seq({0, 1})
  BY BitStringIsSeq, WidthType
<1>2. Prefix(str, 0) = <<>> /\ Prefix(str, L) = str
  BY PrefixEmpty, WidthType
<1>3. L \in Bad
  BY <1>1, <1>2
<1>4. PICK d \in Bad : \A e \in Bad : d <= e
  BY <1>3, Least
<1>5. d \in Nat /\ d <= L /\ db[Prefix(str, d)] = None /\ d # 0
  BY <1>2
<1> DEFINE n == d - 1
           x == Prefix(str, n)
<1>6. n \in Nat /\ n < L /\ n <= L /\ n < d /\ n + 1 = d /\ n \in 0 .. L /\ d \in 1 .. L
  BY <1>1, <1>5
<1>7. db[x] # None
  <2> HIDE DEF n
  <2> QED
    BY <1>4, <1>6
<1>8. str[d] \in {0, 1}
  BY <1>1, <1>6
<1>9. x \in Label
  <2> HIDE DEF n
  <2> QED
    BY <1>6, PrefixString, LongerString, WidthType DEF Label
<1>10. Append(x, str[d]) = Prefix(str, d)
  <2> HIDE DEF n
  <2> QED
    BY <1>6, <1>8, PrefixAppend, WidthType
<1> HIDE DEF n, x
<1>11. db[x].is_leaf
  <2>1. db[x].is_leaf \in BOOLEAN
    BY <1>7, <1>9 DEF TypeInv, DbTyped, SoundNode, Node
  <2>2. ~db[x].is_leaf => db[Append(x, 0)] # None /\ db[Append(x, 1)] # None
    BY <1>7, <1>9 DEF TrieOf
  <2> QED
    BY <1>5, <1>8, <1>10, <2>1, <2>2
<1> QED
  BY <1>6, <1>7, <1>11 DEF x

\* What another client does leaves the database, and this client's variables,
\* as they are.
LEMMA OthersApart ==
    ASSUME OneInserter, FewClose, TypeInv, TrieInv, NEW c \in Client, Alone(c),
           NEW e \in Client, e # c, Begin(e) \/ Proceed(e) \/ Crash(e)
    PROVE  db' = db /\ pc'[c] = pc[c] /\ frame'[c] = frame[c] /\ out'[c] = out[c]
<1>1. out[e] = <<>>
  BY AloneTrie
<1>2. pc[e] # "write"
  BY <1>1 DEF TypeInv, Staged, Stage
<1>3. ASSUME NEW a, NEW f, Goto(e, a, f)
      PROVE  pc'[c] = pc[c] /\ frame'[c] = frame[c] /\ out'[c] = out[c]
  BY <1>3 DEF Goto, TypeInv, LocalsTyped
<1>4. ASSUME NEW o, NEW f, Writes(e, o, f)
      PROVE  pc'[c] = pc[c] /\ frame'[c] = frame[c] /\ out'[c] = out[c]
  BY <1>4 DEF Writes, TypeInv, LocalsTyped
<1>5. ASSUME NEW r, Return(e, r)
      PROVE  pc'[c] = pc[c] /\ frame'[c] = frame[c] /\ out'[c] = out[c]
  BY <1>5 DEF Return, TypeInv, LocalsTyped
<1>6. ASSUME NEW node, Found(e, node)
      PROVE  pc'[c] = pc[c] /\ frame'[c] = frame[c] /\ out'[c] = out[c]
  BY <1>3, <1>4, <1>5, <1>6 DEF Found
<1>7. ASSUME NEW node, NEW todo, NEW data, Traverse(e, node, todo, data)
      PROVE  pc'[c] = pc[c] /\ frame'[c] = frame[c] /\ out'[c] = out[c]
  BY <1>3, <1>5, <1>7 DEF Traverse
<1>8. CASE Begin(e)
  BY <1>8 DEF Begin, TypeInv, LocalsTyped
<1>9. CASE Crash(e)
  BY <1>9 DEF Crash
<1>10. CASE InitTrie(e)
  BY <1>4, <1>5, <1>10 DEF InitTrie, Read
<1>11. CASE LookupStart(e)
  BY <1>3, <1>7, <1>11 DEF LookupStart, Read
<1>12. CASE LookupBin(e)
  BY <1>3, <1>6, <1>12 DEF LookupBin, Read
<1>13. CASE LookupLin(e)
  BY <1>3, <1>6, <1>13 DEF LookupLin, Fatal, Read
<1>14. CASE Visit(e)
  BY <1>3, <1>7, <1>14 DEF Visit, Fatal, Read
<1>15. CASE Write(e)
  BY <1>2, <1>15 DEF Write, At
<1>16. CASE ReadSibling(e) \/ ReadParent(e) \/ ReadLeft(e) \/ ReadRight(e) \/ ReadCousin(e)
  BY <1>16 DEF ReadSibling, ReadParent, ReadLeft, ReadRight, ReadCousin, At, TrieInv
<1> QED
  BY <1>8, <1>9, <1>10, <1>11, <1>12, <1>13, <1>14, <1>15, <1>16 DEF Proceed

\* How a step of the client's own ends.
LEMMA SureReturn ==
    ASSUME TypeInv, NEW c \in Client, db' = db, db[<<>>] # None, NEW r, Return(c, r)
    PROVE  Sure(c)'
<1>1. pc'[c] = "idle" /\ out'[c] = <<>>
  BY DEF Return, TypeInv, LocalsTyped
<1>2. After(<<>>, db) = db
  BY AfterEmpty DEF TypeInv, DbTyped
<1>3. After(out'[c], db')[<<>>] # None
  BY <1>1, <1>2
<1> QED
  BY <1>1, <1>3 DEF Sure

\* A search that goes on, with an answer still ahead of it.
LEMMA SureGoto ==
    ASSUME TypeInv, NEW c \in Client, db' = db, db[<<>>] # None, out[c] = <<>>,
           NEW a, NEW f, Goto(c, a, f), a \in {"bin", "visit"},
           a = "bin" => \E n \in Nat : Ahead(f, n),
           a = "visit" => f.todo \in Seq(Filled)
    PROVE  Sure(c)'
<1>1. pc'[c] = a /\ frame'[c] = f /\ out'[c] = <<>>
  BY DEF Goto, TypeInv, LocalsTyped
<1>2. After(<<>>, db) = db
  BY AfterEmpty DEF TypeInv, DbTyped
<1>3. After(out'[c], db')[<<>>] # None
  BY <1>1, <1>2
<1>4. ASSUME a = "bin"
      PROVE  \E n \in Nat : Ahead(frame[c], n)'
  BY <1>1, <1>4 DEF Ahead
<1>5. Filled' = Filled
  BY DEF Filled
<1> QED
  BY <1>1, <1>3, <1>4, <1>5 DEF Sure

\* A client that starts to write over a trie that has a root.
LEMMA SureWrites ==
    ASSUME TypeInv, NEW c \in Client, db' = db, db[<<>>] # None,
           NEW o, NEW f, Writes(c, o, f), Len(o) \in Nat,
           \A i \in 1 .. Len(o) : o[i].node # None
    PROVE  Sure(c)'
<1>1. pc'[c] = "write" /\ out'[c] = o
  BY DEF Writes, TypeInv, LocalsTyped
<1>2. After(out'[c], db')[<<>>] # None
  BY <1>1, RootStays
<1> QED
  BY <1>1, <1>2 DEF Sure

\* The next write of a split: what it makes of the database has a root.
LEMMA SureWrite ==
    ASSUME OneInserter, TypeInv, TrieInv, NEW c \in Client, Sure(c), Write(c)
    PROVE  Sure(c)'
<1> DEFINE w == Head(out[c])
           rest == Tail(out[c])
<1>1. pc[c] = "write" /\ db' = [db EXCEPT ![w.at] = w.node]
  BY DEF Write, At
<1>2. out[c] # <<>> /\ out[c] \in Seq(SoundWrite) /\ ~frame[c].merge_on
  BY <1>1 DEF TypeInv, LocalsTyped, Staged, Stage, TrieInv
<1>3. db \in [Label \cup {Stray} -> SoundNode \cup {None}]
  BY DEF TypeInv, DbTyped
<1>4. After(rest, db') = After(out[c], db)
  BY <1>1, <1>2, <1>3, AfterTail
<1>5. /\ out'[c] = rest
      /\ pc'[c] = IF rest # <<>> THEN "write" ELSE "idle"
  BY <1>1, <1>2 DEF Write, Writes, Return, TypeInv, LocalsTyped
<1>6. After(out'[c], db')[<<>>] # None
  BY <1>1, <1>4, <1>5 DEF Sure
<1> QED
  BY <1>5, <1>6 DEF Sure

\* A call that begins is for a leaf that is there.
LEMMA SureBegin ==
    ASSUME OneInserter, FewClose, TypeInv, KeysApart, TrieInv,
           NEW c \in Client, Alone(c), Sure(c), Begin(c)
    PROVE  Sure(c)'
<1>1. pc[c] \in {"idle", "fatal"} /\ UNCHANGED <<db, out>>
  BY DEF Begin, At
<1>2. out[c] = <<>>
  BY <1>1 DEF TypeInv, Staged, Stage
<1>3. TrieOf(db) /\ Shallow(db) /\ After(out[c], db) = db
  BY <1>2, AloneTrie
<1>4. db[<<>>] # None /\ After(out'[c], db')[<<>>] # None
  BY <1>1, <1>3 DEF Sure
<1>5. PICK m \in Call :
          \/ /\ m.type # "range" /\ pc' = [pc EXCEPT ![c] = "bin"]
             /\ frame' = [frame EXCEPT ![c] =
                             [EmptyFrame EXCEPT !.str = m.key.integral, !.r = BIT_DOMAIN]]
          \/ pc' = [pc EXCEPT ![c] = "start"]
  BY DEF Begin
<1>6. CASE pc' = [pc EXCEPT ![c] = "start"]
  <2>1. pc'[c] = "start"
    BY <1>6 DEF TypeInv, LocalsTyped
  <2> QED
    BY <1>4, <2>1 DEF Sure
<1>7. CASE /\ m.type # "range" /\ pc' = [pc EXCEPT ![c] = "bin"]
           /\ frame' = [frame EXCEPT ![c] =
                           [EmptyFrame EXCEPT !.str = m.key.integral, !.r = BIT_DOMAIN]]
  <2> DEFINE str == m.key.integral
             f == [EmptyFrame EXCEPT !.str = str, !.r = BIT_DOMAIN]
  <2>1. m.key \in Key
    BY <1>7 DEF Call
  <2>2. str \in KeyString
    BY <2>1, ConstantsAssumption DEF KeyString
  <2>3. str \in BitStrings(BIT_DOMAIN) /\ Len(str) = BIT_DOMAIN
    BY <2>2, KeyStrings
  <2>4. str \in Label
    <3> HIDE DEF str
    <3> QED
      BY <2>3, LongerString, WidthType DEF Label
  <2>5. db[str] = None
    <3> HIDE DEF str
    <3> QED
      BY <1>3, <2>3, <2>4, WidthType DEF Shallow
  <2>6. f.str = str /\ f.p = 0 /\ f.r = BIT_DOMAIN
    BY DEF EmptyFrame
  <2>7. pc'[c] = "bin" /\ frame'[c] = f
    BY <1>7 DEF TypeInv, LocalsTyped
  <2> HIDE DEF f, str
  <2>8. PICK n \in Nat : /\ n < Len(str)
                         /\ db[Prefix(str, n)] # None /\ db[Prefix(str, n)].is_leaf
    BY <1>3, <1>4, <2>3, <2>5, LeafOnWay
  <2>9. Ahead(frame[c], n)'
    BY <1>1, <2>3, <2>6, <2>7, <2>8, WidthType DEF Ahead
  <2> QED
    BY <1>4, <2>7, <2>9 DEF Sure
<1> QED
  BY <1>5, <1>6, <1>7

\* The first step of a client that is alone.
LEMMA SureInit ==
    ASSUME OneInserter, FewClose, TypeInv, TrieInv,
           NEW c \in Client, Alone(c), InitTrie(c)
    PROVE  Sure(c)'
<1> DEFINE root == LeafNode(<<>>)
           o == <<Publish(root)>>
<1>1. pc[c] = "init" /\ db' = db
  BY DEF InitTrie, At, Read
<1>2. <<>> \in Label
  BY EmptyString, WidthType DEF Label
<1>3. CASE db[<<>>] # None /\ Return(c, None)
  BY <1>1, <1>3, SureReturn
<1>4. CASE Writes(c, o, EmptyFrame)
  <2>1. root # None
    BY <1>2, EmptyLeaf, DistinctAssumption DEF SoundNode
  <2>2. Len(o) = 1 /\ o[1].at = <<>> /\ o[1].node = root
    BY DEF Publish, Put, LeafNode
  <2> HIDE DEF root, o
  <2>3. After(o, db)[<<>>] = root
    <3>1. 1 \in 1 .. Len(o) /\ \A j \in 1 .. Len(o) : 1 < j => o[j].at # <<>>
      BY <2>2
    <3> QED
      BY <1>2, <2>2, <3>1, AfterLast
  <2>4. pc'[c] = "write" /\ out'[c] = o
    BY <1>4 DEF Writes, TypeInv, LocalsTyped
  <2>5. After(out'[c], db')[<<>>] # None
    BY <1>1, <2>1, <2>3, <2>4
  <2> QED
    BY <2>4, <2>5 DEF Sure
<1>5. <<>> # None
  BY <1>2, DistinctAssumption
<1> QED
  BY <1>3, <1>4, <1>5 DEF InitTrie, dht_lookup

\* A traversal goes on at nodes that are there.
LEMMA SureTraverse ==
    ASSUME TypeInv, TrieOf(db), Shallow(db), NEW c \in Client, out[c] = <<>>, db' = db,
           db[<<>>] # None, NEW y \in Label, NEW node, node = db[y], node # None,
           NEW todo \in Seq(Filled), NEW data, Traverse(c, node, todo, data)
    PROVE  Sure(c)'
<1> DEFINE q == call[c].query
           Below(label) == IF Visits(label, q) THEN <<label>> ELSE <<>>
           found == IF node.is_leaf THEN data \cup {k \in node.data : InRange(k, q)} ELSE data
           below == Below(Append(node.label, 0)) \o Below(Append(node.label, 1))
           rest == IF node.is_leaf THEN todo ELSE below \o todo
           f == [EmptyFrame EXCEPT !.todo = rest, !.data = found]
<1>1. \/ Return(c, found)
      \/ rest # <<>> /\ Goto(c, "visit", f)
  BY DEF Traverse
<1>2. f.todo = rest
  <2> HIDE DEF rest, found
  <2> QED
    BY DEF EmptyFrame
<1>3. node.label = y
  BY DEF TypeInv, DbTyped
<1>4. ASSUME ~node.is_leaf
      PROVE  below \in Seq(Filled)
  <2>1. Len(y) < BIT_DOMAIN /\ y \in BitStrings(BIT_DOMAIN + 1) /\ Len(y) \in Nat
    BY BitStringIsSeq, WidthType DEF Shallow, Label
  <2>2. y \in BitStrings(BIT_DOMAIN)
    BY <2>1, BitStringIsSeq, WidthType
  <2>3. \A b \in {0, 1} : Append(y, b) \in Label
    BY <2>2, AppendString, WidthType DEF Label
  <2>4. db[Append(y, 0)] # None /\ db[Append(y, 1)] # None
    BY <1>4 DEF TrieOf
  <2> DEFINE u == Append(node.label, 0)  v == Append(node.label, 1)
  <2>5. u \in Filled /\ v \in Filled
    BY <1>3, <2>3, <2>4 DEF Filled
  <2> HIDE DEF u, v
  <2>6. Below(u) \in Seq(Filled) /\ Below(v) \in Seq(Filled)
    BY <2>5
  <2> HIDE DEF Below
  <2>7. Below(u) \o Below(v) \in Seq(Filled)
    BY <2>6
  <2> QED
    BY <2>7 DEF u, v
<1> HIDE DEF below, found
<1>5. rest \in Seq(Filled)
  BY <1>4
<1> HIDE DEF rest, f
<1>6. CASE Return(c, found)
  BY <1>6, SureReturn
<1>7. CASE rest # <<>> /\ Goto(c, "visit", f)
  BY <1>2, <1>5, <1>7, SureGoto
<1> QED
  BY <1>1, <1>6, <1>7

\* A range query alone on the trie finds its start, or searches for it.
LEMMA SureStart ==
    ASSUME OneInserter, FewClose, TypeInv, TrieInv,
           NEW c \in Client, Alone(c), Sure(c), LookupStart(c)
    PROVE  Sure(c)'
<1> DEFINE f == frame[c]
           str == f.str
<1>1. pc[c] = "start" /\ db' = db
  BY DEF LookupStart, At, Read
<1>2. out[c] = <<>>
  BY <1>1 DEF TypeInv, Staged, Stage
<1>3. TrieOf(db) /\ Shallow(db) /\ db[<<>>] # None
  BY <1>1, <1>2, AloneTrie DEF Sure
<1>4. str \in BitStrings(BIT_DOMAIN) /\ f.p = 0 /\ f.r = BIT_DOMAIN /\ Len(str) < BIT_DOMAIN
  BY <1>1, FrameOf DEF Stage, Searches, Frame
<1>5. str \in Label /\ str # None
  <2> HIDE DEF str
  <2> QED
    BY <1>4, LongerString, WidthType, DistinctAssumption DEF Label
<1>6. \/ db[str] # None /\ Traverse(c, db[str], <<>>, {})
      \/ db[str] = None /\ Goto(c, "bin", f)
  BY <1>5 DEF LookupStart, dht_lookup
<1>7. CASE db[str] # None /\ Traverse(c, db[str], <<>>, {})
  <2>1. <<>> \in Seq(Filled)
    OBVIOUS
  <2> HIDE DEF str
  <2> QED
    BY <1>1, <1>2, <1>3, <1>5, <1>7, <2>1, SureTraverse
<1>8. CASE db[str] = None /\ Goto(c, "bin", f)
  <2>1. PICK n \in Nat : /\ n < Len(str)
                         /\ db[Prefix(str, n)] # None /\ db[Prefix(str, n)].is_leaf
    <3> HIDE DEF str
    <3> QED
      BY <1>3, <1>4, <1>8, LeafOnWay
  <2>2. Len(str) \in Nat
    <3> HIDE DEF str
    <3> QED
      BY <1>4, BitStringIsSeq, WidthType
  <2>3. Ahead(f, n)
    BY <1>4, <2>1, <2>2, WidthType DEF Ahead
  <2> HIDE DEF f
  <2> QED
    BY <1>1, <1>2, <1>3, <1>8, <2>3, SureGoto
<1> QED
  BY <1>6, <1>7, <1>8

\* A probe finds the leaf, or keeps it ahead.
LEMMA SureBin ==
    ASSUME OneInserter, FewClose, TypeInv, TypeInv', KeysApart, TrieInv, SizeInv,
           NEW c \in Client, Alone(c), Sure(c), LookupBin(c)
    PROVE  Sure(c)'
<1> DEFINE f == frame[c]
           q == (f.p + f.r - 1) \div 2
           x == Prefix(f.str, q)
           node == dht_lookup(x)
           next == Narrowed(f, q, node)
<1>1. pc[c] = "bin" /\ db' = db /\ call' = call
  BY DEF LookupBin, At, Read
<1>2. out[c] = <<>>
  BY <1>1 DEF TypeInv, Staged, Stage
<1>3. TrieOf(db) /\ Shallow(db) /\ db[<<>>] # None
  BY <1>1, <1>2, AloneTrie DEF Sure
<1>4. /\ f \in Frame /\ f.str \in BitStrings(BIT_DOMAIN) /\ f.p \in Nat /\ f.r \in Nat
      /\ f.p < f.r /\ f.r <= BIT_DOMAIN /\ Searches(call[c], f)
  BY <1>1, FrameOf DEF Stage, Frame
<1>5. q \in Nat /\ f.p <= q /\ q < f.r /\ q < BIT_DOMAIN
  BY <1>4, WidthType
<1>6. PICK n \in Nat : Ahead(f, n)
  BY <1>1 DEF Sure
<1>7. \/ IsLeaf(node) /\ Found(c, node)
      \/ /\ ~IsLeaf(node)
         /\ \/ Goto(c, "bin", next)
            \/ next.p >= next.r
  BY DEF LookupBin
<1> HIDE DEF q
<1>8. x \in Label
  <2> DEFINE str == f.str
  <2>1. str \in BitStrings(BIT_DOMAIN)
    BY <1>4
  <2> HIDE DEF str
  <2>2. Prefix(str, q) \in BitStrings(BIT_DOMAIN)
    BY <1>5, <2>1, PrefixString, WidthType
  <2> QED
    BY <2>2, LongerString, WidthType DEF Label, str
<1>9. node = db[x]
  <2> HIDE DEF x
  <2> QED
    BY <1>8, DistinctAssumption DEF dht_lookup
<1>10. /\ q < n => node # None /\ ~node.is_leaf
       /\ n < q => node = None
       /\ q = n => node # None /\ node.is_leaf
  <2> HIDE DEF f, node
  <2> QED
    BY <1>3, <1>4, <1>5, <1>6, <1>9, Probes DEF Ahead
<1>11. CASE IsLeaf(node) /\ Found(c, node)
  <2>1. Len(x) < BIT_DOMAIN /\ db[x] # None /\ db[x].is_leaf
    <3> HIDE DEF x
    <3> QED
      BY <1>3, <1>8, <1>9, <1>11 DEF IsLeaf, Shallow
  <2>2. Found(c, db[x])
    BY <1>9, <1>11
  <2>3. call[c] \in Call /\ call[c] # None
    BY <1>4, DistinctAssumption DEF Searches
  <2>4. CASE call[c].type = "insert"
    <3>1. x = Prefix(frame[c].str, q)
      OBVIOUS
    <3> HIDE DEF x, node
    <3>2. PICK o : /\ Writes(c, o, EmptyFrame)
                   /\ \A i \in 1 .. Len(o) : o[i].node # None
      BY <1>2, <1>4, <1>5, <1>8, <2>1, <2>2, <2>4, <3>1, FoundInserts
    <3>3. out'[c] = o /\ out'[c] \in Seq(SoundWrite)
      BY <3>2 DEF Writes, TypeInv, LocalsTyped
    <3>4. Len(o) \in Nat
      BY <3>3
    <3> QED
      BY <1>1, <1>3, <3>2, <3>4, SureWrites
  <2>5. CASE call[c].type = "range"
    <3>1. \E result : Return(c, result)
      BY <2>2, <2>5 DEF Found
    <3> QED
      BY <1>1, <1>3, <3>1, SureReturn
  <2>6. call[c].type # "delete"
    BY <2>3 DEF TrieInv, OneInserter, NoDeletes
  <2> QED
    BY <2>3, <2>4, <2>5, <2>6 DEF Call
<1>12. CASE ~IsLeaf(node)
  <2>1. q < n => node # None
    BY <1>10
  <2>2. q # n /\ (n < q => node = None)
    BY <1>10, <1>12 DEF IsLeaf
  <2> HIDE DEF x, node
  <2>3. f.p <= n /\ n < f.r /\ n < Len(f.str)
    BY <1>6 DEF Ahead
  <2>4. /\ next.str = f.str
        /\ next.p = IF node = None THEN f.p ELSE q + 1
        /\ next.r = IF node = None THEN q ELSE f.r
    BY <1>4 DEF Narrowed, Frame
  <2> HIDE DEF next, f
  <2>5. next.p <= n /\ n < next.r
    BY <1>4, <1>5, <2>1, <2>2, <2>3, <2>4
  <2>6. Ahead(next, n)
    BY <1>6, <2>4, <2>5 DEF Ahead
  <2>7. next.p \in Nat /\ next.r \in Nat
    BY <1>4, <1>5, <2>4
  <2>8. Goto(c, "bin", next)
    BY <1>7, <1>12, <2>5, <2>7
  <2> QED
    BY <1>1, <1>2, <1>3, <2>6, <2>8, SureGoto
<1> QED
  BY <1>7, <1>11, <1>12

\* A traversal alone on the trie finds every child a node points to.
LEMMA SureVisit ==
    ASSUME OneInserter, FewClose, TypeInv, TrieInv,
           NEW c \in Client, Alone(c), Sure(c), Visit(c)
    PROVE  Sure(c)'
<1> DEFINE f == frame[c]
           x == Head(f.todo)
           node == dht_lookup(x)
<1>1. pc[c] = "visit" /\ db' = db
  BY DEF Visit, At, Read
<1>2. out[c] = <<>>
  BY <1>1 DEF TypeInv, Staged, Stage
<1>3. TrieOf(db) /\ Shallow(db) /\ db[<<>>] # None
  BY <1>1, <1>2, AloneTrie DEF Sure
<1>4. f.todo # <<>> /\ f.todo \in Seq(Filled)
  BY <1>1, FrameOf DEF Stage, Sure
<1>5. x \in Filled /\ Tail(f.todo) \in Seq(Filled)
  <2> HIDE DEF f
  <2> QED
    BY <1>4
<1>6. \/ ~(node # None /\ (node.is_leaf \/ Len(node.label) < BIT_DOMAIN))
      \/ Traverse(c, node, Tail(f.todo), f.data)
  BY DEF Visit
<1> HIDE DEF f, x
<1>7. x \in Label /\ db[x] # None /\ node = db[x]
  BY <1>5, DistinctAssumption DEF Filled, dht_lookup
<1>8. Len(node.label) < BIT_DOMAIN
  BY <1>3, <1>7 DEF Shallow, TypeInv, DbTyped
<1>9. Traverse(c, db[x], Tail(f.todo), f.data)
  BY <1>6, <1>7, <1>8
<1> QED
  BY <1>1, <1>2, <1>3, <1>5, <1>7, <1>9, SureTraverse

\* SureInv is kept by every step.
LEMMA SureNext ==
    ASSUME OneInserter, FewClose, TypeInv, TypeInv', KeysApart, TrieInv, SizeInv, SureInv,
           [Next]_vars
    PROVE  SureInv'
<1> SUFFICES ASSUME NEW c \in Client, Alone(c) PROVE Sure(c)'
  BY DEF SureInv, Alone
<1>1. Sure(c)
  BY DEF SureInv
<1>2. ASSUME db' = db, pc'[c] = pc[c], frame'[c] = frame[c], out'[c] = out[c]
      PROVE  Sure(c)'
  BY <1>1, <1>2 DEF Sure, Ahead, Filled
<1>3. CASE UNCHANGED vars
  BY <1>2, <1>3 DEF vars
<1>4. ASSUME NEW e \in Client, e # c, Begin(e) \/ Proceed(e) \/ Crash(e)
      PROVE  Sure(c)'
  BY <1>2, <1>4, OthersApart
<1>5. CASE Begin(c)
  BY <1>1, <1>5, SureBegin
<1>6. CASE Crash(c)
  BY <1>2, <1>6 DEF Crash
<1>7. CASE Proceed(c)
  <2>1. pc[c] \notin {"lin", "sibling", "parent", "left", "right", "cousin"}
    BY <1>1 DEF Sure, TrieInv
  <2>2. \/ InitTrie(c) \/ LookupStart(c) \/ LookupBin(c) \/ Write(c) \/ Visit(c)
    BY <1>7, <2>1 DEF Proceed, LookupLin, ReadSibling, ReadParent, ReadLeft, ReadRight,
                      ReadCousin, At
  <2> QED
    BY <1>1, <2>2, SureInit, SureStart, SureBin, SureWrite, SureVisit
<1> QED
  BY <1>3, <1>4, <1>5, <1>6, <1>7 DEF Next

\* A client that alone inserts, where nobody deletes, never finds the trie
\* corrupted: a search needs no linear fallback and a traversal no node that is
\* missing, whoever else reads or stops.  (With deletions it may: README.md,
\* section 5.)
THEOREM NeverCorruptedCorrect == Spec => []NeverCorrupted
<1> DEFINE Hyp == NoDeletes /\ FewClose /\ (Rooted \/ \A c, d \in Client : c = d)
<1>1. FewClose <=> FewWithin(BIT_DOMAIN - 1)
  BY DEF FewClose, FewWithin
<1>2. CASE Hyp /\ OneInserter
  <2> DEFINE J == TypeInv /\ KeysApart /\ TrieInv /\ (FewClose => SizeInv)
  <2>1. Init => SureInv
    BY DEF Init, SureInv, Sure
  <2>2. J /\ J' /\ SureInv /\ [Next]_vars => SureInv'
    <3> SUFFICES ASSUME J, J', SureInv, [Next]_vars PROVE SureInv'
      OBVIOUS
    <3>1. TypeInv /\ KeysApart /\ TrieInv /\ SizeInv /\ TypeInv'
      BY <1>2
    <3> HIDE DEF J
    <3> QED
      BY <1>2, <3>1, SureNext
  <2>3. SureInv => NeverCorrupted
    BY <1>2 DEF SureInv, Sure, Alone, NeverCorrupted, NoDeletes
  <2>4. Spec => []J
    BY <1>2, TrieCorrect
  <2> HIDE DEF J
  <2> QED
    BY <2>1, <2>2, <2>3, <2>4, PTL DEF Spec
<1>3. CASE ~(Hyp /\ OneInserter)
  <2>1. NeverCorrupted
    <3> SUFFICES ASSUME Hyp, NEW c \in Client,
                        \A d \in Client \ {c} : "insert" \notin OpsOf[d]
                 PROVE  FALSE
      BY <1>1 DEF NeverCorrupted
    <3>1. \A d, e \in Client : "insert" \in OpsOf[d] /\ "insert" \in OpsOf[e] => d = e
      OBVIOUS
    <3> QED
      BY <1>3, <3>1 DEF OneInserter
  <2> QED
    BY <2>1, PTL
<1> QED
  BY <1>2, <1>3

-----------------------------------------------------------------------------
\* What is kept is found at every moment

\* No split is of more than one level: it writes two children and their parent.
OneLevel == \A c \in Client : Len(out[c]) <= 3

\* A search finds the key: every leaf of T on its way has it.
Spanned(T, k) ==
    \E n \in 0 .. BIT_DOMAIN - 1 : \E m \in n .. BIT_DOMAIN - 1 :
        /\ Span(T, k.integral, n, m)
        /\ \A q \in n .. m : k \in T[Prefix(k.integral, q)].data

\* The keys kept are found, and will be after each of the writes to come: after
\* the last one TrieInv has them.
LiveInv ==
    \A k \in kept :
        /\ Spanned(db, k)
        /\ \A c \in Client, i \in Nat : i \in 1 .. Len(out[c]) - 1 =>
               Spanned(After(SubSeq(out[c], 1, i), db), k)

\* A search finds a key that is spanned.
LEMMA SpannedFound ==
    ASSUME NEW k \in Key, Spanned(db, k)
    PROVE  Search(k.integral) # None /\ k \in Search(k.integral).data
<1>1. k.integral \in KeyString
  BY ConstantsAssumption DEF KeyString
<1>2. PICK n \in 0 .. BIT_DOMAIN - 1 : \E m \in n .. BIT_DOMAIN - 1 :
          /\ Span(db, k.integral, n, m)
          /\ \A q \in n .. m : k \in db[Prefix(k.integral, q)].data
  BY DEF Spanned
<1>3. PICK m \in n .. BIT_DOMAIN - 1 :
          /\ Span(db, k.integral, n, m)
          /\ \A q \in n .. m : k \in db[Prefix(k.integral, q)].data
  BY <1>2
<1>4. PICK q \in n .. m : BinSearch(k.integral) = db[Prefix(k.integral, q)]
  BY <1>1, <1>3, BinSearchFinds
<1>5. q \in 0 .. BIT_DOMAIN /\ n <= q /\ q <= m
  BY WidthType
<1>6. db[Prefix(k.integral, q)] # None /\ k \in db[Prefix(k.integral, q)].data
  BY <1>3, <1>5 DEF Span
<1> QED
  BY <1>4, <1>6 DEF Search

\* In a trie, a key that is in the leaf of its path is spanned.
LEMMA LocatedSpanned ==
    ASSUME NEW T, TrieOf(T), NEW k \in Key, Located(T, k)
    PROVE  Spanned(T, k)
<1>1. k.integral \in KeyString
  BY ConstantsAssumption DEF KeyString
<1>2. PICK n \in 0 .. BIT_DOMAIN - 1 :
          LET node == T[Prefix(k.integral, n)]
          IN  node # None /\ node.is_leaf /\ k \in node.data
  BY DEF Located
<1>3. Span(T, k.integral, n, n)
  BY <1>1, <1>2, TrieSpan
<1>4. n \in n .. BIT_DOMAIN - 1 /\ \A q \in n .. n : q = n
  BY WidthType
<1> QED
  BY <1>2, <1>3, <1>4 DEF Spanned

\* While the children of a leaf are there and it has not yet become their parent,
\* a search finds a pair in the leaf or in the child that has it.
LEMMA SplitSpans ==
    ASSUME NEW leaf, NEW pairs, Splits(leaf, pairs),
           NEW T, TrieOf(T), T[leaf.label] # None, T[leaf.label].is_leaf,
           T[leaf.label].data \subseteq pairs,
           Len(_do_split_insert(leaf, pairs)) <= 3, Len(Lcp(pairs)) < BIT_DOMAIN - 1,
           NEW i \in 1 .. Len(_do_split_insert(leaf, pairs)) - 1,
           NEW k \in Key, Located(T, k)
    PROVE  Spanned(After(SubSeq(_do_split_insert(leaf, pairs), 1, i), T), k)
<1> DEFINE x == leaf.label
           a == Len(x)
           w == _do_split_insert(leaf, pairs)
           o == SubSeq(w, 1, i)
           U == After(o, T)
           s == k.integral
           at(bit) == KidLabel(pairs, a, bit)
           kid(bit) == SplitKid(leaf, pairs, a, bit)
<1> SUFFICES Spanned(U, k)
  OBVIOUS
<1>1. /\ a \in Nat /\ Len(Lcp(pairs)) = a /\ Len(w) = 3
      /\ w[1].at = at(0) /\ w[1].node = kid(0) /\ w[2].at = at(1) /\ w[2].node = kid(1)
  <2> DEFINE L == Len(Lcp(pairs))
  <2>0. Len(w) <= 3
    OBVIOUS
  <2>1. /\ a \in Nat /\ L \in Nat /\ a <= L /\ L <= BIT_DOMAIN
        /\ Len(w) = 3 * (L - a + 1)
        /\ \A d \in a .. L :
               /\ w[3 * (d - a) + 1].at = KidLabel(pairs, d, 0)
               /\ w[3 * (d - a) + 2].at = KidLabel(pairs, d, 1)
               /\ w[3 * (d - a) + 3].at = Prefix(Lcp(pairs), d)
               /\ w[3 * (d - a) + 1].node = SplitKid(leaf, pairs, d, 0)
               /\ w[3 * (d - a) + 2].node = SplitKid(leaf, pairs, d, 1)
               /\ w[3 * (d - a) + 3].node = InternalNode(Prefix(Lcp(pairs), d))
        /\ \A j \in 1 .. Len(w) : \E d \in a .. L :
               j = 3 * (d - a) + 1 \/ j = 3 * (d - a) + 2 \/ j = 3 * (d - a) + 3
    BY SplitAt
  <2> HIDE DEF w, L, a
  <2>2. L = a /\ Len(w) = 3 /\ a \in a .. L /\ 3 * (a - a) + 1 = 1 /\ 3 * (a - a) + 2 = 2
    BY <2>0, <2>1
  <2>3. /\ w[3 * (a - a) + 1].at = KidLabel(pairs, a, 0)
        /\ w[3 * (a - a) + 2].at = KidLabel(pairs, a, 1)
        /\ w[3 * (a - a) + 1].node = SplitKid(leaf, pairs, a, 0)
        /\ w[3 * (a - a) + 2].node = SplitKid(leaf, pairs, a, 1)
    BY <2>1, <2>2
  <2> QED
    BY <2>1, <2>2, <2>3 DEF L
<1>2. a \in a .. Len(Lcp(pairs))
  <2> HIDE DEF a
  <2> QED
    BY <1>1
<1>3. \A bit \in {0, 1} : /\ at(bit) \in Label /\ Len(at(bit)) = a + 1 /\ at(bit)[a + 1] = bit
                          /\ Prefix(at(bit), a) = x
  BY <1>2, SplitLabels
<1>4. \A bit \in {0, 1} : /\ kid(bit) # None /\ kid(bit).is_leaf
                          /\ kid(bit).data = {l \in pairs : Goes(l, a, bit)}
  <2>1. ASSUME NEW bit \in {0, 1}
        PROVE  kid(bit) \in SoundNode /\ kid(bit).is_leaf /\ kid(bit).data = KidData(pairs, a, bit)
    BY <1>2, SplitKidProps
  <2>2. \A bit \in {0, 1} : KidData(pairs, a, bit) = {l \in pairs : Goes(l, a, bit)}
    BY <1>1 DEF KidData
  <2> HIDE DEF kid, a
  <2> QED
    BY <2>1, <2>2, DistinctAssumption DEF SoundNode
<1>5. /\ i \in 1 .. 2 /\ Len(o) = i /\ o[1] = w[1] /\ (i = 2 => o[2] = w[2])
  <2>1. w \in Seq(SoundWrite)
    BY SplitWritesSound
  <2> HIDE DEF w
  <2>2. i \in 1 .. 2
    BY <1>1 DEF w
  <2> QED
    BY <1>1, <2>1, <2>2
<1>6. ASSUME NEW y \in Label
      PROVE  U[y] = T[y] \/ \E bit \in {0, 1} : y = at(bit) /\ U[y] = kid(bit)
  <2>0. at(0) # at(1)
    BY <1>3
  <2> HIDE DEF o, at, kid, w, a
  <2>1. y \in Label \cup {Stray} /\ Len(o) \in Nat /\ 1 \in 1 .. Len(o)
    BY <1>5
  <2>2. CASE y = at(0)
    <3>1. o[1].at = y /\ \A j \in 1 .. Len(o) : 1 < j => o[j].at # y
      BY <1>1, <1>5, <2>0, <2>2
    <3>2. After(o, T)[y] = o[1].node
      BY <2>1, <3>1, AfterLast
    <3> QED
      BY <1>1, <1>5, <2>2, <3>2
  <2>3. CASE y = at(1) /\ i = 2
    <3>1. 2 \in 1 .. Len(o) /\ o[2].at = y /\ \A j \in 1 .. Len(o) : 2 < j => o[j].at # y
      BY <1>1, <1>5, <2>3
    <3>2. After(o, T)[y] = o[2].node
      BY <2>1, <3>1, AfterLast
    <3> QED
      BY <1>1, <1>5, <2>3, <3>2
  <2>4. CASE y # at(0) /\ ~(y = at(1) /\ i = 2)
    <3>1. \A j \in 1 .. Len(o) : o[j].at # y
      BY <1>1, <1>5, <2>4
    <3> QED
      BY <2>1, <3>1, AfterNone
  <2> QED
    BY <2>2, <2>3, <2>4
<1> HIDE DEF U, o, w
<1>7. s \in KeyString /\ s \in BitStrings(BIT_DOMAIN) /\ Len(s) = BIT_DOMAIN /\ BIT_DOMAIN \in Nat
  BY KeyStrings, ConstantsAssumption, WidthType DEF KeyString
<1>8. PICK n \in 0 .. BIT_DOMAIN - 1 :
          LET node == T[Prefix(s, n)]
          IN  node # None /\ node.is_leaf /\ k \in node.data
  BY DEF Located
<1> HIDE DEF s
<1>9. Span(T, s, n, n)
  BY <1>7, <1>8, TrieSpan
<1>10. ASSUME NEW q \in 0 .. BIT_DOMAIN
       PROVE  /\ Prefix(s, q) \in Label /\ Len(Prefix(s, q)) = q
              /\ \A j \in 1 .. q : Prefix(s, q)[j] = s[j]
              /\ q < n => T[Prefix(s, q)] # None /\ ~T[Prefix(s, q)].is_leaf
              /\ n < q => T[Prefix(s, q)] = None
  <2>1. q \in Nat /\ q <= Len(s)
    BY <1>7
  <2>2. /\ Prefix(s, q) \in BitStrings(BIT_DOMAIN) /\ Len(Prefix(s, q)) = q
        /\ \A j \in 1 .. q : Prefix(s, q)[j] = s[j]
    BY <1>7, <2>1, PrefixString
  <2>3. Prefix(s, q) \in Label
    BY <2>2, LongerString, WidthType DEF Label
  <2> QED
    BY <1>9, <2>2, <2>3 DEF Span
<1>11. n \in Nat /\ n \in 0 .. BIT_DOMAIN /\ n \in n .. BIT_DOMAIN - 1 /\ \A q \in n .. n : q = n
  BY <1>7
<1>12. CASE Prefix(s, n) # x
  <2>1. ASSUME NEW q \in 0 .. BIT_DOMAIN
        PROVE  U[Prefix(s, q)] = T[Prefix(s, q)]
    <3> SUFFICES ASSUME NEW bit \in {0, 1}, Prefix(s, q) = at(bit) PROVE FALSE
      BY <1>6, <1>10
    <3> HIDE DEF at
    <3>1. q = a + 1
      BY <1>3, <1>10
    <3> HIDE DEF a, x
    <3>2. a \in 0 .. q /\ a \in 0 .. BIT_DOMAIN /\ q \in 0 .. Len(s)
      BY <1>1, <1>7, <3>1
    <3>3. Prefix(Prefix(s, q), a) = Prefix(s, a)
      BY <1>7, <3>2, PrefixPrefix
    <3>4. Prefix(s, a) = x
      BY <1>3, <3>3
    <3>5. T[Prefix(s, a)] # None /\ T[Prefix(s, a)].is_leaf
      BY <3>4 DEF x
    <3>6. a = n
      BY <1>1, <1>10, <1>11, <3>2, <3>5
    <3> QED
      BY <1>12, <3>4, <3>6
  <2>2. Span(U, s, n, n)
    BY <1>9, <2>1 DEF Span
  <2>3. \A q \in n .. n : k \in U[Prefix(s, q)].data
    BY <1>8, <1>11, <2>1
  <2> QED
    BY <1>11, <2>2, <2>3 DEF Spanned, s
<1>13. CASE Prefix(s, n) = x
  <2>1. a = n
    BY <1>10, <1>11, <1>13
  <2>2. k \in pairs
    BY <1>8, <1>13
  <2> HIDE DEF at, kid, a, x
  <2>3. n + 1 \in 0 .. BIT_DOMAIN /\ n + 1 \in n .. BIT_DOMAIN - 1
    BY <1>1, <1>7, <1>11, <2>1
  <2>4. ASSUME NEW q \in 0 .. BIT_DOMAIN, q # n + 1
        PROVE  U[Prefix(s, q)] = T[Prefix(s, q)]
    BY <1>3, <1>6, <1>10, <2>1, <2>4
  <2> DEFINE y == Prefix(s, n + 1)
  <2>5. \/ U[y] = None
        \/ U[y] # None /\ U[y].is_leaf /\ k \in U[y].data
    <3>1. T[y] = None /\ y \in Label /\ y[n + 1] = s[n + 1]
      BY <1>10, <1>11, <2>3
    <3> HIDE DEF y
    <3>2. CASE U[y] = T[y]
      BY <3>1, <3>2
    <3>3. ASSUME NEW bit \in {0, 1}, y = at(bit), U[y] = kid(bit)
          PROVE  U[y] # None /\ U[y].is_leaf /\ k \in U[y].data
      <4>1. s[n + 1] = bit
        BY <1>3, <2>1, <3>1, <3>3
      <4>2. a < Len(s)
        BY <1>7, <1>11, <2>1
      <4>3. Goes(k, a, bit)
        BY <2>1, <4>1, <4>2 DEF Goes, s
      <4> QED
        BY <1>4, <2>2, <3>3, <4>3
    <3> QED
      BY <1>6, <3>1, <3>2, <3>3
  <2>6. CASE U[y] = None
    <3>1. Span(U, s, n, n)
      <4> SUFFICES ASSUME NEW q \in 0 .. BIT_DOMAIN
                   PROVE  /\ q < n => U[Prefix(s, q)] # None /\ ~U[Prefix(s, q)].is_leaf
                          /\ n <= q /\ q <= n => U[Prefix(s, q)] # None /\ U[Prefix(s, q)].is_leaf
                          /\ n < q => U[Prefix(s, q)] = None
        BY DEF Span
      <4>1. CASE q = n + 1
        BY <1>11, <2>6, <4>1
      <4>2. CASE q # n + 1
        BY <1>8, <1>10, <1>11, <2>4, <4>2
      <4> QED
        BY <4>1, <4>2
    <3>2. \A q \in n .. n : k \in U[Prefix(s, q)].data
      <4>1. n # n + 1
        BY <1>11
      <4> QED
        BY <1>8, <1>11, <2>4, <4>1
    <3> QED
      BY <1>11, <3>1, <3>2 DEF Spanned, s
  <2>7. CASE U[y] # None /\ U[y].is_leaf /\ k \in U[y].data
    <3>0. n # n + 1 /\ \A q \in n .. n + 1 : q = n \/ q = n + 1
      BY <1>11
    <3>1. Span(U, s, n, n + 1)
      <4> SUFFICES ASSUME NEW q \in 0 .. BIT_DOMAIN
                   PROVE  /\ q < n => U[Prefix(s, q)] # None /\ ~U[Prefix(s, q)].is_leaf
                          /\ n <= q /\ q <= n + 1 => U[Prefix(s, q)] # None /\ U[Prefix(s, q)].is_leaf
                          /\ n + 1 < q => U[Prefix(s, q)] = None
        BY DEF Span
      <4>1. CASE q = n + 1
        BY <1>11, <2>7, <4>1
      <4>2. CASE q # n + 1
        BY <1>8, <1>10, <1>11, <2>4, <4>2
      <4> QED
        BY <4>1, <4>2
    <3>2. \A q \in n .. n + 1 : k \in U[Prefix(s, q)].data
      BY <1>8, <1>11, <2>4, <2>7, <3>0
    <3> QED
      BY <2>3, <3>1, <3>2 DEF Spanned, s
  <2> QED
    BY <2>5, <2>6, <2>7
<1> QED
  BY <1>12, <1>13

\* Nothing to write changes, and no key is newly kept.
LEMMA LiveSame ==
    ASSUME LiveInv, UNCHANGED <<db, out>>, kept' \subseteq kept
    PROVE  LiveInv'
<1> SUFFICES ASSUME NEW k \in kept
             PROVE  /\ Spanned(db, k)'
                    /\ \A c \in Client, i \in Nat : i \in 1 .. Len(out'[c]) - 1 =>
                           Spanned(After(SubSeq(out'[c], 1, i), db'), k)
  BY DEF LiveInv
<1>1. Spanned(db, k)
  BY DEF LiveInv
<1>2. \A c \in Client, i \in Nat : i \in 1 .. Len(out[c]) - 1 =>
          Spanned(After(SubSeq(out[c], 1, i), db), k)
  BY DEF LiveInv
<1>3. Spanned(db, k)' <=> Spanned(db, k)
  BY DEF Spanned, Span
<1> QED
  BY <1>1, <1>2, <1>3

\* A client that has nothing to write, and inserts nothing, returns or goes on.
LEMMA LiveReturn ==
    ASSUME TypeInv, LiveInv, NEW c \in Client, out[c] = <<>>, Inserted(c) = {}, db' = db,
           NEW result, Return(c, result)
    PROVE  LiveInv'
<1>1. out' = out
  BY DEF Return, TypeInv, LocalsTyped
<1>2. kept' = kept
  <2>1. ~(call[c] # None /\ call[c].type = "insert")
    BY DEF Inserted
  <2> QED
    BY <2>1 DEF Return
<1> QED
  BY <1>1, <1>2, LiveSame

\* A client that goes on reading.
LEMMA LiveGoto ==
    ASSUME LiveInv, NEW c \in Client, db' = db, NEW a, NEW f, Goto(c, a, f)
    PROVE  LiveInv'
BY LiveSame DEF Goto

\* A client that starts to write.
LEMMA LiveWrites ==
    ASSUME TypeInv, LiveInv, NEW c \in Client, db' = db, NEW o, NEW f, Writes(c, o, f),
           \A k \in kept, i \in Nat : i \in 1 .. Len(o) - 1 =>
               Spanned(After(SubSeq(o, 1, i), db), k)
    PROVE  LiveInv'
<1>1. kept' = kept /\ \A e \in Client : out'[e] = IF e = c THEN o ELSE out[e]
  BY DEF Writes, TypeInv, LocalsTyped
<1> SUFFICES ASSUME NEW k \in kept
             PROVE  /\ Spanned(db, k)'
                    /\ \A e \in Client, i \in Nat : i \in 1 .. Len(out'[e]) - 1 =>
                           Spanned(After(SubSeq(out'[e], 1, i), db'), k)
  BY <1>1 DEF LiveInv
<1>2. Spanned(db, k)'
  <2>1. Spanned(db, k)
    BY DEF LiveInv
  <2> QED
    BY <2>1 DEF Spanned, Span
<1>3. ASSUME NEW e \in Client, NEW i \in Nat, i \in 1 .. Len(out'[e]) - 1
      PROVE  Spanned(After(SubSeq(out'[e], 1, i), db'), k)
  <2>1. CASE e = c
    BY <1>1, <1>3, <2>1
  <2>2. CASE e # c
    <3>1. out'[e] = out[e]
      BY <1>1, <2>2
    <3>2. Spanned(After(SubSeq(out[e], 1, i), db), k)
      BY <1>3, <3>1 DEF LiveInv
    <3> QED
      BY <3>1, <3>2
  <2> QED
    BY <2>1, <2>2
<1> QED
  BY <1>2, <1>3

\* The insertion at a leaf: no key is lost while the leaf is split.
LEMMA LiveFound ==
    ASSUME OneInserter, FewClose, TypeInv, KeysApart, TrieInv, SizeInv, LiveInv, OneLevel',
           NEW c \in Client, Searches(call[c], frame[c]), call[c].type = "insert",
           out[c] = <<>>, NEW x \in Label, db[x] # None, db[x].is_leaf,
           NEW n \in Nat, x = Prefix(frame[c].str, n), Len(x) < BIT_DOMAIN, Found(c, db[x]),
           db' = db
    PROVE  LiveInv'
<1> DEFINE node == db[x]
           key == call[c].key
           pairs == node.data \cup {key}
           new == [node EXCEPT !.data = @ \cup {key}]
           o == _do_split_insert(node, pairs)
<1>1. call[c] \in Call /\ call[c] # None
  BY DistinctAssumption DEF Searches
<1>2. TrieOf(db) /\ Holds(db, kept)
  <2>1. Writer(c)
    BY <1>1 DEF TrieInv, Writer
  <2>2. AllWritten
    BY <2>1, OneWriter DEF AllWritten
  <2> QED
    BY <2>2 DEF TrieInv
<1>3. node \in SoundNode /\ node.label = x
  BY DEF TypeInv, DbTyped
<1>4. key \in Key /\ frame[c].str = key.integral
  BY <1>1 DEF Searches, Call
<1>5. Splits(node, pairs)
  <2>1. key.integral \in KeyString
    BY <1>4, ConstantsAssumption DEF KeyString
  <2>2. Under(key.integral, node.label)
    BY <1>3, <1>4, <2>1, UnderPrefix
  <2> HIDE DEF node
  <2> QED
    BY <1>3, <1>4, <2>2, NodeFacts DEF Splits
<1>6. \/ Writes(c, <<Publish(new)>>, EmptyFrame)
      \/ /\ key \notin node.data /\ ~(Cardinality(node.data) < B)
         /\ Writes(c, o, EmptyFrame)
  BY DEF Found, Fits, size
<1>7. node.data \subseteq pairs /\ key \in pairs /\ node # None /\ node.is_leaf
  OBVIOUS
<1>8. db[node.label] = node /\ NodeFits(node)
  BY <1>3 DEF SizeInv
<1> HIDE DEF new, node
<1>9. CASE Writes(c, <<Publish(new)>>, EmptyFrame)
  <2>1. \A i \in Nat : i \notin 1 .. Len(<<Publish(new)>>) - 1
    OBVIOUS
  <2> QED
    BY <1>9, <2>1, LiveWrites
<1>10. CASE /\ key \notin node.data /\ ~(Cardinality(node.data) < B)
            /\ Writes(c, o, EmptyFrame)
  <2>1. Len(o) <= 3
    <3>1. out'[c] = o
      BY <1>10 DEF Writes, TypeInv, LocalsTyped
    <3> QED
      BY <3>1 DEF OneLevel
  <2>2. Len(Lcp(pairs)) < BIT_DOMAIN - 1
    <3>1. IsFiniteSet(node.data) /\ Cardinality(node.data) <= B /\ Cardinality(node.data) \in Nat
      BY <1>7, <1>8, FS_CardinalityType DEF NodeFits
    <3>2. Cardinality(node.data) = B
      BY <1>10, <3>1, WidthType
    <3>3. IsFiniteSet(pairs) /\ Cardinality(pairs) = B + 1
      BY <1>10, <3>1, <3>2, FS_AddElement
    <3> HIDE DEF pairs
    <3> QED
      BY <1>5, <3>3, ShortPrefix
  <2> HIDE DEF pairs
  <2>3. ASSUME NEW k \in kept, NEW i \in Nat, i \in 1 .. Len(o) - 1
        PROVE  Spanned(After(SubSeq(o, 1, i), db), k)
    <3>1. k \in Key /\ Located(db, k)
      BY <1>2 DEF KeysApart, Holds
    <3>2. i \in 1 .. Len(_do_split_insert(node, pairs)) - 1
      BY <2>3
    <3> QED
      BY <1>2, <1>5, <1>7, <1>8, <2>1, <2>2, <3>1, <3>2, SplitSpans
  <2> HIDE DEF o
  <2> QED
    BY <1>10, <2>3, LiveWrites
<1> QED
  BY <1>6, <1>9, <1>10

\* A write is done: the ones left were spanned already, the last leaves a trie.
LEMMA LiveWrite ==
    ASSUME OneInserter, FewClose, TypeInv, KeysApart, KeysApart', TrieInv, LiveInv,
           NEW c \in Client, Write(c)
    PROVE  LiveInv'
<1> DEFINE o == out[c]
           w == Head(o)
           rest == Tail(o)
<1>1. o \in Seq(SoundWrite) /\ o # <<>>
  BY FrameOf DEF Write, At, Stage
<1>2. /\ w \in SoundWrite /\ Len(o) \in Nat /\ rest \in Seq(SoundWrite)
      /\ Len(rest) = Len(o) - 1 /\ Len(o) >= 1
  BY <1>1
<1>3. /\ ~frame[c].merge_on /\ Writer(c)
      /\ TrieOf(After(o, db)) /\ Holds(After(o, db), kept \cup Inserted(c))
  <2>1. pc[c] = "write"
    BY DEF Write, At
  <2> QED
    BY <1>1, <2>1 DEF TrieInv
<1>4. db' = [db EXCEPT ![w.at] = w.node]
  BY DEF Write
<1>5. \/ rest # <<>> /\ Writes(c, rest, frame[c])
      \/ rest = <<>> /\ Return(c, None)
  BY <1>3 DEF Write
<1>6. db \in [Label \cup {Stray} -> SoundNode \cup {None}]
  BY DEF TypeInv, DbTyped
<1>7. db' \in [Label \cup {Stray} -> SoundNode \cup {None}]
  BY <1>2, <1>4, <1>6 DEF SoundWrite
<1> HIDE DEF o, w, rest
<1>8. \A e \in Client : out'[e] = IF e = c THEN rest ELSE <<>>
  <2>1. \A e \in Client : e # c => out[e] = <<>>
    BY <1>3, OneWriter
  <2>2. out' = [out EXCEPT ![c] = rest]
    BY <1>5 DEF Writes, Return
  <2> QED
    BY <2>1, <2>2 DEF TypeInv, LocalsTyped
<1>9. kept' \subseteq Key
  BY DEF KeysApart
<1>10. kept' = IF rest = <<>> THEN kept \cup Inserted(c) ELSE kept
  BY <1>5 DEF Writes, Return, Inserted
<1> SUFFICES ASSUME NEW k \in kept'
             PROVE  /\ Spanned(db', k)
                    /\ \A e \in Client, i \in Nat : i \in 1 .. Len(out'[e]) - 1 =>
                           Spanned(After(SubSeq(out'[e], 1, i), db'), k)
  BY DEF LiveInv
<1>11. Spanned(db', k)
  <2>1. CASE rest = <<>>
    <3>1. After(o, db) = db'
      <4>1. After(rest, db') = After(o, db)
        BY <1>1, <1>4, <1>6, AfterTail DEF w, rest
      <4> QED
        BY <1>7, <2>1, <4>1, AfterEmpty
    <3>2. Located(After(o, db), k)
      BY <1>3, <1>10, <2>1 DEF Holds
    <3> QED
      BY <1>3, <1>9, <3>1, <3>2, LocatedSpanned
  <2>2. CASE rest # <<>>
    <3>1. 1 \in Nat /\ 1 \in 1 .. Len(o) - 1
      BY <1>2, <2>2
    <3>2. k \in kept
      BY <1>10, <2>2
    <3>3. Spanned(After(SubSeq(o, 1, 1), db), k)
      BY <3>1, <3>2 DEF LiveInv, o
    <3> DEFINE p == SubSeq(o, 1, 1)
    <3>4. p \in Seq(SoundWrite) /\ p # <<>> /\ Head(p) = w /\ Tail(p) = <<>>
      BY <1>1, <1>2 DEF w
    <3> HIDE DEF p
    <3>5. After(Tail(p), db') = After(p, db)
      BY <1>4, <1>6, <3>4, AfterTail
    <3>6. After(Tail(p), db') = db'
      BY <1>7, <3>4, AfterEmpty
    <3> QED
      BY <3>3, <3>5, <3>6 DEF p
  <2> QED
    BY <2>1, <2>2
<1>12. ASSUME NEW e \in Client, NEW i \in Nat, i \in 1 .. Len(out'[e]) - 1
       PROVE  Spanned(After(SubSeq(out'[e], 1, i), db'), k)
  <2>1. e = c /\ out'[e] = rest
    BY <1>8, <1>12
  <2>2. i \in 1 .. Len(rest) - 1 /\ rest # <<>>
    BY <1>2, <1>12, <2>1
  <2>3. i + 1 \in Nat /\ i + 1 \in 1 .. Len(o) - 1
    BY <1>2, <2>2
  <2>4. k \in kept
    BY <1>10, <2>2
  <2>5. Spanned(After(SubSeq(o, 1, i + 1), db), k)
    BY <2>3, <2>4 DEF LiveInv, o
  <2> DEFINE p == SubSeq(o, 1, i + 1)
  <2>6. p \in Seq(SoundWrite) /\ p # <<>> /\ Head(p) = w /\ Tail(p) = SubSeq(rest, 1, i)
    BY <1>1, <1>2, <2>2, <2>3 DEF w, rest
  <2> HIDE DEF p
  <2>7. After(Tail(p), db') = After(p, db)
    BY <1>4, <1>6, <2>6, AfterTail
  <2> QED
    BY <2>1, <2>5, <2>6, <2>7 DEF p
<1> QED
  BY <1>11, <1>12

\* LiveInv is kept by the steps of a search: a split of one level spans throughout.
LEMMA LiveSearch ==
    ASSUME OneInserter, FewClose, TypeInv, KeysApart, TrieInv, SizeInv, LiveInv, OneLevel',
           NEW c \in Client, LookupStart(c) \/ LookupBin(c) \/ LookupLin(c) \/ Visit(c)
    PROVE  LiveInv'
<1>1. UNCHANGED <<db, call>> /\ out[c] = <<>> /\ SearchStep(c)
  BY SearchSteps
<1>2. ASSUME NEW x \in Label, NEW n \in Nat, Inserting(c, x, n)
      PROVE  LiveInv'
  BY <1>1, <1>2, LiveFound DEF Inserting
<1> QED
  BY <1>1, <1>2, LiveGoto, LiveReturn DEF SearchStep

\* LiveInv is kept by every step.
LEMMA LiveNext ==
    ASSUME OneInserter, FewClose, TypeInv, KeysApart, KeysApart', TrieInv, SizeInv, LiveInv,
           OneLevel', [Next]_vars
    PROVE  LiveInv'
<1>1. CASE UNCHANGED vars
  BY <1>1, LiveSame DEF vars
<1>2. ASSUME NEW c \in Client, Begin(c)
      PROVE  LiveInv'
  BY <1>2, LiveSame DEF Begin, OneInserter, NoDeletes
<1>3. ASSUME NEW c \in Client, Crash(c)
      PROVE  LiveInv'
  BY <1>3, LiveSame DEF Crash
<1>4. ASSUME NEW c \in Client, InitTrie(c)
      PROVE  LiveInv'
  <2>1. pc[c] = "init" /\ db' = db
    BY <1>4 DEF InitTrie, At, Read
  <2>2. Inserted(c) = {} /\ out[c] = <<>>
    BY <2>1 DEF KeysApart, Inserted, TypeInv, Staged, Stage
  <2>3. \A i \in Nat : i \notin 1 .. Len(<<Publish(LeafNode(<<>>))>>) - 1
    OBVIOUS
  <2>4. CASE Return(c, None)
    BY <2>1, <2>2, <2>4, LiveReturn
  <2>5. CASE Writes(c, <<Publish(LeafNode(<<>>))>>, EmptyFrame)
    BY <2>1, <2>3, <2>5, LiveWrites
  <2> QED
    BY <1>4, <2>4, <2>5 DEF InitTrie
<1>5. ASSUME NEW c \in Client,
             ReadSibling(c) \/ ReadParent(c) \/ ReadLeft(c) \/ ReadRight(c) \/ ReadCousin(c)
      PROVE  LiveInv'
  BY <1>5 DEF ReadSibling, ReadParent, ReadLeft, ReadRight, ReadCousin, At, TrieInv
<1> QED
  BY <1>1, <1>2, <1>3, <1>4, <1>5, LiveWrite, LiveSearch DEF Next, Proceed

\* In every behaviour in which no split goes on for a second level, every key
\* that one client inserted is found at every moment: between the writes of a
\* split, while others search and query, and after the client stopped in the
\* middle of one.  (A split of several levels has pairs in no leaf a search
\* finds until its last writes.)
THEOREM NeverLostCorrect ==
    ASSUME OneInserter, FewClose
    PROVE  Spec /\ []OneLevel => []NeverLost
<1> DEFINE J == TypeInv /\ KeysApart /\ TrieInv /\ (FewClose => SizeInv)
<1>1. Init => LiveInv
  BY DEF Init, LiveInv
<1>2. J /\ J' /\ OneLevel' /\ LiveInv /\ [Next]_vars => LiveInv'
  <2> SUFFICES ASSUME J, J', OneLevel', LiveInv, [Next]_vars PROVE LiveInv'
    OBVIOUS
  <2>1. TypeInv /\ KeysApart /\ TrieInv /\ SizeInv /\ KeysApart'
    OBVIOUS
  <2> HIDE DEF J
  <2> QED
    BY <2>1, LiveNext
<1>3. J /\ LiveInv => NeverLost
  <2> SUFFICES ASSUME J, LiveInv, NEW k \in kept
               PROVE  Search(k.integral) # None /\ k \in Search(k.integral).data
    BY DEF NeverLost
  <2>1. k \in Key /\ Spanned(db, k)
    BY DEF KeysApart, LiveInv
  <2> QED
    BY <2>1, SpannedFound
<1>4. Spec => []J
  BY TrieCorrect
<1> HIDE DEF J
<1> QED
  BY <1>1, <1>2, <1>3, <1>4, PTL DEF Spec

-----------------------------------------------------------------------------
\* The numbers that bit strings stand for

\* v has the values of the first bits of b, for every number of them.
Values(v, b, m) ==
    \A i \in 0 .. m :
        v[i] \in Nat /\ v[i] = IF i = 0 THEN 0 ELSE 2 * v[i - 1] + b[i]

\* ToInt is what its recursion describes.
LEMMA ToIntValues ==
    ASSUME NEW n \in Nat, NEW b \in [1 .. n -> {0, 1}]
    PROVE  \E v : Values(v, b, n) /\ ToInt(b) = v[n]
<1> DEFINE Good(f) == f = [i \in 0 .. n |-> IF i = 0 THEN 0 ELSE 2 * f[i - 1] + b[i]]
           Bad == {m \in 0 .. n : ~ \E v : Values(v, b, m)}
<1>1. Len(b) = n
  OBVIOUS
<1>2. ToInt(b) = (CHOOSE f : Good(f))[n]
  BY <1>1 DEF ToInt
<1>3. Bad = {}
  <2> SUFFICES ASSUME Bad # {} PROVE FALSE
    OBVIOUS
  <2>0. Bad \in SUBSET Nat
    OBVIOUS
  <2>1. PICK m \in Bad : \A l \in Bad : m <= l
    BY <2>0, Least
  <2>2. m \in 0 .. n /\ ~ \E v : Values(v, b, m)
    OBVIOUS
  <2>3. CASE m = 0
    <3> DEFINE v == [i \in 0 .. n |-> 0]
    <3>1. Values(v, b, m)
      BY <2>3 DEF Values
    <3> QED
      BY <2>2, <3>1
  <2>4. CASE m # 0
    <3>1. m - 1 \in 0 .. n /\ m - 1 < m
      BY <2>2, <2>4
    <3>2. m - 1 \notin Bad
      <4> HIDE DEF Bad
      <4> QED
        BY <2>0, <2>1, <2>2, <3>1
    <3>3. PICK v : Values(v, b, m - 1)
      BY <3>1, <3>2
    <3> DEFINE w == [i \in 0 .. n |-> IF i < m THEN v[i] ELSE 2 * v[m - 1] + b[m]]
    <3>4. Values(w, b, m)
      <4> SUFFICES ASSUME NEW i \in 0 .. m
                   PROVE  w[i] \in Nat /\ w[i] = IF i = 0 THEN 0 ELSE 2 * w[i - 1] + b[i]
        BY DEF Values
      <4>1. CASE i < m
        <5>1. i \in 0 .. m - 1 /\ i \in 0 .. n /\ w[i] = v[i]
          BY <2>2, <4>1
        <5>2. v[i] \in Nat /\ v[i] = IF i = 0 THEN 0 ELSE 2 * v[i - 1] + b[i]
          BY <3>3, <5>1 DEF Values
        <5>3. i # 0 => w[i - 1] = v[i - 1]
          BY <2>2, <4>1
        <5> HIDE DEF w
        <5> QED
          BY <5>1, <5>2, <5>3
      <4>2. CASE ~(i < m)
        <5>1. i = m /\ i \in 1 .. n /\ i - 1 \in 0 .. n /\ i - 1 < m /\ i - 1 = m - 1
          BY <2>2, <2>4, <4>2
        <5>2. w[i] = 2 * v[m - 1] + b[m] /\ w[i - 1] = v[m - 1]
          BY <5>1
        <5>3. v[m - 1] \in Nat
          BY <3>1, <3>3 DEF Values
        <5>4. b[m] \in {0, 1}
          BY <5>1
        <5> HIDE DEF w
        <5> QED
          BY <5>1, <5>2, <5>3, <5>4
      <4> QED
        BY <4>1, <4>2
    <3> QED
      BY <2>2, <3>4
  <2> QED
    BY <2>3, <2>4
<1>4. PICK v : Values(v, b, n)
  BY <1>3
<1>5. \E f : Good(f)
  <2> DEFINE g == [i \in 0 .. n |-> v[i]]
  <2>1. ASSUME NEW i \in 0 .. n
        PROVE  g[i] = IF i = 0 THEN 0 ELSE 2 * g[i - 1] + b[i]
    <3>1. v[i] = IF i = 0 THEN 0 ELSE 2 * v[i - 1] + b[i]
      BY <1>4 DEF Values
    <3>2. i # 0 => i - 1 \in 0 .. n
      OBVIOUS
    <3> QED
      BY <3>1, <3>2
  <2>2. g = [i \in 0 .. n |-> g[i]]
    OBVIOUS
  <2> HIDE DEF g
  <2>3. g = [i \in 0 .. n |-> IF i = 0 THEN 0 ELSE 2 * g[i - 1] + b[i]]
    BY <2>1, <2>2
  <2> QED
    BY <2>3
<1> DEFINE h == CHOOSE f : Good(f)
<1>6. Good(h)
  <2> HIDE DEF Good
  <2> QED
    BY <1>5
<1>7. \A i \in 0 .. n : h[i] = IF i = 0 THEN 0 ELSE 2 * h[i - 1] + b[i]
  <2> HIDE DEF h
  <2> QED
    BY <1>6
<1>8. ToInt(b) = h[n]
  BY <1>2
<1> HIDE DEF h, Good
<1>9. \A i \in 0 .. n : h[i] \in Nat
  <2> DEFINE Odd == {i \in 0 .. n : h[i] \notin Nat}
  <2> SUFFICES ASSUME Odd # {} PROVE FALSE
    OBVIOUS
  <2>0. Odd \in SUBSET Nat
    OBVIOUS
  <2>1. PICK i \in Odd : \A j \in Odd : i <= j
    BY <2>0, Least
  <2>2. i \in 0 .. n /\ h[i] \notin Nat
    OBVIOUS
  <2>3. i # 0
    BY <1>7, <2>2
  <2>4. i - 1 \in 0 .. n /\ ~(i <= i - 1) /\ i \in 1 .. n
    BY <2>2, <2>3
  <2>5. h[i - 1] \in Nat
    BY <2>1, <2>4
  <2>6. b[i] \in {0, 1}
    BY <2>4
  <2> HIDE DEF Odd
  <2> QED
    BY <1>7, <2>2, <2>3, <2>5, <2>6
<1>10. Values(h, b, n)
  BY <1>7, <1>9 DEF Values
<1> QED
  BY <1>8, <1>10

\* Of two strings, the one with the first smaller bit is the smaller number.
LEMMA FirstDifference ==
    ASSUME NEW n \in Nat, NEW s \in [1 .. n -> {0, 1}], NEW t \in [1 .. n -> {0, 1}],
           NEW i \in 1 .. n, \A j \in 1 .. i - 1 : s[j] = t[j], s[i] < t[i]
    PROVE  ToInt(s) < ToInt(t)
<1>1. PICK u : Values(u, s, n) /\ ToInt(s) = u[n]
  BY ToIntValues
<1>2. PICK v : Values(v, t, n) /\ ToInt(t) = v[n]
  BY ToIntValues
<1>3. \A j \in 0 .. n :
          /\ u[j] \in Nat /\ v[j] \in Nat
          /\ j = 0 => u[j] = 0 /\ v[j] = 0
          /\ j # 0 => /\ u[j] = 2 * u[j - 1] + s[j] /\ v[j] = 2 * v[j - 1] + t[j]
                      /\ s[j] \in {0, 1} /\ t[j] \in {0, 1}
  BY <1>1, <1>2 DEF Values
<1> DEFINE Off == {j \in 0 .. n : IF j < i THEN u[j] # v[j] ELSE ~(u[j] < v[j])}
<1>4. Off = {}
  <2> SUFFICES ASSUME Off # {} PROVE FALSE
    OBVIOUS
  <2>0. Off \in SUBSET Nat
    OBVIOUS
  <2>1. PICK j \in Off : \A l \in Off : j <= l
    BY <2>0, Least
  <2>2. j \in 0 .. n /\ (j < i => u[j] # v[j]) /\ (~(j < i) => ~(u[j] < v[j]))
    OBVIOUS
  <2>3. j # 0
    BY <1>3, <2>2
  <2>4. j - 1 \in 0 .. n /\ ~(j <= j - 1)
    BY <2>2, <2>3
  <2>5. j - 1 \notin Off
    BY <2>1, <2>4
  <2>6. /\ j - 1 < i => u[j - 1] = v[j - 1]
        /\ ~(j - 1 < i) => u[j - 1] < v[j - 1]
    BY <2>4, <2>5
  <2> HIDE DEF Off
  <2>7. /\ u[j] = 2 * u[j - 1] + s[j] /\ v[j] = 2 * v[j - 1] + t[j]
        /\ u[j - 1] \in Nat /\ v[j - 1] \in Nat /\ s[j] \in {0, 1} /\ t[j] \in {0, 1}
    BY <1>3, <2>2, <2>3, <2>4
  <2>8. CASE j < i
    <3>1. j \in 1 .. i - 1 /\ j - 1 < i
      BY <2>2, <2>3, <2>8
    <3> QED
      BY <2>2, <2>6, <2>7, <2>8, <3>1
  <2>9. CASE j = i
    <3>1. j - 1 < i /\ s[j] < t[j]
      BY <2>2, <2>9
    <3> QED
      BY <2>2, <2>6, <2>7, <2>9, <3>1
  <2>10. CASE j > i
    <3>1. ~(j - 1 < i) /\ ~(j < i)
      BY <2>2, <2>10
    <3> QED
      BY <2>2, <2>6, <2>7, <3>1
  <2> QED
    BY <2>2, <2>8, <2>9, <2>10
<1>5. n \in 0 .. n /\ ~(n < i)
  OBVIOUS
<1>6. u[n] < v[n]
  BY <1>4, <1>5
<1> QED
  BY <1>1, <1>2, <1>6

\* A number between two has the bits that both of them start with.
LEMMA BitsBetween ==
    ASSUME NEW n \in Nat, NEW a \in [1 .. n -> {0, 1}], NEW k \in [1 .. n -> {0, 1}],
           NEW c \in [1 .. n -> {0, 1}], ToInt(a) <= ToInt(k), ToInt(k) <= ToInt(c),
           NEW m \in 0 .. n, \A i \in 1 .. m : a[i] = c[i]
    PROVE  \A i \in 1 .. m : k[i] = a[i]
<1> DEFINE Off == {i \in 1 .. m : k[i] # a[i]}
<1> SUFFICES ASSUME Off # {} PROVE FALSE
  OBVIOUS
<1>1. Off \in SUBSET Nat
  OBVIOUS
<1>2. PICK i \in Off : \A j \in Off : i <= j
  BY <1>1, Least
<1>3. i \in 1 .. m /\ k[i] # a[i] /\ i \in 1 .. n
  OBVIOUS
<1>4. \A j \in 1 .. i - 1 : j \in 1 .. m /\ j \notin Off /\ k[j] = a[j] /\ k[j] = c[j]
  BY <1>2, <1>3
<1> HIDE DEF Off
<1>5. k[i] \in {0, 1} /\ a[i] \in {0, 1} /\ c[i] = a[i]
  BY <1>3
<1>6. \A b \in [1 .. n -> {0, 1}] : ToInt(b) \in Nat
  <2> TAKE b \in [1 .. n -> {0, 1}]
  <2>1. PICK v : Values(v, b, n) /\ ToInt(b) = v[n]
    BY ToIntValues
  <2> QED
    BY <2>1 DEF Values
<1>7. CASE k[i] < a[i]
  <2>1. ToInt(k) < ToInt(a)
    BY <1>3, <1>4, <1>7, FirstDifference
  <2> QED
    BY <1>6, <2>1
<1>8. CASE c[i] < k[i]
  <2>1. \A j \in 1 .. i - 1 : c[j] = k[j]
    BY <1>4
  <2>2. ToInt(c) < ToInt(k)
    BY <1>3, <1>8, <2>1, FirstDifference
  <2> QED
    BY <1>6, <2>2
<1> QED
  BY <1>3, <1>5, <1>7, <1>8

\* The e-th power of two.
Power(e) == ToInt([i \in 1 .. e + 1 |-> IF i = 1 THEN 1 ELSE 0])

\* Every bit that follows makes the number twice as large, or larger.
LEMMA Doubling ==
    ASSUME NEW n \in Nat, NEW u \in [1 .. n -> {0, 1}], NEW q, Values(q, u, n),
           NEW a \in 0 .. n, NEW e \in Nat, a + e <= n
    PROVE  Power(e) \in Nat /\ Power(e) > 0 /\ Power(e) * q[a] <= q[a + e]
<1> DEFINE b == [i \in 1 .. e + 1 |-> IF i = 1 THEN 1 ELSE 0]
<1>1. b \in [1 .. e + 1 -> {0, 1}] /\ e + 1 \in Nat
  OBVIOUS
<1>2. PICK v : Values(v, b, e + 1) /\ ToInt(b) = v[e + 1]
  BY <1>1, ToIntValues
<1>3. \A i \in 0 .. e + 1 : v[i] \in Nat /\ v[i] = IF i = 0 THEN 0 ELSE 2 * v[i - 1] + b[i]
  BY <1>2 DEF Values
<1>4. v[1] = 1 /\ \A i \in 1 .. e : v[i + 1] = 2 * v[i]
  <2>1. v[0] = 0 /\ v[1] = 2 * v[0] + b[1]
    <3>1. 0 \in 0 .. e + 1 /\ 1 \in 0 .. e + 1 /\ 1 # 0 /\ 1 - 1 = 0
      OBVIOUS
    <3> HIDE DEF b
    <3> QED
      BY <1>3, <3>1
  <2>2. v[1] = 1
    <3>1. b[1] = 1
      OBVIOUS
    <3> HIDE DEF b
    <3> QED
      BY <2>1, <3>1
  <2>3. ASSUME NEW i \in 1 .. e
        PROVE  v[i + 1] = 2 * v[i]
    <3>1. i + 1 \in 0 .. e + 1 /\ i + 1 # 0 /\ (i + 1) - 1 = i /\ i \in 0 .. e + 1
      OBVIOUS
    <3>2. b[i + 1] = 0
      OBVIOUS
    <3> HIDE DEF b
    <3> QED
      BY <1>3, <3>1, <3>2
  <2> QED
    BY <2>2, <2>3
<1>5. Power(e) = v[e + 1]
  BY <1>2 DEF Power
<1> HIDE DEF b
<1>6. \A j \in 0 .. n : /\ q[j] \in Nat
                        /\ j # 0 => q[j] = 2 * q[j - 1] + u[j] /\ u[j] \in {0, 1}
  BY DEF Values
<1> DEFINE Bad == {j \in 0 .. e : ~(v[j + 1] > 0 /\ v[j + 1] * q[a] <= q[a + j])}
<1>7. Bad = {}
  <2> SUFFICES ASSUME Bad # {} PROVE FALSE
    OBVIOUS
  <2>0. Bad \in SUBSET Nat
    OBVIOUS
  <2>1. PICK j \in Bad : \A l \in Bad : j <= l
    BY <2>0, Least
  <2>2. j \in 0 .. e /\ ~(v[j + 1] > 0 /\ v[j + 1] * q[a] <= q[a + j])
    OBVIOUS
  <2>3. q[a] \in Nat
    BY <1>6
  <2>4. j # 0
    <3> SUFFICES ASSUME j = 0 PROVE FALSE
      OBVIOUS
    <3>1. j + 1 = 1 /\ a + j = a
      OBVIOUS
    <3> HIDE DEF Bad
    <3> QED
      BY <1>4, <2>2, <2>3, <3>1
  <2>5. j - 1 \in 0 .. e /\ ~(j <= j - 1) /\ (j - 1) + 1 = j /\ j \in 1 .. e
    BY <2>2, <2>4
  <2>6. v[j] > 0 /\ v[j] * q[a] <= q[a + (j - 1)]
    BY <2>1, <2>5
  <2> HIDE DEF Bad
  <2>7. v[j + 1] = 2 * v[j] /\ v[j] \in Nat
    BY <1>3, <1>4, <2>5
  <2>8. /\ a + j \in 0 .. n /\ a + j # 0 /\ (a + j) - 1 = a + (j - 1)
        /\ a + (j - 1) \in 0 .. n
    BY <2>5
  <2>9. q[a + j] >= 2 * q[a + (j - 1)] /\ q[a + j] \in Nat /\ q[a + (j - 1)] \in Nat
    <3> DEFINE c == a + j
               d == a + (j - 1)
    <3>1. c \in 0 .. n /\ c # 0 /\ c - 1 = d /\ d \in 0 .. n
      BY <2>8
    <3> HIDE DEF c, d
    <3>2. q[c] = 2 * q[c - 1] + u[c] /\ u[c] \in {0, 1} /\ q[c] \in Nat /\ q[d] \in Nat
      BY <1>6, <3>1
    <3>3. q[c - 1] = q[d]
      BY <3>1
    <3>4. q[c] >= 2 * q[d]
      BY <3>2, <3>3
    <3> QED
      BY <3>2, <3>4 DEF c, d
  <2>10. (2 * v[j]) * q[a] = 2 * (v[j] * q[a]) /\ v[j] * q[a] \in Nat
    BY <2>3, <2>7
  <2>11. v[j + 1] * q[a] <= q[a + j]
    <3> DEFINE x == v[j] * q[a]
    <3>1. v[j + 1] * q[a] = 2 * x /\ x \in Nat /\ x <= q[a + (j - 1)]
      BY <2>6, <2>7, <2>10
    <3> HIDE DEF x
    <3> QED
      BY <2>9, <3>1
  <2> QED
    BY <2>2, <2>6, <2>7, <2>11
<1>8. e \in 0 .. e
  OBVIOUS
<1>9. v[e + 1] > 0 /\ v[e + 1] * q[a] <= q[a + e]
  BY <1>7, <1>8
<1>10. v[e + 1] \in Nat
  BY <1>3
<1> QED
  BY <1>5, <1>9, <1>10

\* Bits shifted to the right by t make the number smaller by as many powers of two.
LEMMA Shifted ==
    ASSUME NEW n \in Nat, NEW u \in [1 .. n -> {0, 1}], NEW s \in [1 .. n -> {0, 1}],
           NEW t \in 0 .. n, \A i \in 1 .. n : s[i] = IF i <= t THEN 0 ELSE u[i - t],
           NEW e \in 0 .. t
    PROVE  /\ ToInt(u) \in Nat /\ ToInt(s) \in Nat
           /\ Power(e) \in Nat /\ Power(e) > 0
           /\ Power(e) * ToInt(s) <= ToInt(u)
           /\ ToInt(s) <= ToInt(u)
<1>1. PICK p : Values(p, s, n) /\ ToInt(s) = p[n]
  BY ToIntValues
<1>2. PICK q : Values(q, u, n) /\ ToInt(u) = q[n]
  BY ToIntValues
<1>3. \A j \in 0 .. n :
          /\ p[j] \in Nat /\ q[j] \in Nat
          /\ j = 0 => p[j] = 0 /\ q[j] = 0
          /\ j # 0 => /\ p[j] = 2 * p[j - 1] + s[j] /\ q[j] = 2 * q[j - 1] + u[j]
                      /\ s[j] \in {0, 1} /\ u[j] \in {0, 1}
  BY <1>1, <1>2 DEF Values
<1> DEFINE Off == {j \in 0 .. n : p[j] # IF j <= t THEN 0 ELSE q[j - t]}
<1>4. Off = {}
  <2> SUFFICES ASSUME Off # {} PROVE FALSE
    OBVIOUS
  <2>0. Off \in SUBSET Nat
    OBVIOUS
  <2>1. PICK j \in Off : \A l \in Off : j <= l
    BY <2>0, Least
  <2>2. j \in 0 .. n /\ p[j] # IF j <= t THEN 0 ELSE q[j - t]
    OBVIOUS
  <2>3. j # 0
    BY <1>3, <2>2
  <2>4. j - 1 \in 0 .. n /\ ~(j <= j - 1) /\ j \in 1 .. n
    BY <2>2, <2>3
  <2>5. p[j - 1] = IF j - 1 <= t THEN 0 ELSE q[j - 1 - t]
    BY <2>1, <2>4
  <2> HIDE DEF Off
  <2>6. p[j] = 2 * p[j - 1] + s[j] /\ p[j - 1] \in Nat
    BY <1>3, <2>2, <2>3, <2>4
  <2>7. s[j] = IF j <= t THEN 0 ELSE u[j - t]
    BY <2>4
  <2>8. CASE j <= t
    BY <2>2, <2>4, <2>5, <2>6, <2>7, <2>8
  <2>9. CASE ~(j <= t)
    <3>1. j - t \in 0 .. n /\ j - t # 0 /\ j - t - 1 = j - 1 - t
      BY <2>4, <2>9
    <3>2. q[j - t] = 2 * q[j - t - 1] + u[j - t] /\ q[0] = 0
      BY <1>3, <3>1
    <3>3. p[j - 1] = q[j - 1 - t]
      <4>1. CASE j - 1 <= t
        <5>1. j - 1 - t = 0
          BY <2>4, <2>9, <4>1
        <5> QED
          BY <2>5, <3>2, <4>1, <5>1
      <4> QED
        BY <2>5, <4>1
    <3> QED
      BY <2>2, <2>6, <2>7, <2>9, <3>1, <3>2, <3>3
  <2> QED
    BY <2>8, <2>9
<1>5. n - t \in 0 .. n /\ n \in 0 .. n /\ n \in Nat /\ t \in Nat
  OBVIOUS
<1>6. p[n] = q[n - t]
  <2>1. p[n] = IF n <= t THEN 0 ELSE q[n - t]
    BY <1>4, <1>5
  <2>2. n <= t => n - t = 0
    OBVIOUS
  <2> QED
    BY <1>3, <1>5, <2>1, <2>2
<1>7. /\ Power(e) \in Nat /\ Power(e) > 0
      /\ Power(e) * q[n - t] <= q[(n - t) + e]
  <2>1. e \in Nat /\ (n - t) + e <= n
    OBVIOUS
  <2> QED
    BY <1>2, <1>5, <2>1, Doubling
<1>8. q[(n - t) + e] <= q[n]
  <2> DEFINE a == (n - t) + e
             d == t - e
  <2>1. a \in 0 .. n /\ d \in Nat /\ a + d = n
    OBVIOUS
  <2> HIDE DEF a, d
  <2>2. Power(d) \in Nat /\ Power(d) > 0 /\ Power(d) * q[a] <= q[n]
    <3>1. a + d <= n
      BY <2>1
    <3>2. Power(d) \in Nat /\ Power(d) > 0 /\ Power(d) * q[a] <= q[a + d]
      BY <1>2, <2>1, <3>1, Doubling
    <3> QED
      BY <2>1, <3>2
  <2>3. q[a] \in Nat /\ q[n] \in Nat
    BY <1>3, <1>5, <2>1
  <2>4. q[a] <= Power(d) * q[a]
    BY <2>2, <2>3
  <2>5. Power(d) * q[a] \in Nat
    BY <2>2, <2>3
  <2> HIDE DEF Power
  <2>6. q[a] <= q[n]
    BY <2>2, <2>3, <2>4, <2>5
  <2> QED
    BY <2>6 DEF a
<1>9. p[n] \in Nat /\ q[n] \in Nat /\ q[(n - t) + e] \in Nat /\ Power(e) * q[n - t] \in Nat
  <2>1. (n - t) + e \in 0 .. n
    OBVIOUS
  <2> QED
    BY <1>3, <1>5, <1>7, <2>1
<1>10. q[n - t] <= Power(e) * q[n - t]
  <2>1. q[n - t] \in Nat
    BY <1>3, <1>5
  <2> QED
    BY <1>7, <2>1
<1> QED
  <2>1. ToInt(s) = q[n - t] /\ ToInt(u) = q[n] /\ q[n - t] \in Nat
    BY <1>1, <1>2, <1>6, <1>9
  <2>2. Power(e) * q[n - t] <= q[n] /\ q[n - t] <= q[n]
    BY <1>7, <1>8, <1>9, <1>10, <2>1
  <2> QED
    BY <1>7, <1>9, <2>1, <2>2

\* A factor on both sides of a chain is cancelled.
LEMMA Cancel ==
    ASSUME NEW m \in Nat, NEW a \in Nat, NEW b \in Nat, NEW y \in Nat, NEW z \in Nat,
           m * a <= y, y < z, z <= m * b
    PROVE  a < b
<1> SUFFICES ASSUME b <= a PROVE FALSE
  OBVIOUS
<1>1. PICK d \in Nat : a = b + d
  <2>1. a - b \in Nat /\ a = b + (a - b)
    OBVIOUS
  <2> QED
    BY <2>1
<1>2. m * a = m * b + m * d /\ m * b \in Nat /\ m * d \in Nat
  BY <1>1
<1> QED
  BY <1>2

-----------------------------------------------------------------------------
\* The plane

Half == BIT_DOMAIN \div 2

\* The bits of the two coordinates.
XBits(b) == [i \in 1 .. Half |-> Padded(b)[2 * i]]
YBits(b) == [i \in 1 .. Half |-> Padded(b)[2 * i - 1]]

\* The coordinates of a query's upper right corner differ by a factor of at most 2^e,
\* or 2^(e + 1) if x is the larger one.
NearDiagonal(e) ==
    \A q \in Query : Y(q.max) <= Power(e) * X(q.max) /\ X(q.max) <= Power(e + 1) * Y(q.max)

\* Half of a number, rounded down.
LEMMA Parity ==
    ASSUME NEW n \in Nat
    PROVE  /\ n \div 2 \in Nat /\ 2 * (n \div 2) <= n /\ n <= 2 * (n \div 2) + 1
           /\ n % 2 = 0 => n = 2 * (n \div 2)
<1>1. n \div 2 \in Nat /\ 2 * (n \div 2) <= n /\ n <= 2 * (n \div 2) + 1
  OBVIOUS
<1>2. n % 2 = 0 => n = 2 * (n \div 2)
  OBVIOUS
<1> QED
  BY <1>1, <1>2

\* There are as many bits of x as of y.
LEMMA HalfType ==
    Half \in Nat /\ 2 * Half = BIT_DOMAIN
<1>1. BIT_DOMAIN \in Nat /\ BIT_DOMAIN % 2 = 0
  BY ConstantsAssumption
<1> QED
  BY <1>1, Parity DEF Half

\* The coordinates of a label are the numbers of their bits.
LEMMA Coordinates ==
    ASSUME NEW b \in BitStrings(BIT_DOMAIN)
    PROVE  /\ X(b) = ToInt(XBits(b)) /\ Y(b) = ToInt(YBits(b))
           /\ XBits(b) \in [1 .. Half -> {0, 1}] /\ YBits(b) \in [1 .. Half -> {0, 1}]
           /\ X(b) \in Nat /\ Y(b) \in Nat
           /\ \A i \in 1 .. BIT_DOMAIN :
                  Padded(b)[i] = IF i <= BIT_DOMAIN - Len(b) THEN 0
                                 ELSE b[i - (BIT_DOMAIN - Len(b))]
<1>1. b \in Seq({0, 1}) /\ Len(b) \in Nat /\ Len(b) <= BIT_DOMAIN /\ BIT_DOMAIN \in Nat
  BY BitStringIsSeq, WidthType
<1>2. \A i \in 1 .. BIT_DOMAIN :
          Padded(b)[i] = IF i <= BIT_DOMAIN - Len(b) THEN 0 ELSE b[i - (BIT_DOMAIN - Len(b))]
  BY DEF Padded
<1>3. \A i \in 1 .. BIT_DOMAIN : Padded(b)[i] \in {0, 1}
  <2> TAKE i \in 1 .. BIT_DOMAIN
  <2>1. CASE i <= BIT_DOMAIN - Len(b)
    BY <1>2, <2>1
  <2>2. CASE ~(i <= BIT_DOMAIN - Len(b))
    <3> DEFINE j == i - (BIT_DOMAIN - Len(b))
    <3>1. j \in 1 .. Len(b)
      BY <1>1, <2>2
    <3>2. Padded(b)[i] = b[j]
      BY <1>2, <2>2
    <3> HIDE DEF j
    <3>3. b[j] \in {0, 1}
      BY <1>1, <3>1
    <3> QED
      BY <3>2, <3>3
  <2> QED
    BY <2>1, <2>2
<1>4. \A i \in 1 .. Half : 2 * i \in 1 .. BIT_DOMAIN /\ 2 * i - 1 \in 1 .. BIT_DOMAIN
  BY HalfType, <1>1
<1>5. XBits(b) \in [1 .. Half -> {0, 1}] /\ YBits(b) \in [1 .. Half -> {0, 1}]
  BY <1>3, <1>4 DEF XBits, YBits
<1>6. \A s \in [1 .. Half -> {0, 1}] : ToInt(s) \in Nat
  <2> TAKE s \in [1 .. Half -> {0, 1}]
  <2>1. Half \in Nat
    BY HalfType
  <2>2. PICK v : Values(v, s, Half) /\ ToInt(s) = v[Half]
    BY <2>1, ToIntValues
  <2> QED
    BY <2>1, <2>2 DEF Values
<1>7. X(b) = ToInt(XBits(b)) /\ Y(b) = ToInt(YBits(b))
  BY DEF X, Y, XBits, YBits, Half
<1> QED
  BY <1>2, <1>5, <1>6, <1>7

\* The bits of a key's coordinates are every second one of its own.
LEMMA KeyBits ==
    ASSUME NEW s \in KeyString
    PROVE  \A i \in 1 .. Half : XBits(s)[i] = s[2 * i] /\ YBits(s)[i] = s[2 * i - 1]
<1>1. s \in BitStrings(BIT_DOMAIN) /\ Len(s) = BIT_DOMAIN /\ BIT_DOMAIN \in Nat
  BY KeyStrings, WidthType
<1>2. \A i \in 1 .. BIT_DOMAIN : Padded(s)[i] = s[i]
  <2> TAKE i \in 1 .. BIT_DOMAIN
  <2>1. ~(i <= BIT_DOMAIN - Len(s)) /\ i - (BIT_DOMAIN - Len(s)) = i
    BY <1>1
  <2> QED
    BY <1>1, <2>1, Coordinates
<1>3. \A i \in 1 .. Half : 2 * i \in 1 .. BIT_DOMAIN /\ 2 * i - 1 \in 1 .. BIT_DOMAIN
  BY HalfType, <1>1
<1> QED
  BY <1>2, <1>3 DEF XBits, YBits

\* The keys in a query's rectangle lie under the common prefix of its corners.
LEMMA RangeUnder ==
    ASSUME NEW k \in Key, NEW q \in Query, InRange(k, q)
    PROVE  Under(k.integral, get_lcp({q.min, q.max}))
<1> DEFINE l == get_lcp({q.min, q.max})
           s == k.integral
<1>1. q.min \in KeyString /\ q.max \in KeyString /\ s \in KeyString
  BY ConstantsAssumption DEF KeyString
<1>2. /\ Len(l) \in 0 .. BIT_DOMAIN
      /\ Under(q.min, l) /\ Under(q.max, l)
  <2> DEFINE S == {q.min, q.max}
  <2>1. S \subseteq KeyString /\ S # {} /\ q.min \in S /\ q.max \in S /\ l = get_lcp(S)
    BY <1>1
  <2> HIDE DEF S, l
  <2> QED
    BY <2>1, LcpProps
<1> HIDE DEF l
<1>3. /\ X(q.min) <= X(s) /\ X(s) <= X(q.max) /\ Y(q.min) <= Y(s) /\ Y(s) <= Y(q.max)
  <2>1. X(s) \in Nat /\ Y(s) \in Nat /\ X(q.max) \in Nat /\ Y(q.max) \in Nat
    BY <1>1, KeyStrings, Coordinates
  <2> QED
    BY <2>1 DEF InRange
<1>4. BIT_DOMAIN \in Nat /\ Half \in Nat /\ 2 * Half = BIT_DOMAIN
  BY HalfType, WidthType
<1>5. \A i \in 1 .. Len(l) : q.min[i] = q.max[i]
  BY <1>2, <1>4 DEF Under
<1> DEFINE m == Len(l) \div 2
           n == (Len(l) + 1) \div 2
<1>6. m \in 0 .. Half /\ n \in 0 .. Half /\ 2 * m <= Len(l) /\ 2 * n - 1 <= Len(l)
      /\ Len(l) <= 2 * m + 1 /\ Len(l) <= 2 * n
  BY <1>2, <1>4
<1> HIDE DEF m, n
<1>7. \A i \in 1 .. m : XBits(s)[i] = XBits(q.min)[i]
  <2>1. \A i \in 1 .. m : XBits(q.min)[i] = XBits(q.max)[i]
    <3> TAKE i \in 1 .. m
    <3>1. i \in 1 .. Half /\ 2 * i \in 1 .. Len(l)
      BY <1>2, <1>4, <1>6
    <3> QED
      BY <1>1, <1>5, <3>1, KeyBits
  <2>2. /\ XBits(s) \in [1 .. Half -> {0, 1}] /\ XBits(q.min) \in [1 .. Half -> {0, 1}]
        /\ XBits(q.max) \in [1 .. Half -> {0, 1}]
        /\ ToInt(XBits(q.min)) <= ToInt(XBits(s)) /\ ToInt(XBits(s)) <= ToInt(XBits(q.max))
    BY <1>1, <1>3, KeyStrings, Coordinates
  <2> HIDE DEF s
  <2> QED
    BY <1>4, <1>6, <2>1, <2>2, BitsBetween
<1>8. \A i \in 1 .. n : YBits(s)[i] = YBits(q.min)[i]
  <2>1. \A i \in 1 .. n : YBits(q.min)[i] = YBits(q.max)[i]
    <3> TAKE i \in 1 .. n
    <3>1. i \in 1 .. Half /\ 2 * i - 1 \in 1 .. Len(l)
      BY <1>2, <1>4, <1>6
    <3> QED
      BY <1>1, <1>5, <3>1, KeyBits
  <2>2. /\ YBits(s) \in [1 .. Half -> {0, 1}] /\ YBits(q.min) \in [1 .. Half -> {0, 1}]
        /\ YBits(q.max) \in [1 .. Half -> {0, 1}]
        /\ ToInt(YBits(q.min)) <= ToInt(YBits(s)) /\ ToInt(YBits(s)) <= ToInt(YBits(q.max))
    BY <1>1, <1>3, KeyStrings, Coordinates
  <2> HIDE DEF s
  <2> QED
    BY <1>4, <1>6, <2>1, <2>2, BitsBetween
<1>9. \A i \in 1 .. Len(l) : s[i] = q.min[i]
  <2> TAKE i \in 1 .. Len(l)
  <2>1. \/ \E j \in 1 .. m : i = 2 * j
        \/ \E j \in 1 .. n : i = 2 * j - 1
    <3>1. i \in Nat /\ Len(l) \in Nat /\ 1 <= i /\ i <= Len(l)
      BY <1>2, <1>4
    <3> DEFINE h == i \div 2
    <3>2. h \in Nat /\ 2 * h <= i /\ i <= 2 * h + 1
      BY <3>1, Parity
    <3> HIDE DEF h
    <3>3. CASE i = 2 * h
      <4>1. h \in 1 .. m
        BY <1>6, <3>1, <3>2, <3>3
      <4> QED
        BY <3>3, <4>1
    <3>4. CASE i = 2 * h + 1
      <4>1. i = 2 * (h + 1) - 1 /\ h + 1 \in 1 .. n
        BY <1>6, <3>1, <3>2, <3>4
      <4> QED
        BY <4>1
    <3> QED
      BY <3>1, <3>2, <3>3, <3>4
  <2>2. CASE \E j \in 1 .. m : i = 2 * j
    <3>1. PICK j \in 1 .. m : i = 2 * j
      BY <2>2
    <3>2. j \in 1 .. Half
      BY <1>4, <1>6
    <3> QED
      BY <1>1, <1>7, <3>1, <3>2, KeyBits
  <2>3. CASE \E j \in 1 .. n : i = 2 * j - 1
    <3>1. PICK j \in 1 .. n : i = 2 * j - 1
      BY <2>3
    <3>2. j \in 1 .. Half
      BY <1>4, <1>6
    <3> QED
      BY <1>1, <1>8, <3>1, <3>2, KeyBits
  <2> QED
    BY <2>1, <2>2, <2>3
<1> QED
  <2> SUFFICES ASSUME NEW i \in 1 .. BIT_DOMAIN, i <= Len(l)
               PROVE  s[i] = l[i]
    BY DEF Under, l
  <2>1. i \in 1 .. Len(l)
    BY <1>2, <1>4
  <2> QED
    BY <1>2, <1>9, <2>1 DEF Under

\* The traversal visits every subtree on the way to a key in the rectangle, above the
\* last 2e bits.
LEMMA Anchored ==
    ASSUME NEW e \in Nat, NearDiagonal(e), NEW k \in Key, NEW q \in Query, InRange(k, q),
           NEW d \in 1 .. BIT_DOMAIN, d + 2 * e <= BIT_DOMAIN
    PROVE  Visits(Prefix(k.integral, d), q)
<1> DEFINE s == k.integral
           b == Prefix(s, d)
<1>1. s \in KeyString /\ q.max \in KeyString
  BY ConstantsAssumption DEF KeyString
<1>2. s \in BitStrings(BIT_DOMAIN) /\ Len(s) = BIT_DOMAIN /\ q.max \in BitStrings(BIT_DOMAIN)
  BY <1>1, KeyStrings
<1>3. /\ BIT_DOMAIN \in Nat /\ Half \in Nat /\ 2 * Half = BIT_DOMAIN /\ d \in Nat
  BY HalfType, WidthType
<1>4. b \in BitStrings(BIT_DOMAIN) /\ Len(b) = d /\ \A i \in 1 .. d : b[i] = s[i]
  <2>1. /\ b \in BitStrings(BIT_DOMAIN)
        /\ Len(b) = IF d < Len(s) THEN d ELSE Len(s)
        /\ \A i \in 1 .. Len(b) : b[i] = s[i]
    BY <1>2, <1>3, PrefixString
  <2> HIDE DEF b
  <2> QED
    BY <1>2, <1>3, <2>1
<1>5. /\ X(s) < X(q.max) /\ Y(s) < Y(q.max)
      /\ Y(q.max) <= Power(e) * X(q.max) /\ X(q.max) <= Power(e + 1) * Y(q.max)
      /\ X(s) \in Nat /\ Y(s) \in Nat /\ X(q.max) \in Nat /\ Y(q.max) \in Nat
  BY <1>2, Coordinates DEF InRange, NearDiagonal
<1>6. /\ X(b) = ToInt(XBits(b)) /\ Y(b) = ToInt(YBits(b))
      /\ X(b) \in Nat /\ Y(b) \in Nat
      /\ XBits(b) \in [1 .. Half -> {0, 1}] /\ YBits(b) \in [1 .. Half -> {0, 1}]
      /\ X(s) = ToInt(XBits(s)) /\ Y(s) = ToInt(YBits(s))
      /\ XBits(s) \in [1 .. Half -> {0, 1}] /\ YBits(s) \in [1 .. Half -> {0, 1}]
  BY <1>2, <1>4, Coordinates
<1>7. \A i \in 1 .. BIT_DOMAIN :
          Padded(b)[i] = IF i <= BIT_DOMAIN - d THEN 0 ELSE s[i - (BIT_DOMAIN - d)]
  <2> TAKE i \in 1 .. BIT_DOMAIN
  <2>1. Padded(b)[i] = IF i <= BIT_DOMAIN - d THEN 0 ELSE b[i - (BIT_DOMAIN - d)]
    BY <1>4, Coordinates
  <2>2. ~(i <= BIT_DOMAIN - d) => i - (BIT_DOMAIN - d) \in 1 .. d
    BY <1>3
  <2> QED
    BY <1>4, <2>1, <2>2
<1>8. \A i \in 1 .. Half : XBits(s)[i] = s[2 * i] /\ YBits(s)[i] = s[2 * i - 1]
  BY <1>1, KeyBits
<1>9. \A i \in 1 .. Half : XBits(b)[i] = Padded(b)[2 * i] /\ YBits(b)[i] = Padded(b)[2 * i - 1]
  BY DEF XBits, YBits
<1> HIDE DEF b, s
<1> DEFINE t == (BIT_DOMAIN - d) \div 2
<1>10. t \in Nat /\ \/ BIT_DOMAIN - d = 2 * t /\ t \in 0 .. Half
                    \/ BIT_DOMAIN - d = 2 * t + 1 /\ t + 1 \in 0 .. Half /\ t \in 0 .. Half
  <2>1. BIT_DOMAIN - d \in Nat
    BY <1>3
  <2> QED
    BY <1>3, <2>1
<1> HIDE DEF t
<1>11. CASE BIT_DOMAIN - d = 2 * t /\ t \in 0 .. Half
  <2>1. \A i \in 1 .. Half : /\ XBits(b)[i] = IF i <= t THEN 0 ELSE XBits(s)[i - t]
                             /\ YBits(b)[i] = IF i <= t THEN 0 ELSE YBits(s)[i - t]
    <3> TAKE i \in 1 .. Half
    <3>1. /\ 2 * i \in 1 .. BIT_DOMAIN /\ 2 * i - 1 \in 1 .. BIT_DOMAIN
          /\ 2 * i <= BIT_DOMAIN - d <=> i <= t
          /\ 2 * i - 1 <= BIT_DOMAIN - d <=> i <= t
          /\ 2 * i - (BIT_DOMAIN - d) = 2 * (i - t)
          /\ (2 * i - 1) - (BIT_DOMAIN - d) = 2 * (i - t) - 1
          /\ ~(i <= t) => i - t \in 1 .. Half
      BY <1>3, <1>10, <1>11
    <3> QED
      BY <1>7, <1>8, <1>9, <3>1
  <2>2. X(b) <= X(s) /\ Y(b) <= Y(s)
    <3>1. 0 \in 0 .. t
      BY <1>10
    <3> QED
      BY <1>3, <1>6, <1>11, <2>1, <3>1, Shifted
  <2> QED
    BY <1>5, <1>6, <2>2 DEF Visits, b, s
<1>12. CASE BIT_DOMAIN - d = 2 * t + 1 /\ t + 1 \in 0 .. Half /\ t \in 0 .. Half
  <2>1. \A i \in 1 .. Half : /\ XBits(b)[i] = IF i <= t THEN 0 ELSE YBits(s)[i - t]
                             /\ YBits(b)[i] = IF i <= t + 1 THEN 0 ELSE XBits(s)[i - (t + 1)]
    <3> TAKE i \in 1 .. Half
    <3>1. /\ 2 * i \in 1 .. BIT_DOMAIN /\ 2 * i - 1 \in 1 .. BIT_DOMAIN
          /\ 2 * i <= BIT_DOMAIN - d <=> i <= t
          /\ 2 * i - 1 <= BIT_DOMAIN - d <=> i <= t + 1
          /\ 2 * i - (BIT_DOMAIN - d) = 2 * (i - t) - 1
          /\ (2 * i - 1) - (BIT_DOMAIN - d) = 2 * (i - (t + 1))
          /\ ~(i <= t) => i - t \in 1 .. Half
          /\ ~(i <= t + 1) => i - (t + 1) \in 1 .. Half
      BY <1>3, <1>10, <1>12
    <3> QED
      BY <1>7, <1>8, <1>9, <3>1
  <2>2. e \in 0 .. t /\ e + 1 \in 0 .. t + 1 /\ t \in Nat
    BY <1>3, <1>10, <1>12
  <2>3. Power(e) \in Nat /\ Power(e) * X(b) <= Y(s)
    <3>1. \A i \in 1 .. Half : XBits(b)[i] = IF i <= t THEN 0 ELSE YBits(s)[i - t]
      BY <2>1
    <3>2. /\ Half \in Nat /\ t \in 0 .. Half
          /\ YBits(s) \in [1 .. Half -> {0, 1}] /\ XBits(b) \in [1 .. Half -> {0, 1}]
      BY <1>3, <1>6, <1>12
    <3>3. Power(e) \in Nat /\ Power(e) * ToInt(XBits(b)) <= ToInt(YBits(s))
      BY <2>2, <3>1, <3>2, Shifted
    <3> QED
      BY <1>6, <3>3
  <2>4. Power(e + 1) \in Nat /\ Power(e + 1) * Y(b) <= X(s)
    <3> DEFINE u == t + 1
               g == e + 1
    <3>1. \A i \in 1 .. Half : YBits(b)[i] = IF i <= u THEN 0 ELSE XBits(s)[i - u]
      BY <2>1
    <3>2. u \in 0 .. Half /\ g \in 0 .. u
      BY <1>12, <2>2
    <3> HIDE DEF u, g
    <3>3. /\ Half \in Nat /\ YBits(b) \in [1 .. Half -> {0, 1}]
          /\ XBits(s) \in [1 .. Half -> {0, 1}]
      BY <1>3, <1>6
    <3>4. Power(g) \in Nat /\ Power(g) * ToInt(YBits(b)) <= ToInt(XBits(s))
      BY <3>1, <3>2, <3>3, Shifted
    <3> QED
      BY <1>6, <3>4 DEF g
  <2>5. X(b) < X(q.max)
    BY <1>5, <1>6, <2>3, Cancel
  <2>6. Y(b) < Y(q.max)
    BY <1>5, <1>6, <2>4, Cancel
  <2> QED
    BY <2>5, <2>6 DEF Visits, b, s
<1> QED
  BY <1>10, <1>11, <1>12

-----------------------------------------------------------------------------
\* No query returns a key that was not there

\* The node has none of the keys.
Without(node, keys) == node # None => node.data \cap keys = {}

\* While nobody deletes: a key that nobody inserts, since the start, is in no node of
\* the database, in none on its way there and in no answer, whole or in part.
GhostInv ==
    /\ \A x \in Label \cup {Stray} : Without(db[x], gone)
    /\ \A c \in Client :
           /\ \A i \in Nat : i \in 1 .. Len(out[c]) => Without(out[c][i].node, gone)
           /\ frame[c].data \cap gone = {}
           /\ answer[c] # None => answer[c] \cap gone = {}
           /\ unwanted[c] \subseteq gone
    /\ \A c \in Client :
           /\ call[c] # None => call[c].type # "delete"
           /\ pc[c] \notin {"sibling", "parent", "left", "right", "cousin"}
           /\ pc[c] = "write" => ~frame[c].merge_on
    /\ answer = [c \in Client |-> answer[c]] /\ unwanted = [c \in Client |-> unwanted[c]]

\* One client's variables change, and the database does not.
LEMMA GhostStep ==
    ASSUME TypeInv, GhostInv, UNCHANGED <<db, call, gone, unwanted>>,
           NEW c \in Client, NEW a, NEW f, NEW o, NEW r,
           a \notin {"sibling", "parent", "left", "right", "cousin"},
           a = "write" => ~f.merge_on,
           \A i \in Nat : i \in 1 .. Len(o) => Without(o[i].node, gone),
           f.data \cap gone = {}, r # None => r \cap gone = {},
           pc' = [pc EXCEPT ![c] = a], frame' = [frame EXCEPT ![c] = f],
           out' = [out EXCEPT ![c] = o], answer' = [answer EXCEPT ![c] = r]
    PROVE  GhostInv'
<1>1. \A e \in Client : /\ pc'[e] = IF e = c THEN a ELSE pc[e]
                        /\ frame'[e] = IF e = c THEN f ELSE frame[e]
                        /\ out'[e] = IF e = c THEN o ELSE out[e]
  BY DEF TypeInv, LocalsTyped
<1>2. /\ \A e \in Client : answer'[e] = IF e = c THEN r ELSE answer[e]
      /\ answer' = [e \in Client |-> answer'[e]]
  <2> DEFINE before == [e \in Client |-> answer[e]]
  <2>1. answer = before
    BY DEF GhostInv
  <2>2. answer' = [before EXCEPT ![c] = r]
    BY <2>1
  <2> QED
    BY <2>2
<1>3. \A x \in Label \cup {Stray} : Without(db'[x], gone')
  BY DEF GhostInv
<1>4. \A e \in Client :
          /\ \A i \in Nat : i \in 1 .. Len(out'[e]) => Without(out'[e][i].node, gone')
          /\ frame'[e].data \cap gone' = {}
          /\ answer'[e] # None => answer'[e] \cap gone' = {}
          /\ unwanted'[e] \subseteq gone'
  BY <1>1, <1>2 DEF GhostInv
<1>5. \A e \in Client :
          /\ call'[e] # None => call'[e].type # "delete"
          /\ pc'[e] \notin {"sibling", "parent", "left", "right", "cousin"}
          /\ pc'[e] = "write" => ~frame'[e].merge_on
  BY <1>1 DEF GhostInv
<1>6. unwanted' = [e \in Client |-> unwanted'[e]]
  BY DEF GhostInv
<1> QED
  BY <1>2, <1>3, <1>4, <1>5, <1>6 DEF GhostInv, Without

\* A client that goes on reading.
LEMMA GhostGoto ==
    ASSUME TypeInv, GhostInv, UNCHANGED <<db, call, unwanted>>, NEW c \in Client, NEW a, NEW f,
           a \notin {"write", "sibling", "parent", "left", "right", "cousin"},
           f.data \cap gone = {}, Goto(c, a, f), pc[c] # "write"
    PROVE  GhostInv'
<1>1. out[c] = <<>>
  BY DEF TypeInv, Staged, Stage
<1>2. out' = [out EXCEPT ![c] = <<>>]
  BY <1>1 DEF Goto, TypeInv, LocalsTyped
<1>3. \A i \in Nat : i \in 1 .. Len(<<>>) => Without(<<>>[i].node, gone)
  OBVIOUS
<1>4. answer' = [answer EXCEPT ![c] = answer[c]] /\ (answer[c] # None => answer[c] \cap gone = {})
  BY DEF Goto, GhostInv
<1> QED
  BY <1>2, <1>3, <1>4, GhostStep DEF Goto

\* A client that returns none of the keys that are gone.
LEMMA GhostReturn ==
    ASSUME TypeInv, GhostInv, UNCHANGED <<db, call, unwanted>>, NEW c \in Client, NEW r,
           r # None => r \cap gone = {}, Return(c, r)
    PROVE  GhostInv'
<1>1. \A i \in Nat : i \in 1 .. Len(<<>>) => Without(<<>>[i].node, gone)
  OBVIOUS
<1>2. gone' = gone
  BY DEF Return, GhostInv
<1>3. EmptyFrame.data \cap gone = {}
  BY DEF EmptyFrame
<1> QED
  BY <1>1, <1>2, <1>3, GhostStep DEF Return

\* A client that starts to write nodes without the keys that are gone.
LEMMA GhostWrites ==
    ASSUME TypeInv, GhostInv, UNCHANGED <<db, call, unwanted>>, NEW c \in Client, NEW o,
           \A i \in Nat : i \in 1 .. Len(o) => Without(o[i].node, gone),
           Writes(c, o, EmptyFrame)
    PROVE  GhostInv'
<1>1. EmptyFrame.data \cap gone = {} /\ ~EmptyFrame.merge_on
  BY DEF EmptyFrame
<1>2. answer' = [answer EXCEPT ![c] = answer[c]] /\ (answer[c] # None => answer[c] \cap gone = {})
  BY DEF Writes, GhostInv
<1> QED
  BY <1>1, <1>2, GhostStep DEF Writes

\* A split writes none but the pairs it was given.
LEMMA SplitWithout ==
    ASSUME NEW leaf, NEW pairs, Splits(leaf, pairs), NEW keys, pairs \cap keys = {}
    PROVE  \A i \in Nat : i \in 1 .. Len(_do_split_insert(leaf, pairs)) =>
               Without(_do_split_insert(leaf, pairs)[i].node, keys)
<1> DEFINE a == Len(leaf.label)
           lcp == Lcp(pairs)
           L == Len(lcp)
           w == _do_split_insert(leaf, pairs)
           n == 3 * (L - a + 1)
<1>1. /\ a \in Nat /\ L \in Nat /\ a <= L
      /\ w = [i \in 1 .. n |-> w[i]]
  BY SplitEntries
<1>2. n \in Nat
  <2> HIDE DEF a, L
  <2> QED
    BY <1>1
<1>3. w \in Seq(SoundWrite)
  BY SplitWritesSound
<1>4. ASSUME NEW i \in 1 .. n
      PROVE  Without(w[i].node, keys)
  <2> DEFINE d == a + (i - 1) \div 3
  <2>1. /\ d \in a .. L
        /\ i % 3 \in {0, 1, 2}
        /\ i % 3 = 1 => w[i] = Publish(SplitKid(leaf, pairs, d, 0))
        /\ i % 3 = 2 => w[i] = Publish(SplitKid(leaf, pairs, d, 1))
        /\ i % 3 = 0 => w[i] = Publish(InternalNode(Prefix(lcp, d)))
    BY SplitEntries
  <2> HIDE DEF d, w, n
  <2>2. ASSUME NEW bit \in {0, 1}
        PROVE  Without(SplitKid(leaf, pairs, d, bit), keys)
    <3>1. SplitKid(leaf, pairs, d, bit).data = KidData(pairs, d, bit)
      BY <2>1, SplitKidProps
    <3>2. KidData(pairs, d, bit) \subseteq pairs
      BY DEF KidData
    <3> QED
      BY <3>1, <3>2 DEF Without
  <2>3. Without(InternalNode(Prefix(lcp, d)), keys)
    BY DEF Without, InternalNode, LeafNode
  <2>4. \A x : Publish(x).node = x
    BY DEF Publish, Put
  <2> QED
    BY <2>1, <2>2, <2>3, <2>4
<1> HIDE DEF w, n
<1>5. Len(w) = n
  BY <1>1, <1>2, <1>3
<1> QED
  BY <1>4, <1>5 DEF w

\* At a leaf, an insertion adds its own key, and a query takes some of the leaf's.
LEMMA GhostFound ==
    ASSUME TypeInv, KeysApart, GhostInv, UNCHANGED <<db, call, unwanted>>, NEW c \in Client,
           Searches(call[c], frame[c]), pc[c] \in {"bin", "lin"},
           NEW node \in SoundNode, Without(node, gone), NEW n \in Nat,
           node.label = Prefix(frame[c].str, n), Len(node.label) < BIT_DOMAIN, Found(c, node)
    PROVE  GhostInv'
<1>1. call[c] \in Call /\ call[c] # None /\ call[c].type # "delete"
  <2>1. call[c] \in Call
    BY DEF Searches
  <2>2. call[c] # None
    BY <2>1, DistinctAssumption
  <2> QED
    BY <2>1, <2>2 DEF GhostInv
<1>2. node.data \cap gone = {}
  <2>1. node # None
    BY DistinctAssumption DEF SoundNode
  <2> QED
    BY <2>1 DEF Without
<1>3. CASE call[c].type = "range"
  <2>1. Return(c, {k \in node.data : InRange(k, call[c].query)})
    BY <1>3 DEF Found
  <2> DEFINE r == {k \in node.data : InRange(k, call[c].query)}
  <2>2. r \cap gone = {} /\ Return(c, r)
    BY <1>2, <2>1
  <2> HIDE DEF r
  <2> QED
    BY <2>2, GhostReturn
<1>4. CASE call[c].type = "insert"
  <2> DEFINE key == call[c].key
             pairs == node.data \cup {key}
             new == [node EXCEPT !.data = @ \cup {key}]
  <2>1. key \in Key /\ frame[c].str = key.integral /\ key \notin gone
    BY <1>1, <1>4 DEF Searches, Call, KeysApart, Updates
  <2>2. Under(key.integral, node.label)
    BY <2>1, UnderPrefix, ConstantsAssumption DEF KeyString
  <2>3. Splits(node, pairs)
    BY <2>1, <2>2, NodeFacts DEF Splits
  <2>4. \/ Writes(c, <<Publish(new)>>, EmptyFrame)
        \/ Writes(c, _do_split_insert(node, pairs), EmptyFrame)
    BY <1>4 DEF Found
  <2>5. new.data = pairs
    BY NodeFacts DEF Node
  <2>6. pairs \cap gone = {}
    BY <1>2, <2>1
  <2> HIDE DEF new, pairs
  <2>7. CASE Writes(c, <<Publish(new)>>, EmptyFrame)
    <3> DEFINE o == <<Publish(new)>>
    <3>1. \A i \in Nat : i \in 1 .. Len(o) => o[i].node = new
      BY DEF Publish, Put
    <3>2. \A i \in Nat : i \in 1 .. Len(o) => Without(o[i].node, gone)
      BY <2>5, <2>6, <3>1 DEF Without
    <3> HIDE DEF o
    <3> QED
      BY <2>7, <3>2, GhostWrites DEF o
  <2>8. CASE Writes(c, _do_split_insert(node, pairs), EmptyFrame)
    BY <2>3, <2>6, <2>8, SplitWithout, GhostWrites
  <2> QED
    BY <2>4, <2>7, <2>8
<1> QED
  BY <1>1, <1>3, <1>4 DEF Call

\* A traversal takes some keys of the nodes it reads.
LEMMA GhostTraverse ==
    ASSUME TypeInv, GhostInv, UNCHANGED <<db, call, unwanted>>, NEW c \in Client, pc[c] # "write",
           NEW node, node # None, Without(node, gone), NEW todo, NEW data, data \cap gone = {},
           Traverse(c, node, todo, data)
    PROVE  GhostInv'
<1> DEFINE q == call[c].query
           Below(label) == IF Visits(label, q) THEN <<label>> ELSE <<>>
           found == IF node.is_leaf THEN data \cup {k \in node.data : InRange(k, q)} ELSE data
           rest == IF node.is_leaf THEN todo
                   ELSE Below(Append(node.label, 0)) \o Below(Append(node.label, 1)) \o todo
           f == [EmptyFrame EXCEPT !.todo = rest, !.data = found]
<1>1. \/ Return(c, found)
      \/ Goto(c, "visit", f)
  BY DEF Traverse
<1>2. found \cap gone = {}
  BY DEF Without
<1> HIDE DEF found, rest
<1>3. f.data = found
  BY DEF EmptyFrame
<1> HIDE DEF f
<1> QED
  BY <1>1, <1>2, <1>3, GhostGoto, GhostReturn

\* GhostInv is kept by the steps of a search.
LEMMA GhostSearch ==
    ASSUME TypeInv, KeysApart, GhostInv, NEW c \in Client,
           LookupStart(c) \/ LookupBin(c) \/ LookupLin(c) \/ Visit(c)
    PROVE  GhostInv'
<1>1. pc[c] \in {"start", "bin", "lin", "visit"} /\ UNCHANGED <<db, call, unwanted>>
  BY DEF LookupStart, LookupBin, LookupLin, Visit, At, Read
<1>2. ASSUME NEW x \in Label, dht_lookup(x) # None
      PROVE  /\ dht_lookup(x) \in SoundNode /\ dht_lookup(x).label = x
             /\ Without(dht_lookup(x), gone)
  BY <1>2, Looked DEF GhostInv
<1>3. frame[c].data \cap gone = {}
  BY DEF GhostInv
<1>4. CASE Fatal(c)
  <2>1. EmptyFrame.data \cap gone = {}
    BY DEF EmptyFrame
  <2> QED
    BY <1>1, <1>4, <2>1, GhostGoto DEF Fatal
<1>5. ASSUME NEW n \in Nat, pc[c] \in {"bin", "lin"}, n < BIT_DOMAIN \/ n < Len(frame[c].str) \/ n = 0,
             IsLeaf(dht_lookup(Prefix(frame[c].str, n))),
             Found(c, dht_lookup(Prefix(frame[c].str, n)))
      PROVE  GhostInv'
  <2> DEFINE str == frame[c].str
             x == Prefix(str, n)
             node == dht_lookup(x)
  <2>1. Searches(call[c], frame[c]) /\ str \in BitStrings(BIT_DOMAIN)
    BY <1>5, FrameOf DEF Stage, Frame
  <2>2. Len(str) \in Nat /\ Len(str) <= BIT_DOMAIN
    BY <2>1, BitStringIsSeq, WidthType
  <2>3. x \in BitStrings(BIT_DOMAIN) /\ Len(x) = IF n < Len(str) THEN n ELSE Len(str)
    <3> HIDE DEF str
    <3> QED
      BY <2>1, PrefixString, WidthType
  <2>4. Len(x) < BIT_DOMAIN
    <3> HIDE DEF x, str
    <3> QED
      BY <1>5, <2>2, <2>3, WidthType DEF str
  <2>5. x \in Label
    BY <2>3, LongerString, WidthType DEF Label
  <2>6. node \in SoundNode /\ node.label = x /\ Without(node, gone)
    BY <1>2, <1>5, <2>5 DEF IsLeaf
  <2>7. Found(c, node)
    BY <1>5
  <2> HIDE DEF node, x
  <2> QED
    BY <1>1, <1>5, <2>1, <2>4, <2>6, <2>7, GhostFound DEF x
<1>6. CASE LookupStart(c)
  <2> DEFINE x == frame[c].str
             node == dht_lookup(x)
  <2>1. x \in Label
    <3>1. x \in BitStrings(BIT_DOMAIN)
      BY FrameOf DEF Frame
    <3> QED
      BY <3>1, LongerString, WidthType DEF Label
  <2>2. \/ node # None /\ Traverse(c, node, <<>>, {})
        \/ Goto(c, "bin", frame[c])
    BY <1>6 DEF LookupStart
  <2>3. CASE node # None /\ Traverse(c, node, <<>>, {})
    <3>1. Without(node, gone) /\ {} \cap gone = {}
      BY <1>2, <2>1, <2>3
    <3> HIDE DEF node
    <3> QED
      BY <1>1, <2>3, <3>1, GhostTraverse
  <2> QED
    BY <1>1, <1>3, <2>2, <2>3, GhostGoto
<1>7. CASE LookupBin(c)
  <2> DEFINE f == frame[c]
             q == (f.p + f.r - 1) \div 2
             node == dht_lookup(Prefix(f.str, q))
             next == Narrowed(f, q, node)
  <2>1. pc[c] = "bin" /\ f.p \in Nat /\ f.r \in Nat /\ f.p < f.r /\ f.r <= BIT_DOMAIN
    BY <1>7, FrameOf DEF LookupBin, At, Stage, Frame
  <2>2. q \in Nat /\ q < BIT_DOMAIN
    BY <2>1, WidthType
  <2>3. \/ IsLeaf(node) /\ Found(c, node)
        \/ Goto(c, "bin", next) \/ Goto(c, "lin", next)
    BY <1>7 DEF LookupBin
  <2>4. next.data = f.data
    BY FrameOf DEF Narrowed, Frame
  <2> HIDE DEF next, q
  <2> QED
    BY <1>1, <1>3, <1>5, <2>1, <2>2, <2>3, <2>4, GhostGoto
<1>8. CASE LookupLin(c)
  <2> DEFINE f == frame[c]
             node == dht_lookup(Prefix(f.str, f.i))
             next == [f EXCEPT !.i = @ + 1]
  <2>1. pc[c] = "lin" /\ f.i \in Nat /\ (f.i = 0 \/ f.i < Len(f.str))
    BY <1>8, FrameOf DEF LookupLin, At, Stage, Frame
  <2>2. \/ IsLeaf(node) /\ Found(c, node)
        \/ Goto(c, "lin", next) \/ Fatal(c)
    BY <1>8 DEF LookupLin
  <2>3. next.data = f.data
    BY FrameOf DEF Frame
  <2> HIDE DEF next
  <2> QED
    BY <1>1, <1>3, <1>4, <1>5, <2>1, <2>2, <2>3, GhostGoto
<1>9. CASE Visit(c)
  <2> DEFINE f == frame[c]
             x == Head(f.todo)
             node == dht_lookup(x)
  <2>1. x \in Label
    <3>1. f.todo \in Seq(BitStrings(BIT_DOMAIN)) /\ f.todo # <<>>
      BY <1>9, FrameOf DEF Visit, At, Stage, Frame
    <3>2. x \in BitStrings(BIT_DOMAIN)
      BY <3>1
    <3> QED
      BY <3>2, LongerString, WidthType DEF Label
  <2>2. \/ Fatal(c)
        \/ node # None /\ Traverse(c, node, Tail(f.todo), f.data)
    BY <1>9 DEF Visit
  <2>3. CASE node # None /\ Traverse(c, node, Tail(f.todo), f.data)
    <3>1. Without(node, gone)
      BY <1>2, <2>1, <2>3
    <3> HIDE DEF node
    <3> QED
      BY <1>1, <1>3, <2>3, <3>1, GhostTraverse
  <2> QED
    BY <1>4, <2>2, <2>3
<1> QED
  BY <1>6, <1>7, <1>8, <1>9

\* GhostInv is kept by a write.
LEMMA GhostWrite ==
    ASSUME TypeInv, GhostInv, NEW c \in Client, Write(c)
    PROVE  GhostInv'
<1> DEFINE w == Head(out[c])
           rest == Tail(out[c])
<1>1. pc[c] = "write" /\ out[c] \in Seq(SoundWrite) /\ out[c] # <<>>
  BY FrameOf DEF Write, At, Stage
<1>2. /\ w = out[c][1] /\ 1 \in 1 .. Len(out[c]) /\ w \in SoundWrite
      /\ rest \in Seq(SoundWrite) /\ Len(rest) \in Nat
      /\ \A i \in 1 .. Len(rest) : i + 1 \in 1 .. Len(out[c]) /\ rest[i] = out[c][i + 1]
  BY <1>1
<1>3. ~frame[c].merge_on
  BY <1>1 DEF GhostInv
<1>4. /\ db' = [db EXCEPT ![w.at] = w.node] /\ call' = call /\ unwanted' = unwanted
      /\ Writes(c, rest, frame[c]) \/ Return(c, None)
  BY <1>3 DEF Write
<1>5. Without(w.node, gone)
  BY <1>2 DEF GhostInv
<1>6. \A i \in Nat : i \in 1 .. Len(rest) => Without(rest[i].node, gone)
  BY <1>2 DEF GhostInv
<1> HIDE DEF w, rest
<1>7. \A x \in Label \cup {Stray} : Without(db'[x], gone)
  BY <1>4, <1>5 DEF GhostInv, TypeInv, DbTyped
<1>8. gone' = gone
  BY <1>4 DEF Writes, Return, GhostInv
<1>9. \E a, f, o, r : /\ pc' = [pc EXCEPT ![c] = a] /\ frame' = [frame EXCEPT ![c] = f]
                      /\ out' = [out EXCEPT ![c] = o] /\ answer' = [answer EXCEPT ![c] = r]
                      /\ a \in {"write", "idle"} /\ ~f.merge_on /\ f.data \cap gone = {}
                      /\ r # None => r \cap gone = {}
                      /\ \A i \in Nat : i \in 1 .. Len(o) => Without(o[i].node, gone)
  <2>1. CASE Writes(c, rest, frame[c])
    <3>1. answer' = [answer EXCEPT ![c] = answer[c]] /\ (answer[c] # None => answer[c] \cap gone = {})
      BY <2>1 DEF Writes, GhostInv
    <3>2. frame[c].data \cap gone = {}
      BY DEF GhostInv
    <3> QED
      BY <1>3, <1>6, <2>1, <3>1, <3>2 DEF Writes
  <2>2. CASE Return(c, None)
    <3>1. ~EmptyFrame.merge_on /\ EmptyFrame.data \cap gone = {}
      BY DEF EmptyFrame
    <3>2. Len(<<>>) = 0
      OBVIOUS
    <3>3. \A i \in Nat : i \in 1 .. Len(<<>>) => Without(<<>>[i].node, gone)
      BY <3>2
    <3> QED
      BY <2>2, <3>1, <3>3 DEF Return
  <2> QED
    BY <1>4, <2>1, <2>2
<1>10. PICK a, f, o, r :
           /\ pc' = [pc EXCEPT ![c] = a] /\ frame' = [frame EXCEPT ![c] = f]
           /\ out' = [out EXCEPT ![c] = o] /\ answer' = [answer EXCEPT ![c] = r]
           /\ a \in {"write", "idle"} /\ ~f.merge_on /\ f.data \cap gone = {}
           /\ r # None => r \cap gone = {}
           /\ \A i \in Nat : i \in 1 .. Len(o) => Without(o[i].node, gone)
  BY <1>9
<1>11. \A e \in Client : /\ pc'[e] = IF e = c THEN a ELSE pc[e]
                         /\ frame'[e] = IF e = c THEN f ELSE frame[e]
                         /\ out'[e] = IF e = c THEN o ELSE out[e]
  BY <1>10 DEF TypeInv, LocalsTyped
<1>12. /\ \A e \in Client : answer'[e] = IF e = c THEN r ELSE answer[e]
       /\ answer' = [e \in Client |-> answer'[e]]
  <2> DEFINE before == [e \in Client |-> answer[e]]
  <2>1. answer = before
    BY DEF GhostInv
  <2>2. answer' = [before EXCEPT ![c] = r]
    BY <1>10, <2>1
  <2> QED
    BY <2>2
<1>13. \A e \in Client :
           /\ \A i \in Nat : i \in 1 .. Len(out'[e]) => Without(out'[e][i].node, gone')
           /\ frame'[e].data \cap gone' = {}
           /\ answer'[e] # None => answer'[e] \cap gone' = {}
           /\ unwanted'[e] \subseteq gone'
  BY <1>4, <1>8, <1>10, <1>11, <1>12 DEF GhostInv
<1>14. \A e \in Client :
           /\ call'[e] # None => call'[e].type # "delete"
           /\ pc'[e] \notin {"sibling", "parent", "left", "right", "cousin"}
           /\ pc'[e] = "write" => ~frame'[e].merge_on
  BY <1>4, <1>10, <1>11 DEF GhostInv
<1>15. unwanted' = [e \in Client |-> unwanted'[e]]
  BY <1>4 DEF GhostInv
<1> QED
  BY <1>7, <1>8, <1>12, <1>13, <1>14, <1>15 DEF GhostInv, Without

\* GhostInv is kept by a call that begins.
LEMMA GhostBegin ==
    ASSUME NoDeletes, TypeInv, GhostInv, NEW c \in Client, Begin(c)
    PROVE  GhostInv'
<1>1. PICK m \in Call :
          /\ m.type \in OpsOf[c] /\ call' = [call EXCEPT ![c] = m]
          /\ \/ /\ m.type # "range" /\ pc' = [pc EXCEPT ![c] = "bin"]
                /\ frame' = [frame EXCEPT ![c] =
                                [EmptyFrame EXCEPT !.str = m.key.integral, !.r = BIT_DOMAIN]]
                /\ gone' = IF m.type = "insert" THEN gone \ {m.key} ELSE gone
                /\ unwanted' = [e \in Client |->
                                 IF m.type = "insert" THEN unwanted[e] \ {m.key} ELSE unwanted[e]]
             \/ /\ m.type = "range" /\ pc' = [pc EXCEPT ![c] = "start"]
                /\ frame' = [frame EXCEPT ![c] =
                                [EmptyFrame EXCEPT !.str = get_lcp({m.query.min, m.query.max}),
                                                   !.r = BIT_DOMAIN]]
                /\ unwanted' = [unwanted EXCEPT ![c] = gone]
                /\ gone' = gone
  BY DEF Begin
<1>2. UNCHANGED <<db, out>> /\ answer' = [answer EXCEPT ![c] = None]
  BY DEF Begin
<1>3. PICK f, a : /\ frame' = [frame EXCEPT ![c] = f] /\ f.data = {}
                  /\ pc' = [pc EXCEPT ![c] = a] /\ a \in {"bin", "start"}
  <2>1. \A s, r : [EmptyFrame EXCEPT !.str = s, !.r = r].data = {}
    BY DEF EmptyFrame
  <2> QED
    BY <1>1, <2>1
<1>4. gone' \subseteq gone
  BY <1>1
<1>5. /\ \A e \in Client : unwanted'[e] \subseteq gone'
      /\ unwanted' = [e \in Client |-> unwanted'[e]]
  <2> DEFINE before == [e \in Client |-> unwanted[e]]
  <2>1. unwanted = before /\ \A e \in Client : unwanted[e] \subseteq gone
    BY DEF GhostInv
  <2>2. CASE /\ gone' = IF m.type = "insert" THEN gone \ {m.key} ELSE gone
             /\ unwanted' = [e \in Client |->
                                IF m.type = "insert" THEN unwanted[e] \ {m.key} ELSE unwanted[e]]
    BY <2>1, <2>2
  <2>3. CASE unwanted' = [unwanted EXCEPT ![c] = gone] /\ gone' = gone
    <3>1. unwanted' = [before EXCEPT ![c] = gone]
      BY <2>1, <2>3
    <3> QED
      BY <2>1, <2>3, <3>1
  <2> QED
    BY <1>1, <2>2, <2>3
<1>6. \A e \in Client : /\ call'[e] = IF e = c THEN m ELSE call[e]
                        /\ pc'[e] = IF e = c THEN a ELSE pc[e]
                        /\ frame'[e] = IF e = c THEN f ELSE frame[e]
  BY <1>1, <1>3 DEF TypeInv, LocalsTyped
<1>7. /\ \A e \in Client : answer'[e] = IF e = c THEN None ELSE answer[e]
      /\ answer' = [e \in Client |-> answer'[e]]
  <2> DEFINE before == [e \in Client |-> answer[e]]
  <2>1. answer = before
    BY DEF GhostInv
  <2>2. answer' = [before EXCEPT ![c] = None]
    BY <1>2, <2>1
  <2> QED
    BY <2>2
<1>8. \A n : Without(n, gone) => Without(n, gone')
  BY <1>4 DEF Without
<1>9. \A x \in Label \cup {Stray} : Without(db'[x], gone')
  BY <1>2, <1>8 DEF GhostInv
<1>10. \A e \in Client :
           /\ \A i \in Nat : i \in 1 .. Len(out'[e]) => Without(out'[e][i].node, gone')
           /\ frame'[e].data \cap gone' = {}
           /\ answer'[e] # None => answer'[e] \cap gone' = {}
  BY <1>2, <1>3, <1>4, <1>6, <1>7, <1>8 DEF GhostInv
<1>11. m.type # "delete"
  BY <1>1 DEF NoDeletes
<1>12. \A e \in Client :
           /\ call'[e] # None => call'[e].type # "delete"
           /\ pc'[e] \notin {"sibling", "parent", "left", "right", "cousin"}
           /\ pc'[e] = "write" => ~frame'[e].merge_on
  BY <1>3, <1>6, <1>11 DEF GhostInv
<1> QED
  BY <1>5, <1>7, <1>9, <1>10, <1>12 DEF GhostInv, Without

\* GhostInv is kept by every step.
LEMMA GhostNext ==
    ASSUME NoDeletes, TypeInv, KeysApart, GhostInv, [Next]_vars
    PROVE  GhostInv'
<1>1. CASE UNCHANGED vars
  BY <1>1 DEF vars, GhostInv, Without
<1>2. ASSUME NEW c \in Client, Crash(c)
      PROVE  GhostInv'
  BY <1>2 DEF Crash, GhostInv, Without
<1>3. ASSUME NEW c \in Client, InitTrie(c)
      PROVE  GhostInv'
  <2>1. UNCHANGED <<db, call, unwanted>>
    BY <1>3 DEF InitTrie, Read
  <2>2. CASE Return(c, None)
    BY <2>1, <2>2, GhostReturn
  <2>3. CASE Writes(c, <<Publish(LeafNode(<<>>))>>, EmptyFrame)
    <3> DEFINE o == <<Publish(LeafNode(<<>>))>>
    <3>1. \A i \in Nat : i \in 1 .. Len(o) => o[i].node = LeafNode(<<>>)
      BY DEF Publish, Put
    <3>2. \A i \in Nat : i \in 1 .. Len(o) => Without(o[i].node, gone)
      BY <3>1 DEF Without, LeafNode
    <3> HIDE DEF o
    <3> QED
      BY <2>1, <2>3, <3>2, GhostWrites DEF o
  <2> QED
    BY <1>3, <2>2, <2>3 DEF InitTrie
<1>4. ASSUME NEW c \in Client,
             ReadSibling(c) \/ ReadParent(c) \/ ReadLeft(c) \/ ReadRight(c) \/ ReadCousin(c)
      PROVE  GhostInv'
  BY <1>4 DEF ReadSibling, ReadParent, ReadLeft, ReadRight, ReadCousin, At, GhostInv
<1> QED
  BY <1>1, <1>2, <1>3, <1>4, GhostBegin, GhostWrite, GhostSearch DEF Next, Proceed

\* GhostInv holds in every behaviour.
LEMMA GhostCorrect ==
    ASSUME NoDeletes
    PROVE  Spec => []GhostInv
<1>1. Init => GhostInv
  <2> SUFFICES ASSUME Init PROVE GhostInv
    OBVIOUS
  <2>1. \A x \in Label \cup {Stray} : db[x] = LeafNode(<<>>) \/ db[x] = None
    BY DEF Init
  <2>2. LeafNode(<<>>).data = {} /\ EmptyFrame.data = {}
    BY DEF LeafNode, EmptyFrame
  <2>3. \A x \in Label \cup {Stray} : Without(db[x], gone)
    BY <2>1, <2>2 DEF Without
  <2>4. \A c \in Client : /\ out[c] = <<>> /\ frame[c] = EmptyFrame /\ answer[c] = None
                          /\ unwanted[c] = {} /\ call[c] = None /\ pc[c] = "init"
    BY DEF Init
  <2>5. answer = [c \in Client |-> answer[c]] /\ unwanted = [c \in Client |-> unwanted[c]]
    BY DEF Init
  <2> QED
    BY <2>2, <2>3, <2>4, <2>5 DEF GhostInv
<1>2. TypeInv /\ KeysApart /\ GhostInv /\ [Next]_vars => GhostInv'
  BY GhostNext
<1> QED
  BY <1>1, <1>2, TypeCorrect, PTL DEF Spec

\* No query returns a key that was out of the trie all the time it ran.
NoGhosts == \A c \in Client : answer[c] # None => answer[c] \cap unwanted[c] = {}

\* However many clients insert and query, whoever stops, and however deep the splits:
\* a query returns no key whose insertion had not at least begun when it returned.
THEOREM NoGhostsCorrect ==
    ASSUME NoDeletes
    PROVE  Spec => []NoGhosts
<1>1. GhostInv => NoGhosts
  BY DEF GhostInv, NoGhosts
<1> QED
  BY <1>1, GhostCorrect, PTL

-----------------------------------------------------------------------------
\* How deep the trie gets

\* A node, if it is one, whose label has at most m bits.
Low(m, n) == n # None => Len(n.label) <= m /\ IsFiniteSet(n.data)

LowWrite(m) == {w \in SoundWrite : Low(m, w.node)}

LowFrame(m, f) ==
    /\ Low(m, f.leaf) /\ Low(m, f.sib) /\ Low(m, f.parent)
    /\ Low(m, f.l_nbr) /\ Low(m, f.r_nbr) /\ IsFiniteSet(f.pairs)

\* No node is deeper than m, in the database, on its way there, or in the hands of a client.
DepthInv(m) ==
    /\ \A x \in Label \cup {Stray} : Low(m, db[x])
    /\ \A c \in Client : LowFrame(m, frame[c]) /\ out[c] \in Seq(LowWrite(m))

\* A split ends where the first m bits tell two of its keys apart.
LEMMA SplitLow ==
    ASSUME NEW m \in 0 .. BIT_DOMAIN, FewWithin(m), NEW leaf, NEW pairs, Splits(leaf, pairs),
           IsFiniteSet(pairs), B < Cardinality(pairs)
    PROVE  _do_split_insert(leaf, pairs) \in Seq(LowWrite(m))
<1> DEFINE a == Len(leaf.label)
           lcp == Lcp(pairs)
           L == Len(lcp)
           w == _do_split_insert(leaf, pairs)
           n == 3 * (L - a + 1)
<1>1. /\ a \in Nat /\ L \in Nat /\ a <= L /\ L <= BIT_DOMAIN
      /\ w = [i \in 1 .. n |-> w[i]]
  BY SplitEntries
<1>2. n \in Nat
  <2> HIDE DEF a, L
  <2> QED
    BY <1>1
<1>3. w \in Seq(SoundWrite)
  BY SplitWritesSound
<1>4. /\ lcp \in BitStrings(BIT_DOMAIN)
      /\ \A k \in pairs : Under(k.integral, lcp)
  BY SplitPrefix DEF Splits, Lcp
<1>5. L + 1 <= m
  <2>1. pairs \in SUBSET Key
    BY DEF Splits
  <2>2. PICK k \in pairs, l \in pairs, i \in 1 .. m : k.integral[i] # l.integral[i]
    BY <2>1 DEF FewWithin
  <2>3. i \in 1 .. BIT_DOMAIN
    BY WidthType
  <2>4. ~(i <= L)
    BY <1>4, <2>2, <2>3 DEF Under
  <2> HIDE DEF L
  <2> QED
    BY <1>1, <2>3, <2>4
<1>6. ASSUME NEW d \in a .. L, NEW bit \in {0, 1}
      PROVE  Low(m, SplitKid(leaf, pairs, d, bit))
  <2>1. /\ SplitKid(leaf, pairs, d, bit).label = Append(Prefix(lcp, d), bit)
        /\ SplitKid(leaf, pairs, d, bit).data = KidData(pairs, d, bit)
    BY SplitKidProps DEF KidLabel
  <2>2. IsFiniteSet(KidData(pairs, d, bit))
    <3>1. {k \in pairs : Goes(k, d, bit)} \in SUBSET pairs
      OBVIOUS
    <3> QED
      BY <3>1, FS_Subset, FS_EmptySet DEF KidData
  <2>3. d \in Nat /\ d <= L
    <3> HIDE DEF a, L
    <3> QED
      BY <1>1
  <2>4. Prefix(lcp, d) \in Seq({0, 1}) /\ Len(Prefix(lcp, d)) = d
    <3>1. Prefix(lcp, d) \in BitStrings(BIT_DOMAIN) /\ Len(Prefix(lcp, d)) = IF d < L THEN d ELSE L
      <4> HIDE DEF lcp
      <4> QED
        BY <1>4, <2>3, PrefixString, WidthType
    <3> HIDE DEF L
    <3> QED
      BY <1>1, <2>3, <3>1, BitStringIsSeq, WidthType
  <2>5. Len(Append(Prefix(lcp, d), bit)) = d + 1
    <3> HIDE DEF lcp
    <3> QED
      BY <2>4
  <2> HIDE DEF L, a
  <2> QED
    BY <1>1, <1>5, <2>1, <2>2, <2>3, <2>5 DEF Low
<1>7. ASSUME NEW d \in a .. L
      PROVE  Low(m, InternalNode(Prefix(lcp, d)))
  <2>1. /\ InternalNode(Prefix(lcp, d)).label = Prefix(lcp, d)
        /\ InternalNode(Prefix(lcp, d)).data = {}
    BY DEF InternalNode, LeafNode
  <2>2. d \in Nat /\ d <= L
    <3> HIDE DEF a, L
    <3> QED
      BY <1>1
  <2>3. Len(Prefix(lcp, d)) = IF d < L THEN d ELSE L
    <3> HIDE DEF lcp
    <3> QED
      BY <1>4, <2>2, PrefixString, WidthType
  <2> HIDE DEF L, a
  <2> QED
    BY <1>1, <1>5, <2>1, <2>2, <2>3, FS_EmptySet DEF Low
<1>8. ASSUME NEW i \in 1 .. n
      PROVE  w[i] \in LowWrite(m)
  <2> DEFINE d == a + (i - 1) \div 3
  <2>1. /\ d \in a .. L
        /\ i % 3 \in {0, 1, 2}
        /\ i % 3 = 1 => w[i] = Publish(SplitKid(leaf, pairs, d, 0))
        /\ i % 3 = 2 => w[i] = Publish(SplitKid(leaf, pairs, d, 1))
        /\ i % 3 = 0 => w[i] = Publish(InternalNode(Prefix(lcp, d)))
    BY SplitEntries
  <2> HIDE DEF d, w, n
  <2>2. \A x : Publish(x).node = x
    BY DEF Publish, Put
  <2>3. Low(m, w[i].node)
    BY <1>6, <1>7, <2>1, <2>2
  <2>4. w[i] \in SoundWrite
    BY <1>1, <1>2, <1>3
  <2> QED
    BY <2>3, <2>4 DEF LowWrite
<1> HIDE DEF w, n
<1>9. w \in [1 .. n -> LowWrite(m)]
  BY <1>1, <1>8
<1>10. w \in Seq(LowWrite(m))
  BY <1>2, <1>9
<1> QED
  BY <1>10 DEF w

\* One client's variables change, and one node of the database at most.
LEMMA DepthStep ==
    ASSUME NEW m, TypeInv, DepthInv(m), NEW c \in Client, NEW f, NEW o \in Seq(LowWrite(m)),
           LowFrame(m, f), frame' = [frame EXCEPT ![c] = f], out' = [out EXCEPT ![c] = o],
           \A x \in Label \cup {Stray} : Low(m, db'[x])
    PROVE  DepthInv(m)'
<1>1. \A e \in Client : /\ frame'[e] = IF e = c THEN f ELSE frame[e]
                        /\ out'[e] = IF e = c THEN o ELSE out[e]
  BY DEF TypeInv, LocalsTyped
<1>2. \A e \in Client : LowFrame(m, frame'[e]) /\ out'[e] \in Seq(LowWrite(m))
  BY <1>1 DEF DepthInv
<1> QED
  BY <1>2 DEF DepthInv, Low, LowFrame, LowWrite

\* The frame a call starts with, and ends with, holds no node.
LEMMA EmptyLow ==
    ASSUME NEW m
    PROVE  LowFrame(m, EmptyFrame) /\ Low(m, None) /\ <<>> \in Seq(LowWrite(m))
<1>1. <<>> \in Seq(LowWrite(m))
  OBVIOUS
<1> QED
  BY <1>1, FS_EmptySet DEF LowFrame, EmptyFrame, Low

\* A client that goes on reading.
LEMMA DepthGoto ==
    ASSUME NEW m, TypeInv, DepthInv(m), NEW c \in Client, NEW a, NEW f, LowFrame(m, f),
           Goto(c, a, f), UNCHANGED db
    PROVE  DepthInv(m)'
<1>1. out' = [out EXCEPT ![c] = out[c]] /\ out[c] \in Seq(LowWrite(m))
  BY DEF Goto, TypeInv, LocalsTyped, DepthInv
<1>2. \A x \in Label \cup {Stray} : Low(m, db'[x])
  BY DEF DepthInv
<1> QED
  BY <1>1, <1>2, DepthStep DEF Goto

\* A client that starts to write.
LEMMA DepthWrites ==
    ASSUME NEW m, TypeInv, DepthInv(m), NEW c \in Client, NEW f, LowFrame(m, f),
           NEW o \in Seq(LowWrite(m)), Writes(c, o, f), UNCHANGED db
    PROVE  DepthInv(m)'
<1>1. \A x \in Label \cup {Stray} : Low(m, db'[x])
  BY DEF DepthInv
<1> QED
  BY <1>1, DepthStep DEF Writes

\* A client that returns.
LEMMA DepthReturn ==
    ASSUME NEW m, TypeInv, DepthInv(m), NEW c \in Client, NEW result, Return(c, result),
           UNCHANGED db
    PROVE  DepthInv(m)'
<1>1. \A x \in Label \cup {Stray} : Low(m, db'[x])
  BY DEF DepthInv
<1> QED
  BY <1>1, EmptyLow, DepthStep DEF Return

\* A client whose call throws.
LEMMA DepthFatal ==
    ASSUME NEW m, TypeInv, DepthInv(m), NEW c \in Client, Fatal(c), UNCHANGED db
    PROVE  DepthInv(m)'
BY EmptyLow, DepthGoto DEF Fatal

\* A node that is published low is a low write.
LEMMA LowPublish ==
    ASSUME NEW m, NEW n \in SoundNode, Low(m, n)
    PROVE  <<Publish(n)>> \in Seq(LowWrite(m))
<1>1. Publish(n) \in SoundWrite /\ Publish(n).node = n
  BY SoundPublish DEF Publish, Put
<1>2. Publish(n) \in LowWrite(m)
  BY <1>1 DEF LowWrite
<1> QED
  BY <1>2

\* What a client does at the leaf it looked for keeps the depth.
LEMMA DepthFound ==
    ASSUME NEW m \in 0 .. BIT_DOMAIN, FewWithin(m), TypeInv, DepthInv(m), NEW c \in Client,
           Searches(call[c], frame[c]), NEW node \in SoundNode, Low(m, node), NEW n \in Nat,
           node.label = Prefix(frame[c].str, n), Len(node.label) < BIT_DOMAIN,
           Found(c, node), UNCHANGED db
    PROVE  DepthInv(m)'
<1>1. Len(node.label) <= m /\ IsFiniteSet(node.data)
  <2>1. node # None
    BY NodeFacts, DistinctAssumption
  <2> QED
    BY <2>1 DEF Low
<1>2. CASE call[c].type = "insert"
  <2> DEFINE key == call[c].key
             pairs == node.data \cup {key}
             new == [node EXCEPT !.data = @ \cup {key}]
  <2>1. key \in Key /\ frame[c].str = key.integral
    BY <1>2 DEF Searches, Call
  <2>2. Under(key.integral, node.label)
    <3>1. frame[c].str \in KeyString
      BY <2>1, ConstantsAssumption DEF KeyString
    <3> QED
      BY <2>1, <3>1, UnderPrefix
  <2>3. Splits(node, pairs)
    BY <2>1, <2>2, NodeFacts DEF Splits
  <2>4. /\ IsFiniteSet(pairs) /\ Cardinality(node.data) \in Nat
        /\ Cardinality(pairs) = IF key \in node.data THEN Cardinality(node.data)
                                ELSE Cardinality(node.data) + 1
    BY <1>1, FS_AddElement, FS_CardinalityType
  <2>5. new \in SoundNode /\ new.data = pairs /\ new.label = node.label
    <3>1. new \in Node /\ new.label = node.label /\ new.data = pairs
      BY <2>1, NodeFacts DEF Node
    <3> HIDE DEF new
    <3> QED
      BY <2>3, <3>1 DEF SoundNode, Splits
  <2>6. \/ Writes(c, <<Publish(new)>>, EmptyFrame)
        \/ /\ key \notin node.data /\ ~(Cardinality(node.data) < B)
           /\ Writes(c, _do_split_insert(node, pairs), EmptyFrame)
    BY <1>2 DEF Found, Fits, size
  <2> HIDE DEF new, pairs
  <2>7. CASE Writes(c, <<Publish(new)>>, EmptyFrame)
    <3>1. Low(m, new)
      BY <1>1, <2>4, <2>5 DEF Low
    <3> QED
      BY <2>5, <2>7, <3>1, LowPublish, EmptyLow, DepthWrites
  <2>8. CASE /\ key \notin node.data /\ ~(Cardinality(node.data) < B)
             /\ Writes(c, _do_split_insert(node, pairs), EmptyFrame)
    <3>1. B < Cardinality(pairs)
      BY <2>4, <2>8, WidthType
    <3>2. _do_split_insert(node, pairs) \in Seq(LowWrite(m))
      BY <2>3, <2>4, <3>1, SplitLow
    <3> QED
      BY <2>8, <3>2, EmptyLow, DepthWrites
  <2> QED
    BY <2>6, <2>7, <2>8
<1>3. CASE call[c].type = "delete"
  <2> DEFINE leaf == [node EXCEPT !.data = @ \ {call[c].key}]
             f == [EmptyFrame EXCEPT !.leaf = leaf]
  <2>1. Return(c, None) \/ Goto(c, "sibling", f)
    BY <1>3 DEF Found
  <2>2. leaf.label = node.label /\ leaf.data \in SUBSET node.data
    BY NodeFacts DEF Node
  <2> HIDE DEF leaf
  <2>3. Low(m, leaf)
    BY <1>1, <2>2, FS_Subset DEF Low
  <2>4. /\ f.leaf = leaf /\ f.sib = None /\ f.parent = None /\ f.l_nbr = None
        /\ f.r_nbr = None /\ f.pairs = {}
    BY DEF EmptyFrame
  <2> HIDE DEF f
  <2>5. LowFrame(m, f)
    BY <2>3, <2>4, EmptyLow, FS_EmptySet DEF LowFrame
  <2> QED
    BY <2>1, <2>5, DepthReturn, DepthGoto
<1>4. CASE call[c].type = "range"
  BY <1>4, DepthReturn DEF Found
<1> QED
  BY <1>2, <1>3, <1>4 DEF Found

\* A traversal writes nothing.
LEMMA DepthTraverse ==
    ASSUME NEW m, TypeInv, DepthInv(m), NEW c \in Client, NEW node, NEW todo, NEW data,
           Traverse(c, node, todo, data), UNCHANGED db
    PROVE  DepthInv(m)'
<1>1. \A t, d : LowFrame(m, [EmptyFrame EXCEPT !.todo = t, !.data = d])
  BY FS_EmptySet DEF LowFrame, Low, EmptyFrame
<1> QED
  BY <1>1, DepthGoto, DepthReturn DEF Traverse

\* DepthInv is kept by the steps of a search, the update at its end included.
LEMMA DepthSearch ==
    ASSUME NEW m \in 0 .. BIT_DOMAIN, FewWithin(m), TypeInv, DepthInv(m), NEW c \in Client,
           LookupStart(c) \/ LookupBin(c) \/ LookupLin(c) \/ Visit(c)
    PROVE  DepthInv(m)'
<1>1. UNCHANGED db /\ LowFrame(m, frame[c])
  BY DEF LookupStart, LookupBin, LookupLin, Visit, Read, DepthInv
<1>2. ASSUME NEW n \in Nat, pc[c] \in {"bin", "lin"}, n < BIT_DOMAIN \/ n < Len(frame[c].str) \/ n = 0,
             IsLeaf(dht_lookup(Prefix(frame[c].str, n))),
             Found(c, dht_lookup(Prefix(frame[c].str, n)))
      PROVE  DepthInv(m)'
  <2> DEFINE str == frame[c].str
             x == Prefix(str, n)
             node == dht_lookup(x)
  <2>1. Searches(call[c], frame[c]) /\ str \in BitStrings(BIT_DOMAIN)
    BY <1>2, FrameOf DEF Stage, Frame
  <2>2. Len(str) \in Nat /\ Len(str) <= BIT_DOMAIN
    BY <2>1, BitStringIsSeq, WidthType
  <2>3. x \in BitStrings(BIT_DOMAIN) /\ Len(x) = IF n < Len(str) THEN n ELSE Len(str)
    <3> HIDE DEF str
    <3> QED
      BY <2>1, PrefixString, WidthType
  <2>4. Len(x) < BIT_DOMAIN
    <3> HIDE DEF x, str
    <3> QED
      BY <1>2, <2>2, <2>3, WidthType DEF str
  <2>5. x \in Label
    BY <2>3, LongerString, WidthType DEF Label
  <2>6. node \in SoundNode /\ node.label = x /\ node = db[x]
    BY <1>2, <2>5, Looked DEF IsLeaf
  <2>7. Low(m, node)
    BY <2>5, <2>6 DEF DepthInv
  <2>8. Found(c, node)
    BY <1>2
  <2> HIDE DEF node, x
  <2> QED
    BY <1>1, <2>1, <2>4, <2>6, <2>7, <2>8, DepthFound DEF x
<1>3. CASE LookupStart(c)
  <2>1. \/ Traverse(c, dht_lookup(frame[c].str), <<>>, {})
        \/ Goto(c, "bin", frame[c])
    BY <1>3 DEF LookupStart
  <2> QED
    BY <1>1, <2>1, DepthTraverse, DepthGoto
<1>4. CASE LookupBin(c)
  <2> DEFINE f == frame[c]
             q == (f.p + f.r - 1) \div 2
             node == dht_lookup(Prefix(f.str, q))
             next == Narrowed(f, q, node)
  <2>1. pc[c] = "bin" /\ f.p \in Nat /\ f.r \in Nat /\ f.p < f.r /\ f.r <= BIT_DOMAIN
    BY <1>4, FrameOf DEF LookupBin, At, Stage, Frame
  <2>2. q \in Nat /\ q < BIT_DOMAIN
    BY <2>1, WidthType
  <2>3. \/ IsLeaf(node) /\ Found(c, node)
        \/ Goto(c, "bin", next) \/ Goto(c, "lin", next)
    BY <1>4 DEF LookupBin
  <2>4. LowFrame(m, next)
    <3>1. /\ next.leaf = f.leaf /\ next.sib = f.sib /\ next.parent = f.parent
          /\ next.l_nbr = f.l_nbr /\ next.r_nbr = f.r_nbr /\ next.pairs = f.pairs
      BY FrameOf DEF Narrowed, Frame
    <3> HIDE DEF next
    <3> QED
      BY <1>1, <3>1 DEF LowFrame
  <2> HIDE DEF next, q
  <2> QED
    BY <1>1, <1>2, <2>1, <2>2, <2>3, <2>4, DepthGoto
<1>5. CASE LookupLin(c)
  <2> DEFINE f == frame[c]
             node == dht_lookup(Prefix(f.str, f.i))
             next == [f EXCEPT !.i = @ + 1]
  <2>1. pc[c] = "lin" /\ f.i \in Nat /\ (f.i = 0 \/ f.i < Len(f.str))
    BY <1>5, FrameOf DEF LookupLin, At, Stage, Frame
  <2>2. \/ IsLeaf(node) /\ Found(c, node)
        \/ Goto(c, "lin", next) \/ Fatal(c)
    BY <1>5 DEF LookupLin
  <2>3. LowFrame(m, next)
    <3>1. /\ next.leaf = f.leaf /\ next.sib = f.sib /\ next.parent = f.parent
          /\ next.l_nbr = f.l_nbr /\ next.r_nbr = f.r_nbr /\ next.pairs = f.pairs
      BY FrameOf DEF Frame
    <3> HIDE DEF next
    <3> QED
      BY <1>1, <3>1 DEF LowFrame
  <2> HIDE DEF next
  <2> QED
    BY <1>1, <1>2, <2>1, <2>2, <2>3, DepthGoto, DepthFatal
<1>6. CASE Visit(c)
  <2>1. \/ Fatal(c)
        \/ Traverse(c, dht_lookup(Head(frame[c].todo)), Tail(frame[c].todo), frame[c].data)
    BY <1>6 DEF Visit
  <2> QED
    BY <1>1, <2>1, DepthTraverse, DepthFatal
<1> QED
  BY <1>3, <1>4, <1>5, <1>6

\* A node read from the database is low.
LEMMA LookedLow ==
    ASSUME NEW m, DepthInv(m), NEW x \in Label \cup {None}
    PROVE  Low(m, dht_lookup(x))
BY DEF DepthInv, dht_lookup, Low

\* The reads of a merge keep the depth: up to its writes it goes towards the root.
LEMMA DepthReads ==
    ASSUME NEW m \in Nat, TypeInv, DepthInv(m), NEW c \in Client,
           ReadSibling(c) \/ ReadParent(c) \/ ReadLeft(c) \/ ReadRight(c)
    PROVE  DepthInv(m)'
<1> DEFINE f == frame[c]
<1>1. /\ UNCHANGED db
      /\ pc[c] \in {"sibling", "parent", "left", "right"}
      /\ pc[c] # "sibling" => ~ReadSibling(c)
  BY DEF ReadSibling, ReadParent, ReadLeft, ReadRight, Read, At
<1>2. f \in Frame /\ f.leaf \in SoundNode /\ (pc[c] # "sibling" => Merging(f))
  BY <1>1, FrameOf DEF Stage, Merging
<1>3. LowFrame(m, f)
  BY DEF DepthInv
<1>4. CASE ReadSibling(c)
  <2> DEFINE sib == dht_lookup(get_sibling_label(f.leaf))
             g == [f EXCEPT !.sib = sib, !.pairs = f.leaf.data \cup sib.data]
  <2>1. \/ Writes(c, <<Publish(f.leaf)>>, EmptyFrame)
        \/ sib # None /\ Goto(c, "parent", g)
    BY <1>4 DEF ReadSibling, Merges, IsLeaf
  <2>2. <<Publish(f.leaf)>> \in Seq(LowWrite(m))
    BY <1>2, <1>3, LowPublish DEF LowFrame
  <2>3. Low(m, sib)
    <3>1. get_sibling_label(f.leaf) \in Label \cup {None}
      BY <1>2, SiblingLabel
    <3> QED
      BY <3>1, LookedLow
  <2> HIDE DEF sib
  <2>4. ASSUME sib # None PROVE LowFrame(m, g)
    <3>1. IsFiniteSet(f.leaf.data \cup sib.data)
      <4>1. f.leaf # None
        BY <1>2, NodeFacts, DistinctAssumption
      <4>2. IsFiniteSet(f.leaf.data) /\ IsFiniteSet(sib.data)
        BY <1>3, <2>3, <2>4, <4>1 DEF LowFrame, Low
      <4> QED
        BY <4>2, FS_Union
    <3>2. /\ g.leaf = f.leaf /\ g.sib = sib /\ g.parent = f.parent
          /\ g.l_nbr = f.l_nbr /\ g.r_nbr = f.r_nbr /\ g.pairs = f.leaf.data \cup sib.data
      BY <1>2 DEF Frame
    <3> HIDE DEF g, f
    <3> QED
      BY <1>3, <2>3, <3>1, <3>2 DEF LowFrame
  <2> HIDE DEF g
  <2> QED
    BY <1>1, <2>1, <2>2, <2>4, EmptyLow, DepthWrites, DepthGoto
<1>5. CASE ReadParent(c)
  <2> DEFINE parent == dht_lookup(get_parent_label(f.leaf))
             new == [parent EXCEPT !.is_leaf = TRUE]
             g == [f EXCEPT !.parent = new]
  <2>1. pc[c] = "parent"
    BY <1>5 DEF ReadParent, At
  <2>2. ASSUME parent # None PROVE LowFrame(m, g)
    <3>1. get_parent_label(f.leaf) \in Label
      BY <1>2, <2>1, ParentLabel DEF Merging
    <3>2. parent \in SoundNode /\ Low(m, parent)
      BY <2>2, <3>1, Looked, LookedLow
    <3> HIDE DEF parent
    <3>3. new.label = parent.label /\ new.data = parent.data
      BY <3>2, NodeFacts DEF Node
    <3> HIDE DEF new
    <3>4. Low(m, new)
      BY <2>2, <3>2, <3>3 DEF Low
    <3>5. /\ g.leaf = f.leaf /\ g.sib = f.sib /\ g.parent = new
          /\ g.l_nbr = f.l_nbr /\ g.r_nbr = f.r_nbr /\ g.pairs = f.pairs
      BY <1>2 DEF Frame
    <3> HIDE DEF g, f
    <3> QED
      BY <1>3, <3>4, <3>5 DEF LowFrame
  <2> HIDE DEF g, parent
  <2> QED
    BY <1>1, <1>5, <2>2, DepthFatal, DepthGoto DEF ReadParent, g, parent
<1>6. ASSUME NEW x \in Label \cup {None}, NEW a, NEW g,
             g \in {[f EXCEPT !.l_nbr = dht_lookup(x)], [f EXCEPT !.r_nbr = dht_lookup(x)]},
             Goto(c, a, g)
      PROVE  DepthInv(m)'
  <2>1. Low(m, dht_lookup(x))
    BY LookedLow
  <2>2. /\ g.leaf = f.leaf /\ g.sib = f.sib /\ g.parent = f.parent /\ g.pairs = f.pairs
        /\ g.l_nbr \in {f.l_nbr, dht_lookup(x)} /\ g.r_nbr \in {f.r_nbr, dht_lookup(x)}
    BY <1>2, <1>6 DEF Frame
  <2>3. LowFrame(m, g)
    BY <1>3, <2>1, <2>2 DEF LowFrame
  <2> QED
    BY <1>1, <1>6, <2>3, DepthGoto
<1>7. CASE ReadLeft(c)
  <2> DEFINE n == IF LastBit(f.leaf) = 0 THEN f.leaf ELSE f.sib
  <2>1. pc[c] = "left" /\ Goto(c, "right", [f EXCEPT !.l_nbr = dht_lookup(n.l_ptr)])
    BY <1>7 DEF ReadLeft, At
  <2>2. n.l_ptr \in Label \cup {None}
    BY <1>2, <2>1, NodeFacts DEF Merging
  <2> HIDE DEF n, f
  <2> QED
    BY <1>6, <2>1, <2>2
<1>8. CASE ReadRight(c)
  <2> DEFINE n == IF LastBit(f.leaf) = 1 THEN f.leaf ELSE f.sib
  <2>1. pc[c] = "right" /\ Goto(c, "cousin", [f EXCEPT !.r_nbr = dht_lookup(n.r_ptr)])
    BY <1>8 DEF ReadRight, At
  <2>2. n.r_ptr \in Label \cup {None}
    BY <1>2, <2>1, NodeFacts DEF Merging
  <2> HIDE DEF n, f
  <2> QED
    BY <1>6, <2>1, <2>2
<1> QED
  BY <1>4, <1>5, <1>7, <1>8

\* What a merge writes is no deeper than what it read.
LEMMA MergeLow ==
    ASSUME NEW m, NEW f \in Frame, Merging(f), LowFrame(m, f),
           NEW parent \in SoundNode, Low(m, parent)
    PROVE  MergeWrites(f, parent) \in Seq(LowWrite(m))
<1>1. f.l_nbr \in SoundNode \cup {None} /\ f.r_nbr \in SoundNode \cup {None}
  BY DEF Frame
<1>2. parent.label \in Label
  BY NodeFacts
<1> DEFINE one == <<Publish(parent), Put(f.leaf.label, None)>>
           l == [f.l_nbr EXCEPT !.r_ptr = parent.label]
           r == [f.r_nbr EXCEPT !.l_ptr = parent.label]
           two == IF f.l_nbr = None THEN <<>> ELSE <<Publish(l)>>
           three == IF f.r_nbr = None THEN <<>> ELSE <<Put(Stray, r)>>
<1>3. one \in Seq(LowWrite(m))
  <2>1. Publish(parent) \in LowWrite(m)
    <3>1. Publish(parent).node = parent
      BY DEF Publish, Put
    <3> QED
      BY <3>1, SoundPublish DEF LowWrite
  <2>2. Put(f.leaf.label, None) \in LowWrite(m)
    <3>1. Put(f.leaf.label, None) \in SoundWrite /\ Put(f.leaf.label, None).node = None
      BY NodeFacts DEF Merging, Put, SoundWrite
    <3> QED
      BY <3>1 DEF LowWrite, Low
  <2> QED
    BY <2>1, <2>2
<1>4. two \in Seq(LowWrite(m))
  <2>1. ASSUME f.l_nbr # None PROVE l \in SoundNode /\ Low(m, l)
    <3>1. l \in Node /\ l.label = f.l_nbr.label /\ l.data = f.l_nbr.data
      BY <1>1, <1>2, <2>1, NodeFacts DEF Node
    <3> HIDE DEF l
    <3>2. l \in SoundNode
      BY <1>1, <2>1, <3>1, NodeFacts DEF SoundNode
    <3> QED
      BY <2>1, <3>1, <3>2 DEF LowFrame, Low
  <2> HIDE DEF l
  <2> QED
    BY <2>1, LowPublish
<1>5. three \in Seq(LowWrite(m))
  <2>1. ASSUME f.r_nbr # None PROVE r \in SoundNode /\ Low(m, r)
    <3>1. r \in Node /\ r.label = f.r_nbr.label /\ r.data = f.r_nbr.data
      BY <1>1, <1>2, <2>1, NodeFacts DEF Node
    <3> HIDE DEF r
    <3>2. r \in SoundNode
      BY <1>1, <2>1, <3>1, NodeFacts DEF SoundNode
    <3> QED
      BY <2>1, <3>1, <3>2 DEF LowFrame, Low
  <2> HIDE DEF r
  <2>2. ASSUME f.r_nbr # None PROVE Put(Stray, r) \in LowWrite(m)
    <3>1. Put(Stray, r) \in SoundWrite /\ Put(Stray, r).node = r
      BY <2>1, <2>2 DEF Put, SoundWrite
    <3> QED
      BY <2>1, <2>2, <3>1 DEF LowWrite
  <2> QED
    BY <2>2
<1>6. MergeWrites(f, parent) = one \o two \o three
  BY DEF MergeWrites
<1> HIDE DEF one, two, three
<1>7. one \o two \o three \in Seq(LowWrite(m))
  BY <1>3, <1>4, <1>5
<1> QED
  BY <1>6, <1>7

\* A merge's last read, and its writes.
LEMMA DepthCousin ==
    ASSUME NEW m \in Nat, TypeInv, DepthInv(m), NEW c \in Client, ReadCousin(c)
    PROVE  DepthInv(m)'
<1> DEFINE f == frame[c]
           parent == [f.parent EXCEPT !.l_ptr = LabelOf(f.l_nbr), !.r_ptr = LabelOf(f.r_nbr)]
           sib == dht_lookup(get_sibling_label(parent))
           full == [parent EXCEPT !.data = @ \cup f.pairs]
           g == [EmptyFrame EXCEPT !.leaf = parent, !.sib = sib, !.pairs = f.pairs,
                                   !.merge_on = TRUE]
<1>1. pc[c] = "cousin" /\ UNCHANGED db
  BY DEF ReadCousin, At, Read
<1>2. f \in Frame /\ Merging(f) /\ f.parent \in SoundNode /\ LowFrame(m, f)
  BY <1>1, FrameOf DEF Stage, DepthInv
<1>3. LabelOf(f.l_nbr) \in Label \cup {None} /\ LabelOf(f.r_nbr) \in Label \cup {None}
  BY <1>2, NodeFacts DEF LabelOf, Frame
<1>4. parent \in SoundNode /\ Low(m, parent) /\ IsFiniteSet(parent.data)
      /\ parent.label = f.parent.label
  <2>1. /\ parent \in Node /\ parent.label = f.parent.label /\ parent.data = f.parent.data
    BY <1>2, <1>3, NodeFacts DEF Node
  <2>2. f.parent # None
    BY <1>2, NodeFacts, DistinctAssumption
  <2> HIDE DEF parent
  <2> QED
    BY <1>2, <2>1, <2>2, NodeFacts DEF SoundNode, LowFrame, Low
<1>5. \/ Writes(c, MergeWrites(f, full), EmptyFrame)
      \/ sib # None /\ Writes(c, MergeWrites(f, parent), g)
  BY DEF ReadCousin
<1>6. f.parent.label = get_parent_label(f.leaf) /\ f.pairs \subseteq Key
      /\ \A k \in f.pairs : Under(k.integral, f.parent.label)
  BY <1>1, <1>2, FrameOf DEF Stage, Merging, Frame
<1> HIDE DEF parent
<1>7. CASE Writes(c, MergeWrites(f, full), EmptyFrame)
  <2>1. full \in Node /\ full.label = parent.label /\ full.data = parent.data \cup f.pairs
    BY <1>4, <1>6, NodeFacts DEF Node
  <2>2. IsFiniteSet(parent.data \cup f.pairs)
    BY <1>2, <1>4, FS_Union DEF LowFrame
  <2> HIDE DEF full
  <2>3. full \in SoundNode
    BY <1>4, <1>6, <2>1, NodeFacts DEF SoundNode
  <2>4. Low(m, full)
    <3>1. parent # None
      BY <1>4, NodeFacts, DistinctAssumption
    <3> QED
      BY <1>4, <2>1, <2>2, <3>1 DEF Low
  <2>5. MergeWrites(f, full) \in Seq(LowWrite(m))
    BY <1>2, <2>3, <2>4, MergeLow
  <2> QED
    BY <1>1, <1>7, <2>5, EmptyLow, DepthWrites
<1>8. CASE sib # None /\ Writes(c, MergeWrites(f, parent), g)
  <2>1. get_sibling_label(parent) \in Label \cup {None}
    BY <1>4, SiblingLabel
  <2>2. Low(m, sib)
    BY <2>1, LookedLow
  <2> HIDE DEF sib
  <2>3. /\ g.leaf = parent /\ g.sib = sib /\ g.pairs = f.pairs
        /\ g.parent = None /\ g.l_nbr = None /\ g.r_nbr = None
    BY DEF EmptyFrame
  <2> HIDE DEF g
  <2>4. LowFrame(m, g)
    BY <1>2, <1>4, <2>2, <2>3, EmptyLow DEF LowFrame
  <2>5. MergeWrites(f, parent) \in Seq(LowWrite(m))
    BY <1>2, <1>4, MergeLow
  <2> QED
    BY <1>1, <1>8, <2>4, <2>5, DepthWrites
<1> QED
  BY <1>5, <1>7, <1>8

\* DepthInv is kept by a write.
LEMMA DepthWrite ==
    ASSUME NEW m \in Nat, TypeInv, DepthInv(m), NEW c \in Client, Write(c)
    PROVE  DepthInv(m)'
<1> DEFINE w == Head(out[c])
           rest == Tail(out[c])
           f == frame[c]
           g == [f EXCEPT !.merge_on = FALSE]
<1>1. /\ pc[c] = "write" /\ f \in Frame /\ out[c] \in Seq(LowWrite(m)) /\ out[c] # <<>>
      /\ LowFrame(m, f)
  BY FrameOf DEF Write, At, Stage, DepthInv
<1>2. w \in LowWrite(m) /\ rest \in Seq(LowWrite(m))
  BY <1>1
<1>3. /\ db' = [db EXCEPT ![w.at] = w.node]
      /\ \/ Writes(c, rest, f)
         \/ /\ frame' = [frame EXCEPT ![c].merge_on = FALSE]
            /\ out' = [out EXCEPT ![c] = <<>>]
         \/ Return(c, None)
  BY DEF Write
<1> HIDE DEF w, rest
<1>4. \A x \in Label \cup {Stray} : Low(m, db'[x])
  BY <1>2, <1>3 DEF DepthInv, TypeInv, DbTyped, LowWrite
<1>5. CASE Writes(c, rest, f)
  BY <1>1, <1>2, <1>4, <1>5, DepthStep DEF Writes
<1>6. CASE /\ frame' = [frame EXCEPT ![c].merge_on = FALSE]
           /\ out' = [out EXCEPT ![c] = <<>>]
  <2>1. frame' = [frame EXCEPT ![c] = g]
    BY <1>6
  <2>2. /\ g.leaf = f.leaf /\ g.sib = f.sib /\ g.parent = f.parent
        /\ g.l_nbr = f.l_nbr /\ g.r_nbr = f.r_nbr /\ g.pairs = f.pairs
    BY <1>1 DEF Frame
  <2> HIDE DEF g, f
  <2>3. LowFrame(m, g)
    BY <1>1, <2>2 DEF LowFrame
  <2> QED
    BY <1>4, <1>6, <2>1, <2>3, EmptyLow, DepthStep
<1>7. CASE Return(c, None)
  BY <1>4, <1>7, EmptyLow, DepthStep DEF Return
<1> QED
  BY <1>3, <1>5, <1>6, <1>7

\* DepthInv is kept by every step.
LEMMA DepthNext ==
    ASSUME NEW m \in 0 .. BIT_DOMAIN, FewWithin(m), TypeInv, DepthInv(m), [Next]_vars
    PROVE  DepthInv(m)'
<1>1. CASE UNCHANGED vars
  BY <1>1 DEF vars, DepthInv, Low, LowFrame, LowWrite
<1>2. ASSUME NEW c \in Client, Crash(c)
      PROVE  DepthInv(m)'
  BY <1>2 DEF Crash, DepthInv, Low, LowFrame, LowWrite
<1>3. ASSUME NEW c \in Client, Begin(c)
      PROVE  DepthInv(m)'
  <2>1. PICK f : frame' = [frame EXCEPT ![c] = f] /\ LowFrame(m, f)
    <3>1. \A s, r : LowFrame(m, [EmptyFrame EXCEPT !.str = s, !.r = r])
      BY FS_EmptySet DEF LowFrame, Low, EmptyFrame
    <3>2. \E s, r : frame' = [frame EXCEPT ![c] = [EmptyFrame EXCEPT !.str = s, !.r = r]]
      <4>1. PICK k : \/ frame' = [frame EXCEPT ![c] =
                                     [EmptyFrame EXCEPT !.str = k.key.integral, !.r = BIT_DOMAIN]]
                     \/ frame' = [frame EXCEPT ![c] =
                                     [EmptyFrame EXCEPT !.str = get_lcp({k.query.min, k.query.max}),
                                                        !.r = BIT_DOMAIN]]
        BY <1>3, Zenon DEF Begin
      <4> QED
        BY <4>1, Zenon
    <3> QED
      BY <3>1, <3>2, Zenon
  <2>2. UNCHANGED <<db, out>>
    BY <1>3 DEF Begin
  <2>3. out' = [out EXCEPT ![c] = out[c]] /\ out[c] \in Seq(LowWrite(m))
    BY <2>2 DEF TypeInv, LocalsTyped, DepthInv
  <2>4. \A x \in Label \cup {Stray} : Low(m, db'[x])
    BY <2>2 DEF DepthInv
  <2> QED
    BY <2>1, <2>3, <2>4, DepthStep
<1>4. ASSUME NEW c \in Client, InitTrie(c)
      PROVE  DepthInv(m)'
  <2>1. UNCHANGED db /\ (Return(c, None) \/ Writes(c, <<Publish(LeafNode(<<>>))>>, EmptyFrame))
    BY <1>4 DEF InitTrie, Read
  <2>2. <<Publish(LeafNode(<<>>))>> \in Seq(LowWrite(m))
    <3>1. LeafNode(<<>>) \in SoundNode
      BY EmptyString, EmptyLeaf, WidthType DEF Label
    <3>2. Low(m, LeafNode(<<>>))
      BY FS_EmptySet DEF Low, LeafNode
    <3> QED
      BY <3>1, <3>2, LowPublish
  <2> QED
    BY <2>1, <2>2, EmptyLow, DepthReturn, DepthWrites
<1>5. m \in Nat
  BY WidthType
<1> QED
  BY <1>1, <1>2, <1>3, <1>4, <1>5, DepthSearch, DepthReads, DepthCousin, DepthWrite
     DEF Next, Proceed

\* A bound on the bits that tell any B + 1 keys apart is one on the nodes' depth.
LEMMA DepthWithin ==
    ASSUME NEW m \in 0 .. BIT_DOMAIN, FewWithin(m)
    PROVE  Spec => [](\A x \in Label : db[x] # None => Len(x) <= m)
<1> DEFINE D == \A x \in Label : db[x] # None => Len(x) <= m
           I == DepthInv(m)
<1>1. Init => I
  <2> SUFFICES ASSUME Init PROVE I
    OBVIOUS
  <2>1. \A x \in Label \cup {Stray} : db[x] = LeafNode(<<>>) \/ db[x] = None
    BY DEF Init
  <2>2. Low(m, LeafNode(<<>>))
    BY WidthType, FS_EmptySet DEF Low, LeafNode
  <2>3. \A c \in Client : out[c] = <<>> /\ frame[c] = EmptyFrame
    BY DEF Init
  <2> QED
    BY <2>1, <2>2, <2>3, EmptyLow DEF DepthInv
<1>2. TypeInv /\ I /\ [Next]_vars => I'
  BY DepthNext
<1>3. TypeInv /\ I => D
  BY DEF TypeInv, DbTyped, DepthInv, Low
<1> HIDE DEF D, I
<1>4. Spec => []D
  BY <1>1, <1>2, <1>3, TypeCorrect, PTL DEF Spec
<1> QED
  BY <1>4 DEF D

\* Whatever clients insert and delete at once, and whoever stops: no node lies deeper
\* than the bits that tell any B + 1 keys apart.
THEOREM DepthCorrect == Spec => []DepthBounded
<1> DEFINE M == {m \in 0 .. BIT_DOMAIN : FewWithin(m)}
<1>1. CASE M = {}
  <2>1. DepthBounded
    BY <1>1 DEF DepthBounded
  <2> QED
    BY <2>1, PTL
<1>2. CASE M # {}
  <2> HIDE DEF M
  <2>1. M \in SUBSET Nat
    BY WidthType DEF M
  <2>2. PICK m \in M : \A n \in M : m <= n
    BY <1>2, <2>1, Least
  <2>3. m \in 0 .. BIT_DOMAIN /\ FewWithin(m)
    BY <2>2 DEF M
  <2> DEFINE D == \A x \in Label : db[x] # None => Len(x) <= m
  <2>4. Spec => []D
    BY <2>3, DepthWithin
  <2>5. D => DepthBounded
    <3> SUFFICES ASSUME D, NEW n \in 0 .. BIT_DOMAIN, FewWithin(n),
                        NEW x \in Label, db[x] # None
                 PROVE  Len(x) <= n
      BY DEF DepthBounded
    <3>1. m <= n
      BY <2>2 DEF M
    <3>2. Len(x) <= m /\ Len(x) \in Nat
      BY LongerString, BitStringIsSeq, WidthType DEF Label
    <3> QED
      BY <2>3, <3>1, <3>2, WidthType
  <2> HIDE DEF D
  <2> QED
    BY <2>4, <2>5, PTL
<1> QED
  BY <1>1, <1>2

-----------------------------------------------------------------------------
\* A query returns every key that was there

\* The last 2e bits of a key are below every node (other than those of BIT_DOMAIN + 1 bits).
NodesAbove(e) ==
    \A x \in BitStrings(BIT_DOMAIN) : db[x] # None => Len(x) + 2 * e <= BIT_DOMAIN

\* Is the client in the middle of a range query?
Ranges(c) ==
    pc[c] \in {"start", "bin", "lin", "visit"} /\ call[c] # None /\ call[c].type = "range"

\* A subtree that the traversal has yet to visit has the key, if any has.
Leads(T, k, todo) == \E i \in 1 .. Len(todo) : Under(k.integral, todo[i]) /\ T[todo[i]] # None

\* What a client's query has found, and where it still looks, covers the keys that
\* its answer must have.
Covers(c) ==
    /\ Ranges(c) =>
           /\ \A k \in wanted[c] : k \in kept /\ InRange(k, call[c].query)
           /\ pc[c] # "visit" => frame[c].str = get_lcp({call[c].query.min, call[c].query.max})
    /\ pc[c] = "visit" => \A k \in wanted[c] : k \in frame[c].data \/ Leads(db, k, frame[c].todo)
    /\ answer[c] # None => wanted[c] \subseteq answer[c]

CoverInv ==
    /\ \A c \in Client : Covers(c)
    /\ answer = [c \in Client |-> answer[c]] /\ wanted = [c \in Client |-> wanted[c]]

\* At a node on the way of a key that a search finds: a leaf has the key, and the
\* child of an internal node that is on the way is there.
LEMMA SpannedBelow ==
    ASSUME TypeInv, NEW k \in Key, Spanned(db, k),
           NEW y \in BitStrings(BIT_DOMAIN), db[y] # None, Under(k.integral, y)
    PROVE  /\ db[y].is_leaf => k \in db[y].data
           /\ ~db[y].is_leaf =>
                  /\ Len(y) + 1 \in 1 .. BIT_DOMAIN
                  /\ db[Prefix(k.integral, Len(y) + 1)] # None
                  /\ \E bit \in {0, 1} : Append(y, bit) = Prefix(k.integral, Len(y) + 1)
<1> DEFINE s == k.integral
           q == Len(y)
<1>1. s \in KeyString /\ s \in BitStrings(BIT_DOMAIN) /\ Len(s) = BIT_DOMAIN
      /\ BIT_DOMAIN \in Nat /\ s \in Seq({0, 1})
  BY KeyStrings, ConstantsAssumption, BitStringIsSeq, WidthType DEF KeyString
<1>2. q \in Nat /\ q <= BIT_DOMAIN /\ q \in 0 .. BIT_DOMAIN
  BY <1>1, BitStringIsSeq
<1>3. Under(s, y)
  OBVIOUS
<1> HIDE DEF s
<1>4. Prefix(s, q) = y
  <2>1. /\ Prefix(s, q) \in BitStrings(BIT_DOMAIN) /\ Len(Prefix(s, q)) = q
        /\ \A i \in 1 .. q : Prefix(s, q)[i] = s[i]
    BY <1>1, <1>2, PrefixString
  <2>2. \A i \in 1 .. q : Prefix(s, q)[i] = y[i]
    BY <1>1, <1>2, <1>3, <2>1 DEF Under
  <2> HIDE DEF q
  <2> QED
    BY <1>1, <2>1, <2>2, SameString DEF q
<1>5. PICK n \in 0 .. BIT_DOMAIN - 1 : \E m \in n .. BIT_DOMAIN - 1 :
          /\ Span(db, s, n, m)
          /\ \A p \in n .. m : k \in db[Prefix(s, p)].data
  BY DEF Spanned, s
<1>6. PICK m \in n .. BIT_DOMAIN - 1 :
          /\ Span(db, s, n, m)
          /\ \A p \in n .. m : k \in db[Prefix(s, p)].data
  BY <1>5
<1>7. ASSUME NEW p \in 0 .. BIT_DOMAIN
      PROVE  /\ p < n => db[Prefix(s, p)] # None /\ ~db[Prefix(s, p)].is_leaf
             /\ n <= p /\ p <= m => db[Prefix(s, p)] # None /\ db[Prefix(s, p)].is_leaf
             /\ m < p => db[Prefix(s, p)] = None
  BY <1>6 DEF Span
<1>8. n \in Nat /\ m \in Nat /\ n <= m /\ m < BIT_DOMAIN
  BY <1>1
<1> HIDE DEF q
<1>9. q <= m
  BY <1>2, <1>4, <1>7, <1>8
<1>10. ASSUME db[y].is_leaf
       PROVE  k \in db[y].data
  <2>1. ~(q < n)
    BY <1>2, <1>4, <1>7, <1>10
  <2>2. q \in n .. m
    BY <1>2, <1>8, <1>9, <2>1
  <2> QED
    BY <1>4, <1>6, <2>2
<1>11. ASSUME ~db[y].is_leaf
       PROVE  /\ q + 1 \in 1 .. BIT_DOMAIN /\ db[Prefix(s, q + 1)] # None
              /\ \E bit \in {0, 1} : Append(y, bit) = Prefix(s, q + 1)
  <2>1. q < n
    BY <1>2, <1>4, <1>7, <1>8, <1>9, <1>11
  <2>2. /\ q + 1 \in 1 .. BIT_DOMAIN /\ q + 1 \in 0 .. BIT_DOMAIN /\ q + 1 <= n
        /\ q + 1 \in 1 .. Len(s) /\ q \in 0 .. Len(s) /\ q < Len(s)
    BY <1>1, <1>2, <1>8, <2>1
  <2>3. db[Prefix(s, q + 1)] # None
    BY <1>7, <1>8, <2>2
  <2>4. s[q + 1] \in {0, 1}
    BY <1>1, <2>2
  <2>5. Append(Prefix(s, q), s[q + 1]) = Prefix(s, q + 1)
    BY <1>1, <1>2, <2>2, <2>4, PrefixAppend
  <2> QED
    BY <1>4, <2>2, <2>3, <2>4, <2>5
<1> QED
  BY <1>10, <1>11 DEF q, s

\* One client's variables change, and no node disappears.
LEMMA CoverStep ==
    ASSUME TypeInv, CoverInv, UNCHANGED <<call, wanted>>, kept \subseteq kept',
           \A x \in Label : db[x] # None => db'[x] # None,
           NEW c \in Client, NEW a, NEW f, NEW r,
           pc' = [pc EXCEPT ![c] = a], frame' = [frame EXCEPT ![c] = f],
           answer' = [answer EXCEPT ![c] = r],
           a \in {"start", "bin", "lin"} =>
               pc[c] \in {"start", "bin", "lin"} /\ f.str = frame[c].str,
           a = "visit" => /\ Ranges(c)
                          /\ \A k \in wanted[c] :
                                 k \in f.data \/ \E i \in 1 .. Len(f.todo) :
                                     Under(k.integral, f.todo[i]) /\ db'[f.todo[i]] # None,
           r # None => wanted[c] \subseteq r
    PROVE  CoverInv'
<1>1. \A e \in Client : /\ pc'[e] = IF e = c THEN a ELSE pc[e]
                        /\ frame'[e] = IF e = c THEN f ELSE frame[e]
  BY DEF TypeInv, LocalsTyped
<1>2. /\ \A e \in Client : answer'[e] = IF e = c THEN r ELSE answer[e]
      /\ answer' = [e \in Client |-> answer'[e]]
  <2> DEFINE before == [e \in Client |-> answer[e]]
  <2>1. answer = before
    BY DEF CoverInv
  <2>2. answer' = [before EXCEPT ![c] = r]
    BY <2>1
  <2> QED
    BY <2>2
<1>3. wanted' = [e \in Client |-> wanted'[e]]
  BY DEF CoverInv
<1> SUFFICES ASSUME NEW e \in Client PROVE Covers(e)'
  BY <1>2, <1>3 DEF CoverInv
<1>4. Covers(e)
  BY DEF CoverInv
<1>5. CASE e # c
  <2>1. pc'[e] = pc[e] /\ frame'[e] = frame[e] /\ answer'[e] = answer[e]
    BY <1>1, <1>2, <1>5
  <2>2. Ranges(e)' <=> Ranges(e)
    BY <2>1 DEF Ranges
  <2>3. ASSUME pc'[e] = "visit", NEW k \in wanted'[e], k \notin frame'[e].data
        PROVE  Leads(db', k, frame'[e].todo)
    <3> DEFINE todo == frame[e].todo
    <3>1. Leads(db, k, todo)
      BY <1>4, <2>1, <2>3 DEF Covers
    <3>2. todo \in Seq(BitStrings(BIT_DOMAIN))
      BY FrameOf DEF Frame
    <3> HIDE DEF todo
    <3>3. PICK i \in 1 .. Len(todo) : Under(k.integral, todo[i]) /\ db[todo[i]] # None
      BY <3>1 DEF Leads
    <3> DEFINE x == todo[i]
    <3>4. x \in BitStrings(BIT_DOMAIN)
      BY <3>2
    <3> HIDE DEF x
    <3>5. x \in Label
      BY <3>4, LongerString, WidthType DEF Label
    <3>6. db'[x] # None
      BY <3>3, <3>5 DEF x
    <3>7. frame'[e].todo = todo
      BY <2>1 DEF todo
    <3> QED
      BY <3>3, <3>6, <3>7 DEF Leads, x
  <2> QED
    BY <1>4, <2>1, <2>2, <2>3 DEF Covers
<1>6. CASE e = c
  <2>1. pc'[c] = a /\ frame'[c] = f /\ answer'[c] = r /\ Covers(c)
    BY <1>1, <1>2, <1>4, <1>6
  <2>2. ASSUME Ranges(c)'
        PROVE  /\ Ranges(c) /\ \A k \in wanted'[c] : k \in kept' /\ InRange(k, call'[c].query)
               /\ pc'[c] # "visit" =>
                      frame'[c].str = get_lcp({call'[c].query.min, call'[c].query.max})
    <3>1. Ranges(c)
      BY <2>1, <2>2 DEF Ranges
    <3>2. pc'[c] # "visit" => pc[c] # "visit" /\ f.str = frame[c].str
      BY <2>1, <2>2 DEF Ranges
    <3> QED
      BY <2>1, <3>1, <3>2 DEF Covers
  <2>3. ASSUME a = "visit", NEW k \in wanted'[c], k \notin f.data
        PROVE  Leads(db', k, frame'[c].todo)
    BY <2>1, <2>3 DEF Leads
  <2> QED
    BY <1>6, <2>1, <2>2, <2>3 DEF Covers
<1> QED
  BY <1>5, <1>6

\* The keys that a query's answer must have: a search finds them, and they lie under
\* the common prefix of its corners.
LEMMA WantedUnder ==
    ASSUME TypeInv, KeysApart, CoverInv, NEW c \in Client, Ranges(c), \A k \in kept : Spanned(db, k)
    PROVE  /\ call[c].query \in Query
           /\ \A k \in wanted[c] :
                  /\ k \in Key /\ Spanned(db, k) /\ InRange(k, call[c].query)
                  /\ pc[c] # "visit" => Under(k.integral, frame[c].str)
<1>1. Covers(c)
  BY DEF CoverInv
<1>2. call[c].query \in Query
  <2>1. call[c] \in Call
    BY FrameOf DEF Ranges
  <2> QED
    BY <2>1 DEF Ranges, Call
<1>3. ASSUME NEW k \in wanted[c]
      PROVE  k \in Key /\ Spanned(db, k) /\ InRange(k, call[c].query)
  BY <1>1, <1>3 DEF Covers, KeysApart
<1> QED
  BY <1>1, <1>2, <1>3, RangeUnder DEF Covers

\* What two sequences make together has the elements of each.
Among(x, s) == \E j \in 1 .. Len(s) : s[j] = x

LEMMA AmongBoth ==
    ASSUME NEW S, NEW p \in Seq(S), NEW q \in Seq(S), NEW x, Among(x, p) \/ Among(x, q)
    PROVE  Among(x, p \o q)
<1>1. /\ Len(p) \in Nat /\ Len(q) \in Nat /\ Len(p \o q) = Len(p) + Len(q)
      /\ \A i \in 1 .. Len(p) : (p \o q)[i] = p[i]
      /\ \A i \in 1 .. Len(q) : (p \o q)[Len(p) + i] = q[i]
  OBVIOUS
<1>2. CASE Among(x, p)
  BY <1>1, <1>2 DEF Among
<1>3. CASE Among(x, q)
  <2>1. PICK i \in 1 .. Len(q) : q[i] = x
    BY <1>3 DEF Among
  <2>2. Len(p) + i \in 1 .. Len(p \o q)
    BY <1>1
  <2> QED
    BY <1>1, <2>1, <2>2 DEF Among
<1> QED
  BY <1>2, <1>3

\* The sequence of one element, or of none.
LEMMA AmongOne ==
    ASSUME NEW S, NEW x \in S
    PROVE  <<x>> \in Seq(S) /\ <<>> \in Seq(S) /\ Among(x, <<x>>)
<1>1. Len(<<x>>) = 1 /\ <<x>>[1] = x
  OBVIOUS
<1> QED
  BY <1>1 DEF Among

\* A traversal that has come to the node of a key takes it, or puts the child that has
\* it on its way.
LEMMA CoverTraverse ==
    ASSUME NEW e \in Nat, NearDiagonal(e), NodesAbove(e),
           TypeInv, KeysApart, CoverInv, UNCHANGED <<db, call, wanted>>,
           NEW c \in Client, Ranges(c), \A k \in kept : Spanned(db, k),
           NEW y \in BitStrings(BIT_DOMAIN), NEW node, node = db[y], node # None,
           NEW todo \in Seq(BitStrings(BIT_DOMAIN)), NEW data,
           \A k \in wanted[c] : k \in data \/ Under(k.integral, y) \/ Leads(db, k, todo),
           Traverse(c, node, todo, data)
    PROVE  CoverInv'
<1> DEFINE q == call[c].query
           Below(label) == IF Visits(label, q) THEN <<label>> ELSE <<>>
           found == IF node.is_leaf THEN data \cup {k \in node.data : InRange(k, q)} ELSE data
           u == Append(node.label, 0)
           v == Append(node.label, 1)
           rest == IF node.is_leaf THEN todo ELSE Below(u) \o Below(v) \o todo
           f == [EmptyFrame EXCEPT !.todo = rest, !.data = found]
<1>1. \/ rest = <<>> /\ Return(c, found)
      \/ rest # <<>> /\ Goto(c, "visit", f)
  BY DEF Traverse
<1>2. y \in Label /\ node.label = y
  BY LongerString, WidthType DEF Label, TypeInv, DbTyped
<1>0. ASSUME ~node.is_leaf
      PROVE  /\ \A i \in 1 .. Len(todo) : \E j \in 1 .. Len(rest) : rest[j] = todo[i]
             /\ \A x \in {u, v} : Visits(x, q) => \E j \in 1 .. Len(rest) : rest[j] = x
  <2> DEFINE S == BitStrings(BIT_DOMAIN) \cup {u, v}
  <2>1. rest = Below(u) \o Below(v) \o todo
    BY <1>0
  <2>2. u \in S /\ v \in S /\ todo \in Seq(S)
    <3>1. BitStrings(BIT_DOMAIN) \subseteq S
      OBVIOUS
    <3> HIDE DEF S
    <3>2. todo \in Seq(S)
      BY <3>1
    <3> QED
      BY <3>2 DEF S
  <2> DEFINE first == Below(u)
             second == Below(v)
  <2>3. rest = first \o second \o todo
    BY <2>1
  <2>4. /\ first = <<u>> \/ first = <<>>
        /\ Visits(u, q) => first = <<u>>
    OBVIOUS
  <2>5. /\ second = <<v>> \/ second = <<>>
        /\ Visits(v, q) => second = <<v>>
    OBVIOUS
  <2> HIDE DEF S, rest, u, v, first, second
  <2>6. first \in Seq(S) /\ second \in Seq(S)
    <3>1. <<u>> \in Seq(S) /\ <<v>> \in Seq(S) /\ <<>> \in Seq(S)
      BY <2>2, AmongOne
    <3> QED
      BY <2>4, <2>5, <3>1
  <2>7. first \o second \in Seq(S)
    BY <2>6
  <2>8. ASSUME NEW x, Among(x, first) \/ Among(x, second) \/ Among(x, todo)
        PROVE  Among(x, rest)
    <3>1. Among(x, first) \/ Among(x, second) => Among(x, first \o second)
      BY <2>6, AmongBoth
    <3> QED
      BY <2>2, <2>3, <2>7, <2>8, <3>1, AmongBoth
  <2>9. ASSUME NEW i \in 1 .. Len(todo)
        PROVE  Among(todo[i], rest)
    BY <2>8 DEF Among
  <2>10. /\ Visits(u, q) => Among(u, rest)
         /\ Visits(v, q) => Among(v, rest)
    BY <2>2, <2>4, <2>5, <2>8, AmongOne
  <2> QED
    BY <2>9, <2>10 DEF Among
<1>3. ASSUME NEW k \in wanted[c]
      PROVE  k \in found \/ Leads(db, k, rest)
  <2>1. k \in Key /\ Spanned(db, k) /\ InRange(k, q) /\ q \in Query
    BY WantedUnder
  <2>2. CASE k \in data
    BY <2>2
  <2>3. CASE Leads(db, k, todo)
    <3>1. CASE node.is_leaf
      BY <2>3, <3>1
    <3>2. CASE ~node.is_leaf
      <4> HIDE DEF rest
      <4> QED
        BY <1>0, <2>3, <3>2 DEF Leads
    <3> QED
      BY <3>1, <3>2
  <2>4. CASE Under(k.integral, y)
    <3>1. CASE node.is_leaf
      <4>1. k \in node.data
        BY <2>1, <2>4, <3>1, SpannedBelow
      <4> QED
        BY <2>1, <3>1, <4>1
    <3>2. CASE ~node.is_leaf
      <4> DEFINE d == Len(y) + 1
                 x == Prefix(k.integral, d)
      <4>1. d \in 1 .. BIT_DOMAIN /\ db[x] # None /\ x \in {u, v}
        BY <1>2, <2>1, <2>4, <3>2, SpannedBelow
      <4>2. Visits(x, q)
        <5>1. k.integral \in BitStrings(BIT_DOMAIN) /\ Len(k.integral) = BIT_DOMAIN
          BY <2>1, KeyStrings, ConstantsAssumption DEF KeyString
        <5>2. d \in Nat /\ d <= BIT_DOMAIN
          BY <4>1, WidthType
        <5>3. x \in BitStrings(BIT_DOMAIN) /\ Len(x) = d
          <6> HIDE DEF d
          <6> QED
            BY <5>1, <5>2, PrefixString, WidthType
        <5>4. d + 2 * e <= BIT_DOMAIN
          <6> HIDE DEF x, d
          <6> QED
            BY <4>1, <5>3 DEF NodesAbove
        <5> HIDE DEF d
        <5> QED
          BY <2>1, <4>1, <5>4, Anchored
      <4>3. Under(k.integral, x)
        <5>1. k.integral \in KeyString
          BY <2>1, ConstantsAssumption DEF KeyString
        <5>2. d \in Nat
          BY <4>1, WidthType
        <5> HIDE DEF d
        <5> QED
          BY <5>1, <5>2, UnderPrefix
      <4> HIDE DEF x, u, v, rest
      <4> QED
        BY <1>0, <3>2, <4>1, <4>2, <4>3 DEF Leads
    <3> QED
      BY <3>1, <3>2
  <2> QED
    BY <2>2, <2>3, <2>4
<1> HIDE DEF found, rest
<1>4. f.todo = rest /\ f.data = found
  BY DEF EmptyFrame
<1> HIDE DEF f
<1>5. CASE rest = <<>> /\ Return(c, found)
  <2>1. wanted[c] \subseteq found
    <3>1. Len(rest) = 0
      BY <1>5
    <3> QED
      BY <1>3, <3>1 DEF Leads
  <2>2. kept' = kept
    BY <1>5 DEF Return, Ranges
  <2> QED
    BY <1>5, <2>1, <2>2, CoverStep DEF Return
<1>6. CASE rest # <<>> /\ Goto(c, "visit", f)
  <2>1. answer' = [answer EXCEPT ![c] = answer[c]] /\ (answer[c] # None => wanted[c] \subseteq answer[c])
    BY <1>6 DEF Goto, CoverInv, Covers
  <2>2. pc' = [pc EXCEPT ![c] = "visit"] /\ frame' = [frame EXCEPT ![c] = f] /\ kept' = kept
    BY <1>6 DEF Goto
  <2>3. \A k \in wanted[c] :
            k \in f.data \/ \E i \in 1 .. Len(f.todo) :
                Under(k.integral, f.todo[i]) /\ db'[f.todo[i]] # None
    BY <1>3, <1>4 DEF Leads
  <2> QED
    BY <2>1, <2>2, <2>3, CoverStep
<1> QED
  BY <1>1, <1>5, <1>6

\* A client that goes on with its search, or ends without an answer.
LEMMA CoverGoto ==
    ASSUME TypeInv, CoverInv, UNCHANGED <<db, call, wanted>>, NEW c \in Client, NEW a, NEW f,
           a # "visit",
           a \in {"start", "bin", "lin"} =>
               pc[c] \in {"start", "bin", "lin"} /\ f.str = frame[c].str,
           Goto(c, a, f)
    PROVE  CoverInv'
<1>1. answer' = [answer EXCEPT ![c] = answer[c]] /\ (answer[c] # None => wanted[c] \subseteq answer[c])
  BY DEF Goto, CoverInv, Covers
<1>2. pc' = [pc EXCEPT ![c] = a] /\ frame' = [frame EXCEPT ![c] = f] /\ kept' = kept
  BY DEF Goto
<1> QED
  BY <1>1, <1>2, CoverStep

\* A client that starts to write, or goes on writing.
LEMMA CoverWrites ==
    ASSUME TypeInv, CoverInv, UNCHANGED <<call, wanted>>,
           \A x \in Label : db[x] # None => db'[x] # None,
           NEW c \in Client, NEW o, NEW f, Writes(c, o, f)
    PROVE  CoverInv'
<1>1. answer' = [answer EXCEPT ![c] = answer[c]] /\ (answer[c] # None => wanted[c] \subseteq answer[c])
  BY DEF Writes, CoverInv, Covers
<1>2. pc' = [pc EXCEPT ![c] = "write"] /\ frame' = [frame EXCEPT ![c] = f] /\ kept' = kept
  BY DEF Writes
<1> QED
  BY <1>1, <1>2, CoverStep

\* A client that returns nothing, or all that it must.
LEMMA CoverReturn ==
    ASSUME TypeInv, CoverInv, UNCHANGED <<call, wanted>>,
           \A x \in Label : db[x] # None => db'[x] # None,
           NEW c \in Client, NEW r, r # None => wanted[c] \subseteq r, Return(c, r)
    PROVE  CoverInv'
<1>1. kept \subseteq kept'
  BY DEF Return
<1>2. pc' = [pc EXCEPT ![c] = "idle"] /\ frame' = [frame EXCEPT ![c] = EmptyFrame]
      /\ answer' = [answer EXCEPT ![c] = r]
  BY DEF Return
<1> QED
  BY <1>1, <1>2, CoverStep

\* A search that ends at a leaf: the leaf has all that a query asks for.
LEMMA CoverFound ==
    ASSUME TypeInv, KeysApart, CoverInv, UNCHANGED <<db, call, wanted>>, NEW c \in Client,
           pc[c] \in {"bin", "lin"}, Ranges(c) => \A k \in kept : Spanned(db, k),
           NEW n \in Nat, IsLeaf(dht_lookup(Prefix(frame[c].str, n))),
           Found(c, dht_lookup(Prefix(frame[c].str, n)))
    PROVE  CoverInv'
<1> DEFINE str == frame[c].str
           x == Prefix(str, n)
           node == dht_lookup(x)
<1>1. Searches(call[c], frame[c]) /\ str \in BitStrings(BIT_DOMAIN)
  BY FrameOf DEF Stage, Frame
<1>2. x \in BitStrings(BIT_DOMAIN)
  <2> HIDE DEF str
  <2> QED
    BY <1>1, PrefixString, WidthType
<1>3. x \in Label
  BY <1>2, LongerString, WidthType DEF Label
<1>4. node = db[x] /\ db[x] # None /\ db[x].is_leaf
  BY <1>3, Looked DEF IsLeaf
<1>5. call[c] \in Call /\ call[c] # None
  BY <1>1, DistinctAssumption DEF Searches
<1>6. CASE call[c].type = "insert"
  BY <1>6, CoverWrites DEF Found
<1>7. CASE call[c].type = "delete"
  <2> DEFINE f == [EmptyFrame EXCEPT !.leaf = [node EXCEPT !.data = @ \ {call[c].key}]]
  <2>1. Return(c, None) \/ Goto(c, "sibling", f)
    BY <1>7 DEF Found
  <2> HIDE DEF f
  <2> QED
    BY <2>1, CoverReturn, CoverGoto
<1>8. CASE call[c].type = "range"
  <2> DEFINE r == {k \in node.data : InRange(k, call[c].query)}
  <2>1. Return(c, r)
    BY <1>8 DEF Found
  <2>2. Ranges(c) /\ pc[c] # "visit"
    BY <1>5, <1>8 DEF Ranges
  <2>3. wanted[c] \subseteq r
    <3> SUFFICES ASSUME NEW k \in wanted[c] PROVE k \in r
      OBVIOUS
    <3>1. k \in Key /\ Spanned(db, k) /\ InRange(k, call[c].query) /\ Under(k.integral, str)
      BY <2>2, WantedUnder
    <3>2. k.integral \in KeyString
      BY <3>1, ConstantsAssumption DEF KeyString
    <3>3. str \in Label
      <4> HIDE DEF str
      <4> QED
        BY <1>1, LongerString, WidthType DEF Label
    <3>4. Under(k.integral, x)
      <4> HIDE DEF str
      <4> QED
        BY <3>1, <3>2, <3>3, UnderShorter
    <3>5. k \in db[x].data
      <4> HIDE DEF x
      <4> QED
        BY <1>2, <1>4, <3>1, <3>4, SpannedBelow
    <3> QED
      BY <1>4, <3>1, <3>5
  <2> HIDE DEF r
  <2> QED
    BY <2>1, <2>3, CoverReturn
<1> QED
  BY <1>5, <1>6, <1>7, <1>8 DEF Call

\* CoverInv is kept by the steps of a search.
LEMMA CoverSearch ==
    ASSUME NEW e \in Nat, NearDiagonal(e), NodesAbove(e),
           TypeInv, KeysApart, CoverInv, NEW c \in Client,
           Ranges(c) => \A k \in kept : Spanned(db, k),
           LookupStart(c) \/ LookupBin(c) \/ LookupLin(c) \/ Visit(c)
    PROVE  CoverInv'
<1>1. pc[c] \in {"start", "bin", "lin", "visit"} /\ UNCHANGED <<db, call, wanted>>
  BY DEF LookupStart, LookupBin, LookupLin, Visit, At, Read
<1>2. ASSUME Fatal(c)
      PROVE  CoverInv'
  BY <1>1, <1>2, CoverGoto DEF Fatal
<1>3. ASSUME pc[c] \in {"start", "visit"}
      PROVE  Ranges(c)
  BY <1>3, FrameOf, DistinctAssumption DEF Stage, Searches, Ranges
<1>4. CASE LookupStart(c)
  <2> DEFINE str == frame[c].str
             node == dht_lookup(str)
  <2>1. pc[c] = "start" /\ Ranges(c)
    BY <1>3, <1>4 DEF LookupStart, At
  <2>2. str \in BitStrings(BIT_DOMAIN)
    BY FrameOf DEF Frame
  <2>3. str \in Label
    <3> HIDE DEF str
    <3> QED
      BY <2>2, LongerString, WidthType DEF Label
  <2>4. \/ node # None /\ Traverse(c, node, <<>>, {})
        \/ Goto(c, "bin", frame[c])
    BY <1>4 DEF LookupStart
  <2>5. CASE node # None /\ Traverse(c, node, <<>>, {})
    <3>1. node = db[str]
      BY <2>3, <2>5, Looked
    <3>2. \A k \in wanted[c] : Under(k.integral, str)
      BY <2>1, WantedUnder
    <3>3. <<>> \in Seq(BitStrings(BIT_DOMAIN))
      OBVIOUS
    <3> HIDE DEF str, node
    <3> QED
      BY <1>1, <2>1, <2>2, <2>5, <3>1, <3>2, <3>3, CoverTraverse
  <2> QED
    BY <1>1, <2>1, <2>4, <2>5, CoverGoto
<1>5. CASE LookupBin(c)
  <2> DEFINE f == frame[c]
             q == (f.p + f.r - 1) \div 2
             node == dht_lookup(Prefix(f.str, q))
             next == Narrowed(f, q, node)
  <2>1. pc[c] = "bin" /\ f.p \in Nat /\ f.r \in Nat /\ f.p < f.r /\ f.r <= BIT_DOMAIN
    BY <1>5, FrameOf DEF LookupBin, At, Stage, Frame
  <2>2. q \in Nat
    BY <2>1, WidthType
  <2>3. \/ IsLeaf(node) /\ Found(c, node)
        \/ Goto(c, "bin", next) \/ Goto(c, "lin", next)
    BY <1>5 DEF LookupBin
  <2>4. next.str = f.str
    BY FrameOf DEF Narrowed, Frame
  <2> HIDE DEF next, q
  <2>5. CASE IsLeaf(node) /\ Found(c, node)
    BY <1>1, <2>1, <2>2, <2>5, CoverFound
  <2> QED
    BY <1>1, <2>1, <2>3, <2>4, <2>5, CoverGoto
<1>6. CASE LookupLin(c)
  <2> DEFINE f == frame[c]
             node == dht_lookup(Prefix(f.str, f.i))
             next == [f EXCEPT !.i = @ + 1]
  <2>1. pc[c] = "lin" /\ f.i \in Nat
    BY <1>6, FrameOf DEF LookupLin, At, Frame
  <2>2. \/ IsLeaf(node) /\ Found(c, node)
        \/ Goto(c, "lin", next) \/ Fatal(c)
    BY <1>6 DEF LookupLin
  <2>3. next.str = f.str
    BY FrameOf DEF Frame
  <2> HIDE DEF next
  <2>4. CASE IsLeaf(node) /\ Found(c, node)
    BY <1>1, <2>1, <2>4, CoverFound
  <2> QED
    BY <1>1, <1>2, <2>1, <2>2, <2>3, <2>4, CoverGoto
<1>7. CASE Visit(c)
  <2> DEFINE f == frame[c]
             todo == f.todo
             x == Head(todo)
             node == dht_lookup(x)
  <2>1. pc[c] = "visit" /\ Ranges(c) /\ todo \in Seq(BitStrings(BIT_DOMAIN)) /\ todo # <<>>
    BY <1>3, <1>7, FrameOf DEF Visit, At, Stage, Frame
  <2>2. \A k \in wanted[c] : k \in f.data \/ Leads(db, k, todo)
    BY <2>1 DEF CoverInv, Covers
  <2>3. \/ Fatal(c)
        \/ node # None /\ Traverse(c, node, Tail(todo), f.data)
    BY <1>7 DEF Visit
  <2> HIDE DEF f, todo
  <2>4. /\ x \in BitStrings(BIT_DOMAIN) /\ Tail(todo) \in Seq(BitStrings(BIT_DOMAIN))
        /\ \A i \in 1 .. Len(todo) :
               \/ todo[i] = x
               \/ i - 1 \in 1 .. Len(Tail(todo)) /\ todo[i] = Tail(todo)[i - 1]
    BY <2>1
  <2>5. \A k \in wanted[c] : k \in f.data \/ Under(k.integral, x) \/ Leads(db, k, Tail(todo))
    BY <2>2, <2>4 DEF Leads
  <2>6. x \in Label
    <3> HIDE DEF x
    <3> QED
      BY <2>4, LongerString, WidthType DEF Label
  <2>7. CASE node # None /\ Traverse(c, node, Tail(todo), f.data)
    <3>1. node = db[x]
      BY <2>6, <2>7, Looked
    <3> HIDE DEF x, node
    <3> QED
      BY <1>1, <2>1, <2>4, <2>5, <2>7, <3>1, CoverTraverse
  <2> QED
    BY <1>2, <2>3, <2>7
<1> QED
  BY <1>4, <1>5, <1>6, <1>7

-----------------------------------------------------------------------------
\* CoverInv is kept by a write: while nobody deletes, no node disappears.
LEMMA CoverWrite ==
    ASSUME OneInserter, TypeInv, TrieInv, CoverInv, NEW c \in Client, Write(c)
    PROVE  CoverInv'
<1> DEFINE w == Head(out[c])
           rest == Tail(out[c])
<1>1. pc[c] = "write" /\ out[c] \in Seq(SoundWrite) /\ out[c] # <<>>
  BY FrameOf DEF Write, At, Stage
<1>2. w = out[c][1] /\ 1 \in 1 .. Len(out[c]) /\ w \in SoundWrite
  BY <1>1
<1>3. ~frame[c].merge_on /\ w.node # None
  BY <1>1, <1>2 DEF TrieInv
<1>4. /\ db' = [db EXCEPT ![w.at] = w.node] /\ UNCHANGED <<call, wanted>>
      /\ Writes(c, rest, frame[c]) \/ Return(c, None)
  BY <1>3 DEF Write
<1> HIDE DEF w, rest
<1>5. \A x \in Label : db[x] # None => db'[x] # None
  BY <1>3, <1>4 DEF TypeInv, DbTyped
<1> QED
  BY <1>4, <1>5, CoverWrites, CoverReturn

\* CoverInv is kept by the call of init.
LEMMA CoverInit ==
    ASSUME TypeInv, CoverInv, NEW c \in Client, InitTrie(c)
    PROVE  CoverInv'
<1>1. UNCHANGED <<db, call, wanted>>
  BY DEF InitTrie, Read
<1>2. Return(c, None) \/ Writes(c, <<Publish(LeafNode(<<>>))>>, EmptyFrame)
  BY DEF InitTrie
<1> QED
  BY <1>1, <1>2, CoverReturn, CoverWrites

\* A query that begins wants the keys kept that are in its rectangle.
LEMMA CoverBegin ==
    ASSUME NoDeletes, TypeInv, CoverInv, NEW c \in Client, Begin(c)
    PROVE  CoverInv'
<1>1. PICK m \in Call :
          /\ m.type \in OpsOf[c] /\ call' = [call EXCEPT ![c] = m]
          /\ \/ /\ m.type # "range" /\ pc' = [pc EXCEPT ![c] = "bin"]
                /\ frame' = [frame EXCEPT ![c] =
                                [EmptyFrame EXCEPT !.str = m.key.integral, !.r = BIT_DOMAIN]]
                /\ kept' = IF m.type = "delete" THEN kept \ {m.key} ELSE kept
                /\ wanted' = [e \in Client |->
                                 IF m.type = "delete" THEN wanted[e] \ {m.key} ELSE wanted[e]]
             \/ /\ m.type = "range" /\ pc' = [pc EXCEPT ![c] = "start"]
                /\ frame' = [frame EXCEPT ![c] =
                                [EmptyFrame EXCEPT !.str = get_lcp({m.query.min, m.query.max}),
                                                   !.r = BIT_DOMAIN]]
                /\ wanted' = [wanted EXCEPT ![c] = {k \in kept : InRange(k, m.query)}]
                /\ UNCHANGED <<kept, gone>>
  BY DEF Begin
<1>2. db' = db /\ answer' = [answer EXCEPT ![c] = None]
  BY DEF Begin
<1>3. m.type # "delete"
  BY <1>1 DEF NoDeletes
<1>4. kept' = kept
  BY <1>1, <1>3
<1>5. PICK a, s, W : /\ pc' = [pc EXCEPT ![c] = a] /\ a \in {"bin", "start"}
                     /\ frame' = [frame EXCEPT ![c] = [EmptyFrame EXCEPT !.str = s, !.r = BIT_DOMAIN]]
                     /\ m.type = "range" =>
                            /\ s = get_lcp({m.query.min, m.query.max})
                            /\ W = {k \in kept : InRange(k, m.query)}
                     /\ wanted' = [wanted EXCEPT ![c] = W]
  <2> DEFINE before == [e \in Client |-> wanted[e]]
  <2>1. wanted = before
    BY DEF CoverInv
  <2>2. CASE m.type # "range"
    <3>1. wanted' = [e \in Client |-> wanted[e]]
      BY <1>1, <1>3, <2>2
    <3>2. wanted' = [before EXCEPT ![c] = before[c]]
      BY <3>1
    <3>3. wanted' = [wanted EXCEPT ![c] = wanted[c]]
      BY <2>1, <3>2
    <3> QED
      BY <1>1, <2>2, <3>3
  <2>3. CASE m.type = "range"
    <3> DEFINE str == get_lcp({m.query.min, m.query.max})
               all == {k \in kept : InRange(k, m.query)}
    <3>1. /\ pc' = [pc EXCEPT ![c] = "start"] /\ wanted' = [wanted EXCEPT ![c] = all]
          /\ frame' = [frame EXCEPT ![c] = [EmptyFrame EXCEPT !.str = str, !.r = BIT_DOMAIN]]
      BY <1>1, <2>3
    <3> QED
      BY <3>1, Zenon
  <2> QED
    BY <2>2, <2>3
<1>6. \A e \in Client :
          /\ call'[e] = IF e = c THEN m ELSE call[e]
          /\ pc'[e] = IF e = c THEN a ELSE pc[e]
          /\ frame'[e] = IF e = c THEN [EmptyFrame EXCEPT !.str = s, !.r = BIT_DOMAIN]
                         ELSE frame[e]
  BY <1>1, <1>5 DEF TypeInv, LocalsTyped
<1>7. /\ \A e \in Client : /\ answer'[e] = IF e = c THEN None ELSE answer[e]
                           /\ wanted'[e] = IF e = c THEN W ELSE wanted[e]
      /\ answer' = [e \in Client |-> answer'[e]] /\ wanted' = [e \in Client |-> wanted'[e]]
  <2> DEFINE answers == [e \in Client |-> answer[e]]
             wants == [e \in Client |-> wanted[e]]
  <2>1. answer = answers /\ wanted = wants
    BY DEF CoverInv
  <2>2. answer' = [answers EXCEPT ![c] = None] /\ wanted' = [wants EXCEPT ![c] = W]
    BY <1>2, <1>5, <2>1
  <2> QED
    BY <2>2
<1> SUFFICES ASSUME NEW e \in Client PROVE Covers(e)'
  BY <1>7 DEF CoverInv
<1>8. CASE e # c
  <2>1. Covers(e)
    BY DEF CoverInv
  <2>2. /\ call'[e] = call[e] /\ pc'[e] = pc[e] /\ frame'[e] = frame[e]
        /\ answer'[e] = answer[e] /\ wanted'[e] = wanted[e]
    BY <1>6, <1>7, <1>8
  <2> QED
    BY <1>2, <1>4, <2>1, <2>2 DEF Covers, Ranges, Leads
<1>9. CASE e = c
  <2>1. [EmptyFrame EXCEPT !.str = s, !.r = BIT_DOMAIN].str = s
    BY DEF EmptyFrame
  <2>2. /\ call'[c] = m /\ pc'[c] \in {"bin", "start"} /\ frame'[c].str = s
        /\ answer'[c] = None /\ wanted'[c] = W
    BY <1>5, <1>6, <1>7, <2>1
  <2>3. m.type = "range" =>
            /\ \A k \in W : k \in kept /\ InRange(k, m.query)
            /\ s = get_lcp({m.query.min, m.query.max})
    BY <1>5
  <2> QED
    BY <1>4, <1>9, <2>2, <2>3 DEF Covers, Ranges
<1> QED
  BY <1>8, <1>9

\* CoverInv is kept by every step, as long as a search finds every key kept while a
\* query runs.
LEMMA CoverNext ==
    ASSUME NEW e \in Nat, NearDiagonal(e), NodesAbove(e),
           OneInserter, TypeInv, KeysApart, TrieInv, CoverInv,
           \A c \in Client : Ranges(c) => \A k \in kept : Spanned(db, k),
           [Next]_vars
    PROVE  CoverInv'
<1>1. CASE UNCHANGED vars
  BY <1>1 DEF vars, CoverInv, Covers, Ranges, Leads
<1>2. ASSUME NEW c \in Client, Begin(c)
      PROVE  CoverInv'
  BY <1>2, CoverBegin DEF OneInserter
<1>3. ASSUME NEW c \in Client, Crash(c)
      PROVE  CoverInv'
  BY <1>3 DEF Crash, CoverInv, Covers, Ranges, Leads
<1>4. ASSUME NEW c \in Client,
             ReadSibling(c) \/ ReadParent(c) \/ ReadLeft(c) \/ ReadRight(c) \/ ReadCousin(c)
      PROVE  CoverInv'
  BY <1>4 DEF ReadSibling, ReadParent, ReadLeft, ReadRight, ReadCousin, At, TrieInv
<1>5. ASSUME NEW c \in Client, LookupStart(c) \/ LookupBin(c) \/ LookupLin(c) \/ Visit(c)
      PROVE  CoverInv'
  BY <1>5, CoverSearch
<1> QED
  BY <1>1, <1>2, <1>3, <1>4, <1>5, CoverInit, CoverWrite DEF Next, Proceed

\* CoverInv holds at the start.
LEMMA CoverFirst ==
    ASSUME Init
    PROVE  CoverInv
<1>1. /\ \A c \in Client : pc[c] = "init" /\ answer[c] = None
      /\ answer = [c \in Client |-> answer[c]] /\ wanted = [c \in Client |-> wanted[c]]
  BY DEF Init
<1> QED
  BY <1>1 DEF CoverInv, Covers, Ranges

\* What CoverInv and GhostInv say of an answer makes it exact.
LEMMA CoverExact ==
    ASSUME CoverInv, GhostInv
    PROVE  RangeExact
BY DEF CoverInv, Covers, GhostInv, RangeExact

\* Queries are exact while splits are of one level and no node is below what the
\* traversal's pruning is right for.
LEMMA ExactAbove ==
    ASSUME OneInserter, FewClose, NEW e \in Nat, NearDiagonal(e)
    PROVE  Spec /\ []OneLevel /\ []NodesAbove(e) => []RangeExact
<1> DEFINE J == TypeInv /\ KeysApart /\ TrieInv /\ (FewClose => SizeInv)
           D == NodesAbove(e)
<1>1. Init => LiveInv /\ CoverInv
  BY CoverFirst DEF Init, LiveInv
<1>2. J /\ J' /\ OneLevel' /\ D /\ LiveInv /\ CoverInv /\ [Next]_vars => LiveInv' /\ CoverInv'
  <2> SUFFICES ASSUME J, J', OneLevel', D, LiveInv, CoverInv, [Next]_vars
               PROVE  LiveInv' /\ CoverInv'
    OBVIOUS
  <2>1. TypeInv /\ KeysApart /\ TrieInv /\ SizeInv /\ KeysApart' /\ NodesAbove(e)
    OBVIOUS
  <2>2. \A k \in kept : Spanned(db, k)
    BY DEF LiveInv
  <2> HIDE DEF J, D
  <2> QED
    BY <2>1, <2>2, LiveNext, CoverNext
<1>3. Spec => []J
  BY TrieCorrect
<1>4. Spec => []GhostInv
  BY GhostCorrect DEF OneInserter
<1> HIDE DEF J, D
<1>5. Spec /\ []OneLevel /\ []D => []RangeExact
  BY <1>1, <1>2, <1>3, <1>4, CoverExact, PTL DEF Spec
<1> QED
  BY <1>5 DEF D

\* No query runs while a client writes.
QueriesApart == \A c, d \in Client : Ranges(c) => out[d] = <<>>

\* Queries are exact when no split falls into one.
LEMMA ExactApartAbove ==
    ASSUME OneInserter, FewClose, NEW e \in Nat, NearDiagonal(e)
    PROVE  Spec /\ []QueriesApart /\ []NodesAbove(e) => []RangeExact
<1> DEFINE J == TypeInv /\ KeysApart /\ TrieInv /\ (FewClose => SizeInv)
           D == NodesAbove(e)
<1>1. Init => CoverInv
  BY CoverFirst
<1>2. J /\ QueriesApart /\ D /\ CoverInv /\ [Next]_vars => CoverInv'
  <2> SUFFICES ASSUME J, QueriesApart, D, CoverInv, [Next]_vars
               PROVE  CoverInv'
    OBVIOUS
  <2>1. ASSUME NEW c \in Client, Ranges(c), NEW k \in kept
        PROVE  Spanned(db, k)
    <3>1. AllWritten
      BY <2>1 DEF QueriesApart, AllWritten
    <3>2. TrieOf(db) /\ Located(db, k) /\ k \in Key
      BY <2>1, <3>1 DEF TrieInv, Holds, KeysApart
    <3> QED
      BY <3>2, LocatedSpanned
  <2>2. TypeInv /\ KeysApart /\ TrieInv /\ NodesAbove(e)
    OBVIOUS
  <2> HIDE DEF J, D
  <2> QED
    BY <2>1, <2>2, CoverNext
<1>3. Spec => []J
  BY TrieCorrect
<1>4. Spec => []GhostInv
  BY GhostCorrect DEF OneInserter
<1> HIDE DEF J, D
<1>5. Spec /\ []QueriesApart /\ []D => []RangeExact
  BY <1>1, <1>2, <1>3, <1>4, CoverExact, PTL DEF Spec
<1> QED
  BY <1>5 DEF D

\* What tells the keys apart keeps the nodes above the last 2e bits.
LEMMA NodesAboveCorrect ==
    ASSUME NEW e \in Nat, NEW m \in Nat, m + 2 * e <= BIT_DOMAIN, FewWithin(m)
    PROVE  Spec => []NodesAbove(e)
<1> DEFINE D == \A x \in Label : db[x] # None => Len(x) <= m
           N == NodesAbove(e)
<1>1. m \in 0 .. BIT_DOMAIN
  BY WidthType
<1>2. D => N
  <2> SUFFICES ASSUME D, NEW x \in BitStrings(BIT_DOMAIN), db[x] # None
               PROVE  Len(x) + 2 * e <= BIT_DOMAIN
    BY DEF NodesAbove
  <2>1. x \in Label /\ Len(x) \in Nat
    BY LongerString, BitStringIsSeq, WidthType DEF Label
  <2>2. Len(x) <= m
    BY <2>1
  <2> QED
    BY <2>1, <2>2, WidthType
<1>3. Spec => []D
  BY <1>1, DepthWithin
<1> HIDE DEF D, N
<1>4. Spec => []N
  BY <1>2, <1>3, PTL
<1> QED
  BY <1>4 DEF N

\* What one client inserts, the others' queries return: every key in the rectangle
\* that was in the trie when the query began, whatever splits happen while it runs and
\* whoever stops in the middle of one, and none that was out of the trie all that time.
\* The splits are of one level; the queries' corners are near enough to the diagonal for
\* nodes as deep as the keys make them.
THEOREM RangeExactCorrect ==
    ASSUME OneInserter, FewClose, NEW e \in Nat, NearDiagonal(e),
           NEW m \in Nat, m + 2 * e <= BIT_DOMAIN, FewWithin(m)
    PROVE  Spec /\ []OneLevel => []RangeExact
<1> DEFINE D == NodesAbove(e)
<1>1. Spec => []D
  BY NodesAboveCorrect
<1>2. Spec /\ []OneLevel /\ []D => []RangeExact
  BY ExactAbove
<1> HIDE DEF D
<1> QED
  BY <1>1, <1>2, PTL

\* The same for splits of any number of levels, when they fall between the queries.
THEOREM RangeExactApart ==
    ASSUME OneInserter, FewClose, NEW e \in Nat, NearDiagonal(e),
           NEW m \in Nat, m + 2 * e <= BIT_DOMAIN, FewWithin(m)
    PROVE  Spec /\ []QueriesApart => []RangeExact
<1> DEFINE D == NodesAbove(e)
<1>1. Spec => []D
  BY NodesAboveCorrect
<1>2. Spec /\ []QueriesApart /\ []D => []RangeExact
  BY ExactApartAbove
<1> HIDE DEF D
<1> QED
  BY <1>1, <1>2, PTL

\* A single client that inserts and queries: its queries are exact, whatever it inserts
\* and however deep its splits go.
THEOREM RangeExactAlone ==
    ASSUME NoDeletes, \A c, d \in Client : c = d, FewClose, NEW e \in Nat, NearDiagonal(e),
           NEW m \in Nat, m + 2 * e <= BIT_DOMAIN, FewWithin(m)
    PROVE  Spec => []RangeExact
<1>1. OneInserter
  BY DEF OneInserter
<1>2. TypeInv => QueriesApart
  BY DEF TypeInv, Staged, Stage, QueriesApart, Ranges
<1>3. Spec /\ []QueriesApart => []RangeExact
  BY <1>1, RangeExactApart
<1> QED
  BY <1>2, <1>3, TypeCorrect, PTL

=============================================================================
