----------------------------- MODULE Bus_proofs -----------------------------
(***************************************************************************)
(* Theorems about Bus, for every set of nodes and calls, and every number  *)
(* of them.  BusInv says of every message on its way that its number is    *)
(* still the one of its call, unless the caller has restarted since        *)
(* (GoodMessage), which is why an answer ends its own call; of every       *)
(* listener that its call is open (ListenInv); and of every session that   *)
(* an answer to a HELLO is behind it (SessionInv).                         *)
(***************************************************************************)
EXTENDS Bus, TLAPS

\* TypeOK, with the ranges of the functions.
BusTypeOK ==
    /\ generation \in [Node -> 0 .. GEN_MAX \cup {Undefined}]
    /\ listening \in [Node -> SUBSET Listener]
    /\ sessions \in [Node -> [Node -> {"none", "shaking", "up"}]]
    /\ waiting \in [Node -> SUBSET Message]
    /\ transit \subseteq Message
    /\ outcome \in [Call -> {"none", "open", "success", "timeout", "forgotten"}]
    /\ served \subseteq Call
    /\ past \subseteq Call
    /\ restarts \in 0 .. MaxRestarts

\* A listener of a Call is the one of an open Call of this node.
ListenInv ==
    \A n \in Node :
        /\ \A l \in listening[n] : l.type = "DHT" =>
              /\ l.call \in Call /\ From[l.call] = n /\ outcome[l.call] = "open"
              /\ generation[n] = Undefined \/ l.gen <= generation[n]
        /\ \A l, k \in listening[n] :
              l.type = "DHT" /\ k.type = "DHT" /\ l.call = k.call => l = k

\* The number of a request and of its answer.
Size(g) == IF g < 0 THEN -g ELSE g

\* The number g was given to the call c by the life of the caller that is on.
NumberOf(c, g) ==
    /\ generation[From[c]] = Undefined \/ g <= generation[From[c]]
    /\ \A l \in listening[From[c]] : l.type = "DHT" /\ l.gen = g => l.call = c

\* What holds of a message that is on its way, or waits for a session: its call
\* was made, an answer was served, and its number is still its call's.
GoodMessage(m) ==
    m.type = "DHT" =>
        /\ m.call \in Call /\ outcome[m.call] # "none"
        /\ m.gen < 0 => m.call \in served /\ m.dst = From[m.call]
        /\ m.gen >= 0 => m.src = From[m.call]
        /\ m.call \notin past /\ m.gen # 0 => NumberOf(m.call, Size(m.gen))

\* Of all messages; and only requests and answers wait.
MessageInv ==
    /\ \A m \in transit : GoodMessage(m)
    /\ \A n \in Node : \A m \in waiting[n] :
          GoodMessage(m) /\ m.src = n /\ m.type = "DHT"

\* p has answered a HELLO of n.
Greeted(n, p) ==
    \E h \in transit : h.type = "HANDSHAKE" /\ h.gen < 0 /\ h.src = p /\ h.dst = n

\* A handshake of n with p has a timer, or n has no numbers left.
Shaking(n, p) ==
    \/ generation[n] = Undefined
    \/ \E l \in listening[n] : l.type = "HANDSHAKE" /\ l.peer = p

\* A session is up after an answer to a HELLO, and messages wait only for a
\* handshake that runs.
SessionInv ==
    /\ \A m \in transit : m.type = "DHT" => Greeted(m.src, m.dst)
    /\ \A n, p \in Node :
          /\ sessions[n][p] = "up" => Greeted(n, p)
          /\ sessions[n][p] = "shaking" => Shaking(n, p)
          /\ sessions[n][p] # "shaking" => WaitingFor(n, p) = {}

\* The inductive invariant.
BusInv == BusTypeOK /\ ListenInv /\ MessageInv /\ SessionInv

\* next_gen grows until the numbers run out.
LEMMA NextGen ==
    ASSUME NEW g \in 0 .. GEN_MAX \cup {Undefined}
    PROVE  /\ next_gen(g) \in 1 .. GEN_MAX \cup {Undefined}
           /\ g = Undefined => next_gen(g) = Undefined
           /\ next_gen(g) # Undefined => g # Undefined /\ g < next_gen(g) /\ is_gen_req(next_gen(g))
           /\ OnWire(next_gen(g)) \in 0 .. GEN_MAX
           /\ OnWire(next_gen(g)) # 0 => OnWire(next_gen(g)) = next_gen(g) /\ next_gen(g) # Undefined
BY BusAssumption DEF next_gen, Undefined, is_gen_req, OnWire

\* A HELLO is a message of the handshake.
LEMMA HelloType ==
    ASSUME NEW n \in Node, NEW p \in Node, NEW g \in 0 .. GEN_MAX \cup {Undefined}
    PROVE  /\ HELLO(n, p, g) \in Message /\ HELLO(n, p, g).type = "HANDSHAKE"
           /\ HELLO(n, p, g).src = n /\ HELLO(n, p, g).dst = p
BY BusAssumption DEF HELLO, Message, MSG_TYPE, Gen, OnWire, Undefined

\* The invariant holds when nothing was sent.
LEMMA BusInit == Init => BusInv
<1> SUFFICES ASSUME Init PROVE BusInv
  OBVIOUS
<1>1. BusTypeOK
  BY BusAssumption DEF Init, BusTypeOK, Undefined
<1> QED
  BY <1>1 DEF Init, BusInv, ListenInv, MessageInv, SessionInv, WaitingFor

\* What a step may do to node n without making a good message bad.
Goes(n) ==
    \/ \A c \in Call : From[c] = n /\ outcome[c] # "none" => c \in past'
    \/ /\ \/ generation'[n] = Undefined
          \/ generation[n] # Undefined /\ generation'[n] >= generation[n]
       /\ \A l \in listening'[n] : l.type = "DHT" =>
             l \in listening[n] \/ (generation[n] # Undefined /\ l.gen > generation[n])

\* No history is lost, and no node does worse than Goes.
Grows ==
    /\ \A c \in Call : outcome[c] # "none" => outcome'[c] # "none"
    /\ served \subseteq served'
    /\ past \subseteq past'
    /\ \A n \in Node : Goes(n)

\* Then a good message stays good.
LEMMA KeepsMessage ==
    ASSUME BusTypeOK, BusTypeOK', Grows, NEW m \in Message, GoodMessage(m)
    PROVE  GoodMessage(m)'
<1> SUFFICES ASSUME m.type = "DHT"
             PROVE  GoodMessage(m)'
  BY DEF GoodMessage
<1>1. m.call \in Call /\ outcome'[m.call] # "none"
  BY DEF GoodMessage, Grows
<1>2. m.gen < 0 => m.call \in served' /\ m.dst = From[m.call]
  BY DEF GoodMessage, Grows
<1>3. m.gen >= 0 => m.src = From[m.call]
  BY DEF GoodMessage
<1>4. ASSUME m.call \notin past', m.gen # 0
      PROVE  NumberOf(m.call, Size(m.gen))'
  <2>1. NumberOf(m.call, Size(m.gen))
    BY <1>4 DEF GoodMessage, Grows
  <2>2. From[m.call] \in Node
    BY <1>1, BusAssumption
  <2>3. Size(m.gen) \in 1 .. GEN_MAX
    BY <1>4, BusAssumption DEF Size, Message, Gen
  <2> DEFINE n == From[m.call]
             s == Size(m.gen)
  <2>4. /\ \/ generation'[n] = Undefined
           \/ generation[n] # Undefined /\ generation'[n] >= generation[n]
        /\ \A l \in listening'[n] : l.type = "DHT" =>
             l \in listening[n] \/ (generation[n] # Undefined /\ l.gen > generation[n])
    BY <1>1, <1>4, <2>2 DEF Grows, Goes, GoodMessage
  <2>5. generation[n] \in 0 .. GEN_MAX \cup {Undefined} /\ generation'[n] \in 0 .. GEN_MAX \cup {Undefined}
    BY <2>2 DEF BusTypeOK
  <2>6. \A l \in listening'[n] : l.gen \in 1 .. GEN_MAX
    BY <2>2 DEF BusTypeOK, Listener
  <2>7. generation'[n] = Undefined \/ s <= generation'[n]
    BY <2>1, <2>3, <2>4, <2>5, BusAssumption DEF NumberOf, Undefined
  <2>8. \A l \in listening'[n] : l.type = "DHT" /\ l.gen = s => l.call = m.call
    BY <2>1, <2>3, <2>4, <2>5, <2>6, BusAssumption DEF NumberOf, Undefined
  <2> QED
    BY <2>7, <2>8 DEF NumberOf
<1> QED
  BY <1>1, <1>2, <1>3, <1>4 DEF GoodMessage

\* What send_secure does to the variables.
Sent(n, m, g, ls) ==
    /\ generation' \in [Node -> 0 .. GEN_MAX \cup {Undefined}]
    /\ listening' \in [Node -> SUBSET Listener]
    /\ sessions' \in [Node -> [Node -> {"none", "shaking", "up"}]]
    /\ waiting' \in [Node -> SUBSET Message]
    /\ transit' \subseteq Message
    /\ \A k \in Node \ {n} :
          /\ generation'[k] = generation[k] /\ listening'[k] = listening[k]
          /\ waiting'[k] = waiting[k] /\ sessions'[k] = sessions[k]
    /\ generation'[n] = g \/ generation'[n] = next_gen(g)
    /\ ls \subseteq listening'[n]
    /\ \A l \in listening'[n] : l \in ls \/ l.type = "HANDSHAKE"
    /\ transit \subseteq transit'
    /\ \A x \in transit' :
          x \in transit \/ x.type = "HANDSHAKE" \/ (x = m /\ sessions[n][m.dst] = "up")
    /\ \A x \in waiting'[n] : x \in waiting[n] \/ (x = m /\ sessions'[n][m.dst] = "shaking")
    /\ \A q \in Node :
          \/ sessions'[n][q] = sessions[n][q]
          \/ /\ q = m.dst /\ sessions'[n][q] = "shaking"
             /\ \/ generation'[n] = Undefined
                \/ \E l \in listening'[n] : l.type = "HANDSHAKE" /\ l.peer = q

\* send_secure does what Sent says.
LEMMA SendSecure ==
    ASSUME BusTypeOK, NEW n \in Node, NEW m \in Message,
           NEW g \in 0 .. GEN_MAX \cup {Undefined}, NEW ls \in SUBSET Listener,
           send_secure(n, m, g, ls)
    PROVE  Sent(n, m, g, ls)
<1> m.dst \in Node
  BY DEF Message
<1> USE DEF BusTypeOK
<1>1. CASE /\ Established(n, m.dst)
           /\ transit' = transit \cup {m}
           /\ generation' = [generation EXCEPT ![n] = g]
           /\ listening' = [listening EXCEPT ![n] = ls]
           /\ UNCHANGED <<sessions, waiting>>
  BY <1>1 DEF Sent, Established
<1>2. CASE /\ ~Established(n, m.dst)
           /\ sessions[n][m.dst] = "shaking"
           /\ waiting' = [waiting EXCEPT ![n] = @ \cup {m}]
           /\ generation' = [generation EXCEPT ![n] = g]
           /\ listening' = [listening EXCEPT ![n] = ls]
           /\ UNCHANGED <<sessions, transit>>
  BY <1>2 DEF Sent, Established
<1>3. CASE /\ sessions[n][m.dst] = "none"
           /\ LET h == next_gen(g)
              IN  /\ generation' = [generation EXCEPT ![n] = h]
                  /\ listening' = [listening EXCEPT
                                       ![n] = ls \cup Listeners("HANDSHAKE", m.dst, h, None)]
                  /\ transit' = transit \cup {HELLO(n, m.dst, h)}
           /\ sessions' = [sessions EXCEPT ![n][m.dst] = "shaking"]
           /\ waiting' = [waiting EXCEPT ![n] = @ \cup {m}]
  <2> DEFINE h == next_gen(g)
             L == Listeners("HANDSHAKE", m.dst, h, None)
             H == HELLO(n, m.dst, h)
  <2>1. h \in 1 .. GEN_MAX \cup {Undefined} /\ h \in 0 .. GEN_MAX \cup {Undefined}
    BY NextGen, BusAssumption DEF Undefined
  <2>2. /\ L \subseteq Listener
        /\ \A l \in L : l.type = "HANDSHAKE" /\ l.peer = m.dst
        /\ h = Undefined \/ \E l \in L : l.type = "HANDSHAKE" /\ l.peer = m.dst
    <3>1. CASE is_gen_req(h) /\ L = {[type |-> "HANDSHAKE", peer |-> m.dst, gen |-> h, call |-> None]}
      <4>1. h \in 1 .. GEN_MAX
        BY <3>1, <2>1, BusAssumption DEF is_gen_req, Undefined
      <4> HIDE DEF h, L
      <4>2. PICK r : r = [type |-> "HANDSHAKE", peer |-> m.dst, gen |-> h, call |-> None]
        OBVIOUS
      <4>3. r \in Listener /\ r.type = "HANDSHAKE" /\ r.peer = m.dst
        BY <4>1, <4>2 DEF Listener, MSG_TYPE
      <4> QED
        BY <3>1, <4>2, <4>3
    <3>2. CASE ~is_gen_req(h) /\ L = {}
      <4>1. h = Undefined
        BY <3>2, <2>1, BusAssumption DEF is_gen_req
      <4> QED
        BY <3>2, <4>1
    <3> QED
      BY <3>1, <3>2 DEF Listeners
  <2>3. H \in Message /\ H.type = "HANDSHAKE"
    <3> HIDE DEF h
    <3> QED
      BY <2>1, HelloType
  <2>4. /\ generation' = [generation EXCEPT ![n] = h]
        /\ listening' = [listening EXCEPT ![n] = ls \cup L]
        /\ transit' = transit \cup {H}
        /\ sessions' = [sessions EXCEPT ![n][m.dst] = "shaking"]
        /\ waiting' = [waiting EXCEPT ![n] = @ \cup {m}]
    BY <1>3
  <2>5. h = next_gen(g)
    OBVIOUS
  <2> HIDE DEF h, L, H
  <2> QED
    BY <2>1, <2>2, <2>3, <2>4, <2>5 DEF Sent
<1> QED
  BY <1>1, <1>2, <1>3 DEF send_secure

\* What is sent keeps SessionInv: it goes where a session is up, or waits.
LEMMA SentSessions ==
    ASSUME BusTypeOK, SessionInv, NEW n \in Node, NEW m \in Message,
           NEW g \in 0 .. GEN_MAX \cup {Undefined}, NEW ls \in SUBSET Listener,
           m.src = n, Sent(n, m, g, ls), listening[n] \subseteq ls,
           generation[n] = Undefined => g = Undefined
    PROVE  SessionInv'
<1> m.dst \in Node
  BY DEF Message
<1>1. \A k, q \in Node : Greeted(k, q) => Greeted(k, q)'
  BY DEF Greeted, Sent
<1>2. ASSUME NEW x \in transit', x.type = "DHT"
      PROVE  Greeted(x.src, x.dst)'
  <2>1. CASE x \in transit
    <3>1. x.src \in Node /\ x.dst \in Node
      BY <2>1 DEF BusTypeOK, Message
    <3> QED
      BY <3>1, <2>1, <1>1, <1>2 DEF SessionInv
  <2>2. CASE x = m /\ sessions[n][m.dst] = "up"
    BY <2>2, <1>1 DEF SessionInv
  <2> QED
    BY <2>1, <2>2, <1>2 DEF Sent
<1>3. ASSUME NEW k \in Node, NEW q \in Node
      PROVE  /\ sessions'[k][q] = "up" => Greeted(k, q)'
             /\ sessions'[k][q] = "shaking" => Shaking(k, q)'
             /\ sessions'[k][q] # "shaking" => WaitingFor(k, q)' = {}
  <2>1. CASE k # n
    BY <2>1, <1>1 DEF Sent, SessionInv, Shaking, WaitingFor
  <2>2. CASE k = n
    <3>1. sessions'[n][q] = "up" => Greeted(n, q)'
      BY <1>1 DEF Sent, SessionInv
    <3>2. sessions'[n][q] = "shaking" => Shaking(n, q)'
      <4>1. generation[n] = Undefined => generation'[n] = Undefined
        BY NextGen DEF Sent
      <4> QED
        BY <4>1 DEF Sent, SessionInv, Shaking
    <3>3. sessions'[n][q] # "shaking" => WaitingFor(n, q)' = {}
      BY DEF Sent, SessionInv, WaitingFor
    <3> QED
      BY <2>2, <3>1, <3>2, <3>3
  <2> QED
    BY <2>1, <2>2
<1> QED
  BY <1>2, <1>3 DEF SessionInv

\* A good message that is sent keeps MessageInv.
LEMMA SentMessages ==
    ASSUME BusTypeOK, BusTypeOK', MessageInv, Grows, NEW n \in Node, NEW m \in Message,
           NEW g, NEW ls, GoodMessage(m)', m.src = n, m.type = "DHT", Sent(n, m, g, ls)
    PROVE  MessageInv'
<1>1. \A x \in transit : x \in Message
  BY DEF BusTypeOK
<1>2. \A k \in Node : \A x \in waiting[k] : x \in Message
  BY DEF BusTypeOK
<1>3. ASSUME NEW x \in transit'
      PROVE  GoodMessage(x)'
  <2>1. CASE x \in transit
    BY <2>1, <1>1, KeepsMessage DEF MessageInv
  <2>2. CASE x.type = "HANDSHAKE"
    BY <2>2 DEF GoodMessage
  <2> QED
    BY <2>1, <2>2 DEF Sent
<1>4. ASSUME NEW k \in Node, NEW x \in waiting'[k]
      PROVE  GoodMessage(x)' /\ x.src = k /\ x.type = "DHT"
  <2>1. x \in waiting[k] \/ (k = n /\ x = m)
    BY DEF Sent
  <2>2. CASE x \in waiting[k]
    BY <2>2, <1>2, KeepsMessage DEF MessageInv
  <2> QED
    BY <2>1, <2>2
<1> QED
  BY <1>3, <1>4 DEF MessageInv

\* The listeners of a sender are old, or have a number of their own.
LEMMA SentGrows ==
    ASSUME BusTypeOK, NEW n \in Node, NEW m \in Message,
           NEW g \in 0 .. GEN_MAX \cup {Undefined}, NEW ls \in SUBSET Listener,
           Sent(n, m, g, ls),
           g # Undefined => generation[n] # Undefined /\ g >= generation[n],
           \A l \in ls : l.type = "DHT" =>
               l \in listening[n] \/ (generation[n] # Undefined /\ l.gen > generation[n])
    PROVE  \A k \in Node : Goes(k)
<1> TAKE k \in Node
<1>1. CASE k # n
  <2>1. generation[k] \in 0 .. GEN_MAX \cup {Undefined}
    BY DEF BusTypeOK
  <2> QED
    BY <1>1, <2>1, BusAssumption DEF Sent, Goes, Undefined
<1>2. CASE k = n
  <2>1. generation[n] \in 0 .. GEN_MAX \cup {Undefined}
    BY DEF BusTypeOK
  <2>2. \/ generation'[n] = Undefined
        \/ generation[n] # Undefined /\ generation'[n] >= generation[n]
    BY <2>1, NextGen, BusAssumption DEF Sent, Undefined
  <2>3. \A l \in listening'[n] : l.type = "DHT" =>
             l \in listening[n] \/ (generation[n] # Undefined /\ l.gen > generation[n])
    BY DEF Sent
  <2> QED
    BY <1>2, <2>2, <2>3 DEF Goes
<1> QED
  BY <1>1, <1>2

\* A request takes a new number, for which nobody listens yet.
LEMMA RequestStep ==
    ASSUME BusInv, NEW c \in Call, Request(c)
    PROVE  BusInv'
<1> DEFINE n == From[c]
<1>g. PICK g : g = next_gen(generation[n])
  OBVIOUS
<1>L. PICK L : L = Listeners("DHT", To[c], g, c)
  OBVIOUS
<1>m. PICK m : m = [type |-> "DHT", src |-> n, dst |-> To[c], gen |-> OnWire(g), call |-> c]
  OBVIOUS
<1>l. PICK ls : ls = listening[n] \cup L
  OBVIOUS
<1>0. BusTypeOK /\ ListenInv /\ MessageInv /\ SessionInv
  BY DEF BusInv
<1>1. n \in Node /\ To[c] \in Node /\ "DHT" \in MSG_TYPE
  BY BusAssumption DEF MSG_TYPE
<1>2. generation[n] \in 0 .. GEN_MAX \cup {Undefined}
  BY <1>0, <1>1 DEF BusTypeOK
<1>3. /\ g \in 1 .. GEN_MAX \cup {Undefined}
      /\ generation[n] = Undefined => g = Undefined
      /\ g # Undefined => generation[n] # Undefined /\ generation[n] < g
      /\ OnWire(g) \in 0 .. GEN_MAX
      /\ OnWire(g) # 0 => OnWire(g) = g /\ g # Undefined
  BY <1>2, <1>g, NextGen
<1>4. /\ outcome[c] = "none"
      /\ send_secure(n, m, g, ls)
      /\ outcome' = [outcome EXCEPT ![c] = "open"]
      /\ UNCHANGED <<served, past, restarts>>
  BY <1>g, <1>L, <1>m, <1>l DEF Request
<1>5. m \in Message /\ m.type = "DHT" /\ m.src = n /\ m.call = c /\ m.gen = OnWire(g)
  <2> HIDE DEF n
  <2> QED
    BY <1>1, <1>3, <1>m, BusAssumption DEF Message, Gen
<1>6. g \in 0 .. GEN_MAX \cup {Undefined}
  BY <1>3, BusAssumption DEF Undefined
<1>7. /\ L \subseteq Listener
      /\ \A l \in L : l.type = "DHT" /\ l.gen = g /\ l.call = c /\ g # Undefined
      /\ \A l, k \in L : l = k
  <2>1. \A l, k \in L : l = k
    BY <1>L DEF Listeners
  <2>3. /\ L \subseteq Listener
        /\ \A l \in L : l.type = "DHT" /\ l.gen = g /\ l.call = c /\ g # Undefined
    <3>1. CASE L = {}
      BY <3>1
    <3>2. CASE is_gen_req(g) /\ L = {[type |-> "DHT", peer |-> To[c], gen |-> g, call |-> c]}
      <4>1. g \in 1 .. GEN_MAX /\ g # Undefined
        BY <3>2, <1>6, BusAssumption DEF is_gen_req, Undefined
      <4> QED
        BY <3>2, <4>1, <1>1 DEF Listener
    <3> QED
      BY <3>1, <3>2, <1>L DEF Listeners
  <2> QED
    BY <2>1, <2>3
<1>8. listening[n] \subseteq Listener
  BY <1>0, <1>1 DEF BusTypeOK
<1>9. ls \subseteq Listener
  BY <1>7, <1>8, <1>l
<1> HIDE DEF n
<1>10. Sent(n, m, g, ls)
  BY <1>0, <1>1, <1>4, <1>5, <1>6, <1>9, SendSecure
<1>11. listening[n] \subseteq ls
  BY <1>l
<1>12. SessionInv'
  BY <1>0, <1>1, <1>3, <1>5, <1>6, <1>9, <1>10, <1>11, SentSessions
<1>13. BusTypeOK'
  BY <1>0, <1>4, <1>10 DEF BusTypeOK, Sent
<1>14. \A l \in ls : l.type = "DHT" =>
           l \in listening[n] \/ (generation[n] # Undefined /\ l.gen > generation[n])
  BY <1>2, <1>3, <1>7, <1>l, BusAssumption DEF Undefined
<1>15. \A k \in Node : Goes(k)
  <2>1. g # Undefined => generation[n] # Undefined /\ g >= generation[n]
    BY <1>2, <1>3, BusAssumption DEF Undefined
  <2> QED
    BY <2>1, <1>0, <1>1, <1>5, <1>6, <1>9, <1>10, <1>14, SentGrows
<1>16. Grows
  BY <1>0, <1>4, <1>15 DEF Grows, BusTypeOK
<1>17. outcome'[c] = "open" /\ \A d \in Call \ {c} : outcome'[d] = outcome[d]
  BY <1>0, <1>4 DEF BusTypeOK
<1>18. generation'[n] = Undefined \/ (g # Undefined /\ g <= generation'[n])
  <2>1. CASE generation'[n] = g
    BY <2>1, <1>3, BusAssumption DEF Undefined
  <2>2. CASE generation'[n] = next_gen(g)
    BY <2>2, <1>6, NextGen, BusAssumption DEF Undefined
  <2> QED
    BY <2>1, <2>2, <1>10 DEF Sent
<1>19. ASSUME NEW l \in listening'[n], l.type = "DHT"
       PROVE  \/ l \in listening[n]
              \/ l \in L /\ l.gen = g /\ l.call = c /\ g # Undefined
  BY <1>7, <1>10, <1>19, <1>l DEF Sent
<1>20. GoodMessage(m)'
  <2>1. outcome'[m.call] # "none" /\ m.call \in Call
    BY <1>5, <1>17
  <2>2. m.gen >= 0 /\ m.src = From[m.call]
    BY <1>3, <1>5, BusAssumption DEF n
  <2>3. ASSUME m.gen # 0
        PROVE  NumberOf(m.call, Size(m.gen))'
    <3>1. m.gen = g /\ g # Undefined /\ Size(m.gen) = g
      BY <1>3, <1>5, <2>2, <2>3, BusAssumption DEF Size, Undefined
    <3>2. \A l \in listening'[n] : l.type = "DHT" /\ l.gen = g => l.call = c
      BY <1>0, <1>1, <1>2, <1>3, <3>1, <1>19, BusAssumption DEF ListenInv, Undefined, BusTypeOK, Listener
    <3> QED
      BY <1>5, <1>18, <3>1, <3>2 DEF NumberOf, n
  <2> QED
    BY <2>1, <2>2, <2>3, <1>3, <1>5, BusAssumption DEF GoodMessage
<1>21. MessageInv'
  BY <1>0, <1>1, <1>5, <1>10, <1>13, <1>16, <1>20, SentMessages
<1>22. ListenInv'
  <2> SUFFICES ASSUME NEW k \in Node
               PROVE  /\ \A l \in listening'[k] : l.type = "DHT" =>
                           /\ l.call \in Call /\ From[l.call] = k /\ outcome'[l.call] = "open"
                           /\ generation'[k] = Undefined \/ l.gen <= generation'[k]
                      /\ \A l, j \in listening'[k] :
                           l.type = "DHT" /\ j.type = "DHT" /\ l.call = j.call => l = j
    BY DEF ListenInv
  <2>1. CASE k # n
    BY <2>1, <1>0, <1>4, <1>10, <1>17 DEF Sent, ListenInv
  <2>2. CASE k = n
    <3>1. \A l \in listening[n] : l.type = "DHT" =>
              l.call # c /\ l.call \in Call /\ From[l.call] = n /\ outcome'[l.call] = "open"
      BY <1>0, <1>1, <1>4, <1>17 DEF ListenInv
    <3>2. \A l \in listening[n] : l.type = "DHT" =>
              generation'[n] = Undefined \/ l.gen <= generation'[n]
      <4>1. generation'[n] = Undefined \/ (generation[n] # Undefined /\ generation'[n] > generation[n])
        BY <1>1, <1>2, <1>3, <1>6, <1>13, <1>18, BusAssumption DEF Undefined, BusTypeOK
      <4>2. generation'[n] \in Int /\ generation[n] \in Int
        BY <1>1, <1>2, <1>13, BusAssumption DEF Undefined, BusTypeOK
      <4>3. \A l \in listening[n] : l.gen \in Int
        BY <1>8, BusAssumption DEF Listener
      <4> QED
        BY <4>1, <4>2, <4>3, <1>0, <1>1 DEF ListenInv
    <3>3. \A l \in listening'[n] : l.type = "DHT" =>
                           /\ l.call \in Call /\ From[l.call] = n /\ outcome'[l.call] = "open"
                           /\ generation'[n] = Undefined \/ l.gen <= generation'[n]
      BY <3>1, <3>2, <1>17, <1>18, <1>19 DEF n
    <3>4. \A l, j \in listening'[n] :
                           l.type = "DHT" /\ j.type = "DHT" /\ l.call = j.call => l = j
      BY <3>1, <1>0, <1>1, <1>7, <1>19 DEF ListenInv
    <3> QED
      BY <2>2, <3>3, <3>4
  <2> QED
    BY <2>1, <2>2
<1> QED
  BY <1>12, <1>13, <1>21, <1>22 DEF BusInv

\* An answer has the number of its request.
LEMMA OnRequestStep ==
    ASSUME BusInv, NEW m \in transit, OnRequest(m)
    PROVE  BusInv'
<1> DEFINE n == m.dst
           a == [m EXCEPT !.src = m.dst, !.dst = m.src, !.gen = get_gen_res(m.gen)]
<1>0. BusTypeOK /\ ListenInv /\ MessageInv /\ SessionInv
  BY DEF BusInv
<1>1. m \in Message /\ n \in Node /\ m.type = "DHT" /\ m.gen > 0 /\ m.gen \in 1 .. GEN_MAX
  BY <1>0, BusAssumption DEF BusTypeOK, Message, OnRequest, is_gen_req, Gen
<1>2. /\ a \in Message /\ a.type = "DHT" /\ a.src = n /\ a.dst = m.src
      /\ a.call = m.call /\ a.gen = -m.gen
  <2>1. PICK k \in Gen : k = get_gen_res(m.gen) /\ k = -m.gen
    BY <1>1, BusAssumption DEF Gen, get_gen_res
  <2>2. a = [m EXCEPT !.src = m.dst, !.dst = m.src, !.gen = k]
    BY <2>1
  <2> HIDE DEF a
  <2> QED
    BY <1>1, <2>1, <2>2 DEF Message
<1>3. GoodMessage(m)
  BY <1>0 DEF MessageInv
<1>4. generation[n] \in 0 .. GEN_MAX \cup {Undefined} /\ listening[n] \subseteq Listener
  BY <1>0, <1>1 DEF BusTypeOK
<1>5. /\ send_secure(n, a, generation[n], listening[n])
      /\ served' = served \cup {m.call}
      /\ UNCHANGED <<outcome, past, restarts>>
  BY DEF OnRequest
<1> HIDE DEF n, a
<1>6. PICK g \in 0 .. GEN_MAX \cup {Undefined} : g = generation[n]
  BY <1>4
<1>7. PICK ls \in SUBSET Listener : ls = listening[n]
  BY <1>4
<1>8. Sent(n, a, g, ls)
  BY <1>0, <1>1, <1>2, <1>5, <1>6, <1>7, SendSecure
<1>9. SessionInv'
  BY <1>0, <1>1, <1>2, <1>6, <1>7, <1>8, SentSessions
<1>10. BusTypeOK'
  BY <1>0, <1>1, <1>3, <1>5, <1>8 DEF BusTypeOK, Sent, GoodMessage
<1>11. \A k \in Node : Goes(k)
  <2>1. g # Undefined => generation[n] # Undefined /\ g >= generation[n]
    BY <1>6, BusAssumption DEF Undefined
  <2> QED
    BY <2>1, <1>0, <1>1, <1>2, <1>7, <1>8, SentGrows
<1>12. Grows
  BY <1>5, <1>11 DEF Grows
<1>13. GoodMessage(m)'
  BY <1>0, <1>1, <1>3, <1>10, <1>12, KeepsMessage
<1>14. GoodMessage(a)'
  <2>1. Size(a.gen) = m.gen /\ Size(m.gen) = m.gen /\ a.gen < 0
    BY <1>1, <1>2, BusAssumption DEF Size
  <2>2. m.src = From[m.call]
    BY <1>1, <1>3 DEF GoodMessage
  <2> HIDE DEF GoodMessage
  <2>3. /\ m.call \in Call /\ outcome'[m.call] # "none"
        /\ m.call \notin past' => NumberOf(m.call, m.gen)'
    BY <1>1, <1>13, <2>1 DEF GoodMessage
  <2> QED
    BY <1>1, <1>2, <1>5, <2>1, <2>2, <2>3 DEF GoodMessage
<1>15. MessageInv'
  <2>1. a.src = n /\ a.type = "DHT" /\ n \in Node /\ a \in Message
    BY <1>1, <1>2
  <2>2. \E x \in Message : x = a /\ GoodMessage(x)' /\ x.src = n /\ x.type = "DHT" /\ Sent(n, x, g, ls)
    BY <2>1, <1>8, <1>14
  <2> QED
    BY <2>1, <2>2, <1>0, <1>8, <1>10, <1>12, <1>14, SentMessages
<1>16. ListenInv'
  <2> SUFFICES ASSUME NEW k \in Node
               PROVE  /\ \A l \in listening'[k] : l.type = "DHT" =>
                           /\ l.call \in Call /\ From[l.call] = k /\ outcome'[l.call] = "open"
                           /\ generation'[k] = Undefined \/ l.gen <= generation'[k]
                      /\ \A l, j \in listening'[k] :
                           l.type = "DHT" /\ j.type = "DHT" /\ l.call = j.call => l = j
    BY DEF ListenInv
  <2>1. CASE k # n
    BY <2>1, <1>0, <1>5, <1>8 DEF Sent, ListenInv
  <2>2. CASE k = n
    <3>1. \A l \in listening'[n] : l.type = "DHT" => l \in listening[n]
      BY <1>7, <1>8 DEF Sent
    <3>2. \/ generation'[n] = Undefined
          \/ generation[n] # Undefined /\ generation'[n] >= generation[n]
      <4>1. generation'[n] = generation[n] \/ generation'[n] = next_gen(generation[n])
        BY <1>6, <1>8 DEF Sent
      <4> QED
        BY <4>1, <1>4, NextGen, BusAssumption DEF Undefined
    <3>3. \A l \in listening[n] : l.gen \in Int
      BY <1>4, BusAssumption DEF Listener
    <3>4. generation'[n] \in Int /\ generation[n] \in Int
      BY <1>1, <1>4, <1>10, BusAssumption DEF Undefined, BusTypeOK
    <3>5. \A l \in listening'[n] : l.type = "DHT" =>
              generation'[n] = Undefined \/ l.gen <= generation'[n]
      BY <3>1, <3>2, <3>3, <3>4, <1>0, <1>1 DEF ListenInv
    <3> QED
      BY <2>2, <3>1, <3>5, <1>0, <1>1, <1>5 DEF ListenInv
  <2> QED
    BY <2>1, <2>2
<1> QED
  BY <1>9, <1>10, <1>15, <1>16 DEF BusInv

\* A step after which no node has a new number, listener or waiting message.
Quiet ==
    /\ generation' = generation
    /\ served' = served
    /\ past' = past
    /\ \A c \in Call : outcome[c] # "none" => outcome'[c] # "none"
    /\ \A k \in Node : listening'[k] \subseteq listening[k] /\ waiting'[k] \subseteq waiting[k]
    /\ \A x \in transit' :
          \/ x \in transit
          \/ x.type = "HANDSHAKE"
          \/ \E k \in Node : x \in waiting[k]

\* It keeps MessageInv.
LEMMA QuietMessages ==
    ASSUME BusTypeOK, BusTypeOK', MessageInv, Quiet
    PROVE  MessageInv'
<1>1. \A k \in Node : Goes(k)
  <2>1. \A k \in Node : generation[k] \in 0 .. GEN_MAX \cup {Undefined}
    BY DEF BusTypeOK
  <2> QED
    BY <2>1, BusAssumption DEF Goes, Quiet, Undefined
<1>2. Grows
  BY <1>1 DEF Grows, Quiet
<1>3. \A x \in transit : x \in Message
  BY DEF BusTypeOK
<1>4. \A k \in Node : \A x \in waiting[k] : x \in Message
  BY DEF BusTypeOK
<1>5. \A x \in transit : GoodMessage(x)'
  BY <1>2, <1>3, KeepsMessage DEF MessageInv
<1>6. \A k \in Node : \A x \in waiting[k] : GoodMessage(x)'
  BY <1>2, <1>4, KeepsMessage DEF MessageInv
<1>7. \A x \in transit' : GoodMessage(x)'
  <2> TAKE x \in transit'
  <2>1. CASE x.type = "HANDSHAKE"
    BY <2>1 DEF GoodMessage
  <2> QED
    BY <2>1, <1>5, <1>6 DEF Quiet
<1> QED
  BY <1>6, <1>7 DEF MessageInv, Quiet

\* The end of a Call, by its answer or by its timer.
LEMMA SettleStep ==
    ASSUME BusInv, NEW n \in Node, NEW l \in listening[n], l.type = "DHT",
           NEW o \in {"success", "timeout"},
           listening' = [listening EXCEPT ![n] = listening[n] \ {l}],
           outcome' = [outcome EXCEPT ![l.call] = o],
           UNCHANGED <<generation, sessions, waiting, transit, served, past, restarts>>
    PROVE  BusInv'
<1>0. BusTypeOK /\ ListenInv /\ MessageInv /\ SessionInv
  BY DEF BusInv
<1>1. BusTypeOK'
  BY <1>0 DEF BusTypeOK
<1>2. \A k \in Node : listening'[k] \subseteq listening[k]
  BY <1>0 DEF BusTypeOK
<1>3. l.call \in Call /\ outcome[l.call] = "open" /\ From[l.call] = n
  BY <1>0 DEF ListenInv
<1>4. outcome'[l.call] = o /\ \A d \in Call \ {l.call} : outcome'[d] = outcome[d]
  BY <1>0, <1>3 DEF BusTypeOK
<1>5. MessageInv'
  <2>1. Quiet
    BY <1>2, <1>3, <1>4 DEF Quiet
  <2> QED
    BY <2>1, <1>0, <1>1, QuietMessages
<1>6. ListenInv'
  <2>1. ASSUME NEW k \in Node, NEW j \in listening'[k], j.type = "DHT"
        PROVE  j \in listening[k] /\ j.call # l.call
    <3>1. j \in listening[k]
      BY <1>2
    <3>2. CASE k # n
      BY <3>1, <3>2, <2>1, <1>0, <1>3 DEF ListenInv
    <3>3. CASE k = n
      <4>1. j # l
        BY <3>3, <1>0 DEF BusTypeOK
      <4> QED
        BY <4>1, <3>1, <3>3, <2>1, <1>0 DEF ListenInv
    <3> QED
      BY <3>1, <3>2, <3>3
  <2> QED
    BY <2>1, <1>0, <1>4 DEF ListenInv
<1>7. SessionInv'
  <2>1. \A k, q \in Node : Shaking(k, q) => Shaking(k, q)'
    BY <1>0 DEF Shaking, BusTypeOK
  <2> QED
    BY <2>1, <1>0 DEF SessionInv, Greeted, WaitingFor
<1> QED
  BY <1>1, <1>5, <1>6, <1>7 DEF BusInv

\* An answer ends an open call, its own or one made after a restart.
LEMMA OnAnswerHears ==
    ASSUME BusInv, NEW m \in transit, OnAnswer(m)
    PROVE  \E l \in listening[m.dst] :
              /\ m.dst \in Node
              /\ l.type = "DHT" /\ l.call \in Call /\ outcome[l.call] = "open"
              /\ m.call \in served /\ (m.call = l.call \/ m.call \in past)
              /\ listening' = [listening EXCEPT ![m.dst] = listening[m.dst] \ {l}]
              /\ outcome' = [outcome EXCEPT ![l.call] = "success"]
              /\ UNCHANGED <<generation, sessions, waiting, transit, served, past, restarts>>
<1>0. BusTypeOK /\ ListenInv /\ MessageInv /\ SessionInv
  BY DEF BusInv
<1>1. m \in Message /\ m.dst \in Node /\ GoodMessage(m) /\ m.type = "DHT"
  BY <1>0 DEF BusTypeOK, MessageInv, Message, OnAnswer
<1>2. PICK l \in Heard(m) :
          /\ listening' = [listening EXCEPT ![m.dst] = Unheard(m.dst, {l})]
          /\ outcome' = [outcome EXCEPT ![l.call] =
                             IF @ = "open" THEN "success" ELSE "twice"]
  BY DEF OnAnswer
<1>3. l \in listening[m.dst] /\ l.type = "DHT" /\ -l.gen = m.gen
  BY <1>1, <1>2 DEF Heard, get_gen_res
<1>4. l.call \in Call /\ outcome[l.call] = "open" /\ From[l.call] = m.dst
  BY <1>0, <1>1, <1>3 DEF ListenInv
<1>5. l.gen \in 1 .. GEN_MAX
  BY <1>0, <1>1, <1>3 DEF BusTypeOK, Listener
<1>6. m.gen < 0 /\ m.gen # 0 /\ Size(m.gen) = l.gen
  BY <1>3, <1>5, BusAssumption DEF Size
<1>7. m.call \in served /\ m.dst = From[m.call]
  BY <1>1, <1>6 DEF GoodMessage
<1>8. m.call \notin past => l.call = m.call
  <2>1. m.call \notin past => NumberOf(m.call, l.gen)
    BY <1>1, <1>6 DEF GoodMessage
  <2> QED
    BY <2>1, <1>3, <1>7 DEF NumberOf
<1> QED
  BY <1>1, <1>2, <1>3, <1>4, <1>7, <1>8 DEF OnAnswer, Unheard

\* So it keeps the invariant.
LEMMA OnAnswerStep ==
    ASSUME BusInv, NEW m \in transit, OnAnswer(m)
    PROVE  BusInv'
<1>1. PICK l \in listening[m.dst] :
              /\ m.dst \in Node
              /\ l.type = "DHT"
              /\ listening' = [listening EXCEPT ![m.dst] = listening[m.dst] \ {l}]
              /\ outcome' = [outcome EXCEPT ![l.call] = "success"]
              /\ UNCHANGED <<generation, sessions, waiting, transit, served, past, restarts>>
  BY OnAnswerHears
<1> QED
  BY <1>1, SettleStep

\* A timer ends a call that is open.
LEMMA TimeoutEnds ==
    ASSUME BusInv, NEW n \in Node, NEW l \in listening[n], Timeout(n, l)
    PROVE  /\ l.type = "DHT" /\ l.call \in Call /\ outcome[l.call] = "open"
           /\ listening' = [listening EXCEPT ![n] = listening[n] \ {l}]
           /\ outcome' = [outcome EXCEPT ![l.call] = "timeout"]
           /\ UNCHANGED <<generation, sessions, waiting, transit, served, past, restarts>>
<1>1. l.type = "DHT" /\ l.call \in Call /\ outcome[l.call] = "open"
  BY DEF Timeout, BusInv, ListenInv
<1> QED
  BY <1>1 DEF Timeout, AfterTimer, Unheard

\* So it keeps the invariant.
LEMMA TimeoutStep ==
    ASSUME BusInv, NEW n \in Node, NEW l \in listening[n], Timeout(n, l)
    PROVE  BusInv'
BY TimeoutEnds, SettleStep

\* A HELLO is answered at once.
LEMMA OnHelloStep ==
    ASSUME BusInv, NEW m \in transit, OnHello(m)
    PROVE  BusInv'
<1>0. BusTypeOK /\ ListenInv /\ MessageInv /\ SessionInv
  BY DEF BusInv
<1>1. m \in Message /\ m.gen \in 1 .. GEN_MAX
  BY <1>0, BusAssumption DEF BusTypeOK, Message, OnHello, is_gen_req, Gen
<1>2. PICK h : h = HELLO(m.dst, m.src, get_gen_res(m.gen))
  OBVIOUS
<1>3. h \in Message /\ h.type = "HANDSHAKE"
  <2>1. OnWire(get_gen_res(m.gen)) \in Gen
    BY <1>1, BusAssumption DEF get_gen_res, OnWire, Gen, Undefined
  <2> QED
    BY <2>1, <1>1, <1>2 DEF HELLO, Message, MSG_TYPE
<1>4. /\ transit' = transit \cup {h}
      /\ UNCHANGED <<generation, listening, sessions, waiting, outcome, served, past, restarts>>
  BY <1>2 DEF OnHello
<1>5. BusTypeOK'
  BY <1>0, <1>3, <1>4 DEF BusTypeOK
<1>6. Quiet
  BY <1>3, <1>4 DEF Quiet
<1>7. MessageInv'
  BY <1>0, <1>5, <1>6, QuietMessages
<1>8. ListenInv'
  BY <1>0, <1>4 DEF ListenInv
<1>9. SessionInv'
  <2>1. \A k, q \in Node : Greeted(k, q) => Greeted(k, q)'
    BY <1>4 DEF Greeted
  <2>2. ASSUME NEW x \in transit', x.type = "DHT"
        PROVE  Greeted(x.src, x.dst)'
    <3>1. x \in transit
      BY <2>2, <1>3, <1>4
    <3>2. x.src \in Node /\ x.dst \in Node
      BY <3>1, <1>0 DEF BusTypeOK, Message
    <3> QED
      BY <3>1, <3>2, <2>1, <2>2, <1>0 DEF SessionInv
  <2> QED
    BY <2>1, <2>2, <1>0, <1>4 DEF SessionInv, Shaking, WaitingFor
<1> QED
  BY <1>5, <1>7, <1>8, <1>9 DEF BusInv

\* The end of a handshake of n and p, by an answer or by its timer.
LEMMA HandshakeEnds ==
    ASSUME BusInv, NEW n \in Node, NEW p \in Node, NEW l \in listening[n],
           l.type = "HANDSHAKE", l.peer = p, NEW s \in {"none", "up"},
           listening' = [listening EXCEPT ![n] = listening[n] \ {l}],
           sessions' = [sessions EXCEPT ![n][p] = s],
           waiting' = [waiting EXCEPT ![n] = @ \ WaitingFor(n, p)],
           \/ transit' = transit
           \/ transit' = transit \cup WaitingFor(n, p) /\ Greeted(n, p),
           s = "up" => Greeted(n, p),
           UNCHANGED <<generation, outcome, served, past, restarts>>
    PROVE  BusInv'
<1>0. BusTypeOK /\ ListenInv /\ MessageInv /\ SessionInv
  BY DEF BusInv
<1>1. WaitingFor(n, p) \subseteq waiting[n]
  BY DEF WaitingFor
<1>2. BusTypeOK'
  BY <1>0, <1>1 DEF BusTypeOK
<1>3. \A k \in Node : listening'[k] \subseteq listening[k] /\ waiting'[k] \subseteq waiting[k]
  BY <1>0 DEF BusTypeOK
<1>4. transit \subseteq transit' /\ \A x \in transit' : x \in transit \/ x \in waiting[n]
  BY <1>1
<1>5. Quiet
  BY <1>3, <1>4 DEF Quiet
<1>6. MessageInv'
  BY <1>0, <1>2, <1>5, QuietMessages
<1>7. ListenInv'
  BY <1>0, <1>3 DEF ListenInv
<1>8. \A k, q \in Node : Greeted(k, q) => Greeted(k, q)'
  BY <1>4 DEF Greeted
<1>9. ASSUME NEW x \in transit', x.type = "DHT"
      PROVE  Greeted(x.src, x.dst)'
  <2>1. CASE x \in transit
    <3>1. x.src \in Node /\ x.dst \in Node
      BY <2>1, <1>0 DEF BusTypeOK, Message
    <3> QED
      BY <3>1, <2>1, <1>8, <1>9, <1>0 DEF SessionInv
  <2>2. CASE x \notin transit
    <3>1. x \in WaitingFor(n, p) /\ Greeted(n, p)
      BY <2>2
    <3>2. x.src = n /\ x.dst = p
      BY <3>1, <1>0 DEF WaitingFor, MessageInv
    <3> QED
      BY <3>1, <3>2, <1>8
  <2> QED
    BY <2>1, <2>2
<1>10. ASSUME NEW k \in Node, NEW q \in Node
       PROVE  /\ sessions'[k][q] = "up" => Greeted(k, q)'
              /\ sessions'[k][q] = "shaking" => Shaking(k, q)'
              /\ sessions'[k][q] # "shaking" => WaitingFor(k, q)' = {}
  <2>1. CASE k = n /\ q = p
    <3>1. sessions'[n][p] = s
      BY <1>0 DEF BusTypeOK
    <3>2. WaitingFor(n, p)' = {}
      BY <1>0 DEF BusTypeOK, WaitingFor
    <3> QED
      BY <3>1, <3>2, <2>1, <1>8
  <2>2. CASE ~(k = n /\ q = p)
    <3>1. sessions'[k][q] = sessions[k][q]
      BY <2>2, <1>0 DEF BusTypeOK
    <3>2. Shaking(k, q) => Shaking(k, q)'
      BY <2>2, <1>0 DEF BusTypeOK, Shaking
    <3>3. WaitingFor(k, q)' \subseteq WaitingFor(k, q)
      BY <1>3 DEF WaitingFor
    <3> QED
      BY <3>1, <3>2, <3>3, <1>0, <1>8 DEF SessionInv
  <2> QED
    BY <2>1, <2>2
<1>11. SessionInv'
  BY <1>9, <1>10 DEF SessionInv
<1> QED
  BY <1>2, <1>6, <1>7, <1>11 DEF BusInv

\* The answer to a HELLO brings the session up, and
LEMMA OnHelloAnswerStep ==
    ASSUME BusInv, NEW m \in transit, OnHelloAnswer(m)
    PROVE  BusInv'
<1>0. BusTypeOK
  BY DEF BusInv
<1>1. m.dst \in Node /\ m.src \in Node /\ m.type = "HANDSHAKE"
  BY <1>0 DEF BusTypeOK, Message, OnHelloAnswer
<1>2. PICK l \in Heard(m) : listening' = [listening EXCEPT ![m.dst] = listening[m.dst] \ {l}]
  BY DEF OnHelloAnswer, Unheard
<1>3. l \in listening[m.dst] /\ l.type = "HANDSHAKE" /\ l.peer = m.src /\ m.gen = -l.gen
  BY <1>1, <1>2 DEF Heard, get_gen_res
<1>4. m.gen < 0
  BY <1>0, <1>1, <1>3, BusAssumption DEF BusTypeOK, Listener
<1>5. Greeted(m.dst, m.src)
  BY <1>1, <1>4 DEF Greeted
<1>6. /\ sessions' = [sessions EXCEPT ![m.dst][m.src] = "up"]
      /\ transit' = transit \cup WaitingFor(m.dst, m.src)
      /\ waiting' = [waiting EXCEPT ![m.dst] = @ \ WaitingFor(m.dst, m.src)]
      /\ UNCHANGED <<generation, outcome, served, past, restarts>>
  BY DEF OnHelloAnswer
<1> QED
  BY <1>1, <1>2, <1>3, <1>5, <1>6, HandshakeEnds

\* the timer of a HELLO drops what waits for it.
LEMMA HelloTimeoutStep ==
    ASSUME BusInv, NEW n \in Node, NEW l \in listening[n], HelloTimeout(n, l)
    PROVE  BusInv'
<1>1. l.peer \in Node
  BY DEF BusInv, BusTypeOK, Listener
<1>2. /\ l.type = "HANDSHAKE"
      /\ listening' = [listening EXCEPT ![n] = listening[n] \ {l}]
      /\ sessions' = [sessions EXCEPT ![n][l.peer] = "none"]
      /\ waiting' = [waiting EXCEPT ![n] = @ \ WaitingFor(n, l.peer)]
      /\ UNCHANGED <<generation, transit, outcome, served, past, restarts>>
  BY DEF HelloTimeout, Unheard, AfterFailure
<1> QED
  BY <1>1, <1>2, HandshakeEnds

\* A process that restarts leaves messages of calls that are past.
LEMMA RestartStep ==
    ASSUME BusInv, NEW n \in Node, Restart(n)
    PROVE  BusInv'
<1>0. BusTypeOK /\ ListenInv /\ MessageInv /\ SessionInv
  BY DEF BusInv
<1> USE DEF Restart
<1>1. BusTypeOK'
  BY <1>0, BusAssumption DEF BusTypeOK, CallsOf
<1>2. /\ listening'[n] = {} /\ waiting'[n] = {} /\ \A q \in Node : sessions'[n][q] = "none"
      /\ \A k \in Node \ {n} :
            /\ listening'[k] = listening[k] /\ waiting'[k] = waiting[k]
            /\ sessions'[k] = sessions[k] /\ generation'[k] = generation[k]
  BY <1>0 DEF BusTypeOK
<1>3. \A c \in Call : From[c] # n => outcome'[c] = outcome[c]
  BY <1>0 DEF BusTypeOK, CallsOf
<1>4. Grows
  <2>1. \A c \in Call : outcome[c] # "none" => outcome'[c] # "none"
    BY DEF CallsOf
  <2>2. Goes(n)
    BY DEF Goes, CallsOf
  <2>3. \A k \in Node \ {n} : Goes(k)
    <3>1. \A k \in Node : generation[k] \in 0 .. GEN_MAX \cup {Undefined}
      BY <1>0 DEF BusTypeOK
    <3> QED
      BY <3>1, <1>2, BusAssumption DEF Goes, Undefined
  <2> QED
    BY <2>1, <2>2, <2>3 DEF Grows
<1>5. MessageInv'
  <2>1. \A x \in transit : x \in Message
    BY <1>0 DEF BusTypeOK
  <2>2. \A k \in Node : \A x \in waiting[k] : x \in Message
    BY <1>0 DEF BusTypeOK
  <2>3. \A x \in transit' : GoodMessage(x)'
    BY <2>1, <1>0, <1>1, <1>4, KeepsMessage DEF MessageInv
  <2>4. \A k \in Node : \A x \in waiting'[k] :
            GoodMessage(x)' /\ x.src = k /\ x.type = "DHT"
    BY <2>2, <1>0, <1>1, <1>2, <1>4, KeepsMessage DEF MessageInv
  <2> QED
    BY <2>3, <2>4 DEF MessageInv
<1>6. ListenInv'
  BY <1>0, <1>2, <1>3 DEF ListenInv
<1>7. SessionInv'
  <2>1. \A k, q \in Node : Greeted(k, q) => Greeted(k, q)'
    BY DEF Greeted
  <2>2. \A x \in transit : x.type = "DHT" => Greeted(x.src, x.dst)'
    <3>1. \A x \in transit : x.src \in Node /\ x.dst \in Node
      BY <1>0 DEF BusTypeOK, Message
    <3> QED
      BY <3>1, <2>1, <1>0 DEF SessionInv
  <2>3. \A q \in Node : sessions'[n][q] = "none" /\ WaitingFor(n, q)' = {}
    BY <1>2 DEF WaitingFor
  <2>4. \A k \in Node \ {n} : \A q \in Node :
            /\ sessions'[k][q] = "up" => Greeted(k, q)'
            /\ sessions'[k][q] = "shaking" => Shaking(k, q)'
            /\ sessions'[k][q] # "shaking" => WaitingFor(k, q)' = {}
    BY <2>1, <1>0, <1>2 DEF SessionInv, Shaking, WaitingFor
  <2>5. transit' = transit
    OBVIOUS
  <2>6. ASSUME NEW k \in Node, NEW q \in Node
        PROVE  /\ sessions'[k][q] = "up" => Greeted(k, q)'
               /\ sessions'[k][q] = "shaking" => Shaking(k, q)'
               /\ sessions'[k][q] # "shaking" => WaitingFor(k, q)' = {}
    BY <2>3, <2>4
  <2> HIDE DEF Restart
  <2> QED
    BY <2>2, <2>5, <2>6 DEF SessionInv
<1> QED
  BY <1>1, <1>5, <1>6, <1>7 DEF BusInv

\* The invariant is inductive.
LEMMA BusStep == BusInv /\ [Next]_vars => BusInv'
<1> SUFFICES ASSUME BusInv, [Next]_vars PROVE BusInv'
  OBVIOUS
<1>1. ASSUME NEW c \in Call, Request(c) PROVE BusInv'
  BY <1>1, RequestStep
<1>2. ASSUME NEW m \in transit, OnRequest(m) PROVE BusInv'
  BY <1>2, OnRequestStep
<1>3. ASSUME NEW m \in transit, OnHello(m) PROVE BusInv'
  BY <1>3, OnHelloStep
<1>4. ASSUME NEW m \in transit, OnAnswer(m) PROVE BusInv'
  BY <1>4, OnAnswerStep
<1>5. ASSUME NEW m \in transit, OnHelloAnswer(m) PROVE BusInv'
  BY <1>5, OnHelloAnswerStep
<1>6. ASSUME NEW n \in Node, NEW l \in listening[n], Timeout(n, l) PROVE BusInv'
  BY <1>6, TimeoutStep
<1>7. ASSUME NEW n \in Node, NEW l \in listening[n], HelloTimeout(n, l) PROVE BusInv'
  BY <1>7, HelloTimeoutStep
<1>8. ASSUME NEW n \in Node, Restart(n) PROVE BusInv'
  BY <1>8, RestartStep
<1>9. CASE UNCHANGED vars
  BY <1>9 DEF vars, BusInv, BusTypeOK, ListenInv, MessageInv, GoodMessage, NumberOf,
              SessionInv, Greeted, Shaking, WaitingFor
<1> QED
  BY <1>1, <1>2, <1>3, <1>4, <1>5, <1>6, <1>7, <1>8, <1>9 DEF Next

\* The inductive invariant holds in every state.
THEOREM BusInvariant == Spec => []BusInv
BY BusInit, BusStep, PTL DEF Spec

\* The state variables hold what their comments say.
THEOREM TypeCorrect == Spec => []TypeOK
<1>1. BusInv => TypeOK
  BY DEF BusInv, BusTypeOK, TypeOK
<1> QED
  BY <1>1, BusInvariant, PTL

\* No message but a handshake's leaves before the peer has answered a HELLO
\* (protocol.js:134-164).
THEOREM SecureFirstCorrect == Spec => []SecureFirst
<1>1. BusInv => SecureFirst
  BY DEF BusInv, SessionInv, Greeted, SecureFirst
<1> QED
  BY <1>1, BusInvariant, PTL

\* Messages wait only for a handshake that an answer or a timer ends, or whose
\* node has no numbers left (protocol.js:138-164, 170-173).
THEOREM NothingStuckCorrect == Spec => []NothingStuck
<1>1. BusInv => NothingStuck
  BY DEF BusInv, SessionInv, Shaking, NothingStuck
<1> QED
  BY <1>1, BusInvariant, PTL

\* What each action of the bus is to a caller.
LEMMA RequestAsks ==
    ASSUME BusInv, NEW c \in Call, Request(c)
    PROVE  Calls!Ask(c)
BY DEF Request, Calls!Ask

\* A handler that runs serves the call,
LEMMA OnRequestServes ==
    ASSUME BusInv, NEW m \in transit, OnRequest(m)
    PROVE  m.call \in Call /\ Calls!Serve(m.call)
BY DEF BusInv, MessageInv, GoodMessage, OnRequest, Calls!Serve

\* its answer ends it with success,
LEMMA OnAnswerSucceeds ==
    ASSUME BusInv, NEW m \in transit, OnAnswer(m)
    PROVE  \E c \in Call : Calls!Succeed(c)
<1>1. PICK l \in listening[m.dst] :
              /\ l.call \in Call /\ outcome[l.call] = "open"
              /\ m.call \in served /\ (m.call = l.call \/ m.call \in past)
              /\ outcome' = [outcome EXCEPT ![l.call] = "success"]
              /\ UNCHANGED <<served, past>>
  BY OnAnswerHears
<1> QED
  BY <1>1 DEF Calls!Succeed

\* its timer with a timeout,
LEMMA TimeoutTimesOut ==
    ASSUME BusInv, NEW n \in Node, NEW l \in listening[n], Timeout(n, l)
    PROVE  \E c \in Call : Calls!TimeOut(c)
BY TimeoutEnds DEF Calls!TimeOut

\* and a restart forgets the calls of a node.
LEMMA RestartForgets ==
    ASSUME NEW n \in Node, Restart(n)
    PROVE  \E D \in SUBSET Call : Calls!Forget(D)
BY DEF Restart, Calls!Forget, CallsOf

\* The initial states map to those of Rpc,
LEMMA RpcInit == Init => Calls!Init
BY DEF Init, Calls!Init

\* and every step to one of Rpc, or to none: handshakes are not seen.
LEMMA RpcStep == BusInv /\ [Next]_vars => [Calls!Next]_Calls!vars
<1> SUFFICES ASSUME BusInv, [Next]_vars PROVE [Calls!Next]_Calls!vars
  OBVIOUS
<1>1. ASSUME NEW c \in Call, Request(c) PROVE Calls!Next
  BY <1>1, RequestAsks DEF Calls!Next
<1>2. ASSUME NEW m \in transit, OnRequest(m) PROVE Calls!Next
  BY <1>2, OnRequestServes DEF Calls!Next
<1>3. ASSUME NEW m \in transit, OnHello(m) PROVE UNCHANGED Calls!vars
  BY <1>3 DEF OnHello, Calls!vars
<1>4. ASSUME NEW m \in transit, OnAnswer(m) PROVE Calls!Next
  BY <1>4, OnAnswerSucceeds DEF Calls!Next
<1>5. ASSUME NEW m \in transit, OnHelloAnswer(m) PROVE UNCHANGED Calls!vars
  BY <1>5 DEF OnHelloAnswer, Calls!vars
<1>6. ASSUME NEW n \in Node, NEW l \in listening[n], Timeout(n, l) PROVE Calls!Next
  BY <1>6, TimeoutTimesOut DEF Calls!Next
<1>7. ASSUME NEW n \in Node, NEW l \in listening[n], HelloTimeout(n, l) PROVE UNCHANGED Calls!vars
  BY <1>7 DEF HelloTimeout, Calls!vars
<1>8. ASSUME NEW n \in Node, Restart(n) PROVE Calls!Next
  BY <1>8, RestartForgets DEF Calls!Next
<1>9. CASE UNCHANGED vars
  BY <1>9 DEF vars, Calls!vars
<1> QED
  BY <1>1, <1>2, <1>3, <1>4, <1>5, <1>6, <1>7, <1>8, <1>9 DEF Next

\* Of the callbacks of a request one is called, and once; success only for an
\* answer of the peer to it or, after a restart, to one of its number (io.js:35-56).
THEOREM RpcImplemented == Spec => ImplementsRpc
BY RpcInit, RpcStep, BusInvariant, PTL DEF Spec, ImplementsRpc, Calls!Spec
=============================================================================
