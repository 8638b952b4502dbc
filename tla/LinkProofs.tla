----------------------------- MODULE LinkProofs -----------------------------
(***************************************************************************)
(* Proofs about what carries requests from one component to another: the   *)
(* credit protocol of FabricLink for any number of ports, events, event    *)
(* sizes and queue sizes, and, in the last sections, the lat_bw_queue      *)
(* inside a port (LatBwQueue) and the channel between caches               *)
(* (ChannelSystem).                                                        *)
(*                                                                         *)
(* The invariants of FabricLink are not inductive: they speak of what the  *)
(* queues hold, and a step is only safe because the queues agree with each *)
(* other.  IInv adds that agreement (Located: each queue holds exactly the *)
(* events whose history says so, none of them twice) and states the credit *)
(* account by that history (Accounted).                                    *)
(*                                                                         *)
(* A channel answers each request once, whatever it was merged with or     *)
(* forwarded from, lets no read pass a write it depends on, and keeps one  *)
(* checked entry for a block.  Its invariant is ChannelInv.                *)
(***************************************************************************)
EXTENDS FabricLink, QueueLemmas

At(p, st) == {m \in Packet : Source[m] = p /\ stage[m] = st}

EventItem(m) == [kind |-> "event", pkt |-> m]
CreditItem(m) == [kind |-> "credit", pkt |-> m]

\* What a link holds that carries these events and the credits of back.
Carried(events, back) == {EventItem(m) : m \in events} \cup {CreditItem(m) : m \in back}

\* What p has paid for and has not been credited for.
Outstanding(p) ==
  {m \in Packet : Source[m] = p /\ stage[m] \in {"link", "ingress", "ready", "owed"}}

Located ==
  \A p \in Port :
    /\ Distinct(egress[p])
    /\ Elements(egress[p]) = At(p, "egress")
    /\ Distinct(link[p])
    /\ Elements(link[p]) = Carried(At(Peer[p], "link"), At(p, "owed"))
    /\ Distinct(ingress[p])
    /\ Elements(ingress[p]) = At(Peer[p], "ingress")
    /\ Distinct(ready[p])
    /\ Elements(ready[p]) = At(Peer[p], "ready")

Accounted ==
  \A p \in Port :
    ~ Unlimited(p) =>
      /\ credits[p] >= 0
      /\ credits[p] + BytesOf(Outstanding(p)) = CreditCapacity(p)

IInv == TypeOK /\ Located /\ Accounted

USE DEF DefaultMsgBytes

\* Links join two different ports, each the peer of the other.
LEMMA PeerFacts ==
  ASSUME NEW p \in Port
  PROVE  /\ Peer[p] \in Port /\ Peer[p] # p /\ Peer[Peer[p]] = p
         /\ \A q \in Port : Peer[q] = p <=> q = Peer[p]
         /\ QueueSize[p] \in Nat /\ CreditCapacity(p) \in Nat
BY LinkAssumption DEF CreditCapacity

\* The bytes of any set of events are a natural number.
LEMMA BytesOfNat == \A S : BytesOf(S) \in Nat
BY LinkAssumption, TotalNat DEF BytesOf, Packet

\* The bytes of two sets of events without a common one add up.
LEMMA BytesOfUnion ==
  ASSUME NEW A, NEW B, A \cap B = {}
  PROVE  BytesOf(A \cup B) = BytesOf(A) + BytesOf(B)
BY LinkAssumption, TotalUnion DEF BytesOf, Packet

\* The bytes of one event.
LEMMA BytesOfOne == \A m \in Packet : BytesOf({m}) = Bytes[m]
BY LinkAssumption, TotalSingleton DEF BytesOf, Packet

\* Leaving out an event leaves out its bytes.
LEMMA BytesOfWithout ==
  ASSUME NEW S, NEW m \in Packet, m \in S
  PROVE  BytesOf(S) = BytesOf(S \ {m}) + Bytes[m]
<1>1. (S \ {m}) \cup {m} = S /\ (S \ {m}) \cap {m} = {}
  OBVIOUS
<1>2. BytesOf((S \ {m}) \cup {m}) = BytesOf(S \ {m}) + BytesOf({m})
  BY BytesOfUnion
<1>3. QED  BY <1>1, <1>2, BytesOfOne

\* Empty queues and full credits satisfy the invariant.
LEMMA InitIInv == Init => IInv
<1> SUFFICES ASSUME Init PROVE IInv
  OBVIOUS
<1> USE DEF Init
<1>1. TypeOK
  BY PeerFacts DEF TypeOK, Stages
<1>2. Located
  BY ElementsEmpty, PeerFacts DEF Located, At, Carried
<1>3. Accounted
  <2> SUFFICES ASSUME NEW p \in Port PROVE
        credits[p] >= 0 /\ credits[p] + BytesOf(Outstanding(p)) = CreditCapacity(p)
    BY DEF Accounted
  <2>1. Outstanding(p) = {}  BY DEF Outstanding
  <2>2. BytesOf(Outstanding(p)) = 0
    BY <2>1, LinkAssumption, TotalEmpty DEF BytesOf
  <2>3. QED  BY <2>2, PeerFacts
<1>4. QED  BY <1>1, <1>2, <1>3 DEF IInv

\* send() moves an event to the egress queue.
LEMMA SendIInv ==
  ASSUME IInv, NEW p \in Port, NEW m \in Packet, Send(p, m)
  PROVE  IInv'
<1> USE DEF IInv
<1>1. TypeOK'
  BY DEF TypeOK, Send, Stages
<1>2. /\ Append(egress[p], m) \in Seq(Packet)
      /\ Elements(Append(egress[p], m)) = Elements(egress[p]) \cup {m}
      /\ Distinct(Append(egress[p], m))
  <2>1. egress[p] \in Seq(Packet)  BY DEF TypeOK
  <2>2. m \notin Elements(egress[p])  BY DEF Located, At, Send
  <2>3. QED  BY <2>1, <2>2, ElementsAppend DEF Located
<1>3. /\ At(p, "egress")' = At(p, "egress") \cup {m}
      /\ \A q \in Port : q # p => At(q, "egress")' = At(q, "egress")
      /\ \A q \in Port, st \in {"link", "ingress", "ready", "owed"} :
           At(q, st)' = At(q, st)
  BY DEF At, Send, TypeOK
<1>4. Located'
  <2> SUFFICES ASSUME NEW q \in Port PROVE
         /\ Distinct(egress'[q])
         /\ Elements(egress'[q]) = At(q, "egress")'
         /\ Distinct(link'[q])
         /\ Elements(link'[q]) = Carried(At(Peer[q], "link")', At(q, "owed")')
         /\ Distinct(ingress'[q])
         /\ Elements(ingress'[q]) = At(Peer[q], "ingress")'
         /\ Distinct(ready'[q])
         /\ Elements(ready'[q]) = At(Peer[q], "ready")'
    BY DEF Located
  <2>1. UNCHANGED <<link, ingress, ready>>  BY DEF Send
  <2>2. egress'[q] = IF q = p THEN Append(egress[p], m) ELSE egress[q]
    BY DEF Send, TypeOK
  <2>3. Peer[q] \in Port  BY PeerFacts
  <2>4. QED  BY <1>2, <1>3, <2>1, <2>2, <2>3 DEF Located
<1>5. Accounted'
  <2>1. \A q \in Port : Outstanding(q)' = Outstanding(q)
    BY DEF Outstanding, Send, TypeOK
  <2>2. QED  BY <2>1 DEF Accounted, Send, BytesOf, CreditCapacity, Unlimited
<1>6. QED  BY <1>1, <1>4, <1>5

-----------------------------------------------------------------------------
(* The clock: what one tick moves *)

\* The events that drain_egress puts on the link are distinct items, one for
\* each event taken from the egress queue.
LEMMA EventsItems ==
  ASSUME NEW q \in Seq(Packet), Distinct(q)
  PROVE  /\ Events(q) \in Seq(Item)
         /\ Distinct(Events(q))
         /\ Elements(Events(q)) = {EventItem(m) : m \in Elements(q)}
<1>1. /\ Len(q) \in Nat
      /\ \A i \in 1 .. Len(q) : q[i] \in Packet
  BY LenProperties, ElementOfSeq
<1>2. /\ Events(q) \in [1 .. Len(q) -> Item]
      /\ \A i \in 1 .. Len(q) : Events(q)[i] = EventItem(q[i])
  BY <1>1 DEF Events, Item, EventItem
<1>3. Events(q) \in Seq(Item) /\ Len(Events(q)) = Len(q)
  BY <1>1, <1>2
<1>4. Distinct(Events(q))
  <2>1. \A i \in 1 .. Len(q) : Events(q)[i].pkt = q[i]
    BY <1>2 DEF EventItem
  <2>2. QED  BY <1>3, <2>1 DEF Distinct
<1>5. Elements(Events(q)) = {EventItem(m) : m \in Elements(q)}
  BY <1>2, <1>3 DEF Elements
<1>6. QED  BY <1>3, <1>4, <1>5

\* What drain_egress takes when it takes k events, and the link after that.
Out(p, k) == Elements(First(egress[p], k))
Sent(p, k) == link[Peer[p]] \o Events(First(egress[p], k))

\* A tick moves S, a set of events of p, from the egress queue to the link
\* and B, a set of events of the peer, from the ingress to the ready queue.
LEMMA TickFacts ==
  ASSUME IInv, NEW p \in Port,
         NEW n \in 0 .. Len(ingress[p]), NEW k \in 0 .. Len(egress[p]),
         NEW batch \in Orders(First(ingress[p], n))
  PROVE  /\ Out(p, k) \subseteq At(p, "egress") /\ Elements(batch) \subseteq At(Peer[p], "ingress")
         /\ Rest(egress[p], k) \in Seq(Packet) /\ Distinct(Rest(egress[p], k))
         /\ Elements(Rest(egress[p], k)) = At(p, "egress") \ Out(p, k)
         /\ Rest(ingress[p], n) \in Seq(Packet) /\ Distinct(Rest(ingress[p], n))
         /\ Elements(Rest(ingress[p], n)) = At(Peer[p], "ingress") \ Elements(batch)
         /\ ready[p] \o batch \in Seq(Packet) /\ Distinct(ready[p] \o batch)
         /\ Elements(ready[p] \o batch) = At(Peer[p], "ready") \cup Elements(batch)
         /\ Sent(p, k) \in Seq(Item) /\ Distinct(Sent(p, k))
         /\ Elements(Sent(p, k)) = Carried(At(p, "link") \cup Out(p, k), At(Peer[p], "owed"))
<1> DEFINE first == First(egress[p], k)
           S == Out(p, k)
           B == Elements(batch)
           sent == Sent(p, k)
<1>0. S = Elements(first) /\ B = Elements(batch) /\ sent = link[Peer[p]] \o Events(first)
  BY DEF Out, Sent
<1> HIDE DEF S, B, sent, first
<1>1. /\ egress[p] \in Seq(Packet) /\ Distinct(egress[p])
      /\ Elements(egress[p]) = At(p, "egress")
      /\ ingress[p] \in Seq(Packet) /\ Distinct(ingress[p])
      /\ Elements(ingress[p]) = At(Peer[p], "ingress")
      /\ ready[p] \in Seq(Packet) /\ Distinct(ready[p])
      /\ Elements(ready[p]) = At(Peer[p], "ready")
  BY DEF IInv, TypeOK, Located
<1>2. /\ first \in Seq(Packet) /\ Distinct(first)
      /\ Rest(egress[p], k) \in Seq(Packet) /\ Distinct(Rest(egress[p], k))
      /\ S \cup Elements(Rest(egress[p], k)) = At(p, "egress")
      /\ S \cap Elements(Rest(egress[p], k)) = {}
  BY <1>0, <1>1, ElementsSplit DEF first
<1>3. /\ First(ingress[p], n) \in Seq(Packet) /\ Distinct(First(ingress[p], n))
      /\ Rest(ingress[p], n) \in Seq(Packet) /\ Distinct(Rest(ingress[p], n))
      /\ Elements(First(ingress[p], n)) \cup Elements(Rest(ingress[p], n))
           = At(Peer[p], "ingress")
      /\ Elements(First(ingress[p], n)) \cap Elements(Rest(ingress[p], n)) = {}
  BY <1>1, ElementsSplit
<1>4. /\ batch \in Seq(Packet) /\ Distinct(batch)
      /\ B = Elements(First(ingress[p], n))
  BY <1>0, <1>3, ElementsOrders
<1>5. B \cap Elements(ready[p]) = {}
  BY <1>1, <1>3, <1>4 DEF At
<1>6. /\ ready[p] \o batch \in Seq(Packet) /\ Distinct(ready[p] \o batch)
      /\ Elements(ready[p] \o batch) = At(Peer[p], "ready") \cup B
  <2> DEFINE r == ready[p]
             b == batch
  <2>1. /\ r \in Seq(Packet) /\ Distinct(r) /\ b \in Seq(Packet) /\ Distinct(b)
        /\ Elements(r) \cap Elements(b) = {}
    BY <1>0, <1>1, <1>4, <1>5
  <2> HIDE DEF r, b
  <2>2. /\ r \o b \in Seq(Packet) /\ Distinct(r \o b)
        /\ Elements(r \o b) = Elements(r) \cup Elements(b)
    BY <2>1, ElementsConcat
  <2>3. QED  BY <1>0, <1>1, <2>2 DEF r, b
<1>7. /\ Events(first) \in Seq(Item) /\ Distinct(Events(first))
      /\ Elements(Events(first)) = {EventItem(m) : m \in S}
  BY <1>0, <1>2, EventsItems
<1>8. /\ link[Peer[p]] \in Seq(Item) /\ Distinct(link[Peer[p]])
      /\ Elements(link[Peer[p]]) =
           Carried(At(p, "link"), At(Peer[p], "owed"))
  BY PeerFacts DEF IInv, TypeOK, Located
<1>9. Elements(link[Peer[p]]) \cap Elements(Events(first)) = {}
  <2>1. \A m \in S : stage[m] = "egress"  BY <1>2 DEF At
  <2>2. \A a, b : EventItem(a) = EventItem(b) => a = b
    BY DEF EventItem
  <2>3. \A a, b : CreditItem(a) # EventItem(b)
    BY DEF EventItem, CreditItem
  <2>4. \A m \in At(p, "link") : m \notin S  BY <2>1 DEF At
  <2>5. QED  BY <1>7, <1>8, <2>2, <2>3, <2>4 DEF Carried
<1>10. /\ sent \in Seq(Item) /\ Distinct(sent)
       /\ Elements(sent) = Elements(link[Peer[p]]) \cup Elements(Events(first))
  <2> DEFINE l == link[Peer[p]]
             e == Events(first)
  <2>1. /\ l \in Seq(Item) /\ Distinct(l) /\ e \in Seq(Item) /\ Distinct(e)
        /\ Elements(l) \cap Elements(e) = {}
    BY <1>7, <1>8, <1>9
  <2>2. sent = l \o e  BY <1>0
  <2> HIDE DEF l, e
  <2>3. /\ l \o e \in Seq(Item) /\ Distinct(l \o e)
        /\ Elements(l \o e) = Elements(l) \cup Elements(e)
    BY <2>1, ElementsConcat
  <2>4. QED  BY <2>2, <2>3 DEF l, e
<1>11. Elements(sent) = Carried(At(p, "link") \cup S, At(Peer[p], "owed"))
  BY <1>7, <1>8, <1>10 DEF Carried
<1>12. QED  BY <1>2, <1>3, <1>4, <1>6, <1>10, <1>11 DEF S, B, sent, first

\* drain_egress pays for what it sends: the outstanding bytes grow by what
\* the credits shrink, and credits do not become negative.
LEMMA DrainAccount ==
  ASSUME IInv, NEW p \in Port, ~ Unlimited(p),
         NEW k \in 0 .. Len(egress[p]), Affords(p, k)
  PROVE  /\ credits[p] - BytesOf(Out(p, k)) >= 0
         /\ credits[p] - BytesOf(Out(p, k)) + BytesOf(Outstanding(p) \cup Out(p, k))
              = CreditCapacity(p)
<1> DEFINE S == Out(p, k)
<1>1. S \subseteq At(p, "egress")
  <2>1. egress[p] \in Seq(Packet) /\ Distinct(egress[p])  BY DEF IInv, TypeOK, Located
  <2>2. S \subseteq Elements(egress[p])  BY <2>1, ElementsSplit DEF Out
  <2>3. QED  BY <2>2 DEF IInv, Located
<1>2. BytesOf(Outstanding(p) \cup S) = BytesOf(Outstanding(p)) + BytesOf(S)
  BY <1>1, BytesOfUnion DEF At, Outstanding
<1>3. /\ credits[p] \in Int /\ BytesOf(S) \in Nat /\ BytesOf(Outstanding(p)) \in Nat
      /\ CreditCapacity(p) \in Nat
  BY BytesOfNat, PeerFacts DEF IInv, TypeOK
<1>4. BytesOf(S) <= credits[p]  BY DEF Affords, Out
<1>5. credits[p] + BytesOf(Outstanding(p)) = CreditCapacity(p)
  BY DEF IInv, Accounted
<1>6. QED  BY <1>2, <1>3, <1>4, <1>5

\* A cycle in which the owner takes nothing.
LEMMA RefuseIInv ==
  ASSUME IInv, NEW p \in Port, NEW n \in 0 .. Len(ingress[p]),
         NEW k \in 0 .. Len(egress[p]),
         NEW batch \in Orders(First(ingress[p], n)), Refuse(p, n, batch, k)
  PROVE  IInv'
<1> DEFINE S == Out(p, k)
           B == Elements(batch)
           sent == Sent(p, k)
<1> HIDE DEF S, B, sent
<1>1. /\ S \subseteq At(p, "egress") /\ B \subseteq At(Peer[p], "ingress")
      /\ Rest(egress[p], k) \in Seq(Packet) /\ Distinct(Rest(egress[p], k))
      /\ Elements(Rest(egress[p], k)) = At(p, "egress") \ S
      /\ Rest(ingress[p], n) \in Seq(Packet) /\ Distinct(Rest(ingress[p], n))
      /\ Elements(Rest(ingress[p], n)) = At(Peer[p], "ingress") \ B
      /\ ready[p] \o batch \in Seq(Packet) /\ Distinct(ready[p] \o batch)
      /\ Elements(ready[p] \o batch) = At(Peer[p], "ready") \cup B
      /\ sent \in Seq(Item) /\ Distinct(sent)
      /\ Elements(sent) = Carried(At(p, "link") \cup S, At(Peer[p], "owed"))
  BY TickFacts DEF S, B, sent
<1>2. /\ \A m \in Packet : stage'[m] = IF m \in S THEN "link"
                                       ELSE IF m \in B THEN "ready" ELSE stage[m]
      /\ stage' \in [Packet -> Stages]
  BY DEF S, B, Out, Refuse, TickedStage, IInv, TypeOK, Stages
<1>3. /\ egress' = [egress EXCEPT ![p] = Rest(egress[p], k)]
      /\ ingress' = [ingress EXCEPT ![p] = Rest(ingress[p], n)]
      /\ ready' = [ready EXCEPT ![p] = ready[p] \o batch]
      /\ link' = [link EXCEPT ![Peer[p]] = sent]
      /\ credits' = [credits EXCEPT ![p] =
                       IF Unlimited(p) THEN credits[p] ELSE credits[p] - BytesOf(S)]
      /\ Affords(p, k)
  BY DEF S, sent, Out, Sent, Refuse, Tick, Drains
<1>4. Peer[p] \in Port /\ Peer[p] # p /\ Peer[Peer[p]] = p
      /\ \A q \in Port : /\ Peer[q] \in Port /\ (Peer[q] = p <=> q = Peer[p])
                         /\ (Peer[q] = Peer[p] <=> q = p)
  BY PeerFacts
<1>5. TypeOK'
  <2>1. credits' \in [Port -> Nat]
    <3>1. ~ Unlimited(p) => credits[p] - BytesOf(S) \in Nat
      <4>1. credits[p] \in Nat /\ BytesOf(S) \in Nat
        BY BytesOfNat DEF IInv, TypeOK
      <4>2. ~ Unlimited(p) => credits[p] - BytesOf(S) >= 0
        BY <1>3, DrainAccount DEF S
      <4>3. QED  BY <4>1, <4>2
    <3>2. QED  BY <1>3, <3>1 DEF IInv, TypeOK
  <2>2. egress' \in [Port -> Seq(Packet)] /\ ingress' \in [Port -> Seq(Packet)]
    BY <1>1, <1>3 DEF IInv, TypeOK
  <2>3. ready' \in [Port -> Seq(Packet)]
    BY <1>1, <1>3 DEF IInv, TypeOK
  <2>4. link' \in [Port -> Seq(Item)]
    BY <1>1, <1>3 DEF IInv, TypeOK
  <2>5. QED  BY <1>2, <2>1, <2>2, <2>3, <2>4 DEF TypeOK
<1>6. \A q \in Port :
        /\ At(q, "egress")' = IF q = p THEN At(q, "egress") \ S ELSE At(q, "egress")
        /\ At(q, "link")' = IF q = p THEN At(q, "link") \cup S ELSE At(q, "link")
        /\ At(q, "ingress")' = IF q = Peer[p] THEN At(q, "ingress") \ B
                               ELSE At(q, "ingress")
        /\ At(q, "ready")' = IF q = Peer[p] THEN At(q, "ready") \cup B
                             ELSE At(q, "ready")
        /\ At(q, "owed")' = At(q, "owed")
  <2> SUFFICES ASSUME NEW q \in Port PROVE
         /\ At(q, "egress")' = IF q = p THEN At(q, "egress") \ S ELSE At(q, "egress")
         /\ At(q, "link")' = IF q = p THEN At(q, "link") \cup S ELSE At(q, "link")
         /\ At(q, "ingress")' = IF q = Peer[p] THEN At(q, "ingress") \ B
                                ELSE At(q, "ingress")
         /\ At(q, "ready")' = IF q = Peer[p] THEN At(q, "ready") \cup B
                              ELSE At(q, "ready")
         /\ At(q, "owed")' = At(q, "owed")
    OBVIOUS
  <2>1. At(q, "egress")' = IF q = p THEN At(q, "egress") \ S ELSE At(q, "egress")
    BY <1>1, <1>2, <1>4, SMTT(30) DEF At
  <2>2. At(q, "link")' = IF q = p THEN At(q, "link") \cup S ELSE At(q, "link")
    BY <1>1, <1>2, <1>4, SMTT(30) DEF At
  <2>3. At(q, "ingress")' = IF q = Peer[p] THEN At(q, "ingress") \ B
                            ELSE At(q, "ingress")
    BY <1>1, <1>2, <1>4, SMTT(30) DEF At
  <2>4. At(q, "ready")' = IF q = Peer[p] THEN At(q, "ready") \cup B
                          ELSE At(q, "ready")
    BY <1>1, <1>2, <1>4, SMTT(30) DEF At
  <2>5. At(q, "owed")' = At(q, "owed")
    BY <1>1, <1>2, <1>4, ZenonT(40) DEF At
  <2>6. QED  BY <2>1, <2>2, <2>3, <2>4, <2>5
<1>7. Located'
  <2> SUFFICES ASSUME NEW q \in Port PROVE
         /\ Distinct(egress'[q])
         /\ Elements(egress'[q]) = At(q, "egress")'
         /\ Distinct(link'[q])
         /\ Elements(link'[q]) = Carried(At(Peer[q], "link")', At(q, "owed")')
         /\ Distinct(ingress'[q])
         /\ Elements(ingress'[q]) = At(Peer[q], "ingress")'
         /\ Distinct(ready'[q])
         /\ Elements(ready'[q]) = At(Peer[q], "ready")'
    BY DEF Located
  <2>1. /\ egress'[q] = IF q = p THEN Rest(egress[p], k) ELSE egress[q]
        /\ ingress'[q] = IF q = p THEN Rest(ingress[p], n) ELSE ingress[q]
        /\ ready'[q] = IF q = p THEN ready[p] \o batch ELSE ready[q]
        /\ link'[q] = IF q = Peer[p] THEN sent ELSE link[q]
    BY <1>3, <1>4 DEF IInv, TypeOK
  <2>2. Distinct(egress'[q]) /\ Elements(egress'[q]) = At(q, "egress")'
    BY <1>1, <1>6, <2>1, ZenonT(40) DEF IInv, Located
  <2>3. Distinct(ingress'[q]) /\ Elements(ingress'[q]) = At(Peer[q], "ingress")'
    BY <1>1, <1>4, <1>6, <2>1, ZenonT(40) DEF IInv, Located
  <2>4. Distinct(ready'[q]) /\ Elements(ready'[q]) = At(Peer[q], "ready")'
    BY <1>1, <1>4, <1>6, <2>1, ZenonT(40) DEF IInv, Located
  <2>5. /\ Distinct(link'[q])
        /\ Elements(link'[q]) = Carried(At(Peer[q], "link")', At(q, "owed")')
    <3>1. CASE q = Peer[p]
      BY <1>1, <1>4, <1>6, <2>1, <3>1
    <3>2. CASE q # Peer[p]
      BY <1>4, <1>6, <2>1, <3>2 DEF IInv, Located
    <3>3. QED  BY <3>1, <3>2
  <2>6. QED  BY <2>2, <2>3, <2>4, <2>5
<1>8. Accounted'
  <2> SUFFICES ASSUME NEW q \in Port, ~ Unlimited(q)
               PROVE  /\ credits'[q] >= 0
                      /\ credits'[q] + BytesOf(Outstanding(q)') = CreditCapacity(q)
    BY DEF Accounted, Unlimited, BytesOf, CreditCapacity
  <2>1. CASE q = p
    <3>1. credits'[p] = credits[p] - BytesOf(S)
      BY <1>3, <2>1 DEF IInv, TypeOK
    <3>2. Outstanding(p)' = Outstanding(p) \cup S
      BY <1>1, <1>2, <1>4 DEF Outstanding, At
    <3>3. QED  BY <1>3, <2>1, <3>1, <3>2, DrainAccount DEF S
  <2>2. CASE q # p
    <3>1. credits'[q] = credits[q]
      BY <1>3, <2>2 DEF IInv, TypeOK
    <3>2. Outstanding(q)' = Outstanding(q)
      BY <1>1, <1>2, <1>4, <2>2 DEF Outstanding, At
    <3>3. QED  BY <3>1, <3>2 DEF IInv, Accounted
  <2>3. QED  BY <2>1, <2>2
<1>9. QED  BY <1>5, <1>7, <1>8 DEF IInv

\* What is then at the head of the ready queue, and who gets a credit for it.
Taken(p, batch) == Head(ready[p] \o batch)
Paid(m) == IF Bytes[m] = 0 THEN {} ELSE {m}

\* The link after the credit was sent.
Linked(p, k, batch) == Sent(p, k) \o CreditFor(Taken(p, batch))
LinkedItems(p, k, batch) ==
  Carried(At(p, "link") \cup Out(p, k),
          At(Peer[p], "owed") \cup Paid(Taken(p, batch)))

\* The head of the ready queue leaves it, and its credit joins the link.
LEMMA TakeFacts ==
  ASSUME IInv, NEW p \in Port, NEW n \in 0 .. Len(ingress[p]),
         NEW k \in 0 .. Len(egress[p]),
         NEW batch \in Orders(First(ingress[p], n)), ready[p] \o batch # << >>
  PROVE  /\ Taken(p, batch) \in Packet
         /\ Taken(p, batch) \in At(Peer[p], "ready") \cup Elements(batch)
         /\ Tail(ready[p] \o batch) \in Seq(Packet)
         /\ Distinct(Tail(ready[p] \o batch))
         /\ Elements(Tail(ready[p] \o batch)) =
              (At(Peer[p], "ready") \cup Elements(batch)) \ {Taken(p, batch)}
         /\ Linked(p, k, batch) \in Seq(Item)
         /\ Distinct(Linked(p, k, batch))
         /\ Elements(Linked(p, k, batch)) = LinkedItems(p, k, batch)
<1> DEFINE arrived == ready[p] \o batch
           sent == Sent(p, k)
           m == Taken(p, batch)
           credit == CreditFor(m)
           back == Paid(m)
<1>1. /\ arrived \in Seq(Packet) /\ Distinct(arrived) /\ arrived # << >>
      /\ Elements(arrived) = At(Peer[p], "ready") \cup Elements(batch)
      /\ Elements(batch) \subseteq At(Peer[p], "ingress")
      /\ sent \in Seq(Item) /\ Distinct(sent)
      /\ Elements(sent) = Carried(At(p, "link") \cup Out(p, k), At(Peer[p], "owed"))
  BY TickFacts, ZenonT(40)
<1>2. m = Head(arrived)  BY DEF arrived, Taken
<1> HIDE DEF arrived, sent, m
<1>3. /\ m \in Elements(arrived) /\ Tail(arrived) \in Seq(Packet)
      /\ Elements(Tail(arrived)) = Elements(arrived) \ {m}
      /\ Distinct(Tail(arrived))
  BY <1>1, <1>2, ElementsTail
<1>4. m \in Packet /\ m \notin At(Peer[p], "owed")
  BY <1>1, <1>3 DEF At
<1>5. /\ credit \in Seq(Item) /\ Distinct(credit)
      /\ Elements(credit) = {CreditItem(x) : x \in back}
  <2>1. CASE Bytes[m] = 0
    BY <2>1, ElementsEmpty DEF CreditFor, Paid
  <2>2. CASE Bytes[m] # 0
    <3>1. CreditItem(m) \in Item /\ credit = <<CreditItem(m)>>
      BY <1>4, <2>2 DEF CreditFor, Item, CreditItem
    <3> HIDE DEF credit
    <3>2. credit \in Seq(Item) /\ Len(credit) = 1 /\ credit[1] = CreditItem(m)
      BY <3>1
    <3>3. Elements(credit) = {CreditItem(m)} /\ Distinct(credit)
      BY <3>2 DEF Elements, Distinct
    <3>4. QED  BY <2>2, <3>2, <3>3 DEF Paid
  <2>3. QED  BY <2>1, <2>2
<1> HIDE DEF credit, back
<1>6. Elements(sent) \cap Elements(credit) = {}
  <2>1. \A a, b : CreditItem(a) # EventItem(b)
    BY DEF EventItem, CreditItem
  <2>2. \A a, b : CreditItem(a) = CreditItem(b) => a = b
    BY DEF CreditItem
  <2>3. back \subseteq {m}  BY DEF back, Paid
  <2>4. QED  BY <1>1, <1>4, <1>5, <2>1, <2>2, <2>3 DEF Carried
<1>7. /\ sent \o credit \in Seq(Item) /\ Distinct(sent \o credit)
      /\ Elements(sent \o credit) = Elements(sent) \cup Elements(credit)
  <2>1. sent \in Seq(Item) /\ Distinct(sent)  BY <1>1
  <2>2. credit \in Seq(Item) /\ Distinct(credit)  BY <1>5
  <2>3. QED  BY <1>6, <2>1, <2>2, ElementsConcat
<1>8. Elements(sent \o credit) =
        Carried(At(p, "link") \cup Out(p, k), At(Peer[p], "owed") \cup back)
  BY <1>1, <1>5, <1>7 DEF Carried
<1>9. QED  BY <1>1, <1>3, <1>4, <1>7, <1>8 DEF arrived, sent, credit, back, m, Linked,
                                                        LinkedItems

\* A cycle in which the owner takes the head of the ready queue.
LEMMA AcceptIInv ==
  ASSUME IInv, NEW p \in Port, NEW n \in 0 .. Len(ingress[p]),
         NEW k \in 0 .. Len(egress[p]),
         NEW batch \in Orders(First(ingress[p], n)), Accept(p, n, batch, k)
  PROVE  IInv'
<1> DEFINE S == Out(p, k)
           B == Elements(batch)
           arrived == ready[p] \o batch
           m == Taken(p, batch)
           sent == Linked(p, k, batch)
           back == Paid(m)
<1>0. ready[p] \o batch # << >>  BY DEF Accept
<1> HIDE DEF S, B, sent, arrived, m, back
<1>1. /\ S \subseteq At(p, "egress") /\ B \subseteq At(Peer[p], "ingress")
      /\ Rest(egress[p], k) \in Seq(Packet) /\ Distinct(Rest(egress[p], k))
      /\ Elements(Rest(egress[p], k)) = At(p, "egress") \ S
      /\ Rest(ingress[p], n) \in Seq(Packet) /\ Distinct(Rest(ingress[p], n))
      /\ Elements(Rest(ingress[p], n)) = At(Peer[p], "ingress") \ B
  BY TickFacts, ZenonT(40) DEF S, B
<1>a. /\ m \in Packet /\ m \in At(Peer[p], "ready") \cup B
      /\ Tail(arrived) \in Seq(Packet) /\ Distinct(Tail(arrived))
      /\ Elements(Tail(arrived)) = (At(Peer[p], "ready") \cup B) \ {m}
      /\ sent \in Seq(Item) /\ Distinct(sent)
      /\ Elements(sent) = Carried(At(p, "link") \cup S, At(Peer[p], "owed") \cup back)
  <2>1. /\ Taken(p, batch) \in Packet
        /\ Taken(p, batch) \in At(Peer[p], "ready") \cup Elements(batch)
        /\ Tail(ready[p] \o batch) \in Seq(Packet)
        /\ Distinct(Tail(ready[p] \o batch))
        /\ Elements(Tail(ready[p] \o batch)) =
             (At(Peer[p], "ready") \cup Elements(batch)) \ {Taken(p, batch)}
    BY <1>0, TakeFacts
  <2>2. Linked(p, k, batch) \in Seq(Item)
    BY <1>0, TakeFacts
  <2>3. Distinct(Linked(p, k, batch))
    BY <1>0, TakeFacts
  <2>4. Elements(Linked(p, k, batch)) = LinkedItems(p, k, batch)
    BY <1>0, TakeFacts
  <2>5. QED  BY <2>1, <2>2, <2>3, <2>4 DEF S, B, sent, arrived, m, back, LinkedItems
<1>b. back \subseteq {m} /\ (Bytes[m] = 0 <=> back = {})
  BY DEF back, Paid
<1>2. /\ \A x \in Packet :
           stage'[x] = IF x = m THEN IF m \in back THEN "owed" ELSE "done"
                       ELSE IF x \in S THEN "link"
                       ELSE IF x \in B THEN "ready" ELSE stage[x]
      /\ stage' \in [Packet -> Stages]
  <2>1. stage' = [TickedStage(p, batch, k) EXCEPT
                     ![m] = IF Bytes[m] = 0 THEN "done" ELSE "owed"]
    BY DEF Accept, Taken, m
  <2>2. TickedStage(p, batch, k) =
          [x \in Packet |-> IF x \in S THEN "link"
                            ELSE IF x \in B THEN "ready" ELSE stage[x]]
    BY DEF S, B, Out, TickedStage
  <2>3. QED  BY <1>b, <1>a, <2>1, <2>2 DEF IInv, TypeOK, Stages, back, Paid
<1>3. /\ egress' = [egress EXCEPT ![p] = Rest(egress[p], k)]
      /\ ingress' = [ingress EXCEPT ![p] = Rest(ingress[p], n)]
      /\ ready' = [ready EXCEPT ![p] = Tail(arrived)]
      /\ link' = [link EXCEPT ![Peer[p]] = sent]
      /\ credits' = [credits EXCEPT ![p] =
                       IF Unlimited(p) THEN credits[p] ELSE credits[p] - BytesOf(S)]
      /\ Affords(p, k)
  BY DEF S, sent, Out, Sent, Linked, Accept, Tick, Drains, arrived, Taken, m
<1>4. Peer[p] \in Port /\ Peer[p] # p /\ Peer[Peer[p]] = p
      /\ \A q \in Port : /\ Peer[q] \in Port /\ (Peer[q] = p <=> q = Peer[p])
                         /\ (Peer[q] = Peer[p] <=> q = p)
  BY PeerFacts
<1>5. TypeOK'
  <2>1. credits' \in [Port -> Nat]
    <3>1. ~ Unlimited(p) => credits[p] - BytesOf(S) \in Nat
      <4>1. credits[p] \in Nat /\ BytesOf(S) \in Nat
        BY BytesOfNat DEF IInv, TypeOK
      <4>2. ~ Unlimited(p) => credits[p] - BytesOf(S) >= 0
        BY <1>3, DrainAccount DEF S
      <4>3. QED  BY <4>1, <4>2
    <3>2. QED  BY <1>3, <3>1 DEF IInv, TypeOK
  <2>2. egress' \in [Port -> Seq(Packet)] /\ ingress' \in [Port -> Seq(Packet)]
    BY <1>1, <1>a, <1>3 DEF IInv, TypeOK
  <2>3. ready' \in [Port -> Seq(Packet)]
    BY <1>1, <1>a, <1>3 DEF IInv, TypeOK
  <2>4. link' \in [Port -> Seq(Item)]
    BY <1>1, <1>a, <1>3 DEF IInv, TypeOK
  <2>5. QED  BY <1>2, <2>1, <2>2, <2>3, <2>4 DEF TypeOK
<1>c. /\ m \notin S /\ \A x \in S : x \notin B
      /\ \A x \in S : Source[x] = p /\ stage[x] = "egress"
      /\ \A x \in B : Source[x] = Peer[p] /\ stage[x] = "ingress"
      /\ Source[m] = Peer[p] /\ (m \in B \/ stage[m] = "ready")
  BY <1>1, <1>a, <1>4 DEF At
<1>6. ASSUME NEW q \in Port
      PROVE
        /\ At(q, "egress")' = IF q = p THEN At(q, "egress") \ S ELSE At(q, "egress")
        /\ At(q, "link")' = IF q = p THEN At(q, "link") \cup S ELSE At(q, "link")
        /\ At(q, "ingress")' = IF q = Peer[p] THEN At(q, "ingress") \ B
                               ELSE At(q, "ingress")
        /\ At(q, "ready")' = IF q = Peer[p] THEN (At(q, "ready") \cup B) \ {m}
                             ELSE At(q, "ready")
        /\ At(q, "owed")' = IF q = Peer[p] THEN At(q, "owed") \cup back
                            ELSE At(q, "owed")
  <2>1. At(q, "egress")' = IF q = p THEN At(q, "egress") \ S ELSE At(q, "egress")
    BY <1>1, <1>a, <1>c, <1>2 DEF At
  <2>2. At(q, "link")' = IF q = p THEN At(q, "link") \cup S ELSE At(q, "link")
    BY <1>1, <1>a, <1>c, <1>2, SMTT(30) DEF At
  <2>3. At(q, "ingress")' = IF q = Peer[p] THEN At(q, "ingress") \ B
                            ELSE At(q, "ingress")
    BY <1>1, <1>a, <1>c, <1>2, SMTT(30) DEF At
  <2>4. At(q, "ready")' = IF q = Peer[p] THEN (At(q, "ready") \cup B) \ {m}
                          ELSE At(q, "ready")
    BY <1>1, <1>a, <1>c, <1>2 DEF At
  <2>5. At(q, "owed")' = IF q = Peer[p] THEN At(q, "owed") \cup back
                         ELSE At(q, "owed")
    BY <1>1, <1>a, <1>b, <1>c, <1>2, SMTT(30) DEF At
  <2>6. QED  BY <2>1, <2>2, <2>3, <2>4, <2>5
<1>7. Located'
  <2> SUFFICES ASSUME NEW q \in Port PROVE
         /\ Distinct(egress'[q])
         /\ Elements(egress'[q]) = At(q, "egress")'
         /\ Distinct(link'[q])
         /\ Elements(link'[q]) = Carried(At(Peer[q], "link")', At(q, "owed")')
         /\ Distinct(ingress'[q])
         /\ Elements(ingress'[q]) = At(Peer[q], "ingress")'
         /\ Distinct(ready'[q])
         /\ Elements(ready'[q]) = At(Peer[q], "ready")'
    BY DEF Located
  <2>1. /\ egress'[q] = IF q = p THEN Rest(egress[p], k) ELSE egress[q]
        /\ ingress'[q] = IF q = p THEN Rest(ingress[p], n) ELSE ingress[q]
        /\ ready'[q] = IF q = p THEN Tail(arrived) ELSE ready[q]
        /\ link'[q] = IF q = Peer[p] THEN sent ELSE link[q]
    BY <1>3, <1>4 DEF IInv, TypeOK
  <2>2. Distinct(egress'[q]) /\ Elements(egress'[q]) = At(q, "egress")'
    BY <1>1, <1>6, <2>1 DEF IInv, Located
  <2>3. Distinct(ingress'[q]) /\ Elements(ingress'[q]) = At(Peer[q], "ingress")'
    BY <1>1, <1>a, <1>4, <1>6, <2>1, ZenonT(40) DEF IInv, Located
  <2>4. Distinct(ready'[q]) /\ Elements(ready'[q]) = At(Peer[q], "ready")'
    BY <1>1, <1>a, <1>4, <1>6, <2>1, ZenonT(40) DEF IInv, Located
  <2>5. /\ Distinct(link'[q])
        /\ Elements(link'[q]) = Carried(At(Peer[q], "link")', At(q, "owed")')
    <3>1. CASE q = Peer[p]
      BY <1>1, <1>a, <1>4, <1>6, <2>1, <3>1
    <3>2. CASE q # Peer[p]
      BY <1>4, <1>6, <2>1, <3>2 DEF IInv, Located
    <3>3. QED  BY <3>1, <3>2
  <2>6. QED  BY <2>2, <2>3, <2>4, <2>5
<1>8. Accounted'
  <2> SUFFICES ASSUME NEW q \in Port, ~ Unlimited(q)
               PROVE  /\ credits'[q] >= 0
                      /\ credits'[q] + BytesOf(Outstanding(q)') = CreditCapacity(q)
    BY DEF Accounted, Unlimited, BytesOf, CreditCapacity
  <2>1. CASE q = p
    <3>1. credits'[p] = credits[p] - BytesOf(S)
      BY <1>3, <2>1 DEF IInv, TypeOK
    <3>2. Outstanding(p)' = Outstanding(p) \cup S
      BY <1>1, <1>a, <1>b, <1>2, <1>4 DEF Outstanding, At
    <3>3. QED  BY <1>3, <2>1, <3>1, <3>2, DrainAccount DEF S
  <2>2. CASE q # p
    <3>1. credits'[q] = credits[q]
      BY <1>3, <2>2 DEF IInv, TypeOK
    <3>2. CASE m \in back \/ Source[m] # q
      <4>1. Outstanding(q)' = Outstanding(q)
        BY <1>1, <1>a, <1>b, <1>2, <1>4, <2>2, <3>2 DEF Outstanding, At
      <4>2. QED  BY <3>1, <4>1 DEF IInv, Accounted
    <3>3. CASE m \notin back /\ Source[m] = q
      <4>1. m \in Outstanding(q) /\ Outstanding(q)' = Outstanding(q) \ {m}
        BY <1>1, <1>a, <1>b, <1>2, <1>4, <2>2, <3>3 DEF Outstanding, At
      <4>2. Bytes[m] = 0  BY <1>b, <3>3
      <4>3. BytesOf(Outstanding(q)') = BytesOf(Outstanding(q))
        <5>1. BytesOf(Outstanding(q)) = BytesOf(Outstanding(q) \ {m}) + Bytes[m]
          BY <1>a, <4>1, BytesOfWithout
        <5>2. QED  BY <4>1, <4>2, <5>1, BytesOfNat
      <4>4. QED  BY <3>1, <4>3 DEF IInv, Accounted
    <3>4. QED  BY <3>2, <3>3
  <2>3. QED  BY <2>1, <2>2
<1>9. QED  BY <1>5, <1>7, <1>8 DEF IInv

-----------------------------------------------------------------------------
(* Arrivals *)

\* The oldest item of a link is an event of the peer that is on the link, or
\* the credit for an event of this port that was taken.
LEMMA HeadOfLink ==
  ASSUME IInv, NEW p \in Port, link[p] # << >>
  PROVE  /\ Head(link[p]).pkt \in Packet
         /\ Tail(link[p]) \in Seq(Item) /\ Distinct(Tail(link[p]))
         /\ Head(link[p]).kind = "event" =>
              /\ Head(link[p]).pkt \in At(Peer[p], "link")
              /\ Elements(Tail(link[p])) =
                   Carried(At(Peer[p], "link") \ {Head(link[p]).pkt}, At(p, "owed"))
         /\ Head(link[p]).kind = "credit" =>
              /\ Head(link[p]).pkt \in At(p, "owed")
              /\ Elements(Tail(link[p])) =
                   Carried(At(Peer[p], "link"), At(p, "owed") \ {Head(link[p]).pkt})
<1> DEFINE h == Head(link[p])
           m == h.pkt
<1>1. /\ link[p] \in Seq(Item) /\ Distinct(link[p])
      /\ Elements(link[p]) = Carried(At(Peer[p], "link"), At(p, "owed"))
  BY DEF IInv, TypeOK, Located
<1>2. /\ h \in Elements(link[p])
      /\ Tail(link[p]) \in Seq(Item) /\ Distinct(Tail(link[p]))
      /\ Elements(Tail(link[p])) = Elements(link[p]) \ {h}
  BY <1>1, ElementsTail
<1> HIDE DEF h
<1>3. /\ \A x : EventItem(x).kind = "event" /\ EventItem(x).pkt = x
      /\ \A x : CreditItem(x).kind = "credit" /\ CreditItem(x).pkt = x
  BY DEF EventItem, CreditItem
<1>4. \/ \E x \in At(Peer[p], "link") : h = EventItem(x)
      \/ \E x \in At(p, "owed") : h = CreditItem(x)
  BY <1>1, <1>2 DEF Carried
<1>5. CASE h.kind = "event"
  <2>1. m \in At(Peer[p], "link") /\ h = EventItem(m)
    BY <1>3, <1>4, <1>5
  <2>2. Elements(Tail(link[p])) = Carried(At(Peer[p], "link") \ {m}, At(p, "owed"))
    BY <1>1, <1>2, <1>3, <2>1 DEF Carried
  <2>3. QED  BY <1>2, <1>5, <2>1, <2>2 DEF h, At
<1>6. CASE h.kind = "credit"
  <2>1. m \in At(p, "owed") /\ h = CreditItem(m)
    BY <1>3, <1>4, <1>6
  <2>2. Elements(Tail(link[p])) = Carried(At(Peer[p], "link"), At(p, "owed") \ {m})
    BY <1>1, <1>2, <1>3, <2>1 DEF Carried
  <2>3. QED  BY <1>2, <1>6, <2>1, <2>2 DEF h, At
<1>7. QED  BY <1>3, <1>4, <1>5, <1>6

\* An event joins the ingress queue.
LEMMA ArriveEventIInv ==
  ASSUME IInv, NEW p \in Port, ArriveEvent(p)
  PROVE  IInv'
<1> DEFINE m == Head(link[p]).pkt
           rest == Tail(link[p])
<1>1. /\ m \in Packet /\ m \in At(Peer[p], "link")
      /\ rest \in Seq(Item) /\ Distinct(rest)
      /\ Elements(rest) = Carried(At(Peer[p], "link") \ {m}, At(p, "owed"))
  BY HeadOfLink DEF ArriveEvent
<1>2. /\ Peer[p] \in Port /\ Peer[p] # p /\ Peer[Peer[p]] = p
      /\ \A q \in Port : /\ Peer[q] \in Port /\ (Peer[q] = p <=> q = Peer[p])
                         /\ (Peer[q] = Peer[p] <=> q = p)
  BY PeerFacts
<1>3. /\ link' = [link EXCEPT ![p] = rest]
      /\ ingress' = [ingress EXCEPT ![p] = Append(ingress[p], m)]
      /\ stage' = [stage EXCEPT ![m] = "ingress"]
      /\ UNCHANGED <<credits, egress, ready>>
  BY DEF ArriveEvent
<1> HIDE DEF m, rest
<1>4. /\ Append(ingress[p], m) \in Seq(Packet) /\ Distinct(Append(ingress[p], m))
      /\ Elements(Append(ingress[p], m)) = At(Peer[p], "ingress") \cup {m}
  <2>1. /\ ingress[p] \in Seq(Packet) /\ Distinct(ingress[p])
        /\ Elements(ingress[p]) = At(Peer[p], "ingress")
    BY DEF IInv, TypeOK, Located
  <2>2. m \notin At(Peer[p], "ingress")  BY <1>1 DEF At
  <2>3. QED  BY <1>1, <2>1, <2>2, ElementsAppend
<1>5. TypeOK'
  BY <1>1, <1>3, <1>4 DEF IInv, TypeOK, Stages
<1>6. ASSUME NEW q \in Port
      PROVE
        /\ At(q, "egress")' = At(q, "egress")
        /\ At(q, "link")' = IF q = Peer[p] THEN At(q, "link") \ {m} ELSE At(q, "link")
        /\ At(q, "ingress")' = IF q = Peer[p] THEN At(q, "ingress") \cup {m}
                               ELSE At(q, "ingress")
        /\ At(q, "ready")' = At(q, "ready")
        /\ At(q, "owed")' = At(q, "owed")
  BY <1>1, <1>2, <1>3 DEF IInv, TypeOK, At
<1>7. Located'
  <2> SUFFICES ASSUME NEW q \in Port PROVE
         /\ Distinct(egress'[q])
         /\ Elements(egress'[q]) = At(q, "egress")'
         /\ Distinct(link'[q])
         /\ Elements(link'[q]) = Carried(At(Peer[q], "link")', At(q, "owed")')
         /\ Distinct(ingress'[q])
         /\ Elements(ingress'[q]) = At(Peer[q], "ingress")'
         /\ Distinct(ready'[q])
         /\ Elements(ready'[q]) = At(Peer[q], "ready")'
    BY DEF Located, Carried
  <2>1. /\ ingress'[q] = IF q = p THEN Append(ingress[p], m) ELSE ingress[q]
        /\ link'[q] = IF q = p THEN rest ELSE link[q]
    BY <1>3 DEF IInv, TypeOK
  <2>2. Distinct(egress'[q]) /\ Elements(egress'[q]) = At(q, "egress")'
    BY <1>3, <1>6 DEF IInv, Located
  <2>3. Distinct(ingress'[q]) /\ Elements(ingress'[q]) = At(Peer[q], "ingress")'
    BY <1>2, <1>4, <1>6, <2>1, SMTT(30) DEF IInv, Located
  <2>4. Distinct(ready'[q]) /\ Elements(ready'[q]) = At(Peer[q], "ready")'
    BY <1>2, <1>3, <1>6 DEF IInv, Located
  <2>5. Distinct(link'[q]) /\ Elements(link'[q]) = Carried(At(Peer[q], "link")', At(q, "owed")')
    BY <1>1, <1>2, <1>6, <2>1 DEF IInv, Located
  <2>6. QED  BY <2>2, <2>3, <2>4, <2>5
<1>8. Accounted'
  <2>1. \A q \in Port : Outstanding(q)' = Outstanding(q)
    BY <1>1, <1>3 DEF Outstanding, At, IInv, TypeOK
  <2>2. QED  BY <1>3, <2>1 DEF IInv, Accounted, BytesOf, CreditCapacity, Unlimited
<1>9. QED  BY <1>5, <1>7, <1>8 DEF IInv

\* The credit that arrives is for an event that p still accounts for, so the
\* capacity is not exceeded and the clamp of add_credit does nothing.
LEMMA CreditFits ==
  ASSUME IInv, NEW p \in Port, link[p] # << >>, Head(link[p]).kind = "credit",
         ~ Unlimited(p)
  PROVE  AddCredit(p, Bytes[Head(link[p]).pkt]) = credits[p] + Bytes[Head(link[p]).pkt]
<1> DEFINE m == Head(link[p]).pkt
<1>1. m \in Packet /\ m \in Outstanding(p)
  BY HeadOfLink DEF At, Outstanding
<1>2. BytesOf(Outstanding(p)) = BytesOf(Outstanding(p) \ {m}) + Bytes[m]
  BY <1>1, BytesOfWithout
<1>3. /\ BytesOf(Outstanding(p) \ {m}) \in Nat /\ Bytes[m] \in Nat
      /\ credits[p] \in Nat /\ CreditCapacity(p) \in Nat
  <2>1. BytesOf(Outstanding(p) \ {m}) \in Nat  BY BytesOfNat
  <2>2. Bytes[m] \in Nat  BY <1>1, LinkAssumption
  <2>3. credits[p] \in Nat  BY DEF IInv, TypeOK
  <2>4. QED  BY <2>1, <2>2, <2>3, PeerFacts
<1>4. credits[p] + BytesOf(Outstanding(p)) = CreditCapacity(p)
  BY DEF IInv, Accounted
<1> HIDE DEF m
<1>5. credits[p] + Bytes[m] <= CreditCapacity(p)
  BY <1>2, <1>3, <1>4
<1>6. AddCredit(p, Bytes[m]) = credits[p] + Bytes[m]
  BY <1>3, <1>5 DEF AddCredit
<1>7. QED  BY <1>6 DEF m

\* A credit event gives its bytes back.
LEMMA ArriveCreditIInv ==
  ASSUME IInv, NEW p \in Port, ArriveCredit(p)
  PROVE  IInv'
<1> DEFINE m == Head(link[p]).pkt
           rest == Tail(link[p])
<1>1. /\ m \in Packet /\ m \in At(p, "owed")
      /\ rest \in Seq(Item) /\ Distinct(rest)
      /\ Elements(rest) = Carried(At(Peer[p], "link"), At(p, "owed") \ {m})
  BY HeadOfLink DEF ArriveCredit
<1>2. /\ Peer[p] \in Port /\ Peer[p] # p
      /\ \A q \in Port : Peer[q] \in Port
  BY PeerFacts
<1>3. /\ link' = [link EXCEPT ![p] = rest]
      /\ credits' = [credits EXCEPT ![p] = AddCredit(p, Bytes[m])]
      /\ stage' = [stage EXCEPT ![m] = "done"]
      /\ UNCHANGED <<egress, ingress, ready>>
  BY DEF ArriveCredit
<1>4. ~ Unlimited(p) => AddCredit(p, Bytes[m]) = credits[p] + Bytes[m]
  BY CreditFits DEF ArriveCredit
<1> HIDE DEF m, rest
<1>5. TypeOK'
  <2>1. AddCredit(p, Bytes[m]) \in Nat
    <3>1. credits[p] \in Nat /\ Bytes[m] \in Nat
      BY <1>1, LinkAssumption DEF IInv, TypeOK
    <3>2. Unlimited(p) => AddCredit(p, Bytes[m]) = credits[p]
      BY DEF AddCredit
    <3>3. QED  BY <1>4, <3>1, <3>2
  <2>2. QED  BY <1>1, <1>3, <2>1 DEF IInv, TypeOK, Stages
<1>6. ASSUME NEW q \in Port
      PROVE
        /\ \A st \in {"egress", "link", "ingress", "ready"} : At(q, st)' = At(q, st)
        /\ At(q, "owed")' = IF q = p THEN At(q, "owed") \ {m} ELSE At(q, "owed")
  BY <1>1, <1>3 DEF IInv, TypeOK, At
<1>7. Located'
  <2> SUFFICES ASSUME NEW q \in Port PROVE
         /\ Distinct(egress'[q])
         /\ Elements(egress'[q]) = At(q, "egress")'
         /\ Distinct(link'[q])
         /\ Elements(link'[q]) = Carried(At(Peer[q], "link")', At(q, "owed")')
         /\ Distinct(ingress'[q])
         /\ Elements(ingress'[q]) = At(Peer[q], "ingress")'
         /\ Distinct(ready'[q])
         /\ Elements(ready'[q]) = At(Peer[q], "ready")'
    BY DEF Located, Carried
  <2>1. link'[q] = IF q = p THEN rest ELSE link[q]
    BY <1>3 DEF IInv, TypeOK
  <2>2. Distinct(link'[q]) /\ Elements(link'[q]) = Carried(At(Peer[q], "link")', At(q, "owed")')
    BY <1>1, <1>2, <1>6, <2>1 DEF IInv, Located
  <2>3. QED  BY <1>2, <1>3, <1>6, <2>2 DEF IInv, Located
<1>8. Accounted'
  <2> SUFFICES ASSUME NEW q \in Port, ~ Unlimited(q)
               PROVE  /\ credits'[q] >= 0
                      /\ credits'[q] + BytesOf(Outstanding(q)') = CreditCapacity(q)
    BY DEF Accounted, Unlimited, BytesOf, CreditCapacity
  <2>1. CASE q = p
    <3>1. credits'[p] = credits[p] + Bytes[m]
      BY <1>3, <1>4, <2>1 DEF IInv, TypeOK
    <3>2. m \in Outstanding(p) /\ Outstanding(p)' = Outstanding(p) \ {m}
      BY <1>1, <1>3 DEF Outstanding, At, IInv, TypeOK
    <3>3. BytesOf(Outstanding(p)) = BytesOf(Outstanding(p) \ {m}) + Bytes[m]
      BY <1>1, <3>2, BytesOfWithout
    <3>4. /\ credits[p] >= 0 /\ credits[p] \in Int /\ Bytes[m] \in Nat
          /\ credits[p] + BytesOf(Outstanding(p)) = CreditCapacity(p)
          /\ BytesOf(Outstanding(p) \ {m}) \in Nat
      <4>1. credits[p] \in Nat  BY DEF IInv, TypeOK
      <4>2. credits[p] + BytesOf(Outstanding(p)) = CreditCapacity(p)
        BY <2>1 DEF IInv, Accounted
      <4>3. Bytes[m] \in Nat  BY <1>1, LinkAssumption
      <4>4. QED  BY <4>1, <4>2, <4>3, BytesOfNat
    <3>5. QED  BY <2>1, <3>1, <3>2, <3>3, <3>4
  <2>2. CASE q # p
    <3>1. credits'[q] = credits[q] /\ Outstanding(q)' = Outstanding(q)
      BY <1>1, <1>3, <2>2 DEF Outstanding, At, IInv, TypeOK
    <3>2. QED  BY <3>1 DEF IInv, Accounted
  <2>3. QED  BY <2>1, <2>2
<1>9. QED  BY <1>5, <1>7, <1>8 DEF IInv

-----------------------------------------------------------------------------
(* The invariant *)

\* No step of any port breaks the invariant.
LEMMA NextIInv == IInv /\ [Next]_vars => IInv'
<1> SUFFICES ASSUME IInv, [Next]_vars PROVE IInv'
  OBVIOUS
<1>1. CASE UNCHANGED vars
  <2> USE <1>1 DEF vars
  <2>1. TypeOK'  BY DEF IInv, TypeOK
  <2>2. \A q \in Port, st \in Stages : At(q, st)' = At(q, st)
    BY DEF At
  <2>3. Located'
    BY <2>2, PeerFacts DEF IInv, Located, Stages
  <2>4. \A q \in Port : Outstanding(q)' = Outstanding(q)
    BY DEF Outstanding
  <2>5. Accounted'
    BY <2>4 DEF IInv, Accounted, BytesOf, CreditCapacity, Unlimited
  <2>6. QED  BY <2>1, <2>3, <2>5 DEF IInv
<1>2. ASSUME NEW p \in Port, NEW m \in Packet, Send(p, m) PROVE IInv'
  BY <1>2, SendIInv
<1>3. ASSUME NEW p \in Port, Clock(p) PROVE IInv'
  <2>1. PICK n \in 0 .. Len(ingress[p]) : ClockCycle(p, n)
    BY <1>3 DEF Clock
  <2>2. PICK k \in 0 .. Len(egress[p]), batch \in Orders(First(ingress[p], n)) :
          Refuse(p, n, batch, k) \/ Accept(p, n, batch, k)
    BY <2>1 DEF ClockCycle
  <2>3. CASE Refuse(p, n, batch, k)  BY <2>3, RefuseIInv
  <2>4. CASE Accept(p, n, batch, k)  BY <2>4, AcceptIInv
  <2>5. QED  BY <2>2, <2>3, <2>4
<1>4. ASSUME NEW p \in Port, ArriveEvent(p) PROVE IInv'
  BY <1>4, ArriveEventIInv
<1>5. ASSUME NEW p \in Port, ArriveCredit(p) PROVE IInv'
  BY <1>5, ArriveCreditIInv
<1>6. QED  BY <1>1, <1>2, <1>3, <1>4, <1>5 DEF Next

\* The queues agree with each other and with the credits in every state.
THEOREM Invariance == Spec => []IInv
<1>1. Init => IInv  BY InitIInv
<1>2. IInv /\ [Next]_vars => IInv'  BY NextIInv
<1>3. QED  BY <1>1, <1>2, PTL DEF Spec

\* Every queue of every port holds events of the run, every link items.
THEOREM TypeCorrect == Spec => []TypeOK
<1>1. IInv => TypeOK  BY DEF IInv
<1>2. QED  BY <1>1, Invariance, PTL

\* Held and Owed, which speak of queues and links, in terms of the history.
LEMMA HeldOwed ==
  ASSUME IInv, NEW p \in Port
  PROVE  /\ Held(p) = At(p, "link") \cup At(p, "ingress") \cup At(p, "ready")
         /\ Owed(p) = At(p, "owed")
         /\ Outstanding(p) = Held(p) \cup Owed(p)
         /\ Held(p) \cap Owed(p) = {}
<1>1. ASSUME NEW q \in Port
      PROVE  /\ OnLink(q, "event") = At(Peer[q], "link")
             /\ OnLink(q, "credit") = At(q, "owed")
  <2>1. /\ link[q] \in Seq(Item)
        /\ Elements(link[q]) = Carried(At(Peer[q], "link"), At(q, "owed"))
    BY DEF IInv, TypeOK, Located
  <2>2. ASSUME NEW kind
        PROVE  OnLink(q, kind) = {h.pkt : h \in {x \in Elements(link[q]) : x.kind = kind}}
    BY DEF OnLink, Elements
  <2>3. /\ \A x : EventItem(x).kind = "event" /\ EventItem(x).pkt = x
        /\ \A x : CreditItem(x).kind = "credit" /\ CreditItem(x).pkt = x
    BY DEF EventItem, CreditItem
  <2>4. {x \in Elements(link[q]) : x.kind = "event"} =
          {EventItem(m) : m \in At(Peer[q], "link")}
    BY <2>1, <2>3 DEF Carried
  <2>5. {x \in Elements(link[q]) : x.kind = "credit"} = {CreditItem(m) : m \in At(q, "owed")}
    BY <2>1, <2>3 DEF Carried
  <2>6. OnLink(q, "event") = At(Peer[q], "link")
    <3>1. OnLink(q, "event") = {h.pkt : h \in {EventItem(m) : m \in At(Peer[q], "link")}}
      BY <2>2, <2>4
    <3>2. QED  BY <2>3, <3>1
  <2>7. OnLink(q, "credit") = At(q, "owed")
    <3>1. OnLink(q, "credit") = {h.pkt : h \in {CreditItem(m) : m \in At(q, "owed")}}
      BY <2>2, <2>5
    <3>2. \A m \in At(q, "owed") : CreditItem(m).pkt = m  BY <2>3
    <3>3. OnLink(q, "credit") \subseteq At(q, "owed")  BY <3>1, <3>2
    <3>4. At(q, "owed") \subseteq OnLink(q, "credit")  BY <3>1, <3>2
    <3>5. QED  BY <3>3, <3>4
  <2>8. QED  BY <2>6, <2>7
<1>2. Peer[p] \in Port /\ Peer[Peer[p]] = p  BY PeerFacts
<1>3. /\ Elements(ingress[Peer[p]]) = At(p, "ingress")
      /\ Elements(ready[Peer[p]]) = At(p, "ready")
  BY <1>2 DEF IInv, Located
<1>4. /\ Held(p) = At(p, "link") \cup At(p, "ingress") \cup At(p, "ready")
      /\ Owed(p) = At(p, "owed")
  BY <1>1, <1>2, <1>3 DEF Held, Owed
<1>5. QED  BY <1>4 DEF At, Outstanding

\* The credit account of every port is balanced in every state.
THEOREM CreditsConserved == Spec => []CreditConservation
<1>1. IInv => CreditConservation
  <2> SUFFICES ASSUME IInv, NEW p \in Port, ~ Unlimited(p)
               PROVE  credits[p] + BytesOf(Held(p)) + BytesOf(Owed(p)) = CreditCapacity(p)
    BY DEF CreditConservation
  <2>1. BytesOf(Outstanding(p)) = BytesOf(Held(p)) + BytesOf(Owed(p))
    BY HeldOwed, BytesOfUnion
  <2>2. credits[p] + BytesOf(Outstanding(p)) = CreditCapacity(p)
    BY DEF IInv, Accounted
  <2>3. credits[p] \in Int  BY DEF IInv, TypeOK
  <2>4. QED  BY <2>1, <2>2, <2>3, BytesOfNat
<1>2. QED  BY <1>1, Invariance, PTL

\* What a port's peer holds never exceeds the credit capacity of the port.
THEOREM IngressIsBounded == Spec => []IngressBounded
<1>1. IInv => IngressBounded
  <2> SUFFICES ASSUME IInv, NEW p \in Port, ~ Unlimited(p)
               PROVE  BytesOf(Held(p)) <= CreditCapacity(p)
    BY DEF IngressBounded
  <2>1. BytesOf(Outstanding(p)) = BytesOf(Held(p)) + BytesOf(Owed(p))
    BY HeldOwed, BytesOfUnion
  <2>2. credits[p] >= 0 /\ credits[p] + BytesOf(Outstanding(p)) = CreditCapacity(p)
    BY DEF IInv, Accounted
  <2>3. credits[p] \in Int /\ CreditCapacity(p) \in Nat
    BY PeerFacts DEF IInv, TypeOK
  <2>4. BytesOf(Held(p)) \in Nat /\ BytesOf(Owed(p)) \in Nat
    BY BytesOfNat
  <2>5. QED  BY <2>1, <2>2, <2>3, <2>4
<1>2. QED  BY <1>1, Invariance, PTL

\* No arriving credit is cut off by the capacity in add_credit.
THEOREM CreditsNeverClamped == Spec => NoCreditClamped
<1>1. IInv /\ [Next]_vars =>
        [\A p \in Port :
           ArriveCredit(p) /\ ~ Unlimited(p) =>
             credits'[p] = credits[p] + Bytes[Head(link[p]).pkt]]_vars
  <2> SUFFICES ASSUME IInv, NEW p \in Port, ArriveCredit(p), ~ Unlimited(p)
               PROVE  credits'[p] = credits[p] + Bytes[Head(link[p]).pkt]
    OBVIOUS
  <2>1. credits'[p] = AddCredit(p, Bytes[Head(link[p]).pkt])
    BY DEF ArriveCredit, IInv, TypeOK
  <2>2. QED  BY <2>1, CreditFits DEF ArriveCredit
<1>2. QED  BY <1>1, Invariance, PTL DEF Spec, NoCreditClamped

\* The place where the history says that an event is.
Where(m) ==
  CASE stage[m] = "egress" -> <<"egress", Source[m]>>
    [] stage[m] = "link" -> <<"link", Peer[Source[m]]>>
    [] stage[m] = "ingress" -> <<"ingress", Peer[Source[m]]>>
    [] stage[m] = "ready" -> <<"ready", Peer[Source[m]]>>
    [] stage[m] = "owed" -> <<"link", Source[m]>>
    [] OTHER -> << >>

\* What is found at a place belongs there, and is found there once.
LEMMA AtItsPlace ==
  ASSUME IInv, NEW p \in Port, NEW kind \in {"egress", "link", "ingress", "ready"},
         NEW q, q = EventsAt(<<kind, p>>)
  PROVE  /\ Distinct(q)
         /\ \A i \in 1 .. Len(q) : Where(q[i]) = <<kind, p>>
<1>1. \A m \in Packet : Source[m] \in Port
  BY LinkAssumption
<1>2. Peer[p] \in Port /\ Peer[Peer[p]] = p
  BY PeerFacts
<1>3. CASE kind = "egress"
  <2>1. q = egress[p]  BY <1>3 DEF EventsAt
  <2>2. Distinct(q) /\ \A i \in 1 .. Len(q) : q[i] \in At(p, "egress")
    BY <2>1 DEF IInv, Located, Elements
  <2>3. \A m \in At(p, "egress") : Where(m) = <<"egress", p>>  BY DEF Where, At
  <2>4. QED  BY <1>3, <2>2, <2>3
<1>4. CASE kind = "ingress"
  <2>1. q = ingress[p]  BY <1>4 DEF EventsAt
  <2>2. Distinct(q) /\ \A i \in 1 .. Len(q) : q[i] \in At(Peer[p], "ingress")
    BY <2>1 DEF IInv, Located, Elements
  <2>3. \A m \in At(Peer[p], "ingress") : Where(m) = <<"ingress", p>>
    BY <1>2 DEF Where, At
  <2>4. QED  BY <1>4, <2>2, <2>3
<1>5. CASE kind = "ready"
  <2>1. q = ready[p]  BY <1>5 DEF EventsAt
  <2>2. Distinct(q) /\ \A i \in 1 .. Len(q) : q[i] \in At(Peer[p], "ready")
    BY <2>1 DEF IInv, Located, Elements
  <2>3. \A m \in At(Peer[p], "ready") : Where(m) = <<"ready", p>>
    BY <1>2 DEF Where, At
  <2>4. QED  BY <1>5, <2>2, <2>3
<1>6. CASE kind = "link"
  <2>1. q = [i \in 1 .. Len(link[p]) |-> link[p][i].pkt]  BY <1>6 DEF EventsAt
  <2>2. /\ link[p] \in Seq(Item) /\ Distinct(link[p]) /\ Len(link[p]) \in Nat
        /\ Elements(link[p]) = Carried(At(Peer[p], "link"), At(p, "owed"))
    BY LenProperties DEF IInv, TypeOK, Located
  <2>3. Len(q) = Len(link[p]) /\ \A i \in 1 .. Len(q) : q[i] = link[p][i].pkt
    BY <2>1, <2>2
  <2>4. ASSUME NEW i \in 1 .. Len(q)
        PROVE  \/ q[i] \in At(Peer[p], "link") /\ link[p][i] = EventItem(q[i])
               \/ q[i] \in At(p, "owed") /\ link[p][i] = CreditItem(q[i])
    <3>1. link[p][i] \in Elements(link[p])  BY <2>3 DEF Elements
    <3>2. \/ \E m \in At(Peer[p], "link") : link[p][i] = EventItem(m)
          \/ \E m \in At(p, "owed") : link[p][i] = CreditItem(m)
      BY <2>2, <3>1 DEF Carried
    <3>3. q[i] = link[p][i].pkt  BY <2>3
    <3>4. \A m : EventItem(m).pkt = m /\ CreditItem(m).pkt = m
      BY DEF EventItem, CreditItem
    <3>5. QED  BY <3>2, <3>3, <3>4
  <2>5. /\ \A m \in At(Peer[p], "link") : Where(m) = <<"link", p>>
        /\ \A m \in At(p, "owed") : Where(m) = <<"link", p>>
    BY <1>2 DEF Where, At
  <2>6. ASSUME NEW i \in 1 .. Len(q), NEW j \in 1 .. Len(q), q[i] = q[j] PROVE i = j
    <3>1. \A m : ~ (m \in At(Peer[p], "link") /\ m \in At(p, "owed"))  BY DEF At
    <3>2. link[p][i] = link[p][j]  BY <2>4, <2>6, <3>1
    <3>3. QED  BY <2>2, <2>3, <3>2 DEF Distinct
  <2>7. QED  BY <1>6, <2>4, <2>5, <2>6 DEF Distinct
<1>7. QED  BY <1>3, <1>4, <1>5, <1>6

\* No event is in two places, nor twice in one.
THEOREM NoDuplicates == Spec => []AtMostOnce
<1>1. IInv => AtMostOnce
  <2> SUFFICES ASSUME IInv, NEW a \in Places, NEW b \in Places,
                      NEW i \in 1 .. Len(EventsAt(a)), NEW j \in 1 .. Len(EventsAt(b)),
                      EventsAt(a)[i] = EventsAt(b)[j]
               PROVE  a = b /\ i = j
    BY DEF AtMostOnce
  <2>1. ASSUME NEW c \in Places
        PROVE  /\ Distinct(EventsAt(c))
               /\ \A x \in 1 .. Len(EventsAt(c)) : Where(EventsAt(c)[x]) = c
    <3>1. PICK kind \in {"egress", "link", "ingress", "ready"}, p \in Port : c = <<kind, p>>
      BY DEF Places
    <3>2. QED  BY <3>1, AtItsPlace, ZenonT(40)
  <2>2. a = b  BY <2>1
  <2>3. QED  BY <2>1, <2>2 DEF Distinct
<1>2. QED  BY <1>1, Invariance, PTL

-----------------------------------------------------------------------------
(* Refinement: the ports implement the credit window *)

\* A queue without duplicates is as long as the set of its elements is large.
LEMMA DistinctLength ==
  ASSUME NEW S, NEW q \in Seq(S), Distinct(q)
  PROVE  Cardinality(Elements(q)) = Len(q)
<1> DEFINE D == 1 .. Len(q)
<1>1. Len(q) \in Nat  BY LenProperties
<1>2. IsFiniteSet(D) /\ Cardinality(D) = Len(q)
  BY <1>1, FS_Interval, SMTT(30)
<1>3. q \in Bijection(D, Elements(q))
  <2>1. q \in [D -> Elements(q)]
    BY LenProperties DEF Elements
  <2>2. QED
    BY <2>1 DEF Bijection, Injection, Surjection, IsInjective, Elements, Distinct
<1>4. ExistsBijection(D, Elements(q))  BY <1>3 DEF ExistsBijection
<1> HIDE DEF D
<1>5. QED  BY <1>2, <1>4, FS_Bijection

\* The abstract state of an event, by its history.
LEMMA Abstraction ==
  /\ WindowState = [m \in Packet |-> WindowState[m]]
  /\ \A m \in Packet :
       /\ stage[m] = "new" => WindowState[m] = "new"
       /\ stage[m] = "egress" => WindowState[m] = "waiting"
       /\ stage[m] \in {"link", "ingress", "ready"} => WindowState[m] = "sent"
       /\ stage[m] = "owed" => WindowState[m] = "delivered"
       /\ stage[m] = "done" => WindowState[m] = "settled"
<1>1. WindowState = [m \in Packet |-> WindowState[m]]
  <2> DEFINE F(m) == CASE stage[m] = "new" -> "new"
                       [] stage[m] = "egress" -> "waiting"
                       [] stage[m] \in {"link", "ingress", "ready"} -> "sent"
                       [] stage[m] = "owed" -> "delivered"
                       [] stage[m] = "done" -> "settled"
  <2>1. WindowState = [m \in Packet |-> F(m)]
    BY DEF WindowState
  <2> HIDE DEF F
  <2>2. QED  BY <2>1
<1>2. ASSUME NEW m \in Packet
      PROVE  WindowState[m] =
               CASE stage[m] = "new" -> "new"
                 [] stage[m] = "egress" -> "waiting"
                 [] stage[m] \in {"link", "ingress", "ready"} -> "sent"
                 [] stage[m] = "owed" -> "delivered"
                 [] stage[m] = "done" -> "settled"
  BY DEF WindowState
<1>3. ASSUME NEW m \in Packet
      PROVE  /\ stage[m] = "new" => WindowState[m] = "new"
             /\ stage[m] = "egress" => WindowState[m] = "waiting"
             /\ stage[m] \in {"link", "ingress", "ready"} => WindowState[m] = "sent"
             /\ stage[m] = "owed" => WindowState[m] = "delivered"
             /\ stage[m] = "done" => WindowState[m] = "settled"
  BY <1>2
<1>4. QED  BY <1>1, <1>3

\* The same of the next state.
LEMMA AbstractionNext ==
  /\ WindowState' = [m \in Packet |-> WindowState'[m]]
  /\ \A m \in Packet :
       /\ stage'[m] = "new" => WindowState'[m] = "new"
       /\ stage'[m] = "egress" => WindowState'[m] = "waiting"
       /\ stage'[m] \in {"link", "ingress", "ready"} => WindowState'[m] = "sent"
       /\ stage'[m] = "owed" => WindowState'[m] = "delivered"
       /\ stage'[m] = "done" => WindowState'[m] = "settled"
       /\ stage'[m] = stage[m] => WindowState'[m] = WindowState[m]
<1>1. WindowState' = [m \in Packet |-> WindowState'[m]]
  <2> DEFINE F(m) == CASE stage'[m] = "new" -> "new"
                       [] stage'[m] = "egress" -> "waiting"
                       [] stage'[m] \in {"link", "ingress", "ready"} -> "sent"
                       [] stage'[m] = "owed" -> "delivered"
                       [] stage'[m] = "done" -> "settled"
  <2>1. WindowState' = [m \in Packet |-> F(m)]
    BY DEF WindowState
  <2> HIDE DEF F
  <2>2. QED  BY <2>1
<1>2. ASSUME NEW m \in Packet
      PROVE  /\ WindowState[m] =
                  CASE stage[m] = "new" -> "new"
                    [] stage[m] = "egress" -> "waiting"
                    [] stage[m] \in {"link", "ingress", "ready"} -> "sent"
                    [] stage[m] = "owed" -> "delivered"
                    [] stage[m] = "done" -> "settled"
             /\ WindowState'[m] =
                  CASE stage'[m] = "new" -> "new"
                    [] stage'[m] = "egress" -> "waiting"
                    [] stage'[m] \in {"link", "ingress", "ready"} -> "sent"
                    [] stage'[m] = "owed" -> "delivered"
                    [] stage'[m] = "done" -> "settled"
  BY DEF WindowState
<1>3. ASSUME NEW m \in Packet
      PROVE  /\ stage'[m] = "new" => WindowState'[m] = "new"
             /\ stage'[m] = "egress" => WindowState'[m] = "waiting"
             /\ stage'[m] \in {"link", "ingress", "ready"} => WindowState'[m] = "sent"
             /\ stage'[m] = "owed" => WindowState'[m] = "delivered"
             /\ stage'[m] = "done" => WindowState'[m] = "settled"
  BY <1>2
<1>4. ASSUME NEW m \in Packet, stage'[m] = stage[m]
      PROVE  WindowState'[m] = WindowState[m]
  BY <1>2, <1>4
<1>5. QED  BY <1>1, <1>3, <1>4

\* The sets of the credit window in terms of the history.
LEMMA WindowSets ==
  ASSUME TypeOK, NEW p \in Port
  PROVE  /\ CW!Of(p, {"new"}) = At(p, "new")
         /\ CW!Of(p, {"waiting"}) = At(p, "egress")
         /\ CW!Of(p, {"sent"}) = At(p, "link") \cup At(p, "ingress") \cup At(p, "ready")
         /\ CW!Of(p, {"delivered"}) = At(p, "owed")
         /\ CW!Of(p, {"sent", "delivered"}) = Outstanding(p)
<1>1. CW!Packet = Packet  BY DEF CW!Packet, Packet
<1>2. \A m \in Packet : stage[m] \in Stages  BY DEF TypeOK
<1> USE <1>1, <1>2, Abstraction DEF CW!Of, At, Stages
<1>3. CW!Of(p, {"new"}) = At(p, "new")  OBVIOUS
<1>4. CW!Of(p, {"waiting"}) = At(p, "egress")  OBVIOUS
<1>5. CW!Of(p, {"sent"}) = At(p, "link") \cup At(p, "ingress") \cup At(p, "ready")
  OBVIOUS
<1>6. CW!Of(p, {"delivered"}) = At(p, "owed")  OBVIOUS
<1>7. CW!Of(p, {"sent", "delivered"}) = Outstanding(p)  BY DEF Outstanding
<1>8. QED  BY <1>3, <1>4, <1>5, <1>6, <1>7

\* What a port sends after a tick stays within its window.
LEMMA WithinWindow ==
  ASSUME IInv, NEW p \in Port, NEW k \in 0 .. Len(egress[p]), Affords(p, k)
  PROVE  \/ QueueSize[p] = 0
         \/ CW!BytesOf(CW!Of(p, {"sent", "delivered"}) \cup Out(p, k))
              <= CreditCapacity(p)
<1>1. CASE Unlimited(p)
  BY <1>1 DEF Unlimited
<1>2. CASE ~ Unlimited(p)
  <2>1. CW!Of(p, {"sent", "delivered"}) = Outstanding(p)  BY WindowSets DEF IInv
  <2>2. CW!BytesOf(Outstanding(p) \cup Out(p, k)) = BytesOf(Outstanding(p) \cup Out(p, k))
    BY DEF CW!BytesOf, CW!Total, BytesOf, Total
  <2>3. /\ credits[p] - BytesOf(Out(p, k)) >= 0
        /\ credits[p] - BytesOf(Out(p, k)) + BytesOf(Outstanding(p) \cup Out(p, k))
             = CreditCapacity(p)
    BY <1>2, DrainAccount
  <2>4. /\ credits[p] \in Int /\ BytesOf(Out(p, k)) \in Nat
        /\ BytesOf(Outstanding(p) \cup Out(p, k)) \in Nat /\ CreditCapacity(p) \in Nat
    BY BytesOfNat, PeerFacts DEF IInv, TypeOK
  <2>5. BytesOf(Outstanding(p) \cup Out(p, k)) <= CreditCapacity(p)
    BY <2>3, <2>4
  <2>6. QED  BY <2>1, <2>2, <2>5
<1>3. QED  BY <1>1, <1>2

\* A cycle of a port is a cycle of the window: what drain_egress took is
\* transmitted, and what the owner took is delivered.
LEMMA CycleStep ==
  ASSUME IInv, NEW p \in Port, NEW n \in 0 .. Len(ingress[p]),
         NEW k \in 0 .. Len(egress[p]),
         NEW batch \in Orders(First(ingress[p], n)),
         Refuse(p, n, batch, k) \/ Accept(p, n, batch, k)
  PROVE  CW!Cycle(p)
<1> DEFINE S == Out(p, k)
           B == Elements(batch)
<1>1. /\ S \subseteq At(p, "egress") /\ B \subseteq At(Peer[p], "ingress")
  BY TickFacts
<1>2. Peer[p] \in Port  BY PeerFacts
<1>3. /\ CW!Of(p, {"waiting"}) = At(p, "egress")
      /\ CW!Of(Peer[p], {"sent"}) =
           At(Peer[p], "link") \cup At(Peer[p], "ingress") \cup At(Peer[p], "ready")
  BY <1>2, WindowSets DEF IInv
<1>4. \/ QueueSize[p] = 0
      \/ CW!BytesOf(CW!Of(p, {"sent", "delivered"}) \cup S) <= CreditCapacity(p)
  BY WithinWindow DEF Refuse, Accept, Tick, Drains
<1>5. TickedStage(p, batch, k) =
        [x \in Packet |-> IF x \in S THEN "link"
                          ELSE IF x \in B THEN "ready" ELSE stage[x]]
  BY DEF TickedStage, Out
<1> HIDE DEF S, B
<1>6. \A x \in Packet : stage[x] \in Stages  BY DEF IInv, TypeOK
<1>7. ASSUME NEW in \in SUBSET CW!Of(Peer[p], {"sent"}), \A a, b \in in : a = b,
             \A m \in Packet :
               WindowState'[m] = IF m \in S THEN "sent"
                                 ELSE IF m \in in
                                      THEN IF Bytes[m] = 0 THEN "settled" ELSE "delivered"
                                      ELSE WindowState[m]
      PROVE  CW!Cycle(p)
  <2>1. WindowState' = [m \in CW!Packet |->
                          IF m \in S THEN "sent"
                          ELSE IF m \in in
                               THEN IF Bytes[m] = 0 THEN "settled" ELSE "delivered"
                               ELSE WindowState[m]]
    BY <1>7, AbstractionNext, CW!Packet = Packet DEF CW!Packet, Packet
  <2>2. S \in SUBSET CW!Of(p, {"waiting"})  BY <1>1, <1>3
  <2>3. [q \in Port |-> CreditCapacity(q)][p] = CreditCapacity(p)  OBVIOUS
  <2>4. QED  BY <1>4, <1>7, <2>1, <2>2, <2>3 DEF CW!Cycle
<1>8. CASE Refuse(p, n, batch, k)
  <2>1. stage' = TickedStage(p, batch, k)  BY <1>8 DEF Refuse
  <2>2. \A m \in Packet : WindowState'[m] = IF m \in S THEN "sent" ELSE WindowState[m]
    BY <1>1, <1>5, <1>6, <2>1 DEF WindowState, At, Stages
  <2>3. {} \in SUBSET CW!Of(Peer[p], {"sent"})  OBVIOUS
  <2>4. QED  BY <1>7, <2>2, <2>3
<1>9. CASE Accept(p, n, batch, k)
  <2> DEFINE m == Taken(p, batch)
  <2>1. m \in Packet /\ m \in At(Peer[p], "ready") \cup B
    BY <1>9, TakeFacts DEF Accept, B
  <2>2. stage' = [TickedStage(p, batch, k) EXCEPT
                    ![m] = IF Bytes[m] = 0 THEN "done" ELSE "owed"]
    BY <1>9 DEF Accept, Taken
  <2> HIDE DEF m
  <2>3. m \notin S
    BY <1>1, <2>1, PeerFacts DEF At
  <2>4. \A x \in Packet :
          stage'[x] = IF x = m THEN IF Bytes[m] = 0 THEN "done" ELSE "owed"
                      ELSE IF x \in S THEN "link"
                      ELSE IF x \in B THEN "ready" ELSE stage[x]
    BY <1>5, <2>1, <2>2
  <2>5. \A x \in Packet :
          WindowState'[x] = IF x \in S THEN "sent"
                            ELSE IF x \in {m}
                                 THEN IF Bytes[x] = 0 THEN "settled" ELSE "delivered"
                                 ELSE WindowState[x]
    BY <1>1, <1>6, <2>3, <2>4 DEF WindowState, At, Stages
  <2>6. {m} \in SUBSET CW!Of(Peer[p], {"sent"})
    BY <1>1, <1>3, <2>1
  <2>7. QED  BY <1>7, <2>5, <2>6
<1>10. QED  BY <1>8, <1>9

\* The queues, links and credits of the ports implement the credit window.
THEOREM LinkImplementsWindow == Spec => ImplementsWindow
<1>1. Init => CW!Init
  BY DEF Init, CW!Init, WindowState, CW!Packet, Packet
<1>2. IInv /\ [Next]_vars => [CW!Next]_WindowState
  <2> SUFFICES ASSUME IInv, [Next]_vars PROVE [CW!Next]_WindowState
    OBVIOUS
  <2>1. CASE UNCHANGED vars
    BY <2>1 DEF vars, WindowState
  <2>2. ASSUME NEW p \in Port, NEW m \in Packet, Send(p, m) PROVE CW!Offer(p)
    <3>1. m \in CW!Of(p, {"new"})
      BY <2>2, WindowSets DEF IInv, At, Send
    <3>2. QueueSize[p] = 0 \/ Cardinality(CW!Of(p, {"waiting"})) < QueueSize[p]
      <4>1. Cardinality(Elements(egress[p])) = Len(egress[p])
        BY DistinctLength DEF IInv, TypeOK, Located
      <4>2. Elements(egress[p]) = CW!Of(p, {"waiting"})
        BY WindowSets DEF IInv, Located
      <4>3. QED  BY <2>2, <4>1, <4>2 DEF Send, CanSend, Unlimited
    <3>3. WindowState' = [WindowState EXCEPT ![m] = "waiting"]
      <4>1. stage' = [stage EXCEPT ![m] = "egress"]  BY <2>2 DEF Send
      <4>2. \A x \in Packet : WindowState'[x] = IF x = m THEN "waiting" ELSE WindowState[x]
        BY <4>1, AbstractionNext DEF IInv, TypeOK
      <4>3. QED  BY <4>2, Abstraction, AbstractionNext
    <3>4. QED  BY <3>1, <3>2, <3>3 DEF CW!Offer, CW!Cardinality, Cardinality,
                                     CW!IsFiniteSet, IsFiniteSet
  <2>3. ASSUME NEW p \in Port, Clock(p) PROVE CW!Cycle(p)
    <3>1. PICK n \in 0 .. Len(ingress[p]) : ClockCycle(p, n)
      BY <2>3 DEF Clock
    <3>2. PICK k \in 0 .. Len(egress[p]), batch \in Orders(First(ingress[p], n)) :
            Refuse(p, n, batch, k) \/ Accept(p, n, batch, k)
      BY <3>1 DEF ClockCycle
    <3>3. QED  BY <3>2, CycleStep
  <2>4. ASSUME NEW p \in Port, ArriveEvent(p) PROVE UNCHANGED WindowState
    <3>1. Head(link[p]).pkt \in Packet /\ stage[Head(link[p]).pkt] = "link"
      BY <2>4, HeadOfLink DEF ArriveEvent, At
    <3>2. stage' = [stage EXCEPT ![Head(link[p]).pkt] = "ingress"]
      BY <2>4 DEF ArriveEvent
    <3>3. \A x \in Packet : WindowState'[x] = WindowState[x]
      BY <3>1, <3>2, Abstraction, AbstractionNext DEF IInv, TypeOK
    <3>4. QED  BY <3>3, Abstraction, AbstractionNext
  <2>5. ASSUME NEW p \in Port, ArriveCredit(p) PROVE CW!Acknowledge(p)
    <3> DEFINE m == Head(link[p]).pkt
    <3>1. m \in At(p, "owed") /\ m \in Packet
      BY <2>5, HeadOfLink DEF ArriveCredit
    <3>2. stage' = [stage EXCEPT ![m] = "done"]
      BY <2>5 DEF ArriveCredit
    <3> HIDE DEF m
    <3>3. m \in CW!Of(p, {"delivered"})
      BY <3>1, WindowSets DEF IInv
    <3>4. WindowState' = [WindowState EXCEPT ![m] = "settled"]
      <4>1. \A x \in Packet : WindowState'[x] = IF x = m THEN "settled" ELSE WindowState[x]
        BY <3>1, <3>2, AbstractionNext DEF IInv, TypeOK
      <4>2. QED  BY <3>1, <4>1, Abstraction, AbstractionNext
    <3>5. QED  BY <3>3, <3>4 DEF CW!Acknowledge
  <2>6. QED  BY <2>1, <2>2, <2>3, <2>4, <2>5 DEF Next, CW!Next
<1>3. QED  BY <1>1, <1>2, Invariance, PTL DEF Spec, ImplementsWindow, CW!Spec
-----------------------------------------------------------------------------
(* The queue inside a port: lat_bw_queue with time.  NumPackets and Bytes  *)
(* are here those of the queue, any number and any bytes but 0, to which   *)
(* add_packet gives 1; its other parameters and its state are its own.     *)

CONSTANTS BwCycles, Unit, Significand, Latency, MaxPending
VARIABLES blocked, active, added, out, due

Queue == INSTANCE LatBwQueue

Blocked == [pkt : Packet, left : Nat \ {0}]
Active == [pkt : Packet, left : 1 .. Latency]

\* What the queue's timing rests on: what is in the queue and what has left it was added, and
\* the priority queue is finite.
QueueTyped ==
  /\ blocked \in Seq(Blocked) /\ active \subseteq Active /\ IsFiniteSet(active)
  /\ out \in Seq(Packet) /\ added \in 0 .. NumPackets /\ due \in [Packet -> Int]
  /\ \A i \in 1 .. Len(blocked) :
       blocked[i].pkt <= added /\ blocked[i].left <= Queue!Cost(blocked[i].pkt)
  /\ \A e \in active : e.pkt <= added
  /\ \A i \in 1 .. Len(out) : out[i] <= added

\* When nothing is rounded, a packet is exactly in time.
InTime ==
  /\ \A i \in 1 .. Len(blocked) :
       due[blocked[i].pkt] = Queue!Cycles(Queue!LeftUpTo(blocked, i)) + Latency
  /\ \A e \in active : due[e.pkt] = e.left
  /\ \A i \in 1 .. Len(out) : due[out[i]] = 0

QueueInv == QueueTyped /\ InTime /\ Queue!PendingBounded

\* What the parameters are assumed to be, and a bandwidth that doubles divide.
Assumed == Queue!QueueAssumption /\ Queue!Exact

\* The bytes left in the first packets of a queue, one packet after the other.
LEMMA LeftSteps ==
  ASSUME NEW q \in Seq(Blocked)
  PROVE  /\ Queue!LeftUpTo(q, 0) = 0
         /\ \A i \in 0 .. Len(q) : Queue!LeftUpTo(q, i) \in Nat
         /\ \A i \in 1 .. Len(q) : Queue!LeftUpTo(q, i) = Queue!LeftUpTo(q, i - 1) + q[i].left
<1> DEFINE n == Len(q)
           w == [i \in 1 .. n |-> q[i].left]
<1>1. n \in Nat /\ w \in [1 .. n -> Nat]
  <2>1. \A i \in 1 .. n : q[i] \in Blocked  BY ElementOfSeq
  <2>2. \A i \in 1 .. n : q[i].left \in Nat  BY <2>1 DEF Blocked
  <2>3. n \in Nat  BY LenProperties
  <2>4. QED  BY <2>2, <2>3
<1>2. \A i \in 0 .. n : Queue!LeftUpTo(q, i) = Total(w, 1 .. n, i)
  BY DEF Queue!LeftUpTo, Queue!Total, Total
<1>3. \A i \in 1 .. n : w[i] = q[i].left  OBVIOUS
<1>4. \A i \in 1 .. n : i \in 0 .. n /\ i - 1 \in 0 .. n  BY <1>1
<1>5. 0 \in 0 .. n  BY <1>1
<1> HIDE DEF w, n
<1>6. /\ Total(w, 1 .. n, 0) = 0
      /\ \A i \in 0 .. n : Total(w, 1 .. n, i) \in Nat
      /\ \A i \in 1 .. n : Total(w, 1 .. n, i) = Total(w, 1 .. n, i - 1) + w[i]
  BY <1>1, TotalSteps
<1>7. QED  BY <1>2, <1>3, <1>4, <1>5, <1>6 DEF n

\* From place a + 1 to n a packet of r has as much left as the one k places later in q.
Alike(q, r, k, a, n) == \A i \in a + 1 .. n : r[i].left = q[i + k].left

\* Two queues whose packets have the same bytes left, but for what is gone of the
\* first in the one: the sums differ by the same from there on.
LEMMA LeftDiffer ==
  ASSUME NEW q \in Seq(Blocked), NEW r \in Seq(Blocked), NEW k \in Nat, NEW d \in Int,
         NEW a \in Nat, NEW n \in Nat, a <= n, n <= Len(r), n + k <= Len(q),
         Queue!LeftUpTo(r, a) + d = Queue!LeftUpTo(q, a + k),
         Alike(q, r, k, a, n)
  PROVE  \A i \in a .. n : Queue!LeftUpTo(r, i) + d = Queue!LeftUpTo(q, i + k)
<1> DEFINE T == {i \in Nat : a <= i /\ i <= n =>
                              Queue!LeftUpTo(r, i) + d = Queue!LeftUpTo(q, i + k)}
<1>1. 0 \in T
  <2>1. CASE a = 0  BY <2>1
  <2>2. CASE a # 0  BY <2>2
  <2>3. QED  BY <2>1, <2>2
<1>2. ASSUME NEW i \in Nat, i \in T PROVE i + 1 \in T
  <2>1. SUFFICES ASSUME a <= i + 1, i + 1 <= n
                 PROVE  Queue!LeftUpTo(r, i + 1) + d = Queue!LeftUpTo(q, (i + 1) + k)
    OBVIOUS
  <2>2. CASE a = i + 1  BY <2>2
  <2>3. CASE a <= i
    <3>1. Queue!LeftUpTo(r, i) + d = Queue!LeftUpTo(q, i + k)
      BY <1>2, <2>1, <2>3
    <3>2. Len(r) \in Nat /\ Len(q) \in Nat  BY LenProperties
    <3>3. /\ i + 1 \in 1 .. Len(r) /\ (i + 1) + k \in 1 .. Len(q) /\ i + 1 \in a + 1 .. n
          /\ (i + 1) - 1 = i /\ ((i + 1) + k) - 1 = i + k
          /\ i \in 0 .. Len(r) /\ i + k \in 0 .. Len(q)
      BY <2>1, <2>3, <3>2
    <3>4. Queue!LeftUpTo(r, i + 1) = Queue!LeftUpTo(r, i) + r[i + 1].left
      <4>1. Queue!LeftUpTo(r, i + 1) = Queue!LeftUpTo(r, (i + 1) - 1) + r[i + 1].left
        BY <3>3, LeftSteps
      <4>2. QED  BY <3>3, <4>1
    <3>5. Queue!LeftUpTo(q, (i + 1) + k) = Queue!LeftUpTo(q, i + k) + q[(i + 1) + k].left
      <4>1. Queue!LeftUpTo(q, (i + 1) + k)
              = Queue!LeftUpTo(q, ((i + 1) + k) - 1) + q[(i + 1) + k].left
        BY <3>3, LeftSteps
      <4>2. QED  BY <3>3, <4>1
    <3>6. r[i + 1].left = q[(i + 1) + k].left  BY <3>3 DEF Alike
    <3>7. Queue!LeftUpTo(r, i) \in Nat /\ Queue!LeftUpTo(q, i + k) \in Nat
      BY <3>3, LeftSteps
    <3>8. q[(i + 1) + k].left \in Nat
      <4>1. q[(i + 1) + k] \in Blocked  BY <3>3, ElementOfSeq
      <4>2. QED  BY <4>1 DEF Blocked
    <3>9. PICK x \in Nat, y \in Nat, z \in Nat :
            /\ x = Queue!LeftUpTo(r, i) /\ y = Queue!LeftUpTo(q, i + k)
            /\ z = q[(i + 1) + k].left
      BY <3>7, <3>8
    <3>10. /\ Queue!LeftUpTo(r, i + 1) = x + z
           /\ Queue!LeftUpTo(q, (i + 1) + k) = y + z
           /\ x + d = y
      BY <3>1, <3>4, <3>5, <3>6, <3>9
    <3>11. (x + z) + d = y + z  BY <3>10
    <3>12. QED  BY <3>10, <3>11
  <2>4. QED  BY <2>1, <2>2, <2>3
<1>3. Nat \subseteq T
  <2> HIDE DEF T
  <2>1. QED  BY <1>1, <1>2, NatSetInduction
<1>4. QED  BY <1>3

\* Two queues that begin alike.
LEMMA LeftSame ==
  ASSUME NEW q \in Seq(Blocked), NEW r \in Seq(Blocked),
         NEW n \in Nat, n <= Len(r), n <= Len(q), \A i \in 1 .. n : r[i].left = q[i].left
  PROVE  \A i \in 0 .. n : Queue!LeftUpTo(r, i) = Queue!LeftUpTo(q, i)
<1>1. PICK zero \in Nat : zero = 0
  OBVIOUS
<1>2. /\ Len(q) \in Nat /\ Len(r) \in Nat /\ zero \in Int
      /\ zero <= n /\ n + zero <= Len(q) /\ zero + zero = zero
      /\ Alike(q, r, zero, zero, n)
  BY <1>1, LenProperties DEF Alike
<1>3. /\ Queue!LeftUpTo(r, zero) = 0 /\ Queue!LeftUpTo(q, zero) = 0
      /\ \A i \in 0 .. n : Queue!LeftUpTo(r, i) \in Nat /\ Queue!LeftUpTo(q, i) \in Nat
  <2>1. \A i \in 0 .. n : i \in 0 .. Len(r) /\ i \in 0 .. Len(q)  BY LenProperties
  <2>2. QED  BY <1>1, <2>1, LeftSteps
<1>4. Queue!LeftUpTo(r, zero) + zero = Queue!LeftUpTo(q, zero + zero)  BY <1>1, <1>2, <1>3
<1>5. \A i \in zero .. n : Queue!LeftUpTo(r, i) + zero = Queue!LeftUpTo(q, i + zero)
  BY <1>2, <1>4, LeftDiffer
<1>6. QED  BY <1>1, <1>3, <1>5

\* More packets have no fewer bytes.
LEMMA LeftGrows ==
  ASSUME NEW q \in Seq(Blocked), NEW i \in 0 .. Len(q), NEW j \in i .. Len(q)
  PROVE  Queue!LeftUpTo(q, i) <= Queue!LeftUpTo(q, j)
<1> DEFINE T == {m \in Nat : i <= m /\ m <= Len(q) =>
                              Queue!LeftUpTo(q, i) <= Queue!LeftUpTo(q, m)}
<1>1. Len(q) \in Nat /\ Queue!LeftUpTo(q, i) \in Nat  BY LeftSteps, LenProperties
<1>2. 0 \in T
  <2>1. CASE i = 0  BY <1>1, <2>1
  <2>2. CASE i # 0  BY <2>2
  <2>3. QED  BY <2>1, <2>2
<1>3. ASSUME NEW m \in Nat, m \in T PROVE m + 1 \in T
  <2>1. SUFFICES ASSUME i <= m + 1, m + 1 <= Len(q)
                 PROVE  Queue!LeftUpTo(q, i) <= Queue!LeftUpTo(q, m + 1)
    OBVIOUS
  <2>2. CASE i = m + 1  BY <1>1, <2>2
  <2>3. CASE i <= m
    <3>1. Queue!LeftUpTo(q, i) <= Queue!LeftUpTo(q, m)  BY <1>3, <2>1, <2>3
    <3>2. m + 1 \in 1 .. Len(q) /\ (m + 1) - 1 = m /\ m \in 0 .. Len(q)  BY <1>1, <2>1
    <3>3. Queue!LeftUpTo(q, m + 1) = Queue!LeftUpTo(q, (m + 1) - 1) + q[m + 1].left
      BY <3>2, LeftSteps
    <3>4. Queue!LeftUpTo(q, m) \in Nat  BY <3>2, LeftSteps
    <3>5. q[m + 1].left \in Nat
      <4>1. q[m + 1] \in Blocked  BY <3>2, ElementOfSeq
      <4>2. QED  BY <4>1 DEF Blocked
    <3>6. QED  BY <1>1, <3>1, <3>2, <3>3, <3>4, <3>5
  <2>4. QED  BY <2>1, <2>2, <2>3
<1>4. Nat \subseteq T
  <2> HIDE DEF T
  <2>1. QED  BY <1>2, <1>3, NatSetInduction
<1>5. QED  BY <1>1, <1>4

\* A quotient is known from the multiples of the divisor around a number.
LEMMA QuotientIs ==
  ASSUME NEW d \in Nat \ {0}, NEW z \in Int, NEW q \in Int, q * d <= z, z < (q + 1) * d
  PROVE  z \div d = q
OBVIOUS

\* Rounding up: the least number of times d that reaches z.
LEMMA RoundedUp ==
  ASSUME NEW d \in Nat \ {0}, NEW z \in Nat
  PROVE  /\ (z + d - 1) \div d \in Nat
         /\ z \in 1 .. d => (z + d - 1) \div d = 1
         /\ z > d => (z + d - 1) \div d = ((z - d) + d - 1) \div d + 1
<1>1. (z + d - 1) \div d \in Nat
  OBVIOUS
<1>2. ASSUME z \in 1 .. d PROVE (z + d - 1) \div d = 1
  <2>1. z + d - 1 \in Int /\ 1 * d <= z + d - 1 /\ z + d - 1 < (1 + 1) * d  BY <1>2
  <2>2. QED  BY <2>1, QuotientIs
<1>3. ASSUME z > d PROVE (z + d - 1) \div d = ((z - d) + d - 1) \div d + 1
  <2>1. PICK y \in Nat, q \in Int : y = (z - d) + d - 1 /\ q = y \div d
    BY <1>3
  <2>2. q * d <= y /\ y < (q + 1) * d  BY <2>1
  <2>3. z + d - 1 = y + d  BY <1>3, <2>1
  <2>4. (q + 1) * d <= y + d /\ y + d < ((q + 1) + 1) * d
    <3>1. \A n \in Int : (n + 1) * d = n * d + d  OBVIOUS
    <3>2. (q + 1) * d = q * d + d /\ ((q + 1) + 1) * d = (q + 1) * d + d  BY <2>1, <3>1
    <3>3. PICK m \in Int : m = (q + 1) * d  BY <2>1
    <3>4. m <= y + d  BY <2>1, <2>2, <3>2, <3>3
    <3>5. y + d < m + d  BY <2>1, <2>2, <3>3
    <3>6. QED  BY <3>2, <3>3, <3>4, <3>5
  <2>5. (y + d) \div d = q + 1
    <3>1. y + d \in Int /\ q + 1 \in Int  BY <2>1
    <3>2. QED  BY <2>4, <3>1, QuotientIs
  <2>6. QED  BY <2>1, <2>3, <2>5
<1>4. QED  BY <1>1, <1>2, <1>3

\* The bandwidth is a whole number of units, and divides 64 bytes.
LEMMA PeakFacts ==
  ASSUME Assumed
  PROVE  /\ Queue!Peak \in Nat \ {0} /\ BwCycles \in Nat \ {0} /\ Unit \in Nat \ {0}
         /\ Queue!Peak * BwCycles = 64 * Unit
         /\ \A x \in Nat, m \in Packet : x <= Queue!Cost(m) => Queue!Rounded(x) = x
<1>1. /\ BwCycles \in Nat \ {0} /\ Unit \in Nat \ {0} /\ Queue!Peak * BwCycles = 64 * Unit
      /\ \A m \in Packet : Queue!Cost(m) <= Significand /\ Bytes[m] \in Nat \ {0}
      /\ \E i \in 1 .. 53 : Significand = 2 ^ i
  BY DEF Assumed, Queue!QueueAssumption, Queue!Exact, Queue!Packet, Packet
<1>2. Queue!Peak \in Nat
  <2>1. \A a \in Nat, b \in Nat \ {0} : Queue!Nearest(a, b) \in Nat  BY DEF Queue!Nearest
  <2>2. 64 * Unit \in Nat  BY <1>1
  <2>3. QED  BY <1>1, <2>1, <2>2 DEF Queue!Peak
<1>3. Queue!Peak # 0  BY <1>1, <1>2
<1>4. ASSUME NEW x \in Nat, NEW m \in Packet, x <= Queue!Cost(m) PROVE Queue!Rounded(x) = x
  <2>1. Queue!Cost(m) \in Nat  BY <1>1 DEF Queue!Cost
  <2>2. Significand \in Int  BY <1>1
  <2>3. x <= Significand  BY <1>1, <1>4, <2>1, <2>2
  <2>4. QED  BY <2>3 DEF Queue!Rounded
<1>5. QED  BY <1>1, <1>2, <1>3, <1>4

\* The bytes of a packet.
LEMMA CostPositive ==
  ASSUME Assumed, NEW m \in Packet
  PROVE  Queue!Cost(m) \in Nat \ {0}
<1>1. Bytes[m] \in Nat \ {0} /\ Unit \in Nat \ {0}
  BY DEF Assumed, Queue!QueueAssumption, Queue!Packet, Packet
<1>2. \A a, b \in Nat \ {0} : a * b \in Nat \ {0}  OBVIOUS
<1>3. QED  BY <1>1, <1>2 DEF Queue!Cost

\* The cycles that bytes take.
LEMMA CyclesOf ==
  ASSUME Assumed, NEW b \in Nat
  PROVE  /\ Queue!Cycles(b) \in Nat
         /\ b \in 1 .. Queue!Peak => Queue!Cycles(b) = 1
         /\ b > Queue!Peak => Queue!Cycles(b) = Queue!Cycles(b - Queue!Peak) + 1
<1>1. PICK p \in Nat \ {0}, n \in Nat \ {0}, d \in Nat \ {0} :
        p = Queue!Peak /\ n = BwCycles /\ d = 64 * Unit /\ p * n = d
  BY PeakFacts
<1>2. \A x : Queue!Cycles(x) = (x * n + d - 1) \div d  BY <1>1 DEF Queue!Cycles
<1>3. b * n \in Nat  BY <1>1
<1>4. Queue!Cycles(b) \in Nat  BY <1>2, <1>3, RoundedUp
<1>5. ASSUME b \in 1 .. p PROVE Queue!Cycles(b) = 1
  <2>1. b * n \in 1 .. d
    <3>1. b * n <= p * n /\ 1 * n <= b * n  BY <1>1, <1>5
    <3>2. QED  BY <1>1, <1>3, <3>1
  <2>2. QED  BY <1>2, <1>3, <2>1, RoundedUp
<1>6. ASSUME b > p PROVE Queue!Cycles(b) = Queue!Cycles(b - p) + 1
  <2>1. b * n > d /\ (b - p) * n = b * n - d
    <3>1. b * n > p * n  BY <1>1, <1>6
    <3>2. (b - p) * n = b * n - p * n  BY <1>1
    <3>3. QED  BY <1>1, <3>1, <3>2
  <2>2. (b * n + d - 1) \div d = ((b * n - d) + d - 1) \div d + 1  BY <1>3, <2>1, RoundedUp
  <2>3. QED  BY <1>2, <2>1, <2>2
<1>7. QED  BY <1>1, <1>4, <1>5, <1>6

\* k packets use up the bytes of a cycle, but for a part of the next one.
CutAt(k) ==
  /\ Queue!LeftUpTo(blocked, k) <= Queue!Peak
  /\ k < Len(blocked) => Queue!LeftUpTo(blocked, k + 1) > Queue!Peak

\* As many packets are sent as the cycle has bytes for.
LEMMA SentFits ==
  ASSUME Assumed, blocked \in Seq(Blocked)
  PROVE  Queue!Sent(Queue!Peak) \in 0 .. Len(blocked) /\ CutAt(Queue!Sent(Queue!Peak))
<1> DEFINE n == Len(blocked)
           U(i) == Queue!LeftUpTo(blocked, i)
           T == {m \in Nat : m <= n =>
                   \E k \in 0 .. m : U(k) <= Queue!Peak /\ (k < m => U(k + 1) > Queue!Peak)}
<1>1. n \in Nat /\ U(0) = 0 /\ Queue!Peak \in Nat /\ \A i \in 0 .. n : U(i) \in Nat
  BY LeftSteps, LenProperties, PeakFacts
<1> HIDE DEF U
<1>2. 0 \in T  BY <1>1
<1>3. ASSUME NEW m \in Nat, m \in T PROVE m + 1 \in T
  <2>1. SUFFICES ASSUME m + 1 <= n
                 PROVE  \E k \in 0 .. m + 1 : U(k) <= Queue!Peak /\ (k < m + 1 => U(k + 1) > Queue!Peak)
    OBVIOUS
  <2>2. PICK k \in 0 .. m : U(k) <= Queue!Peak /\ (k < m => U(k + 1) > Queue!Peak)
    BY <1>1, <1>3, <2>1
  <2>3. CASE k < m  BY <2>2, <2>3
  <2>4. CASE k = m /\ U(m + 1) > Queue!Peak  BY <2>2, <2>4
  <2>5. CASE k = m /\ U(m + 1) <= Queue!Peak  BY <2>2, <2>5
  <2>6. U(m + 1) \in Nat  BY <1>1, <2>1
  <2>7. QED  BY <1>1, <2>2, <2>3, <2>4, <2>5, <2>6
<1>4. Nat \subseteq T
  <2> HIDE DEF T
  <2>1. QED  BY <1>2, <1>3, NatSetInduction
<1>5. \E k \in 0 .. n : U(k) <= Queue!Peak /\ (k < n => U(k + 1) > Queue!Peak)  BY <1>1, <1>4
<1>6. Queue!Sent(Queue!Peak) = CHOOSE k \in 0 .. n : U(k) <= Queue!Peak /\ (k < n => U(k + 1) > Queue!Peak)
  BY DEF Queue!Sent, U
<1>7. QED  BY <1>5, <1>6 DEF U, CutAt

\* The queue counts as this module does.
LEMMA SameCardinality == \A S : Queue!Cardinality(S) = Cardinality(S)
BY DEF Queue!Cardinality, Cardinality

\* An image is no larger than its set.
LEMMA ImageSmaller ==
  ASSUME NEW S, IsFiniteSet(S), NEW g
  PROVE  LET T == {g[x] : x \in S} IN IsFiniteSet(T) /\ Cardinality(T) <= Cardinality(S)
<1> DEFINE T == {g[x] : x \in S}
           f == [x \in S |-> g[x]]
<1>1. f \in Surjection(S, T)  BY DEF Surjection
<1>2. IsFiniteSet(T) /\ Cardinality(T) <= Cardinality(S)  BY <1>1, FS_Surjection
<1>3. QED  BY <1>2

\* The empty queue.
LEMMA QueueInit ==
  ASSUME Assumed, Queue!Init
  PROVE  QueueInv
<1>1. QueueTyped  BY FS_EmptySet DEF Queue!Init, Assumed, Queue!QueueAssumption, QueueTyped, Packet, Queue!Packet
<1>2. InTime  BY DEF Queue!Init, InTime
<1>3. Queue!PendingBounded
  BY FS_EmptySet, SameCardinality DEF Queue!Init, Queue!PendingBounded, Assumed, Queue!QueueAssumption
<1>4. QED  BY <1>1, <1>2, <1>3 DEF QueueInv

\* add_packet: the new packet is behind all that is blocked.
LEMMA QueueAdd ==
  ASSUME Assumed, QueueInv, Queue!AddPacket
  PROVE  QueueInv'
<1> DEFINE m == added + 1
           n == Len(blocked)
           e == [pkt |-> m, left |-> Queue!Cost(m)]
           new == Queue!Cycles(Queue!LeftUpTo(blocked, n) + Queue!Cost(m)) + Latency
<1>1. /\ added < NumPackets /\ ~ Queue!IsFull
      /\ blocked' = Append(blocked, e) /\ added' = m
      /\ due' = [due EXCEPT ![m] = new]
      /\ active' = active /\ out' = out
  BY DEF Queue!AddPacket
<1>2. QueueTyped  BY DEF QueueInv
<1>3. /\ blocked \in Seq(Blocked) /\ n \in Nat /\ added \in Nat /\ m \in Packet /\ m \in Nat
      /\ NumPackets \in Nat /\ Latency \in Nat \ {0}
  BY <1>1, <1>2, LenProperties DEF QueueTyped, Packet, Assumed, Queue!QueueAssumption
<1>4. Queue!Cost(m) \in Nat \ {0}  BY <1>3, CostPositive
<1>5. Queue!LeftUpTo(blocked, n) \in Nat  BY <1>3, LeftSteps
<1> HIDE DEF m, n
<1>6. e \in Blocked /\ e.pkt = m /\ e.left = Queue!Cost(m)  BY <1>3, <1>4 DEF Blocked
<1> HIDE DEF e
<1>7. /\ blocked' \in Seq(Blocked) /\ Len(blocked') = n + 1
      /\ blocked'[n + 1] = e /\ \A i \in 1 .. n : blocked'[i] = blocked[i]
  BY <1>1, <1>3, <1>6 DEF n
<1>8. new \in Nat
  <2>1. Queue!LeftUpTo(blocked, n) + Queue!Cost(m) \in Nat  BY <1>4, <1>5
  <2>2. Queue!Cycles(Queue!LeftUpTo(blocked, n) + Queue!Cost(m)) \in Nat  BY <2>1, CyclesOf
  <2>3. QED  BY <1>3, <2>2
<1>9. due' \in [Packet -> Int] /\ due'[m] = new /\ \A x \in Packet : x # m => due'[x] = due[x]
  <2> HIDE DEF new
  <2>1. QED  BY <1>1, <1>2, <1>3, <1>8 DEF QueueTyped
<1>10. \A x \in Packet : x <= added => due'[x] = due[x]
  BY <1>3, <1>9 DEF m, Packet
<1>11. QueueTyped'
  <2>1. \A i \in 1 .. Len(blocked') :
          blocked'[i].pkt <= m /\ blocked'[i].left <= Queue!Cost(blocked'[i].pkt)
    <3>1. SUFFICES ASSUME NEW i \in 1 .. Len(blocked')
                   PROVE  blocked'[i].pkt <= m /\ blocked'[i].left <= Queue!Cost(blocked'[i].pkt)
      OBVIOUS
    <3>2. CASE i = n + 1  BY <1>3, <1>4, <1>6, <1>7, <3>2
    <3>3. CASE i \in 1 .. n
      <4>1. blocked[i] \in Blocked  BY <1>3, <3>3, ElementOfSeq DEF n
      <4>2. blocked[i].pkt <= added /\ blocked[i].left <= Queue!Cost(blocked[i].pkt)
        BY <1>2, <3>3 DEF QueueTyped, n
      <4>3. blocked[i].pkt \in Nat  BY <1>3, <4>1 DEF Blocked, Packet
      <4>4. blocked[i].pkt <= m  BY <1>3, <4>2, <4>3 DEF m
      <4>5. QED  BY <1>7, <3>3, <4>2, <4>4
    <3>4. QED  BY <1>3, <1>7, <3>2, <3>3
  <2>2. added' \in 0 .. NumPackets  BY <1>1, <1>3 DEF m
  <2>3. \A a \in active : a.pkt <= m
    <3>1. \A a \in active : a.pkt \in Nat /\ a.pkt <= added
      BY <1>2 DEF QueueTyped, Active, Packet
    <3>2. QED  BY <1>3, <3>1 DEF m
  <2>4. \A i \in 1 .. Len(out) : out[i] <= m
    <3>1. \A i \in 1 .. Len(out) : out[i] \in Nat /\ out[i] <= added
      <4>1. out \in Seq(Packet) /\ \A i \in 1 .. Len(out) : out[i] <= added
        BY <1>2 DEF QueueTyped
      <4>2. \A i \in 1 .. Len(out) : out[i] \in Packet  BY <4>1, ElementOfSeq
      <4>3. QED  BY <4>1, <4>2 DEF Packet
    <3>2. QED  BY <1>3, <3>1 DEF m
  <2>5. active \subseteq Active /\ IsFiniteSet(active) /\ out \in Seq(Packet)
    BY <1>2 DEF QueueTyped
  <2>6. QED
    BY <1>1, <1>7, <1>9, <2>1, <2>2, <2>3, <2>4, <2>5 DEF QueueTyped, Queue!Cost
<1>12. InTime'
  <2>1. ASSUME NEW i \in 1 .. Len(blocked')
        PROVE  due'[blocked'[i].pkt] = Queue!Cycles(Queue!LeftUpTo(blocked', i)) + Latency
    <3>1. \A j \in 0 .. n : Queue!LeftUpTo(blocked', j) = Queue!LeftUpTo(blocked, j)
      <4>1. n <= Len(blocked') /\ n <= Len(blocked)  BY <1>3, <1>7 DEF n
      <4>2. \A j \in 1 .. n : blocked'[j].left = blocked[j].left  BY <1>7
      <4>3. QED  BY <1>3, <1>7, <4>1, <4>2, LeftSame
    <3>2. CASE i = n + 1
      <4>1. Queue!LeftUpTo(blocked', i) = Queue!LeftUpTo(blocked', i - 1) + e.left
        BY <1>3, <1>7, <3>2, LeftSteps
      <4>2. i - 1 = n /\ n \in 0 .. n  BY <1>3, <3>2
      <4>3. Queue!LeftUpTo(blocked', i) = Queue!LeftUpTo(blocked, n) + Queue!Cost(m)
        BY <1>6, <3>1, <4>1, <4>2
      <4>4. due'[blocked'[i].pkt] = new  BY <1>6, <1>7, <1>9, <3>2
      <4>5. QED  BY <4>3, <4>4
    <3>3. CASE i \in 1 .. n
      <4>1. blocked[i] \in Blocked  BY <1>3, <3>3, ElementOfSeq DEF n
      <4>2. blocked[i].pkt <= added  BY <1>2, <3>3 DEF QueueTyped, n
      <4>3. due'[blocked'[i].pkt] = due[blocked[i].pkt]
        BY <1>7, <1>10, <3>3, <4>1, <4>2 DEF Blocked
      <4>4. due[blocked[i].pkt] = Queue!Cycles(Queue!LeftUpTo(blocked, i)) + Latency
        BY <3>3 DEF QueueInv, InTime, n
      <4>5. Queue!LeftUpTo(blocked', i) = Queue!LeftUpTo(blocked, i)  BY <1>3, <3>1, <3>3
      <4>6. QED  BY <4>3, <4>4, <4>5
    <3>4. QED  BY <1>3, <1>7, <3>2, <3>3
  <2>2. \A a \in active : due'[a.pkt] = a.left
    <3>1. \A a \in active : a.pkt \in Packet /\ a.pkt <= added
      BY <1>2 DEF QueueTyped, Active
    <3>2. \A a \in active : due[a.pkt] = a.left  BY DEF QueueInv, InTime
    <3>3. QED  BY <1>10, <3>1, <3>2
  <2>3. \A i \in 1 .. Len(out) : due'[out[i]] = 0
    <3>1. \A i \in 1 .. Len(out) : out[i] \in Packet /\ out[i] <= added
      BY <1>2, ElementOfSeq DEF QueueTyped
    <3>2. \A i \in 1 .. Len(out) : due[out[i]] = 0  BY DEF QueueInv, InTime
    <3>3. QED  BY <1>10, <3>1, <3>2
  <2>4. QED
    BY <1>1, <2>1, <2>2, <2>3
       DEF InTime, Queue!LeftUpTo, Queue!Total, Queue!Cycles
<1>13. Queue!PendingBounded'
  <2>1. Cardinality(active) \in Nat  BY <1>2, FS_CardinalityType DEF QueueTyped
  <2>2. MaxPending > 0 => ~ (n + Cardinality(active) >= MaxPending)
    BY <1>1, SameCardinality DEF Queue!IsFull, n
  <2>3. MaxPending \in Nat  BY DEF Assumed, Queue!QueueAssumption
  <2>4. MaxPending > 0 => Len(blocked') + Cardinality(active') <= MaxPending
    BY <1>1, <1>3, <1>7, <2>1, <2>2, <2>3
  <2>5. Cardinality(active') = Queue!Cardinality(active')  BY SameCardinality
  <2>6. MaxPending > 0 => Len(blocked') + Queue!Cardinality(active') <= MaxPending
    BY <2>4, <2>5
  <2>7. QED  BY <2>6 DEF Queue!PendingBounded, Queue!Cardinality
<1>14. QED  BY <1>11, <1>12, <1>13 DEF QueueInv

\* r is the queue without what a cycle sends.
Remains(r, k) ==
  /\ r \in Seq(Blocked) /\ Len(r) = Len(blocked) - k
  /\ \A i \in 1 .. Len(r) :
       /\ i + k \in 1 .. Len(blocked)
       /\ r[i].pkt = blocked[i + k].pkt /\ r[i].left <= blocked[i + k].left
       /\ Queue!LeftUpTo(r, i) + Queue!Peak = Queue!LeftUpTo(blocked, i + k)

\* What is left of the queue after k packets were sent and the next in part.
LEMMA StillBlockedIs ==
  ASSUME Assumed, blocked \in Seq(Blocked),
         \A i \in 1 .. Len(blocked) : blocked[i].left <= Queue!Cost(blocked[i].pkt), NEW k \in 0 .. Len(blocked), CutAt(k),
         NEW r, r = Queue!StillBlocked(k, Queue!Peak)
  PROVE  Remains(r, k)
<1> DEFINE n == Len(blocked)
           u == Queue!LeftUpTo(blocked, k)
<1>1. n \in Nat /\ k \in Nat /\ k \in 0 .. n  BY LenProperties
<1>2. u \in Nat /\ Queue!Peak \in Nat  BY LeftSteps, PeakFacts
<1>3. \A i \in 1 .. n : blocked[i].pkt \in Packet /\ blocked[i].left \in Nat \ {0}
  <2>1. \A i \in 1 .. n : blocked[i] \in Blocked  BY ElementOfSeq
  <2>2. QED  BY <2>1 DEF Blocked
<1>4. r = [i \in 1 .. n - k |->
             IF i = 1 THEN [blocked[k + 1] EXCEPT !.left = Queue!Rounded(@ - (Queue!Peak - u))]
             ELSE blocked[k + i]]
  BY DEF Queue!StillBlocked
<1>5. \A i \in 1 .. n : blocked[i] \in Blocked  BY ElementOfSeq
<1> HIDE DEF n
<1>6. k < n => /\ k + 1 \in 1 .. n
               /\ Queue!LeftUpTo(blocked, k + 1) = u + blocked[k + 1].left
               /\ Queue!LeftUpTo(blocked, k + 1) > Queue!Peak
  <2>1. SUFFICES ASSUME k < n
                 PROVE  /\ k + 1 \in 1 .. n
                        /\ Queue!LeftUpTo(blocked, k + 1) = u + blocked[k + 1].left
                        /\ Queue!LeftUpTo(blocked, k + 1) > Queue!Peak
    OBVIOUS
  <2>2. k + 1 \in 1 .. n /\ (k + 1) - 1 = k  BY <1>1, <2>1
  <2>3. k + 1 \in 1 .. Len(blocked)  BY <2>2 DEF n
  <2>4. Queue!LeftUpTo(blocked, k + 1) = Queue!LeftUpTo(blocked, (k + 1) - 1) + blocked[k + 1].left
    BY <2>3, LeftSteps
  <2>5. Queue!LeftUpTo(blocked, k + 1) > Queue!Peak  BY <2>1 DEF n, CutAt
  <2>6. QED  BY <2>2, <2>4, <2>5
<1> HIDE DEF u
<1> DEFINE first == [pkt |-> blocked[k + 1].pkt, left |-> blocked[k + 1].left - (Queue!Peak - u)]
<1>7. k < n => /\ [blocked[k + 1] EXCEPT !.left = Queue!Rounded(@ - (Queue!Peak - u))] = first
               /\ blocked[k + 1].left - (Queue!Peak - u) \in Nat \ {0}
               /\ blocked[k + 1].left - (Queue!Peak - u) <= blocked[k + 1].left
  <2>1. SUFFICES ASSUME k < n
                 PROVE  /\ [blocked[k + 1] EXCEPT !.left = Queue!Rounded(@ - (Queue!Peak - u))] = first
                        /\ blocked[k + 1].left - (Queue!Peak - u) \in Nat \ {0}
                        /\ blocked[k + 1].left - (Queue!Peak - u) <= blocked[k + 1].left
    OBVIOUS
  <2>2. blocked[k + 1] \in Blocked  BY <1>5, <1>6, <2>1
  <2>3. blocked[k + 1].left \in Nat /\ u + blocked[k + 1].left > Queue!Peak /\ u <= Queue!Peak
    BY <1>3, <1>6, <2>1 DEF u, CutAt
  <2>4. /\ blocked[k + 1].left - (Queue!Peak - u) \in Nat \ {0}
        /\ blocked[k + 1].left - (Queue!Peak - u) <= blocked[k + 1].left
    BY <1>2, <2>3
  <2>5. Queue!Rounded(blocked[k + 1].left - (Queue!Peak - u)) = blocked[k + 1].left - (Queue!Peak - u)
    <3>1. blocked[k + 1].left <= Queue!Cost(blocked[k + 1].pkt) /\ blocked[k + 1].pkt \in Packet
      BY <1>3, <1>6, <2>1 DEF n
    <3>2. Queue!Cost(blocked[k + 1].pkt) \in Nat  BY <3>1, CostPositive
    <3>3. blocked[k + 1].left - (Queue!Peak - u) <= Queue!Cost(blocked[k + 1].pkt)
      <4>1. PICK x \in Nat, y \in Nat, z \in Nat :
              /\ x = blocked[k + 1].left /\ y = Queue!Cost(blocked[k + 1].pkt)
              /\ z = blocked[k + 1].left - (Queue!Peak - u)
        BY <2>3, <2>4, <3>2
      <4>2. z <= x /\ x <= y  BY <2>4, <3>1, <4>1
      <4>3. QED  BY <4>1, <4>2
    <3>4. QED  BY <2>4, <3>1, <3>3, PeakFacts
  <2>6. [blocked[k + 1] EXCEPT !.left = Queue!Rounded(@ - (Queue!Peak - u))] = first
    BY <2>2, <2>5 DEF Blocked
  <2>7. QED  BY <2>4, <2>6
<1>8. k < n => first \in Blocked /\ first.pkt = blocked[k + 1].pkt
               /\ first.left = blocked[k + 1].left - (Queue!Peak - u)
  BY <1>3, <1>6, <1>7 DEF Blocked
<1>9. \A i \in 1 .. n - k :
        /\ i + k \in 1 .. n /\ k + i = i + k /\ k < n
        /\ i = 1 => r[i] = first /\ i + k = k + 1
        /\ i # 1 => r[i] = blocked[i + k]
  <2>1. SUFFICES ASSUME NEW i \in 1 .. n - k
                 PROVE  /\ i + k \in 1 .. n /\ k + i = i + k /\ k < n
                        /\ i = 1 => r[i] = first /\ i + k = k + 1
                        /\ i # 1 => r[i] = blocked[i + k]
    OBVIOUS
  <2>2. i + k \in 1 .. n /\ k + i = i + k /\ k < n  BY <1>1
  <2>3. CASE i = 1
    <3>1. r[i] = [blocked[k + 1] EXCEPT !.left = Queue!Rounded(@ - (Queue!Peak - u))]  BY <1>4, <2>3
    <3>2. r[i] = first  BY <1>7, <2>2, <3>1
    <3>3. QED  BY <2>2, <2>3, <3>2
  <2>4. CASE i # 1
    <3>1. r[i] = blocked[k + i]  BY <1>4, <2>4
    <3>2. QED  BY <2>2, <2>4, <3>1
  <2>5. QED  BY <2>3, <2>4
<1> HIDE DEF first
<1>10. r \in Seq(Blocked) /\ Len(r) = n - k
  <2>1. \A i \in 1 .. n - k : r[i] \in Blocked  BY <1>5, <1>8, <1>9
  <2>2. n - k \in Nat  BY <1>1
  <2>3. r \in [1 .. n - k -> Blocked]  BY <1>4, <2>1
  <2>4. QED  BY <2>2, <2>3
<1>11. \A i \in 1 .. Len(r) :
         r[i].pkt = blocked[i + k].pkt /\ r[i].left <= blocked[i + k].left
  <2>1. SUFFICES ASSUME NEW i \in 1 .. n - k
                 PROVE  r[i].pkt = blocked[i + k].pkt /\ r[i].left <= blocked[i + k].left
    BY <1>10
  <2>2. CASE i = 1  BY <1>7, <1>8, <1>9, <2>2
  <2>3. CASE i # 1
    <3>1. r[i] = blocked[i + k] /\ blocked[i + k].left \in Nat  BY <1>3, <1>9, <2>3
    <3>2. QED  BY <3>1
  <2>4. QED  BY <2>2, <2>3
<1>12. ASSUME NEW i \in 1 .. Len(r)
       PROVE  Queue!LeftUpTo(r, i) + Queue!Peak = Queue!LeftUpTo(blocked, i + k)
  <2>1. k < n /\ n - k \in Nat /\ 1 \in 1 .. Len(r) /\ 1 \in 1 .. n - k  BY <1>1, <1>9, <1>10, <1>12
  <2>2. Queue!LeftUpTo(r, 1) = r[1].left
    <3>1. Queue!LeftUpTo(r, 1) = Queue!LeftUpTo(r, 1 - 1) + r[1].left  BY <1>10, <2>1, LeftSteps
    <3>2. Queue!LeftUpTo(r, 0) = 0  BY <1>10, LeftSteps
    <3>3. r[1].left \in Nat  BY <1>7, <1>8, <1>9, <2>1
    <3>4. QED  BY <3>1, <3>2, <3>3
  <2>3. r[1].left = blocked[k + 1].left - (Queue!Peak - u)  BY <1>8, <1>9, <2>1
  <2>4. Queue!LeftUpTo(r, 1) + Queue!Peak = Queue!LeftUpTo(blocked, k + 1)
    <3>1. PICK x \in Nat : x = blocked[k + 1].left  BY <1>3, <1>6, <2>1
    <3>2. Queue!LeftUpTo(r, 1) = x - (Queue!Peak - u)  BY <2>2, <2>3, <3>1
    <3>3. Queue!LeftUpTo(blocked, k + 1) = u + x  BY <1>6, <2>1, <3>1
    <3>4. QED  BY <1>2, <3>2, <3>3
  <2>5. PICK one \in Nat, d \in Int, m \in Nat : one = 1 /\ d = Queue!Peak /\ m = n - k
    <3>1. Queue!Peak \in Int  BY <1>2
    <3>2. QED  BY <2>1, <3>1
  <2>6. Alike(blocked, r, k, one, m)
    <3>1. \A j \in 2 .. n - k : r[j].left = blocked[j + k].left  BY <1>1, <1>9
    <3>2. QED  BY <2>5, <3>1 DEF Alike
  <2>7. one <= m /\ m <= Len(r) /\ m + k <= Len(blocked) /\ one + k = k + 1
    BY <1>1, <1>10, <2>1, <2>5 DEF n
  <2>8. Queue!LeftUpTo(r, one) + d = Queue!LeftUpTo(blocked, one + k)  BY <2>4, <2>5, <2>7
  <2>9. k \in Nat /\ r \in Seq(Blocked)  BY <1>1, <1>10
  <2>10. \A j \in one .. m : Queue!LeftUpTo(r, j) + d = Queue!LeftUpTo(blocked, j + k)
    BY <2>6, <2>7, <2>8, <2>9, LeftDiffer
  <2>11. i \in one .. m  BY <1>10, <2>5
  <2>12. QED  BY <2>5, <2>10, <2>11
<1>13. QED  BY <1>9, <1>10, <1>11, <1>12 DEF n, Remains

\* A packet has at least one byte left.
LEMMA LeftPositive ==
  ASSUME NEW q \in Seq(Blocked), NEW i \in 1 .. Len(q)
  PROVE  Queue!LeftUpTo(q, i) \in Nat \ {0}
<1>1. PICK x \in Nat \ {0} : x = q[i].left
  <2>1. q[i] \in Blocked  BY ElementOfSeq
  <2>2. QED  BY <2>1 DEF Blocked
<1>2. Queue!LeftUpTo(q, i) = Queue!LeftUpTo(q, i - 1) + x  BY <1>1, LeftSteps
<1>3. Queue!LeftUpTo(q, i - 1) \in Nat
  <2>1. i - 1 \in 0 .. Len(q)  BY LenProperties
  <2>2. QED  BY <2>1, LeftSteps
<1>4. QED  BY <1>1, <1>2, <1>3

\* The packets of the entries that a tick takes out.
Names(popped) == [i \in 1 .. Len(popped) |-> popped[i].pkt]

\* What a tick hands out is what is complete.
LEMMA PoppedComplete ==
  ASSUME NEW S, S \subseteq Active, IsFiniteSet(S), NEW popped \in Queue!PopOrders(S)
  PROVE  /\ Names(popped) \in Seq(Packet)
         /\ \A i \in 1 .. Len(Names(popped)) : \E e \in S : Names(popped)[i] = e.pkt
<1> DEFINE c == Cardinality(S)
           p == Names(popped)
<1>1. c \in Nat  BY FS_CardinalityType
<1>2. popped \in [1 .. c -> S]
  BY SameCardinality DEF Queue!PopOrders, Queue!SetToSeqs
<1> HIDE DEF c
<1>3. Len(popped) = c /\ \A i \in 1 .. c : popped[i] \in S  BY <1>1, <1>2
<1>4. p = [i \in 1 .. c |-> popped[i].pkt]  BY <1>3 DEF Names
<1> HIDE DEF p
<1>5. \A i \in 1 .. c : p[i] = popped[i].pkt /\ popped[i] \in S /\ popped[i].pkt \in Packet
  BY <1>3, <1>4 DEF Active
<1>6. p \in [1 .. c -> Packet]  BY <1>4, <1>5
<1>7. p \in Seq(Packet) /\ Len(p) = c  BY <1>1, <1>6
<1>8. QED  BY <1>5, <1>7 DEF p

\* on_tick: whatever is in the queue comes out one cycle earlier.
LEMMA QueueTick ==
  ASSUME Assumed, QueueInv, Queue!OnTick
  PROVE  QueueInv'
<1> DEFINE k == Queue!Sent(Queue!Peak)
           complete == {e \in active : e.left = 1}
           later == {[e EXCEPT !.left = @ - 1] : e \in active \ complete}
           sent == {[pkt |-> blocked[i].pkt, left |-> Latency] : i \in 1 .. k}
<1>1. PICK popped \in Queue!PopOrders(complete) :
        out' = out \o Names(popped)
  BY DEF Queue!OnTick, Names
<1>2. /\ active' = later \cup sent
      /\ blocked' = Queue!StillBlocked(k, Queue!Peak)
      /\ due' = [m \in Packet |-> IF m <= added /\ m \notin Elements(out) THEN due[m] - 1
                                  ELSE due[m]]
      /\ added' = added
  BY DEF Queue!OnTick, Queue!Packet, Packet, Queue!Elements, Elements
<1>3. QueueTyped /\ InTime /\ Queue!PendingBounded  BY DEF QueueInv
<1>4. /\ blocked \in Seq(Blocked) /\ Len(blocked) \in Nat /\ added \in 0 .. NumPackets
      /\ NumPackets \in Nat /\ Latency \in Nat \ {0} /\ out \in Seq(Packet)
      /\ active \subseteq Active /\ IsFiniteSet(active) /\ due \in [Packet -> Int]
  BY <1>3, LenProperties DEF QueueTyped, Assumed, Queue!QueueAssumption
<1>5. /\ k \in 0 .. Len(blocked) /\ k \in Nat
      /\ Queue!LeftUpTo(blocked, k) <= Queue!Peak
      /\ k < Len(blocked) => Queue!LeftUpTo(blocked, k + 1) > Queue!Peak
      /\ Queue!Peak \in Nat
  BY <1>4, SentFits, PeakFacts DEF CutAt
<1> HIDE DEF k
<1>6. /\ blocked' \in Seq(Blocked) /\ Len(blocked') = Len(blocked) - k
      /\ \A i \in 1 .. Len(blocked') :
           /\ i + k \in 1 .. Len(blocked)
           /\ blocked'[i].pkt = blocked[i + k].pkt /\ blocked'[i].left <= blocked[i + k].left
           /\ Queue!LeftUpTo(blocked', i) + Queue!Peak = Queue!LeftUpTo(blocked, i + k)
  <2>1. CutAt(k)  BY <1>5 DEF CutAt
  <2>2. \A i \in 1 .. Len(blocked) : blocked[i].left <= Queue!Cost(blocked[i].pkt)
    BY <1>3 DEF QueueTyped
  <2>3. Remains(Queue!StillBlocked(k, Queue!Peak), k)  BY <1>4, <1>5, <2>1, <2>2, StillBlockedIs
  <2>4. QED  BY <1>2, <2>3 DEF Remains
<1>7. /\ \A i \in 1 .. Len(blocked) : blocked[i].pkt \in Packet /\ blocked[i].left \in Nat
      /\ \A i \in 1 .. Len(blocked') : blocked'[i].pkt \in Packet /\ blocked'[i].left \in Nat
  <2>1. /\ \A i \in 1 .. Len(blocked) : blocked[i] \in Blocked
        /\ \A i \in 1 .. Len(blocked') : blocked'[i] \in Blocked
    BY <1>4, <1>6, ElementOfSeq
  <2>2. QED  BY <2>1 DEF Blocked
<1>8. \A e \in active :
        /\ e \in Active /\ e.pkt \in Packet /\ e.left \in 1 .. Latency /\ e.pkt <= added
        /\ due[e.pkt] = e.left
  BY <1>3, <1>4 DEF QueueTyped, Active, InTime
<1>9. complete \subseteq Active /\ IsFiniteSet(complete) /\ IsFiniteSet(active \ complete)
  BY <1>4, FS_Subset
<1>10. \A e \in active \ complete :
         [e EXCEPT !.left = @ - 1] = [pkt |-> e.pkt, left |-> e.left - 1] /\ e.left # 1
  BY <1>8 DEF Active
<1>11. \A a \in active' :
         \/ \E e \in active : a = [pkt |-> e.pkt, left |-> e.left - 1] /\ e.left # 1
         \/ \E i \in 1 .. k : a = [pkt |-> blocked[i].pkt, left |-> Latency]
  BY <1>2, <1>10
<1>12. PICK p \in Seq(Packet) :
         out' = out \o p /\ \A i \in 1 .. Len(p) : \E e \in complete : p[i] = e.pkt
  <2> HIDE DEF complete
  <2>1. QED  BY <1>1, <1>9, PoppedComplete
<1>13. /\ out' \in Seq(Packet) /\ Len(out') = Len(out) + Len(p)
       /\ \A i \in 1 .. Len(out') : out'[i] = IF i <= Len(out) THEN out[i] ELSE p[i - Len(out)]
  BY <1>4, <1>12
<1>14. \A i \in 1 .. Len(out') :
         \/ \E j \in 1 .. Len(out) : out'[i] = out[j]
         \/ \E e \in active : e.left = 1 /\ out'[i] = e.pkt
  <2>1. SUFFICES ASSUME NEW i \in 1 .. Len(out')
                 PROVE  \/ \E j \in 1 .. Len(out) : out'[i] = out[j]
                        \/ \E e \in active : e.left = 1 /\ out'[i] = e.pkt
    OBVIOUS
  <2>2. Len(out) \in Nat /\ Len(p) \in Nat  BY <1>4, <1>12, LenProperties
  <2>3. CASE i <= Len(out)
    <3>1. i \in 1 .. Len(out) /\ out'[i] = out[i]  BY <1>13, <2>2, <2>3
    <3>2. QED  BY <3>1
  <2>4. CASE i > Len(out)
    <3>1. i - Len(out) \in 1 .. Len(p) /\ out'[i] = p[i - Len(out)]
      BY <1>13, <2>2, <2>4
    <3>2. QED  BY <1>12, <3>1
  <2>5. QED  BY <2>2, <2>3, <2>4
<1> HIDE DEF complete, later, sent
<1>15. \A i \in 1 .. Len(blocked) :
         /\ blocked[i].pkt <= added /\ blocked[i].left <= Queue!Cost(blocked[i].pkt)
         /\ due[blocked[i].pkt] = Queue!Cycles(Queue!LeftUpTo(blocked, i)) + Latency
  BY <1>3 DEF QueueTyped, InTime
<1>16. \A i \in 1 .. Len(out) : out[i] \in Packet /\ out[i] <= added /\ due[out[i]] = 0
  <2>1. \A i \in 1 .. Len(out) : out[i] \in Packet  BY <1>4, ElementOfSeq
  <2>2. QED  BY <1>3, <2>1 DEF QueueTyped, InTime
<1>17. /\ \A m \in Packet : m <= added /\ due[m] # 0 => due'[m] = due[m] - 1
       /\ \A i \in 1 .. Len(out) : due'[out[i]] = due[out[i]]
  <2>1. \A i \in 1 .. Len(out) : out[i] \in Elements(out)
    BY DEF Elements
  <2>2. \A m \in Elements(out) : \E i \in 1 .. Len(out) : out[i] = m
    BY DEF Elements
  <2>3. QED  BY <1>2, <1>16, <2>1, <2>2
<1>18. /\ active' \subseteq Active /\ IsFiniteSet(active')
       /\ Cardinality(active') <= Cardinality(active) + k
  <2>1. active' \subseteq Active
    <3>1. ASSUME NEW a \in active' PROVE a \in Active
      <4>1. CASE \E e \in active : a = [pkt |-> e.pkt, left |-> e.left - 1] /\ e.left # 1
        <5>1. PICK e \in active : a = [pkt |-> e.pkt, left |-> e.left - 1] /\ e.left # 1
          BY <4>1
        <5>2. e.pkt \in Packet /\ e.left - 1 \in 1 .. Latency  BY <1>4, <1>8, <5>1
        <5>3. QED  BY <5>1, <5>2 DEF Active
      <4>2. CASE \E i \in 1 .. k : a = [pkt |-> blocked[i].pkt, left |-> Latency]
        <5>1. PICK i \in 1 .. k : a = [pkt |-> blocked[i].pkt, left |-> Latency]
          BY <4>2
        <5>2. i \in 1 .. Len(blocked) /\ Latency \in 1 .. Latency  BY <1>4, <1>5
        <5>3. blocked[i].pkt \in Packet  BY <1>7, <5>2
        <5>4. QED  BY <5>1, <5>2, <5>3 DEF Active
      <4>3. QED  BY <1>11, <3>1, <4>1, <4>2
    <3>2. QED  BY <3>1
  <2>2. IsFiniteSet(later) /\ Cardinality(later) <= Cardinality(active)
    <3> DEFINE rest == active \ complete
               g == [e \in rest |-> [e EXCEPT !.left = @ - 1]]
               T == {g[e] : e \in rest}
    <3>1. IsFiniteSet(rest) /\ Cardinality(rest) <= Cardinality(active)
      BY <1>4, FS_Subset
    <3>2. T = later  BY DEF later
    <3>3. Cardinality(rest) \in Nat /\ Cardinality(active) \in Nat
      BY <1>4, <3>1, FS_CardinalityType
    <3> HIDE DEF rest, g
    <3>4. IsFiniteSet(T) /\ Cardinality(T) <= Cardinality(rest)  BY <3>1, ImageSmaller
    <3> HIDE DEF T
    <3>5. IsFiniteSet(later) /\ Cardinality(later) <= Cardinality(rest)  BY <3>2, <3>4
    <3>6. Cardinality(later) \in Nat  BY <3>5, FS_CardinalityType
    <3>7. QED  BY <3>1, <3>3, <3>5, <3>6
  <2>3. IsFiniteSet(sent) /\ Cardinality(sent) <= k
    <3> DEFINE I == 1 .. k
               g == [i \in I |-> [pkt |-> blocked[i].pkt, left |-> Latency]]
               T == {g[i] : i \in I}
    <3>1. IsFiniteSet(I) /\ Cardinality(I) = k
      <4>1. k \in Int /\ 1 \in Int  BY <1>5
      <4>2. IsFiniteSet(1 .. k) /\ Cardinality(1 .. k) = IF 1 > k THEN 0 ELSE k - 1 + 1
        BY <4>1, FS_Interval
      <4>3. QED  BY <1>5, <4>2
    <3>2. T = sent  BY DEF sent
    <3> HIDE DEF I, g
    <3>3. IsFiniteSet(T) /\ Cardinality(T) <= Cardinality(I)  BY <3>1, ImageSmaller
    <3>4. QED  BY <3>1, <3>2, <3>3
  <2>4. IsFiniteSet(later \cup sent) /\ Cardinality(later \cup sent) <= Cardinality(later) + Cardinality(sent)
    <3>1. /\ IsFiniteSet(later \cup sent) /\ IsFiniteSet(later \cap sent)
          /\ Cardinality(later \cup sent)
               = Cardinality(later) + Cardinality(sent) - Cardinality(later \cap sent)
      BY <2>2, <2>3, FS_Union, FS_Intersection
    <3>2. Cardinality(later \cap sent) \in Nat /\ Cardinality(later) \in Nat
          /\ Cardinality(sent) \in Nat
      BY <2>2, <2>3, <3>1, FS_CardinalityType
    <3>3. QED  BY <3>1, <3>2
  <2>5. /\ Cardinality(later) \in Nat /\ Cardinality(sent) \in Nat /\ Cardinality(active) \in Nat
        /\ Cardinality(later \cup sent) \in Nat
    BY <1>4, <2>2, <2>3, <2>4, FS_CardinalityType
  <2>6. Cardinality(later \cup sent) <= Cardinality(active) + k
    BY <1>5, <2>2, <2>3, <2>4, <2>5
  <2>7. QED  BY <1>2, <2>1, <2>4, <2>6
<1>19. QueueTyped'
  <2>1. \A i \in 1 .. Len(blocked') :
          blocked'[i].pkt <= added /\ blocked'[i].left <= Queue!Cost(blocked'[i].pkt)
    <3>1. SUFFICES ASSUME NEW i \in 1 .. Len(blocked')
                   PROVE  blocked'[i].pkt <= added /\ blocked'[i].left <= Queue!Cost(blocked'[i].pkt)
      OBVIOUS
    <3>2. i + k \in 1 .. Len(blocked) /\ blocked'[i].pkt = blocked[i + k].pkt
      BY <1>6
    <3>3. blocked'[i].left <= blocked[i + k].left  BY <1>6
    <3>4. blocked'[i].left \in Nat /\ blocked[i + k].left \in Nat  BY <1>7, <3>2
    <3>5. Queue!Cost(blocked[i + k].pkt) \in Nat  BY <1>7, <3>2, CostPositive
    <3>6. blocked[i + k].pkt <= added /\ blocked[i + k].left <= Queue!Cost(blocked[i + k].pkt)
      BY <1>15, <3>2
    <3>7. blocked'[i].left <= Queue!Cost(blocked[i + k].pkt)  BY <3>3, <3>4, <3>5, <3>6
    <3>8. QED  BY <3>2, <3>6, <3>7
  <2>2. \A a \in active' : a.pkt <= added
    <3>1. \A i \in 1 .. k : i \in 1 .. Len(blocked)  BY <1>4, <1>5
    <3>2. QED  BY <1>8, <1>11, <1>15, <3>1
  <2>3. \A i \in 1 .. Len(out') : out'[i] <= added  BY <1>8, <1>14, <1>16
  <2>4. due' \in [Packet -> Int]  BY <1>2, <1>4
  <2>5. QED
    BY <1>2, <1>4, <1>6, <1>13, <1>18, <2>1, <2>2, <2>3, <2>4 DEF QueueTyped, Queue!Cost
<1>20. InTime'
  <2>1. ASSUME NEW i \in 1 .. Len(blocked')
        PROVE  due'[blocked'[i].pkt] = Queue!Cycles(Queue!LeftUpTo(blocked', i)) + Latency
    <3>1. PICK x \in Nat \ {0} : x = Queue!LeftUpTo(blocked', i)  BY <1>6, LeftPositive
    <3>2. i + k \in 1 .. Len(blocked) /\ blocked'[i].pkt = blocked[i + k].pkt
          /\ Queue!LeftUpTo(blocked, i + k) = x + Queue!Peak
      BY <1>6, <3>1
    <3>3. due[blocked[i + k].pkt] = Queue!Cycles(x + Queue!Peak) + Latency  BY <1>15, <3>2
    <3>4. Queue!Cycles(x + Queue!Peak) = Queue!Cycles(x) + 1 /\ Queue!Cycles(x) \in Nat
      <4>1. /\ x + Queue!Peak \in Nat /\ x + Queue!Peak > Queue!Peak
            /\ (x + Queue!Peak) - Queue!Peak = x
        BY <1>5, <3>1
      <4>2. Queue!Cycles(x + Queue!Peak) = Queue!Cycles((x + Queue!Peak) - Queue!Peak) + 1  BY <4>1, CyclesOf
      <4>3. QED  BY <3>1, <4>1, <4>2, CyclesOf
    <3>5. due'[blocked[i + k].pkt] = due[blocked[i + k].pkt] - 1
      <4>1. due[blocked[i + k].pkt] # 0  BY <1>4, <3>3, <3>4
      <4>2. blocked[i + k].pkt \in Packet /\ blocked[i + k].pkt <= added  BY <1>7, <1>15, <3>2
      <4>3. QED  BY <1>17, <4>1, <4>2
    <3>6. PICK c \in Nat : c = Queue!Cycles(x)  BY <3>4
    <3>7. due'[blocked'[i].pkt] = c + Latency  BY <1>4, <3>2, <3>3, <3>4, <3>5, <3>6
    <3>8. QED  BY <3>1, <3>6, <3>7
  <2>2. ASSUME NEW a \in active' PROVE due'[a.pkt] = a.left
    <3>1. ASSUME NEW e \in active, a = [pkt |-> e.pkt, left |-> e.left - 1], e.left # 1
          PROVE  due'[a.pkt] = a.left
      <4>1. /\ due[e.pkt] = e.left /\ e.pkt \in Packet /\ e.left \in 1 .. Latency
            /\ e.pkt <= added
        BY <1>8
      <4>2. due[e.pkt] # 0  BY <1>4, <4>1
      <4>3. due'[e.pkt] = e.left - 1  BY <1>17, <4>1, <4>2
      <4>4. QED  BY <3>1, <4>3
    <3>2. ASSUME NEW i \in 1 .. k, a = [pkt |-> blocked[i].pkt, left |-> Latency]
          PROVE  due'[a.pkt] = a.left
      <4>1. i \in 1 .. Len(blocked) /\ i \in 0 .. Len(blocked) /\ k \in i .. Len(blocked)
        BY <1>4, <1>5
      <4>2. PICK x \in Nat \ {0} : x = Queue!LeftUpTo(blocked, i)
        BY <1>4, <4>1, LeftPositive
      <4>3. PICK y \in Nat : y = Queue!LeftUpTo(blocked, k)
        BY <1>4, <1>5, LeftSteps
      <4>4. x <= y /\ y <= Queue!Peak
        <5>1. Queue!LeftUpTo(blocked, i) <= Queue!LeftUpTo(blocked, k)
          BY <1>4, <4>1, LeftGrows
        <5>2. QED  BY <1>5, <4>2, <4>3, <5>1
      <4>5. Queue!Cycles(x) = 1
        <5>1. x \in 1 .. Queue!Peak  BY <1>5, <4>4
        <5>2. QED  BY <5>1, CyclesOf
      <4>6. due[blocked[i].pkt] = 1 + Latency /\ blocked[i].pkt \in Packet /\ blocked[i].pkt <= added
        BY <1>7, <1>15, <4>1, <4>2, <4>5
      <4>7. due'[blocked[i].pkt] = Latency
        <5>1. due[blocked[i].pkt] # 0 /\ due[blocked[i].pkt] - 1 = Latency  BY <1>4, <4>6
        <5>2. due'[blocked[i].pkt] = due[blocked[i].pkt] - 1  BY <1>17, <4>6, <5>1
        <5>3. QED  BY <5>1, <5>2
      <4>8. QED  BY <3>2, <4>7
    <3>3. QED  BY <1>11, <3>1, <3>2
  <2>3. ASSUME NEW i \in 1 .. Len(out') PROVE due'[out'[i]] = 0
    <3>1. ASSUME NEW j \in 1 .. Len(out), out'[i] = out[j] PROVE due'[out'[i]] = 0
      BY <1>16, <1>17, <3>1
    <3>2. ASSUME NEW e \in active, e.left = 1, out'[i] = e.pkt PROVE due'[out'[i]] = 0
      <4>1. due[e.pkt] = 1 /\ e.pkt \in Packet /\ e.pkt <= added  BY <1>8, <3>2
      <4>2. QED  BY <1>17, <3>2, <4>1
    <3>3. QED  BY <1>14, <3>1, <3>2
  <2>4. QED
    BY <2>1, <2>2, <2>3
       DEF InTime, Queue!LeftUpTo, Queue!Total, Queue!Cycles
<1>21. Queue!PendingBounded'
  <2>1. MaxPending > 0 => Len(blocked) + Cardinality(active) <= MaxPending
    BY <1>3, SameCardinality DEF Queue!PendingBounded
  <2>2. Cardinality(active) \in Nat /\ Cardinality(active') \in Nat
    BY <1>4, <1>18, FS_CardinalityType
  <2>3. MaxPending \in Nat  BY DEF Assumed, Queue!QueueAssumption
  <2>4. MaxPending > 0 => Len(blocked') + Cardinality(active') <= MaxPending
    BY <1>4, <1>5, <1>6, <1>18, <2>1, <2>2, <2>3
  <2>5. Cardinality(active') = Queue!Cardinality(active')  BY SameCardinality
  <2>6. MaxPending > 0 => Len(blocked') + Queue!Cardinality(active') <= MaxPending
    BY <2>4, <2>5
  <2>7. QED  BY <2>6 DEF Queue!PendingBounded, Queue!Cardinality
<1>22. QED  BY <1>19, <1>20, <1>21 DEF QueueInv

\* What QueueInv says of types is TypeOK of the queue.
LEMMA QueueMeans ==
  ASSUME QueueInv
  PROVE  Queue!TypeOK
<1>1. \A i \in 1 .. Len(blocked) :
        blocked[i].pkt \in Packet /\ blocked[i].left \in 1 .. Queue!Cost(blocked[i].pkt)
  <2>1. SUFFICES ASSUME NEW i \in 1 .. Len(blocked)
                 PROVE  /\ blocked[i].pkt \in Packet
                        /\ blocked[i].left \in 1 .. Queue!Cost(blocked[i].pkt)
    OBVIOUS
  <2>2. blocked[i] \in Blocked  BY ElementOfSeq DEF QueueInv, QueueTyped
  <2>3. blocked[i].left <= Queue!Cost(blocked[i].pkt)  BY DEF QueueInv, QueueTyped
  <2>4. QED  BY <2>2, <2>3 DEF Blocked
<1>2. QED  BY <1>1 DEF QueueInv, QueueTyped, Active, Queue!TypeOK, Queue!Packet, Packet

\* In time is on time when nothing is rounded.
LEMMA TimeMeans ==
  ASSUME Assumed, QueueInv
  PROVE  Queue!OnTime
<1>1. \A a \in Int : \A b : a = b => Queue!Near(a, b)
  BY DEF Assumed, Queue!Near, Queue!Slack
<1>2. /\ blocked \in Seq(Blocked) /\ out \in Seq(Packet) /\ active \subseteq Active
      /\ due \in [Packet -> Int]
  BY DEF QueueInv, QueueTyped
<1>3. \A i \in 1 .. Len(blocked) : due[blocked[i].pkt] \in Int
  <2>1. \A i \in 1 .. Len(blocked) : blocked[i] \in Blocked  BY <1>2, ElementOfSeq
  <2>2. QED  BY <1>2, <2>1 DEF Blocked
<1>4. \A e \in active : due[e.pkt] \in Int  BY <1>2 DEF Active
<1>5. \A i \in 1 .. Len(out) : due[out[i]] \in Int
  <2>1. \A i \in 1 .. Len(out) : out[i] \in Packet  BY <1>2, ElementOfSeq
  <2>2. QED  BY <1>2, <2>1
<1>6. QED  BY <1>1, <1>3, <1>4, <1>5 DEF QueueInv, InTime, Queue!OnTime

\* At a bandwidth that doubles divide (Exact: bw_cycles is a power of two, as it is
\* when no bandwidth is given), a packet leaves a lat_bw_queue exactly when the bytes
\* before it and its own are sent and the latency has passed, and blocked and active
\* packets together keep within max_pending: for any packets, latency and limit
\* (on_tick, service_bandwidth, add_packet, is_full).
THEOREM PacketsOnTime ==
  ASSUME Queue!QueueAssumption, Queue!Exact
  PROVE  Queue!Spec => [](Queue!TypeOK /\ Queue!OnTime /\ Queue!PendingBounded)
<1>0. Assumed  BY DEF Assumed
<1>1. Queue!Init => QueueInv  BY <1>0, QueueInit
<1>2. QueueInv /\ [Queue!Next]_(Queue!vars) => QueueInv'
  <2>1. ASSUME QueueInv, UNCHANGED Queue!vars PROVE QueueInv'
    <3>1. /\ blocked' = blocked /\ active' = active /\ added' = added /\ out' = out /\ due' = due
      BY <2>1 DEF Queue!vars
    <3>2. QueueTyped' = QueueTyped  BY <3>1 DEF QueueTyped, Queue!Cost
    <3>3. InTime' = InTime
      BY <3>1 DEF InTime, Queue!LeftUpTo, Queue!Total, Queue!Cycles
    <3>4. Queue!PendingBounded' = Queue!PendingBounded
      BY <3>1 DEF Queue!PendingBounded, Queue!Cardinality
    <3>5. QED  BY <2>1, <3>2, <3>3, <3>4 DEF QueueInv
  <2>2. QED  BY <1>0, <2>1, QueueAdd, QueueTick DEF Queue!Next
<1>3. QueueInv => Queue!TypeOK /\ Queue!OnTime /\ Queue!PendingBounded
  BY <1>0, QueueMeans, TimeMeans DEF QueueInv
<1>4. QED  BY <1>1, <1>2, <1>3, PTL DEF Queue!Spec

-----------------------------------------------------------------------------
(* The channel: its inductive invariant *)

CONSTANTS Address, Translated, ChannelSize, MatchOffset, MaxRequests
VARIABLES ch, below, issued, collected

Ch == INSTANCE ChannelSystem WITH QueueSize <- ChannelSize, answered <- collected

\* Entries of the queues, and responses.
ChannelEntry ==
  [type : {"LOAD", "WRITE", "PREFETCH"}, address : Address, v_address : Address,
   is_translated : Translated, response_requested : BOOLEAN,
   deps : SUBSET Nat, forward_checked : BOOLEAN]
ResponseType == [address : Address, deps : SUBSET Nat]

\* All requests are translated, or none is.
OneKind == Cardinality(Translated) = 1

\* An entry stands for requests that were issued to its address (exact) or block, and asks
\* for a response if one of them does.  Before it is checked it stands for one request.
Fits(iss, exact) ==
  {e \in ChannelEntry :
     /\ \A d \in e.deps :
          /\ d \in 1 .. Len(iss) /\ Ch!SameAddress(iss[d], e, exact)
          /\ iss[d].response_requested => e.response_requested
     /\ ~ e.forward_checked =>
          \E d \in 1 .. Len(iss) : e.deps = {d} /\ iss[d].address = e.address}

\* Every request of e is younger than a write of x or to another address.
Clear(iss, e, x) ==
  \A r \in e.deps, w \in x.deps : w < r => ~ Ch!SameAddress(iss[r], iss[w], MatchOffset)

\* Once checked it may go below: no older write that it collides with waits.
Ordered(iss, WQ) ==
  {e \in ChannelEntry : e.forward_checked => \A j \in 1 .. Len(WQ) : Clear(iss, e, WQ[j])}

Checked == {e \in ChannelEntry : e.forward_checked}
OfBlock(b) == {e \in ChannelEntry : e.forward_checked /\ e.address[1] = b}
NoTwins(q) == \A a \in Address : Copies(q, OfBlock(a[1])) <= 1

\* The entries, and the responses, that concern request k.
Of(k) == {e \in ChannelEntry : k \in e.deps}
To(k) == {x \in ResponseType : k \in x.deps}
Responses(iss) == {x \in ResponseType : x.deps \subseteq 1 .. Len(iss)}

TypedAs(c, iss, bel, col) ==
  /\ c = [RQ |-> c.RQ, WQ |-> c.WQ, PQ |-> c.PQ, returned |-> c.returned,
          RQ_SIZE |-> ChannelSize, WQ_SIZE |-> ChannelSize, PQ_SIZE |-> ChannelSize,
          match_offset |-> MatchOffset]
  /\ iss \in Seq(ChannelEntry) /\ Len(iss) <= MaxRequests
  /\ c.RQ \in Seq(Fits(iss, FALSE)) /\ Len(c.RQ) <= ChannelSize
  /\ c.PQ \in Seq(Fits(iss, FALSE)) /\ Len(c.PQ) <= ChannelSize
  /\ c.WQ \in Seq(Fits(iss, MatchOffset)) /\ Len(c.WQ) <= ChannelSize
  /\ bel \in Seq(Fits(iss, FALSE) \cap Checked)
  /\ c.returned \in Seq(Responses(iss)) /\ col \in Seq(Responses(iss))

ChannelTyped == TypedAs(ch, issued, below, collected)

\* Each request that wants a response is in one place.
OnePlace(c, bel, col, k) ==
  Copies(c.RQ, Of(k)) + Copies(c.PQ, Of(k)) + Copies(bel, Of(k))
    + Copies(c.returned, To(k)) + Copies(col, To(k)) = 1
Counted ==
  \A k \in 1 .. Len(issued) :
    issued[k].response_requested => OnePlace(ch, below, collected, k)

InOrder ==
  OneKind => /\ ch.RQ \in Seq(Ordered(issued, ch.WQ)) /\ NoTwins(ch.RQ)
             /\ ch.PQ \in Seq(Ordered(issued, ch.WQ)) /\ NoTwins(ch.PQ)
             /\ below \in Seq(Ordered(issued, ch.WQ))

ChannelInv == ChannelTyped /\ Counted /\ InOrder

-----------------------------------------------------------------------------
(* Collisions *)

\* The position that do_collision_for finds has the address, and with one kind of requests
\* it finds one if there is any.
LEMMA CollidingFacts ==
  ASSUME NEW T, T \subseteq ChannelEntry, NEW q \in Seq(T), NEW e \in ChannelEntry, NEW exact
  PROVE  LET hit == Ch!Colliding(q, e, exact)
         IN  /\ hit # {} => /\ Ch!Min(hit) \in 1 .. Len(q)
                            /\ Ch!SameAddress(q[Ch!Min(hit)], e, exact)
             /\ Ch!ChannelAssumption /\ OneKind /\ hit = {} =>
                  \A i \in 1 .. Len(q) : ~ Ch!SameAddress(q[i], e, exact)
<1> DEFINE hits == {i \in 1 .. Len(q) : Ch!SameAddress(q[i], e, exact)}
           hit == Ch!Colliding(q, e, exact)
<1>1. hit = {i \in hits : (\A j \in hits : i <= j) /\ q[i].is_translated = e.is_translated}
  BY DEF Ch!Colliding
<1>2. Len(q) \in Nat  BY LenProperties
<1>3. ASSUME hit # {}
      PROVE  Ch!Min(hit) \in 1 .. Len(q) /\ Ch!SameAddress(q[Ch!Min(hit)], e, exact)
  <2>1. PICK i \in hit : TRUE  BY <1>3
  <2>2. \A j \in hit : i <= j /\ j \in hits  BY <1>1
  <2> HIDE DEF hit, hits
  <2>3. Ch!Min(hit) \in hit  BY <2>1, <2>2 DEF Ch!Min
  <2>4. QED  BY <2>2, <2>3 DEF hits
<1>4. ASSUME Ch!ChannelAssumption, OneKind, hit = {}, NEW i \in 1 .. Len(q), i \in hits PROVE FALSE
  <2>1. hits \subseteq Nat  BY <1>2
  <2>2. hits # {}  BY <1>4
  <2> HIDE DEF hits
  <2>3. PICK j \in hits : \A k \in hits : j <= k  BY <2>1, <2>2, Smallest
  <2>4. j \in 1 .. Len(q)  BY <2>3 DEF hits
  <2>5. q[j].is_translated \in Translated /\ e.is_translated \in Translated
    BY <2>4, ElementOfSeq DEF ChannelEntry
  <2>6. \A x, y \in Translated : x = y
    <3>1. Translated \subseteq BOOLEAN  BY <1>4 DEF Ch!ChannelAssumption
    <3>2. IsFiniteSet(BOOLEAN)
      <4>1. BOOLEAN = {TRUE} \cup {FALSE}  OBVIOUS
      <4>2. IsFiniteSet({TRUE}) /\ IsFiniteSet({FALSE})  BY FS_Singleton
      <4>3. QED  BY <4>1, <4>2, FS_Union
    <3>3. IsFiniteSet(Translated)  BY <3>1, <3>2, FS_Subset
    <3>4. QED  BY <1>4, <3>3, FS_Singleton DEF OneKind
  <2>7. j \in hit  BY <1>1, <2>3, <2>5, <2>6
  <2>8. QED  BY <1>4, <2>7
<1>5. QED  BY <1>3, <1>4

\* The entry that stands for a and e.
Joined(a, e) == [a EXCEPT !.response_requested = @ \/ e.response_requested, !.deps = @ \cup e.deps]

\* What do_collision_for_merge makes of a queue.
LEMMA MergedIs ==
  ASSUME NEW T, T \subseteq ChannelEntry, NEW q \in Seq(T), NEW i \in 1 .. Len(q), NEW e
  PROVE  Ch!Merged(q, i, e) = [q EXCEPT ![i] = Joined(q[i], e)]
<1>1. q = [j \in 1 .. Len(q) |-> q[j]]  BY SeqDef
<1>2. QED  BY <1>1 DEF Ch!Merged, Joined

\* What an entry is once another has joined it.
LEMMA JoinedFields ==
  ASSUME NEW a \in ChannelEntry, NEW e \in ChannelEntry
  PROVE  /\ Joined(a, e) \in ChannelEntry
         /\ Joined(a, e).deps = a.deps \cup e.deps
         /\ Joined(a, e).response_requested = (a.response_requested \/ e.response_requested)
         /\ Joined(a, e).address = a.address
         /\ Joined(a, e).forward_checked = a.forward_checked
BY DEF Joined, ChannelEntry

\* It stands for the requests of both.
LEMMA JoinedFits ==
  ASSUME NEW iss, NEW exact, NEW a \in Fits(iss, exact), a \in Checked, NEW e \in Fits(iss, exact),
         Ch!SameAddress(a, e, exact)
  PROVE  Joined(a, e) \in Fits(iss, exact) \cap Checked
<1>1. a \in ChannelEntry /\ e \in ChannelEntry /\ a.forward_checked  BY DEF Fits, Checked
<1> DEFINE m == Joined(a, e)
<1>2. /\ m \in ChannelEntry /\ m.deps = a.deps \cup e.deps
      /\ m.response_requested = (a.response_requested \/ e.response_requested)
      /\ m.address = a.address /\ m.forward_checked = a.forward_checked
  BY <1>1, JoinedFields
<1> HIDE DEF m
<1>3. ASSUME NEW d \in m.deps
      PROVE  /\ d \in 1 .. Len(iss) /\ Ch!SameAddress(iss[d], m, exact)
             /\ iss[d].response_requested => m.response_requested
  <2>1. CASE d \in a.deps  BY <1>2, <2>1 DEF Fits, Ch!SameAddress
  <2>2. CASE d \in e.deps  BY <1>2, <2>2 DEF Fits, Ch!SameAddress
  <2>3. QED  BY <1>2, <2>1, <2>2
<1>4. QED  BY <1>1, <1>2, <1>3 DEF Fits, Checked, m

-----------------------------------------------------------------------------
(* The operators of the channel's queues *)

\* The channel's copies of the operators on queues are the ones the lemmas are about.
LEMMA ChannelQueues ==
  /\ \A q, n : Ch!First(q, n) = First(q, n) /\ Ch!Rest(q, n) = Rest(q, n)
  /\ \A q : Ch!Elements(q) = Elements(q)
  /\ \A q, i : Ch!RemoveAt(q, i) = First(q, i - 1) \o Rest(q, i)
BY DEF Ch!First, Ch!Rest, Ch!Elements, Ch!RemoveAt, First, Rest, Elements

\* So is its copy of Among.
LEMMA ChannelAmong == \A q, S : Ch!Among(q, S) = Among(q, S)
BY Zenon DEF Ch!Among, Ch!Through, Among, Through

\* The two parts that check_collision() makes of a queue.
LEMMA PartsOf ==
  ASSUME NEW T, NEW q \in Seq(T)
  PROVE  /\ Ch!CheckedPart(q) \in Seq(T) /\ Ch!UncheckedPart(q) \in Seq(T)
         /\ \A i \in 1 .. Len(Ch!CheckedPart(q)) : Ch!CheckedPart(q)[i].forward_checked
         /\ \A i \in 1 .. Len(Ch!UncheckedPart(q)) : ~ Ch!UncheckedPart(q)[i].forward_checked
         /\ Len(Ch!CheckedPart(q)) + Len(Ch!UncheckedPart(q)) = Len(q)
         /\ \A U : Copies(q, U) = Copies(Ch!CheckedPart(q), U) + Copies(Ch!UncheckedPart(q), U)
<1> DEFINE S == {e \in Elements(q) : e.forward_checked}
           N == {e \in Elements(q) : ~ e.forward_checked}
           c == Ch!CheckedPart(q)  u == Ch!UncheckedPart(q)
<1>1. c = Among(q, S) /\ u = Among(q, N)
  BY ChannelAmong, ChannelQueues DEF Ch!CheckedPart, Ch!UncheckedPart
<1>2. Elements(q) \subseteq T  BY ElementsSubset
<1>3. /\ c \in Seq(S \cap T) /\ u \in Seq(N \cap T)
      /\ \A U : Copies(c, U) = Copies(q, S \cap U) /\ Copies(u, U) = Copies(q, N \cap U)
  <2> HIDE DEF S, N
  <2>1. QED  BY <1>1, AmongFacts
<1> HIDE DEF c, u
<1>4. c \in Seq(T) /\ u \in Seq(T)
  BY <1>3, LenProperties, ElementOfSeq, SeqDef
<1>5. /\ \A i \in 1 .. Len(c) : c[i] \in S
      /\ \A i \in 1 .. Len(u) : u[i] \in N
  <2> HIDE DEF S, N
  <2>1. QED  BY <1>3, ElementOfSeq
<1>6. \A U : Copies(q, U) = Copies(c, U) + Copies(u, U)
  <2>1. SUFFICES ASSUME NEW U PROVE Copies(q, U) = Copies(c, U) + Copies(u, U)  OBVIOUS
  <2>2. Copies(q, U) = Copies(q, U \cap S) + Copies(q, U \ S)  BY CopiesPartition
  <2>3. Copies(q, S \cap U) = Copies(q, U \cap S)  BY CopiesAgree
  <2>4. Copies(q, N \cap U) = Copies(q, U \ S)  BY CopiesAgree
  <2>5. QED  BY <1>3, <2>2, <2>3, <2>4
<1>7. Len(c) + Len(u) = Len(q)
  <2>1. Copies(c, T) = Len(c) /\ Copies(u, T) = Len(u) /\ Copies(q, T) = Len(q)  BY <1>4, CopiesAll
  <2>2. QED  BY <1>6, <2>1
<1>8. QED  BY <1>4, <1>5, <1>6, <1>7 DEF c, u


-----------------------------------------------------------------------------
(* Checking the writes *)

\* Marking an entry as checked changes nothing else about it.
LEMMA FitsChecked ==
  ASSUME NEW iss, NEW exact, NEW e \in Fits(iss, exact)
  PROVE  LET x == [e EXCEPT !.forward_checked = TRUE]
         IN  /\ x \in Fits(iss, exact) \cap Checked
             /\ x.deps = e.deps /\ x.address = e.address
<1> DEFINE x == [e EXCEPT !.forward_checked = TRUE]
<1>1. e \in ChannelEntry  BY DEF Fits
<1>2. /\ x \in ChannelEntry /\ x.forward_checked /\ x.deps = e.deps /\ x.address = e.address
      /\ x.response_requested = e.response_requested
  BY <1>1 DEF ChannelEntry
<1> HIDE DEF x
<1>3. \A d \in e.deps :
        /\ d \in 1 .. Len(iss) /\ Ch!SameAddress(iss[d], e, exact)
        /\ iss[d].response_requested => e.response_requested
  BY DEF Fits
<1>4. \A d : Ch!SameAddress(iss[d], x, exact) <=> Ch!SameAddress(iss[d], e, exact)
  BY <1>2 DEF Ch!SameAddress
<1>5. QED  BY <1>2, <1>3, <1>4 DEF Fits, Checked, x

\* The writes of wq stand for requests that the writes of old stood for.
FromWrites(wq, old) == \A j \in 1 .. Len(wq) : \A w \in wq[j].deps : \E i \in 1 .. Len(old) : w \in old[i].deps

OfWrite(exact, q, e) == Ch!CheckWrite(exact, q, e)
WritesSoFar(h, q, n) ==
  /\ q \in Seq(Fits(h.iss, h.exact) \cap Checked) /\ Len(q) <= h.len + n
  /\ FromWrites(q, h.old)
Writes == INSTANCE StageLemmas WITH Op <- OfWrite, Inv <- WritesSoFar

\* One write is kept or joins one that was kept.
LEMMA WriteChecked ==
  ASSUME NEW iss, NEW exact \in BOOLEAN, NEW q \in Seq(Fits(iss, exact) \cap Checked),
         NEW e \in Fits(iss, exact), NEW old, FromWrites(q, old),
         \A w \in e.deps : \E i \in 1 .. Len(old) : w \in old[i].deps
  PROVE  LET r == Ch!CheckWrite(exact, q, e)
         IN  /\ r \in Seq(Fits(iss, exact) \cap Checked) /\ Len(r) <= Len(q) + 1
             /\ FromWrites(r, old)
<1> DEFINE hit == Ch!Colliding(q, e, exact)
           r == Ch!CheckWrite(exact, q, e)
           T == Fits(iss, exact) \cap Checked
<1>1. T \subseteq ChannelEntry /\ e \in ChannelEntry  BY DEF Fits
<1>2. Len(q) \in Nat  BY LenProperties
<1>3. q \in Seq(T)  OBVIOUS
<1>4. \A i \in 1 .. Len(q) : q[i] \in T  BY <1>3, ElementOfSeq
<1>5. CASE hit = {}
  <2> DEFINE x == [e EXCEPT !.forward_checked = TRUE]
  <2>1. r = Append(q, x)  BY <1>5 DEF Ch!CheckWrite, Ch!Checked
  <2>2. x \in T /\ x.deps = e.deps  BY FitsChecked
  <2> HIDE DEF x, T
  <2>3. /\ r \in Seq(T) /\ Len(r) = Len(q) + 1
        /\ r[Len(q) + 1] = x /\ \A i \in 1 .. Len(q) : r[i] = q[i]
    BY <1>3, <2>1, <2>2, AppendProperties
  <2>4. FromWrites(r, old)
    <3>1. SUFFICES ASSUME NEW j \in 1 .. Len(r), NEW w \in r[j].deps
                   PROVE  \E i \in 1 .. Len(old) : w \in old[i].deps
      BY DEF FromWrites
    <3>2. j \in 1 .. Len(q) \/ j = Len(q) + 1  BY <1>2, <2>3
    <3>3. CASE j \in 1 .. Len(q)  BY <2>3, <3>1, <3>3 DEF FromWrites
    <3>4. CASE j = Len(q) + 1  BY <2>2, <2>3, <3>1, <3>4
    <3>5. QED  BY <3>2, <3>3, <3>4
  <2>5. QED  BY <1>2, <2>3, <2>4 DEF T
<1>6. CASE hit # {}
  <2>1. /\ Ch!Min(hit) \in 1 .. Len(q) /\ Ch!SameAddress(q[Ch!Min(hit)], e, exact)
    BY <1>1, <1>3, <1>6, CollidingFacts
  <2>2. r = Ch!Merged(q, Ch!Min(hit), e)  BY <1>6 DEF Ch!CheckWrite
  <2>3. PICK i : i = Ch!Min(hit)  OBVIOUS
  <2> HIDE DEF hit
  <2>4. i \in 1 .. Len(q) /\ Ch!SameAddress(q[i], e, exact) /\ r = Ch!Merged(q, i, e)
    BY <2>1, <2>2, <2>3
  <2>5. r = [q EXCEPT ![i] = Joined(q[i], e)]  BY <1>1, <1>3, <2>4, MergedIs
  <2>6. Joined(q[i], e) \in T  BY <1>4, <2>4, JoinedFits
  <2>7. Joined(q[i], e).deps = q[i].deps \cup e.deps  BY <1>1, <1>4, <2>4, JoinedFields
  <2> DEFINE x == Joined(q[i], e)
  <2> HIDE DEF x, T
  <2>8. /\ r \in Seq(T) /\ Len(r) = Len(q)
        /\ \A j \in 1 .. Len(q) : r[j] = IF j = i THEN x ELSE q[j]
    BY <1>3, <2>4, <2>5, <2>6, ExceptSeq DEF x
  <2>9. FromWrites(r, old)
    <3>1. SUFFICES ASSUME NEW j \in 1 .. Len(r), NEW w \in r[j].deps
                   PROVE  \E l \in 1 .. Len(old) : w \in old[l].deps
      BY DEF FromWrites
    <3>2. w \in q[j].deps \/ w \in e.deps  BY <2>7, <2>8, <3>1 DEF x
    <3>3. QED  BY <2>8, <3>1, <3>2 DEF FromWrites
  <2>10. QED  BY <1>2, <2>8, <2>9 DEF T
<1>7. QED  BY <1>5, <1>6

\* What CheckWrites makes of a queue of writes.
WritesAre(iss, exact, old, WQ) ==
  /\ WQ \in Seq(Fits(iss, exact) \cap Checked) /\ Len(WQ) <= Len(old)
  /\ FromWrites(WQ, old)

\* Checking the writes keeps what they say, and whose they are.
LEMMA WritesChecked ==
  ASSUME NEW c, c.match_offset \in BOOLEAN, NEW iss, c.WQ \in Seq(Fits(iss, c.match_offset))
  PROVE  WritesAre(iss, c.match_offset, c.WQ, Ch!CheckWrites(c))
<1> DEFINE q == c.WQ  exact == c.match_offset  T == Fits(iss, exact)
           s == Ch!CheckedPart(q)  u == Ch!UncheckedPart(q)
           h == [iss |-> iss, exact |-> exact, len |-> Len(s), old |-> q]
<1>1. Ch!CheckWrites(c) = Writes!Carried(exact, s, u)
  BY Zenon DEF Writes!Carried, Writes!Steps, Ch!CheckWrites, Ch!Through, OfWrite
<1>2. q \in Seq(T) /\ exact \in BOOLEAN  OBVIOUS
<1>3. /\ h.iss = iss /\ h.exact = exact /\ h.len = Len(s) /\ h.old = q  OBVIOUS
<1> HIDE DEF q, exact, h, T
<1>4. /\ s \in Seq(T) /\ u \in Seq(T)
      /\ \A i \in 1 .. Len(s) : s[i].forward_checked
      /\ Len(s) + Len(u) = Len(q)
      /\ \A U : Copies(q, U) = Copies(s, U) + Copies(u, U)
  BY <1>2, PartsOf
<1> HIDE DEF s, u
<1>5. Len(s) \in Nat /\ Len(u) \in Nat /\ Len(q) \in Nat  BY <1>2, <1>4, LenProperties
<1>6. \A i \in 1 .. Len(s) : s[i] \in T  BY <1>4, ElementOfSeq
<1>7. \A i \in 1 .. Len(u) : u[i] \in T  BY <1>4, ElementOfSeq
<1>8. s \in Seq(T \cap Checked)
  <2>1. T \subseteq ChannelEntry  BY DEF T, Fits
  <2>2. \A i \in 1 .. Len(s) : s[i] \in T \cap Checked  BY <1>4, <1>6, <2>1 DEF Checked
  <2>3. QED  BY <1>4, <1>5, <2>2, SeqDef
<1>9. ASSUME NEW e \in T, Copies(s, {e}) # 0 \/ Copies(u, {e}) # 0
      PROVE  \A w \in e.deps : \E i \in 1 .. Len(q) : w \in q[i].deps
  <2>1. Copies(s, {e}) \in Nat /\ Copies(u, {e}) \in Nat  BY <1>4, CopiesNat
  <2>2. Copies(q, {e}) # 0  BY <1>4, <1>9, <2>1
  <2>3. PICK i \in 1 .. Len(q) : q[i] = e  BY <1>2, <2>2, CopiesNone
  <2>4. QED  BY <2>3
<1>10. WritesSoFar(h, s, 0)
  <2>1. FromWrites(s, q)
    <3>1. SUFFICES ASSUME NEW j \in 1 .. Len(s), NEW w \in s[j].deps
                   PROVE  \E i \in 1 .. Len(q) : w \in q[i].deps
      BY DEF FromWrites
    <3>2. Copies(s, {s[j]}) # 0  BY <1>4, CopiesNone
    <3>3. QED  BY <1>6, <1>9, <3>1, <3>2
  <2>2. QED  BY <1>3, <1>5, <1>8, <2>1 DEF WritesSoFar, T
<1>11. ASSUME NEW n \in 1 .. Len(u), NEW r, WritesSoFar(h, r, n - 1)
       PROVE  WritesSoFar(h, OfWrite(exact, r, u[n]), n)
  <2>1. r \in Seq(Fits(iss, exact) \cap Checked) /\ Len(r) <= Len(s) + (n - 1) /\ FromWrites(r, q)
    BY <1>3, <1>11 DEF WritesSoFar
  <2>2. u[n] \in Fits(iss, exact)  BY <1>7 DEF T
  <2>3. \A w \in u[n].deps : \E i \in 1 .. Len(q) : w \in q[i].deps
    <3>1. Copies(u, {u[n]}) # 0  BY <1>4, CopiesNone
    <3>2. QED  BY <1>7, <1>9, <3>1
  <2> DEFINE t == Ch!CheckWrite(exact, r, u[n])
  <2>4. t \in Seq(Fits(iss, exact) \cap Checked) /\ Len(t) <= Len(r) + 1 /\ FromWrites(t, q)
    BY <1>2, <2>1, <2>2, <2>3, WriteChecked
  <2>5. OfWrite(exact, r, u[n]) = t  BY DEF OfWrite
  <2> HIDE DEF t
  <2>6. Len(t) \in Nat /\ Len(r) \in Nat  BY <2>1, <2>4, LenProperties
  <2>7. Len(t) <= Len(s) + n  BY <1>5, <2>1, <2>4, <2>6
  <2>8. QED  BY <1>3, <2>4, <2>5, <2>7 DEF WritesSoFar
<1>12. WritesSoFar(h, Writes!Carried(exact, s, u), Len(u))
  BY <1>5, <1>10, <1>11, Writes!KeptFor
<1>13. QED  BY <1>1, <1>3, <1>4, <1>12 DEF WritesSoFar, WritesAre, q, exact

-----------------------------------------------------------------------------
(* Checking the reads and prefetches *)

\* A response names those who wait for the entry.
LEMMA ResponseFacts ==
  ASSUME NEW iss, NEW exact, NEW e \in Fits(iss, exact)
  PROVE  /\ Ch!ResponseTo(e) \in Responses(iss)
         /\ \A k : Ch!ResponseTo(e) \in To(k) <=> e \in Of(k)
<1>1. e \in ChannelEntry /\ \A d \in e.deps : d \in 1 .. Len(iss)  BY DEF Fits
<1>2. Ch!ResponseTo(e) \in ResponseType /\ Ch!ResponseTo(e).deps = e.deps
  BY <1>1 DEF Ch!ResponseTo, ResponseType, ChannelEntry
<1>3. QED  BY <1>1, <1>2 DEF Responses, To, Of

\* A read that collides with no waiting write may go below.
LEMMA NothingPassed ==
  ASSUME NEW iss, NEW WQ \in Seq(Fits(iss, MatchOffset)),
         NEW e \in Fits(iss, FALSE), ~ e.forward_checked,
         \A j \in 1 .. Len(WQ) : ~ Ch!SameAddress(WQ[j], e, MatchOffset)
  PROVE  \A j \in 1 .. Len(WQ) : Clear(iss, e, WQ[j])
<1>1. SUFFICES ASSUME NEW j \in 1 .. Len(WQ), NEW r \in e.deps, NEW w \in WQ[j].deps
               PROVE  ~ Ch!SameAddress(iss[r], iss[w], MatchOffset)
  BY DEF Clear
<1>2. PICK d \in 1 .. Len(iss) : e.deps = {d} /\ iss[d].address = e.address  BY DEF Fits
<1>3. iss[r].address = e.address  BY <1>1, <1>2
<1>4. WQ[j] \in Fits(iss, MatchOffset)  BY ElementOfSeq
<1>5. Ch!SameAddress(iss[w], WQ[j], MatchOffset)  BY <1>1, <1>4 DEF Fits
<1>6. QED  BY <1>3, <1>5 DEF Ch!SameAddress

\* What joins two such reads may go below as well.
LEMMA JoinedOrdered ==
  ASSUME NEW iss, NEW WQ, NEW a \in Ordered(iss, WQ), a \in Checked, NEW e \in ChannelEntry,
         \A j \in 1 .. Len(WQ) : Clear(iss, e, WQ[j])
  PROVE  Joined(a, e) \in Ordered(iss, WQ)
<1>1. a \in ChannelEntry /\ a.forward_checked  BY DEF Ordered, Checked
<1>2. Joined(a, e) \in ChannelEntry /\ Joined(a, e).deps = a.deps \cup e.deps  BY <1>1, JoinedFields
<1>3. \A j \in 1 .. Len(WQ) : Clear(iss, a, WQ[j])  BY <1>1 DEF Ordered
<1>4. \A j \in 1 .. Len(WQ) : Clear(iss, Joined(a, e), WQ[j])
  BY <1>2, <1>3 DEF Clear
<1>5. QED  BY <1>2, <1>4 DEF Ordered

\* Those that want a response and are counted: in the entries kept, the responses and what is
\* still to be checked.
Pending(t, u, n, k) == Copies(t.q, Of(k)) + Copies(t.returned, To(k)) + Copies(Rest(u, n), Of(k))

\* What holds of t throughout.
ReadState(iss, WQ, t) ==
  /\ t = [q |-> t.q, returned |-> t.returned]
  /\ t.q \in Seq(Fits(iss, FALSE) \cap Checked) /\ t.returned \in Seq(Responses(iss))
  /\ OneKind => t.q \in Seq(Ordered(iss, WQ)) /\ NoTwins(t.q)

\* From t to s the request e was handled.
ReadStep(iss, WQ, t, e, s) ==
  /\ ReadState(iss, WQ, s) /\ Len(s.q) <= Len(t.q) + 1
  /\ \A k \in 1 .. Len(iss) :
       iss[k].response_requested /\ Copies(t.q, Of(k)) + Mark(e, Of(k)) <= 1 =>
         Copies(s.q, Of(k)) + Copies(s.returned, To(k))
           = Copies(t.q, Of(k)) + Copies(t.returned, To(k)) + Mark(e, Of(k))

OfRead(c, t, e) == Ch!CheckRead(c, t, e)
ReadsSoFar(h, t, n) ==
  /\ t = [q |-> t.q, returned |-> t.returned]
  /\ t.q \in Seq(Fits(h.iss, FALSE) \cap Checked) /\ Len(t.q) <= h.len + n
  /\ t.returned \in Seq(Responses(h.iss))
  /\ \A k \in h.wanted : Pending(t, h.u, n, k) = h.total[k]
  /\ OneKind => t.q \in Seq(Ordered(h.iss, h.WQ)) /\ NoTwins(t.q)
Reads == INSTANCE StageLemmas WITH Op <- OfRead, Inv <- ReadsSoFar

\* One read is answered, joined or kept.
LEMMA ReadChecked ==
  ASSUME Ch!ChannelAssumption, NEW c, c.match_offset = MatchOffset,
         NEW iss, c.WQ \in Seq(Fits(iss, MatchOffset)),
         NEW t, ReadState(iss, c.WQ, t), NEW e \in Fits(iss, FALSE), ~ e.forward_checked
  PROVE  ReadStep(iss, c.WQ, t, e, Ch!CheckRead(c, t, e))
<1> DEFINE s == Ch!CheckRead(c, t, e)
           write == Ch!Colliding(c.WQ, e, MatchOffset)
           read == Ch!Colliding(t.q, e, FALSE)
           T == Fits(iss, FALSE) \cap Checked
           q == t.q  R == t.returned  WQ == c.WQ
           Goal == /\ s = [q |-> s.q, returned |-> s.returned]
                   /\ s.q \in Seq(T) /\ Len(s.q) <= Len(q) + 1
                   /\ s.returned \in Seq(Responses(iss))
                   /\ OneKind => s.q \in Seq(Ordered(iss, WQ)) /\ NoTwins(s.q)
                   /\ \A k \in 1 .. Len(iss) :
                        iss[k].response_requested /\ Copies(q, Of(k)) + Mark(e, Of(k)) <= 1 =>
                          Copies(s.q, Of(k)) + Copies(s.returned, To(k))
                            = Copies(q, Of(k)) + Copies(R, To(k)) + Mark(e, Of(k))
<1>0. /\ t = [q |-> t.q, returned |-> t.returned]
      /\ t.q \in Seq(T) /\ t.returned \in Seq(Responses(iss))
      /\ OneKind => t.q \in Seq(Ordered(iss, WQ)) /\ NoTwins(t.q)
  BY DEF ReadState
<1> SUFFICES Goal  BY DEF ReadStep, ReadState
<1>1. T \subseteq ChannelEntry /\ e \in ChannelEntry /\ Fits(iss, MatchOffset) \subseteq ChannelEntry
  BY DEF Fits
<1>2. /\ q \in Seq(T) /\ R \in Seq(Responses(iss)) /\ WQ \in Seq(Fits(iss, MatchOffset))
      /\ OneKind => q \in Seq(Ordered(iss, WQ)) /\ NoTwins(q)
  BY <1>0
<1>3. Len(q) \in Nat  BY <1>2, LenProperties
<1>4. \A k : Copies(q, Of(k)) \in Nat /\ Copies(R, To(k)) \in Nat /\ Mark(e, Of(k)) \in {0, 1}
  BY <1>2, CopiesNat DEF Mark
<1>5. \A i \in 1 .. Len(q) : q[i] \in T  BY <1>2, ElementOfSeq
<1>6. CASE write # {}
  <2>1. s = [t EXCEPT !.returned =
               IF e.response_requested THEN Append(@, Ch!ResponseTo(e)) ELSE @]
    BY <1>6 DEF Ch!CheckRead, Ch!WriteCollision
  <2> DEFINE x == Ch!ResponseTo(e)
  <2>2. x \in Responses(iss) /\ \A k : x \in To(k) <=> e \in Of(k)  BY ResponseFacts
  <2>3. CASE e.response_requested
    <3>1. s = [q |-> q, returned |-> Append(R, x)]  BY <1>0, <2>1, <2>3
    <3>2. s.q = q /\ s.returned = Append(R, x)  BY <3>1
    <3> HIDE DEF x
    <3>3. s.returned \in Seq(Responses(iss))  BY <1>2, <2>2, <3>2, AppendProperties
    <3>4. \A k : Copies(s.returned, To(k)) = Copies(R, To(k)) + Mark(e, Of(k))
      <4>1. \A k : Mark(x, To(k)) = Mark(e, Of(k))  BY <2>2 DEF Mark
      <4>2. \A k : Copies(Append(R, x), To(k)) = Copies(R, To(k)) + Mark(x, To(k))
        BY <1>2, <2>2, CopiesAppend
      <4>3. QED  BY <3>2, <4>1, <4>2
    <3>5. \A k : Copies(s.q, Of(k)) + Copies(s.returned, To(k))
                   = Copies(q, Of(k)) + Copies(R, To(k)) + Mark(e, Of(k))
      <4>1. SUFFICES ASSUME NEW k
                     PROVE  Copies(s.q, Of(k)) + Copies(s.returned, To(k))
                              = Copies(q, Of(k)) + Copies(R, To(k)) + Mark(e, Of(k))
        OBVIOUS
      <4> DEFINE a == Copies(q, Of(k))  b == Copies(R, To(k))  m == Mark(e, Of(k))
      <4>2. a \in Nat /\ b \in Nat /\ m \in Nat  BY <1>4
      <4>3. Copies(s.q, Of(k)) = a /\ Copies(s.returned, To(k)) = b + m  BY <3>2, <3>4
      <4> HIDE DEF a, b, m, q, R, s
      <4>4. QED  BY <4>2, <4>3 DEF a, b, m
    <3>6. s = [q |-> s.q, returned |-> s.returned]  BY <3>1, <3>2
    <3> HIDE DEF s, q, R, WQ, T
    <3>7. QED  BY <1>2, <1>3, <3>2, <3>3, <3>5, <3>6
  <2>4. CASE ~ e.response_requested
    <3>1. s = [q |-> q, returned |-> R]  BY <1>0, <2>1, <2>4
    <3>2. s.q = q /\ s.returned = R  BY <3>1
    <3>3. ASSUME NEW k \in 1 .. Len(iss), iss[k].response_requested PROVE Mark(e, Of(k)) = 0
      BY <2>4, <3>3 DEF Mark, Of, Fits
    <3>4. s = [q |-> s.q, returned |-> s.returned]  BY <3>1, <3>2
    <3> HIDE DEF s, q, R, WQ, T
    <3>5. \A k \in 1 .. Len(iss) : iss[k].response_requested =>
             Copies(s.q, Of(k)) + Copies(s.returned, To(k))
               = Copies(q, Of(k)) + Copies(R, To(k)) + Mark(e, Of(k))
      BY <1>4, <3>2, <3>3
    <3>6. QED  BY <1>2, <1>3, <3>2, <3>4, <3>5
  <2>5. QED  BY <2>3, <2>4
<1>7. CASE write = {} /\ read # {}
  <2>1. Ch!Min(read) \in 1 .. Len(q) /\ Ch!SameAddress(q[Ch!Min(read)], e, FALSE)
    BY <1>1, <1>2, <1>7, CollidingFacts
  <2>2. s = [t EXCEPT !.q = Ch!Merged(@, Ch!Min(read), e)]
    BY <1>7 DEF Ch!CheckRead, Ch!WriteCollision, Ch!ReadCollision
  <2>3. PICK i : i = Ch!Min(read)  OBVIOUS
  <2>4. i \in 1 .. Len(q) /\ Ch!SameAddress(q[i], e, FALSE)  BY <2>1, <2>3
  <2> DEFINE a == q[i]  x == Joined(a, e)
  <2>5. s = [q |-> [q EXCEPT ![i] = x], returned |-> R]
    <3>1. s = [q |-> Ch!Merged(q, i, e), returned |-> R]  BY <1>0, <2>2, <2>3
    <3>2. Ch!Merged(q, i, e) = [q EXCEPT ![i] = Joined(q[i], e)]
      <4> HIDE DEF T, s, a, x, q, R, WQ
      <4>1. q \in Seq(T) /\ T \subseteq ChannelEntry  BY <1>1, <1>2
      <4>2. QED  BY <2>4, <4>1, MergedIs
    <3>3. QED  BY <3>1, <3>2
  <2>6. s.q = [q EXCEPT ![i] = x] /\ s.returned = R /\ s = [q |-> s.q, returned |-> s.returned]
    BY <2>5
  <2>7. a \in T /\ a \in ChannelEntry /\ a.forward_checked  BY <1>1, <1>5, <2>4 DEF Checked
  <2>8. x \in T  BY <2>4, <2>7, JoinedFits
  <2>9. /\ x \in ChannelEntry /\ x.deps = a.deps \cup e.deps
        /\ x.address = a.address /\ x.forward_checked = a.forward_checked
    BY <1>1, <2>7, JoinedFields
  <2>10. s.q \in Seq(T) /\ Len(s.q) = Len(q)
    <3> HIDE DEF x, T, s
    <3>1. QED  BY <1>2, <2>4, <2>6, <2>8, CopiesReplaced
  <2>11. \A S : Copies(s.q, S) + Mark(a, S) = Copies(q, S) + Mark(x, S)
    <3>1. SUFFICES ASSUME NEW S PROVE Copies(s.q, S) + Mark(a, S) = Copies(q, S) + Mark(x, S)
      OBVIOUS
    <3> HIDE DEF x, T, s, q, R, WQ
    <3>2. Copies([q EXCEPT ![i] = x], S) + Mark(q[i], S) = Copies(q, S) + Mark(x, S)
      BY <1>2, <2>4, <2>8, CopiesReplaced
    <3>3. QED  BY <2>6, <3>2
  <2>12. ASSUME NEW k \in 1 .. Len(iss), Copies(q, Of(k)) + Mark(e, Of(k)) <= 1
         PROVE  Copies(s.q, Of(k)) + Copies(s.returned, To(k))
                  = Copies(q, Of(k)) + Copies(R, To(k)) + Mark(e, Of(k))
    <3> DEFINE A == Copies(q, Of(k))  B == Copies(R, To(k))  N == Copies(s.q, Of(k))
               ma == Mark(a, Of(k))  me == Mark(e, Of(k))  mx == Mark(x, Of(k))
    <3>1. A \in Nat /\ B \in Nat /\ me \in Nat  BY <1>4
    <3>2. N \in Nat  BY <2>10, CopiesNat
    <3>3. N + ma = A + mx  BY <2>11
    <3>4. ma = 1 => A >= 1
      <4>1. a \in Of(k) => A # 0  BY <1>2, <2>4, CopiesNone
      <4>2. QED  BY <3>1, <4>1 DEF Mark
    <3>5. mx = (IF ma = 1 \/ me = 1 THEN 1 ELSE 0) /\ ma \in {0, 1} /\ me \in {0, 1}
      BY <1>1, <2>7, <2>9 DEF Mark, Of
    <3>6. A + me <= 1  BY <2>12
    <3>7. Copies(s.returned, To(k)) = B  BY <2>6
    <3> HIDE DEF A, B, N, ma, me, mx
    <3>8. N = A + me  BY <3>1, <3>2, <3>3, <3>4, <3>5, <3>6
    <3>9. N + B = A + B + me  BY <3>1, <3>8
    <3> HIDE DEF s, q, R
    <3>10. QED  BY <3>7, <3>9 DEF A, B, N, me
  <2>13. ASSUME OneKind PROVE s.q \in Seq(Ordered(iss, WQ)) /\ NoTwins(s.q)
    <3>1. q \in Seq(Ordered(iss, WQ)) /\ NoTwins(q)  BY <1>2, <2>13
    <3>2. \A j \in 1 .. Len(WQ) : ~ Ch!SameAddress(WQ[j], e, MatchOffset)
      BY <1>1, <1>2, <1>7, <2>13, CollidingFacts
    <3>3. \A j \in 1 .. Len(WQ) : Clear(iss, e, WQ[j])  BY <1>2, <3>2, NothingPassed
    <3>4. a \in Ordered(iss, WQ)  BY <2>4, <3>1, ElementOfSeq
    <3>5. x \in Ordered(iss, WQ)  BY <1>1, <2>7, <3>3, <3>4, JoinedOrdered DEF Checked
    <3>6. s.q \in Seq(Ordered(iss, WQ))
      <4> HIDE DEF x, s, WQ
      <4>1. QED  BY <2>4, <2>6, <3>1, <3>5, CopiesReplaced
    <3>7. NoTwins(s.q)
      <4>1. SUFFICES ASSUME NEW b \in Address PROVE Copies(s.q, OfBlock(b[1])) <= 1  BY DEF NoTwins
      <4>2. Mark(a, OfBlock(b[1])) = Mark(x, OfBlock(b[1]))
        <5> HIDE DEF a, x
        <5>1. a \in OfBlock(b[1]) <=> x \in OfBlock(b[1])  BY <2>7, <2>9 DEF OfBlock
        <5>2. QED  BY <5>1 DEF Mark
      <4>3. Copies(s.q, OfBlock(b[1])) + Mark(a, OfBlock(b[1]))
              = Copies(q, OfBlock(b[1])) + Mark(x, OfBlock(b[1]))
        BY <2>11
      <4>4. Copies(s.q, OfBlock(b[1])) \in Nat /\ Copies(q, OfBlock(b[1])) \in Nat
            /\ Mark(a, OfBlock(b[1])) \in Nat
        BY <1>2, <2>10, CopiesNat DEF Mark
      <4>5. Copies(q, OfBlock(b[1])) <= 1  BY <3>1 DEF NoTwins
      <4> HIDE DEF s, q, a, x
      <4>6. QED  BY <4>2, <4>3, <4>4, <4>5
    <3>8. QED  BY <3>6, <3>7
  <2>14. Responses(iss) = Responses(iss) /\ s.returned \in Seq(Responses(iss))  BY <1>2, <2>6
  <2> HIDE DEF s, q, R, WQ, T, a, x
  <2>15. \A k \in 1 .. Len(iss) : Copies(q, Of(k)) + Mark(e, Of(k)) <= 1 =>
            Copies(s.q, Of(k)) + Copies(s.returned, To(k))
              = Copies(q, Of(k)) + Copies(R, To(k)) + Mark(e, Of(k))
    BY <2>12
  <2>16. Len(s.q) <= Len(q) + 1  BY <1>3, <2>10
  <2>17. QED  BY <2>6, <2>10, <2>13, <2>14, <2>15, <2>16
<1>8. CASE write = {} /\ read = {}
  <2> DEFINE x == [e EXCEPT !.forward_checked = TRUE]
  <2>1. s = [t EXCEPT !.q = Append(@, x)]
    BY <1>8 DEF Ch!CheckRead, Ch!WriteCollision, Ch!ReadCollision, Ch!Checked
  <2>2. s = [q |-> Append(q, x), returned |-> R]  BY <1>0, <2>1
  <2>3. s.q = Append(q, x) /\ s.returned = R /\ s = [q |-> s.q, returned |-> s.returned]  BY <2>2
  <2>4. x \in T /\ x.deps = e.deps /\ x.address = e.address  BY FitsChecked
  <2>5. x \in ChannelEntry /\ x.forward_checked  BY <1>1, <2>4 DEF Checked
  <2> HIDE DEF x
  <2>6. s.q \in Seq(T) /\ Len(s.q) = Len(q) + 1
    <3> HIDE DEF T, s
    <3>1. QED  BY <1>2, <2>3, <2>4, AppendProperties
  <2>7. \A S : Copies(s.q, S) = Copies(q, S) + Mark(x, S)
    <3> HIDE DEF T, s
    <3>1. QED  BY <1>2, <2>3, <2>4, CopiesAppend
  <2>8. ASSUME NEW k PROVE Copies(s.q, Of(k)) + Copies(s.returned, To(k))
                             = Copies(q, Of(k)) + Copies(R, To(k)) + Mark(e, Of(k))
    <3> DEFINE A == Copies(q, Of(k))  B == Copies(R, To(k))  me == Mark(e, Of(k))
    <3>1. A \in Nat /\ B \in Nat /\ me \in Nat  BY <1>4
    <3>2. Mark(x, Of(k)) = me  BY <1>1, <2>4, <2>5 DEF Mark, Of
    <3>3. Copies(s.q, Of(k)) = A + me /\ Copies(s.returned, To(k)) = B  BY <2>3, <2>7, <3>2
    <3> HIDE DEF A, B, me, s, q, R
    <3>4. QED  BY <3>1, <3>3 DEF A, B, me
  <2>9. ASSUME OneKind PROVE s.q \in Seq(Ordered(iss, WQ)) /\ NoTwins(s.q)
    <3>1. q \in Seq(Ordered(iss, WQ)) /\ NoTwins(q)  BY <1>2, <2>9
    <3>2. \A j \in 1 .. Len(WQ) : ~ Ch!SameAddress(WQ[j], e, MatchOffset)
      BY <1>1, <1>2, <1>8, <2>9, CollidingFacts
    <3>3. \A j \in 1 .. Len(WQ) : Clear(iss, e, WQ[j])  BY <1>2, <3>2, NothingPassed
    <3>4. x \in Ordered(iss, WQ)  BY <2>4, <2>5, <3>3 DEF Ordered, Clear
    <3>5. s.q \in Seq(Ordered(iss, WQ))
      <4> HIDE DEF s, WQ
      <4>1. QED  BY <2>3, <3>1, <3>4, AppendProperties
    <3>6. \A i \in 1 .. Len(q) : ~ Ch!SameAddress(q[i], e, FALSE)
      BY <1>1, <1>2, <1>8, <2>9, CollidingFacts
    <3>7. NoTwins(s.q)
      <4>1. SUFFICES ASSUME NEW b \in Address PROVE Copies(s.q, OfBlock(b[1])) <= 1  BY DEF NoTwins
      <4>2. Copies(s.q, OfBlock(b[1])) = Copies(q, OfBlock(b[1])) + Mark(x, OfBlock(b[1]))  BY <2>7
      <4>3. CASE x \in OfBlock(b[1])
        <5>1. e.address[1] = b[1]  BY <2>4, <4>3 DEF OfBlock
        <5>2. \A i \in 1 .. Len(q) : q[i] \notin OfBlock(b[1])
          BY <3>6, <5>1 DEF OfBlock, Ch!SameAddress
        <5>3. Copies(q, OfBlock(b[1])) = 0  BY <1>2, <5>2, CopiesNone
        <5>4. Mark(x, OfBlock(b[1])) = 1  BY <4>3 DEF Mark
        <5>5. QED  BY <4>2, <5>3, <5>4
      <4>4. CASE x \notin OfBlock(b[1])
        <5>1. Mark(x, OfBlock(b[1])) = 0  BY <4>4 DEF Mark
        <5>2. Copies(q, OfBlock(b[1])) \in Nat /\ Copies(q, OfBlock(b[1])) <= 1
          BY <1>2, <3>1, CopiesNat DEF NoTwins
        <5> HIDE DEF s, q
        <5>3. QED  BY <4>2, <5>1, <5>2
      <4>5. QED  BY <4>3, <4>4
    <3>8. QED  BY <3>5, <3>7
  <2>10. s.returned \in Seq(Responses(iss))  BY <1>2, <2>3
  <2> HIDE DEF s, q, R, WQ, T
  <2>11. QED  BY <1>3, <2>3, <2>6, <2>8, <2>9, <2>10
<1>9. QED  BY <1>6, <1>7, <1>8

\* What CheckReads makes of a queue: no request that wants a response is lost or doubled.
ReadsAre(iss, WQ, q, returned, t) ==
  /\ t.q \in Seq(Fits(iss, FALSE) \cap Checked) /\ Len(t.q) <= Len(q)
  /\ t.returned \in Seq(Responses(iss))
  /\ OneKind => t.q \in Seq(Ordered(iss, WQ)) /\ NoTwins(t.q)
  /\ \A k \in 1 .. Len(iss) :
       /\ iss[k].response_requested
       /\ Copies(q, Of(k)) + Copies(returned, To(k)) <= 1
       => Copies(t.q, Of(k)) + Copies(t.returned, To(k))
            = Copies(q, Of(k)) + Copies(returned, To(k))

\* Checking reads or prefetches: none is lost, and each that is checked may go below.
LEMMA ReadsChecked ==
  ASSUME Ch!ChannelAssumption, NEW c, c.match_offset = MatchOffset,
         NEW iss, c.WQ \in Seq(Fits(iss, MatchOffset)),
         NEW q \in Seq(Fits(iss, FALSE)), NEW returned \in Seq(Responses(iss)),
         OneKind => q \in Seq(Ordered(iss, c.WQ)) /\ NoTwins(q)
  PROVE  ReadsAre(iss, c.WQ, q, returned, Ch!CheckReads(c, q, returned))
<1> DEFINE T == Fits(iss, FALSE)  WQ == c.WQ
           v == Ch!CheckedPart(q)  u == Ch!UncheckedPart(q)
           was(k) == Copies(q, Of(k)) + Copies(returned, To(k))
           W == {k \in 1 .. Len(iss) : iss[k].response_requested /\ was(k) <= 1}
           s == [q |-> v, returned |-> returned]
           h == [iss |-> iss, WQ |-> WQ, len |-> Len(v), u |-> u, wanted |-> W,
                 total |-> [k \in W |-> was(k)]]
           t == Ch!CheckReads(c, q, returned)
<1>1. t = Reads!Carried(c, s, u)
  BY Zenon DEF Reads!Carried, Reads!Steps, Ch!CheckReads, Ch!Through, OfRead
<1>2. /\ WQ \in Seq(Fits(iss, MatchOffset))
      /\ q \in Seq(T) /\ returned \in Seq(Responses(iss))
      /\ OneKind => q \in Seq(Ordered(iss, WQ)) /\ NoTwins(q)
  OBVIOUS
<1>3. s = [q |-> s.q, returned |-> s.returned] /\ s.q = v /\ s.returned = returned  OBVIOUS
<1>4. /\ h.iss = iss /\ h.WQ = WQ /\ h.len = Len(v) /\ h.u = u /\ h.wanted = W
      /\ \A k \in W : h.total[k] = was(k)
  <2> HIDE DEF W, was, u, v, WQ
  <2>1. QED  OBVIOUS
<1>5. \A k \in W : k \in 1 .. Len(iss) /\ iss[k].response_requested /\ was(k) <= 1  OBVIOUS
<1>6. /\ v \in Seq(T) /\ u \in Seq(T)
      /\ \A i \in 1 .. Len(v) : v[i].forward_checked
      /\ \A i \in 1 .. Len(u) : ~ u[i].forward_checked
      /\ Len(v) + Len(u) = Len(q)
      /\ \A U : Copies(q, U) = Copies(v, U) + Copies(u, U)
  <2> HIDE DEF T
  <2>1. QED  BY <1>2, PartsOf
<1>7. OneKind => v \in Seq(Ordered(iss, WQ))
  BY <1>2, PartsOf
<1> SUFFICES /\ t.q \in Seq(T \cap Checked) /\ Len(t.q) <= Len(q)
             /\ t.returned \in Seq(Responses(iss))
             /\ OneKind => t.q \in Seq(Ordered(iss, WQ)) /\ NoTwins(t.q)
             /\ \A k \in W : Copies(t.q, Of(k)) + Copies(t.returned, To(k)) = was(k)
  BY DEF ReadsAre
<1> HIDE DEF h, W, s, u, v, t, WQ
<1>8. Len(v) \in Nat /\ Len(u) \in Nat /\ Len(q) \in Nat  BY <1>2, <1>6, LenProperties
<1>9. v \in Seq(T \cap Checked)
  <2>1. T \subseteq ChannelEntry  BY DEF Fits
  <2>2. \A i \in 1 .. Len(v) : v[i] \in T  BY <1>6, ElementOfSeq
  <2>3. \A i \in 1 .. Len(v) : v[i] \in T \cap Checked  BY <1>6, <2>1, <2>2 DEF Checked
  <2> HIDE DEF T
  <2>4. QED  BY <1>6, <1>8, <2>3, SeqDef
<1>10. \A U : Copies(v, U) \in Nat /\ Copies(u, U) \in Nat  BY <1>6, CopiesNat
<1>11. Rest(u, 0) = u /\ Rest(u, Len(u)) = << >>  BY <1>6, PartEnds
<1>12. ReadsSoFar(h, s, 0)
  <2>1. ASSUME NEW k \in W PROVE Pending(s, u, 0, k) = was(k)
    <3>1. Pending(s, u, 0, k) = Copies(v, Of(k)) + Copies(returned, To(k)) + Copies(u, Of(k))
      BY <1>3, <1>11 DEF Pending
    <3>2. Copies(q, Of(k)) = Copies(v, Of(k)) + Copies(u, Of(k))  BY <1>6
    <3>3. Copies(returned, To(k)) \in Nat  BY <1>2, CopiesNat
    <3>4. Copies(v, Of(k)) \in Nat /\ Copies(u, Of(k)) \in Nat  BY <1>10
    <3>5. QED  BY <3>1, <3>2, <3>3, <3>4
  <2>2. ASSUME OneKind PROVE NoTwins(v)
    <3>1. SUFFICES ASSUME NEW a \in Address PROVE Copies(v, OfBlock(a[1])) <= 1  BY DEF NoTwins
    <3>2. Copies(q, OfBlock(a[1])) <= 1  BY <1>2, <2>2 DEF NoTwins
    <3>3. QED  BY <1>6, <1>10, <3>2
  <2> HIDE DEF was
  <2>3. QED  BY <1>2, <1>3, <1>4, <1>7, <1>8, <1>9, <2>1, <2>2 DEF ReadsSoFar, T
<1>13. ASSUME NEW n \in 1 .. Len(u), NEW r, ReadsSoFar(h, r, n - 1)
       PROVE  ReadsSoFar(h, OfRead(c, r, u[n]), n)
  <2> DEFINE e == u[n]  x == OfRead(c, r, e)
  <2>1. /\ r = [q |-> r.q, returned |-> r.returned]
        /\ r.q \in Seq(T \cap Checked) /\ Len(r.q) <= Len(v) + (n - 1)
        /\ r.returned \in Seq(Responses(iss))
        /\ \A k \in W : Pending(r, u, n - 1, k) = was(k)
        /\ OneKind => r.q \in Seq(Ordered(iss, WQ)) /\ NoTwins(r.q)
    <3> HIDE DEF was
    <3>1. QED  BY <1>4, <1>13 DEF ReadsSoFar
  <2>2. e \in T /\ ~ e.forward_checked  BY <1>6, ElementOfSeq
  <2>3. x = Ch!CheckRead(c, r, e)  BY DEF OfRead
  <2> HIDE DEF e, x
  <2>4. /\ x = [q |-> x.q, returned |-> x.returned]
        /\ x.q \in Seq(T \cap Checked) /\ Len(x.q) <= Len(r.q) + 1
        /\ x.returned \in Seq(Responses(iss))
        /\ OneKind => x.q \in Seq(Ordered(iss, WQ)) /\ NoTwins(x.q)
        /\ \A k \in 1 .. Len(iss) :
             iss[k].response_requested /\ Copies(r.q, Of(k)) + Mark(e, Of(k)) <= 1 =>
               Copies(x.q, Of(k)) + Copies(x.returned, To(k))
                 = Copies(r.q, Of(k)) + Copies(r.returned, To(k)) + Mark(e, Of(k))
    <3>1. e \in Fits(iss, FALSE) /\ ReadState(iss, c.WQ, r)
      BY <2>1, <2>2 DEF ReadState, WQ
    <3>2. c.WQ \in Seq(Fits(iss, MatchOffset))  OBVIOUS
    <3>3. ReadStep(iss, c.WQ, r, e, Ch!CheckRead(c, r, e))
      <4> HIDE DEF T, was
      <4>1. QED  BY <2>2, <3>1, <3>2, ReadChecked
    <3>4. QED  BY <2>3, <3>3 DEF ReadStep, ReadState, WQ
  <2>5. ASSUME NEW k \in W PROVE Pending(x, u, n, k) = was(k)
    <3> DEFINE a == Copies(r.q, Of(k))  b == Copies(r.returned, To(k))  m == Mark(e, Of(k))
               d == Copies(Rest(u, n), Of(k))
               f == Copies(x.q, Of(k))  g == Copies(x.returned, To(k))
    <3>1. Copies(Rest(u, n - 1), Of(k)) = m + d /\ Rest(u, n) \in Seq(T)
      <4> HIDE DEF T
      <4>1. QED  BY <1>6, RestShrinks DEF e
    <3>2. a \in Nat /\ b \in Nat /\ m \in Nat /\ d \in Nat  BY <2>1, <3>1, CopiesNat DEF Mark
    <3>3. f \in Nat /\ g \in Nat  BY <2>4, CopiesNat
    <3>4. Pending(r, u, n - 1, k) = was(k) /\ was(k) <= 1  BY <1>5, <2>1
    <3>5. Pending(r, u, n - 1, k) = a + b + (m + d)  BY <3>1 DEF Pending
    <3>6. Pending(x, u, n, k) = f + g + d  BY DEF Pending
    <3>7. k \in 1 .. Len(iss) /\ iss[k].response_requested  BY <1>5
    <3>8. a + m <= 1 => f + g = a + b + m  BY <2>4, <3>7
    <3> HIDE DEF a, b, m, d, f, g, was
    <3>9. a + m <= 1  BY <3>2, <3>4, <3>5
    <3>10. f + g = a + b + m  BY <3>8, <3>9
    <3>11. QED  BY <3>2, <3>3, <3>4, <3>5, <3>6, <3>10
  <2>6. Len(x.q) <= Len(v) + n
    <3>1. Len(x.q) \in Nat /\ Len(r.q) \in Nat /\ n \in Nat  BY <1>8, <2>1, <2>4, LenProperties
    <3>2. QED  BY <1>8, <2>1, <2>4, <3>1
  <2> HIDE DEF was
  <2>7. ReadsSoFar(h, x, n)  BY <1>4, <2>4, <2>5, <2>6 DEF ReadsSoFar, T
  <2>8. QED  BY <2>7 DEF x, e
<1>14. ReadsSoFar(h, t, Len(u))
  BY <1>1, <1>8, <1>12, <1>13, Reads!KeptFor
<1>15. /\ t.q \in Seq(T \cap Checked) /\ Len(t.q) <= Len(v) + Len(u)
       /\ t.returned \in Seq(Responses(iss))
       /\ \A k \in W : Pending(t, u, Len(u), k) = was(k)
       /\ OneKind => t.q \in Seq(Ordered(iss, WQ)) /\ NoTwins(t.q)
  <2> HIDE DEF was
  <2>1. QED  BY <1>4, <1>14 DEF ReadsSoFar
<1>16. ASSUME NEW k \in W PROVE Copies(t.q, Of(k)) + Copies(t.returned, To(k)) = was(k)
  <2>1. Pending(t, u, Len(u), k) = Copies(t.q, Of(k)) + Copies(t.returned, To(k)) + 0
    BY <1>11, CopiesEmpty DEF Pending
  <2>2. Copies(t.q, Of(k)) \in Nat /\ Copies(t.returned, To(k)) \in Nat  BY <1>15, CopiesNat
  <2> HIDE DEF was
  <2>3. QED  BY <1>15, <2>1, <2>2
<1> HIDE DEF was
<1>17. QED  BY <1>6, <1>15, <1>16

-----------------------------------------------------------------------------
(* The steps of the channel *)

\* With fewer writes waiting, more reads may go below.
LEMMA OrderedFewer ==
  ASSUME NEW iss, NEW old, NEW WQ, FromWrites(WQ, old)
  PROVE  Ordered(iss, old) \subseteq Ordered(iss, WQ)
<1>1. SUFFICES ASSUME NEW e \in Ordered(iss, old) PROVE e \in Ordered(iss, WQ)  OBVIOUS
<1>2. ASSUME e.forward_checked, NEW j \in 1 .. Len(WQ) PROVE Clear(iss, e, WQ[j])
  <2>1. SUFFICES ASSUME NEW r \in e.deps, NEW w \in WQ[j].deps, w < r
                 PROVE  ~ Ch!SameAddress(iss[r], iss[w], MatchOffset)
    BY DEF Clear
  <2>2. PICK i \in 1 .. Len(old) : w \in old[i].deps  BY DEF FromWrites
  <2>3. Clear(iss, e, old[i])  BY <1>2 DEF Ordered
  <2>4. QED  BY <2>1, <2>2, <2>3 DEF Clear
<1>3. QED  BY <1>2 DEF Ordered

\* A channel with these queues and responses.
ChannelWith(RQ, WQ, PQ, returned, size, exact) ==
  [RQ |-> RQ, WQ |-> WQ, PQ |-> PQ, returned |-> returned,
   RQ_SIZE |-> size, WQ_SIZE |-> size, PQ_SIZE |-> size, match_offset |-> exact]

WithResponses(c, x) == [c EXCEPT !.returned = x]
WithQueues(c, x, y, z) == [c EXCEPT !.WQ = x, !.RQ = y, !.PQ = z]

\* A channel in which the responses are replaced.
LEMMA ResponsesChanged ==
  ASSUME NEW RQ, NEW WQ, NEW PQ, NEW returned, NEW size, NEW exact,
         NEW c, c = ChannelWith(RQ, WQ, PQ, returned, size, exact), NEW x
  PROVE  WithResponses(c, x) = ChannelWith(RQ, WQ, PQ, x, size, exact)
BY DEF ChannelWith, WithResponses

\* A channel in which the queues are replaced.
LEMMA QueuesChanged ==
  ASSUME NEW RQ, NEW WQ, NEW PQ, NEW returned, NEW size, NEW exact,
         NEW c, c = ChannelWith(RQ, WQ, PQ, returned, size, exact), NEW x, NEW y, NEW z
  PROVE  WithQueues(c, x, y, z) = ChannelWith(y, x, z, returned, size, exact)
<1>1. PICK d : d = [c EXCEPT !.WQ = x]  OBVIOUS
<1>2. PICK f : f = [d EXCEPT !.RQ = y]  OBVIOUS
<1>3. d = ChannelWith(RQ, x, PQ, returned, size, exact)  BY <1>1 DEF ChannelWith
<1>4. f = ChannelWith(y, x, PQ, returned, size, exact)  BY <1>2, <1>3 DEF ChannelWith
<1>5. [f EXCEPT !.PQ = z] = ChannelWith(y, x, z, returned, size, exact)  BY <1>4 DEF ChannelWith
<1>6. WithQueues(c, x, y, z) = [f EXCEPT !.PQ = z]  BY Zenon, <1>1, <1>2 DEF WithQueues
<1>7. QED  BY <1>5, <1>6

\* What the level below finds after check_collision().
Settled(c, iss, bel) ==
  /\ c = [RQ |-> c.RQ, WQ |-> c.WQ, PQ |-> c.PQ, returned |-> c.returned,
          RQ_SIZE |-> ChannelSize, WQ_SIZE |-> ChannelSize, PQ_SIZE |-> ChannelSize,
          match_offset |-> MatchOffset]
  /\ c.RQ \in Seq(Fits(iss, FALSE) \cap Checked) /\ Len(c.RQ) <= ChannelSize
  /\ c.PQ \in Seq(Fits(iss, FALSE) \cap Checked) /\ Len(c.PQ) <= ChannelSize
  /\ c.WQ \in Seq(Fits(iss, MatchOffset) \cap Checked) /\ Len(c.WQ) <= ChannelSize
  /\ c.returned \in Seq(Responses(iss))
  /\ OneKind => /\ c.RQ \in Seq(Ordered(iss, c.WQ)) /\ NoTwins(c.RQ)
                /\ c.PQ \in Seq(Ordered(iss, c.WQ)) /\ NoTwins(c.PQ)
                /\ bel \in Seq(Ordered(iss, c.WQ))

\* The requests in RQ, PQ and the responses that wait.
Present(c, k) == Copies(c.RQ, Of(k)) + Copies(c.PQ, Of(k)) + Copies(c.returned, To(k))

\* check_collision() as a whole keeps every request in its one place.
LEMMA CollisionsChecked ==
  ASSUME Ch!ChannelAssumption, ChannelTyped, Counted, InOrder
  PROVE  /\ Settled(Ch!CheckCollision(ch), issued, below)
         /\ \A k \in 1 .. Len(issued) : issued[k].response_requested =>
              Present(Ch!CheckCollision(ch), k) = Present(ch, k)
<1> DEFINE WQ == Ch!CheckWrites(ch)
           writes == [ch EXCEPT !.WQ = WQ]
           reads == Ch!CheckReads(writes, ch.RQ, ch.returned)
           prefetches == Ch!CheckReads(writes, ch.PQ, reads.returned)
           c == Ch!CheckCollision(ch)
<1>0. c = [writes EXCEPT !.RQ = reads.q, !.PQ = prefetches.q, !.returned = prefetches.returned]
  BY DEF Ch!CheckCollision
<1>1. MatchOffset \in BOOLEAN /\ ch.match_offset = MatchOffset  BY DEF Ch!ChannelAssumption, ChannelTyped, TypedAs
<1>2. /\ ch.RQ \in Seq(Fits(issued, FALSE)) /\ Len(ch.RQ) <= ChannelSize
      /\ ch.PQ \in Seq(Fits(issued, FALSE)) /\ Len(ch.PQ) <= ChannelSize
      /\ ch.WQ \in Seq(Fits(issued, MatchOffset)) /\ Len(ch.WQ) <= ChannelSize
      /\ ch.returned \in Seq(Responses(issued))
  BY DEF ChannelTyped, TypedAs
<1>3. /\ WQ \in Seq(Fits(issued, MatchOffset) \cap Checked)
      /\ Len(WQ) <= Len(ch.WQ) /\ FromWrites(WQ, ch.WQ)
  <2>1. ch.match_offset \in BOOLEAN /\ ch.WQ \in Seq(Fits(issued, ch.match_offset))
    BY <1>1, <1>2
  <2>2. WritesAre(issued, ch.match_offset, ch.WQ, Ch!CheckWrites(ch))  BY <2>1, WritesChecked
  <2>3. QED  BY <1>1, <2>2 DEF WritesAre
<1>4. writes = [RQ |-> ch.RQ, WQ |-> WQ, PQ |-> ch.PQ, returned |-> ch.returned,
                RQ_SIZE |-> ChannelSize, WQ_SIZE |-> ChannelSize, PQ_SIZE |-> ChannelSize,
                match_offset |-> MatchOffset]
  <2>1. ch = [RQ |-> ch.RQ, WQ |-> ch.WQ, PQ |-> ch.PQ, returned |-> ch.returned,
              RQ_SIZE |-> ChannelSize, WQ_SIZE |-> ChannelSize, PQ_SIZE |-> ChannelSize,
              match_offset |-> MatchOffset]
    BY DEF ChannelTyped, TypedAs
  <2> HIDE DEF WQ, reads, prefetches, c
  <2>2. QED  BY <2>1
<1> HIDE DEF c, writes, reads, prefetches, WQ
<1>5. writes.WQ = WQ /\ writes.match_offset = MatchOffset  BY <1>4
<1>6. c = [RQ |-> reads.q, WQ |-> WQ, PQ |-> prefetches.q, returned |-> prefetches.returned,
           RQ_SIZE |-> ChannelSize, WQ_SIZE |-> ChannelSize, PQ_SIZE |-> ChannelSize,
           match_offset |-> MatchOffset]
  BY <1>0, <1>4
<1>7. /\ c.RQ = reads.q /\ c.WQ = WQ /\ c.PQ = prefetches.q /\ c.returned = prefetches.returned
  BY <1>6
<1>8. writes.WQ \in Seq(Fits(issued, MatchOffset))
  <2>1. Fits(issued, MatchOffset) \cap Checked \subseteq Fits(issued, MatchOffset)  OBVIOUS
  <2>2. QED  BY <1>3, <1>5, <2>1, SeqLarger
<1>9. Ordered(issued, ch.WQ) \subseteq Ordered(issued, writes.WQ)  BY <1>3, <1>5, OrderedFewer
<1>10. OneKind => /\ ch.RQ \in Seq(Ordered(issued, writes.WQ)) /\ NoTwins(ch.RQ)
                  /\ ch.PQ \in Seq(Ordered(issued, writes.WQ)) /\ NoTwins(ch.PQ)
                  /\ below \in Seq(Ordered(issued, writes.WQ))
  BY <1>9, SeqLarger DEF InOrder
<1>11. /\ reads.q \in Seq(Fits(issued, FALSE) \cap Checked) /\ Len(reads.q) <= Len(ch.RQ)
       /\ reads.returned \in Seq(Responses(issued))
       /\ OneKind => reads.q \in Seq(Ordered(issued, writes.WQ)) /\ NoTwins(reads.q)
       /\ \A k \in 1 .. Len(issued) :
            /\ issued[k].response_requested
            /\ Copies(ch.RQ, Of(k)) + Copies(ch.returned, To(k)) <= 1
            => Copies(reads.q, Of(k)) + Copies(reads.returned, To(k))
                 = Copies(ch.RQ, Of(k)) + Copies(ch.returned, To(k))
  <2>1. ReadsAre(issued, writes.WQ, ch.RQ, ch.returned, Ch!CheckReads(writes, ch.RQ, ch.returned))
    BY <1>2, <1>5, <1>8, <1>10, ReadsChecked
  <2>2. QED  BY <2>1 DEF ReadsAre, reads
<1>12. /\ prefetches.q \in Seq(Fits(issued, FALSE) \cap Checked) /\ Len(prefetches.q) <= Len(ch.PQ)
       /\ prefetches.returned \in Seq(Responses(issued))
       /\ OneKind => prefetches.q \in Seq(Ordered(issued, writes.WQ)) /\ NoTwins(prefetches.q)
       /\ \A k \in 1 .. Len(issued) :
            /\ issued[k].response_requested
            /\ Copies(ch.PQ, Of(k)) + Copies(reads.returned, To(k)) <= 1
            => Copies(prefetches.q, Of(k)) + Copies(prefetches.returned, To(k))
                 = Copies(ch.PQ, Of(k)) + Copies(reads.returned, To(k))
  <2>1. ReadsAre(issued, writes.WQ, ch.PQ, reads.returned,
                 Ch!CheckReads(writes, ch.PQ, reads.returned))
    BY <1>2, <1>5, <1>8, <1>10, <1>11, ReadsChecked
  <2>2. QED  BY <2>1 DEF ReadsAre, prefetches
<1>13. ASSUME NEW k \in 1 .. Len(issued), issued[k].response_requested
       PROVE  Present(c, k) = Present(ch, k)
  <2> DEFINE R == Copies(ch.RQ, Of(k))  P == Copies(ch.PQ, Of(k))  x == Copies(ch.returned, To(k))
             R2 == Copies(reads.q, Of(k))  x2 == Copies(reads.returned, To(k))
             P3 == Copies(prefetches.q, Of(k))  x3 == Copies(prefetches.returned, To(k))
             b == Copies(below, Of(k))  d == Copies(collected, To(k))
  <2>1. R \in Nat /\ P \in Nat /\ x \in Nat /\ R2 \in Nat /\ x2 \in Nat /\ P3 \in Nat /\ x3 \in Nat
    BY <1>2, <1>11, <1>12, CopiesNat
  <2>2. b \in Nat /\ d \in Nat  BY CopiesNat DEF ChannelTyped, TypedAs
  <2>3. R + P + b + x + d = 1  BY <1>13 DEF Counted, OnePlace
  <2>4. R + x <= 1 => R2 + x2 = R + x  BY <1>11, <1>13
  <2>5. P + x2 <= 1 => P3 + x3 = P + x2  BY <1>12, <1>13
  <2>6. Present(c, k) = R2 + P3 + x3  BY <1>7 DEF Present
  <2>7. Present(ch, k) = R + P + x  BY DEF Present
  <2> HIDE DEF R, P, x, R2, x2, P3, x3, b, d
  <2>8. R2 + x2 = R + x  BY <2>1, <2>2, <2>3, <2>4
  <2>9. P3 + x3 = P + x2  BY <2>1, <2>2, <2>3, <2>5, <2>8
  <2>10. QED  BY <2>1, <2>6, <2>7, <2>8, <2>9
<1>14. Len(reads.q) <= ChannelSize /\ Len(prefetches.q) <= ChannelSize /\ Len(WQ) <= ChannelSize
  <2>1. Len(reads.q) \in Nat /\ Len(prefetches.q) \in Nat /\ Len(WQ) \in Nat
        /\ Len(ch.RQ) \in Nat /\ Len(ch.PQ) \in Nat /\ Len(ch.WQ) \in Nat
    BY <1>2, <1>3, <1>11, <1>12, LenProperties
  <2>2. ChannelSize \in Nat  BY DEF Ch!ChannelAssumption
  <2>3. QED  BY <1>2, <1>3, <1>11, <1>12, <2>1, <2>2
<1>15. Settled(c, issued, below)
  BY <1>3, <1>5, <1>6, <1>7, <1>10, <1>11, <1>12, <1>14 DEF Settled
<1>16. QED  BY <1>13, <1>15 DEF c

\* The request e is issued after those of iss.
Later(iss, e, new) ==
  /\ new \in Seq(ChannelEntry) /\ Len(new) = Len(iss) + 1 /\ Len(iss) \in Nat
  /\ \A i \in 1 .. Len(iss) : new[i] = iss[i]
  /\ new[Len(iss) + 1] = e /\ e.deps = {Len(iss) + 1} /\ e \in ChannelEntry /\ ~ e.forward_checked

\* With one more request issued the old entries still fit.
LEMMA FitsLater ==
  ASSUME NEW iss, NEW e, NEW new, Later(iss, e, new)
  PROVE  /\ \A exact : Fits(iss, exact) \subseteq Fits(new, exact)
         /\ \A exact : e \in Fits(new, exact)
         /\ Responses(iss) \subseteq Responses(new)
<1>1. ASSUME NEW exact, NEW x \in Fits(iss, exact) PROVE x \in Fits(new, exact)
  <2>1. /\ x \in ChannelEntry
        /\ \A d \in x.deps : /\ d \in 1 .. Len(iss) /\ Ch!SameAddress(iss[d], x, exact)
                             /\ iss[d].response_requested => x.response_requested
        /\ ~ x.forward_checked => \E d \in 1 .. Len(iss) : x.deps = {d} /\ iss[d].address = x.address
    BY DEF Fits
  <2>2. \A d \in 1 .. Len(iss) : d \in 1 .. Len(new) /\ new[d] = iss[d]  BY DEF Later
  <2>3. \A d \in x.deps : /\ d \in 1 .. Len(new) /\ Ch!SameAddress(new[d], x, exact)
                          /\ new[d].response_requested => x.response_requested
    BY <2>1, <2>2
  <2>4. ~ x.forward_checked => \E d \in 1 .. Len(new) : x.deps = {d} /\ new[d].address = x.address
    BY <2>1, <2>2
  <2>5. QED  BY <2>1, <2>3, <2>4 DEF Fits
<1>2. ASSUME NEW exact PROVE e \in Fits(new, exact)
  <2>1. Len(iss) + 1 \in 1 .. Len(new)  BY DEF Later
  <2>2. e.deps = {Len(iss) + 1} /\ new[Len(iss) + 1] = e /\ e \in ChannelEntry  BY DEF Later
  <2>3. Ch!SameAddress(e, e, exact)  BY DEF Ch!SameAddress
  <2>4. QED  BY <2>1, <2>2, <2>3 DEF Fits
<1>3. Responses(iss) \subseteq Responses(new)
  <2>1. 1 .. Len(iss) \subseteq 1 .. Len(new)  BY DEF Later
  <2>2. QED  BY <2>1 DEF Responses
<1>4. QED  BY <1>1, <1>2, <1>3

\* The new request does not disturb the order of the old ones, even if it is a write.
LEMMA OrderedLater ==
  ASSUME NEW iss, NEW e, NEW new, Later(iss, e, new), NEW WQ \in Seq(Fits(iss, MatchOffset))
  PROVE  /\ Ordered(iss, WQ) \cap Fits(iss, FALSE) \subseteq Ordered(new, WQ)
         /\ Ordered(iss, WQ) \cap Fits(iss, FALSE) \subseteq Ordered(new, Append(WQ, e))
<1>1. SUFFICES ASSUME NEW x \in Ordered(iss, WQ), x \in Fits(iss, FALSE)
               PROVE  x \in Ordered(new, WQ) /\ x \in Ordered(new, Append(WQ, e))
  OBVIOUS
<1>2. /\ x \in ChannelEntry /\ \A r \in x.deps : r \in 1 .. Len(iss)  BY <1>1 DEF Fits
<1>3. ASSUME x.forward_checked, NEW j \in 1 .. Len(WQ) PROVE Clear(new, x, WQ[j])
  <2>1. Clear(iss, x, WQ[j])  BY <1>3 DEF Ordered
  <2>2. WQ[j] \in Fits(iss, MatchOffset)  BY ElementOfSeq
  <2>3. \A w \in WQ[j].deps : w \in 1 .. Len(iss)  BY <2>2 DEF Fits
  <2>4. \A i \in 1 .. Len(iss) : new[i] = iss[i]  BY DEF Later
  <2>5. QED  BY <1>2, <2>1, <2>3, <2>4 DEF Clear
<1>4. Clear(new, x, e)
  <2>1. \A r \in x.deps, w \in e.deps : ~ (w < r)  BY <1>2 DEF Later
  <2>2. QED  BY <2>1 DEF Clear
<1>5. e \in ChannelEntry  BY DEF Later
<1>6. \A j \in 1 .. Len(Append(WQ, e)) : x.forward_checked => Clear(new, x, Append(WQ, e)[j])
  <2>1. Len(WQ) \in Nat  BY LenProperties
  <2>2. WQ \in Seq(ChannelEntry)
    <3>1. Fits(iss, MatchOffset) \subseteq ChannelEntry  BY DEF Fits
    <3>2. QED  BY <3>1, SeqLarger
  <2>3. /\ Len(Append(WQ, e)) = Len(WQ) + 1 /\ Append(WQ, e)[Len(WQ) + 1] = e
        /\ \A j \in 1 .. Len(WQ) : Append(WQ, e)[j] = WQ[j]
    BY <1>5, <2>2, AppendProperties
  <2>4. SUFFICES ASSUME NEW j \in 1 .. Len(Append(WQ, e)), x.forward_checked
                 PROVE  Clear(new, x, Append(WQ, e)[j])
    OBVIOUS
  <2>5. j \in 1 .. Len(WQ) \/ j = Len(WQ) + 1  BY <2>1, <2>3
  <2>6. QED  BY <1>3, <1>4, <2>3, <2>4, <2>5
<1>7. QED  BY <1>2, <1>3, <1>6 DEF Ordered

\* Nothing concerns the new request yet.
LEMMA NoneLater ==
  ASSUME NEW iss, Len(iss) \in Nat, NEW k, k = Len(iss) + 1
  PROVE  /\ \A exact : \A q \in Seq(Fits(iss, exact)) : Copies(q, Of(k)) = 0
         /\ \A q \in Seq(Responses(iss)) : Copies(q, To(k)) = 0
<1>1. k \notin 1 .. Len(iss)  OBVIOUS
<1>2. ASSUME NEW exact, NEW q \in Seq(Fits(iss, exact)) PROVE Copies(q, Of(k)) = 0
  <2>1. \A i \in 1 .. Len(q) : q[i] \in Fits(iss, exact)  BY ElementOfSeq
  <2>2. \A x \in Fits(iss, exact) : x \notin Of(k)  BY <1>1 DEF Fits, Of
  <2>3. QED  BY <2>1, <2>2, CopiesNone
<1>3. ASSUME NEW q \in Seq(Responses(iss)) PROVE Copies(q, To(k)) = 0
  <2>1. \A i \in 1 .. Len(q) : q[i] \in Responses(iss)  BY ElementOfSeq
  <2>2. \A x \in Responses(iss) : x \notin To(k)  BY <1>1 DEF Responses, To
  <2>3. QED  BY <2>1, <2>2, CopiesNone
<1>4. QED  BY <1>2, <1>3

\* Adding the new request to a queue.
LEMMA AddedLater ==
  ASSUME NEW iss, NEW e, NEW new, Later(iss, e, new), NEW exact, NEW q \in Seq(Fits(iss, exact))
  PROVE  /\ Append(q, e) \in Seq(Fits(new, exact)) /\ Len(Append(q, e)) = Len(q) + 1
         /\ \A k \in 1 .. Len(iss) : Copies(Append(q, e), Of(k)) = Copies(q, Of(k))
         /\ Copies(Append(q, e), Of(Len(iss) + 1)) = 1
         /\ NoTwins(q) => NoTwins(Append(q, e))
<1>1. q \in Seq(Fits(new, exact)) /\ e \in Fits(new, exact)  BY FitsLater, SeqLarger
<1>2. \A S : Copies(Append(q, e), S) = Copies(q, S) + Mark(e, S) /\ Copies(q, S) \in Nat
  BY <1>1, CopiesAppend, CopiesNat
<1>3. \A k \in 1 .. Len(iss) : Mark(e, Of(k)) = 0
  <2>1. \A k \in 1 .. Len(iss) : k # Len(iss) + 1  BY DEF Later
  <2>2. QED  BY <2>1 DEF Mark, Of, Later
<1>4. Mark(e, Of(Len(iss) + 1)) = 1  BY DEF Mark, Of, Later
<1>5. Copies(q, Of(Len(iss) + 1)) = 0  BY NoneLater DEF Later
<1>6. ASSUME NoTwins(q) PROVE NoTwins(Append(q, e))
  <2>1. SUFFICES ASSUME NEW a \in Address PROVE Copies(Append(q, e), OfBlock(a[1])) <= 1
    BY DEF NoTwins
  <2>2. Mark(e, OfBlock(a[1])) = 0  BY DEF Mark, OfBlock, Later
  <2>3. Copies(q, OfBlock(a[1])) <= 1  BY <1>6 DEF NoTwins
  <2>4. QED  BY <1>2, <2>2, <2>3
<1>7. \A k \in 1 .. Len(iss) : Copies(Append(q, e), Of(k)) = Copies(q, Of(k))
  <2>1. SUFFICES ASSUME NEW k \in 1 .. Len(iss) PROVE Copies(Append(q, e), Of(k)) = Copies(q, Of(k))
    OBVIOUS
  <2>2. Copies(Append(q, e), Of(k)) = Copies(q, Of(k)) + 0 /\ Copies(q, Of(k)) \in Nat  BY <1>2, <1>3
  <2>3. QED  BY <2>2
<1>8. Copies(Append(q, e), Of(Len(iss) + 1)) = 1  BY <1>2, <1>4, <1>5
<1>9. QED  BY <1>1, <1>6, <1>7, <1>8, AppendProperties

\* The request that Issue makes.
LEMMA NumberedLater ==
  ASSUME issued \in Seq(ChannelEntry), NEW type \in {"LOAD", "WRITE", "PREFETCH"}, NEW a \in Address,
         NEW t \in Translated, NEW wanted \in BOOLEAN
  PROVE  LET e == Ch!Numbered(type, a, t, wanted)
         IN  /\ Later(issued, e, Append(issued, e))
             /\ [e EXCEPT !.forward_checked = FALSE] = e
             /\ e.response_requested = wanted
<1> DEFINE e == Ch!Numbered(type, a, t, wanted)
<1>1. e = [type |-> type, address |-> a, v_address |-> a, is_translated |-> t,
           response_requested |-> wanted, deps |-> {Len(issued) + 1}, forward_checked |-> FALSE]
  BY DEF Ch!Numbered, Ch!Request
<1>2. Len(issued) \in Nat  BY LenProperties
<1>3. e \in ChannelEntry  BY <1>1, <1>2 DEF ChannelEntry
<1>4. e.deps = {Len(issued) + 1} /\ ~ e.forward_checked /\ e.response_requested = wanted  BY <1>1
<1>5. [e EXCEPT !.forward_checked = FALSE] = e
  <2>1. \A x \in ChannelEntry : ~ x.forward_checked => [x EXCEPT !.forward_checked = FALSE] = x
    BY DEF ChannelEntry
  <2>2. QED  BY <1>3, <1>4, <2>1
<1> HIDE DEF e
<1>6. Later(issued, e, Append(issued, e))  BY <1>2, <1>3, <1>4, AppendProperties DEF Later
<1>7. QED  BY <1>4, <1>5, <1>6 DEF e

\* Where the new request went, and what else there is.
LEMMA IssuedCounted ==
  ASSUME Counted, Len(issued) \in Nat,
         \A k \in 1 .. Len(issued) :
            /\ issued'[k] = issued[k]
            /\ Copies(ch.RQ', Of(k)) = Copies(ch.RQ, Of(k))
            /\ Copies(ch.PQ', Of(k)) = Copies(ch.PQ, Of(k)),
         ch.returned' = ch.returned, below' = below, collected' = collected,
         Len(issued') = Len(issued) + 1, NEW l, l = Len(issued) + 1,
         issued'[l].response_requested => Copies(ch.RQ', Of(l)) + Copies(ch.PQ', Of(l)) = 1,
         Copies(below, Of(l)) = 0, Copies(ch.returned, To(l)) = 0, Copies(collected, To(l)) = 0
  PROVE  Counted'
<1>1. SUFFICES ASSUME NEW k \in 1 .. Len(issued'), issued'[k].response_requested
               PROVE  Copies(ch.RQ', Of(k)) + Copies(ch.PQ', Of(k)) + Copies(below', Of(k))
                        + Copies(ch.returned', To(k)) + Copies(collected', To(k)) = 1
  BY DEF Counted, OnePlace, Of, To, ChannelEntry, ResponseType
<1>2. k \in 1 .. Len(issued) \/ k = l  OBVIOUS
<1>3. CASE k \in 1 .. Len(issued)
  <2>1. issued[k].response_requested  BY <1>1, <1>3
  <2>2. QED  BY <1>3, <2>1 DEF Counted, OnePlace
<1>4. CASE k = l
  <2>1. Copies(ch.RQ', Of(k)) + Copies(ch.PQ', Of(k)) = 1  BY <1>1, <1>4
  <2>2. QED  BY <1>4, <2>1
<1>5. QED  BY <1>2, <1>3, <1>4

\* A new request keeps the invariant.
LEMMA IssueKeeps ==
  ASSUME Ch!ChannelAssumption, ChannelTyped, Counted, InOrder,
         NEW type \in {"LOAD", "WRITE", "PREFETCH"}, NEW a \in Address, NEW t \in Translated,
         NEW wanted \in BOOLEAN, Ch!Issue(type, a, t, wanted)
  PROVE  ChannelTyped' /\ Counted' /\ InOrder'
<1> DEFINE e == Ch!Numbered(type, a, t, wanted)  l == Len(issued) + 1
<1>1. /\ ch = [RQ |-> ch.RQ, WQ |-> ch.WQ, PQ |-> ch.PQ, returned |-> ch.returned,
               RQ_SIZE |-> ChannelSize, WQ_SIZE |-> ChannelSize, PQ_SIZE |-> ChannelSize,
               match_offset |-> MatchOffset]
      /\ ch.RQ_SIZE = ChannelSize /\ ch.WQ_SIZE = ChannelSize /\ ch.PQ_SIZE = ChannelSize
      /\ ch.match_offset = MatchOffset
  BY DEF ChannelTyped, TypedAs
<1>2. /\ issued \in Seq(ChannelEntry) /\ Len(issued) \in Nat
      /\ ch.RQ \in Seq(Fits(issued, FALSE)) /\ Len(ch.RQ) <= ChannelSize /\ Len(ch.RQ) \in Nat
      /\ ch.PQ \in Seq(Fits(issued, FALSE)) /\ Len(ch.PQ) <= ChannelSize /\ Len(ch.PQ) \in Nat
      /\ ch.WQ \in Seq(Fits(issued, MatchOffset)) /\ Len(ch.WQ) <= ChannelSize /\ Len(ch.WQ) \in Nat
      /\ below \in Seq(Fits(issued, FALSE) \cap Checked)
      /\ ch.returned \in Seq(Responses(issued)) /\ collected \in Seq(Responses(issued))
  BY LenProperties DEF ChannelTyped, TypedAs
<1>3. /\ issued' = Append(issued, e) /\ below' = below /\ collected' = collected
      /\ Len(issued) < MaxRequests /\ MaxRequests \in Nat /\ ChannelSize \in Nat
  BY DEF Ch!Issue, Ch!ChannelAssumption
<1>4. /\ Later(issued, e, issued') /\ [e EXCEPT !.forward_checked = FALSE] = e
      /\ e.response_requested = wanted
  BY <1>2, <1>3, NumberedLater
<1>5. \/ type = "LOAD" /\ Len(ch.RQ) < ChannelSize /\ ch' = [ch EXCEPT !.RQ = Append(@, e)]
      \/ type = "WRITE" /\ ~ wanted /\ Len(ch.WQ) < ChannelSize /\ ch' = [ch EXCEPT !.WQ = Append(@, e)]
      \/ type = "PREFETCH" /\ Len(ch.PQ) < ChannelSize /\ ch' = [ch EXCEPT !.PQ = Append(@, e)]
  BY <1>1, <1>4 DEF Ch!Issue, Ch!CanAddRQ, Ch!CanAddWQ, Ch!CanAddPQ, Ch!AddRQ, Ch!AddWQ, Ch!AddPQ, Ch!Accept
<1> HIDE DEF e
<1>6. /\ Len(issued') = Len(issued) + 1 /\ issued' \in Seq(ChannelEntry)
      /\ \A i \in 1 .. Len(issued) : issued'[i] = issued[i]
      /\ issued'[l] = e
  BY <1>4 DEF Later
<1>7. /\ \A exact : Fits(issued, exact) \subseteq Fits(issued', exact)
      /\ Responses(issued) \subseteq Responses(issued')
  BY <1>4, FitsLater
<1>8. /\ ch.RQ \in Seq(Fits(issued', FALSE)) /\ ch.PQ \in Seq(Fits(issued', FALSE))
      /\ ch.WQ \in Seq(Fits(issued', MatchOffset))
      /\ ch.returned \in Seq(Responses(issued')) /\ collected \in Seq(Responses(issued'))
  BY <1>2, <1>7, SeqLarger
<1>9. below \in Seq(Fits(issued', FALSE) \cap Checked)
  <2>1. Fits(issued, FALSE) \cap Checked \subseteq Fits(issued', FALSE) \cap Checked  BY <1>7
  <2>2. QED  BY <1>2, <2>1, SeqLarger
<1>10. below \in Seq(Fits(issued, FALSE))
  <2>1. Fits(issued, FALSE) \cap Checked \subseteq Fits(issued, FALSE)  OBVIOUS
  <2>2. QED  BY <1>2, <2>1, SeqLarger
<1>11. /\ Copies(below, Of(l)) = 0 /\ Copies(ch.returned, To(l)) = 0 /\ Copies(collected, To(l)) = 0
       /\ Copies(ch.RQ, Of(l)) = 0 /\ Copies(ch.PQ, Of(l)) = 0
  BY <1>2, <1>10, NoneLater
<1>12. OneKind =>
         /\ ch.RQ \in Seq(Ordered(issued', ch.WQ)) /\ ch.PQ \in Seq(Ordered(issued', ch.WQ))
         /\ below \in Seq(Ordered(issued', ch.WQ))
         /\ ch.RQ \in Seq(Ordered(issued', Append(ch.WQ, e)))
         /\ ch.PQ \in Seq(Ordered(issued', Append(ch.WQ, e)))
         /\ below \in Seq(Ordered(issued', Append(ch.WQ, e)))
  <2>1. SUFFICES ASSUME OneKind, NEW q \in {ch.RQ, ch.PQ, below}
                 PROVE  q \in Seq(Ordered(issued', ch.WQ)) /\ q \in Seq(Ordered(issued', Append(ch.WQ, e)))
    OBVIOUS
  <2>2. q \in Seq(Ordered(issued, ch.WQ)) /\ q \in Seq(Fits(issued, FALSE))
    BY <1>2, <1>10, <2>1 DEF InOrder
  <2>3. q \in Seq(Ordered(issued, ch.WQ) \cap Fits(issued, FALSE))
    BY <2>2, SeqBoth
  <2>4. /\ Ordered(issued, ch.WQ) \cap Fits(issued, FALSE) \subseteq Ordered(issued', ch.WQ)
        /\ Ordered(issued, ch.WQ) \cap Fits(issued, FALSE) \subseteq Ordered(issued', Append(ch.WQ, e))
    BY <1>2, <1>4, OrderedLater
  <2> DEFINE A == Ordered(issued, ch.WQ) \cap Fits(issued, FALSE)
             B == Ordered(issued', ch.WQ)  C == Ordered(issued', Append(ch.WQ, e))
  <2>5. A \subseteq B /\ A \subseteq C /\ q \in Seq(A)  BY <2>3, <2>4
  <2> HIDE DEF A, B, C
  <2>6. q \in Seq(B) /\ q \in Seq(C)  BY <2>5, SeqLarger
  <2>7. QED  BY <2>6 DEF B, C
<1>13. OneKind => NoTwins(ch.RQ) /\ NoTwins(ch.PQ)  BY DEF InOrder
<1>14. ASSUME OneKind, NEW WQ PROVE e \in Ordered(issued', WQ)  BY <1>4 DEF Ordered, Later
<1>15. \A q \in Seq(Fits(issued, FALSE)) :
         /\ Append(q, e) \in Seq(Fits(issued', FALSE)) /\ Len(Append(q, e)) = Len(q) + 1
         /\ \A k \in 1 .. Len(issued) : Copies(Append(q, e), Of(k)) = Copies(q, Of(k))
         /\ Copies(Append(q, e), Of(l)) = 1
         /\ NoTwins(q) => NoTwins(Append(q, e))
  BY <1>4, AddedLater
<1>16. ch.WQ \in Seq(Fits(issued, MatchOffset)) => Append(ch.WQ, e) \in Seq(Fits(issued', MatchOffset))
         /\ Len(Append(ch.WQ, e)) = Len(ch.WQ) + 1
  BY <1>4, AddedLater
<1>17. CASE type = "LOAD"
  <2>1. /\ Len(ch.RQ) < ChannelSize
        /\ ch' = [RQ |-> Append(ch.RQ, e), WQ |-> ch.WQ, PQ |-> ch.PQ, returned |-> ch.returned,
                  RQ_SIZE |-> ChannelSize, WQ_SIZE |-> ChannelSize, PQ_SIZE |-> ChannelSize,
                  match_offset |-> MatchOffset]
    BY <1>1, <1>5, <1>17
  <2>2. /\ ch'.RQ = Append(ch.RQ, e) /\ ch'.WQ = ch.WQ /\ ch'.PQ = ch.PQ /\ ch'.returned = ch.returned
        /\ ch' = [RQ |-> ch'.RQ, WQ |-> ch'.WQ, PQ |-> ch'.PQ, returned |-> ch'.returned,
                  RQ_SIZE |-> ChannelSize, WQ_SIZE |-> ChannelSize, PQ_SIZE |-> ChannelSize,
                  match_offset |-> MatchOffset]
    BY <2>1
  <2>3. /\ ch'.RQ \in Seq(Fits(issued', FALSE)) /\ Len(ch'.RQ) = Len(ch.RQ) + 1
        /\ \A k \in 1 .. Len(issued) : Copies(ch'.RQ, Of(k)) = Copies(ch.RQ, Of(k))
        /\ Copies(ch'.RQ, Of(l)) = 1
        /\ NoTwins(ch.RQ) => NoTwins(ch'.RQ)
    BY <1>2, <1>15, <2>2
  <2>4. ChannelTyped'
    <3>1. /\ ch'.RQ \in Seq(Fits(issued', FALSE)) /\ ch'.PQ \in Seq(Fits(issued', FALSE))
          /\ ch'.WQ \in Seq(Fits(issued', MatchOffset))
          /\ ch'.returned \in Seq(Responses(issued'))
      BY <1>8, <2>2, <2>3
    <3>2. below' \in Seq(Fits(issued', FALSE) \cap Checked) /\ collected' \in Seq(Responses(issued'))
      BY <1>3, <1>8, <1>9
    <3>3. /\ Len(ch'.RQ) <= ChannelSize /\ Len(ch'.PQ) <= ChannelSize /\ Len(ch'.WQ) <= ChannelSize
          /\ Len(issued') <= MaxRequests
      BY <1>2, <1>3, <1>6, <2>1, <2>2, <2>3
    <3>4. QED  BY <1>6, <2>2, <3>1, <3>2, <3>3 DEF TypedAs, ChannelTyped
  <2>5. Counted'
    BY <1>2, <1>3, <1>6, <1>11, <2>2, <2>3, IssuedCounted
  <2>6. OneKind => ch'.RQ \in Seq(Ordered(issued', ch.WQ))
    BY <1>12, <1>14, <2>2, AppendProperties
  <2>7. InOrder'  BY <1>3, <1>12, <1>13, <2>2, <2>3, <2>6 DEF InOrder, OneKind
  <2>8. QED  BY <2>4, <2>5, <2>7
<1>18. CASE type = "WRITE"
  <2>1. /\ Len(ch.WQ) < ChannelSize /\ ~ wanted
        /\ ch' = [RQ |-> ch.RQ, WQ |-> Append(ch.WQ, e), PQ |-> ch.PQ, returned |-> ch.returned,
                  RQ_SIZE |-> ChannelSize, WQ_SIZE |-> ChannelSize, PQ_SIZE |-> ChannelSize,
                  match_offset |-> MatchOffset]
    BY <1>1, <1>5, <1>18
  <2>2. /\ ch'.RQ = ch.RQ /\ ch'.WQ = Append(ch.WQ, e) /\ ch'.PQ = ch.PQ /\ ch'.returned = ch.returned
        /\ ch' = [RQ |-> ch'.RQ, WQ |-> ch'.WQ, PQ |-> ch'.PQ, returned |-> ch'.returned,
                  RQ_SIZE |-> ChannelSize, WQ_SIZE |-> ChannelSize, PQ_SIZE |-> ChannelSize,
                  match_offset |-> MatchOffset]
    BY <2>1
  <2>3. ch'.WQ \in Seq(Fits(issued', MatchOffset)) /\ Len(ch'.WQ) = Len(ch.WQ) + 1
    BY <1>2, <1>16, <2>2
  <2>4. ChannelTyped'
    <3>1. /\ ch'.RQ \in Seq(Fits(issued', FALSE)) /\ ch'.PQ \in Seq(Fits(issued', FALSE))
          /\ ch'.WQ \in Seq(Fits(issued', MatchOffset))
          /\ ch'.returned \in Seq(Responses(issued'))
      BY <1>8, <2>2, <2>3
    <3>2. below' \in Seq(Fits(issued', FALSE) \cap Checked) /\ collected' \in Seq(Responses(issued'))
      BY <1>3, <1>8, <1>9
    <3>3. /\ Len(ch'.RQ) <= ChannelSize /\ Len(ch'.PQ) <= ChannelSize /\ Len(ch'.WQ) <= ChannelSize
          /\ Len(issued') <= MaxRequests
      BY <1>2, <1>3, <1>6, <2>1, <2>2, <2>3
    <3>4. QED  BY <1>6, <2>2, <3>1, <3>2, <3>3 DEF TypedAs, ChannelTyped
  <2>5. Counted'
    BY <1>2, <1>3, <1>4, <1>6, <1>11, <2>1, <2>2, IssuedCounted
  <2>6. InOrder'  BY <1>3, <1>12, <1>13, <2>2 DEF InOrder, OneKind
  <2>7. QED  BY <2>4, <2>5, <2>6
<1>19. CASE type = "PREFETCH"
  <2>1. /\ Len(ch.PQ) < ChannelSize
        /\ ch' = [RQ |-> ch.RQ, WQ |-> ch.WQ, PQ |-> Append(ch.PQ, e), returned |-> ch.returned,
                  RQ_SIZE |-> ChannelSize, WQ_SIZE |-> ChannelSize, PQ_SIZE |-> ChannelSize,
                  match_offset |-> MatchOffset]
    BY <1>1, <1>5, <1>19
  <2>2. /\ ch'.RQ = ch.RQ /\ ch'.WQ = ch.WQ /\ ch'.PQ = Append(ch.PQ, e) /\ ch'.returned = ch.returned
        /\ ch' = [RQ |-> ch'.RQ, WQ |-> ch'.WQ, PQ |-> ch'.PQ, returned |-> ch'.returned,
                  RQ_SIZE |-> ChannelSize, WQ_SIZE |-> ChannelSize, PQ_SIZE |-> ChannelSize,
                  match_offset |-> MatchOffset]
    BY <2>1
  <2>3. /\ ch'.PQ \in Seq(Fits(issued', FALSE)) /\ Len(ch'.PQ) = Len(ch.PQ) + 1
        /\ \A k \in 1 .. Len(issued) : Copies(ch'.PQ, Of(k)) = Copies(ch.PQ, Of(k))
        /\ Copies(ch'.PQ, Of(l)) = 1
        /\ NoTwins(ch.PQ) => NoTwins(ch'.PQ)
    BY <1>2, <1>15, <2>2
  <2>4. ChannelTyped'
    <3>1. /\ ch'.RQ \in Seq(Fits(issued', FALSE)) /\ ch'.PQ \in Seq(Fits(issued', FALSE))
          /\ ch'.WQ \in Seq(Fits(issued', MatchOffset))
          /\ ch'.returned \in Seq(Responses(issued'))
      BY <1>8, <2>2, <2>3
    <3>2. below' \in Seq(Fits(issued', FALSE) \cap Checked) /\ collected' \in Seq(Responses(issued'))
      BY <1>3, <1>8, <1>9
    <3>3. /\ Len(ch'.RQ) <= ChannelSize /\ Len(ch'.PQ) <= ChannelSize /\ Len(ch'.WQ) <= ChannelSize
          /\ Len(issued') <= MaxRequests
      BY <1>2, <1>3, <1>6, <2>1, <2>2, <2>3
    <3>4. QED  BY <1>6, <2>2, <3>1, <3>2, <3>3 DEF TypedAs, ChannelTyped
  <2>5. Counted'
    BY <1>2, <1>3, <1>6, <1>11, <2>2, <2>3, IssuedCounted
  <2>6. OneKind => ch'.PQ \in Seq(Ordered(issued', ch.WQ))
    BY <1>12, <1>14, <2>2, AppendProperties
  <2>7. InOrder'  BY <1>3, <1>12, <1>13, <2>2, <2>3, <2>6 DEF InOrder, OneKind
  <2>8. QED  BY <2>4, <2>5, <2>7
<1>20. QED  BY <1>17, <1>18, <1>19

\* The rest of a queue of writes.
LEMMA FromRest ==
  ASSUME NEW T, NEW q \in Seq(T), NEW n \in 0 .. Len(q)
  PROVE  FromWrites(Rest(q, n), q)
<1>1. /\ First(q, n) \in Seq(T) /\ Rest(q, n) \in Seq(T)
      /\ \A S : Copies(q, S) = Copies(First(q, n), S) + Copies(Rest(q, n), S)
  BY CopiesSplit
<1>2. SUFFICES ASSUME NEW j \in 1 .. Len(Rest(q, n)) PROVE \E i \in 1 .. Len(q) : q[i] = Rest(q, n)[j]
  BY DEF FromWrites
<1> DEFINE x == Rest(q, n)[j]
<1>3. Copies(Rest(q, n), {x}) # 0  BY <1>1, CopiesNone
<1>4. Copies(Rest(q, n), {x}) \in Nat /\ Copies(First(q, n), {x}) \in Nat  BY <1>1, CopiesNat
<1>5. Copies(q, {x}) = Copies(First(q, n), {x}) + Copies(Rest(q, n), {x})  BY <1>1
<1>6. Copies(q, {x}) # 0  BY <1>3, <1>4, <1>5
<1>7. QED  BY <1>6, CopiesNone

\* What is left of a queue, and what was taken.
LEMMA RestFacts ==
  ASSUME NEW T, NEW q \in Seq(T), NEW n \in 0 .. Len(q)
  PROVE  /\ First(q, n) \in Seq(T) /\ Rest(q, n) \in Seq(T) /\ Len(Rest(q, n)) <= Len(q)
         /\ \A S : Copies(q, S) = Copies(First(q, n), S) + Copies(Rest(q, n), S)
         /\ NoTwins(q) => NoTwins(Rest(q, n))
<1>1. /\ First(q, n) \in Seq(T) /\ Rest(q, n) \in Seq(T)
      /\ \A S : Copies(q, S) = Copies(First(q, n), S) + Copies(Rest(q, n), S)
  BY CopiesSplit
<1>2. \A S : Copies(First(q, n), S) \in Nat /\ Copies(Rest(q, n), S) \in Nat  BY <1>1, CopiesNat
<1>3. Copies(q, T) = Len(q) /\ Copies(Rest(q, n), T) = Len(Rest(q, n))  BY <1>1, CopiesAll
<1>4. Len(Rest(q, n)) <= Len(q)
  <2>1. Len(q) = Copies(First(q, n), T) + Copies(Rest(q, n), T)  BY <1>1, <1>3
  <2>2. QED  BY <1>2, <1>3, <2>1
<1>5. ASSUME NoTwins(q) PROVE NoTwins(Rest(q, n))
  <2>1. SUFFICES ASSUME NEW a \in Address PROVE Copies(Rest(q, n), OfBlock(a[1])) <= 1  BY DEF NoTwins
  <2> DEFINE S == OfBlock(a[1])
  <2>2. Copies(q, S) <= 1  BY <1>5 DEF NoTwins
  <2> HIDE DEF S
  <2>3. Copies(q, S) = Copies(First(q, n), S) + Copies(Rest(q, n), S)  BY <1>1
  <2>4. Copies(First(q, n), S) \in Nat /\ Copies(Rest(q, n), S) \in Nat  BY <1>2
  <2>5. Copies(Rest(q, n), S) <= 1  BY <2>2, <2>3, <2>4
  <2>6. QED  BY <2>5 DEF S
<1>6. QED  BY <1>1, <1>4, <1>5

\* A cycle of the level below keeps the invariant.
LEMMA CycleKeeps ==
  ASSUME Ch!ChannelAssumption, ChannelTyped, Counted, InOrder, Ch!Cycle
  PROVE  ChannelTyped' /\ Counted' /\ InOrder'
<1> DEFINE c == Ch!CheckCollision(ch)
<1>1. PICK w \in 0 .. Len(c.WQ), r \in 0 .. Len(c.RQ), p \in 0 .. Len(c.PQ) :
        /\ ch' = [c EXCEPT !.WQ = Ch!Rest(@, w), !.RQ = Ch!Rest(@, r), !.PQ = Ch!Rest(@, p)]
        /\ LET taken == Ch!First(c.RQ, r) \o Ch!First(c.PQ, p)
           IN  below' = below \o Ch!Among(taken, {e \in Ch!Elements(taken) : e.response_requested})
        /\ UNCHANGED <<issued, collected>>
  BY DEF Ch!Cycle
<1> DEFINE taken == First(c.RQ, r) \o First(c.PQ, p)
           S == {e \in Elements(taken) : e.response_requested}
           A == Among(taken, S)
<1>2. /\ ch' = [c EXCEPT !.WQ = Rest(@, w), !.RQ = Rest(@, r), !.PQ = Rest(@, p)]
      /\ below' = below \o A /\ issued' = issued /\ collected' = collected
  BY <1>1, ChannelQueues, ChannelAmong
<1>3. /\ Settled(c, issued, below)
      /\ \A k \in 1 .. Len(issued) : issued[k].response_requested => Present(c, k) = Present(ch, k)
  BY CollisionsChecked
<1> HIDE DEF c
<1>4. /\ c = [RQ |-> c.RQ, WQ |-> c.WQ, PQ |-> c.PQ, returned |-> c.returned,
              RQ_SIZE |-> ChannelSize, WQ_SIZE |-> ChannelSize, PQ_SIZE |-> ChannelSize,
              match_offset |-> MatchOffset]
      /\ c.RQ \in Seq(Fits(issued, FALSE) \cap Checked) /\ Len(c.RQ) <= ChannelSize
      /\ c.PQ \in Seq(Fits(issued, FALSE) \cap Checked) /\ Len(c.PQ) <= ChannelSize
      /\ c.WQ \in Seq(Fits(issued, MatchOffset) \cap Checked) /\ Len(c.WQ) <= ChannelSize
      /\ c.returned \in Seq(Responses(issued))
      /\ OneKind => /\ c.RQ \in Seq(Ordered(issued, c.WQ)) /\ NoTwins(c.RQ)
                    /\ c.PQ \in Seq(Ordered(issued, c.WQ)) /\ NoTwins(c.PQ)
                    /\ below \in Seq(Ordered(issued, c.WQ))
  BY <1>3 DEF Settled
<1> DEFINE WQ == Rest(c.WQ, w)  RQ == Rest(c.RQ, r)  PQ == Rest(c.PQ, p)
           R == First(c.RQ, r)  P == First(c.PQ, p)
<1>5. /\ ch' = [RQ |-> RQ, WQ |-> WQ, PQ |-> PQ, returned |-> c.returned,
                RQ_SIZE |-> ChannelSize, WQ_SIZE |-> ChannelSize, PQ_SIZE |-> ChannelSize,
                match_offset |-> MatchOffset]
  <2> HIDE DEF taken, S, A
  <2>1. ch' = WithQueues(c, WQ, RQ, PQ)  BY <1>2 DEF WithQueues
  <2>2. c = [RQ |-> c.RQ, WQ |-> c.WQ, PQ |-> c.PQ, returned |-> c.returned,
             RQ_SIZE |-> ChannelSize, WQ_SIZE |-> ChannelSize, PQ_SIZE |-> ChannelSize,
             match_offset |-> MatchOffset]
    BY <1>4
  <2> HIDE DEF WQ, RQ, PQ, R, P
  <2>3. c = ChannelWith(c.RQ, c.WQ, c.PQ, c.returned, ChannelSize, MatchOffset)  BY <2>2 DEF ChannelWith
  <2>4. WithQueues(c, WQ, RQ, PQ) = ChannelWith(RQ, WQ, PQ, c.returned, ChannelSize, MatchOffset)
    BY <2>3, QueuesChanged
  <2>5. QED  BY <2>1, <2>4 DEF ChannelWith
<1>6. /\ RQ \in Seq(Fits(issued, FALSE) \cap Checked) /\ R \in Seq(Fits(issued, FALSE) \cap Checked)
      /\ Len(RQ) <= Len(c.RQ) /\ \A U : Copies(c.RQ, U) = Copies(R, U) + Copies(RQ, U)
      /\ NoTwins(c.RQ) => NoTwins(RQ)
  BY <1>4, RestFacts
<1>7. /\ PQ \in Seq(Fits(issued, FALSE) \cap Checked) /\ P \in Seq(Fits(issued, FALSE) \cap Checked)
      /\ Len(PQ) <= Len(c.PQ) /\ \A U : Copies(c.PQ, U) = Copies(P, U) + Copies(PQ, U)
      /\ NoTwins(c.PQ) => NoTwins(PQ)
  BY <1>4, RestFacts
<1>8. /\ WQ \in Seq(Fits(issued, MatchOffset) \cap Checked) /\ Len(WQ) <= Len(c.WQ)
      /\ FromWrites(WQ, c.WQ)
  BY <1>4, RestFacts, FromRest
<1>9. OneKind => /\ RQ \in Seq(Ordered(issued, c.WQ)) /\ R \in Seq(Ordered(issued, c.WQ))
                 /\ PQ \in Seq(Ordered(issued, c.WQ)) /\ P \in Seq(Ordered(issued, c.WQ))
  BY <1>4, RestFacts
<1>10. taken \in Seq(Fits(issued, FALSE) \cap Checked)
       /\ \A U : Copies(taken, U) = Copies(R, U) + Copies(P, U)
  BY <1>6, <1>7, ConcatProperties, CopiesConcat
<1>11. OneKind => taken \in Seq(Ordered(issued, c.WQ))  BY <1>9, ConcatProperties
<1>12. /\ A \in Seq(Fits(issued, FALSE) \cap Checked)
       /\ \A U : Copies(A, U) = Copies(taken, S \cap U)
       /\ OneKind => A \in Seq(Ordered(issued, c.WQ))
  <2> DEFINE T == Fits(issued, FALSE) \cap Checked  O == Ordered(issued, c.WQ)
  <2>1. taken \in Seq(T) /\ (OneKind => taken \in Seq(O))  BY <1>10, <1>11
  <2> HIDE DEF T, O, taken, S
  <2>2. A \in Seq(S \cap T) /\ \A U : Copies(A, U) = Copies(taken, S \cap U)  BY <2>1, AmongFacts
  <2>3. OneKind => A \in Seq(S \cap O)  BY <2>1, AmongFacts
  <2>4. S \cap T \subseteq T /\ S \cap O \subseteq O  OBVIOUS
  <2> HIDE DEF A
  <2>5. A \in Seq(T)  BY <2>2, <2>4, SeqLarger
  <2>6. OneKind => A \in Seq(O)  BY <2>3, <2>4, SeqLarger
  <2>7. QED  BY <2>2, <2>5, <2>6 DEF T, O
<1>13. ASSUME NEW k \in 1 .. Len(issued), issued[k].response_requested
       PROVE  Copies(A, Of(k)) = Copies(taken, Of(k))
  <2>1. \A e \in Elements(taken) : e \in Fits(issued, FALSE)
    <3> HIDE DEF taken
    <3>1. QED  BY <1>10, ElementsSubset
  <2>2. \A e \in Elements(taken) : e \in S \cap Of(k) <=> e \in Of(k)
    <3> HIDE DEF taken
    <3>1. QED  BY <1>13, <2>1 DEF Fits, Of
  <2> HIDE DEF taken, S, A
  <2>3. Copies(taken, S \cap Of(k)) = Copies(taken, Of(k))  BY <1>10, <2>2, CopiesAgree
  <2>4. QED  BY <1>12, <2>3
<1> HIDE DEF taken, S, A, RQ, PQ, WQ, R, P
<1>14. ch'.RQ = RQ /\ ch'.WQ = WQ /\ ch'.PQ = PQ /\ ch'.returned = c.returned  BY <1>5
<1>15. /\ issued \in Seq(ChannelEntry) /\ Len(issued) <= MaxRequests
       /\ below \in Seq(Fits(issued, FALSE) \cap Checked) /\ collected \in Seq(Responses(issued))
       /\ ChannelSize \in Nat
  BY DEF ChannelTyped, TypedAs, Ch!ChannelAssumption
<1>16. below' \in Seq(Fits(issued, FALSE) \cap Checked)
  BY <1>2, <1>12, <1>15, ConcatProperties
<1>17. ChannelTyped'
  <2>1. RQ \in Seq(Fits(issued, FALSE)) /\ PQ \in Seq(Fits(issued, FALSE))
        /\ WQ \in Seq(Fits(issued, MatchOffset))
    <3>1. /\ Fits(issued, FALSE) \cap Checked \subseteq Fits(issued, FALSE)
          /\ Fits(issued, MatchOffset) \cap Checked \subseteq Fits(issued, MatchOffset)
      OBVIOUS
    <3>2. QED  BY <1>6, <1>7, <1>8, <3>1, SeqLarger
  <2>2. Len(RQ) <= ChannelSize /\ Len(PQ) <= ChannelSize /\ Len(WQ) <= ChannelSize
    <3>1. Len(RQ) \in Nat /\ Len(PQ) \in Nat /\ Len(WQ) \in Nat
          /\ Len(c.RQ) \in Nat /\ Len(c.PQ) \in Nat /\ Len(c.WQ) \in Nat
      BY <1>4, <1>6, <1>7, <1>8, LenProperties
    <3>2. QED  BY <1>4, <1>6, <1>7, <1>8, <1>15, <3>1
  <2>3. ch' = [RQ |-> ch'.RQ, WQ |-> ch'.WQ, PQ |-> ch'.PQ, returned |-> ch'.returned,
               RQ_SIZE |-> ChannelSize, WQ_SIZE |-> ChannelSize, PQ_SIZE |-> ChannelSize,
               match_offset |-> MatchOffset]
    BY <1>5, <1>14
  <2>4. TypedAs(ch', issued, below', collected)
    BY <1>4, <1>14, <1>15, <1>16, <2>1, <2>2, <2>3 DEF TypedAs
  <2>5. QED  BY <1>2, <2>4 DEF ChannelTyped
<1>18. Counted'
  <2>1. SUFFICES ASSUME NEW k \in 1 .. Len(issued), issued[k].response_requested
                 PROVE  Copies(RQ, Of(k)) + Copies(PQ, Of(k)) + Copies(below', Of(k))
                          + Copies(c.returned, To(k)) + Copies(collected, To(k)) = 1
    BY <1>2, <1>14 DEF Counted, OnePlace, Of, To, ChannelEntry, ResponseType
  <2> DEFINE q == Copies(RQ, Of(k))  s == Copies(PQ, Of(k))  b == Copies(below, Of(k))
             x == Copies(c.returned, To(k))  d == Copies(collected, To(k))
             q1 == Copies(R, Of(k))  s1 == Copies(P, Of(k))
             q2 == Copies(ch.RQ, Of(k))  s2 == Copies(ch.PQ, Of(k))  x2 == Copies(ch.returned, To(k))
  <2>2. /\ q \in Nat /\ s \in Nat /\ b \in Nat /\ x \in Nat /\ d \in Nat /\ q1 \in Nat /\ s1 \in Nat
    BY <1>4, <1>6, <1>7, <1>15, CopiesNat
  <2>3. q2 \in Nat /\ s2 \in Nat /\ x2 \in Nat  BY CopiesNat DEF ChannelTyped, TypedAs
  <2>4. Copies(below', Of(k)) = b + Copies(A, Of(k))  BY <1>2, <1>12, <1>15, CopiesConcat
  <2>5. Copies(A, Of(k)) = q1 + s1  BY <1>10, <1>13, <2>1
  <2>6. Present(c, k) = (q1 + q) + (s1 + s) + x  BY <1>6, <1>7 DEF Present
  <2>7. Present(c, k) = q2 + s2 + x2  BY <1>3, <2>1 DEF Present
  <2>8. q2 + s2 + b + x2 + d = 1  BY <2>1 DEF Counted, OnePlace
  <2> HIDE DEF q, s, b, x, d, q1, s1, q2, s2, x2
  <2>9. q + s + (b + (q1 + s1)) + x + d = 1  BY <2>2, <2>3, <2>6, <2>7, <2>8
  <2>10. Copies(below', Of(k)) = b + (q1 + s1)  BY <2>4, <2>5
  <2>11. QED  BY <2>9, <2>10 DEF q, s, x, d
<1>19. InOrder'
  <2>1. SUFFICES ASSUME OneKind
                 PROVE  /\ RQ \in Seq(Ordered(issued, WQ)) /\ NoTwins(RQ)
                        /\ PQ \in Seq(Ordered(issued, WQ)) /\ NoTwins(PQ)
                        /\ below' \in Seq(Ordered(issued, WQ))
    BY <1>2, <1>14 DEF InOrder, OneKind
  <2>2. Ordered(issued, c.WQ) \subseteq Ordered(issued, WQ)  BY <1>8, OrderedFewer
  <2>3. below' \in Seq(Ordered(issued, c.WQ))  BY <1>2, <1>4, <1>12, <2>1, ConcatProperties
  <2>4. RQ \in Seq(Ordered(issued, c.WQ)) /\ PQ \in Seq(Ordered(issued, c.WQ))  BY <1>9, <2>1
  <2>5. RQ \in Seq(Ordered(issued, WQ)) /\ PQ \in Seq(Ordered(issued, WQ))
        /\ below' \in Seq(Ordered(issued, WQ))
    BY <2>2, <2>3, <2>4, SeqLarger
  <2>6. QED  BY <1>4, <1>6, <1>7, <2>1, <2>5
<1>20. QED  BY <1>17, <1>18, <1>19

\* The answer is the last place of the requests that waited below.
LEMMA RespondKeeps ==
  ASSUME Ch!ChannelAssumption, ChannelTyped, Counted, InOrder, NEW i \in 1 .. Len(below), Ch!Respond(i)
  PROVE  ChannelTyped' /\ Counted' /\ InOrder'
<1> DEFINE T == Fits(issued, FALSE) \cap Checked
           e == below[i]  x == Ch!ResponseTo(e)
           A == First(below, i - 1)  B == Rest(below, i)
<1>1. /\ ch' = [ch EXCEPT !.returned = Append(@, x)]
      /\ below' = A \o B
      /\ issued' = issued /\ collected' = collected
  BY ChannelQueues DEF Ch!Respond
<1>2. /\ ch = [RQ |-> ch.RQ, WQ |-> ch.WQ, PQ |-> ch.PQ, returned |-> ch.returned,
               RQ_SIZE |-> ChannelSize, WQ_SIZE |-> ChannelSize, PQ_SIZE |-> ChannelSize,
               match_offset |-> MatchOffset]
      /\ issued \in Seq(ChannelEntry) /\ Len(issued) <= MaxRequests
      /\ ch.RQ \in Seq(Fits(issued, FALSE)) /\ Len(ch.RQ) <= ChannelSize
      /\ ch.PQ \in Seq(Fits(issued, FALSE)) /\ Len(ch.PQ) <= ChannelSize
      /\ ch.WQ \in Seq(Fits(issued, MatchOffset)) /\ Len(ch.WQ) <= ChannelSize
      /\ below \in Seq(T)
      /\ ch.returned \in Seq(Responses(issued)) /\ collected \in Seq(Responses(issued))
  BY DEF ChannelTyped, TypedAs
<1> HIDE DEF x
<1>3. /\ ch' = [RQ |-> ch.RQ, WQ |-> ch.WQ, PQ |-> ch.PQ, returned |-> Append(ch.returned, x),
                RQ_SIZE |-> ChannelSize, WQ_SIZE |-> ChannelSize, PQ_SIZE |-> ChannelSize,
                match_offset |-> MatchOffset]
  <2> HIDE DEF A, B, T, e
  <2>1. ch = ChannelWith(ch.RQ, ch.WQ, ch.PQ, ch.returned, ChannelSize, MatchOffset)  BY <1>2 DEF ChannelWith
  <2>2. WithResponses(ch, Append(ch.returned, x))
          = ChannelWith(ch.RQ, ch.WQ, ch.PQ, Append(ch.returned, x), ChannelSize, MatchOffset)
    BY <2>1, ResponsesChanged
  <2>3. QED  BY <1>1, <2>2 DEF ChannelWith, WithResponses
<1>4. /\ ch'.RQ = ch.RQ /\ ch'.WQ = ch.WQ /\ ch'.PQ = ch.PQ /\ ch'.returned = Append(ch.returned, x)
      /\ ch' = [RQ |-> ch'.RQ, WQ |-> ch'.WQ, PQ |-> ch'.PQ, returned |-> ch'.returned,
                RQ_SIZE |-> ChannelSize, WQ_SIZE |-> ChannelSize, PQ_SIZE |-> ChannelSize,
                match_offset |-> MatchOffset]
  BY <1>3
<1>5. e \in Fits(issued, FALSE)  BY <1>2, ElementOfSeq
<1>6. x \in Responses(issued) /\ \A k : x \in To(k) <=> e \in Of(k)  BY <1>5, ResponseFacts DEF x
<1>7. Len(below) \in Nat /\ i - 1 \in 0 .. Len(below)  BY <1>2, LenProperties
<1> DEFINE C == Rest(below, i - 1)
<1>8. /\ A \in Seq(T) /\ C \in Seq(T)
      /\ \A S : Copies(below, S) = Copies(A, S) + Copies(C, S)
  <2> HIDE DEF T
  <2>1. QED  BY <1>2, <1>7, RestFacts
<1>9. B \in Seq(T) /\ \A S : Copies(C, S) = Mark(e, S) + Copies(B, S)
  <2> HIDE DEF T
  <2>1. QED  BY <1>2, RestShrinks
<1> HIDE DEF A, B, C, e
<1>10. below' \in Seq(T) /\ \A S : Copies(below', S) = Copies(A, S) + Copies(B, S)
  <2> HIDE DEF T
  <2>1. QED  BY <1>1, <1>8, <1>9, ConcatProperties, CopiesConcat
<1>11. ch'.returned \in Seq(Responses(issued))
       /\ \A S : Copies(ch'.returned, S) = Copies(ch.returned, S) + Mark(x, S)
  BY <1>2, <1>4, <1>6, CopiesAppend
<1>12. ChannelTyped'
  <2>1. TypedAs(ch', issued, below', collected)
    BY <1>2, <1>4, <1>10, <1>11 DEF TypedAs
  <2>2. QED  BY <1>1, <2>1 DEF ChannelTyped
<1>13. Counted'
  <2>1. SUFFICES ASSUME NEW k \in 1 .. Len(issued), issued[k].response_requested
                 PROVE  OnePlace(ch', below', collected, k)
    BY <1>1 DEF Counted
  <2> DEFINE q == Copies(ch.RQ, Of(k))  s == Copies(ch.PQ, Of(k))  b == Copies(below, Of(k))
             y == Copies(ch.returned, To(k))  d == Copies(collected, To(k))
             b1 == Copies(A, Of(k))  b2 == Copies(B, Of(k))  m == Mark(e, Of(k))
  <2>2. /\ q \in Nat /\ s \in Nat /\ b \in Nat /\ y \in Nat /\ d \in Nat
        /\ b1 \in Nat /\ b2 \in Nat /\ m \in Nat
    <3> HIDE DEF T
    <3>1. QED  BY <1>2, <1>8, <1>9, CopiesNat DEF Mark
  <2>3. b = b1 + (m + b2)  BY <1>8, <1>9
  <2>4. Mark(x, To(k)) = m  BY <1>6 DEF Mark
  <2>5. Copies(below', Of(k)) = b1 + b2 /\ Copies(ch'.returned, To(k)) = y + m  BY <1>10, <1>11, <2>4
  <2>6. q + s + b + y + d = 1  BY <2>1 DEF Counted, OnePlace
  <2> HIDE DEF q, s, b, y, d, b1, b2, m
  <2>7. q + s + (b1 + b2) + (y + m) + d = 1  BY <2>2, <2>3, <2>6
  <2>8. QED  BY <1>4, <2>5, <2>7 DEF q, s, d, OnePlace
<1>14. InOrder'
  <2>1. SUFFICES ASSUME OneKind PROVE below' \in Seq(Ordered(issued, ch.WQ))
    BY <1>1, <1>4 DEF InOrder, OneKind
  <2> DEFINE O == Ordered(issued, ch.WQ)
  <2>2. below \in Seq(O)  BY <2>1 DEF InOrder
  <2> HIDE DEF O, T
  <2>3. A \in Seq(O)  BY <1>7, <2>2, RestFacts DEF A
  <2>4. B \in Seq(O)  BY <2>2, RestShrinks DEF B
  <2>5. below' \in Seq(O)  BY <1>1, <2>3, <2>4, ConcatProperties
  <2>6. QED  BY <2>5 DEF O
<1>15. QED  BY <1>12, <1>13, <1>14

\* Collecting the responses keeps the invariant.
LEMMA CollectKeeps ==
  ASSUME Ch!ChannelAssumption, ChannelTyped, Counted, InOrder, Ch!Collect
  PROVE  ChannelTyped' /\ Counted' /\ InOrder'
<1>1. /\ ch' = [ch EXCEPT !.returned = << >>] /\ collected' = collected \o ch.returned
      /\ below' = below /\ issued' = issued
  BY DEF Ch!Collect
<1>2. /\ ch = [RQ |-> ch.RQ, WQ |-> ch.WQ, PQ |-> ch.PQ, returned |-> ch.returned,
               RQ_SIZE |-> ChannelSize, WQ_SIZE |-> ChannelSize, PQ_SIZE |-> ChannelSize,
               match_offset |-> MatchOffset]
      /\ issued \in Seq(ChannelEntry) /\ Len(issued) <= MaxRequests
      /\ ch.RQ \in Seq(Fits(issued, FALSE)) /\ Len(ch.RQ) <= ChannelSize
      /\ ch.PQ \in Seq(Fits(issued, FALSE)) /\ Len(ch.PQ) <= ChannelSize
      /\ ch.WQ \in Seq(Fits(issued, MatchOffset)) /\ Len(ch.WQ) <= ChannelSize
      /\ below \in Seq(Fits(issued, FALSE) \cap Checked)
      /\ ch.returned \in Seq(Responses(issued)) /\ collected \in Seq(Responses(issued))
  BY DEF ChannelTyped, TypedAs
<1>3. ch' = [RQ |-> ch.RQ, WQ |-> ch.WQ, PQ |-> ch.PQ, returned |-> << >>,
             RQ_SIZE |-> ChannelSize, WQ_SIZE |-> ChannelSize, PQ_SIZE |-> ChannelSize,
             match_offset |-> MatchOffset]
  <2>1. ch = ChannelWith(ch.RQ, ch.WQ, ch.PQ, ch.returned, ChannelSize, MatchOffset)  BY <1>2 DEF ChannelWith
  <2>2. WithResponses(ch, << >>) = ChannelWith(ch.RQ, ch.WQ, ch.PQ, << >>, ChannelSize, MatchOffset)
    BY <2>1, ResponsesChanged
  <2>3. QED  BY <1>1, <2>2 DEF ChannelWith, WithResponses
<1>4. /\ ch'.RQ = ch.RQ /\ ch'.WQ = ch.WQ /\ ch'.PQ = ch.PQ /\ ch'.returned = << >>
      /\ ch' = [RQ |-> ch'.RQ, WQ |-> ch'.WQ, PQ |-> ch'.PQ, returned |-> ch'.returned,
                RQ_SIZE |-> ChannelSize, WQ_SIZE |-> ChannelSize, PQ_SIZE |-> ChannelSize,
                match_offset |-> MatchOffset]
  BY <1>3
<1>5. /\ collected' \in Seq(Responses(issued)) /\ << >> \in Seq(Responses(issued))
      /\ \A S : Copies(collected', S) = Copies(collected, S) + Copies(ch.returned, S)
  BY <1>1, <1>2, ConcatProperties, CopiesConcat, EmptySeq
<1>6. ChannelTyped'
  <2>1. TypedAs(ch', issued, below, collected')  BY <1>2, <1>4, <1>5 DEF TypedAs
  <2>2. QED  BY <1>1, <2>1 DEF ChannelTyped
<1>7. Counted'
  <2>1. SUFFICES ASSUME NEW k \in 1 .. Len(issued), issued[k].response_requested
                 PROVE  Copies(ch.RQ, Of(k)) + Copies(ch.PQ, Of(k)) + Copies(below, Of(k))
                          + Copies(ch'.returned, To(k)) + Copies(collected', To(k)) = 1
    BY <1>1, <1>4 DEF Counted, OnePlace, Of, To, ChannelEntry, ResponseType
  <2> DEFINE q == Copies(ch.RQ, Of(k))  s == Copies(ch.PQ, Of(k))  b == Copies(below, Of(k))
             y == Copies(ch.returned, To(k))  d == Copies(collected, To(k))
  <2>2. q \in Nat /\ s \in Nat /\ b \in Nat /\ y \in Nat /\ d \in Nat  BY <1>2, CopiesNat
  <2>3. q + s + b + y + d = 1  BY <2>1 DEF Counted, OnePlace
  <2>4. Copies(ch'.returned, To(k)) = 0 /\ Copies(collected', To(k)) = d + y
    BY <1>4, <1>5, CopiesEmpty
  <2> HIDE DEF q, s, b, y, d
  <2>5. q + s + b + 0 + (d + y) = 1  BY <2>2, <2>3
  <2>6. QED  BY <2>4, <2>5 DEF q, s, b
<1>8. InOrder'  BY <1>1, <1>4 DEF InOrder, OneKind
<1>9. QED  BY <1>6, <1>7, <1>8

\* The empty channel satisfies the invariant.
LEMMA ChannelInit ==
  ASSUME Ch!ChannelAssumption, Ch!Init PROVE ChannelTyped /\ Counted /\ InOrder
<1>1. /\ ch = [RQ |-> << >>, WQ |-> << >>, PQ |-> << >>, returned |-> << >>,
               RQ_SIZE |-> ChannelSize, WQ_SIZE |-> ChannelSize, PQ_SIZE |-> ChannelSize,
               match_offset |-> MatchOffset]
      /\ below = << >> /\ issued = << >> /\ collected = << >>
  BY DEF Ch!Init, Ch!NewChannel
<1>2. ch.RQ = << >> /\ ch.WQ = << >> /\ ch.PQ = << >> /\ ch.returned = << >>  BY <1>1
<1>3. \A T : << >> \in Seq(T) /\ Len(<< >>) = 0  BY EmptySeq
<1>4. ChannelSize \in Nat /\ MaxRequests \in Nat  BY DEF Ch!ChannelAssumption
<1>5. ch = [RQ |-> ch.RQ, WQ |-> ch.WQ, PQ |-> ch.PQ, returned |-> ch.returned,
            RQ_SIZE |-> ChannelSize, WQ_SIZE |-> ChannelSize, PQ_SIZE |-> ChannelSize,
            match_offset |-> MatchOffset]
  BY <1>1, <1>2
<1>6. ChannelTyped  BY <1>1, <1>2, <1>3, <1>4, <1>5 DEF ChannelTyped, TypedAs
<1>7. Counted  BY <1>1, <1>3 DEF Counted, OnePlace
<1>8. NoTwins(<< >>)  BY CopiesEmpty DEF NoTwins
<1>9. InOrder  BY <1>1, <1>2, <1>3, <1>8 DEF InOrder
<1>10. QED  BY <1>6, <1>7, <1>9

\* The invariant holds in every state of the channel.
THEOREM ChannelInvariant == ASSUME Ch!ChannelAssumption PROVE Ch!Spec => []ChannelInv
<1>1. Ch!Init => ChannelInv  BY ChannelInit DEF ChannelInv
<1>2. ChannelInv /\ [Ch!Next]_(Ch!vars) => ChannelInv'
  <2>1. SUFFICES ASSUME ChannelTyped, Counted, InOrder, [Ch!Next]_(Ch!vars)
                 PROVE  ChannelTyped' /\ Counted' /\ InOrder'
    BY DEF ChannelInv
  <2>2. CASE \E type \in {"LOAD", "WRITE", "PREFETCH"}, a \in Address, t \in Translated,
                wanted \in BOOLEAN : Ch!Issue(type, a, t, wanted)
    BY <2>1, <2>2, IssueKeeps
  <2>3. CASE Ch!Cycle  BY <2>1, <2>3, CycleKeeps
  <2>4. CASE \E i \in 1 .. Len(below) : Ch!Respond(i)  BY <2>1, <2>4, RespondKeeps
  <2>5. CASE Ch!Collect  BY <2>1, <2>5, CollectKeeps
  <2>6. CASE UNCHANGED Ch!vars
    <3>1. ch' = ch /\ below' = below /\ issued' = issued /\ collected' = collected
      BY <2>6 DEF Ch!vars
    <3>2. ChannelTyped'  BY <2>1, <3>1 DEF ChannelTyped
    <3>3. Counted'  BY <2>1, <3>1 DEF Counted, OnePlace, Of, To, ChannelEntry, ResponseType
    <3>4. InOrder'  BY <2>1, <3>1 DEF InOrder, OneKind
    <3>5. QED  BY <3>2, <3>3, <3>4
  <2>7. QED  BY <2>1, <2>2, <2>3, <2>4, <2>5, <2>6 DEF Ch!Next
<1>3. QED  BY <1>1, <1>2, PTL DEF Ch!Spec

\* Cardinality means the same in the module of the channel.
LEMMA ChannelCounts == \A S : Ch!Cardinality(S) = Cardinality(S)
BY Zenon DEF Ch!Cardinality, Cardinality

-----------------------------------------------------------------------------
(* What the invariant says of the channel *)

\* The queues hold entries, no more than they have room for.
THEOREM ChannelTypes == ASSUME Ch!ChannelAssumption PROVE Ch!Spec => []Ch!TypeOK
<1>1. ASSUME ChannelTyped PROVE Ch!TypeOK
  <2>1. /\ \A q \in {ch.RQ, ch.PQ} : q \in Seq(Fits(issued, FALSE)) /\ Len(q) <= ChannelSize
        /\ ch.WQ \in Seq(Fits(issued, MatchOffset)) /\ Len(ch.WQ) <= ChannelSize
        /\ Len(issued) <= MaxRequests
    BY <1>1 DEF ChannelTyped, TypedAs
  <2>2. \A exact : Fits(issued, exact) \subseteq Ch!Entries(<< >>)
    BY DEF Fits, ChannelEntry, Ch!Entries
  <2>3. \A exact : \A q \in Seq(Fits(issued, exact)) : Ch!Elements(q) \subseteq Ch!Entries(<< >>)
    <3>1. SUFFICES ASSUME NEW exact, NEW q \in Seq(Fits(issued, exact))
                   PROVE  Elements(q) \subseteq Ch!Entries(<< >>)
      BY ChannelQueues
    <3>2. Elements(q) \subseteq Fits(issued, exact)  BY ElementsSubset
    <3>3. QED  BY <2>2, <3>2
  <2>4. \A q : Ch!Entries(q) = Ch!Entries(<< >>)  BY DEF Ch!Entries
  <2>5. QED  BY <2>1, <2>3, <2>4 DEF Ch!TypeOK
<1>2. ChannelInv => Ch!TypeOK  BY <1>1 DEF ChannelInv
<1>3. QED  BY <1>2, ChannelInvariant, PTL

\* Every request that wants a response is in exactly one place or in one response, whatever it
\* was merged with or forwarded from.
THEOREM ChannelAnswersOnce == ASSUME Ch!ChannelAssumption PROVE Ch!Spec => []Ch!AnsweredOnce
<1>1. ASSUME ChannelTyped, Counted, NEW k \in 1 .. Len(issued), issued[k].response_requested
      PROVE  Ch!Asking(ch.RQ, k) + Ch!Asking(ch.PQ, k) + Ch!About(below, k)
               + Ch!About(ch.returned, k) + Ch!About(collected, k) = 1
  <2>1. /\ ch.RQ \in Seq(Fits(issued, FALSE)) /\ ch.PQ \in Seq(Fits(issued, FALSE))
        /\ below \in Seq(Fits(issued, FALSE) \cap Checked)
        /\ ch.returned \in Seq(Responses(issued)) /\ collected \in Seq(Responses(issued))
    BY <1>1 DEF ChannelTyped, TypedAs
  <2>2. \A q \in Seq(Fits(issued, FALSE)) : Ch!Asking(q, k) = Copies(q, Of(k))
    <3>1. SUFFICES ASSUME NEW q \in Seq(Fits(issued, FALSE))
                   PROVE  Ch!Asking(q, k) = Copies(q, Of(k))
      OBVIOUS
    <3>2. \A i \in 1 .. Len(q) : q[i] \in Fits(issued, FALSE)  BY ElementOfSeq
    <3>3. \A e \in Fits(issued, FALSE) : (k \in e.deps /\ e.response_requested) <=> e \in Of(k)
      BY <1>1 DEF Fits, Of
    <3>4. {i \in 1 .. Len(q) : k \in q[i].deps /\ q[i].response_requested}
            = {i \in 1 .. Len(q) : q[i] \in Of(k)}
      BY <3>2, <3>3
    <3>5. QED  BY <3>4, ChannelCounts DEF Ch!Asking, Copies
  <2>3. Ch!About(below, k) = Copies(below, Of(k))
    <3>1. \A i \in 1 .. Len(below) : below[i] \in ChannelEntry  BY <2>1, ElementOfSeq DEF Fits
    <3>2. {i \in 1 .. Len(below) : k \in below[i].deps} = {i \in 1 .. Len(below) : below[i] \in Of(k)}
      BY <3>1 DEF Of
    <3>3. QED  BY <3>2, ChannelCounts DEF Ch!About, Copies
  <2>4. \A q \in Seq(Responses(issued)) : Ch!About(q, k) = Copies(q, To(k))
    <3>1. SUFFICES ASSUME NEW q \in Seq(Responses(issued)) PROVE Ch!About(q, k) = Copies(q, To(k))
      OBVIOUS
    <3>2. \A i \in 1 .. Len(q) : q[i] \in ResponseType  BY ElementOfSeq DEF Responses
    <3>3. {i \in 1 .. Len(q) : k \in q[i].deps} = {i \in 1 .. Len(q) : q[i] \in To(k)}
      BY <3>2 DEF To
    <3>4. QED  BY <3>3, ChannelCounts DEF Ch!About, Copies
  <2>5. OnePlace(ch, below, collected, k)  BY <1>1 DEF Counted
  <2>6. QED  BY <2>1, <2>2, <2>3, <2>4, <2>5 DEF OnePlace
<1>2. ChannelInv => Ch!AnsweredOnce  BY <1>1 DEF ChannelInv, Ch!AnsweredOnce
<1>3. QED  BY <1>2, ChannelInvariant, PTL

\* A read never goes below while an older write that it collides with waits.
THEOREM ChannelNoOvertaking == ASSUME Ch!ChannelAssumption PROVE Ch!Spec => []Ch!NoOvertaking
<1>1. ASSUME ChannelTyped, InOrder, OneKind, NEW i \in 1 .. Len(below), NEW j \in 1 .. Len(ch.WQ),
             NEW r \in below[i].deps, NEW w \in ch.WQ[j].deps, w < r
      PROVE  ~ Ch!SameAddress(issued[r], issued[w], MatchOffset)
  <2>1. below[i] \in Checked
    <3>1. below \in Seq(Fits(issued, FALSE) \cap Checked)  BY <1>1 DEF ChannelTyped, TypedAs
    <3>2. QED  BY <3>1, ElementOfSeq
  <2>2. below[i] \in Ordered(issued, ch.WQ)  BY <1>1, ElementOfSeq DEF InOrder
  <2>3. Clear(issued, below[i], ch.WQ[j])  BY <2>1, <2>2 DEF Checked, Ordered
  <2>4. QED  BY <1>1, <2>3 DEF Clear
<1>2. ChannelInv => Ch!NoOvertaking
  <2>1. SUFFICES ASSUME ChannelInv PROVE Ch!NoOvertaking  OBVIOUS
  <2>2. ChannelTyped /\ InOrder  BY <2>1 DEF ChannelInv
  <2>3. QED  BY <1>1, <2>2, ChannelCounts DEF Ch!NoOvertaking, OneKind
<1>3. QED  BY <1>2, ChannelInvariant, PTL

\* The level below sees one request for a block at a time from each queue.
THEOREM ChannelNoDuplicates == ASSUME Ch!ChannelAssumption PROVE Ch!Spec => []Ch!NoDuplicates
<1>1. ASSUME NEW q \in Seq(Fits(issued, FALSE)), NoTwins(q),
             NEW i \in 1 .. Len(q), NEW j \in 1 .. Len(q),
             q[i].forward_checked, q[j].forward_checked, Ch!SameAddress(q[i], q[j], FALSE)
      PROVE  i = j
  <2>1. q[i] \in ChannelEntry /\ q[j] \in ChannelEntry  BY ElementOfSeq DEF Fits
  <2>2. PICK a \in Address : a = q[i].address  BY <2>1 DEF ChannelEntry
  <2>3. q[i] \in OfBlock(a[1]) /\ q[j] \in OfBlock(a[1])
    BY <1>1, <2>1, <2>2 DEF OfBlock, Ch!SameAddress
  <2>4. Copies(q, OfBlock(a[1])) <= 1  BY <1>1 DEF NoTwins
  <2>5. i # j => Copies(q, OfBlock(a[1])) \in Nat /\ Copies(q, OfBlock(a[1])) >= 2
    BY <2>3, CopiesTwice
  <2>6. QED  BY <2>4, <2>5
<1>2. ChannelInv => Ch!NoDuplicates
  <2>1. SUFFICES ASSUME ChannelInv, OneKind, NEW q \in {ch.RQ, ch.PQ},
                        NEW i \in 1 .. Len(q), NEW j \in 1 .. Len(q),
                        q[i].forward_checked, q[j].forward_checked, Ch!SameAddress(q[i], q[j], FALSE)
                 PROVE  i = j
    BY ChannelCounts DEF Ch!NoDuplicates, OneKind
  <2>2. q \in Seq(Fits(issued, FALSE)) /\ NoTwins(q)
    BY <2>1 DEF ChannelInv, ChannelTyped, TypedAs, InOrder
  <2>3. QED  BY <1>1, <2>1, <2>2
<1>3. QED  BY <1>2, ChannelInvariant, PTL

=============================================================================
