----------------------------- MODULE CxlProofs -----------------------------
(***************************************************************************)
(* Proofs about CxlSystem, for any numbers of nodes and pools, any blocks, *)
(* any queue sizes and both routing policies.                              *)
(*                                                                         *)
(* The inductive invariant counts, for each request, its copies in all     *)
(* queues it can be in: a read from the node's queue to the response that  *)
(* comes back, a write or a reset from the node's queue to the pool.  The  *)
(* counts, and the accounts of credit, are stated for the ports P and the  *)
(* links D rather than for the variables port and down, so that they can   *)
(* be followed through the polls of one tick of the switch.                *)
(***************************************************************************)
EXTENDS CxlSystem, QueueLemmas

-----------------------------------------------------------------------------
(* Events, and where they may be *)

ReadMsg == [type : {"read"}, src : Node, dst : Pool, block : Block]

WriteMsg ==
  [type : {"write"}, src : Node, dst : Pool, block : Block, num : Nat \ {0}]

ResetMsg == [type : {"reset"}, src : Node, dst : Id]

RspMsg == [type : {"rsp"}, src : Pool, dst : Node, block : Block]

CreditMsg == [type : {"credit"}, src : Id, dst : Id, bytes : {8, 64}]

Request == ReadMsg \cup WriteMsg \cup ResetMsg

Event == Request \cup RspMsg

Item == Event \cup CreditMsg

\* What comes from component i, and what goes to it.
From(i) == {ev \in Event : ev.src = i}

ItemFrom(i) == {ev \in Item : ev.src = i}

For(i) == {ev \in Event : ev.dst = i}

\* A port that receives In and sends Out.
PortOf(size, In, Out) ==
  [size : {size}, credits : 0 .. size * DefaultMsgBytes,
   egress : Seq(Out), ingress : Seq(In), ready : Seq(In)]

-----------------------------------------------------------------------------
(* The inductive invariant *)

SwitchTyped(P, D) ==
  /\ P \in [Id -> PortOf(SwitchQueue, Event, Event)]
  /\ D \in [Id -> Seq(Item)]
  /\ \A i \in Id : /\ P[i] \in PortOf(SwitchQueue, From(i), For(i))
                   /\ D[i] \in Seq(For(i) \cup CreditMsg)

NodesTyped ==
  /\ waiting \in [Node -> SUBSET Block]
  /\ filled \in [Node -> SUBSET Block]
  /\ queue \in [Node -> Seq(Item)]
  /\ \A n \in Node : queue[n] \in Seq(From(n))
  /\ warm \in [Node -> BOOLEAN]
  /\ \A n \in Node : warm[n] => n \in WarmUp
  /\ writes \in [Node -> Nat]
  /\ \A n \in Node : writes[n] \in 0 .. MaxWrites[n]
  /\ up \in [Id -> Seq(Item)]
  /\ \A i \in Id : up[i] \in Seq(ItemFrom(i))

PoolTyped(p) ==
  /\ switchPort[p] \in PortOf(PoolQueue, For(p), From(p))
  /\ PoolQueue = 0 \/ Len(switchPort[p].egress) <= PoolQueue
  /\ IsFiniteSet(mem[p])
  /\ mem[p] \subseteq (ReadMsg \cup WriteMsg) \cap For(p)
  /\ returned[p] \in Seq(ReadMsg \cap For(p))
  /\ IsFiniteSet(performed[p])
  /\ performed[p] \subseteq WriteMsg \cup ResetMsg
  /\ pending[p] = Reads(mem[p]) \cup Elements(returned[p])

PoolsTyped ==
  /\ switchPort \in [Pool -> PortOf(PoolQueue, Event, Event)]
  /\ mem \in [Pool -> SUBSET Item]
  /\ returned \in [Pool -> Seq(Item)]
  /\ pending \in [Pool -> SUBSET Item]
  /\ performed \in [Pool -> SUBSET Item]
  /\ \A p \in Pool : PoolTyped(p)

\* The copies of S on the way from node n to the switch, from the switch to
\* the memory of pool p, from pool p to the switch, and from there to node n.
Here(P, n, S) ==
  Copies(queue[n], S) + Copies(up[n], S)
    + Copies(P[n].ingress, S) + Copies(P[n].ready, S)

At(P, D, p, S) ==
  Copies(P[p].egress, S) + Copies(D[p], S)
    + Copies(switchPort[p].ingress, S) + Copies(switchPort[p].ready, S)
    + Within(mem[p], S)

Answers(P, p, S) ==
  Copies(switchPort[p].egress, S) + Copies(up[p], S)
    + Copies(P[p].ingress, S) + Copies(P[p].ready, S)

Back(P, D, n, S) == Copies(P[n].egress, S) + Copies(D[n], S)

\* What of a read of n is in pool p, or on the way to it or from it.
InPool(P, D, p, n, b) ==
  At(P, D, p, ReadOf(n, b)) + Copies(returned[p], ReadOf(n, b))
    + Answers(P, p, RspTo(n, b))

InPools(P, D, n, b) == [p \in Pool |-> InPool(P, D, p, n, b)]

\* How often a write or reset in S was routed to pool p.
Reached(P, D, p, S) == At(P, D, p, S) + Within(performed[p], S)

ReachedPools(P, D, S) == [p \in Pool |-> Reached(P, D, p, S)]

Flag(x) == IF x THEN 1 ELSE 0

ReadsCounted(P, D) ==
  \A n \in Node, b \in Block :
    Here(P, n, ReadOf(n, b)) + SumOverPools(InPools(P, D, n, b))
      + Back(P, D, n, RspTo(n, b))
    = Flag(b \in waiting[n])

WritesCounted(P, D) ==
  \A n \in Node, k \in Nat \ {0} :
    IF ReplicateWrites
    THEN \A p \in Pool :
           Here(P, n, WriteOf(n, k)) + Reached(P, D, p, WriteOf(n, k))
           = Flag(k <= writes[n])
    ELSE Here(P, n, WriteOf(n, k)) + SumOverPools(ReachedPools(P, D, WriteOf(n, k)))
         = Flag(k <= writes[n])

ResetsCounted(P, D) ==
  \A n \in Node, p \in Pool :
    Here(P, n, ResetOf(n)) + Reached(P, D, p, ResetOf(n)) = Flag(warm[n])

\* What the events of a link or queue cost, and what its credit events give.
Bytes(q) == 8 * Copies(q, ReadMsg) + 64 * Copies(q, WriteMsg \cup RspMsg)

Owed(q) ==
  8 * Copies(q, {c \in CreditMsg : c.bytes = 8})
    + 64 * Copies(q, {c \in CreditMsg : c.bytes = 64})

\* Between the switch and pool p, in both directions.
Accounts(P, D) ==
  \A p \in Pool :
    /\ SwitchQueue # 0 =>
         P[p].credits + Bytes(D[p]) + Bytes(switchPort[p].ingress)
           + Bytes(switchPort[p].ready) + Owed(up[p])
         = SwitchQueue * DefaultMsgBytes
    /\ PoolQueue # 0 =>
         switchPort[p].credits + Bytes(up[p]) + Bytes(P[p].ingress)
           + Bytes(P[p].ready) + Owed(D[p])
         = PoolQueue * DefaultMsgBytes

\* All that a poll of the switch can disturb.
SwitchInv(P, D, r) ==
  /\ SwitchTyped(P, D)
  /\ r \in 0 .. NumPools - 1
  /\ ReadsCounted(P, D)
  /\ WritesCounted(P, D)
  /\ ResetsCounted(P, D)
  /\ Accounts(P, D)

IInv ==
  /\ SwitchInv(port, down, rr)
  /\ NodesTyped
  /\ PoolsTyped

-----------------------------------------------------------------------------
(* Components and events *)

LEMMA Places ==
  /\ Node \cap Pool = {} /\ Id = Node \cup Pool
  /\ Node \subseteq Nat /\ Pool \subseteq Nat
  /\ PoolBase \in Pool
BY IdAssumption DEF Node, Pool, Id

\* The type of an event tells what it is.
LEMMA Kinds ==
  ASSUME NEW ev \in Item
  PROVE  /\ ev \in ReadMsg <=> ev.type = "read"
         /\ ev \in WriteMsg <=> ev.type = "write"
         /\ ev \in ResetMsg <=> ev.type = "reset"
         /\ ev \in RspMsg <=> ev.type = "rsp"
         /\ ev \in CreditMsg <=> ev.type = "credit"
BY DEF Item, Event, Request, ReadMsg, WriteMsg, ResetMsg, RspMsg, CreditMsg

LEMMA InReadOf ==
  ASSUME NEW n \in Node, NEW b \in Block, NEW ev
  PROVE  ev \in ReadOf(n, b) <=> ev \in ReadMsg /\ ev.src = n /\ ev.block = b
<1>1. ASSUME ev \in ReadOf(n, b) PROVE ev \in ReadMsg /\ ev.src = n /\ ev.block = b
  BY <1>1 DEF ReadOf, Read, ReadMsg
<1>2. ASSUME ev \in ReadMsg, ev.src = n, ev.block = b PROVE ev \in ReadOf(n, b)
  <2>1. ev.dst \in Pool /\ ev = Read(n, ev.dst, b)  BY <1>2 DEF ReadMsg, Read
  <2>2. QED  BY <2>1 DEF ReadOf
<1>3. QED  BY <1>1, <1>2

LEMMA InRspTo ==
  ASSUME NEW n \in Node, NEW b \in Block, NEW ev
  PROVE  ev \in RspTo(n, b) <=> ev \in RspMsg /\ ev.dst = n /\ ev.block = b
<1>1. ASSUME ev \in RspTo(n, b) PROVE ev \in RspMsg /\ ev.dst = n /\ ev.block = b
  BY <1>1 DEF RspTo, Response, RspMsg
<1>2. ASSUME ev \in RspMsg, ev.dst = n, ev.block = b PROVE ev \in RspTo(n, b)
  <2>1. ev.src \in Pool /\ ev = Response(ev.src, n, b)  BY <1>2 DEF RspMsg, Response
  <2>2. QED  BY <2>1 DEF RspTo
<1>3. QED  BY <1>1, <1>2

LEMMA InWriteOf ==
  ASSUME NEW n \in Node, NEW k \in Nat \ {0}, NEW ev
  PROVE  ev \in WriteOf(n, k) <=> ev \in WriteMsg /\ ev.src = n /\ ev.num = k
<1>1. ASSUME ev \in WriteOf(n, k) PROVE ev \in WriteMsg /\ ev.src = n /\ ev.num = k
  BY <1>1 DEF WriteOf, Write, WriteMsg
<1>2. ASSUME ev \in WriteMsg, ev.src = n, ev.num = k PROVE ev \in WriteOf(n, k)
  <2>1. ev.dst \in Pool /\ ev.block \in Block /\ ev = Write(n, ev.dst, ev.block, k)
    BY <1>2 DEF WriteMsg, Write
  <2>2. QED  BY <2>1 DEF WriteOf
<1>3. QED  BY <1>1, <1>2

LEMMA InResetOf ==
  ASSUME NEW n \in Node, NEW ev
  PROVE  ev \in ResetOf(n) <=> ev \in ResetMsg /\ ev.src = n
<1>1. ASSUME ev \in ResetOf(n) PROVE ev \in ResetMsg /\ ev.src = n
  BY <1>1 DEF ResetOf, Reset, ResetMsg
<1>2. ASSUME ev \in ResetMsg, ev.src = n PROVE ev \in ResetOf(n)
  <2>1. ev.dst \in Id /\ ev = Reset(n, ev.dst)  BY <1>2 DEF ResetMsg, Reset
  <2>2. QED  BY <2>1 DEF ResetOf
<1>3. QED  BY <1>1, <1>2

\* A request of a node that is sent to another pool counts as before.
LEMMA Redirected ==
  ASSUME NEW ev \in Request, NEW p \in Pool, NEW r, r = [ev EXCEPT !.dst = p]
  PROVE  /\ r \in Request /\ r \in For(p) /\ r.src = ev.src /\ r.type = ev.type
         /\ \A n \in Node, b \in Block : Mark(r, ReadOf(n, b)) = Mark(ev, ReadOf(n, b))
         /\ \A n \in Node, k \in Nat \ {0} :
              Mark(r, WriteOf(n, k)) = Mark(ev, WriteOf(n, k))
         /\ \A n \in Node : Mark(r, ResetOf(n)) = Mark(ev, ResetOf(n))
<1>1. /\ r \in Request /\ r.dst = p /\ r.src = ev.src /\ r.type = ev.type
      /\ ev \in ReadMsg <=> r \in ReadMsg
      /\ ev \in ReadMsg => r.block = ev.block
      /\ ev \in WriteMsg <=> r \in WriteMsg
      /\ ev \in WriteMsg => r.num = ev.num
      /\ ev \in ResetMsg <=> r \in ResetMsg
  <2>1. CASE ev \in ReadMsg
    BY <2>1, Places DEF ReadMsg, WriteMsg, ResetMsg, Request
  <2>2. CASE ev \in WriteMsg
    BY <2>2, Places DEF ReadMsg, WriteMsg, ResetMsg, Request
  <2>3. CASE ev \in ResetMsg
    BY <2>3, Places DEF ReadMsg, WriteMsg, ResetMsg, Request
  <2>4. QED  BY <2>1, <2>2, <2>3 DEF Request
<1>2. r \in For(p)  BY <1>1 DEF For, Event
<1>3. ASSUME NEW n \in Node, NEW b \in Block
      PROVE  Mark(r, ReadOf(n, b)) = Mark(ev, ReadOf(n, b))
  <2>a. r \in ReadOf(n, b) <=> r \in ReadMsg /\ r.src = n /\ r.block = b
    BY InReadOf
  <2>b. ev \in ReadOf(n, b) <=> ev \in ReadMsg /\ ev.src = n /\ ev.block = b
    BY InReadOf
  <2>1. r \in ReadOf(n, b) <=> ev \in ReadOf(n, b)  BY <1>1, <2>a, <2>b
  <2>2. QED  BY <2>1 DEF Mark
<1>4. ASSUME NEW n \in Node, NEW k \in Nat \ {0}
      PROVE  Mark(r, WriteOf(n, k)) = Mark(ev, WriteOf(n, k))
  <2>a. r \in WriteOf(n, k) <=> r \in WriteMsg /\ r.src = n /\ r.num = k
    BY InWriteOf
  <2>b. ev \in WriteOf(n, k) <=> ev \in WriteMsg /\ ev.src = n /\ ev.num = k
    BY InWriteOf
  <2>1. r \in WriteOf(n, k) <=> ev \in WriteOf(n, k)  BY <1>1, <2>a, <2>b
  <2>2. QED  BY <2>1 DEF Mark
<1>5. ASSUME NEW n \in Node
      PROVE  Mark(r, ResetOf(n)) = Mark(ev, ResetOf(n))
  <2>1. r \in ResetOf(n) <=> ev \in ResetOf(n)  BY <1>1, InResetOf
  <2>2. QED  BY <2>1 DEF Mark
<1>6. QED  BY <1>1, <1>2, <1>3, <1>4, <1>5

-----------------------------------------------------------------------------
(* Bytes *)

LEMMA BytesNat ==
  ASSUME NEW q \in Seq(Item)
  PROVE  Bytes(q) \in Nat /\ Owed(q) \in Nat
<1>1. Copies(q, ReadMsg) \in Nat /\ Copies(q, WriteMsg \cup RspMsg) \in Nat
  BY CopiesNat
<1>2. /\ Copies(q, {c \in CreditMsg : c.bytes = 8}) \in Nat
      /\ Copies(q, {c \in CreditMsg : c.bytes = 64}) \in Nat
  BY CopiesNat
<1>3. QED  BY <1>1, <1>2 DEF Bytes, Owed

LEMMA BytesConcat ==
  ASSUME NEW q \in Seq(Item), NEW r \in Seq(Item)
  PROVE  /\ Bytes(q \o r) = Bytes(q) + Bytes(r)
         /\ Owed(q \o r) = Owed(q) + Owed(r)
<1>1. ASSUME NEW A, NEW B
      PROVE  8 * Copies(q \o r, A) + 64 * Copies(q \o r, B)
             = (8 * Copies(q, A) + 64 * Copies(q, B))
                 + (8 * Copies(r, A) + 64 * Copies(r, B))
  <2>1. /\ Copies(q, A) \in Nat /\ Copies(r, A) \in Nat
        /\ Copies(q, B) \in Nat /\ Copies(r, B) \in Nat
    BY CopiesNat
  <2>2. /\ Copies(q \o r, A) = Copies(q, A) + Copies(r, A)
        /\ Copies(q \o r, B) = Copies(q, B) + Copies(r, B)
    BY CopiesConcat
  <2>3. QED  BY <2>1, <2>2
<1>2. QED  BY <1>1 DEF Bytes, Owed

LEMMA BytesEmpty == Bytes(<< >>) = 0 /\ Owed(<< >>) = 0
BY CopiesEmpty DEF Bytes, Owed

LEMMA BytesOrders ==
  ASSUME NEW q \in Seq(Item), NEW r \in Orders(q)
  PROVE  Bytes(r) = Bytes(q) /\ Owed(r) = Owed(q)
BY CopiesOrders DEF Bytes, Owed

\* One event costs what credit_bytes says, and one credit event nothing.
LEMMA BytesOne ==
  ASSUME NEW ev \in Item
  PROVE  /\ ev \in Event => Bytes(<<ev>>) = CreditBytes(ev) /\ Owed(<<ev>>) = 0
         /\ ev \in CreditMsg => Bytes(<<ev>>) = 0 /\ Owed(<<ev>>) = ev.bytes
<1> DEFINE A == ReadMsg
           B == WriteMsg \cup RspMsg
           C == {c \in CreditMsg : c.bytes = 8}
           D == {c \in CreditMsg : c.bytes = 64}
<1>1. /\ Bytes(<<ev>>) = 8 * Mark(ev, A) + 64 * Mark(ev, B)
      /\ Owed(<<ev>>) = 8 * Mark(ev, C) + 64 * Mark(ev, D)
  BY CopiesOne DEF Bytes, Owed
<1>2. ASSUME ev \in Event
      PROVE  /\ 8 * Mark(ev, A) + 64 * Mark(ev, B) = CreditBytes(ev)
             /\ ev \notin C /\ ev \notin D
  <2>1. CASE ev \in ReadMsg
    BY <2>1, Kinds DEF Mark, CreditBytes, ReadMsg
  <2>2. CASE ev \in WriteMsg
    BY <2>2, Kinds DEF Mark, CreditBytes, WriteMsg
  <2>3. CASE ev \in RspMsg
    BY <2>3, Kinds DEF Mark, CreditBytes, RspMsg
  <2>4. CASE ev \in ResetMsg
    BY <2>4, Kinds DEF Mark, CreditBytes, ResetMsg
  <2>5. QED  BY <1>2, <2>1, <2>2, <2>3, <2>4 DEF Event, Request
<1>3. ASSUME ev \in CreditMsg
      PROVE  /\ 8 * Mark(ev, C) + 64 * Mark(ev, D) = ev.bytes
             /\ ev \notin A /\ ev \notin B
  <2>1. ev \notin A /\ ev \notin B  BY <1>3, Kinds
  <2>2. ev.bytes \in {8, 64}  BY <1>3 DEF CreditMsg
  <2>3. QED  BY <1>3, <2>1, <2>2 DEF Mark
<1>4. QED  BY <1>1, <1>2, <1>3 DEF Mark

LEMMA BytesTail ==
  ASSUME NEW q \in Seq(Item), q # << >>
  PROVE  /\ Bytes(q) = Bytes(<<Head(q)>>) + Bytes(Tail(q))
         /\ Owed(q) = Owed(<<Head(q)>>) + Owed(Tail(q))
<1>1. Head(q) \in Item /\ Tail(q) \in Seq(Item)  BY HeadTailProperties
<1>2. <<Head(q)>> \in Seq(Item) /\ q = <<Head(q)>> \o Tail(q)
  BY <1>1, HeadAndTail
<1>3. QED  BY <1>1, <1>2, BytesConcat

LEMMA BytesSplit ==
  ASSUME NEW q \in Seq(Item), NEW n \in 0 .. Len(q)
  PROVE  /\ Bytes(q) = Bytes(First(q, n)) + Bytes(Rest(q, n))
         /\ Owed(q) = Owed(First(q, n)) + Owed(Rest(q, n))
<1>1. /\ First(q, n) \in Seq(Item) /\ Rest(q, n) \in Seq(Item)
      /\ First(q, n) \o Rest(q, n) = q
  BY CopiesSplit
<1>2. QED  BY <1>1, BytesConcat

\* A queue of events holds no credit.
LEMMA EventsOweNothing ==
  ASSUME NEW q \in Seq(Event)
  PROVE  q \in Seq(Item) /\ Owed(q) = 0
<1>1. Event \subseteq Item  BY DEF Item
<1>2. q \in Seq(Item)  BY <1>1, SeqMonotonic
<1>3. \A i \in 1 .. Len(q) : q[i] \in Event /\ q[i] \notin CreditMsg
  <2>1. \A i \in 1 .. Len(q) : q[i] \in Event  BY ElementOfSeq
  <2>2. \A ev \in Event : ev \notin CreditMsg
    BY DEF Event, Request, ReadMsg, WriteMsg, ResetMsg, RspMsg, CreditMsg
  <2>3. QED  BY <2>1, <2>2
<1>4. Copies(q, {c \in CreditMsg : c.bytes = 8}) = 0  BY <1>3, CopiesNone
<1>5. Copies(q, {c \in CreditMsg : c.bytes = 64}) = 0  BY <1>3, CopiesNone
<1>6. QED  BY <1>2, <1>4, <1>5 DEF Owed

\* The model's sums of bytes are these weights.
LEMMA BytesInQueue ==
  ASSUME NEW q \in Seq(Event)
  PROVE  BytesIn(q) = Bytes(q)
<1> DEFINE weight == [i \in 1 .. Len(q) |-> CreditBytes(q[i])]
           A == ReadMsg
           B == WriteMsg \cup RspMsg
<1>1. \A ev \in Event : CreditBytes(ev) = IF ev \in A THEN 8
                                          ELSE IF ev \in B THEN 64 ELSE 0
  BY DEF CreditBytes, Event, Request, ReadMsg, WriteMsg, ResetMsg, RspMsg
<1>2. \A i \in 1 .. Len(q) : q[i] \in Event  BY ElementOfSeq
<1>3. A \cap B = {}  BY DEF ReadMsg, WriteMsg, RspMsg
<1>4. \A i \in 1 .. Len(q) : weight[i] = IF q[i] \in A THEN 8
                                         ELSE IF q[i] \in B THEN 64 ELSE 0
  BY <1>1, <1>2
<1> HIDE DEF A, B
<1>5. weight \in [1 .. Len(q) -> Nat]
  <2>1. \A i \in 1 .. Len(q) : CreditBytes(q[i]) \in Nat  BY <1>1, <1>2
  <2>2. QED  BY <2>1
<1>6. BytesIn(q) = Total(weight, 1 .. Len(q), Len(q))
  BY DEF BytesIn
<1> HIDE DEF weight
<1>7. Total(weight, 1 .. Len(q), Len(q)) = 8 * Copies(q, A) + 64 * Copies(q, B)
  BY SMTT(40), <1>3, <1>4, <1>5, WeightOfCopies
<1>8. QED  BY <1>6, <1>7 DEF Bytes, A, B

LEMMA BytesOnLink ==
  ASSUME NEW q \in Seq(Item)
  PROVE  BytesOn(q) = Bytes(q)
<1> DEFINE weight == [i \in 1 .. Len(q) |->
                        IF q[i].type = "credit" THEN 0 ELSE CreditBytes(q[i])]
           A == ReadMsg
           B == WriteMsg \cup RspMsg
<1>1. \A ev \in Item : (IF ev.type = "credit" THEN 0 ELSE CreditBytes(ev))
                       = IF ev \in A THEN 8 ELSE IF ev \in B THEN 64 ELSE 0
  BY DEF CreditBytes, Item, Event, Request, ReadMsg, WriteMsg, ResetMsg, RspMsg,
         CreditMsg
<1>2. \A i \in 1 .. Len(q) : q[i] \in Item  BY ElementOfSeq
<1>3. A \cap B = {}  BY DEF ReadMsg, WriteMsg, RspMsg
<1>4. \A i \in 1 .. Len(q) : weight[i] = IF q[i] \in A THEN 8
                                         ELSE IF q[i] \in B THEN 64 ELSE 0
  BY <1>1, <1>2
<1> HIDE DEF A, B
<1>5. weight \in [1 .. Len(q) -> Nat]
  <2>1. \A i \in 1 .. Len(q) : weight[i] \in Nat  BY <1>4
  <2>2. QED  BY <2>1
<1>6. BytesOn(q) = Total(weight, 1 .. Len(q), Len(q))
  BY DEF BytesOn
<1> HIDE DEF weight
<1>7. Total(weight, 1 .. Len(q), Len(q)) = 8 * Copies(q, A) + 64 * Copies(q, B)
  BY SMTT(40), <1>3, <1>4, <1>5, WeightOfCopies
<1>8. QED  BY <1>6, <1>7 DEF Bytes, A, B

LEMMA CreditOnLink ==
  ASSUME NEW q \in Seq(Item)
  PROVE  CreditOn(q) = Owed(q)
<1> DEFINE weight == [i \in 1 .. Len(q) |->
                        IF q[i].type = "credit" THEN q[i].bytes ELSE 0]
           A == {c \in CreditMsg : c.bytes = 8}
           B == {c \in CreditMsg : c.bytes = 64}
<1>1. \A ev \in Item : (IF ev.type = "credit" THEN ev.bytes ELSE 0)
                       = IF ev \in A THEN 8 ELSE IF ev \in B THEN 64 ELSE 0
  <2>1. \A ev \in CreditMsg : ev.type = "credit" /\ ev.bytes \in {8, 64}
    BY DEF CreditMsg
  <2>2. QED  BY <2>1, Kinds
<1>2. \A i \in 1 .. Len(q) : q[i] \in Item  BY ElementOfSeq
<1>3. A \cap B = {}  OBVIOUS
<1>4. \A i \in 1 .. Len(q) : weight[i] = IF q[i] \in A THEN 8
                                         ELSE IF q[i] \in B THEN 64 ELSE 0
  BY <1>1, <1>2
<1> HIDE DEF A, B
<1>5. weight \in [1 .. Len(q) -> Nat]
  <2>1. \A i \in 1 .. Len(q) : weight[i] \in Nat  BY <1>4
  <2>2. QED  BY <2>1
<1>6. CreditOn(q) = Total(weight, 1 .. Len(q), Len(q))
  BY DEF CreditOn
<1> HIDE DEF weight
<1>7. Total(weight, 1 .. Len(q), Len(q)) = 8 * Copies(q, A) + 64 * Copies(q, B)
  BY SMTT(40), <1>3, <1>4, <1>5, WeightOfCopies
<1>8. QED  BY <1>6, <1>7 DEF Owed, A, B

-----------------------------------------------------------------------------
(* Ports *)

LEMMA PortFields ==
  ASSUME NEW size \in Nat, NEW In, NEW Out, NEW q \in PortOf(size, In, Out)
  PROVE  /\ q.size = size /\ q.credits \in 0 .. size * DefaultMsgBytes
         /\ q.credits \in Nat
         /\ q.egress \in Seq(Out) /\ q.ingress \in Seq(In) /\ q.ready \in Seq(In)
         /\ Unlimited(q) <=> size = 0
         /\ Capacity(q) = size * DefaultMsgBytes
<1>1. /\ q.size = size /\ q.credits \in 0 .. size * DefaultMsgBytes
      /\ q.egress \in Seq(Out) /\ q.ingress \in Seq(In) /\ q.ready \in Seq(In)
  BY DEF PortOf
<1>2. size * DefaultMsgBytes \in Nat  BY DEF DefaultMsgBytes
<1>3. QED  BY <1>1, <1>2 DEF Unlimited, Capacity

\* drain_egress sends a beginning of the egress queue that the credits pay for.
LEMMA DrainedPrefix ==
  ASSUME NEW size \in Nat, NEW In, NEW Out, Out \subseteq Event,
         NEW q \in PortOf(size, In, Out)
  PROVE  \E k \in 0 .. Len(q.egress) :
            Drained(q) = First(q.egress, k) /\ Affords(q, k)
<1> DEFINE n == Len(q.egress)
           Stops(k) == Affords(q, k) /\ (k < n => ~ Affords(q, k + 1))
<1>1. q.egress \in Seq(Out) /\ n \in Nat /\ q.credits \in Nat
  BY PortFields, LenProperties
<1>2. Affords(q, 0)
  <2>1. First(q.egress, 0) = << >>  BY <1>1, SubSeqEmpty DEF First
  <2>2. << >> \in Seq(Event) /\ Bytes(<< >>) = 0  BY BytesEmpty
  <2>3. BytesIn(First(q.egress, 0)) = 0  BY <2>1, <2>2, BytesInQueue
  <2>4. QED  BY <1>1, <2>3 DEF Affords
<1>3. \E k \in 0 .. n : Stops(k)
  <2>1. SUFFICES ASSUME \A k \in 0 .. n : ~ Stops(k) PROVE FALSE
    OBVIOUS
  <2> DEFINE K == {k \in Nat : k <= n => Affords(q, k)}
  <2>2. 0 \in K  BY <1>2
  <2>3. ASSUME NEW k \in Nat, k \in K PROVE k + 1 \in K
    <3>1. SUFFICES ASSUME k + 1 <= n PROVE Affords(q, k + 1)
      OBVIOUS
    <3>2. k \in 0 .. n /\ k < n /\ Affords(q, k)  BY <1>1, <2>3, <3>1
    <3>3. QED  BY <2>1, <3>2
  <2>4. Nat \subseteq K
    <3> HIDE DEF K
    <3>1. QED  BY <2>2, <2>3, NatSetInduction
  <2>5. n \in 0 .. n /\ Affords(q, n)  BY <1>1, <2>4
  <2>6. Stops(n)  BY <1>1, <2>5
  <2>7. QED  BY <2>1, <2>5, <2>6
<1> DEFINE last == CHOOSE k \in 0 .. n : Stops(k)
<1>4. last \in 0 .. n /\ Affords(q, last)
  BY <1>3
<1>5. Drained(q) = First(q.egress, last)
  BY DEF Drained
<1> HIDE DEF last, n
<1>6. QED  BY <1>4, <1>5 DEF n

\* A batch is a beginning of the ingress queue in some order.
LEMMA BatchPrefix ==
  ASSUME NEW In, NEW q, NEW batch \in Batches(q), q.ingress \in Seq(In)
  PROVE  /\ Len(batch) \in 0 .. Len(q.ingress)
         /\ batch \in Orders(First(q.ingress, Len(batch)))
         /\ batch \in Seq(In)
<1>1. PICK k \in 0 .. Len(q.ingress) : batch \in Orders(First(q.ingress, k))
  BY DEF Batches
<1>2. First(q.ingress, k) \in Seq(In) /\ Len(First(q.ingress, k)) = k
  BY CopiesSplit
<1>3. batch \in Seq(In) /\ Len(batch) = k
  <2> DEFINE f == First(q.ingress, k)
  <2> HIDE DEF f
  <2>1. f \in Seq(In) /\ batch \in Orders(f) /\ Len(f) = k  BY <1>1, <1>2 DEF f
  <2>2. batch \in Seq(In) /\ Len(batch) = Len(f)  BY <2>1, CopiesOrders
  <2>3. QED  BY <2>1, <2>2
<1>4. QED  BY <1>1, <1>3

\* tick() moves events from ingress to ready and from egress to the link, and
\* spends the credit for what it sends.
LEMMA TickedPort ==
  ASSUME NEW size \in Nat, NEW In, NEW Out, In \subseteq Event, Out \subseteq Event,
         NEW q \in PortOf(size, In, Out), NEW batch \in Batches(q)
  PROVE  /\ Ticked(q, batch) \in PortOf(size, In, Out)
         /\ Drained(q) \in Seq(Out)
         /\ \A S : Copies(Ticked(q, batch).ingress, S) + Copies(Ticked(q, batch).ready, S)
                   = Copies(q.ingress, S) + Copies(q.ready, S)
         /\ \A S : Copies(Drained(q), S) + Copies(Ticked(q, batch).egress, S)
                   = Copies(q.egress, S)
         /\ Bytes(Ticked(q, batch).ingress) + Bytes(Ticked(q, batch).ready)
            = Bytes(q.ingress) + Bytes(q.ready)
         /\ size # 0 => Ticked(q, batch).credits + Bytes(Drained(q)) = q.credits
<1> DEFINE t == Ticked(q, batch)
           d == Drained(q)
           f == First(q.ingress, Len(batch))
           rest == Rest(q.ingress, Len(batch))
<1>1. /\ q.size = size /\ q.credits \in 0 .. size * DefaultMsgBytes /\ q.credits \in Nat
      /\ q.egress \in Seq(Out) /\ q.ingress \in Seq(In) /\ q.ready \in Seq(In)
      /\ Unlimited(q) <=> size = 0
  BY PortFields
<1>2. PICK k \in 0 .. Len(q.egress) : d = First(q.egress, k) /\ Affords(q, k)
  BY DrainedPrefix
<1>3. /\ d \in Seq(Out) /\ Len(d) = k /\ Rest(q.egress, Len(d)) \in Seq(Out)
      /\ \A S : Copies(q.egress, S) = Copies(d, S) + Copies(Rest(q.egress, Len(d)), S)
  <2>1. /\ First(q.egress, k) \in Seq(Out) /\ Rest(q.egress, k) \in Seq(Out)
        /\ Len(First(q.egress, k)) = k
    BY <1>1, CopiesSplit
  <2>2. ASSUME NEW S
        PROVE  Copies(q.egress, S)
               = Copies(First(q.egress, k), S) + Copies(Rest(q.egress, k), S)
    BY <1>1, CopiesSplit
  <2>3. QED  BY <1>2, <2>1, <2>2
<1>4. Len(batch) \in 0 .. Len(q.ingress) /\ batch \in Orders(f) /\ batch \in Seq(In)
  BY <1>1, BatchPrefix
<1>5. f \in Seq(In) /\ rest \in Seq(In)
  BY <1>1, <1>4, CopiesSplit
<1>6. Out \subseteq Item /\ In \subseteq Item  BY DEF Item
<1>7. /\ t.size = q.size /\ t.ingress = rest /\ t.ready = q.ready \o batch
      /\ t.egress = Rest(q.egress, Len(d))
      /\ t.credits = IF size = 0 THEN q.credits ELSE q.credits - BytesIn(d)
      /\ t = [size |-> t.size, credits |-> t.credits, egress |-> t.egress,
              ingress |-> t.ingress, ready |-> t.ready]
  <2> DEFINE c == IF Unlimited(q) THEN q.credits ELSE q.credits - BytesIn(d)
             e == Rest(q.egress, Len(d))
             r == q.ready \o batch
  <2>1. t = [q EXCEPT !.ingress = rest, !.ready = r, !.egress = e, !.credits = c]
    BY DEF Ticked
  <2>2. q = [size |-> q.size, credits |-> q.credits, egress |-> q.egress,
             ingress |-> q.ingress, ready |-> q.ready]
    BY DEF PortOf
  <2> HIDE DEF c, e, r, t, rest
  <2>3. t = [size |-> q.size, credits |-> c, egress |-> e, ingress |-> rest, ready |-> r]
    BY <2>1, <2>2
  <2>4. QED  BY <1>1, <2>3 DEF c, e, r
<1>8. size # 0 => t.credits + Bytes(d) = q.credits /\ t.credits \in Nat
  <2>1. SUFFICES ASSUME size # 0
                 PROVE  t.credits + Bytes(d) = q.credits /\ t.credits \in Nat
    OBVIOUS
  <2>2. d \in Seq(Event)  BY <1>3, SeqMonotonic
  <2>3. BytesIn(d) = Bytes(d) /\ Bytes(d) \in Nat
    BY <2>2, BytesInQueue, EventsOweNothing, BytesNat
  <2>4. BytesIn(d) <= q.credits  BY <1>1, <1>2, <2>1 DEF Affords
  <2>5. t.credits = q.credits - BytesIn(d)  BY <1>7, <2>1
  <2> HIDE DEF t, d
  <2>6. QED  BY <1>1, <2>3, <2>4, <2>5
<1>9. t \in PortOf(size, In, Out)
  <2>1. t.credits \in 0 .. size * DefaultMsgBytes
    <3>1. CASE size = 0  BY <1>1, <1>7, <3>1
    <3>2. CASE size # 0
      <4>1. d \in Seq(Item)  BY <1>3, <1>6, SeqMonotonic
      <4>2. Bytes(d) \in Nat  BY <4>1, BytesNat
      <4>3. size * DefaultMsgBytes \in Nat  BY DEF DefaultMsgBytes
      <4> HIDE DEF t, d
      <4>4. QED  BY <1>1, <1>8, <3>2, <4>2, <4>3
    <3>3. QED  BY <3>1, <3>2
  <2>2. t.ready \in Seq(In)  BY <1>1, <1>4, <1>7, ConcatProperties
  <2> HIDE DEF t, d
  <2>3. QED  BY <1>1, <1>3, <1>5, <1>7, <2>1, <2>2 DEF PortOf
<1>10. ASSUME NEW S
       PROVE  Copies(t.ingress, S) + Copies(t.ready, S)
              = Copies(q.ingress, S) + Copies(q.ready, S)
  <2>1. Copies(t.ready, S) = Copies(q.ready, S) + Copies(batch, S)
    BY <1>1, <1>4, <1>7, CopiesConcat
  <2>2. Copies(batch, S) = Copies(f, S)
    <3> HIDE DEF f
    <3>1. QED  BY <1>4, <1>5, CopiesOrders
  <2>3. Copies(q.ingress, S) = Copies(f, S) + Copies(rest, S)
    BY <1>1, <1>4, CopiesSplit
  <2>4. Copies(f, S) \in Nat /\ Copies(rest, S) \in Nat /\ Copies(q.ready, S) \in Nat
    BY <1>1, <1>5, CopiesNat
  <2> HIDE DEF f, rest, t
  <2>5. QED  BY <1>7, <2>1, <2>2, <2>3, <2>4
<1>11. Bytes(t.ingress) + Bytes(t.ready) = Bytes(q.ingress) + Bytes(q.ready)
  <2>1. /\ q.ready \in Seq(Item) /\ q.ingress \in Seq(Item) /\ batch \in Seq(Item)
        /\ f \in Seq(Item) /\ rest \in Seq(Item)
    BY <1>1, <1>4, <1>5, <1>6, SeqMonotonic
  <2>2. Bytes(t.ready) = Bytes(q.ready) + Bytes(batch)
    BY <1>7, <2>1, BytesConcat
  <2>3. Bytes(batch) = Bytes(f)
    <3> HIDE DEF f
    <3>1. QED  BY <1>4, <2>1, BytesOrders
  <2>4. Bytes(q.ingress) = Bytes(f) + Bytes(rest)
    BY <2>1, <1>4, BytesSplit
  <2>5. Bytes(f) \in Nat /\ Bytes(rest) \in Nat /\ Bytes(q.ready) \in Nat
    BY <2>1, BytesNat
  <2> HIDE DEF f, rest, t
  <2>6. QED  BY <1>7, <2>2, <2>3, <2>4, <2>5
<1>12. \A S : Copies(d, S) + Copies(t.egress, S) = Copies(q.egress, S)
  <2> HIDE DEF d, t
  <2>1. QED  BY <1>3, <1>7
<1>13. QED  BY <1>3, <1>8, <1>9, <1>10, <1>11, <1>12

\* send() with room puts the event at the end of the egress queue.
LEMMA SentPort ==
  ASSUME NEW size \in Nat, NEW In, NEW Out, NEW q \in PortOf(size, In, Out),
         NEW ev \in Out, CanSend(q)
  PROVE  /\ Send(q, ev) \in PortOf(size, In, Out)
         /\ Send(q, ev) = [q EXCEPT !.egress = Append(q.egress, ev)]
         /\ \A S : Copies(Send(q, ev).egress, S) = Copies(q.egress, S) + Mark(ev, S)
<1>1. q.egress \in Seq(Out) /\ Append(q.egress, ev) \in Seq(Out)
  BY PortFields, AppendProperties
<1>2. Send(q, ev) = [q EXCEPT !.egress = Append(q.egress, ev)]
  BY DEF Send, PortOf
<1>3. Send(q, ev) \in PortOf(size, In, Out) /\ Send(q, ev).egress = Append(q.egress, ev)
  BY <1>1, <1>2 DEF PortOf
<1>4. ASSUME NEW S
      PROVE  Copies(Send(q, ev).egress, S) = Copies(q.egress, S) + Mark(ev, S)
  BY <1>1, <1>3, CopiesAppend
<1>5. QED  BY <1>2, <1>3, <1>4

\* The handler of try_receive takes the head of the ready queue.
LEMMA TakenPort ==
  ASSUME NEW size \in Nat, NEW In, NEW Out, In \subseteq Event,
         NEW q \in PortOf(size, In, Out), q.ready # << >>
  PROVE  /\ Taken(q) \in PortOf(size, In, Out)
         /\ Taken(q) = [q EXCEPT !.ready = Tail(q.ready)]
         /\ Head(q.ready) \in In
         /\ \A S : Copies(q.ready, S) = Copies(Taken(q).ready, S) + Mark(Head(q.ready), S)
         /\ Bytes(q.ready) = Bytes(Taken(q).ready) + CreditBytes(Head(q.ready))
<1>1. q.ready \in Seq(In) /\ Head(q.ready) \in In /\ Tail(q.ready) \in Seq(In)
  BY PortFields, HeadTailProperties
<1>2. Taken(q) = [q EXCEPT !.ready = Tail(q.ready)]
  BY DEF Taken, PortOf
<1>3. Taken(q) \in PortOf(size, In, Out) /\ Taken(q).ready = Tail(q.ready)
  BY <1>1, <1>2 DEF PortOf
<1>4. ASSUME NEW S
      PROVE  Copies(q.ready, S) = Copies(Taken(q).ready, S) + Mark(Head(q.ready), S)
  BY <1>1, <1>3, CopiesTail
<1>5. Bytes(q.ready) = Bytes(Taken(q).ready) + CreditBytes(Head(q.ready))
  <2>1. In \subseteq Item /\ Head(q.ready) \in Event /\ Head(q.ready) \in Item
    BY <1>1 DEF Item
  <2>2. q.ready \in Seq(Item) /\ Tail(q.ready) \in Seq(Item)
    BY <1>1, <2>1, SeqMonotonic
  <2>3. Bytes(q.ready) = Bytes(<<Head(q.ready)>>) + Bytes(Tail(q.ready))
    BY <2>2, BytesTail
  <2>4. Bytes(<<Head(q.ready)>>) = CreditBytes(Head(q.ready))  BY <2>1, BytesOne
  <2>5. Bytes(Tail(q.ready)) \in Nat /\ Bytes(<<Head(q.ready)>>) \in Nat
    <3>1. <<Head(q.ready)>> \in Seq(Item)  BY <2>1
    <3>2. QED  BY <2>2, <3>1, BytesNat
  <2>6. QED  BY <1>3, <2>3, <2>4, <2>5
<1>6. QED  BY <1>1, <1>2, <1>3, <1>4, <1>5

\* handle_event(): an event comes in, or credit that fits.
LEMMA ArrivedPort ==
  ASSUME NEW size \in Nat, NEW In, NEW Out, In \subseteq Event,
         NEW q \in PortOf(size, In, Out), NEW item, item \in In \cup CreditMsg
  PROVE  /\ Arrived(q, item) \in PortOf(size, In, Out)
         /\ Arrived(q, item).egress = q.egress /\ Arrived(q, item).ready = q.ready
         /\ \A S : S \cap CreditMsg = {} =>
              Copies(Arrived(q, item).ingress, S) = Copies(q.ingress, S) + Mark(item, S)
         /\ Bytes(Arrived(q, item).ingress) = Bytes(q.ingress) + Bytes(<<item>>)
         /\ size # 0 /\ q.credits + Owed(<<item>>) <= size * DefaultMsgBytes =>
              Arrived(q, item).credits = q.credits + Owed(<<item>>)
<1>1. /\ q.size = size /\ q.credits \in 0 .. size * DefaultMsgBytes /\ q.credits \in Nat
      /\ q.ingress \in Seq(In) /\ size * DefaultMsgBytes \in Nat
      /\ Unlimited(q) <=> size = 0
      /\ Capacity(q) = size * DefaultMsgBytes
  BY PortFields DEF DefaultMsgBytes
<1>2. item \in Item /\ In \subseteq Item  BY DEF Item
<1>3. q.ingress \in Seq(Item) /\ <<item>> \in Seq(Item)
  BY <1>1, <1>2, SeqMonotonic
<1>4. CASE item \in In
  <2>1. item.type # "credit" /\ item \in Event
    BY <1>4 DEF Event, Request, ReadMsg, WriteMsg, ResetMsg, RspMsg
  <2>2. Arrived(q, item) = [q EXCEPT !.ingress = Append(q.ingress, item)]
    BY <2>1 DEF Arrived, PortOf
  <2>3. Append(q.ingress, item) \in Seq(In)  BY <1>1, <1>4, AppendProperties
  <2>4. /\ Arrived(q, item) \in PortOf(size, In, Out)
        /\ Arrived(q, item).egress = q.egress /\ Arrived(q, item).ready = q.ready
        /\ Arrived(q, item).ingress = Append(q.ingress, item)
        /\ Arrived(q, item).credits = q.credits
    BY <2>2, <2>3 DEF PortOf
  <2>5. ASSUME NEW S
        PROVE  Copies(Arrived(q, item).ingress, S) = Copies(q.ingress, S) + Mark(item, S)
    BY <1>1, <1>4, <2>4, CopiesAppend
  <2>6. Append(q.ingress, item) = q.ingress \o <<item>>
    BY <1>1, <1>4, AppendIsConcat
  <2>7. Bytes(q.ingress \o <<item>>) = Bytes(q.ingress) + Bytes(<<item>>)
    BY <1>3, BytesConcat
  <2>8. Owed(<<item>>) = 0  BY <1>2, <2>1, BytesOne
  <2>9. QED  BY <1>1, <2>4, <2>5, <2>6, <2>7, <2>8
<1>5. CASE item \in CreditMsg
  <2>1. item.type = "credit" /\ item.bytes \in Nat  BY <1>5 DEF CreditMsg
  <2>2. Bytes(<<item>>) = 0 /\ Owed(<<item>>) = item.bytes  BY <1>2, <1>5, BytesOne
  <2> DEFINE c == IF Unlimited(q) THEN q.credits
                  ELSE IF q.credits + item.bytes > Capacity(q) THEN Capacity(q)
                                                               ELSE q.credits + item.bytes
  <2>3. Arrived(q, item) = [q EXCEPT !.credits = c]
    BY <2>1 DEF Arrived, Credited, PortOf
  <2>4. c \in 0 .. size * DefaultMsgBytes
    BY <1>1, <2>1
  <2>5. size # 0 /\ q.credits + item.bytes <= size * DefaultMsgBytes =>
          c = q.credits + item.bytes
    BY <1>1, <2>1
  <2> HIDE DEF c
  <2>6. /\ Arrived(q, item) \in PortOf(size, In, Out)
        /\ Arrived(q, item).egress = q.egress /\ Arrived(q, item).ready = q.ready
        /\ Arrived(q, item).ingress = q.ingress
        /\ Arrived(q, item).credits = c
    BY <2>3, <2>4 DEF PortOf
  <2>7. ASSUME NEW S, S \cap CreditMsg = {}
        PROVE  Copies(Arrived(q, item).ingress, S) = Copies(q.ingress, S) + Mark(item, S)
    <3>1. item \notin S  BY <1>5, <2>7
    <3>2. Mark(item, S) = 0  BY <3>1 DEF Mark
    <3>3. Copies(q.ingress, S) \in Nat  BY <1>1, CopiesNat
    <3>4. QED  BY <2>6, <3>2, <3>3
  <2>8. Bytes(q.ingress) \in Nat  BY <1>3, BytesNat
  <2>9. QED  BY <2>2, <2>5, <2>6, <2>7, <2>8
<1>6. QED  BY <1>4, <1>5

-----------------------------------------------------------------------------
(* Sums over the pools *)

LEMMA PoolIndex ==
  /\ NumPools \in Nat
  /\ \A k \in 1 .. NumPools : PoolBase + k - 1 \in Pool
  /\ \A p \in Pool : p - PoolBase + 1 \in 1 .. NumPools
                     /\ PoolBase + (p - PoolBase + 1) - 1 = p
BY IdAssumption DEF Pool

LEMMA SumChange ==
  ASSUME NEW f \in [Pool -> Nat], NEW g \in [Pool -> Nat], NEW p \in Pool,
         \A q \in Pool : q # p => g[q] = f[q]
  PROVE  /\ SumOverPools(f) \in Nat /\ SumOverPools(g) \in Nat
         /\ SumOverPools(g) + f[p] = SumOverPools(f) + g[p]
<1> DEFINE old == [k \in 1 .. NumPools |-> f[PoolBase + k - 1]]
           new == [k \in 1 .. NumPools |-> g[PoolBase + k - 1]]
           m == p - PoolBase + 1
<1>1. old \in [1 .. NumPools -> Nat] /\ new \in [1 .. NumPools -> Nat]
  BY PoolIndex
<1>2. m \in 1 .. NumPools /\ old[m] = f[p] /\ new[m] = g[p]
  <2>1. m \in 1 .. NumPools /\ PoolBase + m - 1 = p  BY PoolIndex
  <2> HIDE DEF m
  <2>2. QED  BY <2>1
<1>3. ASSUME NEW k \in 1 .. NumPools, k # m PROVE new[k] = old[k]
  <2>1. PoolBase + k - 1 \in Pool /\ PoolBase + k - 1 # p
    BY <1>3, PoolIndex, IdAssumption DEF Pool
  <2>2. QED  BY <2>1
<1> HIDE DEF m, old, new
<1>4. Total(new, 1 .. NumPools, NumPools) + old[m]
      = Total(old, 1 .. NumPools, NumPools) + new[m]
  BY <1>1, <1>2, <1>3, PoolIndex, TotalChange
<1>5. /\ Total(new, 1 .. NumPools, NumPools) \in Nat
      /\ Total(old, 1 .. NumPools, NumPools) \in Nat
  BY <1>1, PoolIndex, TotalNat
<1>6. QED  BY <1>2, <1>4, <1>5 DEF SumOverPools, old, new

LEMMA SumAtLeast ==
  ASSUME NEW f \in [Pool -> Nat], NEW p \in Pool
  PROVE  SumOverPools(f) \in Nat /\ f[p] <= SumOverPools(f)
<1> DEFINE w == [k \in 1 .. NumPools |-> f[PoolBase + k - 1]]
           m == p - PoolBase + 1
<1>1. w \in [1 .. NumPools -> Nat]  BY PoolIndex
<1>2. m \in 1 .. NumPools /\ w[m] = f[p]
  <2>1. m \in 1 .. NumPools /\ PoolBase + m - 1 = p  BY PoolIndex
  <2> HIDE DEF m
  <2>2. QED  BY <2>1
<1> HIDE DEF m, w
<1>3. w[m] <= Total(w, 1 .. NumPools, NumPools)
  BY <1>1, <1>2, PoolIndex, TotalAtLeast
<1>4. Total(w, 1 .. NumPools, NumPools) \in Nat
  BY <1>1, PoolIndex, TotalNat
<1>5. QED  BY <1>2, <1>3, <1>4 DEF SumOverPools, w

LEMMA SumZero ==
  ASSUME NEW f, f = [p \in Pool |-> 0]
  PROVE  SumOverPools(f) = 0
<1> DEFINE w == [k \in 1 .. NumPools |-> f[PoolBase + k - 1]]
           n == NumPools
           none == [k \in 1 .. n |-> 0]
<1>1. \A k \in 1 .. n : k \in 1 .. n => w[k] = none[k]  BY PoolIndex
<1>2. n \in Nat  BY PoolIndex
<1>3. Total(w, 1 .. n, n) = Total(none, 1 .. n, n)
  <2> DEFINE All == 1 .. n
  <2>1. \A k \in 1 .. n : k \in All => w[k] = none[k]  BY <1>1
  <2> HIDE DEF All, w, none
  <2>2. Total(w, All, n) = Total(none, All, n)  BY <1>2, <2>1, TotalAgree
  <2>3. QED  BY <2>2 DEF All
<1>4. Total(none, 1 .. n, n) = 0
  <2>1. PICK s : Sums(s, none, 1 .. n, n) /\ Total(none, 1 .. n, n) = s[n]
    BY <1>2, TotalIsSum
  <2> DEFINE All == 1 .. n
  <2>2. s[0] = 0 /\ \A i \in 1 .. n : s[i] = s[i - 1] + (IF i \in All THEN none[i] ELSE 0)
    <3> HIDE DEF All, none
    <3>1. Sums(s, none, All, n)  BY <2>1 DEF All
    <3>2. QED  BY <1>2, <3>1, SumsStep
  <2> DEFINE K == {i \in Nat : i <= n => s[i] = 0}
  <2>3. 0 \in K  BY <2>2
  <2>4. ASSUME NEW i \in Nat, i \in K PROVE i + 1 \in K
    <3>1. SUFFICES ASSUME i + 1 <= n PROVE s[i + 1] = 0
      OBVIOUS
    <3>2. i + 1 \in 1 .. n /\ (i + 1) - 1 = i  BY <1>2, <3>1
    <3>3. s[i + 1] = s[i] + 0  BY <2>2, <3>2
    <3>4. s[i] = 0  BY <1>2, <2>4, <3>1
    <3>5. QED  BY <3>3, <3>4
  <2>5. Nat \subseteq K
    <3> HIDE DEF K
    <3>1. QED  BY <2>3, <2>4, NatSetInduction
  <2>6. QED  BY <1>2, <2>1, <2>5
<1>5. QED  BY <1>3, <1>4 DEF SumOverPools

-----------------------------------------------------------------------------
(* The counts are numbers *)

LEMMA EventQueue ==
  ASSUME NEW i, NEW q
  PROVE  /\ q \in Seq(From(i)) => q \in Seq(Event) /\ q \in Seq(Item)
         /\ q \in Seq(For(i)) => q \in Seq(Event) /\ q \in Seq(Item)
         /\ q \in Seq(ItemFrom(i)) => q \in Seq(Item)
         /\ q \in Seq(For(i) \cup CreditMsg) => q \in Seq(Item)
<1>1. /\ From(i) \subseteq Event /\ For(i) \subseteq Event /\ Event \subseteq Item
      /\ ItemFrom(i) \subseteq Item /\ For(i) \cup CreditMsg \subseteq Item
  BY DEF From, For, ItemFrom, Item
<1>2. QED  BY <1>1, SeqMonotonic

LEMMA PortQueues ==
  ASSUME NEW P, NEW D, SwitchTyped(P, D), NEW i \in Id
  PROVE  /\ P[i] \in PortOf(SwitchQueue, From(i), For(i))
         /\ P[i].ingress \in Seq(Item) /\ P[i].ready \in Seq(Item)
         /\ P[i].egress \in Seq(Item) /\ D[i] \in Seq(Item)
         /\ P[i].credits \in Nat
<1>1. P[i] \in PortOf(SwitchQueue, From(i), For(i)) /\ D[i] \in Seq(For(i) \cup CreditMsg)
  BY DEF SwitchTyped
<1>2. /\ P[i].ingress \in Seq(From(i)) /\ P[i].ready \in Seq(From(i))
      /\ P[i].egress \in Seq(For(i)) /\ P[i].credits \in Nat
  BY <1>1, PortFields, SwitchAssumption
<1>3. QED  BY <1>1, <1>2, EventQueue

LEMMA PoolQueues ==
  ASSUME PoolsTyped, NEW p \in Pool
  PROVE  /\ switchPort[p] \in PortOf(PoolQueue, For(p), From(p))
         /\ switchPort[p].ingress \in Seq(Item) /\ switchPort[p].ready \in Seq(Item)
         /\ switchPort[p].egress \in Seq(Item) /\ switchPort[p].credits \in Nat
         /\ returned[p] \in Seq(Item)
         /\ IsFiniteSet(mem[p]) /\ IsFiniteSet(performed[p])
<1>1. PoolTyped(p) /\ returned[p] \in Seq(Item)  BY DEF PoolsTyped
<1>2. switchPort[p] \in PortOf(PoolQueue, For(p), From(p))
  BY <1>1 DEF PoolTyped
<1>3. /\ switchPort[p].ingress \in Seq(For(p)) /\ switchPort[p].ready \in Seq(For(p))
      /\ switchPort[p].egress \in Seq(From(p)) /\ switchPort[p].credits \in Nat
  BY <1>2, PortFields, PoolAssumption
<1>4. QED  BY <1>1, <1>2, <1>3, EventQueue DEF PoolTyped

LEMMA CountsAreNumbers ==
  ASSUME NodesTyped, PoolsTyped, NEW P, NEW D, SwitchTyped(P, D), NEW S
  PROVE  /\ \A n \in Node : /\ Copies(queue[n], S) \in Nat /\ Copies(up[n], S) \in Nat
                            /\ Here(P, n, S) \in Nat /\ Back(P, D, n, S) \in Nat
         /\ \A i \in Id : /\ Copies(P[i].ingress, S) \in Nat
                          /\ Copies(P[i].ready, S) \in Nat
                          /\ Copies(P[i].egress, S) \in Nat
                          /\ Copies(D[i], S) \in Nat
         /\ \A p \in Pool : /\ Copies(switchPort[p].egress, S) \in Nat
                            /\ Copies(switchPort[p].ingress, S) \in Nat
                            /\ Copies(switchPort[p].ready, S) \in Nat
                            /\ Copies(up[p], S) \in Nat
                            /\ Copies(returned[p], S) \in Nat
                            /\ Within(mem[p], S) \in Nat
                            /\ Within(performed[p], S) \in Nat
                            /\ At(P, D, p, S) \in Nat /\ Answers(P, p, S) \in Nat
                            /\ Reached(P, D, p, S) \in Nat
<1>1. ASSUME NEW i \in Id
      PROVE  /\ Copies(P[i].ingress, S) \in Nat /\ Copies(P[i].ready, S) \in Nat
             /\ Copies(P[i].egress, S) \in Nat /\ Copies(D[i], S) \in Nat
             /\ Copies(up[i], S) \in Nat
  <2>1. up[i] \in Seq(Item)  BY DEF NodesTyped
  <2>2. QED  BY <2>1, PortQueues, CopiesNat
<1>2. ASSUME NEW n \in Node
      PROVE  /\ Copies(queue[n], S) \in Nat /\ Copies(up[n], S) \in Nat
             /\ Here(P, n, S) \in Nat /\ Back(P, D, n, S) \in Nat
  <2>1. queue[n] \in Seq(Item) /\ n \in Id  BY Places DEF NodesTyped
  <2>2. Copies(queue[n], S) \in Nat  BY <2>1, CopiesNat
  <2>3. QED  BY <1>1, <2>1, <2>2 DEF Here, Back
<1>3. ASSUME NEW p \in Pool
      PROVE  /\ Copies(switchPort[p].egress, S) \in Nat
             /\ Copies(switchPort[p].ingress, S) \in Nat
             /\ Copies(switchPort[p].ready, S) \in Nat
             /\ Copies(up[p], S) \in Nat
             /\ Copies(returned[p], S) \in Nat
             /\ Within(mem[p], S) \in Nat
             /\ Within(performed[p], S) \in Nat
             /\ At(P, D, p, S) \in Nat /\ Answers(P, p, S) \in Nat
             /\ Reached(P, D, p, S) \in Nat
  <2>1. p \in Id  BY Places
  <2>2. /\ Copies(switchPort[p].egress, S) \in Nat
        /\ Copies(switchPort[p].ingress, S) \in Nat
        /\ Copies(switchPort[p].ready, S) \in Nat
        /\ Copies(returned[p], S) \in Nat
    BY PoolQueues, CopiesNat
  <2>3. Within(mem[p], S) \in Nat /\ Within(performed[p], S) \in Nat
    BY PoolQueues, WithinNat
  <2>4. QED  BY <1>1, <2>1, <2>2, <2>3 DEF At, Answers, Reached
<1>4. QED  BY <1>1, <1>2, <1>3

LEMMA PoolCountsAreNumbers ==
  ASSUME NodesTyped, PoolsTyped, NEW P, NEW D, SwitchTyped(P, D)
  PROVE  /\ \A n \in Node, b \in Block : InPools(P, D, n, b) \in [Pool -> Nat]
         /\ \A S : ReachedPools(P, D, S) \in [Pool -> Nat]
<1>1. ASSUME NEW n \in Node, NEW b \in Block, NEW p \in Pool
      PROVE  InPool(P, D, p, n, b) \in Nat
  <2>1. /\ At(P, D, p, ReadOf(n, b)) \in Nat
        /\ Copies(returned[p], ReadOf(n, b)) \in Nat
    BY CountsAreNumbers
  <2>2. Answers(P, p, RspTo(n, b)) \in Nat  BY CountsAreNumbers
  <2>3. QED  BY <2>1, <2>2 DEF InPool
<1>2. ASSUME NEW S, NEW p \in Pool PROVE Reached(P, D, p, S) \in Nat
  BY CountsAreNumbers
<1>3. QED  BY <1>1, <1>2 DEF InPools, ReachedPools

-----------------------------------------------------------------------------
(* A tick of one port of the switch *)

\* Two states of the switch with the same copies on each stretch of the way.
SameCopies(P, D, P1, D1) ==
  \A i \in Id : \A S :
    /\ Copies(P1[i].ingress, S) + Copies(P1[i].ready, S)
       = Copies(P[i].ingress, S) + Copies(P[i].ready, S)
    /\ Copies(D1[i], S) + Copies(P1[i].egress, S)
       = Copies(D[i], S) + Copies(P[i].egress, S)

\* They count the same.
LEMMA SameFlow ==
  ASSUME NodesTyped, PoolsTyped,
         NEW P, NEW D, SwitchTyped(P, D), NEW P1, NEW D1, SwitchTyped(P1, D1),
         SameCopies(P, D, P1, D1)
  PROVE  /\ ReadsCounted(P, D) => ReadsCounted(P1, D1)
         /\ WritesCounted(P, D) => WritesCounted(P1, D1)
         /\ ResetsCounted(P, D) => ResetsCounted(P1, D1)
<1>1. ASSUME NEW n \in Node, NEW S
      PROVE  Here(P1, n, S) = Here(P, n, S) /\ Back(P1, D1, n, S) = Back(P, D, n, S)
  <2>1. n \in Id  BY Places
  <2>2. /\ Copies(P1[n].ingress, S) + Copies(P1[n].ready, S)
           = Copies(P[n].ingress, S) + Copies(P[n].ready, S)
        /\ Copies(D1[n], S) + Copies(P1[n].egress, S)
           = Copies(D[n], S) + Copies(P[n].egress, S)
    BY <2>1 DEF SameCopies
  <2>3. /\ Copies(queue[n], S) \in Nat /\ Copies(up[n], S) \in Nat
        /\ Copies(P[n].ingress, S) \in Nat /\ Copies(P[n].ready, S) \in Nat
        /\ Copies(P[n].egress, S) \in Nat /\ Copies(D[n], S) \in Nat
    BY <2>1, CountsAreNumbers
  <2>4. /\ Copies(P1[n].ingress, S) \in Nat /\ Copies(P1[n].ready, S) \in Nat
        /\ Copies(P1[n].egress, S) \in Nat /\ Copies(D1[n], S) \in Nat
    BY <2>1, CountsAreNumbers
  <2>5. Here(P1, n, S) = Here(P, n, S)  BY <2>2, <2>3, <2>4 DEF Here
  <2>6. Back(P1, D1, n, S) = Back(P, D, n, S)  BY <2>2, <2>3, <2>4 DEF Back
  <2>7. QED  BY <2>5, <2>6
<1>2. ASSUME NEW p \in Pool, NEW S
      PROVE  /\ At(P1, D1, p, S) = At(P, D, p, S)
             /\ Answers(P1, p, S) = Answers(P, p, S)
             /\ Reached(P1, D1, p, S) = Reached(P, D, p, S)
  <2>1. p \in Id  BY Places
  <2>2. /\ Copies(P1[p].ingress, S) + Copies(P1[p].ready, S)
           = Copies(P[p].ingress, S) + Copies(P[p].ready, S)
        /\ Copies(D1[p], S) + Copies(P1[p].egress, S)
           = Copies(D[p], S) + Copies(P[p].egress, S)
    BY <2>1 DEF SameCopies
  <2>3. /\ Copies(switchPort[p].egress, S) \in Nat /\ Copies(up[p], S) \in Nat
        /\ Copies(switchPort[p].ingress, S) \in Nat
        /\ Copies(switchPort[p].ready, S) \in Nat
        /\ Within(mem[p], S) \in Nat
        /\ Copies(P[p].ingress, S) \in Nat /\ Copies(P[p].ready, S) \in Nat
        /\ Copies(P[p].egress, S) \in Nat /\ Copies(D[p], S) \in Nat
    BY <2>1, CountsAreNumbers
  <2>4. /\ Copies(P1[p].ingress, S) \in Nat /\ Copies(P1[p].ready, S) \in Nat
        /\ Copies(P1[p].egress, S) \in Nat /\ Copies(D1[p], S) \in Nat
    BY <2>1, CountsAreNumbers
  <2>5. At(P1, D1, p, S) = At(P, D, p, S)  BY <2>2, <2>3, <2>4 DEF At
  <2>6. Answers(P1, p, S) = Answers(P, p, S)  BY <2>2, <2>3, <2>4 DEF Answers
  <2>7. QED  BY <2>5, <2>6 DEF Reached
<1>3. ASSUME NEW n \in Node, NEW b \in Block
      PROVE  InPools(P1, D1, n, b) = InPools(P, D, n, b)
  BY <1>2 DEF InPools, InPool
<1>4. ASSUME NEW S PROVE ReachedPools(P1, D1, S) = ReachedPools(P, D, S)
  BY <1>2 DEF ReachedPools
<1>5. ReadsCounted(P, D) => ReadsCounted(P1, D1)
  BY <1>1, <1>3 DEF ReadsCounted
<1>6. WritesCounted(P, D) => WritesCounted(P1, D1)
  BY <1>1, <1>2, <1>4 DEF WritesCounted
<1>7. ResetsCounted(P, D) => ResetsCounted(P1, D1)
  BY <1>1, <1>2 DEF ResetsCounted
<1>8. QED  BY <1>5, <1>6, <1>7

\* The tick of port i keeps all the counts, and takes from the credits of the
\* port what it puts on the link.
LEMMA TickPhase ==
  ASSUME NodesTyped, PoolsTyped, NEW P, NEW D, NEW r, SwitchInv(P, D, r),
         NEW i \in Id, NEW batch \in Batches(P[i]), NEW P1, NEW D1,
         P1 = [P EXCEPT ![i] = Ticked(P[i], batch)],
         D1 = [D EXCEPT ![i] = D[i] \o Drained(P[i])]
  PROVE  SwitchInv(P1, D1, r)
<1> DEFINE t == Ticked(P[i], batch)
           d == Drained(P[i])
<1>1. /\ SwitchTyped(P, D) /\ r \in 0 .. NumPools - 1
      /\ ReadsCounted(P, D) /\ WritesCounted(P, D) /\ ResetsCounted(P, D)
      /\ Accounts(P, D)
  BY DEF SwitchInv
<1>2. /\ P \in [Id -> PortOf(SwitchQueue, Event, Event)] /\ D \in [Id -> Seq(Item)]
      /\ \A j \in Id : /\ P[j] \in PortOf(SwitchQueue, From(j), For(j))
                       /\ D[j] \in Seq(For(j) \cup CreditMsg)
  BY <1>1 DEF SwitchTyped
<1>3. From(i) \subseteq Event /\ For(i) \subseteq Event /\ SwitchQueue \in Nat
  BY SwitchAssumption DEF From, For
<1>4. /\ t \in PortOf(SwitchQueue, From(i), For(i))
      /\ d \in Seq(For(i))
      /\ \A S : Copies(t.ingress, S) + Copies(t.ready, S)
                = Copies(P[i].ingress, S) + Copies(P[i].ready, S)
      /\ \A S : Copies(d, S) + Copies(t.egress, S) = Copies(P[i].egress, S)
      /\ Bytes(t.ingress) + Bytes(t.ready) = Bytes(P[i].ingress) + Bytes(P[i].ready)
      /\ SwitchQueue # 0 => t.credits + Bytes(d) = P[i].credits
  <2> DEFINE q == P[i]
             In == From(i)
             Out == For(i)
  <2>1. q \in PortOf(SwitchQueue, In, Out) /\ batch \in Batches(q)
    BY <1>2
  <2>2. In \subseteq Event /\ Out \subseteq Event  BY <1>3
  <2> HIDE DEF q, In, Out
  <2>3. /\ Ticked(q, batch) \in PortOf(SwitchQueue, In, Out)
        /\ Drained(q) \in Seq(Out)
        /\ \A S : Copies(Ticked(q, batch).ingress, S) + Copies(Ticked(q, batch).ready, S)
                  = Copies(q.ingress, S) + Copies(q.ready, S)
        /\ \A S : Copies(Drained(q), S) + Copies(Ticked(q, batch).egress, S)
                  = Copies(q.egress, S)
        /\ Bytes(Ticked(q, batch).ingress) + Bytes(Ticked(q, batch).ready)
           = Bytes(q.ingress) + Bytes(q.ready)
        /\ SwitchQueue # 0 => Ticked(q, batch).credits + Bytes(Drained(q)) = q.credits
    BY <1>3, <2>1, <2>2, TickedPort
  <2>4. QED  BY <2>3 DEF q, In, Out, t, d
<1> HIDE DEF t, d
<1>5. /\ t \in PortOf(SwitchQueue, Event, Event)
      /\ d \in Seq(Item) /\ d \in Seq(Event) /\ D[i] \in Seq(Item)
      /\ D[i] \o d \in Seq(For(i) \cup CreditMsg) /\ D[i] \o d \in Seq(Item)
  <2>1. t \in PortOf(SwitchQueue, Event, Event)
    <3>1. Seq(From(i)) \subseteq Seq(Event) /\ Seq(For(i)) \subseteq Seq(Event)
      BY <1>3, SeqMonotonic
    <3>2. QED  BY <1>4, <3>1 DEF PortOf
  <2>2. d \in Seq(For(i) \cup CreditMsg)  BY <1>4, SeqMonotonic
  <2>3. D[i] \o d \in Seq(For(i) \cup CreditMsg)  BY <1>2, <2>2, ConcatProperties
  <2>4. QED  BY <1>2, <1>4, <2>1, <2>3, EventQueue
<1>6. /\ P1 = [P EXCEPT ![i] = t] /\ D1 = [D EXCEPT ![i] = D[i] \o d]
  BY DEF t, d
<1>7. /\ P1[i] = t /\ D1[i] = D[i] \o d
      /\ \A j \in Id : j # i => P1[j] = P[j] /\ D1[j] = D[j]
  BY <1>2, <1>6
<1>8. SwitchTyped(P1, D1)
  <2>1. /\ P1 \in [Id -> PortOf(SwitchQueue, Event, Event)]
        /\ D1 \in [Id -> Seq(Item)]
    BY <1>2, <1>5, <1>6
  <2>2. ASSUME NEW j \in Id
        PROVE  /\ P1[j] \in PortOf(SwitchQueue, From(j), For(j))
               /\ D1[j] \in Seq(For(j) \cup CreditMsg)
    <3>1. CASE j = i  BY <1>4, <1>5, <1>7, <3>1
    <3>2. CASE j # i  BY <1>2, <1>7, <3>2
    <3>3. QED  BY <3>1, <3>2
  <2>3. QED  BY <2>1, <2>2 DEF SwitchTyped
<1>9. ASSUME NEW j \in Id, NEW S
      PROVE  /\ Copies(P1[j].ingress, S) + Copies(P1[j].ready, S)
                = Copies(P[j].ingress, S) + Copies(P[j].ready, S)
             /\ Copies(D1[j], S) + Copies(P1[j].egress, S)
                = Copies(D[j], S) + Copies(P[j].egress, S)
  <2>1. CASE j = i
    <3>1. Copies(D[i] \o d, S) = Copies(D[i], S) + Copies(d, S)
      BY <1>5, CopiesConcat
    <3>2. Copies(d, S) + Copies(t.egress, S) = Copies(P[i].egress, S)  BY <1>4
    <3>3. Copies(D[i], S) \in Nat /\ Copies(d, S) \in Nat /\ Copies(t.egress, S) \in Nat
      <4>1. P1[i].egress \in Seq(Item)  BY <1>8, PortQueues
      <4>2. QED  BY <1>5, <1>7, <4>1, CopiesNat
    <3>a. Copies(D[i] \o d, S) + Copies(t.egress, S)
          = Copies(D[i], S) + Copies(P[i].egress, S)
      BY <3>1, <3>2, <3>3
    <3>4. Copies(D1[i], S) + Copies(P1[i].egress, S)
          = Copies(D[i], S) + Copies(P[i].egress, S)
      BY <1>7, <3>a
    <3>5. QED  BY <1>4, <1>7, <2>1, <3>4
  <2>2. CASE j # i  BY <1>7, <2>2
  <2>3. QED  BY <2>1, <2>2
<1>10. /\ ReadsCounted(P1, D1) /\ WritesCounted(P1, D1) /\ ResetsCounted(P1, D1)
  <2>1. SameCopies(P, D, P1, D1)  BY <1>9 DEF SameCopies
  <2>2. /\ ReadsCounted(P, D) => ReadsCounted(P1, D1)
        /\ WritesCounted(P, D) => WritesCounted(P1, D1)
        /\ ResetsCounted(P, D) => ResetsCounted(P1, D1)
    BY <1>1, <1>8, <2>1, SameFlow
  <2>3. QED  BY <1>1, <2>2
<1>11. ASSUME NEW p \in Pool
       PROVE  /\ P1[p].credits + Bytes(D1[p]) = P[p].credits + Bytes(D[p])
                 \/ SwitchQueue = 0
              /\ Bytes(P1[p].ingress) + Bytes(P1[p].ready)
                 = Bytes(P[p].ingress) + Bytes(P[p].ready)
              /\ Owed(D1[p]) = Owed(D[p])
  <2>1. CASE p = i
    <3>1. Bytes(D[i] \o d) = Bytes(D[i]) + Bytes(d) /\ Owed(D[i] \o d) = Owed(D[i]) + Owed(d)
      BY <1>5, BytesConcat
    <3>2. Owed(d) = 0  BY <1>5, EventsOweNothing
    <3>3. Bytes(D[i]) \in Nat /\ Bytes(d) \in Nat /\ Owed(D[i]) \in Nat
      BY <1>5, BytesNat
    <3>4. t.credits \in Nat  BY <1>7, <1>8, PortQueues
    <3>5. SwitchQueue # 0 => t.credits + Bytes(D[i] \o d) = P[i].credits + Bytes(D[i])
      <4>1. SUFFICES ASSUME SwitchQueue # 0
                     PROVE  t.credits + Bytes(D[i] \o d) = P[i].credits + Bytes(D[i])
        OBVIOUS
      <4>2. t.credits + Bytes(d) = P[i].credits  BY <1>4, <4>1
      <4>3. QED  BY <3>1, <3>3, <3>4, <4>2
    <3>b. Owed(D[i] \o d) = Owed(D[i])  BY <3>1, <3>2, <3>3
    <3>6. Owed(D1[i]) = Owed(D[i])  BY <1>7, <3>b
    <3>7. QED  BY <1>4, <1>7, <2>1, <3>5, <3>6
  <2>2. CASE p # i  BY <1>7, <2>2, Places
  <2>3. QED  BY <2>1, <2>2
<1>12. Accounts(P1, D1)
  <2>1. SUFFICES ASSUME NEW p \in Pool
        PROVE  /\ SwitchQueue # 0 =>
                   P1[p].credits + Bytes(D1[p]) + Bytes(switchPort[p].ingress)
                     + Bytes(switchPort[p].ready) + Owed(up[p])
                   = SwitchQueue * DefaultMsgBytes
               /\ PoolQueue # 0 =>
                   switchPort[p].credits + Bytes(up[p]) + Bytes(P1[p].ingress)
                     + Bytes(P1[p].ready) + Owed(D1[p])
                   = PoolQueue * DefaultMsgBytes
    BY DEF Accounts
  <2>2. /\ SwitchQueue # 0 =>
             P[p].credits + Bytes(D[p]) + Bytes(switchPort[p].ingress)
               + Bytes(switchPort[p].ready) + Owed(up[p])
             = SwitchQueue * DefaultMsgBytes
        /\ PoolQueue # 0 =>
             switchPort[p].credits + Bytes(up[p]) + Bytes(P[p].ingress)
               + Bytes(P[p].ready) + Owed(D[p])
             = PoolQueue * DefaultMsgBytes
    BY <1>1 DEF Accounts
  <2>3. /\ Bytes(P[p].ingress) \in Nat /\ Bytes(P[p].ready) \in Nat
        /\ Bytes(P1[p].ingress) \in Nat /\ Bytes(P1[p].ready) \in Nat
        /\ switchPort[p].credits \in Nat /\ Bytes(up[p]) \in Nat /\ Owed(D[p]) \in Nat
    BY <1>1, <1>8, Places, PortQueues, PoolQueues, BytesNat DEF NodesTyped
  <2>4. SwitchQueue # 0 =>
          P1[p].credits + Bytes(D1[p]) + Bytes(switchPort[p].ingress)
            + Bytes(switchPort[p].ready) + Owed(up[p])
          = SwitchQueue * DefaultMsgBytes
    BY <1>11, <2>2
  <2>5. PoolQueue # 0 =>
          switchPort[p].credits + Bytes(up[p]) + Bytes(P1[p].ingress)
            + Bytes(P1[p].ready) + Owed(D1[p])
          = PoolQueue * DefaultMsgBytes
    <3>1. Bytes(P1[p].ingress) + Bytes(P1[p].ready)
          = Bytes(P[p].ingress) + Bytes(P[p].ready)
      BY <1>11
    <3>2. Owed(D1[p]) = Owed(D[p])  BY <1>11
    <3>3. QED  BY SMTT(40), <2>2, <2>3, <3>1, <3>2
  <2>6. QED  BY <2>4, <2>5
<1>13. QED  BY <1>1, <1>8, <1>10, <1>12 DEF SwitchInv

-----------------------------------------------------------------------------
(* Routing *)

\* What taking an event puts on the link: its cost in credit, and no event.
LEMMA CreditReturned ==
  ASSUME NEW i \in Id, NEW ev \in Event
  PROVE  /\ CreditFor(i, ev) \in Seq(CreditMsg) /\ CreditFor(i, ev) \in Seq(Item)
         /\ Bytes(CreditFor(i, ev)) = 0 /\ Owed(CreditFor(i, ev)) = CreditBytes(ev)
         /\ CreditBytes(ev) \in Nat
         /\ \A S : S \cap CreditMsg = {} => Copies(CreditFor(i, ev), S) = 0
<1>1. ev.src \in Id /\ CreditBytes(ev) \in {0, 8, 64}
  BY Places DEF Event, Request, ReadMsg, WriteMsg, ResetMsg, RspMsg, CreditBytes
<1>2. CASE CreditBytes(ev) = 0
  <2>1. CreditFor(i, ev) = << >>  BY <1>2 DEF CreditFor
  <2>2. QED  BY <1>2, <2>1, BytesEmpty, CopiesEmpty
<1>3. CASE CreditBytes(ev) # 0
  <2> DEFINE c == [type |-> "credit", src |-> i, dst |-> ev.src, bytes |-> CreditBytes(ev)]
  <2>1. c \in CreditMsg /\ c.bytes = CreditBytes(ev)  BY <1>1, <1>3 DEF CreditMsg
  <2>2. CreditFor(i, ev) = <<c>>  BY <1>3 DEF CreditFor
  <2> HIDE DEF c
  <2>3. c \in Item  BY <2>1 DEF Item
  <2>4. Bytes(<<c>>) = 0 /\ Owed(<<c>>) = CreditBytes(ev)
    BY <2>1, <2>3, BytesOne
  <2>5. ASSUME NEW S, S \cap CreditMsg = {} PROVE Copies(<<c>>, S) = 0
    <3>1. c \notin S  BY <2>1, <2>5
    <3>2. Copies(<<c>>, S) = Mark(c, S)  BY CopiesOne
    <3>3. QED  BY <3>1, <3>2 DEF Mark
  <2>6. <<c>> \in Seq(CreditMsg) /\ <<c>> \in Seq(Item)  BY <2>1, <2>3
  <2>7. QED  BY <1>1, <2>2, <2>4, <2>5, <2>6
<1>4. QED  BY <1>2, <1>3

\* Port i gives its next event to the ports in Dest, as sent, and credit back.
Forwards(P, D, P1, D1, i, ev, Dest, sent) ==
  /\ i \in Id /\ P[i].ready # << >> /\ ev = Head(P[i].ready)
  /\ Dest \subseteq Id \ {i}
  /\ \A j \in Dest : sent[j] \in For(j) /\ CanSend(P[j])
  /\ P1 = [j \in Id |-> IF j = i THEN Taken(P[j])
                        ELSE IF j \in Dest THEN Send(P[j], sent[j]) ELSE P[j]]
  /\ D1 = [D EXCEPT ![i] = D[i] \o CreditFor(i, ev)]

\* What changes in the queues and accounts.
Moves(P, D, P1, D1, i, ev, Dest, sent) ==
  /\ SwitchTyped(P1, D1)
  /\ ev \in From(i)
  /\ \A j \in Id : P1[j].ingress = P[j].ingress /\ P1[j].credits = P[j].credits
  /\ \A j \in Id : j # i => P1[j].ready = P[j].ready /\ D1[j] = D[j]
  /\ \A S : Copies(P[i].ready, S) = Copies(P1[i].ready, S) + Mark(ev, S)
  /\ \A j \in Id : j \notin Dest => P1[j].egress = P[j].egress
  /\ \A j \in Dest : \A S :
       Copies(P1[j].egress, S) = Copies(P[j].egress, S) + Mark(sent[j], S)
  /\ \A j \in Id : \A S : S \cap CreditMsg = {} =>
       Copies(D1[j], S) = Copies(D[j], S)
  /\ Bytes(P[i].ready) = Bytes(P1[i].ready) + CreditBytes(ev)
  /\ Bytes(D1[i]) = Bytes(D[i]) /\ Owed(D1[i]) = Owed(D[i]) + CreditBytes(ev)

LEMMA Forwarded ==
  ASSUME NEW P, NEW D, SwitchTyped(P, D), NEW P1, NEW D1, NEW i, NEW ev, NEW Dest, NEW sent,
         Forwards(P, D, P1, D1, i, ev, Dest, sent)
  PROVE  Moves(P, D, P1, D1, i, ev, Dest, sent)
<1>1. /\ P \in [Id -> PortOf(SwitchQueue, Event, Event)] /\ D \in [Id -> Seq(Item)]
      /\ \A j \in Id : /\ P[j] \in PortOf(SwitchQueue, From(j), For(j))
                       /\ D[j] \in Seq(For(j) \cup CreditMsg)
  BY DEF SwitchTyped
<1>2. /\ i \in Id /\ P[i].ready # << >> /\ Dest \subseteq Id /\ i \notin Dest
      /\ \A j \in Dest : sent[j] \in For(j) /\ CanSend(P[j])
      /\ ev = Head(P[i].ready)
  BY DEF Forwards
<1>3. /\ \A j \in Id : P1[j] = IF j = i THEN Taken(P[j])
                               ELSE IF j \in Dest THEN Send(P[j], sent[j]) ELSE P[j]
      /\ P1 = [j \in Id |-> P1[j]]
  BY DEF Forwards
<1>a. /\ P1[i] = Taken(P[i])
      /\ \A j \in Dest : P1[j] = Send(P[j], sent[j])
      /\ \A j \in Id : j # i /\ j \notin Dest => P1[j] = P[j]
  BY <1>2, <1>3
<1>4. SwitchQueue \in Nat /\ \A j : From(j) \subseteq Event /\ For(j) \subseteq Event
  BY SwitchAssumption DEF From, For
<1>5. /\ Taken(P[i]) \in PortOf(SwitchQueue, From(i), For(i))
      /\ Taken(P[i]) = [P[i] EXCEPT !.ready = Tail(P[i].ready)]
      /\ ev \in From(i)
      /\ \A S : Copies(P[i].ready, S) = Copies(Taken(P[i]).ready, S) + Mark(ev, S)
      /\ Bytes(P[i].ready) = Bytes(Taken(P[i]).ready) + CreditBytes(ev)
  <2> DEFINE q == P[i]
             In == From(i)
             Out == For(i)
  <2>1. q \in PortOf(SwitchQueue, In, Out) /\ q.ready # << >>
    BY <1>1, <1>2
  <2>a. ev = Head(q.ready)  BY <1>2
  <2>2. In \subseteq Event  BY <1>4
  <2> HIDE DEF q, In, Out
  <2>3. /\ Taken(q) \in PortOf(SwitchQueue, In, Out)
        /\ Taken(q) = [q EXCEPT !.ready = Tail(q.ready)]
        /\ Head(q.ready) \in In
        /\ \A S : Copies(q.ready, S) = Copies(Taken(q).ready, S) + Mark(Head(q.ready), S)
        /\ Bytes(q.ready) = Bytes(Taken(q).ready) + CreditBytes(Head(q.ready))
    BY <1>4, <2>1, <2>2, TakenPort
  <2>4. /\ Taken(q) \in PortOf(SwitchQueue, In, Out)
        /\ Taken(q) = [q EXCEPT !.ready = Tail(q.ready)]
        /\ ev \in In
        /\ \A S : Copies(q.ready, S) = Copies(Taken(q).ready, S) + Mark(ev, S)
        /\ Bytes(q.ready) = Bytes(Taken(q).ready) + CreditBytes(ev)
    BY <2>a, <2>3
  <2>5. QED  BY <2>4 DEF q, In, Out
<1>6. ASSUME NEW j \in Dest
      PROVE  /\ Send(P[j], sent[j]) \in PortOf(SwitchQueue, From(j), For(j))
             /\ Send(P[j], sent[j]) = [P[j] EXCEPT !.egress = Append(P[j].egress, sent[j])]
             /\ \A S : Copies(Send(P[j], sent[j]).egress, S)
                       = Copies(P[j].egress, S) + Mark(sent[j], S)
  <2> DEFINE q == P[j]
             In == From(j)
             Out == For(j)
             e == sent[j]
  <2>1. q \in PortOf(SwitchQueue, In, Out) /\ e \in Out /\ CanSend(q)
    BY <1>1, <1>2
  <2> HIDE DEF q, In, Out, e
  <2>2. /\ Send(q, e) \in PortOf(SwitchQueue, In, Out)
        /\ Send(q, e) = [q EXCEPT !.egress = Append(q.egress, e)]
        /\ \A S : Copies(Send(q, e).egress, S) = Copies(q.egress, S) + Mark(e, S)
    BY <1>4, <2>1, SentPort
  <2>3. QED  BY <2>2 DEF q, In, Out, e
<1>7. ASSUME NEW j \in Id
      PROVE  /\ P1[j] \in PortOf(SwitchQueue, From(j), For(j))
             /\ P1[j].ingress = P[j].ingress /\ P1[j].credits = P[j].credits
             /\ j # i => P1[j].ready = P[j].ready
             /\ j \notin Dest => P1[j].egress = P[j].egress
  <2>0. P[j] \in PortOf(SwitchQueue, From(j), For(j))  BY <1>1
  <2>1. CASE j = i  BY <1>2, <1>a, <1>5, <2>0, <2>1 DEF PortOf
  <2>2. CASE j \in Dest
    <3>1. P1[j] = Send(P[j], sent[j])  BY <1>a, <2>2
    <3>2. /\ Send(P[j], sent[j]) \in PortOf(SwitchQueue, From(j), For(j))
          /\ Send(P[j], sent[j]) = [P[j] EXCEPT !.egress = Append(P[j].egress, sent[j])]
      BY <1>6, <2>2
    <3>3. P1[j] \in PortOf(SwitchQueue, From(j), For(j))  BY <3>1, <3>2
    <3>4. /\ P1[j].ingress = P[j].ingress /\ P1[j].credits = P[j].credits
          /\ P1[j].ready = P[j].ready
      <4>1. ASSUME NEW q \in PortOf(SwitchQueue, From(j), For(j)), NEW x
            PROVE  /\ [q EXCEPT !.egress = x].ingress = q.ingress
                   /\ [q EXCEPT !.egress = x].credits = q.credits
                   /\ [q EXCEPT !.egress = x].ready = q.ready
        BY DEF PortOf
      <4>2. QED  BY <2>0, <3>1, <3>2, <4>1
    <3>5. QED  BY <2>2, <3>3, <3>4
  <2>3. CASE j # i /\ j \notin Dest
    BY <1>1, <1>a, <2>3
  <2>4. QED  BY <2>1, <2>2, <2>3
<1>8. P1 \in [Id -> PortOf(SwitchQueue, Event, Event)]
  <2>1. ASSUME NEW j \in Id PROVE P1[j] \in PortOf(SwitchQueue, Event, Event)
    <3>1. Seq(From(j)) \subseteq Seq(Event) /\ Seq(For(j)) \subseteq Seq(Event)
      BY <1>4, SeqMonotonic
    <3>2. P1[j] \in PortOf(SwitchQueue, From(j), For(j))  BY <1>7
    <3>3. QED  BY <3>1, <3>2 DEF PortOf
  <2>2. QED  BY <1>3, <2>1
<1> DEFINE c == CreditFor(i, ev)
<1>9. D1 = [D EXCEPT ![i] = D[i] \o c]  BY DEF Forwards
<1>10. /\ c \in Seq(CreditMsg) /\ c \in Seq(Item)
       /\ Bytes(c) = 0 /\ Owed(c) = CreditBytes(ev) /\ CreditBytes(ev) \in Nat
       /\ \A S : S \cap CreditMsg = {} => Copies(c, S) = 0
  <2>1. ev \in Event  BY <1>5 DEF From
  <2>2. QED  BY <1>2, <2>1, CreditReturned
<1> HIDE DEF c
<1>11. D1[i] = D[i] \o c /\ \A j \in Id : j # i => D1[j] = D[j]
  BY <1>1, <1>2, <1>9
<1>12. D[i] \in Seq(Item) /\ D[i] \in Seq(For(i) \cup CreditMsg)
  BY <1>1, <1>2
<1>13. D[i] \o c \in Seq(Item) /\ D[i] \o c \in Seq(For(i) \cup CreditMsg)
  <2>1. c \in Seq(For(i) \cup CreditMsg)  BY <1>10, SeqMonotonic
  <2>2. QED  BY <1>10, <1>12, <2>1, ConcatProperties
<1>14. SwitchTyped(P1, D1)
  <2>1. D1 \in [Id -> Seq(Item)]  BY <1>1, <1>9, <1>13
  <2>2. ASSUME NEW j \in Id PROVE D1[j] \in Seq(For(j) \cup CreditMsg)
    <3>1. CASE j = i  BY <1>11, <1>13, <3>1
    <3>2. CASE j # i  BY <1>1, <1>11, <3>2
    <3>3. QED  BY <3>1, <3>2
  <2>3. QED  BY <1>7, <1>8, <2>1, <2>2 DEF SwitchTyped
<1>15. ASSUME NEW j \in Id, NEW S, S \cap CreditMsg = {}
       PROVE  Copies(D1[j], S) = Copies(D[j], S)
  <2>1. CASE j = i
    <3>1. Copies(D[i] \o c, S) = Copies(D[i], S) + Copies(c, S)
      BY <1>10, <1>12, CopiesConcat
    <3>2. Copies(c, S) = 0 /\ Copies(D[i], S) \in Nat
      BY <1>10, <1>12, <1>15, CopiesNat
    <3>3. Copies(D[i] \o c, S) = Copies(D[i], S)  BY <3>1, <3>2
    <3>4. QED  BY <1>11, <2>1, <3>3
  <2>2. CASE j # i  BY <1>11, <2>2
  <2>3. QED  BY <2>1, <2>2
<1>16. Bytes(D1[i]) = Bytes(D[i]) /\ Owed(D1[i]) = Owed(D[i]) + CreditBytes(ev)
  <2>1. /\ Bytes(D[i] \o c) = Bytes(D[i]) + Bytes(c)
        /\ Owed(D[i] \o c) = Owed(D[i]) + Owed(c)
    BY <1>10, <1>12, BytesConcat
  <2>2. Bytes(D[i]) \in Nat  BY <1>12, BytesNat
  <2>3. Bytes(D[i] \o c) = Bytes(D[i])  BY <1>10, <2>1, <2>2
  <2>4. Owed(D[i] \o c) = Owed(D[i]) + CreditBytes(ev)  BY <1>10, <2>1
  <2>5. QED  BY <1>11, <2>3, <2>4
<1>17. \A j \in Dest : \A S :
         Copies(P1[j].egress, S) = Copies(P[j].egress, S) + Mark(sent[j], S)
  BY <1>6, <1>a
<1>18. /\ \A S : Copies(P[i].ready, S) = Copies(P1[i].ready, S) + Mark(ev, S)
       /\ Bytes(P[i].ready) = Bytes(P1[i].ready) + CreditBytes(ev)
  BY <1>5, <1>a
<1>19. QED  BY <1>5, <1>7, <1>11, <1>14, <1>15, <1>16, <1>17, <1>18 DEF Moves

LEMMA ForwardedAccounts ==
  ASSUME NodesTyped, PoolsTyped,
         NEW P, NEW D, SwitchTyped(P, D), NEW P1, NEW D1, NEW i, NEW ev, NEW Dest, NEW sent,
         Forwards(P, D, P1, D1, i, ev, Dest, sent), Accounts(P, D)
  PROVE  Accounts(P1, D1)
<1>1. /\ SwitchTyped(P1, D1)
      /\ ev \in From(i)
      /\ \A j \in Id : P1[j].ingress = P[j].ingress /\ P1[j].credits = P[j].credits
      /\ \A j \in Id : j # i => P1[j].ready = P[j].ready /\ D1[j] = D[j]
      /\ Bytes(P[i].ready) = Bytes(P1[i].ready) + CreditBytes(ev)
      /\ Bytes(D1[i]) = Bytes(D[i]) /\ Owed(D1[i]) = Owed(D[i]) + CreditBytes(ev)
  <2>1. Moves(P, D, P1, D1, i, ev, Dest, sent)  BY Forwarded
  <2>2. QED  BY <2>1 DEF Moves
<1>2. CreditBytes(ev) \in Nat
  <2>1. ev \in Event /\ i \in Id  BY <1>1 DEF From, Forwards
  <2>2. QED  BY <2>1, CreditReturned
<1>3. SUFFICES ASSUME NEW p \in Pool
      PROVE  /\ SwitchQueue # 0 =>
                 P1[p].credits + Bytes(D1[p]) + Bytes(switchPort[p].ingress)
                   + Bytes(switchPort[p].ready) + Owed(up[p])
                 = SwitchQueue * DefaultMsgBytes
             /\ PoolQueue # 0 =>
                 switchPort[p].credits + Bytes(up[p]) + Bytes(P1[p].ingress)
                   + Bytes(P1[p].ready) + Owed(D1[p])
                 = PoolQueue * DefaultMsgBytes
  BY DEF Accounts
<1>4. /\ SwitchQueue # 0 =>
           P[p].credits + Bytes(D[p]) + Bytes(switchPort[p].ingress)
             + Bytes(switchPort[p].ready) + Owed(up[p])
           = SwitchQueue * DefaultMsgBytes
      /\ PoolQueue # 0 =>
           switchPort[p].credits + Bytes(up[p]) + Bytes(P[p].ingress)
             + Bytes(P[p].ready) + Owed(D[p])
           = PoolQueue * DefaultMsgBytes
  BY DEF Accounts
<1>5. p \in Id  BY Places
<1>6. CASE p = i
  <2>1. /\ P1[p].credits = P[p].credits /\ Bytes(D1[p]) = Bytes(D[p])
        /\ Bytes(P1[p].ingress) = Bytes(P[p].ingress)
        /\ Bytes(P[p].ready) = Bytes(P1[p].ready) + CreditBytes(ev)
        /\ Owed(D1[p]) = Owed(D[p]) + CreditBytes(ev)
    BY <1>1, <1>5, <1>6
  <2>2. /\ Bytes(P[p].ingress) \in Nat /\ Bytes(P1[p].ready) \in Nat
        /\ switchPort[p].credits \in Nat /\ Bytes(up[p]) \in Nat /\ Owed(D[p]) \in Nat
    BY <1>1, <1>5, PortQueues, PoolQueues, BytesNat DEF NodesTyped
  <2>3. QED  BY <1>2, <1>4, <2>1, <2>2
<1>7. CASE p # i
  BY <1>1, <1>4, <1>5, <1>7
<1>8. QED  BY <1>6, <1>7

\* The copies of S move with a request that the port of node i gives to pools.
RequestMoves(P, D, P1, D1, i, ev, Dest, sent, S) ==
  /\ \A m \in Node : Back(P1, D1, m, S) = Back(P, D, m, S)
  /\ \A p \in Pool : Answers(P1, p, S) = Answers(P, p, S)
  /\ \A m \in Node : m # i => Here(P1, m, S) = Here(P, m, S)
  /\ Here(P, i, S) = Here(P1, i, S) + Mark(ev, S)
  /\ \A p \in Pool : p \notin Dest => /\ At(P1, D1, p, S) = At(P, D, p, S)
                                      /\ Reached(P1, D1, p, S) = Reached(P, D, p, S)
  /\ \A p \in Dest :
       /\ At(P1, D1, p, S) = At(P, D, p, S) + Mark(sent[p], S)
       /\ Reached(P1, D1, p, S) = Reached(P, D, p, S) + Mark(sent[p], S)

LEMMA RequestForwarded ==
  ASSUME NodesTyped, PoolsTyped,
         NEW P, NEW D, SwitchTyped(P, D), NEW P1, NEW D1,
         NEW i \in Node, NEW ev, NEW Dest, NEW sent,
         Forwards(P, D, P1, D1, i, ev, Dest, sent), Dest \subseteq Pool,
         NEW S, S \cap CreditMsg = {}
  PROVE  RequestMoves(P, D, P1, D1, i, ev, Dest, sent, S)
<1>0. /\ SwitchTyped(P1, D1)
      /\ \A j \in Id : P1[j].ingress = P[j].ingress
      /\ \A j \in Id : j # i => P1[j].ready = P[j].ready /\ D1[j] = D[j]
      /\ \A T : Copies(P[i].ready, T) = Copies(P1[i].ready, T) + Mark(ev, T)
      /\ \A j \in Id : j \notin Dest => P1[j].egress = P[j].egress
      /\ \A j \in Dest : \A T :
           Copies(P1[j].egress, T) = Copies(P[j].egress, T) + Mark(sent[j], T)
      /\ \A j \in Id : \A T : T \cap CreditMsg = {} =>
           Copies(D1[j], T) = Copies(D[j], T)
  <2>1. Moves(P, D, P1, D1, i, ev, Dest, sent)  BY Forwarded
  <2>2. QED  BY <2>1 DEF Moves
<1>1. /\ SwitchTyped(P1, D1)
      /\ \A j \in Id : P1[j].ingress = P[j].ingress
      /\ \A j \in Id : j # i => P1[j].ready = P[j].ready /\ D1[j] = D[j]
      /\ Copies(P[i].ready, S) = Copies(P1[i].ready, S) + Mark(ev, S)
      /\ \A j \in Id : j \notin Dest => P1[j].egress = P[j].egress
      /\ \A j \in Dest : Copies(P1[j].egress, S) = Copies(P[j].egress, S) + Mark(sent[j], S)
      /\ \A j \in Id : Copies(D1[j], S) = Copies(D[j], S)
  BY <1>0
<1>2. \A e : Mark(e, S) \in Nat  BY DEF Mark
<1>3. \A m \in Node : m \in Id /\ m \notin Dest  BY Places
<1>4. \A p \in Pool : p \in Id /\ p # i  BY Places
<1>5. ASSUME NEW m \in Node PROVE Back(P1, D1, m, S) = Back(P, D, m, S)
  BY <1>1, <1>3 DEF Back
<1>6. ASSUME NEW p \in Pool PROVE Answers(P1, p, S) = Answers(P, p, S)
  BY <1>1, <1>4 DEF Answers
<1>7. ASSUME NEW m \in Node, m # i PROVE Here(P1, m, S) = Here(P, m, S)
  BY <1>1, <1>3, <1>7 DEF Here
<1>8. Here(P, i, S) = Here(P1, i, S) + Mark(ev, S)
  <2>1. /\ Copies(queue[i], S) \in Nat /\ Copies(up[i], S) \in Nat
        /\ Copies(P[i].ingress, S) \in Nat /\ Copies(P1[i].ready, S) \in Nat
    BY <1>1, <1>3, CountsAreNumbers
  <2>2. /\ P1[i].ingress = P[i].ingress
        /\ Copies(P[i].ready, S) = Copies(P1[i].ready, S) + Mark(ev, S)
        /\ Mark(ev, S) \in Nat
    BY <1>1, <1>2, <1>3
  <2>3. QED  BY <2>1, <2>2 DEF Here
<1>9. ASSUME NEW p \in Pool, p \notin Dest
      PROVE  /\ At(P1, D1, p, S) = At(P, D, p, S)
             /\ Reached(P1, D1, p, S) = Reached(P, D, p, S)
  <2>1. At(P1, D1, p, S) = At(P, D, p, S)  BY <1>1, <1>4, <1>9 DEF At
  <2>2. QED  BY <2>1 DEF Reached
<1>10. ASSUME NEW p \in Dest
       PROVE  /\ At(P1, D1, p, S) = At(P, D, p, S) + Mark(sent[p], S)
              /\ Reached(P1, D1, p, S) = Reached(P, D, p, S) + Mark(sent[p], S)
  <2>1. p \in Pool /\ p \in Id  BY <1>4
  <2>2. /\ Copies(P[p].egress, S) \in Nat /\ Copies(D[p], S) \in Nat
        /\ Copies(switchPort[p].ingress, S) \in Nat
        /\ Copies(switchPort[p].ready, S) \in Nat
        /\ Within(mem[p], S) \in Nat /\ Within(performed[p], S) \in Nat
    BY <2>1, CountsAreNumbers
  <2>3. /\ Copies(P1[p].egress, S) = Copies(P[p].egress, S) + Mark(sent[p], S)
        /\ Copies(D1[p], S) = Copies(D[p], S)
        /\ Mark(sent[p], S) \in Nat
    BY <1>1, <1>2, <2>1
  <2>4. At(P1, D1, p, S) = At(P, D, p, S) + Mark(sent[p], S)
    BY <2>2, <2>3 DEF At
  <2>5. At(P, D, p, S) \in Nat  BY <2>1, CountsAreNumbers
  <2>6. QED  BY <2>2, <2>3, <2>4, <2>5 DEF Reached
<1>11. QED  BY <1>5, <1>6, <1>7, <1>8, <1>9, <1>10 DEF RequestMoves

\* The classes that are counted hold no credit events.
LEMMA NoCredit ==
  /\ \A n \in Node, b \in Block : /\ ReadOf(n, b) \cap CreditMsg = {}
                                  /\ RspTo(n, b) \cap CreditMsg = {}
  /\ \A n \in Node, k \in Nat \ {0} : WriteOf(n, k) \cap CreditMsg = {}
  /\ \A n \in Node : ResetOf(n) \cap CreditMsg = {}
<1>1. \A c \in CreditMsg : c.type = "credit"  BY DEF CreditMsg
<1>2. QED  BY <1>1 DEF ReadOf, RspTo, WriteOf, ResetOf, Read, Response, Write, Reset

\* One pool of several gains what the sum gains.
LEMMA SumGain ==
  ASSUME NEW f \in [Pool -> Nat], NEW g \in [Pool -> Nat], NEW p \in Pool, NEW m \in Nat,
         \A q \in Pool : q # p => g[q] = f[q], g[p] = f[p] + m
  PROVE  /\ SumOverPools(f) \in Nat /\ SumOverPools(g) \in Nat
         /\ SumOverPools(g) = SumOverPools(f) + m
<1>1. /\ SumOverPools(f) \in Nat /\ SumOverPools(g) \in Nat
      /\ SumOverPools(g) + f[p] = SumOverPools(f) + g[p]
  BY SumChange
<1>2. f[p] \in Nat  OBVIOUS
<1>3. QED  BY <1>1, <1>2

\* A read, or a write that is not replicated, goes to one pool.
LEMMA OnePool ==
  ASSUME NodesTyped, PoolsTyped,
         NEW P, NEW D, NEW r, SwitchInv(P, D, r), NEW P1, NEW D1,
         NEW i \in Node, NEW p \in Pool, NEW Dest, Dest = {p}, NEW sent,
         NEW ev \in Request,
         Forwards(P, D, P1, D1, i, ev, Dest, sent),
         sent[p] = [ev EXCEPT !.dst = p],
         ev \in ReadMsg \/ (ev \in WriteMsg /\ ~ ReplicateWrites)
  PROVE  /\ ReadsCounted(P1, D1) /\ WritesCounted(P1, D1) /\ ResetsCounted(P1, D1)
<1>1. /\ SwitchTyped(P, D)
      /\ ReadsCounted(P, D) /\ WritesCounted(P, D) /\ ResetsCounted(P, D)
  BY DEF SwitchInv
<1>2. SwitchTyped(P1, D1) /\ ev \in From(i)
  <2>1. Moves(P, D, P1, D1, i, ev, Dest, sent)  BY <1>1, Forwarded
  <2>2. QED  BY <2>1 DEF Moves
<1>3. ev.src = i  BY <1>2 DEF From
<1>a. Dest \subseteq Pool /\ p \in Dest /\ \A q \in Pool : q # p => q \notin Dest
  OBVIOUS
<1>4. ASSUME NEW n \in Node, NEW S, S \cap CreditMsg = {}, n # i => Mark(ev, S) = 0,
             Mark(sent[p], S) = Mark(ev, S)
      PROVE  /\ Here(P, n, S) = Here(P1, n, S) + Mark(ev, S)
             /\ Here(P1, n, S) \in Nat /\ Mark(ev, S) \in Nat
             /\ At(P1, D1, p, S) = At(P, D, p, S) + Mark(ev, S)
             /\ Reached(P1, D1, p, S) = Reached(P, D, p, S) + Mark(ev, S)
             /\ \A q \in Pool : q # p => /\ At(P1, D1, q, S) = At(P, D, q, S)
                                         /\ Reached(P1, D1, q, S) = Reached(P, D, q, S)
  <2>0. RequestMoves(P, D, P1, D1, i, ev, Dest, sent, S)
    BY <1>1, <1>4, <1>a, RequestForwarded
  <2>1. /\ \A m \in Node : m # i => Here(P1, m, S) = Here(P, m, S)
        /\ Here(P, i, S) = Here(P1, i, S) + Mark(ev, S)
        /\ \A q \in Pool : q \notin Dest =>
             At(P1, D1, q, S) = At(P, D, q, S) /\ Reached(P1, D1, q, S) = Reached(P, D, q, S)
        /\ \A q \in Dest :
              /\ At(P1, D1, q, S) = At(P, D, q, S) + Mark(sent[q], S)
              /\ Reached(P1, D1, q, S) = Reached(P, D, q, S) + Mark(sent[q], S)
    BY <2>0 DEF RequestMoves
  <2>2. Here(P1, n, S) \in Nat /\ Mark(ev, S) \in Nat
    BY <1>2, CountsAreNumbers DEF Mark
  <2>3. Here(P, n, S) = Here(P1, n, S) + Mark(ev, S)
    BY <1>4, <2>1, <2>2
  <2>4. QED  BY <1>4, <1>a, <2>1, <2>2, <2>3
<1>5. /\ \A n \in Node, b \in Block : Mark(sent[p], ReadOf(n, b)) = Mark(ev, ReadOf(n, b))
      /\ \A n \in Node, k \in Nat \ {0} :
           Mark(sent[p], WriteOf(n, k)) = Mark(ev, WriteOf(n, k))
      /\ \A n \in Node : Mark(sent[p], ResetOf(n)) = Mark(ev, ResetOf(n))
  BY Redirected
<1>6. ReadsCounted(P1, D1)
  <2>1. SUFFICES ASSUME NEW n \in Node, NEW b \in Block
        PROVE  Here(P1, n, ReadOf(n, b)) + SumOverPools(InPools(P1, D1, n, b))
                 + Back(P1, D1, n, RspTo(n, b)) = Flag(b \in waiting[n])
    BY DEF ReadsCounted
  <2> DEFINE R == ReadOf(n, b)
             m == Mark(ev, R)
             f == InPools(P, D, n, b)
             g == InPools(P1, D1, n, b)
  <2>2. n # i => m = 0
    <3>1. n # i => ev \notin R  BY <1>3, InReadOf
    <3>2. QED  BY <3>1 DEF Mark
  <2>3. R \cap CreditMsg = {} /\ RspTo(n, b) \cap CreditMsg = {}  BY NoCredit
  <2>4. /\ Here(P, n, R) = Here(P1, n, R) + m
        /\ Here(P1, n, R) \in Nat /\ m \in Nat
        /\ At(P1, D1, p, R) = At(P, D, p, R) + m
        /\ \A q \in Pool : q # p => At(P1, D1, q, R) = At(P, D, q, R)
    BY <1>4, <1>5, <2>2, <2>3
  <2>5. /\ Back(P1, D1, n, RspTo(n, b)) = Back(P, D, n, RspTo(n, b))
        /\ \A q \in Pool : Answers(P1, q, RspTo(n, b)) = Answers(P, q, RspTo(n, b))
    <3>1. RequestMoves(P, D, P1, D1, i, ev, Dest, sent, RspTo(n, b))
      BY <1>1, <1>a, <2>3, RequestForwarded
    <3>2. QED  BY <3>1 DEF RequestMoves
  <2>6. f \in [Pool -> Nat] /\ g \in [Pool -> Nat]
    BY <1>1, <1>2, PoolCountsAreNumbers
  <2>7. \A q \in Pool : /\ f[q] = At(P, D, q, R) + Copies(returned[q], R)
                                  + Answers(P, q, RspTo(n, b))
                        /\ g[q] = At(P1, D1, q, R) + Copies(returned[q], R)
                                  + Answers(P1, q, RspTo(n, b))
    BY DEF InPools, InPool
  <2>8. /\ At(P, D, p, R) \in Nat /\ Copies(returned[p], R) \in Nat
        /\ Answers(P, p, RspTo(n, b)) \in Nat
        /\ Back(P, D, n, RspTo(n, b)) \in Nat
    BY <1>1, CountsAreNumbers
  <2>9. Here(P, n, R) + SumOverPools(f) + Back(P, D, n, RspTo(n, b))
        = Flag(b \in waiting[n])
    BY <1>1 DEF ReadsCounted
  <2> HIDE DEF m, R, f, g
  <2>10. \A q \in Pool : q # p => g[q] = f[q]  BY <2>4, <2>5, <2>7
  <2>11. g[p] = f[p] + m  BY <2>4, <2>5, <2>7, <2>8
  <2>12. /\ SumOverPools(f) \in Nat /\ SumOverPools(g) \in Nat
         /\ SumOverPools(g) = SumOverPools(f) + m
    BY <2>4, <2>6, <2>10, <2>11, SumGain
  <2>13. Here(P1, n, R) + SumOverPools(g) + Back(P1, D1, n, RspTo(n, b))
         = Flag(b \in waiting[n])
    BY <2>4, <2>5, <2>8, <2>9, <2>12
  <2>14. QED  BY <2>13 DEF R, g
<1>7. WritesCounted(P1, D1)
  <2>1. SUFFICES ASSUME NEW n \in Node, NEW k \in Nat \ {0}
        PROVE  IF ReplicateWrites
               THEN \A q \in Pool :
                      Here(P1, n, WriteOf(n, k)) + Reached(P1, D1, q, WriteOf(n, k))
                      = Flag(k <= writes[n])
               ELSE Here(P1, n, WriteOf(n, k))
                      + SumOverPools(ReachedPools(P1, D1, WriteOf(n, k)))
                    = Flag(k <= writes[n])
    BY DEF WritesCounted
  <2> DEFINE W == WriteOf(n, k)
             m == Mark(ev, W)
             f == ReachedPools(P, D, W)
             g == ReachedPools(P1, D1, W)
  <2>a. ev \in W <=> ev \in WriteMsg /\ ev.src = n /\ ev.num = k  BY InWriteOf
  <2>2. n # i => m = 0
    <3>1. n # i => ev \notin W  BY <1>3, <2>a
    <3>2. QED  BY <3>1 DEF Mark
  <2>3. W \cap CreditMsg = {}  BY NoCredit
  <2>4. /\ Here(P, n, W) = Here(P1, n, W) + m
        /\ Here(P1, n, W) \in Nat /\ m \in Nat
        /\ Reached(P1, D1, p, W) = Reached(P, D, p, W) + m
        /\ \A q \in Pool : q # p => Reached(P1, D1, q, W) = Reached(P, D, q, W)
    BY <1>4, <1>5, <2>2, <2>3
  <2>5. \A q \in Pool : Reached(P, D, q, W) \in Nat
    BY <1>1, CountsAreNumbers
  <2>6. CASE ReplicateWrites
    <3>1. ev \notin W
      <4>1. ev \in ReadMsg  BY <2>6
      <4>2. ev \notin WriteMsg  BY <4>1 DEF ReadMsg, WriteMsg
      <4>3. QED  BY <2>a, <4>2
    <3>2. m = 0  BY <3>1 DEF Mark
    <3>3. \A q \in Pool : Here(P, n, W) + Reached(P, D, q, W) = Flag(k <= writes[n])
      BY <1>1, <2>6 DEF WritesCounted
    <3> HIDE DEF m, W, f, g
    <3>4. \A q \in Pool : Reached(P1, D1, q, W) = Reached(P, D, q, W)
      BY <2>4, <2>5, <3>2
    <3>5. Here(P, n, W) = Here(P1, n, W)  BY <2>4, <3>2
    <3>6. \A q \in Pool : Here(P1, n, W) + Reached(P1, D1, q, W) = Flag(k <= writes[n])
      BY <3>3, <3>4, <3>5
    <3>7. QED  BY <2>6, <3>6 DEF W
  <2>7. CASE ~ ReplicateWrites
    <3>1. Here(P, n, W) + SumOverPools(f) = Flag(k <= writes[n])
      BY <1>1, <2>7 DEF WritesCounted
    <3>2. f \in [Pool -> Nat] /\ g \in [Pool -> Nat]
      BY <1>1, <1>2, PoolCountsAreNumbers
    <3>3. \A q \in Pool : f[q] = Reached(P, D, q, W) /\ g[q] = Reached(P1, D1, q, W)
      BY DEF ReachedPools
    <3> HIDE DEF m, W, f, g
    <3>4. (\A q \in Pool : q # p => g[q] = f[q]) /\ g[p] = f[p] + m
      BY <2>4, <3>3
    <3>5. /\ SumOverPools(f) \in Nat /\ SumOverPools(g) \in Nat
          /\ SumOverPools(g) = SumOverPools(f) + m
      BY <2>4, <3>2, <3>4, SumGain
    <3>6. Here(P1, n, W) + SumOverPools(g) = Flag(k <= writes[n])
      BY <2>4, <3>1, <3>5
    <3>7. QED  BY <2>7, <3>6 DEF W, g
  <2>8. QED  BY <2>6, <2>7
<1>8. ResetsCounted(P1, D1)
  <2>1. SUFFICES ASSUME NEW n \in Node, NEW q \in Pool
        PROVE  Here(P1, n, ResetOf(n)) + Reached(P1, D1, q, ResetOf(n)) = Flag(warm[n])
    BY DEF ResetsCounted
  <2> DEFINE R == ResetOf(n)
  <2>2. ev \notin R
    <3>1. ev \notin ResetMsg  BY DEF ReadMsg, WriteMsg, ResetMsg
    <3>2. QED  BY <3>1, InResetOf
  <2>3. Mark(ev, R) = 0  BY <2>2 DEF Mark
  <2>4. R \cap CreditMsg = {}  BY NoCredit
  <2>5. /\ Here(P, n, R) = Here(P1, n, R) + Mark(ev, R)
        /\ Here(P1, n, R) \in Nat
        /\ Reached(P1, D1, p, R) = Reached(P, D, p, R) + Mark(ev, R)
        /\ q # p => Reached(P1, D1, q, R) = Reached(P, D, q, R)
    BY <1>4, <1>5, <2>3, <2>4
  <2>6. Reached(P, D, q, R) \in Nat /\ Reached(P, D, p, R) \in Nat
    BY <1>1, CountsAreNumbers
  <2>7. Here(P, n, R) + Reached(P, D, q, R) = Flag(warm[n])
    BY <1>1 DEF ResetsCounted
  <2> HIDE DEF R
  <2>8. Reached(P1, D1, q, R) = Reached(P, D, q, R)
    BY <2>3, <2>5, <2>6
  <2>9. Here(P1, n, R) = Here(P, n, R)  BY <2>3, <2>5
  <2>10. Here(P1, n, R) + Reached(P1, D1, q, R) = Flag(warm[n])
    BY <2>7, <2>8, <2>9
  <2>11. QED  BY <2>10 DEF R
<1>9. QED  BY <1>6, <1>7, <1>8

\* A reset, or a replicated write, goes to every pool.
LEMMA EveryPool ==
  ASSUME NodesTyped, PoolsTyped,
         NEW P, NEW D, NEW r, SwitchInv(P, D, r), NEW P1, NEW D1,
         NEW i \in Node, NEW sent, NEW ev \in Request,
         Forwards(P, D, P1, D1, i, ev, Pool, sent),
         \A p \in Pool : sent[p] = [ev EXCEPT !.dst = p],
         ev \in ResetMsg \/ (ev \in WriteMsg /\ ReplicateWrites)
  PROVE  /\ ReadsCounted(P1, D1) /\ WritesCounted(P1, D1) /\ ResetsCounted(P1, D1)
<1>1. /\ SwitchTyped(P, D)
      /\ ReadsCounted(P, D) /\ WritesCounted(P, D) /\ ResetsCounted(P, D)
  BY DEF SwitchInv
<1>2. SwitchTyped(P1, D1) /\ ev \in From(i)
  <2>1. Moves(P, D, P1, D1, i, ev, Pool, sent)  BY <1>1, Forwarded
  <2>2. QED  BY <2>1 DEF Moves
<1>3. ev.src = i  BY <1>2 DEF From
<1>4. ASSUME NEW n \in Node, NEW S, S \cap CreditMsg = {}, n # i => Mark(ev, S) = 0,
             \A p \in Pool : Mark(sent[p], S) = Mark(ev, S)
      PROVE  /\ Here(P, n, S) = Here(P1, n, S) + Mark(ev, S)
             /\ Here(P1, n, S) \in Nat /\ Mark(ev, S) \in Nat
             /\ \A p \in Pool : /\ At(P1, D1, p, S) = At(P, D, p, S) + Mark(ev, S)
                                /\ Reached(P1, D1, p, S) = Reached(P, D, p, S) + Mark(ev, S)
                                /\ At(P, D, p, S) \in Nat /\ Reached(P, D, p, S) \in Nat
  <2>0. RequestMoves(P, D, P1, D1, i, ev, Pool, sent, S)
    BY <1>1, <1>4, RequestForwarded
  <2>1. /\ \A m \in Node : m # i => Here(P1, m, S) = Here(P, m, S)
        /\ Here(P, i, S) = Here(P1, i, S) + Mark(ev, S)
        /\ \A p \in Pool :
             /\ At(P1, D1, p, S) = At(P, D, p, S) + Mark(sent[p], S)
             /\ Reached(P1, D1, p, S) = Reached(P, D, p, S) + Mark(sent[p], S)
    BY <2>0 DEF RequestMoves
  <2>2. Here(P1, n, S) \in Nat /\ Mark(ev, S) \in Nat
    BY <1>2, CountsAreNumbers DEF Mark
  <2>3. Here(P, n, S) = Here(P1, n, S) + Mark(ev, S)
    BY <1>4, <2>1, <2>2
  <2>4. \A p \in Pool : At(P, D, p, S) \in Nat /\ Reached(P, D, p, S) \in Nat
    BY <1>1, CountsAreNumbers
  <2>5. QED  BY <1>4, <2>1, <2>2, <2>3, <2>4
<1>5. ASSUME NEW p \in Pool
      PROVE  /\ \A n \in Node, b \in Block :
                  Mark(sent[p], ReadOf(n, b)) = Mark(ev, ReadOf(n, b))
             /\ \A n \in Node, k \in Nat \ {0} :
                  Mark(sent[p], WriteOf(n, k)) = Mark(ev, WriteOf(n, k))
             /\ \A n \in Node : Mark(sent[p], ResetOf(n)) = Mark(ev, ResetOf(n))
  <2> DEFINE c == sent[p]
  <2>1. c = [ev EXCEPT !.dst = p]  OBVIOUS
  <2> HIDE DEF c
  <2>2. /\ \A n \in Node, b \in Block : Mark(c, ReadOf(n, b)) = Mark(ev, ReadOf(n, b))
        /\ \A n \in Node, k \in Nat \ {0} : Mark(c, WriteOf(n, k)) = Mark(ev, WriteOf(n, k))
        /\ \A n \in Node : Mark(c, ResetOf(n)) = Mark(ev, ResetOf(n))
    BY <2>1, Redirected
  <2>3. QED  BY <2>2 DEF c
<1>6. ReadsCounted(P1, D1)
  <2>1. SUFFICES ASSUME NEW n \in Node, NEW b \in Block
        PROVE  Here(P1, n, ReadOf(n, b)) + SumOverPools(InPools(P1, D1, n, b))
                 + Back(P1, D1, n, RspTo(n, b)) = Flag(b \in waiting[n])
    BY DEF ReadsCounted
  <2> DEFINE R == ReadOf(n, b)
             T == RspTo(n, b)
  <2>2. ev \notin R
    <3>1. ev \notin ReadMsg  BY DEF ReadMsg, WriteMsg, ResetMsg
    <3>2. QED  BY <3>1, InReadOf
  <2>3. Mark(ev, R) = 0  BY <2>2 DEF Mark
  <2>4. R \cap CreditMsg = {} /\ T \cap CreditMsg = {}  BY NoCredit
  <2>5. /\ Here(P, n, R) = Here(P1, n, R) + Mark(ev, R)
        /\ Here(P1, n, R) \in Nat
        /\ \A p \in Pool : /\ At(P1, D1, p, R) = At(P, D, p, R) + Mark(ev, R)
                           /\ At(P, D, p, R) \in Nat
    BY <1>4, <1>5, <2>3, <2>4
  <2>6. /\ Back(P1, D1, n, T) = Back(P, D, n, T)
        /\ \A q \in Pool : Answers(P1, q, T) = Answers(P, q, T)
    <3>1. RequestMoves(P, D, P1, D1, i, ev, Pool, sent, T)
      BY <1>1, <2>4, RequestForwarded
    <3>2. QED  BY <3>1 DEF RequestMoves
  <2>7. Here(P, n, R) + SumOverPools(InPools(P, D, n, b)) + Back(P, D, n, T)
        = Flag(b \in waiting[n])
    BY <1>1 DEF ReadsCounted
  <2>8. \A p \in Pool : InPool(P1, D1, p, n, b) = InPool(P, D, p, n, b)
    <3> HIDE DEF R, T
    <3>1. \A p \in Pool : At(P1, D1, p, R) = At(P, D, p, R)  BY <2>3, <2>5
    <3>2. QED  BY <2>6, <3>1 DEF InPool, R, T
  <2>9. InPools(P1, D1, n, b) = InPools(P, D, n, b)  BY <2>8 DEF InPools
  <2> HIDE DEF R, T
  <2>10. Here(P1, n, R) = Here(P, n, R)  BY <2>3, <2>5
  <2>11. Here(P1, n, R) + SumOverPools(InPools(P1, D1, n, b)) + Back(P1, D1, n, T)
         = Flag(b \in waiting[n])
    BY <2>6, <2>7, <2>9, <2>10
  <2>12. QED  BY <2>11 DEF R, T
<1>7. WritesCounted(P1, D1)
  <2>1. SUFFICES ASSUME NEW n \in Node, NEW k \in Nat \ {0}
        PROVE  IF ReplicateWrites
               THEN \A q \in Pool :
                      Here(P1, n, WriteOf(n, k)) + Reached(P1, D1, q, WriteOf(n, k))
                      = Flag(k <= writes[n])
               ELSE Here(P1, n, WriteOf(n, k))
                      + SumOverPools(ReachedPools(P1, D1, WriteOf(n, k)))
                    = Flag(k <= writes[n])
    BY DEF WritesCounted
  <2> DEFINE W == WriteOf(n, k)
             m == Mark(ev, W)
  <2>a. ev \in W <=> ev \in WriteMsg /\ ev.src = n /\ ev.num = k  BY InWriteOf
  <2>2. n # i => m = 0
    <3>1. n # i => ev \notin W  BY <1>3, <2>a
    <3>2. QED  BY <3>1 DEF Mark
  <2>3. W \cap CreditMsg = {}  BY NoCredit
  <2>4. /\ Here(P, n, W) = Here(P1, n, W) + m
        /\ Here(P1, n, W) \in Nat /\ m \in Nat
        /\ \A q \in Pool : /\ Reached(P1, D1, q, W) = Reached(P, D, q, W) + m
                           /\ Reached(P, D, q, W) \in Nat
    BY <1>4, <1>5, <2>2, <2>3
  <2>5. CASE ReplicateWrites
    <3>1. \A q \in Pool : Here(P, n, W) + Reached(P, D, q, W) = Flag(k <= writes[n])
      BY <1>1, <2>5 DEF WritesCounted
    <3> HIDE DEF m, W
    <3>2. \A q \in Pool : Here(P1, n, W) + Reached(P1, D1, q, W) = Flag(k <= writes[n])
      BY <2>4, <3>1
    <3>3. QED  BY <2>5, <3>2 DEF W
  <2>6. CASE ~ ReplicateWrites
    <3>1. ev \notin W
      <4>1. ev \in ResetMsg  BY <2>6
      <4>2. ev \notin WriteMsg  BY <4>1 DEF ResetMsg, WriteMsg
      <4>3. QED  BY <2>a, <4>2
    <3>2. m = 0  BY <3>1 DEF Mark
    <3>3. Here(P, n, W) + SumOverPools(ReachedPools(P, D, W)) = Flag(k <= writes[n])
      BY <1>1, <2>6 DEF WritesCounted
    <3> HIDE DEF m, W
    <3>4. \A q \in Pool : Reached(P1, D1, q, W) = Reached(P, D, q, W)
      BY <2>4, <3>2
    <3>5. ReachedPools(P1, D1, W) = ReachedPools(P, D, W)
      BY <3>4 DEF ReachedPools
    <3>6. Here(P1, n, W) = Here(P, n, W)  BY <2>4, <3>2
    <3>7. Here(P1, n, W) + SumOverPools(ReachedPools(P1, D1, W)) = Flag(k <= writes[n])
      BY <3>3, <3>5, <3>6
    <3>8. QED  BY <2>6, <3>7 DEF W
  <2>7. QED  BY <2>5, <2>6
<1>8. ResetsCounted(P1, D1)
  <2>1. SUFFICES ASSUME NEW n \in Node, NEW q \in Pool
        PROVE  Here(P1, n, ResetOf(n)) + Reached(P1, D1, q, ResetOf(n)) = Flag(warm[n])
    BY DEF ResetsCounted
  <2> DEFINE R == ResetOf(n)
             m == Mark(ev, R)
  <2>2. n # i => m = 0
    <3>1. ev \in R <=> ev \in ResetMsg /\ ev.src = n  BY InResetOf
    <3>2. n # i => ev \notin R  BY <1>3, <3>1
    <3>3. QED  BY <3>2 DEF Mark
  <2>3. R \cap CreditMsg = {}  BY NoCredit
  <2>4. /\ Here(P, n, R) = Here(P1, n, R) + m
        /\ Here(P1, n, R) \in Nat /\ m \in Nat
        /\ Reached(P1, D1, q, R) = Reached(P, D, q, R) + m
        /\ Reached(P, D, q, R) \in Nat
    BY <1>4, <1>5, <2>2, <2>3
  <2>5. Here(P, n, R) + Reached(P, D, q, R) = Flag(warm[n])
    BY <1>1 DEF ResetsCounted
  <2> HIDE DEF m, R
  <2>6. Here(P1, n, R) + Reached(P1, D1, q, R) = Flag(warm[n])
    BY <2>4, <2>5
  <2>7. QED  BY <2>6 DEF R
<1>9. QED  BY <1>6, <1>7, <1>8

\* A response goes from the port of its pool to the port of its node.
LEMMA Answered ==
  ASSUME NodesTyped, PoolsTyped,
         NEW P, NEW D, NEW r, SwitchInv(P, D, r), NEW P1, NEW D1,
         NEW i \in Pool, NEW ev \in RspMsg, NEW Dest, Dest = {ev.dst}, NEW sent,
         sent[ev.dst] = ev, Forwards(P, D, P1, D1, i, ev, Dest, sent)
  PROVE  /\ ReadsCounted(P1, D1) /\ WritesCounted(P1, D1) /\ ResetsCounted(P1, D1)
<1>1. /\ SwitchTyped(P, D)
      /\ ReadsCounted(P, D) /\ WritesCounted(P, D) /\ ResetsCounted(P, D)
  BY DEF SwitchInv
<1>2. /\ SwitchTyped(P1, D1)
      /\ \A j \in Id : P1[j].ingress = P[j].ingress
      /\ \A j \in Id : j # i => P1[j].ready = P[j].ready /\ D1[j] = D[j]
      /\ \A S : Copies(P[i].ready, S) = Copies(P1[i].ready, S) + Mark(ev, S)
      /\ \A j \in Id : j \notin Dest => P1[j].egress = P[j].egress
      /\ \A j \in Dest : \A S :
           Copies(P1[j].egress, S) = Copies(P[j].egress, S) + Mark(sent[j], S)
      /\ \A j \in Id : \A S : S \cap CreditMsg = {} => Copies(D1[j], S) = Copies(D[j], S)
  <2>1. Moves(P, D, P1, D1, i, ev, Dest, sent)  BY <1>1, Forwarded
  <2>2. QED  BY <2>1 DEF Moves
<1>3. ev.dst \in Node  BY DEF RspMsg
<1>4. /\ \A n \in Node : n \in Id /\ n # i
      /\ \A p \in Pool : p \in Id /\ p \notin Dest
  BY <1>3, Places
<1>5. ASSUME NEW S, S \cap CreditMsg = {}
      PROVE  /\ \A n \in Node : Here(P1, n, S) = Here(P, n, S)
             /\ \A p \in Pool : At(P1, D1, p, S) = At(P, D, p, S)
  <2>1. ASSUME NEW n \in Node PROVE Here(P1, n, S) = Here(P, n, S)
    BY <1>2, <1>4 DEF Here
  <2>2. ASSUME NEW p \in Pool PROVE At(P1, D1, p, S) = At(P, D, p, S)
    <3>1. P1[p].egress = P[p].egress /\ Copies(D1[p], S) = Copies(D[p], S)
      BY <1>2, <1>4, <1>5
    <3>2. QED  BY <3>1 DEF At
  <2>3. QED  BY <2>1, <2>2
<1>6. ASSUME NEW n \in Node, NEW b \in Block
      PROVE  Here(P1, n, ReadOf(n, b)) + SumOverPools(InPools(P1, D1, n, b))
               + Back(P1, D1, n, RspTo(n, b)) = Flag(b \in waiting[n])
  <2> DEFINE R == ReadOf(n, b)
             T == RspTo(n, b)
             m == Mark(ev, T)
             f == InPools(P, D, n, b)
             g == InPools(P1, D1, n, b)
  <2>1. R \cap CreditMsg = {} /\ T \cap CreditMsg = {}  BY NoCredit
  <2>2. Here(P1, n, R) = Here(P, n, R) /\ \A q \in Pool : At(P1, D1, q, R) = At(P, D, q, R)
    BY <1>5, <2>1
  <2>3. m \in Nat  BY DEF Mark
  <2>4. n # ev.dst => m = 0
    <3>1. ev \in T <=> ev \in RspMsg /\ ev.dst = n /\ ev.block = b  BY InRspTo
    <3>2. n # ev.dst => ev \notin T  BY <3>1
    <3>3. QED  BY <3>2 DEF Mark
  <2>5. f \in [Pool -> Nat] /\ g \in [Pool -> Nat]
    BY <1>1, <1>2, PoolCountsAreNumbers
  <2>6. \A q \in Pool : /\ f[q] = At(P, D, q, R) + Copies(returned[q], R) + Answers(P, q, T)
                        /\ g[q] = At(P1, D1, q, R) + Copies(returned[q], R) + Answers(P1, q, T)
    BY DEF InPools, InPool
  <2>7. Here(P, n, R) + SumOverPools(f) + Back(P, D, n, T) = Flag(b \in waiting[n])
    BY <1>1 DEF ReadsCounted
  <2>8. /\ Here(P, n, R) \in Nat /\ Back(P, D, n, T) \in Nat
        /\ At(P, D, i, R) \in Nat /\ Copies(returned[i], R) \in Nat
        /\ Answers(P1, i, T) \in Nat
    BY <1>1, <1>2, CountsAreNumbers
  <2>9. Back(P1, D1, n, T) = Back(P, D, n, T) + m
    <3>1. Copies(D1[n], T) = Copies(D[n], T)  BY <1>2, <1>4, <2>1
    <3>2. Copies(P[n].egress, T) \in Nat /\ Copies(D[n], T) \in Nat
      BY <1>1, <1>4, CountsAreNumbers
    <3>3. Copies(P1[n].egress, T) = Copies(P[n].egress, T) + m
      <4>1. CASE n = ev.dst
        <5>1. Copies(P1[n].egress, T) = Copies(P[n].egress, T) + Mark(sent[n], T)
          BY <1>2, <4>1
        <5>2. QED  BY <4>1, <5>1
      <4>2. CASE n # ev.dst
        <5>1. P1[n].egress = P[n].egress  BY <1>2, <1>4, <4>2
        <5>2. QED  BY <2>4, <3>2, <4>2, <5>1
      <4>3. QED  BY <4>1, <4>2
    <3> HIDE DEF m, T
    <3>4. QED  BY <2>3, <3>1, <3>2, <3>3 DEF Back
  <2>10. Answers(P, i, T) = Answers(P1, i, T) + m
    <3>1. /\ P1[i].ingress = P[i].ingress
          /\ Copies(P[i].ready, T) = Copies(P1[i].ready, T) + m
      BY <1>2, <1>4
    <3>2. /\ Copies(switchPort[i].egress, T) \in Nat /\ Copies(up[i], T) \in Nat
          /\ Copies(P[i].ingress, T) \in Nat /\ Copies(P1[i].ready, T) \in Nat
      BY <1>1, <1>2, <1>4, CountsAreNumbers
    <3> HIDE DEF m, T
    <3>3. QED  BY <2>3, <3>1, <3>2 DEF Answers
  <2>11. \A q \in Pool : q # i => Answers(P1, q, T) = Answers(P, q, T)
    BY <1>2, <1>4 DEF Answers
  <2> HIDE DEF m, R, T, f, g
  <2>12. (\A q \in Pool : q # i => f[q] = g[q]) /\ f[i] = g[i] + m
    <3>1. \A q \in Pool : q # i => f[q] = g[q]  BY <2>2, <2>6, <2>11
    <3>2. f[i] = g[i] + m  BY <2>2, <2>3, <2>6, <2>8, <2>10
    <3>3. QED  BY <3>1, <3>2
  <2>13. /\ SumOverPools(f) \in Nat /\ SumOverPools(g) \in Nat
         /\ SumOverPools(f) = SumOverPools(g) + m
    BY <2>3, <2>5, <2>12, SumGain
  <2>14. Here(P1, n, R) + SumOverPools(g) + Back(P1, D1, n, T) = Flag(b \in waiting[n])
    BY <2>2, <2>3, <2>7, <2>8, <2>9, <2>13
  <2>15. QED  BY <2>14 DEF R, T, g
<1>7. ASSUME NEW S, S \cap CreditMsg = {}
      PROVE  /\ \A p \in Pool : Reached(P1, D1, p, S) = Reached(P, D, p, S)
             /\ ReachedPools(P1, D1, S) = ReachedPools(P, D, S)
  <2>1. \A p \in Pool : At(P1, D1, p, S) = At(P, D, p, S)  BY <1>5, <1>7
  <2>2. QED  BY <2>1 DEF Reached, ReachedPools
<1>8. WritesCounted(P1, D1)
  <2>1. ASSUME NEW n \in Node, NEW k \in Nat \ {0}
        PROVE  /\ Here(P1, n, WriteOf(n, k)) = Here(P, n, WriteOf(n, k))
               /\ \A p \in Pool : Reached(P1, D1, p, WriteOf(n, k))
                                  = Reached(P, D, p, WriteOf(n, k))
               /\ ReachedPools(P1, D1, WriteOf(n, k)) = ReachedPools(P, D, WriteOf(n, k))
    <3>1. WriteOf(n, k) \cap CreditMsg = {}  BY NoCredit
    <3>2. QED  BY <1>5, <1>7, <3>1
  <2>2. QED  BY <1>1, <2>1 DEF WritesCounted
<1>9. ResetsCounted(P1, D1)
  <2>1. ASSUME NEW n \in Node
        PROVE  /\ Here(P1, n, ResetOf(n)) = Here(P, n, ResetOf(n))
               /\ \A p \in Pool : Reached(P1, D1, p, ResetOf(n)) = Reached(P, D, p, ResetOf(n))
    <3>1. ResetOf(n) \cap CreditMsg = {}  BY NoCredit
    <3>2. QED  BY <1>5, <1>7, <3>1
  <2>2. QED  BY <1>1, <2>1 DEF ResetsCounted
<1>10. QED  BY <1>6, <1>8, <1>9 DEF ReadsCounted

\* A state of the switch as clock_tick passes it on.
State(P, r, D) == [port |-> P, rr |-> r, down |-> D]

\* pick_pool_index finds a pool with room when try_route_event accepts.
LEMMA PickedHasRoom ==
  ASSUME NEW P, NEW D, NEW r \in 0 .. NumPools - 1, NEW s,
         s = State(P, r, D),
         IF RoundRobin THEN Offsets(s) # {} ELSE CanSend(P[PoolBase])
  PROVE  /\ Picked(s) \in Pool /\ CanSend(P[Picked(s)])
         /\ (IF RoundRobin THEN (Picked(s) - PoolBase + 1) % NumPools ELSE r)
            \in 0 .. NumPools - 1
<1>1. s.port = P /\ s.rr = r  BY DEF State
<1>2. NumPools \in Nat \ {0} /\ PoolBase \in Nat /\ \A a \in Nat : a % NumPools \in 0 .. NumPools - 1
  BY IdAssumption
<1>3. CASE RoundRobin
  <2> DEFINE O == Offsets(s)
             o == Min(O)
  <2>1. O \subseteq Nat /\ O # {} /\ \A x \in O : CanSend(P[PoolAt(s, x)])
    BY <1>1, <1>2, <1>3 DEF Offsets
  <2>2. \E x \in O : \A y \in O : x <= y
    <3> HIDE DEF O
    <3>1. SUFFICES ASSUME \A x \in O : \E y \in O : y < x PROVE FALSE
      BY <2>1
    <3> DEFINE K == {n \in Nat : \A x \in O : n < x}
    <3>2. \A n \in Nat : (\A x \in O : n <= x) => n \in K
      <4>1. SUFFICES ASSUME NEW n \in Nat, \A x \in O : n <= x, NEW x \in O PROVE n < x
        OBVIOUS
      <4>2. PICK y \in O : y < x  BY <3>1
      <4>3. n <= y  BY <4>1
      <4>4. QED  BY <2>1, <4>2, <4>3
    <3>3. 0 \in K  BY <2>1, <3>2
    <3>4. ASSUME NEW n \in Nat, n \in K PROVE n + 1 \in K
      <4>1. \A x \in O : n + 1 <= x  BY <2>1, <3>4
      <4>2. QED  BY <3>2, <4>1
    <3>5. Nat \subseteq K
      <4> HIDE DEF K
      <4>1. QED  BY <3>3, <3>4, NatSetInduction
    <3>6. PICK x \in O : TRUE  BY <2>1
    <3>7. x < x  BY <2>1, <3>5
    <3>8. QED  BY <2>1, <3>7
  <2>3. o \in O  BY <2>2 DEF Min
  <2>4. Picked(s) = PoolAt(s, o)  BY <1>3 DEF Picked
  <2> HIDE DEF O, o
  <2>5. o \in Nat /\ CanSend(P[PoolAt(s, o)])  BY <2>1, <2>3
  <2> DEFINE x == (r + o) % NumPools
  <2>6. r + o \in Nat  BY <2>5
  <2>7. x \in 0 .. NumPools - 1  BY <1>2, <2>6
  <2>8. PoolAt(s, o) = PoolBase + x  BY <1>1 DEF PoolAt
  <2> HIDE DEF x
  <2>9. PoolBase + x \in Pool /\ (PoolBase + x) - PoolBase + 1 \in Nat
    BY <1>2, <2>7 DEF Pool
  <2>10. ((PoolBase + x) - PoolBase + 1) % NumPools \in 0 .. NumPools - 1
    BY <1>2, <2>9
  <2>11. QED  BY <1>3, <2>4, <2>5, <2>8, <2>9, <2>10
<1>4. CASE ~ RoundRobin
  BY <1>4, Places DEF Picked
<1>5. QED  BY <1>3, <1>4

\* A change of one port and one link.
Updated(f, i, u) == [f EXCEPT ![i] = u]

Changed(s, i, u, v) == [s EXCEPT !.port[i] = u, !.down[i] = v]

LEMMA OnePortChanged ==
  ASSUME NEW P, NEW D, NEW r, NEW s, s = State(P, r, D), NEW i, NEW u, NEW v
  PROVE  Changed(s, i, u, v) = State(Updated(P, i, u), r, Updated(D, i, v))
<1> DEFINE t == [s EXCEPT !.port[i] = u]
           F == [P EXCEPT ![i] = u]
<1>1. Changed(s, i, u, v) = [t EXCEPT !.down[i] = v]
  BY DEF Changed
<1>2. t = [port |-> F, rr |-> r, down |-> D]
  BY DEF State
<1> HIDE DEF F, t
<1>3. [t EXCEPT !.down[i] = v] = [port |-> F, rr |-> r, down |-> [D EXCEPT ![i] = v]]
  BY <1>2
<1>4. QED  BY <1>1, <1>3 DEF F, State, Updated

\* The state that a poll works on satisfies the invariant.
Sound(s) ==
  \E P, D, r : s = State(P, r, D) /\ SwitchInv(P, D, r)

\* What try_route_event and its handler make of the first event of port i.
Handled(s, i, ev) ==
  [Routed(s, ev) EXCEPT !.port[i] = Taken(@), !.down[i] = @ \o CreditFor(i, ev)]

LEMMA HandledPort ==
  ASSUME NEW s, NEW i, NEW ev, NEW P, NEW D, NEW r, Routed(s, ev) = State(P, r, D)
  PROVE  Handled(s, i, ev) = State(Updated(P, i, Taken(P[i])), r,
                                   Updated(D, i, D[i] \o CreditFor(i, ev)))
<1> DEFINE x == Routed(s, ev)
           u == Taken(P[i])
           v == D[i] \o CreditFor(i, ev)
<1>1. Handled(s, i, ev) = Changed(x, i, Taken(x.port[i]), x.down[i] \o CreditFor(i, ev))
  BY DEF Handled, Changed
<1>2. x.port = P /\ x.down = D /\ x = State(P, r, D)
  BY DEF State
<1> HIDE DEF x
<1>4. Handled(s, i, ev) = Changed(x, i, u, v)
  BY <1>1, <1>2
<1> HIDE DEF u, v
<1>5. Changed(x, i, u, v) = State(Updated(P, i, u), r, Updated(D, i, v))
  BY <1>2, OnePortChanged
<1>6. QED  BY <1>4, <1>5 DEF u, v

LEMMA HandledSound ==
  ASSUME NodesTyped, PoolsTyped, NEW P, NEW D, NEW r, SwitchInv(P, D, r),
         NEW s, s = State(P, r, D),
         NEW i \in Id, P[i].ready # << >>, NEW ev, ev = Head(P[i].ready),
         Accepts(s, ev)
  PROVE  Sound(Handled(s, i, ev))
<1>1. SwitchTyped(P, D) /\ r \in 0 .. NumPools - 1 /\ Accounts(P, D)
  BY DEF SwitchInv
<1>2. /\ P \in [Id -> PortOf(SwitchQueue, Event, Event)] /\ D \in [Id -> Seq(Item)]
      /\ P[i] \in PortOf(SwitchQueue, From(i), For(i))
  BY <1>1 DEF SwitchTyped
<1>3. ev \in Event /\ ev.src = i
  <2>1. P[i].ready \in Seq(From(i))  BY <1>2, PortFields, SwitchAssumption
  <2>2. ev \in From(i)  BY <2>1, HeadTailProperties
  <2>3. QED  BY <2>2 DEF From
<1>4. s.port = P /\ s.rr = r /\ s.down = D  BY DEF State
\* A step that forwards and keeps the counts leaves a sound state.
<1>5. ASSUME NEW P1, NEW D1, NEW r1 \in 0 .. NumPools - 1, NEW Dest, NEW sent,
             Forwards(P, D, P1, D1, i, ev, Dest, sent),
             ReadsCounted(P1, D1), WritesCounted(P1, D1), ResetsCounted(P1, D1)
      PROVE  SwitchInv(P1, D1, r1)
  <2>1. Moves(P, D, P1, D1, i, ev, Dest, sent)  BY <1>1, <1>5, Forwarded
  <2>2. Accounts(P1, D1)  BY <1>1, <1>5, ForwardedAccounts
  <2>3. SwitchTyped(P1, D1)  BY <2>1 DEF Moves
  <2>4. QED  BY <1>5, <2>2, <2>3 DEF SwitchInv
<1> DEFINE D1 == [D EXCEPT ![i] = D[i] \o CreditFor(i, ev)]
<1>6. CASE i \in Pool
  <2>1. ev \in RspMsg
    BY <1>3, <1>6, Places DEF Event, Request, ReadMsg, WriteMsg, ResetMsg
  <2>2. ev.type = "rsp" /\ ev.dst \in Node /\ ev \in For(ev.dst)
    BY <1>3, <2>1 DEF RspMsg, For
  <2>3. ~ Broadcasts(ev)  BY <2>2 DEF Broadcasts
  <2>4. CanSend(P[ev.dst])  BY <1>4, <2>2, <2>3 DEF Accepts
  <2> DEFINE Dest == {ev.dst}
             sent == [j \in Dest |-> ev]
             P1 == [j \in Id |-> IF j = i THEN Taken(P[j])
                                 ELSE IF j \in Dest THEN Send(P[j], sent[j]) ELSE P[j]]
  <2>5. ev.dst \in Id /\ ev.dst # i  BY <1>6, <2>2, Places
  <2>6. Forwards(P, D, P1, D1, i, ev, Dest, sent)
    BY <2>2, <2>4, <2>5 DEF Forwards
  <2>7. Handled(s, i, ev) = State(P1, r, D1)
    <3> DEFINE B == [P EXCEPT ![ev.dst] = Send(P[ev.dst], ev)]
    <3>1. Routed(s, ev) = State(B, r, D)
      BY <2>2, <2>3 DEF Routed, State
    <3>2. B[i] = P[i]  BY <1>2, <2>5
    <3>3. [B EXCEPT ![i] = Taken(P[i])] = P1  BY <1>2, <2>5
    <3>4. P1 = Updated(B, i, Taken(B[i]))  BY <3>2, <3>3 DEF Updated
    <3>5. D1 = Updated(D, i, D[i] \o CreditFor(i, ev))  BY DEF Updated
    <3> HIDE DEF B, P1, D1
    <3>6. QED  BY <3>1, <3>4, <3>5, HandledPort
  <2>8. sent[ev.dst] = ev  OBVIOUS
  <2> HIDE DEF sent, P1, D1
  <2>9. ReadsCounted(P1, D1) /\ WritesCounted(P1, D1) /\ ResetsCounted(P1, D1)
    BY <1>6, <2>1, <2>6, <2>8, Answered
  <2>10. SwitchInv(P1, D1, r)  BY <1>1, <1>5, <2>6, <2>9
  <2>11. QED  BY <2>7, <2>10 DEF Sound
<1>7. CASE i \in Node
  <2>1. ev \in Request
    BY <1>3, <1>7, Places DEF Event, RspMsg
  <2>2. /\ ev \in ReadMsg <=> ev.type = "read"
        /\ ev \in WriteMsg <=> ev.type = "write"
        /\ ev \in ResetMsg <=> ev.type = "reset"
        /\ ev.type # "rsp"
    BY <2>1 DEF Request, ReadMsg, WriteMsg, ResetMsg
  <2>3. CASE Broadcasts(ev)
    <3>1. ev \in ResetMsg \/ (ev \in WriteMsg /\ ReplicateWrites)
      BY <2>2, <2>3 DEF Broadcasts
    <3>2. \A p \in Pool : CanSend(P[p])  BY <1>4, <2>2, <2>3 DEF Accepts, AllPoolsCanSend
    <3> DEFINE sent == [p \in Pool |-> [ev EXCEPT !.dst = p]]
               P1 == [j \in Id |-> IF j = i THEN Taken(P[j])
                                   ELSE IF j \in Pool THEN Send(P[j], sent[j]) ELSE P[j]]
    <3>3. \A p \in Pool : sent[p] \in For(p)
      <4>1. SUFFICES ASSUME NEW p \in Pool PROVE sent[p] \in For(p)
        OBVIOUS
      <4> DEFINE c == sent[p]
      <4>2. c = [ev EXCEPT !.dst = p]  OBVIOUS
      <4> HIDE DEF sent, c
      <4>3. c \in For(p)  BY <2>1, <4>2, Redirected
      <4>4. QED  BY <4>3 DEF c
    <3>4. i \notin Pool /\ Pool \subseteq Id \ {i}  BY <1>7, Places
    <3>5. Forwards(P, D, P1, D1, i, ev, Pool, sent)
      BY <3>2, <3>3, <3>4 DEF Forwards
    <3>6. Handled(s, i, ev) = State(P1, r, D1)
      <4> DEFINE B == [j \in Id |-> IF j \in Pool
                                    THEN Send(P[j], [ev EXCEPT !.dst = j]) ELSE P[j]]
      <4>1. Routed(s, ev) = State(B, r, D)
        BY <2>2, <2>3 DEF Routed, Broadcast, State
      <4>2. B[i] = P[i]  BY <3>4
      <4>3. [B EXCEPT ![i] = Taken(P[i])] = P1  BY <3>4
      <4>4. P1 = Updated(B, i, Taken(B[i]))  BY <4>2, <4>3 DEF Updated
      <4>5. D1 = Updated(D, i, D[i] \o CreditFor(i, ev))  BY DEF Updated
      <4> HIDE DEF B, P1, D1
      <4>6. QED  BY <4>1, <4>4, <4>5, HandledPort
    <3>7. \A p \in Pool : sent[p] = [ev EXCEPT !.dst = p]  OBVIOUS
    <3> HIDE DEF sent, P1, D1
    <3>8. ReadsCounted(P1, D1) /\ WritesCounted(P1, D1) /\ ResetsCounted(P1, D1)
      BY <1>7, <2>1, <3>1, <3>5, <3>7, EveryPool, ZenonT(40)
    <3>9. SwitchInv(P1, D1, r)  BY <1>1, <1>5, <3>5, <3>8
    <3>10. QED  BY <3>6, <3>9 DEF Sound
  <2>4. CASE ~ Broadcasts(ev)
    <3>1. ev \in ReadMsg \/ (ev \in WriteMsg /\ ~ ReplicateWrites)
      BY <2>1, <2>2, <2>4 DEF Broadcasts, Request
    <3> DEFINE p == Picked(s)
               r1 == IF RoundRobin THEN (p - PoolBase + 1) % NumPools ELSE r
               Dest == {p}
               sent == [j \in Dest |-> [ev EXCEPT !.dst = p]]
               P1 == [j \in Id |-> IF j = i THEN Taken(P[j])
                                   ELSE IF j \in Dest THEN Send(P[j], sent[j]) ELSE P[j]]
    <3>2. p \in Pool /\ CanSend(P[p]) /\ r1 \in 0 .. NumPools - 1
      <4>1. IF RoundRobin THEN Offsets(s) # {} ELSE CanSend(P[PoolBase])
        BY <1>4, <2>2, <2>4 DEF Accepts
      <4>2. QED  BY <1>1, <4>1, PickedHasRoom
    <3>3. Routed(s, ev) = State([P EXCEPT ![p] = Send(P[p], [ev EXCEPT !.dst = p])], r1, D)
      BY <2>2, <2>4 DEF Routed, ToPicked, State
    <3> HIDE DEF p, r1
    <3>4. sent[p] = [ev EXCEPT !.dst = p]  OBVIOUS
    <3>5. sent[p] \in For(p)
      <4> DEFINE c == sent[p]
      <4>1. c = [ev EXCEPT !.dst = p]  BY <3>4
      <4> HIDE DEF sent, c
      <4>2. c \in For(p)  BY <2>1, <3>2, <4>1, Redirected
      <4>3. QED  BY <4>2 DEF c
    <3>6. p \in Id /\ p # i  BY <1>7, <3>2, Places
    <3>7. Forwards(P, D, P1, D1, i, ev, Dest, sent)
      <4>1. \A j \in Dest : sent[j] \in For(j) /\ CanSend(P[j])
        BY <3>2, <3>5
      <4>2. QED  BY <3>6, <4>1 DEF Forwards
    <3>8. Handled(s, i, ev) = State(P1, r1, D1)
      <4> DEFINE B == [P EXCEPT ![p] = Send(P[p], [ev EXCEPT !.dst = p])]
      <4>1. B[i] = P[i]  BY <1>2, <3>6
      <4>2. [B EXCEPT ![i] = Taken(P[i])] = P1  BY <1>2, <3>4, <3>6
      <4>3. Routed(s, ev) = State(B, r1, D)  BY <3>3
      <4>4. P1 = Updated(B, i, Taken(B[i]))  BY <4>1, <4>2 DEF Updated
      <4>5. D1 = Updated(D, i, D[i] \o CreditFor(i, ev))  BY DEF Updated
      <4> HIDE DEF B, P1, D1
      <4>6. QED  BY <4>3, <4>4, <4>5, HandledPort
    <3> HIDE DEF sent, P1, D1, Dest
    <3>9. ReadsCounted(P1, D1) /\ WritesCounted(P1, D1) /\ ResetsCounted(P1, D1)
      <4>1. Dest = {p}  BY DEF Dest
      <4>2. QED  BY <1>7, <2>1, <3>1, <3>2, <3>4, <3>7, <4>1, OnePool
    <3>10. SwitchInv(P1, D1, r1)  BY <1>5, <3>2, <3>7, <3>9
    <3>11. QED  BY <3>8, <3>10 DEF Sound
  <2>5. QED  BY <2>3, <2>4
<1>8. QED  BY <1>6, <1>7, Places

\* The poll of one port.
LEMMA PollSound ==
  ASSUME NodesTyped, PoolsTyped, NEW s, Sound(s), NEW i \in Id,
         NEW batch \in Batches(s.port[i])
  PROVE  Sound(Poll(s, i, batch))
<1>1. PICK P, D, r : s = State(P, r, D) /\ SwitchInv(P, D, r)
  BY DEF Sound
<1>2. s.port = P /\ s.down = D /\ s.rr = r /\ batch \in Batches(P[i])
  BY <1>1 DEF State
<1> DEFINE P1 == [P EXCEPT ![i] = Ticked(P[i], batch)]
           D1 == [D EXCEPT ![i] = D[i] \o Drained(P[i])]
           t == State(P1, r, D1)
           ev == Head(P1[i].ready)
<1>3. SwitchInv(P1, D1, r)  BY <1>1, <1>2, TickPhase
<1>4. Changed(s, i, Ticked(s.port[i], batch), s.down[i] \o Drained(s.port[i])) = t
  <2> DEFINE u == Ticked(P[i], batch)
             v == D[i] \o Drained(P[i])
  <2>1. Changed(s, i, Ticked(s.port[i], batch), s.down[i] \o Drained(s.port[i]))
        = Changed(s, i, u, v)
    BY <1>2
  <2>2. P1 = Updated(P, i, u) /\ D1 = Updated(D, i, v)
    BY DEF Updated
  <2> HIDE DEF u, v, P1, D1
  <2>3. Changed(s, i, u, v) = t  BY <1>1, <2>2, OnePortChanged
  <2>4. QED  BY <2>1, <2>3
<1>5. t.port = P1  BY DEF State
<1>6. Poll(s, i, batch) = IF P1[i].ready = << >> \/ ~ Accepts(t, ev) THEN t
                          ELSE Handled(t, i, ev)
  <2> DEFINE x == Changed(s, i, Ticked(s.port[i], batch), s.down[i] \o Drained(s.port[i]))
  <2>1. Poll(s, i, batch)
        = IF x.port[i].ready = << >> \/ ~ Accepts(x, Head(x.port[i].ready)) THEN x
          ELSE Handled(x, i, Head(x.port[i].ready))
    BY DEF Poll, Handled, Changed
  <2>2. x = t  BY <1>4
  <2> HIDE DEF x, t, P1
  <2>3. QED  BY <1>5, <2>1, <2>2
<1>7. Sound(t)
  <2> HIDE DEF P1, D1
  <2>1. QED  BY <1>3 DEF Sound
<1>8. ASSUME P1[i].ready # << >>, Accepts(t, ev) PROVE Sound(Handled(t, i, ev))
  <2>1. t = State(P1, r, D1)  OBVIOUS
  <2> HIDE DEF t, P1, D1
  <2>2. QED  BY <1>3, <1>8, <2>1, HandledSound
<1>9. QED  BY <1>6, <1>7, <1>8

-----------------------------------------------------------------------------
(* A tick of the switch *)

\* The states after the poll of port i in one of the states in S.
AllPolled(S, i) == UNION {Polled(s, i) : s \in S}

\* The states after the polls of the first k ports, for k up to n.
After(f, n) ==
  f = [k \in 0 .. n |-> IF k = 0 THEN {Now}
                        ELSE AllPolled(f[k - 1], PollOrder[k])]

LEMMA AfterExists == \A n \in Nat : \E f : After(f, n)
<1> DEFINE T == {n \in Nat : \E f : After(f, n)}
<1>1. 0 \in T
  <2>1. After([k \in 0 .. 0 |-> {Now}], 0)
    BY DEF After
  <2>2. QED  BY <2>1
<1>2. ASSUME NEW n \in Nat, n \in T PROVE n + 1 \in T
  <2>1. PICK f : After(f, n)
    BY <1>2
  <2> DEFINE next == AllPolled(f[n], PollOrder[n + 1])
             g == [k \in 0 .. (n + 1) |-> IF k = n + 1 THEN next ELSE f[k]]
  <2>2. ASSUME NEW k \in 0 .. (n + 1)
        PROVE  g[k] = IF k = 0 THEN {Now}
                      ELSE AllPolled(g[k - 1], PollOrder[k])
    <3>1. CASE k = n + 1
      <4>1. g[k] = next /\ g[k - 1] = f[n] /\ k # 0  BY <3>1
      <4>2. QED  BY <3>1, <4>1
    <3>2. CASE k \in 0 .. n
      <4>1. f[k] = IF k = 0 THEN {Now}
                   ELSE AllPolled(f[k - 1], PollOrder[k])
        BY <2>1, <3>2 DEF After
      <4>2. g[k] = f[k] /\ (k # 0 => g[k - 1] = f[k - 1])  BY <3>2
      <4>3. QED  BY <4>1, <4>2
    <3>3. QED  BY <3>1, <3>2
  <2>3. After(g, n + 1)
    <3> HIDE DEF next
    <3>1. g = [k \in 0 .. (n + 1) |-> IF k = 0 THEN {Now}
                  ELSE AllPolled(g[k - 1], PollOrder[k])]
      BY <2>2
    <3>2. QED  BY <3>1 DEF After
  <2>4. QED  BY <2>3
<1>3. Nat \subseteq T
  <2> HIDE DEF T
  <2>1. QED  BY <1>1, <1>2, NatSetInduction
<1>4. QED  BY <1>3

\* All ports are polled, in this order.
LEMMA Order ==
  /\ Len(PollOrder) = NumNodes + NumPools /\ Len(PollOrder) \in Nat
  /\ \A k \in 1 .. Len(PollOrder) : PollOrder[k] \in Id
<1>1. Len(PollOrder) = NumNodes + NumPools /\ Len(PollOrder) \in Nat
  BY IdAssumption DEF PollOrder
<1>2. ASSUME NEW k \in 1 .. NumNodes + NumPools PROVE PollOrder[k] \in Id
  <2>1. PollOrder[k] = IF k <= NumNodes THEN k - 1 ELSE PoolBase + k - NumNodes - 1
    BY DEF PollOrder
  <2>2. QED  BY <2>1, IdAssumption DEF Id, Node, Pool
<1>3. QED  BY <1>1, <1>2

\* Whatever the batches, the state after a tick of the switch is sound.
LEMMA OutcomesSound ==
  ASSUME IInv
  PROVE  \A s \in Outcomes : Sound(s)
<1> DEFINE n == Len(PollOrder)
           after == CHOOSE f : After(f, n)
<1>1. NodesTyped /\ PoolsTyped /\ SwitchInv(port, down, rr)  BY DEF IInv
<1>2. n \in Nat /\ \A k \in 1 .. n : PollOrder[k] \in Id  BY Order
<1>3. After(after, n)
  <2>1. \E f : After(f, n)  BY <1>2, AfterExists
  <2>2. QED  BY <2>1
<1>4. Outcomes = after[n]
  BY DEF Outcomes, After, AllPolled
<1> HIDE DEF after, n
<1>5. /\ after[0] = {Now}
      /\ \A k \in 1 .. n : after[k] = AllPolled(after[k - 1], PollOrder[k])
  <2>1. after = [k \in 0 .. n |-> IF k = 0 THEN {Now}
                    ELSE AllPolled(after[k - 1], PollOrder[k])]
    BY <1>3 DEF After
  <2>2. after[0] = {Now}  BY <1>2, <2>1
  <2>3. ASSUME NEW k \in 1 .. n
        PROVE  after[k] = AllPolled(after[k - 1], PollOrder[k])
    <3>1. k \in 0 .. n /\ k # 0  BY <1>2
    <3>2. QED  BY <2>1, <3>1
  <2>4. QED  BY <2>2, <2>3
<1> DEFINE K == {k \in Nat : k <= n => \A s \in after[k] : Sound(s)}
<1>6. 0 \in K
  <2>1. Now = State(port, rr, down)  BY DEF Now, State
  <2>2. Sound(Now)  BY <1>1, <2>1 DEF Sound
  <2>3. QED  BY <1>5, <2>2
<1>7. ASSUME NEW k \in Nat, k \in K PROVE k + 1 \in K
  <2>1. SUFFICES ASSUME k + 1 <= n, NEW t \in after[k + 1] PROVE Sound(t)
    OBVIOUS
  <2>2. k + 1 \in 1 .. n /\ (k + 1) - 1 = k /\ k <= n  BY <1>2, <2>1
  <2> DEFINE i == PollOrder[k + 1]
  <2>3. i \in Id  BY <1>2, <2>2
  <2>4. after[k + 1] = AllPolled(after[k], i)
    BY <1>5, <2>2
  <2> HIDE DEF i
  <2>5. PICK s \in after[k] : t \in Polled(s, i)  BY <2>1, <2>4 DEF AllPolled
  <2>6. Sound(s)  BY <1>7, <2>2, <2>5
  <2>7. PICK batch \in Batches(s.port[i]) : t = Poll(s, i, batch)
    BY <2>5 DEF Polled
  <2>8. QED  BY <1>1, <2>3, <2>6, <2>7, PollSound
<1>8. Nat \subseteq K
  <2> HIDE DEF K
  <2>1. QED  BY <1>6, <1>7, NatSetInduction
<1>9. QED  BY <1>2, <1>4, <1>8

LEMMA SwitchClockKeeps == IInv /\ SwitchClock => IInv'
<1>1. SUFFICES ASSUME IInv, SwitchClock PROVE IInv'
  OBVIOUS
<1>2. PICK s \in Outcomes : port' = s.port /\ rr' = s.rr /\ down' = s.down
  BY <1>1 DEF SwitchClock, SwitchTick
<1>3. UNCHANGED <<up, poolVars, nodeVars>>
  BY <1>1 DEF SwitchClock, SwitchTick
<1>4. PICK P, D, r : s = State(P, r, D) /\ SwitchInv(P, D, r)
  <2>1. Sound(s)  BY <1>1, <1>2, OutcomesSound
  <2>2. QED  BY <2>1 DEF Sound
<1>5. port' = P /\ down' = D /\ rr' = r
  BY <1>2, <1>4 DEF State
<1>6. SwitchInv(P, D, r)'
  <2>1. /\ queue' = queue /\ up' = up /\ waiting' = waiting /\ writes' = writes
        /\ warm' = warm /\ switchPort' = switchPort /\ mem' = mem
        /\ returned' = returned /\ performed' = performed
    BY <1>3 DEF poolVars, nodeVars
  <2>2. ASSUME NEW n, NEW S
        PROVE  Here(P, n, S)' = Here(P, n, S) /\ Back(P, D, n, S)' = Back(P, D, n, S)
    BY <2>1 DEF Here, Back
  <2>3. ASSUME NEW p, NEW S
        PROVE  Reached(P, D, p, S)' = Reached(P, D, p, S)
    BY <2>1 DEF At, Reached
  <2>4. ASSUME NEW n, NEW b
        PROVE  InPools(P, D, n, b)' = InPools(P, D, n, b)
    BY <2>1 DEF InPools, InPool, At, Answers
  <2>5. ASSUME NEW S PROVE ReachedPools(P, D, S)' = ReachedPools(P, D, S)
    BY <2>3 DEF ReachedPools
  <2>6. ReadsCounted(P, D)'
    BY <1>4, <2>1, <2>2, <2>4 DEF SwitchInv, ReadsCounted
  <2>7. WritesCounted(P, D)'
    BY <1>4, <2>1, <2>2, <2>3, <2>5 DEF SwitchInv, WritesCounted
  <2>8. ResetsCounted(P, D)'
    BY <1>4, <2>1, <2>2, <2>3 DEF SwitchInv, ResetsCounted
  <2>9. Accounts(P, D)'
    BY <1>4, <2>1 DEF SwitchInv, Accounts
  <2>10. SwitchTyped(P, D)'
    BY <1>4 DEF SwitchInv, SwitchTyped
  <2>11. (r \in 0 .. NumPools - 1)'
    BY <1>4 DEF SwitchInv
  <2>12. QED  BY <2>6, <2>7, <2>8, <2>9, <2>10, <2>11 DEF SwitchInv
<1>7. SwitchInv(port, down, rr)'  BY <1>5, <1>6
<1>8. NodesTyped' /\ PoolsTyped'
  BY <1>1, <1>3 DEF IInv, NodesTyped, PoolsTyped, PoolTyped, poolVars, nodeVars
<1>9. QED  BY <1>7, <1>8 DEF IInv

-----------------------------------------------------------------------------
(* The initial states *)

LEMMA ConfiguredPort ==
  ASSUME NEW size \in Nat, NEW In, NEW Out
  PROVE  /\ Configured(size) \in PortOf(size, In, Out)
         /\ Configured(size).ingress = << >> /\ Configured(size).ready = << >>
         /\ Configured(size).egress = << >>
         /\ Configured(size).credits = size * DefaultMsgBytes
<1>1. size * DefaultMsgBytes \in Nat  BY DEF DefaultMsgBytes
<1>2. << >> \in Seq(In) /\ << >> \in Seq(Out)  OBVIOUS
<1>3. QED  BY <1>1, <1>2 DEF Configured, PortOf

LEMMA InitSound == Init => IInv
<1>1. SUFFICES ASSUME Init PROVE IInv
  OBVIOUS
<1>2. /\ port = [i \in Id |-> Configured(SwitchQueue)] /\ rr = 0
      /\ switchPort = [p \in Pool |-> Configured(PoolQueue)]
      /\ mem = [p \in Pool |-> {}] /\ returned = [p \in Pool |-> << >>]
      /\ pending = [p \in Pool |-> {}] /\ performed = [p \in Pool |-> {}]
      /\ waiting = [n \in Node |-> {}] /\ filled = [n \in Node |-> {}]
      /\ queue = [n \in Node |-> << >>] /\ warm = [n \in Node |-> FALSE]
      /\ writes = [n \in Node |-> 0]
      /\ up = [i \in Id |-> << >>] /\ down = [i \in Id |-> << >>]
  BY <1>1 DEF Init, SwitchInit, PoolInit, NodeInit
<1>3. SwitchQueue \in Nat /\ PoolQueue \in Nat  BY SwitchAssumption, PoolAssumption
<1>4. SwitchTyped(port, down)
  <2>1. \A In, Out : Configured(SwitchQueue) \in PortOf(SwitchQueue, In, Out)
    BY <1>3, ConfiguredPort
  <2>2. QED  BY <1>2, <2>1 DEF SwitchTyped
<1>5. NodesTyped
  <2>1. \A n \in Node : 0 \in Nat /\ 0 \in 0 .. MaxWrites[n]  BY SystemAssumption
  <2>2. QED  BY <1>2, <2>1 DEF NodesTyped
<1>6. PoolsTyped
  <2>1. \A In, Out : Configured(PoolQueue) \in PortOf(PoolQueue, In, Out)
    BY <1>3, ConfiguredPort
  <2>2. IsFiniteSet({}) /\ Elements(<< >>) = {} /\ Reads({}) = {}
    BY FS_EmptySet, ElementsEmpty DEF Reads
  <2>3. Len(Configured(PoolQueue).egress) <= PoolQueue
    <3>1. Configured(PoolQueue).egress = << >>  BY <1>3, ConfiguredPort
    <3>2. QED  BY <1>3, <3>1
  <2>4. \A p \in Pool : PoolTyped(p)  BY <1>2, <2>1, <2>2, <2>3 DEF PoolTyped
  <2>5. QED  BY <1>2, <2>1, <2>4 DEF PoolsTyped
<1>7. /\ \A i \in Id : /\ port[i].ingress = << >> /\ port[i].ready = << >>
                       /\ port[i].egress = << >> /\ down[i] = << >> /\ up[i] = << >>
                       /\ port[i].credits = SwitchQueue * DefaultMsgBytes
      /\ \A p \in Pool : /\ switchPort[p].ingress = << >> /\ switchPort[p].ready = << >>
                         /\ switchPort[p].egress = << >>
                         /\ mem[p] = {} /\ returned[p] = << >> /\ performed[p] = {}
                         /\ switchPort[p].credits = PoolQueue * DefaultMsgBytes
      /\ \A n \in Node : /\ queue[n] = << >> /\ waiting[n] = {} /\ ~ warm[n]
                         /\ writes[n] = 0
  BY <1>2, <1>3, ConfiguredPort
<1>8. ASSUME NEW S
      PROVE  /\ \A n \in Node : Here(port, n, S) = 0 /\ Back(port, down, n, S) = 0
             /\ \A p \in Pool : /\ At(port, down, p, S) = 0 /\ Answers(port, p, S) = 0
                                /\ Copies(returned[p], S) = 0
                                /\ Reached(port, down, p, S) = 0
             /\ ReachedPools(port, down, S) = [p \in Pool |-> 0]
  <2>1. Copies(<< >>, S) = 0 /\ Within({}, S) = 0  BY CopiesEmpty, WithinEmpty
  <2>2. \A n \in Node : Here(port, n, S) = 0 /\ Back(port, down, n, S) = 0
    BY <1>7, <2>1, Places DEF Here, Back
  <2>3. \A p \in Pool : /\ At(port, down, p, S) = 0 /\ Answers(port, p, S) = 0
                        /\ Copies(returned[p], S) = 0
                        /\ Reached(port, down, p, S) = 0
    <3>1. SUFFICES ASSUME NEW p \in Pool
          PROVE  /\ At(port, down, p, S) = 0 /\ Answers(port, p, S) = 0
                 /\ Copies(returned[p], S) = 0 /\ Reached(port, down, p, S) = 0
      OBVIOUS
    <3>2. p \in Id  BY Places
    <3>3. /\ port[p].ingress = << >> /\ port[p].ready = << >> /\ port[p].egress = << >>
          /\ down[p] = << >> /\ up[p] = << >>
          /\ switchPort[p].ingress = << >> /\ switchPort[p].ready = << >>
          /\ switchPort[p].egress = << >>
          /\ mem[p] = {} /\ returned[p] = << >> /\ performed[p] = {}
      BY <1>7, <3>2
    <3>4. /\ Copies(port[p].egress, S) = 0 /\ Copies(down[p], S) = 0
          /\ Copies(switchPort[p].ingress, S) = 0 /\ Copies(switchPort[p].ready, S) = 0
          /\ Within(mem[p], S) = 0 /\ Within(performed[p], S) = 0
          /\ Copies(switchPort[p].egress, S) = 0 /\ Copies(up[p], S) = 0
          /\ Copies(port[p].ingress, S) = 0 /\ Copies(port[p].ready, S) = 0
          /\ Copies(returned[p], S) = 0
      BY <2>1, <3>3
    <3>5. At(port, down, p, S) = 0  BY <3>4 DEF At
    <3>6. Answers(port, p, S) = 0  BY <3>4 DEF Answers
    <3>7. Reached(port, down, p, S) = 0  BY <3>4, <3>5 DEF Reached
    <3>8. QED  BY <3>4, <3>5, <3>6, <3>7
  <2>4. QED  BY <2>2, <2>3 DEF ReachedPools
<1>9. ReadsCounted(port, down)
  <2>1. ASSUME NEW n \in Node, NEW b \in Block
        PROVE  Here(port, n, ReadOf(n, b)) + SumOverPools(InPools(port, down, n, b))
                 + Back(port, down, n, RspTo(n, b)) = Flag(b \in waiting[n])
    <3>1. InPools(port, down, n, b) = [p \in Pool |-> 0]
      BY <1>8 DEF InPools, InPool
    <3>2. SumOverPools(InPools(port, down, n, b)) = 0  BY <3>1, SumZero
    <3>3. Here(port, n, ReadOf(n, b)) = 0 /\ Back(port, down, n, RspTo(n, b)) = 0
      BY <1>8
    <3>4. Flag(b \in waiting[n]) = 0  BY <1>7 DEF Flag
    <3>5. QED  BY <3>2, <3>3, <3>4
  <2>2. QED  BY <2>1 DEF ReadsCounted
<1>10. WritesCounted(port, down)
  <2>1. ASSUME NEW n \in Node, NEW k \in Nat \ {0}
        PROVE  /\ \A p \in Pool :
                    Here(port, n, WriteOf(n, k)) + Reached(port, down, p, WriteOf(n, k))
                    = Flag(k <= writes[n])
               /\ Here(port, n, WriteOf(n, k))
                    + SumOverPools(ReachedPools(port, down, WriteOf(n, k)))
                  = Flag(k <= writes[n])
    <3>1. SumOverPools(ReachedPools(port, down, WriteOf(n, k))) = 0
      BY <1>8, SumZero
    <3>2. Flag(k <= writes[n]) = 0  BY <1>7 DEF Flag
    <3>3. QED  BY <1>8, <3>1, <3>2
  <2>2. QED  BY <2>1 DEF WritesCounted
<1>11. ResetsCounted(port, down)
  BY SMTT(40), <1>7, <1>8 DEF ResetsCounted, Flag
<1>12. Accounts(port, down)
  <2>1. ASSUME NEW p \in Pool
        PROVE  /\ port[p].credits + Bytes(down[p]) + Bytes(switchPort[p].ingress)
                    + Bytes(switchPort[p].ready) + Owed(up[p])
                  = SwitchQueue * DefaultMsgBytes
               /\ switchPort[p].credits + Bytes(up[p]) + Bytes(port[p].ingress)
                    + Bytes(port[p].ready) + Owed(down[p])
                  = PoolQueue * DefaultMsgBytes
    <3>1. /\ SwitchQueue * DefaultMsgBytes \in Nat /\ PoolQueue * DefaultMsgBytes \in Nat
      BY <1>3 DEF DefaultMsgBytes
    <3>2. p \in Id  BY Places
    <3>3. QED  BY <1>7, <3>1, <3>2, BytesEmpty
  <2>2. QED  BY <2>1 DEF Accounts
<1>13. rr \in 0 .. NumPools - 1  BY <1>2, IdAssumption
<1>14. QED  BY <1>4, <1>5, <1>6, <1>9, <1>10, <1>11, <1>12, <1>13 DEF IInv, SwitchInv

-----------------------------------------------------------------------------
(* The steps of links, nodes and pools *)

\* A step that leaves the copies of every request and response on each stretch
\* of the way as they are.
CopiesKept ==
  /\ UNCHANGED <<waiting, writes, warm>>
  /\ \A n \in Node, b \in Block :
       /\ Here(port, n, ReadOf(n, b))' = Here(port, n, ReadOf(n, b))
       /\ Back(port, down, n, RspTo(n, b))' = Back(port, down, n, RspTo(n, b))
       /\ \A p \in Pool : InPool(port, down, p, n, b)' = InPool(port, down, p, n, b)
  /\ \A n \in Node, k \in Nat \ {0} :
       /\ Here(port, n, WriteOf(n, k))' = Here(port, n, WriteOf(n, k))
       /\ \A p \in Pool : Reached(port, down, p, WriteOf(n, k))'
                          = Reached(port, down, p, WriteOf(n, k))
  /\ \A n \in Node :
       /\ Here(port, n, ResetOf(n))' = Here(port, n, ResetOf(n))
       /\ \A p \in Pool : Reached(port, down, p, ResetOf(n))'
                          = Reached(port, down, p, ResetOf(n))

LEMMA CountsKept ==
  ASSUME IInv, CopiesKept
  PROVE  /\ ReadsCounted(port, down)' /\ WritesCounted(port, down)'
         /\ ResetsCounted(port, down)'
<1>1. /\ ReadsCounted(port, down) /\ WritesCounted(port, down) /\ ResetsCounted(port, down)
  BY DEF IInv, SwitchInv
<1>2. waiting' = waiting /\ writes' = writes /\ warm' = warm  BY DEF CopiesKept
<1>3. ReadsCounted(port, down)'
  <2>1. ASSUME NEW n \in Node, NEW b \in Block
        PROVE  InPools(port, down, n, b)' = InPools(port, down, n, b)
    BY DEF InPools, CopiesKept
  <2>2. QED  BY <1>1, <1>2, <2>1 DEF ReadsCounted, CopiesKept
<1>4. WritesCounted(port, down)'
  <2>1. ASSUME NEW n \in Node, NEW k \in Nat \ {0}
        PROVE  ReachedPools(port, down, WriteOf(n, k))' = ReachedPools(port, down, WriteOf(n, k))
    BY DEF ReachedPools, CopiesKept
  <2>2. QED  BY <1>1, <1>2, <2>1 DEF WritesCounted, CopiesKept
<1>5. ResetsCounted(port, down)'
  BY <1>1, <1>2 DEF ResetsCounted, CopiesKept
<1>6. QED  BY <1>3, <1>4, <1>5

\* The head of a link and the rest.
LEMMA LinkHead ==
  ASSUME NEW T, T \subseteq Item, NEW q \in Seq(T), q # << >>
  PROVE  /\ Head(q) \in T /\ Tail(q) \in Seq(T)
         /\ \A S : Copies(q, S) = Copies(Tail(q), S) + Mark(Head(q), S)
         /\ \A S : Copies(Tail(q), S) \in Nat /\ Mark(Head(q), S) \in Nat
         /\ Bytes(q) = Bytes(<<Head(q)>>) + Bytes(Tail(q))
         /\ Owed(q) = Owed(<<Head(q)>>) + Owed(Tail(q))
         /\ Bytes(<<Head(q)>>) \in Nat /\ Owed(<<Head(q)>>) \in Nat
         /\ Bytes(Tail(q)) \in Nat /\ Owed(Tail(q)) \in Nat
<1>1. Head(q) \in T /\ Tail(q) \in Seq(T)  BY HeadTailProperties
<1>2. q \in Seq(Item) /\ Tail(q) \in Seq(Item)  BY <1>1, SeqMonotonic
<1>3. ASSUME NEW S PROVE Copies(q, S) = Copies(Tail(q), S) + Mark(Head(q), S)
  BY CopiesTail
<1>4. ASSUME NEW S PROVE Copies(Tail(q), S) \in Nat /\ Mark(Head(q), S) \in Nat
  BY <1>1, CopiesNat DEF Mark
<1>5. /\ Bytes(q) = Bytes(<<Head(q)>>) + Bytes(Tail(q))
      /\ Owed(q) = Owed(<<Head(q)>>) + Owed(Tail(q))
  BY <1>2, BytesTail
<1>6. <<Head(q)>> \in Seq(Item)  BY <1>1
<1>7. QED  BY <1>1, <1>2, <1>3, <1>4, <1>5, <1>6, BytesNat

\* handle_event() of a port of the switch.
LEMMA SwitchReceiveKeeps == ASSUME IInv, NEW i \in Id, SwitchReceive(i) PROVE IInv'
<1>1. /\ SwitchTyped(port, down) /\ NodesTyped /\ PoolsTyped
      /\ rr \in 0 .. NumPools - 1 /\ Accounts(port, down)
  BY DEF IInv, SwitchInv
<1> DEFINE h == Head(up[i])
           q == port[i]
           a == Arrived(q, h)
<1>2. /\ up[i] # << >> /\ port' = [port EXCEPT ![h.src] = Arrived(port[h.src], h)]
      /\ up' = [up EXCEPT ![i] = Tail(up[i])]
      /\ UNCHANGED <<rr, down, poolVars, nodeVars>>
  BY DEF SwitchReceive, SwitchArrive
<1>3. /\ port \in [Id -> PortOf(SwitchQueue, Event, Event)]
      /\ q \in PortOf(SwitchQueue, From(i), For(i))
      /\ up \in [Id -> Seq(Item)] /\ up[i] \in Seq(ItemFrom(i))
      /\ \A j \in Id : up[j] \in Seq(ItemFrom(j))
  BY <1>1 DEF SwitchTyped, NodesTyped
<1>4. /\ h \in ItemFrom(i) /\ Tail(up[i]) \in Seq(ItemFrom(i))
      /\ \A S : Copies(up[i], S) = Copies(Tail(up[i]), S) + Mark(h, S)
      /\ \A S : Copies(Tail(up[i]), S) \in Nat /\ Mark(h, S) \in Nat
      /\ Bytes(up[i]) = Bytes(<<h>>) + Bytes(Tail(up[i]))
      /\ Owed(up[i]) = Owed(<<h>>) + Owed(Tail(up[i]))
      /\ Bytes(<<h>>) \in Nat /\ Owed(<<h>>) \in Nat
      /\ Bytes(Tail(up[i])) \in Nat /\ Owed(Tail(up[i])) \in Nat
  <2> DEFINE T == ItemFrom(i)
             u == up[i]
  <2>1. T \subseteq Item /\ u \in Seq(T) /\ u # << >>  BY <1>2, <1>3 DEF ItemFrom
  <2> HIDE DEF T, u
  <2>2. /\ Head(u) \in T /\ Tail(u) \in Seq(T)
        /\ \A S : Copies(u, S) = Copies(Tail(u), S) + Mark(Head(u), S)
        /\ \A S : Copies(Tail(u), S) \in Nat /\ Mark(Head(u), S) \in Nat
        /\ Bytes(u) = Bytes(<<Head(u)>>) + Bytes(Tail(u))
        /\ Owed(u) = Owed(<<Head(u)>>) + Owed(Tail(u))
        /\ Bytes(<<Head(u)>>) \in Nat /\ Owed(<<Head(u)>>) \in Nat
        /\ Bytes(Tail(u)) \in Nat /\ Owed(Tail(u)) \in Nat
    BY <2>1, LinkHead
  <2>3. QED  BY <2>2 DEF T, u
<1>5. h.src = i /\ h \in From(i) \cup CreditMsg
  BY <1>4 DEF ItemFrom, Item, From
<1>6. /\ a \in PortOf(SwitchQueue, From(i), For(i))
      /\ a.egress = q.egress /\ a.ready = q.ready
      /\ \A S : S \cap CreditMsg = {} => Copies(a.ingress, S) = Copies(q.ingress, S) + Mark(h, S)
      /\ Bytes(a.ingress) = Bytes(q.ingress) + Bytes(<<h>>)
      /\ SwitchQueue # 0 /\ q.credits + Owed(<<h>>) <= SwitchQueue * DefaultMsgBytes =>
           a.credits = q.credits + Owed(<<h>>)
  <2> DEFINE In == From(i)
             Out == For(i)
  <2>1. In \subseteq Event /\ q \in PortOf(SwitchQueue, In, Out) /\ h \in In \cup CreditMsg
    BY <1>3, <1>5 DEF From
  <2> HIDE DEF In, Out, q, h
  <2>2. /\ Arrived(q, h) \in PortOf(SwitchQueue, In, Out)
        /\ Arrived(q, h).egress = q.egress /\ Arrived(q, h).ready = q.ready
        /\ \A S : S \cap CreditMsg = {} =>
             Copies(Arrived(q, h).ingress, S) = Copies(q.ingress, S) + Mark(h, S)
        /\ Bytes(Arrived(q, h).ingress) = Bytes(q.ingress) + Bytes(<<h>>)
        /\ SwitchQueue # 0 /\ q.credits + Owed(<<h>>) <= SwitchQueue * DefaultMsgBytes =>
             Arrived(q, h).credits = q.credits + Owed(<<h>>)
    BY <2>1, SwitchAssumption, ArrivedPort
  <2>3. QED  BY <2>2 DEF In, Out
<1>7. /\ port' = [port EXCEPT ![i] = a] /\ port'[i] = a
      /\ \A j \in Id : j # i => port'[j] = port[j]
      /\ up'[i] = Tail(up[i]) /\ \A j \in Id : j # i => up'[j] = up[j]
  BY <1>2, <1>3, <1>5
<1>8. /\ down' = down /\ rr' = rr /\ queue' = queue /\ writes' = writes
      /\ warm' = warm /\ waiting' = waiting /\ switchPort' = switchPort /\ mem' = mem
      /\ returned' = returned /\ performed' = performed /\ pending' = pending
      /\ filled' = filled
  BY <1>2 DEF poolVars, nodeVars
<1> HIDE DEF h, a, q
<1>9. a \in PortOf(SwitchQueue, Event, Event)
  <2>1. From(i) \subseteq Event /\ For(i) \subseteq Event  BY DEF From, For
  <2>2. Seq(From(i)) \subseteq Seq(Event) /\ Seq(For(i)) \subseteq Seq(Event)
    BY <2>1, SeqMonotonic
  <2>3. QED  BY <1>6, <2>2 DEF PortOf
<1>10. SwitchTyped(port, down)'
  <2>1. port' \in [Id -> PortOf(SwitchQueue, Event, Event)]
    BY <1>3, <1>7, <1>9
  <2>2. \A j \in Id : port'[j] \in PortOf(SwitchQueue, From(j), For(j))
    BY <1>1, <1>6, <1>7 DEF SwitchTyped
  <2>3. QED  BY <1>1, <1>8, <2>1, <2>2 DEF SwitchTyped
<1>11. NodesTyped'
  <2>1. up' \in [Id -> Seq(Item)]
    <3>1. Tail(up[i]) \in Seq(Item)  BY <1>4, EventQueue
    <3>2. QED  BY <1>2, <1>3, <3>1
  <2>2. \A j \in Id : up'[j] \in Seq(ItemFrom(j))
    BY <1>3, <1>4, <1>7
  <2>3. QED  BY <1>1, <1>8, <2>1, <2>2 DEF NodesTyped
<1>12. PoolsTyped'
  BY <1>1, <1>8 DEF PoolsTyped, PoolTyped
<1>13. ASSUME NEW j \in Id, NEW S, S \cap CreditMsg = {}
       PROVE  /\ Copies(up'[j], S) + Copies(port'[j].ingress, S)
                 = Copies(up[j], S) + Copies(port[j].ingress, S)
              /\ port'[j].ready = port[j].ready /\ port'[j].egress = port[j].egress
              /\ Copies(up'[j], S) \in Nat /\ Copies(port'[j].ingress, S) \in Nat
  <2>1. Copies(port[j].ingress, S) \in Nat  BY <1>1, CountsAreNumbers
  <2>2. Copies(up[j], S) \in Nat  BY <1>3, CopiesNat
  <2>3. CASE j = i
    <3>1. /\ Copies(up[i], S) = Copies(Tail(up[i]), S) + Mark(h, S)
          /\ Copies(a.ingress, S) = Copies(q.ingress, S) + Mark(h, S)
          /\ Copies(Tail(up[i]), S) \in Nat /\ Mark(h, S) \in Nat
          /\ Copies(q.ingress, S) \in Nat
      BY <1>4, <1>6, <1>13, <2>1, <2>3 DEF q
    <3>2. Copies(Tail(up[i]), S) + Copies(a.ingress, S)
          = Copies(up[i], S) + Copies(q.ingress, S)
      BY <3>1
    <3>3. Copies(a.ingress, S) \in Nat  BY <3>1
    <3>4. QED  BY <1>6, <1>7, <2>3, <3>1, <3>2, <3>3 DEF q
  <2>4. CASE j # i  BY <1>7, <2>1, <2>2, <2>4
  <2>5. QED  BY <2>3, <2>4
<1>14. ASSUME NEW S, S \cap CreditMsg = {}
       PROVE  /\ \A n \in Node : /\ Here(port, n, S)' = Here(port, n, S)
                                 /\ Back(port, down, n, S)' = Back(port, down, n, S)
              /\ \A p \in Pool : /\ At(port, down, p, S)' = At(port, down, p, S)
                                 /\ Reached(port, down, p, S)' = Reached(port, down, p, S)
                                 /\ Answers(port, p, S)' = Answers(port, p, S)
  <2>1. ASSUME NEW n \in Node
        PROVE  /\ Here(port, n, S)' = Here(port, n, S)
               /\ Back(port, down, n, S)' = Back(port, down, n, S)
    <3>1. n \in Id  BY Places
    <3>2. /\ Copies(up'[n], S) + Copies(port'[n].ingress, S)
             = Copies(up[n], S) + Copies(port[n].ingress, S)
          /\ port'[n].ready = port[n].ready /\ port'[n].egress = port[n].egress
          /\ Copies(up'[n], S) \in Nat /\ Copies(port'[n].ingress, S) \in Nat
      BY <1>13, <1>14, <3>1
    <3>3. /\ Copies(up[n], S) \in Nat /\ Copies(port[n].ingress, S) \in Nat
          /\ Copies(queue[n], S) \in Nat /\ Copies(port[n].ready, S) \in Nat
      BY <1>1, <3>1, CountsAreNumbers
    <3>4. Here(port, n, S)' = Here(port, n, S)
      BY <1>8, <3>2, <3>3 DEF Here
    <3>5. Back(port, down, n, S)' = Back(port, down, n, S)
      BY <1>8, <3>2 DEF Back
    <3>6. QED  BY <3>4, <3>5
  <2>2. ASSUME NEW p \in Pool
        PROVE  /\ At(port, down, p, S)' = At(port, down, p, S)
               /\ Reached(port, down, p, S)' = Reached(port, down, p, S)
               /\ Answers(port, p, S)' = Answers(port, p, S)
    <3>1. p \in Id  BY Places
    <3>2. /\ Copies(up'[p], S) + Copies(port'[p].ingress, S)
             = Copies(up[p], S) + Copies(port[p].ingress, S)
          /\ port'[p].ready = port[p].ready /\ port'[p].egress = port[p].egress
          /\ Copies(up'[p], S) \in Nat /\ Copies(port'[p].ingress, S) \in Nat
      BY <1>13, <1>14, <3>1
    <3>3. /\ Copies(up[p], S) \in Nat /\ Copies(port[p].ingress, S) \in Nat
          /\ Copies(switchPort[p].egress, S) \in Nat /\ Copies(port[p].ready, S) \in Nat
      BY <1>1, <3>1, CountsAreNumbers
    <3>4. At(port, down, p, S)' = At(port, down, p, S)
      BY <1>8, <3>2 DEF At
    <3>5. Reached(port, down, p, S)' = Reached(port, down, p, S)
      BY <1>8, <3>4 DEF Reached
    <3>6. Answers(port, p, S)' = Answers(port, p, S)
      BY <1>8, <3>2, <3>3 DEF Answers
    <3>7. QED  BY <3>4, <3>5, <3>6
  <2>3. QED  BY <2>1, <2>2
<1>15. CopiesKept
  <2>1. ASSUME NEW n \in Node, NEW b \in Block, NEW p \in Pool
        PROVE  InPool(port, down, p, n, b)' = InPool(port, down, p, n, b)
    BY <1>8, <1>14, NoCredit DEF InPool
  <2>2. QED  BY <1>8, <1>14, <2>1, NoCredit DEF CopiesKept
<1>16. Accounts(port, down)'
  <2>1. SUFFICES ASSUME NEW p \in Pool
        PROVE  /\ SwitchQueue # 0 =>
                   port'[p].credits + Bytes(down[p]) + Bytes(switchPort[p].ingress)
                     + Bytes(switchPort[p].ready) + Owed(up'[p])
                   = SwitchQueue * DefaultMsgBytes
               /\ PoolQueue # 0 =>
                   switchPort[p].credits + Bytes(up'[p]) + Bytes(port'[p].ingress)
                     + Bytes(port'[p].ready) + Owed(down[p])
                   = PoolQueue * DefaultMsgBytes
    BY <1>8 DEF Accounts
  <2>2. /\ SwitchQueue # 0 =>
             port[p].credits + Bytes(down[p]) + Bytes(switchPort[p].ingress)
               + Bytes(switchPort[p].ready) + Owed(up[p])
             = SwitchQueue * DefaultMsgBytes
        /\ PoolQueue # 0 =>
             switchPort[p].credits + Bytes(up[p]) + Bytes(port[p].ingress)
               + Bytes(port[p].ready) + Owed(down[p])
             = PoolQueue * DefaultMsgBytes
    BY <1>1 DEF Accounts
  <2>3. p \in Id  BY Places
  <2>4. /\ Bytes(down[p]) \in Nat /\ Owed(down[p]) \in Nat
        /\ Bytes(switchPort[p].ingress) \in Nat /\ Bytes(switchPort[p].ready) \in Nat
        /\ Bytes(port[p].ingress) \in Nat /\ Bytes(port[p].ready) \in Nat
        /\ switchPort[p].credits \in Nat /\ port[p].credits \in Nat
    BY <1>1, <2>3, PortQueues, PoolQueues, BytesNat
  <2>5. CASE p = i
    <3>1. /\ port'[p].credits = a.credits /\ port'[p].ready = port[p].ready
          /\ Bytes(port'[p].ingress) = Bytes(port[p].ingress) + Bytes(<<h>>)
          /\ Bytes(up[p]) = Bytes(<<h>>) + Bytes(up'[p])
          /\ Owed(up[p]) = Owed(<<h>>) + Owed(up'[p])
          /\ Bytes(up'[p]) \in Nat /\ Owed(up'[p]) \in Nat
          /\ SwitchQueue # 0 /\ port[p].credits + Owed(<<h>>) <= SwitchQueue * DefaultMsgBytes =>
               port'[p].credits = port[p].credits + Owed(<<h>>)
      BY <1>4, <1>6, <1>7, <2>5 DEF q
    <3>2. Bytes(<<h>>) \in Nat /\ Owed(<<h>>) \in Nat  BY <1>4
    <3>3. SwitchQueue # 0 =>
            port'[p].credits + Bytes(down[p]) + Bytes(switchPort[p].ingress)
              + Bytes(switchPort[p].ready) + Owed(up'[p])
            = SwitchQueue * DefaultMsgBytes
      BY <2>2, <2>4, <3>1, <3>2
    <3>4. PoolQueue # 0 =>
            switchPort[p].credits + Bytes(up'[p]) + Bytes(port'[p].ingress)
              + Bytes(port'[p].ready) + Owed(down[p])
            = PoolQueue * DefaultMsgBytes
      BY <2>2, <2>4, <3>1, <3>2
    <3>5. QED  BY <3>3, <3>4
  <2>6. CASE p # i
    BY <1>7, <2>2, <2>3, <2>6
  <2>7. QED  BY <2>5, <2>6
<1>17. ReadsCounted(port, down)' /\ WritesCounted(port, down)' /\ ResetsCounted(port, down)'
  BY <1>15, CountsKept
<1>18. rr' \in 0 .. NumPools - 1  BY <1>1, <1>8
<1>19. QED  BY <1>10, <1>11, <1>12, <1>16, <1>17, <1>18 DEF IInv, SwitchInv

\* handle_event() of the port of a pool.
LEMMA PoolReceiveKeeps == ASSUME IInv, NEW o \in Pool, PoolReceive(o) PROVE IInv'
<1>1. /\ SwitchTyped(port, down) /\ NodesTyped /\ PoolsTyped
      /\ rr \in 0 .. NumPools - 1 /\ Accounts(port, down)
  BY DEF IInv, SwitchInv
<1> DEFINE h == Head(down[o])
           q == switchPort[o]
           a == Arrived(q, h)
<1>2. /\ down[o] # << >> /\ switchPort' = [switchPort EXCEPT ![o] = a]
      /\ down' = [down EXCEPT ![o] = Tail(down[o])]
      /\ UNCHANGED <<mem, returned, pending, performed, up>>
      /\ UNCHANGED <<switchVars, nodeVars>>
  BY DEF PoolReceive, PoolArrive
<1>3. /\ switchPort \in [Pool -> PortOf(PoolQueue, Event, Event)]
      /\ q \in PortOf(PoolQueue, For(o), From(o))
      /\ down \in [Id -> Seq(Item)] /\ down[o] \in Seq(For(o) \cup CreditMsg)
      /\ \A j \in Id : down[j] \in Seq(For(j) \cup CreditMsg)
      /\ o \in Id
  BY <1>1, PoolQueues, Places DEF SwitchTyped, PoolsTyped
<1>4. /\ h \in For(o) \cup CreditMsg /\ Tail(down[o]) \in Seq(For(o) \cup CreditMsg)
      /\ \A S : Copies(down[o], S) = Copies(Tail(down[o]), S) + Mark(h, S)
      /\ \A S : Copies(Tail(down[o]), S) \in Nat /\ Mark(h, S) \in Nat
      /\ Bytes(down[o]) = Bytes(<<h>>) + Bytes(Tail(down[o]))
      /\ Owed(down[o]) = Owed(<<h>>) + Owed(Tail(down[o]))
      /\ Bytes(<<h>>) \in Nat /\ Owed(<<h>>) \in Nat
      /\ Bytes(Tail(down[o])) \in Nat /\ Owed(Tail(down[o])) \in Nat
  <2> DEFINE T == For(o) \cup CreditMsg
             u == down[o]
  <2>1. T \subseteq Item /\ u \in Seq(T) /\ u # << >>  BY <1>2, <1>3 DEF For, Item
  <2> HIDE DEF T, u
  <2>2. /\ Head(u) \in T /\ Tail(u) \in Seq(T)
        /\ \A S : Copies(u, S) = Copies(Tail(u), S) + Mark(Head(u), S)
        /\ \A S : Copies(Tail(u), S) \in Nat /\ Mark(Head(u), S) \in Nat
        /\ Bytes(u) = Bytes(<<Head(u)>>) + Bytes(Tail(u))
        /\ Owed(u) = Owed(<<Head(u)>>) + Owed(Tail(u))
        /\ Bytes(<<Head(u)>>) \in Nat /\ Owed(<<Head(u)>>) \in Nat
        /\ Bytes(Tail(u)) \in Nat /\ Owed(Tail(u)) \in Nat
    BY <2>1, LinkHead
  <2>3. QED  BY <2>2 DEF T, u
<1>5. /\ a \in PortOf(PoolQueue, For(o), From(o))
      /\ a.egress = q.egress /\ a.ready = q.ready
      /\ \A S : S \cap CreditMsg = {} => Copies(a.ingress, S) = Copies(q.ingress, S) + Mark(h, S)
      /\ Bytes(a.ingress) = Bytes(q.ingress) + Bytes(<<h>>)
      /\ PoolQueue # 0 /\ q.credits + Owed(<<h>>) <= PoolQueue * DefaultMsgBytes =>
           a.credits = q.credits + Owed(<<h>>)
  <2> DEFINE In == For(o)
             Out == From(o)
  <2>1. In \subseteq Event /\ q \in PortOf(PoolQueue, In, Out) /\ h \in In \cup CreditMsg
    BY <1>3, <1>4 DEF For
  <2> HIDE DEF In, Out, q, h
  <2>2. /\ Arrived(q, h) \in PortOf(PoolQueue, In, Out)
        /\ Arrived(q, h).egress = q.egress /\ Arrived(q, h).ready = q.ready
        /\ \A S : S \cap CreditMsg = {} =>
             Copies(Arrived(q, h).ingress, S) = Copies(q.ingress, S) + Mark(h, S)
        /\ Bytes(Arrived(q, h).ingress) = Bytes(q.ingress) + Bytes(<<h>>)
        /\ PoolQueue # 0 /\ q.credits + Owed(<<h>>) <= PoolQueue * DefaultMsgBytes =>
             Arrived(q, h).credits = q.credits + Owed(<<h>>)
    BY <2>1, PoolAssumption, ArrivedPort
  <2>3. QED  BY <2>2 DEF In, Out
<1>6. /\ switchPort'[o] = a
      /\ \A j \in Pool : j # o => switchPort'[j] = switchPort[j]
      /\ down'[o] = Tail(down[o]) /\ \A j \in Id : j # o => down'[j] = down[j]
  BY <1>2, <1>3
<1>7. /\ port' = port /\ rr' = rr /\ queue' = queue /\ writes' = writes
      /\ warm' = warm /\ waiting' = waiting /\ up' = up /\ mem' = mem
      /\ returned' = returned /\ performed' = performed /\ pending' = pending
      /\ filled' = filled
  BY <1>2 DEF switchVars, nodeVars
<1> HIDE DEF h, a, q
<1>8. a \in PortOf(PoolQueue, Event, Event)
  <2>1. From(o) \subseteq Event /\ For(o) \subseteq Event  BY DEF From, For
  <2>2. Seq(From(o)) \subseteq Seq(Event) /\ Seq(For(o)) \subseteq Seq(Event)
    BY <2>1, SeqMonotonic
  <2>3. QED  BY <1>5, <2>2 DEF PortOf
<1>9. SwitchTyped(port, down)'
  <2>1. down' \in [Id -> Seq(Item)]
    <3>1. Tail(down[o]) \in Seq(Item)  BY <1>4, EventQueue
    <3>2. QED  BY <1>2, <1>3, <3>1
  <2>2. \A j \in Id : down'[j] \in Seq(For(j) \cup CreditMsg)
    BY <1>3, <1>4, <1>6
  <2>3. QED  BY <1>1, <1>7, <2>1, <2>2 DEF SwitchTyped
<1>10. NodesTyped'
  BY <1>1, <1>7 DEF NodesTyped
<1>11. PoolsTyped'
  <2>1. switchPort' \in [Pool -> PortOf(PoolQueue, Event, Event)]
    BY <1>2, <1>3, <1>8
  <2>2. ASSUME NEW p \in Pool PROVE PoolTyped(p)'
    <3>1. switchPort'[p] \in PortOf(PoolQueue, For(p), From(p))
      BY <1>1, <1>5, <1>6, PoolQueues
    <3>2. PoolTyped(p)  BY <1>1 DEF PoolsTyped
    <3>3. switchPort'[p].egress = switchPort[p].egress  BY <1>5, <1>6 DEF q
    <3>4. QED  BY <1>7, <3>1, <3>2, <3>3 DEF PoolTyped
  <2>3. QED  BY <1>1, <1>7, <2>1, <2>2 DEF PoolsTyped
<1>12. ASSUME NEW p \in Pool, NEW S, S \cap CreditMsg = {}
       PROVE  /\ Copies(down'[p], S) + Copies(switchPort'[p].ingress, S)
                 = Copies(down[p], S) + Copies(switchPort[p].ingress, S)
              /\ switchPort'[p].ready = switchPort[p].ready
              /\ switchPort'[p].egress = switchPort[p].egress
              /\ Copies(down'[p], S) \in Nat /\ Copies(switchPort'[p].ingress, S) \in Nat
  <2>1. p \in Id /\ Copies(switchPort[p].ingress, S) \in Nat /\ Copies(down[p], S) \in Nat
    BY <1>1, Places, CountsAreNumbers
  <2>2. CASE p = o
    <3>1. /\ Copies(down[o], S) = Copies(Tail(down[o]), S) + Mark(h, S)
          /\ Copies(a.ingress, S) = Copies(q.ingress, S) + Mark(h, S)
          /\ Copies(Tail(down[o]), S) \in Nat /\ Mark(h, S) \in Nat
          /\ Copies(q.ingress, S) \in Nat
      BY <1>4, <1>5, <1>12, <2>1, <2>2 DEF q
    <3>2. Copies(Tail(down[o]), S) + Copies(a.ingress, S)
          = Copies(down[o], S) + Copies(q.ingress, S)
      BY <3>1
    <3>3. Copies(a.ingress, S) \in Nat  BY <3>1
    <3>4. QED  BY <1>5, <1>6, <2>2, <3>1, <3>2, <3>3 DEF q
  <2>3. CASE p # o  BY <1>6, <2>1, <2>3
  <2>4. QED  BY <2>2, <2>3
<1>13. ASSUME NEW S, S \cap CreditMsg = {}
       PROVE  /\ \A n \in Node : /\ Here(port, n, S)' = Here(port, n, S)
                                 /\ Back(port, down, n, S)' = Back(port, down, n, S)
              /\ \A p \in Pool : /\ At(port, down, p, S)' = At(port, down, p, S)
                                 /\ Reached(port, down, p, S)' = Reached(port, down, p, S)
                                 /\ Answers(port, p, S)' = Answers(port, p, S)
  <2>1. ASSUME NEW n \in Node
        PROVE  /\ Here(port, n, S)' = Here(port, n, S)
               /\ Back(port, down, n, S)' = Back(port, down, n, S)
    <3>1. n \in Id /\ n # o  BY Places
    <3>2. down'[n] = down[n]  BY <1>6, <3>1
    <3>3. QED  BY <1>7, <3>2 DEF Here, Back
  <2>2. ASSUME NEW p \in Pool
        PROVE  /\ At(port, down, p, S)' = At(port, down, p, S)
               /\ Reached(port, down, p, S)' = Reached(port, down, p, S)
               /\ Answers(port, p, S)' = Answers(port, p, S)
    <3>1. p \in Id  BY Places
    <3>2. /\ Copies(down'[p], S) + Copies(switchPort'[p].ingress, S)
             = Copies(down[p], S) + Copies(switchPort[p].ingress, S)
          /\ switchPort'[p].ready = switchPort[p].ready
          /\ switchPort'[p].egress = switchPort[p].egress
          /\ Copies(down'[p], S) \in Nat /\ Copies(switchPort'[p].ingress, S) \in Nat
      BY <1>12, <1>13
    <3>3. /\ Copies(down[p], S) \in Nat /\ Copies(switchPort[p].ingress, S) \in Nat
          /\ Copies(switchPort[p].ready, S) \in Nat /\ Copies(port[p].egress, S) \in Nat
          /\ Within(mem[p], S) \in Nat
      BY <1>1, <3>1, CountsAreNumbers
    <3>4. At(port, down, p, S)' = At(port, down, p, S)
      BY <1>7, <3>2, <3>3 DEF At
    <3>5. Reached(port, down, p, S)' = Reached(port, down, p, S)
      BY <1>7, <3>4 DEF Reached
    <3>6. Answers(port, p, S)' = Answers(port, p, S)
      BY <1>7, <3>2 DEF Answers
    <3>7. QED  BY <3>4, <3>5, <3>6
  <2>3. QED  BY <2>1, <2>2
<1>14. CopiesKept
  <2>1. ASSUME NEW n \in Node, NEW b \in Block, NEW p \in Pool
        PROVE  InPool(port, down, p, n, b)' = InPool(port, down, p, n, b)
    BY <1>7, <1>13, NoCredit DEF InPool
  <2>2. QED  BY <1>7, <1>13, <2>1, NoCredit DEF CopiesKept
<1>15. Accounts(port, down)'
  <2>1. SUFFICES ASSUME NEW p \in Pool
        PROVE  /\ SwitchQueue # 0 =>
                   port[p].credits + Bytes(down'[p]) + Bytes(switchPort'[p].ingress)
                     + Bytes(switchPort'[p].ready) + Owed(up[p])
                   = SwitchQueue * DefaultMsgBytes
               /\ PoolQueue # 0 =>
                   switchPort'[p].credits + Bytes(up[p]) + Bytes(port[p].ingress)
                     + Bytes(port[p].ready) + Owed(down'[p])
                   = PoolQueue * DefaultMsgBytes
    BY <1>7 DEF Accounts
  <2>2. /\ SwitchQueue # 0 =>
             port[p].credits + Bytes(down[p]) + Bytes(switchPort[p].ingress)
               + Bytes(switchPort[p].ready) + Owed(up[p])
             = SwitchQueue * DefaultMsgBytes
        /\ PoolQueue # 0 =>
             switchPort[p].credits + Bytes(up[p]) + Bytes(port[p].ingress)
               + Bytes(port[p].ready) + Owed(down[p])
             = PoolQueue * DefaultMsgBytes
    BY <1>1 DEF Accounts
  <2>3. p \in Id  BY Places
  <2>4. /\ Bytes(up[p]) \in Nat /\ Owed(up[p]) \in Nat
        /\ Bytes(switchPort[p].ingress) \in Nat /\ Bytes(switchPort[p].ready) \in Nat
        /\ Bytes(port[p].ingress) \in Nat /\ Bytes(port[p].ready) \in Nat
        /\ switchPort[p].credits \in Nat /\ port[p].credits \in Nat
    <3>1. up[p] \in Seq(Item)  BY <1>1, <2>3 DEF NodesTyped
    <3>2. QED  BY <1>1, <2>3, <3>1, PortQueues, PoolQueues, BytesNat
  <2>5. CASE p = o
    <3>1. /\ switchPort'[p].credits = a.credits /\ switchPort'[p].ready = switchPort[p].ready
          /\ Bytes(switchPort'[p].ingress) = Bytes(switchPort[p].ingress) + Bytes(<<h>>)
          /\ Bytes(down[p]) = Bytes(<<h>>) + Bytes(down'[p])
          /\ Owed(down[p]) = Owed(<<h>>) + Owed(down'[p])
          /\ Bytes(down'[p]) \in Nat /\ Owed(down'[p]) \in Nat
          /\ PoolQueue # 0 /\ switchPort[p].credits + Owed(<<h>>) <= PoolQueue * DefaultMsgBytes =>
               switchPort'[p].credits = switchPort[p].credits + Owed(<<h>>)
      BY <1>4, <1>5, <1>6, <2>5 DEF q
    <3>2. Bytes(<<h>>) \in Nat /\ Owed(<<h>>) \in Nat  BY <1>4
    <3>3. SwitchQueue # 0 =>
            port[p].credits + Bytes(down'[p]) + Bytes(switchPort'[p].ingress)
              + Bytes(switchPort'[p].ready) + Owed(up[p])
            = SwitchQueue * DefaultMsgBytes
      BY <2>2, <2>4, <3>1, <3>2
    <3>4. PoolQueue # 0 =>
            switchPort'[p].credits + Bytes(up[p]) + Bytes(port[p].ingress)
              + Bytes(port[p].ready) + Owed(down'[p])
            = PoolQueue * DefaultMsgBytes
      BY <2>2, <2>4, <3>1, <3>2
    <3>5. QED  BY <3>3, <3>4
  <2>6. CASE p # o
    BY <1>6, <2>2, <2>3, <2>6
  <2>7. QED  BY <2>5, <2>6
<1>16. ReadsCounted(port, down)' /\ WritesCounted(port, down)' /\ ResetsCounted(port, down)'
  BY <1>14, CountsKept
<1>17. rr' \in 0 .. NumPools - 1  BY <1>1, <1>7
<1>18. QED  BY <1>9, <1>10, <1>11, <1>15, <1>16, <1>17 DEF IInv, SwitchInv

\* handleEvent_CXL of a node.
LEMMA NodeReceiveKeeps == ASSUME IInv, NEW o \in Node, NodeReceive(o) PROVE IInv'
<1>1. /\ SwitchTyped(port, down) /\ NodesTyped /\ PoolsTyped
      /\ rr \in 0 .. NumPools - 1 /\ Accounts(port, down)
      /\ ReadsCounted(port, down) /\ WritesCounted(port, down) /\ ResetsCounted(port, down)
  BY DEF IInv, SwitchInv
<1> DEFINE h == Head(down[o])
           blocks == {ev.block : ev \in {h} \cap {Response(p, o, b) : p \in Pool, b \in Block}}
<1>2. /\ down[o] # << >>
      /\ waiting' = [waiting EXCEPT ![o] = @ \ blocks]
      /\ filled' = [filled EXCEPT ![o] = @ \cup blocks]
      /\ down' = [down EXCEPT ![o] = Tail(down[o])]
      /\ UNCHANGED <<queue, warm, writes, up>> /\ UNCHANGED <<switchVars, poolVars>>
  BY DEF NodeReceive, NodeArrive
<1>3. /\ down \in [Id -> Seq(Item)] /\ down[o] \in Seq(For(o) \cup CreditMsg)
      /\ o \in Id /\ waiting \in [Node -> SUBSET Block] /\ filled \in [Node -> SUBSET Block]
  BY <1>1, Places DEF SwitchTyped, NodesTyped
<1>4. /\ h \in For(o) \cup CreditMsg /\ Tail(down[o]) \in Seq(For(o) \cup CreditMsg)
      /\ \A S : Copies(down[o], S) = Copies(Tail(down[o]), S) + Mark(h, S)
      /\ \A S : Copies(Tail(down[o]), S) \in Nat
  <2> DEFINE T == For(o) \cup CreditMsg
             u == down[o]
  <2>1. T \subseteq Item /\ u \in Seq(T) /\ u # << >>  BY <1>2, <1>3 DEF For, Item
  <2> HIDE DEF T, u
  <2>2. /\ Head(u) \in T /\ Tail(u) \in Seq(T)
        /\ \A S : Copies(u, S) = Copies(Tail(u), S) + Mark(Head(u), S)
        /\ \A S : Copies(Tail(u), S) \in Nat
    BY <2>1, LinkHead
  <2>3. QED  BY <2>2 DEF T, u
<1>5. \A b \in Block : b \in blocks <=> h \in RspTo(o, b)
  <2>1. ASSUME NEW b \in Block, NEW p \in Pool PROVE Response(p, o, b).block = b
    BY DEF Response
  <2>2. QED  BY <2>1 DEF RspTo
<1>6. blocks \subseteq Block
  <2>1. ASSUME NEW b \in Block, NEW p \in Pool PROVE Response(p, o, b).block = b
    BY DEF Response
  <2>2. QED  BY <2>1
<1> HIDE DEF h, blocks
<1>7. /\ port' = port /\ rr' = rr /\ queue' = queue /\ writes' = writes
      /\ warm' = warm /\ up' = up /\ mem' = mem
      /\ switchPort' = switchPort
      /\ returned' = returned /\ performed' = performed /\ pending' = pending
  BY <1>2 DEF switchVars, poolVars
<1>8. /\ down'[o] = Tail(down[o]) /\ \A j \in Id : j # o => down'[j] = down[j]
      /\ waiting'[o] = waiting[o] \ blocks
      /\ \A n \in Node : n # o => waiting'[n] = waiting[n]
      /\ waiting' \in [Node -> SUBSET Block] /\ filled' \in [Node -> SUBSET Block]
  BY <1>2, <1>3, <1>6
<1>9. SwitchTyped(port, down)'
  <2>1. down' \in [Id -> Seq(Item)]
    <3>1. Tail(down[o]) \in Seq(Item)  BY <1>4, EventQueue
    <3>2. QED  BY <1>2, <1>3, <3>1
  <2>2. \A j \in Id : down'[j] \in Seq(For(j) \cup CreditMsg)
    BY <1>1, <1>4, <1>8 DEF SwitchTyped
  <2>3. QED  BY <1>1, <1>7, <2>1, <2>2 DEF SwitchTyped
<1>10. NodesTyped'
  BY <1>1, <1>7, <1>8 DEF NodesTyped
<1>11. PoolsTyped'
  BY <1>1, <1>7 DEF PoolsTyped, PoolTyped
<1>12. \A p \in Pool : p \in Id /\ down'[p] = down[p]
  BY <1>8, Places
<1>13. ASSUME NEW S
       PROVE  /\ \A n \in Node : Here(port, n, S)' = Here(port, n, S)
              /\ \A n \in Node : n # o => Back(port, down, n, S)' = Back(port, down, n, S)
              /\ Back(port, down, o, S) = Back(port, down, o, S)' + Mark(h, S)
              /\ Back(port, down, o, S)' \in Nat
              /\ \A p \in Pool : /\ At(port, down, p, S)' = At(port, down, p, S)
                                 /\ Reached(port, down, p, S)' = Reached(port, down, p, S)
                                 /\ Answers(port, p, S)' = Answers(port, p, S)
  <2>1. \A n \in Node : Here(port, n, S)' = Here(port, n, S)  BY <1>7 DEF Here
  <2>2. ASSUME NEW n \in Node, n # o
        PROVE  Back(port, down, n, S)' = Back(port, down, n, S)
    <3>1. n \in Id  BY Places
    <3>2. QED  BY <1>7, <1>8, <2>2, <3>1 DEF Back
  <2>3. /\ Back(port, down, o, S) = Back(port, down, o, S)' + Mark(h, S)
        /\ Back(port, down, o, S)' \in Nat
    <3>1. /\ Copies(port[o].egress, S) \in Nat /\ Copies(down'[o], S) \in Nat
          /\ Copies(down[o], S) = Copies(down'[o], S) + Mark(h, S)
          /\ Mark(h, S) \in Nat
      BY <1>1, <1>3, <1>4, <1>8, CountsAreNumbers DEF Mark
    <3>2. Back(port, down, o, S) = Copies(port[o].egress, S) + Copies(down[o], S)
      BY DEF Back
    <3>3. Back(port, down, o, S)' = Copies(port[o].egress, S) + Copies(down'[o], S)
      BY <1>7 DEF Back
    <3>4. QED  BY <3>1, <3>2, <3>3
  <2>4. ASSUME NEW p \in Pool
        PROVE  /\ At(port, down, p, S)' = At(port, down, p, S)
               /\ Reached(port, down, p, S)' = Reached(port, down, p, S)
               /\ Answers(port, p, S)' = Answers(port, p, S)
    BY <1>7, <1>12 DEF At, Reached, Answers
  <2>5. QED  BY <2>1, <2>2, <2>3, <2>4
<1>14. ReadsCounted(port, down)'
  <2>1. SUFFICES ASSUME NEW n \in Node, NEW b \in Block
        PROVE  Here(port, n, ReadOf(n, b))' + SumOverPools(InPools(port, down, n, b)')
                 + Back(port, down, n, RspTo(n, b))' = Flag(b \in waiting'[n])
    BY DEF ReadsCounted, SumOverPools, Flag
  <2>2. InPools(port, down, n, b)' = InPools(port, down, n, b)
    BY <1>7, <1>13 DEF InPools, InPool
  <2>3. Here(port, n, ReadOf(n, b))' = Here(port, n, ReadOf(n, b))  BY <1>13
  <2>4. /\ Here(port, n, ReadOf(n, b)) \in Nat
        /\ SumOverPools(InPools(port, down, n, b)) \in Nat
    <3>1. InPools(port, down, n, b) \in [Pool -> Nat]
      BY <1>1, PoolCountsAreNumbers
    <3>2. QED  BY <1>1, <3>1, CountsAreNumbers, SumAtLeast, Places
  <2>5. Here(port, n, ReadOf(n, b)) + SumOverPools(InPools(port, down, n, b))
          + Back(port, down, n, RspTo(n, b)) = Flag(b \in waiting[n])
    BY <1>1 DEF ReadsCounted
  <2>6. CASE n # o
    BY <1>8, <1>13, <2>2, <2>3, <2>5, <2>6
  <2>7. CASE n = o
    <3>1. /\ Back(port, down, n, RspTo(n, b))
             = Back(port, down, n, RspTo(n, b))' + Mark(h, RspTo(n, b))
          /\ Back(port, down, n, RspTo(n, b))' \in Nat
      BY <1>13, <2>7
    <3>2. CASE h \in RspTo(o, b)
      <4>1. Mark(h, RspTo(n, b)) = 1  BY <2>7, <3>2 DEF Mark
      <4>2. Flag(b \in waiting'[n]) = 0  BY <1>5, <1>8, <2>7, <3>2 DEF Flag
      <4>3. Flag(b \in waiting[n]) \in 0 .. 1  BY DEF Flag
      <4>4. QED  BY <2>2, <2>3, <2>4, <2>5, <3>1, <4>1, <4>2, <4>3
    <3>3. CASE h \notin RspTo(o, b)
      <4>1. Mark(h, RspTo(n, b)) = 0  BY <2>7, <3>3 DEF Mark
      <4>2. b \in waiting'[n] <=> b \in waiting[n]  BY <1>5, <1>8, <2>7, <3>3
      <4>3. Flag(b \in waiting'[n]) = Flag(b \in waiting[n])  BY <4>2 DEF Flag
      <4>4. QED  BY <2>2, <2>3, <2>4, <2>5, <3>1, <4>1, <4>3
    <3>4. QED  BY <3>2, <3>3
  <2>8. QED  BY <2>6, <2>7
<1>15. WritesCounted(port, down)'
  <2>1. ASSUME NEW n \in Node, NEW k \in Nat \ {0}
        PROVE  ReachedPools(port, down, WriteOf(n, k))' = ReachedPools(port, down, WriteOf(n, k))
    BY <1>13 DEF ReachedPools
  <2>2. QED  BY <1>1, <1>7, <1>13, <2>1 DEF WritesCounted
<1>16. ResetsCounted(port, down)'
  BY <1>1, <1>7, <1>13 DEF ResetsCounted
<1>17. Accounts(port, down)'
  BY <1>1, <1>7, <1>12 DEF Accounts
<1>18. rr' \in 0 .. NumPools - 1  BY <1>1, <1>7
<1>19. QED  BY <1>9, <1>10, <1>11, <1>14, <1>15, <1>16, <1>17, <1>18 DEF IInv, SwitchInv

-----------------------------------------------------------------------------
(* A tick of a node *)

NodeRecord(n) ==
  [waiting : SUBSET Block, filled : SUBSET Block, queue : Seq(From(n)),
   writes : 0 .. MaxWrites[n]]

\* From s to t the LLC of node n added to its queue a read for each MSHR entry
\* that it allocated, and each writeback that it issued.
Worked(n, s, t) ==
  /\ s \in NodeRecord(n) /\ t \in NodeRecord(n)
  /\ \A b \in Block : Copies(t.queue, ReadOf(n, b)) + Flag(b \in s.waiting)
                      = Copies(s.queue, ReadOf(n, b)) + Flag(b \in t.waiting)
  /\ \A k \in Nat \ {0} : Copies(t.queue, WriteOf(n, k)) + Flag(k <= s.writes)
                          = Copies(s.queue, WriteOf(n, k)) + Flag(k <= t.writes)
  /\ Copies(t.queue, ResetOf(n)) = Copies(s.queue, ResetOf(n))

LEMMA WorkedTwice ==
  ASSUME NEW n \in Node, NEW s, NEW t, NEW u, Worked(n, s, t), Worked(n, t, u)
  PROVE  Worked(n, s, u)
<1>1. \A S : /\ Copies(s.queue, S) \in Nat /\ Copies(t.queue, S) \in Nat
             /\ Copies(u.queue, S) \in Nat
  BY CopiesNat DEF Worked, NodeRecord
<1>2. \A x : Flag(x) \in Nat  BY DEF Flag
<1>3. ASSUME NEW b \in Block
      PROVE  Copies(u.queue, ReadOf(n, b)) + Flag(b \in s.waiting)
             = Copies(s.queue, ReadOf(n, b)) + Flag(b \in u.waiting)
  <2>1. /\ Copies(t.queue, ReadOf(n, b)) + Flag(b \in s.waiting)
           = Copies(s.queue, ReadOf(n, b)) + Flag(b \in t.waiting)
        /\ Copies(u.queue, ReadOf(n, b)) + Flag(b \in t.waiting)
           = Copies(t.queue, ReadOf(n, b)) + Flag(b \in u.waiting)
    BY DEF Worked
  <2>2. /\ Flag(b \in s.waiting) \in Nat /\ Flag(b \in t.waiting) \in Nat
        /\ Flag(b \in u.waiting) \in Nat
    BY DEF Flag
  <2>3. QED  BY <1>1, <2>1, <2>2
<1>4. ASSUME NEW k \in Nat \ {0}
      PROVE  Copies(u.queue, WriteOf(n, k)) + Flag(k <= s.writes)
             = Copies(s.queue, WriteOf(n, k)) + Flag(k <= u.writes)
  <2>1. /\ Copies(t.queue, WriteOf(n, k)) + Flag(k <= s.writes)
           = Copies(s.queue, WriteOf(n, k)) + Flag(k <= t.writes)
        /\ Copies(u.queue, WriteOf(n, k)) + Flag(k <= t.writes)
           = Copies(t.queue, WriteOf(n, k)) + Flag(k <= u.writes)
    BY DEF Worked
  <2>2. /\ Flag(k <= s.writes) \in Nat /\ Flag(k <= t.writes) \in Nat
        /\ Flag(k <= u.writes) \in Nat
    BY DEF Flag
  <2>3. QED  BY <1>1, <2>1, <2>2
<1>5. QED  BY <1>3, <1>4 DEF Worked

LEMMA NothingWorked ==
  ASSUME NEW n \in Node, NEW s \in NodeRecord(n), NEW t \in NodeRecord(n),
         t.queue = s.queue, t.waiting = s.waiting, t.writes = s.writes
  PROVE  Worked(n, s, t)
BY DEF Worked

\* What a node puts into its queue.
LEMMA Queued ==
  ASSUME NEW n \in Node, NEW b \in Block
  PROVE  /\ Read(n, Target[b], b) \in ReadMsg /\ Read(n, Target[b], b) \in From(n)
         /\ Read(n, Target[b], b).src = n /\ Read(n, Target[b], b).block = b
         /\ \A k \in Nat \ {0} :
              /\ Write(n, Target[b], b, k) \in WriteMsg
              /\ Write(n, Target[b], b, k) \in From(n)
              /\ Write(n, Target[b], b, k).src = n /\ Write(n, Target[b], b, k).num = k
<1>1. Target[b] \in Pool  BY SystemAssumption
<1>2. Read(n, Target[b], b) \in ReadMsg /\ Read(n, Target[b], b).src = n
      /\ Read(n, Target[b], b).block = b
  BY <1>1 DEF Read, ReadMsg
<1>3. ASSUME NEW k \in Nat \ {0}
      PROVE  /\ Write(n, Target[b], b, k) \in WriteMsg /\ Write(n, Target[b], b, k).src = n
             /\ Write(n, Target[b], b, k).num = k
  BY <1>1 DEF Write, WriteMsg
<1>4. ReadMsg \subseteq Event /\ WriteMsg \subseteq Event  BY DEF Event, Request
<1>5. QED  BY <1>2, <1>3, <1>4 DEF From

LEMMA Apart ==
  ASSUME NEW n \in Node
  PROVE  /\ \A ev \in ReadMsg : /\ \A k \in Nat \ {0} : ev \notin WriteOf(n, k)
                                /\ ev \notin ResetOf(n)
         /\ \A ev \in WriteMsg : /\ \A b \in Block : ev \notin ReadOf(n, b)
                                 /\ ev \notin ResetOf(n)
         /\ \A ev \in ResetMsg : /\ \A b \in Block : ev \notin ReadOf(n, b)
                                 /\ \A k \in Nat \ {0} : ev \notin WriteOf(n, k)
<1>1. /\ \A ev \in ReadMsg : ev.type = "read"
      /\ \A ev \in WriteMsg : ev.type = "write"
      /\ \A ev \in ResetMsg : ev.type = "reset"
  BY DEF ReadMsg, WriteMsg, ResetMsg
<1>2. QED  BY <1>1, InReadOf, InWriteOf, InResetOf

LEMMA MissWorks ==
  ASSUME NEW n \in Node, NEW s \in NodeRecord(n), NEW b \in Block, b \notin s.waiting,
         NEW t, t = [s EXCEPT !.queue = Append(@, Read(n, Target[b], b)),
                              !.waiting = @ \cup {b}]
  PROVE  Worked(n, s, t)
<1> DEFINE r == Read(n, Target[b], b)
<1>1. r \in ReadMsg /\ r \in From(n) /\ r.src = n /\ r.block = b  BY Queued
<1>2. /\ s.queue \in Seq(From(n)) /\ s.waiting \subseteq Block
      /\ t.queue = Append(s.queue, r) /\ t.waiting = s.waiting \cup {b}
      /\ t.writes = s.writes
      /\ t = [waiting |-> t.waiting, filled |-> s.filled, queue |-> t.queue, writes |-> s.writes]
  BY DEF NodeRecord
<1> HIDE DEF r
<1>3. /\ t.queue \in Seq(From(n))
      /\ \A S : Copies(t.queue, S) = Copies(s.queue, S) + Mark(r, S)
  BY <1>1, <1>2, CopiesAppend
<1>4. \A S : Copies(s.queue, S) \in Nat  BY <1>2, CopiesNat
<1>5. t \in NodeRecord(n)  BY <1>2, <1>3 DEF NodeRecord
<1>6. ASSUME NEW c \in Block
      PROVE  Copies(t.queue, ReadOf(n, c)) + Flag(c \in s.waiting)
             = Copies(s.queue, ReadOf(n, c)) + Flag(c \in t.waiting)
  <2>1. r \in ReadOf(n, c) <=> c = b  BY <1>1, InReadOf
  <2>2. Mark(r, ReadOf(n, c)) + Flag(c \in s.waiting) = Flag(c \in t.waiting)
    BY <1>2, <2>1 DEF Mark, Flag
  <2>3. Mark(r, ReadOf(n, c)) \in Nat /\ Flag(c \in s.waiting) \in Nat  BY DEF Mark, Flag
  <2>4. QED  BY <1>3, <1>4, <2>2, <2>3
<1>7. ASSUME NEW S, r \notin S PROVE Copies(t.queue, S) = Copies(s.queue, S)
  BY <1>3, <1>4, <1>7 DEF Mark
<1>8. /\ \A k \in Nat \ {0} : Copies(t.queue, WriteOf(n, k)) = Copies(s.queue, WriteOf(n, k))
      /\ Copies(t.queue, ResetOf(n)) = Copies(s.queue, ResetOf(n))
  BY <1>1, <1>7, Apart
<1>9. QED  BY <1>2, <1>5, <1>6, <1>8 DEF Worked

LEMMA WritebackWorks ==
  ASSUME NEW n \in Node, NEW s \in NodeRecord(n), NEW v \in Block, s.writes < MaxWrites[n]
  PROVE  Worked(n, s, WithWriteback(n, s, v))
<1> DEFINE m == s.writes + 1
           w == Write(n, Target[v], v, m)
           t == WithWriteback(n, s, v)
<1>1. MaxWrites[n] \in Nat  BY SystemAssumption
<1>2. /\ s.queue \in Seq(From(n)) /\ s.writes \in Nat
      /\ m \in Nat \ {0} /\ m \in 0 .. MaxWrites[n]
  BY <1>1 DEF NodeRecord
<1>3. w \in WriteMsg /\ w \in From(n) /\ w.src = n /\ w.num = m  BY <1>2, Queued
<1>4. /\ t.queue = Append(s.queue, w) /\ t.waiting = s.waiting /\ t.writes = m
      /\ t = [waiting |-> s.waiting, filled |-> s.filled, queue |-> Append(s.queue, w),
              writes |-> m]
      /\ s.waiting \in SUBSET Block /\ s.filled \in SUBSET Block
  <2> HIDE DEF m
  <2>1. t = [s EXCEPT !.queue = Append(s.queue, w), !.writes = m]  BY DEF WithWriteback, m
  <2> HIDE DEF w, t
  <2>2. QED  BY <2>1 DEF NodeRecord
<1> HIDE DEF w, t
<1>5. /\ t.queue \in Seq(From(n))
      /\ \A S : Copies(t.queue, S) = Copies(s.queue, S) + Mark(w, S)
  BY <1>2, <1>3, <1>4, CopiesAppend
<1>6. \A S : Copies(s.queue, S) \in Nat  BY <1>2, CopiesNat
<1>7. t \in NodeRecord(n)  BY <1>2, <1>4, <1>5 DEF NodeRecord
<1>8. ASSUME NEW k \in Nat \ {0}
      PROVE  Copies(t.queue, WriteOf(n, k)) + Flag(k <= s.writes)
             = Copies(s.queue, WriteOf(n, k)) + Flag(k <= t.writes)
  <2>1. w \in WriteOf(n, k) <=> k = m  BY <1>3, InWriteOf
  <2>2. Mark(w, WriteOf(n, k)) + Flag(k <= s.writes) = Flag(k <= t.writes)
    BY <1>2, <1>4, <2>1 DEF Mark, Flag
  <2>3. Mark(w, WriteOf(n, k)) \in Nat /\ Flag(k <= s.writes) \in Nat  BY DEF Mark, Flag
  <2>4. QED  BY <1>5, <1>6, <2>2, <2>3
<1>9. ASSUME NEW S, w \notin S PROVE Copies(t.queue, S) = Copies(s.queue, S)
  BY <1>5, <1>6, <1>9 DEF Mark
<1>10. /\ \A b \in Block : Copies(t.queue, ReadOf(n, b)) = Copies(s.queue, ReadOf(n, b))
       /\ Copies(t.queue, ResetOf(n)) = Copies(s.queue, ResetOf(n))
  BY <1>3, <1>9, Apart
<1>11. Worked(n, s, t)  BY <1>4, <1>7, <1>8, <1>10 DEF Worked
<1>12. QED  BY <1>11 DEF t

LEMMA FillWorks ==
  ASSUME NEW n \in Node, NEW s \in NodeRecord(n), NEW t \in AfterFill(n, s)
  PROVE  Worked(n, s, t)
<1> DEFINE retired == {[s EXCEPT !.filled = @ \ {b}] : b \in s.filled}
<1>1. ASSUME NEW u \in {s} \cup retired PROVE u \in NodeRecord(n) /\ Worked(n, s, u)
  <2>1. CASE u = s  BY <2>1, NothingWorked
  <2>2. CASE u \in retired
    <3>1. PICK b \in s.filled : u = [s EXCEPT !.filled = @ \ {b}]  BY <2>2
    <3>2. /\ u \in NodeRecord(n) /\ u.queue = s.queue /\ u.waiting = s.waiting
          /\ u.writes = s.writes
      BY <3>1 DEF NodeRecord
    <3>3. QED  BY <3>2, NothingWorked
  <2>3. QED  BY <1>1, <2>1, <2>2
<1>2. CASE t \in {s} \cup retired  BY <1>1, <1>2
<1>3. CASE \E u \in {s} \cup retired, v \in Block :
             CanWriteback(n, u) /\ t = WithWriteback(n, u, v)
  <2>1. PICK u \in {s} \cup retired, v \in Block :
               CanWriteback(n, u) /\ t = WithWriteback(n, u, v)
    BY <1>3
  <2>2. Worked(n, s, u) /\ u \in NodeRecord(n)  BY <1>1
  <2>3. Worked(n, u, t)  BY <2>1, <2>2, WritebackWorks DEF CanWriteback
  <2>4. QED  BY <2>2, <2>3, WorkedTwice
<1>4. QED  BY <1>2, <1>3 DEF AfterFill

LEMMA NodeWorks ==
  ASSUME NEW n \in Node, NEW s \in NodeRecord(n), NEW t \in AfterFill(n, s),
         NEW u \in AfterMiss(n, t)
  PROVE  Worked(n, s, u)
<1>1. Worked(n, s, t) /\ t \in NodeRecord(n)  BY FillWorks DEF Worked
<1>2. CASE u = t  BY <1>1, <1>2
<1>3. CASE \E b \in Block : /\ b \notin t.waiting
                            /\ u = [t EXCEPT !.queue = Append(@, Read(n, Target[b], b)),
                                             !.waiting = @ \cup {b}]
  <2>1. Worked(n, t, u)  BY <1>1, <1>3, MissWorks
  <2>2. QED  BY <1>1, <2>1, WorkedTwice
<1>4. QED  BY <1>2, <1>3 DEF AfterMiss

\* champsim_tick
LEMMA NodeTickKeeps == ASSUME IInv, NEW o \in Node, NodeTick(o) PROVE IInv'
<1>1. /\ SwitchTyped(port, down) /\ NodesTyped /\ PoolsTyped
      /\ rr \in 0 .. NumPools - 1 /\ Accounts(port, down)
      /\ ReadsCounted(port, down) /\ WritesCounted(port, down) /\ ResetsCounted(port, down)
  BY DEF IInv, SwitchInv
<1>2. PICK s \in UNION {AfterMiss(o, t) : t \in AfterFill(o, NodeState(o))} :
         \E k \in 0 .. Len(s.queue), warmup_done \in {warm[o], o \in WarmUp} :
           \E batch \in Orders(First(s.queue, k)) :
             /\ waiting' = [waiting EXCEPT ![o] = s.waiting]
             /\ filled' = [filled EXCEPT ![o] = s.filled]
             /\ writes' = [writes EXCEPT ![o] = s.writes]
             /\ queue' = [queue EXCEPT ![o] = Rest(s.queue, k)]
             /\ warm' = [warm EXCEPT ![o] = warmup_done]
             /\ up' = [up EXCEPT ![o] =
                  (@ \o batch)
                    \o (IF warm[o] = warmup_done THEN << >> ELSE <<Reset(o, o)>>)]
             /\ UNCHANGED down
  BY DEF NodeTick, NodeClock
<1>3. PICK k \in 0 .. Len(s.queue), done \in {warm[o], o \in WarmUp} :
           \E batch \in Orders(First(s.queue, k)) :
             /\ waiting' = [waiting EXCEPT ![o] = s.waiting]
             /\ filled' = [filled EXCEPT ![o] = s.filled]
             /\ writes' = [writes EXCEPT ![o] = s.writes]
             /\ queue' = [queue EXCEPT ![o] = Rest(s.queue, k)]
             /\ warm' = [warm EXCEPT ![o] = done]
             /\ up' = [up EXCEPT ![o] =
                  (@ \o batch)
                    \o (IF warm[o] = done THEN << >> ELSE <<Reset(o, o)>>)]
             /\ UNCHANGED down
  BY <1>2
<1> DEFINE extra == IF warm[o] = done THEN << >> ELSE <<Reset(o, o)>>
<1>4. PICK batch \in Orders(First(s.queue, k)) :
             /\ waiting' = [waiting EXCEPT ![o] = s.waiting]
             /\ filled' = [filled EXCEPT ![o] = s.filled]
             /\ writes' = [writes EXCEPT ![o] = s.writes]
             /\ queue' = [queue EXCEPT ![o] = Rest(s.queue, k)]
             /\ warm' = [warm EXCEPT ![o] = done]
             /\ up' = [up EXCEPT ![o] = (up[o] \o batch) \o extra]
             /\ UNCHANGED down
  BY <1>3
<1>5. /\ waiting \in [Node -> SUBSET Block] /\ filled \in [Node -> SUBSET Block]
      /\ queue \in [Node -> Seq(Item)] /\ \A n \in Node : queue[n] \in Seq(From(n))
      /\ warm \in [Node -> BOOLEAN] /\ \A n \in Node : warm[n] => n \in WarmUp
      /\ writes \in [Node -> Nat] /\ \A n \in Node : writes[n] \in 0 .. MaxWrites[n]
      /\ up \in [Id -> Seq(Item)] /\ \A i \in Id : up[i] \in Seq(ItemFrom(i))
      /\ o \in Id
  BY <1>1, Places DEF NodesTyped
<1>6. Worked(o, NodeState(o), s)
  <2>1. NodeState(o) \in NodeRecord(o)  BY <1>5 DEF NodeState, NodeRecord
  <2>2. QED  BY <1>2, <2>1, NodeWorks
<1>7. /\ s.queue \in Seq(From(o)) /\ s.waiting \in SUBSET Block /\ s.filled \in SUBSET Block
      /\ s.writes \in 0 .. MaxWrites[o]
  BY <1>6 DEF Worked, NodeRecord
<1>8. /\ Rest(s.queue, k) \in Seq(From(o)) /\ batch \in Seq(From(o))
      /\ \A S : Copies(s.queue, S) = Copies(batch, S) + Copies(Rest(s.queue, k), S)
  <2> DEFINE T == From(o)
             q == s.queue
             f == First(q, k)
  <2> HIDE DEF T, q
  <2>1. q \in Seq(T) /\ k \in 0 .. Len(q)  BY <1>7 DEF T, q
  <2>2. /\ f \in Seq(T) /\ Rest(q, k) \in Seq(T)
        /\ \A S : Copies(q, S) = Copies(f, S) + Copies(Rest(q, k), S)
    BY <2>1, CopiesSplit
  <2> HIDE DEF f
  <2>3. batch \in Orders(f)  BY DEF f, q
  <2>4. batch \in Seq(T) /\ \A S : Copies(batch, S) = Copies(f, S)
    BY <2>2, <2>3, CopiesOrders
  <2>5. QED  BY <2>2, <2>4 DEF T, q
<1>9. Reset(o, o) \in ResetMsg /\ Reset(o, o).src = o
  BY <1>5 DEF Reset, ResetMsg
<1>10. extra \in Seq(ItemFrom(o))
  <2>1. Reset(o, o) \in ItemFrom(o)  BY <1>9 DEF ItemFrom, Item, Event, Request
  <2>2. QED  BY <2>1
<1>11. /\ Flag(warm[o]) + Copies(extra, ResetOf(o)) = Flag(done)
       /\ done \in BOOLEAN /\ (done => o \in WarmUp)
  <2>1. warm[o] \in BOOLEAN /\ (warm[o] => o \in WarmUp)  BY <1>5
  <2>2. done = warm[o] \/ done = (o \in WarmUp)  OBVIOUS
  <2>3. CASE done = warm[o]
    <3>1. Copies(extra, ResetOf(o)) = 0  BY <2>3, CopiesEmpty
    <3>2. Flag(done) = Flag(warm[o]) /\ Flag(warm[o]) \in Nat  BY <2>3 DEF Flag
    <3>3. Flag(warm[o]) + Copies(extra, ResetOf(o)) = Flag(done)  BY <3>1, <3>2
    <3>4. done \in BOOLEAN /\ (done => o \in WarmUp)  BY <2>1, <2>3, Zenon
    <3>5. QED  BY <3>3, <3>4
  <2>4. CASE done # warm[o]
    <3>1. done = (o \in WarmUp)  BY <2>2, <2>4, Zenon
    <3>2. warm[o] = TRUE \/ warm[o] = FALSE  BY <2>1
    <3>3. (done = TRUE /\ warm[o] = FALSE) /\ o \in WarmUp
      <4>1. CASE o \in WarmUp
        <5>1. done = TRUE  BY <3>1, <4>1, Zenon
        <5>2. warm[o] = FALSE  BY <2>4, <3>2, <5>1, Zenon
        <5>3. QED  BY <4>1, <5>1, <5>2
      <4>2. CASE o \notin WarmUp
        <5>1. done = FALSE
          <6>1. (o \in WarmUp) = FALSE  BY <4>2
          <6>2. QED  BY <3>1, <6>1, Zenon
        <5>2. warm[o] = FALSE  BY <2>1, <3>2, <4>2, Zenon
        <5>3. QED  BY <2>4, <5>1, <5>2, Zenon
      <4>3. QED  BY <4>1, <4>2
    <3>4. extra = <<Reset(o, o)>>  BY <2>4
    <3>5. Reset(o, o) \in ResetOf(o)  BY <1>9, InResetOf
    <3>6. Copies(extra, ResetOf(o)) = 1  BY <3>4, <3>5, CopiesOne DEF Mark
    <3>7. Flag(TRUE) = 1 /\ Flag(FALSE) = 0  BY DEF Flag
    <3>8. Flag(done) = 1 /\ Flag(warm[o]) = 0  BY <3>3, <3>7, Zenon
    <3>9. Flag(warm[o]) + Copies(extra, ResetOf(o)) = Flag(done)  BY <3>6, <3>8
    <3>10. done \in BOOLEAN /\ (done => o \in WarmUp)
      <4>1. TRUE \in BOOLEAN  OBVIOUS
      <4>2. QED  BY <3>3, <4>1, Zenon
    <3>11. QED  BY <3>9, <3>10
  <2>5. QED  BY <2>3, <2>4
<1>12. ASSUME NEW S, Reset(o, o) \notin S PROVE Copies(extra, S) = 0
  BY <1>12, CopiesEmpty, CopiesOne DEF Mark
<1> HIDE DEF extra
<1>13. /\ waiting'[o] = s.waiting /\ writes'[o] = s.writes /\ queue'[o] = Rest(s.queue, k)
       /\ warm'[o] = done /\ up'[o] = (up[o] \o batch) \o extra
       /\ \A n \in Node : n # o => /\ waiting'[n] = waiting[n] /\ writes'[n] = writes[n]
                                   /\ queue'[n] = queue[n] /\ warm'[n] = warm[n]
       /\ \A i \in Id : i # o => up'[i] = up[i]
       /\ waiting' \in [Node -> SUBSET Block] /\ filled' \in [Node -> SUBSET Block]
       /\ warm' \in [Node -> BOOLEAN]
  BY <1>4, <1>5, <1>7, <1>11
<1>14. /\ port' = port /\ down' = down /\ rr' = rr
       /\ switchPort' = switchPort /\ mem' = mem /\ returned' = returned
       /\ performed' = performed /\ pending' = pending
  BY <1>4 DEF NodeTick, switchVars, poolVars
<1>15. /\ up'[o] \in Seq(ItemFrom(o))
       /\ \A S : Copies(up'[o], S) = Copies(up[o], S) + Copies(batch, S) + Copies(extra, S)
  <2> DEFINE T == ItemFrom(o)
             u == up[o]
  <2>1. From(o) \subseteq T  BY DEF From, ItemFrom, Item
  <2>2. batch \in Seq(T)  BY <1>8, <2>1, SeqMonotonic
  <2>3. u \in Seq(T) /\ extra \in Seq(T)  BY <1>5, <1>10
  <2> HIDE DEF T, u
  <2>4. u \o batch \in Seq(T) /\ (u \o batch) \o extra \in Seq(T)
    BY <2>2, <2>3, ConcatProperties
  <2>5. ASSUME NEW S
        PROVE  Copies((u \o batch) \o extra, S)
               = Copies(u, S) + Copies(batch, S) + Copies(extra, S)
    BY <2>2, <2>3, <2>4, CopiesConcat
  <2>6. QED  BY <1>13, <2>4, <2>5 DEF T, u
<1>16. SwitchTyped(port, down)'
  BY <1>1, <1>14 DEF SwitchTyped
<1>17. NodesTyped'
  <2>1. queue' \in [Node -> Seq(Item)]
    <3>1. Rest(s.queue, k) \in Seq(Item)  BY <1>8, EventQueue
    <3>2. QED  BY <1>4, <1>5, <3>1
  <2>2. up' \in [Id -> Seq(Item)]
    <3>1. (up[o] \o batch) \o extra \in Seq(Item)  BY <1>13, <1>15, EventQueue
    <3>2. QED  BY <1>4, <1>5, <3>1
  <2>3. writes' \in [Node -> Nat]
    <3>1. s.writes \in Nat  BY <1>7, SystemAssumption
    <3>2. QED  BY <1>4, <1>5, <3>1
  <2>4. \A n \in Node : queue'[n] \in Seq(From(n))  BY <1>5, <1>8, <1>13
  <2>5. \A n \in Node : writes'[n] \in 0 .. MaxWrites[n]  BY <1>5, <1>7, <1>13
  <2>6. \A n \in Node : warm'[n] => n \in WarmUp  BY <1>5, <1>11, <1>13
  <2>7. \A i \in Id : up'[i] \in Seq(ItemFrom(i))  BY <1>5, <1>13, <1>15
  <2>8. QED  BY <1>13, <2>1, <2>2, <2>3, <2>4, <2>5, <2>6, <2>7 DEF NodesTyped
<1>18. PoolsTyped'
  BY <1>1, <1>14 DEF PoolsTyped, PoolTyped
<1>19. \A p \in Pool : p \in Id /\ up'[p] = up[p]
  BY <1>13, Places
<1>20. ASSUME NEW S
       PROVE  /\ \A n \in Node : Back(port, down, n, S)' = Back(port, down, n, S)
              /\ \A n \in Node : n # o => Here(port, n, S)' = Here(port, n, S)
              /\ \A p \in Pool : /\ At(port, down, p, S)' = At(port, down, p, S)
                                 /\ Reached(port, down, p, S)' = Reached(port, down, p, S)
                                 /\ Answers(port, p, S)' = Answers(port, p, S)
  <2>1. \A n \in Node : Back(port, down, n, S)' = Back(port, down, n, S)
    BY <1>14 DEF Back
  <2>2. ASSUME NEW n \in Node, n # o PROVE Here(port, n, S)' = Here(port, n, S)
    <3>1. n \in Id  BY Places
    <3>2. QED  BY <1>13, <1>14, <2>2, <3>1 DEF Here
  <2>3. ASSUME NEW p \in Pool
        PROVE  /\ At(port, down, p, S)' = At(port, down, p, S)
               /\ Reached(port, down, p, S)' = Reached(port, down, p, S)
               /\ Answers(port, p, S)' = Answers(port, p, S)
    BY <1>14, <1>19 DEF At, Reached, Answers
  <2>4. QED  BY <2>1, <2>2, <2>3
<1>21. ASSUME NEW S
       PROVE  /\ Here(port, o, S)' + Copies(queue[o], S)
                 = Here(port, o, S) + Copies(s.queue, S) + Copies(extra, S)
              /\ Here(port, o, S)' \in Nat /\ Here(port, o, S) \in Nat
              /\ Copies(queue[o], S) \in Nat /\ Copies(s.queue, S) \in Nat
              /\ Copies(extra, S) \in Nat
  <2>1. /\ Copies(queue[o], S) \in Nat /\ Copies(up[o], S) \in Nat
        /\ Copies(port[o].ingress, S) \in Nat /\ Copies(port[o].ready, S) \in Nat
        /\ Here(port, o, S) \in Nat
    BY <1>1, <1>5, CountsAreNumbers
  <2>2. /\ Copies(s.queue, S) \in Nat /\ Copies(batch, S) \in Nat
        /\ Copies(Rest(s.queue, k), S) \in Nat /\ Copies(extra, S) \in Nat
    BY <1>7, <1>8, <1>10, CopiesNat
  <2>3. /\ Copies(s.queue, S) = Copies(batch, S) + Copies(Rest(s.queue, k), S)
        /\ Copies(up'[o], S) = Copies(up[o], S) + Copies(batch, S) + Copies(extra, S)
    BY <1>8, <1>15
  <2>4. Here(port, o, S)' = Copies(Rest(s.queue, k), S) + Copies(up'[o], S)
                              + Copies(port[o].ingress, S) + Copies(port[o].ready, S)
    BY <1>13, <1>14 DEF Here
  <2>5. Here(port, o, S) = Copies(queue[o], S) + Copies(up[o], S)
                              + Copies(port[o].ingress, S) + Copies(port[o].ready, S)
    BY DEF Here
  <2>6. Here(port, o, S)' = Copies(Rest(s.queue, k), S)
                              + (Copies(up[o], S) + Copies(batch, S) + Copies(extra, S))
                              + Copies(port[o].ingress, S) + Copies(port[o].ready, S)
    BY <2>3, <2>4
  <2>7. Here(port, o, S)' \in Nat  BY SMTT(40), <2>1, <2>2, <2>6
  <2>8. Here(port, o, S)' + Copies(queue[o], S)
        = Here(port, o, S) + Copies(s.queue, S) + Copies(extra, S)
    <3>1. Here(port, o, S)' + Copies(queue[o], S)
          = (Copies(queue[o], S) + Copies(up[o], S)
               + Copies(port[o].ingress, S) + Copies(port[o].ready, S))
              + (Copies(batch, S) + Copies(Rest(s.queue, k), S)) + Copies(extra, S)
      BY SMTT(40), <2>1, <2>2, <2>6
    <3>2. QED  BY <2>3, <2>5, <3>1
  <2>9. QED  BY <2>1, <2>2, <2>7, <2>8
<1>22. /\ \A b \in Block : Copies(s.queue, ReadOf(o, b)) + Flag(b \in waiting[o])
                           = Copies(queue[o], ReadOf(o, b)) + Flag(b \in s.waiting)
       /\ \A m \in Nat \ {0} : Copies(s.queue, WriteOf(o, m)) + Flag(m <= writes[o])
                               = Copies(queue[o], WriteOf(o, m)) + Flag(m <= s.writes)
       /\ Copies(s.queue, ResetOf(o)) = Copies(queue[o], ResetOf(o))
  <2>1. /\ NodeState(o).waiting = waiting[o] /\ NodeState(o).writes = writes[o]
        /\ NodeState(o).queue = queue[o]
    BY DEF NodeState
  <2>2. QED  BY <1>6, <2>1 DEF Worked
<1>23. ReadsCounted(port, down)'
  <2>1. SUFFICES ASSUME NEW n \in Node, NEW b \in Block
        PROVE  Here(port, n, ReadOf(n, b))' + SumOverPools(InPools(port, down, n, b)')
                 + Back(port, down, n, RspTo(n, b))' = Flag(b \in waiting'[n])
    BY DEF ReadsCounted, SumOverPools, Flag
  <2>2. /\ InPools(port, down, n, b)' = InPools(port, down, n, b)
        /\ Back(port, down, n, RspTo(n, b))' = Back(port, down, n, RspTo(n, b))
    BY <1>14, <1>20 DEF InPools, InPool
  <2>3. /\ Back(port, down, n, RspTo(n, b)) \in Nat
        /\ SumOverPools(InPools(port, down, n, b)) \in Nat
    <3>1. InPools(port, down, n, b) \in [Pool -> Nat]
      BY <1>1, PoolCountsAreNumbers
    <3>2. QED  BY <1>1, <3>1, CountsAreNumbers, SumAtLeast, Places
  <2>4. Here(port, n, ReadOf(n, b)) + SumOverPools(InPools(port, down, n, b))
          + Back(port, down, n, RspTo(n, b)) = Flag(b \in waiting[n])
    BY <1>1 DEF ReadsCounted
  <2>5. CASE n # o
    BY <1>13, <1>20, <2>2, <2>4, <2>5
  <2>6. CASE n = o
    <3>1. Copies(extra, ReadOf(o, b)) = 0  BY <1>9, <1>12, Apart
    <3>2. Flag(b \in waiting[o]) \in Nat /\ Flag(b \in s.waiting) \in Nat  BY DEF Flag
    <3>3. Here(port, o, ReadOf(o, b))' + Flag(b \in waiting[o])
          = Here(port, o, ReadOf(o, b)) + Flag(b \in s.waiting)
      <4>1. /\ Here(port, o, ReadOf(o, b))' + Copies(queue[o], ReadOf(o, b))
               = Here(port, o, ReadOf(o, b)) + Copies(s.queue, ReadOf(o, b))
                   + Copies(extra, ReadOf(o, b))
            /\ Here(port, o, ReadOf(o, b))' \in Nat /\ Here(port, o, ReadOf(o, b)) \in Nat
            /\ Copies(queue[o], ReadOf(o, b)) \in Nat
            /\ Copies(s.queue, ReadOf(o, b)) \in Nat
        BY <1>21
      <4>2. Copies(s.queue, ReadOf(o, b)) + Flag(b \in waiting[o])
            = Copies(queue[o], ReadOf(o, b)) + Flag(b \in s.waiting)
        BY <1>22
      <4>3. QED  BY SMTT(40), <3>1, <3>2, <4>1, <4>2
    <3>4. Flag(b \in waiting'[o]) = Flag(b \in s.waiting)  BY <1>13
    <3>5. Here(port, o, ReadOf(o, b))' \in Nat /\ Here(port, o, ReadOf(o, b)) \in Nat
      BY <1>21
    <3>6. QED  BY SMTT(40), <2>2, <2>3, <2>4, <2>6, <3>2, <3>3, <3>4, <3>5
  <2>7. QED  BY <2>5, <2>6
<1>24. ASSUME NEW n \in Node, NEW m \in Nat \ {0}
       PROVE  /\ Here(port, n, WriteOf(n, m))' + Flag(m <= writes[n])
                 = Here(port, n, WriteOf(n, m)) + Flag(m <= writes'[n])
              /\ Here(port, n, WriteOf(n, m))' \in Nat /\ Here(port, n, WriteOf(n, m)) \in Nat
  <2>1. Flag(m <= writes[n]) \in Nat /\ Flag(m <= writes'[n]) \in Nat  BY DEF Flag
  <2>2. CASE n # o
    <3>1. Here(port, n, WriteOf(n, m)) \in Nat  BY <1>1, CountsAreNumbers
    <3>2. QED  BY <1>13, <1>20, <2>1, <2>2, <3>1
  <2>3. CASE n = o
    <3>1. Copies(extra, WriteOf(o, m)) = 0  BY <1>9, <1>12, Apart
    <3>2. Flag(m <= writes'[o]) = Flag(m <= s.writes)  BY <1>13
    <3>3. /\ Copies(s.queue, WriteOf(o, m)) + Flag(m <= writes[o])
             = Copies(queue[o], WriteOf(o, m)) + Flag(m <= writes'[o])
          /\ Flag(m <= writes[o]) \in Nat /\ Flag(m <= writes'[o]) \in Nat
      BY <1>22, <2>1, <2>3, <3>2
    <3>4. /\ Here(port, o, WriteOf(o, m))' + Copies(queue[o], WriteOf(o, m))
             = Here(port, o, WriteOf(o, m)) + Copies(s.queue, WriteOf(o, m))
                 + Copies(extra, WriteOf(o, m))
          /\ Here(port, o, WriteOf(o, m))' \in Nat /\ Here(port, o, WriteOf(o, m)) \in Nat
          /\ Copies(queue[o], WriteOf(o, m)) \in Nat
          /\ Copies(s.queue, WriteOf(o, m)) \in Nat
      BY <1>21
    <3>5. Here(port, o, WriteOf(o, m))' + Flag(m <= writes[o])
          = Here(port, o, WriteOf(o, m)) + Flag(m <= writes'[o])
      BY SMTT(40), <3>1, <3>3, <3>4
    <3>6. QED  BY <2>3, <3>4, <3>5
  <2>4. QED  BY <2>2, <2>3
<1>25. WritesCounted(port, down)'
  <2>1. SUFFICES ASSUME NEW n \in Node, NEW m \in Nat \ {0}
        PROVE  IF ReplicateWrites
               THEN \A p \in Pool :
                      Here(port, n, WriteOf(n, m))' + Reached(port, down, p, WriteOf(n, m))'
                      = Flag(m <= writes'[n])
               ELSE Here(port, n, WriteOf(n, m))'
                      + SumOverPools(ReachedPools(port, down, WriteOf(n, m))')
                    = Flag(m <= writes'[n])
    BY DEF WritesCounted, SumOverPools, Flag
  <2>2. /\ Here(port, n, WriteOf(n, m))' + Flag(m <= writes[n])
           = Here(port, n, WriteOf(n, m)) + Flag(m <= writes'[n])
        /\ Here(port, n, WriteOf(n, m))' \in Nat /\ Here(port, n, WriteOf(n, m)) \in Nat
        /\ Flag(m <= writes[n]) \in Nat /\ Flag(m <= writes'[n]) \in Nat
    BY <1>24 DEF Flag
  <2>3. ASSUME NEW p \in Pool
        PROVE  /\ Reached(port, down, p, WriteOf(n, m))' = Reached(port, down, p, WriteOf(n, m))
               /\ Reached(port, down, p, WriteOf(n, m)) \in Nat
    BY <1>1, <1>20, CountsAreNumbers
  <2>4. ReachedPools(port, down, WriteOf(n, m))' = ReachedPools(port, down, WriteOf(n, m))
    BY <2>3 DEF ReachedPools
  <2>5. SumOverPools(ReachedPools(port, down, WriteOf(n, m))) \in Nat
    <3>1. ReachedPools(port, down, WriteOf(n, m)) \in [Pool -> Nat]
      BY <1>1, PoolCountsAreNumbers
    <3>2. QED  BY <3>1, SumAtLeast, Places
  <2>6. CASE ReplicateWrites
    <3>1. ASSUME NEW p \in Pool
          PROVE  Here(port, n, WriteOf(n, m))' + Reached(port, down, p, WriteOf(n, m))'
                 = Flag(m <= writes'[n])
      <4>1. Here(port, n, WriteOf(n, m)) + Reached(port, down, p, WriteOf(n, m))
            = Flag(m <= writes[n])
        BY <1>1, <2>6 DEF WritesCounted
      <4>2. QED  BY SMTT(40), <2>2, <2>3, <4>1
    <3>2. QED  BY <2>6, <3>1
  <2>7. CASE ~ ReplicateWrites
    <3>1. Here(port, n, WriteOf(n, m)) + SumOverPools(ReachedPools(port, down, WriteOf(n, m)))
          = Flag(m <= writes[n])
      BY <1>1, <2>7 DEF WritesCounted
    <3>2. QED  BY SMTT(40), <2>2, <2>4, <2>5, <2>7, <3>1
  <2>8. QED  BY <2>6, <2>7
<1>26. ResetsCounted(port, down)'
  <2>1. ASSUME NEW n \in Node, NEW p \in Pool
        PROVE  Here(port, n, ResetOf(n))' + Reached(port, down, p, ResetOf(n))'
               = Flag(warm'[n])
    <3>1. Here(port, n, ResetOf(n)) + Reached(port, down, p, ResetOf(n)) = Flag(warm[n])
      BY <1>1 DEF ResetsCounted
    <3>2. /\ Reached(port, down, p, ResetOf(n))' = Reached(port, down, p, ResetOf(n))
          /\ Reached(port, down, p, ResetOf(n)) \in Nat
      BY <1>1, <1>20, CountsAreNumbers
    <3>3. CASE n # o  BY <1>13, <1>20, <3>1, <3>2, <3>3
    <3>4. CASE n = o
      <4>1. Flag(warm[o]) \in Nat /\ Flag(done) \in Nat  BY DEF Flag
      <4>2. Here(port, o, ResetOf(o))' = Here(port, o, ResetOf(o)) + Copies(extra, ResetOf(o))
        <5>1. /\ Here(port, o, ResetOf(o))' + Copies(queue[o], ResetOf(o))
                 = Here(port, o, ResetOf(o)) + Copies(s.queue, ResetOf(o))
                     + Copies(extra, ResetOf(o))
              /\ Here(port, o, ResetOf(o))' \in Nat /\ Here(port, o, ResetOf(o)) \in Nat
              /\ Copies(queue[o], ResetOf(o)) \in Nat /\ Copies(extra, ResetOf(o)) \in Nat
          BY <1>21
        <5>2. Copies(s.queue, ResetOf(o)) = Copies(queue[o], ResetOf(o))  BY <1>22
        <5>3. QED  BY <5>1, <5>2
      <4>3. Flag(warm'[o]) = Flag(done)  BY <1>13
      <4>4. QED  BY <1>11, <1>21, <3>1, <3>2, <3>4, <4>1, <4>2, <4>3
    <3>5. QED  BY <3>3, <3>4
  <2>2. QED  BY <2>1 DEF ResetsCounted, Flag
<1>27. Accounts(port, down)'
  BY <1>1, <1>14, <1>19 DEF Accounts
<1>28. rr' \in 0 .. NumPools - 1  BY <1>1, <1>14
<1>29. QED  BY <1>16, <1>17, <1>18, <1>23, <1>25, <1>26, <1>27, <1>28 DEF IInv, SwitchInv

-----------------------------------------------------------------------------
(* A tick of a pool *)

\* The responses of the memory controller list the requests once each.
LEMMA Listed ==
  ASSUME NEW M, IsFiniteSet(M), NEW q \in SetToSeqs(M)
  PROVE  /\ q \in Seq(M) /\ Distinct(q) /\ Elements(q) = M
         /\ \A S : Copies(q, S) = Within(M, S)
<1> DEFINE n == Cardinality(M)
<1>1. n \in Nat  BY FS_CardinalityType
<1>2. q \in [1 .. n -> M] /\ \A i, j \in 1 .. n : i # j => q[i] # q[j]
  BY DEF SetToSeqs
<1> HIDE DEF n
<1>3. q \in Seq(M) /\ Len(q) = n  BY <1>1, <1>2
<1>4. Distinct(q)  BY <1>2, <1>3 DEF Distinct
<1>5. Elements(q) \subseteq M  BY <1>3, ElementsSubset
<1>6. IsFiniteSet(Elements(q)) /\ Copies(q, M) = Cardinality(M \cap Elements(q))
  BY <1>3, <1>4, CopiesDistinct
<1>7. Copies(q, M) = n
  <2>1. {i \in 1 .. Len(q) : q[i] \in M} = 1 .. n  BY <1>2, <1>3
  <2>2. Cardinality(1 .. n) = n  BY <1>1, FS_Interval
  <2>3. QED  BY <2>1, <2>2 DEF Copies
<1>8. M \cap Elements(q) = Elements(q)  BY <1>5
<1>9. Cardinality(Elements(q)) = Cardinality(M)  BY <1>6, <1>7, <1>8 DEF n
<1>10. Elements(q) = M  BY <1>5, <1>9, FS_Subset
<1>11. \A S : Copies(q, S) = Within(M, S)  BY <1>3, <1>4, <1>10, CopiesDistinct DEF Within
<1>12. QED  BY <1>3, <1>4, <1>10, <1>11

\* Of each request at most one copy is at a pool or has come to it.
LEMMA AtMostOne ==
  ASSUME IInv, NEW p \in Pool
  PROVE  /\ \A n \in Node, b \in Block :
              At(port, down, p, ReadOf(n, b)) + Copies(returned[p], ReadOf(n, b)) <= 1
         /\ \A n \in Node, k \in Nat \ {0} :
              Reached(port, down, p, WriteOf(n, k)) <= 1
         /\ \A n \in Node : Reached(port, down, p, ResetOf(n)) <= 1
<1>1. /\ SwitchTyped(port, down) /\ NodesTyped /\ PoolsTyped
      /\ ReadsCounted(port, down) /\ WritesCounted(port, down) /\ ResetsCounted(port, down)
  BY DEF IInv, SwitchInv
<1>2. \A x : Flag(x) \in Nat /\ Flag(x) <= 1  BY DEF Flag
<1>3. ASSUME NEW n \in Node, NEW b \in Block
      PROVE  At(port, down, p, ReadOf(n, b)) + Copies(returned[p], ReadOf(n, b)) <= 1
  <2> DEFINE f == InPools(port, down, n, b)
  <2>1. f \in [Pool -> Nat]  BY <1>1, PoolCountsAreNumbers
  <2>2. f[p] = InPool(port, down, p, n, b)  BY DEF InPools
  <2> HIDE DEF f
  <2>3. SumOverPools(f) \in Nat /\ f[p] <= SumOverPools(f) /\ f[p] \in Nat
    BY <2>1, SumAtLeast
  <2>4. /\ Here(port, n, ReadOf(n, b)) \in Nat /\ Back(port, down, n, RspTo(n, b)) \in Nat
    BY <1>1, CountsAreNumbers
  <2>5. Here(port, n, ReadOf(n, b)) + SumOverPools(f) + Back(port, down, n, RspTo(n, b)) <= 1
    BY <1>1, <1>2 DEF ReadsCounted, f
  <2>6. f[p] <= 1  BY <2>3, <2>4, <2>5
  <2>7. /\ At(port, down, p, ReadOf(n, b)) \in Nat
        /\ Copies(returned[p], ReadOf(n, b)) \in Nat
        /\ Answers(port, p, RspTo(n, b)) \in Nat
    BY <1>1, CountsAreNumbers
  <2>8. At(port, down, p, ReadOf(n, b)) + Copies(returned[p], ReadOf(n, b))
          + Answers(port, p, RspTo(n, b)) <= 1
    BY <2>2, <2>6 DEF InPool
  <2>9. QED  BY <2>7, <2>8
<1>4. ASSUME NEW n \in Node, NEW k \in Nat \ {0}
      PROVE  Reached(port, down, p, WriteOf(n, k)) <= 1
  <2> DEFINE f == ReachedPools(port, down, WriteOf(n, k))
             here == Here(port, n, WriteOf(n, k))
  <2>1. f \in [Pool -> Nat]  BY <1>1, PoolCountsAreNumbers
  <2>2. f[p] = Reached(port, down, p, WriteOf(n, k))  BY DEF ReachedPools
  <2>3. here \in Nat  BY <1>1, CountsAreNumbers
  <2>4. here + f[p] <= 1 \/ here + SumOverPools(f) <= 1
    BY <1>1, <1>2, <2>2 DEF WritesCounted
  <2> HIDE DEF f, here
  <2>5. SumOverPools(f) \in Nat /\ f[p] <= SumOverPools(f) /\ f[p] \in Nat
    BY <2>1, SumAtLeast
  <2>6. f[p] <= 1  BY <2>3, <2>4, <2>5
  <2>7. QED  BY <2>2, <2>6
<1>5. ASSUME NEW n \in Node
      PROVE  Reached(port, down, p, ResetOf(n)) <= 1
  <2>1. /\ Here(port, n, ResetOf(n)) \in Nat
        /\ Reached(port, down, p, ResetOf(n)) \in Nat
    BY <1>1, CountsAreNumbers
  <2>2. Here(port, n, ResetOf(n)) + Reached(port, down, p, ResetOf(n)) <= 1
    BY <1>1, <1>2 DEF ResetsCounted
  <2>3. QED  BY <2>1, <2>2
<1>6. QED  BY <1>3, <1>4, <1>5

\* What a class of requests has of e, or nothing.
LEMMA InSomeClass ==
  /\ \A e \in ReadMsg : \E n \in Node, b \in Block : e \in ReadOf(n, b)
  /\ \A e \in WriteMsg : \E n \in Node, k \in Nat \ {0} : e \in WriteOf(n, k)
  /\ \A e \in ResetMsg : \E n \in Node : e \in ResetOf(n)
<1>1. ASSUME NEW e \in ReadMsg PROVE \E n \in Node, b \in Block : e \in ReadOf(n, b)
  <2>1. e.src \in Node /\ e.block \in Block  BY DEF ReadMsg
  <2>2. QED  BY <2>1, InReadOf
<1>2. ASSUME NEW e \in WriteMsg
      PROVE  \E n \in Node, k \in Nat \ {0} : e \in WriteOf(n, k)
  <2>1. e.src \in Node /\ e.num \in Nat \ {0}  BY DEF WriteMsg
  <2>2. QED  BY <2>1, InWriteOf
<1>3. ASSUME NEW e \in ResetMsg PROVE \E n \in Node : e \in ResetOf(n)
  <2>1. e.src \in Node  BY DEF ResetMsg
  <2>2. QED  BY <2>1, InResetOf
<1>4. QED  BY <1>1, <1>2, <1>3

\* So nothing in a pool has a second copy there.
LEMMA PoolDistinct ==
  ASSUME IInv, NEW p \in Pool
  PROVE  /\ Distinct(returned[p])
         /\ Elements(returned[p]) \cap mem[p] = {}
         /\ mem[p] \cap performed[p] = {}
<1>1. SwitchTyped(port, down) /\ NodesTyped /\ PoolsTyped /\ PoolTyped(p)
  BY DEF IInv, SwitchInv, PoolsTyped
<1>2. /\ returned[p] \in Seq(ReadMsg \cap For(p)) /\ IsFiniteSet(mem[p])
      /\ IsFiniteSet(performed[p])
      /\ mem[p] \subseteq ReadMsg \cup WriteMsg
      /\ performed[p] \subseteq WriteMsg \cup ResetMsg
  BY <1>1 DEF PoolTyped
<1>3. p \in Id  BY Places
<1>4. ASSUME NEW S
      PROVE  /\ Copies(returned[p], S) \in Nat /\ Within(mem[p], S) \in Nat
             /\ Within(performed[p], S) \in Nat
             /\ At(port, down, p, S) >= Within(mem[p], S) /\ At(port, down, p, S) \in Nat
             /\ Reached(port, down, p, S) >= Within(mem[p], S) + Within(performed[p], S)
             /\ Reached(port, down, p, S) \in Nat
  <2>1. /\ Copies(returned[p], S) \in Nat /\ Within(mem[p], S) \in Nat
        /\ Within(performed[p], S) \in Nat
        /\ Copies(port[p].egress, S) \in Nat /\ Copies(down[p], S) \in Nat
        /\ Copies(switchPort[p].ingress, S) \in Nat
        /\ Copies(switchPort[p].ready, S) \in Nat
    BY <1>1, <1>3, CountsAreNumbers
  <2>2. At(port, down, p, S) >= Within(mem[p], S) /\ At(port, down, p, S) \in Nat
    BY <2>1 DEF At
  <2>3. QED  BY <2>1, <2>2 DEF Reached
<1>5. Distinct(returned[p])
  <2>1. ASSUME NEW e \in ReadMsg \cap For(p)
        PROVE  \E S : e \in S /\ Copies(returned[p], S) <= 1
    <3>1. PICK n \in Node, b \in Block : e \in ReadOf(n, b)  BY InSomeClass
    <3>2. At(port, down, p, ReadOf(n, b)) + Copies(returned[p], ReadOf(n, b)) <= 1
      BY AtMostOne
    <3>3. Copies(returned[p], ReadOf(n, b)) <= 1  BY <1>4, <3>2
    <3>4. QED  BY <3>1, <3>3
  <2>2. QED  BY <1>2, <2>1, CopiesOnce
<1>6. ASSUME NEW e \in Elements(returned[p]), e \in mem[p] PROVE FALSE
  <2>1. e \in ReadMsg  BY <1>2, ElementsSubset
  <2>2. PICK n \in Node, b \in Block : e \in ReadOf(n, b)  BY <2>1, InSomeClass
  <2>3. At(port, down, p, ReadOf(n, b)) + Copies(returned[p], ReadOf(n, b)) <= 1
    BY AtMostOne
  <2>4. Copies(returned[p], ReadOf(n, b)) >= 1  BY <1>2, <2>2, CopiesPositive
  <2>5. Within(mem[p], ReadOf(n, b)) >= 1  BY <1>2, <1>6, <2>2, WithinPositive
  <2>6. QED  BY <1>4, <2>3, <2>4, <2>5
<1>7. ASSUME NEW e \in mem[p], e \in performed[p] PROVE FALSE
  <2>1. e \in WriteMsg
    <3>1. (e \in ReadMsg \/ e \in WriteMsg) /\ (e \in WriteMsg \/ e \in ResetMsg)
      BY <1>2, <1>7
    <3>2. ~ (e \in ReadMsg /\ e \in ResetMsg)  BY DEF ReadMsg, ResetMsg
    <3>3. QED  BY <3>1, <3>2
  <2>2. PICK n \in Node, k \in Nat \ {0} : e \in WriteOf(n, k)  BY <2>1, InSomeClass
  <2>3. Reached(port, down, p, WriteOf(n, k)) <= 1  BY AtMostOne
  <2>4. Within(mem[p], WriteOf(n, k)) >= 1  BY <1>2, <2>2, WithinPositive
  <2>5. Within(performed[p], WriteOf(n, k)) >= 1  BY <1>2, <1>7, <2>2, WithinPositive
  <2>6. QED  BY <1>4, <2>3, <2>4, <2>5
<1>8. QED  BY <1>5, <1>6, <1>7

\* Nor has what waits at its port.
LEMMA WaitingFresh ==
  ASSUME IInv, NEW p \in Pool, NEW e \in Event,
         \A S : e \in S => Copies(switchPort[p].ingress, S)
                             + Copies(switchPort[p].ready, S) >= 1
  PROVE  e \notin mem[p] /\ e \notin performed[p]
<1>1. SwitchTyped(port, down) /\ NodesTyped /\ PoolsTyped /\ PoolTyped(p)
  BY DEF IInv, SwitchInv, PoolsTyped
<1>2. /\ IsFiniteSet(mem[p]) /\ IsFiniteSet(performed[p])
      /\ mem[p] \subseteq ReadMsg \cup WriteMsg
      /\ performed[p] \subseteq WriteMsg \cup ResetMsg
  BY <1>1 DEF PoolTyped
<1>3. p \in Id  BY Places
<1>4. ASSUME NEW S, e \in S
      PROVE  /\ At(port, down, p, S) >= 1 + Within(mem[p], S)
             /\ At(port, down, p, S) \in Nat
             /\ Reached(port, down, p, S) >= 1 + Within(mem[p], S) + Within(performed[p], S)
             /\ Within(mem[p], S) \in Nat /\ Within(performed[p], S) \in Nat
  <2>1. /\ Within(mem[p], S) \in Nat /\ Within(performed[p], S) \in Nat
        /\ Copies(port[p].egress, S) \in Nat /\ Copies(down[p], S) \in Nat
        /\ Copies(switchPort[p].ingress, S) \in Nat
        /\ Copies(switchPort[p].ready, S) \in Nat
    BY <1>1, <1>3, CountsAreNumbers
  <2>2. Copies(switchPort[p].ingress, S) + Copies(switchPort[p].ready, S) >= 1
    BY <1>4
  <2>3. At(port, down, p, S) >= 1 + Within(mem[p], S) /\ At(port, down, p, S) \in Nat
    BY <2>1, <2>2 DEF At
  <2>4. QED  BY <2>1, <2>3 DEF Reached
<1>5. ASSUME NEW S, e \in S, Reached(port, down, p, S) <= 1
      PROVE  e \notin mem[p] /\ e \notin performed[p]
  <2>1. e \in mem[p] => Within(mem[p], S) >= 1  BY <1>2, <1>5, WithinPositive
  <2>2. e \in performed[p] => Within(performed[p], S) >= 1  BY <1>2, <1>5, WithinPositive
  <2>3. /\ Reached(port, down, p, S) >= 1 + Within(mem[p], S) + Within(performed[p], S)
        /\ Within(mem[p], S) \in Nat /\ Within(performed[p], S) \in Nat
    BY <1>4, <1>5
  <2>4. Reached(port, down, p, S) \in Nat
    <3>1. At(port, down, p, S) \in Nat  BY <1>4, <1>5
    <3>2. QED  BY <2>3, <3>1 DEF Reached
  <2>5. QED  BY <1>5, <2>1, <2>2, <2>3, <2>4
<1>6. CASE e \in ReadMsg
  <2>1. PICK n \in Node, b \in Block : e \in ReadOf(n, b)  BY <1>6, InSomeClass
  <2>2. /\ At(port, down, p, ReadOf(n, b)) + Copies(returned[p], ReadOf(n, b)) <= 1
        /\ Copies(returned[p], ReadOf(n, b)) \in Nat
    BY <1>1, AtMostOne, CountsAreNumbers
  <2>3. Within(mem[p], ReadOf(n, b)) \in Nat /\ Within(mem[p], ReadOf(n, b)) < 1
    BY <1>4, <2>1, <2>2
  <2>4. e \notin mem[p]  BY <1>2, <2>1, <2>3, WithinPositive
  <2>5. e \notin performed[p]
    <3>1. e \notin WriteMsg /\ e \notin ResetMsg  BY <1>6 DEF ReadMsg, WriteMsg, ResetMsg
    <3>2. QED  BY <1>2, <3>1
  <2>6. QED  BY <2>4, <2>5
<1>7. CASE e \in WriteMsg
  <2>1. PICK n \in Node, k \in Nat \ {0} : e \in WriteOf(n, k)  BY <1>7, InSomeClass
  <2>2. QED  BY <1>5, <2>1, AtMostOne
<1>8. CASE e \in ResetMsg
  <2>1. PICK n \in Node : e \in ResetOf(n)  BY <1>8, InSomeClass
  <2>2. QED  BY <1>5, <2>1, AtMostOne
<1>9. CASE e \in RspMsg
  <2>1. e \notin ReadMsg /\ e \notin WriteMsg /\ e \notin ResetMsg
    BY <1>9 DEF ReadMsg, WriteMsg, ResetMsg, RspMsg
  <2>2. QED  BY <1>2, <2>1
<1>10. QED  BY <1>6, <1>7, <1>8, <1>9 DEF Event, Request

\* A response for each request that is sent, in the same order.
LEMMA ResponsesMatch ==
  ASSUME NEW p \in Pool, NEW sent \in Seq(ReadMsg), Elements(sent) \subseteq pending[p]
  PROVE  /\ ResponsesTo(p, sent) \in Seq(From(p))
         /\ Len(ResponsesTo(p, sent)) = Len(sent)
         /\ \A n \in Node, b \in Block :
              Copies(ResponsesTo(p, sent), RspTo(n, b)) = Copies(sent, ReadOf(n, b))
<1> DEFINE N == Len(sent)
           known == {i \in 1 .. N : sent[i] \in pending[p]}
           nth(j) == CHOOSE i \in known : Cardinality({x \in known : x <= i}) = j
           R == ResponsesTo(p, sent)
<1>1. R = [j \in 1 .. Cardinality(known) |->
             Response(p, sent[nth(j)].src, sent[nth(j)].block)]
  BY DEF ResponsesTo
<1>2. N \in Nat /\ \A i \in 1 .. N : sent[i] \in ReadMsg  BY LenProperties, ElementOfSeq
<1>3. known = 1 .. N
  <2>1. \A i \in 1 .. N : sent[i] \in Elements(sent)  BY DEF Elements
  <2>2. QED  BY <2>1
<1>4. Cardinality(known) = N
  <2> HIDE DEF N, known
  <2>1. Cardinality(1 .. N) = N  BY <1>2, FS_Interval
  <2>2. QED  BY <1>3, <2>1
<1>5. ASSUME NEW j \in 1 .. N PROVE nth(j) = j
  <2>1. ASSUME NEW i \in known PROVE Cardinality({x \in known : x <= i}) = i
    <3>1. {x \in known : x <= i} = 1 .. i /\ i \in Nat  BY <1>2, <1>3, <2>1
    <3>2. Cardinality(1 .. i) = i  BY <3>1, FS_Interval
    <3>3. QED  BY <3>1, <3>2
  <2>2. j \in known  BY <1>3
  <2> HIDE DEF known
  <2>3. QED  BY <2>1, <2>2
<1> HIDE DEF nth
<1>6. R = [j \in 1 .. N |-> Response(p, sent[j].src, sent[j].block)]
  BY <1>1, <1>4, <1>5
<1> HIDE DEF R
<1>7. ASSUME NEW j \in 1 .. N
      PROVE  /\ R[j] \in RspMsg /\ R[j].src = p
             /\ R[j].dst = sent[j].src /\ R[j].block = sent[j].block
  <2>1. sent[j].src \in Node /\ sent[j].block \in Block  BY <1>2 DEF ReadMsg
  <2>2. R[j] = Response(p, sent[j].src, sent[j].block)  BY <1>6
  <2>3. QED  BY <2>1, <2>2 DEF Response, RspMsg
<1>8. R \in Seq(From(p)) /\ Len(R) = N
  <2>1. \A j \in 1 .. N : R[j] \in From(p)  BY <1>7 DEF From, Event
  <2>2. QED  BY <1>2, <1>6, <2>1
<1>9. ASSUME NEW n \in Node, NEW b \in Block
      PROVE  Copies(R, RspTo(n, b)) = Copies(sent, ReadOf(n, b))
  <2>1. ASSUME NEW j \in 1 .. N PROVE R[j] \in RspTo(n, b) <=> sent[j] \in ReadOf(n, b)
    BY <1>2, <1>7, InReadOf, InRspTo
  <2>2. {j \in 1 .. Len(R) : R[j] \in RspTo(n, b)}
        = {j \in 1 .. Len(sent) : sent[j] \in ReadOf(n, b)}
    BY <1>8, <2>1
  <2>3. QED  BY <2>2 DEF Copies
<1>10. QED  BY <1>8, <1>9 DEF R

\* try_send_response keeps the egress queue within its size.
LEMMA SendableFits ==
  ASSUME NEW size \in Nat, NEW In, NEW Out, NEW t \in PortOf(size, In, Out),
         NEW T, NEW q \in Seq(T), size = 0 \/ Len(t.egress) <= size
  PROVE  /\ Sendable(t, q) \in 0 .. Len(q)
         /\ size = 0 \/ Len(t.egress) + Sendable(t, q) <= size
<1>1. t.size = size /\ t.egress \in Seq(Out) /\ (Unlimited(t) <=> size = 0)
  BY PortFields
<1>2. Len(t.egress) \in Nat /\ Len(q) \in Nat  BY <1>1, LenProperties
<1>3. CASE size = 0 \/ Len(q) <= size - Len(t.egress)
  <2>1. Sendable(t, q) = Len(q)  BY <1>1, <1>3 DEF Sendable
  <2>2. QED  BY <1>2, <1>3, <2>1
<1>4. CASE ~ (size = 0 \/ Len(q) <= size - Len(t.egress))
  <2>1. Sendable(t, q) = size - Len(t.egress)  BY <1>1, <1>4 DEF Sendable
  <2>2. QED  BY <1>2, <1>4, <2>1
<1>5. QED  BY <1>3, <1>4

\* Credit comes from the component that took the event.
LEMMA CreditFrom ==
  ASSUME NEW i \in Id, NEW ev \in Event
  PROVE  CreditFor(i, ev) \in Seq(ItemFrom(i))
<1> DEFINE c == [type |-> "credit", src |-> i, dst |-> ev.src, bytes |-> CreditBytes(ev)]
           T == ItemFrom(i)
<1>1. CreditFor(i, ev) = << >> \/ CreditFor(i, ev) = <<c>>  BY DEF CreditFor
<1>2. CreditFor(i, ev) \in Seq(CreditMsg)  BY CreditReturned
<1>3. c.src = i  OBVIOUS
<1> HIDE DEF c
<1>4. ASSUME CreditFor(i, ev) = <<c>> PROVE c \in T
  <2>1. <<c>> \in Seq(CreditMsg) /\ Len(<<c>>) = 1  BY <1>2, <1>4
  <2>2. c \in CreditMsg  BY <2>1, ElementOfSeq
  <2>3. QED  BY <1>3, <2>2 DEF ItemFrom, Item
<1> HIDE DEF T
<1>5. << >> \in Seq(T)  OBVIOUS
<1>6. c \in T => <<c>> \in Seq(T)  OBVIOUS
<1>7. CreditFor(i, ev) \in Seq(T)  BY <1>1, <1>4, <1>5, <1>6
<1>8. QED  BY <1>7 DEF T

\* The handler takes one request, or none.
TakenFor(i, In, ready, taken, credit) ==
  /\ taken \in Seq(In) /\ Rest(ready, Len(taken)) \in Seq(In)
  /\ IsFiniteSet(Elements(taken)) /\ Elements(taken) \subseteq In
  /\ \A S : Copies(ready, S)
            = Within(Elements(taken), S) + Copies(Rest(ready, Len(taken)), S)
  /\ \A e \in Elements(taken) : \A S : e \in S => Copies(ready, S) >= 1
  /\ credit \in Seq(CreditMsg) /\ credit \in Seq(ItemFrom(i))
  /\ Bytes(credit) = 0 /\ Owed(credit) \in Nat
  /\ Bytes(ready) = Bytes(Rest(ready, Len(taken))) + Owed(credit)
  /\ \A S : S \cap CreditMsg = {} => Copies(credit, S) = 0

CreditOf(i, taken) == IF taken = << >> THEN << >> ELSE CreditFor(i, Head(taken))

LEMMA TakenOne ==
  ASSUME NEW In, In \subseteq Event, NEW ready \in Seq(In), NEW i \in Id
  PROVE  TakenFor(i, In, ready, TakenFrom(ready), CreditOf(i, TakenFrom(ready)))
<1> DEFINE taken == TakenFrom(ready)
           credit == CreditOf(i, taken)
<1> DEFINE n == IF ready = << >> THEN 0 ELSE 1
<1>1. taken = First(ready, n) /\ Len(ready) \in Nat /\ n \in 0 .. Len(ready)
  <2>1. Len(ready) \in Nat /\ (ready # << >> => Len(ready) >= 1)
    BY LenProperties, EmptySeq
  <2>2. n \in 0 .. Len(ready)  BY <2>1
  <2>3. QED  BY <2>1, <2>2 DEF TakenFrom
<1> HIDE DEF n, taken
<1>2. /\ taken \in Seq(In) /\ Rest(ready, n) \in Seq(In) /\ Len(taken) = n
      /\ \A S : Copies(ready, S) = Copies(taken, S) + Copies(Rest(ready, n), S)
  BY <1>1, CopiesSplit
<1>3. Distinct(taken)  BY <1>2 DEF Distinct, n
<1>4. /\ IsFiniteSet(Elements(taken))
      /\ \A S : Copies(taken, S) = Within(Elements(taken), S)
  BY <1>2, <1>3, CopiesDistinct DEF Within
<1>5. Elements(taken) \subseteq In  BY <1>2, ElementsSubset
<1>6. ASSUME NEW e \in Elements(taken), NEW S, e \in S PROVE Copies(ready, S) >= 1
  <2>1. Copies(taken, S) \in Nat /\ Copies(taken, S) >= 1  BY <1>2, <1>6, CopiesPositive
  <2>2. Copies(Rest(ready, n), S) \in Nat  BY <1>2, CopiesNat
  <2>3. QED  BY <1>2, <2>1, <2>2
<1>7. Seq(In) \subseteq Seq(Item)
  <2>1. In \subseteq Item  BY DEF Item
  <2>2. QED  BY <2>1, SeqMonotonic
<1>8. Bytes(ready) = Bytes(taken) + Bytes(Rest(ready, n))
  BY <1>1, <1>7, BytesSplit
<1>9. Bytes(taken) \in Nat /\ Bytes(Rest(ready, n)) \in Nat  BY <1>2, <1>7, BytesNat
<1>10. /\ taken \in Seq(In) /\ Rest(ready, Len(taken)) \in Seq(In)
       /\ Rest(ready, Len(taken)) = Rest(ready, n)
       /\ IsFiniteSet(Elements(taken)) /\ Elements(taken) \subseteq In
       /\ \A S : Copies(ready, S)
                 = Within(Elements(taken), S) + Copies(Rest(ready, Len(taken)), S)
       /\ \A e \in Elements(taken) : \A S : e \in S => Copies(ready, S) >= 1
  BY <1>2, <1>4, <1>5, <1>6
<1>a. /\ taken = << >> => credit = << >>
      /\ taken # << >> => credit = CreditFor(i, Head(taken))
  BY DEF CreditOf
<1> HIDE DEF credit
<1>11. ASSUME ready = << >> PROVE TakenFor(i, In, ready, taken, credit)
  <2>1. taken = << >>  BY <1>2, <1>11, EmptySeq DEF n
  <2>2. credit = << >>  BY <1>a, <2>1
  <2>3. Bytes(taken) = 0  BY <2>1, BytesEmpty
  <2>4. /\ credit \in Seq(CreditMsg) /\ credit \in Seq(ItemFrom(i))
        /\ Bytes(credit) = 0 /\ Owed(credit) = 0
    <3>1. << >> \in Seq(CreditMsg) /\ << >> \in Seq(ItemFrom(i))  OBVIOUS
    <3>2. QED  BY <2>2, <3>1, BytesEmpty
  <2>5. \A S : Copies(credit, S) = 0  BY <2>2, CopiesEmpty
  <2>6. Bytes(ready) = Bytes(Rest(ready, n)) + Owed(credit)  BY <1>8, <1>9, <2>3, <2>4
  <2>7. QED  BY <1>10, <2>4, <2>5, <2>6 DEF TakenFor
<1>12. ASSUME ready # << >> PROVE TakenFor(i, In, ready, taken, credit)
  <2> DEFINE ev == Head(taken)
  <2>1. taken # << >> /\ ev \in In /\ Tail(taken) = << >>
    <3>1. taken \in Seq(In) /\ Len(taken) = 1  BY <1>2, <1>12 DEF n
    <3>2. taken # << >>  BY <3>1, EmptySeq
    <3>3. /\ ev \in In /\ Tail(taken) \in Seq(In) /\ Len(Tail(taken)) = 0
      BY <3>1, <3>2, HeadTailProperties
    <3>4. QED  BY <3>2, <3>3, EmptySeq
  <2>2. Bytes(taken) = Bytes(<<ev>>) + Bytes(Tail(taken))
    BY <1>2, <1>7, <2>1, BytesTail
  <2>a. credit = CreditFor(i, ev)  BY <1>a, <2>1
  <2> HIDE DEF ev
  <2>3. credit = CreditFor(i, ev) /\ ev \in Event /\ ev \in Item  BY <2>a, <2>1 DEF Item
  <2>4. /\ credit \in Seq(CreditMsg) /\ Bytes(credit) = 0 /\ Owed(credit) = CreditBytes(ev)
        /\ CreditBytes(ev) \in Nat
        /\ \A S : S \cap CreditMsg = {} => Copies(credit, S) = 0
    BY <2>3, CreditReturned
  <2>5. credit \in Seq(ItemFrom(i))
    <3>1. CreditFor(i, ev) \in Seq(ItemFrom(i))
      <4>1. ev \in Event  BY <2>3
      <4>2. QED  BY <4>1, CreditFrom, Zenon
    <3>2. QED  BY <2>3, <3>1, Zenon
  <2>6. Bytes(taken) = CreditBytes(ev)
    <3>1. Bytes(Tail(taken)) = 0
      <4>1. Tail(taken) = << >>  BY <2>1
      <4>2. QED  BY <4>1, BytesEmpty
    <3>2. Bytes(<<ev>>) = CreditBytes(ev)
      <4>1. ev \in Event /\ ev \in Item  BY <2>3
      <4>2. QED  BY <4>1, BytesOne
    <3>3. CreditBytes(ev) \in Nat  BY <2>4
    <3>4. QED  BY <2>2, <3>1, <3>2, <3>3
  <2>7. Bytes(ready) = Bytes(Rest(ready, n)) + Owed(credit)  BY <1>8, <1>9, <2>4, <2>6
  <2>8. QED  BY <1>10, <2>4, <2>5, <2>7 DEF TakenFor
<1>13. QED  BY <1>11, <1>12 DEF taken, credit

\* What the memory controller is done with, reads and others.
LEMMA DoneSplit ==
  ASSUME NEW M, IsFiniteSet(M), M \subseteq ReadMsg \cup WriteMsg, NEW done \in SUBSET M
  PROVE  /\ IsFiniteSet(M \ done) /\ IsFiniteSet(Reads(done))
         /\ IsFiniteSet(done \ Reads(done))
         /\ Reads(done) \subseteq ReadMsg /\ done \ Reads(done) \subseteq WriteMsg
         /\ \A S : /\ Within(M, S) = Within(M \ done, S) + Within(Reads(done), S)
                                       + Within(done \ Reads(done), S)
                   /\ Within(M \ done, S) \in Nat /\ Within(Reads(done), S) \in Nat
                   /\ Within(done \ Reads(done), S) \in Nat
                   /\ S \cap ReadMsg = {} => Within(Reads(done), S) = 0
                   /\ S \subseteq ReadMsg => Within(done \ Reads(done), S) = 0
<1> DEFINE left == M \ done
           reads == Reads(done)
           others == done \ reads
<1>1. IsFiniteSet(left) /\ IsFiniteSet(reads) /\ IsFiniteSet(others) /\ IsFiniteSet(done)
  <2>1. left \subseteq M /\ reads \subseteq M /\ others \subseteq M /\ done \subseteq M
    BY DEF Reads
  <2>2. QED  BY <2>1, FS_Subset
<1>2. /\ \A e \in ReadMsg : e.type = "read"
      /\ \A e \in WriteMsg : e.type = "write"
  BY DEF ReadMsg, WriteMsg
<1>3. reads \subseteq ReadMsg /\ others \subseteq WriteMsg
  BY <1>2 DEF Reads
<1>4. ReadMsg \cap WriteMsg = {}  BY <1>2
<1>5. M = left \cup done /\ left \cap done = {} /\ done = reads \cup others /\ reads \cap others = {}
  BY DEF Reads
<1> HIDE DEF left, reads, others
<1>6. ASSUME NEW S
      PROVE  /\ Within(M, S) = Within(left, S) + Within(reads, S) + Within(others, S)
             /\ Within(left, S) \in Nat /\ Within(reads, S) \in Nat
             /\ Within(others, S) \in Nat
  <2>1. Within(left \cup done, S) = Within(left, S) + Within(done, S)
    BY <1>1, <1>5, WithinUnion
  <2>2. Within(reads \cup others, S) = Within(reads, S) + Within(others, S)
    BY <1>1, <1>5, WithinUnion
  <2>3. Within(left, S) \in Nat /\ Within(reads, S) \in Nat /\ Within(others, S) \in Nat
    BY <1>1, WithinNat
  <2>4. QED  BY <1>5, <2>1, <2>2, <2>3
<1>7. ASSUME NEW S, S \cap ReadMsg = {} PROVE Within(reads, S) = 0
  <2>1. S \cap reads = {}  BY <1>3, <1>7
  <2>2. QED  BY <2>1, FS_EmptySet DEF Within
<1>8. ASSUME NEW S, S \subseteq ReadMsg PROVE Within(others, S) = 0
  <2>1. S \cap others = {}  BY <1>3, <1>4, <1>8
  <2>2. QED  BY <2>1, FS_EmptySet DEF Within
<1>9. QED  BY <1>1, <1>3, <1>6, <1>7, <1>8 DEF left, reads, others

-----------------------------------------------------------------------------
(* The work of a pool *)

\* tick() of the port of a pool.
LEMMA PoolTicked ==
  ASSUME IInv, NEW o \in Pool, NEW batch \in Batches(switchPort[o])
  PROVE  LET q == switchPort[o]
             t == Ticked(q, batch)
             d == Drained(q)
         IN  /\ t \in PortOf(PoolQueue, For(o), From(o))
             /\ t.ingress \in Seq(For(o)) /\ t.ready \in Seq(For(o))
             /\ t.egress \in Seq(From(o)) /\ d \in Seq(From(o))
             /\ PoolQueue = 0 \/ Len(t.egress) <= PoolQueue
             /\ \A S : /\ Copies(t.ingress, S) + Copies(t.ready, S)
                          = Copies(q.ingress, S) + Copies(q.ready, S)
                       /\ Copies(d, S) + Copies(t.egress, S) = Copies(q.egress, S)
                       /\ Copies(t.ingress, S) \in Nat /\ Copies(t.ready, S) \in Nat
                       /\ Copies(t.egress, S) \in Nat /\ Copies(d, S) \in Nat
             /\ Bytes(t.ingress) + Bytes(t.ready) = Bytes(q.ingress) + Bytes(q.ready)
             /\ PoolQueue # 0 => t.credits + Bytes(d) = q.credits
             /\ t.credits \in Nat
<1> DEFINE q == switchPort[o]
           In == For(o)
           Out == From(o)
           t == Ticked(q, batch)
           d == Drained(q)
<1>1. /\ q \in PortOf(PoolQueue, In, Out) /\ In \subseteq Event /\ Out \subseteq Event
      /\ PoolQueue = 0 \/ Len(q.egress) <= PoolQueue
      /\ batch \in Batches(q)
  BY DEF IInv, PoolsTyped, PoolTyped, For, From
<1> HIDE DEF q, In, Out
<1>2. /\ t \in PortOf(PoolQueue, In, Out) /\ d \in Seq(Out)
      /\ \A S : Copies(t.ingress, S) + Copies(t.ready, S)
                = Copies(q.ingress, S) + Copies(q.ready, S)
      /\ \A S : Copies(d, S) + Copies(t.egress, S) = Copies(q.egress, S)
      /\ Bytes(t.ingress) + Bytes(t.ready) = Bytes(q.ingress) + Bytes(q.ready)
      /\ PoolQueue # 0 => t.credits + Bytes(d) = q.credits
  BY <1>1, PoolAssumption, TickedPort
<1>3. Len(t.egress) <= Len(q.egress)
  <2>1. PICK k \in 0 .. Len(q.egress) : d = First(q.egress, k)
    BY <1>1, PoolAssumption, DrainedPrefix
  <2>2. q.egress \in Seq(Out)  BY <1>1, PoolAssumption, PortFields
  <2>3. Len(q.egress) \in Nat  BY <2>2, LenProperties
  <2>4. Len(d) = k  BY <2>1, <2>2, CopiesSplit
  <2>5. t.egress = Rest(q.egress, k)  BY <1>1, <2>4 DEF Ticked, PortOf
  <2>6. Len(Rest(q.egress, k)) = Len(q.egress) - k
    BY <2>2, <2>3, SubSeqProperties, ElementOfSeq DEF Rest
  <2>7. QED  BY <2>3, <2>5, <2>6
<1>4. /\ t.ingress \in Seq(In) /\ t.ready \in Seq(In) /\ t.egress \in Seq(Out)
      /\ t.credits \in Nat
  <2> HIDE DEF t
  <2>1. QED  BY <1>2, PoolAssumption, PortFields
<1>5. PoolQueue = 0 \/ Len(t.egress) <= PoolQueue
  <2>1. q.egress \in Seq(Out)  BY <1>1, PoolAssumption, PortFields
  <2>2. Len(q.egress) \in Nat /\ Len(t.egress) \in Nat  BY <1>4, <2>1, LenProperties
  <2> HIDE DEF t
  <2>3. QED  BY <1>1, <1>3, <2>2, PoolAssumption
<1> HIDE DEF t, d
<1>6. \A S : /\ Copies(t.ingress, S) \in Nat /\ Copies(t.ready, S) \in Nat
             /\ Copies(t.egress, S) \in Nat /\ Copies(d, S) \in Nat
  BY <1>2, <1>4, CopiesNat
<1>7. QED  BY <1>2, <1>4, <1>5, <1>6 DEF q, In, Out, t, d

\* What the pool sends of the responses it has, and what stays.
Sent(o, done, sent, back) ==
  /\ sent \in Seq(ReadMsg) /\ back \in Seq(ReadMsg \cap For(o))
  /\ Elements(sent) \subseteq pending[o]
  /\ \A S : Copies(returned[o], S) + Within(Reads(done), S)
            = Copies(sent, S) + Copies(back, S)
  /\ pending[o] \ Elements(sent) = Reads(mem[o] \ done) \cup Elements(back)

LEMMA PoolSends ==
  ASSUME IInv, NEW o \in Pool, NEW done \in SUBSET mem[o],
         NEW responses \in SetToSeqs(Reads(done)),
         NEW k \in 0 .. Len(returned[o] \o responses)
  PROVE  /\ Sent(o, done, First(returned[o] \o responses, k),
                  Rest(returned[o] \o responses, k))
         /\ Len(First(returned[o] \o responses, k)) = k
<1> DEFINE T == ReadMsg \cap For(o)
           r == returned[o]
           M == mem[o]
           D == Reads(done)
           q == returned[o] \o responses
           sent == First(q, k)
           back == Rest(q, k)
<1>1. /\ r \in Seq(T) /\ Distinct(r) /\ Elements(r) \cap M = {} /\ IsFiniteSet(M)
      /\ M \subseteq (ReadMsg \cup WriteMsg) \cap For(o)
      /\ pending[o] = Reads(M) \cup Elements(r)
  <2>1. PoolTyped(o)  BY DEF IInv, PoolsTyped
  <2>2. QED  BY <2>1, PoolDistinct DEF PoolTyped
<1>2. D \subseteq T /\ D \subseteq M /\ IsFiniteSet(D) /\ Reads(M) = Reads(M \ done) \cup D
  <2>1. \A e \in WriteMsg : e.type # "read"  BY DEF WriteMsg
  <2>2. D \subseteq T /\ D \subseteq M  BY <1>1, <2>1 DEF Reads
  <2>3. IsFiniteSet(D)  BY <1>1, <2>2, FS_Subset
  <2>4. Reads(M) = Reads(M \ done) \cup D  BY DEF Reads
  <2>5. QED  BY <2>2, <2>3, <2>4
<1>3. /\ responses \in Seq(T) /\ Distinct(responses) /\ Elements(responses) = D
      /\ \A S : Copies(responses, S) = Within(D, S)
  <2>1. responses \in SetToSeqs(D)  OBVIOUS
  <2> HIDE DEF D, T
  <2>2. /\ responses \in Seq(D) /\ Distinct(responses) /\ Elements(responses) = D
        /\ \A S : Copies(responses, S) = Within(D, S)
    BY <1>2, <2>1, Listed
  <2>3. QED  BY <1>2, <2>2, SeqMonotonic
<1>4. /\ q \in Seq(T) /\ Distinct(q) /\ Elements(q) = Elements(r) \cup D
      /\ \A S : Copies(q, S) = Copies(r, S) + Within(D, S)
  <2>1. Elements(r) \cap Elements(responses) = {}  BY <1>1, <1>2, <1>3
  <2>2. q = r \o responses  OBVIOUS
  <2> HIDE DEF q, r, T, D, M
  <2>3. /\ r \o responses \in Seq(T) /\ Distinct(r \o responses)
        /\ Elements(r \o responses) = Elements(r) \cup Elements(responses)
    BY <1>1, <1>3, <2>1, ElementsConcat
  <2>4. \A S : Copies(r \o responses, S) = Copies(r, S) + Copies(responses, S)
    BY <1>1, <1>3, CopiesConcat
  <2>5. QED  BY <1>3, <2>2, <2>3, <2>4
<1>5. k \in 0 .. Len(q)  OBVIOUS
<1> HIDE DEF q, T
<1>6. /\ sent \in Seq(T) /\ back \in Seq(T) /\ Len(sent) = k
      /\ Elements(sent) \cup Elements(back) = Elements(q)
      /\ Elements(sent) \cap Elements(back) = {}
  BY <1>4, <1>5, ElementsSplit
<1>7. \A S : Copies(q, S) = Copies(sent, S) + Copies(back, S)
  BY <1>4, <1>5, CopiesSplit
<1> HIDE DEF sent, back
<1>8. Elements(sent) \subseteq pending[o]
  BY <1>1, <1>2, <1>4, <1>6
<1>9. pending[o] \ Elements(sent) = Reads(M \ done) \cup Elements(back)
  <2>1. Elements(r) \cap Reads(M \ done) = {} /\ D \cap Reads(M \ done) = {}
    BY <1>1 DEF Reads
  <2> HIDE DEF r, D, M
  <2>2. QED  BY <1>1, <1>2, <1>4, <1>6, <2>1
<1>10. sent \in Seq(ReadMsg)
  <2>1. T \subseteq ReadMsg  BY DEF T
  <2>2. QED  BY <1>6, <2>1, SeqMonotonic
<1>11. QED
  BY <1>4, <1>6, <1>7, <1>8, <1>9, <1>10 DEF sent, back, q, T, Sent

\* What the pool takes is new to it.
NewTo(o, done, E, new, resets, others) ==
  /\ IsFiniteSet((mem[o] \ done) \cup new)
  /\ (mem[o] \ done) \cup new \subseteq (ReadMsg \cup WriteMsg) \cap For(o)
  /\ IsFiniteSet(performed[o] \cup others \cup resets)
  /\ performed[o] \cup others \cup resets \subseteq WriteMsg \cup ResetMsg
  /\ Reads((mem[o] \ done) \cup new) = Reads(mem[o] \ done) \cup Reads(E)
  /\ \A S : /\ Within(E, S) = Within(new, S) + Within(resets, S)
            /\ Within(new, S) \in Nat /\ Within(resets, S) \in Nat
            /\ S \subseteq ReadMsg => Within(resets, S) = 0
            /\ Within((mem[o] \ done) \cup new, S)
               = Within(mem[o] \ done, S) + Within(new, S)
            /\ Within(performed[o] \cup others \cup resets, S)
               = Within(performed[o], S) + Within(others, S) + Within(resets, S)

LEMMA PoolTakes ==
  ASSUME IInv, NEW o \in Pool, NEW batch \in Batches(switchPort[o]),
         NEW done \in SUBSET mem[o],
         NEW E, IsFiniteSet(E), E \subseteq For(o),
         \A e \in E : \A S : e \in S =>
            Copies(Ticked(switchPort[o], batch).ready, S) >= 1
  PROVE  NewTo(o, done, E, {ev \in E : ev.type # "reset"},
               {ev \in E : ev.type = "reset"}, done \ Reads(done))
<1> DEFINE q == switchPort[o]
           t == Ticked(q, batch)
           new == {ev \in E : ev.type # "reset"}
           resets == {ev \in E : ev.type = "reset"}
           others == done \ Reads(done)
           left == mem[o] \ done
           past == performed[o]
<1>1. SwitchTyped(port, down) /\ NodesTyped /\ PoolsTyped /\ PoolTyped(o)
  BY DEF IInv, SwitchInv, PoolsTyped
<1>2. /\ q \in PortOf(PoolQueue, For(o), From(o))
      /\ IsFiniteSet(mem[o]) /\ IsFiniteSet(past)
      /\ mem[o] \subseteq (ReadMsg \cup WriteMsg) \cap For(o)
      /\ past \subseteq WriteMsg \cup ResetMsg
      /\ mem[o] \cap past = {}
  BY <1>1, PoolDistinct DEF PoolTyped
<1>3. /\ IsFiniteSet(left) /\ IsFiniteSet(others) /\ others \subseteq WriteMsg
      /\ others \subseteq mem[o] /\ left \subseteq mem[o] /\ left \cap others = {}
  <2> DEFINE M == mem[o]
  <2>1. IsFiniteSet(M) /\ M \subseteq ReadMsg \cup WriteMsg /\ done \in SUBSET M
    BY <1>2
  <2> HIDE DEF M
  <2>2. IsFiniteSet(M \ done) /\ IsFiniteSet(done \ Reads(done))
        /\ done \ Reads(done) \subseteq WriteMsg
    BY <2>1, DoneSplit
  <2>3. QED  BY <2>2 DEF M
<1>4. ASSUME NEW e \in E
      PROVE  e \notin mem[o] /\ e \notin past
  <2>1. e \in Event  BY DEF For
  <2>2. ASSUME NEW S, e \in S
        PROVE  Copies(q.ingress, S) + Copies(q.ready, S) >= 1
    <3>1. Copies(t.ingress, S) + Copies(t.ready, S) = Copies(q.ingress, S) + Copies(q.ready, S)
      BY PoolTicked
    <3>2. Copies(t.ready, S) >= 1  BY <2>2
    <3>3. Copies(t.ingress, S) \in Nat /\ Copies(t.ready, S) \in Nat
      BY PoolTicked
    <3> HIDE DEF t, q
    <3>4. QED  BY <3>1, <3>2, <3>3
  <2>3. QED  BY <2>1, <2>2, WaitingFresh DEF q, past
<1>5. /\ new \subseteq (ReadMsg \cup WriteMsg) \cap For(o) /\ resets \subseteq ResetMsg
      /\ E = new \cup resets /\ new \cap resets = {}
  <2>1. ASSUME NEW e \in E PROVE e \in ReadMsg \cup WriteMsg \cup ResetMsg
    <3>1. e \in Event /\ e.dst = o /\ o \notin Node  BY Places DEF For
    <3>2. e \notin RspMsg  BY <3>1 DEF RspMsg
    <3>3. QED  BY <3>1, <3>2 DEF Event, Request
  <2>2. /\ \A e \in ReadMsg : e.type = "read"
        /\ \A e \in WriteMsg : e.type = "write"
        /\ \A e \in ResetMsg : e.type = "reset"
    BY DEF ReadMsg, WriteMsg, ResetMsg
  <2>3. QED  BY <2>1, <2>2
<1>6. IsFiniteSet(new) /\ IsFiniteSet(resets)
  BY <1>5, FS_Subset
<1>7. ReadMsg \cap ResetMsg = {} /\ WriteMsg \cap ResetMsg = {}
  BY DEF ReadMsg, WriteMsg, ResetMsg
<1>8. Reads(left \cup new) = Reads(left) \cup Reads(E)
  <2>1. \A e \in E : e.type = "read" => e.type # "reset"  OBVIOUS
  <2>2. QED  BY <2>1 DEF Reads
<1> HIDE DEF new, resets, others, left, past
<1>9. left \cap new = {}  BY <1>3, <1>4, <1>5
<1>10. past \cap others = {} /\ (past \cup others) \cap resets = {}
  BY <1>2, <1>3, <1>4, <1>5, <1>7
<1>11. IsFiniteSet(left \cup new) /\ IsFiniteSet(past \cup others)
       /\ IsFiniteSet(past \cup others \cup resets)
  BY <1>2, <1>3, <1>6, FS_Union
<1>12. ASSUME NEW S
       PROVE  /\ Within(E, S) = Within(new, S) + Within(resets, S)
              /\ Within(new, S) \in Nat /\ Within(resets, S) \in Nat
              /\ Within(left \cup new, S) = Within(left, S) + Within(new, S)
              /\ Within(past \cup others \cup resets, S)
                 = Within(past, S) + Within(others, S) + Within(resets, S)
  <2>1. Within(E, S) = Within(new, S) + Within(resets, S)
    <3>1. Within(new \cup resets, S) = Within(new, S) + Within(resets, S)
      BY <1>5, <1>6, WithinUnion
    <3>2. QED  BY <1>5, <3>1
  <2>2. Within(new, S) \in Nat /\ Within(resets, S) \in Nat  BY <1>6, WithinNat
  <2>3. Within(left \cup new, S) = Within(left, S) + Within(new, S)
    BY <1>3, <1>6, <1>9, WithinUnion
  <2>4. Within(past \cup others, S) = Within(past, S) + Within(others, S)
    BY <1>2, <1>3, <1>10, WithinUnion
  <2>5. Within((past \cup others) \cup resets, S) = Within(past \cup others, S) + Within(resets, S)
    BY <1>6, <1>10, <1>11, WithinUnion
  <2>6. QED  BY <2>1, <2>2, <2>3, <2>4, <2>5
<1>13. ASSUME NEW S, S \subseteq ReadMsg PROVE Within(resets, S) = 0
  <2>1. S \cap resets = {}  BY <1>5, <1>7, <1>13
  <2>2. QED  BY <2>1, FS_EmptySet DEF Within
<1>14. /\ left \cup new \subseteq (ReadMsg \cup WriteMsg) \cap For(o)
       /\ past \cup others \cup resets \subseteq WriteMsg \cup ResetMsg
  BY <1>2, <1>3, <1>5
<1>15. QED
  BY <1>8, <1>11, <1>12, <1>13, <1>14 DEF new, resets, others, left, past, NewTo

\* clock_tick
LEMMA PoolWorkKeeps == ASSUME IInv, NEW o \in Pool, PoolWork(o) PROVE IInv'
<1>1. /\ SwitchTyped(port, down) /\ NodesTyped /\ PoolsTyped /\ PoolTyped(o)
      /\ rr \in 0 .. NumPools - 1 /\ Accounts(port, down)
  BY DEF IInv, SwitchInv, PoolsTyped
<1>2. PICK batch \in Batches(switchPort[o]), done \in SUBSET mem[o] :
           \E responses \in SetToSeqs(Reads(done)) : PoolTick(o, batch, done, responses)
  BY DEF PoolWork, PoolClock
<1>3. PICK responses \in SetToSeqs(Reads(done)) : PoolTick(o, batch, done, responses)
  BY <1>2
<1> DEFINE q == switchPort[o]
           t == Ticked(q, batch)
           d == Drained(q)
           taken == TakenFrom(t.ready)
           E == Elements(taken)
           credit == CreditOf(o, taken)
           returns == returned[o] \o responses
           k == Sendable(t, returns)
           sent == First(returns, k)
           back == Rest(returns, k)
           resp == ResponsesTo(o, sent)
           unread == Rest(t.ready, Len(taken))
           a == [t EXCEPT !.ready = unread, !.egress = t.egress \o resp]
           reads == Reads(done)
           others == done \ reads
           left == mem[o] \ done
           new == {ev \in E : ev.type # "reset"}
           resets == {ev \in E : ev.type = "reset"}
           M == left \cup new
           H == performed[o] \cup others \cup resets
           u == (up[o] \o d) \o credit
           R == (pending[o] \ Elements(sent)) \cup Reads(E)
<1>4. /\ switchPort' = [switchPort EXCEPT ![o] = a]
      /\ up' = [up EXCEPT ![o] = u]
      /\ mem' = [mem EXCEPT ![o] = M]
      /\ returned' = [returned EXCEPT ![o] = back]
      /\ pending' = [pending EXCEPT ![o] = R]
      /\ performed' = [performed EXCEPT ![o] = H]
      /\ down' = down
      /\ UNCHANGED <<switchVars, nodeVars>>
  <2>1. [t EXCEPT !.ready = Rest(@, Len(taken)), !.egress = @ \o resp] = a  OBVIOUS
  <2>2. QED  BY <1>3, <2>1 DEF PoolTick, PoolWork, Remembered, CreditOf
<1>5. /\ port' = port /\ rr' = rr /\ queue' = queue /\ writes' = writes
      /\ warm' = warm /\ waiting' = waiting /\ filled' = filled
  BY <1>4 DEF switchVars, nodeVars
<1>6. /\ t \in PortOf(PoolQueue, For(o), From(o))
      /\ t.ingress \in Seq(For(o)) /\ t.ready \in Seq(For(o))
      /\ t.egress \in Seq(From(o)) /\ d \in Seq(From(o))
      /\ PoolQueue = 0 \/ Len(t.egress) <= PoolQueue
      /\ \A S : /\ Copies(t.ingress, S) + Copies(t.ready, S)
                   = Copies(q.ingress, S) + Copies(q.ready, S)
                /\ Copies(d, S) + Copies(t.egress, S) = Copies(q.egress, S)
                /\ Copies(t.ingress, S) \in Nat /\ Copies(t.ready, S) \in Nat
                /\ Copies(t.egress, S) \in Nat /\ Copies(d, S) \in Nat
      /\ Bytes(t.ingress) + Bytes(t.ready) = Bytes(q.ingress) + Bytes(q.ready)
      /\ PoolQueue # 0 => t.credits + Bytes(d) = q.credits
      /\ t.credits \in Nat
  <2> HIDE DEF t, d
  <2>1. QED  BY PoolTicked DEF t, d
<1> HIDE DEF t
<1>7. /\ unread \in Seq(For(o)) /\ IsFiniteSet(E) /\ E \subseteq For(o)
      /\ \A S : Copies(t.ready, S) = Within(E, S) + Copies(unread, S)
      /\ \A e \in E : \A S : e \in S => Copies(t.ready, S) >= 1
      /\ credit \in Seq(CreditMsg) /\ credit \in Seq(ItemFrom(o))
      /\ Bytes(credit) = 0 /\ Owed(credit) \in Nat
      /\ Bytes(t.ready) = Bytes(unread) + Owed(credit)
      /\ \A S : S \cap CreditMsg = {} => Copies(credit, S) = 0
  <2> DEFINE In == For(o)
             ready == t.ready
  <2>1. In \subseteq Event /\ ready \in Seq(In) /\ o \in Id  BY <1>6, Places DEF For
  <2> HIDE DEF In, ready
  <2>2. TakenFor(o, In, ready, TakenFrom(ready), CreditOf(o, TakenFrom(ready)))
    BY <2>1, TakenOne
  <2>3. TakenFor(o, In, ready, taken, credit)  BY <2>2 DEF ready
  <2>4. unread = Rest(ready, Len(taken)) /\ E = Elements(taken)  BY DEF ready
  <2> HIDE DEF taken, credit, unread, E
  <2>5. QED  BY <2>3, <2>4 DEF In, ready, TakenFor
<1> HIDE DEF taken, credit, unread, E
<1>8. /\ returns \in Seq(Item) /\ k \in 0 .. Len(returns)
      /\ PoolQueue = 0 \/ Len(t.egress) + k <= PoolQueue
  <2>1. returned[o] \in Seq(Item)  BY <1>1, PoolQueues
  <2>2. responses \in Seq(Item)
    <3>1. mem[o] \subseteq ReadMsg \cup WriteMsg /\ IsFiniteSet(mem[o])  BY <1>1 DEF PoolTyped
    <3> DEFINE N == mem[o]
    <3>2. IsFiniteSet(N) /\ N \subseteq ReadMsg \cup WriteMsg /\ done \in SUBSET N
      BY <3>1
    <3> HIDE DEF N
    <3>3. IsFiniteSet(reads) /\ reads \subseteq ReadMsg  BY <3>2, DoneSplit
    <3>4. responses \in SetToSeqs(reads)  OBVIOUS
    <3> HIDE DEF reads
    <3>5. responses \in Seq(reads)  BY <3>3, <3>4, Listed
    <3>6. reads \subseteq Item  BY <3>3 DEF Item, Event, Request
    <3>7. QED  BY <3>5, <3>6, SeqMonotonic
  <2>3. returns \in Seq(Item)  BY <2>1, <2>2, ConcatProperties
  <2> DEFINE In == For(o)
             Out == From(o)
  <2>4. t \in PortOf(PoolQueue, In, Out)  BY <1>6
  <2> HIDE DEF returns, In, Out
  <2>5. k \in 0 .. Len(returns) /\ (PoolQueue = 0 \/ Len(t.egress) + k <= PoolQueue)
    BY <1>6, <2>3, <2>4, PoolAssumption, SendableFits
  <2>6. QED  BY <2>3, <2>5
<1> HIDE DEF k
<1>9. /\ sent \in Seq(ReadMsg) /\ back \in Seq(ReadMsg \cap For(o))
      /\ Len(sent) = k /\ Elements(sent) \subseteq pending[o]
      /\ \A S : Copies(returned[o], S) + Within(reads, S) = Copies(sent, S) + Copies(back, S)
      /\ pending[o] \ Elements(sent) = Reads(left) \cup Elements(back)
  <2>1. Sent(o, done, sent, back) /\ Len(sent) = k
    <3>1. responses \in SetToSeqs(Reads(done)) /\ done \in SUBSET mem[o]  OBVIOUS
    <3>2. k \in 0 .. Len(returned[o] \o responses)  BY <1>8
    <3>3. /\ Sent(o, done, First(returned[o] \o responses, k),
                   Rest(returned[o] \o responses, k))
          /\ Len(First(returned[o] \o responses, k)) = k
      BY <3>1, <3>2, PoolSends
    <3>4. QED  BY <3>3
  <2> HIDE DEF sent, back
  <2>2. QED  BY <2>1 DEF Sent
<1> HIDE DEF sent, back
<1>10. /\ resp \in Seq(From(o)) /\ Len(resp) = k
       /\ \A n \in Node, b \in Block : Copies(resp, RspTo(n, b)) = Copies(sent, ReadOf(n, b))
  BY <1>9, ResponsesMatch
<1>11. /\ IsFiniteSet(M) /\ M \subseteq (ReadMsg \cup WriteMsg) \cap For(o)
       /\ IsFiniteSet(H) /\ H \subseteq WriteMsg \cup ResetMsg
       /\ Reads(M) = Reads(left) \cup Reads(E)
       /\ \A S : /\ Within(E, S) = Within(new, S) + Within(resets, S)
                 /\ Within(new, S) \in Nat /\ Within(resets, S) \in Nat
                 /\ S \subseteq ReadMsg => Within(resets, S) = 0
                 /\ Within(M, S) = Within(left, S) + Within(new, S)
                 /\ Within(H, S) = Within(performed[o], S) + Within(others, S)
                                     + Within(resets, S)
  <2>1. /\ IsFiniteSet(E) /\ E \subseteq For(o)
        /\ \A e \in E : \A S : e \in S => Copies(Ticked(switchPort[o], batch).ready, S) >= 1
    BY <1>7 DEF t
  <2> HIDE DEF E, t
  <2>2. NewTo(o, done, E, new, resets, others)  BY <2>1, PoolTakes
  <2>3. left = mem[o] \ done /\ M = left \cup new /\ H = performed[o] \cup others \cup resets
    OBVIOUS
  <2> HIDE DEF new, resets, others, left, M, H
  <2>4. QED  BY <2>2, <2>3 DEF NewTo
<1>12. \A S : /\ Within(mem[o], S) = Within(left, S) + Within(reads, S) + Within(others, S)
              /\ Within(left, S) \in Nat /\ Within(reads, S) \in Nat
              /\ Within(others, S) \in Nat
              /\ S \cap ReadMsg = {} => Within(reads, S) = 0
              /\ S \subseteq ReadMsg => Within(others, S) = 0
  <2> DEFINE N == mem[o]
  <2>1. IsFiniteSet(N) /\ N \subseteq ReadMsg \cup WriteMsg /\ done \in SUBSET N
    BY <1>1 DEF PoolTyped
  <2> HIDE DEF N
  <2>2. \A S : /\ Within(N, S) = Within(N \ done, S) + Within(Reads(done), S)
                                   + Within(done \ Reads(done), S)
               /\ Within(N \ done, S) \in Nat /\ Within(Reads(done), S) \in Nat
               /\ Within(done \ Reads(done), S) \in Nat
               /\ S \cap ReadMsg = {} => Within(Reads(done), S) = 0
               /\ S \subseteq ReadMsg => Within(done \ Reads(done), S) = 0
    BY <2>1, DoneSplit
  <2>3. QED  BY <2>2 DEF N
<1> HIDE DEF M, H, new, resets, others, left, reads, resp, d, R
<1>13. /\ a \in PortOf(PoolQueue, For(o), From(o))
       /\ a.ingress = t.ingress /\ a.ready = unread /\ a.egress = t.egress \o resp
       /\ a.credits = t.credits
       /\ PoolQueue = 0 \/ Len(a.egress) <= PoolQueue
       /\ \A S : Copies(a.egress, S) = Copies(t.egress, S) + Copies(resp, S)
  <2> DEFINE In == For(o)
             Out == From(o)
  <2>1. /\ t \in PortOf(PoolQueue, In, Out) /\ unread \in Seq(In)
        /\ t.egress \in Seq(Out) /\ resp \in Seq(Out)
    BY <1>6, <1>7, <1>10
  <2> HIDE DEF In, Out
  <2>2. /\ t.egress \o resp \in Seq(Out)
        /\ Len(t.egress \o resp) = Len(t.egress) + Len(resp)
    BY <2>1, ConcatProperties
  <2>3. \A S : Copies(t.egress \o resp, S) = Copies(t.egress, S) + Copies(resp, S)
    BY <2>1, CopiesConcat
  <2>4. /\ a \in PortOf(PoolQueue, In, Out)
        /\ a.ingress = t.ingress /\ a.ready = unread /\ a.egress = t.egress \o resp
        /\ a.credits = t.credits
    BY <2>1, <2>2 DEF PortOf
  <2> HIDE DEF a
  <2>5. PoolQueue = 0 \/ Len(a.egress) <= PoolQueue
    BY <1>8, <1>10, <2>2, <2>4
  <2>6. QED  BY <2>3, <2>4, <2>5 DEF In, Out
<1> HIDE DEF a
<1>14. /\ u \in Seq(ItemFrom(o))
       /\ \A S : S \cap CreditMsg = {} => Copies(u, S) = Copies(up[o], S) + Copies(d, S)
       /\ Bytes(u) = Bytes(up[o]) + Bytes(d)
       /\ Owed(u) = Owed(up[o]) + Owed(credit)
  <2> DEFINE T == ItemFrom(o)
             v == up[o]
  <2>1. From(o) \subseteq T /\ T \subseteq Item /\ From(o) \subseteq Event
    BY DEF From, ItemFrom, Item
  <2>2. v \in Seq(T) /\ d \in Seq(T) /\ credit \in Seq(T) /\ d \in Seq(Event)
    <3>1. v \in Seq(T)  BY <1>1, Places DEF NodesTyped
    <3>2. QED  BY <1>6, <1>7, <2>1, <3>1, SeqMonotonic
  <2> HIDE DEF T, v
  <2>3. v \o d \in Seq(T) /\ (v \o d) \o credit \in Seq(T)
    BY <2>2, ConcatProperties
  <2>4. \A S : /\ Copies(v \o d, S) = Copies(v, S) + Copies(d, S)
               /\ Copies((v \o d) \o credit, S) = Copies(v \o d, S) + Copies(credit, S)
               /\ Copies(v \o d, S) \in Nat
    BY <2>2, <2>3, CopiesConcat, CopiesNat
  <2>5. ASSUME NEW S, S \cap CreditMsg = {}
        PROVE  Copies((v \o d) \o credit, S) = Copies(v, S) + Copies(d, S)
    <3>1. Copies(credit, S) = 0  BY <1>7, <2>5
    <3>2. QED  BY <2>4, <3>1
  <2>6. Seq(T) \subseteq Seq(Item)  BY <2>1, SeqMonotonic
  <2>7. /\ v \in Seq(Item) /\ d \in Seq(Item) /\ credit \in Seq(Item) /\ v \o d \in Seq(Item)
    BY <2>2, <2>3, <2>6
  <2>8. /\ Bytes(v \o d) = Bytes(v) + Bytes(d) /\ Owed(v \o d) = Owed(v) + Owed(d)
        /\ Bytes((v \o d) \o credit) = Bytes(v \o d) + Bytes(credit)
        /\ Owed((v \o d) \o credit) = Owed(v \o d) + Owed(credit)
    BY <2>7, BytesConcat
  <2>9. /\ Bytes(v) \in Nat /\ Bytes(d) \in Nat /\ Owed(v) \in Nat /\ Owed(d) = 0
    BY <2>2, <2>7, BytesNat, EventsOweNothing
  <2>10. /\ Bytes((v \o d) \o credit) = Bytes(v) + Bytes(d)
         /\ Owed((v \o d) \o credit) = Owed(v) + Owed(credit)
    BY <1>7, <2>8, <2>9
  <2>11. QED  BY <2>3, <2>5, <2>10 DEF T, v
<1> HIDE DEF u, credit
<1>15. /\ switchPort'[o] = a /\ up'[o] = u /\ mem'[o] = M /\ returned'[o] = back
       /\ pending'[o] = R /\ performed'[o] = H
       /\ \A j \in Pool : j # o => /\ switchPort'[j] = switchPort[j] /\ mem'[j] = mem[j]
                                   /\ returned'[j] = returned[j] /\ pending'[j] = pending[j]
                                   /\ performed'[j] = performed[j]
       /\ \A i \in Id : i # o => up'[i] = up[i]
  <2>1. o \in Id /\ up \in [Id -> Seq(Item)]  BY <1>1, Places DEF NodesTyped
  <2>2. QED  BY <1>1, <1>4, <2>1 DEF PoolsTyped
<1>16. R = Reads(M) \cup Elements(back)
  <2>1. R = (pending[o] \ Elements(sent)) \cup Reads(E)  BY DEF R
  <2>2. QED  BY <1>9, <1>11, <2>1
<1>17. PoolsTyped'
  <2>1. /\ switchPort' \in [Pool -> PortOf(PoolQueue, Event, Event)]
        /\ mem' \in [Pool -> SUBSET Item] /\ returned' \in [Pool -> Seq(Item)]
        /\ pending' \in [Pool -> SUBSET Item] /\ performed' \in [Pool -> SUBSET Item]
    <3>1. a \in PortOf(PoolQueue, Event, Event)
      <4>1. From(o) \subseteq Event /\ For(o) \subseteq Event  BY DEF From, For
      <4>2. Seq(From(o)) \subseteq Seq(Event) /\ Seq(For(o)) \subseteq Seq(Event)
        BY <4>1, SeqMonotonic
      <4>3. QED  BY <1>13, <4>2 DEF PortOf
    <3>2. M \subseteq Item /\ H \subseteq Item /\ ReadMsg \subseteq Item
      BY <1>11 DEF Item, Event, Request
    <3>3. back \in Seq(Item)
      <4>1. ReadMsg \cap For(o) \subseteq Item  BY <3>2
      <4>2. QED  BY <1>9, <4>1, SeqMonotonic
    <3>4. R \subseteq Item
      <4>1. Elements(back) \subseteq Item  BY <3>3, ElementsSubset
      <4>2. Reads(M) \subseteq M  BY DEF Reads
      <4>3. QED  BY <1>16, <3>2, <4>1, <4>2
    <3>5. QED  BY <1>1, <1>4, <3>1, <3>2, <3>3, <3>4 DEF PoolsTyped
  <2>2. ASSUME NEW p \in Pool PROVE PoolTyped(p)'
    <3>1. CASE p = o
      BY <1>9, <1>11, <1>13, <1>15, <1>16, <3>1 DEF PoolTyped
    <3>2. CASE p # o
      <4>1. PoolTyped(p)  BY <1>1 DEF PoolsTyped
      <4>2. QED  BY <1>15, <3>2, <4>1 DEF PoolTyped
    <3>3. QED  BY <3>1, <3>2
  <2>3. QED  BY <2>1, <2>2 DEF PoolsTyped
<1>18. SwitchTyped(port, down)'
  BY <1>1, <1>4, <1>5 DEF SwitchTyped
<1>19. NodesTyped'
  <2>1. u \in Seq(Item)  BY <1>14, EventQueue
  <2>2. up' \in [Id -> Seq(Item)]
    <3>1. up \in [Id -> Seq(Item)]  BY <1>1 DEF NodesTyped
    <3>2. QED  BY <1>4, <2>1, <3>1
  <2>3. \A i \in Id : up'[i] \in Seq(ItemFrom(i))
    BY <1>1, <1>14, <1>15 DEF NodesTyped
  <2>4. QED  BY <1>1, <1>5, <2>2, <2>3 DEF NodesTyped
<1>20. o \in Id /\ \A n \in Node : n \in Id /\ n # o  BY Places
<1>21. ASSUME NEW S
       PROVE  \A n \in Node : /\ Here(port, n, S)' = Here(port, n, S)
                              /\ Back(port, down, n, S)' = Back(port, down, n, S)
  <2>1. SUFFICES ASSUME NEW n \in Node
        PROVE  /\ Here(port, n, S)' = Here(port, n, S)
               /\ Back(port, down, n, S)' = Back(port, down, n, S)
    OBVIOUS
  <2>2. up'[n] = up[n]  BY <1>15, <1>20
  <2>3. QED  BY <1>4, <1>5, <2>2 DEF Here, Back
<1>22. ASSUME NEW S, NEW p \in Pool, p # o
       PROVE  /\ At(port, down, p, S)' = At(port, down, p, S)
              /\ Reached(port, down, p, S)' = Reached(port, down, p, S)
              /\ Answers(port, p, S)' = Answers(port, p, S)
  <2>1. p \in Id  BY Places
  <2>2. /\ switchPort'[p] = switchPort[p] /\ mem'[p] = mem[p] /\ up'[p] = up[p]
        /\ performed'[p] = performed[p]
    BY <1>15, <1>22, <2>1
  <2>3. QED  BY <1>4, <1>5, <2>2 DEF At, Reached, Answers
<1>23. ASSUME NEW S
       PROVE  /\ At(port, down, o, S)' + Within(reads, S) + Within(others, S)
                 + Within(resets, S) = At(port, down, o, S)
              /\ At(port, down, o, S)' \in Nat
  <2> DEFINE x == Copies(port[o].egress, S)
             y == Copies(down[o], S)
  <2>1. x \in Nat /\ y \in Nat /\ Copies(q.ingress, S) \in Nat /\ Copies(q.ready, S) \in Nat
        /\ Within(mem[o], S) \in Nat
    BY <1>1, <1>20, CountsAreNumbers
  <2>2. At(port, down, o, S) = x + y + Copies(q.ingress, S) + Copies(q.ready, S)
                               + Within(mem[o], S)
    BY DEF At
  <2>3. At(port, down, o, S)' = x + y + Copies(t.ingress, S) + Copies(unread, S) + Within(M, S)
    BY <1>4, <1>5, <1>13, <1>15 DEF At
  <2>4. /\ Copies(t.ingress, S) + Copies(t.ready, S) = Copies(q.ingress, S) + Copies(q.ready, S)
        /\ Copies(t.ingress, S) \in Nat /\ Copies(t.ready, S) \in Nat
    BY <1>6
  <2>5. /\ Copies(t.ready, S) = Within(E, S) + Copies(unread, S)
        /\ Copies(unread, S) \in Nat
    BY <1>7, CopiesNat
  <2>6. /\ Within(E, S) = Within(new, S) + Within(resets, S)
        /\ Within(new, S) \in Nat /\ Within(resets, S) \in Nat
        /\ Within(M, S) = Within(left, S) + Within(new, S)
    BY <1>11
  <2>7. /\ Within(mem[o], S) = Within(left, S) + Within(reads, S) + Within(others, S)
        /\ Within(left, S) \in Nat /\ Within(reads, S) \in Nat /\ Within(others, S) \in Nat
    BY <1>12
  <2> HIDE DEF x, y, q
  <2>8. At(port, down, o, S)' \in Nat  BY <2>1, <2>3, <2>4, <2>5, <2>6, <2>7
  <2>9. QED  BY <2>1, <2>2, <2>3, <2>4, <2>5, <2>6, <2>7, <2>8
<1>24. ASSUME NEW S, S \cap ReadMsg = {}
       PROVE  Reached(port, down, o, S)' = Reached(port, down, o, S)
  <2>1. Within(reads, S) = 0 /\ Within(others, S) \in Nat /\ Within(resets, S) \in Nat
    BY <1>11, <1>12, <1>24
  <2>2. Within(H, S) = Within(performed[o], S) + Within(others, S) + Within(resets, S)
    BY <1>11
  <2>3. Within(performed[o], S) \in Nat  BY <1>1, CountsAreNumbers
  <2>4. Reached(port, down, o, S)' = At(port, down, o, S)' + Within(H, S)
    BY <1>15 DEF Reached
  <2>5. Reached(port, down, o, S) = At(port, down, o, S) + Within(performed[o], S)
    BY DEF Reached
  <2>6. At(port, down, o, S)' + Within(reads, S) + Within(others, S)
          + Within(resets, S) = At(port, down, o, S)
        /\ At(port, down, o, S)' \in Nat
    BY <1>23
  <2>7. QED  BY <2>1, <2>2, <2>3, <2>4, <2>5, <2>6
<1>25. ASSUME NEW S, S \cap CreditMsg = {}
       PROVE  /\ Answers(port, o, S)' = Answers(port, o, S) + Copies(resp, S)
              /\ Answers(port, o, S) \in Nat /\ Copies(resp, S) \in Nat
  <2>1. /\ Copies(q.egress, S) \in Nat /\ Copies(up[o], S) \in Nat
        /\ Copies(port[o].ingress, S) \in Nat /\ Copies(port[o].ready, S) \in Nat
        /\ Answers(port, o, S) \in Nat
    BY <1>1, <1>20, CountsAreNumbers
  <2>2. /\ Copies(d, S) + Copies(t.egress, S) = Copies(q.egress, S)
        /\ Copies(t.egress, S) \in Nat /\ Copies(d, S) \in Nat
    BY <1>6
  <2>3. /\ Copies(a.egress, S) = Copies(t.egress, S) + Copies(resp, S)
        /\ Copies(u, S) = Copies(up[o], S) + Copies(d, S)
        /\ Copies(resp, S) \in Nat
    BY <1>10, <1>13, <1>14, <1>25, CopiesNat
  <2>4. Answers(port, o, S) = Copies(q.egress, S) + Copies(up[o], S)
                              + Copies(port[o].ingress, S) + Copies(port[o].ready, S)
    BY DEF Answers
  <2>5. Answers(port, o, S)' = Copies(a.egress, S) + Copies(u, S)
                               + Copies(port[o].ingress, S) + Copies(port[o].ready, S)
    BY <1>5, <1>15 DEF Answers
  <2> HIDE DEF q
  <2>6. QED  BY <2>1, <2>2, <2>3, <2>4, <2>5
<1>26. ASSUME NEW n \in Node, NEW b \in Block
       PROVE  InPool(port, down, o, n, b)' = InPool(port, down, o, n, b)
  <2> DEFINE A == ReadOf(n, b)
             B == RspTo(n, b)
  <2>1. A \subseteq ReadMsg /\ A \cap CreditMsg = {} /\ B \cap CreditMsg = {}
    BY InReadOf, NoCredit
  <2>2. Copies(resp, B) = Copies(sent, A)  BY <1>10
  <2>3. /\ InPool(port, down, o, n, b) = At(port, down, o, A) + Copies(returned[o], A)
                                         + Answers(port, o, B)
        /\ InPool(port, down, o, n, b)' = At(port, down, o, A)' + Copies(back, A)
                                          + Answers(port, o, B)'
    BY <1>15 DEF InPool
  <2> HIDE DEF A, B
  <2>4. /\ At(port, down, o, A)' + Within(reads, A) + Within(others, A)
           + Within(resets, A) = At(port, down, o, A)
        /\ At(port, down, o, A)' \in Nat
    BY <1>23
  <2>5. Within(others, A) = 0 /\ Within(resets, A) = 0 /\ Within(reads, A) \in Nat
    BY <1>11, <1>12, <2>1
  <2>6. /\ Answers(port, o, B)' = Answers(port, o, B) + Copies(resp, B)
        /\ Answers(port, o, B) \in Nat /\ Copies(resp, B) \in Nat
    BY <1>25, <2>1
  <2>7. /\ Copies(returned[o], A) + Within(reads, A) = Copies(sent, A) + Copies(back, A)
        /\ Copies(returned[o], A) \in Nat /\ Copies(back, A) \in Nat
    BY <1>1, <1>9, CountsAreNumbers, CopiesNat
  <2>8. QED  BY <2>2, <2>3, <2>4, <2>5, <2>6, <2>7
<1>27. CopiesKept
  <2>1. ASSUME NEW n \in Node, NEW b \in Block, NEW p \in Pool
        PROVE  InPool(port, down, p, n, b)' = InPool(port, down, p, n, b)
    <3>1. CASE p = o  BY <1>26, <3>1
    <3>2. CASE p # o  BY <1>15, <1>22, <3>2 DEF InPool
    <3>3. QED  BY <3>1, <3>2
  <2>2. ASSUME NEW S, S \cap ReadMsg = {}, NEW p \in Pool
        PROVE  Reached(port, down, p, S)' = Reached(port, down, p, S)
    <3>1. CASE p = o  BY <1>24, <2>2, <3>1
    <3>2. CASE p # o  BY <1>22, <3>2
    <3>3. QED  BY <3>1, <3>2
  <2>3. ASSUME NEW n \in Node
        PROVE  /\ \A k2 \in Nat \ {0} : WriteOf(n, k2) \cap ReadMsg = {}
               /\ ResetOf(n) \cap ReadMsg = {}
    <3>1. /\ \A k2 \in Nat \ {0} : WriteOf(n, k2) \subseteq WriteMsg
          /\ ResetOf(n) \subseteq ResetMsg
      BY InWriteOf, InResetOf
    <3>2. WriteMsg \cap ReadMsg = {} /\ ResetMsg \cap ReadMsg = {}
      BY DEF ReadMsg, WriteMsg, ResetMsg
    <3>3. QED  BY <3>1, <3>2
  <2>4. QED  BY <1>5, <1>21, <2>1, <2>2, <2>3 DEF CopiesKept
<1>28. Accounts(port, down)'
  <2>1. SUFFICES ASSUME NEW p \in Pool
        PROVE  /\ SwitchQueue # 0 =>
                   port[p].credits + Bytes(down[p]) + Bytes(switchPort'[p].ingress)
                     + Bytes(switchPort'[p].ready) + Owed(up'[p])
                   = SwitchQueue * DefaultMsgBytes
               /\ PoolQueue # 0 =>
                   switchPort'[p].credits + Bytes(up'[p]) + Bytes(port[p].ingress)
                     + Bytes(port[p].ready) + Owed(down[p])
                   = PoolQueue * DefaultMsgBytes
    BY <1>4, <1>5 DEF Accounts
  <2>2. /\ SwitchQueue # 0 =>
             port[p].credits + Bytes(down[p]) + Bytes(switchPort[p].ingress)
               + Bytes(switchPort[p].ready) + Owed(up[p])
             = SwitchQueue * DefaultMsgBytes
        /\ PoolQueue # 0 =>
             switchPort[p].credits + Bytes(up[p]) + Bytes(port[p].ingress)
               + Bytes(port[p].ready) + Owed(down[p])
             = PoolQueue * DefaultMsgBytes
    BY <1>1 DEF Accounts
  <2>3. p \in Id  BY Places
  <2>4. CASE p = o
    <3>1. /\ SwitchQueue # 0 =>
               port[o].credits + Bytes(down[o]) + Bytes(q.ingress)
                 + Bytes(q.ready) + Owed(up[o])
               = SwitchQueue * DefaultMsgBytes
          /\ PoolQueue # 0 =>
               q.credits + Bytes(up[o]) + Bytes(port[o].ingress)
                 + Bytes(port[o].ready) + Owed(down[o])
               = PoolQueue * DefaultMsgBytes
      BY <2>2, <2>4
    <3>2. /\ Bytes(up[o]) \in Nat /\ Owed(up[o]) \in Nat /\ Owed(down[o]) \in Nat
          /\ Bytes(down[o]) \in Nat
          /\ Bytes(q.ingress) \in Nat /\ Bytes(q.ready) \in Nat
          /\ Bytes(port[o].ingress) \in Nat /\ Bytes(port[o].ready) \in Nat
          /\ q.credits \in Nat /\ port[o].credits \in Nat
      <4>1. up[o] \in Seq(Item)  BY <1>1, <1>20 DEF NodesTyped
      <4>2. QED  BY <1>1, <1>20, <4>1, PortQueues, PoolQueues, BytesNat
    <3>3. /\ Bytes(t.ingress) \in Nat /\ Bytes(t.ready) \in Nat /\ Bytes(unread) \in Nat
          /\ Bytes(d) \in Nat
      <4>1. /\ t.ingress \in Seq(Item) /\ t.ready \in Seq(Item) /\ unread \in Seq(Item)
            /\ d \in Seq(Item)
        BY <1>6, <1>7, EventQueue
      <4>2. QED  BY <4>1, BytesNat
    <3>4. /\ switchPort'[o].ingress = t.ingress /\ switchPort'[o].ready = unread
          /\ switchPort'[o].credits = t.credits /\ up'[o] = u
      BY <1>13, <1>15
    <3>5. /\ Bytes(t.ingress) + Bytes(t.ready) = Bytes(q.ingress) + Bytes(q.ready)
          /\ Bytes(t.ready) = Bytes(unread) + Owed(credit) /\ Owed(credit) \in Nat
          /\ Owed(u) = Owed(up[o]) + Owed(credit)
          /\ Bytes(u) = Bytes(up[o]) + Bytes(d)
          /\ PoolQueue # 0 => t.credits + Bytes(d) = q.credits
          /\ t.credits \in Nat
      BY <1>6, <1>7, <1>14
    <3> HIDE DEF q
    <3>6. SwitchQueue # 0 =>
            port[o].credits + Bytes(down[o]) + Bytes(t.ingress)
              + Bytes(unread) + Owed(u)
            = SwitchQueue * DefaultMsgBytes
      BY <3>1, <3>2, <3>3, <3>5
    <3>7. PoolQueue # 0 =>
            t.credits + Bytes(u) + Bytes(port[o].ingress)
              + Bytes(port[o].ready) + Owed(down[o])
            = PoolQueue * DefaultMsgBytes
      BY <3>1, <3>2, <3>3, <3>5
    <3>8. QED  BY <2>4, <3>4, <3>6, <3>7
  <2>5. CASE p # o  BY <1>15, <2>2, <2>3, <2>5
  <2>6. QED  BY <2>4, <2>5
<1>29. ReadsCounted(port, down)' /\ WritesCounted(port, down)' /\ ResetsCounted(port, down)'
  BY <1>27, CountsKept
<1>30. rr' \in 0 .. NumPools - 1  BY <1>1, <1>5
<1>31. QED  BY <1>17, <1>18, <1>19, <1>28, <1>29, <1>30 DEF IInv, SwitchInv

-----------------------------------------------------------------------------
(* The invariant, and the properties that follow from it *)

LEMMA StutterKeeps == ASSUME IInv, UNCHANGED vars PROVE IInv'
<1>1. /\ SwitchTyped(port, down) /\ NodesTyped /\ PoolsTyped
      /\ rr \in 0 .. NumPools - 1 /\ Accounts(port, down)
  BY DEF IInv, SwitchInv
<1>2. /\ port' = port /\ rr' = rr /\ switchPort' = switchPort /\ mem' = mem
      /\ returned' = returned /\ pending' = pending /\ performed' = performed
      /\ waiting' = waiting /\ filled' = filled /\ queue' = queue /\ warm' = warm
      /\ writes' = writes /\ up' = up /\ down' = down
  BY DEF vars, switchVars, poolVars, nodeVars
<1>3. SwitchTyped(port, down)'  BY <1>1, <1>2 DEF SwitchTyped
<1>4. NodesTyped'  BY <1>1, <1>2 DEF NodesTyped
<1>5. PoolsTyped'  BY <1>1, <1>2 DEF PoolsTyped, PoolTyped
<1>6. Accounts(port, down)'  BY <1>1, <1>2 DEF Accounts
<1>7. \A S : /\ \A n \in Node : /\ Here(port, n, S)' = Here(port, n, S)
                                /\ Back(port, down, n, S)' = Back(port, down, n, S)
             /\ \A p \in Pool : /\ At(port, down, p, S)' = At(port, down, p, S)
                                /\ Reached(port, down, p, S)' = Reached(port, down, p, S)
                                /\ Answers(port, p, S)' = Answers(port, p, S)
  BY <1>2 DEF Here, Back, At, Reached, Answers
<1>8. CopiesKept
  <2>1. ASSUME NEW n \in Node, NEW b \in Block, NEW p \in Pool
        PROVE  InPool(port, down, p, n, b)' = InPool(port, down, p, n, b)
    BY <1>2, <1>7 DEF InPool
  <2>2. QED  BY <1>2, <1>7, <2>1 DEF CopiesKept
<1>9. ReadsCounted(port, down)' /\ WritesCounted(port, down)' /\ ResetsCounted(port, down)'
  BY <1>8, CountsKept
<1>10. QED  BY <1>1, <1>2, <1>3, <1>4, <1>5, <1>6, <1>9 DEF IInv, SwitchInv

\* Every state of the system satisfies the inductive invariant: each read,
\* write and reset is counted wherever it can be (switch.cc, cxl_mempool.cc,
\* cscore.cc), and the credit of the links between switch and pools adds up.
THEOREM CxlInvariance == Spec => []IInv
<1>1. Init => IInv  BY InitSound
<1>2. IInv /\ [Next]_vars => IInv'
  <2>1. SUFFICES ASSUME IInv, [Next]_vars PROVE IInv'
    OBVIOUS
  <2>2. ASSUME NEW n \in Node, NodeTick(n) PROVE IInv'  BY <2>1, <2>2, NodeTickKeeps
  <2>3. ASSUME NEW n \in Node, NodeReceive(n) PROVE IInv'  BY <2>1, <2>3, NodeReceiveKeeps
  <2>4. CASE SwitchClock  BY <2>1, <2>4, SwitchClockKeeps
  <2>5. ASSUME NEW i \in Id, SwitchReceive(i) PROVE IInv'
    BY <2>1, <2>5, SwitchReceiveKeeps
  <2>6. ASSUME NEW p \in Pool, PoolWork(p) PROVE IInv'  BY <2>1, <2>6, PoolWorkKeeps
  <2>7. ASSUME NEW p \in Pool, PoolReceive(p) PROVE IInv'  BY <2>1, <2>7, PoolReceiveKeeps
  <2>8. CASE UNCHANGED vars  BY <2>1, <2>8, StutterKeeps
  <2>9. QED  BY <2>1, <2>2, <2>3, <2>4, <2>5, <2>6, <2>7, <2>8 DEF Next
<1>3. QED  BY <1>1, <1>2, PTL DEF Spec

\* pending_ has exactly the requests in the pool's memory and those whose
\* response waits to be sent (cxl_mempool.cc), and all ports keep their bounds.
THEOREM CxlPendingMatches == Spec => []PendingMatches
<1>1. IInv => PendingMatches
  <2>1. SUFFICES ASSUME IInv PROVE PendingMatches
    OBVIOUS
  <2>2. /\ SwitchTyped(port, down) /\ NodesTyped /\ PoolsTyped /\ rr \in 0 .. NumPools - 1
    BY <2>1 DEF IInv, SwitchInv
  <2>3. ASSUME NEW i \in Id PROVE PortOK(port[i], SwitchQueue)
    <3>1. port[i] \in PortOf(SwitchQueue, From(i), For(i))  BY <2>2, PortQueues
    <3>2. QED  BY <3>1, SwitchAssumption, PortFields DEF PortOK
  <2>4. ASSUME NEW p \in Pool PROVE PortOK(switchPort[p], PoolQueue)
    <3>1. switchPort[p] \in PortOf(PoolQueue, For(p), From(p))  BY <2>2, PoolQueues
    <3>2. QED  BY <3>1, PoolAssumption, PortFields DEF PortOK
  <2>5. TypeOK  BY <2>2, <2>3, <2>4 DEF TypeOK, NodesTyped
  <2>6. QED  BY <2>2, <2>5 DEF PendingMatches, PoolsTyped, PoolTyped
<1>2. QED  BY <1>1, CxlInvariance, PTL

\* What the properties count in joined queues is what the invariant counts in
\* each of them.
LEMMA FourQueues ==
  ASSUME NEW a \in Seq(Item), NEW b \in Seq(Item), NEW c \in Seq(Item), NEW d \in Seq(Item),
         NEW S
  PROVE  /\ Copies(a \o b, S) = Copies(a, S) + Copies(b, S)
         /\ Copies(a \o b \o c \o d, S) = Copies(a, S) + Copies(b, S) + Copies(c, S) + Copies(d, S)
<1>1. a \o b \in Seq(Item) /\ (a \o b) \o c \in Seq(Item)  BY ConcatProperties
<1>2. /\ Copies(a \o b, S) = Copies(a, S) + Copies(b, S)
      /\ Copies((a \o b) \o c, S) = Copies(a \o b, S) + Copies(c, S)
      /\ Copies(((a \o b) \o c) \o d, S) = Copies((a \o b) \o c, S) + Copies(d, S)
  BY <1>1, CopiesConcat
<1>3. QED  BY <1>2

LEMMA PropertiesCount ==
  ASSUME IInv, NEW S
  PROVE  /\ \A n \in Node : /\ Copies(Upstream(n), S) = Here(port, n, S)
                            /\ Copies(ToNode(n), S) = Back(port, down, n, S)
         /\ \A p \in Pool : /\ AtPool(p, S) = At(port, down, p, S)
                            /\ Came(p, S) = Reached(port, down, p, S)
                            /\ Copies(FromPool(p), S) = Answers(port, p, S)
<1>1. /\ SwitchTyped(port, down) /\ NodesTyped /\ PoolsTyped
  BY DEF IInv, SwitchInv
<1>2. \A i \in Id : up[i] \in Seq(Item)  BY <1>1 DEF NodesTyped
<1>3. ASSUME NEW n \in Node
      PROVE  /\ Copies(Upstream(n), S) = Here(port, n, S)
             /\ Copies(ToNode(n), S) = Back(port, down, n, S)
  <2>1. n \in Id  BY Places
  <2>2. /\ queue[n] \in Seq(Item) /\ up[n] \in Seq(Item)
        /\ port[n].ingress \in Seq(Item) /\ port[n].ready \in Seq(Item)
        /\ port[n].egress \in Seq(Item) /\ down[n] \in Seq(Item)
    BY <1>1, <1>2, <2>1, PortQueues DEF NodesTyped
  <2>3. QED  BY SMTT(40), <2>2, FourQueues DEF Upstream, ToNode, Here, Back
<1>4. ASSUME NEW p \in Pool
      PROVE  /\ AtPool(p, S) = At(port, down, p, S)
             /\ Came(p, S) = Reached(port, down, p, S)
             /\ Copies(FromPool(p), S) = Answers(port, p, S)
  <2>1. p \in Id  BY Places
  <2>2. /\ switchPort[p].egress \in Seq(Item) /\ up[p] \in Seq(Item)
        /\ switchPort[p].ingress \in Seq(Item) /\ switchPort[p].ready \in Seq(Item)
        /\ port[p].ingress \in Seq(Item) /\ port[p].ready \in Seq(Item)
        /\ port[p].egress \in Seq(Item) /\ down[p] \in Seq(Item)
    BY <1>1, <1>2, <2>1, PortQueues, PoolQueues
  <2>3. AtPool(p, S) = At(port, down, p, S)
    BY SMTT(40), <2>2, FourQueues DEF AtPool, Downstream, At, Within
  <2>4. Copies(FromPool(p), S) = Answers(port, p, S)
    BY SMTT(40), <2>2, FourQueues DEF FromPool, Answers
  <2>5. QED  BY <2>3, <2>4 DEF Came, Reached, Within
<1>5. QED  BY <1>3, <1>4

\* Each MSHR entry that waits has exactly one read or response in the whole
\* system, and a block without one has none (handle_remote_response, cache.cc).
THEOREM CxlOneAnswerPerMiss == Spec => []OneAnswerPerMiss
<1>1. IInv => OneAnswerPerMiss
  <2>1. SUFFICES ASSUME IInv PROVE OneAnswerPerMiss
    OBVIOUS
  <2>2. SUFFICES ASSUME NEW n \in Node, NEW b \in Block
        PROVE  Copies(Upstream(n), ReadOf(n, b))
                 + SumOverPools([p \in Pool |-> AtPool(p, ReadOf(n, b))
                                   + Copies(returned[p], ReadOf(n, b))
                                   + Copies(FromPool(p), RspTo(n, b))])
                 + Copies(ToNode(n), RspTo(n, b))
               = Flag(b \in waiting[n])
    BY DEF OneAnswerPerMiss, Flag
  <2>3. [p \in Pool |-> AtPool(p, ReadOf(n, b)) + Copies(returned[p], ReadOf(n, b))
                          + Copies(FromPool(p), RspTo(n, b))]
        = InPools(port, down, n, b)
    BY <2>1, PropertiesCount DEF InPools, InPool
  <2>4. /\ Copies(Upstream(n), ReadOf(n, b)) = Here(port, n, ReadOf(n, b))
        /\ Copies(ToNode(n), RspTo(n, b)) = Back(port, down, n, RspTo(n, b))
    BY <2>1, PropertiesCount
  <2>5. ReadsCounted(port, down)  BY <2>1 DEF IInv, SwitchInv
  <2>6. QED  BY <2>3, <2>4, <2>5 DEF ReadsCounted
<1>2. QED  BY <1>1, CxlInvariance, PTL

\* Without replicate_writes each writeback is at the switch or before it, or
\* has come to exactly one pool, and nowhere twice (switch.cc, cache.cc).
THEOREM CxlOneWriteback == Spec => []OneWriteback
<1>1. IInv => OneWriteback
  <2>1. SUFFICES ASSUME IInv PROVE OneWriteback
    OBVIOUS
  <2>2. SUFFICES ASSUME ~ ReplicateWrites, NEW n \in Node, NEW k \in 1 .. writes[n]
        PROVE  Copies(Upstream(n), WriteOf(n, k))
                 + SumOverPools([p \in Pool |-> Came(p, WriteOf(n, k))]) = 1
    BY DEF OneWriteback
  <2>3. k \in Nat \ {0} /\ Flag(k <= writes[n]) = 1
    <3>1. writes[n] \in Nat  BY <2>1 DEF IInv, NodesTyped
    <3>2. QED  BY <3>1 DEF Flag
  <2>4. [p \in Pool |-> Came(p, WriteOf(n, k))] = ReachedPools(port, down, WriteOf(n, k))
    BY <2>1, PropertiesCount DEF ReachedPools
  <2>5. Copies(Upstream(n), WriteOf(n, k)) = Here(port, n, WriteOf(n, k))
    BY <2>1, PropertiesCount
  <2>6. WritesCounted(port, down)  BY <2>1 DEF IInv, SwitchInv
  <2>7. QED  BY <2>2, <2>3, <2>4, <2>5, <2>6 DEF WritesCounted
<1>2. QED  BY <1>1, CxlInvariance, PTL

\* A broadcast has come to all pools or to none: the switch never leaves the
\* replicas of a writeback, or the resets of a node, half sent (switch.cc).
THEOREM CxlAllPoolsOrNone == Spec => []AllPoolsOrNone
<1>1. IInv => AllPoolsOrNone
  <2>1. SUFFICES ASSUME IInv PROVE AllPoolsOrNone
    OBVIOUS
  <2>2. /\ SwitchTyped(port, down) /\ NodesTyped /\ PoolsTyped
        /\ WritesCounted(port, down) /\ ResetsCounted(port, down)
    BY <2>1 DEF IInv, SwitchInv
  <2> DEFINE Split(n, S) ==
               /\ Copies(Upstream(n), S) \in {0, 1}
               /\ \A p \in Pool : Came(p, S) = 1 - Copies(Upstream(n), S)
  <2>3. ASSUME NEW n \in Node, NEW S,
               \A p \in Pool : Here(port, n, S) + Reached(port, down, p, S) = 1
        PROVE  Split(n, S)
    <3>1. /\ Here(port, n, S) \in Nat
          /\ \A p \in Pool : Reached(port, down, p, S) \in Nat
      BY <2>2, CountsAreNumbers
    <3>2. PoolBase \in Pool  BY Places
    <3>3. Here(port, n, S) \in {0, 1}  BY <2>3, <3>1, <3>2
    <3>4. \A p \in Pool : Reached(port, down, p, S) = 1 - Here(port, n, S)
      BY <2>3, <3>1
    <3>5. QED  BY <2>1, <3>3, <3>4, PropertiesCount
  <2>4. ASSUME NEW n \in Node, NEW k \in 1 .. writes[n], ReplicateWrites
        PROVE  Split(n, WriteOf(n, k))
    <3>1. k \in Nat \ {0} /\ Flag(k <= writes[n]) = 1
      <4>1. writes[n] \in Nat  BY <2>2 DEF NodesTyped
      <4>2. QED  BY <4>1 DEF Flag
    <3>2. \A p \in Pool : Here(port, n, WriteOf(n, k))
                            + Reached(port, down, p, WriteOf(n, k)) = 1
      BY <2>2, <2>4, <3>1 DEF WritesCounted
    <3> HIDE DEF Split
    <3>3. QED  BY <2>3, <3>2
  <2>5. ASSUME NEW n \in Node, warm[n] PROVE Split(n, ResetOf(n))
    <3>1. Flag(warm[n]) = 1  BY <2>5 DEF Flag
    <3>2. \A p \in Pool : Here(port, n, ResetOf(n))
                            + Reached(port, down, p, ResetOf(n)) = 1
      BY <2>2, <3>1 DEF ResetsCounted
    <3> HIDE DEF Split
    <3>3. QED  BY <2>3, <3>2
  <2>6. QED  BY <2>4, <2>5 DEF AllPoolsOrNone
<1>2. QED  BY <1>1, CxlInvariance, PTL

\* No byte of credit is lost or made on the links between switch and pools
\* (fabric_port.cc), whatever both do in their ticks.
THEOREM CxlPoolLinksSettled == Spec => []PoolLinksSettled
<1>1. IInv => PoolLinksSettled
  <2>1. SUFFICES ASSUME IInv, NEW p \in Pool
        PROVE  /\ Settled(port[p], down[p], switchPort[p], up[p])
               /\ Settled(switchPort[p], up[p], port[p], down[p])
    BY DEF PoolLinksSettled
  <2>2. /\ SwitchTyped(port, down) /\ NodesTyped /\ PoolsTyped /\ Accounts(port, down)
    BY <2>1 DEF IInv, SwitchInv
  <2>3. p \in Id  BY Places
  <2>4. /\ port[p] \in PortOf(SwitchQueue, From(p), For(p))
        /\ switchPort[p] \in PortOf(PoolQueue, For(p), From(p))
        /\ up[p] \in Seq(Item) /\ down[p] \in Seq(Item)
    BY <2>2, <2>3, PortQueues, PoolQueues DEF NodesTyped
  <2>5. /\ Unlimited(port[p]) <=> SwitchQueue = 0
        /\ Capacity(port[p]) = SwitchQueue * DefaultMsgBytes
        /\ port[p].ingress \in Seq(Event) /\ port[p].ready \in Seq(Event)
    <3>1. port[p].ingress \in Seq(From(p)) /\ port[p].ready \in Seq(From(p))
      BY <2>4, SwitchAssumption, PortFields
    <3>2. /\ Unlimited(port[p]) <=> SwitchQueue = 0
          /\ Capacity(port[p]) = SwitchQueue * DefaultMsgBytes
      BY <2>4, SwitchAssumption, PortFields
    <3>3. QED  BY <3>1, <3>2, EventQueue
  <2>6. /\ Unlimited(switchPort[p]) <=> PoolQueue = 0
        /\ Capacity(switchPort[p]) = PoolQueue * DefaultMsgBytes
        /\ switchPort[p].ingress \in Seq(Event) /\ switchPort[p].ready \in Seq(Event)
    <3>1. switchPort[p].ingress \in Seq(For(p)) /\ switchPort[p].ready \in Seq(For(p))
      BY <2>4, PoolAssumption, PortFields
    <3>2. /\ Unlimited(switchPort[p]) <=> PoolQueue = 0
          /\ Capacity(switchPort[p]) = PoolQueue * DefaultMsgBytes
      BY <2>4, PoolAssumption, PortFields
    <3>3. QED  BY <3>1, <3>2, EventQueue
  <2>7. /\ BytesIn(port[p].ingress) = Bytes(port[p].ingress)
        /\ BytesIn(port[p].ready) = Bytes(port[p].ready)
        /\ BytesIn(switchPort[p].ingress) = Bytes(switchPort[p].ingress)
        /\ BytesIn(switchPort[p].ready) = Bytes(switchPort[p].ready)
    BY <2>5, <2>6, BytesInQueue
  <2>8. /\ BytesOn(up[p]) = Bytes(up[p]) /\ CreditOn(up[p]) = Owed(up[p])
        /\ BytesOn(down[p]) = Bytes(down[p]) /\ CreditOn(down[p]) = Owed(down[p])
    BY <2>4, BytesOnLink, CreditOnLink
  <2>9. /\ SwitchQueue # 0 =>
             port[p].credits + Bytes(down[p]) + Bytes(switchPort[p].ingress)
               + Bytes(switchPort[p].ready) + Owed(up[p])
             = SwitchQueue * DefaultMsgBytes
        /\ PoolQueue # 0 =>
             switchPort[p].credits + Bytes(up[p]) + Bytes(port[p].ingress)
               + Bytes(port[p].ready) + Owed(down[p])
             = PoolQueue * DefaultMsgBytes
    BY <2>2 DEF Accounts
  <2>10. Settled(port[p], down[p], switchPort[p], up[p])
    BY <2>5, <2>7, <2>8, <2>9 DEF Settled
  <2>11. Settled(switchPort[p], up[p], port[p], down[p])
    BY <2>6, <2>7, <2>8, <2>9 DEF Settled
  <2>12. QED  BY <2>10, <2>11
<1>2. QED  BY <1>1, CxlInvariance, PTL
=============================================================================
