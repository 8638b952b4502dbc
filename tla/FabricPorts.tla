---------------------------- MODULE FabricPorts ----------------------------
(***************************************************************************)
(* FabricPort (src/fabric_port.cc) as a value, for the components that own *)
(* several ports and poll them all in one clock tick.                      *)
(*                                                                         *)
(* Component ids are numbers, as in the payloads: nodes count from 0 and   *)
(* pools from PoolBase.  An event carries the fields that steer it: its    *)
(* type, source and destination (payload[0] and [1]) and what it is about: *)
(* the block of a read, and the block and number of a writeback.           *)
(***************************************************************************)
EXTENDS Naturals, Sequences, FiniteSets, Queues, SequencesExt

CONSTANTS NumNodes, NumPools, PoolBase, Block

ASSUME IdAssumption ==
  /\ NumNodes \in Nat \ {0}
  /\ NumPools \in Nat \ {0}
  /\ PoolBase \in Nat
  /\ PoolBase >= NumNodes

Node == 0 .. NumNodes - 1
Pool == PoolBase .. PoolBase + NumPools - 1
Id == Node \cup Pool

\* The SST links between the switch and the other components: they deliver in
\* order.
VARIABLES
  up,   \* up[i]: what travels from component i to the switch
  down  \* down[i]: what travels from the switch to component i

-----------------------------------------------------------------------------
(* Events *)

Read(n, p, b) == [type |-> "read", src |-> n, dst |-> p, block |-> b]

Write(n, p, b, k) ==
  [type |-> "write", src |-> n, dst |-> p, block |-> b, num |-> k]

Response(p, n, b) == [type |-> "rsp", src |-> p, dst |-> n, block |-> b]

\* kControlBroadcast, the destination of a node's reset event, routes nothing.
Reset(from, to) == [type |-> "reset", src |-> from, dst |-> to]

\* credit_bytes(): the credit that an event costs.
CreditBytes(ev) ==
  CASE ev.type = "read"  -> 8
    [] ev.type = "reset" -> 0
    [] ev.type \in {"write", "rsp"} -> 64

BytesIn(q) ==
  Total([i \in 1 .. Len(q) |-> CreditBytes(q[i])], 1 .. Len(q), Len(q))

\* Mutant of CreditFor: taking an event gives no credit back.
NoCreditFor(self, ev) == << >>

\* make_credit_event(): what taking ev puts on the link, none for a control
\* event.
CreditFor(self, ev) ==
  IF CreditBytes(ev) = 0 THEN << >>
  ELSE <<[type |-> "credit", src |-> self, dst |-> ev.src,
          bytes |-> CreditBytes(ev)]>>

-----------------------------------------------------------------------------
(* Ports *)

DefaultMsgBytes == 64

Configured(size) ==
  [size |-> size, credits |-> size * DefaultMsgBytes,
   egress |-> << >>, ingress |-> << >>, ready |-> << >>]

Unlimited(port) == port.size = 0

Capacity(port) == port.size * DefaultMsgBytes

CanSend(port) == Unlimited(port) \/ Len(port.egress) < port.size

\* send() of an event that its caller deletes when the queue is full.
Send(port, ev) ==
  [port EXCEPT !.egress = IF CanSend(port) THEN Append(@, ev) ELSE @]

\* Mutant of Affords: an event is sent as long as any credit is left.
AffordsAny(port, k) ==
  Unlimited(port) \/ k = 0 \/ BytesIn(First(port.egress, k - 1)) < port.credits

Affords(port, k) ==
  Unlimited(port) \/ BytesIn(First(port.egress, k)) <= port.credits

\* What drain_egress puts on the link: everything up to the first event that
\* the credits do not pay for.
Drained(port) ==
  First(port.egress,
        CHOOSE k \in 0 .. Len(port.egress) :
          /\ Affords(port, k)
          /\ k < Len(port.egress) => ~ Affords(port, k + 1))

\* The batches that bandwidth and latency may release in one tick; events of
\* one tick come out of the priority queue in any order.
Batches(port) ==
  UNION {Orders(First(port.ingress, k)) : k \in 0 .. Len(port.ingress)}

\* tick(): tick_ingress releases batch, then drain_egress sends.
Ticked(port, batch) ==
  [port EXCEPT
     !.ingress = Rest(@, Len(batch)),
     !.ready = @ \o batch,
     !.egress = Rest(@, Len(Drained(port))),
     !.credits = IF Unlimited(port) THEN @ ELSE @ - BytesIn(Drained(port))]

\* Mutant of Taken: the event stays at the head of the ready queue.
TakenKeeps(port) == port

\* The handler of try_receive took the head of the ready queue.
Taken(port) == [port EXCEPT !.ready = Tail(@)]

\* add_credit()
Credited(port, bytes) ==
  [port EXCEPT !.credits =
     IF Unlimited(port) THEN @
     ELSE IF @ + bytes > Capacity(port) THEN Capacity(port) ELSE @ + bytes]

\* Mutant of Arrived: control events end at the port.
ArrivedUnlessControl(port, item) ==
  CASE item.type = "credit" -> Credited(port, item.bytes)
    [] item.type = "reset" -> port
    [] OTHER -> [port EXCEPT !.ingress = Append(@, item)]

\* handle_event(): credit events end here, a reset event goes on.
Arrived(port, item) ==
  IF item.type = "credit" THEN Credited(port, item.bytes)
                          ELSE [port EXCEPT !.ingress = Append(@, item)]

\* What the events on a link cost, between the credit events.
BytesOn(link) ==
  Total([i \in 1 .. Len(link) |->
           IF link[i].type = "credit" THEN 0 ELSE CreditBytes(link[i])],
        1 .. Len(link), Len(link))

\* What the credit events on a link give back.
CreditOn(link) ==
  Total([i \in 1 .. Len(link) |->
           IF link[i].type = "credit" THEN link[i].bytes ELSE 0],
        1 .. Len(link), Len(link))

\* What a sender may still send, what its peer holds and what comes back on
\* the link are together the capacity that it was configured with.
Settled(port, towards, peer, back) ==
  \/ Unlimited(port)
  \/ port.credits + BytesOn(towards) + BytesIn(peer.ingress)
       + BytesIn(peer.ready) + CreditOn(back)
     = Capacity(port)
=============================================================================
