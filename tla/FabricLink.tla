----------------------------- MODULE FabricLink -----------------------------
(***************************************************************************)
(* The FabricPorts at the ends of SST links (src/fabric_port.cc).          *)
(*                                                                         *)
(* A port sends to its peer through an egress queue that is drained onto   *)
(* the link as long as its byte credits last, and receives through an      *)
(* ingress queue (bandwidth and latency) that feeds a ready queue.  The    *)
(* owner of the port (switch or memory pool) takes at most one event per   *)
(* cycle from the ready queue, or refuses it; taking it sends the bytes of *)
(* the event back over the same link as a credit event.                    *)
(*                                                                         *)
(* Events of one run are numbered; Bytes is credit_bytes() of the event    *)
(* (0 for a control event, msg_bytes otherwise).  How long bandwidth and   *)
(* latency hold an event in the ingress queue is left open: a tick brings  *)
(* out any number of events.  The events of one tick have the same         *)
(* injection and completion time, so the priority queue of lat_bw_queue    *)
(* hands them out in any order.                                            *)
(***************************************************************************)
EXTENDS Integers, FiniteSets, Sequences, Queues

CONSTANTS
  Port,        \* the configured ports
  Peer,        \* Peer[p]: the port at the other end of p's link
  NumPackets,  \* how many events are ever sent
  Source,      \* Source[m]: the port that event m is handed to for sending
  Bytes,       \* Bytes[m]: the credit that event m costs
  QueueSize    \* QueueSize[p]: queue_size_packets of p (0: no limit)

Packet == 1 .. NumPackets

ASSUME LinkAssumption ==
  /\ NumPackets \in Nat
  /\ Peer \in [Port -> Port]
  /\ \A p \in Port : Peer[Peer[p]] = p /\ Peer[p] # p
  /\ Source \in [Packet -> Port]
  /\ Bytes \in [Packet -> Nat]
  /\ QueueSize \in [Port -> Nat]

VARIABLES
  credits,  \* egress_credits_ of each port (meaningless when unlimited)
  egress,   \* egress_queue_ of each port
  link,     \* link[p]: what travels on the link towards p, oldest first
  ingress,  \* the lat_bw_queue of each port, in order of arrival
  ready,    \* ready_ of each port
  stage     \* history: where each event is

vars == <<credits, egress, link, ingress, ready, stage>>

-----------------------------------------------------------------------------
(* Credits *)

DefaultMsgBytes == 64

\* No queue size given: credits and egress queue are unlimited.
Unlimited(p) == QueueSize[p] = 0

CreditCapacity(p) == QueueSize[p] * DefaultMsgBytes

BytesOf(S) == Total(Bytes, S, NumPackets)

\* Mutant of Affords: an event is sent as long as any credit is left.
AffordsAny(p, k) ==
  \/ Unlimited(p)
  \/ k = 0
  \/ BytesOf(Elements(First(egress[p], k - 1))) < credits[p]

\* The first k events of p's egress queue can be paid for.
Affords(p, k) ==
  Unlimited(p) \/ BytesOf(Elements(First(egress[p], k))) <= credits[p]

\* drain_egress stops at the first event that cannot be paid for.
Drains(p, k) ==
  /\ Affords(p, k)
  /\ k < Len(egress[p]) => ~ Affords(p, k + 1)

\* Mutant of AddCredit: a credit that fills up the capacity is dropped.
AddCreditBelow(p, bytes) ==
  IF Unlimited(p) \/ credits[p] + bytes >= CreditCapacity(p) THEN credits[p]
  ELSE credits[p] + bytes

\* add_credit: credits never exceed the capacity.
AddCredit(p, bytes) ==
  IF Unlimited(p) THEN credits[p]
  ELSE IF credits[p] + bytes > CreditCapacity(p)
       THEN CreditCapacity(p)
       ELSE credits[p] + bytes

-----------------------------------------------------------------------------
(* Link traffic: events, and the credit events that pay for one of them *)

Item == [kind : {"event", "credit"}, pkt : Packet]

Events(q) == [i \in 1 .. Len(q) |-> [kind |-> "event", pkt |-> q[i]]]

\* Mutant of CreditFor: receiving does not send a credit event.
NoCreditFor(m) == << >>

\* A control event costs nothing and is not answered by a credit event.
CreditFor(m) ==
  IF Bytes[m] = 0 THEN << >> ELSE <<[kind |-> "credit", pkt |-> m]>>

-----------------------------------------------------------------------------
Init ==
  /\ credits = [p \in Port |-> CreditCapacity(p)]
  /\ egress = [p \in Port |-> << >>]
  /\ link = [p \in Port |-> << >>]
  /\ ingress = [p \in Port |-> << >>]
  /\ ready = [p \in Port |-> << >>]
  /\ stage = [m \in Packet |-> "new"]

\* Mutant of CanSend: off by one.
CanSendOneMore(p) == Unlimited(p) \/ Len(egress[p]) <= QueueSize[p]

\* can_send()
CanSend(p) == Unlimited(p) \/ Len(egress[p]) < QueueSize[p]

\* send() by the owner of p, which first asks can_send().
Send(p, m) ==
  /\ Source[m] = p
  /\ stage[m] = "new"
  /\ CanSend(p)
  /\ egress' = [egress EXCEPT ![p] = Append(@, m)]
  /\ stage' = [stage EXCEPT ![m] = "egress"]
  /\ UNCHANGED <<credits, link, ingress, ready>>

\* The first try_receive() of a cycle: tick_ingress brings out the events of
\* batch, drain_egress puts the first k events of the egress queue on the
\* link, then the owner's handler refuses the head of the ready queue ...
Tick(p, n, batch, k) ==
  /\ Drains(p, k)
  /\ ingress' = [ingress EXCEPT ![p] = Rest(@, n)]
  /\ egress' = [egress EXCEPT ![p] = Rest(@, k)]
  /\ credits' = [credits EXCEPT ![p] =
       IF Unlimited(p) THEN @ ELSE @ - BytesOf(Elements(First(egress[p], k)))]

TickedStage(p, batch, k) ==
  [m \in Packet |->
     IF m \in Elements(First(egress[p], k)) THEN "link"
     ELSE IF m \in Elements(batch) THEN "ready" ELSE stage[m]]

\* Mutant of Refuse: the credit is sent before the handler is asked.
RefusePays(p, n, batch, k) ==
  LET arrived == ready[p] \o batch
  IN  /\ Tick(p, n, batch, k)
      /\ ready' = [ready EXCEPT ![p] = arrived]
      /\ link' = [link EXCEPT ![Peer[p]] =
                    (@ \o Events(First(egress[p], k))) \o
                    (IF arrived = << >> THEN << >> ELSE CreditFor(Head(arrived)))]
      /\ stage' = TickedStage(p, batch, k)

\* ... or there is none,
Refuse(p, n, batch, k) ==
  /\ Tick(p, n, batch, k)
  /\ ready' = [ready EXCEPT ![p] = @ \o batch]
  /\ link' = [link EXCEPT ![Peer[p]] = @ \o Events(First(egress[p], k))]
  /\ stage' = TickedStage(p, batch, k)

\* Mutant of Accept: the event that was taken stays in the ready queue.
AcceptKeeps(p, n, batch, k) ==
  LET arrived == ready[p] \o batch
      m == Head(arrived)
  IN  /\ arrived # << >>
      /\ Tick(p, n, batch, k)
      /\ ready' = [ready EXCEPT ![p] = arrived]
      /\ link' = [link EXCEPT ![Peer[p]] =
                    (@ \o Events(First(egress[p], k))) \o CreditFor(m)]
      /\ stage' = [TickedStage(p, batch, k) EXCEPT
                     ![m] = IF Bytes[m] = 0 THEN "done" ELSE "owed"]

\* ... or it takes that event and a credit event goes back.
Accept(p, n, batch, k) ==
  LET arrived == ready[p] \o batch
      m == Head(arrived)
  IN  /\ arrived # << >>
      /\ Tick(p, n, batch, k)
      /\ ready' = [ready EXCEPT ![p] = Tail(arrived)]
      /\ link' = [link EXCEPT ![Peer[p]] =
                    (@ \o Events(First(egress[p], k))) \o CreditFor(m)]
      /\ stage' = [TickedStage(p, batch, k) EXCEPT
                     ![m] = IF Bytes[m] = 0 THEN "done" ELSE "owed"]

ClockCycle(p, n) ==
  \E k \in 0 .. Len(egress[p]), batch \in Orders(First(ingress[p], n)) :
    Refuse(p, n, batch, k) \/ Accept(p, n, batch, k)

Clock(p) == \E n \in 0 .. Len(ingress[p]) : ClockCycle(p, n)

\* handle_event() for an event: it joins the ingress queue.
ArriveEvent(p) ==
  /\ link[p] # << >>
  /\ Head(link[p]).kind = "event"
  /\ link' = [link EXCEPT ![p] = Tail(@)]
  /\ ingress' = [ingress EXCEPT ![p] = Append(@, Head(link[p]).pkt)]
  /\ stage' = [stage EXCEPT ![Head(link[p]).pkt] = "ingress"]
  /\ UNCHANGED <<credits, egress, ready>>

\* handle_event() for a credit event.
ArriveCredit(p) ==
  /\ link[p] # << >>
  /\ Head(link[p]).kind = "credit"
  /\ link' = [link EXCEPT ![p] = Tail(@)]
  /\ credits' = [credits EXCEPT ![p] = AddCredit(p, Bytes[Head(link[p]).pkt])]
  /\ stage' = [stage EXCEPT ![Head(link[p]).pkt] = "done"]
  /\ UNCHANGED <<egress, ingress, ready>>

Next ==
  \E p \in Port :
    \/ \E m \in Packet : Send(p, m)
    \/ Clock(p)
    \/ ArriveEvent(p)
    \/ ArriveCredit(p)

Spec == Init /\ [][Next]_vars

\* The clock of a port's owner never stops, the link delivers, bandwidth and
\* latency hold an event for a bounded number of ticks only, and the owner
\* does not refuse an event for ever.
Release(p) == \E n \in 1 .. Len(ingress[p]) : ClockCycle(p, n)

Take(p) ==
  \E n \in 0 .. Len(ingress[p]), k \in 0 .. Len(egress[p]) :
    \E batch \in Orders(First(ingress[p], n)) : Accept(p, n, batch, k)

Fairness ==
  \A p \in Port :
    /\ WF_vars(Clock(p))
    /\ WF_vars(Release(p))
    /\ WF_vars(Take(p))
    /\ WF_vars(ArriveEvent(p))
    /\ WF_vars(ArriveCredit(p))

FairSpec == Spec /\ Fairness

-----------------------------------------------------------------------------
(* Properties *)

Stages == {"new", "egress", "link", "ingress", "ready", "owed", "done"}

\* Egress and ready queues, link and ingress hold what they should, and the
\* signed counter egress_credits_ never becomes negative.
TypeOK ==
  /\ credits \in [Port -> Nat]
  /\ egress \in [Port -> Seq(Packet)]
  /\ link \in [Port -> Seq(Item)]
  /\ ingress \in [Port -> Seq(Packet)]
  /\ ready \in [Port -> Seq(Packet)]
  /\ stage \in [Packet -> Stages]

OnLink(p, kind) ==
  {link[p][i].pkt : i \in {j \in 1 .. Len(link[p]) : link[p][j].kind = kind}}

\* What p has sent and its peer's owner has not taken yet.
Held(p) ==
  OnLink(Peer[p], "event") \cup Elements(ingress[Peer[p]])
                           \cup Elements(ready[Peer[p]])

\* What was taken and whose credit event is on its way back to p.
Owed(p) == OnLink(p, "credit")

\* No byte of credit is lost or made: what a port may still send, what its
\* peer holds and what is on the way back add up to the configured capacity
\* (egress_credits_ / egress_credit_cap_ of fabric_port.cc).
CreditConservation ==
  \A p \in Port :
    ~ Unlimited(p) =>
      credits[p] + BytesOf(Held(p)) + BytesOf(Owed(p)) = CreditCapacity(p)

\* Credits gate the sender: the unbounded ingress of the receiver never holds
\* more bytes than the sender's credit capacity ("credits gate ingress").
IngressBounded ==
  \A p \in Port :
    ~ Unlimited(p) => BytesOf(Held(p)) <= CreditCapacity(p)

\* Every event is in at most one place, once: no queue of the two ports and
\* no link duplicates it, and none keeps an event that was taken.
Places == {"egress", "link", "ingress", "ready"} \X Port

EventsAt(place) ==
  LET p == place[2]
  IN  CASE place[1] = "egress"  -> egress[p]
        [] place[1] = "link"    -> [i \in 1 .. Len(link[p]) |-> link[p][i].pkt]
        [] place[1] = "ingress" -> ingress[p]
        [] place[1] = "ready"   -> ready[p]

AtMostOnce ==
  \A a, b \in Places :
    \A i \in 1 .. Len(EventsAt(a)), j \in 1 .. Len(EventsAt(b)) :
      EventsAt(a)[i] = EventsAt(b)[j] => a = b /\ i = j

\* The clamp of add_credit is never what decides: every credit event that
\* arrives raises the credits by all of its bytes.
NoCreditClamped ==
  [][\A p \in Port :
       ArriveCredit(p) /\ ~ Unlimited(p) =>
         credits'[p] = credits[p] + Bytes[Head(link[p]).pkt]]_vars

\* No event that fits the capacity is stuck behind missing credits: what was
\* accepted for sending is taken by the peer's owner and its credit returns.
Payable(m) ==
  Unlimited(Source[m]) \/ Bytes[m] <= CreditCapacity(Source[m])

EventuallyTaken ==
  (\A m \in Packet : Payable(m)) =>
    \A m \in Packet : stage[m] = "egress" ~> stage[m] = "done"

-----------------------------------------------------------------------------
(* The ports implement the credit window *)

WindowState ==
  [m \in Packet |->
     CASE stage[m] = "new" -> "new"
       [] stage[m] = "egress" -> "waiting"
       [] stage[m] \in {"link", "ingress", "ready"} -> "sent"
       [] stage[m] = "owed" -> "delivered"
       [] stage[m] = "done" -> "settled"]

CW == INSTANCE CreditWindow WITH
        state <- WindowState,
        Window <- [p \in Port |-> CreditCapacity(p)],
        Backlog <- QueueSize

\* The queues and credit counters of two connected ports implement a window
\* of link_queue_size * 64 unacknowledged bytes with exactly-once delivery.
ImplementsWindow == CW!Spec
=============================================================================
