----------------------------- MODULE LatBwQueue -----------------------------
(***************************************************************************)
(* lat_bw_queue with a fixed latency (src/lat_bw_queue.cc), as the ports   *)
(* and the nodes configure it: bandwidth, then latency.  A packet first    *)
(* waits in blocked_queue until all its bytes are sent, at the bytes per   *)
(* cycle that the bandwidth allows, then for the latency in active_queue.  *)
(*                                                                         *)
(* Bandwidth is given in cycles per 64 bytes, and the bytes of a cycle are *)
(* the double 64.0 / bw_cycles.  Bytes are counted here in units, so many  *)
(* of a byte that this double is a whole number of them: what the code     *)
(* subtracts from each other are then whole numbers, and a difference is   *)
(* rounded when it has more bits than a double has.  Times count from now. *)
(***************************************************************************)
EXTENDS Integers, FiniteSets, Sequences, Queues, SequencesExt

CONSTANTS
  NumPackets,  \* how many packets are ever added
  Bytes,       \* Bytes[m]: bw_cost_fn of packet m
  BwCycles,    \* cycles per 64 bytes
  Unit,        \* units of a byte
  Significand, \* up to this number a double holds every whole number (2^53)
  Latency,     \* latency in cycles
  MaxPending   \* max_pending (0: no limit)

Packet == 1 .. NumPackets

\* a / b to the nearest whole number, a half to the even one.
Nearest(a, b) ==
  LET q == a \div b
      twice == 2 * (a % b)
  IN  IF twice > b \/ (twice = b /\ q % 2 = 1) THEN q + 1 ELSE q

\* peak_bw_per_cycle: the units sent in a cycle.
Peak == Nearest(64 * Unit, BwCycles)

\* What a packet has to send.
Cost(m) == Bytes[m] * Unit

\* The difference of two doubles, which is x: beyond Significand a double holds only
\* the even numbers, beyond twice that those that 4 divides, and so on.
Rounded(x) ==
  IF x <= Significand THEN x
  ELSE LET g == Min({2 ^ i : i \in {j \in 1 .. BwCycles : x <= Significand * 2 ^ j}})
       IN  g * Nearest(x, g)

\* The costs are doubles, and the unit is that of the last bit of the peak bandwidth,
\* unless all its bits fit.
QueueAssumption ==
  /\ NumPackets \in Nat
  /\ Bytes \in [Packet -> Nat \ {0}]
  /\ BwCycles \in Nat \ {0}
  /\ Unit \in Nat \ {0}
  /\ \E i \in 1 .. 53 : Significand = 2 ^ i
  /\ Peak * BwCycles = 64 * Unit \/ (Significand <= 2 * Peak /\ Peak <= Significand)
  /\ \A m \in Packet : Cost(m) <= Significand * 2 ^ BwCycles /\ Rounded(Cost(m)) = Cost(m)
  /\ Latency \in Nat \ {0}
  /\ MaxPending \in Nat

\* Nothing is ever rounded: bw_cycles is a power of two (it is 1 unless configured).
Exact ==
  /\ Peak * BwCycles = 64 * Unit
  /\ \A m \in Packet : Cost(m) <= Significand

VARIABLES
  blocked,  \* blocked_queue: packets and their remaining bytes
  active,   \* active_queue: packets and the cycles to their completion
  added,    \* how many packets were added
  out,      \* history: the packets handed out by on_tick
  due       \* history: in how many cycles each packet should come out

vars == <<blocked, active, added, out, due>>

\* The units that the first k packets of q have left to send.
LeftUpTo(q, k) == Total([i \in 1 .. Len(q) |-> q[i].left], 1 .. Len(q), k)

\* The cycles that so many units take at 64 bytes in BwCycles.
Cycles(units) == (units * BwCycles + 64 * Unit - 1) \div (64 * Unit)

Init ==
  /\ blocked = << >>
  /\ active = {}
  /\ added = 0
  /\ out = << >>
  /\ due = [m \in Packet |-> 0]

-----------------------------------------------------------------------------
\* Mutant of IsFull: off by one.
IsFullLate ==
  MaxPending > 0 /\ Len(blocked) + Cardinality(active) > MaxPending

\* is_full()
IsFull == MaxPending > 0 /\ Len(blocked) + Cardinality(active) >= MaxPending

\* add_packet() of the next packet, when the queue is not full.
AddPacket ==
  LET m == added + 1
  IN  /\ added < NumPackets
      /\ ~ IsFull
      /\ blocked' = Append(blocked, [pkt |-> m, left |-> Cost(m)])
      /\ added' = m
      /\ due' = [due EXCEPT ![m] = Cycles(LeftUpTo(blocked, Len(blocked)) + Cost(m)) + Latency]
      /\ UNCHANGED <<active, out>>

\* Mutant of PopOrders: only the first complete packet is handed out.
PopFirst(S) == {First(q, IF S = {} THEN 0 ELSE 1) : q \in SetToSeqs(S)}

\* The orders in which the priority queue gives out what is complete: with a
\* fixed latency all of it was injected in the same cycle, and the comparator
\* leaves the order open.
PopOrders(S) == SetToSeqs(S)

\* Mutant of Sent: the packet that uses up the cycle is not sent.
SentBelow(budget) ==
  CHOOSE k \in 0 .. Len(blocked) :
    /\ k = 0 \/ LeftUpTo(blocked, k) < budget
    /\ k < Len(blocked) => LeftUpTo(blocked, k + 1) >= budget

\* service_bandwidth: how many packets are sent to the last byte ...
Sent(budget) ==
  CHOOSE k \in 0 .. Len(blocked) :
    /\ LeftUpTo(blocked, k) <= budget
    /\ k < Len(blocked) => LeftUpTo(blocked, k + 1) > budget

\* Mutant of StillBlocked: what is left of the cycle is not used.
StillBlockedWhole(k, budget) == Rest(blocked, k)

\* ... and what is then still blocked: the next packet is sent in part.
StillBlocked(k, budget) ==
  [i \in 1 .. Len(blocked) - k |->
     IF i = 1
     THEN [blocked[k + 1] EXCEPT !.left = Rounded(@ - (budget - LeftUpTo(blocked, k)))]
     ELSE blocked[k + i]]

\* on_tick(): hand out what is complete, then send.
OnTick ==
  LET k == Sent(Peak)
      complete == {e \in active : e.left = 1}
  IN  /\ \E popped \in PopOrders(complete) :
           out' = out \o [i \in 1 .. Len(popped) |-> popped[i].pkt]
      /\ active' =
           {[e EXCEPT !.left = @ - 1] : e \in active \ complete}
             \cup {[pkt |-> blocked[i].pkt, left |-> Latency] :
                     i \in 1 .. k}
      /\ blocked' = StillBlocked(k, Peak)
      /\ due' = [m \in Packet |-> IF m <= added /\ m \notin Elements(out) THEN due[m] - 1
                                  ELSE due[m]]
      /\ UNCHANGED added

Next == AddPacket \/ OnTick

Spec == Init /\ [][Next]_vars

\* The clock of the owner ticks for ever.
FairSpec == Spec /\ WF_vars(OnTick)

-----------------------------------------------------------------------------
(* Properties *)

TypeOK ==
  /\ \A i \in 1 .. Len(blocked) :
       blocked[i].pkt \in Packet /\ blocked[i].left \in 1 .. Cost(blocked[i].pkt)
  /\ \A e \in active : e.pkt \in Packet /\ e.left \in 1 .. Latency
  /\ out \in Seq(Packet)

\* How far from its time a packet may leave.
Slack == IF Exact THEN 0 ELSE 1

Near(a, b) == a - b \in -Slack .. Slack

\* The queue's timing is what its parameters say, whatever is added or sent meanwhile:
\* a packet comes out when the bytes ahead of it and its own are sent at the given
\* bandwidth and the latency has passed; exactly then when no difference is rounded,
\* and else no more than a cycle earlier or later.
OnTime ==
  /\ \A i \in 1 .. Len(blocked) :
       Near(due[blocked[i].pkt], Cycles(LeftUpTo(blocked, i)) + Latency)
  /\ \A e \in active : Near(due[e.pkt], e.left)
  /\ \A i \in 1 .. Len(out) : Near(due[out[i]], 0)

\* The priority queue and the bandwidth queue together never hold more than
\* max_pending packets.
PendingBounded ==
  MaxPending > 0 => Len(blocked) + Cardinality(active) <= MaxPending

\* Every packet added is handed out.
EventuallyOut ==
  \A m \in Packet : m <= added ~> m \in Elements(out)

-----------------------------------------------------------------------------
(* The queue is a delay queue *)

Content ==
  SetToSortSeq({e.pkt : e \in active}, LAMBDA x, y : x < y)
    \o [i \in 1 .. Len(blocked) |-> blocked[i].pkt]

DQ == INSTANCE DelayQueue WITH content <- Content

\* With a fixed latency no packet overtakes one that was sent in an earlier
\* cycle: a tick hands out what has been in the queue longest, all of it once.
ImplementsDelayQueue == DQ!Spec
=============================================================================
