---------------------------- MODULE MCFabricLink ----------------------------
(***************************************************************************)
(* A switch port and a pool port joined by a link, and the lat_bw_queue    *)
(* that is inside every port, at two bandwidths.  A behaviour is of one of *)
(* the three.                                                              *)
(*                                                                         *)
(* A queue of two packets (128 bytes) at the switch and of one at the      *)
(* pool.  The switch sends a read request of 8 bytes, two writes of 64     *)
(* of which the second has to wait for credits, and a control event, which *)
(* costs nothing; the pool sends two responses of 64 bytes.                *)
(***************************************************************************)
EXTENDS FabricLink

CONSTANTS switch, pool

VARIABLES
  part,                              \* the link or the queue
  blocked, active, added, out, due   \* the queue

queueVars == <<blocked, active, added, out, due>>

MCPort == {switch, pool}
MCPeer == [p \in MCPort |-> IF p = switch THEN pool ELSE switch]
MCSource == <<switch, switch, switch, switch, pool, pool>>
MCBytes == <<8, 64, 64, 0, 64, 64>>
MCQueueSize == [p \in MCPort |-> IF p = switch THEN 2 ELSE 1]

\* Reads of 8 bytes and writes of 64, at 64 bytes in two cycles: several reads are sent in
\* one cycle, a write needs two, and what follows it starts in the middle of a cycle.
Queue ==
  INSTANCE LatBwQueue WITH
    NumPackets <- 6, Bytes <- <<8, 8, 64, 8, 8, 64>>, BwCycles <- 2, Unit <- 1,
    Significand <- 128, Latency <- 3, MaxPending <- 5

\* 64 bytes in three cycles, with doubles of 7 bits: 64/3 is 85 quarters, whose bits are those
\* of 64/3 with 53 bits, the last ones as well (1010101), and which is rounded the same way.
Thirds ==
  INSTANCE LatBwQueue WITH
    NumPackets <- 6, Bytes <- <<64, 8, 8, 64, 8, 64>>, BwCycles <- 3, Unit <- 4,
    Significand <- 128, Latency <- 3, MaxPending <- 5

ASSUME Queue!QueueAssumption /\ Queue!Exact
ASSUME Thirds!QueueAssumption /\ ~ Thirds!Exact

MCInit == part \in {"link", "queue", "thirds"} /\ Init /\ Queue!Init

MCNext ==
  /\ UNCHANGED part
  /\ \/ part = "link" /\ Next /\ UNCHANGED queueVars
     \/ part = "queue" /\ Queue!Next /\ UNCHANGED vars
     \/ part = "thirds" /\ Thirds!Next /\ UNCHANGED vars

\* The clock of the owner of the queue ticks for ever.
MCSpec ==
  /\ MCInit /\ [][MCNext]_<<part, vars, queueVars>>
  /\ WF_queueVars(part = "queue" /\ Queue!OnTick)
  /\ WF_queueVars(part = "thirds" /\ Thirds!OnTick)

-----------------------------------------------------------------------------
\* A packet leaves the queue when bandwidth and latency say, to the cycle at a bandwidth that
\* doubles divide and within one cycle at 64/3 bytes, and blocked and active packets together
\* keep within max_pending (on_tick, service_bandwidth, is_full).
QueueOnTime ==
  /\ part = "queue" => Queue!TypeOK /\ Queue!OnTime /\ Queue!PendingBounded
  /\ part = "thirds" => Thirds!TypeOK /\ Thirds!OnTime /\ Thirds!PendingBounded

\* With a fixed latency a tick hands out what has been in the queue longest, and every packet
\* that is added comes out (add_packet, on_tick).
QueueDelivers == Queue!ImplementsDelayQueue /\ Queue!EventuallyOut
=============================================================================
