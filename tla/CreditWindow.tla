---------------------------- MODULE CreditWindow ----------------------------
(***************************************************************************)
(* What a pair of FabricPorts promises to the switch and the memory pool,  *)
(* without queues, links or credit counters: a port has at most a window   *)
(* of bytes unacknowledged at any time, every event is delivered exactly   *)
(* once, and a port delivers at most one event per cycle.                  *)
(***************************************************************************)
EXTENDS Integers, FiniteSets, Queues

CONSTANTS
  Port, Peer, NumPackets, Source, Bytes,
  Window,   \* Window[p]: bytes that p may have unacknowledged
  Backlog   \* Backlog[p]: events that may wait at p (0: no limit on either)

Packet == 1 .. NumPackets

VARIABLE state

States == {"new", "waiting", "sent", "delivered", "settled"}

Of(p, states) == {m \in Packet : Source[m] = p /\ state[m] \in states}

BytesOf(S) == Total(Bytes, S, NumPackets)

Init == state = [m \in Packet |-> "new"]

Offer(p) ==
  \E m \in Of(p, {"new"}) :
    /\ Backlog[p] = 0 \/ Cardinality(Of(p, {"waiting"})) < Backlog[p]
    /\ state' = [state EXCEPT ![m] = "waiting"]

\* In one cycle p transmits some of what waits, within its window, and
\* delivers at most one event of its peer.  An event without bytes needs no
\* acknowledgement.
Cycle(p) ==
  \E out \in SUBSET Of(p, {"waiting"}), in \in SUBSET Of(Peer[p], {"sent"}) :
    /\ \A a, b \in in : a = b
    /\ \/ Backlog[p] = 0
       \/ BytesOf(Of(p, {"sent", "delivered"}) \cup out) <= Window[p]
    /\ state' = [m \in Packet |->
                   IF m \in out THEN "sent"
                   ELSE IF m \in in
                        THEN IF Bytes[m] = 0 THEN "settled" ELSE "delivered"
                        ELSE state[m]]

Acknowledge(p) ==
  \E m \in Of(p, {"delivered"}) : state' = [state EXCEPT ![m] = "settled"]

Next == \E p \in Port : Offer(p) \/ Cycle(p) \/ Acknowledge(p)

Spec == Init /\ [][Next]_state
=============================================================================
