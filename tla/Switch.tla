------------------------------- MODULE Switch -------------------------------
(***************************************************************************)
(* The switch (switch.cc): one port for each node and each pool, polled in *)
(* this order by clock_tick.  A poll ticks the port and offers the head of *)
(* its ready queue to try_route_event, which refuses it when an egress     *)
(* queue that it needs is full: the event stays and blocks those behind    *)
(* it.                                                                     *)
(***************************************************************************)
EXTENDS FabricPorts

CONSTANTS
  SwitchQueue,      \* link_queue_size of the switch
  ReplicateWrites,  \* replicate_writes
  RoundRobin        \* pool_select_policy is round_robin and not fixed0

ASSUME SwitchAssumption ==
  /\ SwitchQueue \in Nat
  /\ ReplicateWrites \in BOOLEAN
  /\ RoundRobin \in BOOLEAN

VARIABLES
  port,  \* node_ports_ and pool_ports_, by the id of the component behind
  rr     \* rr_pool_idx_

switchVars == <<port, rr>>

\* What clock_tick works on.
Now == [port |-> port, rr |-> rr, down |-> down]

SwitchInit ==
  /\ port = [i \in Id |-> Configured(SwitchQueue)]
  /\ rr = 0

-----------------------------------------------------------------------------
(* Routing *)

\* Mutant of AllPoolsCanSend: one pool with room is enough.
SomePoolCanSend(s) == \E p \in Pool : CanSend(s.port[p])

AllPoolsCanSend(s) == \A p \in Pool : CanSend(s.port[p])

\* The pool at this distance from rr_pool_idx_.
PoolAt(s, offset) == PoolBase + ((s.rr + offset) % NumPools)

\* The distances at which pick_pool_index finds room.
Offsets(s) == {o \in 0 .. NumPools - 1 : CanSend(s.port[PoolAt(s, o)])}

\* The pool that pick_pool_index picks.
Picked(s) ==
  IF RoundRobin THEN PoolAt(s, Min(Offsets(s))) ELSE PoolBase

Broadcasts(ev) == ev.type = "reset" \/ (ev.type = "write" /\ ReplicateWrites)

\* try_route_event finds room for ev.
Accepts(s, ev) ==
  CASE Broadcasts(ev) -> AllPoolsCanSend(s)
    [] ev.type = "rsp" -> CanSend(s.port[ev.dst])
    [] OTHER -> IF RoundRobin THEN Offsets(s) # {}
                              ELSE CanSend(s.port[PoolBase])

\* reset_stats_and_broadcast, or the clones of a replicated write.  (A reset
\* keeps the node it comes from, which its clones lose in the code.)
Broadcast(s, ev) ==
  [s EXCEPT !.port =
     [i \in Id |-> IF i \in Pool
                   THEN Send(@[i], [ev EXCEPT !.dst = i])
                   ELSE @[i]]]

\* The event goes to one pool, whatever pool it was addressed to.
ToPicked(s, ev) ==
  LET p == Picked(s)
  IN  [s EXCEPT !.port[p] = Send(@, [ev EXCEPT !.dst = p]),
                !.rr = IF RoundRobin THEN (p - PoolBase + 1) % NumPools ELSE @]

\* try_route_event
Routed(s, ev) ==
  CASE Broadcasts(ev) -> Broadcast(s, ev)
    [] ev.type = "rsp" -> [s EXCEPT !.port[ev.dst] = Send(@, ev)]
    [] OTHER -> ToPicked(s, ev)

-----------------------------------------------------------------------------
(* Clock *)

\* Poll of port i when its ingress queue releases batch.
Poll(s, i, batch) ==
  LET ticked == [s EXCEPT !.port[i] = Ticked(@, batch),
                          !.down[i] = @ \o Drained(s.port[i])]
      ready == ticked.port[i].ready
  IN  IF ready = << >> \/ ~ Accepts(ticked, Head(ready))
      THEN ticked
      ELSE [Routed(ticked, Head(ready)) EXCEPT
              !.port[i] = Taken(@),
              !.down[i] = @ \o CreditFor(i, Head(ready))]

\* for_each_port: node ports first, then pool ports, each by number.
PollOrder == [k \in 1 .. NumNodes + NumPools |->
                IF k <= NumNodes THEN k - 1 ELSE PoolBase + k - NumNodes - 1]

\* The states in which the poll of port i may leave the switch.
Polled(s, i) == {Poll(s, i, batch) : batch \in Batches(s.port[i])}

\* All states in which a clock tick may leave the switch.
Outcomes ==
  LET after[k \in 0 .. Len(PollOrder)] ==
        IF k = 0 THEN {Now}
                 ELSE UNION {Polled(s, PollOrder[k]) : s \in after[k - 1]}
  IN  after[Len(PollOrder)]

SwitchTick ==
  /\ \E s \in Outcomes : port' = s.port /\ rr' = s.rr /\ down' = s.down
  /\ UNCHANGED up

\* handle_event: the source id of the event tells the port.
SwitchArrive(i) ==
  /\ up[i] # << >>
  /\ port' = [port EXCEPT ![Head(up[i]).src] = Arrived(@, Head(up[i]))]
  /\ up' = [up EXCEPT ![i] = Tail(@)]
  /\ UNCHANGED <<rr, down>>
=============================================================================
