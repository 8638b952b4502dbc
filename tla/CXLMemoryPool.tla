--------------------------- MODULE CXLMemoryPool ---------------------------
(***************************************************************************)
(* The memory pools behind the switch (cxl_mempool.cc) with their memory   *)
(* controller (my_memory_controller.cc).  A clock tick polls the port,     *)
(* runs the controller, and sends the responses for which the egress queue *)
(* has room.                                                               *)
(***************************************************************************)
EXTENDS FabricPorts

CONSTANTS PoolQueue  \* link_queue_size of the pools

ASSUME PoolAssumption == PoolQueue \in Nat

VARIABLES
  switchPort,  \* switch_port_ of each pool
  mem,         \* the requests in the memory controller of each pool
  returned,    \* mem_channel_.returned of each pool
  pending,     \* pending_: the requests that wait for their response
  performed    \* history: the writes performed and resets seen by each pool

poolVars == <<switchPort, mem, returned, pending, performed>>

PoolInit ==
  /\ switchPort = [p \in Pool |-> Configured(PoolQueue)]
  /\ mem = [p \in Pool |-> {}]
  /\ returned = [p \in Pool |-> << >>]
  /\ pending = [p \in Pool |-> {}]
  /\ performed = [p \in Pool |-> {}]

\* A writeback does not ask for a response, a read always does.
Reads(S) == {ev \in S : ev.type = "read"}

\* poll_ports: the handler takes the head of the ready queue, if there is one
\* (the PQ of mem_channel_ has no limit).
TakenFrom(ready) == First(ready, IF ready = << >> THEN 0 ELSE 1)

\* How many of the responses q try_send_response can send before the egress
\* queue is full.
Sendable(port, q) ==
  LET room == port.size - Len(port.egress)
  IN  IF Unlimited(port) \/ Len(q) <= room THEN Len(q) ELSE room

\* A response to a request without an entry in pending_ is dropped.
ResponsesTo(p, q) ==
  LET known == {i \in 1 .. Len(q) : q[i] \in pending[p]}
      nth(j) == CHOOSE i \in known : Cardinality({x \in known : x <= i}) = j
  IN  [j \in 1 .. Cardinality(known) |->
         Response(p, q[nth(j)].src, q[nth(j)].block)]

\* Mutant of Remembered: an entry is erased before its response is sent.
RememberedUntilReturned(p, returns, sent, taken) ==
  (pending[p] \ Elements(returns)) \cup Reads(taken)

\* pending_ when of the responses in returns those in sent were sent.
Remembered(p, returns, sent, taken) ==
  (pending[p] \ Elements(sent)) \cup Reads(taken)

\* clock_tick when the ingress queue releases batch and the controller is
\* done with the requests in done, whose responses it returns in this order:
\* latencies differ, so any of the requests may be complete.
PoolTick(p, batch, done, responses) ==
  LET ticked == Ticked(switchPort[p], batch)
      taken == TakenFrom(ticked.ready)
      credit == IF taken = << >> THEN << >> ELSE CreditFor(p, Head(taken))
      returns == returned[p] \o responses
      k == Sendable(ticked, returns)
      sent == First(returns, k)
  IN  /\ switchPort' = [switchPort EXCEPT ![p] =
           [ticked EXCEPT !.ready = Rest(@, Len(taken)),
                          !.egress = @ \o ResponsesTo(p, sent)]]
      /\ up' = [up EXCEPT ![p] = (@ \o Drained(switchPort[p])) \o credit]
      /\ mem' = [mem EXCEPT ![p] =
           (@ \ done) \cup {ev \in Elements(taken) : ev.type # "reset"}]
      /\ returned' = [returned EXCEPT ![p] = Rest(returns, k)]
      /\ pending' = [pending EXCEPT ![p] =
           Remembered(p, returns, sent, Elements(taken))]
      /\ performed' = [performed EXCEPT ![p] =
           @ \cup (done \ Reads(done))
             \cup {ev \in Elements(taken) : ev.type = "reset"}]
      /\ UNCHANGED down

PoolClock(p) ==
  \E batch \in Batches(switchPort[p]), done \in SUBSET mem[p] :
    \E responses \in SetToSeqs(Reads(done)) :
      PoolTick(p, batch, done, responses)

\* handle_event() of the port.
PoolArrive(p) ==
  /\ down[p] # << >>
  /\ switchPort' = [switchPort EXCEPT ![p] = Arrived(@, Head(down[p]))]
  /\ down' = [down EXCEPT ![p] = Tail(@)]
  /\ UNCHANGED <<mem, returned, pending, performed, up>>
=============================================================================
