----------------------------- MODULE CxlSystem -----------------------------
(***************************************************************************)
(* Nodes, the switch and the memory pools, joined by links.                *)
(*                                                                         *)
(* A node is what of csimCore (cscore.cc) and of its LLC (cache.cc) takes  *)
(* part in remote accesses: the MSHR entries of remote blocks, the queue   *)
(* of remote requests, and the reset event at the end of the warm-up.  The *)
(* rest of the LLC is left open: any block without an MSHR entry may miss, *)
(* and a fill may evict any dirty remote block.                            *)
(***************************************************************************)
EXTENDS Switch, CXLMemoryPool

CONSTANTS
  Target,           \* Target[b]: the pool of block b in the AddressMap
  MSHR_SIZE,        \* of the LLC
  RemoteQueueSize,  \* remote_link_queue_size (0: no limit)
  WarmUp,           \* the nodes with warmup_insts > 0
  MaxWrites         \* MaxWrites[n]: bound on the writebacks of node n

ASSUME SystemAssumption ==
  /\ Target \in [Block -> Pool]
  /\ MSHR_SIZE \in Nat
  /\ RemoteQueueSize \in Nat
  /\ WarmUp \subseteq Node
  /\ MaxWrites \in [Node -> Nat]

VARIABLES
  waiting,  \* blocks with an MSHR entry that waits for the remote response
  filled,   \* blocks with an MSHR entry whose data is there
  queue,    \* remote_link_queue, or remote_outbox, of each node
  warm,     \* warmup_done of each node
  writes    \* history: how many writebacks each node has issued

nodeVars == <<waiting, filled, queue, warm, writes>>

vars == <<switchVars, poolVars, nodeVars, up, down>>

-----------------------------------------------------------------------------
(* Nodes *)

NodeInit ==
  /\ waiting = [n \in Node |-> {}]
  /\ filled = [n \in Node |-> {}]
  /\ queue = [n \in Node |-> << >>]
  /\ warm = [n \in Node |-> FALSE]
  /\ writes = [n \in Node |-> 0]

NodeState(n) ==
  [waiting |-> waiting[n], filled |-> filled[n], queue |-> queue[n],
   writes |-> writes[n]]

\* enqueue_remote_request() does not refuse.
HasRoom(s) == RemoteQueueSize = 0 \/ Len(s.queue) < RemoteQueueSize

\* handle_fill evicts dirty remote block v; without room in the queue of
\* remote requests it fails and is tried again.
WithWriteback(n, s, v) ==
  [s EXCEPT !.queue = Append(@, Write(n, Target[v], v, s.writes + 1)),
            !.writes = @ + 1]

CanWriteback(n, s) == HasRoom(s) /\ s.writes < MaxWrites[n]

\* handle_fill: for an MSHR entry whose data is there, or for a write that
\* missed, which has no entry.
AfterFill(n, s) ==
  LET retired == {[s EXCEPT !.filled = @ \ {b}] : b \in s.filled}
  IN  {s} \cup retired
        \cup {WithWriteback(n, t, v) :
                t \in {u \in {s} \cup retired : CanWriteback(n, u)}, v \in Block}

\* Mutant of AfterMiss: the MSHR entries are not searched for the block.
AfterMissUnmerged(n, s) ==
  {s} \cup
  {[s EXCEPT !.queue = Append(@, Read(n, Target[b], b)),
             !.waiting = @ \cup {b}] :
     b \in IF HasRoom(s) THEN Block ELSE {}}

\* handle_miss: a miss on a block with an MSHR entry is merged into it.
AfterMiss(n, s) ==
  LET missing == Block \ (s.waiting \cup s.filled)
      possible == HasRoom(s)
                    /\ Cardinality(s.waiting \cup s.filled) < MSHR_SIZE
  IN  {s} \cup
      {[s EXCEPT !.queue = Append(@, Read(n, Target[b], b)),
                 !.waiting = @ \cup {b}] :
         b \in IF possible THEN missing ELSE {}}

\* champsim_tick: the LLC, then advance_remote_requests with what bandwidth
\* and latency release, then the end of the warm-up.
NodeClock(n) ==
  \E s \in UNION {AfterMiss(n, t) : t \in AfterFill(n, NodeState(n))} :
    \E k \in 0 .. Len(s.queue), warmup_done \in {warm[n], n \in WarmUp} :
      \E batch \in Orders(First(s.queue, k)) :
        /\ waiting' = [waiting EXCEPT ![n] = s.waiting]
        /\ filled' = [filled EXCEPT ![n] = s.filled]
        /\ writes' = [writes EXCEPT ![n] = s.writes]
        /\ queue' = [queue EXCEPT ![n] = Rest(s.queue, k)]
        /\ warm' = [warm EXCEPT ![n] = warmup_done]
        /\ up' = [up EXCEPT ![n] =
             (@ \o batch)
               \o (IF warm[n] = warmup_done THEN << >> ELSE <<Reset(n, n)>>)]
        /\ UNCHANGED down

\* handleEvent_CXL: a control event, and so a credit event, is dropped; a
\* response brings the data of an MSHR entry.
NodeArrive(n) ==
  /\ down[n] # << >>
  /\ LET answered == {Head(down[n])} \cap {Response(p, n, b) : p \in Pool, b \in Block}
         blocks == {ev.block : ev \in answered}
     IN  /\ waiting' = [waiting EXCEPT ![n] = @ \ blocks]
         /\ filled' = [filled EXCEPT ![n] = @ \cup blocks]
  /\ down' = [down EXCEPT ![n] = Tail(@)]
  /\ UNCHANGED <<queue, warm, writes, up>>

-----------------------------------------------------------------------------
Init ==
  /\ SwitchInit
  /\ PoolInit
  /\ NodeInit
  /\ up = [i \in Id |-> << >>]
  /\ down = [i \in Id |-> << >>]

NodeTick(n) == NodeClock(n) /\ UNCHANGED <<switchVars, poolVars>>

NodeReceive(n) == NodeArrive(n) /\ UNCHANGED <<switchVars, poolVars>>

SwitchClock == SwitchTick /\ UNCHANGED <<poolVars, nodeVars>>

SwitchReceive(i) == SwitchArrive(i) /\ UNCHANGED <<poolVars, nodeVars>>

PoolWork(p) == PoolClock(p) /\ UNCHANGED <<switchVars, nodeVars>>

PoolReceive(p) == PoolArrive(p) /\ UNCHANGED <<switchVars, nodeVars>>

Next ==
  \/ \E n \in Node : NodeTick(n) \/ NodeReceive(n)
  \/ SwitchClock
  \/ \E i \in Id : SwitchReceive(i)
  \/ \E p \in Pool : PoolWork(p) \/ PoolReceive(p)

Spec == Init /\ [][Next]_vars

\* What a tick of the switch does when no ingress queue releases anything.
QuietTick == FoldLeft(LAMBDA s, i : Poll(s, i, << >>), Now, PollOrder)

\* A tick of the pool does something even so.
PoolHasWork(p) ==
  \/ switchPort[p].ready # << >>
  \/ Drained(switchPort[p]) # << >>
  \/ returned[p] # << >> /\ CanSend(switchPort[p])

Shorter(new, old) == Len(new) < Len(old)

\* The clocks of all components tick for ever, a link delivers what it holds,
\* and bandwidth and latency hold nothing back for ever: neither the queue of
\* remote requests of a node, nor the ingress queue of a port, nor the memory
\* controller of a pool, which has a latency for each request.  A line with
\* []<> twice is weak fairness of a part of a tick, written out: that part is
\* again and again impossible, or again and again done.  (For WF_vars, TLC
\* would enumerate all ticks of a component to see what is possible.)
NodeFairness(n) ==
  /\ WF_vars(NodeReceive(n))
  /\ []<>(queue[n] = << >>) \/ []<><<Shorter(up[n], up'[n])>>_vars

SwitchFairness ==
  /\ \/ []<>(QuietTick = Now)
     \/ []<><<up' = up /\ (port' # port \/ down' # down)>>_vars
  /\ \A i \in Id :
       /\ WF_vars(SwitchReceive(i))
       /\ \/ []<>(port[i].ingress = << >>)
          \/ []<><<Shorter(port'[i].ingress, port[i].ingress)>>_vars

PoolFairness(p) ==
  /\ WF_vars(PoolReceive(p))
  /\ \/ []<>(~ PoolHasWork(p))
     \/ []<><<down' = down /\ switchPort'[p] # switchPort[p]>>_vars
  /\ \/ []<>(switchPort[p].ingress = << >>)
     \/ []<><<Shorter(switchPort'[p].ingress, switchPort[p].ingress)>>_vars
  /\ \A n \in Node, b \in Block : []<>(Read(n, p, b) \notin mem[p])

Fairness ==
  /\ \A n \in Node : NodeFairness(n)
  /\ SwitchFairness
  /\ \A p \in Pool : PoolFairness(p)

FairSpec == Spec /\ Fairness

-----------------------------------------------------------------------------
(* Properties *)

\* The reads of n for block b and the responses to them; the copies of n's
\* k-th writeback; the copies of n's reset event.
ReadOf(n, b) == {Read(n, p, b) : p \in Pool}

RspTo(n, b) == {Response(p, n, b) : p \in Pool}

WriteOf(n, k) == {Write(n, p, b, k) : p \in Pool, b \in Block}

ResetOf(n) == {Reset(n, i) : i \in Id}

\* What has left n's LLC and was not routed by the switch.
Upstream(n) == queue[n] \o up[n] \o port[n].ingress \o port[n].ready

\* What the switch has routed to pool p and p has not taken.
Downstream(p) ==
  port[p].egress \o down[p] \o switchPort[p].ingress \o switchPort[p].ready

\* How many of the requests in S were routed to p and not served by its memory.
AtPool(p, S) == Copies(Downstream(p), S) + Cardinality(S \cap mem[p])

\* The responses of p that the switch has not routed.
FromPool(p) ==
  switchPort[p].egress \o up[p] \o port[p].ingress \o port[p].ready

ToNode(n) == port[n].egress \o down[n]

PortOK(q, size) ==
  /\ q.size = size
  /\ q.credits \in 0 .. Capacity(q)

TypeOK ==
  /\ \A i \in Id : PortOK(port[i], SwitchQueue)
  /\ \A p \in Pool : PortOK(switchPort[p], PoolQueue)
  /\ rr \in 0 .. NumPools - 1
  /\ \A n \in Node : writes[n] \in 0 .. MaxWrites[n]
  /\ warm \in [Node -> BOOLEAN]
  /\ waiting \in [Node -> SUBSET Block]
  /\ filled \in [Node -> SUBSET Block]

\* The sum of f over the pools.
SumOverPools(f) ==
  Total([k \in 1 .. NumPools |-> f[PoolBase + k - 1]], 1 .. NumPools, NumPools)

\* Each MSHR entry that waits has exactly one read or response in the whole
\* system, wherever queues are full and credits are missing, and a block
\* without such an entry has none: handle_remote_response always finds the
\* entry it asserts (cache.cc), and no request is lost or duplicated.
OneAnswerPerMiss ==
  \A n \in Node, b \in Block :
    LET inPool == [p \in Pool |-> AtPool(p, ReadOf(n, b))
                                  + Copies(returned[p], ReadOf(n, b))
                                  + Copies(FromPool(p), RspTo(n, b))]
    IN  Copies(Upstream(n), ReadOf(n, b)) + SumOverPools(inPool)
          + Copies(ToNode(n), RspTo(n, b))
        = IF b \in waiting[n] THEN 1 ELSE 0

\* pending_ has exactly the requests that are in the pool's memory or wait to
\* be sent: no entry leaks and no response finds its entry gone.  The ports keep
\* their bounds.
PendingMatches ==
  /\ TypeOK
  /\ \A p \in Pool : pending[p] = Reads(mem[p]) \cup Elements(returned[p])

\* How often the event that is ev at p has come to p.
Came(p, S) == AtPool(p, S) + Cardinality(S \cap performed[p])

\* A reset event, and with replicate_writes a writeback, is at the switch or
\* before it and at no pool, or else has come to every pool exactly once: a
\* full egress queue never leaves a broadcast half done.
AllPoolsOrNone ==
  \A n \in Node :
    /\ \A k \in 1 .. writes[n] :
         ReplicateWrites =>
           LET here == Copies(Upstream(n), WriteOf(n, k))
           IN  here \in {0, 1} /\ \A p \in Pool : Came(p, WriteOf(n, k)) = 1 - here
    /\ warm[n] =>
         LET here == Copies(Upstream(n), ResetOf(n))
         IN  here \in {0, 1} /\ \A p \in Pool : Came(p, ResetOf(n)) = 1 - here

\* Without replication a writeback comes to exactly one pool.
OneWriteback ==
  ~ ReplicateWrites =>
    \A n \in Node : \A k \in 1 .. writes[n] :
      Copies(Upstream(n), WriteOf(n, k))
        + SumOverPools([p \in Pool |-> Came(p, WriteOf(n, k))]) = 1

\* On the links between switch and pools no byte of credit is lost or made,
\* in either direction, whatever the two components do in their ticks.
PoolLinksSettled ==
  \A p \in Pool :
    /\ Settled(port[p], down[p], switchPort[p], up[p])
    /\ Settled(switchPort[p], up[p], port[p], down[p])

\* Every remote miss is answered in the end, so that its MSHR entry can be
\* freed: nothing on the way through switch and pool waits for ever.
ReadsAnswered ==
  \A n \in Node, b \in Block : b \in waiting[n] ~> b \notin waiting[n]

\* The reset event of a node comes to every pool in the end.
ResetsSeen ==
  \A n \in Node :
    warm[n] ~> \A p \in Pool : Reset(n, p) \in performed[p]

-----------------------------------------------------------------------------
\* "Ingress is unbounded to avoid drops; credits gate senders" (inc/fabric_port.h:49):
\* what the switch holds of a node is within the capacity of the link.
NodeIngressBounded ==
  \A n \in Node :
    \/ Unlimited(port[n])
    \/ BytesIn(port[n].ingress) + BytesIn(port[n].ready) <= Capacity(port[n])
=============================================================================
