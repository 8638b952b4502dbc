# Verification of cscore_sstelem

cscore_sstelem is an SST element library: ChampSim-like nodes (`csimCore`: an out-of-order core, caches, page
walker, local memory), which reach memory pools (`CXLMemoryPool`) over links, directly or through a `Switch`. This
directory holds TLA+ models of it, TLC configurations that check them, and TLAPS proofs.

## 1. Inventory

Every clock handler and every link handler runs to completion: an SST component is never interrupted. Concurrency is
the order in which the handlers of different components run, what is on the links and in the channels meanwhile, and
the stages of a pipeline that share its buffers.

| Component | State | Operations | Hard behaviour | What makes it correct |
|---|---|---|---|---|
| `FabricPort` (`src/fabric_port.cc`) | egress credits, egress queue, ingress `lat_bw_queue`, ready queue | `send`, `tick`, `try_receive`, `handle_event` | credits and events cross on the link; a refused event is offered again | credit conserved and never negative; ingress within the capacity; each event delivered once |
| `lat_bw_queue` (`src/lat_bw_queue.cc`) | blocked FIFO with remaining bytes, active priority queue, clock | `add_packet`, `on_tick` | a packet sent in part; ties in the priority queue; one limit over two queues | departure when bandwidth and latency say; no overtaking across cycles; limit kept |
| `Switch` (`switch.cc`) | a port for each node and pool, `rr_pool_idx_` | `clock_tick` (poll every port, route), `handle_event` | head-of-line blocking, broadcasts into queues that are partly full, round robin past full queues | nothing lost or doubled; all pools or none |
| `CXLMemoryPool` (`cxl_mempool.cc`), `MY_MEMORY_CONTROLLER` | ports, memory queue, `returned`, `pending_` | `clock_tick`, `handle_event` of the port | completion in any order, responses that wait for the egress queue | each response finds its `pending_` entry; none leaks |
| `csimCore` (`cscore.cc`) | queue of remote requests, `warmup_done`, its caches and core | `champsim_tick`, `handleEvent_CXL` | the reset overtakes requests; no credits on its side of the link; end of the simulation | each remote miss answered once; it ends, and drained |
| `CACHE` (`src/cache.cc`) | tag array, MSHR, inflight writes, tag checks, translation stash, prefetch queue | `operate`, `handle_remote_response`, `prefetch_line` | merging of misses, fills that fail and are retried, translations whose walk reads through the same cache, remote and local misses together | each requester answered once; a block read once; no dirty data lost, whatever copies writebacks bring |
| `channel` (`src/channel.cc`) | RQ, WQ, PQ, `returned` | `add_rq`, `add_wq`, `add_pq`, `check_collision` | merging and forwarding among queues | a response for everything merged; no read passes a write |
| `PageTableWalker` (`src/ptw.cc`) | PSCLs, MSHR, finished, completed | `operate`, `finish_packet` | several walks of different depth over one bandwidth, one block for two walks | each walk answered once; PSCLs hold the right level |
| `VirtualMemory` (`src/vmem.cc`), `AddressMap` (`src/address_map.cc`) | free pages, page tables; ranges | `va_to_pa`, `get_pte_pa`; `load`, `lookup` | two users of one free list; ranges in any order | one use for a page; the lookup finds the range |
| `O3_CPU` (`src/ooo_cpu.cc`), `RegisterAllocator` | pipeline buffers, ROB, LQ, SQ, physical registers | fetch ... retire | out-of-order completion, store forwarding, register reuse, two paths to dispatch, mispredictions | retirement and stores in order; loads see older stores; a register has one owner |
| replacement policies, `lru_table` | per-set state | update, victim | ties, calls that are repeated | evicts what was used least recently |
| branch predictors, BTB, prefetchers | tables, histories, queues | predict, update, operate, cycle | saturation, partial words, shared entries | they learn; tables and counters agree; assertions hold |
| DRAM controller of ChampSim (`src/dram_controller.cc`) | queues, banks, data bus, mode, refresh | `operate` | mode changes that take requests back, refreshes meanwhile | banks and requests agree; every request served |
| trace input (`inc/tracereader.h`, `inc/inf_stream.h`) | buffers of three layers | refill, read | chunks that end anywhere, one instruction held back | all but the last delivered, in order |
| `operable`, clock, bandwidth | local time | `operate_on` | | steps of the components above |
| builders, printers, legacy files, scripts | | | | not modelled |

Interaction: the core asks L1I and L1D over channels, each cache its lower level over a channel, TLBs the page table
walker, the walker the L1D. The LLC hands misses of pool ranges to `csimCore`, which sends them: node --raw link-->
switch port (or pool port) --FabricPort link--> pool. Requests carry source and destination in the payload; the switch
overwrites the destination when it picks a pool; the pool answers to the source. A `FabricPort` returns the bytes of
what its owner takes as a credit event on the same link.

`PROJECT.json` lists all components with their status, and the hazards of the code with the properties that cover
them.

## 2. Modules

| Module | What it models |
|---|---|
| `Queues` | operators on sequences that the others share, stages of a pipeline as folds, and `Total`, a sum over a set of numbers |
| `FabricLink`, `CreditWindow` | any number of ports, connected in pairs; what a pair promises: a window of unacknowledged bytes, each packet delivered once |
| `LatBwQueue`, `DelayQueue` | `lat_bw_queue` with time; the same without time: batches leave oldest first |
| `FabricPorts`, `Switch`, `CXLMemoryPool`, `CxlSystem` | a port as a value; the switch; the pools; nodes (remote path and LLC) composed with both |
| `Channel`, `ChannelSystem` | a channel as a value; one with the levels above and below |
| `Cache`, `CacheSystem` | a cache; with upper levels, TLB and walk, lower level and pools |
| `VirtualMemory`, `PageTableWalker` | physical memory and page table; the walker over it, in cycles |
| `AddressMap` | loading, sorting and looking up ranges |
| `RegisterAllocator` | renaming with the window of register uses |
| `O3FrontEnd`, `O3BackEnd`, `O3_CPU` | trace to dispatch, with what both halves share; dispatch to retirement; each half alone and the whole processor with the end of the simulation |
| `Architecture` | what a processor promises: which instructions have retired and which stores have left, both in program order |
| `TraceReader` | chunks, inflating, reading, instruction buffer |
| `LruTable`, `RecencyList` | `lru_table`; what it promises: a list of the entries used last |
| `Replacement` | lru; srrip, ship and drrip, with the calls that `CACHE` makes |
| `BranchPredictors`, `BasicBtb` | the four predictors; the target buffer with return stack and indirect predictor |
| `Spp`, `IpStride`, `Ampm` | the three prefetchers with state; `Spp` ends with the proofs about its pattern table |
| `DramChannel`, `DramAddress` | the DRAM controller with one channel; its permuted mapping |
| `LinkProofs`, `CxlProofs`, `RegisterProofs`, `MemoryProofs`, `DramProofs` | proofs about the modules above; `LinkProofs` is about `FabricLink`, `LatBwQueue` and `ChannelSystem`, `MemoryProofs` about `VirtualMemory`, `AddressMap` and `PageTableWalker` |
| `QueueLemmas`, `StageLemmas` | the algebra of `Queues`: sums, elements and counts; what a stage (`Through`) keeps |
| `MCFabricLink`, `MCCxlSystem`, `MCCache`, `MCMemory`, `MCCore`, `MCPolicies`, `MCLive` | instances for TLC |

Components that do not act on each other share a run: in `MCFabricLink`, `MCCache` (`level`), `MCMemory`, `MCCore`,
`MCPolicies` and `MCLive` (`part`) a variable that never changes says which component a behaviour is of; the variables
of the others keep their initial values, and each property is about one component. Their actions are those of the
component's own module, instantiated.

### Correspondence with the code

*FabricLink.* `credits`, `egress`, `ingress`, `ready` are the fields of a port; `link[p]` is the SST link towards `p`,
which keeps order. `stage` is a history variable. `Send` is `send()` after `can_send()`. `Clock` is the first
`try_receive()` of a cycle, with the `tick()` in it: `tick_ingress` releases a batch, `drain_egress` sends what the
credits pay for (`Drains`: as much as possible, not less), and the owner's handler refuses (`Refuse`) or takes
(`Accept`) the head of the ready queue. A second `try_receive()` in a cycle returns at once and is no action.
`ArriveEvent` and `ArriveCredit` are `handle_event()`. The infinite credit of the code is `Unlimited`.

*LatBwQueue.* `OnTick` does all of `on_tick`: hand out what is complete, then `service_bandwidth`. The bytes of a cycle,
`64.0 / bw_cycles`, and the remaining bytes are doubles. Bytes are counted in units of the last bit of the quotient
(`Unit` to a byte), `Nearest` is the rounding of the division, and `Rounded` that of a difference with more bits than
`Significand` has; what is left of a cycle and what it sends are smaller than the quotient, and need no rounding. Times
count from now. Covered is the fixed latency, which ports and nodes use;
with the utilization-based latency of the memory controllers packets may overtake, which is why a pool's memory is a
set in `CXLMemoryPool`.

*Switch.* `SwitchTick` is the whole of `clock_tick`: `Outcomes` folds `Poll` over the ports in the order of
`for_each_port` and collects all states that the releases of the ingress queues allow. `Accepts` holds the conditions
under which `try_route_event` returns false, `Routed` what it does. `Send` drops an event when the queue is full, as
the code does after a failed `send`: that this never happens is what the properties show.

*CXLMemoryPool.* `PoolTick` is `clock_tick`: poll, `operate` of the memory controller, the loop of
`try_send_response`. `pending` is keyed by the request, where the code has a tag. `performed` is a history variable.

*CxlSystem.* `NodeClock` is what `champsim_tick` does for remote accesses: the LLC (`AfterFill`, then `AfterMiss`),
then `advance_remote_requests`, then the reset event at the end of the warm-up. One tick of the model does at most
one fill and one miss; more in a cycle of the code are several ticks of the model that send nothing. What the LLC
holds is left open here: any block without an MSHR entry may miss, any dirty remote block may be evicted. `NodeArrive`
is `handleEvent_CXL`, which drops credit events.

*Cache.* `Operate` is the whole of `CACHE::operate`, as a fold of its stages over a record (`Now`, `Become`): finished
packets, finished translations, fills (`Fills`: MSHR then inflight writes, up to the bandwidth and the first that is
not ready or fails), new tag checks (`Initiate`: stash, the queues of the upper levels in rotation, prefetch queue),
translations, then hits, writes and misses of the tag checks that are ready (`CheckTags`). What the stages leave to
others is a nondeterministic choice: the victim (`Replacement` models the policies) and prefetches. Waits count down.
Whether a miss or a writeback goes to a pool is decided by the virtual address that came with the request (`InPool`,
`cache.cc:234`, `cache.cc:444`), which tags, MSHR entries and blocks carry along. Only the LLC has a map and a way to
send (`cscore.cc:382-391`); the other instances have `Remote = {}`.

*CacheSystem* has around it what the builders wire to a cache: upper levels with bounded requests,
a lower level and pools that answer in any order, a TLB. `Asks` says what each level asks for, and `Asking` with which
virtual address: that of the access, that of the translation for a read of the page table, none (`Zero`) for a
prefetch by physical address. For an L1D the translation needs a walk, `Walked`, whose read
goes through the same cache.

*PageTableWalker, VirtualMemory.* `Operate` has the stages of `operate` in its order: finished, completed, fills,
reads, insertions. The walker is a record; `StepTranslation`, `HandleRead`, `HandleFill` are the functions of those
names. `VaToPa` and `GetPtePa` return the new memory; in the part `memory` they are called in any order by anyone.

*O3_CPU.* `BackStages` and `FrontStages` call the stages in the order of `O3_CPU::operate`, from retirement back to
fetching; each stage is an operator of the function's name. `beyond` is what the registers beyond the table are for
`isAllocated` (see section 5). A branch of a program carries what the predictor makes of it: right, wrong target or
wrong direction. The DIB is the list of the windows used last. `L1ITakes`, `L1IResponds`, `L1DTakes`, `L1DResponds`
are the caches: they take when they like and answer in any order. `history` has, in the order in which they happen,
the retired instructions and the stores that have left; these two sequences are what `Architecture` sees. As systems of their own, the halves have
environments that do more than the other half would.

*RegisterAllocator.* Operations on a record, which `O3BackEnd` uses; the module's own actions are the calls of
`do_scheduling` and `retire_rob`.

*TraceReader.* A file is a sequence of units of compressed data, each with the instructions that become known with it.
The three layers (`Inflate` in a stream buffer, the read of a stream, `bulk_tracereader`) keep their buffers.

*Replacement.* Hits and fills as `CACHE` makes them. srrip, ship and drrip have no `replacement_cache_fill`, and
`impl_update_replacement_state` gives such a policy only the hits: the code of these three for a miss, with insertion
policies, selectors and samplers, does not run, and is not modelled.

*BranchPredictors* has a loop of instructions; a prediction is asked for every instruction and a result is told of
every branch at once, as `do_predict_branch` does. *BasicBtb* gets jumps, calls and returns with a history of callers.
*Spp, IpStride, Ampm* get any sequence of accesses; the queue of the cache may refuse. A lookahead of `Spp` ends where
the code would run past `confidence_q` (section 5).

*DramChannel* has one channel below one upper level, in cycles; of ready times it keeps the order. *DramAddress*
runs `swizzle_bits` bit by bit for two addresses.

## 3. Runs

| Run | Parts | Shows |
|---|---|---|
| `fabric_link` | a switch port (2 packets) and a pool port (1 packet), events of 8, 64, 64, 0 and 64, 64 bytes; a queue at 64 bytes in 2 cycles and one at 64 in 3 with doubles of 7 bits, latency 3, limit 5 | credits conserved, ingress bounded, each event once, no credit clamped, refinement of `CreditWindow`; timing exact, with rounding within a cycle; refinement of `DelayQueue`, everything comes out |
| `cxl_shared` | 2 nodes, 2 pools, all queues of one packet, round robin, one block, one writeback | nothing lost or doubled end to end, `pending_` exact, credits conserved |
| `cxl_replicate` | 1 node, 2 pools, replicated writes, reset, fixed0 | broadcasts reach all pools or none |
| `cxl_live` | 2 nodes, 1 pool with a queue of one packet, switch unlimited, reset | every read answered, the reset seen |
| `cxl_stall` | 1 node, 1 pool, `link_queue_size = 1` | **violated**: the node is never answered again |
| `cxl_ingress` | the same with a writeback | **violated**: the ingress of a node at the switch exceeds its capacity |
| `cache` | L2C (2 ways, 2 MSHR entries, prefetches, writebacks), LLC (writebacks, a pool), L1D (1 MSHR entry, virtual addresses, walks), two channels | bounds; of the copies that writebacks bring at most one clean, and none while the block is read; one request below for an entry, returned entries in front; no dirty data lost; every request in one place until it is answered once; who waits for a translation has one under way; no read passes a write |
| `cache_store` | the same, the L1D | **violated**: a load takes the place of a store in the MSHR |
| `memory` | three walks of which two are of one page; memory calls in any order; every file of two and many of three ranges; a DRAM channel with 3 reads and 1 write at a time; the mapping with a row of 3 bits over segments of 2 and 1 | no walk lost or doubled, PSCLs sound; one use for a page; the lookup finds the range, pool offsets apart; banks and requests agree, refreshes kept, readers and writes not lost; the mapping is one to one and every bit of the row counts |
| `core` | the processor on loops with forwarding, register reuse and mispredictions; its back end and front end; four physical for two architectural registers; every trace of up to 3 units | what retires and what is stored is the program in order (`Architecture`), and the end finds all drained; every instruction in one buffer; loads, stores, renaming, dataflow, fetching as `O3_CPU` states; registers shared out; the trace in order |
| `liveness` | small instances of link, L1D, walker, DRAM, processor, trace | everything sent is taken, every load, walk and DRAM request is answered, the node lets the simulation end, the end of the trace is found |
| `policies` | spp and its pattern table alone, lru_table, lru, srrip/ship/drrip, the predictors on every short loop, BTB, ip_stride, va_ampm_lite | tables and counters agree and the assertions of the code hold; predictors learn; `lru` and `lru_table` implement `RecencyList`; strides are followed without gap or repetition; no mark is lost |

Deadlock is not checked where a run really may stop: where requests, calls or accesses are bounded, and after the end
of the simulation.

### Bounds

Queue sizes of one or two are the smallest that fill up, which is where refusals, head-of-line blocking and missing
credits happen. Two pools are needed for replication and round robin, two nodes for contention. One block is enough
in `CxlSystem` since an MSHR entry and its messages concern one block. `MaxWrites` bounds the writebacks that the
history counts; reads are not bounded. `WarmUp` names the nodes that send a reset.

In `cache` a set has as many ways as the property needs to tell apart (two for copies, one for eviction), and the
blocks share the set. `MaxWrites` there bounds the writes of a block that wait to be filled, of which there may be
any number: two in the L2C, for two dirty copies, as many as the instance can hold in the L1D. The walker of `memory` has three requests over a channel of one entry, so that reads are
refused; `Populated` pages suffice for all tables. The ROB of `core` has 4 entries, the scheduler 3, load and store
queue 2, fewer than the programs have: everything fills up. The programs are chosen to forward, to reuse all physical
registers, to mispredict each kind of branch at each place; predictor outcomes are left open. A trace unit has up to
two instructions over chunks of two units and an instruction buffer of three, so that a border falls everywhere.
The numbers of instructions asked for lie within the trace: a run that asks for more than it has never ends.
`policies` bounds calls by the counters' history (`MaxCalls`, `MaxAccess`, `MaxCycle`, `MaxDepth`, `MaxTurns`); the
counters saturate, halve and wrap their positions within them. With `MSHR_SIZE = 5` lookaheads reach the end of
`confidence_q` within the calls. `MaxTurns` is when a predictor must have learnt.

No symmetry is used.

### Fairness

`cxl_live` (`CxlSystem!Fairness`): clocks never stop, links deliver, an ingress queue releases what it holds (shown
for `lat_bw_queue` by `EventuallyOut`), the memory serves each request, whose latency is finite. The parts of a clock
tick have weak fairness written out with `[]<>`.

`liveness` (`MCLive`): the clock of a component never stops (`[]<><<TRUE>>_odd`: `odd` flips in every cycle), and for
the link weak fairness of its clock. What is around a component has weak fairness: the owner of a port takes what it
is offered (the pool always does, the switch when egress queues have room); upper levels collect responses and a walk
reads on, as `operate` of each does in every cycle; lower levels and caches take what is asked and answer, which is
what the same run shows of them. Which request a level answers first is left open where the property allows it. SST
calls every clock handler in every period, and a handler ends, which justifies it.

## 4. Proofs

For any ports in pairs, any number of events, any bytes and queue sizes (`LinkAssumption`), `LinkProofs`:

| Theorem | Statement |
|---|---|
| `Invariance` | `Spec => []IInv` |
| `TypeCorrect`, `CreditsConserved`, `IngressIsBounded`, `NoDuplicates` | invariants of `fabric_link` |
| `CreditsNeverClamped` | `Spec => NoCreditClamped` |
| `LinkImplementsWindow` | `Spec => ImplementsWindow`: initial states and every step map to `CreditWindow` |

`CreditConservation` alone is not inductive: it says nothing about where an event is. The inductive invariant is
`IInv == TypeOK /\ Located /\ Accounted`. `Located` says that each queue and link holds, without repetition, exactly
the events of the stage that belongs to it; `Accounted` says that the credits of a port plus the bytes of its events
in the stages link, ingress, ready and owed are the capacity. Each action moves events from one stage to the next,
and `TotalUnion` of `QueueLemmas` (the total over a disjoint union) accounts for the bytes. Type correctness needs
the account as well: without it the subtraction of `drain_egress` might leave the naturals.

Its last section is about the queue inside a port, for any packets, latency and limit (`QueueAssumption`) and each
bandwidth at which no difference is rounded (`Exact`: `bw_cycles` is a power of two, as its default 1):
`PacketsOnTime` states `Spec => [](TypeOK /\ OnTime /\ PendingBounded)` of `LatBwQueue`, which is what `QueueOnTime`
of the run `fabric_link` says of its first queue. Of other bandwidths the theorem says nothing; the second queue is
their instance. The inductive invariant adds that whatever is in the queue or has left it was added
before (so that a new packet changes no time that is already fixed) and that the priority queue is finite. In a tick
the bytes up to every packet that stays fall by the 64 of a cycle (`StillBlockedIs`), so its rounded-up number of
cycles falls by exactly one; the packets sent had 1 to 64 bytes up to them and so just the latency ahead.

For any registers (`RegisterAssumption`: only that `None` names no physical register and that the bound on the window
is a natural number), `RegisterProofs`: `RegistersTyped`, `RegistersSharedOut`, `SourcesKeepMeaning`, `NoLostWakeup`
are the invariants of the part `registers` of `core`. Their inductive invariant adds that the frontend table says what
the youngest write of a register is (`FrontMeans`) and that the register file names the architectural register of
every write and has the value of every register the backend table holds (`FileKnows`). The four actions have a lemma
each; retirement needs that the meaning of older uses does not depend on what retires (`MeansRetire`).

For any number of ways, any counter size and any deltas (`PatternAssumption`), `Spp`: `PatternCountersAgree` and
`PatternVictimFound`, of its pattern table under every sequence of updates. The inductive invariant adds
the types and that a way that was never used has the count 0. The victim of `update_pattern` exists because the
counts of the deltas together do not exceed that of the signature, which halving keeps, as each delta rounds down.

### The CXL system

For any numbers of nodes and pools, any blocks, queue sizes (0, without limit, too), sizes of the MSHR and bounds on
writes, both routing policies and with or without replication (`IdAssumption`, `SwitchAssumption`, `PoolAssumption`,
`SystemAssumption`), `CxlProofs`:

| Theorem | Statement |
|---|---|
| `CxlInvariance` | `Spec => []IInv` |
| `CxlOneAnswerPerMiss` | a block that is waited for has one read or answer in the whole system, another has none |
| `CxlPendingMatches` | `pending_` is what the pool's memory holds and what waits to be sent; every queue has its types |
| `CxlOneWriteback` | without replication a writeback is in one place, at one pool |
| `CxlAllPoolsOrNone` | a broadcast has come to every pool once, or waits at the switch as a whole |
| `CxlPoolLinksSettled` | credits between switch and pools are conserved, in both directions |

None of the five is inductive: each counts over several queues that a tick moves events between, and that an event
is not lost rests on where events of its kind may be (a read is never in a queue towards a node, what comes from
port `i` was sent by `i`), on the credits (`try_route_event` sends only when it can), and on the counts of the other
kinds (a pool erases the entry of `pending_` that equals the returned one, which is right only because there are no
two). The inductive invariant `IInv` says for each read how many copies of it or of its answer are in node queue,
links, ports, switch, pools and memories together (`ReadsCounted`), the same of writes and resets up to the pool that
performed them (`WritesCounted`, `ResetsCounted`), the account of each pool link (`Accounts`), and the types, in which
each queue holds only events with the source and destination that belong there.

The argument follows the control of the code. What a port's operations do to counts and bytes is in `TickedPort`,
`SentPort`, `TakenPort` and `ArrivedPort`. One event that the switch handles keeps the invariant (`HandledSound`), in
its three cases answer, broadcast and one pool; so does the poll of a port (`PollSound`), by induction on the batch,
and a tick (`OutcomesSound`), by induction on the ports in their order. Since a tick changes ports and links in many
steps, the conjuncts take them as parameters `P` and `D` in place of the variables. The ticks of a pool and of a node
(`PoolWorkKeeps`, `NodeTickKeeps`) are one step each, for which the counts before and after are compared queue by
queue. A sum over pools changes as its one changed summand does (`TotalChange`); a sum over a queue of bytes of two
sizes is a count of each (`WeightOfCopies`).

`SumOverPools`, `BytesOn` and the other sums of the model are `Total`s, a recursion on numbers, and what is counted
are the sets `ReadOf`, `RspTo`, `WriteOf` and `ResetOf` of a request at any place, so that invariant and properties
speak of the same counts (lemma `PropertiesCount`). `QueueLemmas` derives what is needed of sums and counts from
induction on the naturals, stated for a set.

### Memory

`MemoryProofs`, about `VirtualMemory` and `AddressMap`:

| Theorem | Statement |
|---|---|
| `PagesExclusive` | `Spec => [](TypeOK /\ Exclusive)` of `VirtualMemory`: what `MemoryExclusive` of the run `memory` says |
| `LookupFinds`, `PoolPlacesDiffer` | `Spec => []LookupFindsRange`, `Spec => []PoolDisjoint` of `AddressMap`: what `PoolAddresses` says |

`PagesExclusive` is for any sizes of the tables, any shuffles and any pool pages, if pool pages differ and are above
those of the free list (`PoolPagesAssumption`). That they differ is `PoolPlacesDiffer`; that they are above holds
because `cscore.cc:95-101` makes `pool_pa_base` at least `dram_size_bytes`, for a DRAM that holds the 32768 pages of
the list. `Exclusive` is not inductive: the page that is filled with page table pages has free slots, about which it
says nothing. `Sound` adds the types, and that as long as slot 0 is not the next, the active page has left the free
list, holds no virtual page and its slots from the next on are not in use (`Apart`).

The theorems of `AddressMap` are for all files of ranges (`MapAssumption`). That entries are sorted by their start
and that each pool range begins where those before it end (`Arranged`) is the inductive invariant; sorting
establishes it whatever order equal starts get. Disjointness of the ranges is a hypothesis of both properties, as the
code does not check it. It includes that no range is empty: `load` accepts an empty range, which hides the rest of a
range it lies in, because the search looks only at the last entry that starts at or before the address. `TotalLater`
(a running sum has room for each summand) gives that pool ranges do not meet in the pool.

### The channel

For any addresses, any queue size, both ways to compare writes and any bound on the requests (`ChannelAssumption`), the
last sections of `LinkProofs` prove the conjuncts of `ChannelKeepsOrder` of the run `cache`:

| Theorem | Statement |
|---|---|
| `ChannelTypes` | `Spec => []TypeOK` of `ChannelSystem` |
| `ChannelAnswersOnce` | `Spec => []AnsweredOnce`: who wants a response is in one place, whatever was merged or forwarded |
| `ChannelNoOvertaking` | `Spec => []NoOvertaking`: no read is below while an older write that it collides with waits |
| `ChannelNoDuplicates` | `Spec => []NoDuplicates`: of the checked entries of RQ, and of PQ, no two are for one block |

`NoOvertaking` is not inductive: a read comes below from a queue, so it matters what the queues hold. The inductive
invariant `ChannelInv` says what an entry stands for (`Fits`: requests to its address or block, and that it asks for a
response if one of them does; an entry that was not checked stands for one request), that each request that wants a
response has one place (`OnePlace`), that a checked entry is younger than no waiting write it collides with, above as
well as below (`Ordered`), and that checked entries differ in their blocks (`NoTwins`).

`CheckWrites` and `CheckReads` are folds: that of the reads keeps that the entries checked so far, those to come and
the responses have each request in one place, with `StageLemmas` as below. Forwarding looks at every waiting write,
and merging gives a checked entry a younger request, which is why the order is about the requests
(`deps`) of an entry and not about the entry. That `do_collision_for` finds a write whenever there is one needs that
the requests of the channel are all translated or all not (section 5).

### The page table walker

For any depth and fan-out of the table, any paging structure caches, bandwidths, latencies, queue sizes and requests
(`WalkerAssumption` and those of `VirtualMemory`), with the L1D refusing, sharing and answering reads in any order, the
last sections of `MemoryProofs`:

| Theorem | Statement |
|---|---|
| `WalksSound` | `WalkerSpec => []WalkerSound`, the property of the run `memory`: a walk is in one place and answered once, one that waits has its block read, and the paging structure caches keep pages of the table at their level |
| `WalksExclusive` | `WalkerSpec => [](TypeOK /\ Exclusive)`: pages have one use while walks go on, too |

`WalkerInv` counts: how often an id is in RQ, MSHR, finished, completed or returned, and whether it was answered, make
together whether it was asked. Places that may hold an id twice would otherwise have to be excluded queue by queue.
A walk that has finished a step keeps the page it read until it is filled into a paging structure cache, possibly
cycles later, so the invariant says of `finished` that those pages are in the table (`Fetched`), and needs of
`VirtualMemory` that a call only adds to the table (`Extends`); `Sound` of the memory is a part of it.

Within a cycle each stage keeps `Balanced`, the same about the record that the stages pass on, with the walks of
`next_steps`, whose reads are asked for before they enter the MSHR. Seven folds have their invariants: steps that are
finished (`FinishedSoFar`), packets from the L1D, each of which takes every walk of its block out of the MSHR
(`PacketsSoFar`), reads and fills, which stop at the first that the L1D refuses (`StepsSoFar`), waiting and answering
(`EachSoFar`, twice), and `std::partition` (`PartSoFar`: the walks of the block come to the front, and every walk
stays as often as it was).

### The DRAM channel

For any number of banks, any queue sizes, any addresses with their banks, rows and bank groups, any reads and writes
and any timing (`DramAssumption`), `DramProofs`; the first two are what `DramBanks` of the run `memory` says, the
others what `DramRequests` says:

| Theorem | Statement |
|---|---|
| `BanksAndQueuesAgree` | `Spec => []BanksAgree`: banks at work and scheduled requests name each other, one to one |
| `RefreshesKept` | `Spec => []RefreshKept`: a refresh waits only for a bank at work, and excludes work |
| `ReadersAnsweredOnce` | `Spec => []AnsweredOnce`: no reader is lost or answered twice by merging, forwarding or warm-up |
| `WritesKept` | `Spec => []NoWriteLost`: the last write to a block is above or queued until it is performed |

The inductive invariant says that a scheduled packet has passed the collision checks (`Agree`: else a check could drop
a packet that a bank works at), that in the warm-up no bank works (`Cold`: else `Warm` could free a slot under a bank),
and for each reader that it is in one slot, at one place above, or answered (`Once`). A cycle takes the record `s`
through ten stages, so the conjuncts are predicates on a record. What every stage keeps is `Passing`; only a refresh
that is due may wait for a bank that has just finished or been taken back, from `FinishDbusRequest` or `SwapWriteMode`
until `ScheduleRefresh` starts it: `Waiting` is broken and restored within the cycle.

A stage that works through a queue is a fold (`Through`), whose operation is a parameter. No lemma can be
instantiated with an operator, but a module can: `StageLemmas` has the operation and what it keeps as CONSTANTS, proves
by induction on the positions that the fold keeps it (`Kept`), and `DramProofs` instantiates it for each fold, that of
`std::min_element` included.

### What stays with TLC

* Liveness (`ReadsAnswered`, `ResetsSeen`, and the other temporal properties with fairness): outside the prover's reach.
* `Cache`, `O3FrontEnd`, `O3BackEnd`, `TraceReader`: the invariants `L2CReadsOnce`,
  `LLCEntriesServed`, `LLCNoWriteLost`, `L1DAnsweredOnce`, `L1DNoWriteLost`, `PipelineAccounted`,
  `MemoryOrder`, `DataflowOrder`, `FetchOrder`, `TraceDelivered` are only model-checked so far. Their stages are folds
  like those of the DRAM channel, so `StageLemmas` makes them provable; each takes a lemma for every stage.
* `QueueOnTime` at bandwidths that doubles do not hold: that packets leave within a cycle of their time is checked for
  64 bytes in three cycles, with short doubles and few packets. How far the error adds up is open in general.
* `RetiresInOrder` (refinement of `Architecture`), `QueueDelivers` (refinement of `DelayQueue`), `DramPlaces` and the properties of the policies:
  only model-checked so far.
* What a recursive definition computes for every input: only what induction on numbers gives is proved.

## 5. Where code and its text differ

With a run that shows it:

* `cxl_stall`: the node end of a link is a raw SST link. `handleEvent_CXL` takes responses and never returns credit,
  so a sender with `link_queue_size = Q` sends `Q` responses to the node in the whole simulation; then the egress
  queue fills and everything that waits behind it in the switch or pool stops.
* `cxl_ingress`: for the same reason the node sends without credits, and the ingress queue at the switch has no bound.
* `cache_store`: `mshr_type::merge` keeps the newer of two requests unless it is a prefetch; a load after a store that
  is outstanding makes the fill a clean one.

Met while modelling, and modelled as the code is, without a run of their own:

* `switch.h:19` says that all traffic goes to pool 0; the default policy is round robin (`switch.cc:264`).
* `do_collision_for` looks only at the first entry with the address (`channel.cc:39-42`). If a channel carried requests
  that are translated and others, a read could pass the second of two waiting writes; with `Translated = {TRUE, FALSE}`
  TLC finds this in five states. No channel does: a cache or walker has one of its own. `NoOvertaking` and
  `NoDuplicates` are therefore about channels with one kind of requests.
* `schedule_instruction` asks `isAllocated` about source registers that are already renamed, physical numbers
  (`ooo_cpu.cc:510`). What the table says there is `beyond` in `O3_CPU`, and no property depends on it.
* The free list of `VirtualMemory` has a fixed length, whatever `dram_size_bytes` is (`vmem.cc:75`); when it is used
  up it is filled again from the start (`vmem.cc:112`). `MemoryExclusive` holds until then. `get_pte_pa` takes a page
  when the last one is full, before it is known whether an entry is needed (`vmem.cc:169`).
* With one bank of one bank group a segment of `swizzle_bits` is empty and its loop does not end
  (`dram_controller.cc:577`); `BitsAssumption` leaves it open, the instance has two banks.
* `spp_dev.cc:46`: a place of the queue that the pattern table does not fill is read as a candidate with delta 0.
  `spp_dev.cc:86`: issued and useful prefetches are halved while some are outstanding, so that the accuracy can
  exceed 100 %.
* `spp_dev.cc:76, 363`: nothing bounds a lookahead to `confidence_q` and `delta_q`, which have a place for each MSHR
  entry. With an accuracy of 100 % and counts of the delta close to those of the signature (14 of 15) the confidence
  falls so slowly that `pf_q_tail` passes the last of 32 places. Writing there is undefined; the model ends before it.
* `lat_bw_queue.cc:97-104`: with a `bw_cycles` that is no power of two (the experiments have 25) doubles leave a
  residue: a lone packet of 64 bytes at `bw_cycles = 3` is sent in four cycles, not three. `Slack` allows for a cycle.
* `cache.cc:501`: a write that misses is compared neither with the MSHR nor with other writes to be filled, so that
  the writebacks of a level above can bring a block into several ways; a hit takes the first. `L2CReadsOnce` is what
  stays: no copy is lost unwritten, and no block is read twice.
* `cache.cc:442`: a block that was prefetched by its physical address has the virtual address 0, and a read of the page
  table that of the access. What such a block is looked up by in the map is not where it is, and it can be asked for
  and written back locally although it is a pool's. Modelled so; no property is about it.
* The speculative history of `perceptron` shifts for every instruction, also for those that are no branches, and only
  a misprediction puts it back (`perceptron.cc:57`). `Learns` holds for programs in which this does not matter.
* The policies without `replacement_cache_fill` do not hear of fills (`cache.h:494`); a write that hits makes drrip set
  `maxRRPV - 1` under the comment that it is ignored (`drrip.cc:39`). `RecencyAgrees` leaves drrip out.
* `fwcounter.h:184`: `operator--` adds one; drrip and ship use it in code that does not run.
* `address.h:626`: a splice of several slices is folded from the end, and a union spans bits that neither slice has.

## 6. Not modelled

* The topology without a switch, where the pool has one port for each node: the same ports and handlers.
* Addresses of type Remote, another node: a node has no handler for requests of others (`cache.cc:445`).
* Builders and static configuration: no behaviour over time. Statistics, printing, heartbeats, debug output.
* Ratios of clocks: all components of a node have one period. Utilization-based latency, as numbers.
* `random` (its `find_victim` has a form that `CACHE` does not try), `next_line` and `no` (no state); what srrip, ship
  and drrip do for a miss (never called).
* Operators of `fwcounter` other than saturating addition, splicing, compile-time extents and units: arithmetic
  without state.
* Decompressors, which are any function that delivers the content in pieces; `repeatable`, which `csimCore` does not
  use; an empty trace.
* Legacy files (`NW.cc`, `0825_cscore.cc`, `orig_core_inst`, `cxl_request_buffer`), scripts, tracer.

## 7. What may follow

1. Proofs: that `LruTable` implements `RecencyList` (the mapping is a sort by last use, the inductive part is that
   times are distinct); the load/store queue invariants of `O3BackEnd`, which rest on
   those of `RegisterAllocator`.
2. A composition of two caches over a `Channel`, with the inclusion of what both promise.
3. The pool with one port for each node, if that topology is used.
