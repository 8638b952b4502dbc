------------------------------- MODULE MCLive -------------------------------
(***************************************************************************)
(* What must happen in the end: small instances of the components, of      *)
(* which a behaviour chooses one at the beginning and leaves the others    *)
(* alone.  Fairness says of each component that its cycles go on for ever, *)
(* and of what is around it that it takes what it is asked and answers.    *)
(***************************************************************************)
EXTENDS Naturals, Sequences, FiniteSets, TLC

VARIABLES
  part,
  odd,                                                                \* of all that have cycles
  credits, egress, link, ingress, ready, stage,                                    \* FabricLink
  upper_levels, order, lower_level, lower_translate, block, MSHR, inflight_writes, \* CacheSystem
  inflight_tag_check, translation_stash, internal_PQ, remote,
  waiting, blocksRead, walking, pooled, dirty,
  ptw, vm, tablesRead, walksAsked, walksAnswered,                               \* PageTableWalker
  c, asked, written, unwritten,                                                   \* DramChannel
  program, DISPATCH_BUFFER, fetch_resume,                                              \* O3_CPU
  ROB, LQ, SQ, reg_allocator, num_retired, L1D, reading, history,
  input_queue, IFETCH_BUFFER, DIB, DECODE_BUFFER, DIB_HIT_BUFFER, L1I, supplied, fetching,
  dispatched, unresolved, warmup_insts, sim_insts, warmup_done, ended,
  file, unit, fail, in, pending, out, got, collecting, eof, buffer, delivered     \* TraceReader

linkVars == <<credits, egress, link, ingress, ready, stage>>
cacheVars ==
  <<upper_levels, order, lower_level, lower_translate, block, MSHR, inflight_writes,
    inflight_tag_check, translation_stash, internal_PQ, remote, waiting, blocksRead, walking, pooled, dirty>>
walkerVars == <<ptw, vm, tablesRead, walksAsked, walksAnswered>>
dramVars == <<c, asked, written, unwritten>>
bothVars == <<program, DISPATCH_BUFFER, fetch_resume>>
backOnly == <<ROB, LQ, SQ, reg_allocator, num_retired, L1D, reading, history>>
frontOnly == <<input_queue, IFETCH_BUFFER, DIB, DECODE_BUFFER, DIB_HIT_BUFFER, L1I, supplied, fetching>>
behindVars == <<dispatched, unresolved>>
nodeVars == <<warmup_insts, sim_insts, warmup_done, ended>>
coreVars == <<bothVars, backOnly, frontOnly, behindVars, nodeVars>>
traceVars == <<file, unit, fail, in, pending, out, got, collecting, eof, buffer, delivered>>
vars == <<part, odd, linkVars, cacheVars, walkerVars, dramVars, coreVars, traceVars>>

-----------------------------------------------------------------------------
(* Two ports with queues of one packet: the switch sends a read request    *)
(* and a write that has to wait for its credit, the pool a response        *)

CONSTANTS switch, pool

Port == {switch, pool}

Link ==
  INSTANCE FabricLink WITH
    Port <- Port, Peer <- switch :> pool @@ pool :> switch, NumPackets <- 3,
    Source <- <<switch, switch, pool>>, Bytes <- <<8, 64, 64>>,
    QueueSize <- switch :> 1 @@ pool :> 1

(* An L1D with one way and one MSHR entry: the core has two loads of a     *)
(* virtual block, whose walk reads a block of the page table through it    *)

CONSTANTS core, walker, vblock, pblock, tblock, vpage

Blocks == {vblock, pblock, tblock}

Cache ==
  INSTANCE CacheSystem WITH
    Upper <- {core, walker}, Block <- Blocks, PageOf <- [b \in Blocks |-> vpage],
    Physical <- [b \in Blocks |-> IF b = vblock THEN pblock ELSE b], SetOf <- [b \in Blocks |-> 0],
    Zero <- 0, Remote <- {}, NUM_WAY <- 1, MSHR_SIZE <- 1, PQ_SIZE <- 0, HIT_LATENCY <- 1, FILL_LATENCY <- 1,
    MAX_TAG <- 1, MAX_FILL <- 1, match_offset_bits <- TRUE, RemoteSize <- 0,
    Slots <- core :> 2 @@ walker :> 1, Asks <- core :> {<<"LOAD", vblock>>} @@ walker :> {<<"LOAD", tblock>>},
    Walker <- {walker},
    Translated <- core :> FALSE @@ walker :> TRUE,
    Virtual <- [b \in Blocks |-> IF b = pblock THEN vblock ELSE b], MaxWrites <- 1, Prefetches <- {},
    QueueSize <- 1,
    reading <- blocksRead, unwritten <- dirty

(* Two walks of one page, over a channel of one entry, with page faults    *)

PTW ==
  INSTANCE PageTableWalker WITH
    Vpages <- 0 .. 3, Fanout <- 2, PtLevels <- 3, PteSlots <- 1, FirstPage <- 1, Populated <- 12,
    Shuffles <- {[i \in 1 .. 12 |-> i]}, PoolPages <- << >>,
    Requests <- {[v |-> 1, id |-> 1], [v |-> 1, id |-> 2]}, PsclWays <- <<1, 2>>,
    MAX_READ <- 2, MAX_FILL <- 2, HIT_LATENCY <- 1, MinorFaultPenalty <- 1, RQ_SIZE <- 1, PtesPerBlock <- 2,
    reading <- tablesRead, asked <- walksAsked, answered <- walksAnswered

(* Two reads and a write, to two banks                                     *)

BankOf(b) == IF b = 3 THEN 2 ELSE 1
RowOf(b) == b
BankgroupOf(k) == 1

Dram ==
  INSTANCE DramChannel WITH
    Reads <- {[id |-> 1, block |-> 1], [id |-> 2, block |-> 3]}, Writes <- {3},
    NumBanks <- 2, Bank <- BankOf, Row <- RowOf, Bankgroup <- BankgroupOf, RQ_SIZE <- 2, WQ_SIZE <- 2,
    tRP <- 1, tRCD <- 1, tCAS <- 1, tREF <- 5, tRFC <- 2, TURN_AROUND_TIME <- 1, RETURN_TIME <- 2,
    BANKGROUP_STALL <- 1, MaxWrites <- 1

(* A processor without a DIB hit buffer                                    *)

A1 == <<1, 0>>
B1 == <<2, 0>>

Instr(src, dst, loads, stores) ==
  [line |-> 1, window |-> 1, branch |-> "none", taken |-> FALSE, predicted |-> "right",
   src |-> src, dst |-> dst, loads |-> loads, stores |-> stores]

Jump(kind, predicted, src) ==
  [Instr(src, << >>, << >>, << >>) EXCEPT
     !.line = 2, !.window = 2, !.branch = kind, !.taken = TRUE, !.predicted = predicted]

\* Load, store what was loaded, branch back, and again.
Loops ==
  {<<Instr(<<0>>, <<0>>, <<A1>>, << >>), Instr(<<0>>, << >>, << >>, <<A1>>), Jump("conditional", guess, <<0>>),
     Instr(<<0>>, <<0>>, <<A1>>, << >>), Instr(<<0>>, << >>, << >>, <<B1>>)>> :
     guess \in {"right", "direction"}}

\* Registers that are renamed, two loads that an instruction waits for, and stores.
Chain ==
  <<Instr(<<0, 1>>, <<0>>, <<A1>>, << >>), Instr(<<1>>, <<1>>, <<B1>>, << >>),
    Instr(<<0, 1>>, <<0>>, << >>, <<B1>>), Instr(<<0>>, <<1>>, <<B1>>, <<A1>>)>>

Programs == Loops \cup {Chain}

CPU ==
  INSTANCE O3_CPU WITH
    Programs <- Programs, Arch <- {0, 1}, Phys <- 0 .. 3, Uncertain <- {3}, Lengths <- {<<0, 0>>, <<1, 2>>},
    ROB_SIZE <- 3, LQ_SIZE <- 2, SQ_SIZE <- 2, DISPATCH_BUFFER_SIZE <- 2, BRANCH_MISPREDICT_PENALTY <- 1,
    DISPATCH_WIDTH <- 2, SCHEDULER_SIZE <- 2, EXEC_WIDTH <- 2, LQ_WIDTH <- 1, SQ_WIDTH <- 2,
    RETIRE_WIDTH <- 2, L1D_BANDWIDTH <- 1, SCHEDULING_LATENCY <- 0, EXEC_LATENCY <- 0,
    L1D_RQ_SIZE <- 2, L1D_WQ_SIZE <- 1, IN_QUEUE_SIZE <- 4, IFETCH_BUFFER_SIZE <- 3,
    DECODE_BUFFER_SIZE <- 2, DIB_HIT_BUFFER_SIZE <- 0, FETCH_WIDTH <- 2, DECODE_WIDTH <- 2,
    DIB_INORDER_WIDTH <- 2, L1I_BANDWIDTH <- 1, DECODE_LATENCY <- 1, DISPATCH_LATENCY <- 1,
    DIB_HIT_LATENCY <- 0, DIB_WAY <- 2, L1I_RQ_SIZE <- 1

(* A trace of three units                                                  *)

Line(ip) == [ip |-> ip, taken |-> FALSE, target |-> 0]

Trace ==
  INSTANCE TraceReader WITH
    Files <- {<< <<Line(1), Line(2)>>, << >>, <<Line(3)>>, << >> >>},
    Chunk <- 2, OutSize <- 1, BufferSize <- 3, src <- unit, reading <- collecting

-----------------------------------------------------------------------------
Init ==
  /\ part \in {"link", "cache", "walker", "dram", "cpu", "trace"}
  /\ Link!Init /\ Cache!SystemInit /\ PTW!WalkerInit /\ Dram!Init
  /\ CPU!CPUInit /\ dispatched = 0 /\ unresolved = 0
  /\ part # "cpu" => program = Chain
  /\ part # "cpu" => sim_insts = 0
  /\ Trace!Init

\* Time goes on where there are no cycles, or none any more.
Idle ==
  /\ part \in {"link", "trace"} \/ ended
  /\ odd' = ~ odd
  /\ UNCHANGED <<linkVars, cacheVars, walkerVars, dramVars, coreVars, traceVars>>

Next ==
  /\ UNCHANGED part
  /\ \/ /\ part = "link" /\ Link!Next
        /\ UNCHANGED <<odd, cacheVars, walkerVars, dramVars, coreVars, traceVars>>
     \/ part = "cache" /\ Cache!Next /\ UNCHANGED <<linkVars, walkerVars, dramVars, coreVars, traceVars>>
     \/ part = "walker" /\ PTW!WalkerNext /\ UNCHANGED <<linkVars, cacheVars, dramVars, coreVars, traceVars>>
     \/ part = "dram" /\ Dram!Next /\ UNCHANGED <<linkVars, cacheVars, walkerVars, coreVars, traceVars>>
     \/ /\ part = "cpu" /\ CPU!CPUNext
        /\ UNCHANGED <<behindVars, linkVars, cacheVars, walkerVars, dramVars, traceVars>>
     \/ /\ part = "trace" /\ Trace!Next
        /\ UNCHANGED <<odd, linkVars, cacheVars, walkerVars, dramVars, coreVars>>
     \/ Idle

-----------------------------------------------------------------------------
\* The clock of a port's owner never stops, the link delivers, bandwidth and latency hold
\* an event for a bounded number of ticks, and the owner does not refuse an event for ever.
LinkFairness ==
  \A p \in Port :
    /\ WF_linkVars(part = "link" /\ Link!Clock(p))
    /\ WF_linkVars(part = "link" /\ Link!Release(p))
    /\ WF_linkVars(part = "link" /\ Link!Take(p))
    /\ WF_linkVars(part = "link" /\ Link!ArriveEvent(p))
    /\ WF_linkVars(part = "link" /\ Link!ArriveCredit(p))

\* The upper levels collect, a walk reads, the cache has cycles, and what is below answers.
CacheFairness ==
  /\ \A u \in {core, walker} : WF_cacheVars(part = "cache" /\ Cache!Collect(u))
  /\ WF_cacheVars(part = "cache" /\ Cache!Ask(walker, 1, "LOAD", tblock))
  /\ WF_cacheVars(part = "cache" /\ Cache!LowerTakes("RQ"))
  /\ WF_cacheVars(part = "cache" /\ Cache!LowerResponds(1))
  /\ WF_cacheVars(part = "cache" /\ Cache!TranslateTakes)
  /\ WF_cacheVars(part = "cache" /\ Cache!TranslateResponds(1))

\* The walker is operated, the L1D takes and answers, and the TLB collects.
WalkerFairness ==
  /\ WF_walkerVars(part = "walker" /\ PTW!LowerTakes)
  /\ WF_walkerVars(part = "walker" /\ PTW!LowerResponds)
  /\ WF_walkerVars(part = "walker" /\ PTW!Collect)

\* The caches of the processor take what they are asked and answer.
CoreFairness ==
  /\ WF_frontOnly(part = "cpu" /\ CPU!InstructionCache)
  /\ \A name \in {"RQ", "WQ"} : WF_backOnly(part = "cpu" /\ CPU!L1DTakes(name))
  /\ WF_backOnly(part = "cpu" /\ \E i \in 1 .. Len(reading) : CPU!L1DResponds(i))

TraceFairness == WF_traceVars(part = "trace" /\ Trace!Next)

Spec ==
  /\ Init /\ [][Next]_vars
  /\ []<><<TRUE>>_odd
  /\ LinkFairness /\ CacheFairness /\ WalkerFairness /\ CoreFairness /\ TraceFairness

-----------------------------------------------------------------------------
\* What is asked is served: no event that can be paid for waits for ever at a port; every load
\* of an L1D with one MSHR entry is answered, though its translation needs a walk that reads
\* through the same cache; every walk is answered; reads and writes leave the DRAM queues, and
\* a refresh that is due is done.
RequestsServed == Link!EventuallyTaken /\ Cache!Answers /\ PTW!Translates /\ Dram!Served

\* The end of the trace is found, and the node says at last that the simulation may end.
EndsSimulation == (part = "trace" => Trace!FindsEnd) /\ (part = "cpu" => CPU!EndsSimulation)
=============================================================================
