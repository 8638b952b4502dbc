------------------------------- MODULE O3_CPU -------------------------------
(***************************************************************************)
(* The processor (O3_CPU::operate): O3BackEnd, then O3FrontEnd, in one     *)
(* cycle, and what csimCore decides after it, the end of the warm-up and of*)
(* the simulation.  Each half is also a system of its own: O3FrontEnd with *)
(* a back end that takes instructions from the dispatch buffer, some time, *)
(* and resolves a mispredicted branch that it took; O3BackEnd with a front *)
(* end that delivers the program, in order, as long as no mispredicted     *)
(* branch is unresolved.                                                   *)
(***************************************************************************)
EXTENDS O3BackEnd

(* The front end *)

VARIABLES
  dispatched,    \* how many instructions the back end has taken
  unresolved     \* the mispredicted branch among them that is not executed, or 0

behind == <<dispatched, unresolved>>
frontVars == <<program, DISPATCH_BUFFER, fetch_resume, frontOwn, fetching, behind, odd>>

Start ==
  [FrontNow EXCEPT !.dispatch = Waited(@), !.resume = Elapse(@)]

FrontCycle ==
  /\ FrontStages(Start, FrontBecome)
  /\ odd' = ~ odd
  /\ UNCHANGED <<program, fetching, behind>>

Dispatch ==
  /\ DISPATCH_BUFFER # << >> /\ Ready(Head(DISPATCH_BUFFER))
  /\ DISPATCH_BUFFER' = Tail(DISPATCH_BUFFER)
  /\ dispatched' = dispatched + 1
  /\ unresolved' = IF Head(DISPATCH_BUFFER).mispredicted THEN Head(DISPATCH_BUFFER).id
                   ELSE unresolved
  /\ UNCHANGED <<program, fetch_resume, frontOwn, fetching, odd>>

Resolve ==
  /\ unresolved # 0
  /\ unresolved' = 0 /\ fetch_resume' = BRANCH_MISPREDICT_PENALTY
  /\ UNCHANGED <<program, DISPATCH_BUFFER, frontOwn, fetching, dispatched, odd>>

FrontCache ==
  /\ L1ITakes \/ \E i \in 1 .. Len(fetching) : L1IResponds(i)
  /\ UNCHANGED <<program, DISPATCH_BUFFER, fetch_resume, input_queue, IFETCH_BUFFER, DIB,
                 DECODE_BUFFER, DIB_HIT_BUFFER, supplied, behind, odd>>

FrontSystemInit == FrontInit /\ dispatched = 0 /\ unresolved = 0 /\ odd = FALSE

FrontNext == FrontCycle \/ Dispatch \/ Resolve \/ FrontCache

FrontSpec == FrontSystemInit /\ [][FrontNext]_frontVars

-----------------------------------------------------------------------------
(* The back end *)

CONSTANT Uncertain   \* the places in a program where a branch may be mispredicted

Delivered == num_retired + Len(ROB) + Len(DISPATCH_BUFFER)

Deliver(mispredicted) ==
  LET id == Delivered + 1
  IN  /\ id <= Len(program) /\ fetch_resume = 0
      /\ Len(DISPATCH_BUFFER) < DISPATCH_BUFFER_SIZE
      /\ mispredicted => id \in Uncertain
      /\ DISPATCH_BUFFER' = Append(DISPATCH_BUFFER, Decoded(id, 0, mispredicted))
      /\ fetch_resume' = IF mispredicted THEN Never ELSE 0
      /\ UNCHANGED <<program, ROB, LQ, SQ, reg_allocator, num_retired, L1D, reading,
                     history, odd>>

Memory ==
  \/ \E name \in {"RQ", "WQ"} : L1DTakes(name)
  \/ \E i \in 1 .. Len(reading) : L1DResponds(i)

FrontEnd == \E mispredicted \in BOOLEAN : Deliver(mispredicted)

BackNext == BackCycle \/ Memory \/ FrontEnd

BackSpec == BackInit /\ [][BackNext]_backVars

-----------------------------------------------------------------------------
(* The whole processor *)

CONSTANT Lengths    \* pairs of warmup_insts and sim_insts that a node may have

VARIABLES
  warmup_insts,
  sim_insts,   \* 0: until the trace is used up
  warmup_done,
  ended        \* primaryComponentOKToEndSim

cpuVars == <<backVars, frontOwn, fetching, warmup_insts, sim_insts, warmup_done, ended>>

\* Mutant of Drained: the store queue is not looked at.
DrainedButStores(b, f) ==
  /\ f.input = << >> /\ f.IFETCH = << >> /\ f.DECODE = << >> /\ f.DIB_HIT = << >>
  /\ f.dispatch = << >> /\ b.ROB = << >>

\* Nothing is left in the processor.
Drained(b, f) ==
  /\ f.input = << >> /\ f.IFETCH = << >> /\ f.DECODE = << >> /\ f.DIB_HIT = << >>
  /\ f.dispatch = << >> /\ b.ROB = << >>
  /\ \A k \in 1 .. Len(b.LQ) : ~ Used(b.LQ[k])
  /\ b.SQ = << >>

\* What champsim_tick decides after the cores have operated.
Decide(b, f) ==
  /\ warmup_done' = (warmup_done \/
       (sim_insts > 0 /\ warmup_insts > 0 /\ b.retired >= warmup_insts))
  /\ ended' = IF sim_insts > 0 THEN b.retired >= warmup_insts + sim_insts
              ELSE f.supplied = Len(program) /\ Drained(b, f)

Operate ==
  \E beyond \in BOOLEAN :
    BackStages(BackNow, beyond, LAMBDA b :
      FrontStages([FrontNow EXCEPT !.dispatch = b.dispatch, !.resume = b.resume],
        LAMBDA f : /\ FrontBecome(f)
                   /\ BackBecome([b EXCEPT !.dispatch = f.dispatch, !.resume = f.resume])
                   /\ Decide(b, f)))

Tick ==
  /\ ~ ended
  /\ Operate
  /\ odd' = ~ odd
  /\ UNCHANGED <<program, reading, fetching, warmup_insts, sim_insts>>

UnchangedByCaches ==
  UNCHANGED <<program, DISPATCH_BUFFER, fetch_resume, ROB, LQ, SQ, reg_allocator,
              num_retired, history, input_queue, IFETCH_BUFFER, DIB, DECODE_BUFFER,
              DIB_HIT_BUFFER, supplied, odd, warmup_insts, sim_insts, warmup_done, ended>>

InstructionCache ==
  /\ L1ITakes \/ \E i \in 1 .. Len(fetching) : L1IResponds(i)
  /\ UNCHANGED <<L1D, reading>> /\ UnchangedByCaches

DataCache ==
  /\ \/ \E name \in {"RQ", "WQ"} : L1DTakes(name)
     \/ \E i \in 1 .. Len(reading) : L1DResponds(i)
  /\ UNCHANGED <<L1I, fetching>> /\ UnchangedByCaches

CPUInit ==
  /\ BackInit /\ FrontInit /\ warmup_done = FALSE /\ ended = FALSE
  /\ \E l \in Lengths : warmup_insts = l[1] /\ sim_insts = l[2]

CPUNext == Tick \/ InstructionCache \/ DataCache

CPUSpec == CPUInit /\ [][CPUNext]_cpuVars

-----------------------------------------------------------------------------
(* Properties of the front end *)

\* The buffers keep their sizes.
FrontTypeOK ==
  /\ Len(input_queue) <= IN_QUEUE_SIZE /\ Len(IFETCH_BUFFER) <= IFETCH_BUFFER_SIZE
  /\ Len(DECODE_BUFFER) <= DECODE_BUFFER_SIZE
  /\ Len(DIB_HIT_BUFFER) <= DIB_HIT_BUFFER_SIZE
  /\ Len(DISPATCH_BUFFER) <= DISPATCH_BUFFER_SIZE
  /\ Len(L1I.RQ) <= L1I_RQ_SIZE /\ Distinct(DIB) /\ Len(DIB) <= DIB_WAY

Rising(q, first) == \A i \in 1 .. Len(q) : q[i].id = first + i

\* No instruction is lost, doubled or overtaken on its way to dispatch, although
\* some go through the decoder and some through the buffer of DIB hits, and
\* fetched blocks come back in any order (promote_to_decode, decode_instruction).
ProgramOrder ==
  LET decoding == Ids(DECODE_BUFFER) \cup Ids(DIB_HIT_BUFFER)
      before == dispatched + Len(DISPATCH_BUFFER)
      after == before + Len(DECODE_BUFFER) + Len(DIB_HIT_BUFFER)
  IN  /\ Rising(DISPATCH_BUFFER, dispatched)
      /\ decoding = (before + 1) .. after
      /\ \A q \in {DECODE_BUFFER, DIB_HIT_BUFFER} :
           \A i, j \in 1 .. Len(q) : i < j => q[i].id < q[j].id
      /\ Rising(IFETCH_BUFFER, after)
      /\ \A i \in 1 .. Len(input_queue) : input_queue[i] = after + Len(IFETCH_BUFFER) + i

Marked(q) == {e.id : e \in {x \in Elements(q) : x.mispredicted}}

FrontUnresolved ==
  UNION {Marked(IFETCH_BUFFER), Marked(DECODE_BUFFER), Marked(DIB_HIT_BUFFER),
         Marked(DISPATCH_BUFFER), {unresolved} \ {0}}

Read == supplied - Len(input_queue)

\* Reading the trace waits for ever exactly while one mispredicted branch is
\* unresolved, which is the last instruction read: nothing beyond it is fetched,
\* and it resumes once, at decode or at execution (fetch_resume_time).
FetchBlocked ==
  IF fetch_resume = Never THEN FrontUnresolved = {Read} ELSE FrontUnresolved = {}

Owed(id, q) == \E i \in 1 .. Len(q) : q[i].address[1] = program[id].line /\ id \in q[i].deps

\* An instruction whose fetch is issued has its answer under way until it is
\* complete: merging, partial service of a response, and a DIB hit after the
\* fetch lose no wake-up (fetch_instruction, handle_memory_return).
FetchOwed ==
  \A i \in 1 .. Len(IFETCH_BUFFER) :
    LET e == IFETCH_BUFFER[i]
    IN  e.fetch_issued /\ ~ e.fetch_completed =>
          \/ Owed(e.id, L1I.RQ) \/ Owed(e.id, L1I.returned) \/ Owed(e.id, fetching)

-----------------------------------------------------------------------------
(* Properties of the back end *)

BackTypeOK ==
  /\ Len(ROB) <= ROB_SIZE /\ Len(SQ) <= SQ_SIZE /\ Len(LQ) = LQ_SIZE
  /\ Len(DISPATCH_BUFFER) <= DISPATCH_BUFFER_SIZE
  /\ Len(L1D.RQ) <= L1D_RQ_SIZE /\ Len(L1D.WQ) <= L1D_WQ_SIZE
  /\ \A i \in 1 .. Len(ROB) : ROB[i].done \in 0 .. NumMemOps(ROB[i].id)

LoadsOf(id) == {k \in 1 .. Len(LQ) : LQ[k].id = id}
StoresOf(id) == {i \in 1 .. Len(SQ) : SQ[i].id = id}

\* Every memory operation of an instruction in the ROB is finished or still in
\* a queue, so that the instruction completes neither early nor never, and what
\* finishes always finds it (the assertions of LSQ_ENTRY::finish).
MemOpsAccounted ==
  /\ \A i \in 1 .. Len(ROB) :
       LET id == ROB[i].id
       IN  ROB[i].done + Cardinality(LoadsOf(id))
             + Cardinality({j \in StoresOf(id) : ~ SQ[j].issued}) = NumMemOps(id)
  /\ \A k \in 1 .. Len(LQ) : Used(LQ[k]) => \E i \in 1 .. Len(ROB) : ROB[i].id = LQ[k].id
  /\ \A j \in 1 .. Len(SQ) : ~ SQ[j].issued => \E i \in 1 .. Len(ROB) : ROB[i].id = SQ[j].id

\* A load waits for the youngest older store to its address, whatever stores
\* retire meanwhile, and only asks the L1D when no older store to its address is
\* left in the store queue (do_memory_scheduling, operate_lsq).
LoadsSeeStores ==
  \A k \in 1 .. Len(LQ) :
    LET older == {j \in 1 .. Len(SQ) :
                    SQ[j].id < LQ[k].id /\ SQ[j].address = LQ[k].address}
    IN  Used(LQ[k]) =>
          IF LQ[k].producer = 0 THEN older = {}
          ELSE \E j \in older :
                 /\ SQ[j].id = LQ[k].producer /\ ~ SQ[j].issued /\ ~ LQ[k].issued
                 /\ k \in Elements(SQ[j].waiters)
                 /\ \A i \in older : i <= j

\* Stores leave the processor in program order and only once their instruction
\* has retired; all stores of an instruction in the ROB are in the queue, and
\* issued stores come first in it (the precondition of partition_point).
StoresInOrder ==
  /\ \A i, j \in 1 .. Len(SQ) :
       i < j => SQ[i].id <= SQ[j].id /\ (SQ[j].issued => SQ[i].issued)
  /\ \A i \in 1 .. Len(ROB) :
       Cardinality(StoresOf(ROB[i].id)) = Len(program[ROB[i].id].stores)

\* Renaming in the whole processor: the registers that the ROB uses mean what
\* RegisterAllocator says, although it retires several instructions in a cycle.
RenamingSafe == Registers!OneOwner /\ Registers!SourcesStable /\ Registers!WaitsForProducer

\* An instruction executes only after those that write its sources completed.
DataflowOrder ==
  \A j \in 1 .. Len(ROB) :
    ROB[j].executed =>
      \A i \in 1 .. (j - 1) :
        \A r \in Elements(program[ROB[i].id].dst) \cap Elements(program[ROB[j].id].src) :
          \/ ROB[i].completed
          \/ \E k \in (i + 1) .. (j - 1) : r \in Elements(program[ROB[k].id].dst)

-----------------------------------------------------------------------------
(* Properties of the processor *)

InFlight == UNION {Ids(IFETCH_BUFFER), Ids(DECODE_BUFFER), Ids(DIB_HIT_BUFFER),
                   Ids(DISPATCH_BUFFER), Ids(ROB)}

\* Between the trace and retirement every instruction is in exactly one buffer,
\* and the reorder buffer holds the oldest ones in order, whatever the two paths
\* through the decoder, stalls and mispredictions do.
InOnePlace ==
  /\ InFlight = (num_retired + 1) .. (supplied - Len(input_queue))
  /\ Cardinality(InFlight) = Len(IFETCH_BUFFER) + Len(DECODE_BUFFER)
       + Len(DIB_HIT_BUFFER) + Len(DISPATCH_BUFFER) + Len(ROB)
  /\ \A i \in 1 .. Len(ROB) : ROB[i].id = num_retired + i

Unresolved ==
  {e.id : e \in {x \in UNION {Elements(IFETCH_BUFFER), Elements(DECODE_BUFFER),
                              Elements(DIB_HIT_BUFFER), Elements(DISPATCH_BUFFER)} :
                   x.mispredicted}}
  \cup {e.id : e \in {x \in Elements(ROB) : x.mispredicted /\ ~ x.completed}}

\* Across the whole processor at most one mispredicted branch is unresolved; it
\* is the youngest instruction read, and reading resumes exactly with it.
OneMisprediction ==
  IF fetch_resume = Never THEN Unresolved = {supplied - Len(input_queue)}
  ELSE Unresolved = {}

\* When the node says that the simulation may end, the whole program has
\* retired and all stores have left (sim_insts = 0).
EndsDrained ==
  ended /\ sim_insts = 0 =>
    num_retired = Len(program) /\ SQ = << >> /\ \A k \in 1 .. LQ_SIZE : ~ Used(LQ[k])

\* The processor implements Architecture, with the widths it has: what retire_rob removes
\* and what operate_lsq sends are the program, in order.
Promise == INSTANCE Architecture WITH
  RetireWidth <- RETIRE_WIDTH, StoreWidth <- SQ_WIDTH,
  retired <- history.retired, stored <- history.stored

InOrder == Promise!Spec

\* The node says at last that the simulation may end.
EndsSimulation == <>ended
=============================================================================
