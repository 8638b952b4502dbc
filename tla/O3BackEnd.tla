----------------------------- MODULE O3BackEnd -----------------------------
(***************************************************************************)
(* The processor from dispatch to retirement (ooo_cpu.cc): reorder buffer, *)
(* load and store queues, register renaming, and the channel to the L1D.   *)
(* BackOperate is this half of a cycle; the rest of the memory system is   *)
(* the environment.  A warm-up is the instance whose latencies are 0 and   *)
(* whose instructions name no registers.                                   *)
(***************************************************************************)
EXTENDS O3FrontEnd

CONSTANTS
  Arch, Phys,          \* numbers; Arch are the places of the tables
  ROB_SIZE, LQ_SIZE, SQ_SIZE,
  DISPATCH_WIDTH, SCHEDULER_SIZE, EXEC_WIDTH, LQ_WIDTH, SQ_WIDTH, RETIRE_WIDTH,
  L1D_BANDWIDTH,
  SCHEDULING_LATENCY, EXEC_LATENCY,
  L1D_RQ_SIZE, L1D_WQ_SIZE

BackEndAssumption ==
  /\ Arch \subseteq Nat /\ Phys \subseteq Nat
  /\ \A p \in Programs : \A i \in 1 .. Len(p) :
       /\ Len(p[i].loads) <= LQ_SIZE /\ Len(p[i].stores) <= SQ_SIZE
       /\ Cardinality(Arch) + Len(p[i].dst) <= Cardinality(Phys)

VARIABLES
  ROB, LQ, SQ, reg_allocator, num_retired, L1D,
  reading,    \* loads that the L1D has taken
  history,    \* what has retired, and what was stored, in the order in which it did
  odd         \* changes with every cycle

backVars == <<program, DISPATCH_BUFFER, fetch_resume, ROB, LQ, SQ, reg_allocator,
              num_retired, L1D, reading, history, odd>>

\* The uses of registers of the instructions that are renamed, in order.
RenamedUses ==
  LET UsesOf(q, e) ==
        IF ~ e.scheduled THEN q
        ELSE q
             \o Each(Places(e.src), LAMBDA k :
                  [reg |-> program[e.id].src[k], phys |-> e.src[k], written |-> FALSE])
             \o Each(Places(e.dst), LAMBDA k :
                  [reg |-> program[e.id].dst[k], phys |-> e.dst[k], written |-> TRUE])
  IN  Through(UsesOf, << >>, ROB)

Registers == INSTANCE RegisterAllocator WITH
  None <- -1, MAX_WINDOW <- 0, alloc <- reg_allocator, window <- RenamedUses

BackNow ==
  [ROB |-> ROB, LQ |-> LQ, SQ |-> SQ, regs |-> reg_allocator,
   dispatch |-> DISPATCH_BUFFER, retired |-> num_retired, L1D |-> L1D,
   resume |-> fetch_resume, bw |-> 0, search |-> TRUE, history |-> history]

BackBecome(s) ==
  /\ ROB' = s.ROB /\ LQ' = s.LQ /\ SQ' = s.SQ /\ reg_allocator' = s.regs
  /\ DISPATCH_BUFFER' = s.dispatch /\ num_retired' = s.retired /\ L1D' = s.L1D
  /\ fetch_resume' = s.resume /\ history' = s.history

Empty == [id |-> 0, address |-> <<0, 0>>, wait |-> Never, issued |-> FALSE,
          producer |-> 0]
Used(slot) == slot.id # 0
NumMemOps(id) == Len(program[id].loads) + Len(program[id].stores)

-----------------------------------------------------------------------------
(* Retirement *)

\* The entries leave the reorder buffer, in which rest stays.
Retired(s, entries, rest) ==
  LET Free(r, e) == Through(Registers!RetireDest, r, e.dst)
  IN  [s EXCEPT !.regs = Through(Free, @, entries), !.ROB = rest,
                !.retired = @ + Len(entries),
                !.history.retired = @ \o Each(entries, LAMBDA e : e.id)]

\* Mutant of RetireRob: those that are completed retire, wherever they are.
RetireRobAny(s) ==
  LET completed == SelectSeq(s.ROB, LAMBDA e : e.completed)
      done == First(completed, LowerOf(RETIRE_WIDTH, Len(completed)))
  IN  Retired(s, done, SelectSeq(s.ROB, LAMBDA e : e \notin Elements(done)))

\* retire_rob: those in front that are completed.
RetireRob(s) ==
  LET n == Leading(s.ROB, RETIRE_WIDTH, LAMBDA e : e.completed)
  IN  Retired(s, First(s.ROB, n), Rest(s.ROB, n))

\* Mutant of Finished: the memory operations are not waited for.
FinishedEarly(e) == e.executed /\ ~ e.completed /\ Ready(e)

Finished(e) ==
  e.executed /\ ~ e.completed /\ Ready(e) /\ e.done = NumMemOps(e.id)

\* do_complete_execution
Complete(s, i) ==
  [s EXCEPT !.regs = Through(Registers!CompleteDest, @, s.ROB[i].dst),
            !.ROB[i].completed = TRUE,
            !.resume = IF s.ROB[i].mispredicted THEN BRANCH_MISPREDICT_PENALTY ELSE @,
            !.bw = @ - 1]

CompleteInflight(s) ==
  LET Step(t, i) == IF t.bw > 0 /\ Finished(t.ROB[i]) THEN Complete(t, i) ELSE t
  IN  Through(Step, [s EXCEPT !.bw = EXEC_WIDTH], Places(s.ROB))

-----------------------------------------------------------------------------
(* Execution *)

\* do_execution: the addresses are known now.  (A load is issued when its
\* ready time has passed, a store when it has come.)
Execute(s, i) ==
  LET id == s.ROB[i].id
      Known(e, wait) == IF e.id = id THEN [e EXCEPT !.wait = wait] ELSE e
  IN  [s EXCEPT !.ROB[i].executed = TRUE, !.ROB[i].wait = EXEC_LATENCY,
                !.LQ = Each(@, LAMBDA e : Known(e, EXEC_LATENCY + 1)),
                !.SQ = Each(@, LAMBDA e : Known(e, EXEC_LATENCY)),
                !.bw = @ - 1]

\* Mutant of SourcesValid: one valid source is enough.
SourcesValidAny(regs, e) ==
  e.src = << >> \/ \E k \in 1 .. Len(e.src) : regs.file[e.src[k]].valid

SourcesValid(regs, e) == \A k \in 1 .. Len(e.src) : regs.file[e.src[k]].valid

ExecuteInstructions(s) ==
  LET Step(t, i) ==
        LET e == t.ROB[i]
        IN  IF t.bw > 0 /\ e.scheduled /\ ~ e.executed /\ Ready(e)
                 /\ SourcesValid(t.regs, e)
            THEN Execute(t, i) ELSE t
  IN  Through(Step, [s EXCEPT !.bw = EXEC_WIDTH], Places(s.ROB))

-----------------------------------------------------------------------------
(* Scheduling *)

\* isAllocated, which is asked about physical registers too once an
\* instruction is scheduled: beyond the end of the table it reads something.
IsAllocated(regs, r, beyond) == IF r \in Arch THEN regs.front[r] # -1 ELSE beyond

\* How many registers the scan thinks the entry still needs.
ToAllocate(regs, e, beyond) ==
  Cardinality({k \in 1 .. Len(e.src) : ~ IsAllocated(regs, e.src[k], beyond)})
    + Len(e.dst)

\* The registers rs renamed by Op one after the other, and their new names.
RenameAll(regs, rs, Op(_, _)) ==
  LET Step(t, r) ==
        LET next == Op(t.regs, r)
        IN  [regs |-> next, names |-> Append(t.names, next.front[r])]
  IN  Through(Step, [regs |-> regs, names |-> << >>], rs)

\* Mutant of Rename: the destinations are renamed before the sources.
RenameDestFirst(s, i) ==
  LET dst == RenameAll(s.regs, s.ROB[i].dst, Registers!RenameDest)
      src == RenameAll(dst.regs, s.ROB[i].src, Registers!RenameSrc)
  IN  [s EXCEPT !.regs = src.regs, !.ROB[i].src = src.names,
                !.ROB[i].dst = dst.names, !.ROB[i].scheduled = TRUE]

\* do_scheduling
Rename(s, i) ==
  LET src == RenameAll(s.regs, s.ROB[i].src, Registers!RenameSrc)
      dst == RenameAll(src.regs, s.ROB[i].dst, Registers!RenameDest)
  IN  [s EXCEPT !.regs = dst.regs, !.ROB[i].src = src.names,
                !.ROB[i].dst = dst.names, !.ROB[i].scheduled = TRUE]

ScheduleInstructions(s, beyond) ==
  LET Step(t, i) ==
        LET e == t.ROB[i]
            searching == t.search /\ t.bw > 0
            enough == ToAllocate(t.regs, e, beyond) <= Len(t.regs.free)
            next == IF ~ e.scheduled /\ Ready(e) THEN Rename(t, i) ELSE t
        IN  CASE ~ searching -> t
              [] searching /\ ~ enough -> [t EXCEPT !.search = FALSE]
              [] OTHER -> [next EXCEPT !.bw = IF e.executed THEN @ ELSE @ - 1]
  IN  Through(Step, [s EXCEPT !.bw = SCHEDULER_SIZE, !.search = TRUE], Places(s.ROB))

-----------------------------------------------------------------------------
(* Loads and stores *)

\* LSQ_ENTRY::finish; the code asserts that the instruction is in the ROB.
FinishOp(rob, id) ==
  Each(rob, LAMBDA e : IF e.id = id THEN [e EXCEPT !.done = @ + 1] ELSE e)

FinishLoad(s, k) ==
  [s EXCEPT !.ROB = FinishOp(@, s.LQ[k].id), !.LQ[k] = Empty]

\* handle_memory_return: a response finishes all issued loads of its block.
HandleMemoryReturn(s) ==
  LET n == LowerOf(Len(s.L1D.returned), L1D_BANDWIDTH)
      Return(t, response) ==
        LET Step(u, k) ==
              IF /\ Used(u.LQ[k]) /\ u.LQ[k].issued
                 /\ u.LQ[k].address[1] = response.address[1]
              THEN FinishLoad(u, k) ELSE u
        IN  Through(Step, t, Places(t.LQ))
  IN  [Through(Return, s, First(s.L1D.returned, n))
         EXCEPT !.L1D.returned = Rest(@, n)]

\* Mutant of FinishStore: the loads that wait for it are forgotten.
FinishStoreAlone(s, i) ==
  [s EXCEPT !.ROB = FinishOp(@, s.SQ[i].id), !.SQ[i].issued = TRUE, !.SQ[i].wait = 0]

\* do_finish_store: its value is known, and the loads that wait for it have it.
FinishStore(s, i) ==
  LET stored == [s EXCEPT !.ROB = FinishOp(@, s.SQ[i].id),
                          !.SQ[i].issued = TRUE, !.SQ[i].wait = 0]
  IN  Through(FinishLoad, stored, s.SQ[i].waiters)

\* The first store that is not issued (partition_point).
Unfetched(sq) ==
  LET n == Cardinality({i \in 1 .. Len(sq) : sq[i].issued}) IN n + 1

FinishStores(s) ==
  LET begin == Unfetched(s.SQ)
      n == Leading(Rest(s.SQ, begin - 1), SQ_WIDTH, LAMBDA e : ~ e.issued /\ Ready(e))
  IN  [Through(FinishStore, s, Each(Places(First(s.SQ, n)), LAMBDA k : begin - 1 + k))
         EXCEPT !.bw = SQ_WIDTH - n]

\* Mutant of MayComplete: the instruction at the head of the ROB is included.
MayCompleteHead(rob, e) == Ready(e) /\ (rob = << >> \/ e.id <= Head(rob).id)

MayComplete(rob, e) == Ready(e) /\ (rob = << >> \/ e.id < Head(rob).id)

\* do_complete_store
SendStore(s, e) ==
  [s EXCEPT !.L1D = AddWQ(@, Request("WRITE", e.address, FALSE, FALSE, {})),
            !.history.stored = Append(@, <<e.id, e.address>>)]

StoreRoom(s) == LowerOf(s.bw, s.L1D.WQ_SIZE - Len(s.L1D.WQ))

\* Mutant of CompleteStores: of those that may go the youngest go first.
CompleteStoresNewest(s) ==
  LET may == Leading(s.SQ, Len(s.SQ), LAMBDA e : MayComplete(s.ROB, e))
      n == LowerOf(may, StoreRoom(s))
      youngest == Rest(First(s.SQ, may), may - n)
  IN  [Through(SendStore, s, youngest) EXCEPT !.SQ = First(@, may - n) \o Rest(@, may)]

\* Stores of retired instructions go to the L1D, as long as it takes them.
CompleteStores(s) ==
  LET n == Leading(s.SQ, StoreRoom(s), LAMBDA e : MayComplete(s.ROB, e))
  IN  [Through(SendStore, s, First(s.SQ, n)) EXCEPT !.SQ = Rest(@, n)]

ExecuteLoads(s) ==
  LET Step(t, k) ==
        IF /\ t.bw > 0 /\ Used(t.LQ[k]) /\ t.LQ[k].producer = 0
           /\ ~ t.LQ[k].issued /\ Ready(t.LQ[k]) /\ CanAddRQ(t.L1D)
        THEN [t EXCEPT !.L1D = AddRQ(@, Request("LOAD", t.LQ[k].address, FALSE, TRUE, {})),
                       !.LQ[k].issued = TRUE, !.bw = @ - 1]
        ELSE t
  IN  Through(Step, [s EXCEPT !.bw = LQ_WIDTH], Places(s.LQ))

OperateLsq(s) == ExecuteLoads(CompleteStores(FinishStores(s)))

-----------------------------------------------------------------------------
(* Dispatch *)

MatchingStores(sq, address) == {i \in 1 .. Len(sq) : sq[i].address = address}

\* Mutant of ForwardingStore: the oldest one.
ForwardingStoreOldest(sq, address) ==
  LET hits == MatchingStores(sq, address)
  IN  {i \in hits : \A j \in hits : i <= j}

\* The youngest store to the address (max_element), of those with one id the
\* first.
ForwardingStore(sq, address) ==
  LET hits == MatchingStores(sq, address)
  IN  {i \in hits : \A j \in hits :
         sq[j].id < sq[i].id \/ (sq[j].id = sq[i].id /\ i <= j)}

\* A load takes a free slot, unless a store has its value already.
DispatchLoad(s, id, address) ==
  LET k == Min({j \in 1 .. Len(s.LQ) : ~ Used(s.LQ[j])})
      store == ForwardingStore(s.SQ, address)
      slot == [Empty EXCEPT !.id = id, !.address = address]
      i == Min(store)
  IN  CASE store = {} -> [s EXCEPT !.LQ[k] = slot]
        [] store # {} /\ s.SQ[i].issued -> [s EXCEPT !.ROB = FinishOp(@, id)]
        [] OTHER -> [s EXCEPT !.LQ[k] = [slot EXCEPT !.producer = s.SQ[i].id],
                              !.SQ[i].waiters = Append(@, k)]

DispatchStore(s, id, address) ==
  [s EXCEPT !.SQ = Append(@, [id |-> id, address |-> address, wait |-> Never,
                              issued |-> FALSE, waiters |-> << >>])]

\* Mutant of MayDispatch: the reorder buffer is full one entry too late.
MayDispatchLate(s) ==
  /\ s.bw > 0 /\ s.dispatch # << >>
  /\ Ready(Head(s.dispatch))
  /\ Len(s.ROB) <= ROB_SIZE
  /\ LET i == program[Head(s.dispatch).id]
     IN  /\ Cardinality({k \in 1 .. Len(s.LQ) : ~ Used(s.LQ[k])}) >= Len(i.loads)
         /\ Len(s.SQ) + Len(i.stores) <= SQ_SIZE

MayDispatch(s) ==
  /\ s.bw > 0 /\ s.dispatch # << >>
  /\ Ready(Head(s.dispatch))
  /\ Len(s.ROB) # ROB_SIZE
  /\ LET i == program[Head(s.dispatch).id]
     IN  /\ Cardinality({k \in 1 .. Len(s.LQ) : ~ Used(s.LQ[k])}) >= Len(i.loads)
         /\ Len(s.SQ) + Len(i.stores) <= SQ_SIZE

\* do_memory_scheduling
DispatchHead(s) ==
  LET e == Head(s.dispatch)
      i == program[e.id]
      entry == [id |-> e.id, mispredicted |-> e.mispredicted, src |-> i.src,
                dst |-> i.dst, wait |-> SCHEDULING_LATENCY, scheduled |-> FALSE,
                executed |-> FALSE, completed |-> FALSE, done |-> 0]
      in_rob == [s EXCEPT !.ROB = Append(@, entry), !.dispatch = Tail(@), !.bw = @ - 1]
      loaded == Through(LAMBDA t, a : DispatchLoad(t, e.id, a), in_rob, i.loads)
  IN  Through(LAMBDA t, a : DispatchStore(t, e.id, a), loaded, i.stores)

DispatchInstructions(s) ==
  LET Step(t, i) == IF MayDispatch(t) THEN DispatchHead(t) ELSE t
  IN  Through(Step, [s EXCEPT !.bw = DISPATCH_WIDTH], Places(s.dispatch))

-----------------------------------------------------------------------------
(* A cycle *)

BackElapsed(s) ==
  [s EXCEPT !.ROB = Waited(@), !.LQ = Waited(@), !.SQ = Waited(@),
            !.dispatch = Waited(@), !.resume = Elapse(@)]

\* The stages of operate() from retire_rob to dispatch_instruction; Then says
\* what comes after them.
BackStages(start, beyond, Then(_)) ==
  \E executed \in {ExecuteInstructions(CompleteInflight(RetireRob(BackElapsed(start))))} :
    \E scheduled \in {ScheduleInstructions(executed, beyond)} :
      \E memory \in {OperateLsq(HandleMemoryReturn(scheduled))} :
        \E s \in {DispatchInstructions(memory)} : Then(s)

BackInit ==
  /\ program \in Programs
  /\ DISPATCH_BUFFER = << >> /\ fetch_resume = 0
  /\ ROB = << >> /\ SQ = << >>
  /\ LQ = Each([k \in 1 .. LQ_SIZE |-> k], LAMBDA k : Empty)
  /\ reg_allocator = Registers!NewAllocator(SetToSortSeq(Phys, <))
  /\ num_retired = 0
  /\ L1D = NewChannel(L1D_RQ_SIZE, L1D_WQ_SIZE, 0, TRUE)
  /\ history = [retired |-> << >>, stored |-> << >>]
  /\ reading = << >> /\ odd = FALSE

BackCycle ==
  \E beyond \in BOOLEAN :
    /\ BackStages(BackNow, beyond, BackBecome)
    /\ odd' = ~ odd
    /\ UNCHANGED <<program, reading>>

-----------------------------------------------------------------------------
(* The memory system *)

UnchangedButL1D ==
  UNCHANGED <<program, DISPATCH_BUFFER, fetch_resume, ROB, LQ, SQ, reg_allocator,
              num_retired, history, odd>>

\* The L1D merges and forwards (check_collision), and takes a request.
L1DTakes(name) ==
  LET c == CheckCollision(L1D)
  IN  /\ c[name] # << >>
      /\ L1D' = [c EXCEPT ![name] = Tail(@)]
      /\ reading' = IF name = "RQ" THEN Append(reading, Head(c.RQ).address) ELSE reading
      /\ UnchangedButL1D

L1DResponds(i) ==
  /\ L1D' = [L1D EXCEPT !.returned = Append(@, [address |-> reading[i], deps |-> {}])]
  /\ reading' = RemoveAt(reading, i)
  /\ UnchangedButL1D
=============================================================================
