------------------------------- MODULE MCCore -------------------------------
(***************************************************************************)
(* The processor and what feeds it: the whole O3_CPU, each of its halves,  *)
(* RegisterAllocator alone and TraceReader.  A behaviour chooses one of    *)
(* them at the beginning and leaves the others alone.                      *)
(***************************************************************************)
EXTENDS RegisterAllocator, TLC

CONSTANTS
  ROB_SIZE, LQ_SIZE, SQ_SIZE, DISPATCH_BUFFER_SIZE, DIB_HIT_BUFFER_SIZE, DECODE_BUFFER_SIZE,
  BRANCH_MISPREDICT_PENALTY, DISPATCH_WIDTH, SCHEDULER_SIZE, EXEC_WIDTH, LQ_WIDTH, SQ_WIDTH,
  RETIRE_WIDTH, FETCH_WIDTH, DIB_INORDER_WIDTH, L1D_BANDWIDTH, SCHEDULING_LATENCY, EXEC_LATENCY,
  DECODE_LATENCY, DISPATCH_LATENCY, DIB_HIT_LATENCY, DIB_WAY, L1D_RQ_SIZE, L1D_WQ_SIZE, Uncertain

VARIABLES
  part,
  program, DISPATCH_BUFFER, fetch_resume,
  ROB, LQ, SQ, reg_allocator, num_retired, L1D, reading, history, odd,
  input_queue, IFETCH_BUFFER, DIB, DECODE_BUFFER, DIB_HIT_BUFFER, L1I, supplied, fetching,
  dispatched, unresolved,
  warmup_insts, sim_insts, warmup_done, ended,
  file, unit, fail, in, pending, out, got, collecting, eof, buffer, delivered

bothVars == <<program, DISPATCH_BUFFER, fetch_resume, odd>>
backOnly == <<ROB, LQ, SQ, reg_allocator, num_retired, L1D, reading, history>>
frontOnly == <<input_queue, IFETCH_BUFFER, DIB, DECODE_BUFFER, DIB_HIT_BUFFER, L1I, supplied, fetching>>
behindVars == <<dispatched, unresolved>>
nodeVars == <<warmup_insts, sim_insts, warmup_done, ended>>
traceVars == <<file, unit, fail, in, pending, out, got, collecting, eof, buffer, delivered>>
coreVars == <<bothVars, backOnly, frontOnly, behindVars, nodeVars>>
allVars == <<part, vars, coreVars, traceVars>>

-----------------------------------------------------------------------------
(* Programs: instructions are [line, window, branch, ..., src, dst, loads, *)
(* stores].  A1 and A2 are addresses of one block.                         *)

A1 == <<1, 0>>
A2 == <<1, 1>>
B1 == <<2, 0>>

Instr(src, dst, loads, stores) ==
  [line |-> 1, window |-> 1, branch |-> "none", taken |-> FALSE, predicted |-> "right",
   src |-> src, dst |-> dst, loads |-> loads, stores |-> stores]

At(line, win, instr) == [instr EXCEPT !.line = line, !.window = win]
Nop(line, win) == At(line, win, Instr(<< >>, << >>, << >>, << >>))
Jump(line, win, kind, predicted, src) ==
  [Nop(line, win) EXCEPT !.branch = kind, !.taken = TRUE, !.predicted = predicted, !.src = src]

(* For the back end *)

\* Two stores to an address, of which a load takes the younger.
Forwarding ==
  <<Instr(<<0>>, << >>, << >>, <<A1>>), Instr(<<1>>, << >>, << >>, <<A1>>),
    Instr(<<0>>, <<0>>, <<A1>>, << >>), Instr(<<0>>, <<1>>, <<A2>>, << >>)>>

\* Loads of one block, and an instruction that reads and writes memory.
Loads ==
  <<Instr(<< >>, <<0>>, <<A1>>, << >>), Instr(<<0>>, <<1>>, <<A2, B1>>, << >>),
    Instr(<<1>>, <<1>>, <<B1>>, <<B1>>), Instr(<<1>>, <<0>>, <<B1>>, << >>)>>

\* A chain of register writes that needs every physical register.
Renaming ==
  <<Instr(<<0, 1>>, <<0>>, << >>, << >>), Instr(<<0>>, <<0>>, <<A1>>, << >>),
    Instr(<<1>>, <<0, 1>>, << >>, << >>), Instr(<<0>>, <<1>>, << >>, <<A1>>)>>

\* Two loads that an instruction waits for, and what follows it.
Join ==
  <<Instr(<<0>>, <<0>>, <<A1>>, << >>), Instr(<<1>>, <<1>>, <<B1>>, << >>),
    Instr(<<0, 1>>, <<0>>, << >>, <<B1>>), Instr(<<0>>, <<1>>, <<B1>>, <<A1>>),
    Instr(<<1>>, << >>, <<A2>>, << >>)>>

BackPrograms == {Forwarding, Loads, Renaming, Join}

(* For the front end *)

\* A loop of three instructions in two blocks, run twice, and what follows it.
FetchLoop ==
  {<<Nop(1, 1), Nop(1, 2), Jump(2, 3, "conditional", once, << >>),
     Nop(1, 1), Nop(1, 2), Jump(2, 3, "conditional", twice, << >>), Nop(2, 3)>> :
     once \in {"right", "target", "direction"}, twice \in {"right", "direction"}}

\* A direct and an indirect jump.
Jumps ==
  {<<Jump(1, 1, "direct", once, << >>), Jump(2, 2, "indirect", twice, << >>), Nop(1, 1), Nop(1, 1),
     Nop(2, 2)>> : once, twice \in {"right", "target"}}

FrontPrograms == FetchLoop \cup Jumps

(* For both *)

\* A loop: load, store what was loaded, branch back; run twice, and what follows it.
CopyLoop ==
  {<<Instr(<<0>>, <<0>>, <<A1>>, << >>), Instr(<<0>>, << >>, << >>, <<A1>>),
     Jump(2, 2, "conditional", once, <<0>>),
     Instr(<<0>>, <<0>>, <<A1>>, << >>), Instr(<<0>>, << >>, << >>, <<A1, B1>>),
     Jump(2, 2, "conditional", twice, <<0>>), At(2, 2, Instr(<<0>>, <<0>>, <<B1>>, <<A1>>))>> :
     once \in {"right", "target", "direction"}, twice \in {"right", "direction"}}

\* A jump through a register that is loaded.
LoadedJump ==
  {<<Instr(<< >>, <<1>>, <<B1>>, << >>), Jump(1, 1, "indirect", guess, <<1>>),
     At(2, 2, Instr(<<1>>, <<0, 1>>, << >>, <<B1>>)), At(2, 2, Instr(<<0>>, <<0>>, <<B1>>, << >>))>> :
     guess \in {"right", "target"}}

CPUPrograms == CopyLoop \cup LoadedJump

-----------------------------------------------------------------------------
Cpu ==
  INSTANCE O3_CPU WITH
    Programs <- CPUPrograms \cup BackPrograms, Lengths <- {<<0, 0>>, <<1, 2>>},
    IN_QUEUE_SIZE <- 4, IFETCH_BUFFER_SIZE <- 3, DECODE_WIDTH <- 2, L1I_BANDWIDTH <- 1, L1I_RQ_SIZE <- 1

Front ==
  INSTANCE O3_CPU WITH
    Programs <- FrontPrograms, Lengths <- {<<0, 0>>},
    IN_QUEUE_SIZE <- 3, IFETCH_BUFFER_SIZE <- 4, DECODE_WIDTH <- 1, L1I_BANDWIDTH <- 2, L1I_RQ_SIZE <- 2

(* Small chunks and buffers, so that instructions cross all their borders  *)

Instructions == [ip : 1 .. 2, taken : BOOLEAN, target : {0}]
Units == UNION {[1 .. n -> Instructions] : n \in 0 .. 2}

Trace(files) ==
  INSTANCE TraceReader WITH
    Files <- files, Chunk <- 2, OutSize <- 1, BufferSize <- 3, src <- unit, reading <- collecting

MCFiles ==
  {Append(f, << >>) : f \in {f \in UNION {[1 .. n -> Units] : n \in 1 .. 3} :
                               Len(Trace({})!Content(f)) \in 1 .. 4}}

ASSUME Cpu!BackEndAssumption

-----------------------------------------------------------------------------
\* The constructor of RegisterAllocator frees the registers in the order of their numbers.
RegistersInit == alloc = NewAllocator(<<0, 1, 2, 3>>) /\ window = << >>

\* The halves of the processor begin with programs that fit them.
MCInit ==
  /\ part \in {"cpu", "back", "front", "registers", "trace"}
  /\ RegistersInit
  /\ IF part = "front" THEN Front!BackInit /\ Front!FrontInit ELSE Cpu!BackInit /\ Cpu!FrontInit
  /\ CASE part = "cpu" -> program \in CPUPrograms
       [] part = "front" -> program \in FrontPrograms
       [] part = "back" -> program \in BackPrograms
       [] OTHER -> program = Forwarding
  /\ dispatched = 0 /\ unresolved = 0
  /\ IF part = "cpu" THEN Cpu!CPUInit
     ELSE warmup_insts = 0 /\ sim_insts = 0 /\ warmup_done = FALSE /\ ended = FALSE
  /\ IF part = "trace" THEN Trace(MCFiles)!Init ELSE Trace({<< << >> >>})!Init

MCNext ==
  /\ UNCHANGED part
  /\ \/ part = "cpu" /\ Cpu!CPUNext /\ UNCHANGED <<vars, behindVars, traceVars>>
     \/ part = "back" /\ Cpu!BackNext /\ UNCHANGED <<vars, frontOnly, behindVars, nodeVars, traceVars>>
     \/ part = "front" /\ Front!FrontNext /\ UNCHANGED <<vars, backOnly, nodeVars, traceVars>>
     \/ part = "registers" /\ Next /\ UNCHANGED <<coreVars, traceVars>>
     \/ part = "trace" /\ Trace(MCFiles)!Next /\ UNCHANGED <<vars, coreVars>>

MCSpec == MCInit /\ [][MCNext]_allVars

-----------------------------------------------------------------------------
\* Between the trace and retirement every instruction is in exactly one buffer; reading stops
\* exactly while one mispredicted branch, the youngest instruction, is unresolved; and the node
\* says that the simulation may end when everything has left the processor.
PipelineAccounted == part = "cpu" => Cpu!InOnePlace /\ Cpu!OneMisprediction /\ Cpu!EndsDrained

\* What retires is the program, instruction by instruction, and what is stored are its stores,
\* one by one, none before its instruction has retired, however instructions and stores
\* execute out of order (retire_rob, operate_lsq): the processor implements Architecture.
RetiresInOrder == Cpu!InOrder

\* A load waits for the youngest older store to its address, stores leave in program order
\* after they retire, and an instruction completes after all its memory operations, which
\* find it; reorder buffer, queues and the channel to the L1D keep their sizes.
MemoryOrder ==
  part = "back" => Cpu!BackTypeOK /\ Cpu!MemOpsAccounted /\ Cpu!LoadsSeeStores /\ Cpu!StoresInOrder

\* An instruction executes after those that write its sources, and what the processor does
\* with RegisterAllocator keeps its invariants.
DataflowOrder == part = "back" => Cpu!RenamingSafe /\ Cpu!DataflowOrder

\* Instructions reach dispatch in program order, none lost or doubled, through buffers that
\* keep their sizes; nothing beyond an unresolved mispredicted branch is fetched, and reading
\* goes on after it; an instruction that waits for a fetch has its answer under way.
FetchOrder ==
  part = "front" => Front!FrontTypeOK /\ Front!ProgramOrder /\ Front!FetchBlocked /\ Front!FetchOwed

\* The processor gets the instructions of the trace in order, with the targets of branches,
\* and the trace ends when all of it but the instruction kept back is delivered.
TraceDelivered == part = "trace" => Trace(MCFiles)!InOrder /\ Trace(MCFiles)!AllButOne
=============================================================================
