----------------------------- MODULE O3FrontEnd -----------------------------
(***************************************************************************)
(* The processor from the trace to the dispatch buffer (ooo_cpu.cc):       *)
(* branch prediction, the decoded instruction buffer (DIB), fetching from  *)
(* the L1I and decoding.  FrontOperate is this half of a cycle.            *)
(*                                                                         *)
(* Of an instruction its block (line), its window in the DIB, and its      *)
(* branch matter: the kind, whether it is taken, and what the predictor    *)
(* makes of it: right, or wrong about the target or the direction.         *)
(*                                                                         *)
(* The program, the dispatch buffer and the time at which fetching goes on *)
(* are shared with the other half, which extends this module.  In the      *)
(* program an instruction has its source and destination registers (src,   *)
(* dst), the addresses it loads and stores, and what is said above.  Its   *)
(* place is its instr_id.  Times count down to 0, and Never is             *)
(* time_point::max().                                                      *)
(***************************************************************************)
EXTENDS Channel

CONSTANTS
  Programs,     \* the programs: sequences of instructions
  DISPATCH_BUFFER_SIZE,
  BRANCH_MISPREDICT_PENALTY

VARIABLES
  program,
  DISPATCH_BUFFER,
  fetch_resume   \* fetch_resume_time

Never == -1

Elapse(wait) == IF wait > 0 THEN wait - 1 ELSE wait

Waited(q) == Each(q, LAMBDA e : [e EXCEPT !.wait = Elapse(@)])

Ready(e) == e.wait = 0

Places(q) == [i \in 1 .. Len(q) |-> i]

\* An entry of the dispatch buffer.
Decoded(id, wait, mispredicted) ==
  [id |-> id, wait |-> wait, mispredicted |-> mispredicted]

-----------------------------------------------------------------------------
CONSTANTS
  IN_QUEUE_SIZE, IFETCH_BUFFER_SIZE, DECODE_BUFFER_SIZE,
  DIB_HIT_BUFFER_SIZE,         \* 0: hits go through the decode buffer
  FETCH_WIDTH, DECODE_WIDTH, DIB_INORDER_WIDTH, L1I_BANDWIDTH,
  DECODE_LATENCY, DISPATCH_LATENCY, DIB_HIT_LATENCY,
  DIB_WAY,                     \* the DIB has one set
  L1I_RQ_SIZE

VARIABLES
  input_queue, IFETCH_BUFFER, DIB, DECODE_BUFFER, DIB_HIT_BUFFER, L1I,
  supplied,    \* how many instructions the trace has given
  fetching     \* requests that the L1I has taken

frontOwn == <<input_queue, IFETCH_BUFFER, DIB, DECODE_BUFFER, DIB_HIT_BUFFER, L1I,
              supplied>>

Ids(q) == {q[i].id : i \in 1 .. Len(q)}

-----------------------------------------------------------------------------
(* What comes back from the L1I *)

\* The entry with this id, if it waits for this block.
Fetched(q, id, line) ==
  {i \in 1 .. Len(q) : q[i].id = id /\ program[id].line = line /\ q[i].fetch_issued}

\* handle_memory_return, one instruction that depends on the first response
Serve(s, id) ==
  LET hit == Fetched(s.IFETCH, id, Head(s.L1I.returned).address[1])
      served == [s EXCEPT !.L1I.returned[1].deps = @ \ {id}]
  IN  CASE s.bw = 0 -> s
        [] s.bw > 0 /\ hit = {} -> served
        [] OTHER -> [served EXCEPT !.IFETCH[Min(hit)].fetch_completed = TRUE, !.bw = @ - 1]

\* Mutant of DropServed: a response is dropped whether or not all are served.
DropServedAlways(s) == [s EXCEPT !.L1I.returned = Tail(@)]

DropServed(s) ==
  IF Head(s.L1I.returned).deps = {} THEN [s EXCEPT !.L1I.returned = Tail(@)] ELSE s

HandleInstructionReturn(s) ==
  LET Step(t, k) ==
        IF t.bw = 0 \/ t.L1I.returned = << >> THEN t
        ELSE DropServed(Through(Serve, t, SetToSortSeq(Head(t.L1I.returned).deps, <)))
  IN  Through(Step, [s EXCEPT !.bw = FETCH_WIDTH], [k \in 1 .. L1I_BANDWIDTH |-> k])

-----------------------------------------------------------------------------
(* Decoding *)

\* fill and check_hit of the DIB, least recently used first (module LruTable).
Recent(dib, w) ==
  LET others == SelectSeq(dib, LAMBDA x : x # w)
      kept == IF Len(others) = DIB_WAY THEN Tail(others) ELSE others
  IN  Append(kept, w)

\* Branches whose misprediction shows when they are decoded.
ResolvedAtDecode(i) ==
  i.branch = "direct" \/ (i.branch = "conditional" /\ i.predicted # "direction")

\* Mutant of Decode: the mark of the misprediction stays.
DecodeMarked(s, e) ==
  LET resolved == e.mispredicted /\ ResolvedAtDecode(program[e.id])
  IN  [s EXCEPT !.DIB = Recent(@, program[e.id].window),
                !.resume = IF resolved THEN BRANCH_MISPREDICT_PENALTY ELSE @,
                !.dispatch = Append(@, Decoded(e.id, DISPATCH_LATENCY, e.mispredicted))]

\* do_decode
Decode(s, e) ==
  LET resolved == e.mispredicted /\ ResolvedAtDecode(program[e.id])
  IN  [s EXCEPT !.DIB = Recent(@, program[e.id].window),
                !.resume = IF resolved THEN BRANCH_MISPREDICT_PENALTY ELSE @,
                !.dispatch = Append(@, Decoded(e.id, DISPATCH_LATENCY,
                                               e.mispredicted /\ ~ resolved))]

DecodeFirst(s) == [Decode(s, Head(s.DECODE)) EXCEPT !.DECODE = Tail(@), !.decode_bw = @ - 1]

\* do_dib_hit
PassFirst(s) ==
  LET e == Head(s.DIB_HIT)
  IN  [s EXCEPT !.DIB_HIT = Tail(@),
                !.dispatch = Append(@, Decoded(e.id, DISPATCH_LATENCY, e.mispredicted))]

\* Mutant of HitIsOlder: hits go first.
HitIsOlderAlways(s) == s.DIB_HIT # << >>

HitIsOlder(s) ==
  s.DIB_HIT # << >> /\ (s.DECODE = << >> \/ Head(s.DIB_HIT).id < Head(s.DECODE).id)

\* The oldest instruction of both buffers goes on, as long as it is ready.
MergeFirst(s) ==
  CASE s.bw > 0 /\ HitIsOlder(s) /\ Ready(Head(s.DIB_HIT)) ->
         [PassFirst(s) EXCEPT !.bw = @ - 1]
    [] /\ s.bw > 0 /\ s.decode_bw > 0 /\ ~ HitIsOlder(s)
       /\ s.DECODE # << >> /\ Ready(Head(s.DECODE)) ->
         [DecodeFirst(s) EXCEPT !.bw = @ - 1]
    [] OTHER -> s

DecodeInstructions(s) ==
  LET width == IF DIB_HIT_BUFFER_SIZE = 0 THEN DECODE_WIDTH ELSE DIB_INORDER_WIDTH
      room == LowerOf(width, DISPATCH_BUFFER_SIZE - Len(s.dispatch))
  IN  Through(LAMBDA t, k : MergeFirst(t),
              [s EXCEPT !.bw = room, !.decode_bw = DECODE_WIDTH],
              [k \in 1 .. room |-> k])

-----------------------------------------------------------------------------
(* From the fetch buffer to the decode buffers *)

\* Mutant of PromoteRoom: the room of the buffer for hits is not looked at.
PromoteRoomDecode(s) == LowerOf(FETCH_WIDTH, DECODE_BUFFER_SIZE - Len(s.DECODE))

PromoteRoom(s) ==
  LET decode == LowerOf(FETCH_WIDTH, DECODE_BUFFER_SIZE - Len(s.DECODE))
  IN  IF DIB_HIT_BUFFER_SIZE = 0 THEN decode
      ELSE LowerOf(decode, DIB_HIT_BUFFER_SIZE - Len(s.DIB_HIT))

Promote(s, e) ==
  LET hit == [id |-> e.id, wait |-> DIB_HIT_LATENCY, mispredicted |-> e.mispredicted]
      other == [hit EXCEPT !.wait = DECODE_LATENCY]
  IN  IF e.decoded /\ DIB_HIT_BUFFER_SIZE # 0
      THEN [s EXCEPT !.DIB_HIT = Append(@, hit)]
      ELSE [s EXCEPT !.DECODE = Append(@, IF e.decoded THEN hit ELSE other)]

PromoteToDecode(s) ==
  LET n == Leading(s.IFETCH, PromoteRoom(s), LAMBDA e : e.fetch_completed)
  IN  [Through(Promote, s, First(s.IFETCH, n)) EXCEPT !.IFETCH = Rest(@, n)]

-----------------------------------------------------------------------------
(* Fetching *)

\* The places of the next instructions, from a place on, that are asked for
\* together: from the first that may be to the end of its block.
FetchGroup(q, from) ==
  LET ready == {i \in from .. Len(q) : q[i].dib_checked /\ ~ q[i].fetch_issued}
      begin == Min(ready)
      Line(i) == program[q[i].id].line
  IN  IF ready = {} THEN {}
      ELSE {i \in begin .. Len(q) : \A j \in begin .. i : Line(j) = Line(begin)}

\* do_fetch_instruction; each group is one request.
Fetch(s, group) ==
  LET ids == {s.IFETCH[i].id : i \in group}
      address == <<program[s.IFETCH[Min(group)].id].line, 0>>
      Issued(e) == IF e.id \in ids THEN [e EXCEPT !.fetch_issued = TRUE] ELSE e
  IN  [s EXCEPT !.L1I = AddRQ(@, Request("LOAD", address, FALSE, TRUE, ids)),
                !.IFETCH = Each(@, Issued)]

FetchInstructions(s) ==
  LET Step(t, k) ==
        LET group == FetchGroup(t.IFETCH, t.from)
            next == IF group # {} /\ CanAddRQ(t.L1I) THEN Fetch(t, group) ELSE t
        IN  IF group = {} THEN t ELSE [next EXCEPT !.from = Max(group) + 1]
  IN  Through(Step, [s EXCEPT !.from = 1], [k \in 1 .. L1I_BANDWIDTH |-> k])

-----------------------------------------------------------------------------
(* The decoded instruction buffer *)

\* do_check_dib
CheckEntry(s, i) ==
  LET w == program[s.IFETCH[i].id].window
      checked == [s EXCEPT !.IFETCH[i].dib_checked = TRUE]
  IN  IF w \in Elements(s.DIB)
      THEN [checked EXCEPT !.DIB = Recent(@, w), !.IFETCH[i].fetch_completed = TRUE,
                           !.IFETCH[i].decoded = TRUE]
      ELSE checked

CheckDIB(s) ==
  LET unchecked == {i \in 1 .. Len(s.IFETCH) : ~ s.IFETCH[i].dib_checked}
      begin == Min(unchecked)
      end == LowerOf(begin + FETCH_WIDTH - 1, Len(s.IFETCH))
  IN  IF unchecked = {} THEN s
      ELSE Through(CheckEntry, s, SetToSortSeq(begin .. end, <))

-----------------------------------------------------------------------------
(* Reading the trace *)

Mispredicts(i) == i.branch # "none" /\ i.predicted # "right"

\* What do_predict_branch returns.
StopsFetch(i) == Mispredicts(i) \/ (i.branch # "none" /\ i.taken)

\* do_init_instruction, and its place in the fetch buffer
InitInstruction(s) ==
  LET id == Head(s.input)
      i == program[id]
  IN  [s EXCEPT !.input = Tail(@),
                !.IFETCH = Append(@, [id |-> id, mispredicted |-> Mispredicts(i),
                                      dib_checked |-> FALSE, fetch_issued |-> FALSE,
                                      fetch_completed |-> FALSE, decoded |-> FALSE]),
                !.resume = IF Mispredicts(i) THEN Never ELSE @,
                !.stop_fetch = StopsFetch(i)]

InitializeInstructions(s) ==
  LET room == LowerOf(FETCH_WIDTH, IFETCH_BUFFER_SIZE - Len(s.IFETCH))
      Step(t, k) ==
        IF t.resume = 0 /\ ~ t.stop_fetch /\ t.input # << >> THEN InitInstruction(t) ELSE t
  IN  Through(Step, [s EXCEPT !.stop_fetch = FALSE], [k \in 1 .. room |-> k])

\* csimCore fills the input queue from the trace after each cycle.
Refill(s) ==
  LET n == LowerOf(IN_QUEUE_SIZE - Len(s.input), Len(program) - s.supplied)
  IN  [s EXCEPT !.input = @ \o [k \in 1 .. n |-> s.supplied + k], !.supplied = @ + n]

-----------------------------------------------------------------------------
(* A cycle *)

FrontNow ==
  [input |-> input_queue, IFETCH |-> IFETCH_BUFFER, DIB |-> DIB,
   DECODE |-> DECODE_BUFFER, DIB_HIT |-> DIB_HIT_BUFFER, L1I |-> L1I,
   supplied |-> supplied, dispatch |-> DISPATCH_BUFFER, resume |-> fetch_resume,
   bw |-> 0, decode_bw |-> 0, from |-> 1, stop_fetch |-> FALSE]

FrontBecome(s) ==
  /\ input_queue' = s.input /\ IFETCH_BUFFER' = s.IFETCH /\ DIB' = s.DIB
  /\ DECODE_BUFFER' = s.DECODE /\ DIB_HIT_BUFFER' = s.DIB_HIT /\ L1I' = s.L1I
  /\ supplied' = s.supplied /\ DISPATCH_BUFFER' = s.dispatch /\ fetch_resume' = s.resume

FrontElapsed(s) == [s EXCEPT !.DECODE = Waited(@), !.DIB_HIT = Waited(@)]

\* The stages of operate() after dispatch_instruction, and what the L1I returned.
FrontStages(start, Then(_)) ==
  \E decoded \in {DecodeInstructions(HandleInstructionReturn(FrontElapsed(start)))} :
    \E fetched \in {FetchInstructions(PromoteToDecode(decoded))} :
      \E s \in {Refill(InitializeInstructions(CheckDIB(fetched)))} : Then(s)

FrontInit ==
  /\ program \in Programs
  /\ DISPATCH_BUFFER = << >> /\ fetch_resume = 0
  /\ input_queue = << >> /\ IFETCH_BUFFER = << >> /\ DIB = << >>
  /\ DECODE_BUFFER = << >> /\ DIB_HIT_BUFFER = << >> /\ supplied = 0
  /\ L1I = NewChannel(L1I_RQ_SIZE, 0, 0, TRUE) /\ fetching = << >>

-----------------------------------------------------------------------------
(* The L1I *)

\* It merges requests in its channel and in its MSHR.
L1ITakes ==
  LET c == CheckCollision(L1I)
      e == Head(c.RQ)
      same == {i \in 1 .. Len(fetching) : fetching[i].address[1] = e.address[1]}
  IN  /\ c.RQ # << >>
      /\ L1I' = [c EXCEPT !.RQ = Tail(@)]
      /\ fetching' = IF same = {} THEN Append(fetching, ResponseTo(e))
                     ELSE [fetching EXCEPT ![Min(same)].deps = @ \cup e.deps]

L1IResponds(i) ==
  /\ L1I' = [L1I EXCEPT !.returned = Append(@, fetching[i])]
  /\ fetching' = RemoveAt(fetching, i)
=============================================================================
