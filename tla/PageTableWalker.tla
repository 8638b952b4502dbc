-------------------------- MODULE PageTableWalker --------------------------
(***************************************************************************)
(* The page table walker (ptw.cc) in cycles, between the channel of the    *)
(* second level TLB and the channel to the L1D, with the page table of     *)
(* VirtualMemory.  The walker is a record that the stages of operate pass  *)
(* on.  A request is [v, id]; the offset in its page is left out.          *)
(***************************************************************************)
EXTENDS VirtualMemory, Queues

CONSTANTS
  Requests,      \* the requests that the TLB makes, [v, id]
  PsclWays,      \* the ways of each paging structure cache (of one set each)
  MAX_READ, MAX_FILL,
  HIT_LATENCY, MinorFaultPenalty,
  RQ_SIZE,       \* of both channels
  PtesPerBlock

ASSUME WalkerAssumption ==
  /\ PsclWays \in Seq(Nat \ {0}) /\ Len(PsclWays) = PtLevels - 1
  /\ MAX_READ \in Nat /\ MAX_FILL \in Nat
  /\ HIT_LATENCY \in Nat /\ MinorFaultPenalty \in Nat
  /\ Requests \subseteq [v : Vpages, id : {r.id : r \in Requests}]

VARIABLES
  ptw,      \* MSHR, finished, completed, pscl; RQ and returned: the channel of
            \* the TLB; lower and lower_returned: the channel of the L1D;
            \* CR3_addr; taken, ok, next_steps: local to a stage
  reading,  \* what the L1D was asked for, merged by block, and has to answer
  asked,    \* the ids that were requested
  answered, \* those whose answers the TLB has taken
  odd       \* changes with every cycle

vars == <<ptw, vm, reading, asked, answered, odd>>

PsclSize == Len(PsclWays)

BlockOf(address) == <<address.page, address.offset \div PtesPerBlock>>

\* A paging structure cache is a list, the newest first: the least recently used
\* entry leaves it (LruTable shows that lru_table does this).
Newest(q, e, ways) ==
  LET others == Among(q, {x \in Elements(q) : x.tag # e.tag})
  IN  First(<<e>> \o others, LowerOf(ways, Len(others) + 1))

\* check_hit: what is kept at i for the addresses like v, if anything.
Kept(s, i, v) ==
  Among(s.pscl[i], {x \in Elements(s.pscl[i]) : x.tag = Key(v, PtLevels + 1 - i)})

\* All of them are asked, and those that hit are the most recent now.
Touched(s, v) ==
  [s EXCEPT !.pscl = [i \in DOMAIN @ |->
     IF Kept(s, i, v) = << >> THEN @[i]
                              ELSE Newest(@[i], Kept(s, i, v)[1], PsclWays[i])]]

\* Where the walk for v begins: after the deepest hit, or at the root.
WalkInit(s, v) ==
  LET hits == {i \in 1 .. PsclSize : Kept(s, i, v) # << >>}
      deepest == CHOOSE i \in hits : \A j \in hits : j <= i
      from == IF hits = {} THEN [page |-> s.CR3_addr.page, level |-> PsclSize]
                           ELSE Kept(s, deepest, v)[1]
  IN  [address |-> [page |-> from.page, offset |-> Offset(v, from.level)],
       level |-> from.level]

-----------------------------------------------------------------------------
\* Mutant of StepTranslation: the walk goes on though its read was refused.
StepTranslationLost(s, e) ==
  [s EXCEPT !.lower = IF Len(@) < RQ_SIZE THEN Append(@, BlockOf(e.address)) ELSE @,
            !.next_steps = Append(@, e), !.taken = @ + 1]

\* Reads the next entry, unless the channel is full: then the stage ends.
StepTranslation(s, e) ==
  IF Len(s.lower) < RQ_SIZE
  THEN [s EXCEPT !.lower = Append(@, BlockOf(e.address)),
                 !.next_steps = Append(@, e), !.taken = @ + 1]
  ELSE [s EXCEPT !.ok = FALSE]

HandleRead(s, r) ==
  LET start == WalkInit(s, r.v)
      e == [v |-> r.v, id |-> r.id, level |-> start.level, address |-> start.address,
            data |-> start.address, wait |-> 0]
  IN  IF s.ok THEN StepTranslation(Touched(s, r.v), e) ELSE s

\* Mutant of HandleFill: the entry goes to the cache of the level of its data.
HandleFillUp(s, e) ==
  LET i == PsclSize - e.level + 1
      kept == [tag |-> Key(e.v, e.level), page |-> e.data.page, level |-> e.level - 1]
      filled == [s EXCEPT !.pscl[i] = Newest(@, kept, PsclWays[i])]
  IN  IF s.ok THEN StepTranslation(filled, [e EXCEPT !.address = e.data, !.level = @ - 1])
              ELSE s

HandleFill(s, e) ==
  LET i == PsclSize - e.level + 1
      kept == [tag |-> Key(e.v, e.level + 1), page |-> e.data.page, level |-> e.level - 1]
      filled == [s EXCEPT !.pscl[i] = Newest(@, kept, PsclWays[i])]
  IN  IF s.ok THEN StepTranslation(filled, [e EXCEPT !.address = e.data, !.level = @ - 1])
              ELSE s

\* The data of one entry whose block has come, and when it is there.
FinishStep(s, e) ==
  LET pte == GetPtePa(s.vm, e.v, e.level)
      last == VaToPa(s.vm, e.v)
      got == IF e.level > 0 THEN pte ELSE last
      data == [page |-> got.page, offset |-> IF e.level > 0 THEN pte.offset ELSE 0]
      done == [e EXCEPT !.data = data,
                        !.wait = HIT_LATENCY + IF got.fault THEN MinorFaultPenalty ELSE 0]
  IN  IF e.level > 0
      THEN [s EXCEPT !.vm = got.vm, !.finished = Append(@, done)]
      ELSE [s EXCEPT !.vm = got.vm, !.completed = Append(@, done)]

\* Mutant of Taken: a block finishes one step.
TakenOne(q, b) == LowerOf(1, Cardinality({i \in 1 .. Len(q) : BlockOf(q[i].address) = b}))

\* A block finishes every step that waits for it.
Taken(q, b) == Cardinality({i \in 1 .. Len(q) : BlockOf(q[i].address) = b})

FinishPacket(s, b) ==
  LET parts == Partitioned(s.MSHR, LAMBDA e : BlockOf(e.address) = b)
      n == Taken(s.MSHR, b)
  IN  Through(FinishStep, [s EXCEPT !.MSHR = Rest(parts, n)], First(parts, n))

-----------------------------------------------------------------------------
(* operate *)

IsReady(e) == e.wait = 0

Elapse(q) == Each(q, LAMBDA e : [e EXCEPT !.wait = IF @ = 0 THEN 0 ELSE @ - 1])

FinishPackets(s) ==
  [Through(FinishPacket, [s EXCEPT !.finished = Elapse(@), !.completed = Elapse(@)],
           s.lower_returned)
     EXCEPT !.lower_returned = << >>]

CompleteWalks(s) ==
  LET n == Leading(s.completed, MAX_FILL, IsReady)
      answers == Each(First(s.completed, n), LAMBDA e : [v |-> e.v, id |-> e.id, page |-> e.data.page])
  IN  [s EXCEPT !.returned = @ \o answers, !.completed = Rest(@, n), !.taken = n]

\* Mutant of Fill: what was ready is erased, also what could not be read.
FillAll(s) ==
  LET n == Leading(s.finished, MAX_FILL - s.taken, IsReady)
      after == Through(HandleFill, [s EXCEPT !.taken = 0, !.ok = TRUE], First(s.finished, n))
  IN  [after EXCEPT !.finished = Rest(@, n)]

Fill(s) ==
  LET n == Leading(s.finished, MAX_FILL - s.taken, IsReady)
      after == Through(HandleFill, [s EXCEPT !.taken = 0, !.ok = TRUE], First(s.finished, n))
  IN  [after EXCEPT !.finished = Rest(@, after.taken)]

Read(s) ==
  LET n == LowerOf(Len(s.RQ), MAX_READ)
      after == Through(HandleRead, [s EXCEPT !.taken = 0, !.ok = TRUE], First(s.RQ, n))
  IN  [after EXCEPT !.RQ = Rest(@, after.taken)]

Insert(s) ==
  [s EXCEPT !.MSHR = @ \o s.next_steps, !.next_steps = << >>, !.taken = 0, !.ok = TRUE]

\* The walker and the memory, as the record that the stages pass on.
Now ==
  [vm |-> vm, MSHR |-> ptw.MSHR, finished |-> ptw.finished, completed |-> ptw.completed,
   pscl |-> ptw.pscl, RQ |-> ptw.RQ, returned |-> ptw.returned, lower |-> ptw.lower,
   lower_returned |-> ptw.lower_returned, next_steps |-> ptw.next_steps,
   taken |-> ptw.taken, ok |-> ptw.ok, CR3_addr |-> ptw.CR3_addr]

Operate ==
  /\ \E s1 \in {FinishPackets(Now)} : \E s2 \in {CompleteWalks(s1)} :
     \E s3 \in {Fill(s2)} : \E s4 \in {Insert(Read(s3))} :
       /\ vm' = s4.vm
       /\ ptw' = [k \in DOMAIN ptw |-> s4[k]]
  /\ odd' = ~ odd
  /\ UNCHANGED <<reading, asked, answered>>

-----------------------------------------------------------------------------
(* The TLB and the L1D *)

Ask(r) ==
  /\ r.id \notin asked /\ Len(ptw.RQ) < RQ_SIZE
  /\ asked' = asked \cup {r.id}
  /\ ptw' = [ptw EXCEPT !.RQ = Append(@, r)]
  /\ UNCHANGED <<vm, reading, answered, odd>>

Collect ==
  /\ ptw.returned # << >>
  /\ answered' = answered \cup {ptw.returned[i].id : i \in 1 .. Len(ptw.returned)}
  /\ ptw' = [ptw EXCEPT !.returned = << >>]
  /\ UNCHANGED <<vm, reading, asked, odd>>

\* A read of a block that is outstanding may be merged with it, or may have
\* come too late for that.
LowerTakes ==
  /\ ptw.lower # << >>
  /\ \/ reading' = Append(reading, Head(ptw.lower))
     \/ Head(ptw.lower) \in Elements(reading) /\ UNCHANGED reading
  /\ ptw' = [ptw EXCEPT !.lower = Tail(@)]
  /\ UNCHANGED <<vm, asked, answered, odd>>

LowerResponds ==
  \E i \in 1 .. Len(reading) :
    /\ ptw' = [ptw EXCEPT !.lower_returned = Append(@, reading[i])]
    /\ reading' = First(reading, i - 1) \o Rest(reading, i)
    /\ UNCHANGED <<vm, asked, answered, odd>>

WalkerInit ==
  /\ \E order \in Shuffles :
       \E cr3 \in {GetPtePa(NewMemory(order), 0, PtLevels)} :
         /\ vm = cr3.vm
         /\ ptw = [MSHR |-> << >>, finished |-> << >>, completed |-> << >>,
                   pscl |-> [i \in 1 .. PsclSize |-> << >>], RQ |-> << >>, returned |-> << >>,
                   lower |-> << >>, lower_returned |-> << >>, next_steps |-> << >>,
                   taken |-> 0, ok |-> TRUE,
                   CR3_addr |-> [page |-> cr3.page, offset |-> cr3.offset]]
  /\ reading = << >> /\ asked = {} /\ answered = {} /\ odd = FALSE

WalkerNext ==
  Operate \/ Collect \/ LowerTakes \/ LowerResponds \/ \E r \in Requests : Ask(r)

WalkerSpec == WalkerInit /\ [][WalkerNext]_vars

-----------------------------------------------------------------------------
Ids(q) == {q[i].id : i \in 1 .. Len(q)}
OnceIn(q) == \A i, j \in 1 .. Len(q) : q[i].id = q[j].id => i = j

\* The places where a request is, from the channel to its answer.
Places == <<ptw.RQ, ptw.MSHR, ptw.finished, ptw.completed, ptw.returned>>

\* A walk is in one place, and its request is answered once, although steps are
\* tried again when the L1D does not take them, and a block finishes many.
AnsweredOnce ==
  /\ asked = answered \cup UNION {Ids(Places[i]) : i \in 1 .. 5}
  /\ \A i \in 1 .. 5 : OnceIn(Places[i]) /\ Ids(Places[i]) \cap answered = {}
  /\ \A i, j \in 1 .. 5 : i # j => Ids(Places[i]) \cap Ids(Places[j]) = {}

\* A walk that waits for a block has it read: although the answer to another's
\* read of the block may come first, and then its own.
WalkOwed ==
  \A i \in 1 .. Len(ptw.MSHR) :
    BlockOf(ptw.MSHR[i].address) \in
      Elements(ptw.lower) \cup Elements(reading) \cup Elements(ptw.lower_returned)

\* What a paging structure cache keeps is a page of the table, at the level that
\* the walk would be at, for an address that has the same upper part.  (It need
\* not be the page for the address that hits: it is kept for Key(v, l + 1) and
\* depends on Key(v, l).)
PsclSound ==
  \A i \in 1 .. PsclSize : \A j \in 1 .. Len(ptw.pscl[i]) :
    LET e == ptw.pscl[i][j]
    IN  /\ e.level = PsclSize - i
        /\ \E v \in Vpages :
             LET key == <<e.level + 1, Key(v, e.level + 1)>>
             IN  /\ key \in DOMAIN vm.table /\ vm.table[key] = e.page
                 /\ Key(v, e.level + 2) = e.tag

\* A walk is in one place and answered once, when steps are refused and blocks shared; one
\* that waits for a block has it read; and the paging structure caches keep pages of the
\* table at the right level.
WalkerSound == AnsweredOnce /\ WalkOwed /\ PsclSound

\* Every translation is answered, though steps are refused when the channel is
\* full, and a walk that waits for a page fault holds up those behind it.
Translates == \A r \in Requests : r.id \in asked ~> r.id \in answered
=============================================================================
