---------------------------- MODULE DramChannel ----------------------------
(***************************************************************************)
(* The DRAM controller of ChampSim (dram_controller.cc) with one channel,  *)
(* in cycles, below one upper level.  csimCore uses MY_MEMORY_CONTROLLER   *)
(* in its place, but the library still has it.  The prefetch queue of the  *)
(* upper level goes the way of its read queue and is left out.             *)
(*                                                                         *)
(* Times are the cycles that are left.  Of the time when a request became  *)
(* ready only the order matters: age says how many other such times have   *)
(* been before the newest.                                                 *)
(***************************************************************************)
EXTENDS Queues, FiniteSets

CONSTANTS
  Reads,        \* the reads [id, block] of the upper level
  Writes,       \* the blocks that the upper level writes, any number of times
  NumBanks,
  Bank(_), Row(_), Bankgroup(_),   \* of a block, and of a bank
  RQ_SIZE, WQ_SIZE,
  tRP, tRCD, tCAS, tREF, tRFC,
  TURN_AROUND_TIME, RETURN_TIME, BANKGROUP_STALL,
  MaxWrites     \* bound: how many writes there are

Free == [block |-> -1]
NoRow == -1
None == 0

Banks == 1 .. NumBanks

DramAssumption ==
  /\ NumBanks \in Nat \ {0} /\ RQ_SIZE \in Nat \ {0} /\ WQ_SIZE \in Nat \ {0}
  /\ \A b \in Writes \cup {r.block : r \in Reads} : Bank(b) \in Banks
  /\ {tRP, tRCD, tCAS, tREF, tRFC} \subseteq Nat
  /\ {TURN_AROUND_TIME, RETURN_TIME, BANKGROUP_STALL} \subseteq Nat

VARIABLES
  c,          \* RQ, WQ: the slots; bank_request; active_request; bankgroup:
              \* bankgroup_readytime; write_mode; dbus: dbus_cycle_available;
              \* refresh: the time to the next; warmup; upRQ, upWQ: the queues
              \* of the upper level; answers: how often each id was answered
  asked,      \* the ids of the reads that were made
  written,    \* the number of writes that were made
  unwritten,  \* history: blocks whose last write is on its way
  odd         \* changes with every cycle

vars == <<c, asked, written, unwritten, odd>>

Used(q) == {i \in DOMAIN q : q[i] # Free}

\* add_rq and add_wq: the first slot that is free.
Added(q, e) ==
  LET i == CHOOSE i \in DOMAIN q \ Used(q) : \A j \in DOMAIN q \ Used(q) : i <= j
  IN  [q EXCEPT ![i] = e]

Packet(block, ids) ==
  [block |-> block, ids |-> ids, scheduled |-> FALSE, forward_checked |-> FALSE, age |-> 0]

AddRead(q, r) == Added(q, Packet(r.block, {r.id}))
AddWrite(q, block) == Added(q, Packet(block, {}))

\* As many of the queue as have a free slot.
InitiateRequests(s) ==
  LET n == LowerOf(Len(s.upRQ), RQ_SIZE - Cardinality(Used(s.RQ)))
      m == LowerOf(Len(s.upWQ), WQ_SIZE - Cardinality(Used(s.WQ)))
  IN  [s EXCEPT
        !.RQ = Through(AddRead, @, First(s.upRQ, n)),
        !.WQ = Through(AddWrite, @, First(s.upWQ, m)),
        !.upRQ = Rest(@, n), !.upWQ = Rest(@, m)]

Answered(s, ids) ==
  [s EXCEPT !.answers = [i \in DOMAIN @ |-> IF i \in ids THEN @[i] + 1 ELSE @[i]]]

\* In the warmup everything is answered at once.
Warm(s) ==
  IF s.warmup
  THEN [Answered(s, UNION {s.RQ[i].ids : i \in Used(s.RQ)})
          EXCEPT !.RQ = [i \in 1 .. RQ_SIZE |-> Free], !.WQ = [i \in 1 .. WQ_SIZE |-> Free]]
  ELSE s

-----------------------------------------------------------------------------
(* check_write_collision and check_read_collision: is_collision compares   *)
(* blocks.                                                                 *)

Same(q, i, block) == {j \in Used(q) \ {i} : q[j].block = block}

\* Mutant of CheckWrite: the backward check begins with the write itself.
CheckWriteSelf(s, i) ==
  IF s.WQ[i] = Free \/ s.WQ[i].forward_checked THEN s
  ELSE [s EXCEPT !.WQ[i] = Free]

\* A write to a block that is in the queue is dropped.
CheckWrite(s, i) ==
  IF s.WQ[i] = Free \/ s.WQ[i].forward_checked THEN s
  ELSE IF Same(s.WQ, i, s.WQ[i].block) # {} THEN [s EXCEPT !.WQ[i] = Free]
  ELSE [s EXCEPT !.WQ[i].forward_checked = TRUE]

\* Mutant of CheckRead: the read that is found keeps its own requesters.
CheckReadAlone(s, i) ==
  IF s.RQ[i] # Free /\ ~ s.RQ[i].forward_checked /\ Same(s.RQ, i, s.RQ[i].block) # {}
  THEN [s EXCEPT !.RQ[i] = Free] ELSE s

\* A read is answered by a write, or joins another read of its block: the first
\* before it, or else the first after it.
CheckRead(s, i) ==
  LET e == s.RQ[i]
      same == Same(s.RQ, i, e.block)
      before == {j \in same : j < i}
      found == CHOOSE j \in IF before = {} THEN same ELSE before :
                 \A k \in IF before = {} THEN same ELSE before : j <= k
  IN  IF e = Free \/ e.forward_checked THEN s
      ELSE IF Same(s.WQ, 0, e.block) # {} THEN Answered([s EXCEPT !.RQ[i] = Free], e.ids)
      ELSE IF same # {} THEN [s EXCEPT !.RQ[found].ids = @ \cup e.ids, !.RQ[i] = Free]
      ELSE [s EXCEPT !.RQ[i].forward_checked = TRUE]

Slots(n) == [i \in 1 .. n |-> i]

CheckCollisions(s) ==
  Through(CheckRead, Through(CheckWrite, s, Slots(WQ_SIZE)), Slots(RQ_SIZE))

-----------------------------------------------------------------------------
\* The queue of writes or of reads, and a slot of it.
Queue(s, write) == IF write THEN s.WQ ELSE s.RQ
PktOf(s, b) == Queue(s, b.write)[b.slot]
SetPkt(s, write, slot, e) ==
  IF write THEN [s EXCEPT !.WQ[slot] = e] ELSE [s EXCEPT !.RQ[slot] = e]

FinishDbusRequest(s) ==
  LET b == s.bank_request[s.active_request]
  IN  IF s.active_request = None \/ b.wait > 0 THEN s
      ELSE SetPkt([Answered(s, PktOf(s, b).ids)
                     EXCEPT !.bank_request[s.active_request].valid = FALSE,
                            !.active_request = None],
                  b.write, b.slot, Free)

\* Mutant of Unschedule: the request on the data bus is reset too.
UnscheduleAll(s, k) ==
  LET b == s.bank_request[k]
  IN  IF ~ b.valid THEN s
      ELSE SetPkt([s EXCEPT !.bank_request[k].valid = FALSE], b.write, b.slot,
                  [PktOf(s, b) EXCEPT !.scheduled = FALSE, !.age = 0])

Unschedule(s, k) ==
  LET b == s.bank_request[k]
  IN  IF k = s.active_request \/ ~ b.valid THEN s
      ELSE SetPkt([s EXCEPT !.bank_request[k].valid = FALSE,
                            !.bank_request[k].open_row = IF b.wait < tCAS THEN NoRow ELSE @],
                  b.write, b.slot, [PktOf(s, b) EXCEPT !.scheduled = FALSE, !.age = 0])

HighMark == (WQ_SIZE * 7) \div 8
LowMark == (WQ_SIZE * 6) \div 8

\* Mutant of Unbalanced: writes wait until there are more than the high mark.
UnbalancedAbove(s) ==
  LET writes == Cardinality(Used(s.WQ))
      reads == Cardinality(Used(s.RQ))
  IN  IF s.write_mode THEN writes = 0 \/ (reads > 0 /\ writes < LowMark)
                      ELSE writes > HighMark

Unbalanced(s) ==
  LET writes == Cardinality(Used(s.WQ))
      reads == Cardinality(Used(s.RQ))
  IN  IF s.write_mode THEN writes = 0 \/ (reads > 0 /\ writes < LowMark)
                      ELSE writes >= HighMark \/ (reads = 0 /\ writes > 0)

SwapWriteMode(s) ==
  IF ~ Unbalanced(s) THEN s
  ELSE [Through(Unschedule, s, Slots(NumBanks)) EXCEPT
          !.dbus = TURN_AROUND_TIME + IF s.active_request = None THEN 0
                                      ELSE s.bank_request[s.active_request].wait,
          !.write_mode = ~ @]

RefreshBank(b, due) ==
  LET need == b.need_refresh \/ due
  IN  IF need /\ ~ b.valid
      THEN [b EXCEPT !.wait = tRFC, !.need_refresh = FALSE, !.under_refresh = TRUE]
      ELSE IF b.under_refresh /\ b.wait = 0
      THEN [b EXCEPT !.need_refresh = need, !.under_refresh = FALSE, !.open_row = NoRow]
      ELSE [b EXCEPT !.need_refresh = need]

ScheduleRefresh(s) ==
  [s EXCEPT !.refresh = IF @ = 0 THEN tREF ELSE @,
            !.bank_request = [k \in Banks |-> RefreshBank(@[k], s.refresh = 0)]]

\* The bank that is ready first goes onto the bus, if that is free.
ReadySooner(s, x, y) ==
  LET b == s.bank_request[x] d == s.bank_request[y]
  IN  ~ d.valid \/ (b.valid /\ b.wait < d.wait)

FirstReady(s) == MinElement(Slots(NumBanks), LAMBDA x, y : ReadySooner(s, x, y))

PopulateDbus(s) ==
  LET next == FirstReady(s)
      group == Bankgroup(next)
      b == s.bank_request[next]
  IN  IF b.valid /\ b.wait = 0 /\ s.active_request = None /\ s.dbus = 0
      THEN [s EXCEPT !.active_request = next,
                     !.bank_request[next].wait = s.bankgroup[group] + RETURN_TIME,
                     !.bankgroup[group] = RETURN_TIME + BANKGROUP_STALL]
      ELSE s

\* The request to schedule next: those whose bank is free, the oldest first.
ScheduledSooner(s, x, y) ==
  LET q == Queue(s, s.write_mode)
      waits(i) == IF q[i] = Free THEN FALSE ELSE ~ q[i].scheduled
      free(i) == ~ s.bank_request[Bank(q[i].block)].valid
  IN  IF ~ waits(y) THEN TRUE ELSE IF ~ waits(x) THEN FALSE
      ELSE IF free(x) = free(y) THEN q[x].age >= q[y].age ELSE free(x)

SchedulePacket(s) ==
  MinElement(Slots(Len(Queue(s, s.write_mode))), LAMBDA x, y : ScheduledSooner(s, x, y))

\* Mutant of ServicePacket: a bank is taken although it is at work.
ServicePacketBusy(s, slot) ==
  LET e == Queue(s, s.write_mode)[slot]
      k == Bank(e.block)
  IN  IF e = Free THEN s
      ELSE SetPkt([s EXCEPT !.bank_request[k] =
                      [@ EXCEPT !.valid = TRUE, !.wait = tCAS, !.write = s.write_mode, !.slot = slot]],
                  s.write_mode, slot, [e EXCEPT !.scheduled = TRUE, !.age = 0])

ServicePacket(s, slot) ==
  LET e == Queue(s, s.write_mode)[slot]
      k == Bank(e.block)
      b == s.bank_request[k]
      charge == IF b.open_row = Row(e.block) THEN 0
                ELSE IF b.open_row = NoRow THEN tRCD ELSE tRP + tRCD
      busy == [valid |-> TRUE, need_refresh |-> FALSE, under_refresh |-> FALSE,
               open_row |-> Row(e.block), wait |-> tCAS + charge,
               write |-> s.write_mode, slot |-> slot]
  IN  IF e = Free THEN s
      ELSE IF e.scheduled \/ b.valid \/ b.under_refresh THEN s
      ELSE SetPkt([s EXCEPT !.bank_request[k] = busy], s.write_mode, slot,
                  [e EXCEPT !.scheduled = TRUE, !.age = 0])

-----------------------------------------------------------------------------
Less(n) == IF n = 0 THEN 0 ELSE n - 1

\* A cycle passes.
Aged(q) ==
  LET ages == {q[i].age : i \in {i \in Used(q) : ~ q[i].scheduled}}
  IN  [i \in DOMAIN q |->
         IF q[i] = Free THEN Free
         ELSE IF q[i].scheduled THEN q[i]
         ELSE [q[i] EXCEPT !.age = Cardinality({a \in ages : a <= q[i].age})]]

Elapse(s) ==
  [s EXCEPT !.RQ = Aged(@), !.WQ = Aged(@),
            !.bank_request = [k \in Banks |-> [s.bank_request[k] EXCEPT !.wait = Less(@)]],
            !.bankgroup = [g \in DOMAIN @ |-> Less(@[g])],
            !.dbus = Less(@), !.refresh = Less(@)]

Operate ==
  /\ \E s1 \in {CheckCollisions(Warm(InitiateRequests(Elapse(c))))} :
     \E s2 \in {SwapWriteMode(FinishDbusRequest(s1))} :
     \E s3 \in {PopulateDbus(ScheduleRefresh(s2))} :
     \E s4 \in {ServicePacket(s3, SchedulePacket(s3))} :
       /\ c' = s4
       /\ LET queued == {s1.WQ[i].block : i \in Used(s1.WQ)}
              left == {s4.WQ[i].block : i \in Used(s4.WQ)}
          IN  unwritten' = IF c.warmup THEN Elements(s4.upWQ) ELSE unwritten \ (queued \ left)
  /\ odd' = ~ odd
  /\ UNCHANGED <<asked, written>>

Read(r) ==
  /\ r.id \notin asked /\ asked' = asked \cup {r.id}
  /\ c' = [c EXCEPT !.upRQ = Append(@, r)]
  /\ UNCHANGED <<written, unwritten, odd>>

Write(b) ==
  /\ written < MaxWrites /\ written' = written + 1
  /\ b \notin Elements(c.upWQ)
  /\ c' = [c EXCEPT !.upWQ = Append(@, b)]
  /\ unwritten' = unwritten \cup {b}
  /\ UNCHANGED <<asked, odd>>

EndWarmup ==
  /\ c.warmup /\ c' = [c EXCEPT !.warmup = FALSE]
  /\ UNCHANGED <<asked, written, unwritten, odd>>

Init ==
  /\ c = [RQ |-> [i \in 1 .. RQ_SIZE |-> Free], WQ |-> [i \in 1 .. WQ_SIZE |-> Free],
          bank_request |-> [k \in Banks |->
            [valid |-> FALSE, need_refresh |-> FALSE, under_refresh |-> FALSE,
             open_row |-> NoRow, wait |-> 0, write |-> FALSE, slot |-> 1]],
          active_request |-> None, bankgroup |-> [g \in {Bankgroup(k) : k \in Banks} |-> 0],
          write_mode |-> FALSE, dbus |-> 0, refresh |-> tREF, warmup |-> TRUE,
          upRQ |-> << >>, upWQ |-> << >>, answers |-> [i \in {r.id : r \in Reads} |-> 0]]
  /\ asked = {} /\ written = 0 /\ unwritten = {} /\ odd = FALSE

Next ==
  Operate \/ EndWarmup \/ (\E r \in Reads : Read(r)) \/ \E b \in Writes : Write(b)

Spec == Init /\ [][Next]_vars

-----------------------------------------------------------------------------
\* The banks at work and the requests that are scheduled are the same: each
\* such request has its bank, and none has two.
BanksAgree ==
  LET busy == {k \in Banks : c.bank_request[k].valid}
      Slot(k) == <<c.bank_request[k].write, c.bank_request[k].slot>>
      Scheduled(q) == {i \in Used(q) : q[i].scheduled}
  IN  /\ {Slot(k) : k \in busy} =
           {<<TRUE, i>> : i \in Scheduled(c.WQ)} \cup {<<FALSE, i>> : i \in Scheduled(c.RQ)}
      /\ \A k, l \in busy : Slot(k) = Slot(l) => k = l
      /\ \A k \in busy : Bank(PktOf(c, c.bank_request[k]).block) = k
      /\ c.active_request # None => c.active_request \in busy

\* A refresh that is due waits for a bank only while it works, and a bank that
\* is refreshed does not work.
RefreshKept ==
  \A k \in Banks :
    LET b == c.bank_request[k]
    IN  (b.need_refresh => b.valid) /\ ~ (b.valid /\ b.under_refresh)

\* Merging and forwarding lose no reader and answer none twice.
AnsweredOnce ==
  \A r \in Reads :
    LET queued == Cardinality({i \in Used(c.RQ) : r.id \in c.RQ[i].ids})
                  + Cardinality({i \in 1 .. Len(c.upRQ) : c.upRQ[i].id = r.id})
    IN  queued + c.answers[r.id] = IF r.id \in asked THEN 1 ELSE 0

\* A write that is dropped has another to its block in the queue.
NoWriteLost ==
  unwritten \subseteq Elements(c.upWQ) \cup {c.WQ[i].block : i \in Used(c.WQ)}

\* Reads and writes come to an end, though a change of mode takes back what was
\* scheduled, and refreshes close the banks; a refresh that is due is done.
Served ==
  /\ \A r \in Reads : r.id \in asked ~> c.answers[r.id] = 1
  /\ \A b \in Writes : b \in unwritten ~> b \notin unwritten
  /\ \A k \in Banks : c.bank_request[k].need_refresh ~> c.bank_request[k].under_refresh
=============================================================================
