----------------------------- MODULE DramProofs -----------------------------
(***************************************************************************)
(* The DRAM channel, for any number of banks, any queues and timings, any  *)
(* addresses and any requests: the banks and the queues agree about what   *)
(* is at work, a refresh waits only for a bank at work, every read is      *)
(* answered once, and no write is lost.                                    *)
(*                                                                         *)
(* A cycle carries a record s through stages, so the invariant is a        *)
(* predicate on such a record, and each stage keeps it.                    *)
(***************************************************************************)
EXTENDS DramChannel, QueueLemmas

-----------------------------------------------------------------------------
(* The inductive invariant *)

Blocks == Writes \cup {r.block : r \in Reads}
Ids == {r.id : r \in Reads}
Size(write) == IF write THEN WQ_SIZE ELSE RQ_SIZE

\* A packet that answers some of the ids.
IsPacket(e, ids) ==
  /\ e = [block |-> e.block, ids |-> e.ids, scheduled |-> e.scheduled,
          forward_checked |-> e.forward_checked, age |-> e.age]
  /\ e.block \in Blocks /\ e.ids \subseteq ids

IsQueue(q, size, ids) ==
  /\ q = [i \in 1 .. size |-> q[i]]
  /\ \A i \in 1 .. size : q[i] = Free \/ IsPacket(q[i], ids)

IsBank(b) ==
  /\ b = [valid |-> b.valid, need_refresh |-> b.need_refresh, under_refresh |-> b.under_refresh,
          open_row |-> b.open_row, wait |-> b.wait, write |-> b.write, slot |-> b.slot]
  /\ b.write \in BOOLEAN

Shaped(s) ==
  s = [RQ |-> s.RQ, WQ |-> s.WQ, bank_request |-> s.bank_request,
        active_request |-> s.active_request, bankgroup |-> s.bankgroup,
        write_mode |-> s.write_mode, dbus |-> s.dbus, refresh |-> s.refresh,
        warmup |-> s.warmup, upRQ |-> s.upRQ, upWQ |-> s.upWQ, answers |-> s.answers]

Typed(s) ==
  /\ Shaped(s)
  /\ IsQueue(s.RQ, RQ_SIZE, Ids) /\ IsQueue(s.WQ, WQ_SIZE, {})
  /\ s.bank_request = [k \in Banks |-> s.bank_request[k]]
  /\ \A k \in Banks : IsBank(s.bank_request[k])
  /\ s.active_request \in {None} \cup Banks
  /\ s.write_mode \in BOOLEAN
  /\ s.upRQ \in Seq(Reads) /\ s.upWQ \in Seq(Writes)
  /\ s.answers \in [Ids -> Nat]

\* The slot holds a packet that a bank works at.
Scheduled(s, write, i) == Queue(s, write)[i] # Free /\ Queue(s, write)[i].scheduled

\* A bank at work has a packet that is scheduled, and a packet that is scheduled has
\* its bank; nothing that is scheduled can still be dropped by the checks.
Agree(s) ==
  /\ \A k \in Banks :
       LET b == s.bank_request[k]
       IN  b.valid => /\ b.slot \in 1 .. Size(b.write)
                      /\ Scheduled(s, b.write, b.slot)
                      /\ Bank(PktOf(s, b).block) = k
  /\ \A write \in BOOLEAN : \A i \in 1 .. Size(write) :
       LET e == Queue(s, write)[i]
           b == s.bank_request[Bank(e.block)]
       IN  Scheduled(s, write, i) =>
             e.forward_checked /\ b.valid /\ b.write = write /\ b.slot = i
  /\ s.active_request # None => s.bank_request[s.active_request].valid

\* A bank that is refreshed does not work.
Excluded(s) == \A k \in Banks : ~ (s.bank_request[k].valid /\ s.bank_request[k].under_refresh)

\* A refresh that is due waits for a bank at work.  (While the stages of a cycle
\* run, this holds again only after ScheduleRefresh.)
Waiting(s) == \A k \in Banks : s.bank_request[k].need_refresh => s.bank_request[k].valid

\* In the warmup no bank works.
Cold(s) == s.warmup => \A k \in Banks : ~ s.bank_request[k].valid

DramInv == Typed(c) /\ Agree(c) /\ Excluded(c) /\ Waiting(c) /\ Cold(c)

-----------------------------------------------------------------------------
(* The readers *)

Holds(s, i, id) == s.RQ[i] # Free /\ id \in s.RQ[i].ids
Asks(s, i, id) == s.upRQ[i].id = id

\* An id that was asked for is in one slot, at one place above, or answered once.
Once(s, id, isAsked) ==
  /\ s.answers[id] \in {0, 1}
  /\ \A i, j \in 1 .. RQ_SIZE : Holds(s, i, id) /\ Holds(s, j, id) => i = j
  /\ \A i, j \in 1 .. Len(s.upRQ) : Asks(s, i, id) /\ Asks(s, j, id) => i = j
  /\ \A i \in 1 .. RQ_SIZE, j \in 1 .. Len(s.upRQ) : ~ (Holds(s, i, id) /\ Asks(s, j, id))
  /\ s.answers[id] = 1 => /\ \A i \in 1 .. RQ_SIZE : ~ Holds(s, i, id)
                          /\ \A j \in 1 .. Len(s.upRQ) : ~ Asks(s, j, id)
  /\ isAsked <=> \/ s.answers[id] = 1
                 \/ \E i \in 1 .. RQ_SIZE : Holds(s, i, id)
                 \/ \E j \in 1 .. Len(s.upRQ) : Asks(s, j, id)

ReadersInv == \A id \in Ids : Once(c, id, id \in asked)

-----------------------------------------------------------------------------
(* Slots and packets *)

LEMMA FreeIsNoPacket == ASSUME NEW e, NEW ids, IsPacket(e, ids) PROVE e # Free
<1>1. "ids" \in DOMAIN e  BY DEF IsPacket
<1>2. DOMAIN Free = {"block"}  BY DEF Free
<1>3. QED  BY <1>1, <1>2

LEMMA SlotsSeq ==
  ASSUME NEW n \in Nat
  PROVE  Len(Slots(n)) = n /\ \A i \in 1 .. n : Slots(n)[i] = i
BY DEF Slots

LEMMA Sizes == ASSUME DramAssumption, NEW write PROVE Size(write) \in Nat \ {0}
BY DEF DramAssumption, Size

\* Writing a slot changes that slot and nothing else.
LEMMA SetPktSlot ==
  ASSUME NEW s, Typed(s), NEW write \in BOOLEAN, NEW i \in 1 .. Size(write), NEW e,
         e = Free \/ IsPacket(e, IF write THEN {} ELSE Ids)
  PROVE  LET t == SetPkt(s, write, i, e)
         IN  /\ Typed(t)
             /\ t.bank_request = s.bank_request /\ t.active_request = s.active_request
             /\ t.warmup = s.warmup /\ t.upRQ = s.upRQ /\ t.upWQ = s.upWQ
             /\ t.answers = s.answers /\ t.write_mode = s.write_mode
             /\ \A v \in BOOLEAN : \A j \in 1 .. Size(v) :
                  Queue(t, v)[j] = IF v = write /\ j = i THEN e ELSE Queue(s, v)[j]
<1> DEFINE t == SetPkt(s, write, i, e)
<1>1. CASE write
  <2>1. t = [s EXCEPT !.WQ[i] = e]  BY <1>1 DEF SetPkt
  <2>2. t = [s EXCEPT !.WQ = [s.WQ EXCEPT ![i] = e]]  BY <2>1
  <2>3. i \in 1 .. WQ_SIZE  BY <1>1 DEF Size
  <2>4. /\ t.WQ = [s.WQ EXCEPT ![i] = e] /\ t.RQ = s.RQ
        /\ t.bank_request = s.bank_request /\ t.active_request = s.active_request
        /\ t.warmup = s.warmup /\ t.upRQ = s.upRQ /\ t.upWQ = s.upWQ
        /\ t.answers = s.answers /\ t.write_mode = s.write_mode
        /\ Shaped(t)
    <3> HIDE DEF t
    <3>1. QED  BY <2>2 DEF Typed, Shaped
  <2> HIDE DEF t
  <2>5. /\ t.WQ = [j \in 1 .. WQ_SIZE |-> t.WQ[j]]
        /\ \A j \in 1 .. WQ_SIZE : t.WQ[j] = IF j = i THEN e ELSE s.WQ[j]
    BY <2>3, <2>4 DEF Typed, IsQueue
  <2>6. IsQueue(t.WQ, WQ_SIZE, {})
    BY <2>5, <1>1 DEF Typed, IsQueue
  <2>7. Typed(t)  BY <2>4, <2>6 DEF Typed
  <2>8. QED  BY <2>4, <2>5, <2>7, <1>1 DEF Queue, Size, t
<1>2. CASE ~ write
  <2>1. t = [s EXCEPT !.RQ[i] = e]  BY <1>2 DEF SetPkt
  <2>2. t = [s EXCEPT !.RQ = [s.RQ EXCEPT ![i] = e]]  BY <2>1
  <2>3. i \in 1 .. RQ_SIZE  BY <1>2 DEF Size
  <2>4. /\ t.RQ = [s.RQ EXCEPT ![i] = e] /\ t.WQ = s.WQ
        /\ t.bank_request = s.bank_request /\ t.active_request = s.active_request
        /\ t.warmup = s.warmup /\ t.upRQ = s.upRQ /\ t.upWQ = s.upWQ
        /\ t.answers = s.answers /\ t.write_mode = s.write_mode
        /\ Shaped(t)
    <3> HIDE DEF t
    <3>1. QED  BY <2>2 DEF Typed, Shaped
  <2> HIDE DEF t
  <2>5. /\ t.RQ = [j \in 1 .. RQ_SIZE |-> t.RQ[j]]
        /\ \A j \in 1 .. RQ_SIZE : t.RQ[j] = IF j = i THEN e ELSE s.RQ[j]
    BY <2>3, <2>4 DEF Typed, IsQueue
  <2>6. IsQueue(t.RQ, RQ_SIZE, Ids)
    BY <2>5, <1>2 DEF Typed, IsQueue
  <2>7. Typed(t)  BY <2>4, <2>6 DEF Typed
  <2>8. QED  BY <2>4, <2>5, <2>7, <1>2 DEF Queue, Size, t
<1>3. QED  BY <1>1, <1>2

\* What Agree and Cold depend on is the same in s and t.
SameWork(s, t) ==
  /\ \A k \in Banks : /\ t.bank_request[k].valid = s.bank_request[k].valid
                      /\ t.bank_request[k].write = s.bank_request[k].write
                      /\ t.bank_request[k].slot = s.bank_request[k].slot
  /\ t.active_request = s.active_request \/ t.bank_request[t.active_request].valid
  /\ \A write \in BOOLEAN : \A i \in 1 .. Size(write) :
       /\ Scheduled(t, write, i) <=> Scheduled(s, write, i)
       /\ Scheduled(s, write, i) =>
            /\ Queue(t, write)[i].block = Queue(s, write)[i].block
            /\ Queue(s, write)[i].forward_checked => Queue(t, write)[i].forward_checked

LEMMA AgreeKept ==
  ASSUME DramAssumption, NEW s, NEW t, Typed(s), Agree(s), SameWork(s, t)
  PROVE  Agree(t)
<1>1. ASSUME NEW k \in Banks, t.bank_request[k].valid
      PROVE  LET b == t.bank_request[k]
             IN  /\ b.slot \in 1 .. Size(b.write)
                 /\ Scheduled(t, b.write, b.slot)
                 /\ Bank(PktOf(t, b).block) = k
  <2> DEFINE b == s.bank_request[k]
             d == t.bank_request[k]
  <2>1. b.valid /\ d.write = b.write /\ d.slot = b.slot /\ b.write \in BOOLEAN
    BY <1>1 DEF SameWork, Typed, IsBank
  <2>2. b.slot \in 1 .. Size(b.write) /\ Scheduled(s, b.write, b.slot) /\ Bank(PktOf(s, b).block) = k
    BY <2>1 DEF Agree
  <2>3. Scheduled(t, b.write, b.slot) /\ Queue(t, b.write)[b.slot].block = Queue(s, b.write)[b.slot].block
    BY <2>1, <2>2 DEF SameWork
  <2>4. QED  BY <2>1, <2>2, <2>3 DEF PktOf
<1>2. ASSUME NEW write \in BOOLEAN, NEW i \in 1 .. Size(write), Scheduled(t, write, i)
      PROVE  LET e == Queue(t, write)[i]
                 b == t.bank_request[Bank(e.block)]
             IN  e.forward_checked /\ b.valid /\ b.write = write /\ b.slot = i
  <2> DEFINE e == Queue(s, write)[i]
             d == Queue(t, write)[i]
             k == Bank(e.block)
  <2>1. Scheduled(s, write, i) /\ d.block = e.block /\ (e.forward_checked => d.forward_checked)
    BY <1>2 DEF SameWork
  <2>2. e.forward_checked /\ s.bank_request[k].valid /\ s.bank_request[k].write = write
        /\ s.bank_request[k].slot = i
    BY <2>1 DEF Agree
  <2>3. k \in Banks
    <3>1. e.block \in Blocks  BY <2>1 DEF Scheduled, Typed, IsQueue, IsPacket, Queue, Size
    <3>2. QED  BY <3>1 DEF DramAssumption, Blocks
  <2>4. QED  BY <2>1, <2>2, <2>3 DEF SameWork
<1>3. t.active_request # None => t.bank_request[t.active_request].valid
  BY DEF Agree, SameWork, Typed
<1>4. QED  BY <1>1, <1>2, <1>3 DEF Agree

\* What the stages of a cycle keep; Waiting is added in the end.
Good(s) == Typed(s) /\ Agree(s) /\ Excluded(s) /\ Cold(s)

LEMMA GoodKept ==
  ASSUME DramAssumption, NEW s, NEW t, Good(s), Typed(t), SameWork(s, t), t.warmup = s.warmup,
         \A k \in Banks : t.bank_request[k].under_refresh = s.bank_request[k].under_refresh
  PROVE  Good(t)
<1>1. Agree(t)  BY AgreeKept DEF Good
<1>2. Excluded(t) /\ Cold(t)  BY DEF Good, SameWork, Excluded, Cold
<1>3. QED  BY <1>1, <1>2 DEF Good

\* A set of numbers that is not empty has a least element.
LEMMA LeastExists ==
  ASSUME NEW S, S \subseteq Nat, S # {}
  PROVE  \E i \in S : \A j \in S : i <= j
<1> DEFINE T == {n \in Nat : (\E j \in S : j <= n) => \E i \in S : \A j \in S : i <= j}
<1>1. 0 \in T  OBVIOUS
<1>2. ASSUME NEW n \in Nat, n \in T PROVE n + 1 \in T
  <2>1. SUFFICES ASSUME NEW m \in S, m <= n + 1, ~ \E j \in S : j <= n
        PROVE  \E i \in S : \A j \in S : i <= j
    BY <1>2
  <2>2. \A j \in S : m <= j  BY <2>1
  <2>3. QED  BY <2>2
<1>3. Nat \subseteq T
  <2> HIDE DEF T
  <2>1. QED  BY <1>1, <1>2, NatSetInduction
<1>4. PICK n \in S : TRUE  OBVIOUS
<1>5. n \in T /\ n <= n  BY <1>3
<1>6. QED  BY <1>5

-----------------------------------------------------------------------------
(* A cycle passes *)

LEMMA AgedQueue ==
  ASSUME NEW q, NEW size \in Nat, NEW ids, IsQueue(q, size, ids)
  PROVE  /\ IsQueue(Aged(q), size, ids)
         /\ \A i \in 1 .. size :
              /\ Aged(q)[i] = Free <=> q[i] = Free
              /\ q[i] # Free =>
                   /\ Aged(q)[i].block = q[i].block
                   /\ Aged(q)[i].ids = q[i].ids
                   /\ Aged(q)[i].scheduled = q[i].scheduled
                   /\ Aged(q)[i].forward_checked = q[i].forward_checked
<1> DEFINE r == Aged(q)
           ages == {q[i].age : i \in {i \in Used(q) : ~ q[i].scheduled}}
<1>1. DOMAIN q = 1 .. size  BY DEF IsQueue
<1>2. r = [i \in 1 .. size |-> r[i]]
  BY <1>1 DEF Aged
<1>3. ASSUME NEW i \in 1 .. size, q[i] # Free
      PROVE  IsPacket(r[i], ids) /\ r[i].block = q[i].block /\ r[i].ids = q[i].ids
             /\ r[i].scheduled = q[i].scheduled /\ r[i].forward_checked = q[i].forward_checked
  <2>1. IsPacket(q[i], ids)  BY <1>3 DEF IsQueue
  <2>2. r[i] = IF q[i].scheduled THEN q[i]
               ELSE [q[i] EXCEPT !.age = Cardinality({a \in ages : a <= q[i].age})]
    BY <1>1, <1>3 DEF Aged
  <2> HIDE DEF r
  <2>3. CASE q[i].scheduled  BY <2>1, <2>2, <2>3
  <2>4. CASE ~ q[i].scheduled
    <3> DEFINE age == Cardinality({a \in ages : a <= q[i].age})
    <3>1. r[i] = [q[i] EXCEPT !.age = age]  BY <2>2, <2>4
    <3> HIDE DEF age
    <3>2. QED  BY <2>1, <3>1 DEF IsPacket
  <2>5. QED  BY <2>3, <2>4
<1>4. ASSUME NEW i \in 1 .. size, q[i] = Free PROVE r[i] = Free
  BY <1>1, <1>4 DEF Aged
<1>5. \A i \in 1 .. size : r[i] = Free <=> q[i] = Free
  BY <1>3, <1>4, FreeIsNoPacket
<1>6. IsQueue(r, size, ids)
  <2> HIDE DEF r
  <2>1. QED  BY <1>2, <1>3, <1>4 DEF IsQueue
<1>7. QED  BY <1>3, <1>5, <1>6

\* The queues and what is asked and answered, but for the ages, are the same.
SameReaders(s, t) ==
  /\ \A i \in 1 .. RQ_SIZE : \A id : Holds(t, i, id) <=> Holds(s, i, id)
  /\ t.upRQ = s.upRQ /\ t.answers = s.answers

LEMMA OnceKept ==
  ASSUME NEW s, NEW t, NEW id, NEW isAsked, Once(s, id, isAsked), SameReaders(s, t)
  PROVE  Once(t, id, isAsked)
BY DEF Once, SameReaders, Asks

Blocking(q, size) == {q[i].block : i \in {i \in 1 .. size : q[i] # Free}}

LEMMA ElapseGood ==
  ASSUME DramAssumption, NEW s, Good(s)
  PROVE  /\ Good(Elapse(s)) /\ SameReaders(s, Elapse(s))
         /\ Waiting(s) => Waiting(Elapse(s))
         /\ Elapse(s).upWQ = s.upWQ /\ Elapse(s).warmup = s.warmup
         /\ Blocking(Elapse(s).WQ, WQ_SIZE) = Blocking(s.WQ, WQ_SIZE)
<1> DEFINE t == Elapse(s)
<1>1. Typed(s) /\ RQ_SIZE \in Nat /\ WQ_SIZE \in Nat  BY DEF Good, DramAssumption
<1>2. /\ t.RQ = Aged(s.RQ) /\ t.WQ = Aged(s.WQ)
      /\ t.bank_request = [k \in Banks |-> [s.bank_request[k] EXCEPT !.wait = Less(s.bank_request[k].wait)]]
      /\ t.active_request = s.active_request /\ t.write_mode = s.write_mode
      /\ t.warmup = s.warmup /\ t.upRQ = s.upRQ /\ t.upWQ = s.upWQ /\ t.answers = s.answers
      /\ Shaped(t)
  <2> DEFINE banks == [k \in Banks |-> [s.bank_request[k] EXCEPT !.wait = Less(s.bank_request[k].wait)]]
             groups == [g \in DOMAIN s.bankgroup |-> Less(s.bankgroup[g])]
  <2>1. t = [s EXCEPT !.RQ = Aged(s.RQ), !.WQ = Aged(s.WQ), !.bank_request = banks,
                      !.bankgroup = groups, !.dbus = Less(s.dbus), !.refresh = Less(s.refresh)]
    BY DEF Elapse
  <2> HIDE DEF t, banks, groups
  <2>2. /\ t.RQ = Aged(s.RQ) /\ t.WQ = Aged(s.WQ) /\ t.bank_request = banks
        /\ t.active_request = s.active_request /\ t.write_mode = s.write_mode
        /\ t.warmup = s.warmup /\ t.upRQ = s.upRQ /\ t.upWQ = s.upWQ /\ t.answers = s.answers
        /\ Shaped(t)
    BY <1>1, <2>1 DEF Typed, Shaped
  <2>3. QED  BY <2>2 DEF banks
<1> HIDE DEF t
<1>3. /\ IsQueue(t.RQ, RQ_SIZE, Ids)
      /\ \A i \in 1 .. RQ_SIZE :
           /\ t.RQ[i] = Free <=> s.RQ[i] = Free
           /\ s.RQ[i] # Free => /\ t.RQ[i].block = s.RQ[i].block /\ t.RQ[i].ids = s.RQ[i].ids
                                /\ t.RQ[i].scheduled = s.RQ[i].scheduled
                                /\ t.RQ[i].forward_checked = s.RQ[i].forward_checked
  BY <1>1, <1>2, AgedQueue DEF Typed
<1>4. /\ IsQueue(t.WQ, WQ_SIZE, {})
      /\ \A i \in 1 .. WQ_SIZE :
           /\ t.WQ[i] = Free <=> s.WQ[i] = Free
           /\ s.WQ[i] # Free => /\ t.WQ[i].block = s.WQ[i].block /\ t.WQ[i].ids = s.WQ[i].ids
                                /\ t.WQ[i].scheduled = s.WQ[i].scheduled
                                /\ t.WQ[i].forward_checked = s.WQ[i].forward_checked
  BY <1>1, <1>2, AgedQueue DEF Typed
<1>5. ASSUME NEW k \in Banks
      PROVE  /\ IsBank(t.bank_request[k])
             /\ t.bank_request[k].valid = s.bank_request[k].valid
             /\ t.bank_request[k].write = s.bank_request[k].write
             /\ t.bank_request[k].slot = s.bank_request[k].slot
             /\ t.bank_request[k].need_refresh = s.bank_request[k].need_refresh
             /\ t.bank_request[k].under_refresh = s.bank_request[k].under_refresh
  <2>1. IsBank(s.bank_request[k])  BY <1>1 DEF Typed
  <2>2. t.bank_request[k] = [s.bank_request[k] EXCEPT !.wait = Less(s.bank_request[k].wait)]
    BY <1>2
  <2>3. QED  BY <2>1, <2>2 DEF IsBank
<1>6. t.bank_request = [k \in Banks |-> t.bank_request[k]]  BY <1>2
<1>7. Typed(t)  BY <1>1, <1>2, <1>3, <1>4, <1>5, <1>6 DEF Typed
<1>8. SameWork(s, t)
  BY <1>2, <1>3, <1>4, <1>5 DEF SameWork, Scheduled, Queue, Size
<1>9. Good(t)  BY <1>2, <1>5, <1>7, <1>8, GoodKept
<1>10. SameReaders(s, t)  BY <1>2, <1>3 DEF SameReaders, Holds
<1>11. Waiting(s) => Waiting(t)  BY <1>5 DEF Waiting
<1>12. Blocking(t.WQ, WQ_SIZE) = Blocking(s.WQ, WQ_SIZE)  BY <1>4 DEF Blocking
<1>13. QED  BY <1>2, <1>9, <1>10, <1>11, <1>12 DEF t

-----------------------------------------------------------------------------
(* Requests come into the queues *)

LEMMA UsedSlots ==
  ASSUME NEW q, NEW size \in Nat, NEW ids, IsQueue(q, size, ids)
  PROVE  /\ Used(q) = {i \in 1 .. size : q[i] # Free}
         /\ IsFiniteSet(Used(q)) /\ Cardinality(Used(q)) \in 0 .. size
<1>1. DOMAIN q = 1 .. size  BY DEF IsQueue
<1>2. Used(q) = {i \in 1 .. size : q[i] # Free}  BY <1>1 DEF Used
<1>3. IsFiniteSet(1 .. size) /\ Cardinality(1 .. size) = size  BY FS_Interval
<1>4. Used(q) \subseteq 1 .. size  BY <1>2
<1>5. IsFiniteSet(Used(q)) /\ Cardinality(Used(q)) <= size  BY <1>3, <1>4, FS_Subset
<1>6. Cardinality(Used(q)) \in Nat  BY <1>5, FS_CardinalityType
<1>7. QED  BY <1>2, <1>5, <1>6

LEMMA AddedSlot ==
  ASSUME NEW q, NEW size \in Nat, NEW ids, IsQueue(q, size, ids), NEW e,
         IsPacket(e, ids), Cardinality(Used(q)) < size
  PROVE  /\ \E i \in 1 .. size : q[i] = Free /\ Added(q, e) = [q EXCEPT ![i] = e]
         /\ Cardinality(Used(Added(q, e))) = Cardinality(Used(q)) + 1
         /\ IsQueue(Added(q, e), size, ids)
<1> DEFINE free == DOMAIN q \ Used(q)
           r == Added(q, e)
<1>1. DOMAIN q = 1 .. size  BY DEF IsQueue
<1>2. /\ Used(q) = {i \in 1 .. size : q[i] # Free} /\ IsFiniteSet(Used(q))
      /\ Cardinality(Used(q)) \in Nat
  BY UsedSlots
<1>3. free # {}
  <2>1. SUFFICES ASSUME free = {} PROVE FALSE  OBVIOUS
  <2>2. Used(q) = 1 .. size  BY <1>1, <1>2, <2>1
  <2>3. Cardinality(Used(q)) = size  BY <2>2, FS_Interval
  <2>4. QED  BY <2>3
<1>4. free \subseteq Nat  BY <1>1
<1>5. \E i \in free : \A j \in free : i <= j
  <2> HIDE DEF free
  <2>1. QED  BY <1>3, <1>4, LeastExists
<1>6. PICK i \in free : r = [q EXCEPT ![i] = e]
  BY <1>5 DEF Added
<1>7. i \in 1 .. size /\ q[i] = Free  BY <1>1, <1>2
<1> HIDE DEF r
<1>8. /\ r = [j \in 1 .. size |-> r[j]]
      /\ \A j \in 1 .. size : r[j] = IF j = i THEN e ELSE q[j]
  BY <1>6, <1>7 DEF IsQueue
<1>9. IsQueue(r, size, ids)  BY <1>8 DEF IsQueue
<1>10. e # Free  BY FreeIsNoPacket
<1>11. Used(r) = Used(q) \cup {i}
  <2>1. Used(r) = {j \in 1 .. size : r[j] # Free}  BY <1>9, UsedSlots
  <2>2. QED  BY <1>2, <1>7, <1>8, <1>10, <2>1
<1>12. Cardinality(Used(r)) = Cardinality(Used(q)) + 1
  BY <1>2, <1>7, <1>11, FS_AddElement
<1>13. QED  BY <1>6, <1>7, <1>9, <1>12 DEF r

\* The first n packets are in slots at[1], at[2], ... that were free; the rest of the
\* queue is as it was.
FilledAt(old, q, size, packets, n, at) ==
  /\ at \in [1 .. n -> {j \in 1 .. size : old[j] = Free}]
  /\ \A m, l \in 1 .. n : at[m] = at[l] => m = l
  /\ \A m \in 1 .. n : q[at[m]] = packets[m]
  /\ \A j \in 1 .. size : (\A m \in 1 .. n : j # at[m]) => q[j] = old[j]

Filled(k, q, n) ==
  /\ IsQueue(q, k.size, k.ids)
  /\ Cardinality(Used(q)) = Cardinality(Used(k.old)) + n
  /\ \E at : FilledAt(k.old, q, k.size, k.packets, n, at)

LEMMA FilledStart == ASSUME NEW k, IsQueue(k.old, k.size, k.ids), k.size \in Nat PROVE Filled(k, k.old, 0)
<1>1. Cardinality(Used(k.old)) \in Nat  BY UsedSlots
<1> DEFINE at == [m \in 1 .. 0 |-> m]
<1>2. FilledAt(k.old, k.old, k.size, k.packets, 0, at)
  BY DEF FilledAt
<1> HIDE DEF at
<1>3. QED  BY <1>1, <1>2 DEF Filled

LEMMA FilledStep ==
  ASSUME NEW k, NEW q, NEW n \in Nat \ {0}, Filled(k, q, n - 1),
         k.size \in Nat, IsQueue(k.old, k.size, k.ids),
         Cardinality(Used(k.old)) + n <= k.size, \A m \in 1 .. n : IsPacket(k.packets[m], k.ids)
  PROVE  Filled(k, Added(q, k.packets[n]), n)
<1> DEFINE e == k.packets[n]
           r == Added(q, e)
<1>1. IsQueue(q, k.size, k.ids) /\ Cardinality(Used(q)) = Cardinality(Used(k.old)) + (n - 1)
  BY DEF Filled
<1>2. PICK at : FilledAt(k.old, q, k.size, k.packets, n - 1, at)  BY DEF Filled
<1>3. Cardinality(Used(k.old)) \in Nat  BY UsedSlots
<1>4. Cardinality(Used(q)) < k.size  BY <1>1, <1>3
<1>5. /\ \E i \in 1 .. k.size : q[i] = Free /\ r = [q EXCEPT ![i] = e]
      /\ Cardinality(Used(r)) = Cardinality(Used(q)) + 1
      /\ IsQueue(r, k.size, k.ids)
  BY <1>1, <1>4, AddedSlot
<1>6. PICK i \in 1 .. k.size : q[i] = Free /\ r = [q EXCEPT ![i] = e]  BY <1>5
<1> HIDE DEF e, r
<1>7. \A j \in 1 .. k.size : r[j] = IF j = i THEN e ELSE q[j]
  BY <1>1, <1>6 DEF IsQueue
<1>8. \A m \in 1 .. n - 1 : at[m] # i
  <2>1. SUFFICES ASSUME NEW m \in 1 .. n - 1, at[m] = i PROVE FALSE  OBVIOUS
  <2>2. k.packets[m] = Free  BY <1>2, <1>6, <2>1 DEF FilledAt
  <2>3. m \in 1 .. n  OBVIOUS
  <2>4. QED  BY <2>2, <2>3, FreeIsNoPacket
<1>9. k.old[i] = Free  BY <1>2, <1>6, <1>8 DEF FilledAt
<1> DEFINE next == [m \in 1 .. n |-> IF m = n THEN i ELSE at[m]]
<1>10. \A m \in 1 .. n : m = n \/ m \in 1 .. n - 1  OBVIOUS
<1>11. FilledAt(k.old, r, k.size, k.packets, n, next)
  <2>1. next \in [1 .. n -> {j \in 1 .. k.size : k.old[j] = Free}]
    BY <1>2, <1>6, <1>9, <1>10 DEF FilledAt
  <2>2. \A m, l \in 1 .. n : next[m] = next[l] => m = l
    BY <1>2, <1>8, <1>10 DEF FilledAt
  <2>3. \A m \in 1 .. n : r[next[m]] = k.packets[m]
    BY <1>2, <1>7, <1>8, <1>10 DEF FilledAt, e
  <2>4. \A j \in 1 .. k.size : (\A m \in 1 .. n : j # next[m]) => r[j] = k.old[j]
    <3>1. SUFFICES ASSUME NEW j \in 1 .. k.size, \A m \in 1 .. n : j # next[m]
          PROVE  r[j] = k.old[j]
      OBVIOUS
    <3>2. n \in 1 .. n /\ next[n] = i  OBVIOUS
    <3>3. j # i  BY <3>1, <3>2
    <3>4. \A m \in 1 .. n - 1 : m \in 1 .. n /\ next[m] = at[m]  OBVIOUS
    <3>5. \A m \in 1 .. n - 1 : j # at[m]  BY <3>1, <3>4
    <3>6. QED  BY <1>2, <1>7, <3>3, <3>5 DEF FilledAt
  <2>5. QED  BY <2>1, <2>2, <2>3, <2>4 DEF FilledAt
<1> HIDE DEF next
<1>12. Cardinality(Used(r)) = Cardinality(Used(k.old)) + n  BY <1>1, <1>3, <1>5
<1>13. QED  BY <1>5, <1>11, <1>12 DEF Filled, r, e

AddingRead(k, q, r) == AddRead(q, r)
AddingWrite(k, q, b) == AddWrite(q, b)
ReadsCome == INSTANCE StageLemmas WITH Op <- AddingRead, Inv <- Filled
WritesCome == INSTANCE StageLemmas WITH Op <- AddingWrite, Inv <- Filled

\* The packets of the first n requests of the upper level.
ReadPackets(s) == [m \in 1 .. Len(s.upRQ) |-> Packet(s.upRQ[m].block, {s.upRQ[m].id})]
WritePackets(s) == [m \in 1 .. Len(s.upWQ) |-> Packet(s.upWQ[m], {})]

LEMMA ReadsAdded ==
  ASSUME DramAssumption, NEW s, Typed(s), NEW n \in 0 .. Len(s.upRQ),
         Cardinality(Used(s.RQ)) + n <= RQ_SIZE
  PROVE  LET q == Through(AddRead, s.RQ, First(s.upRQ, n))
         IN  /\ IsQueue(q, RQ_SIZE, Ids)
             /\ \E at : FilledAt(s.RQ, q, RQ_SIZE, ReadPackets(s), n, at)
<1> DEFINE k == [old |-> s.RQ, size |-> RQ_SIZE, ids |-> Ids, packets |-> ReadPackets(s)]
           up == First(s.upRQ, n)
           q == Through(AddRead, s.RQ, up)
<1>1. q = ReadsCome!Carried(k, s.RQ, up)
  BY Zenon DEF ReadsCome!Carried, ReadsCome!Steps, Through, AddingRead
<1>2. /\ s.upRQ \in Seq(Reads) /\ Len(s.upRQ) \in Nat
      /\ IsQueue(s.RQ, RQ_SIZE, Ids) /\ RQ_SIZE \in Nat
  BY DEF Typed, DramAssumption
<1>3. Len(up) = n /\ \A i \in 1 .. n : up[i] = s.upRQ[i] /\ i \in 1 .. Len(s.upRQ)
  BY <1>2 DEF First
<1>4. \A i \in 1 .. Len(s.upRQ) :
        /\ IsPacket(ReadPackets(s)[i], Ids)
        /\ ReadPackets(s)[i] = Packet(s.upRQ[i].block, {s.upRQ[i].id})
  <2>1. SUFFICES ASSUME NEW i \in 1 .. Len(s.upRQ)
        PROVE  IsPacket(Packet(s.upRQ[i].block, {s.upRQ[i].id}), Ids)
    BY DEF ReadPackets
  <2>2. s.upRQ[i] \in Reads  BY <1>2
  <2>3. QED  BY <2>2 DEF IsPacket, Packet, Ids, Blocks
<1> HIDE DEF up
<1>5. /\ k.old = s.RQ /\ k.size = RQ_SIZE /\ k.ids = Ids /\ k.packets = ReadPackets(s)
  OBVIOUS
<1> HIDE DEF k
<1>6. Filled(k, s.RQ, 0)  BY <1>2, <1>5, FilledStart
<1>7. ASSUME NEW i \in 1 .. n, NEW u, Filled(k, u, i - 1)
      PROVE  Filled(k, AddingRead(k, u, up[i]), i)
  <2>1. Cardinality(Used(s.RQ)) \in Nat  BY <1>2, UsedSlots
  <2>2. Cardinality(Used(k.old)) + i <= k.size  BY <1>2, <1>5, <2>1
  <2>3. i \in Nat \ {0} /\ i <= Len(s.upRQ)  BY <1>3
  <2>4. \A m \in 1 .. i : IsPacket(k.packets[m], k.ids)
    <3>1. \A m \in 1 .. i : m \in 1 .. Len(s.upRQ)  BY <1>2, <2>3
    <3>2. QED  BY <3>1, <1>4, <1>5
  <2>5. Filled(k, Added(u, k.packets[i]), i)
    BY <1>2, <1>5, <1>7, <2>2, <2>3, <2>4, FilledStep
  <2>6. AddingRead(k, u, up[i]) = Added(u, k.packets[i])
    BY <1>3, <1>4, <1>5 DEF AddingRead, AddRead
  <2>7. QED  BY <2>5, <2>6
<1>8. Filled(k, q, n)
  <2>1. Len(up) \in Nat  BY <1>3
  <2>2. Filled(k, ReadsCome!Carried(k, s.RQ, up), Len(up))
    BY <1>3, <1>6, <1>7, <2>1, ReadsCome!Kept
  <2>3. QED  BY <1>1, <1>3, <2>2
<1> HIDE DEF q
<1>9. QED  BY <1>5, <1>8 DEF Filled, q, up

LEMMA WritesAdded ==
  ASSUME DramAssumption, NEW s, Typed(s), NEW n \in 0 .. Len(s.upWQ),
         Cardinality(Used(s.WQ)) + n <= WQ_SIZE
  PROVE  LET q == Through(AddWrite, s.WQ, First(s.upWQ, n))
         IN  /\ IsQueue(q, WQ_SIZE, {})
             /\ \E at : FilledAt(s.WQ, q, WQ_SIZE, WritePackets(s), n, at)
<1> DEFINE k == [old |-> s.WQ, size |-> WQ_SIZE, ids |-> {}, packets |-> WritePackets(s)]
           up == First(s.upWQ, n)
           q == Through(AddWrite, s.WQ, up)
<1>1. q = WritesCome!Carried(k, s.WQ, up)
  BY Zenon DEF WritesCome!Carried, WritesCome!Steps, Through, AddingWrite
<1>2. /\ s.upWQ \in Seq(Writes) /\ Len(s.upWQ) \in Nat
      /\ IsQueue(s.WQ, WQ_SIZE, {}) /\ WQ_SIZE \in Nat
  BY DEF Typed, DramAssumption
<1>3. Len(up) = n /\ \A i \in 1 .. n : up[i] = s.upWQ[i] /\ i \in 1 .. Len(s.upWQ)
  BY <1>2 DEF First
<1>4. \A i \in 1 .. Len(s.upWQ) :
        /\ IsPacket(WritePackets(s)[i], {})
        /\ WritePackets(s)[i] = Packet(s.upWQ[i], {})
  <2>1. SUFFICES ASSUME NEW i \in 1 .. Len(s.upWQ)
        PROVE  IsPacket(Packet(s.upWQ[i], {}), {})
    BY DEF WritePackets
  <2>2. s.upWQ[i] \in Writes  BY <1>2
  <2>3. QED  BY <2>2 DEF IsPacket, Packet, Blocks
<1> HIDE DEF up
<1>5. /\ k.old = s.WQ /\ k.size = WQ_SIZE /\ k.ids = {} /\ k.packets = WritePackets(s)
  OBVIOUS
<1> HIDE DEF k
<1>6. Filled(k, s.WQ, 0)  BY <1>2, <1>5, FilledStart
<1>7. ASSUME NEW i \in 1 .. n, NEW u, Filled(k, u, i - 1)
      PROVE  Filled(k, AddingWrite(k, u, up[i]), i)
  <2>1. Cardinality(Used(s.WQ)) \in Nat  BY <1>2, UsedSlots
  <2>2. Cardinality(Used(k.old)) + i <= k.size  BY <1>2, <1>5, <2>1
  <2>3. i \in Nat \ {0} /\ i <= Len(s.upWQ)  BY <1>3
  <2>4. \A m \in 1 .. i : IsPacket(k.packets[m], k.ids)
    <3>1. \A m \in 1 .. i : m \in 1 .. Len(s.upWQ)  BY <1>2, <2>3
    <3>2. QED  BY <3>1, <1>4, <1>5
  <2>5. Filled(k, Added(u, k.packets[i]), i)
    BY <1>2, <1>5, <1>7, <2>2, <2>3, <2>4, FilledStep
  <2>6. AddingWrite(k, u, up[i]) = Added(u, k.packets[i])
    BY <1>3, <1>4, <1>5 DEF AddingWrite, AddWrite
  <2>7. QED  BY <2>5, <2>6
<1>8. Filled(k, q, n)
  <2>1. Len(up) \in Nat  BY <1>3
  <2>2. Filled(k, WritesCome!Carried(k, s.WQ, up), Len(up))
    BY <1>3, <1>6, <1>7, <2>1, WritesCome!Kept
  <2>3. QED  BY <1>1, <1>3, <2>2
<1> HIDE DEF q
<1>9. QED  BY <1>5, <1>8 DEF Filled, q, up

\* The requests that come in, n reads and m writes.
LEMMA Initiated ==
  ASSUME DramAssumption, NEW s, Typed(s)
  PROVE  LET t == InitiateRequests(s)
         IN  \E n \in 0 .. Len(s.upRQ), m \in 0 .. Len(s.upWQ) :
               /\ Typed(t)
               /\ t.bank_request = s.bank_request /\ t.active_request = s.active_request
               /\ t.warmup = s.warmup /\ t.write_mode = s.write_mode /\ t.answers = s.answers
               /\ t.upRQ = Rest(s.upRQ, n) /\ t.upWQ = Rest(s.upWQ, m)
               /\ \E at : FilledAt(s.RQ, t.RQ, RQ_SIZE, ReadPackets(s), n, at)
               /\ \E at : FilledAt(s.WQ, t.WQ, WQ_SIZE, WritePackets(s), m, at)
<1> DEFINE t == InitiateRequests(s)
           n == LowerOf(Len(s.upRQ), RQ_SIZE - Cardinality(Used(s.RQ)))
           m == LowerOf(Len(s.upWQ), WQ_SIZE - Cardinality(Used(s.WQ)))
           reads == Through(AddRead, s.RQ, First(s.upRQ, n))
           writes == Through(AddWrite, s.WQ, First(s.upWQ, m))
<1>1. /\ s.upRQ \in Seq(Reads) /\ s.upWQ \in Seq(Writes)
      /\ IsQueue(s.RQ, RQ_SIZE, Ids) /\ IsQueue(s.WQ, WQ_SIZE, {})
      /\ RQ_SIZE \in Nat /\ WQ_SIZE \in Nat
      /\ Len(s.upRQ) \in Nat /\ Len(s.upWQ) \in Nat
  BY DEF Typed, DramAssumption
<1>2. n \in 0 .. Len(s.upRQ) /\ Cardinality(Used(s.RQ)) + n <= RQ_SIZE
  <2>1. Cardinality(Used(s.RQ)) \in 0 .. RQ_SIZE  BY <1>1, UsedSlots
  <2>2. QED  BY <1>1, <2>1 DEF LowerOf
<1>3. m \in 0 .. Len(s.upWQ) /\ Cardinality(Used(s.WQ)) + m <= WQ_SIZE
  <2>1. Cardinality(Used(s.WQ)) \in 0 .. WQ_SIZE  BY <1>1, UsedSlots
  <2>2. QED  BY <1>1, <2>1 DEF LowerOf
<1>4. t = [s EXCEPT !.RQ = reads, !.WQ = writes, !.upRQ = Rest(s.upRQ, n), !.upWQ = Rest(s.upWQ, m)]
  BY DEF InitiateRequests
<1> HIDE DEF n, m
<1>5. /\ IsQueue(reads, RQ_SIZE, Ids)
      /\ \E at : FilledAt(s.RQ, reads, RQ_SIZE, ReadPackets(s), n, at)
  BY <1>2, ReadsAdded
<1>6. /\ IsQueue(writes, WQ_SIZE, {})
      /\ \E at : FilledAt(s.WQ, writes, WQ_SIZE, WritePackets(s), m, at)
  BY <1>3, WritesAdded
<1> HIDE DEF t, reads, writes
<1>7. Rest(s.upRQ, n) \in Seq(Reads) /\ Rest(s.upWQ, m) \in Seq(Writes)
  BY <1>1, <1>2, <1>3, CopiesSplit
<1>8. /\ t.RQ = reads /\ t.WQ = writes
      /\ t.upRQ = Rest(s.upRQ, n) /\ t.upWQ = Rest(s.upWQ, m)
      /\ t.bank_request = s.bank_request /\ t.active_request = s.active_request
      /\ t.warmup = s.warmup /\ t.write_mode = s.write_mode /\ t.answers = s.answers
      /\ Shaped(t)
  BY <1>4 DEF Typed, Shaped
<1>9. Typed(t)  BY <1>5, <1>6, <1>7, <1>8 DEF Typed
<1>10. QED  BY <1>2, <1>3, <1>5, <1>6, <1>8, <1>9 DEF t

LEMMA InitiateGood ==
  ASSUME DramAssumption, NEW s, Good(s)
  PROVE  Good(InitiateRequests(s)) /\ InitiateRequests(s).warmup = s.warmup
         /\ (Waiting(s) => Waiting(InitiateRequests(s)))
<1> DEFINE t == InitiateRequests(s)
<1>1. Typed(s)  BY DEF Good
<1>2. PICK n \in 0 .. Len(s.upRQ), m \in 0 .. Len(s.upWQ) :
               /\ Typed(t)
               /\ t.bank_request = s.bank_request /\ t.active_request = s.active_request
               /\ t.warmup = s.warmup /\ t.write_mode = s.write_mode /\ t.answers = s.answers
               /\ t.upRQ = Rest(s.upRQ, n) /\ t.upWQ = Rest(s.upWQ, m)
               /\ \E at : FilledAt(s.RQ, t.RQ, RQ_SIZE, ReadPackets(s), n, at)
               /\ \E at : FilledAt(s.WQ, t.WQ, WQ_SIZE, WritePackets(s), m, at)
  BY <1>1, Initiated
<1>3. n \in Nat /\ m \in Nat /\ n <= Len(s.upRQ) /\ m <= Len(s.upWQ)
      /\ Len(s.upRQ) \in Nat /\ Len(s.upWQ) \in Nat
  BY <1>1 DEF Typed
<1> HIDE DEF t
<1>4. ASSUME NEW j \in 1 .. RQ_SIZE
      PROVE  t.RQ[j] = s.RQ[j] \/ (s.RQ[j] = Free /\ ~ t.RQ[j].scheduled)
  <2>1. PICK at : FilledAt(s.RQ, t.RQ, RQ_SIZE, ReadPackets(s), n, at)  BY <1>2
  <2>2. \A i \in 1 .. n : ~ ReadPackets(s)[i].scheduled
    BY <1>3 DEF ReadPackets, Packet
  <2>3. (\A l \in 1 .. n : j # at[l]) => t.RQ[j] = s.RQ[j]
    BY <2>1 DEF FilledAt
  <2>4. \A l \in 1 .. n : s.RQ[at[l]] = Free /\ t.RQ[at[l]] = ReadPackets(s)[l]
    BY <2>1 DEF FilledAt
  <2>5. QED  BY <2>2, <2>3, <2>4
<1>5. ASSUME NEW j \in 1 .. WQ_SIZE
      PROVE  t.WQ[j] = s.WQ[j] \/ (s.WQ[j] = Free /\ ~ t.WQ[j].scheduled)
  <2>1. PICK at : FilledAt(s.WQ, t.WQ, WQ_SIZE, WritePackets(s), m, at)  BY <1>2
  <2>2. \A i \in 1 .. m : ~ WritePackets(s)[i].scheduled
    BY <1>3 DEF WritePackets, Packet
  <2>3. (\A l \in 1 .. m : j # at[l]) => t.WQ[j] = s.WQ[j]
    BY <2>1 DEF FilledAt
  <2>4. \A l \in 1 .. m : s.WQ[at[l]] = Free /\ t.WQ[at[l]] = WritePackets(s)[l]
    BY <2>1 DEF FilledAt
  <2>5. QED  BY <2>2, <2>3, <2>4
<1>6. SameWork(s, t)
  <2>1. ASSUME NEW write \in BOOLEAN, NEW i \in 1 .. Size(write)
        PROVE  \/ Queue(t, write)[i] = Queue(s, write)[i]
               \/ ~ Scheduled(s, write, i) /\ ~ Scheduled(t, write, i)
    BY <1>4, <1>5 DEF Scheduled, Queue, Size
  <2>2. QED  BY <1>2, <2>1 DEF SameWork, Scheduled
<1>7. Good(t)  BY <1>2, <1>6, GoodKept
<1>8. Waiting(s) => Waiting(t)  BY <1>2 DEF Waiting
<1>9. QED  BY <1>2, <1>7, <1>8 DEF t

\* A read moves from the upper level into one slot.
LEMMA InitiateOnce ==
  ASSUME DramAssumption, NEW s, Typed(s), NEW id, NEW isAsked, Once(s, id, isAsked)
  PROVE  Once(InitiateRequests(s), id, isAsked)
<1> DEFINE t == InitiateRequests(s)
<1>1. PICK n \in 0 .. Len(s.upRQ) :
               /\ t.answers = s.answers /\ t.upRQ = Rest(s.upRQ, n)
               /\ \E at : FilledAt(s.RQ, t.RQ, RQ_SIZE, ReadPackets(s), n, at)
  BY Initiated
<1> HIDE DEF t
<1>2. PICK at : FilledAt(s.RQ, t.RQ, RQ_SIZE, ReadPackets(s), n, at)  BY <1>1
<1>3. s.upRQ \in Seq(Reads) /\ Len(s.upRQ) \in Nat /\ n \in Nat /\ n <= Len(s.upRQ)
  BY DEF Typed
<1>4. Len(t.upRQ) = Len(s.upRQ) - n /\ \A j \in 1 .. Len(s.upRQ) - n : t.upRQ[j] = s.upRQ[n + j]
  BY <1>1, <1>3 DEF Rest
<1>5. \A j \in 1 .. Len(t.upRQ) : n + j \in 1 .. Len(s.upRQ) /\ (Asks(t, j, id) <=> Asks(s, n + j, id))
  BY <1>3, <1>4 DEF Asks
<1>6. \A m \in 1 .. n : /\ at[m] \in 1 .. RQ_SIZE /\ m \in 1 .. Len(s.upRQ)
                        /\ ~ Holds(s, at[m], id) /\ (Holds(t, at[m], id) <=> Asks(s, m, id))
  <2>1. SUFFICES ASSUME NEW m \in 1 .. n
        PROVE  /\ at[m] \in 1 .. RQ_SIZE /\ m \in 1 .. Len(s.upRQ)
               /\ ~ Holds(s, at[m], id) /\ (Holds(t, at[m], id) <=> Asks(s, m, id))
    OBVIOUS
  <2>2. m \in 1 .. Len(s.upRQ)  BY <1>3
  <2>3. at[m] \in 1 .. RQ_SIZE /\ s.RQ[at[m]] = Free /\ t.RQ[at[m]] = ReadPackets(s)[m]
    BY <1>2 DEF FilledAt
  <2>4. t.RQ[at[m]] = Packet(s.upRQ[m].block, {s.upRQ[m].id})
    BY <2>2, <2>3 DEF ReadPackets
  <2>5. t.RQ[at[m]].ids = {s.upRQ[m].id}  BY <2>4 DEF Packet
  <2>6. t.RQ[at[m]] # Free
    <3>1. "ids" \in DOMAIN t.RQ[at[m]]  BY <2>4 DEF Packet
    <3>2. DOMAIN Free = {"block"}  BY DEF Free
    <3>3. QED  BY <3>1, <3>2
  <2>7. QED  BY <2>2, <2>3, <2>5, <2>6 DEF Holds, Asks
<1>7. \A j \in 1 .. RQ_SIZE : (\A m \in 1 .. n : j # at[m]) => (Holds(t, j, id) <=> Holds(s, j, id))
  BY <1>2 DEF FilledAt, Holds
<1>8. \A m, l \in 1 .. n : at[m] = at[l] => m = l  BY <1>2 DEF FilledAt
<1> HIDE DEF Holds, Asks
<1>9. \A j \in 1 .. RQ_SIZE : Holds(t, j, id) <=> Holds(s, j, id) \/ \E m \in 1 .. n : j = at[m] /\ Asks(s, m, id)
  BY <1>6, <1>7
<1>10. \A i, j \in 1 .. RQ_SIZE : Holds(t, i, id) /\ Holds(t, j, id) => i = j
  BY <1>6, <1>8, <1>9 DEF Once
<1>11. \A i, j \in 1 .. Len(t.upRQ) : Asks(t, i, id) /\ Asks(t, j, id) => i = j
  <2>1. SUFFICES ASSUME NEW i \in 1 .. Len(t.upRQ), NEW j \in 1 .. Len(t.upRQ),
                        Asks(t, i, id), Asks(t, j, id)
        PROVE  i = j
    OBVIOUS
  <2>2. n + i = n + j  BY <1>5, <2>1 DEF Once
  <2>3. QED  BY <1>3, <1>4, <2>2
<1>12. \A i \in 1 .. RQ_SIZE, j \in 1 .. Len(t.upRQ) : ~ (Holds(t, i, id) /\ Asks(t, j, id))
  <2>1. SUFFICES ASSUME NEW i \in 1 .. RQ_SIZE, NEW j \in 1 .. Len(t.upRQ),
                        Holds(t, i, id), Asks(t, j, id)
        PROVE  FALSE
    OBVIOUS
  <2>2. n + j \in 1 .. Len(s.upRQ) /\ Asks(s, n + j, id) /\ n + j > n  BY <1>3, <1>4, <1>5, <2>1
  <2>3. ~ Holds(s, i, id)  BY <2>2 DEF Once
  <2>4. PICK m \in 1 .. n : Asks(s, m, id)  BY <1>9, <2>1, <2>3
  <2>5. m = n + j  BY <1>6, <2>2, <2>4 DEF Once
  <2>6. QED  BY <2>2, <2>5
<1>13. t.answers[id] = 1 => /\ \A i \in 1 .. RQ_SIZE : ~ Holds(t, i, id)
                            /\ \A j \in 1 .. Len(t.upRQ) : ~ Asks(t, j, id)
  BY <1>1, <1>5, <1>6, <1>9 DEF Once
<1>14. (\E i \in 1 .. RQ_SIZE : Holds(t, i, id)) \/ (\E j \in 1 .. Len(t.upRQ) : Asks(t, j, id))
       <=> (\E i \in 1 .. RQ_SIZE : Holds(s, i, id)) \/ (\E j \in 1 .. Len(s.upRQ) : Asks(s, j, id))
  <2>1. ASSUME NEW j \in 1 .. Len(s.upRQ), Asks(s, j, id)
        PROVE  (\E i \in 1 .. RQ_SIZE : Holds(t, i, id)) \/ (\E l \in 1 .. Len(t.upRQ) : Asks(t, l, id))
    <3>1. CASE j <= n
      <4>1. j \in 1 .. n  BY <1>3, <3>1
      <4>2. QED  BY <1>6, <2>1, <4>1
    <3>2. CASE j > n
      <4>1. j - n \in 1 .. Len(t.upRQ) /\ n + (j - n) = j  BY <1>3, <1>4, <3>2
      <4>2. QED  BY <1>5, <2>1, <4>1
    <3>3. QED  BY <1>3, <3>1, <3>2
  <2>2. ASSUME NEW i \in 1 .. RQ_SIZE, Holds(s, i, id) PROVE Holds(t, i, id)
    BY <1>9, <2>2
  <2>3. ASSUME NEW i \in 1 .. RQ_SIZE, Holds(t, i, id)
        PROVE  Holds(s, i, id) \/ \E j \in 1 .. Len(s.upRQ) : Asks(s, j, id)
    BY <1>6, <1>9, <2>3
  <2>4. ASSUME NEW j \in 1 .. Len(t.upRQ), Asks(t, j, id)
        PROVE  \E l \in 1 .. Len(s.upRQ) : Asks(s, l, id)
    BY <1>5, <2>4
  <2>5. QED  BY <2>1, <2>2, <2>3, <2>4
<1>15. Once(t, id, isAsked)
  BY <1>1, <1>10, <1>11, <1>12, <1>13, <1>14 DEF Once
<1>16. QED  BY <1>15 DEF t

\* No block of a write is lost on the way into the queue.
LEMMA InitiateWrites ==
  ASSUME DramAssumption, NEW s, Typed(s)
  PROVE  LET t == InitiateRequests(s)
         IN  Elements(s.upWQ) \cup Blocking(s.WQ, WQ_SIZE)
               \subseteq Elements(t.upWQ) \cup Blocking(t.WQ, WQ_SIZE)
<1> DEFINE t == InitiateRequests(s)
<1>1. PICK m \in 0 .. Len(s.upWQ) :
               /\ t.upWQ = Rest(s.upWQ, m)
               /\ \E at : FilledAt(s.WQ, t.WQ, WQ_SIZE, WritePackets(s), m, at)
  BY Initiated
<1> HIDE DEF t
<1>2. PICK at : FilledAt(s.WQ, t.WQ, WQ_SIZE, WritePackets(s), m, at)  BY <1>1
<1>3. s.upWQ \in Seq(Writes) /\ Len(s.upWQ) \in Nat /\ m \in Nat /\ m <= Len(s.upWQ)
  BY DEF Typed
<1>4. Len(t.upWQ) = Len(s.upWQ) - m /\ \A j \in 1 .. Len(s.upWQ) - m : t.upWQ[j] = s.upWQ[m + j]
  BY <1>1, <1>3 DEF Rest
<1>5. ASSUME NEW i \in 1 .. WQ_SIZE, s.WQ[i] # Free PROVE s.WQ[i].block \in Blocking(t.WQ, WQ_SIZE)
  <2>1. \A l \in 1 .. m : s.WQ[at[l]] = Free
    BY <1>2 DEF FilledAt
  <2>2. t.WQ[i] = s.WQ[i]  BY <1>2, <1>5, <2>1 DEF FilledAt
  <2>3. QED  BY <1>5, <2>2 DEF Blocking
<1>6. ASSUME NEW i \in 1 .. Len(s.upWQ)
      PROVE  s.upWQ[i] \in Elements(t.upWQ) \cup Blocking(t.WQ, WQ_SIZE)
  <2>1. CASE i <= m
    <3>1. i \in 1 .. m  BY <1>3, <2>1
    <3>2. at[i] \in 1 .. WQ_SIZE /\ t.WQ[at[i]] = Packet(s.upWQ[i], {})
      BY <1>2, <3>1 DEF FilledAt, WritePackets
    <3>3. t.WQ[at[i]].block = s.upWQ[i] /\ "ids" \in DOMAIN t.WQ[at[i]]  BY <3>2 DEF Packet
    <3>4. DOMAIN Free = {"block"}  BY DEF Free
    <3>5. t.WQ[at[i]] # Free  BY <3>3, <3>4
    <3>6. QED  BY <3>2, <3>3, <3>5 DEF Blocking
  <2>2. CASE i > m
    <3>1. i - m \in 1 .. Len(t.upWQ) /\ m + (i - m) = i  BY <1>3, <1>4, <2>2
    <3>2. t.upWQ[i - m] = s.upWQ[i]  BY <1>4, <3>1
    <3>3. QED  BY <3>1, <3>2 DEF Elements
  <2>3. QED  BY <1>3, <2>1, <2>2
<1>7. QED  BY <1>5, <1>6 DEF Elements, Blocking, t

-----------------------------------------------------------------------------
(* Answers, and single slots *)

LEMMA AnsweredIds ==
  ASSUME NEW s, Typed(s), NEW ids
  PROVE  LET t == Answered(s, ids)
         IN  /\ Typed(t)
             /\ t.RQ = s.RQ /\ t.WQ = s.WQ /\ t.bank_request = s.bank_request
             /\ t.active_request = s.active_request /\ t.warmup = s.warmup
             /\ t.write_mode = s.write_mode /\ t.upRQ = s.upRQ /\ t.upWQ = s.upWQ
             /\ \A id \in Ids : t.answers[id] = s.answers[id] + IF id \in ids THEN 1 ELSE 0
<1> DEFINE t == Answered(s, ids)
           answers == [i \in Ids |-> IF i \in ids THEN s.answers[i] + 1 ELSE s.answers[i]]
<1>1. s.answers \in [Ids -> Nat]  BY DEF Typed
<1>2. t = [s EXCEPT !.answers = answers]  BY <1>1 DEF Answered
<1>3. answers \in [Ids -> Nat] /\ \A id \in Ids : answers[id] = s.answers[id] + IF id \in ids THEN 1 ELSE 0
  BY <1>1
<1> HIDE DEF t, answers
<1>4. /\ Shaped(t) /\ t.answers = answers
      /\ t.RQ = s.RQ /\ t.WQ = s.WQ /\ t.bank_request = s.bank_request
      /\ t.active_request = s.active_request /\ t.warmup = s.warmup
      /\ t.write_mode = s.write_mode /\ t.upRQ = s.upRQ /\ t.upWQ = s.upWQ
  BY <1>2 DEF Typed, Shaped
<1>5. Typed(t)  BY <1>3, <1>4 DEF Typed
<1>6. QED  BY <1>3, <1>4, <1>5 DEF t

LEMMA AnsweredGood ==
  ASSUME DramAssumption, NEW s, Good(s), NEW ids
  PROVE  Good(Answered(s, ids))
<1> DEFINE t == Answered(s, ids)
<1>1. /\ Typed(t)
      /\ t.RQ = s.RQ /\ t.WQ = s.WQ /\ t.bank_request = s.bank_request
      /\ t.active_request = s.active_request /\ t.warmup = s.warmup
  BY AnsweredIds DEF Good
<1> HIDE DEF t
<1>2. SameWork(s, t)  BY <1>1 DEF SameWork, Scheduled, Queue
<1>3. QED  BY <1>1, <1>2, GoodKept DEF t

\* A slot that no bank works at may change; of another, not what the bank relies on.
LEMMA SlotGood ==
  ASSUME DramAssumption, NEW s, Good(s), NEW write \in BOOLEAN, NEW i \in 1 .. Size(write), NEW e,
         e = Free \/ IsPacket(e, IF write THEN {} ELSE Ids),
         \/ ~ Scheduled(s, write, i) /\ (e = Free \/ ~ e.scheduled)
         \/ /\ Queue(s, write)[i] # Free /\ e # Free
            /\ e.block = Queue(s, write)[i].block
            /\ e.scheduled = Queue(s, write)[i].scheduled
            /\ Queue(s, write)[i].forward_checked => e.forward_checked
  PROVE  Good(SetPkt(s, write, i, e))
<1> DEFINE t == SetPkt(s, write, i, e)
<1>1. /\ Typed(t)
      /\ t.bank_request = s.bank_request /\ t.active_request = s.active_request
      /\ t.warmup = s.warmup
      /\ \A v \in BOOLEAN : \A j \in 1 .. Size(v) :
           Queue(t, v)[j] = IF v = write /\ j = i THEN e ELSE Queue(s, v)[j]
  BY SetPktSlot DEF Good
<1> HIDE DEF t
<1>2. SameWork(s, t)
  <2>1. ASSUME NEW v \in BOOLEAN, NEW j \in 1 .. Size(v)
        PROVE  /\ Scheduled(t, v, j) <=> Scheduled(s, v, j)
               /\ Scheduled(s, v, j) =>
                    /\ Queue(t, v)[j].block = Queue(s, v)[j].block
                    /\ Queue(s, v)[j].forward_checked => Queue(t, v)[j].forward_checked
    <3>1. CASE v = write /\ j = i
      <4>1. Queue(t, v)[j] = e  BY <1>1, <3>1
      <4>2. QED  BY <3>1, <4>1 DEF Scheduled
    <3>2. CASE ~ (v = write /\ j = i)
      <4>1. Queue(t, v)[j] = Queue(s, v)[j]  BY <1>1, <3>2
      <4>2. QED  BY <4>1 DEF Scheduled
    <3>3. QED  BY <3>1, <3>2
  <2>2. QED  BY <1>1, <2>1 DEF SameWork
<1>3. QED  BY <1>1, <1>2, GoodKept DEF t

\* The slots of one queue when a slot is written.
ReadTo(s, i, e) == [s EXCEPT !.RQ[i] = e]
WriteTo(s, i, e) == [s EXCEPT !.WQ[i] = e]

\* What that leaves, and what it changes.
ReadSet(s, t, i, e) ==
  /\ Typed(t) /\ t.WQ = s.WQ /\ t.upRQ = s.upRQ /\ t.upWQ = s.upWQ /\ t.answers = s.answers
  /\ t.warmup = s.warmup /\ t.bank_request = s.bank_request
  /\ \A j \in 1 .. RQ_SIZE : t.RQ[j] = IF j = i THEN e ELSE s.RQ[j]

WriteSet(s, t, i, e) ==
  /\ Typed(t) /\ t.RQ = s.RQ /\ t.upRQ = s.upRQ /\ t.upWQ = s.upWQ /\ t.answers = s.answers
  /\ t.warmup = s.warmup /\ t.bank_request = s.bank_request
  /\ \A j \in 1 .. WQ_SIZE : t.WQ[j] = IF j = i THEN e ELSE s.WQ[j]

LEMMA SetReadSlot ==
  ASSUME NEW s, Typed(s), NEW i \in 1 .. RQ_SIZE, NEW e, e = Free \/ IsPacket(e, Ids)
  PROVE  ReadSet(s, ReadTo(s, i, e), i, e)
<1> DEFINE t == SetPkt(s, FALSE, i, e)
<1>0. ReadTo(s, i, e) = t  BY DEF ReadTo, SetPkt
<1>1. t.WQ = s.WQ
  <2>1. t = [s EXCEPT !.RQ[i] = e]  BY DEF SetPkt
  <2>2. QED  BY <2>1 DEF Typed, Shaped
<1>2. PICK w \in BOOLEAN : w = FALSE  OBVIOUS
<1>3. /\ Typed(t) /\ t.upRQ = s.upRQ /\ t.upWQ = s.upWQ /\ t.answers = s.answers
      /\ t.warmup = s.warmup /\ t.bank_request = s.bank_request
      /\ \A v \in BOOLEAN : \A j \in 1 .. Size(v) :
           Queue(t, v)[j] = IF v = FALSE /\ j = i THEN e ELSE Queue(s, v)[j]
  <2>1. i \in 1 .. Size(w) /\ (e = Free \/ IsPacket(e, IF w THEN {} ELSE Ids))
    BY <1>2 DEF Size
  <2> DEFINE u == SetPkt(s, w, i, e)
  <2>2. /\ Typed(u) /\ u.upRQ = s.upRQ /\ u.upWQ = s.upWQ /\ u.answers = s.answers
        /\ u.warmup = s.warmup /\ u.bank_request = s.bank_request
        /\ \A v \in BOOLEAN : \A j \in 1 .. Size(v) :
             Queue(u, v)[j] = IF v = w /\ j = i THEN e ELSE Queue(s, v)[j]
    BY <2>1, SetPktSlot
  <2>3. u = t  BY <1>2
  <2> HIDE DEF t, u
  <2>4. QED  BY <1>2, <2>2, <2>3
<1> HIDE DEF t
<1>4. \A j \in 1 .. Size(FALSE) : Queue(t, FALSE)[j] = IF j = i THEN e ELSE Queue(s, FALSE)[j]
  BY <1>3
<1>5. ReadSet(s, t, i, e)  BY <1>1, <1>3, <1>4 DEF Queue, Size, ReadSet
<1>6. QED  BY <1>0, <1>5 DEF t

LEMMA SetWriteSlot ==
  ASSUME NEW s, Typed(s), NEW i \in 1 .. WQ_SIZE, NEW e, e = Free \/ IsPacket(e, {})
  PROVE  WriteSet(s, WriteTo(s, i, e), i, e)
<1> DEFINE t == SetPkt(s, TRUE, i, e)
<1>0. WriteTo(s, i, e) = t  BY DEF WriteTo, SetPkt
<1>1. t.RQ = s.RQ
  <2>1. t = [s EXCEPT !.WQ[i] = e]  BY DEF SetPkt
  <2>2. QED  BY <2>1 DEF Typed, Shaped
<1>2. PICK w \in BOOLEAN : w = TRUE  OBVIOUS
<1>3. /\ Typed(t) /\ t.upRQ = s.upRQ /\ t.upWQ = s.upWQ /\ t.answers = s.answers
      /\ t.warmup = s.warmup /\ t.bank_request = s.bank_request
      /\ \A v \in BOOLEAN : \A j \in 1 .. Size(v) :
           Queue(t, v)[j] = IF v = TRUE /\ j = i THEN e ELSE Queue(s, v)[j]
  <2>1. i \in 1 .. Size(w) /\ (e = Free \/ IsPacket(e, IF w THEN {} ELSE Ids))
    BY <1>2 DEF Size
  <2> DEFINE u == SetPkt(s, w, i, e)
  <2>2. /\ Typed(u) /\ u.upRQ = s.upRQ /\ u.upWQ = s.upWQ /\ u.answers = s.answers
        /\ u.warmup = s.warmup /\ u.bank_request = s.bank_request
        /\ \A v \in BOOLEAN : \A j \in 1 .. Size(v) :
             Queue(u, v)[j] = IF v = w /\ j = i THEN e ELSE Queue(s, v)[j]
    BY <2>1, SetPktSlot
  <2>3. u = t  BY <1>2
  <2> HIDE DEF t, u
  <2>4. QED  BY <1>2, <2>2, <2>3
<1> HIDE DEF t
<1>4. \A j \in 1 .. Size(TRUE) : Queue(t, TRUE)[j] = IF j = i THEN e ELSE Queue(s, TRUE)[j]
  BY <1>3
<1>5. WriteSet(s, t, i, e)  BY <1>1, <1>3, <1>4 DEF Queue, Size, WriteSet
<1>6. QED  BY <1>0, <1>5 DEF t

-----------------------------------------------------------------------------
(* The warmup *)

LEMMA WarmGood ==
  ASSUME DramAssumption, NEW s, Good(s)
  PROVE  /\ Good(Warm(s)) /\ Warm(s).warmup = s.warmup /\ Warm(s).upWQ = s.upWQ
         /\ Warm(s).bank_request = s.bank_request
         /\ ~ s.warmup => Warm(s) = s
         /\ s.warmup => /\ \A i \in 1 .. RQ_SIZE : Warm(s).RQ[i] = Free
                        /\ \A i \in 1 .. WQ_SIZE : Warm(s).WQ[i] = Free
         /\ \A id \in Ids : \A isAsked : Once(s, id, isAsked) => Once(Warm(s), id, isAsked)
<1>1. CASE ~ s.warmup  BY <1>1 DEF Warm
<1>2. CASE s.warmup
  <2> DEFINE t == Warm(s)
             ids == UNION {s.RQ[i].ids : i \in Used(s.RQ)}
             u == Answered(s, ids)
             reads == [i \in 1 .. RQ_SIZE |-> Free]
             writes == [i \in 1 .. WQ_SIZE |-> Free]
  <2>1. t = [u EXCEPT !.RQ = reads, !.WQ = writes]  BY <1>2 DEF Warm
  <2>2. /\ Typed(s) /\ Typed(u)
        /\ u.bank_request = s.bank_request /\ u.active_request = s.active_request
        /\ u.warmup = s.warmup /\ u.upRQ = s.upRQ /\ u.upWQ = s.upWQ
        /\ \A id \in Ids : u.answers[id] = s.answers[id] + IF id \in ids THEN 1 ELSE 0
    BY AnsweredIds DEF Good
  <2>3. IsQueue(reads, RQ_SIZE, Ids) /\ IsQueue(writes, WQ_SIZE, {})  BY DEF IsQueue
  <2>4. \A i \in 1 .. RQ_SIZE : reads[i] = Free  OBVIOUS
  <2>5. \A i \in 1 .. WQ_SIZE : writes[i] = Free  OBVIOUS
  <2>6. \A id : id \in ids <=> \E i \in 1 .. RQ_SIZE : Holds(s, i, id)
    <3>1. Used(s.RQ) = {i \in 1 .. RQ_SIZE : s.RQ[i] # Free}
      <4>1. RQ_SIZE \in Nat /\ IsQueue(s.RQ, RQ_SIZE, Ids)  BY <2>2 DEF Typed, DramAssumption
      <4>2. QED  BY <4>1, UsedSlots
    <3>2. QED  BY <3>1 DEF Holds, ids
  <2> HIDE DEF t, u, ids, reads, writes
  <2>7. /\ Shaped(t) /\ t.RQ = reads /\ t.WQ = writes
        /\ t.bank_request = u.bank_request /\ t.active_request = u.active_request
        /\ t.warmup = u.warmup /\ t.upRQ = u.upRQ /\ t.upWQ = u.upWQ /\ t.answers = u.answers
        /\ t.write_mode = u.write_mode
    BY <2>1, <2>2 DEF Typed, Shaped
  <2>8. Typed(t)  BY <2>2, <2>3, <2>7 DEF Typed
  <2>9. \A k \in Banks : ~ t.bank_request[k].valid  BY <1>2, <2>2, <2>7 DEF Good, Cold
  <2>10. t.active_request = None
    BY <2>2, <2>7, <2>9 DEF Good, Agree, Typed
  <2>11. \A write \in BOOLEAN : \A i \in 1 .. Size(write) : ~ Scheduled(t, write, i)
    BY <2>4, <2>5, <2>7 DEF Scheduled, Queue, Size
  <2>12. Agree(t)  BY <2>9, <2>10, <2>11 DEF Agree
  <2>13. Good(t)  BY <2>8, <2>9, <2>12 DEF Good, Excluded, Cold
  <2>14. ASSUME NEW id \in Ids, NEW isAsked, Once(s, id, isAsked) PROVE Once(t, id, isAsked)
    <3>1. \A i \in 1 .. RQ_SIZE : ~ Holds(t, i, id)  BY <2>4, <2>7 DEF Holds
    <3>2. \A j : Asks(t, j, id) <=> Asks(s, j, id)  BY <2>2, <2>7 DEF Asks
    <3>3. t.answers[id] = s.answers[id] + IF id \in ids THEN 1 ELSE 0  BY <2>2, <2>7
    <3>4. t.upRQ = s.upRQ  BY <2>2, <2>7
    <3>5. CASE id \in ids
      <4>1. \E i \in 1 .. RQ_SIZE : Holds(s, i, id)  BY <2>6, <3>5
      <4>2. s.answers[id] = 0 /\ \A j \in 1 .. Len(s.upRQ) : ~ Asks(s, j, id) /\ isAsked
        BY <2>14, <4>1 DEF Once
      <4>3. isAsked  BY <2>14, <4>1 DEF Once
      <4>4. t.answers[id] = 1  BY <3>3, <3>5, <4>2
      <4>5. QED  BY <3>1, <3>2, <3>4, <4>2, <4>3, <4>4 DEF Once
    <3>6. CASE id \notin ids
      <4>1. \A i \in 1 .. RQ_SIZE : ~ Holds(s, i, id)  BY <2>6, <3>6
      <4>2. t.answers[id] = s.answers[id]  BY <2>2, <3>3, <3>6 DEF Typed
      <4>3. QED  BY <2>14, <3>1, <3>2, <3>4, <4>1, <4>2 DEF Once
    <3>7. QED  BY <3>5, <3>6
  <2>15. QED  BY <1>2, <2>2, <2>4, <2>5, <2>7, <2>13, <2>14 DEF t
<1>3. QED  BY <1>1, <1>2

-----------------------------------------------------------------------------
(* The checks for collisions *)

LEMMA SameSlots ==
  ASSUME NEW q, NEW size \in Nat, NEW ids, IsQueue(q, size, ids), NEW i, NEW block
  PROVE  Same(q, i, block) = {j \in 1 .. size : q[j] # Free /\ j # i /\ q[j].block = block}
<1>1. Used(q) = {j \in 1 .. size : q[j] # Free}  BY UsedSlots
<1>2. QED  BY <1>1 DEF Same

LEMMA UncheckedIdle ==
  ASSUME NEW s, Agree(s), NEW write \in BOOLEAN, NEW i \in 1 .. Size(write),
         ~ Queue(s, write)[i].forward_checked
  PROVE  ~ Scheduled(s, write, i)
BY DEF Agree

LEMMA CheckedPacket ==
  ASSUME NEW e, NEW ids, IsPacket(e, ids)
  PROVE  LET d == [e EXCEPT !.forward_checked = TRUE]
         IN  /\ IsPacket(d, ids) /\ d.block = e.block /\ d.ids = e.ids
             /\ d.scheduled = e.scheduled /\ d.forward_checked
<1> DEFINE d == [e EXCEPT !.forward_checked = TRUE]
<1>1. d = [block |-> e.block, ids |-> e.ids, scheduled |-> e.scheduled,
           forward_checked |-> TRUE, age |-> e.age]
  <2>1. PICK b : b = TRUE  OBVIOUS
  <2>2. [e EXCEPT !.forward_checked = b]
          = [block |-> e.block, ids |-> e.ids, scheduled |-> e.scheduled,
             forward_checked |-> b, age |-> e.age]
    BY DEF IsPacket
  <2>3. QED  BY <2>1, <2>2
<1> HIDE DEF d
<1>2. d.forward_checked = TRUE /\ d.block = e.block /\ d.ids = e.ids /\ d.scheduled = e.scheduled
  BY <1>1
<1>3. IsPacket(d, ids)  BY <1>1, <1>2 DEF IsPacket
<1>4. QED  BY <1>2, <1>3 DEF d

\* What a check of a write leaves: the blocks of the queue, and all but its slot.
LEMMA CheckWriteKeeps ==
  ASSUME DramAssumption, NEW s, Good(s), NEW i \in 1 .. WQ_SIZE
  PROVE  LET t == CheckWrite(s, i)
         IN  /\ Good(t) /\ t.warmup = s.warmup /\ t.bank_request = s.bank_request
             /\ t.RQ = s.RQ /\ t.upRQ = s.upRQ /\ t.upWQ = s.upWQ /\ t.answers = s.answers
             /\ Blocking(t.WQ, WQ_SIZE) = Blocking(s.WQ, WQ_SIZE)
             /\ \A j \in 1 .. WQ_SIZE : j # i => t.WQ[j] = s.WQ[j]
             /\ t.WQ[i] # Free => t.WQ[i].forward_checked
<1> DEFINE t == CheckWrite(s, i)
           e == s.WQ[i]
<1>1. Typed(s) /\ WQ_SIZE \in Nat /\ IsQueue(s.WQ, WQ_SIZE, {})  BY DEF Good, Typed, DramAssumption
<1>2. CASE e = Free \/ e.forward_checked
  <2>1. t = s  BY <1>2 DEF CheckWrite
  <2>2. QED  BY <1>2, <2>1
<1>3. CASE e # Free /\ ~ e.forward_checked /\ Same(s.WQ, i, e.block) # {}
  <2>1. t = SetPkt(s, TRUE, i, Free)  BY <1>3 DEF CheckWrite, SetPkt
  <2>2. TRUE \in BOOLEAN /\ i \in 1 .. Size(TRUE) /\ Queue(s, TRUE)[i] = e  BY DEF Size, Queue
  <2>3. ~ Scheduled(s, TRUE, i)  BY <1>3, <2>2, UncheckedIdle DEF Good
  <2>4. Good(t)  BY <2>1, <2>2, <2>3, SlotGood
  <2>5. /\ t.RQ = s.RQ /\ t.upRQ = s.upRQ /\ t.upWQ = s.upWQ /\ t.answers = s.answers
        /\ t.warmup = s.warmup /\ t.bank_request = s.bank_request
        /\ \A j \in 1 .. WQ_SIZE : t.WQ[j] = IF j = i THEN Free ELSE s.WQ[j]
    <3>1. WriteSet(s, WriteTo(s, i, Free), i, Free)  BY <1>1, SetWriteSlot
    <3>2. t = WriteTo(s, i, Free)  BY <2>1 DEF WriteTo, SetPkt
    <3> HIDE DEF t
    <3>3. QED  BY <3>1, <3>2 DEF WriteSet
  <2>6. PICK j \in 1 .. WQ_SIZE : s.WQ[j] # Free /\ j # i /\ s.WQ[j].block = e.block
    BY <1>1, <1>3, SameSlots
  <2> HIDE DEF t
  <2>7. Blocking(t.WQ, WQ_SIZE) = Blocking(s.WQ, WQ_SIZE)
    BY <2>5, <2>6 DEF Blocking
  <2>8. QED  BY <2>4, <2>5, <2>7 DEF t
<1>4. CASE e # Free /\ ~ e.forward_checked /\ Same(s.WQ, i, e.block) = {}
  <2> DEFINE d == [e EXCEPT !.forward_checked = TRUE]
  <2>1. t = SetPkt(s, TRUE, i, d)  BY <1>4 DEF CheckWrite, SetPkt
  <2>2. TRUE \in BOOLEAN /\ i \in 1 .. Size(TRUE) /\ Queue(s, TRUE)[i] = e  BY DEF Size, Queue
  <2>3. IsPacket(e, {})  BY <1>1, <1>4 DEF IsQueue
  <2>4. IsPacket(d, {}) /\ d.block = e.block /\ d.scheduled = e.scheduled /\ d.forward_checked
    BY <2>3, CheckedPacket
  <2> HIDE DEF d
  <2>5. d # Free  BY <2>4, FreeIsNoPacket
  <2>6. Good(t)  BY <1>4, <2>1, <2>2, <2>4, <2>5, SlotGood
  <2>7. /\ t.RQ = s.RQ /\ t.upRQ = s.upRQ /\ t.upWQ = s.upWQ /\ t.answers = s.answers
        /\ t.warmup = s.warmup /\ t.bank_request = s.bank_request
        /\ \A j \in 1 .. WQ_SIZE : t.WQ[j] = IF j = i THEN d ELSE s.WQ[j]
    <3>1. WriteSet(s, WriteTo(s, i, d), i, d)  BY <1>1, <2>4, SetWriteSlot
    <3>2. t = WriteTo(s, i, d)  BY <2>1 DEF WriteTo, SetPkt
    <3> HIDE DEF t
    <3>3. QED  BY <3>1, <3>2 DEF WriteSet
  <2> HIDE DEF t
  <2>8. Blocking(t.WQ, WQ_SIZE) = Blocking(s.WQ, WQ_SIZE)
    BY <1>4, <2>4, <2>5, <2>7 DEF Blocking
  <2>9. QED  BY <2>4, <2>6, <2>7, <2>8 DEF t
<1>5. QED  BY <1>2, <1>3, <1>4

CheckingWrite(k, u, i) == CheckWrite(u, i)
WritesChecked(k, u, n) ==
  /\ Good(u) /\ u.warmup = k.warmup /\ u.bank_request = k.bank_request
  /\ u.RQ = k.RQ /\ u.upRQ = k.upRQ /\ u.upWQ = k.upWQ /\ u.answers = k.answers
  /\ Blocking(u.WQ, WQ_SIZE) = Blocking(k.WQ, WQ_SIZE)
  /\ \A j \in 1 .. n : u.WQ[j] # Free => u.WQ[j].forward_checked
WriteChecks == INSTANCE StageLemmas WITH Op <- CheckingWrite, Inv <- WritesChecked

LEMMA WritesPass ==
  ASSUME DramAssumption, NEW s, Good(s)
  PROVE  WritesChecked(s, Through(CheckWrite, s, Slots(WQ_SIZE)), WQ_SIZE)
<1> DEFINE q == Slots(WQ_SIZE)
<1>1. WQ_SIZE \in Nat /\ Len(q) = WQ_SIZE /\ \A i \in 1 .. WQ_SIZE : q[i] = i
  BY SlotsSeq DEF DramAssumption
<1> HIDE DEF q
<1>2. Through(CheckWrite, s, q) = WriteChecks!Carried(s, s, q)
  BY Zenon DEF WriteChecks!Carried, WriteChecks!Steps, Through, CheckingWrite
<1>3. WritesChecked(s, s, 0)  BY DEF WritesChecked
<1>4. ASSUME NEW i \in 1 .. WQ_SIZE, NEW u, WritesChecked(s, u, i - 1)
      PROVE  WritesChecked(s, CheckingWrite(s, u, q[i]), i)
  <2> DEFINE t == CheckWrite(u, i)
  <2>1. CheckingWrite(s, u, q[i]) = t  BY <1>1 DEF CheckingWrite
  <2>2. Good(u)  BY <1>4 DEF WritesChecked
  <2>3. /\ Good(t) /\ t.warmup = u.warmup /\ t.bank_request = u.bank_request
        /\ t.RQ = u.RQ /\ t.upRQ = u.upRQ /\ t.upWQ = u.upWQ /\ t.answers = u.answers
        /\ Blocking(t.WQ, WQ_SIZE) = Blocking(u.WQ, WQ_SIZE)
        /\ \A j \in 1 .. WQ_SIZE : j # i => t.WQ[j] = u.WQ[j]
        /\ t.WQ[i] # Free => t.WQ[i].forward_checked
    BY <2>2, CheckWriteKeeps
  <2> HIDE DEF t
  <2>4. \A j \in 1 .. i : t.WQ[j] # Free => t.WQ[j].forward_checked
    <3>1. SUFFICES ASSUME NEW j \in 1 .. i, t.WQ[j] # Free PROVE t.WQ[j].forward_checked
      OBVIOUS
    <3>2. j = i \/ (j \in 1 .. i - 1 /\ j \in 1 .. WQ_SIZE /\ j # i)  BY <1>1
    <3>3. QED  BY <1>4, <2>3, <3>1, <3>2 DEF WritesChecked
  <2>5. QED  BY <1>4, <2>1, <2>3, <2>4 DEF WritesChecked
<1>5. WritesChecked(s, WriteChecks!Carried(s, s, q), Len(q))
  BY <1>1, <1>3, <1>4, WriteChecks!Kept
<1>6. QED  BY <1>1, <1>2, <1>5 DEF q

-----------------------------------------------------------------------------
(* The readers when a slot is answered, or joins another *)

LEMMA OnceAnswered ==
  ASSUME NEW s, NEW t, NEW i \in 1 .. RQ_SIZE, NEW id, NEW isAsked, Once(s, id, isAsked),
         t.upRQ = s.upRQ,
         \A j \in 1 .. RQ_SIZE : Holds(t, j, id) <=> Holds(s, j, id) /\ j # i,
         t.answers[id] = s.answers[id] + IF Holds(s, i, id) THEN 1 ELSE 0
  PROVE  Once(t, id, isAsked)
<1>1. \A j : Asks(t, j, id) <=> Asks(s, j, id)  BY DEF Asks
<1>2. CASE Holds(s, i, id)
  <2>1. s.answers[id] = 0  BY <1>2 DEF Once
  <2>2. t.answers[id] = 1  BY <1>2, <2>1
  <2>3. \A j \in 1 .. Len(s.upRQ) : ~ Asks(s, j, id)  BY <1>2 DEF Once
  <2>4. \A j \in 1 .. RQ_SIZE : ~ Holds(t, j, id)  BY <1>2 DEF Once
  <2>5. isAsked  BY <1>2 DEF Once
  <2>6. QED  BY <1>1, <2>2, <2>3, <2>4, <2>5 DEF Once
<1>3. CASE ~ Holds(s, i, id)
  <2>1. \A j \in 1 .. RQ_SIZE : Holds(t, j, id) <=> Holds(s, j, id)  BY <1>3
  <2>2. t.answers[id] = s.answers[id]  BY <1>3 DEF Once
  <2>3. QED  BY <1>1, <2>1, <2>2 DEF Once
<1>4. QED  BY <1>2, <1>3

LEMMA OnceJoined ==
  ASSUME NEW s, NEW t, NEW i \in 1 .. RQ_SIZE, NEW f \in 1 .. RQ_SIZE, f # i,
         NEW id, NEW isAsked, Once(s, id, isAsked),
         t.upRQ = s.upRQ, t.answers = s.answers,
         \A j \in 1 .. RQ_SIZE :
           Holds(t, j, id) <=> j # i /\ (Holds(s, j, id) \/ (j = f /\ Holds(s, i, id)))
  PROVE  Once(t, id, isAsked)
<1>1. \A j : Asks(t, j, id) <=> Asks(s, j, id)  BY DEF Asks
<1>2. CASE Holds(s, i, id)
  <2>1. s.answers[id] = 0  BY <1>2 DEF Once
  <2>2. \A j \in 1 .. Len(s.upRQ) : ~ Asks(s, j, id)  BY <1>2 DEF Once
  <2>3. \A j \in 1 .. RQ_SIZE : Holds(t, j, id) <=> j = f  BY <1>2 DEF Once
  <2>4. isAsked  BY <1>2 DEF Once
  <2>5. QED  BY <1>1, <2>1, <2>2, <2>3, <2>4 DEF Once
<1>3. CASE ~ Holds(s, i, id)
  <2>1. \A j \in 1 .. RQ_SIZE : Holds(t, j, id) <=> Holds(s, j, id)  BY <1>3
  <2>2. QED  BY <1>1, <2>1 DEF Once
<1>4. QED  BY <1>2, <1>3

-----------------------------------------------------------------------------
(* The checks of the reads *)

LEMMA JoinedPacket ==
  ASSUME NEW e, NEW ids, IsPacket(e, ids), NEW more, more \subseteq ids
  PROVE  LET d == [e EXCEPT !.ids = @ \cup more]
         IN  /\ IsPacket(d, ids) /\ d.block = e.block /\ d.ids = e.ids \cup more
             /\ d.scheduled = e.scheduled /\ d.forward_checked = e.forward_checked
<1> DEFINE d == [e EXCEPT !.ids = @ \cup more]
<1>1. d = [block |-> e.block, ids |-> e.ids \cup more, scheduled |-> e.scheduled,
           forward_checked |-> e.forward_checked, age |-> e.age]
  BY DEF IsPacket
<1> HIDE DEF d
<1>2. /\ d.forward_checked = e.forward_checked /\ d.block = e.block
      /\ d.ids = e.ids \cup more /\ d.scheduled = e.scheduled /\ d.age = e.age
  BY <1>1
<1>3. IsPacket(d, ids)  BY <1>1, <1>2 DEF IsPacket
<1>4. QED  BY <1>2, <1>3 DEF d

\* The read that another joins: the first before it, or else the first after it.
Joined(same, i) ==
  LET before == {j \in same : j < i}
  IN  CHOOSE j \in IF before = {} THEN same ELSE before :
        \A k \in IF before = {} THEN same ELSE before : j <= k

LEMMA FoundSlot ==
  ASSUME NEW n \in Nat, NEW i, NEW same, same \subseteq 1 .. n, same # {}
  PROVE  Joined(same, i) \in same
<1> DEFINE before == {j \in same : j < i}
           those == IF before = {} THEN same ELSE before
<1>0. those = same \/ (those = before /\ before # {})  OBVIOUS
<1>1. those \subseteq same /\ those \subseteq Nat /\ those # {}
  <2>1. same \subseteq Nat /\ before \subseteq same  OBVIOUS
  <2> HIDE DEF those, before
  <2>2. QED  BY <1>0, <2>1
<1> HIDE DEF those
<1>2. \E j \in those : \A k \in those : j <= k  BY <1>1, LeastExists
<1>3. (CHOOSE j \in those : \A k \in those : j <= k) \in those  BY <1>2
<1>4. QED  BY <1>1, <1>3 DEF those, Joined

\* What a check of a read leaves.
ReadChecked(s, t, i) ==
  /\ Good(t) /\ t.warmup = s.warmup /\ t.bank_request = s.bank_request
  /\ t.WQ = s.WQ /\ t.upRQ = s.upRQ /\ t.upWQ = s.upWQ
  /\ \A j \in 1 .. RQ_SIZE : t.RQ[j] # Free =>
       s.RQ[j] # Free /\ (j = i \/ t.RQ[j].forward_checked = s.RQ[j].forward_checked)
  /\ t.RQ[i] # Free => t.RQ[i].forward_checked

LEMMA CheckReadFound ==
  ASSUME DramAssumption, NEW s, Good(s), NEW i \in 1 .. RQ_SIZE,
         s.RQ[i] # Free, ~ s.RQ[i].forward_checked
  PROVE  LET t == Answered([s EXCEPT !.RQ[i] = Free], s.RQ[i].ids)
         IN  /\ ReadChecked(s, t, i)
             /\ \A id \in Ids : \A isAsked : Once(s, id, isAsked) => Once(t, id, isAsked)
<1> DEFINE u == ReadTo(s, i, Free)
           ids == s.RQ[i].ids
           t == Answered(u, ids)
<1>1. Typed(s)  BY DEF Good
<1>2. ReadSet(s, u, i, Free)  BY <1>1, SetReadSlot
<1>3. FALSE \in BOOLEAN /\ i \in 1 .. Size(FALSE) /\ Queue(s, FALSE)[i] = s.RQ[i]
  BY DEF Size, Queue
<1>4. ~ Scheduled(s, FALSE, i)  BY <1>3, UncheckedIdle DEF Good
<1>5. Good(u)
  <2>1. Good(SetPkt(s, FALSE, i, Free))  BY <1>3, <1>4, SlotGood
  <2>2. QED  BY <2>1 DEF SetPkt, ReadTo
<1> HIDE DEF u
<1>6. Good(t)  BY <1>5, AnsweredGood
<1>7. /\ t.RQ = u.RQ /\ t.WQ = u.WQ /\ t.bank_request = u.bank_request
      /\ t.warmup = u.warmup /\ t.upRQ = u.upRQ /\ t.upWQ = u.upWQ
      /\ \A id \in Ids : t.answers[id] = u.answers[id] + IF id \in ids THEN 1 ELSE 0
  BY <1>2, AnsweredIds DEF ReadSet
<1> HIDE DEF t
<1>8. ReadChecked(s, t, i)  BY <1>2, <1>6, <1>7 DEF ReadChecked, ReadSet
<1>9. ASSUME NEW id \in Ids, NEW isAsked, Once(s, id, isAsked) PROVE Once(t, id, isAsked)
  <2>1. \A j \in 1 .. RQ_SIZE : Holds(t, j, id) <=> Holds(s, j, id) /\ j # i
    BY <1>2, <1>7 DEF Holds, ReadSet
  <2>2. id \in ids <=> Holds(s, i, id)  BY DEF Holds
  <2>3. t.answers[id] = s.answers[id] + IF Holds(s, i, id) THEN 1 ELSE 0
    BY <1>2, <1>7, <2>2 DEF ReadSet
  <2>4. t.upRQ = s.upRQ  BY <1>2, <1>7 DEF ReadSet
  <2>5. QED  BY <1>9, <2>1, <2>3, <2>4, OnceAnswered
<1>10. t = Answered([s EXCEPT !.RQ[i] = Free], s.RQ[i].ids)  BY DEF t, u, ReadTo
<1>11. QED  BY <1>8, <1>9, <1>10

LEMMA CheckReadJoins ==
  ASSUME DramAssumption, NEW s, Good(s), NEW i \in 1 .. RQ_SIZE,
         s.RQ[i] # Free, ~ s.RQ[i].forward_checked,
         NEW f \in 1 .. RQ_SIZE, f # i, s.RQ[f] # Free
  PROVE  LET t == [s EXCEPT !.RQ[f].ids = @ \cup s.RQ[i].ids, !.RQ[i] = Free]
         IN  /\ ReadChecked(s, t, i)
             /\ \A id \in Ids : \A isAsked : Once(s, id, isAsked) => Once(t, id, isAsked)
<1> DEFINE ids == s.RQ[i].ids
           d == [s.RQ[f] EXCEPT !.ids = @ \cup ids]
           u == ReadTo(s, f, d)
           t == ReadTo(u, i, Free)
<1>1. Typed(s)  BY DEF Good
<1>2. IsPacket(s.RQ[f], Ids) /\ IsPacket(s.RQ[i], Ids)  BY <1>1 DEF Typed, IsQueue
<1>3. /\ IsPacket(d, Ids) /\ d.block = s.RQ[f].block /\ d.ids = s.RQ[f].ids \cup ids
      /\ d.scheduled = s.RQ[f].scheduled /\ d.forward_checked = s.RQ[f].forward_checked
  <2>1. ids \subseteq Ids  BY <1>2 DEF IsPacket
  <2>2. QED  BY <1>2, <2>1, JoinedPacket
<1>4. t = [s EXCEPT !.RQ[f].ids = @ \cup s.RQ[i].ids, !.RQ[i] = Free]
  BY DEF ReadTo
<1> HIDE DEF d, ids
<1>5. d # Free  BY <1>3, FreeIsNoPacket
<1>6. ReadSet(s, u, f, d)  BY <1>1, <1>3, SetReadSlot
<1>7. FALSE \in BOOLEAN /\ f \in 1 .. Size(FALSE) /\ Queue(s, FALSE)[f] = s.RQ[f]
      /\ i \in 1 .. Size(FALSE)
  BY DEF Size, Queue
<1>8. Good(u)
  <2>1. Good(SetPkt(s, FALSE, f, d))  BY <1>3, <1>5, <1>7, SlotGood
  <2>2. QED  BY <2>1 DEF SetPkt, ReadTo
<1> HIDE DEF u
<1>9. Typed(u) /\ u.RQ[i] = s.RQ[i]  BY <1>6 DEF ReadSet
<1>10. ReadSet(u, t, i, Free)  BY <1>9, SetReadSlot
<1>11. Good(t)
  <2>1. Queue(u, FALSE)[i] = s.RQ[i]  BY <1>9 DEF Queue
  <2>2. ~ Scheduled(u, FALSE, i)  BY <1>7, <1>8, <2>1, UncheckedIdle DEF Good
  <2>3. Good(SetPkt(u, FALSE, i, Free))  BY <1>7, <1>8, <2>2, SlotGood
  <2>4. QED  BY <2>3 DEF SetPkt, ReadTo
<1> HIDE DEF t
<1>12. /\ t.warmup = s.warmup /\ t.bank_request = s.bank_request /\ t.answers = s.answers
       /\ t.WQ = s.WQ /\ t.upRQ = s.upRQ /\ t.upWQ = s.upWQ
       /\ \A j \in 1 .. RQ_SIZE :
            t.RQ[j] = IF j = i THEN Free ELSE IF j = f THEN d ELSE s.RQ[j]
  BY <1>6, <1>10 DEF ReadSet
<1>13. ReadChecked(s, t, i)  BY <1>3, <1>11, <1>12 DEF ReadChecked
<1>14. ASSUME NEW id \in Ids, NEW isAsked, Once(s, id, isAsked) PROVE Once(t, id, isAsked)
  <2>1. \A j \in 1 .. RQ_SIZE :
          Holds(t, j, id) <=> j # i /\ (Holds(s, j, id) \/ (j = f /\ Holds(s, i, id)))
    BY <1>3, <1>5, <1>12 DEF Holds, ids
  <2>2. QED  BY <1>12, <1>14, <2>1, OnceJoined
<1>15. QED  BY <1>4, <1>13, <1>14

LEMMA CheckReadStays ==
  ASSUME DramAssumption, NEW s, Good(s), NEW i \in 1 .. RQ_SIZE,
         s.RQ[i] # Free
  PROVE  LET t == [s EXCEPT !.RQ[i].forward_checked = TRUE]
         IN  /\ ReadChecked(s, t, i)
             /\ \A id \in Ids : \A isAsked : Once(s, id, isAsked) => Once(t, id, isAsked)
<1> DEFINE d == [s.RQ[i] EXCEPT !.forward_checked = TRUE]
           t == ReadTo(s, i, d)
<1>1. Typed(s)  BY DEF Good
<1>2. IsPacket(s.RQ[i], Ids)  BY <1>1 DEF Typed, IsQueue
<1>3. /\ IsPacket(d, Ids) /\ d.block = s.RQ[i].block /\ d.ids = s.RQ[i].ids
      /\ d.scheduled = s.RQ[i].scheduled /\ d.forward_checked
  BY <1>2, CheckedPacket
<1>4. t = [s EXCEPT !.RQ[i].forward_checked = TRUE]  BY DEF ReadTo
<1> HIDE DEF d
<1>5. d # Free  BY <1>3, FreeIsNoPacket
<1>6. ReadSet(s, t, i, d)  BY <1>1, <1>3, SetReadSlot
<1>7. FALSE \in BOOLEAN /\ i \in 1 .. Size(FALSE) /\ Queue(s, FALSE)[i] = s.RQ[i]
  BY DEF Size, Queue
<1>8. Good(t)
  <2>1. Good(SetPkt(s, FALSE, i, d))  BY <1>3, <1>5, <1>7, SlotGood
  <2>2. QED  BY <2>1 DEF SetPkt, ReadTo
<1> HIDE DEF t
<1>9. ReadChecked(s, t, i)  BY <1>3, <1>6, <1>8 DEF ReadChecked, ReadSet
<1>10. SameReaders(s, t)
  <2>1. \A j \in 1 .. RQ_SIZE : \A id : Holds(t, j, id) <=> Holds(s, j, id)
    BY <1>3, <1>5, <1>6 DEF Holds, ReadSet
  <2>2. QED  BY <1>6, <2>1 DEF ReadSet, SameReaders
<1>11. \A id \in Ids : \A isAsked : Once(s, id, isAsked) => Once(t, id, isAsked)
  BY <1>10, OnceKept
<1>12. QED  BY <1>4, <1>9, <1>11

LEMMA CheckReadKeeps ==
  ASSUME DramAssumption, NEW s, Good(s), NEW i \in 1 .. RQ_SIZE
  PROVE  /\ ReadChecked(s, CheckRead(s, i), i)
         /\ \A id \in Ids : \A isAsked :
              Once(s, id, isAsked) => Once(CheckRead(s, i), id, isAsked)
<1> DEFINE t == CheckRead(s, i)
           e == s.RQ[i]
           same == Same(s.RQ, i, e.block)
           before == {j \in same : j < i}
           found == CHOOSE j \in IF before = {} THEN same ELSE before :
                      \A k \in IF before = {} THEN same ELSE before : j <= k
           frees == Answered([s EXCEPT !.RQ[i] = Free], e.ids)
           joins == [s EXCEPT !.RQ[found].ids = @ \cup e.ids, !.RQ[i] = Free]
           stays == [s EXCEPT !.RQ[i].forward_checked = TRUE]
<1>1. RQ_SIZE \in Nat /\ IsQueue(s.RQ, RQ_SIZE, Ids)  BY DEF Good, Typed, DramAssumption
<1>2. same = {j \in 1 .. RQ_SIZE : s.RQ[j] # Free /\ j # i /\ s.RQ[j].block = e.block}
  BY <1>1, SameSlots
<1>3. t = IF e = Free \/ e.forward_checked THEN s
          ELSE IF Same(s.WQ, 0, e.block) # {} THEN frees
          ELSE IF same # {} THEN joins ELSE stays
  BY DEF CheckRead
<1>4. CASE e = Free \/ e.forward_checked
  <2>1. t = s  BY <1>3, <1>4
  <2>2. ReadChecked(s, s, i)  BY <1>4 DEF ReadChecked
  <2>3. QED  BY <2>1, <2>2
<1>5. CASE ~ (e = Free \/ e.forward_checked) /\ Same(s.WQ, 0, e.block) # {}
  <2>1. t = frees  BY <1>3, <1>5
  <2>2. /\ ReadChecked(s, frees, i)
        /\ \A id \in Ids : \A isAsked : Once(s, id, isAsked) => Once(frees, id, isAsked)
    BY <1>5, CheckReadFound
  <2> HIDE DEF t, frees
  <2>3. QED  BY <2>1, <2>2 DEF t
<1>6. CASE ~ (e = Free \/ e.forward_checked) /\ Same(s.WQ, 0, e.block) = {} /\ same # {}
  <2>1. t = joins  BY <1>3, <1>6
  <2>2. found \in same
    <3>1. same \subseteq 1 .. RQ_SIZE  BY <1>2
    <3>2. found = Joined(same, i)  BY DEF Joined
    <3> HIDE DEF same, found
    <3>3. Joined(same, i) \in same  BY <1>1, <1>6, <3>1, FoundSlot
    <3>4. QED  BY <3>2, <3>3
  <2> HIDE DEF found, t
  <2>3. found \in 1 .. RQ_SIZE /\ found # i /\ s.RQ[found] # Free  BY <1>2, <2>2
  <2>4. /\ ReadChecked(s, joins, i)
        /\ \A id \in Ids : \A isAsked : Once(s, id, isAsked) => Once(joins, id, isAsked)
    BY <1>6, <2>3, CheckReadJoins
  <2> HIDE DEF joins
  <2>5. QED  BY <2>1, <2>4 DEF t
<1>7. CASE ~ (e = Free \/ e.forward_checked) /\ Same(s.WQ, 0, e.block) = {} /\ same = {}
  <2>1. t = stays  BY <1>3, <1>7
  <2>2. /\ ReadChecked(s, stays, i)
        /\ \A id \in Ids : \A isAsked : Once(s, id, isAsked) => Once(stays, id, isAsked)
    BY <1>7, CheckReadStays
  <2> HIDE DEF t, stays
  <2>3. QED  BY <2>1, <2>2 DEF t
<1>8. QED  BY <1>4, <1>5, <1>6, <1>7

CheckingRead(k, u, i) == CheckRead(u, i)
ReadsChecked(k, u, n) ==
  /\ Good(u) /\ u.warmup = k.warmup /\ u.bank_request = k.bank_request
  /\ u.WQ = k.WQ /\ u.upRQ = k.upRQ /\ u.upWQ = k.upWQ
  /\ \A j \in 1 .. n : j \in 1 .. RQ_SIZE /\ u.RQ[j] # Free => u.RQ[j].forward_checked
  /\ \A j \in 1 .. RQ_SIZE : u.RQ[j] # Free => k.RQ[j] # Free
  /\ \A id \in Ids : \A isAsked : Once(k, id, isAsked) => Once(u, id, isAsked)
ReadChecks == INSTANCE StageLemmas WITH Op <- CheckingRead, Inv <- ReadsChecked

LEMMA ReadsPass ==
  ASSUME DramAssumption, NEW s, Good(s)
  PROVE  ReadsChecked(s, Through(CheckRead, s, Slots(RQ_SIZE)), RQ_SIZE)
<1> DEFINE q == Slots(RQ_SIZE)
<1>1. RQ_SIZE \in Nat /\ Len(q) = RQ_SIZE /\ \A i \in 1 .. RQ_SIZE : q[i] = i
  BY SlotsSeq DEF DramAssumption
<1> HIDE DEF q
<1>2. Through(CheckRead, s, q) = ReadChecks!Carried(s, s, q)
  BY Zenon DEF ReadChecks!Carried, ReadChecks!Steps, Through, CheckingRead
<1>3. ReadsChecked(s, s, 0)  BY DEF ReadsChecked
<1>4. ASSUME NEW i \in 1 .. RQ_SIZE, NEW u, ReadsChecked(s, u, i - 1)
      PROVE  ReadsChecked(s, CheckingRead(s, u, q[i]), i)
  <2> DEFINE t == CheckRead(u, i)
  <2>1. CheckingRead(s, u, q[i]) = t  BY <1>1 DEF CheckingRead
  <2>2. Good(u)  BY <1>4 DEF ReadsChecked
  <2>3. /\ ReadChecked(u, t, i)
        /\ \A id \in Ids : \A isAsked : Once(u, id, isAsked) => Once(t, id, isAsked)
    BY <2>2, CheckReadKeeps
  <2> HIDE DEF t
  <2>4. \A j \in 1 .. i : j \in 1 .. RQ_SIZE /\ t.RQ[j] # Free => t.RQ[j].forward_checked
    <3>1. SUFFICES ASSUME NEW j \in 1 .. i, j \in 1 .. RQ_SIZE, t.RQ[j] # Free
                   PROVE t.RQ[j].forward_checked
      OBVIOUS
    <3>2. j = i \/ (j \in 1 .. i - 1 /\ j # i)  BY <1>1
    <3>3. QED  BY <1>4, <2>3, <3>1, <3>2 DEF ReadsChecked, ReadChecked
  <2>5. \A id \in Ids : \A isAsked : Once(s, id, isAsked) => Once(t, id, isAsked)
    BY <1>4, <2>3 DEF ReadsChecked
  <2>6. QED  BY <1>4, <2>1, <2>3, <2>4, <2>5 DEF ReadsChecked, ReadChecked
<1>5. ReadsChecked(s, ReadChecks!Carried(s, s, q), Len(q))
  BY <1>1, <1>3, <1>4, ReadChecks!Kept
<1>6. QED  BY <1>1, <1>2, <1>5 DEF q

\* After the checks, what is in the queues is checked.
Checked(s) ==
  \A write \in BOOLEAN : \A i \in 1 .. Size(write) :
    Queue(s, write)[i] # Free => Queue(s, write)[i].forward_checked

LEMMA CollisionsGood ==
  ASSUME DramAssumption, NEW s, Good(s)
  PROVE  LET t == CheckCollisions(s)
         IN  /\ Good(t) /\ Checked(t) /\ t.warmup = s.warmup /\ t.bank_request = s.bank_request
             /\ t.upRQ = s.upRQ /\ t.upWQ = s.upWQ
             /\ Blocking(t.WQ, WQ_SIZE) = Blocking(s.WQ, WQ_SIZE)
             /\ \A i \in 1 .. RQ_SIZE : t.RQ[i] # Free => s.RQ[i] # Free
             /\ \A id \in Ids : \A isAsked : Once(s, id, isAsked) => Once(t, id, isAsked)
<1> DEFINE u == Through(CheckWrite, s, Slots(WQ_SIZE))
           t == Through(CheckRead, u, Slots(RQ_SIZE))
<1>1. WritesChecked(s, u, WQ_SIZE)  BY WritesPass
<1>2. Good(u)  BY <1>1 DEF WritesChecked
<1> HIDE DEF u
<1>3. ReadsChecked(u, t, RQ_SIZE)  BY <1>2, ReadsPass
<1>4. t = CheckCollisions(s)  BY DEF t, u, CheckCollisions
<1> HIDE DEF t
<1>5. \A i \in 1 .. RQ_SIZE : t.RQ[i] # Free => t.RQ[i].forward_checked
  BY <1>3 DEF ReadsChecked
<1>6. \A i \in 1 .. WQ_SIZE : t.WQ[i] # Free => t.WQ[i].forward_checked
  BY <1>1, <1>3 DEF WritesChecked, ReadsChecked
<1>7. Checked(t)  BY <1>5, <1>6 DEF Checked, Queue, Size
<1>8. \A id \in Ids : \A isAsked : Once(s, id, isAsked) => Once(u, id, isAsked)
  <2>1. ASSUME NEW id \in Ids, NEW isAsked, Once(s, id, isAsked) PROVE Once(u, id, isAsked)
    <3>1. SameReaders(s, u)  BY <1>1 DEF WritesChecked, SameReaders, Holds
    <3>2. QED  BY <2>1, <3>1, OnceKept
  <2>2. QED  BY <2>1
<1>9. QED  BY <1>1, <1>3, <1>4, <1>7, <1>8 DEF WritesChecked, ReadsChecked

-----------------------------------------------------------------------------
(* The stages after the checks *)

\* No slot is filled, and what is checked stays so.
NoMore(s, t) ==
  /\ t.warmup = s.warmup
  /\ \A write \in BOOLEAN : \A i \in 1 .. Size(write) : Queue(t, write)[i] # Free =>
       /\ Queue(s, write)[i] # Free
       /\ Queue(s, write)[i].forward_checked => Queue(t, write)[i].forward_checked

\* What each of these stages keeps.
Passing(s, t) ==
  /\ Good(t) /\ NoMore(s, t) /\ t.upWQ = s.upWQ
  /\ \A id \in Ids : \A isAsked : Once(s, id, isAsked) => Once(t, id, isAsked)

LEMMA PassingOn ==
  ASSUME NEW s, NEW t, NEW u, Passing(s, t), Passing(t, u)
  PROVE  Passing(s, u)
<1>1. NoMore(s, u)  BY DEF Passing, NoMore
<1>2. QED  BY <1>1 DEF Passing

\* A bank gives up its packet.
Released(s, t, k) ==
  LET b == s.bank_request[k]
  IN  /\ ~ t.bank_request[k].valid
      /\ \A l \in Banks : l # k => t.bank_request[l] = s.bank_request[l]
      /\ t.active_request = None \/ (t.active_request = s.active_request /\ s.active_request # k)
      /\ ~ Scheduled(t, b.write, b.slot)
      /\ \A write \in BOOLEAN : \A i \in 1 .. Size(write) :
           write # b.write \/ i # b.slot => Queue(t, write)[i] = Queue(s, write)[i]
      /\ t.warmup = s.warmup

LEMMA ReleasedGood ==
  ASSUME DramAssumption, NEW s, NEW t, Good(s), Typed(t), NEW k \in Banks,
         s.bank_request[k].valid, Released(s, t, k)
  PROVE  Good(t)
<1> DEFINE b == s.bank_request[k]
<1>0. Typed(s) /\ Agree(s) /\ b.write \in BOOLEAN  BY DEF Good, Typed, IsBank
<1>1. b.slot \in 1 .. Size(b.write) /\ Scheduled(s, b.write, b.slot) /\ Bank(PktOf(s, b).block) = k
  BY <1>0 DEF Agree
<1>2. ASSUME NEW l \in Banks, t.bank_request[l].valid
      PROVE  LET d == t.bank_request[l]
             IN  /\ d.slot \in 1 .. Size(d.write)
                 /\ Scheduled(t, d.write, d.slot)
                 /\ Bank(PktOf(t, d).block) = l
  <2> DEFINE d == s.bank_request[l]
  <2>1. l # k /\ t.bank_request[l] = d /\ d.write \in BOOLEAN
    BY <1>0, <1>2 DEF Released, Typed, IsBank
  <2>2. d.slot \in 1 .. Size(d.write) /\ Scheduled(s, d.write, d.slot) /\ Bank(PktOf(s, d).block) = l
    BY <1>0, <1>2, <2>1 DEF Agree
  <2>3. ~ (d.write = b.write /\ d.slot = b.slot)  BY <1>1, <2>1, <2>2 DEF PktOf
  <2>4. Queue(t, d.write)[d.slot] = Queue(s, d.write)[d.slot]
    BY <2>1, <2>2, <2>3 DEF Released
  <2>5. QED  BY <2>1, <2>2, <2>4 DEF Scheduled, PktOf
<1>3. ASSUME NEW write \in BOOLEAN, NEW i \in 1 .. Size(write), Scheduled(t, write, i)
      PROVE  LET e == Queue(t, write)[i]
                 d == t.bank_request[Bank(e.block)]
             IN  e.forward_checked /\ d.valid /\ d.write = write /\ d.slot = i
  <2> DEFINE e == Queue(s, write)[i]
             l == Bank(e.block)
  <2>1. ~ (write = b.write /\ i = b.slot)  BY <1>3 DEF Released
  <2>2. Queue(t, write)[i] = e  BY <2>1 DEF Released
  <2>3. Scheduled(s, write, i)  BY <1>3, <2>2 DEF Scheduled
  <2>4. e.forward_checked /\ s.bank_request[l].valid /\ s.bank_request[l].write = write
        /\ s.bank_request[l].slot = i
    BY <1>0, <2>3 DEF Agree
  <2>5. l \in Banks
    <3>1. e.block \in Blocks  BY <1>0, <2>3 DEF Scheduled, Typed, IsQueue, IsPacket, Queue, Size
    <3>2. QED  BY <3>1 DEF DramAssumption, Blocks
  <2>6. l # k  BY <2>1, <2>4
  <2>7. QED  BY <2>2, <2>4, <2>5, <2>6 DEF Released
<1>4. t.active_request # None => t.bank_request[t.active_request].valid
  BY <1>0 DEF Agree, Released, Typed
<1>5. Agree(t)  BY <1>2, <1>3, <1>4 DEF Agree
<1>6. Excluded(t) /\ Cold(t)  BY DEF Good, Excluded, Cold, Released
<1>7. QED  BY <1>5, <1>6 DEF Good

\* Writing a bank changes that bank and nothing else.
BankTo(s, k, d) == [s EXCEPT !.bank_request[k] = d]
BankSet(s, t, k, d) ==
  /\ Typed(t) /\ t.RQ = s.RQ /\ t.WQ = s.WQ /\ t.upRQ = s.upRQ /\ t.upWQ = s.upWQ
  /\ t.answers = s.answers /\ t.warmup = s.warmup /\ t.write_mode = s.write_mode
  /\ t.active_request = s.active_request
  /\ \A l \in Banks : t.bank_request[l] = IF l = k THEN d ELSE s.bank_request[l]

LEMMA SetBank ==
  ASSUME NEW s, Typed(s), NEW k \in Banks, NEW d, IsBank(d)
  PROVE  BankSet(s, BankTo(s, k, d), k, d)
<1> DEFINE t == BankTo(s, k, d)
           banks == [s.bank_request EXCEPT ![k] = d]
<1>1. t = [s EXCEPT !.bank_request = banks]  BY DEF BankTo
<1>2. /\ banks = [l \in Banks |-> banks[l]]
      /\ \A l \in Banks : banks[l] = IF l = k THEN d ELSE s.bank_request[l]
  BY DEF Typed
<1> HIDE DEF t, banks
<1>3. /\ Shaped(t) /\ t.bank_request = banks
      /\ t.RQ = s.RQ /\ t.WQ = s.WQ /\ t.upRQ = s.upRQ /\ t.upWQ = s.upWQ
      /\ t.answers = s.answers /\ t.warmup = s.warmup /\ t.write_mode = s.write_mode
      /\ t.active_request = s.active_request
  BY <1>1 DEF Typed, Shaped
<1>4. \A l \in Banks : IsBank(banks[l])  BY <1>2 DEF Typed
<1>5. Typed(t)  BY <1>2, <1>3, <1>4 DEF Typed
<1>6. QED  BY <1>2, <1>3, <1>5 DEF BankSet, t

LEMMA IdleBank ==
  ASSUME NEW b, IsBank(b), NEW row
  PROVE  LET d == [b EXCEPT !.valid = FALSE, !.open_row = row]
             f == [b EXCEPT !.valid = FALSE]
         IN  IsBank(d) /\ d.valid = FALSE /\ IsBank(f) /\ f.valid = FALSE
<1> DEFINE d == [b EXCEPT !.valid = FALSE, !.open_row = row]
           f == [b EXCEPT !.valid = FALSE]
<1>1. PICK v : v = FALSE  OBVIOUS
<1> DEFINE b1 == [b EXCEPT !.valid = v]
<1>2. [b EXCEPT !.valid = v, !.open_row = row]
        = [valid |-> v, need_refresh |-> b.need_refresh, under_refresh |-> b.under_refresh,
           open_row |-> row, wait |-> b.wait, write |-> b.write, slot |-> b.slot]
  <2>1. b1 = [valid |-> v, need_refresh |-> b.need_refresh, under_refresh |-> b.under_refresh,
              open_row |-> b.open_row, wait |-> b.wait, write |-> b.write, slot |-> b.slot]
    BY DEF IsBank
  <2>2. [b EXCEPT !.valid = v, !.open_row = row] = [b1 EXCEPT !.open_row = row]
    OBVIOUS
  <2> HIDE DEF b1
  <2>3. [b1 EXCEPT !.open_row = row]
          = [valid |-> v, need_refresh |-> b.need_refresh, under_refresh |-> b.under_refresh,
             open_row |-> row, wait |-> b.wait, write |-> b.write, slot |-> b.slot]
    BY <2>1
  <2>4. QED  BY <2>2, <2>3
<1>3. d = [valid |-> FALSE, need_refresh |-> b.need_refresh, under_refresh |-> b.under_refresh,
           open_row |-> row, wait |-> b.wait, write |-> b.write, slot |-> b.slot]
  BY <1>1, <1>2
<1>6. f = [valid |-> FALSE, need_refresh |-> b.need_refresh, under_refresh |-> b.under_refresh,
           open_row |-> b.open_row, wait |-> b.wait, write |-> b.write, slot |-> b.slot]
  <2>1. [b EXCEPT !.valid = v]
          = [valid |-> v, need_refresh |-> b.need_refresh, under_refresh |-> b.under_refresh,
             open_row |-> b.open_row, wait |-> b.wait, write |-> b.write, slot |-> b.slot]
    BY DEF IsBank
  <2>2. QED  BY <1>1, <2>1
<1> HIDE DEF d, f
<1>4. /\ d.valid = FALSE /\ d.write = b.write /\ d.slot = b.slot /\ d.wait = b.wait
      /\ d.need_refresh = b.need_refresh /\ d.under_refresh = b.under_refresh /\ d.open_row = row
  BY <1>3
<1>5. IsBank(d)  BY <1>3, <1>4 DEF IsBank
<1>7. /\ f.valid = FALSE /\ f.write = b.write /\ f.slot = b.slot /\ f.wait = b.wait
      /\ f.need_refresh = b.need_refresh /\ f.under_refresh = b.under_refresh
      /\ f.open_row = b.open_row
  BY <1>6
<1>8. IsBank(f)  BY <1>6, <1>7 DEF IsBank
<1>9. QED  BY <1>4, <1>5, <1>7, <1>8 DEF d, f

LEMMA FinishGood ==
  ASSUME DramAssumption, NEW s, Good(s)
  PROVE  Passing(s, FinishDbusRequest(s))
<1> DEFINE a == s.active_request
           b == s.bank_request[a]
           e == PktOf(s, b)
           t == FinishDbusRequest(s)
<1>0. Typed(s) /\ Agree(s)  BY DEF Good
<1>1. CASE a = None \/ b.wait > 0
  <2>1. t = s  BY <1>1 DEF FinishDbusRequest
  <2>2. Passing(s, s)  BY DEF Passing, NoMore
  <2>3. QED  BY <2>1, <2>2
<1>2. CASE ~ (a = None \/ b.wait > 0)
  <2> DEFINE u == Answered(s, e.ids)
             f == [b EXCEPT !.valid = FALSE]
             v == BankTo(u, a, f)
             w == [v EXCEPT !.active_request = None]
  <2>1. a \in Banks /\ b.valid  BY <1>0, <1>2 DEF Typed, Agree
  <2>2. IsBank(b) /\ b.write \in BOOLEAN  BY <1>0, <2>1 DEF Typed, IsBank
  <2>3. b.slot \in 1 .. Size(b.write) /\ Scheduled(s, b.write, b.slot)  BY <1>0, <2>1 DEF Agree
  <2>4. /\ Typed(u) /\ u.RQ = s.RQ /\ u.WQ = s.WQ /\ u.bank_request = s.bank_request
        /\ u.active_request = s.active_request /\ u.warmup = s.warmup
        /\ u.write_mode = s.write_mode /\ u.upRQ = s.upRQ /\ u.upWQ = s.upWQ
        /\ \A id \in Ids : u.answers[id] = s.answers[id] + IF id \in e.ids THEN 1 ELSE 0
    BY <1>0, AnsweredIds
  <2>5. IsBank(f) /\ f.valid = FALSE  BY <2>2, IdleBank
  <2>6. t = SetPkt(w, b.write, b.slot, Free)
    <3>1. w = [u EXCEPT !.bank_request[a].valid = FALSE, !.active_request = None]
      BY <2>4 DEF BankTo
    <3> HIDE DEF w
    <3>2. QED  BY <1>2, <3>1 DEF FinishDbusRequest
  <2> HIDE DEF u, f, e
  <2>7. BankSet(u, v, a, f)  BY <2>1, <2>4, <2>5, SetBank
  <2> HIDE DEF v
  <2>8. /\ Shaped(w) /\ w.active_request = None
        /\ w.RQ = v.RQ /\ w.WQ = v.WQ /\ w.bank_request = v.bank_request /\ w.warmup = v.warmup
        /\ w.write_mode = v.write_mode /\ w.upRQ = v.upRQ /\ w.upWQ = v.upWQ
        /\ w.answers = v.answers
    BY <2>7 DEF BankSet, Typed, Shaped
  <2> HIDE DEF w
  <2>9. Typed(w)  BY <2>7, <2>8 DEF BankSet, Typed
  <2>10. /\ Typed(t) /\ t.bank_request = w.bank_request /\ t.active_request = w.active_request
         /\ t.warmup = w.warmup /\ t.upRQ = w.upRQ /\ t.upWQ = w.upWQ /\ t.answers = w.answers
         /\ \A x \in BOOLEAN : \A j \in 1 .. Size(x) :
              Queue(t, x)[j] = IF x = b.write /\ j = b.slot THEN Free ELSE Queue(w, x)[j]
    <3> HIDE DEF t, b
    <3>1. QED  BY <2>2, <2>3, <2>6, <2>9, SetPktSlot
  <2> HIDE DEF t
  <2>11. \A x : Queue(w, x) = Queue(s, x)  BY <2>4, <2>7, <2>8 DEF BankSet, Queue
  <2>12. \A x \in BOOLEAN : \A j \in 1 .. Size(x) :
           Queue(t, x)[j] = IF x = b.write /\ j = b.slot THEN Free ELSE Queue(s, x)[j]
    BY <2>10, <2>11
  <2>13. Released(s, t, a)
    <3>1. ~ t.bank_request[a].valid
      BY <2>1, <2>5, <2>7, <2>8, <2>10 DEF BankSet
    <3>2. \A l \in Banks : l # a => t.bank_request[l] = s.bank_request[l]
      BY <2>4, <2>7, <2>8, <2>10 DEF BankSet
    <3>3. ~ Scheduled(t, b.write, b.slot)  BY <2>2, <2>3, <2>12 DEF Scheduled
    <3>4. \A x \in BOOLEAN : \A i \in 1 .. Size(x) :
            x # b.write \/ i # b.slot => Queue(t, x)[i] = Queue(s, x)[i]
      BY <2>12
    <3>5. t.warmup = s.warmup  BY <2>4, <2>7, <2>8, <2>10 DEF BankSet
    <3>6. QED  BY <2>8, <2>10, <3>1, <3>2, <3>3, <3>4, <3>5 DEF Released
  <2>14. Good(t)  BY <2>1, <2>10, <2>13, ReleasedGood
  <2>15. NoMore(s, t)  BY <2>12, <2>13 DEF NoMore, Released
  <2>16. t.upWQ = s.upWQ /\ t.upRQ = s.upRQ /\ t.answers = u.answers
    BY <2>4, <2>7, <2>8, <2>10 DEF BankSet
  <2>17. ASSUME NEW id \in Ids, NEW isAsked, Once(s, id, isAsked) PROVE Once(t, id, isAsked)
    <3>0. t.answers[id] = s.answers[id] + IF id \in e.ids THEN 1 ELSE 0  BY <2>4, <2>16
    <3>1. CASE b.write = FALSE
      <4>1. b.slot \in 1 .. RQ_SIZE /\ e = s.RQ[b.slot] /\ e # Free
        BY <2>3, <3>1 DEF Size, PktOf, Queue, Scheduled, e
      <4>2. \A j \in 1 .. RQ_SIZE : t.RQ[j] = IF j = b.slot THEN Free ELSE s.RQ[j]
        BY <2>12, <3>1 DEF Queue, Size
      <4>3. \A j \in 1 .. RQ_SIZE : Holds(t, j, id) <=> Holds(s, j, id) /\ j # b.slot
        BY <4>2 DEF Holds
      <4>4. id \in e.ids <=> Holds(s, b.slot, id)  BY <4>1 DEF Holds
      <4>5. t.answers[id] = s.answers[id] + IF Holds(s, b.slot, id) THEN 1 ELSE 0
        BY <3>0, <4>4
      <4>6. QED  BY <2>16, <2>17, <4>1, <4>3, <4>5, OnceAnswered
    <3>2. CASE b.write = TRUE
      <4>1. \A j \in 1 .. RQ_SIZE : t.RQ[j] = s.RQ[j]  BY <2>12, <3>2 DEF Queue, Size
      <4>2. id \notin e.ids
        BY <1>0, <2>3, <3>2 DEF Typed, IsQueue, IsPacket, Scheduled, Queue, Size, PktOf, e
      <4>3. t.answers[id] = s.answers[id]  BY <1>0, <3>0, <4>2 DEF Typed
      <4>4. \A j \in 1 .. RQ_SIZE : Holds(t, j, id) <=> Holds(s, j, id)  BY <4>1 DEF Holds
      <4>5. \A j : Asks(t, j, id) <=> Asks(s, j, id)  BY <2>16 DEF Asks
      <4>6. QED  BY <2>16, <2>17, <4>3, <4>4, <4>5 DEF Once
    <3>3. QED  BY <2>2, <3>1, <3>2
  <2>18. QED  BY <2>14, <2>15, <2>16, <2>17 DEF Passing, t
<1>3. QED  BY <1>1, <1>2

LEMMA MarkedPacket ==
  ASSUME NEW e, NEW ids, IsPacket(e, ids), NEW v
  PROVE  LET d == [e EXCEPT !.scheduled = v, !.age = 0]
         IN  /\ IsPacket(d, ids) /\ d.block = e.block /\ d.ids = e.ids
             /\ d.scheduled = v /\ d.forward_checked = e.forward_checked
<1> DEFINE b1 == [e EXCEPT !.scheduled = v]
           d == [e EXCEPT !.scheduled = v, !.age = 0]
<1>1. b1 = [block |-> e.block, ids |-> e.ids, scheduled |-> v,
            forward_checked |-> e.forward_checked, age |-> e.age]
  BY DEF IsPacket
<1>2. d = [b1 EXCEPT !.age = 0]  OBVIOUS
<1> HIDE DEF b1, d
<1>3. d = [block |-> e.block, ids |-> e.ids, scheduled |-> v,
           forward_checked |-> e.forward_checked, age |-> 0]
  BY <1>1, <1>2
<1>4. /\ d.forward_checked = e.forward_checked /\ d.block = e.block
      /\ d.ids = e.ids /\ d.scheduled = v /\ d.age = 0
  BY <1>3
<1>5. IsPacket(d, ids)  BY <1>3, <1>4 DEF IsPacket
<1>6. QED  BY <1>4, <1>5 DEF d

LEMMA ResetPacket ==
  ASSUME NEW e, NEW ids, IsPacket(e, ids)
  PROVE  LET d == [e EXCEPT !.scheduled = FALSE, !.age = 0]
         IN  /\ IsPacket(d, ids) /\ d.block = e.block /\ d.ids = e.ids
             /\ ~ d.scheduled /\ d.forward_checked = e.forward_checked
<1>1. PICK v : v = FALSE  OBVIOUS
<1> DEFINE f == [e EXCEPT !.scheduled = v, !.age = 0]
           d == [e EXCEPT !.scheduled = FALSE, !.age = 0]
<1>2. /\ IsPacket(f, ids) /\ f.block = e.block /\ f.ids = e.ids
      /\ f.scheduled = v /\ f.forward_checked = e.forward_checked
  BY MarkedPacket
<1>3. f = d  BY <1>1
<1> HIDE DEF f, d
<1>4. QED  BY <1>1, <1>2, <1>3 DEF d

\* A slot keeps its packet but for the marks.
LEMMA UnscheduleGood ==
  ASSUME DramAssumption, NEW s, Good(s), NEW k \in Banks
  PROVE  Passing(s, Unschedule(s, k))
<1> DEFINE b == s.bank_request[k]
           t == Unschedule(s, k)
<1>0. Typed(s) /\ Agree(s)  BY DEF Good
<1>1. CASE k = s.active_request \/ ~ b.valid
  <2>1. t = s  BY <1>1 DEF Unschedule
  <2>2. Passing(s, s)  BY DEF Passing, NoMore
  <2>3. QED  BY <2>1, <2>2
<1>2. CASE ~ (k = s.active_request \/ ~ b.valid)
  <2> DEFINE row == IF b.wait < tCAS THEN NoRow ELSE b.open_row
             f == [b EXCEPT !.valid = FALSE, !.open_row = row]
             v == BankTo(s, k, f)
             e == PktOf(s, b)
             d == [e EXCEPT !.scheduled = FALSE, !.age = 0]
             ids == IF b.write THEN {} ELSE Ids
  <2>1. IsBank(b) /\ b.write \in BOOLEAN  BY <1>0 DEF Typed, IsBank
  <2>2. b.slot \in 1 .. Size(b.write) /\ Scheduled(s, b.write, b.slot)  BY <1>0, <1>2 DEF Agree
  <2>3. IsPacket(e, ids)
    BY <1>0, <2>1, <2>2 DEF Typed, IsQueue, Scheduled, Queue, Size, PktOf
  <2>4. t = SetPkt(v, b.write, b.slot, d)
    <3>1. v = [s EXCEPT !.bank_request[k].valid = FALSE,
                        !.bank_request[k].open_row = IF b.wait < tCAS THEN NoRow ELSE @]
      BY <1>0 DEF BankTo, Typed
    <3> HIDE DEF v
    <3>2. QED  BY <1>2, <3>1 DEF Unschedule
  <2>5. IsBank(f) /\ f.valid = FALSE
    <3> HIDE DEF row
    <3>1. QED  BY <2>1, IdleBank
  <2>6. /\ IsPacket(d, ids) /\ d.block = e.block /\ d.ids = e.ids
        /\ ~ d.scheduled /\ d.forward_checked = e.forward_checked
    <3> HIDE DEF e, ids
    <3>1. QED  BY <2>3, ResetPacket
  <2> HIDE DEF f, d
  <2>7. BankSet(s, v, k, f)  BY <1>0, <2>5, SetBank
  <2> HIDE DEF v
  <2>8. d # Free  BY <2>6, FreeIsNoPacket
  <2>9. /\ Typed(t) /\ t.bank_request = v.bank_request /\ t.active_request = v.active_request
        /\ t.warmup = v.warmup /\ t.upRQ = v.upRQ /\ t.upWQ = v.upWQ /\ t.answers = v.answers
        /\ \A x \in BOOLEAN : \A j \in 1 .. Size(x) :
             Queue(t, x)[j] = IF x = b.write /\ j = b.slot THEN d ELSE Queue(v, x)[j]
    <3>1. Typed(v)  BY <2>7 DEF BankSet
    <3> HIDE DEF t, b
    <3>2. QED  BY <2>1, <2>2, <2>4, <2>6, <3>1, SetPktSlot
  <2> HIDE DEF t
  <2>10. \A x : Queue(v, x) = Queue(s, x)  BY <2>7 DEF BankSet, Queue
  <2>11. \A x \in BOOLEAN : \A j \in 1 .. Size(x) :
           Queue(t, x)[j] = IF x = b.write /\ j = b.slot THEN d ELSE Queue(s, x)[j]
    BY <2>9, <2>10
  <2>12. Released(s, t, k)
    <3>1. ~ t.bank_request[k].valid  BY <2>5, <2>7, <2>9 DEF BankSet
    <3>2. \A l \in Banks : l # k => t.bank_request[l] = s.bank_request[l]
      BY <2>7, <2>9 DEF BankSet
    <3>3. ~ Scheduled(t, b.write, b.slot)  BY <2>1, <2>2, <2>6, <2>11 DEF Scheduled
    <3>4. \A x \in BOOLEAN : \A i \in 1 .. Size(x) :
            x # b.write \/ i # b.slot => Queue(t, x)[i] = Queue(s, x)[i]
      BY <2>11
    <3>5. t.warmup = s.warmup /\ t.active_request = s.active_request  BY <2>7, <2>9 DEF BankSet
    <3>6. QED  BY <1>2, <3>1, <3>2, <3>3, <3>4, <3>5 DEF Released
  <2>13. Good(t)  BY <1>2, <2>9, <2>12, ReleasedGood
  <2>14. e = Queue(s, b.write)[b.slot] /\ e # Free  BY <2>2 DEF PktOf, Scheduled
  <2>15. NoMore(s, t)  BY <2>6, <2>11, <2>12, <2>14 DEF NoMore, Released
  <2>16. SameReaders(s, t)
    <3>1. \A j \in 1 .. RQ_SIZE : t.RQ[j] = IF b.write = FALSE /\ j = b.slot THEN d ELSE s.RQ[j]
      BY <2>11 DEF Queue, Size
    <3>2. b.write = FALSE => e = s.RQ[b.slot]  BY <2>14 DEF Queue
    <3>3. \A j \in 1 .. RQ_SIZE : \A id : Holds(t, j, id) <=> Holds(s, j, id)
      BY <2>6, <2>8, <2>14, <3>1, <3>2 DEF Holds
    <3>4. QED  BY <2>7, <2>9, <3>3 DEF BankSet, SameReaders
  <2>17. t.upWQ = s.upWQ  BY <2>7, <2>9 DEF BankSet
  <2>18. \A id \in Ids : \A isAsked : Once(s, id, isAsked) => Once(t, id, isAsked)
    BY <2>16, OnceKept
  <2>19. QED  BY <2>13, <2>15, <2>17, <2>18 DEF Passing, t
<1>3. QED  BY <1>1, <1>2

\* What none of the queues and banks depends on may change.
LEMMA AsideGood ==
  ASSUME DramAssumption, NEW s, Good(s), NEW t, Typed(t),
         t.RQ = s.RQ, t.WQ = s.WQ, t.bank_request = s.bank_request,
         t.active_request = s.active_request, t.warmup = s.warmup
  PROVE  Good(t)
<1>1. \A x : Queue(t, x) = Queue(s, x)  BY DEF Queue
<1>2. SameWork(s, t)  BY <1>1 DEF SameWork, Scheduled
<1>3. QED  BY <1>2, GoodKept

LEMMA AsidePasses ==
  ASSUME DramAssumption, NEW s, Good(s), NEW t, Typed(t),
         t.RQ = s.RQ, t.WQ = s.WQ, t.bank_request = s.bank_request,
         t.active_request = s.active_request, t.warmup = s.warmup,
         t.upRQ = s.upRQ, t.upWQ = s.upWQ, t.answers = s.answers
  PROVE  Passing(s, t)
<1>1. \A x : Queue(t, x) = Queue(s, x)  BY DEF Queue
<1>2. Good(t)  BY AsideGood
<1>3. NoMore(s, t)  BY <1>1 DEF NoMore
<1>4. SameReaders(s, t)  BY DEF SameReaders, Holds
<1>5. QED  BY <1>2, <1>3, <1>4, OnceKept DEF Passing

Unscheduling(k, u, i) == Unschedule(u, i)
UnscheduledTo(k, u, n) == Passing(k, u)
Unschedules == INSTANCE StageLemmas WITH Op <- Unscheduling, Inv <- UnscheduledTo

LEMMA AllUnscheduled ==
  ASSUME DramAssumption, NEW s, Good(s)
  PROVE  Passing(s, Through(Unschedule, s, Slots(NumBanks)))
<1> DEFINE q == Slots(NumBanks)
<1>1. NumBanks \in Nat /\ Len(q) = NumBanks /\ \A i \in 1 .. NumBanks : q[i] = i
  BY SlotsSeq DEF DramAssumption
<1> HIDE DEF q
<1>2. Through(Unschedule, s, q) = Unschedules!Carried(s, s, q)
  BY Zenon DEF Unschedules!Carried, Unschedules!Steps, Through, Unscheduling
<1>3. UnscheduledTo(s, s, 0)  BY DEF UnscheduledTo, Passing, NoMore
<1>4. ASSUME NEW i \in 1 .. NumBanks, NEW u, UnscheduledTo(s, u, i - 1)
      PROVE  UnscheduledTo(s, Unscheduling(s, u, q[i]), i)
  <2>1. Passing(s, u) /\ Good(u)  BY <1>4 DEF UnscheduledTo, Passing
  <2>2. i \in Banks  BY DEF Banks
  <2>3. Passing(u, Unschedule(u, i))  BY <2>1, <2>2, UnscheduleGood
  <2>4. Unscheduling(s, u, q[i]) = Unschedule(u, i)  BY <1>1 DEF Unscheduling
  <2>5. QED  BY <2>1, <2>3, <2>4, PassingOn DEF UnscheduledTo
<1>5. UnscheduledTo(s, Unschedules!Carried(s, s, q), Len(q))
  BY <1>1, <1>3, <1>4, Unschedules!Kept
<1>6. QED  BY <1>2, <1>5 DEF q, UnscheduledTo

LEMMA SwapGood ==
  ASSUME DramAssumption, NEW s, Good(s)
  PROVE  Passing(s, SwapWriteMode(s))
<1> DEFINE t == SwapWriteMode(s)
           u == Through(Unschedule, s, Slots(NumBanks))
           bus == TURN_AROUND_TIME + IF s.active_request = None THEN 0
                                     ELSE s.bank_request[s.active_request].wait
<1>1. CASE ~ Unbalanced(s)
  <2>1. t = s  BY <1>1 DEF SwapWriteMode
  <2>2. Passing(s, s)  BY DEF Passing, NoMore
  <2>3. QED  BY <2>1, <2>2
<1>2. CASE Unbalanced(s)
  <2>1. t = [u EXCEPT !.dbus = bus, !.write_mode = ~ u.write_mode]
    BY <1>2 DEF SwapWriteMode
  <2>2. Passing(s, u)  BY AllUnscheduled
  <2> HIDE DEF u, t, bus
  <2>3. Good(u) /\ Typed(u)  BY <2>2 DEF Passing, Good
  <2>4. /\ Shaped(t) /\ t.RQ = u.RQ /\ t.WQ = u.WQ /\ t.bank_request = u.bank_request
        /\ t.active_request = u.active_request /\ t.warmup = u.warmup
        /\ t.upRQ = u.upRQ /\ t.upWQ = u.upWQ /\ t.answers = u.answers
    BY <2>1, <2>3 DEF Typed, Shaped
  <2>5. t.write_mode \in BOOLEAN
    <3>1. PICK m \in BOOLEAN : m = ~ u.write_mode  BY <2>3 DEF Typed
    <3>2. t = [u EXCEPT !.dbus = bus, !.write_mode = m]  BY <2>1, <3>1
    <3>3. t.write_mode = m  BY <2>3, <3>2 DEF Typed, Shaped
    <3>4. QED  BY <3>3
  <2>6. Typed(t)  BY <2>3, <2>4, <2>5 DEF Typed
  <2>7. Passing(u, t)  BY <2>3, <2>4, <2>6, AsidePasses
  <2>8. QED  BY <2>2, <2>7, PassingOn DEF t
<1>3. QED  BY <1>1, <1>2

-----------------------------------------------------------------------------
(* Refreshes *)

\* What RefreshBank leaves alone, and that it keeps a bank a bank.
SameTask(b, d) == IsBank(d) /\ d.valid = b.valid /\ d.write = b.write /\ d.slot = b.slot

LEMMA BankNeeds ==
  ASSUME NEW b, IsBank(b), NEW n
  PROVE  LET d == [b EXCEPT !.need_refresh = n]
         IN  SameTask(b, d) /\ d.need_refresh = n /\ d.under_refresh = b.under_refresh
<1> DEFINE d == [b EXCEPT !.need_refresh = n]
<1>1. d = [valid |-> b.valid, need_refresh |-> n, under_refresh |-> b.under_refresh,
           open_row |-> b.open_row, wait |-> b.wait, write |-> b.write, slot |-> b.slot]
  BY DEF IsBank
<1> HIDE DEF d
<1>2. /\ d.valid = b.valid /\ d.write = b.write /\ d.slot = b.slot /\ d.wait = b.wait
      /\ d.need_refresh = n /\ d.under_refresh = b.under_refresh /\ d.open_row = b.open_row
  BY <1>1
<1>3. IsBank(d)  BY <1>1, <1>2 DEF IsBank
<1>4. QED  BY <1>2, <1>3 DEF d, SameTask

LEMMA BankUnder ==
  ASSUME NEW b, IsBank(b), NEW n
  PROVE  LET d == [b EXCEPT !.under_refresh = n]
         IN  SameTask(b, d) /\ d.need_refresh = b.need_refresh /\ d.under_refresh = n
<1> DEFINE d == [b EXCEPT !.under_refresh = n]
<1>1. d = [valid |-> b.valid, need_refresh |-> b.need_refresh, under_refresh |-> n,
           open_row |-> b.open_row, wait |-> b.wait, write |-> b.write, slot |-> b.slot]
  BY DEF IsBank
<1> HIDE DEF d
<1>2. /\ d.valid = b.valid /\ d.write = b.write /\ d.slot = b.slot /\ d.wait = b.wait
      /\ d.need_refresh = b.need_refresh /\ d.under_refresh = n /\ d.open_row = b.open_row
  BY <1>1
<1>3. IsBank(d)  BY <1>1, <1>2 DEF IsBank
<1>4. QED  BY <1>2, <1>3 DEF d, SameTask

LEMMA BankOpens ==
  ASSUME NEW b, IsBank(b), NEW row
  PROVE  LET d == [b EXCEPT !.open_row = row]
         IN  SameTask(b, d) /\ d.need_refresh = b.need_refresh
             /\ d.under_refresh = b.under_refresh
<1> DEFINE d == [b EXCEPT !.open_row = row]
<1>1. d = [valid |-> b.valid, need_refresh |-> b.need_refresh, under_refresh |-> b.under_refresh,
           open_row |-> row, wait |-> b.wait, write |-> b.write, slot |-> b.slot]
  BY DEF IsBank
<1> HIDE DEF d
<1>2. /\ d.valid = b.valid /\ d.write = b.write /\ d.slot = b.slot /\ d.wait = b.wait
      /\ d.need_refresh = b.need_refresh /\ d.under_refresh = b.under_refresh /\ d.open_row = row
  BY <1>1
<1>3. IsBank(d)  BY <1>1, <1>2 DEF IsBank
<1>4. QED  BY <1>2, <1>3 DEF d, SameTask

LEMMA BankWaits ==
  ASSUME NEW b, IsBank(b), NEW n
  PROVE  LET d == [b EXCEPT !.wait = n]
         IN  SameTask(b, d) /\ d.need_refresh = b.need_refresh
             /\ d.under_refresh = b.under_refresh
<1> DEFINE d == [b EXCEPT !.wait = n]
<1>1. d = [valid |-> b.valid, need_refresh |-> b.need_refresh, under_refresh |-> b.under_refresh,
           open_row |-> b.open_row, wait |-> n, write |-> b.write, slot |-> b.slot]
  BY DEF IsBank
<1> HIDE DEF d
<1>2. /\ d.valid = b.valid /\ d.write = b.write /\ d.slot = b.slot /\ d.wait = n
      /\ d.need_refresh = b.need_refresh /\ d.under_refresh = b.under_refresh
      /\ d.open_row = b.open_row
  BY <1>1
<1>3. IsBank(d)  BY <1>1, <1>2 DEF IsBank
<1>4. QED  BY <1>2, <1>3 DEF d, SameTask

LEMMA RefreshedBank ==
  ASSUME NEW b, IsBank(b), NEW due \in BOOLEAN
  PROVE  LET d == RefreshBank(b, due)
         IN  /\ SameTask(b, d)
             /\ d.need_refresh => d.valid
             /\ d.under_refresh /\ d.valid => b.under_refresh
<1> DEFINE need == b.need_refresh \/ due
           d == RefreshBank(b, due)
<1>1. PICK n \in BOOLEAN : n = need  OBVIOUS
<1>2. PICK no \in BOOLEAN : no = FALSE  OBVIOUS
<1>3. PICK yes \in BOOLEAN : yes = TRUE  OBVIOUS
<1>4. CASE need /\ ~ b.valid
  <2> DEFINE b1 == [b EXCEPT !.wait = tRFC]
             b2 == [b1 EXCEPT !.need_refresh = no]
             b3 == [b2 EXCEPT !.under_refresh = yes]
  <2>1. d = [b EXCEPT !.wait = tRFC, !.need_refresh = FALSE, !.under_refresh = TRUE]
    BY <1>4 DEF RefreshBank
  <2>2. d = [b EXCEPT !.wait = tRFC, !.need_refresh = no, !.under_refresh = yes]
    BY <1>2, <1>3, <2>1
  <2>3. d = b3
    <3> HIDE DEF d
    <3>1. QED  BY <2>2
  <2>4. SameTask(b, b1)  BY BankWaits
  <2> HIDE DEF b1
  <2>5. SameTask(b1, b2) /\ b2.need_refresh = no  BY <2>4, BankNeeds DEF SameTask
  <2> HIDE DEF b2
  <2>6. SameTask(b2, b3) /\ b3.need_refresh = b2.need_refresh  BY <2>5, BankUnder DEF SameTask
  <2> HIDE DEF b3, d
  <2>7. QED  BY <1>2, <1>4, <2>3, <2>4, <2>5, <2>6 DEF SameTask, d
<1>5. CASE ~ (need /\ ~ b.valid) /\ b.under_refresh /\ b.wait = 0
  <2> DEFINE b1 == [b EXCEPT !.need_refresh = n]
             b2 == [b1 EXCEPT !.under_refresh = no]
             b3 == [b2 EXCEPT !.open_row = NoRow]
  <2>1. d = [b EXCEPT !.need_refresh = need, !.under_refresh = FALSE, !.open_row = NoRow]
    BY <1>5 DEF RefreshBank
  <2>2. d = [b EXCEPT !.need_refresh = n, !.under_refresh = no, !.open_row = NoRow]
    BY <1>1, <1>2, <2>1
  <2>3. d = b3
    <3> HIDE DEF d
    <3>1. QED  BY <2>2
  <2>4. SameTask(b, b1) /\ b1.need_refresh = n  BY BankNeeds
  <2> HIDE DEF b1
  <2>5. SameTask(b1, b2) /\ b2.need_refresh = b1.need_refresh /\ b2.under_refresh = no
    BY <2>4, BankUnder DEF SameTask
  <2> HIDE DEF b2
  <2>6. SameTask(b2, b3) /\ b3.need_refresh = b2.need_refresh /\ b3.under_refresh = b2.under_refresh
    BY <2>5, BankOpens DEF SameTask
  <2> HIDE DEF b3, d
  <2>7. QED  BY <1>1, <1>2, <1>5, <2>3, <2>4, <2>5, <2>6 DEF SameTask, d
<1>6. CASE ~ (need /\ ~ b.valid) /\ ~ (b.under_refresh /\ b.wait = 0)
  <2> DEFINE b1 == [b EXCEPT !.need_refresh = n]
  <2>1. d = [b EXCEPT !.need_refresh = need]  BY <1>6 DEF RefreshBank
  <2>2. d = b1  BY <1>1, <2>1
  <2>3. SameTask(b, b1) /\ b1.need_refresh = n /\ b1.under_refresh = b.under_refresh
    BY BankNeeds
  <2> HIDE DEF b1, d
  <2>4. QED  BY <1>1, <1>6, <2>2, <2>3 DEF SameTask, d
<1>7. QED  BY <1>4, <1>5, <1>6

LEMMA RefreshGood ==
  ASSUME DramAssumption, NEW s, Good(s)
  PROVE  Passing(s, ScheduleRefresh(s)) /\ Waiting(ScheduleRefresh(s))
<1> DEFINE t == ScheduleRefresh(s)
           banks == [k \in Banks |-> RefreshBank(s.bank_request[k], s.refresh = 0)]
           refresh == IF s.refresh = 0 THEN tREF ELSE s.refresh
<1>0. Typed(s)  BY DEF Good
<1>1. t = [s EXCEPT !.refresh = refresh, !.bank_request = banks]  BY DEF ScheduleRefresh
<1>2. ASSUME NEW k \in Banks
      PROVE  /\ SameTask(s.bank_request[k], banks[k])
             /\ banks[k].need_refresh => banks[k].valid
             /\ banks[k].under_refresh /\ banks[k].valid => s.bank_request[k].under_refresh
  <2>1. PICK due \in BOOLEAN : due = (s.refresh = 0)  OBVIOUS
  <2> DEFINE b == s.bank_request[k]
             d == RefreshBank(b, due)
  <2>2. IsBank(b)  BY <1>0 DEF Typed
  <2>3. /\ SameTask(b, d)
        /\ d.need_refresh => d.valid
        /\ d.under_refresh /\ d.valid => b.under_refresh
    <3> HIDE DEF b
    <3>1. QED  BY <2>2, RefreshedBank
  <2>4. banks[k] = d  BY <2>1
  <2> HIDE DEF banks, d
  <2>5. QED  BY <2>3, <2>4
<1>3. banks = [k \in Banks |-> banks[k]]  OBVIOUS
<1> HIDE DEF t, banks, refresh
<1>4. /\ Shaped(t) /\ t.bank_request = banks /\ t.RQ = s.RQ /\ t.WQ = s.WQ
      /\ t.active_request = s.active_request /\ t.warmup = s.warmup
      /\ t.write_mode = s.write_mode
      /\ t.upRQ = s.upRQ /\ t.upWQ = s.upWQ /\ t.answers = s.answers
  BY <1>0, <1>1 DEF Typed, Shaped
<1>5. Typed(t)  BY <1>0, <1>2, <1>3, <1>4 DEF Typed, SameTask
<1>6. \A x : Queue(t, x) = Queue(s, x)  BY <1>4 DEF Queue
<1>7. SameWork(s, t)  BY <1>2, <1>4, <1>6 DEF SameWork, SameTask, Scheduled
<1>8. Agree(t)  BY <1>7, AgreeKept DEF Good
<1>9. Excluded(t)  BY <1>2, <1>4 DEF Excluded, Good, SameTask
<1>10. Cold(t)  BY <1>2, <1>4 DEF Cold, Good, SameTask
<1>11. Good(t)  BY <1>5, <1>8, <1>9, <1>10 DEF Good
<1>12. NoMore(s, t)  BY <1>4, <1>6 DEF NoMore
<1>13. SameReaders(s, t)  BY <1>4 DEF SameReaders, Holds
<1>14. Waiting(t)  BY <1>2, <1>4 DEF Waiting
<1>15. QED  BY <1>4, <1>11, <1>12, <1>13, <1>14, OnceKept DEF Passing, t

-----------------------------------------------------------------------------
(* The bank and the slot that are chosen *)

ChoosingBank(k, u, i) == IF ReadySooner(k, i, u) THEN i ELSE u
IsChosenBank(k, u, n) == u \in Banks
BankChoice == INSTANCE StageLemmas WITH Op <- ChoosingBank, Inv <- IsChosenBank

LEMMA TailOfSlots ==
  ASSUME NEW n \in Nat \ {0}
  PROVE  /\ Head(Slots(n)) = 1 /\ Len(Tail(Slots(n))) = n - 1
         /\ \A i \in 1 .. n - 1 : Tail(Slots(n))[i] = i + 1
<1>1. Slots(n) \in Seq(Nat) /\ Len(Slots(n)) = n /\ \A i \in 1 .. n : Slots(n)[i] = i
  BY DEF Slots
<1> DEFINE q == Slots(n)
<1> HIDE DEF q
<1>2. q \in Seq(Nat) /\ Len(q) = n /\ \A i \in 1 .. n : q[i] = i  BY <1>1 DEF q
<1>3. q # << >>  BY <1>2
<1>4. Head(q) = 1 /\ Len(Tail(q)) = n - 1 /\ \A i \in 1 .. n - 1 : Tail(q)[i] = i + 1
  BY <1>2, <1>3
<1>5. QED  BY <1>4 DEF q

LEMMA ChosenBank ==
  ASSUME DramAssumption, NEW s
  PROVE  FirstReady(s) \in Banks
<1> DEFINE h == Head(Slots(NumBanks))
           q == Tail(Slots(NumBanks))
<1>1. NumBanks \in Nat \ {0}  BY DEF DramAssumption
<1>2. h = 1 /\ Len(q) = NumBanks - 1 /\ \A i \in 1 .. NumBanks - 1 : q[i] = i + 1
  BY <1>1, TailOfSlots
<1>3. FirstReady(s) = BankChoice!Carried(s, h, q)
  BY Zenon DEF BankChoice!Carried, BankChoice!Steps, MinElement, Through, ChoosingBank, FirstReady
<1> HIDE DEF h, q
<1>4. Len(q) \in Nat /\ IsChosenBank(s, h, 0)  BY <1>1, <1>2 DEF IsChosenBank, Banks
<1>5. ASSUME NEW i \in 1 .. Len(q), NEW u, IsChosenBank(s, u, i - 1)
      PROVE  IsChosenBank(s, ChoosingBank(s, u, q[i]), i)
  <2>1. q[i] \in Banks  BY <1>1, <1>2 DEF Banks
  <2>2. QED  BY <1>5, <2>1 DEF IsChosenBank, ChoosingBank
<1>6. IsChosenBank(s, BankChoice!Carried(s, h, q), Len(q))
  BY <1>4, <1>5, BankChoice!Kept
<1>7. QED  BY <1>3, <1>6 DEF IsChosenBank

ChoosingSlot(k, u, i) == IF ScheduledSooner(k, i, u) THEN i ELSE u
IsChosenSlot(k, u, n) == u \in 1 .. Size(k.write_mode)
SlotChoice == INSTANCE StageLemmas WITH Op <- ChoosingSlot, Inv <- IsChosenSlot

LEMMA ChosenSlot ==
  ASSUME DramAssumption, NEW s, Typed(s)
  PROVE  SchedulePacket(s) \in 1 .. Size(s.write_mode)
<1> DEFINE m == Len(Queue(s, s.write_mode))
           h == Head(Slots(m))
           q == Tail(Slots(m))
<1>1. m = Size(s.write_mode) /\ m \in Nat \ {0}
  <2>1. RQ_SIZE \in Nat \ {0} /\ WQ_SIZE \in Nat \ {0}  BY DEF DramAssumption
  <2>2. s.RQ = [i \in 1 .. RQ_SIZE |-> s.RQ[i]] /\ s.WQ = [i \in 1 .. WQ_SIZE |-> s.WQ[i]]
    BY DEF Typed, IsQueue
  <2>3. Len(s.RQ) = RQ_SIZE  BY <2>1, <2>2
  <2>4. Len(s.WQ) = WQ_SIZE  BY <2>1, <2>2
  <2>5. QED  BY <2>1, <2>3, <2>4 DEF Size, Queue
<1>2. h = 1 /\ Len(q) = m - 1 /\ \A i \in 1 .. m - 1 : q[i] = i + 1
  <2> HIDE DEF m
  <2>1. QED  BY <1>1, TailOfSlots
<1>3. SchedulePacket(s) = SlotChoice!Carried(s, h, q)
  BY Zenon DEF SlotChoice!Carried, SlotChoice!Steps, MinElement, Through, ChoosingSlot, SchedulePacket
<1> HIDE DEF h, q, m
<1>4. Len(q) \in Nat /\ IsChosenSlot(s, h, 0)  BY <1>1, <1>2 DEF IsChosenSlot
<1>5. ASSUME NEW i \in 1 .. Len(q), NEW u, IsChosenSlot(s, u, i - 1)
      PROVE  IsChosenSlot(s, ChoosingSlot(s, u, q[i]), i)
  <2>1. q[i] \in 1 .. Size(s.write_mode)  BY <1>1, <1>2
  <2>2. QED  BY <1>5, <2>1 DEF IsChosenSlot, ChoosingSlot
<1>6. IsChosenSlot(s, SlotChoice!Carried(s, h, q), Len(q))
  BY <1>4, <1>5, SlotChoice!Kept
<1>7. QED  BY <1>3, <1>6 DEF IsChosenSlot

-----------------------------------------------------------------------------
(* The data bus, and the scheduling of a packet *)

LEMMA PopulateGood ==
  ASSUME DramAssumption, NEW s, Good(s), Waiting(s)
  PROVE  Passing(s, PopulateDbus(s)) /\ Waiting(PopulateDbus(s))
<1> DEFINE t == PopulateDbus(s)
           next == FirstReady(s)
           group == Bankgroup(next)
           b == s.bank_request[next]
           time == s.bankgroup[group] + RETURN_TIME
           f == [b EXCEPT !.wait = time]
           v == BankTo(s, next, f)
           groups == [s.bankgroup EXCEPT ![group] = RETURN_TIME + BANKGROUP_STALL]
<1>0. Typed(s)  BY DEF Good
<1>1. next \in Banks  BY ChosenBank
<1>2. CASE ~ (b.valid /\ b.wait = 0 /\ s.active_request = None /\ s.dbus = 0)
  <2>1. t = s  BY <1>2 DEF PopulateDbus
  <2>2. Passing(s, s)  BY DEF Passing, NoMore
  <2> HIDE DEF t
  <2>3. QED  BY <2>1, <2>2 DEF t
<1>3. CASE b.valid /\ b.wait = 0 /\ s.active_request = None /\ s.dbus = 0
  <2>1. t = [s EXCEPT !.active_request = next, !.bank_request[next].wait = time,
                      !.bankgroup[group] = RETURN_TIME + BANKGROUP_STALL]
    BY <1>3 DEF PopulateDbus
  <2> HIDE DEF next, group, time, t
  <2>2. t = [v EXCEPT !.active_request = next, !.bankgroup = groups]
    BY <1>0, <1>1, <2>1 DEF BankTo, Typed, Shaped
  <2>3. IsBank(b)  BY <1>0, <1>1 DEF Typed
  <2>4. SameTask(b, f) /\ f.need_refresh = b.need_refresh /\ f.under_refresh = b.under_refresh
    <3> HIDE DEF b
    <3>1. QED  BY <2>3, BankWaits
  <2> HIDE DEF f
  <2>5. BankSet(s, v, next, f)  BY <1>0, <1>1, <2>4, SetBank DEF SameTask
  <2> HIDE DEF v, groups
  <2>6. /\ Shaped(t) /\ t.active_request = next
        /\ t.RQ = v.RQ /\ t.WQ = v.WQ /\ t.bank_request = v.bank_request /\ t.warmup = v.warmup
        /\ t.write_mode = v.write_mode /\ t.upRQ = v.upRQ /\ t.upWQ = v.upWQ
        /\ t.answers = v.answers
    BY <2>2, <2>5 DEF BankSet, Typed, Shaped
  <2>7. Typed(t)  BY <1>1, <2>5, <2>6 DEF BankSet, Typed
  <2>8. \A x : Queue(t, x) = Queue(s, x)  BY <2>5, <2>6 DEF BankSet, Queue
  <2>9. \A l \in Banks : t.bank_request[l] = IF l = next THEN f ELSE s.bank_request[l]
    BY <2>5, <2>6 DEF BankSet
  <2>10. SameWork(s, t)
    <3>1. \A k \in Banks : /\ t.bank_request[k].valid = s.bank_request[k].valid
                           /\ t.bank_request[k].write = s.bank_request[k].write
                           /\ t.bank_request[k].slot = s.bank_request[k].slot
      BY <2>4, <2>9 DEF SameTask
    <3>2. t.bank_request[t.active_request].valid  BY <1>1, <1>3, <2>6, <3>1
    <3>3. \A write \in BOOLEAN : \A i \in 1 .. Size(write) :
            /\ Scheduled(t, write, i) <=> Scheduled(s, write, i)
            /\ Queue(t, write)[i] = Queue(s, write)[i]
      BY <2>8 DEF Scheduled
    <3>4. QED  BY <3>1, <3>2, <3>3 DEF SameWork
  <2>11. t.warmup = s.warmup /\ t.upWQ = s.upWQ /\ t.upRQ = s.upRQ /\ t.RQ = s.RQ
         /\ t.answers = s.answers
    BY <2>5, <2>6 DEF BankSet
  <2>12. \A k \in Banks : t.bank_request[k].under_refresh = s.bank_request[k].under_refresh
    BY <2>4, <2>9
  <2>13. Good(t)  BY <2>7, <2>10, <2>11, <2>12, GoodKept
  <2>14. NoMore(s, t)  BY <2>8, <2>11 DEF NoMore
  <2>15. SameReaders(s, t)  BY <2>11 DEF SameReaders, Holds
  <2>16. Waiting(t)  BY <2>4, <2>9 DEF Waiting, SameTask
  <2>17. QED  BY <2>11, <2>13, <2>14, <2>15, <2>16, OnceKept DEF Passing, t
<1>4. QED  BY <1>2, <1>3

\* In the warmup the queues are empty.
Idle(s) == s.warmup => \A write \in BOOLEAN : \A i \in 1 .. Size(write) : Queue(s, write)[i] = Free

LEMMA ScheduledPacket ==
  ASSUME NEW e, NEW ids, IsPacket(e, ids)
  PROVE  LET d == [e EXCEPT !.scheduled = TRUE, !.age = 0]
         IN  /\ IsPacket(d, ids) /\ d.block = e.block /\ d.ids = e.ids
             /\ d.scheduled /\ d.forward_checked = e.forward_checked
<1>1. PICK v : v = TRUE  OBVIOUS
<1> DEFINE f == [e EXCEPT !.scheduled = v, !.age = 0]
           d == [e EXCEPT !.scheduled = TRUE, !.age = 0]
<1>2. /\ IsPacket(f, ids) /\ f.block = e.block /\ f.ids = e.ids
      /\ f.scheduled = v /\ f.forward_checked = e.forward_checked
  BY MarkedPacket
<1>3. f = d  BY <1>1
<1> HIDE DEF f, d
<1>4. QED  BY <1>1, <1>2, <1>3 DEF d

LEMMA ServiceGood ==
  ASSUME DramAssumption, NEW s, Good(s), Waiting(s), Checked(s), Idle(s),
         NEW slot \in 1 .. Size(s.write_mode)
  PROVE  Passing(s, ServicePacket(s, slot)) /\ Waiting(ServicePacket(s, slot))
<1> DEFINE t == ServicePacket(s, slot)
           mode == s.write_mode
           e == Queue(s, mode)[slot]
           k == Bank(e.block)
           b == s.bank_request[k]
           charge == IF b.open_row = Row(e.block) THEN 0
                     ELSE IF b.open_row = NoRow THEN tRCD ELSE tRP + tRCD
           row == Row(e.block)
           time == tCAS + charge
           busy == [valid |-> TRUE, need_refresh |-> FALSE, under_refresh |-> FALSE,
                    open_row |-> row, wait |-> time, write |-> mode, slot |-> slot]
           v == BankTo(s, k, busy)
           d == [e EXCEPT !.scheduled = TRUE, !.age = 0]
           ids == IF mode THEN {} ELSE Ids
<1>0. Typed(s) /\ Agree(s) /\ mode \in BOOLEAN  BY DEF Good, Typed
<1>1. CASE e = Free \/ e.scheduled \/ b.valid \/ b.under_refresh
  <2>1. t = s  BY <1>1 DEF ServicePacket
  <2>2. Passing(s, s)  BY DEF Passing, NoMore
  <2> HIDE DEF t
  <2>3. QED  BY <2>1, <2>2 DEF t
<1>2. CASE ~ (e = Free \/ e.scheduled \/ b.valid \/ b.under_refresh)
  <2>1. t = SetPkt(v, mode, slot, d)
    BY <1>2 DEF ServicePacket, BankTo
  <2>2. IsPacket(e, ids)
    BY <1>0, <1>2 DEF Typed, IsQueue, Queue, Size
  <2>3. k \in Banks
    <3>1. e.block \in Blocks  BY <2>2 DEF IsPacket
    <3>2. QED  BY <3>1 DEF DramAssumption, Blocks
  <2>4. IsBank(busy) /\ busy.valid /\ ~ busy.need_refresh /\ ~ busy.under_refresh
        /\ busy.write = mode /\ busy.slot = slot
    <3> HIDE DEF row, time, mode
    <3>1. busy.write = mode /\ busy.slot = slot /\ busy.open_row = row /\ busy.wait = time
      OBVIOUS
    <3>2. busy.valid = TRUE /\ busy.need_refresh = FALSE /\ busy.under_refresh = FALSE
      OBVIOUS
    <3>3. busy = [valid |-> busy.valid, need_refresh |-> busy.need_refresh,
                  under_refresh |-> busy.under_refresh, open_row |-> busy.open_row,
                  wait |-> busy.wait, write |-> busy.write, slot |-> busy.slot]
      OBVIOUS
    <3>4. IsBank(busy)
      <4> HIDE DEF busy
      <4>1. QED  BY <1>0, <3>1, <3>3 DEF IsBank
    <3>5. QED  BY <3>1, <3>2, <3>4
  <2>5. /\ IsPacket(d, ids) /\ d.block = e.block /\ d.ids = e.ids
        /\ d.scheduled /\ d.forward_checked = e.forward_checked
    <3> HIDE DEF e, ids
    <3>1. QED  BY <2>2, ScheduledPacket
  <2>6. e.forward_checked /\ ~ s.warmup
    BY <1>0, <1>2 DEF Checked, Idle
  <2> HIDE DEF busy, d
  <2>7. BankSet(s, v, k, busy)  BY <1>0, <2>3, <2>4, SetBank
  <2> HIDE DEF v
  <2>8. d # Free  BY <2>5, FreeIsNoPacket
  <2>9. /\ Typed(t) /\ t.bank_request = v.bank_request /\ t.active_request = v.active_request
        /\ t.warmup = v.warmup /\ t.upRQ = v.upRQ /\ t.upWQ = v.upWQ /\ t.answers = v.answers
        /\ \A x \in BOOLEAN : \A j \in 1 .. Size(x) :
             Queue(t, x)[j] = IF x = mode /\ j = slot THEN d ELSE Queue(v, x)[j]
    <3>1. Typed(v)  BY <2>7 DEF BankSet
    <3> HIDE DEF t, e
    <3>2. QED  BY <1>0, <2>1, <2>5, <3>1, SetPktSlot
  <2> HIDE DEF t
  <2>10. \A x : Queue(v, x) = Queue(s, x)  BY <2>7 DEF BankSet, Queue
  <2>11. \A x \in BOOLEAN : \A j \in 1 .. Size(x) :
           Queue(t, x)[j] = IF x = mode /\ j = slot THEN d ELSE Queue(s, x)[j]
    BY <2>9, <2>10
  <2>12. \A l \in Banks : t.bank_request[l] = IF l = k THEN busy ELSE s.bank_request[l]
    BY <2>7, <2>9 DEF BankSet
  <2>13. Queue(t, mode)[slot] = d  BY <1>0, <2>11
  <2> HIDE DEF k, e
  <2>14. ASSUME NEW l \in Banks, t.bank_request[l].valid
         PROVE  LET a == t.bank_request[l]
                IN  /\ a.slot \in 1 .. Size(a.write)
                    /\ Scheduled(t, a.write, a.slot)
                    /\ Bank(PktOf(t, a).block) = l
    <3>1. CASE l = k
      <4>1. t.bank_request[l] = busy  BY <2>12, <3>1
      <4>2. Scheduled(t, mode, slot)  BY <2>5, <2>8, <2>13 DEF Scheduled
      <4>3. PktOf(t, busy) = d  BY <2>4, <2>13 DEF PktOf
      <4>4. QED  BY <2>4, <2>5, <3>1, <4>1, <4>2, <4>3 DEF k
    <3>2. CASE l # k
      <4> DEFINE a == s.bank_request[l]
      <4>1. t.bank_request[l] = a /\ a.write \in BOOLEAN
        BY <1>0, <2>12, <3>2 DEF Typed, IsBank
      <4>2. a.slot \in 1 .. Size(a.write) /\ Scheduled(s, a.write, a.slot)
            /\ Bank(PktOf(s, a).block) = l
        BY <1>0, <2>14, <4>1 DEF Agree
      <4>3. ~ (a.write = mode /\ a.slot = slot)  BY <1>2, <4>2 DEF Scheduled, e
      <4>4. Queue(t, a.write)[a.slot] = Queue(s, a.write)[a.slot]
        BY <2>11, <4>1, <4>2, <4>3
      <4>5. QED  BY <4>1, <4>2, <4>4 DEF Scheduled, PktOf
    <3>3. QED  BY <3>1, <3>2
  <2>15. ASSUME NEW x \in BOOLEAN, NEW i \in 1 .. Size(x), Scheduled(t, x, i)
         PROVE  LET p == Queue(t, x)[i]
                    a == t.bank_request[Bank(p.block)]
                IN  p.forward_checked /\ a.valid /\ a.write = x /\ a.slot = i
    <3>1. CASE x = mode /\ i = slot
      <4>1. Queue(t, x)[i] = d /\ Bank(d.block) = k  BY <2>5, <2>13, <3>1 DEF k
      <4>2. t.bank_request[k] = busy  BY <2>3, <2>12
      <4>3. QED  BY <2>4, <2>5, <2>6, <3>1, <4>1, <4>2
    <3>2. CASE ~ (x = mode /\ i = slot)
      <4> DEFINE p == Queue(s, x)[i]
                 l == Bank(p.block)
      <4>1. Queue(t, x)[i] = p  BY <2>11, <3>2
      <4>2. Scheduled(s, x, i)  BY <2>15, <4>1 DEF Scheduled
      <4>3. p.forward_checked /\ s.bank_request[l].valid /\ s.bank_request[l].write = x
            /\ s.bank_request[l].slot = i
        BY <1>0, <4>2 DEF Agree
      <4>4. l \in Banks
        <5>1. p.block \in Blocks
          BY <1>0, <4>2 DEF Scheduled, Typed, IsQueue, IsPacket, Queue, Size
        <5>2. QED  BY <5>1 DEF DramAssumption, Blocks
      <4>5. l # k  BY <1>2, <4>3
      <4>6. QED  BY <2>12, <4>1, <4>3, <4>4, <4>5
    <3>3. QED  BY <3>1, <3>2
  <2>16. t.active_request # None => t.bank_request[t.active_request].valid
    <3>1. t.active_request = s.active_request  BY <2>7, <2>9 DEF BankSet
    <3>2. s.active_request # None =>
            s.active_request \in Banks /\ s.bank_request[s.active_request].valid
      BY <1>0 DEF Agree, Typed
    <3>3. QED  BY <2>4, <2>12, <3>1, <3>2
  <2>17. Agree(t)  BY <2>14, <2>15, <2>16 DEF Agree
  <2>18. t.warmup = s.warmup /\ t.upWQ = s.upWQ /\ t.upRQ = s.upRQ /\ t.answers = s.answers
    BY <2>7, <2>9 DEF BankSet
  <2>19. Excluded(t)  BY <2>4, <2>12 DEF Excluded, Good
  <2>20. Cold(t)  BY <2>6, <2>18 DEF Cold
  <2>21. Good(t)  BY <2>9, <2>17, <2>19, <2>20 DEF Good
  <2>22. NoMore(s, t)  BY <1>2, <2>5, <2>11, <2>18 DEF NoMore, e
  <2>23. SameReaders(s, t)
    <3>1. \A j \in 1 .. RQ_SIZE : t.RQ[j] = IF mode = FALSE /\ j = slot THEN d ELSE s.RQ[j]
      BY <1>0, <2>11 DEF Queue, Size
    <3>2. mode = FALSE => e = s.RQ[slot]  BY DEF Queue, e
    <3>3. \A j \in 1 .. RQ_SIZE : \A id : Holds(t, j, id) <=> Holds(s, j, id)
      BY <1>2, <2>5, <2>8, <3>1, <3>2 DEF Holds
    <3>4. QED  BY <2>18, <3>3 DEF SameReaders
  <2>24. Waiting(t)  BY <2>4, <2>12 DEF Waiting
  <2>25. QED  BY <2>18, <2>21, <2>22, <2>23, <2>24, OnceKept DEF Passing, t
<1>3. QED  BY <1>1, <1>2

-----------------------------------------------------------------------------
(* A cycle *)

\* The stages up to the checks, and those after them.
Arriving(s) == CheckCollisions(Warm(InitiateRequests(Elapse(s))))
Turning(s) == SwapWriteMode(FinishDbusRequest(s))
Loading(s) == PopulateDbus(ScheduleRefresh(s))
Serving(s) == ServicePacket(s, SchedulePacket(s))

LEMMA NothingBlocks ==
  ASSUME NEW q, NEW size, Blocking(q, size) = {}
  PROVE  \A i \in 1 .. size : q[i] = Free
BY DEF Blocking

LEMMA ArrivingGood ==
  ASSUME DramAssumption, NEW s, Good(s)
  PROVE  LET t == Arriving(s)
         IN  /\ Good(t) /\ Checked(t) /\ Idle(t) /\ t.warmup = s.warmup
             /\ \A id \in Ids : \A isAsked : Once(s, id, isAsked) => Once(t, id, isAsked)
             /\ ~ s.warmup => Elements(s.upWQ) \cup Blocking(s.WQ, WQ_SIZE)
                                \subseteq Elements(t.upWQ) \cup Blocking(t.WQ, WQ_SIZE)
<1> DEFINE s1 == Elapse(s)
           s2 == InitiateRequests(s1)
           s3 == Warm(s2)
           t == CheckCollisions(s3)
<1>1. /\ Good(s1) /\ SameReaders(s, s1) /\ s1.upWQ = s.upWQ /\ s1.warmup = s.warmup
      /\ Blocking(s1.WQ, WQ_SIZE) = Blocking(s.WQ, WQ_SIZE)
  BY ElapseGood
<1>2. Arriving(s) = t  BY DEF Arriving
<1> HIDE DEF s1
<1>3. Typed(s1)  BY <1>1 DEF Good
<1>4. /\ Good(s2) /\ s2.warmup = s1.warmup
      /\ \A id, isAsked : Once(s1, id, isAsked) => Once(s2, id, isAsked)
      /\ Elements(s1.upWQ) \cup Blocking(s1.WQ, WQ_SIZE)
           \subseteq Elements(s2.upWQ) \cup Blocking(s2.WQ, WQ_SIZE)
  BY <1>1, <1>3, InitiateGood, InitiateOnce, InitiateWrites
<1> HIDE DEF s2
<1>5. /\ Good(s3) /\ s3.warmup = s2.warmup
      /\ ~ s2.warmup => s3 = s2
      /\ s2.warmup => /\ \A i \in 1 .. RQ_SIZE : s3.RQ[i] = Free
                      /\ \A i \in 1 .. WQ_SIZE : s3.WQ[i] = Free
      /\ \A id \in Ids : \A isAsked : Once(s2, id, isAsked) => Once(s3, id, isAsked)
  BY <1>4, WarmGood
<1> HIDE DEF s3
<1>6. /\ Good(t) /\ Checked(t) /\ t.warmup = s3.warmup
      /\ t.upRQ = s3.upRQ /\ t.upWQ = s3.upWQ
      /\ Blocking(t.WQ, WQ_SIZE) = Blocking(s3.WQ, WQ_SIZE)
      /\ \A i \in 1 .. RQ_SIZE : t.RQ[i] # Free => s3.RQ[i] # Free
      /\ \A id \in Ids : \A isAsked : Once(s3, id, isAsked) => Once(t, id, isAsked)
  BY <1>5, CollisionsGood
<1> HIDE DEF t
<1>7. Idle(t)
  <2>1. SUFFICES ASSUME t.warmup
                 PROVE  /\ \A i \in 1 .. RQ_SIZE : t.RQ[i] = Free
                        /\ \A i \in 1 .. WQ_SIZE : t.WQ[i] = Free
    BY DEF Idle, Queue, Size
  <2>2. /\ \A i \in 1 .. RQ_SIZE : s3.RQ[i] = Free
        /\ \A i \in 1 .. WQ_SIZE : s3.WQ[i] = Free
    BY <1>5, <1>6, <2>1
  <2>3. Blocking(s3.WQ, WQ_SIZE) = {}  BY <2>2 DEF Blocking
  <2>4. Blocking(t.WQ, WQ_SIZE) = {}  BY <1>6, <2>3
  <2>5. \A i \in 1 .. WQ_SIZE : t.WQ[i] = Free  BY <2>4, NothingBlocks
  <2>6. QED  BY <1>6, <2>2, <2>5
<1>8. \A id \in Ids : \A isAsked : Once(s, id, isAsked) => Once(t, id, isAsked)
  <2>1. \A id \in Ids : \A isAsked : Once(s, id, isAsked) => Once(s1, id, isAsked)
    BY <1>1, OnceKept
  <2>2. QED  BY <1>4, <1>5, <1>6, <2>1
<1>9. ~ s.warmup => Elements(s.upWQ) \cup Blocking(s.WQ, WQ_SIZE)
                      \subseteq Elements(t.upWQ) \cup Blocking(t.WQ, WQ_SIZE)
  <2>1. SUFFICES ASSUME ~ s.warmup
                 PROVE  Elements(s.upWQ) \cup Blocking(s.WQ, WQ_SIZE)
                          \subseteq Elements(t.upWQ) \cup Blocking(t.WQ, WQ_SIZE)
    OBVIOUS
  <2>2. s3 = s2  BY <1>1, <1>4, <1>5, <2>1
  <2>3. QED  BY <1>1, <1>4, <1>6, <2>2
<1>10. QED  BY <1>1, <1>2, <1>4, <1>5, <1>6, <1>7, <1>8, <1>9

LEMMA NoMoreKeeps ==
  ASSUME NEW s, NEW t, NoMore(s, t)
  PROVE  (Checked(s) => Checked(t)) /\ (Idle(s) => Idle(t))
BY DEF NoMore, Checked, Idle

LEMMA TurningGood ==
  ASSUME DramAssumption, NEW s, Good(s)
  PROVE  Passing(s, Turning(s))
<1> DEFINE s1 == FinishDbusRequest(s)
<1>1. Passing(s, s1)  BY FinishGood
<1>2. Good(s1)  BY <1>1 DEF Passing
<1> HIDE DEF s1
<1>3. Passing(s1, SwapWriteMode(s1))  BY <1>2, SwapGood
<1>4. QED  BY <1>1, <1>3, PassingOn DEF Turning, s1

LEMMA LoadingGood ==
  ASSUME DramAssumption, NEW s, Good(s)
  PROVE  Passing(s, Loading(s)) /\ Waiting(Loading(s))
<1> DEFINE s1 == ScheduleRefresh(s)
<1>1. Passing(s, s1) /\ Waiting(s1)  BY RefreshGood
<1>2. Good(s1)  BY <1>1 DEF Passing
<1> HIDE DEF s1
<1>3. Passing(s1, PopulateDbus(s1)) /\ Waiting(PopulateDbus(s1))  BY <1>1, <1>2, PopulateGood
<1>4. QED  BY <1>1, <1>3, PassingOn DEF Loading, s1

LEMMA CycleGood ==
  ASSUME DramAssumption, NEW s, Good(s), Checked(s), Idle(s)
  PROVE  LET t == Serving(Loading(Turning(s)))
         IN  Passing(s, t) /\ Waiting(t)
<1> DEFINE s1 == Turning(s)
           s2 == Loading(s1)
           t == Serving(s2)
<1>1. Passing(s, s1)  BY TurningGood
<1>2. Good(s1)  BY <1>1 DEF Passing
<1> HIDE DEF s1
<1>3. Passing(s1, s2) /\ Waiting(s2)  BY <1>2, LoadingGood
<1> HIDE DEF s2
<1>4. Passing(s, s2)  BY <1>1, <1>3, PassingOn
<1>5. Good(s2) /\ NoMore(s, s2) /\ Typed(s2)  BY <1>4 DEF Passing, Good
<1>6. Checked(s2) /\ Idle(s2)  BY <1>5, NoMoreKeeps
<1> DEFINE slot == SchedulePacket(s2)
<1>7. slot \in 1 .. Size(s2.write_mode)  BY <1>5, ChosenSlot
<1> HIDE DEF slot
<1>8. Passing(s2, ServicePacket(s2, slot)) /\ Waiting(ServicePacket(s2, slot))
  BY <1>3, <1>5, <1>6, <1>7, ServiceGood
<1>9. t = ServicePacket(s2, slot)  BY DEF Serving, slot
<1> HIDE DEF t
<1>10. Passing(s, t) /\ Waiting(t)  BY <1>4, <1>8, <1>9, PassingOn
<1>11. QED  BY <1>10 DEF t, s2, s1

\* A cycle, with the state s1 after the checks.
LEMMA OperateStates ==
  ASSUME Operate
  PROVE  LET s1 == Arriving(c)
             t == Serving(Loading(Turning(s1)))
             queued == {s1.WQ[i].block : i \in Used(s1.WQ)}
             left == {t.WQ[i].block : i \in Used(t.WQ)}
         IN  /\ c' = t
             /\ unwritten' = IF c.warmup THEN Elements(t.upWQ) ELSE unwritten \ (queued \ left)
             /\ asked' = asked
<1>1. PICK s1 \in {Arriving(c)} : \E s2 \in {Turning(s1)} : \E s3 \in {Loading(s2)} :
        \E s4 \in {Serving(s3)} :
          /\ c' = s4
          /\ LET queued == {s1.WQ[i].block : i \in Used(s1.WQ)}
                 left == {s4.WQ[i].block : i \in Used(s4.WQ)}
             IN  unwritten' = IF c.warmup THEN Elements(s4.upWQ) ELSE unwritten \ (queued \ left)
  BY Zenon DEF Operate, Arriving, Turning, Loading, Serving
<1>2. asked' = asked  BY DEF Operate
<1>3. QED  BY <1>1, <1>2

LEMMA UsedBlocks ==
  ASSUME NEW q, NEW size \in Nat, NEW ids, IsQueue(q, size, ids)
  PROVE  {q[i].block : i \in Used(q)} = Blocking(q, size)
<1>1. Used(q) = {i \in 1 .. size : q[i] # Free}  BY UsedSlots
<1>2. QED  BY <1>1 DEF Blocking

\* Every block whose last write is on its way is above or in the queue.
WritesInv == unwritten \subseteq Elements(c.upWQ) \cup Blocking(c.WQ, WQ_SIZE)

\* What every state satisfies.
IInv == DramInv /\ ReadersInv /\ WritesInv

-----------------------------------------------------------------------------
(* The actions *)

\* The invariants of the next state, once that is known.
LEMMA NextAgree == ASSUME NEW t, c' = t, Agree(t) PROVE Agree(c)'
<1>1. (\A k \in Banks :
         LET b == c.bank_request[k]
         IN  b.valid => /\ b.slot \in 1 .. Size(b.write)
                        /\ Scheduled(c, b.write, b.slot)
                        /\ Bank(PktOf(c, b).block) = k)'
  <2>1. ASSUME NEW k \in Banks, t.bank_request[k].valid
        PROVE  LET b == t.bank_request[k]
               IN  /\ b.slot \in 1 .. Size(b.write)
                   /\ Scheduled(t, b.write, b.slot)
                   /\ Bank(PktOf(t, b).block) = k
    BY <2>1 DEF Agree
  <2>2. ASSUME NEW k \in Banks
        PROVE  (LET b == c.bank_request[k]
                IN  b.valid => /\ b.slot \in 1 .. Size(b.write)
                               /\ Scheduled(c, b.write, b.slot)
                               /\ Bank(PktOf(c, b).block) = k)'
    <3>1. Queue(c, c.bank_request[k].write)' = Queue(t, t.bank_request[k].write)  BY DEF Queue
    <3>2. QED  BY <2>1, <3>1 DEF Scheduled, PktOf
  <2>3. QED  BY <2>2
<1>2. (\A write \in BOOLEAN : \A i \in 1 .. Size(write) :
         LET e == Queue(c, write)[i]
             b == c.bank_request[Bank(e.block)]
         IN  Scheduled(c, write, i) =>
               e.forward_checked /\ b.valid /\ b.write = write /\ b.slot = i)'
  <2>1. \A write \in BOOLEAN : \A i \in 1 .. Size(write) :
          LET e == Queue(t, write)[i]
              b == t.bank_request[Bank(e.block)]
          IN  Scheduled(t, write, i) =>
                e.forward_checked /\ b.valid /\ b.write = write /\ b.slot = i
    BY DEF Agree
  <2>2. ASSUME NEW write \in BOOLEAN, NEW i \in 1 .. Size(write)
        PROVE  (LET e == Queue(c, write)[i]
                    b == c.bank_request[Bank(e.block)]
                IN  Scheduled(c, write, i) =>
                      e.forward_checked /\ b.valid /\ b.write = write /\ b.slot = i)'
    <3>1. Queue(c, write)' = Queue(t, write)  BY DEF Queue
    <3>2. LET e == Queue(t, write)[i]
              b == t.bank_request[Bank(e.block)]
          IN  Scheduled(t, write, i) =>
                e.forward_checked /\ b.valid /\ b.write = write /\ b.slot = i
      BY <2>1
    <3>3. QED  BY <3>1, <3>2 DEF Scheduled
  <2>3. QED  BY <2>2
<1>3. (c.active_request # None => c.bank_request[c.active_request].valid)'
  BY DEF Agree
<1>4. QED  BY <1>1, <1>2, <1>3 DEF Agree

LEMMA NextInv ==
  ASSUME NEW t, c' = t, Typed(t), Agree(t), Excluded(t), Waiting(t), Cold(t)
  PROVE  DramInv'
<1>1. Typed(c)'
  BY DEF Typed, Shaped, IsQueue, IsPacket, IsBank
<1>2. Agree(c)'  BY NextAgree
<1>3. Excluded(c)'  BY DEF Excluded
<1>4. Waiting(c)'  BY DEF Waiting
<1>5. Cold(c)'  BY DEF Cold
<1>6. QED  BY <1>1, <1>2, <1>3, <1>4, <1>5 DEF DramInv

LEMMA OperateKeeps ==
  ASSUME DramAssumption, IInv, Operate
  PROVE  IInv'
<1> DEFINE s1 == Arriving(c)
           t == Serving(Loading(Turning(s1)))
           queued == {s1.WQ[i].block : i \in Used(s1.WQ)}
           left == {t.WQ[i].block : i \in Used(t.WQ)}
<1>1. /\ c' = t /\ asked' = asked
      /\ unwritten' = IF c.warmup THEN Elements(t.upWQ) ELSE unwritten \ (queued \ left)
  BY OperateStates
<1>2. Good(c)  BY DEF IInv, DramInv, Good
<1>3. /\ Good(s1) /\ Checked(s1) /\ Idle(s1) /\ s1.warmup = c.warmup
      /\ \A id \in Ids : \A isAsked : Once(c, id, isAsked) => Once(s1, id, isAsked)
      /\ ~ c.warmup => Elements(c.upWQ) \cup Blocking(c.WQ, WQ_SIZE)
                         \subseteq Elements(s1.upWQ) \cup Blocking(s1.WQ, WQ_SIZE)
  BY <1>2, ArrivingGood
<1> HIDE DEF s1
<1>4. Passing(s1, t) /\ Waiting(t)  BY <1>3, CycleGood
<1> HIDE DEF t
<1>5. WQ_SIZE \in Nat /\ IsQueue(s1.WQ, WQ_SIZE, {}) /\ IsQueue(t.WQ, WQ_SIZE, {})
  BY <1>3, <1>4 DEF Passing, Good, Typed, DramAssumption
<1>6. queued = Blocking(s1.WQ, WQ_SIZE) /\ left = Blocking(t.WQ, WQ_SIZE)
  BY <1>5, UsedBlocks
<1> HIDE DEF queued, left
<1>7. DramInv'
  <2>1. Typed(t) /\ Agree(t) /\ Excluded(t) /\ Waiting(t) /\ Cold(t)
    BY <1>4 DEF Passing, Good
  <2>2. QED  BY <1>1, <2>1, NextInv
<1>8. ReadersInv'
  <2>1. ASSUME NEW id \in Ids PROVE Once(t, id, id \in asked)
    <3>1. PICK a : a = (id \in asked)  OBVIOUS
    <3>2. Once(c, id, a)  BY <3>1 DEF IInv, ReadersInv
    <3>3. Once(t, id, a)  BY <1>3, <1>4, <3>2 DEF Passing
    <3>4. QED  BY <3>1, <3>3
  <2>2. \A id \in Ids : Once(c', id, id \in asked')  BY <1>1, <2>1
  <2>3. QED  BY <2>2 DEF ReadersInv, Once, Holds, Asks
<1>9. WritesInv'
  <2>1. t.upWQ = s1.upWQ  BY <1>4 DEF Passing
  <2>2. unwritten' \subseteq Elements(t.upWQ) \cup Blocking(t.WQ, WQ_SIZE)
    <3>1. CASE c.warmup  BY <1>1, <3>1
    <3>2. CASE ~ c.warmup
      <4>1. unwritten \subseteq Elements(s1.upWQ) \cup queued
        BY <1>3, <1>6, <3>2 DEF IInv, WritesInv
      <4>2. unwritten' = unwritten \ (queued \ left)  BY <1>1, <3>2
      <4>3. QED  BY <1>6, <2>1, <4>1, <4>2
    <3>3. QED  BY <3>1, <3>2
  <2>3. QED  BY <1>1, <2>2 DEF WritesInv, Blocking, Elements
<1>10. QED  BY <1>7, <1>8, <1>9 DEF IInv

LEMMA EndWarmupKeeps ==
  ASSUME DramAssumption, IInv, EndWarmup
  PROVE  IInv'
<1> DEFINE t == [c EXCEPT !.warmup = FALSE]
<1>1. c' = t /\ asked' = asked /\ unwritten' = unwritten  BY DEF EndWarmup
<1>2. Typed(c) /\ Good(c) /\ Waiting(c)  BY DEF IInv, DramInv, Good
<1>3. PICK no : no = FALSE  OBVIOUS
<1>4. t = [c EXCEPT !.warmup = no]  BY <1>3
<1> HIDE DEF t
<1>5. /\ Shaped(t) /\ t.warmup = no /\ t.RQ = c.RQ /\ t.WQ = c.WQ
      /\ t.bank_request = c.bank_request
      /\ t.active_request = c.active_request /\ t.write_mode = c.write_mode
      /\ t.upRQ = c.upRQ /\ t.upWQ = c.upWQ /\ t.answers = c.answers
  BY <1>2, <1>4 DEF Typed, Shaped
<1>6. Typed(t)  BY <1>2, <1>5 DEF Typed
<1>7. Agree(t)
  <2>1. SameWork(c, t)  BY <1>5 DEF SameWork, Scheduled, Queue
  <2>2. QED  BY <1>2, <2>1, AgreeKept DEF Good
<1>14. Excluded(t) /\ Waiting(t)  BY <1>2, <1>5 DEF Good, Excluded, Waiting
<1>8. Cold(t)  BY <1>3, <1>5 DEF Cold
<1>9. \A id \in Ids : Once(t, id, id \in asked)
  BY <1>5 DEF IInv, ReadersInv, Once, Holds, Asks
<1>10. DramInv'
  BY <1>1, <1>6, <1>7, <1>8, <1>14, NextInv
<1>11. ReadersInv'  BY <1>1, <1>9 DEF ReadersInv, Once, Holds, Asks
<1>12. WritesInv'  BY <1>1, <1>5 DEF IInv, WritesInv, Blocking, Elements
<1>13. QED  BY <1>10, <1>11, <1>12 DEF IInv

LEMMA ReadKeeps ==
  ASSUME DramAssumption, IInv, NEW r \in Reads, Read(r)
  PROVE  IInv'
<1> DEFINE up == Append(c.upRQ, r)
           t == [c EXCEPT !.upRQ = up]
           n == Len(c.upRQ)
<1>1. c' = t /\ r.id \notin asked /\ asked' = asked \cup {r.id} /\ unwritten' = unwritten
  BY DEF Read
<1>2. Typed(c) /\ Good(c) /\ Waiting(c)  BY DEF IInv, DramInv, Good
<1>3. /\ up \in Seq(Reads) /\ Len(up) = n + 1 /\ n \in Nat /\ up[n + 1] = r
      /\ \A j \in 1 .. n : up[j] = c.upRQ[j]
  BY <1>2 DEF Typed
<1>13. t = [c EXCEPT !.upRQ = up]  OBVIOUS
<1> HIDE DEF t, up
<1>4. /\ Shaped(t) /\ t.warmup = c.warmup /\ t.RQ = c.RQ /\ t.WQ = c.WQ
      /\ t.bank_request = c.bank_request
      /\ t.active_request = c.active_request /\ t.write_mode = c.write_mode
      /\ t.upRQ = up /\ t.upWQ = c.upWQ /\ t.answers = c.answers
  BY <1>2, <1>13 DEF Typed, Shaped
<1>5. Typed(t)  BY <1>2, <1>3, <1>4 DEF Typed
<1>6. Agree(t) /\ Excluded(t) /\ Waiting(t) /\ Cold(t)
  <2>1. Good(t)  BY <1>2, <1>4, <1>5, AsideGood
  <2>2. QED  BY <1>2, <1>4, <2>1 DEF Good, Waiting
<1>7. DramInv'  BY <1>1, <1>5, <1>6, NextInv
<1>8. ASSUME NEW id \in Ids PROVE Once(t, id, id \in asked \cup {r.id})
  <2>1. Once(c, id, id \in asked)  BY DEF IInv, ReadersInv
  <2>2. \A i : Holds(t, i, id) <=> Holds(c, i, id)  BY <1>4 DEF Holds
  <2>3. \A j \in 1 .. n : Asks(t, j, id) <=> Asks(c, j, id)  BY <1>3, <1>4 DEF Asks
  <2>4. Asks(t, n + 1, id) <=> id = r.id  BY <1>3, <1>4 DEF Asks
  <2>5. Len(t.upRQ) = n + 1 /\ t.answers[id] = c.answers[id]  BY <1>3, <1>4
  <2>6. 1 .. n + 1 = 1 .. n \cup {n + 1} /\ n + 1 \notin 1 .. n  BY <1>3
  <2>7. CASE id = r.id
    <3>1. id \notin asked  BY <1>1, <2>7
    <3>2. /\ c.answers[id] = 0
          /\ \A i \in 1 .. RQ_SIZE : ~ Holds(c, i, id)
          /\ \A j \in 1 .. n : ~ Asks(c, j, id)
      BY <2>1, <3>1 DEF Once
    <3>3. \A i \in 1 .. RQ_SIZE : ~ Holds(t, i, id)  BY <2>2, <3>2
    <3>4. \A j \in 1 .. n + 1 : Asks(t, j, id) <=> j = n + 1  BY <2>3, <2>4, <2>6, <2>7, <3>2
    <3>5. id \in asked \cup {r.id} /\ n + 1 \in 1 .. n + 1  BY <2>6, <2>7
    <3>6. QED  BY <2>5, <3>2, <3>3, <3>4, <3>5 DEF Once
  <2>8. CASE id # r.id
    <3>1. id \in asked \cup {r.id} <=> id \in asked  BY <2>8
    <3>2. \A j \in 1 .. n + 1 : Asks(t, j, id) <=> j \in 1 .. n /\ Asks(c, j, id)
      BY <2>3, <2>4, <2>6, <2>8
    <3> HIDE DEF Holds, Asks
    <3>3. QED  BY <2>1, <2>2, <2>5, <2>6, <3>1, <3>2 DEF Once
  <2>9. QED  BY <2>7, <2>8
<1>9. ReadersInv'  BY <1>1, <1>8 DEF ReadersInv, Once, Holds, Asks
<1>10. WritesInv'  BY <1>1, <1>4 DEF IInv, WritesInv, Blocking, Elements
<1>11. QED  BY <1>7, <1>9, <1>10 DEF IInv

LEMMA WriteKeeps ==
  ASSUME DramAssumption, IInv, NEW b \in Writes, Write(b)
  PROVE  IInv'
<1> DEFINE up == Append(c.upWQ, b)
           t == [c EXCEPT !.upWQ = up]
<1>1. c' = t /\ asked' = asked /\ unwritten' = unwritten \cup {b}
  BY DEF Write
<1>2. Typed(c) /\ Good(c) /\ Waiting(c)  BY DEF IInv, DramInv, Good
<1>3. up \in Seq(Writes) /\ Elements(up) = Elements(c.upWQ) \cup {b}
  BY <1>2, ElementsAppend DEF Typed
<1>13. t = [c EXCEPT !.upWQ = up]  OBVIOUS
<1> HIDE DEF t, up
<1>4. /\ Shaped(t) /\ t.warmup = c.warmup /\ t.RQ = c.RQ /\ t.WQ = c.WQ
      /\ t.bank_request = c.bank_request
      /\ t.active_request = c.active_request /\ t.write_mode = c.write_mode
      /\ t.upRQ = c.upRQ /\ t.upWQ = up /\ t.answers = c.answers
  BY <1>2, <1>13 DEF Typed, Shaped
<1>5. Typed(t)  BY <1>2, <1>3, <1>4 DEF Typed
<1>6. Agree(t) /\ Excluded(t) /\ Waiting(t) /\ Cold(t)
  <2>1. Good(t)  BY <1>2, <1>4, <1>5, AsideGood
  <2>2. QED  BY <1>2, <1>4, <2>1 DEF Good, Waiting
<1>7. DramInv'  BY <1>1, <1>5, <1>6, NextInv
<1>8. \A id \in Ids : Once(t, id, id \in asked)
  BY <1>4 DEF IInv, ReadersInv, Once, Holds, Asks
<1>9. ReadersInv'  BY <1>1, <1>8 DEF ReadersInv, Once, Holds, Asks
<1>10. unwritten' \subseteq Elements(t.upWQ) \cup Blocking(t.WQ, WQ_SIZE)
  BY <1>1, <1>3, <1>4 DEF IInv, WritesInv
<1>11. WritesInv'  BY <1>1, <1>10 DEF WritesInv, Blocking, Elements
<1>12. QED  BY <1>7, <1>9, <1>11 DEF IInv

LEMMA InitHolds == ASSUME DramAssumption, Init PROVE IInv
<1> DEFINE idle == [valid |-> FALSE, need_refresh |-> FALSE, under_refresh |-> FALSE,
                    open_row |-> NoRow, wait |-> 0, write |-> FALSE, slot |-> 1]
           bankgroups == [g \in {Bankgroup(k) : k \in Banks} |-> 0]
           s == [RQ |-> [i \in 1 .. RQ_SIZE |-> Free], WQ |-> [i \in 1 .. WQ_SIZE |-> Free],
                 bank_request |-> [k \in Banks |-> idle],
                 active_request |-> None, bankgroup |-> bankgroups,
                 write_mode |-> FALSE, dbus |-> 0, refresh |-> tREF, warmup |-> TRUE,
                 upRQ |-> << >>, upWQ |-> << >>, answers |-> [i \in {r.id : r \in Reads} |-> 0]]
<1>1. c = s /\ asked = {} /\ unwritten = {}  BY DEF Init
<1>2. IsBank(idle) /\ ~ idle.valid /\ ~ idle.need_refresh /\ ~ idle.under_refresh
  <2>1. idle = [valid |-> idle.valid, need_refresh |-> idle.need_refresh,
                under_refresh |-> idle.under_refresh, open_row |-> idle.open_row,
                wait |-> idle.wait, write |-> idle.write, slot |-> idle.slot]
    OBVIOUS
  <2>2. idle.write \in BOOLEAN /\ ~ idle.valid /\ ~ idle.need_refresh /\ ~ idle.under_refresh
    OBVIOUS
  <2> HIDE DEF idle
  <2>3. QED  BY <2>1, <2>2 DEF IsBank
<1> HIDE DEF idle, bankgroups
<1>3. /\ Shaped(c) /\ c.RQ = [i \in 1 .. RQ_SIZE |-> Free] /\ c.WQ = [i \in 1 .. WQ_SIZE |-> Free]
      /\ c.bank_request = [k \in Banks |-> idle] /\ c.active_request = None
      /\ c.upRQ = << >> /\ c.upWQ = << >> /\ c.answers = [i \in {r.id : r \in Reads} |-> 0]
      /\ c.write_mode \in BOOLEAN
  <2>1. PICK m \in BOOLEAN : m = FALSE  OBVIOUS
  <2>2. PICK w : w = TRUE  OBVIOUS
  <2>3. c = [RQ |-> [i \in 1 .. RQ_SIZE |-> Free], WQ |-> [i \in 1 .. WQ_SIZE |-> Free],
             bank_request |-> [k \in Banks |-> idle],
             active_request |-> None, bankgroup |-> bankgroups,
             write_mode |-> m, dbus |-> 0, refresh |-> tREF, warmup |-> w,
             upRQ |-> << >>, upWQ |-> << >>, answers |-> [i \in {r.id : r \in Reads} |-> 0]]
    BY <1>1, <2>1, <2>2
  <2>4. QED  BY <2>3 DEF Shaped
<1> HIDE DEF s
<1>4. Typed(c)
  <2>1. IsQueue(c.RQ, RQ_SIZE, Ids) /\ IsQueue(c.WQ, WQ_SIZE, {})  BY <1>3 DEF IsQueue
  <2>2. c.answers \in [Ids -> Nat]  BY <1>3 DEF Ids
  <2>3. c.upRQ \in Seq(Reads) /\ c.upWQ \in Seq(Writes)  BY <1>3
  <2>4. c.bank_request = [k \in Banks |-> c.bank_request[k]]
        /\ \A k \in Banks : IsBank(c.bank_request[k])
    BY <1>2, <1>3
  <2>5. QED  BY <1>3, <2>1, <2>2, <2>3, <2>4 DEF Typed
<1>5. \A write \in BOOLEAN : \A i \in 1 .. Size(write) : ~ Scheduled(c, write, i)
  BY <1>3 DEF Scheduled, Queue, Size
<1>6. \A k \in Banks : ~ c.bank_request[k].valid /\ ~ c.bank_request[k].need_refresh
  BY <1>2, <1>3
<1>7. DramInv
  BY <1>3, <1>4, <1>5, <1>6 DEF DramInv, Agree, Excluded, Waiting, Cold
<1>8. ReadersInv
  <2>1. SUFFICES ASSUME NEW id \in Ids PROVE Once(c, id, id \in asked)
    BY DEF ReadersInv
  <2>2. c.answers[id] = 0  BY <1>3 DEF Ids
  <2>3. \A i \in 1 .. RQ_SIZE : ~ Holds(c, i, id)  BY <1>3 DEF Holds
  <2>4. 1 .. Len(c.upRQ) = {}  BY <1>3
  <2>5. id \notin asked  BY <1>1
  <2>6. QED  BY <2>2, <2>3, <2>4, <2>5 DEF Once
<1>9. QED  BY <1>1, <1>7, <1>8 DEF IInv, WritesInv

LEMMA StutterKeeps == ASSUME IInv, UNCHANGED vars PROVE IInv'
<1>1. c' = c /\ asked' = asked /\ unwritten' = unwritten  BY DEF vars
<1>2. DramInv'  BY <1>1, NextInv DEF IInv, DramInv
<1>3. ReadersInv'  BY <1>1 DEF IInv, ReadersInv, Once, Holds, Asks
<1>4. WritesInv'  BY <1>1 DEF IInv, WritesInv, Blocking, Elements
<1>5. QED  BY <1>2, <1>3, <1>4 DEF IInv

-----------------------------------------------------------------------------
(* The theorems *)

\* Every state of the channel satisfies the invariant: each stage of a cycle keeps
\* its parts (Passing), and the refreshes restore the one that the stages before
\* them break (Waiting).
LEMMA Invariance == ASSUME DramAssumption PROVE Spec => []IInv
<1>1. Init => IInv  BY InitHolds
<1>2. IInv /\ [Next]_vars => IInv'
  <2>1. SUFFICES ASSUME IInv, [Next]_vars PROVE IInv'
    OBVIOUS
  <2>2. CASE Operate  BY <2>1, <2>2, OperateKeeps
  <2>3. CASE EndWarmup  BY <2>1, <2>3, EndWarmupKeeps
  <2>4. ASSUME NEW r \in Reads, Read(r) PROVE IInv'  BY <2>1, <2>4, ReadKeeps
  <2>5. ASSUME NEW b \in Writes, Write(b) PROVE IInv'  BY <2>1, <2>5, WriteKeeps
  <2>6. CASE UNCHANGED vars  BY <2>1, <2>6, StutterKeeps
  <2>7. QED  BY <2>1, <2>2, <2>3, <2>4, <2>5, <2>6 DEF Next
<1>3. QED  BY <1>1, <1>2, PTL DEF Spec

\* (bank_request and scheduled in dram_controller.cc.)  The banks at work and the
\* requests that are scheduled are the same, whatever the checks drop, a change of
\* mode takes back, or a refresh holds up.
THEOREM BanksAndQueuesAgree == ASSUME DramAssumption PROVE Spec => []BanksAgree
<1>1. IInv => BanksAgree
  <2>1. SUFFICES ASSUME IInv PROVE BanksAgree
    OBVIOUS
  <2> DEFINE busy == {k \in Banks : c.bank_request[k].valid}
             Slot(k) == <<c.bank_request[k].write, c.bank_request[k].slot>>
             Working(q) == {i \in Used(q) : q[i].scheduled}
  <2>2. Typed(c) /\ Agree(c)  BY <2>1 DEF IInv, DramInv
  <2>3. RQ_SIZE \in Nat /\ WQ_SIZE \in Nat  BY DEF DramAssumption
  <2>4. /\ Working(c.WQ) = {i \in 1 .. WQ_SIZE : Scheduled(c, TRUE, i)}
        /\ Working(c.RQ) = {i \in 1 .. RQ_SIZE : Scheduled(c, FALSE, i)}
    <3>1. Used(c.WQ) = {i \in 1 .. WQ_SIZE : c.WQ[i] # Free}  BY <2>2, <2>3, UsedSlots DEF Typed
    <3>2. Used(c.RQ) = {i \in 1 .. RQ_SIZE : c.RQ[i] # Free}  BY <2>2, <2>3, UsedSlots DEF Typed
    <3>3. QED  BY <3>1, <3>2 DEF Scheduled, Queue
  <2>5. ASSUME NEW k \in busy
        PROVE  /\ Slot(k) \in {<<TRUE, i>> : i \in Working(c.WQ)}
                                \cup {<<FALSE, i>> : i \in Working(c.RQ)}
               /\ Bank(PktOf(c, c.bank_request[k]).block) = k
    <3> DEFINE b == c.bank_request[k]
    <3>1. b.slot \in 1 .. Size(b.write) /\ Scheduled(c, b.write, b.slot) /\ Bank(PktOf(c, b).block) = k
      BY <2>2 DEF Agree
    <3>2. b.write \in BOOLEAN  BY <2>2 DEF Typed, IsBank
    <3>3. CASE b.write = TRUE
      <4>1. b.slot \in Working(c.WQ)  BY <2>4, <3>1, <3>3 DEF Size
      <4>2. QED  BY <3>1, <3>3, <4>1
    <3>4. CASE b.write = FALSE
      <4>1. b.slot \in Working(c.RQ)  BY <2>4, <3>1, <3>4 DEF Size
      <4>2. QED  BY <3>1, <3>4, <4>1
    <3>5. QED  BY <3>2, <3>3, <3>4
  <2>6. ASSUME NEW write \in BOOLEAN, NEW i \in 1 .. Size(write), Scheduled(c, write, i)
        PROVE  \E k \in busy : Slot(k) = <<write, i>>
    <3> DEFINE e == Queue(c, write)[i]
               k == Bank(e.block)
    <3>1. c.bank_request[k].valid /\ c.bank_request[k].write = write /\ c.bank_request[k].slot = i
      BY <2>2, <2>6 DEF Agree
    <3>2. e.block \in Blocks
      BY <2>2, <2>6 DEF Scheduled, Typed, IsQueue, IsPacket, Queue, Size
    <3>3. k \in Banks  BY <3>2 DEF DramAssumption, Blocks
    <3>4. QED  BY <3>1, <3>3
  <2>7. ASSUME NEW i \in Working(c.WQ) PROVE <<TRUE, i>> \in {Slot(k) : k \in busy}
    <3>1. PICK w \in BOOLEAN : w = TRUE  OBVIOUS
    <3>2. i \in 1 .. Size(w) /\ Scheduled(c, w, i)  BY <2>4, <2>7, <3>1 DEF Size
    <3>3. PICK k \in busy : Slot(k) = <<w, i>>  BY <2>6, <3>2
    <3>4. QED  BY <3>1, <3>3
  <2>8. ASSUME NEW i \in Working(c.RQ) PROVE <<FALSE, i>> \in {Slot(k) : k \in busy}
    <3>1. PICK w \in BOOLEAN : w = FALSE  OBVIOUS
    <3>2. i \in 1 .. Size(w) /\ Scheduled(c, w, i)  BY <2>4, <2>8, <3>1 DEF Size
    <3>3. PICK k \in busy : Slot(k) = <<w, i>>  BY <2>6, <3>2
    <3>4. QED  BY <3>1, <3>3
  <2>9. {Slot(k) : k \in busy} =
          {<<TRUE, i>> : i \in Working(c.WQ)} \cup {<<FALSE, i>> : i \in Working(c.RQ)}
    <3> HIDE DEF Slot, busy, Working
    <3>1. QED  BY <2>5, <2>7, <2>8
  <2>10. ASSUME NEW k \in busy, NEW l \in busy, Slot(k) = Slot(l) PROVE k = l
    <3>1. c.bank_request[k].write = c.bank_request[l].write
          /\ c.bank_request[k].slot = c.bank_request[l].slot
      BY <2>10
    <3>2. PktOf(c, c.bank_request[k]) = PktOf(c, c.bank_request[l])  BY <3>1 DEF PktOf
    <3>3. QED  BY <2>5, <3>2
  <2>11. c.active_request # None => c.active_request \in busy
    BY <2>2 DEF Typed, Agree
  <2>12. \A k \in busy : Bank(PktOf(c, c.bank_request[k]).block) = k  BY <2>5
  <2>13. \A k, l \in busy : Slot(k) = Slot(l) => k = l  BY <2>10
  <2>14. QED
    <3> HIDE DEF Slot, busy, Working
    <3>1. QED  BY <2>9, <2>11, <2>12, <2>13 DEF BanksAgree, Slot, busy, Working
<1>2. QED  BY <1>1, Invariance, PTL

\* (schedule_refresh in dram_controller.cc.)  A refresh that is due waits for a bank
\* only while it works, and a bank that is refreshed does not work.
THEOREM RefreshesKept == ASSUME DramAssumption PROVE Spec => []RefreshKept
<1>1. IInv => RefreshKept  BY DEF IInv, DramInv, Waiting, Excluded, RefreshKept
<1>2. QED  BY <1>1, Invariance, PTL

\* What is at no place or at one is counted so.
LEMMA AtMostOne ==
  ASSUME NEW S, \A x, y \in S : x = y
  PROVE  Cardinality(S) = IF S = {} THEN 0 ELSE 1
<1>1. CASE S = {}  BY <1>1, FS_EmptySet
<1>2. CASE S # {}
  <2>1. PICK x : x \in S  BY <1>2
  <2>2. S = {x}  BY <2>1
  <2>3. QED  BY <1>2, <2>2, FS_Singleton
<1>3. QED  BY <1>1, <1>2

\* (check_read_collision and finish_dbus_request in dram_controller.cc.)  Merging and
\* forwarding lose no reader and answer none twice.
THEOREM ReadersAnsweredOnce == ASSUME DramAssumption PROVE Spec => []AnsweredOnce
<1>1. IInv => AnsweredOnce
  <2>1. SUFFICES ASSUME IInv, NEW r \in Reads
        PROVE  LET queued == Cardinality({i \in Used(c.RQ) : r.id \in c.RQ[i].ids})
                             + Cardinality({i \in 1 .. Len(c.upRQ) : c.upRQ[i].id = r.id})
               IN  queued + c.answers[r.id] = IF r.id \in asked THEN 1 ELSE 0
    BY DEF AnsweredOnce
  <2> DEFINE id == r.id
             S == {i \in Used(c.RQ) : r.id \in c.RQ[i].ids}
             T == {i \in 1 .. Len(c.upRQ) : c.upRQ[i].id = r.id}
  <2>2. Typed(c) /\ RQ_SIZE \in Nat  BY <2>1 DEF IInv, DramInv, DramAssumption
  <2>3. Used(c.RQ) = {i \in 1 .. RQ_SIZE : c.RQ[i] # Free}  BY <2>2, UsedSlots DEF Typed
  <2>4. S = {i \in 1 .. RQ_SIZE : Holds(c, i, id)}  BY <2>3 DEF Holds
  <2>5. T = {i \in 1 .. Len(c.upRQ) : Asks(c, i, id)}  BY DEF Asks
  <2>6. Once(c, id, id \in asked)  BY <2>1 DEF IInv, ReadersInv, Ids
  <2> HIDE DEF S, T, id
  <2>7. \A x, y \in S : x = y  BY <2>4, <2>6 DEF Once
  <2>8. \A x, y \in T : x = y  BY <2>5, <2>6 DEF Once
  <2>9. Cardinality(S) = (IF S = {} THEN 0 ELSE 1) /\ Cardinality(T) = (IF T = {} THEN 0 ELSE 1)
    BY <2>7, <2>8, AtMostOne
  <2>10. S = {} \/ T = {}  BY <2>4, <2>5, <2>6 DEF Once
  <2>11. c.answers[id] \in {0, 1} /\ (c.answers[id] = 1 => S = {} /\ T = {})
    BY <2>4, <2>5, <2>6 DEF Once
  <2>12. id \in asked <=> c.answers[id] = 1 \/ S # {} \/ T # {}
    BY <2>4, <2>5, <2>6 DEF Once
  <2>13. Cardinality(S) + Cardinality(T) + c.answers[id] = IF id \in asked THEN 1 ELSE 0
    BY <2>9, <2>10, <2>11, <2>12
  <2>14. QED  BY <2>13 DEF S, T, id
<1>2. QED  BY <1>1, Invariance, PTL

\* (check_write_collision in dram_controller.cc.)  A write that is dropped has another
\* to its block in the queue, so no block whose last write is on its way is lost.
THEOREM WritesKept == ASSUME DramAssumption PROVE Spec => []NoWriteLost
<1>1. IInv => NoWriteLost
  <2>1. SUFFICES ASSUME IInv PROVE NoWriteLost
    OBVIOUS
  <2>2. WQ_SIZE \in Nat /\ IsQueue(c.WQ, WQ_SIZE, {})
    BY <2>1 DEF IInv, DramInv, Typed, DramAssumption
  <2>3. {c.WQ[i].block : i \in Used(c.WQ)} = Blocking(c.WQ, WQ_SIZE)  BY <2>2, UsedBlocks
  <2>4. QED  BY <2>1, <2>3 DEF IInv, WritesInv, NoWriteLost
<1>2. QED  BY <1>1, Invariance, PTL
=============================================================================
