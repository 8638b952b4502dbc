-------------------------------- MODULE Spp --------------------------------
(***************************************************************************)
(* The prefetcher spp_dev.  A call of prefetcher_cache_operate learns from *)
(* the access and then looks ahead along the most likely path, a turn of   *)
(* its loop in each step.  The pattern table comes first; it is also a     *)
(* machine of its own, under any deltas (PTSpec).                          *)
(*                                                                         *)
(* A signature is the sequence of the last deltas that take part in it; the*)
(* empty one is the signature 0.                                           *)
(***************************************************************************)
EXTENDS Queues, SequencesExt, TLAPS

CONSTANTS
  PT_SET, PT_WAY,   \* sets, and ways of a set
  C_SIG_MAX,        \* the largest count of a signature
  Deltas            \* distances in a page, in blocks

ASSUME PatternAssumption ==
  /\ C_SIG_MAX \in Nat /\ C_SIG_MAX % 2 = 1      \* it is 2^C_SIG_BIT - 1
  /\ Deltas \subseteq Int
  /\ 0 \in Deltas
  /\ PT_WAY \in Nat \ {0}

VARIABLE PT       \* of each set: delta and c_delta of its ways, and c_sig

Ways == 1 .. PT_WAY

PTInit == PT = [s \in PT_SET |-> [delta |-> [w \in Ways |-> 0], c_delta |-> [w \in Ways |-> 0], c_sig |-> 0]]

\* Mutant of Halved: the counters of the deltas are left as they are.
HalvedSig(set) ==
  IF set.c_sig > C_SIG_MAX THEN [set EXCEPT !.c_sig = @ \div 2] ELSE set

\* "if (c_sig[set] > C_SIG_MAX)": all counters of the set are halved.
Halved(set) ==
  IF set.c_sig > C_SIG_MAX
  THEN [delta |-> set.delta, c_delta |-> [w \in Ways |-> set.c_delta[w] \div 2], c_sig |-> set.c_sig \div 2]
  ELSE set

Hits(set, d) == {w \in Ways : set.delta[w] = d}
FirstOf(W) == CHOOSE w \in W : \A v \in W : w <= v

\* The way with the smallest count, below C_SIG_MAX.
Victims(set) ==
  {w \in Ways : /\ set.c_delta[w] < C_SIG_MAX
                /\ \A v \in Ways : set.c_delta[w] <= set.c_delta[v]}

\* Mutant of Updated: a new delta takes over the count of the old one.
UpdatedKept(set, d) ==
  IF Hits(set, d) # {}
  THEN Halved([set EXCEPT !.c_delta[FirstOf(Hits(set, d))] = @ + 1, !.c_sig = @ + 1])
  ELSE Halved([set EXCEPT !.delta[FirstOf(Victims(set))] = d,
                          !.c_delta[FirstOf(Victims(set))] = @ + 1])

Updated(set, d) ==
  IF Hits(set, d) # {}
  THEN Halved([delta |-> set.delta,
               c_delta |-> [set.c_delta EXCEPT ![FirstOf(Hits(set, d))] = @ + 1],
               c_sig |-> set.c_sig + 1])
  ELSE Halved([delta |-> [set.delta EXCEPT ![FirstOf(Victims(set))] = d],
               c_delta |-> [set.c_delta EXCEPT ![FirstOf(Victims(set))] = 0],
               c_sig |-> set.c_sig + 1])

\* Deltas of 0 are not counted: the caller sets last_sig to 0.
UpdatePattern(s, d) == d # 0 /\ PT' = [PT EXCEPT ![s] = Updated(PT[s], d)]

PTNext == \E s \in PT_SET, d \in Deltas : UpdatePattern(s, d)

PTSpec == PTInit /\ [][PTNext]_PT

-----------------------------------------------------------------------------
CONSTANTS
  Pages, PageBlocks,      \* pages, and blocks of each
  SigLength,              \* deltas that a signature remembers
  PtSetOf(_),             \* the hash of a signature into the pattern table
  FILTER_SET, Quotient(_), Remainder(_),    \* of a block into the filter
  FILL_THRESHOLD, PF_THRESHOLD,
  GLOBAL_COUNTER_MAX, MAX_GHR_ENTRY,
  ST_WAY,
  MSHR_SIZE,
  MaxCalls                \* bound: accesses and evictions

VARIABLES ST, FILTER, GHR, look, calls

vars == <<PT, ST, FILTER, GHR, look, calls>>

PageOf(b) == b \div PageBlocks
OffsetOf(b) == b % PageBlocks
Blocks == {PageBlocks * p + i : p \in Pages, i \in 0 .. PageBlocks - 1}

SigAfter(sig, d) ==
  LET s == Append(sig, d) IN IF Len(s) > SigLength THEN Tail(s) ELSE s

Idle == [on |-> FALSE]

Init ==
  /\ PTInit
  /\ ST = [w \in 1 .. ST_WAY |-> [valid |-> FALSE, page |-> 0, offset |-> 0, sig |-> << >>, lru |-> w - 1]]
  /\ FILTER = [q \in FILTER_SET |-> [tag |-> 0, valid |-> FALSE, useful |-> FALSE]]
  /\ GHR = [useful |-> 0, issued |-> 0, accuracy |-> 0,
            entry |-> [i \in 1 .. MAX_GHR_ENTRY |->
                         [valid |-> FALSE, sig |-> << >>, confidence |-> 0, offset |-> 0, delta |-> 0]]]
  /\ look = Idle /\ calls = 0

-----------------------------------------------------------------------------
\* The signature table: the way of a page, or the way that it takes over.
HitWay(page) == {w \in DOMAIN ST : ST[w].valid /\ ST[w].page = page}
FreeWay == {w \in DOMAIN ST : ~ ST[w].valid}
OldWay == {w \in DOMAIN ST : ST[w].lru = ST_WAY - 1}

\* check_entry: the most confident entry that led to this offset.
Leads(offset) ==
  {i \in 1 .. MAX_GHR_ENTRY :
     LET e == GHR.entry[i]
     IN  /\ e.offset = offset /\ e.confidence > 0
         /\ \A j \in 1 .. MAX_GHR_ENTRY :
              GHR.entry[j].offset = offset => GHR.entry[j].confidence <= e.confidence}
Bootstrap(offset) ==
  IF Leads(offset) = {} THEN << >>
  ELSE LET e == GHR.entry[FirstOf(Leads(offset))] IN SigAfter(e.sig, e.delta)

\* Mutant of Promoted: every other way gets older, the older ones too.
PromotedAll(table, w) ==
  [v \in DOMAIN table |->
     [table[v] EXCEPT !.lru = IF v = w THEN 0 ELSE @ + 1]]

Promoted(table, w) ==
  [v \in DOMAIN table |->
     [table[v] EXCEPT !.lru = IF v = w THEN 0 ELSE IF @ < table[w].lru THEN @ + 1 ELSE @]]

\* read_and_update_sig: the new table, the signature before, the delta, and the
\* signature now.  After an access to the same block there is no signature.
ReadAndUpdateSig(page, offset) ==
  IF HitWay(page) # {}
  THEN LET w == FirstOf(HitWay(page))
           d == offset - ST[w].offset
           sig == SigAfter(ST[w].sig, d)
       IN  IF d = 0
           THEN [table |-> Promoted(ST, w), last |-> << >>, delta |-> 0, curr |-> << >>]
           ELSE [table |-> Promoted([ST EXCEPT ![w].sig = sig, ![w].offset = offset], w),
                 last |-> ST[w].sig, delta |-> d, curr |-> sig]
  ELSE LET w == FirstOf(IF FreeWay # {} THEN FreeWay ELSE OldWay)
           entry == [valid |-> TRUE, page |-> page, offset |-> offset, sig |-> Bootstrap(offset),
                     lru |-> ST[w].lru]
       IN  [table |-> Promoted([ST EXCEPT ![w] = entry], w), last |-> << >>, delta |-> 0,
            curr |-> entry.sig]

-----------------------------------------------------------------------------
\* The filter.  InFilter: "line is already in the filter".
InFilter(filter, b) ==
  LET e == filter[Quotient(b)] IN (e.valid \/ e.useful) /\ e.tag = Remainder(b)

FilterDemand(s, b) ==
  LET q == Quotient(b)
  IN  IF s.filter[q].tag = Remainder(b) /\ ~ s.filter[q].useful
      THEN [s EXCEPT !.filter[q].useful = TRUE,
                     !.ghr.useful = IF s.filter[q].valid THEN @ + 1 ELSE @]
      ELSE s

\* prefetcher_cache_fill: the filter forgets the block that left the cache.
Evict(b) ==
  LET q == Quotient(b)
  IN  /\ ~ look.on /\ calls < MaxCalls
      /\ calls' = calls + 1
      /\ FILTER' = [FILTER EXCEPT ![q] = [tag |-> 0, valid |-> FALSE, useful |-> FALSE]]
      /\ GHR' = [GHR EXCEPT !.useful =
                   IF FILTER[q].valid /\ ~ FILTER[q].useful /\ @ > 0 THEN @ - 1 ELSE @]
      /\ UNCHANGED <<PT, ST, look>>

-----------------------------------------------------------------------------
Accuracy == IF GHR.issued = 0 THEN 0 ELSE (100 * GHR.useful) \div GHR.issued

\* Stages 1 and 2 of prefetcher_cache_operate.
Operate(b) ==
  /\ ~ look.on /\ calls < MaxCalls
  /\ calls' = calls + 1
  /\ \E r \in {ReadAndUpdateSig(PageOf(b), OffsetOf(b))},
        s \in {FilterDemand([filter |-> FILTER, ghr |-> [GHR EXCEPT !.accuracy = Accuracy]], b)} :
       /\ ST' = r.table
       /\ FILTER' = s.filter /\ GHR' = s.ghr
       /\ IF r.last # << >> THEN UpdatePattern(PtSetOf(r.last), r.delta) ELSE UNCHANGED PT
       /\ look' = [on |-> TRUE, page |-> PageOf(b), base |-> b, sig |-> r.curr, confidence |-> 100,
                   depth |-> 0, queue |-> <<[confidence |-> 100, delta |-> 0]>>, head |-> 0, tail |-> 0,
                   way |-> 0, prefetched |-> << >>]

\* confidence_q and delta_q with an entry at place i, counted from 0.
Put(queue, i, e) == IF i < Len(queue) THEN [queue EXCEPT ![i + 1] = e] ELSE Append(queue, e)
Gap == [confidence |-> 0, delta |-> 0]

Confidence(set, w) ==
  IF look.depth = 0 THEN (100 * set.c_delta[w]) \div set.c_sig
  ELSE (((GHR.accuracy * set.c_delta[w]) \div set.c_sig) * look.confidence) \div 100

Best(set) ==
  {w \in Ways : /\ Confidence(set, w) >= PF_THRESHOLD
                /\ \A v \in Ways : Confidence(set, v) <= Confidence(set, w)}

\* read_pattern: the likely deltas of the signature go to the queue, and one place
\* is left free behind them.
ReadPattern ==
  LET set == PT[PtSetOf(look.sig)]
      likely == SelectSeq([w \in 1 .. PT_WAY |-> w], LAMBDA w : Confidence(set, w) >= PF_THRESHOLD)
      filled == Through(LAMBDA l, w : [l EXCEPT !.queue = Put(@, l.tail, [confidence |-> Confidence(set, w),
                                                                          delta |-> set.delta[w]]),
                                                !.tail = @ + 1], look, likely)
  IN  IF set.c_sig = 0 THEN [look EXCEPT !.queue = Put(@, look.tail, [Gap EXCEPT !.delta =
                                  IF look.tail < Len(look.queue) THEN look.queue[look.tail + 1].delta ELSE 0])]
      ELSE [filled EXCEPT !.queue = IF filled.tail < Len(@) THEN @ ELSE Append(@, Gap),
                          !.tail = @ + 1,
                          !.way = IF likely = << >> THEN 0 ELSE FirstOf(Best(set)),
                          !.confidence = IF likely = << >> THEN 0 ELSE Confidence(set, FirstOf(Best(set))),
                          !.depth = IF likely = << >> THEN @ ELSE @ + 1]

\* Mutant of Victim: the entry must be less sure than the new one can be.
VictimBelow(entries) ==
  {i \in DOMAIN entries : /\ entries[i].confidence < PF_THRESHOLD
                          /\ \A j \in DOMAIN entries : entries[i].confidence <= entries[j].confidence}

Victim(entries) ==
  {i \in DOMAIN entries : /\ entries[i].confidence < 100
                          /\ \A j \in DOMAIN entries : entries[i].confidence <= entries[j].confidence}
\* update_entry: the entry of the same offset, or the first with the least confidence.
UpdateEntry(s, sig, e, offset) ==
  LET same == {i \in DOMAIN s.ghr.entry : s.ghr.entry[i].valid /\ s.ghr.entry[i].offset = offset}
      i == FirstOf(IF same # {} THEN same ELSE Victim(s.ghr.entry))
  IN  [s EXCEPT !.ghr.entry[i] = [valid |-> TRUE, sig |-> sig, confidence |-> e.confidence,
                                  offset |-> offset, delta |-> e.delta]]

\* prefetch_line of a block that is not in the filter; one that goes to this cache is
\* counted, and the counters are halved when they are full.
Issue(s, b, e) ==
  LET q == Quotient(b)
      here == e.confidence >= FILL_THRESHOLD
      issued == s.ghr.issued + 1
      full == issued > GLOBAL_COUNTER_MAX
      done == [s EXCEPT !.prefetched = Append(@, b)]
  IN  IF ~ here THEN done
      ELSE [done EXCEPT !.filter[q] = [tag |-> Remainder(b), valid |-> TRUE, useful |-> FALSE],
                        !.ghr.issued = IF full THEN issued \div 2 ELSE issued,
                        !.ghr.useful = IF full THEN @ \div 2 ELSE @]

\* One entry of the queue: a prefetch, or an entry for the page that comes next.
Handle(s, e) ==
  LET b == s.base + e.delta
  IN  IF e.confidence < PF_THRESHOLD THEN s
      ELSE IF PageOf(b) # s.page
      THEN [UpdateEntry(s, s.sig, e, OffsetOf(b)) EXCEPT !.head = @ + 1, !.again = TRUE]
      ELSE [(IF InFilter(s.filter, b) THEN s ELSE Issue(s, b, e)) EXCEPT !.head = @ + 1, !.again = TRUE]

\* One turn of the loop of stage 3.  The code goes on beyond the end of confidence_q and
\* delta_q, which are as long as the MSHR; what it does then is undefined, and is left out.
Lookahead ==
  /\ look.on
  /\ \E l \in {x \in {ReadPattern} : Len(x.queue) <= MSHR_SIZE} :
     \E s \in {Through(Handle,
                       [filter |-> FILTER, ghr |-> GHR, prefetched |-> look.prefetched, base |-> l.base,
                        page |-> l.page, sig |-> l.sig, head |-> l.head, again |-> FALSE],
                       SubSeq(l.queue, l.head + 1, l.tail))} :
       LET d == IF l.way = 0 THEN 0 ELSE PT[PtSetOf(l.sig)].delta[l.way]
       IN  /\ FILTER' = s.filter /\ GHR' = s.ghr
           /\ look' = [l EXCEPT !.on = s.again, !.head = s.head, !.prefetched = s.prefetched,
                                !.base = @ + d, !.way = 0,
                                !.sig = IF l.way = 0 THEN @ ELSE SigAfter(@, d)]
  /\ UNCHANGED <<PT, ST, calls>>

\* The call has returned.
Return == ~ look.on /\ look # Idle /\ look' = Idle /\ UNCHANGED <<PT, ST, FILTER, GHR, calls>>

Next ==
  \/ look = Idle /\ \E b \in Blocks : Operate(b) \/ Evict(b)
  \/ Lookahead
  \/ Return

Spec == Init /\ [][Next]_vars

-----------------------------------------------------------------------------
\* The counts of two deltas are of different occurrences of the signature, and the
\* first occurrence was counted for no delta: a confidence is less than 100.
CountsShare(set) ==
  /\ \A v, w \in Ways : v # w => set.c_delta[v] + set.c_delta[w] <= set.c_sig
  /\ \A w \in Ways : set.c_delta[w] > 0 => set.c_delta[w] < set.c_sig
CountersAgree == \A s \in PT_SET : CountsShare(PT[s])

\* "[PT] Cannot find a replacement victim!": update_pattern always finds one.
VictimFound == \A s \in PT_SET : \E w \in Ways : PT[s].c_delta[w] < C_SIG_MAX

\* The ways of the signature table are in one order of use: its assertions ("LRU
\* value is wrong!", "Cannot find a replacement victim!") hold, and the way that is
\* replaced is the one whose page was not touched for the longest time.
LruOrder == {ST[w].lru : w \in DOMAIN ST} = 0 .. ST_WAY - 1

\* "[GHR] Cannot find a replacement victim!" (update_entry).
GhrVictimFound == Victim(GHR.entry) # {}

-----------------------------------------------------------------------------
(* The counters of the pattern table agree for every number of sets and    *)
(* ways and every C_SIG_MAX; so its assertion that a victim exists holds.  *)

Counters ==
  [delta : [Ways -> Deltas], c_delta : [Ways -> Nat], c_sig : Nat]

\* A set that has counted nothing has no deltas.
Untouched(set) == set.c_sig = 0 => \A w \in Ways : set.delta[w] = 0

\* The inductive invariant: CountsShare, a count that is never left above its bound,
\* and Untouched, without which a first hit could count as many deltas as signatures.
SetOK(set) == set \in Counters /\ set.c_sig <= C_SIG_MAX /\ CountsShare(set) /\ Untouched(set)

PatternInv == PT \in [PT_SET -> Counters] /\ \A s \in PT_SET : SetOK(PT[s])

\* Halving keeps the order of the counts.  It keeps c_delta < c_sig strict because
\* c_sig is halved only from C_SIG_MAX + 1, an even number.
LEMMA HalvedOK ==
  ASSUME NEW set \in Counters, CountsShare(set), Untouched(set), set.c_sig <= C_SIG_MAX + 1
  PROVE  SetOK(Halved(set))
<1>. USE PatternAssumption
<1>1. CASE ~ (set.c_sig > C_SIG_MAX)
  <2>1. Halved(set) = set
    BY <1>1 DEF Halved
  <2>. QED
    BY <1>1, <2>1 DEF SetOK, Counters
<1>2. CASE set.c_sig > C_SIG_MAX
  <2>. DEFINE h == Halved(set)
  <2>1. /\ h.delta = set.delta
        /\ h.c_delta = [w \in Ways |-> set.c_delta[w] \div 2]
        /\ h.c_sig = set.c_sig \div 2
        /\ h = [delta |-> h.delta, c_delta |-> h.c_delta, c_sig |-> h.c_sig]
    BY <1>2 DEF Halved
  <2>2. /\ set.c_sig \in Nat /\ set.c_delta \in [Ways -> Nat] /\ set.delta \in [Ways -> Deltas]
    BY DEF Counters
  <2>3. h \in Counters
    BY <2>1, <2>2 DEF Counters
  <2>4. h.c_sig <= C_SIG_MAX
    BY <2>1, <2>2
  <2>5. \A v, w \in Ways : v # w => h.c_delta[v] + h.c_delta[w] <= h.c_sig
    BY <2>1, <2>2 DEF CountsShare
  <2>6. \A w \in Ways : h.c_delta[w] > 0 => h.c_delta[w] < h.c_sig
    <3>1. set.c_sig = C_SIG_MAX + 1
      BY <1>2, <2>2
    <3>2. h.c_sig = (C_SIG_MAX + 1) \div 2 /\ 2 * h.c_sig = C_SIG_MAX + 1
      BY <2>1, <3>1
    <3>3. SUFFICES ASSUME NEW w \in Ways, h.c_delta[w] > 0
                   PROVE  h.c_delta[w] < h.c_sig
      OBVIOUS
    <3>4. h.c_delta[w] = set.c_delta[w] \div 2 /\ set.c_delta[w] \in Nat
      BY <2>1, <2>2
    <3>5. set.c_delta[w] < set.c_sig
      BY <3>3, <3>4 DEF CountsShare
    <3>. QED
      BY <3>1, <3>2, <3>4, <3>5, <2>2
  <2>7. h.c_sig > 0
    BY <1>2, <2>1, <2>2
  <2>. QED
    BY <2>3, <2>4, <2>5, <2>6, <2>7 DEF SetOK, CountsShare, Untouched
<1>. QED
  BY <1>1, <1>2

LEMMA UpdatedOK ==
  ASSUME NEW set, SetOK(set), NEW d \in Deltas, d # 0
  PROVE  SetOK(Updated(set, d))
<1>. USE PatternAssumption
<1>1. /\ set.delta \in [Ways -> Deltas] /\ set.c_delta \in [Ways -> Nat] /\ set.c_sig \in Nat
      /\ set.c_sig <= C_SIG_MAX /\ CountsShare(set) /\ Untouched(set)
  BY DEF SetOK, Counters
<1>2. CASE Hits(set, d) # {}
  <2>. DEFINE hit == FirstOf(Hits(set, d))
              counts == [set.c_delta EXCEPT ![hit] = @ + 1]
              next == [delta |-> set.delta, c_delta |-> counts, c_sig |-> set.c_sig + 1]
  <2>1. set.c_sig > 0
    BY <1>1, <1>2 DEF Hits, Untouched
  <2>2. \A w \in Ways : counts[w] = IF w = hit THEN set.c_delta[w] + 1 ELSE set.c_delta[w]
    BY <1>1
  <2>3. counts \in [Ways -> Nat]
    <3>1. \A w \in Ways : counts[w] \in Nat
      BY <1>1, <2>2
    <3>2. counts = [w \in Ways |-> counts[w]]
      BY <1>1
    <3>. QED
      BY <3>1, <3>2
  <2>. HIDE DEF counts, hit
  <2>4. next \in Counters
    BY <1>1, <2>3 DEF Counters
  <2>5. CountsShare(next)
    BY <1>1, <2>1, <2>2 DEF CountsShare
  <2>6. Untouched(next) /\ next.c_sig <= C_SIG_MAX + 1
    BY <1>1 DEF Untouched
  <2>7. SetOK(Halved(next))
    BY <2>4, <2>5, <2>6, HalvedOK
  <2>. QED
    BY <1>2, <2>7 DEF Updated, counts, hit
<1>3. CASE Hits(set, d) = {}
  <2>. DEFINE victim == FirstOf(Victims(set))
              counts == [set.c_delta EXCEPT ![victim] = 0]
              next == [delta |-> [set.delta EXCEPT ![victim] = d], c_delta |-> counts,
                       c_sig |-> set.c_sig + 1]
  <2>2. \A w \in Ways : counts[w] = IF w = victim THEN 0 ELSE set.c_delta[w]
    BY <1>1
  <2>3. counts \in [Ways -> Nat] /\ [set.delta EXCEPT ![victim] = d] \in [Ways -> Deltas]
    BY <1>1
  <2>. HIDE DEF counts, victim
  <2>4. next \in Counters
    BY <1>1, <2>3 DEF Counters
  <2>5. CountsShare(next)
    BY <1>1, <2>2 DEF CountsShare
  <2>6. Untouched(next) /\ next.c_sig <= C_SIG_MAX + 1
    BY <1>1 DEF Untouched
  <2>7. SetOK(Halved(next))
    BY <2>4, <2>5, <2>6, HalvedOK
  <2>. QED
    BY <1>3, <2>7 DEF Updated, counts, victim
<1>. QED
  BY <1>2, <1>3

LEMMA PatternInvariant == PTSpec => []PatternInv
<1>1. PTInit => PatternInv
  BY PatternAssumption DEF PTInit, PatternInv, SetOK, CountsShare, Counters, Untouched
<1>2. PatternInv /\ [PTNext]_PT => PatternInv'
  <2>. SUFFICES ASSUME PatternInv, [PTNext]_PT PROVE PatternInv'
    OBVIOUS
  <2>1. CASE UNCHANGED PT
    BY <2>1 DEF PatternInv
  <2>2. ASSUME NEW s \in PT_SET, NEW d \in Deltas, UpdatePattern(s, d) PROVE PatternInv'
    <3>1. PT' = [PT EXCEPT ![s] = Updated(PT[s], d)] /\ DOMAIN PT = PT_SET
      BY <2>2 DEF UpdatePattern, PatternInv
    <3>2. SetOK(Updated(PT[s], d))
      BY <2>2, UpdatedOK DEF PatternInv, UpdatePattern
    <3>. QED
      BY <3>1, <3>2 DEF PatternInv, SetOK
  <2>. QED
    BY <2>1, <2>2 DEF PTNext
<1>. QED
  BY <1>1, <1>2, PTL DEF PTSpec

\* The counts of two deltas never share an occurrence, so a confidence is below 100
\* (PATTERN_TABLE::update_pattern and read_pattern).
THEOREM PatternCountersAgree == PTSpec => []CountersAgree
<1>1. PatternInv => CountersAgree
  BY DEF PatternInv, CountersAgree, SetOK
<1>. QED
  BY <1>1, PatternInvariant, PTL

\* The assertion of update_pattern never fails: some count is below C_SIG_MAX.
THEOREM PatternVictimFound == PTSpec => []VictimFound
<1>1. PatternInv => VictimFound
  <2>. SUFFICES ASSUME PatternInv, NEW s \in PT_SET PROVE \E w \in Ways : PT[s].c_delta[w] < C_SIG_MAX
    BY DEF VictimFound
  <2>1. 1 \in Ways
    BY PatternAssumption DEF Ways
  <2>2. SetOK(PT[s])
    BY DEF PatternInv
  <2>3. PT[s].c_delta[1] < C_SIG_MAX
    BY <2>1, <2>2, PatternAssumption DEF SetOK, CountsShare, Counters
  <2>. QED
    BY <2>1, <2>3
<1>. QED
  BY <1>1, PatternInvariant, PTL
=============================================================================
