---------------------------- MODULE CacheSystem ----------------------------
(***************************************************************************)
(* A cache with the levels around it.  Each upper level has a few requests *)
(* outstanding at a time, and stores (or writebacks) besides.  The level   *)
(* below and the pools take requests when they like and answer in any      *)
(* order.  The TLB answers after a page walk, and a walk (ptw.cc) reads a  *)
(* page table entry through this same cache, as an L1D is wired.           *)
(***************************************************************************)
EXTENDS Cache

CONSTANTS
  Slots,        \* Slots[u]: how many requests upper level u has outstanding
  Asks,         \* Asks[u]: what u asks for: pairs of a type and a block
  Walker,       \* the upper levels that read for page walks
  Translated,   \* Translated[u]: its requests carry physical addresses
  Virtual,      \* Virtual[b]: the virtual block that comes with a physical one
  MaxWrites,    \* bound on the writes of a block that wait to be filled
                \* (handle_write has none)
  Prefetches,   \* the blocks that the prefetcher asks for
  QueueSize     \* of all channels

ASSUME SystemAssumption ==
  /\ Slots \in [Upper -> Nat]
  /\ Asks \in [Upper -> SUBSET ({"LOAD", "PREFETCH", "WRITE"} \X Block)]
  /\ Walker \subseteq Upper
  /\ Translated \in [Upper -> BOOLEAN]
  /\ Virtual \in [Block -> Block]
  /\ MaxWrites \in Nat \ {0} /\ Prefetches \subseteq Block
  /\ QueueSize \in Nat \ {0}

VARIABLES
  waiting,     \* the requests <<u, i>> that their level has outstanding
  reading,     \* blocks that the lower level has been asked for
  walking,     \* pages that the TLB has been asked for, and whether their
               \* walk has read what it needs
  pooled,      \* blocks that the pools have been asked for
  unwritten,   \* history: blocks that were written and not yet written back
  odd          \* changes with every cycle

envVars == <<waiting, reading, walking, pooled, unwritten>>
vars == <<cacheVars, envVars, odd>>

SystemInit ==
  /\ Init
  /\ upper_levels = [u \in Upper |->
       NewChannel(QueueSize, QueueSize, QueueSize, match_offset_bits)]
  /\ lower_level = NewChannel(QueueSize, QueueSize, QueueSize, FALSE)
  /\ lower_translate = NewChannel(QueueSize, QueueSize, QueueSize, FALSE)
  /\ waiting = {} /\ reading = << >> /\ walking = << >> /\ pooled = {}
  /\ unwritten = {} /\ odd = FALSE

PhysicalOf(u, b) == IF Translated[u] THEN b ELSE Physical[b]

\* Physical block of an entry that may wait for its translation.
BlockOf(e) == IF e.is_translated THEN e.address[1] ELSE Physical[e.v_address[1]]

\* A request of level u for block b; a prefetch by physical address has no
\* virtual one, and no cache above gives it one.
Asking(u, type, b, response_requested, deps) ==
  [Request(type, <<b, 0>>, Translated[u], response_requested, deps) EXCEPT
     !.v_address = <<IF ~ Translated[u] THEN b
                     ELSE IF type = "PREFETCH" THEN Zero ELSE Virtual[b], 0>>]

UnchangedButUpper ==
  UNCHANGED <<order, lower_level, lower_translate, block, MSHR, inflight_writes,
              inflight_tag_check, translation_stash, internal_PQ, remote>>

Ask(u, i, type, b) ==
  LET e == Asking(u, type, b, TRUE, {<<u, i>>})
      ch == upper_levels[u]
  IN  /\ type # "WRITE" /\ <<type, b>> \in Asks[u]
      /\ u \in Walker => \E j \in 1 .. Len(walking) : ~ walking[j].read
      /\ <<u, i>> \notin waiting
      /\ \/ type = "LOAD" /\ CanAddRQ(ch)
              /\ upper_levels' = [upper_levels EXCEPT ![u] = AddRQ(ch, e)]
         \/ type = "PREFETCH" /\ CanAddPQ(ch)
              /\ upper_levels' = [upper_levels EXCEPT ![u] = AddPQ(ch, e)]
      /\ waiting' = waiting \cup {<<u, i>>}
      /\ UnchangedButUpper /\ UNCHANGED <<reading, walking, pooled, unwritten>>

\* The writes of block b that wait to be filled.
Unfilled(b) ==
  Cardinality({i \in 1 .. Len(inflight_tag_check) :
                 inflight_tag_check[i].type = "WRITE" /\ BlockOf(inflight_tag_check[i]) = b})
    + Cardinality({i \in 1 .. Len(inflight_writes) : inflight_writes[i].address[1] = b})

Write(u, b) ==
  /\ <<"WRITE", b>> \in Asks[u] /\ CanAddWQ(upper_levels[u])
  /\ Unfilled(PhysicalOf(u, b)) < MaxWrites
  /\ upper_levels' = [upper_levels EXCEPT ![u] =
       AddWQ(@, Asking(u, "WRITE", b, FALSE, {}))]
  /\ unwritten' = unwritten \cup {PhysicalOf(u, b)}
  /\ UnchangedButUpper /\ UNCHANGED <<waiting, reading, walking, pooled>>

\* The oldest walk that has not read yet has now read.
Walked(q) ==
  [q EXCEPT ![Min({i \in 1 .. Len(q) : ~ q[i].read})].read = TRUE]

\* The upper level handles all its responses.
Collect(u) ==
  LET back == UNION {e.deps : e \in Elements(upper_levels[u].returned)}
  IN  /\ upper_levels[u].returned # << >>
      /\ upper_levels' = [upper_levels EXCEPT ![u].returned = << >>]
      /\ waiting' = waiting \ {k \in back : k[1] = u}
      /\ walking' = IF u \in Walker THEN Walked(walking) ELSE walking
      /\ UnchangedButUpper /\ UNCHANGED <<reading, pooled, unwritten>>

Cycle == Operate /\ odd' = ~ odd /\ UNCHANGED envVars

Prefetch(b, fill) == PrefetchLine(<<b, 0>>, fill) /\ UNCHANGED envVars

UnchangedButLower ==
  UNCHANGED <<upper_levels, order, lower_translate, block, MSHR, inflight_writes,
              inflight_tag_check, translation_stash, internal_PQ, remote>>

\* The lower level checks collisions and takes what it likes.
LowerTakes(name) ==
  LET c == CheckCollision(lower_level)
      e == Head(c[name])
  IN  /\ c[name] # << >>
      /\ lower_level' = [c EXCEPT ![name] = Tail(@)]
      /\ reading' = IF e.response_requested THEN Append(reading, e.address)
                                            ELSE reading
      /\ unwritten' = IF name = "WQ" THEN unwritten \ {e.address[1]} ELSE unwritten
      /\ UnchangedButLower /\ UNCHANGED <<waiting, walking, pooled>>

LowerResponds(i) ==
  /\ i \in 1 .. Len(reading)
  /\ lower_level' = [lower_level EXCEPT !.returned =
       Append(@, [address |-> reading[i], deps |-> {}])]
  /\ reading' = RemoveAt(reading, i)
  /\ UnchangedButLower /\ UNCHANGED <<waiting, walking, pooled, unwritten>>

UnchangedButTranslate ==
  UNCHANGED <<upper_levels, order, lower_level, block, MSHR, inflight_writes,
              inflight_tag_check, translation_stash, internal_PQ, remote>>

\* Requests for one page share a walk (they merge in the MSHR of the TLB).
TranslateTakes ==
  LET c == CheckCollision(lower_translate)
      page == Head(c.RQ).address
  IN  /\ c.RQ # << >>
      /\ lower_translate' = [c EXCEPT !.RQ = Tail(@)]
      /\ walking' = IF \E x \in Elements(walking) : x.address[1] = page[1]
                    THEN walking
                    ELSE Append(walking, [address |-> page, read |-> Walker = {}])
      /\ UnchangedButTranslate /\ UNCHANGED <<waiting, reading, pooled, unwritten>>

TranslateResponds(i) ==
  /\ i \in 1 .. Len(walking) /\ walking[i].read
  /\ lower_translate' = [lower_translate EXCEPT !.returned =
       Append(@, [address |-> walking[i].address, deps |-> {}])]
  /\ walking' = RemoveAt(walking, i)
  /\ UnchangedButTranslate /\ UNCHANGED <<waiting, reading, pooled, unwritten>>

UnchangedButRemote ==
  UNCHANGED <<upper_levels, order, lower_level, lower_translate, block, MSHR,
              inflight_writes, inflight_tag_check, translation_stash, internal_PQ>>

\* A pool answers every request but a writeback.
PoolTakes ==
  /\ remote # << >>
  /\ remote' = Tail(remote)
  /\ IF Head(remote).type = "WRITE"
     THEN pooled' = pooled /\ unwritten' = unwritten \ {Head(remote).address[1]}
     ELSE pooled' = pooled \cup {Head(remote).address} /\ unwritten' = unwritten
  /\ UnchangedButRemote /\ UNCHANGED <<waiting, reading, walking>>

PoolResponds(a) ==
  /\ a \in pooled
  /\ HandleRemoteResponse(a)
  /\ pooled' = pooled \ {a}
  /\ UNCHANGED <<waiting, reading, walking, unwritten>>

Environment ==
  \/ \E u \in Upper, b \in Block :
       \/ \E i \in 1 .. Slots[u], type \in {"LOAD", "PREFETCH"} : Ask(u, i, type, b)
       \/ Write(u, b)
  \/ \E u \in Upper : Collect(u)
  \/ \E b \in Prefetches, fill \in BOOLEAN : Prefetch(b, fill)
  \/ \E name \in {"RQ", "WQ", "PQ"} : LowerTakes(name)
  \/ \E i \in 1 .. Len(reading) : LowerResponds(i)
  \/ TranslateTakes
  \/ \E i \in 1 .. Len(walking) : TranslateResponds(i)
  \/ PoolTakes
  \/ \E b \in Block : PoolResponds(<<b, 0>>)

Next == Cycle \/ (Environment /\ UNCHANGED odd)

Spec == SystemInit /\ [][Next]_vars

-----------------------------------------------------------------------------
(* Properties *)

\* How many entries of q are for request k of an upper level.
About(q, k) == Cardinality({i \in 1 .. Len(q) : k \in q[i].deps})

\* How many entries of q, in the cache, answer request k to its level.
Owing(q, k) ==
  Cardinality({i \in 1 .. Len(q) : k \in q[i].deps /\ k[1] \in q[i].to_return})

\* A request is in exactly one place from when it is accepted to when its
\* response is collected: however it is merged, stashed for a translation,
\* refused and retried, no requester is forgotten or answered twice.
AnsweredOnce ==
  \A u \in Upper : \A i \in 1 .. Slots[u] :
    LET k == <<u, i>>
        ch == upper_levels[u]
    IN  About(ch.RQ, k) + About(ch.PQ, k) + About(ch.returned, k)
          + Owing(inflight_tag_check, k) + Owing(translation_stash, k)
          + Owing(MSHR, k) + Owing(inflight_writes, k)
        = IF k \in waiting THEN 1 ELSE 0

Asked(b) ==
  Cardinality({i \in 1 .. Len(reading) : reading[i][1] = b})
    + Cardinality({i \in 1 .. Len(lower_level.returned) :
                     lower_level.returned[i].address[1] = b})
    + Cardinality({i \in 1 .. Len(lower_level.RQ) : lower_level.RQ[i].address[1] = b})
    + Cardinality({i \in 1 .. Len(lower_level.PQ) :
                     lower_level.PQ[i].address[1] = b
                       /\ lower_level.PQ[i].response_requested})
    + Cardinality({i \in 1 .. Len(remote) :
                     remote[i].address[1] = b /\ remote[i].type # "WRITE"})
    + Cardinality({a \in pooled : a[1] = b})

\* A block has at most one MSHR entry, and exactly one request or response on
\* its way below if that entry has not returned, else none: finish_packet and
\* handle_remote_response find what they assert to find, and finish_packet
\* finds an entry that has not returned to change places with.
OneRequestPerEntry ==
  \A b \in Block :
    LET entries == {i \in 1 .. Len(MSHR) : MSHR[i].address[1] = b}
    IN  /\ Cardinality(entries) <= 1
        /\ Asked(b) = Cardinality({i \in entries : ~ MSHR[i].returned})

\* "Order this entry after previously-returned entries, but before non-returned
\* entries": the fills of a cycle begin at the front of the MSHR and would
\* otherwise not reach what has returned.
ReturnedFirst ==
  \A i, j \in 1 .. Len(MSHR) : MSHR[j].returned /\ i < j => MSHR[i].returned

\* The ways of a set that have block b.
WaysOf(s, b) ==
  {w \in 1 .. NUM_WAY : block[s][w].valid /\ block[s][w].address[1] = b}

\* A writeback that misses is compared neither with the MSHR nor with other
\* writebacks, and a block may come to be in several ways.  But it is read once: one
\* copy at most is clean, and none while the MSHR has an entry for the block.
OneCleanCopy ==
  \A b \in {Physical[x] : x \in Block} :
    LET clean == {w \in WaysOf(SetOf[b], b) : ~ block[SetOf[b]][w].dirty}
    IN  Cardinality(clean) + Cardinality({i \in 1 .. Len(MSHR) : MSHR[i].address[1] = b}) <= 1

Writes(q, b) == \E i \in 1 .. Len(q) : q[i].type = "WRITE" /\ BlockOf(q[i]) = b

WritesPhysical(q, b) ==
  \E i \in 1 .. Len(q) : q[i].type = "WRITE" /\ q[i].address[1] = b

\* What was written to a block is not lost: until it is written back, the block
\* is dirty, or a write to it or a writeback of it waits somewhere.
NoWriteLost ==
  \A b \in unwritten :
    \/ \E u \in Upper : Writes(upper_levels[u].WQ, b)
    \/ Writes(inflight_tag_check, b) \/ Writes(translation_stash, b)
    \/ WritesPhysical(MSHR, b) \/ WritesPhysical(inflight_writes, b)
    \/ \E w \in 1 .. NUM_WAY :
         LET c == block[SetOf[b]][w] IN c.valid /\ c.dirty /\ c.address[1] = b
    \/ WritesPhysical(lower_level.WQ, b) \/ WritesPhysical(remote, b)

\* A tag check that waits for a translation which was asked for will get it.
TranslationOwed ==
  \A e \in Elements(inflight_tag_check) \cup Elements(translation_stash) :
    e.issued /\ ~ e.is_translated =>
      LET page == PageOf[e.v_address[1]]
      IN  \/ \E x \in Elements(lower_translate.RQ) : x.address[1] = page
          \/ \E x \in Elements(walking) : x.address[1] = page
          \/ \E x \in Elements(lower_translate.returned) : x.address[1] = page

TypeOK ==
  /\ waiting \subseteq {<<u, i>> : u \in Upper, i \in 1 .. 9}
  /\ Len(MSHR) <= MSHR_SIZE
  /\ Len(inflight_tag_check) <= MAX_TAG * (IF HIT_LATENCY = 0 THEN 1 ELSE HIT_LATENCY)
  /\ Len(translation_stash) < MSHR_SIZE + MAX_TAG * (1 + HIT_LATENCY)
  /\ Len(internal_PQ) <= PQ_SIZE
  /\ Len(lower_level.WQ) <= QueueSize /\ Len(remote) <= RemoteSize

\* Every request is answered in the end.
Answers == \A u \in Upper : \A i \in 1 .. Slots[u] :
  (<<u, i>> \in waiting) ~> (<<u, i>> \notin waiting)
=============================================================================
