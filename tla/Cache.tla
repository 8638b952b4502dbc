------------------------------- MODULE Cache -------------------------------
(***************************************************************************)
(* A cache (cache.cc) between the channels of its upper levels and those   *)
(* of its lower level and its translation (a TLB).  Operate is a whole     *)
(* cycle of it.                                                            *)
(*                                                                         *)
(* Latencies count down: an entry is ready when its wait is 0.  What the   *)
(* replacement policy chooses and what the prefetcher asks for is left     *)
(* open; data, cpu and instruction pointers are left out.                  *)
(***************************************************************************)
EXTENDS Channel

CONSTANTS
  Upper,             \* the upper levels
  Block,             \* blocks, virtual and physical
  PageOf,            \* PageOf[b]: the page of a virtual block
  Physical,          \* Physical[b]: the translation of a virtual block
  SetOf,             \* SetOf[b]: get_set_index of a physical block
  Zero,              \* v_address of what has none
  Remote,            \* the virtual blocks that the AddressMap gives to a pool
                     \* (only the LLC has a map)
  NUM_WAY, MSHR_SIZE, PQ_SIZE,
  HIT_LATENCY, FILL_LATENCY,  \* in cycles
  MAX_TAG, MAX_FILL,          \* per cycle
  match_offset_bits,
  RemoteSize         \* room for remote requests

ASSUME CacheAssumption ==
  /\ IsFiniteSet(Upper) /\ Upper # {}
  /\ Physical \in [Block -> Block]
  /\ Zero \notin Block /\ Remote \subseteq Block \cup {Zero}
  /\ NUM_WAY \in Nat \ {0} /\ MSHR_SIZE \in Nat \ {0} /\ PQ_SIZE \in Nat
  /\ HIT_LATENCY \in Nat /\ FILL_LATENCY \in Nat
  /\ MAX_TAG \in Nat \ {0} /\ MAX_FILL \in Nat \ {0}
  /\ match_offset_bits \in BOOLEAN
  /\ RemoteSize \in Nat

VARIABLES
  upper_levels,     \* the channel of each upper level
  order,            \* the order in which they are served
  lower_level, lower_translate,
  block,            \* the ways of each set
  MSHR, inflight_writes, inflight_tag_check, translation_stash, internal_PQ,
  remote            \* remote requests that were accepted

cacheVars == <<upper_levels, order, lower_level, lower_translate, block, MSHR,
               inflight_writes, inflight_tag_check, translation_stash,
               internal_PQ, remote>>

\* The state that a cycle works on.
Now ==
  [upper |-> upper_levels, order |-> order, lower |-> lower_level,
   translate |-> lower_translate, block |-> block, MSHR |-> MSHR,
   writes |-> inflight_writes, tags |-> inflight_tag_check,
   stash |-> translation_stash, PQ |-> internal_PQ, remote |-> remote,
   fills |-> 0, initiated |-> 0]

Become(s) ==
  /\ upper_levels' = s.upper /\ order' = s.order
  /\ lower_level' = s.lower /\ lower_translate' = s.translate
  /\ block' = s.block /\ MSHR' = s.MSHR
  /\ inflight_writes' = s.writes /\ inflight_tag_check' = s.tags
  /\ translation_stash' = s.stash /\ internal_PQ' = s.PQ
  /\ remote' = s.remote

\* Operations that may refuse give the set of the state they lead to, which
\* is empty when they refuse.
Refused == {}

IsReady(e) == e.wait = 0
IsTranslated(e) == e.is_translated

Sooner(q) ==
  Each(q, LAMBDA e : [e EXCEPT !.wait = IF @ = 0 THEN 0 ELSE @ - 1])

\* matches_address
Matching(q, address) ==
  {i \in 1 .. Len(q) : q[i].address[1] = address[1]}

\* The response goes to every level that waits for the entry.
Answered(s, e) ==
  Through(LAMBDA t, u : IF u \in e.to_return
                         THEN [t EXCEPT !.upper[u].returned = Append(@, ResponseTo(e))]
                         ELSE t, s, s.order)

-----------------------------------------------------------------------------
(* Responses *)

\* Mutant of FinishPacket: the entry stays where it is.
FinishPacketInPlace(s, packet) ==
  LET i == Min(Matching(s.MSHR, packet.address))
  IN  [s EXCEPT !.MSHR[i].returned = TRUE, !.MSHR[i].wait = FILL_LATENCY]

\* finish_packet: the entry comes after those returned before and before those
\* not returned.  The code asserts that there is an entry.
FinishPacket(s, packet) ==
  LET i == Min(Matching(s.MSHR, packet.address))
      j == Min({k \in 1 .. Len(s.MSHR) : ~ s.MSHR[k].returned})
      done == [s.MSHR[i] EXCEPT !.returned = TRUE, !.wait = FILL_LATENCY]
  IN  [s EXCEPT !.MSHR = [@ EXCEPT ![i] = s.MSHR[j], ![j] = done]]

FinishPackets(s) ==
  [Through(FinishPacket, s, s.lower.returned) EXCEPT !.lower.returned = << >>]

\* handle_remote_response: the entry comes first.
AfterRemoteResponse(mshr, address) ==
  LET i == Min(Matching(mshr, address))
  IN  <<[mshr[i] EXCEPT !.returned = TRUE, !.wait = FILL_LATENCY]>>
        \o RemoveAt(mshr, i)

\* Mutant of FinishTranslation: only tag checks are looked at.
FinishTranslationTags(s, packet) ==
  LET Mark(e) == IF PageOf[e.v_address[1]] = packet.address[1] /\ ~ e.is_translated
                 THEN [e EXCEPT !.address = <<Physical[e.v_address[1]], e.v_address[2]>>,
                                !.is_translated = TRUE]
                 ELSE e
  IN  [s EXCEPT !.tags = Each(@, Mark)]

\* finish_translation: the entries of the stash that are now translated come
\* before the others.
FinishTranslation(s, packet) ==
  LET onPage(e) == PageOf[e.v_address[1]] = packet.address[1] /\ ~ e.is_translated
      Mark(e) == IF onPage(e)
                 THEN [e EXCEPT !.address = <<Physical[e.v_address[1]], e.v_address[2]>>,
                                !.is_translated = TRUE]
                 ELSE e
      n == Leading(s.stash, Len(s.stash), IsTranslated)
      rest == Rest(s.stash, n)
      marked == SelectSeq(rest, onPage)
  IN  [s EXCEPT
         !.stash = First(@, n) \o Each(marked, Mark)
                     \o SelectSeq(rest, LAMBDA e : ~ onPage(e)),
         !.tags = Each(@, Mark)]

FinishTranslations(s) ==
  [Through(FinishTranslation, s, s.translate.returned)
     EXCEPT !.translate.returned = << >>]

-----------------------------------------------------------------------------
(* Fills *)

NoBlock == [valid |-> FALSE, dirty |-> FALSE, address |-> <<>>, v_address |-> <<>>]

\* fill_block
FillBlock(m) ==
  [valid |-> TRUE, dirty |-> m.type = "WRITE", address |-> m.address, v_address |-> m.v_address]

\* Whether the AddressMap has a pool for the virtual address that came with
\* an entry, whatever its address is.
InPool(e) == e.v_address[1] \in Remote

\* A dirty victim is written back, to a pool or to the lower level, unless
\* there is no room.
WriteBack(s, old) ==
  LET write == [Request("WRITE", old.address, TRUE, FALSE, {})
                  EXCEPT !.v_address = old.v_address]
  IN  CASE ~ (old.valid /\ old.dirty) -> {s}
        [] old.valid /\ old.dirty /\ InPool(old) ->
             IF Len(s.remote) < RemoteSize
             THEN {[s EXCEPT !.remote = Append(@, write)]}
             ELSE Refused
        [] OTHER ->
             IF CanAddWQ(s.lower) THEN {[s EXCEPT !.lower = AddWQ(@, write)]}
                                  ELSE Refused

\* Mutant of Filled: the victim is not looked at.
FilledOver(s, m, set, way) ==
  {Answered([s EXCEPT !.block[set][way] = FillBlock(m)], m)}

Filled(s, m, set, way) ==
  {Answered([t EXCEPT !.block[set][way] = FillBlock(m)], m) :
     t \in WriteBack(s, s.block[set][way])}

\* handle_fill: into a way that is not valid, or else the victim.
HandleFill(s, m, victim) ==
  LET set == SetOf[m.address[1]]
      free == {w \in 1 .. NUM_WAY : ~ s.block[set][w].valid}
  IN  Filled(s, m, set, IF free = {} THEN victim ELSE Min(free))

\* Fills of the entries of q that are ready, in order, until one fails or
\* MAX_FILL fills were done in this cycle.  victim[k] is chosen for the k-th
\* fill.  The result is the state and how many entries were filled.
FillFrom(s, q, victim) ==
  LET ready == First(q, Leading(q, MAX_FILL - s.fills, IsReady))
      Step(acc, m) ==
        LET next == IF acc.stopped THEN Refused
                    ELSE HandleFill(acc.s, m, victim[acc.s.fills + 1])
        IN  IF next = Refused
            THEN [acc EXCEPT !.stopped = TRUE]
            ELSE [acc EXCEPT !.s = [(CHOOSE t \in next : TRUE) EXCEPT !.fills = @ + 1],
                             !.done = @ + 1]
  IN  Through(Step, [s |-> s, done |-> 0, stopped |-> FALSE], ready)

\* Only returned entries of the MSHR can be ready.
Returned(q) == First(q, Leading(q, Len(q), LAMBDA e : e.returned))

Fills(s, victim, victim2) ==
  LET one == FillFrom(s, Returned(s.MSHR), victim)
      t == [one.s EXCEPT !.MSHR = Rest(@, one.done)]
      two == FillFrom(t, t.writes, victim2)
  IN  [two.s EXCEPT !.writes = Rest(@, two.done)]

-----------------------------------------------------------------------------
(* Tag checks *)

\* initiate_tag_check: a request from an upper level, or a prefetch.
TagOf(e, to_return) ==
  [address |-> e.address, v_address |-> e.v_address, type |-> e.type,
   local |-> FALSE, skip_fill |-> FALSE, is_translated |-> e.is_translated,
   issued |-> FALSE, wait |-> HIT_LATENCY, deps |-> e.deps,
   to_return |-> to_return]

\* Mutant of TagRoom: the tag checks that are under way are not counted.
TagRoomAny(s) == MAX_TAG - s.initiated

\* How many tag checks may begin: room for MAX_TAG in each cycle that one
\* takes, at least one.
TagRoom(s) ==
  LET cycles == IF HIT_LATENCY = 0 THEN 1 ELSE HIT_LATENCY
      room == IF MAX_TAG * cycles <= Len(s.tags) THEN 0
              ELSE MAX_TAG * cycles - Len(s.tags)
  IN  LowerOf(room, MAX_TAG) - s.initiated

\* transform_while_n: the front n entries of q begin their tag check.
Begin(s, entries) ==
  [s EXCEPT !.tags = @ \o entries, !.initiated = @ + Len(entries)]

FromStash(s, room) ==
  LET n == Leading(s.stash, room, IsTranslated)
      again == Each(First(s.stash, n), LAMBDA e : [e EXCEPT !.wait = HIT_LATENCY])
  IN  [Begin(s, again) EXCEPT !.stash = Rest(@, n)]

\* Mutant of MayBegin: with a full stash no tag check begins.
MayBeginNone(e, canTranslate) == canTranslate

\* No tag check that needs a translation begins while the stash is full.
MayBegin(e, canTranslate) == canTranslate \/ e.is_translated

\* One queue of an upper level: at most share entries.
FromQueue(s, u, name, share, room, canTranslate) ==
  LET q == s.upper[u][name]
      n == Leading(q, LowerOf(share, room - s.initiated),
                   LAMBDA e : MayBegin(e, canTranslate))
      begun == Each(First(q, n), LAMBDA e :
                      TagOf(e, IF e.response_requested THEN {u} ELSE {}))
  IN  [Begin(s, begun) EXCEPT !.upper[u][name] = Rest(@, n)]

FromInternal(s, room, canTranslate) ==
  LET n == Leading(s.PQ, room - s.initiated,
                   LAMBDA e : MayBegin(e, canTranslate))
  IN  [Begin(s, First(s.PQ, n)) EXCEPT !.PQ = Rest(@, n)]

Rotated(q) == IF Len(q) > 1 THEN Tail(q) \o <<Head(q)>> ELSE q

\* Stash first, then an equal share for each upper level, then prefetches.
Initiate(s) ==
  LET room == TagRoom(s)
      canTranslate == Len(s.stash) < MSHR_SIZE
      stashed == FromStash(s, room)
      rotated == [stashed EXCEPT !.order = Rotated(@)]
      even == (room - rotated.initiated) \div Len(order)
      share == IF even = 0 THEN 1 ELSE even
      Serve(t, u) ==
        Through(LAMBDA x, name : FromQueue(x, u, name, share, room, canTranslate),
                 t, <<"WQ", "RQ", "PQ">>)
  IN  FromInternal(Through(Serve, rotated, rotated.order), room, canTranslate)

\* issue_translation for all that need one, first the tag checks.
IssueTranslations(s) ==
  LET Issue(t, e) ==
        IF e.issued \/ e.is_translated \/ ~ CanAddRQ(t.translate)
        THEN [t EXCEPT !.q = Append(@, e)]
        ELSE [q |-> Append(t.q, [e EXCEPT !.issued = TRUE]),
              translate |-> AddRQ(t.translate,
                Request("LOAD", <<PageOf[e.v_address[1]], e.v_address[1]>>,
                        TRUE, TRUE, {}))]
      one == Through(Issue, [q |-> << >>, translate |-> s.translate], s.tags)
      two == Through(Issue, [q |-> << >>, translate |-> one.translate], s.stash)
  IN  [s EXCEPT !.tags = one.q, !.stash = two.q, !.translate = two.translate]

\* Tag checks that are due but not translated go to the stash.
StashMissed(s) ==
  LET missed(e) == IsReady(e) /\ ~ IsTranslated(e)
  IN  [s EXCEPT !.stash = @ \o SelectSeq(s.tags, missed),
                !.tags = SelectSeq(@, LAMBDA e : ~ missed(e))]

HitWays(s, e) ==
  {w \in 1 .. NUM_WAY :
     /\ s.block[SetOf[e.address[1]]][w].valid
     /\ s.block[SetOf[e.address[1]]][w].address[1] = e.address[1]}

\* try_hit, which refuses a miss.
TryHit(s, e) ==
  LET hit == HitWays(s, e)
  IN  IF hit = {} THEN Refused
      ELSE {Answered([s EXCEPT !.block[SetOf[e.address[1]]][Min(hit)].dirty =
                        @ \/ e.type = "WRITE"], e)}

\* handle_write: like a fill.
HandleWrite(s, e) ==
  {[s EXCEPT !.writes = Append(@,
      [address |-> e.address, v_address |-> e.v_address, type |-> e.type, deps |-> e.deps,
       to_return |-> e.to_return, local |-> e.local, returned |-> TRUE,
       wait |-> FILL_LATENCY])]}

ToAllocate(e) ==
  [address |-> e.address, v_address |-> e.v_address, type |-> e.type, deps |-> e.deps,
   to_return |-> e.to_return, local |-> e.local, returned |-> FALSE, wait |-> 0]

\* Mutant of Merge: the predecessor's levels are dropped.
MergeNewest(predecessor, successor) == successor

\* mshr_type::merge
Merge(predecessor, successor) ==
  [IF successor.type = "PREFETCH" THEN predecessor ELSE successor EXCEPT
     !.deps = predecessor.deps \cup successor.deps,
     !.to_return = predecessor.to_return \cup successor.to_return,
     !.returned = predecessor.returned, !.wait = predecessor.wait]

\* The request for the lower level: for a write the block is read.  For a
\* prefetch of this cache that it will not keep, no response is asked for.
Forwarded(e) ==
  [Request(IF e.type = "WRITE" THEN "RFO" ELSE e.type, e.address, TRUE,
           ~ e.local \/ ~ e.skip_fill, e.deps) EXCEPT !.v_address = e.v_address]

\* Where the request is sent: to a pool or to a queue of the lower level.
SendDown(s, packet) ==
  CASE InPool(packet) ->
         IF Len(s.remote) < RemoteSize
         THEN {[s EXCEPT !.remote = Append(@, packet)]} ELSE Refused
    [] ~ InPool(packet) /\ packet.type # "PREFETCH" ->
         IF CanAddRQ(s.lower) THEN {[s EXCEPT !.lower = AddRQ(@, packet)]} ELSE Refused
    [] OTHER ->
         IF CanAddPQ(s.lower) THEN {[s EXCEPT !.lower = AddPQ(@, packet)]} ELSE Refused

\* Mutant of InFlight: the MSHR is not searched.
InFlightNever(s, e) == {}

InFlight(s, e) == Matching(s.MSHR, e.address)

\* handle_miss
HandleMiss(s, e) ==
  CASE InFlight(s, e) # {} ->
         {[s EXCEPT !.MSHR[Min(InFlight(s, e))] = Merge(@, ToAllocate(e))]}
    [] InFlight(s, e) = {} /\ Len(s.MSHR) >= MSHR_SIZE -> Refused
    [] OTHER ->
         {[t EXCEPT !.MSHR = IF Forwarded(e).response_requested
                             THEN Append(@, ToAllocate(e)) ELSE @] :
            t \in SendDown(s, Forwarded(e))}

DoHandleMiss(s, e) ==
  IF e.type = "WRITE" /\ ~ match_offset_bits THEN HandleWrite(s, e)
                                             ELSE HandleMiss(s, e)

\* All entries of q are tried in turn; those refused stay in order.
TryAll(s, q, Op(_, _)) ==
  Through(LAMBDA acc, e :
             LET next == Op(acc.s, e)
             IN  IF next = Refused
                 THEN [acc EXCEPT !.left = Append(@, e)]
                 ELSE [acc EXCEPT !.s = CHOOSE t \in next : TRUE],
           [s |-> s, left |-> << >>], q)

CheckTags(s) ==
  LET n == Leading(s.tags, MAX_TAG, LAMBDA e : IsReady(e) /\ IsTranslated(e))
      hits == TryAll(s, First(s.tags, n), TryHit)
      misses == TryAll(hits.s, hits.left, DoHandleMiss)
  IN  [misses.s EXCEPT !.tags = misses.left \o Rest(@, n)]

-----------------------------------------------------------------------------
Init ==
  /\ order \in {q \in [1 .. Cardinality(Upper) -> Upper] : Distinct(q)}
  /\ block = [s \in {SetOf[b] : b \in Block} |-> [w \in 1 .. NUM_WAY |-> NoBlock]]
  /\ MSHR = << >> /\ inflight_writes = << >> /\ inflight_tag_check = << >>
  /\ translation_stash = << >> /\ internal_PQ = << >> /\ remote = << >>

Started(s) ==
  [s EXCEPT !.upper = Through(LAMBDA f, u : [f EXCEPT ![u] = CheckCollision(@)],
                               @, s.order),
            !.MSHR = Sooner(@), !.writes = Sooner(@), !.tags = Sooner(@)]

\* operate(): (Each \E has one value and names the state between two parts.)
Operate ==
  \E victim, victim2 \in [1 .. MAX_FILL -> 1 .. NUM_WAY] :
  \E responded \in {FinishTranslations(FinishPackets(Started(Now)))} :
  \E filled \in {Fills(responded, victim, victim2)} :
  \E begun \in {Initiate(filled)} :
  \E issued \in {StashMissed(IssueTranslations(begun))} :
  \E checked \in {CheckTags(issued)} :
    Become(checked)

\* handle_remote_response, called from the handler of the link.
HandleRemoteResponse(address) ==
  /\ MSHR' = AfterRemoteResponse(MSHR, address)
  /\ UNCHANGED <<upper_levels, order, lower_level, lower_translate, block,
                 inflight_writes, inflight_tag_check, translation_stash,
                 internal_PQ, remote>>

\* prefetch_line by a physical address (not virtual_prefetch), called by the
\* prefetcher in the cycle.
PrefetchLine(address, fill) ==
  /\ Len(internal_PQ) < PQ_SIZE
  /\ internal_PQ' = Append(internal_PQ,
       [TagOf(Request("PREFETCH", address, TRUE, FALSE, {}), {})
          EXCEPT !.v_address = <<Zero, 0>>, !.local = TRUE, !.skip_fill = ~ fill])
  /\ UNCHANGED <<upper_levels, order, lower_level, lower_translate, block, MSHR,
                 inflight_writes, inflight_tag_check, translation_stash, remote>>
=============================================================================
