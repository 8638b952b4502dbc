-------------------------------- MODULE Ampm --------------------------------
(***************************************************************************)
(* The prefetcher va_ampm_lite: maps of the blocks that were accessed and  *)
(* prefetched, for the regions (pages) used last.  An access looks in both *)
(* directions for blocks that continue a stride which ends in it.          *)
(*                                                                         *)
(* The regions are an lru_table of one set: the list of its entries, the   *)
(* last used first (module RecencyList).  Every look at a region is a use. *)
(***************************************************************************)
EXTENDS Queues

CONSTANTS
  Blocks,               \* that are accessed
  PageBlocks,
  REGION_WAYS, MAX_DISTANCE, PREFETCH_DEGREE,
  PQ_SIZE

AmpmAssumption ==
  /\ Blocks \subseteq Int /\ PageBlocks \in Nat \ {0}
  /\ REGION_WAYS \in Nat \ {0} /\ MAX_DISTANCE \in Nat /\ PREFETCH_DEGREE \in Nat \ {0}

VARIABLES
  regions,              \* of [vpn, access_map, prefetch_map]
  internal_PQ,          \* how many prefetches are in the queue
  done,                 \* blocks accessed in or prefetched into a region while it was tracked
  again                 \* some prefetch was of such a block

vars == <<regions, internal_PQ, done, again>>

Page(b) == b \div PageBlocks
NewRegion(vpn) == [vpn |-> vpn, access_map |-> {}, prefetch_map |-> {}]

Region(q, vpn) == SelectSeq(q, LAMBDA r : r.vpn = vpn)
CheckHit(q, vpn) == Region(q, vpn) \o SelectSeq(q, LAMBDA r : r.vpn # vpn)

\* fill, on the state s of a call: what is known of the region that goes is forgotten.
FillRegion(s, r) ==
  LET q == <<r>> \o SelectSeq(s.regions, LAMBDA x : x.vpn # r.vpn)
  IN  IF Len(q) <= REGION_WAYS THEN [s EXCEPT !.regions = q]
      ELSE [s EXCEPT !.regions = First(q, REGION_WAYS), !.done = {b \in @ : Page(b) # q[Len(q)].vpn}]

Looked(s, b) == [s EXCEPT !.regions = CheckHit(@, Page(b))]
Accessed(s, b) == \E i \in DOMAIN s.regions : s.regions[i].vpn = Page(b) /\ b \in s.regions[i].access_map
Prefetched(s, b) == \E i \in DOMAIN s.regions : s.regions[i].vpn = Page(b) /\ b \in s.regions[i].prefetch_map

\* The four checks in their order, of which the first that fails is the last: the state
\* after them, and whether all held.
Checked(s, neg, neg2, pos) ==
  LET s1 == Looked(s, neg)
      s2 == Looked(s1, neg2)
      s3 == Looked(s2, pos)
  IN  CASE ~ Accessed(s1, neg) -> [state |-> s1, ok |-> FALSE]
        [] Accessed(s1, neg) /\ ~ Accessed(s2, neg2) -> [state |-> s2, ok |-> FALSE]
        [] OTHER -> [state |-> s3, ok |-> ~ Accessed(s3, pos) /\ ~ Prefetched(s3, pos)]


\* The prefetched block is marked in its region, which is allocated if need be.
Marked(s, b) ==
  LET hit == Region(s.regions, Page(b))
      region == IF hit = << >> THEN NewRegion(Page(b)) ELSE hit[1]
  IN  FillRegion(Looked(s, b), [region EXCEPT !.prefetch_map = @ \cup {b}])

\* prefetch_line takes the prefetch if the queue has room.
Issued(s, pos) ==
  IF s.pq >= PQ_SIZE THEN s
  ELSE LET m == Marked([s EXCEPT !.pq = @ + 1, !.issued = @ + 1, !.again = @ \/ pos \in s.done], pos)
       IN  [m EXCEPT !.done = @ \cup {pos}]

Turn(s, b, direction, i) ==
  IF s.issued >= PREFETCH_DEGREE THEN s
  ELSE LET c == Checked(s, b - direction * i, b - direction * 2 * i, b + direction * i)
       IN  IF c.ok THEN Issued(c.state, b + direction * i) ELSE c.state

Direction(s, b, direction) ==
  Through(LAMBDA t, i : Turn(t, b, direction, i), [s EXCEPT !.issued = 0], [i \in 1 .. MAX_DISTANCE |-> i])

Init ==
  /\ regions = << >> /\ internal_PQ = 0
  /\ done = {} /\ again = FALSE

\* prefetcher_cache_operate.  The first access to a region only allocates it: the block
\* is not marked as accessed.
Access(b) ==
  LET s == [regions |-> CheckHit(regions, Page(b)), done |-> done, pq |-> internal_PQ, issued |-> 0, again |-> again]
      hit == Region(regions, Page(b))
  IN  \E t \in {IF hit = << >> THEN FillRegion(s, NewRegion(Page(b)))
               ELSE LET marked == FillRegion(s, [hit[1] EXCEPT !.access_map = @ \cup {b}])
                    IN  Direction(Direction([marked EXCEPT !.done = @ \cup {b}], b, 1), b, -1)} :
        regions' = t.regions /\ internal_PQ' = t.pq /\ done' = t.done /\ again' = t.again

\* The cache takes a prefetch from the queue.
Drain ==
  /\ internal_PQ > 0 /\ internal_PQ' = internal_PQ - 1
  /\ UNCHANGED <<regions, done, again>>

Next == (\E b \in Blocks : Access(b)) \/ Drain

Spec == Init /\ [][Next]_vars

-----------------------------------------------------------------------------
\* While a region is tracked no block of it is prefetched twice, and none that was
\* accessed (except by the access that allocated the region), although a call works with
\* copies of regions that its own marks move, change and evict.
NeverAgain == ~ again

\* The maps and the history of a region are the same: no mark is lost, and none outlives
\* the region.
MarksKept == done = UNION {regions[i].access_map \cup regions[i].prefetch_map : i \in DOMAIN regions}
=============================================================================
