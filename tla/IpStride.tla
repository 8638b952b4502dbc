------------------------------ MODULE IpStride ------------------------------
(***************************************************************************)
(* The prefetcher ip_stride.  An access that repeats the stride of its     *)
(* instruction starts a lookahead, of which each cycle issues one step if  *)
(* the prefetch queue of the cache takes it.                               *)
(*                                                                         *)
(* The tracker is an lru_table; its set is the list of its entries, the    *)
(* last used first (module RecencyList).                                   *)
(***************************************************************************)
EXTENDS Integers, Sequences

CONSTANTS
  Ips, Blocks, PageBlocks,
  TRACKER_WAYS, PREFETCH_DEGREE,
  PQ_SIZE,
  virtual_prefetch,
  MaxAccess            \* bound

StrideAssumption ==
  /\ Ips \subseteq Nat /\ Blocks \subseteq Nat /\ PageBlocks \in Nat \ {0}
  /\ TRACKER_WAYS \in Nat \ {0} /\ PREFETCH_DEGREE \in Nat \ {0} /\ virtual_prefetch \in BOOLEAN

VARIABLES
  table,               \* of [tag, last_cl_addr, last_stride]
  active_lookahead,    \* << >>, or one [address, stride, degree]
  internal_PQ,
  seen,                \* by tag: its last accesses, the newest first
  course,              \* [from, stride, issued] of the last lookahead
  accesses

vars == <<table, active_lookahead, internal_PQ, seen, course, accesses>>

Tag(ip) == ip \div 4              \* slice_upper<2_b>
Page(b) == b \div PageBlocks
Tags == {Tag(ip) : ip \in Ips}

Entry(tag) == SelectSeq(table, LAMBDA e : e.tag = tag)
Others(tag) == SelectSeq(table, LAMBDA e : e.tag # tag)
Fill(e) ==
  LET q == <<e>> \o Others(e.tag) IN IF Len(q) > TRACKER_WAYS THEN SubSeq(q, 1, TRACKER_WAYS) ELSE q

Init ==
  /\ table = << >> /\ active_lookahead = << >> /\ internal_PQ = << >>
  /\ seen = [t \in Tags |-> << >>] /\ course = [from |-> 0, stride |-> 0, issued |-> << >>]
  /\ accesses = 0

\* Mutant of Starts: any stride that is not 0 is followed.
StartsAny(found, stride) == found # << >> /\ stride # 0

\* "Initialize prefetch state unless we somehow saw the same address twice in a row or if
\* this is the first time we've seen this stride".
Starts(found, stride) == found # << >> /\ stride # 0 /\ stride = found[1].last_stride

\* prefetcher_cache_operate.
Access(ip, b) ==
  LET found == Entry(Tag(ip))
      stride == IF found = << >> THEN 0 ELSE b - found[1].last_cl_addr
  IN  /\ accesses < MaxAccess /\ accesses' = accesses + 1
      /\ table' = Fill([tag |-> Tag(ip), last_cl_addr |-> b, last_stride |-> stride])
      /\ seen' = [seen EXCEPT ![Tag(ip)] = SubSeq(<<b>> \o @, 1, IF Len(@) < 2 THEN Len(@) + 1 ELSE 3)]
      /\ IF Starts(found, stride)
         THEN /\ active_lookahead' = <<[address |-> b, stride |-> stride, degree |-> PREFETCH_DEGREE]>>
              /\ course' = [from |-> b, stride |-> stride, issued |-> << >>]
         ELSE UNCHANGED <<active_lookahead, course>>
      /\ UNCHANGED internal_PQ

\* Mutant of Advanced: a step that the queue does not take is passed over.
AdvancedAlways(l, pf, success) == [address |-> pf, stride |-> l.stride, degree |-> l.degree - 1]

\* "If we fail, try again next cycle".
Advanced(l, pf, success) ==
  IF success THEN [address |-> pf, stride |-> l.stride, degree |-> l.degree - 1] ELSE l

\* Mutant of StaysOnPage: the next step may leave the page.
StaysOnPageAny(l, pf) == TRUE

\* A prefetcher of virtual addresses may leave the page.
StaysOnPage(l, pf) == virtual_prefetch \/ Page(pf) = Page(l.address)

\* prefetcher_cycle_operate; CACHE::prefetch_line takes the prefetch if the queue has room.
Cycle ==
  /\ active_lookahead # << >>
  /\ LET l == active_lookahead[1]
         pf == l.address + l.stride
         success == Len(internal_PQ) < PQ_SIZE
         next == Advanced(l, pf, success)
     IN  IF StaysOnPage(l, pf)
         THEN /\ active_lookahead' = IF next.degree = 0 THEN << >> ELSE <<next>>
              /\ internal_PQ' = IF success THEN Append(internal_PQ, pf) ELSE internal_PQ
              /\ course' = IF success THEN [course EXCEPT !.issued = Append(@, pf)] ELSE course
         ELSE active_lookahead' = << >> /\ UNCHANGED <<internal_PQ, course>>
  /\ UNCHANGED <<table, seen, accesses>>

\* The cache takes a prefetch from the queue.
Drain ==
  /\ internal_PQ # << >> /\ internal_PQ' = Tail(internal_PQ)
  /\ UNCHANGED <<table, active_lookahead, seen, course, accesses>>

Next == (\E ip \in Ips, b \in Blocks : Access(ip, b)) \/ Cycle \/ Drain

Spec == Init /\ [][Next]_vars

-----------------------------------------------------------------------------
\* A lookahead starts only from the third of three accesses of one instruction (of those
\* that the tracker does not tell apart) that are one stride from each other, also when
\* other instructions took its place in the tracker in between.
ThreeInARow ==
  [][course'.issued = << >> /\ course' # course =>
       \E t \in Tags :
         /\ Len(seen'[t]) = 3 /\ seen'[t][1] = course'.from
         /\ seen'[t][1] - seen'[t][2] = course'.stride /\ seen'[t][2] - seen'[t][3] = course'.stride]_vars

\* The prefetches of a lookahead are the next blocks along the stride, each once and none
\* left out, however often the queue had no room.  An active lookahead knows where it is and
\* has steps left (the code asserts that its degree is positive).
NoGap ==
  LET n == Len(course.issued)
  IN  /\ n <= PREFETCH_DEGREE
      /\ \A k \in 1 .. n : course.issued[k] = course.from + k * course.stride
      /\ active_lookahead # << >> =>
           /\ n < PREFETCH_DEGREE
           /\ active_lookahead[1] = [address |-> course.from + n * course.stride,
                                     stride |-> course.stride, degree |-> PREFETCH_DEGREE - n]

\* A prefetcher of physical addresses never leaves the page of the access.
InPage == ~ virtual_prefetch => \A k \in DOMAIN course.issued : Page(course.issued[k]) = Page(course.from)
=============================================================================
