------------------------------ MODULE Channel ------------------------------
(***************************************************************************)
(* The channel between two levels of the memory hierarchy (channel.cc), as *)
(* a value: three bounded queues of requests, and the responses that go    *)
(* back.  An address is a pair of a block and an offset in the block.      *)
(***************************************************************************)
EXTENDS Naturals, Sequences, FiniteSets, Queues, SequencesExt

\* match_offset: writes are compared by their whole address (L1, TLB), not by
\* block.
NewChannel(rq_size, wq_size, pq_size, match_offset) ==
  [RQ |-> << >>, WQ |-> << >>, PQ |-> << >>, returned |-> << >>,
   RQ_SIZE |-> rq_size, WQ_SIZE |-> wq_size, PQ_SIZE |-> pq_size,
   match_offset |-> match_offset]

Request(type, address, is_translated, response_requested, deps) ==
  [type |-> type, address |-> address, v_address |-> address,
   is_translated |-> is_translated,
   response_requested |-> response_requested, deps |-> deps,
   forward_checked |-> FALSE]

\* A response has the address of the request, and those who depend on it.
ResponseTo(e) == [address |-> e.address, deps |-> e.deps]

SameAddress(x, y, exact) ==
  IF exact THEN x.address = y.address ELSE x.address[1] = y.address[1]

-----------------------------------------------------------------------------
(* Adding *)

Accept(queue, e) == Append(queue, [e EXCEPT !.forward_checked = FALSE])

CanAddRQ(ch) == Len(ch.RQ) < ch.RQ_SIZE
CanAddWQ(ch) == Len(ch.WQ) < ch.WQ_SIZE
CanAddPQ(ch) == Len(ch.PQ) < ch.PQ_SIZE

AddRQ(ch, e) == [ch EXCEPT !.RQ = Accept(@, e)]
AddWQ(ch, e) == [ch EXCEPT !.WQ = Accept(@, e)]
AddPQ(ch, e) == [ch EXCEPT !.PQ = Accept(@, e)]

-----------------------------------------------------------------------------
(* Collisions *)

\* do_collision_for: the position of the first entry with the address of e,
\* if it agrees with e on being translated.
Colliding(q, e, exact) ==
  LET hits == {i \in 1 .. Len(q) : SameAddress(q[i], e, exact)}
  IN  {i \in hits : (\A j \in hits : i <= j) /\ q[i].is_translated = e.is_translated}

\* Mutant of Merged: those who depend on the merged request are forgotten.
MergedAlone(q, i, e) ==
  [q EXCEPT ![i].response_requested = @ \/ e.response_requested]

\* do_collision_for_merge
Merged(q, i, e) ==
  [q EXCEPT ![i].response_requested = @ \/ e.response_requested,
            ![i].deps = @ \cup e.deps]

Checked(q, e) == Append(q, [e EXCEPT !.forward_checked = TRUE])

CheckedPart(q) == Among(q, {e \in Elements(q) : e.forward_checked})
UncheckedPart(q) == Among(q, {e \in Elements(q) : ~ e.forward_checked})

CheckWrite(exact, q, e) ==
  LET hit == Colliding(q, e, exact)
  IN  IF hit = {} THEN Checked(q, e) ELSE Merged(q, Min(hit), e)

CheckWrites(ch) ==
  Through(LAMBDA q, e : CheckWrite(ch.match_offset, q, e), CheckedPart(ch.WQ), UncheckedPart(ch.WQ))

\* Mutant of WriteCollision: whole addresses are compared always.
WriteCollisionExact(wq, e, match_offset) == Colliding(wq, e, TRUE)

WriteCollision(wq, e, match_offset) == Colliding(wq, e, match_offset)

\* Mutant of ReadCollision: reads are compared as writes are.
ReadCollisionExact(q, e, match_offset) == Colliding(q, e, match_offset)

\* Reads are compared by block.
ReadCollision(q, e, match_offset) == Colliding(q, e, FALSE)

\* A read or prefetch is answered from a write of ch that waits (the response goes
\* to t.returned), or else merged into an earlier request for its block.
CheckRead(ch, t, e) ==
  LET write == WriteCollision(ch.WQ, e, ch.match_offset)
      read == ReadCollision(t.q, e, ch.match_offset)
  IN  CASE write # {} ->
             [t EXCEPT !.returned =
                IF e.response_requested THEN Append(@, ResponseTo(e)) ELSE @]
        [] write = {} /\ read # {} ->
             [t EXCEPT !.q = Merged(@, Min(read), e)]
        [] OTHER -> [t EXCEPT !.q = Checked(@, e)]

CheckReads(ch, q, returned) ==
  Through(LAMBDA t, e : CheckRead(ch, t, e),
          [q |-> CheckedPart(q), returned |-> returned], UncheckedPart(q))

\* check_collision()
CheckCollision(ch) ==
  LET writes == [ch EXCEPT !.WQ = CheckWrites(ch)]
      reads == CheckReads(writes, ch.RQ, ch.returned)
      prefetches == CheckReads(writes, ch.PQ, reads.returned)
  IN  [writes EXCEPT !.RQ = reads.q, !.PQ = prefetches.q, !.returned = prefetches.returned]
=============================================================================
