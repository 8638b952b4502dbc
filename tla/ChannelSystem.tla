--------------------------- MODULE ChannelSystem ---------------------------
(***************************************************************************)
(* A channel with the level above it, which issues requests and collects   *)
(* responses, and the level below it, which in a cycle checks collisions,  *)
(* takes entries from the front of each queue and answers them.            *)
(***************************************************************************)
EXTENDS Channel

CONSTANTS
  Address,       \* pairs of a block and an offset
  Translated,    \* the values that is_translated has in the requests
  QueueSize,     \* of RQ, WQ and PQ
  MatchOffset,   \* match_offset_bits
  MaxRequests    \* bound on the requests issued

ChannelAssumption ==
  /\ Translated \subseteq BOOLEAN
  /\ QueueSize \in Nat \ {0}
  /\ MatchOffset \in BOOLEAN
  /\ MaxRequests \in Nat

VARIABLES
  ch,        \* the channel
  below,     \* what the level below has taken and not answered
  issued,    \* history: the requests in the order in which they were accepted
  answered   \* history: the responses that the level above collected

vars == <<ch, below, issued, answered>>

Init ==
  /\ ch = NewChannel(QueueSize, QueueSize, QueueSize, MatchOffset)
  /\ below = << >>
  /\ issued = << >>
  /\ answered = << >>

\* The next request is named by its number.
Numbered(type, a, t, wanted) ==
  Request(type, a, t, wanted, {Len(issued) + 1})

Issue(type, a, t, wanted) ==
  LET e == Numbered(type, a, t, wanted)
  IN  /\ Len(issued) < MaxRequests
      /\ issued' = Append(issued, e)
      /\ \/ type = "LOAD" /\ wanted /\ CanAddRQ(ch) /\ ch' = AddRQ(ch, e)
         \/ type = "WRITE" /\ ~ wanted /\ CanAddWQ(ch) /\ ch' = AddWQ(ch, e)
         \/ type = "PREFETCH" /\ CanAddPQ(ch) /\ ch' = AddPQ(ch, e)
      /\ UNCHANGED <<below, answered>>

\* One cycle of the level below: a write needs no answer from it.
Cycle ==
  LET c == CheckCollision(ch)
  IN  \E w \in 0 .. Len(c.WQ), r \in 0 .. Len(c.RQ), p \in 0 .. Len(c.PQ) :
        /\ ch' = [c EXCEPT !.WQ = Rest(@, w), !.RQ = Rest(@, r), !.PQ = Rest(@, p)]
        /\ LET taken == First(c.RQ, r) \o First(c.PQ, p)
           IN  below' = below \o Among(taken, {e \in Elements(taken) : e.response_requested})
        /\ UNCHANGED <<issued, answered>>

Respond(i) ==
  /\ ch' = [ch EXCEPT !.returned = Append(@, ResponseTo(below[i]))]
  /\ below' = RemoveAt(below, i)
  /\ UNCHANGED <<issued, answered>>

\* The level above handles all responses at once.
Collect ==
  /\ ch.returned # << >>
  /\ answered' = answered \o ch.returned
  /\ ch' = [ch EXCEPT !.returned = << >>]
  /\ UNCHANGED <<below, issued>>

Next ==
  \/ \E type \in {"LOAD", "WRITE", "PREFETCH"}, a \in Address, t \in Translated,
        wanted \in BOOLEAN : Issue(type, a, t, wanted)
  \/ Cycle
  \/ \E i \in 1 .. Len(below) : Respond(i)
  \/ Collect

Spec == Init /\ [][Next]_vars

-----------------------------------------------------------------------------
(* Properties *)

Entries(q) == [type : {"LOAD", "WRITE", "PREFETCH"}, address : Address, v_address : Address,
               is_translated : Translated, response_requested : BOOLEAN,
               deps : SUBSET (1 .. Len(issued)), forward_checked : BOOLEAN]

TypeOK ==
  /\ \A q \in {ch.RQ, ch.WQ, ch.PQ} :
       Len(q) <= QueueSize /\ Elements(q) \subseteq Entries(q)
  /\ Len(issued) <= MaxRequests

\* How many elements of q are about request k, and how many ask for a response to it.
About(q, k) == Cardinality({i \in 1 .. Len(q) : k \in q[i].deps})
Asking(q, k) == Cardinality({i \in 1 .. Len(q) : k \in q[i].deps /\ q[i].response_requested})

\* A request that wants a response, whatever it was merged with or forwarded
\* from, is in exactly one place: in a queue or below in an entry that asks
\* for a response, or in exactly one response.
AnsweredOnce ==
  \A k \in 1 .. Len(issued) : issued[k].response_requested =>
    Asking(ch.RQ, k) + Asking(ch.PQ, k) + About(below, k)
      + About(ch.returned, k) + About(answered, k) = 1

\* No read is below while a write that was issued before it, to an address for
\* which the channel forwards, still waits: a read never overtakes a write.  (Of
\* requests that are translated and others do_collision_for sees only the first of
\* an address, and a read may overtake the second; no channel has both.)
NoOvertaking ==
  Cardinality(Translated) = 1 =>
    \A i \in 1 .. Len(below), j \in 1 .. Len(ch.WQ) :
      \A r \in below[i].deps, w \in ch.WQ[j].deps :
        w < r => ~ SameAddress(issued[r], issued[w], MatchOffset)

\* Once an entry was checked no other entry of its queue is for the same
\* block, so that the level below sees one request for a block at a time.
NoDuplicates ==
  Cardinality(Translated) = 1 =>
    \A q \in {ch.RQ, ch.PQ} : \A i, j \in 1 .. Len(q) :
      /\ q[i].forward_checked /\ q[j].forward_checked
      /\ SameAddress(q[i], q[j], FALSE)
      => i = j
=============================================================================
