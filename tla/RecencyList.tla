---------------------------- MODULE RecencyList ----------------------------
(***************************************************************************)
(* What lru_table promises: each set is a list of at most Ways entries     *)
(* with different tags, the most recently used first.                      *)
(***************************************************************************)
EXTENDS Naturals, Sequences, Queues

CONSTANTS Sets, Ways, Tags, Values

VARIABLES recent, out   \* out: what the last call returned, as a set

SetOf(tag) == tag % Sets

Without(q, tag) == SelectSeq(q, LAMBDA e : e.tag # tag)
With(q, tag) == {e \in Elements(q) : e.tag = tag}

Init == recent = [s \in 0 .. Sets - 1 |-> << >>] /\ out = {}

CheckHit(tag) ==
  LET q == recent[SetOf(tag)]
  IN  /\ out' = {e.value : e \in With(q, tag)}
      /\ recent' = [recent EXCEPT ![SetOf(tag)] =
                      IF With(q, tag) = {} THEN q
                      ELSE <<CHOOSE e \in With(q, tag) : TRUE>> \o Without(q, tag)]

Fill(tag, value) ==
  LET q == <<[tag |-> tag, value |-> value]>> \o Without(recent[SetOf(tag)], tag)
  IN  /\ recent' = [recent EXCEPT ![SetOf(tag)] = IF Len(q) > Ways THEN First(q, Ways) ELSE q]
      /\ out' = {}

Invalidate(tag) ==
  /\ out' = {e.value : e \in With(recent[SetOf(tag)], tag)}
  /\ recent' = [recent EXCEPT ![SetOf(tag)] = Without(@, tag)]

Next ==
  \E tag \in Tags : CheckHit(tag) \/ Invalidate(tag) \/ \E value \in Values : Fill(tag, value)

Spec == Init /\ [][Next]_<<recent, out>>
=============================================================================
