------------------------------- MODULE Queues -------------------------------
(***************************************************************************)
(* Vocabulary shared by the component models: what a queue contains, in    *)
(* which orders a batch can be handed out, and totals over sets of         *)
(* numbered things.  Several components keep a running total (bytes of     *)
(* credit, entries in use) that must agree with what their queues hold.    *)
(*                                                                         *)
(* Module QueueLemmas proves the algebra of these operators.               *)
(***************************************************************************)
EXTENDS Integers, Sequences, FiniteSetsExt

Elements(q) == {q[i] : i \in 1 .. Len(q)}

\* No element occurs twice.
Distinct(q) == \A i, j \in 1 .. Len(q) : q[i] = q[j] => i = j

\* How many elements of q are in S.
Copies(q, S) == Cardinality({i \in 1 .. Len(q) : q[i] \in S})

First(q, n) == SubSeq(q, 1, n)

Rest(q, n) == SubSeq(q, n + 1, Len(q))

\* All orders in which the elements of a queue without duplicates can be
\* handed out.
Orders(q) == {r \in [1 .. Len(q) -> Elements(q)] : Distinct(r)}

\* The sum of weight[i] for the i in S \cap 1..n.  The recursion is over the
\* numbers 0..n and not over the set, so that induction on the natural
\* numbers is all its algebra needs.
Total(weight, S, n) ==
  LET sum[i \in 0 .. n] ==
        IF i = 0 THEN 0
                 ELSE sum[i - 1] + (IF i \in S THEN weight[i] ELSE 0)
  IN  sum[n]

-----------------------------------------------------------------------------
(* Components that work through a cycle in stages: a state is a record     *)
(* that is passed from one stage to the next, and a stage handles the      *)
(* entries of a queue one after the other.                                 *)

\* The state s carried through Op for each element of q, from the front.  (A
\* left fold whose intermediate states are each bound to a name, so that TLC
\* evaluates them once.)
Through(Op(_, _), s, q) ==
  LET after[i \in 0 .. Len(q)] ==
        IF i = 0 THEN s
        ELSE CHOOSE t \in {Op(u, q[i]) : u \in {after[i - 1]}} : TRUE
  IN  after[Len(q)]

\* Op of every element, as an explicit sequence.
Each(q, Op(_)) == Through(LAMBDA r, e : Append(r, Op(e)), << >>, q)

\* The elements of q that are in S, in their order.
Among(q, S) == Through(LAMBDA r, e : IF e \in S THEN Append(r, e) ELSE r, << >>, q)

LowerOf(x, y) == IF x < y THEN x ELSE y

\* How long the longest beginning of q is, of at most n entries, in which all
\* satisfy P.  (What transform_while_n and get_span_p in cache.cc and
\* ooo_cpu.cc take.)
Leading(q, n, P(_)) ==
  LET stops == {i \in 1 .. Len(q) : ~ P(q[i])}
      ok == IF stops = {} THEN Len(q) ELSE Min(stops) - 1
  IN  IF n < 0 THEN 0 ELSE LowerOf(ok, n)

\* std::min_element: the element that no later one is sooner than.
MinElement(q, Sooner(_, _)) ==
  Through(LAMBDA least, x : IF Sooner(x, least) THEN x ELSE least, Head(q), Tail(q))

\* std::partition on a deque: the elements that satisfy P first.  From the front,
\* each that does not is swapped with the last that does.  (Between lo and hi is
\* what has not been looked at; a pass over q is as many steps as it can take.)
Partitioned(q, P(_)) ==
  LET Step(t, x) ==
        CASE t.lo > t.hi -> t
          [] t.lo <= t.hi /\ P(t.q[t.lo]) -> [t EXCEPT !.lo = @ + 1]
          [] t.lo <= t.hi /\ ~ P(t.q[t.lo]) /\ ~ P(t.q[t.hi]) -> [t EXCEPT !.hi = @ - 1]
          [] OTHER -> [q |-> [t.q EXCEPT ![t.lo] = t.q[t.hi], ![t.hi] = t.q[t.lo]],
                       lo |-> t.lo + 1, hi |-> t.hi - 1]
  IN  Through(Step, [q |-> q, lo |-> 1, hi |-> Len(q)], q).q
=============================================================================
