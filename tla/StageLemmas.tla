--------------------------- MODULE StageLemmas ---------------------------
(***************************************************************************)
(* What holds after a state has been carried through a queue (Through in   *)
(* Queues).  A module that proves something about a stage instantiates     *)
(* this one with the operation of the stage and with what it keeps: a      *)
(* lemma cannot be instantiated with an operator, a module can.  Both may  *)
(* depend on something that stays the same throughout, their first         *)
(* parameter.                                                              *)
(***************************************************************************)
EXTENDS Integers, Sequences, FiniteSetTheorems, TLAPS

CONSTANTS
  Op(_, _, _),    \* of the parameter, a state and an element of the queue
  Inv(_, _, _)    \* of the parameter, a state and the number of elements done

\* A set that contains zero and is closed under successor contains every
\* natural number.  (The library states induction with an operator
\* parameter; a set parameter keeps the statement first order.)
LEMMA NatSetInduction ==
  ASSUME NEW T, 0 \in T, \A n \in Nat : n \in T => n + 1 \in T
  PROVE  Nat \subseteq T
<1> DEFINE Bad == Nat \ T
           Initial == {0 .. k : k \in Bad}
<1>1. SUFFICES ASSUME Bad # {} PROVE FALSE
  OBVIOUS
<1>2. Initial \subseteq FiniteSubsetsOf(Nat)
  <2>1. ASSUME NEW k \in Nat PROVE 0 .. k \in FiniteSubsetsOf(Nat)
    <3>1. IsFiniteSet(0 .. k)  BY FS_Interval
    <3>2. 0 .. k \subseteq Nat  OBVIOUS
    <3>3. QED  BY <3>1, <3>2 DEF FiniteSubsetsOf
  <2>2. QED  BY <2>1
<1>3. PICK X \in Initial :
        \A Y \in Initial : ~ (<<Y, X>> \in StrictSubsetOrdering(Nat))
  <2>1. Initial # {}  BY <1>1
  <2> HIDE DEF Initial
  <2>2. IsWellFoundedOn(StrictSubsetOrdering(Nat), FiniteSubsetsOf(Nat))
    BY FS_StrictSubsetOrderingWellFounded
  <2>3. QED  BY <1>2, <2>1, <2>2, WFMin
<1>4. PICK m \in Bad : X = 0 .. m
  OBVIOUS
<1>5. m \in Nat /\ m # 0 /\ m - 1 \in Bad
  OBVIOUS
<1>6. 0 .. (m - 1) \subseteq 0 .. m /\ 0 .. (m - 1) # 0 .. m
  <2>1. m \in 0 .. m /\ m \notin 0 .. (m - 1)  BY <1>5
  <2>2. QED  BY <1>5, <2>1
<1>7. <<0 .. (m - 1), 0 .. m>> \in StrictSubsetOrdering(Nat)
  BY <1>5, <1>6 DEF StrictSubsetOrdering
<1>8. 0 .. (m - 1) \in Initial
  BY <1>5
<1>9. QED  BY <1>3, <1>4, <1>7, <1>8

\* f holds the states after each of the first n elements of q.
Steps(f, k, s, q, n) ==
  f = [i \in 0 .. n |-> IF i = 0 THEN s
                        ELSE CHOOSE t \in {Op(k, u, q[i]) : u \in {f[i - 1]}} : TRUE]

\* The only element of a set of one.
LEMMA Once == \A k, u, e : (CHOOSE t \in {Op(k, v, e) : v \in {u}} : TRUE) = Op(k, u, e)
<1>1. \A k, u, e : {Op(k, v, e) : v \in {u}} = {Op(k, u, e)}  OBVIOUS
<1>2. QED  BY <1>1

\* Those states exist.
LEMMA StepsExist == \A k, s, q : \A n \in Nat : \E f : Steps(f, k, s, q, n)
<1>1. SUFFICES ASSUME NEW k, NEW s, NEW q PROVE \A n \in Nat : \E f : Steps(f, k, s, q, n)
  OBVIOUS
<1> DEFINE T == {n \in Nat : \E f : Steps(f, k, s, q, n)}
<1>2. 0 \in T
  <2>1. Steps([i \in 0 .. 0 |-> s], k, s, q, 0)  BY DEF Steps
  <2>2. QED  BY <2>1
<1>3. ASSUME NEW n \in Nat, n \in T PROVE n + 1 \in T
  <2>1. PICK f : Steps(f, k, s, q, n)  BY <1>3
  <2> DEFINE next == Op(k, f[n], q[n + 1])
             g == [i \in 0 .. (n + 1) |-> IF i = n + 1 THEN next ELSE f[i]]
  <2>2. ASSUME NEW i \in 0 .. (n + 1)
        PROVE  g[i] = IF i = 0 THEN s
                      ELSE CHOOSE t \in {Op(k, u, q[i]) : u \in {g[i - 1]}} : TRUE
    <3>1. CASE i = n + 1
      <4>1. g[i] = next /\ g[i - 1] = f[n] /\ i # 0  BY <3>1
      <4>2. QED  BY <3>1, <4>1, Once
    <3>2. CASE i \in 0 .. n
      <4>1. f[i] = IF i = 0 THEN s
                   ELSE CHOOSE t \in {Op(k, u, q[i]) : u \in {f[i - 1]}} : TRUE
        BY <2>1, <3>2 DEF Steps
      <4>2. g[i] = f[i] /\ (i # 0 => g[i - 1] = f[i - 1])  BY <3>2
      <4>3. QED  BY <4>1, <4>2
    <3>3. QED  BY <3>1, <3>2
  <2>3. Steps(g, k, s, q, n + 1)
    <3> HIDE DEF next
    <3>1. g = [i \in 0 .. (n + 1) |->
                 IF i = 0 THEN s
                 ELSE CHOOSE t \in {Op(k, u, q[i]) : u \in {g[i - 1]}} : TRUE]
      BY <2>2
    <3>2. QED  BY <3>1 DEF Steps
  <2>4. QED  BY <2>3
<1>4. Nat \subseteq T
  <2> HIDE DEF T
  <2>1. QED  BY <1>2, <1>3, NatSetInduction
<1>5. QED  BY <1>4

\* What Through computes, once Op(k, _, _) stands for its operator.
Carried(k, s, q) == (CHOOSE f : Steps(f, k, s, q, Len(q)))[Len(q)]

\* Carrying passes from s to the result in steps of Op, one for each element.
LEMMA Passes ==
  ASSUME NEW k, NEW s, NEW q, Len(q) \in Nat
  PROVE  \E f : /\ f[0] = s
                /\ \A i \in 1 .. Len(q) : f[i] = Op(k, f[i - 1], q[i])
                /\ Carried(k, s, q) = f[Len(q)]
<1> DEFINE after == CHOOSE f : Steps(f, k, s, q, Len(q))
<1>1. Steps(after, k, s, q, Len(q))  BY StepsExist
<1>2. Carried(k, s, q) = after[Len(q)]  BY DEF Carried
<1>3. PICK f : f = after  OBVIOUS
<1> HIDE DEF after
<1>4. f = [i \in 0 .. Len(q) |-> IF i = 0 THEN s ELSE Op(k, f[i - 1], q[i])]
  BY <1>1, <1>3, Once DEF Steps
<1>5. 0 \in 0 .. Len(q) /\ \A i \in 1 .. Len(q) : i \in 0 .. Len(q) /\ i # 0
  OBVIOUS
<1>6. f[0] = s /\ \A i \in 1 .. Len(q) : f[i] = Op(k, f[i - 1], q[i])  BY <1>4, <1>5
<1>7. QED  BY <1>2, <1>3, <1>6

\* What every step keeps holds in the end.  (h: what Inv depends on, if not on k.)
LEMMA KeptFor ==
  ASSUME NEW k, NEW h, NEW s, NEW q, Len(q) \in Nat,
         Inv(h, s, 0),
         \A i \in 1 .. Len(q) : \A u : Inv(h, u, i - 1) => Inv(h, Op(k, u, q[i]), i)
  PROVE  Inv(h, Carried(k, s, q), Len(q))
<1>1. PICK f : /\ f[0] = s
               /\ \A i \in 1 .. Len(q) : f[i] = Op(k, f[i - 1], q[i])
               /\ Carried(k, s, q) = f[Len(q)]
  BY Passes
<1> DEFINE T == {i \in Nat : i <= Len(q) => Inv(h, f[i], i)}
<1>2. 0 \in T  BY <1>1
<1>3. ASSUME NEW n \in Nat, n \in T PROVE n + 1 \in T
  <2>1. CASE n + 1 <= Len(q)
    <3>1. n + 1 \in 1 .. Len(q) /\ (n + 1) - 1 = n /\ n <= Len(q)  BY <2>1
    <3>2. Inv(h, f[n], (n + 1) - 1)  BY <1>3, <3>1
    <3>3. f[n + 1] = Op(k, f[n], q[n + 1])  BY <1>1, <3>1
    <3>4. Inv(h, Op(k, f[n], q[n + 1]), n + 1)  BY <3>1, <3>2
    <3>5. QED  BY <3>3, <3>4
  <2>2. QED  BY <2>1
<1>4. Nat \subseteq T
  <2> HIDE DEF T
  <2>1. QED  BY <1>2, <1>3, NatSetInduction
<1>5. QED  BY <1>1, <1>4

LEMMA Kept ==
  ASSUME NEW k, NEW s, NEW q, Len(q) \in Nat,
         Inv(k, s, 0),
         \A i \in 1 .. Len(q) : \A u : Inv(k, u, i - 1) => Inv(k, Op(k, u, q[i]), i)
  PROVE  Inv(k, Carried(k, s, q), Len(q))
BY KeptFor
=============================================================================
