---------------------------- MODULE QueueLemmas -----------------------------
(***************************************************************************)
(* The algebra of the operators of module Queues: the sum of nothing is    *)
(* zero, the sum over a disjoint union is the sum of the sums, a larger    *)
(* set has a larger sum; what appending to, splitting, joining and         *)
(* reordering a queue does to the set of its elements; and to the number   *)
(* of its entries in a set (Copies), to which sums over the entries of a   *)
(* queue come down when they have few different weights.                   *)
(***************************************************************************)
EXTENDS Queues, FiniteSetTheorems, SequenceTheorems, TLAPS

-----------------------------------------------------------------------------
(* Induction, and what Among goes through: of each beginning of the queue, *)
(* what is kept so far                                                     *)

Keeping(S, r, e) == IF e \in S THEN Append(r, e) ELSE r
KeptSoFar(h, r, n) ==
  /\ r \in Seq(h.S \cap h.T) /\ Len(r) <= n
  /\ \A U : Copies(r, U) = Copies(First(h.q, n), h.S \cap U)
Keeps == INSTANCE StageLemmas WITH Op <- Keeping, Inv <- KeptSoFar

\* A set that contains zero and is closed under successor contains every
\* natural number.
LEMMA NatSetInduction ==
  ASSUME NEW T, 0 \in T, \A n \in Nat : n \in T => n + 1 \in T
  PROVE  Nat \subseteq T
BY Keeps!NatSetInduction

-----------------------------------------------------------------------------
(* Sums *)

\* The function that the recursion of Total defines.
Sums(f, weight, S, n) ==
  f = [i \in 0 .. n |-> IF i = 0 THEN 0
                        ELSE f[i - 1] + (IF i \in S THEN weight[i] ELSE 0)]

\* That function exists: the recursion of Total is well defined.
LEMMA SumsExist ==
  ASSUME NEW S, NEW weight
  PROVE  \A n \in Nat : \E f : Sums(f, weight, S, n)
<1> DEFINE T == {n \in Nat : \E f : Sums(f, weight, S, n)}
<1>1. 0 \in T
  <2>1. Sums([i \in 0 .. 0 |-> 0], weight, S, 0)
    BY DEF Sums
  <2>2. QED  BY <2>1
<1>2. ASSUME NEW n \in Nat, n \in T PROVE n + 1 \in T
  <2>1. PICK f : Sums(f, weight, S, n)
    BY <1>2
  <2> DEFINE next == f[n] + (IF n + 1 \in S THEN weight[n + 1] ELSE 0)
             g == [i \in 0 .. (n + 1) |-> IF i = n + 1 THEN next ELSE f[i]]
  <2>2. ASSUME NEW i \in 0 .. (n + 1)
        PROVE  g[i] = IF i = 0 THEN 0
                      ELSE g[i - 1] + (IF i \in S THEN weight[i] ELSE 0)
    <3>1. CASE i = n + 1
      <4>1. g[i] = next /\ g[i - 1] = f[n] /\ i # 0  BY <3>1
      <4>2. QED  BY <3>1, <4>1
    <3>2. CASE i \in 0 .. n
      <4>1. f[i] = IF i = 0 THEN 0
                   ELSE f[i - 1] + (IF i \in S THEN weight[i] ELSE 0)
        BY <2>1, <3>2 DEF Sums
      <4>2. g[i] = f[i] /\ (i # 0 => g[i - 1] = f[i - 1])  BY <3>2
      <4>3. QED  BY <4>1, <4>2
    <3>3. QED  BY <3>1, <3>2
  <2>3. Sums(g, weight, S, n + 1)
    <3> HIDE DEF next
    <3>1. g = [i \in 0 .. (n + 1) |-> IF i = 0 THEN 0
                  ELSE g[i - 1] + (IF i \in S THEN weight[i] ELSE 0)]
      BY <2>2
    <3>2. QED  BY <3>1 DEF Sums
  <2>4. QED  BY <2>3
<1>3. Nat \subseteq T
  <2> HIDE DEF T
  <2>1. QED  BY <1>1, <1>2, NatSetInduction
<1>4. QED  BY <1>3

\* Total is the last value of that function.
LEMMA TotalIsSum ==
  ASSUME NEW S, NEW weight, NEW n \in Nat
  PROVE  \E f : Sums(f, weight, S, n) /\ Total(weight, S, n) = f[n]
<1> DEFINE sum == CHOOSE f : Sums(f, weight, S, n)
<1>1. Sums(sum, weight, S, n)
  BY SumsExist
<1>2. Total(weight, S, n) = sum[n]
  BY DEF Total, Sums
<1>3. QED
  <2> HIDE DEF sum
  <2>1. QED  BY <1>1, <1>2

\* The recursion, unfolded once.
LEMMA SumsStep ==
  ASSUME NEW S, NEW weight, NEW n \in Nat, NEW f, Sums(f, weight, S, n)
  PROVE  /\ f[0] = 0
         /\ \A i \in 1 .. n :
               f[i] = f[i - 1] + (IF i \in S THEN weight[i] ELSE 0)
<1>1. f = [i \in 0 .. n |-> IF i = 0 THEN 0
              ELSE f[i - 1] + (IF i \in S THEN weight[i] ELSE 0)]
  BY DEF Sums
<1>2. 0 \in 0 .. n  OBVIOUS
<1>3. f[0] = 0  BY <1>1, <1>2
<1>4. ASSUME NEW i \in 1 .. n
      PROVE  f[i] = f[i - 1] + (IF i \in S THEN weight[i] ELSE 0)
  BY <1>1, i \in 0 .. n, i # 0
<1>5. QED  BY <1>3, <1>4

\* One step of the sum at an element of the set.
LEMMA SumsIn ==
  ASSUME NEW S, NEW weight, NEW n \in Nat, NEW f, Sums(f, weight, S, n),
         NEW i \in 1 .. n, i \in S
  PROVE  f[i] = f[i - 1] + weight[i]
<1>1. f[i] = f[i - 1] + (IF i \in S THEN weight[i] ELSE 0)
  BY SumsStep
<1>2. QED  BY <1>1

\* Partial sums of natural weights are natural numbers.
LEMMA SumsNat ==
  ASSUME NEW S, NEW n \in Nat, NEW weight \in [1 .. n -> Nat],
         NEW f, Sums(f, weight, S, n)
  PROVE  \A i \in 0 .. n : f[i] \in Nat
<1> DEFINE T == {i \in Nat : i <= n => f[i] \in Nat}
<1>1. 0 \in T
  <2>1. f[0] = 0  BY SumsStep
  <2>2. QED  BY <2>1
<1>2. ASSUME NEW i \in Nat, i \in T PROVE i + 1 \in T
  <2>1. SUFFICES ASSUME i + 1 <= n PROVE f[i + 1] \in Nat
    OBVIOUS
  <2>2. f[i + 1] = f[i] + (IF i + 1 \in S THEN weight[i + 1] ELSE 0)
    <3>1. i + 1 \in 1 .. n /\ (i + 1) - 1 = i  BY <2>1
    <3>2. QED  BY <3>1, SumsStep
  <2>3. f[i] \in Nat /\ weight[i + 1] \in Nat  BY <1>2, <2>1
  <2>4. QED  BY <2>2, <2>3
<1>3. Nat \subseteq T
  <2> HIDE DEF T
  <2>1. QED  BY <1>1, <1>2, NatSetInduction
<1>4. QED  BY <1>3

\* The total is a natural number.
THEOREM TotalNat ==
  ASSUME NEW S, NEW n \in Nat, NEW weight \in [1 .. n -> Nat]
  PROVE  Total(weight, S, n) \in Nat
<1>1. PICK f : Sums(f, weight, S, n) /\ Total(weight, S, n) = f[n]
  BY TotalIsSum
<1>2. f[n] \in Nat  BY <1>1, SumsNat
<1>3. QED  BY <1>1, <1>2

\* The total over no packet is zero.
THEOREM TotalEmpty ==
  ASSUME NEW n \in Nat, NEW weight, NEW S, S \cap (1 .. n) = {}
  PROVE  Total(weight, S, n) = 0
<1>1. PICK f : Sums(f, weight, S, n) /\ Total(weight, S, n) = f[n]
  BY TotalIsSum
<1> DEFINE T == {i \in Nat : i <= n => f[i] = 0}
<1>2. 0 \in T
  BY <1>1, SumsStep
<1>3. ASSUME NEW i \in Nat, i \in T PROVE i + 1 \in T
  <2>1. SUFFICES ASSUME i + 1 <= n PROVE f[i + 1] = 0
    OBVIOUS
  <2>2. i + 1 \in 1 .. n /\ (i + 1) - 1 = i /\ i + 1 \notin S  BY <2>1
  <2>3. f[i + 1] = f[i] + 0  BY <1>1, <2>2, SumsStep
  <2>4. QED  BY <1>3, <2>1, <2>3
<1>4. Nat \subseteq T
  <2> HIDE DEF T
  <2>1. QED  BY <1>2, <1>3, NatSetInduction
<1>5. QED  BY <1>1, <1>4

\* The total over two sets with no common element is the sum of the totals.
THEOREM TotalUnion ==
  ASSUME NEW n \in Nat, NEW weight \in [1 .. n -> Nat],
         NEW A, NEW B, A \cap B = {}
  PROVE  Total(weight, A \cup B, n) = Total(weight, A, n) + Total(weight, B, n)
<1>1. PICK f : Sums(f, weight, A, n) /\ Total(weight, A, n) = f[n]
  BY TotalIsSum
<1>2. PICK g : Sums(g, weight, B, n) /\ Total(weight, B, n) = g[n]
  BY TotalIsSum
<1>3. PICK h : Sums(h, weight, A \cup B, n) /\ Total(weight, A \cup B, n) = h[n]
  BY TotalIsSum
<1> DEFINE T == {i \in Nat : i <= n => h[i] = f[i] + g[i]}
           gain(S, i) == IF i \in S THEN weight[i] ELSE 0
<1>a. f[0] = 0 /\ \A i \in 1 .. n : f[i] = f[i - 1] + gain(A, i)
  BY <1>1, SumsStep
<1>b. g[0] = 0 /\ \A i \in 1 .. n : g[i] = g[i - 1] + gain(B, i)
  BY <1>2, SumsStep
<1>c. h[0] = 0 /\ \A i \in 1 .. n : h[i] = h[i - 1] + gain(A \cup B, i)
  <2>1. Sums(h, weight, A \cup B, n)  BY <1>3
  <2> DEFINE C == A \cup B
  <2>2. Sums(h, weight, C, n)  BY <2>1
  <2> HIDE DEF C
  <2>3. h[0] = 0 /\ \A i \in 1 .. n : h[i] = h[i - 1] + gain(C, i)
    BY <2>2, SumsStep
  <2>4. QED  BY <2>3 DEF C
<1>4. 0 \in T
  BY <1>a, <1>b, <1>c
<1>5. ASSUME NEW i \in Nat, i \in T PROVE i + 1 \in T
  <2>1. SUFFICES ASSUME i + 1 <= n PROVE h[i + 1] = f[i + 1] + g[i + 1]
    OBVIOUS
  <2> DEFINE part(S) == gain(S, i + 1)
  <2>2. i + 1 \in 1 .. n /\ (i + 1) - 1 = i  BY <2>1
  <2>3. f[i + 1] = f[i] + part(A)  BY <1>a, <2>2
  <2>4. g[i + 1] = g[i] + part(B)  BY <1>b, <2>2
  <2>5. h[i + 1] = h[i] + part(A \cup B)  BY <1>c, <2>2
  <2>6. f[i] \in Nat /\ g[i] \in Nat
    <3>1. i \in 0 .. n  BY <2>1
    <3>2. QED  BY <3>1, <1>1, <1>2, SumsNat
  <2>7. weight[i + 1] \in Nat  BY <2>2
  <2>8. part(A \cup B) = part(A) + part(B) /\ part(A) \in Nat /\ part(B) \in Nat
    BY <2>7
  <2>9. h[i] = f[i] + g[i]  BY <1>5, <2>1
  <2> HIDE DEF part
  <2>10. QED  BY <2>3, <2>4, <2>5, <2>6, <2>8, <2>9
<1>6. Nat \subseteq T
  <2> HIDE DEF T
  <2>1. QED  BY <1>4, <1>5, NatSetInduction
<1>7. QED  BY <1>1, <1>2, <1>3, <1>6

\* A larger set has a total at least as large.
THEOREM TotalMonotone ==
  ASSUME NEW n \in Nat, NEW weight \in [1 .. n -> Nat],
         NEW A, NEW B, A \subseteq B
  PROVE  Total(weight, A, n) <= Total(weight, B, n)
<1>1. A \cup (B \ A) = B /\ A \cap (B \ A) = {}
  OBVIOUS
<1>2. Total(weight, B, n) = Total(weight, A, n) + Total(weight, B \ A, n)
  BY <1>1, TotalUnion
<1>3. Total(weight, A, n) \in Nat /\ Total(weight, B \ A, n) \in Nat
  BY TotalNat
<1>4. QED  BY <1>2, <1>3

\* The total over one member is its weight.
THEOREM TotalSingleton ==
  ASSUME NEW n \in Nat, NEW weight \in [1 .. n -> Nat], NEW m \in 1 .. n
  PROVE  Total(weight, {m}, n) = weight[m]
<1>1. PICK f : Sums(f, weight, {m}, n) /\ Total(weight, {m}, n) = f[n]
  BY TotalIsSum
<1> DEFINE T == {i \in Nat : i <= n => f[i] = IF i < m THEN 0 ELSE weight[m]}
           One == {m}
<1>a. f[0] = 0 /\ \A i \in 1 .. n :
        f[i] = f[i - 1] + (IF i \in One THEN weight[i] ELSE 0)
  <2> HIDE DEF One
  <2>1. Sums(f, weight, One, n)  BY <1>1 DEF One
  <2>2. QED  BY <2>1, SumsStep
<1>2. 0 \in T
  BY <1>a
<1>3. ASSUME NEW i \in Nat, i \in T PROVE i + 1 \in T
  <2>1. SUFFICES ASSUME i + 1 <= n
                 PROVE  f[i + 1] = IF i + 1 < m THEN 0 ELSE weight[m]
    OBVIOUS
  <2>2. i + 1 \in 1 .. n /\ (i + 1) - 1 = i  BY <2>1
  <2>3. f[i + 1] = f[i] + (IF i + 1 \in {m} THEN weight[i + 1] ELSE 0)
    BY <1>a, <2>2
  <2>4. f[i] = IF i < m THEN 0 ELSE weight[m]  BY <1>3, <2>1
  <2>5. weight[m] \in Nat  OBVIOUS
  <2>6. QED  BY <2>3, <2>4, <2>5
<1>4. Nat \subseteq T
  <2> HIDE DEF T
  <2>1. QED  BY <1>2, <1>3, NatSetInduction
<1>5. QED  BY <1>1, <1>4

\* The total depends on the weights of the set only.
LEMMA TotalAgree ==
  ASSUME NEW n \in Nat, NEW S, NEW v, NEW w, \A i \in 1 .. n : i \in S => v[i] = w[i]
  PROVE  Total(v, S, n) = Total(w, S, n)
<1>1. PICK f : Sums(f, v, S, n) /\ Total(v, S, n) = f[n]
  BY TotalIsSum
<1>2. PICK g : Sums(g, w, S, n) /\ Total(w, S, n) = g[n]
  BY TotalIsSum
<1>3. f[0] = 0 /\ \A i \in 1 .. n :
        f[i] = f[i - 1] + (IF i \in S THEN v[i] ELSE 0)
  BY <1>1, SumsStep
<1>4. g[0] = 0 /\ \A i \in 1 .. n :
        g[i] = g[i - 1] + (IF i \in S THEN w[i] ELSE 0)
  BY <1>2, SumsStep
<1> DEFINE K == {i \in Nat : i <= n => f[i] = g[i]}
<1>5. 0 \in K  BY <1>3, <1>4
<1>6. ASSUME NEW i \in Nat, i \in K PROVE i + 1 \in K
  <2>1. SUFFICES ASSUME i + 1 <= n PROVE f[i + 1] = g[i + 1]
    OBVIOUS
  <2>2. i + 1 \in 1 .. n /\ (i + 1) - 1 = i  BY <2>1
  <2>3. f[i] = g[i]  BY <1>6, <2>1
  <2>4. QED  BY <1>3, <1>4, <2>2, <2>3
<1>7. Nat \subseteq K
  <2> HIDE DEF K
  <2>1. QED  BY <1>5, <1>6, NatSetInduction
<1>8. QED  BY <1>1, <1>2, <1>7

\* One weight changed: the total changes by as much.
LEMMA TotalChange ==
  ASSUME NEW n \in Nat, NEW old \in [1 .. n -> Nat], NEW new \in [1 .. n -> Nat],
         NEW m \in 1 .. n, \A i \in 1 .. n : i # m => new[i] = old[i]
  PROVE  Total(new, 1 .. n, n) + old[m] = Total(old, 1 .. n, n) + new[m]
<1> DEFINE All == 1 .. n
           Others == All \ {m}
<1>1. All = Others \cup {m} /\ Others \cap {m} = {}  OBVIOUS
<1>2. /\ Total(old, All, n) = Total(old, Others, n) + Total(old, {m}, n)
      /\ Total(new, All, n) = Total(new, Others, n) + Total(new, {m}, n)
  <2> HIDE DEF Others, All
  <2>1. Total(old, Others \cup {m}, n) = Total(old, Others, n) + Total(old, {m}, n)
    BY <1>1, TotalUnion
  <2>2. Total(new, Others \cup {m}, n) = Total(new, Others, n) + Total(new, {m}, n)
    BY <1>1, TotalUnion
  <2>3. QED  BY <1>1, <2>1, <2>2
<1>3. Total(old, {m}, n) = old[m] /\ Total(new, {m}, n) = new[m]
  BY TotalSingleton
<1>4. Total(old, Others, n) = Total(new, Others, n)
  <2>1. \A i \in 1 .. n : i \in Others => new[i] = old[i]  OBVIOUS
  <2> HIDE DEF Others
  <2>2. QED  BY <2>1, TotalAgree
<1>5. Total(old, Others, n) \in Nat  BY TotalNat
<1> HIDE DEF Others, All
<1>6. old[m] \in Nat /\ new[m] \in Nat  OBVIOUS
<1>7. QED  BY <1>2, <1>3, <1>4, <1>5, <1>6 DEF All

\* No weight exceeds the total.
LEMMA TotalAtLeast ==
  ASSUME NEW n \in Nat, NEW weight \in [1 .. n -> Nat], NEW m \in 1 .. n
  PROVE  weight[m] <= Total(weight, 1 .. n, n)
<1>1. {m} \subseteq 1 .. n  OBVIOUS
<1>2. Total(weight, {m}, n) <= Total(weight, 1 .. n, n)  BY <1>1, TotalMonotone
<1>3. QED  BY <1>2, TotalSingleton

\* Totals of shorter prefixes are the partial sums of a longer one.
LEMMA TotalPrefix ==
  ASSUME NEW S, NEW weight, NEW n \in Nat, NEW f, Sums(f, weight, S, n), NEW m \in 0 .. n
  PROVE  Total(weight, S, m) = f[m]
<1>1. PICK g : Sums(g, weight, S, m) /\ Total(weight, S, m) = g[m]
  BY TotalIsSum
<1>2. /\ f[0] = 0 /\ g[0] = 0
      /\ \A i \in 1 .. n : f[i] = f[i - 1] + (IF i \in S THEN weight[i] ELSE 0)
      /\ \A i \in 1 .. m : g[i] = g[i - 1] + (IF i \in S THEN weight[i] ELSE 0)
  BY <1>1, SumsStep
<1> DEFINE T == {i \in Nat : i <= m => g[i] = f[i]}
<1>3. 0 \in T  BY <1>2
<1>4. ASSUME NEW i \in Nat, i \in T PROVE i + 1 \in T
  <2>1. SUFFICES ASSUME i + 1 <= m PROVE g[i + 1] = f[i + 1]
    OBVIOUS
  <2>2. i + 1 \in 1 .. m /\ i + 1 \in 1 .. n /\ (i + 1) - 1 = i /\ g[i] = f[i]
    BY <1>4, <2>1
  <2>3. QED  BY <1>2, <2>2
<1>5. Nat \subseteq T
  <2> HIDE DEF T
  <2>1. QED  BY <1>3, <1>4, NatSetInduction
<1>6. QED  BY <1>1, <1>5

\* The totals of all prefixes.
LEMMA TotalSteps ==
  ASSUME NEW n \in Nat, NEW weight \in [1 .. n -> Nat]
  PROVE  /\ Total(weight, 1 .. n, 0) = 0
         /\ \A i \in 0 .. n : Total(weight, 1 .. n, i) \in Nat
         /\ \A i \in 1 .. n :
              Total(weight, 1 .. n, i) = Total(weight, 1 .. n, i - 1) + weight[i]
<1>1. PICK f : Sums(f, weight, 1 .. n, n)  BY TotalIsSum
<1>2. \A i \in 0 .. n : Total(weight, 1 .. n, i) = f[i]
  <2>1. SUFFICES ASSUME NEW i \in 0 .. n PROVE Total(weight, 1 .. n, i) = f[i]
    OBVIOUS
  <2>2. QED  BY <1>1, TotalPrefix
<1>3. f[0] = 0  BY <1>1, SumsStep
<1>4. \A i \in 0 .. n : f[i] \in Nat  BY <1>1, SumsNat
<1>5. \A i \in 1 .. n : f[i] = f[i - 1] + weight[i]
  <2>1. SUFFICES ASSUME NEW i \in 1 .. n PROVE f[i] = f[i - 1] + weight[i]
    OBVIOUS
  <2>2. PICK S : S = 1 .. n  OBVIOUS
  <2>3. Sums(f, weight, S, n) /\ i \in S  BY <1>1, <2>1, <2>2
  <2>4. QED  BY <2>1, <2>3, SumsIn
<1>6. 0 \in 0 .. n /\ \A i \in 1 .. n : i \in 0 .. n /\ i - 1 \in 0 .. n  OBVIOUS
<1>7. QED  BY <1>2, <1>3, <1>4, <1>5, <1>6

\* From an element of S on, the total has that element's weight in it.
LEMMA TotalLater ==
  ASSUME NEW S, NEW n \in Nat, NEW weight \in [1 .. n -> Nat],
         NEW i \in 1 .. n, i \in S, NEW j \in i .. n
  PROVE  /\ Total(weight, S, i - 1) \in Nat /\ Total(weight, S, j) \in Nat
         /\ Total(weight, S, i - 1) + weight[i] <= Total(weight, S, j)
<1>1. PICK f : Sums(f, weight, S, n)  BY TotalIsSum
<1>2. \A m \in 0 .. n : Total(weight, S, m) = f[m] /\ f[m] \in Nat
  <2>1. \A m \in 0 .. n : f[m] \in Nat  BY <1>1, SumsNat
  <2>2. \A m \in 0 .. n : Total(weight, S, m) = f[m]
    <3>1. ASSUME NEW m \in 0 .. n PROVE Total(weight, S, m) = f[m]
      BY <1>1, TotalPrefix
    <3>2. QED  BY <3>1
  <2>3. QED  BY <2>1, <2>2
<1>3. /\ f[0] = 0
      /\ \A m \in 1 .. n : f[m] = f[m - 1] + (IF m \in S THEN weight[m] ELSE 0)
  BY <1>1, SumsStep
<1>4. f[i] = f[i - 1] + weight[i]  BY <1>3
<1> DEFINE T == {k \in Nat : i <= k /\ k <= n => f[i] <= f[k]}
<1>5. 0 \in T  OBVIOUS
<1>6. ASSUME NEW k \in Nat, k \in T PROVE k + 1 \in T
  <2>1. SUFFICES ASSUME i <= k + 1, k + 1 <= n PROVE f[i] <= f[k + 1]
    OBVIOUS
  <2>2. f[k + 1] \in Nat  BY <1>2, <2>1
  <2>3. CASE i = k + 1  BY <2>2, <2>3
  <2>4. CASE i <= k
    <3>1. k + 1 \in 1 .. n /\ (k + 1) - 1 = k /\ k \in 0 .. n /\ f[i] <= f[k]
      BY <1>6, <2>1, <2>4
    <3>2. f[k + 1] = f[k] + (IF k + 1 \in S THEN weight[k + 1] ELSE 0)
      BY <1>3, <3>1
    <3>3. weight[k + 1] \in Nat /\ f[k] \in Nat /\ f[i] \in Nat  BY <1>2, <3>1
    <3>4. QED  BY <3>1, <3>2, <3>3
  <2>5. QED  BY <2>1, <2>3, <2>4
<1>7. Nat \subseteq T
  <2> HIDE DEF T
  <2>1. QED  BY <1>5, <1>6, NatSetInduction
<1>8. f[i] <= f[j]  BY <1>7
<1>9. i - 1 \in 0 .. n /\ j \in 0 .. n /\ i \in 0 .. n  OBVIOUS
<1>10. QED  BY <1>2, <1>4, <1>8, <1>9

-----------------------------------------------------------------------------
(* Elements of queues *)

\* A sequence over S has its elements in S.
LEMMA ElementsSubset ==
  ASSUME NEW S, NEW q \in Seq(S)
  PROVE  Elements(q) \subseteq S
BY ElementOfSeq DEF Elements

\* The empty queue.
LEMMA ElementsEmpty == Elements(<< >>) = {} /\ Distinct(<< >>)
BY DEF Elements, Distinct

\* Appending adds one element, and no duplicate if it is new.
LEMMA ElementsAppend ==
  ASSUME NEW S, NEW q \in Seq(S), NEW e \in S
  PROVE  /\ Append(q, e) \in Seq(S)
         /\ Elements(Append(q, e)) = Elements(q) \cup {e}
         /\ Distinct(q) /\ e \notin Elements(q) => Distinct(Append(q, e))
<1> DEFINE a == Append(q, e)
<1>1. /\ a \in Seq(S) /\ Len(q) \in Nat /\ Len(a) = Len(q) + 1
      /\ a[Len(q) + 1] = e /\ \A i \in 1 .. Len(q) : a[i] = q[i]
  OBVIOUS
<1> HIDE DEF a
<1>2. Elements(a) = Elements(q) \cup {e}
  <2>1. 1 .. Len(a) = (1 .. Len(q)) \cup {Len(q) + 1}  BY <1>1
  <2>2. QED  BY <1>1, <2>1 DEF Elements
<1>3. ASSUME Distinct(q), e \notin Elements(q) PROVE Distinct(a)
  BY <1>1, <1>3 DEF Elements, Distinct
<1>4. QED  BY <1>1, <1>2, <1>3 DEF a

\* Taking the head of a queue without duplicates removes it.
LEMMA ElementsTail ==
  ASSUME NEW S, NEW q \in Seq(S), q # << >>, Distinct(q)
  PROVE  /\ Head(q) \in Elements(q)
         /\ Tail(q) \in Seq(S)
         /\ Elements(Tail(q)) = Elements(q) \ {Head(q)}
         /\ Distinct(Tail(q))
<1> DEFINE t == Tail(q)
<1>1. /\ Len(q) \in Nat /\ Len(q) >= 1 /\ Head(q) = q[1]
      /\ t \in Seq(S) /\ Len(t) = Len(q) - 1
      /\ \A i \in 1 .. Len(t) : t[i] = q[i + 1]
  BY HeadTailProperties, LenProperties
<1> HIDE DEF t
<1>2. Head(q) \in Elements(q)
  BY <1>1 DEF Elements
<1>3. ASSUME NEW x \in Elements(t) PROVE x \in Elements(q) \ {Head(q)}
  <2>1. PICK i \in 1 .. Len(t) : x = t[i]  BY DEF Elements
  <2>2. x = q[i + 1] /\ i + 1 \in 1 .. Len(q) /\ i + 1 # 1  BY <1>1, <2>1
  <2>3. x # q[1]  BY <1>1, <2>2 DEF Distinct
  <2>4. QED  BY <1>1, <2>2, <2>3 DEF Elements
<1>4. ASSUME NEW x \in Elements(q) \ {Head(q)} PROVE x \in Elements(t)
  <2>1. PICK i \in 1 .. Len(q) : x = q[i]  BY DEF Elements
  <2>2. i # 1  BY <1>1, <2>1
  <2>3. i - 1 \in 1 .. Len(t) /\ t[i - 1] = x  BY <1>1, <2>1, <2>2
  <2>4. QED  BY <2>3 DEF Elements
<1>5. Distinct(t)
  <2>1. SUFFICES ASSUME NEW i \in 1 .. Len(t), NEW j \in 1 .. Len(t), t[i] = t[j]
                 PROVE  i = j
    BY DEF Distinct
  <2>2. i + 1 \in 1 .. Len(q) /\ j + 1 \in 1 .. Len(q) /\ q[i + 1] = q[j + 1]
    BY <1>1, <2>1
  <2>3. i + 1 = j + 1  BY <2>2 DEF Distinct
  <2>4. QED  BY <2>3
<1>6. QED  BY <1>1, <1>2, <1>3, <1>4, <1>5 DEF t

\* Joining two queues joins their elements.
LEMMA ElementsConcat ==
  ASSUME NEW S, NEW q \in Seq(S), NEW r \in Seq(S)
  PROVE  /\ q \o r \in Seq(S)
         /\ Elements(q \o r) = Elements(q) \cup Elements(r)
         /\ /\ Distinct(q)
            /\ Distinct(r)
            /\ Elements(q) \cap Elements(r) = {}
            => Distinct(q \o r)
<1> DEFINE c == q \o r
<1>1. /\ c \in Seq(S) /\ Len(c) = Len(q) + Len(r)
      /\ Len(q) \in Nat /\ Len(r) \in Nat
      /\ \A i \in 1 .. Len(c) : c[i] = IF i <= Len(q) THEN q[i] ELSE r[i - Len(q)]
  BY ConcatProperties, LenProperties
<1> HIDE DEF c
<1>2. ASSUME NEW x \in Elements(c) PROVE x \in Elements(q) \cup Elements(r)
  <2>1. PICK i \in 1 .. Len(c) : x = c[i]  BY DEF Elements
  <2>2. CASE i <= Len(q)
    BY <1>1, <2>1, <2>2, i \in 1 .. Len(q) DEF Elements
  <2>3. CASE ~ (i <= Len(q))
    BY <1>1, <2>1, <2>3, i - Len(q) \in 1 .. Len(r) DEF Elements
  <2>4. QED  BY <2>2, <2>3
<1>3. ASSUME NEW x \in Elements(q) PROVE x \in Elements(c)
  <2>1. PICK i \in 1 .. Len(q) : x = q[i]  BY DEF Elements
  <2>2. i \in 1 .. Len(c) /\ c[i] = x  BY <1>1, <2>1
  <2>3. QED  BY <2>2 DEF Elements
<1>4. ASSUME NEW x \in Elements(r) PROVE x \in Elements(c)
  <2>1. PICK i \in 1 .. Len(r) : x = r[i]  BY DEF Elements
  <2>2. /\ i + Len(q) \in 1 .. Len(c) /\ ~ (i + Len(q) <= Len(q))
        /\ (i + Len(q)) - Len(q) = i
    BY <1>1
  <2>3. c[i + Len(q)] = x  BY <1>1, <2>1, <2>2
  <2>4. QED  BY <2>2, <2>3 DEF Elements
<1>5. ASSUME Distinct(q), Distinct(r), Elements(q) \cap Elements(r) = {}
      PROVE  Distinct(c)
  <2>1. SUFFICES ASSUME NEW i \in 1 .. Len(c), NEW j \in 1 .. Len(c), c[i] = c[j]
                 PROVE  i = j
    BY DEF Distinct
  <2>2. ASSUME NEW k \in 1 .. Len(c), k <= Len(q)
        PROVE  k \in 1 .. Len(q) /\ c[k] = q[k] /\ c[k] \in Elements(q)
    BY <1>1, <2>2 DEF Elements
  <2>3. ASSUME NEW k \in 1 .. Len(c), ~ (k <= Len(q))
        PROVE  /\ k - Len(q) \in 1 .. Len(r) /\ c[k] = r[k - Len(q)]
               /\ c[k] \in Elements(r)
    BY <1>1, <2>3 DEF Elements
  <2>4. CASE i <= Len(q) /\ j <= Len(q)
    BY <1>5, <2>1, <2>2, <2>4 DEF Distinct
  <2>5. CASE ~ (i <= Len(q)) /\ ~ (j <= Len(q))
    <3>1. i - Len(q) = j - Len(q)  BY <1>5, <2>1, <2>3, <2>5 DEF Distinct
    <3>2. QED  BY <1>1, <3>1
  <2>6. ~ (i <= Len(q) /\ ~ (j <= Len(q)))  BY <1>5, <2>1, <2>2, <2>3
  <2>7. ~ (j <= Len(q) /\ ~ (i <= Len(q)))  BY <1>5, <2>1, <2>2, <2>3
  <2>8. QED  BY <2>4, <2>5, <2>6, <2>7
<1>6. QED  BY <1>1, <1>2, <1>3, <1>4, <1>5 DEF c

\* Splitting a queue without duplicates splits its elements.
LEMMA ElementsSplit ==
  ASSUME NEW S, NEW q \in Seq(S), NEW n \in 0 .. Len(q), Distinct(q)
  PROVE  /\ First(q, n) \in Seq(S) /\ Rest(q, n) \in Seq(S)
         /\ Len(First(q, n)) = n
         /\ Distinct(First(q, n)) /\ Distinct(Rest(q, n))
         /\ Elements(First(q, n)) \cup Elements(Rest(q, n)) = Elements(q)
         /\ Elements(First(q, n)) \cap Elements(Rest(q, n)) = {}
<1> DEFINE a == First(q, n)
           b == Rest(q, n)
<1>1. Len(q) \in Nat /\ n \in Nat /\ n <= Len(q)
  BY LenProperties
<1>2. /\ a \in Seq(S) /\ Len(a) = n
      /\ \A i \in 1 .. n : a[i] = q[i]
  <2>1. \A i \in 1 .. n : q[i] \in S  BY <1>1, ElementOfSeq
  <2>2. /\ a \in Seq(S)
        /\ Len(a) = IF 1 <= n THEN n - 1 + 1 ELSE 0
        /\ \A i \in 1 .. n - 1 + 1 : a[i] = q[1 + i - 1]
    BY <1>1, <2>1, SubSeqProperties DEF First
  <2>3. QED  BY <1>1, <2>2
<1>3. /\ b \in Seq(S) /\ Len(b) = Len(q) - n
      /\ \A i \in 1 .. Len(q) - n : b[i] = q[n + i]
  <2>1. \A i \in n + 1 .. Len(q) : q[i] \in S  BY <1>1, ElementOfSeq
  <2>2. /\ b \in Seq(S)
        /\ Len(b) = IF n + 1 <= Len(q) THEN Len(q) - (n + 1) + 1 ELSE 0
        /\ \A i \in 1 .. Len(q) - (n + 1) + 1 : b[i] = q[(n + 1) + i - 1]
    BY <1>1, <2>1, SubSeqProperties DEF Rest
  <2>3. QED  BY <1>1, <2>2
<1> HIDE DEF a, b
<1>4. Distinct(a)
  BY <1>1, <1>2 DEF Distinct
<1>5. Distinct(b)
  <2>1. SUFFICES ASSUME NEW i \in 1 .. Len(b), NEW j \in 1 .. Len(b), b[i] = b[j]
                 PROVE  i = j
    BY DEF Distinct
  <2>2. n + i \in 1 .. Len(q) /\ n + j \in 1 .. Len(q) /\ q[n + i] = q[n + j]
    BY <1>1, <1>3, <2>1
  <2>3. n + i = n + j  BY <2>2 DEF Distinct
  <2>4. QED  BY <1>1, <2>3
<1>6. ASSUME NEW x \in Elements(q) PROVE x \in Elements(a) \cup Elements(b)
  <2>1. PICK i \in 1 .. Len(q) : x = q[i]  BY DEF Elements
  <2>2. CASE i <= n
    BY <1>1, <1>2, <2>1, <2>2 DEF Elements
  <2>3. CASE ~ (i <= n)
    <3>1. i - n \in 1 .. Len(b) /\ b[i - n] = x  BY <1>1, <1>3, <2>1, <2>3
    <3>2. QED  BY <3>1 DEF Elements
  <2>4. QED  BY <2>2, <2>3
<1>7. ASSUME NEW x \in Elements(a)
      PROVE  \E i \in 1 .. Len(q) : i <= n /\ x = q[i]
  BY <1>1, <1>2 DEF Elements
<1>8. ASSUME NEW x \in Elements(b)
      PROVE  \E i \in 1 .. Len(q) : i > n /\ x = q[i]
  <2>1. PICK i \in 1 .. Len(b) : x = b[i]  BY DEF Elements
  <2>2. n + i \in 1 .. Len(q) /\ n + i > n /\ x = q[n + i]  BY <1>1, <1>3, <2>1
  <2>3. QED  BY <2>2
<1>9. Elements(a) \cup Elements(b) = Elements(q)
  <2>1. Elements(a) \subseteq Elements(q)  BY <1>7 DEF Elements
  <2>2. Elements(b) \subseteq Elements(q)  BY <1>8 DEF Elements
  <2>3. QED  BY <1>6, <2>1, <2>2
<1>10. Elements(a) \cap Elements(b) = {}
  <2>1. SUFFICES ASSUME NEW x \in Elements(a), x \in Elements(b) PROVE FALSE
    OBVIOUS
  <2>2. PICK i \in 1 .. Len(q) : i <= n /\ x = q[i]  BY <1>7
  <2>3. PICK j \in 1 .. Len(q) : j > n /\ x = q[j]  BY <1>8, <2>1
  <2>4. i = j  BY <2>2, <2>3 DEF Distinct
  <2>5. QED  BY <1>1, <2>2, <2>3, <2>4
<1>11. QED  BY <1>2, <1>3, <1>4, <1>5, <1>9, <1>10 DEF a, b

\* Reordering a queue keeps its elements.
LEMMA ElementsOrders ==
  ASSUME NEW S, NEW q \in Seq(S), Distinct(q), NEW r \in Orders(q)
  PROVE  /\ r \in Seq(S)
         /\ Distinct(r)
         /\ Elements(r) = Elements(q)
<1>1. /\ r \in [1 .. Len(q) -> Elements(q)] /\ Distinct(r)
      /\ Len(q) \in Nat
  BY LenProperties DEF Orders
<1>2. Elements(q) \subseteq S
  BY ElementsSubset
<1>3. r \in Seq(S) /\ Len(r) = Len(q)
  BY <1>1, <1>2
<1>4. Elements(r) \subseteq Elements(q)
  BY <1>1, <1>3 DEF Elements
<1>5. Elements(q) \subseteq Elements(r)
  <2> DEFINE D == 1 .. Len(q)
  <2>1. IsFiniteSet(D)  BY <1>1, FS_Interval
  <2>2. q \in Bijection(D, Elements(q))
    <3>1. q \in [D -> Elements(q)]
      BY LenProperties DEF Elements
    <3>2. QED
      BY <3>1 DEF Bijection, Injection, Surjection, IsInjective, Elements, Distinct
  <2>3. IsFiniteSet(Elements(q)) /\ Cardinality(Elements(q)) = Cardinality(D)
    <3>1. ExistsBijection(D, Elements(q))  BY <2>2 DEF ExistsBijection
    <3> HIDE DEF D
    <3>2. QED  BY <2>1, <3>1, FS_Bijection
  <2>4. r \in Injection(D, Elements(q))
    BY <1>1, <1>3 DEF Injection, IsInjective, Distinct
  <2>5. r \in Surjection(D, Elements(q))
    <3> HIDE DEF D
    <3>1. QED  BY <2>1, <2>3, <2>4, FS_Injection
  <2>6. QED  BY <1>3, <2>5 DEF Surjection, Elements
<1>6. QED  BY <1>1, <1>3, <1>4, <1>5

-----------------------------------------------------------------------------
(* How many elements of a queue are in a set *)

\* What one element adds to the count.
Mark(e, S) == IF e \in S THEN 1 ELSE 0

\* The count is a number.
LEMMA CopiesNat ==
  ASSUME NEW S, NEW T, NEW q \in Seq(T)
  PROVE  /\ IsFiniteSet({i \in 1 .. Len(q) : q[i] \in S})
         /\ Copies(q, S) \in Nat
<1>1. IsFiniteSet(1 .. Len(q))  BY LenProperties, FS_Interval
<1>2. {i \in 1 .. Len(q) : q[i] \in S} \in SUBSET (1 .. Len(q))  OBVIOUS
<1>3. IsFiniteSet({i \in 1 .. Len(q) : q[i] \in S})  BY <1>1, <1>2, FS_Subset
<1>4. QED  BY <1>3, FS_CardinalityType DEF Copies

\* It is zero when the queue has no such element.
LEMMA CopiesNone ==
  ASSUME NEW S, NEW T, NEW q \in Seq(T)
  PROVE  Copies(q, S) = 0 <=> \A i \in 1 .. Len(q) : q[i] \notin S
<1> DEFINE P == {i \in 1 .. Len(q) : q[i] \in S}
<1>1. IsFiniteSet(P)  BY CopiesNat
<1>2. Cardinality(P) = 0 <=> P = {}
  <2> HIDE DEF P
  <2>1. QED  BY <1>1, FS_EmptySet
<1>3. QED  BY <1>2 DEF Copies

\* The empty queue, and a queue of one element.
LEMMA CopiesEmpty == ASSUME NEW S PROVE Copies(<< >>, S) = 0
<1>1. {i \in 1 .. Len(<< >>) : << >>[i] \in S} = {}  OBVIOUS
<1>2. QED  BY <1>1, FS_EmptySet DEF Copies

LEMMA CopiesOne ==
  ASSUME NEW S, NEW e
  PROVE  Copies(<<e>>, S) = Mark(e, S) /\ Mark(e, S) \in Nat
<1>1. {i \in 1 .. Len(<<e>>) : <<e>>[i] \in S} = IF e \in S THEN {1} ELSE {}
  OBVIOUS
<1>2. QED  BY <1>1, FS_EmptySet, FS_Singleton DEF Copies, Mark

\* The count of two queues joined is the sum of the counts.
LEMMA CopiesConcat ==
  ASSUME NEW S, NEW T, NEW q \in Seq(T), NEW r \in Seq(T)
  PROVE  Copies(q \o r, S) = Copies(q, S) + Copies(r, S)
<1> DEFINE c == q \o r
           n == Len(q)
           A == {i \in 1 .. Len(q) : q[i] \in S}
           B == {i \in 1 .. Len(r) : r[i] \in S}
           C == {i \in 1 .. Len(c) : c[i] \in S}
           shift == [i \in B |-> i + n]
           Moved == {shift[i] : i \in B}
<1>1. /\ Len(c) = n + Len(r) /\ n \in Nat /\ Len(r) \in Nat
      /\ \A i \in 1 .. n + Len(r) : c[i] = IF i <= n THEN q[i] ELSE r[i - n]
  BY ConcatProperties, LenProperties
<1> HIDE DEF c, n
<1>2. IsFiniteSet(A) /\ IsFiniteSet(B)  BY CopiesNat
<1>3. B \subseteq Nat  BY <1>1
<1>4. C = A \cup Moved
  <2>1. ASSUME NEW i \in C PROVE i \in A \cup Moved
    <3>1. CASE i <= n
      <4>1. i \in 1 .. n /\ c[i] = q[i]  BY <1>1, <3>1
      <4>2. QED  BY <4>1 DEF n
    <3>2. CASE ~ (i <= n)
      <4>1. i - n \in B /\ shift[i - n] = i  BY <1>1, <3>2
      <4>2. QED  BY <4>1
    <3>3. QED  BY <3>1, <3>2
  <2>2. A \subseteq C  BY <1>1 DEF n
  <2>3. ASSUME NEW i \in B PROVE shift[i] \in C
    BY <1>1, shift[i] = i + n, i + n \in 1 .. n + Len(r), ~ (i + n <= n), (i + n) - n = i
  <2>4. QED  BY <2>1, <2>2, <2>3
<1>5. A \cap Moved = {}
  <2>1. \A i \in A : i <= n  BY <1>1 DEF n
  <2>2. \A i \in B : shift[i] = i + n /\ i >= 1  BY <1>1
  <2>3. ASSUME NEW i \in A, NEW j \in B PROVE i # shift[j]
    <3>1. i \in Nat /\ j \in Nat  BY <1>1, <1>3 DEF n
    <3>2. QED  BY <1>1, <2>1, <2>2, <3>1
  <2>4. QED  BY <2>3
<1>6. IsFiniteSet(Moved) /\ Cardinality(Moved) = Cardinality(B)
  <2>1. shift \in [B -> Moved]  OBVIOUS
  <2>2. \A i, j \in B : shift[i] = shift[j] => i = j  BY <1>1, <1>3
  <2>3. shift \in Bijection(B, Moved)
    BY <2>1, <2>2 DEF Bijection, Injection, Surjection, IsInjective
  <2>4. ExistsBijection(B, Moved)  BY <2>3 DEF ExistsBijection
  <2> HIDE DEF B, Moved
  <2>5. QED  BY <1>2, <2>4, FS_Bijection
<1>7. Cardinality(C) = Cardinality(A) + Cardinality(B)
  <2> HIDE DEF A, B, C, Moved
  <2>1. Cardinality(A \cap Moved) = 0  BY <1>5, FS_EmptySet
  <2>2. Cardinality(A) \in Nat /\ Cardinality(B) \in Nat  BY <1>2, FS_CardinalityType
  <2>3. Cardinality(A \cup Moved)
        = Cardinality(A) + Cardinality(Moved) - Cardinality(A \cap Moved)
    BY <1>2, <1>6, FS_Union
  <2>4. QED  BY <1>4, <1>6, <2>1, <2>2, <2>3
<1>8. QED  BY <1>7 DEF Copies, c

\* A queue is its head and its tail.
LEMMA HeadAndTail ==
  ASSUME NEW T, NEW q \in Seq(T), q # << >>
  PROVE  <<Head(q)>> \in Seq(T) /\ q = <<Head(q)>> \o Tail(q)
<1>1. <<Head(q)>> \in Seq(T)  BY HeadTailProperties
<1> DEFINE c == <<Head(q)>> \o Tail(q)
<1>2. /\ Len(q) \in Nat /\ Len(q) >= 1 /\ Head(q) = q[1]
      /\ Len(Tail(q)) = Len(q) - 1
      /\ \A i \in 1 .. Len(Tail(q)) : Tail(q)[i] = q[i + 1]
  BY HeadTailProperties, LenProperties, EmptySeq
<1>3. /\ c \in Seq(T) /\ Len(c) = 1 + Len(Tail(q))
      /\ \A i \in 1 .. 1 + Len(Tail(q)) :
            c[i] = IF i <= 1 THEN <<Head(q)>>[i] ELSE Tail(q)[i - 1]
  BY HeadTailProperties, <1>1, ConcatProperties
<1> HIDE DEF c
<1>4. ASSUME NEW i \in 1 .. Len(q) PROVE c[i] = q[i]
  <2>1. CASE i = 1  BY <1>2, <1>3, <2>1
  <2>2. CASE i # 1
    <3>1. i - 1 \in 1 .. Len(Tail(q)) /\ (i - 1) + 1 = i /\ ~ (i <= 1)
      BY <1>2, <2>2
    <3>2. QED  BY <1>2, <1>3, <3>1
  <2>3. QED  BY <2>1, <2>2
<1>5. c = q  BY <1>2, <1>3, <1>4, SeqEqual
<1>6. QED  BY <1>1, <1>5 DEF c

\* What appending, taking the head, and splitting do to the count.
LEMMA CopiesAppend ==
  ASSUME NEW S, NEW T, NEW q \in Seq(T), NEW e \in T
  PROVE  /\ Append(q, e) \in Seq(T)
         /\ Copies(Append(q, e), S) = Copies(q, S) + Mark(e, S)
<1>1. Append(q, e) = q \o <<e>> /\ <<e>> \in Seq(T)
  BY AppendIsConcat
<1>2. Copies(q \o <<e>>, S) = Copies(q, S) + Copies(<<e>>, S)
  BY <1>1, CopiesConcat
<1>3. QED  BY <1>1, <1>2, CopiesOne, AppendProperties

LEMMA CopiesTail ==
  ASSUME NEW S, NEW T, NEW q \in Seq(T), q # << >>
  PROVE  /\ Head(q) \in T /\ Tail(q) \in Seq(T)
         /\ Copies(q, S) = Copies(Tail(q), S) + Mark(Head(q), S)
<1>1. Head(q) \in T /\ Tail(q) \in Seq(T)  BY HeadTailProperties
<1>2. <<Head(q)>> \in Seq(T) /\ q = <<Head(q)>> \o Tail(q)
  BY HeadAndTail
<1>3. Copies(q, S) = Copies(<<Head(q)>>, S) + Copies(Tail(q), S)
  BY <1>1, <1>2, CopiesConcat
<1>4. Copies(Tail(q), S) \in Nat  BY <1>1, CopiesNat
<1>5. QED  BY <1>1, <1>3, <1>4, CopiesOne

LEMMA CopiesSplit ==
  ASSUME NEW S, NEW T, NEW q \in Seq(T), NEW n \in 0 .. Len(q)
  PROVE  /\ First(q, n) \in Seq(T) /\ Rest(q, n) \in Seq(T)
         /\ Len(First(q, n)) = n
         /\ First(q, n) \o Rest(q, n) = q
         /\ Copies(q, S) = Copies(First(q, n), S) + Copies(Rest(q, n), S)
<1>1. Len(q) \in Nat /\ n \in Nat /\ n <= Len(q)  BY LenProperties
<1>2. First(q, n) \in Seq(T) /\ Len(First(q, n)) = n
  <2>1. \A i \in 1 .. n : q[i] \in T  BY <1>1, ElementOfSeq
  <2>2. QED  BY <1>1, <2>1, SubSeqProperties DEF First
<1>3. Rest(q, n) \in Seq(T)
  <2>1. \A i \in n + 1 .. Len(q) : q[i] \in T  BY <1>1, ElementOfSeq
  <2>2. QED  BY <1>1, <2>1, SubSeqProperties DEF Rest
<1>4. First(q, n) \o Rest(q, n) = q
  <2>1. SubSeq(q, 1, n) \o SubSeq(q, n + 1, Len(q)) = SubSeq(q, 1, Len(q))
    BY <1>1, 1 \in 1 .. Len(q) + 1, n \in 1 - 1 .. Len(q), Len(q) \in n .. Len(q),
       ConcatAdjacentSubSeq
  <2>2. QED  BY <2>1, SubSeqFull DEF First, Rest
<1>5. QED  BY <1>2, <1>3, <1>4, CopiesConcat

\* In a queue without duplicates the count is the number of such elements.
LEMMA CopiesDistinct ==
  ASSUME NEW S, NEW T, NEW q \in Seq(T), Distinct(q)
  PROVE  /\ IsFiniteSet(Elements(q))
         /\ Copies(q, S) = Cardinality(S \cap Elements(q))
<1> DEFINE A == {i \in 1 .. Len(q) : q[i] \in S}
           at == [i \in A |-> q[i]]
           D == 1 .. Len(q)
<1>1. IsFiniteSet(A)  BY CopiesNat
<1>2. at \in Bijection(A, S \cap Elements(q))
  <2>1. at \in [A -> S \cap Elements(q)]  BY DEF Elements
  <2>2. \A i, j \in A : at[i] = at[j] => i = j  BY DEF Distinct
  <2>3. \A x \in S \cap Elements(q) : \E i \in A : at[i] = x  BY DEF Elements
  <2>4. QED  BY <2>1, <2>2, <2>3 DEF Bijection, Injection, Surjection, IsInjective
<1>3. ExistsBijection(A, S \cap Elements(q))  BY <1>2 DEF ExistsBijection
<1>4. Cardinality(S \cap Elements(q)) = Cardinality(A)
  <2> HIDE DEF A
  <2>1. QED  BY <1>1, <1>3, FS_Bijection
<1>5. IsFiniteSet(Elements(q))
  <2>1. IsFiniteSet(D)  BY LenProperties, FS_Interval
  <2>2. q \in Surjection(D, Elements(q))
    BY LenProperties DEF Surjection, Elements
  <2> HIDE DEF D
  <2>3. QED  BY <2>1, <2>2, FS_Surjection
<1>6. QED  BY <1>4, <1>5 DEF Copies

\* Only a queue without duplicates has orders, and an order has what it has.
LEMMA CopiesOrders ==
  ASSUME NEW S, NEW T, NEW q \in Seq(T), NEW r \in Orders(q)
  PROVE  /\ r \in Seq(T) /\ Len(r) = Len(q)
         /\ Distinct(q)
         /\ Copies(r, S) = Copies(q, S)
<1> DEFINE D == 1 .. Len(q)
<1>1. /\ r \in [D -> Elements(q)] /\ Distinct(r) /\ Len(q) \in Nat
  BY LenProperties DEF Orders
<1>2. Elements(q) \subseteq T  BY ElementsSubset
<1>3. r \in Seq(T) /\ Len(r) = Len(q)  BY <1>1, <1>2
<1>4. r \in Injection(D, Elements(q))
  BY <1>1, <1>3 DEF Injection, IsInjective, Distinct
<1>5. q \in Surjection(D, Elements(q))
  BY LenProperties DEF Surjection, Elements
<1>6. IsFiniteSet(D)  BY <1>1, FS_Interval
<1>7. Distinct(q)
  <2> HIDE DEF D
  <2>1. /\ IsFiniteSet(Elements(q))
        /\ Cardinality(Elements(q)) <= Cardinality(D)
        /\ Cardinality(Elements(q)) = Cardinality(D) <=> q \in Injection(D, Elements(q))
    BY <1>5, <1>6, FS_Surjection
  <2>2. Cardinality(D) <= Cardinality(Elements(q))
    BY <1>4, <2>1, FS_Injection
  <2>3. Cardinality(D) \in Nat /\ Cardinality(Elements(q)) \in Nat
    BY <1>6, <2>1, FS_CardinalityType
  <2>4. q \in Injection(D, Elements(q))  BY <2>1, <2>2, <2>3
  <2>5. QED  BY <2>4 DEF Injection, IsInjective, Distinct, D
<1>8. Elements(r) = Elements(q)  BY <1>7, ElementsOrders
<1>9. QED  BY <1>1, <1>3, <1>7, <1>8, CopiesDistinct

\* An element of q is counted.
LEMMA CopiesPositive ==
  ASSUME NEW S, NEW T, NEW q \in Seq(T), NEW e \in Elements(q), e \in S
  PROVE  Copies(q, S) \in Nat /\ Copies(q, S) >= 1
<1>1. PICK i \in 1 .. Len(q) : e = q[i]  BY DEF Elements
<1>2. Copies(q, S) # 0  BY <1>1, CopiesNone
<1>3. Copies(q, S) \in Nat  BY CopiesNat
<1>4. QED  BY <1>2, <1>3

\* Two elements at two places are counted twice.
LEMMA CopiesTwice ==
  ASSUME NEW S, NEW T, NEW q \in Seq(T), NEW i \in 1 .. Len(q), NEW j \in 1 .. Len(q),
         i # j, q[i] \in S, q[j] \in S
  PROVE  Copies(q, S) \in Nat /\ Copies(q, S) >= 2
<1> DEFINE A == {x \in 1 .. Len(q) : q[x] \in S}
<1>1. IsFiniteSet(A) /\ {i, j} \subseteq A  BY CopiesNat
<1> HIDE DEF A
<1>2. Cardinality({i} \cup {j}) = 2
  <2> DEFINE X == {i}
             Y == {j}
  <2>1. /\ IsFiniteSet(X) /\ Cardinality(X) = 1 /\ IsFiniteSet(Y) /\ Cardinality(Y) = 1
        /\ X \cap Y = {}
    BY FS_Singleton
  <2> HIDE DEF X, Y
  <2>2. Cardinality(X \cup Y) = Cardinality(X) + Cardinality(Y) - Cardinality(X \cap Y)
    BY <2>1, FS_Union
  <2>3. Cardinality(X \cap Y) = 0  BY <2>1, FS_EmptySet
  <2>4. Cardinality(X \cup Y) = 2  BY <2>1, <2>2, <2>3
  <2>5. QED  BY <2>4 DEF X, Y
<1>3. {i, j} = {i} \cup {j}  OBVIOUS
<1>4. Cardinality({i, j}) <= Cardinality(A)  BY <1>1, FS_Subset
<1>5. Cardinality(A) \in Nat  BY <1>1, FS_CardinalityType
<1>6. QED  BY <1>2, <1>3, <1>4, <1>5 DEF Copies, A

\* A queue in which everything is counted once at most has no duplicates.
LEMMA CopiesOnce ==
  ASSUME NEW T, NEW q \in Seq(T), \A e \in T : \E S : e \in S /\ Copies(q, S) <= 1
  PROVE  Distinct(q)
<1>1. SUFFICES ASSUME NEW i \in 1 .. Len(q), NEW j \in 1 .. Len(q), q[i] = q[j], i # j
      PROVE  FALSE
  BY DEF Distinct
<1>2. q[i] \in T  BY ElementOfSeq
<1>3. PICK S : q[i] \in S /\ Copies(q, S) <= 1  BY <1>2
<1>4. Copies(q, S) \in Nat /\ Copies(q, S) >= 2  BY <1>1, <1>3, CopiesTwice
<1>5. QED  BY <1>3, <1>4

\* The elements of S among the first k of q.
CountTo(q, S, k) == Cardinality({i \in 1 .. k : q[i] \in S})

\* One more element adds one, or nothing.
LEMMA CountToStep ==
  ASSUME NEW q, NEW S, NEW k \in Nat
  PROVE  /\ CountTo(q, S, k) \in Nat
         /\ CountTo(q, S, 0) = 0
         /\ q[k + 1] \in S => CountTo(q, S, k + 1) = CountTo(q, S, k) + 1
         /\ q[k + 1] \notin S => CountTo(q, S, k + 1) = CountTo(q, S, k)
<1> DEFINE In(m) == {i \in 1 .. m : q[i] \in S}
<1>1. IsFiniteSet(In(k))
  <2>1. IsFiniteSet(1 .. k)  BY FS_Interval
  <2>2. In(k) \in SUBSET (1 .. k)  OBVIOUS
  <2>3. QED  BY <2>1, <2>2, FS_Subset
<1>2. In(k + 1) = IF q[k + 1] \in S THEN In(k) \cup {k + 1} ELSE In(k)
  <2>1. 1 .. k + 1 = (1 .. k) \cup {k + 1}  OBVIOUS
  <2>2. QED  BY <2>1
<1>3. k + 1 \notin In(k)  OBVIOUS
<1>4. In(0) = {}  OBVIOUS
<1>5. CountTo(q, S, k) = Cardinality(In(k)) /\ CountTo(q, S, 0) = Cardinality(In(0))
      /\ CountTo(q, S, k + 1) = Cardinality(In(k + 1))
  BY DEF CountTo
<1> HIDE DEF In
<1>6. Cardinality(In(k)) \in Nat /\ Cardinality(In(0)) = 0
  BY <1>1, <1>4, FS_CardinalityType, FS_EmptySet
<1>7. Cardinality(In(k) \cup {k + 1}) = Cardinality(In(k)) + 1
  BY <1>1, <1>3, FS_AddElement
<1>8. QED  BY <1>2, <1>5, <1>6, <1>7

\* The bytes of a queue whose elements weigh small (in A), large (in B) or
\* nothing.
LEMMA WeightOfCopies ==
  ASSUME NEW T, NEW q \in Seq(T), NEW A, NEW B, A \cap B = {},
         NEW small \in Nat, NEW large \in Nat,
         NEW weight \in [1 .. Len(q) -> Nat],
         \A i \in 1 .. Len(q) : weight[i] = IF q[i] \in A THEN small
                                            ELSE IF q[i] \in B THEN large ELSE 0
  PROVE  Total(weight, 1 .. Len(q), Len(q))
         = small * Copies(q, A) + large * Copies(q, B)
<1> DEFINE n == Len(q)
<1>1. n \in Nat  BY LenProperties
<1>2. PICK f : Sums(f, weight, 1 .. n, n) /\ Total(weight, 1 .. n, n) = f[n]
  BY <1>1, TotalIsSum
<1>3. f[0] = 0 /\ \A i \in 1 .. n : f[i] = f[i - 1] + weight[i]
  <2> DEFINE All == 1 .. n
  <2>1. f[0] = 0 /\ \A i \in 1 .. n :
          f[i] = f[i - 1] + (IF i \in All THEN weight[i] ELSE 0)
    <3> HIDE DEF All
    <3>1. Sums(f, weight, All, n)  BY <1>2 DEF All
    <3>2. QED  BY <1>1, <3>1, SumsStep
  <2>2. QED  BY <2>1
<1>4. \A i \in 1 .. n : weight[i] = IF q[i] \in A THEN small
                                    ELSE IF q[i] \in B THEN large ELSE 0
  OBVIOUS
<1> DEFINE a(k) == CountTo(q, A, k)
           b(k) == CountTo(q, B, k)
           K == {k \in Nat : k <= n => f[k] = small * a(k) + large * b(k)}
<1>5. 0 \in K
  <2>1. a(0) = 0 /\ b(0) = 0  BY CountToStep
  <2>2. QED  BY <1>3, <2>1
<1>6. ASSUME NEW k \in Nat, k \in K PROVE k + 1 \in K
  <2>1. SUFFICES ASSUME k + 1 <= n
                 PROVE  f[k + 1] = small * a(k + 1) + large * b(k + 1)
    OBVIOUS
  <2>2. k + 1 \in 1 .. n /\ (k + 1) - 1 = k  BY <2>1, <1>1
  <2>3. f[k + 1] = f[k] + weight[k + 1]  BY <1>3, <2>2
  <2>4. f[k] = small * a(k) + large * b(k)  BY <1>1, <1>6, <2>1
  <2>5. a(k) \in Nat /\ b(k) \in Nat  BY CountToStep
  <2>6. /\ q[k + 1] \in A => a(k + 1) = a(k) + 1
        /\ q[k + 1] \notin A => a(k + 1) = a(k)
    BY CountToStep
  <2>7. /\ q[k + 1] \in B => b(k + 1) = b(k) + 1
        /\ q[k + 1] \notin B => b(k + 1) = b(k)
    BY CountToStep
  <2>8. weight[k + 1] = IF q[k + 1] \in A THEN small
                        ELSE IF q[k + 1] \in B THEN large ELSE 0
    BY <1>4, <2>2
  <2> HIDE DEF a, b
  <2>9. CASE q[k + 1] \in A
    <3>1. q[k + 1] \notin B  BY <2>9
    <3>2. small * (a(k) + 1) = small * a(k) + small  BY <2>5
    <3>3. QED  BY <2>3, <2>4, <2>5, <2>6, <2>7, <2>8, <2>9, <3>1, <3>2
  <2>10. CASE q[k + 1] \in B
    <3>1. q[k + 1] \notin A  BY <2>10
    <3>2. large * (b(k) + 1) = large * b(k) + large  BY <2>5
    <3>3. QED  BY <2>3, <2>4, <2>5, <2>6, <2>7, <2>8, <2>10, <3>1, <3>2
  <2>11. CASE q[k + 1] \notin A /\ q[k + 1] \notin B
    BY <2>3, <2>4, <2>5, <2>6, <2>7, <2>8, <2>11
  <2>12. QED  BY <2>9, <2>10, <2>11
<1>7. Nat \subseteq K
  <2> HIDE DEF K
  <2>1. QED  BY <1>5, <1>6, NatSetInduction
<1>8. a(n) = Copies(q, A) /\ b(n) = Copies(q, B)  BY DEF Copies, CountTo
<1> HIDE DEF a, b
<1>9. QED  BY <1>1, <1>2, <1>7, <1>8

\* How many elements of a set are in S: the same count for sets.
Within(M, S) == Cardinality(S \cap M)

LEMMA WithinNat ==
  ASSUME NEW S, NEW M, IsFiniteSet(M)
  PROVE  Within(M, S) \in Nat
BY FS_Intersection, FS_CardinalityType DEF Within

LEMMA WithinEmpty == ASSUME NEW S PROVE Within({}, S) = 0
<1>1. S \cap {} = {}  OBVIOUS
<1>2. QED  BY <1>1, FS_EmptySet DEF Within

LEMMA WithinOne ==
  ASSUME NEW S, NEW e
  PROVE  Within({e}, S) = Mark(e, S)
<1>1. S \cap {e} = IF e \in S THEN {e} ELSE {}  OBVIOUS
<1>2. QED  BY <1>1, FS_EmptySet, FS_Singleton DEF Within, Mark

LEMMA WithinUnion ==
  ASSUME NEW S, NEW M, NEW N, IsFiniteSet(M), IsFiniteSet(N), M \cap N = {}
  PROVE  /\ IsFiniteSet(M \cup N)
         /\ Within(M \cup N, S) = Within(M, S) + Within(N, S)
<1> DEFINE A == S \cap M
           B == S \cap N
<1>1. S \cap (M \cup N) = A \cup B /\ A \cap B = {}  OBVIOUS
<1>2. IsFiniteSet(A) /\ IsFiniteSet(B)  BY FS_Intersection
<1>3. Cardinality(A \cup B) = Cardinality(A) + Cardinality(B)
  <2> HIDE DEF A, B
  <2>1. Cardinality(A \cap B) = 0  BY <1>1, FS_EmptySet
  <2>2. Cardinality(A \cup B) = Cardinality(A) + Cardinality(B) - Cardinality(A \cap B)
    BY <1>2, FS_Union
  <2>3. Cardinality(A) \in Nat /\ Cardinality(B) \in Nat  BY <1>2, FS_CardinalityType
  <2>4. QED  BY <2>1, <2>2, <2>3
<1>4. QED  BY <1>1, <1>3, FS_Union DEF Within

\* An element that is in M and in S is counted.
LEMMA WithinPositive ==
  ASSUME NEW S, NEW M, IsFiniteSet(M), NEW e \in M, e \in S
  PROVE  Within(M, S) \in Nat /\ Within(M, S) >= 1
<1>1. IsFiniteSet(S \cap M) /\ S \cap M # {}  BY FS_Intersection
<1>2. Cardinality(S \cap M) # 0  BY <1>1, FS_EmptySet
<1>3. Within(M, S) \in Nat  BY WithinNat
<1>4. QED  BY <1>2, <1>3 DEF Within

-----------------------------------------------------------------------------
(* Parts of a queue, and how often its elements occur *)

\* A beginning that is longer by one.
LEMMA FirstGrows ==
  ASSUME NEW T, NEW q \in Seq(T), NEW n \in 1 .. Len(q)
  PROVE  /\ First(q, n - 1) \in Seq(T) /\ q[n] \in T
         /\ First(q, n) = Append(First(q, n - 1), q[n])
<1>1. Len(q) \in Nat /\ \A i \in 1 .. Len(q) : q[i] \in T  BY LenProperties, ElementOfSeq
<1>2. n - 1 \in 0 .. Len(q) /\ n \in 0 .. Len(q)  BY <1>1
<1>3. First(q, n - 1) \in Seq(T) /\ First(q, n) \in Seq(T)  BY <1>2, CopiesSplit
<1>4. \A i \in 1 .. n : First(q, n)[i] = q[i]  BY <1>1 DEF First
<1>5. \A i \in 1 .. n - 1 : First(q, n - 1)[i] = q[i]  BY <1>1 DEF First
<1>6. Len(First(q, n)) = n /\ Len(First(q, n - 1)) = n - 1  BY <1>2, CopiesSplit
<1> DEFINE a == First(q, n - 1)  b == First(q, n)
<1> HIDE DEF a, b
<1>7. b = Append(a, q[n])
  <2>1. a \in Seq(T) /\ b \in Seq(T) /\ Len(a) = n - 1 /\ Len(b) = n  BY <1>3, <1>6 DEF a, b
  <2>2. \A i \in 1 .. n : b[i] = Append(a, q[n])[i]
    <3>1. SUFFICES ASSUME NEW i \in 1 .. n PROVE b[i] = Append(a, q[n])[i]  OBVIOUS
    <3>2. b[i] = q[i] /\ (i # n => a[i] = q[i])  BY <1>4, <1>5 DEF a, b
    <3>3. QED  BY <2>1, <3>2, <1>1, AppendProperties
  <2>3. Append(a, q[n]) \in Seq(T) /\ Len(Append(a, q[n])) = n  BY <1>1, <2>1, AppendProperties
  <2>4. QED  BY <2>1, <2>2, <2>3, SeqEqual
<1>8. QED  BY <1>1, <1>3, <1>7 DEF a, b

\* The rest of a queue from its n-th element on.
LEMMA RestShrinks ==
  ASSUME NEW T, NEW q \in Seq(T), NEW n \in 1 .. Len(q), NEW S
  PROVE  /\ Rest(q, n - 1) \in Seq(T) /\ Rest(q, n) \in Seq(T) /\ q[n] \in T
         /\ Copies(Rest(q, n - 1), S) = Mark(q[n], S) + Copies(Rest(q, n), S)
<1>1. Len(q) \in Nat  BY LenProperties
<1>2. n - 1 \in 0 .. Len(q) /\ n \in 0 .. Len(q)  BY <1>1
<1>3. /\ Rest(q, n - 1) \in Seq(T) /\ Rest(q, n) \in Seq(T)
      /\ First(q, n - 1) \in Seq(T) /\ First(q, n) \in Seq(T)
      /\ Copies(q, S) = Copies(First(q, n - 1), S) + Copies(Rest(q, n - 1), S)
      /\ Copies(q, S) = Copies(First(q, n), S) + Copies(Rest(q, n), S)
  BY <1>2, CopiesSplit
<1>4. q[n] \in T /\ First(q, n) = Append(First(q, n - 1), q[n])  BY FirstGrows
<1>5. Copies(First(q, n), S) = Copies(First(q, n - 1), S) + Mark(q[n], S)
  BY <1>3, <1>4, CopiesAppend
<1> DEFINE a == Copies(Rest(q, n - 1), S)  b == Copies(Rest(q, n), S)
           c == Copies(First(q, n - 1), S)  m == Mark(q[n], S)
<1>6. a \in Nat /\ b \in Nat /\ c \in Nat /\ m \in Nat  BY <1>3, CopiesNat DEF Mark
<1>7. c + a = (c + m) + b  BY <1>3, <1>5
<1> HIDE DEF a, b, c, m
<1>8. a = m + b  BY <1>6, <1>7
<1>9. QED  BY <1>3, <1>4, <1>8 DEF a, b, m

\* Elements and counts of the first 0 and of all.
LEMMA PartEnds ==
  ASSUME NEW T, NEW q \in Seq(T)
  PROVE  First(q, 0) = << >> /\ First(q, Len(q)) = q /\ Rest(q, 0) = q /\ Rest(q, Len(q)) = << >>
<1>1. Len(q) \in Nat  BY LenProperties
<1>2. QED  BY <1>1, SubSeqFull, SubSeqProperties, EmptySeq DEF First, Rest

\* One element is replaced.
LEMMA CopiesReplaced ==
  ASSUME NEW T, NEW q \in Seq(T), NEW i \in 1 .. Len(q), NEW x \in T, NEW S
  PROVE  /\ [q EXCEPT ![i] = x] \in Seq(T) /\ Len([q EXCEPT ![i] = x]) = Len(q)
         /\ Copies([q EXCEPT ![i] = x], S) + Mark(q[i], S) = Copies(q, S) + Mark(x, S)
<1> DEFINE r == [q EXCEPT ![i] = x]
           A == {j \in 1 .. Len(q) : q[j] \in S}
           B == {j \in 1 .. Len(r) : r[j] \in S}
           C == {j \in 1 .. Len(q) : q[j] \in S /\ j # i}
<1>1. r \in Seq(T) /\ Len(r) = Len(q) /\ \A j \in 1 .. Len(q) : r[j] = IF j = i THEN x ELSE q[j]
  BY ExceptSeq
<1>2. A = (IF q[i] \in S THEN C \cup {i} ELSE C) /\ i \notin C  OBVIOUS
<1>3. B = (IF x \in S THEN C \cup {i} ELSE C)  BY <1>1
<1>4. IsFiniteSet(C)
  <2>1. Len(q) \in Nat  BY LenProperties
  <2>2. C \subseteq 1 .. Len(q)  OBVIOUS
  <2>3. IsFiniteSet(1 .. Len(q))  BY <2>1, FS_Interval
  <2> HIDE DEF C
  <2>4. QED  BY <2>2, <2>3, FS_Subset
<1> HIDE DEF r, A, B, C
<1>5. Cardinality(C) \in Nat /\ Cardinality(C \cup {i}) = Cardinality(C) + 1
  BY <1>2, <1>4, FS_AddElement, FS_CardinalityType
<1>6. Cardinality(A) = Cardinality(C) + Mark(q[i], S) /\ Cardinality(B) = Cardinality(C) + Mark(x, S)
  BY <1>2, <1>3, <1>5 DEF Mark
<1>7. Copies(r, S) = Cardinality(B) /\ Copies(q, S) = Cardinality(A)  BY DEF A, B, Copies
<1>8. Mark(x, S) \in Nat /\ Mark(q[i], S) \in Nat  BY DEF Mark
<1>9. QED  BY <1>1, <1>5, <1>6, <1>7, <1>8 DEF r

\* Counting in a larger or smaller set that makes no difference to the elements.
LEMMA CopiesAgree ==
  ASSUME NEW T, NEW q \in Seq(T), NEW S, NEW U, \A e \in Elements(q) : e \in S <=> e \in U
  PROVE  Copies(q, S) = Copies(q, U)
<1>1. {i \in 1 .. Len(q) : q[i] \in S} = {i \in 1 .. Len(q) : q[i] \in U}  BY DEF Elements
<1>2. QED  BY <1>1 DEF Copies

\* All elements are counted.
LEMMA CopiesAll ==
  ASSUME NEW T, NEW q \in Seq(T), NEW S, T \subseteq S
  PROVE  Copies(q, S) = Len(q)
<1>1. {i \in 1 .. Len(q) : q[i] \in S} = 1 .. Len(q)  BY ElementOfSeq
<1>2. Len(q) \in Nat  BY LenProperties
<1>3. Cardinality(1 .. Len(q)) = Len(q)
  <2>1. Cardinality(1 .. Len(q)) = IF 1 > Len(q) THEN 0 ELSE Len(q) - 1 + 1  BY <1>2, FS_Interval
  <2>2. QED  BY <1>2, <2>1
<1>4. QED  BY <1>1, <1>3 DEF Copies

\* What is in S and what is not.
LEMMA CopiesPartition ==
  ASSUME NEW T, NEW q \in Seq(T), NEW S, NEW U
  PROVE  /\ Copies(q, U) = Copies(q, U \cap S) + Copies(q, U \ S)
         /\ Copies(q, U) \in Nat /\ Copies(q, U \cap S) \in Nat /\ Copies(q, U \ S) \in Nat
<1> DEFINE A == {i \in 1 .. Len(q) : q[i] \in U \cap S}
           B == {i \in 1 .. Len(q) : q[i] \in U \ S}
           C == {i \in 1 .. Len(q) : q[i] \in U}
<1>1. C = A \cup B /\ A \cap B = {}  OBVIOUS
<1>2. IsFiniteSet(A) /\ IsFiniteSet(B)  BY CopiesNat
<1>3. Copies(q, U) = Cardinality(C) /\ Copies(q, U \cap S) = Cardinality(A) /\ Copies(q, U \ S) = Cardinality(B)
  BY DEF Copies
<1> HIDE DEF A, B, C
<1>4. Cardinality(C) = Cardinality(A) + Cardinality(B) - Cardinality(A \cap B)  BY <1>1, <1>2, FS_Union
<1>5. Cardinality(A \cap B) = 0  BY <1>1, FS_EmptySet
<1>6. Cardinality(A) \in Nat /\ Cardinality(B) \in Nat  BY <1>2, FS_CardinalityType
<1>7. QED  BY <1>3, <1>4, <1>5, <1>6, CopiesNat

\* A set of numbers that is not empty has a smallest.
LEMMA Smallest ==
  ASSUME NEW S, S \subseteq Nat, S # {}
  PROVE  \E m \in S : \A n \in S : m <= n
<1>1. SUFFICES ASSUME \A m \in S : \E n \in S : n < m PROVE FALSE
  <2>1. \A m, n \in S : ~ (n < m) => m <= n  OBVIOUS
  <2>2. QED  BY <2>1
<1> DEFINE T == {n \in Nat : \A m \in S : n < m}
<1>2. 0 \in T
  <2>1. SUFFICES ASSUME NEW m \in S PROVE 0 < m  OBVIOUS
  <2>2. PICK n \in S : n < m  BY <1>1
  <2>3. QED  BY <2>2
<1>3. ASSUME NEW n \in Nat, n \in T PROVE n + 1 \in T
  <2>1. SUFFICES ASSUME NEW m \in S PROVE n + 1 < m  OBVIOUS
  <2>2. PICK l \in S : l < m  BY <1>1
  <2>3. n < l /\ l \in Nat /\ m \in Nat  BY <1>3
  <2>4. QED  BY <2>2, <2>3
<1>4. Nat \subseteq T
  <2> HIDE DEF T
  <2>1. QED  BY <1>2, <1>3, NatSetInduction
<1>5. PICK m \in S : TRUE  OBVIOUS
<1>6. m < m /\ m \in Nat  BY <1>4, <1>5
<1>7. QED  BY <1>6

\* A sequence over a set is one over a larger set.
LEMMA SeqLarger == ASSUME NEW S, NEW T, S \subseteq T, NEW q \in Seq(S) PROVE q \in Seq(T)
BY SeqDef, ElementOfSeq, LenProperties

\* A sequence over two sets is one over what they share.
LEMMA SeqBoth == ASSUME NEW S, NEW T, NEW q, q \in Seq(S), q \in Seq(T) PROVE q \in Seq(S \cap T)
<1>1. Len(q) \in Nat /\ \A i \in 1 .. Len(q) : q[i] \in S  BY ElementOfSeq, LenProperties
<1>2. \A i \in 1 .. Len(q) : q[i] \in T  BY ElementOfSeq
<1>3. QED  BY <1>1, <1>2, SeqDef

-----------------------------------------------------------------------------
(* The elements of a queue that are in a set *)

\* What is chosen from a queue.
LEMMA AmongFacts ==
  ASSUME NEW T, NEW q \in Seq(T), NEW S
  PROVE  /\ Among(q, S) \in Seq(S \cap T)
         /\ Len(Among(q, S)) \in Nat /\ Len(Among(q, S)) <= Len(q)
         /\ \A U : Copies(Among(q, S), U) = Copies(q, S \cap U)
<1> DEFINE h == [q |-> q, S |-> S, T |-> T]
<1>1. Among(q, S) = Keeps!Carried(S, << >>, q)
  BY Zenon DEF Keeps!Carried, Keeps!Steps, Among, Through, Keeping
<1>2. Len(q) \in Nat  BY LenProperties
<1>3. h.q = q /\ h.S = S /\ h.T = T  OBVIOUS
<1> HIDE DEF h
<1>4. KeptSoFar(h, << >>, 0)
  <2>1. First(q, 0) = << >>  BY PartEnds
  <2>2. << >> \in Seq(S \cap T) /\ Len(<< >>) = 0  BY EmptySeq
  <2>3. \A U : Copies(<< >>, U) = 0 /\ Copies(<< >>, S \cap U) = 0  BY CopiesEmpty
  <2>4. QED  BY <1>3, <2>1, <2>2, <2>3 DEF KeptSoFar
<1>5. ASSUME NEW n \in 1 .. Len(q), NEW r, KeptSoFar(h, r, n - 1)
      PROVE  KeptSoFar(h, Keeping(S, r, q[n]), n)
  <2>1. /\ r \in Seq(S \cap T) /\ Len(r) <= n - 1
        /\ \A U : Copies(r, U) = Copies(First(q, n - 1), S \cap U)
    BY <1>3, <1>5 DEF KeptSoFar
  <2>2. /\ First(q, n - 1) \in Seq(T) /\ q[n] \in T
        /\ First(q, n) = Append(First(q, n - 1), q[n])
    BY FirstGrows
  <2>3. Len(r) \in Nat /\ n \in Nat  BY <2>1, LenProperties, <1>2
  <2>4. \A U : Copies(First(q, n), S \cap U) = Copies(First(q, n - 1), S \cap U) + Mark(q[n], S \cap U)
    BY <2>2, CopiesAppend
  <2>5. CASE q[n] \in S
    <3>1. q[n] \in S \cap T  BY <2>2, <2>5
    <3>2. Append(r, q[n]) \in Seq(S \cap T) /\ Len(Append(r, q[n])) = Len(r) + 1
      BY <2>1, <3>1, AppendProperties
    <3>3. \A U : Copies(Append(r, q[n]), U) = Copies(r, U) + Mark(q[n], U)
      BY <2>1, <3>1, CopiesAppend
    <3>4. \A U : Mark(q[n], U) = Mark(q[n], S \cap U)  BY <2>5 DEF Mark
    <3>5. \A U : Copies(Append(r, q[n]), U) = Copies(First(q, n), S \cap U)
      BY <2>1, <2>4, <3>3, <3>4
    <3>6. Keeping(S, r, q[n]) = Append(r, q[n])  BY <2>5 DEF Keeping
    <3>7. QED  BY <1>3, <2>1, <2>3, <3>2, <3>5, <3>6 DEF KeptSoFar
  <2>6. CASE q[n] \notin S
    <3>1. \A U : Mark(q[n], S \cap U) = 0  BY <2>6 DEF Mark
    <3>2. \A U : Copies(First(q, n - 1), S \cap U) \in Nat  BY <2>2, CopiesNat
    <3>3. \A U : Copies(r, U) = Copies(First(q, n), S \cap U)
      <4>1. SUFFICES ASSUME NEW U PROVE Copies(r, U) = Copies(First(q, n), S \cap U)
        OBVIOUS
      <4>2. Copies(First(q, n), S \cap U) = Copies(First(q, n - 1), S \cap U) + 0
        BY <2>4, <3>1
      <4>3. Copies(First(q, n - 1), S \cap U) \in Nat  BY <3>2
      <4>4. Copies(First(q, n), S \cap U) = Copies(First(q, n - 1), S \cap U)  BY <4>2, <4>3
      <4>5. QED  BY <2>1, <4>4
    <3>4. Keeping(S, r, q[n]) = r  BY <2>6 DEF Keeping
    <3>5. QED  BY <1>3, <2>1, <2>3, <3>3, <3>4 DEF KeptSoFar
  <2>7. QED  BY <2>5, <2>6
<1>6. KeptSoFar(h, Keeps!Carried(S, << >>, q), Len(q))
  BY <1>2, <1>4, <1>5, Keeps!KeptFor
<1>7. First(q, Len(q)) = q  BY PartEnds
<1>8. QED  BY <1>1, <1>3, <1>6, <1>7, LenProperties DEF KeptSoFar

=============================================================================
