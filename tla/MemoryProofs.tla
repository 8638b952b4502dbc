---------------------------- MODULE MemoryProofs ----------------------------
(***************************************************************************)
(* Physical memory and the walker that looks it up, for any sizes.         *)
(* VirtualMemory gives a page to one use only; AddressMap gives different  *)
(* addresses of pool ranges different places in the pool, for any page     *)
(* tables and any ranges; the page table walker answers each request once, *)
(* has a read under way for every walk that waits, and caches pages of the *)
(* table only.                                                             *)
(*                                                                         *)
(* The state of VirtualMemory is a record that the operations pass on, so  *)
(* its invariant is a predicate on such a record m; the walker's stages    *)
(* pass on a record as well, with the memory in it, and its invariant is   *)
(* one on the variables of PageTableWalker.                                *)
(***************************************************************************)
EXTENDS PageTableWalker, QueueLemmas

-----------------------------------------------------------------------------
(* The inductive invariant of VirtualMemory *)

\* The pages of the free list when it is full.
Pages == FirstPage .. FirstPage + Populated - 1

Shaped(m) ==
  m = [free |-> m.free, order |-> m.order, map |-> m.map, table |-> m.table,
       active |-> m.active, next |-> m.next, refilled |-> m.refilled]

Typed(m) ==
  /\ Shaped(m)
  /\ m.free \in Seq(Pages) /\ Len(m.free) \in 1 .. Populated
  /\ m.order \in Shuffles
  /\ DOMAIN m.map \subseteq Vpages
  /\ \A v \in DOMAIN m.map : m.map[v] \in Nat
  /\ \A k \in DOMAIN m.table :
       k[1] \in 1 .. PtLevels /\ m.table[k] \in Pages \X (0 .. PteSlots - 1)
  /\ m.next \in 0 .. PteSlots - 1
  /\ m.next # 0 => m.active \in Pages
  /\ m.refilled \in BOOLEAN

\* The page holds page table pages, or (active) is the one for the next.
ForTables(m, active, page) ==
  \/ active /\ page = m.active
  \/ \E k \in DOMAIN m.table : page = m.table[k][1]

\* What is in use is not free, a page of the map is not one of the table, and
\* the slots of the active page from next on are not used.
Apart(m, active) ==
  /\ Distinct(m.free)
  /\ \A v \in DOMAIN m.map :
       IF v \in DOMAIN PoolPages
       THEN m.map[v] = PoolPages[v]
       ELSE m.map[v] \in Pages \ Elements(m.free)
  /\ \A v, u \in DOMAIN m.map : m.map[v] = m.map[u] => v = u
  /\ \A page \in Elements(m.free) : ~ ForTables(m, active, page)
  /\ \A v \in DOMAIN m.map : ~ ForTables(m, active, m.map[v])
  /\ \A k, l \in DOMAIN m.table : m.table[k] = m.table[l] => k = l
  /\ active => \A k \in DOMAIN m.table : m.table[k][1] = m.active => m.table[k][2] < m.next

Sound(m) == Typed(m) /\ (~ m.refilled => Apart(m, m.next # 0))

\* A pool page is no page of the free list.
LEMMA PoolAbove == \A v \in DOMAIN PoolPages : PoolPages[v] \notin Pages
BY PoolPagesAssumption, MemoryAssumption DEF Pages

-----------------------------------------------------------------------------
(* The free list *)

LEMMA Populates ==
  ASSUME NEW order \in Shuffles
  PROVE  /\ Populate(order) \in Seq(Pages) /\ Len(Populate(order)) = Populated
         /\ Distinct(Populate(order))
<1> DEFINE q == Populate(order)
<1>1. order \in [1 .. Populated -> 1 .. Populated] /\ Distinct(order) /\ Len(order) = Populated
  BY ShufflesAssumption, MemoryAssumption
<1>2. q = [i \in 1 .. Populated |-> FirstPage + order[i] - 1]
  BY DEF Populate
<1> HIDE DEF q
<1>3. \A i \in 1 .. Populated : q[i] = FirstPage + order[i] - 1 /\ q[i] \in Pages
  <2>1. ASSUME NEW i \in 1 .. Populated
        PROVE  q[i] = FirstPage + order[i] - 1 /\ q[i] \in Pages
    <3>1. q[i] = FirstPage + order[i] - 1  BY <1>2
    <3>2. order[i] \in 1 .. Populated  BY <1>1
    <3>3. QED  BY <3>1, <3>2, MemoryAssumption DEF Pages
  <2>2. QED  BY <2>1
<1>4. q \in Seq(Pages) /\ Len(q) = Populated
  <2>1. q \in [1 .. Populated -> Pages]  BY <1>2, <1>3
  <2>2. QED  BY <2>1, MemoryAssumption
<1>5. \A i, j \in 1 .. Populated : q[i] = q[j] => i = j
  <2>1. SUFFICES ASSUME NEW i \in 1 .. Populated, NEW j \in 1 .. Populated, q[i] = q[j]
                 PROVE  i = j
    OBVIOUS
  <2>2. order[i] \in Nat /\ order[j] \in Nat  BY <1>1
  <2>3. order[i] = order[j]  BY <1>3, <2>1, <2>2, MemoryAssumption
  <2>4. QED  BY <1>1, <2>3 DEF Distinct
<1>6. QED  BY <1>4, <1>5 DEF Distinct, q

\* Taking a page from the list: it is the next one, or the list is full again.
LEMMA Pops ==
  ASSUME NEW m, Typed(m)
  PROVE  LET n == Pop(m)
         IN  /\ n = [m EXCEPT !.free = n.free, !.refilled = n.refilled]
             /\ n.free \in Seq(Pages) /\ Len(n.free) \in 1 .. Populated
             /\ n.refilled \in BOOLEAN
             /\ ~ n.refilled => /\ ~ m.refilled
                                /\ n.free = Tail(m.free)
<1> DEFINE n == Pop(m)
<1>1. m.free # << >> /\ Len(m.free) \in 1 .. Populated /\ m.order \in Shuffles /\ m.free \in Seq(Pages)
  BY DEF Typed
<1>2. CASE Len(m.free) = 1
  <2>1. n = [m EXCEPT !.free = Populate(m.order), !.refilled = TRUE]
    BY <1>2 DEF Pop
  <2>2. n.free = Populate(m.order) /\ n.refilled = TRUE  BY <2>1 DEF Typed, Shaped
  <2>3. QED  BY <1>1, <2>1, <2>2, Populates, MemoryAssumption
<1>3. CASE Len(m.free) # 1
  <2>1. n = [m EXCEPT !.free = Tail(m.free)]  BY <1>3 DEF Pop
  <2>2. n.free = Tail(m.free) /\ n.refilled = m.refilled  BY <2>1 DEF Typed, Shaped
  <2>3. Tail(m.free) \in Seq(Pages) /\ Len(Tail(m.free)) = Len(m.free) - 1
    BY <1>1, HeadTailProperties
  <2>4. Len(Tail(m.free)) \in 1 .. Populated
    <3>1. \A k \in 1 .. Populated : k # 1 => k - 1 \in 1 .. Populated  BY MemoryAssumption
    <3>2. QED  BY <1>1, <1>3, <2>3, <3>1
  <2>5. n = [m EXCEPT !.free = n.free, !.refilled = n.refilled]
    BY <2>1, <2>2 DEF Typed, Shaped
  <2>6. m.refilled \in BOOLEAN  BY DEF Typed
  <2>7. QED  BY <2>2, <2>3, <2>4, <2>5, <2>6
<1>4. QED  BY <1>2, <1>3

\* Without the first page of the list, which was free, nothing else is free.
LEMMA FreeLess ==
  ASSUME NEW q \in Seq(Pages), q # << >>, Distinct(q)
  PROVE  /\ Head(q) \in Pages /\ Head(q) \in Elements(q) /\ Distinct(Tail(q))
         /\ Elements(Tail(q)) = Elements(q) \ {Head(q)}
BY ElementsTail, ElementsSubset

-----------------------------------------------------------------------------
(* The page table *)

\* The page for page table pages is not used by others.
LEMMA ActiveSound ==
  ASSUME NEW m, Sound(m)
  PROVE  LET a == ActivePage(m)
         IN  /\ Typed(a) /\ a.active \in Pages
             /\ a.table = m.table
             /\ ~ a.refilled => Apart(a, TRUE)
<1> DEFINE a == ActivePage(m)
<1>1. Typed(m) /\ (~ m.refilled => Apart(m, m.next # 0))
  BY DEF Sound
<1>2. CASE m.next # 0
  <2>1. a = m  BY <1>2 DEF ActivePage
  <2>2. m.active \in Pages  BY <1>1, <1>2 DEF Typed
  <2>3. QED  BY <1>1, <1>2, <2>1, <2>2
<1>3. CASE m.next = 0
  <2> DEFINE h == Head(m.free)
             m1 == [m EXCEPT !.active = h]
  <2>1. m.free \in Seq(Pages) /\ m.free # << >> /\ h \in Pages
    <3>1. m.free \in Seq(Pages) /\ Len(m.free) \in 1 .. Populated  BY <1>1 DEF Typed
    <3>2. m.free # << >>  BY <3>1
    <3>3. QED  BY <3>1, <3>2, HeadTailProperties
  <2>2. /\ m1.free = m.free /\ m1.order = m.order /\ m1.map = m.map /\ m1.table = m.table
        /\ m1.active = h /\ m1.next = m.next /\ m1.refilled = m.refilled
        /\ Shaped(m1)
    BY <1>1 DEF Typed, Shaped
  <2>3. a = Pop(m1)  BY <1>3 DEF ActivePage
  <2> HIDE DEF h, m1
  <2>4. Typed(m1)  BY <1>1, <1>3, <2>2 DEF Typed
  <2>5. /\ a = [m1 EXCEPT !.free = a.free, !.refilled = a.refilled]
        /\ a.free \in Seq(Pages) /\ Len(a.free) \in 1 .. Populated
        /\ a.refilled \in BOOLEAN
        /\ ~ a.refilled => ~ m1.refilled /\ a.free = Tail(m1.free)
    BY <2>3, <2>4, Pops
  <2> HIDE DEF a
  <2>6. /\ a.order = m.order /\ a.map = m.map /\ a.table = m.table
        /\ a.active = h /\ a.next = m.next /\ Shaped(a)
    BY <2>2, <2>5 DEF Shaped
  <2>7. Typed(a)  BY <2>1, <2>4, <2>2, <2>5, <2>6 DEF Typed
  <2>8. ASSUME ~ a.refilled PROVE Apart(a, TRUE)
    <3>1. Apart(m, FALSE)  BY <1>1, <1>3, <2>2, <2>5, <2>8
    <3>2. a.free = Tail(m.free)  BY <2>2, <2>5, <2>8
    <3>3. /\ h \in Elements(m.free) /\ Distinct(a.free)
          /\ Elements(a.free) = Elements(m.free) \ {h}
      BY <2>1, <3>1, <3>2, FreeLess DEF Apart, h
    <3>4. \A k \in DOMAIN m.table : m.table[k][1] # h  BY <3>1, <3>3 DEF Apart, ForTables
    <3>5. \A v \in DOMAIN m.map : m.map[v] # h
      BY <2>1, <3>1, <3>3, PoolAbove DEF Apart
    <3>6. \A page : ForTables(a, TRUE, page) <=> page = h \/ ForTables(m, FALSE, page)
      BY <2>6 DEF ForTables
    <3>7. QED  BY <2>6, <3>1, <3>3, <3>4, <3>5, <3>6 DEF Apart
  <2>9. QED  BY <2>1, <2>6, <2>7, <2>8 DEF a
<1>4. QED  BY <1>2, <1>3

\* A new entry takes the next slot of the active page.
NewEntry(a, key) ==
  [a EXCEPT !.table = [k \in DOMAIN a.table \cup {key} |->
                         IF k = key THEN <<a.active, a.next>> ELSE a.table[k]],
            !.next = (a.next + 1) % PteSlots]

LEMMA EntrySound ==
  ASSUME NEW a, Typed(a), a.active \in Pages, ~ a.refilled => Apart(a, TRUE),
         NEW l \in 1 .. PtLevels, NEW up, <<l, up>> \notin DOMAIN a.table
  PROVE  Sound(NewEntry(a, <<l, up>>))
<1> DEFINE key == <<l, up>>
           entry == <<a.active, a.next>>
           t == [k \in DOMAIN a.table \cup {key} |-> IF k = key THEN entry ELSE a.table[k]]
           x == (a.next + 1) % PteSlots
           n == [a EXCEPT !.table = t, !.next = x]
<1>a. NewEntry(a, <<l, up>>) = n  BY DEF NewEntry
<1> HIDE DEF t, x
<1>1. /\ n.free = a.free /\ n.order = a.order /\ n.map = a.map /\ n.table = t
      /\ n.active = a.active /\ n.next = x /\ n.refilled = a.refilled
      /\ Shaped(n)
  <2>1. n = [free |-> a.free, order |-> a.order, map |-> a.map, table |-> t,
             active |-> a.active, next |-> x, refilled |-> a.refilled]
    <3> DEFINE half == [a EXCEPT !.table = t]
    <3>1. half = [free |-> a.free, order |-> a.order, map |-> a.map, table |-> t,
                  active |-> a.active, next |-> a.next, refilled |-> a.refilled]
      BY DEF Typed, Shaped
    <3>2. n = [half EXCEPT !.next = x]  OBVIOUS
    <3> HIDE DEF half, n
    <3>3. QED  BY <3>1, <3>2
  <2> HIDE DEF n
  <2>2. QED  BY <2>1 DEF Shaped
<1> USE DEF t, x
<1>2. key[1] \in 1 .. PtLevels /\ entry[1] = a.active /\ entry[2] = a.next
  OBVIOUS
<1>3. a.next \in 0 .. PteSlots - 1  BY DEF Typed
<1>4. x \in 0 .. PteSlots - 1 /\ (x # 0 => x = a.next + 1)
  BY <1>3, MemoryAssumption
<1>5. entry \in Pages \X (0 .. PteSlots - 1)  BY <1>3
<1>6. /\ DOMAIN t = DOMAIN a.table \cup {key} /\ t[key] = entry /\ key \notin DOMAIN a.table
      /\ \A k \in DOMAIN a.table : t[k] = a.table[k]
  OBVIOUS
<1> HIDE DEF key, entry, t, x, n
<1>7. Typed(n)
  <2>1. \A k \in DOMAIN n.table :
          k[1] \in 1 .. PtLevels /\ n.table[k] \in Pages \X (0 .. PteSlots - 1)
    BY <1>1, <1>2, <1>5, <1>6 DEF Typed
  <2>2. QED  BY <1>1, <1>4, <2>1 DEF Typed
<1>8. ASSUME ~ n.refilled PROVE Apart(n, n.next # 0)
  <2>1. Apart(a, TRUE)  BY <1>1, <1>8
  <2>2. \A page : ForTables(n, n.next # 0, page) => ForTables(a, TRUE, page)
    BY <1>1, <1>2, <1>6 DEF ForTables
  <2>3. \A k \in DOMAIN a.table :
          a.table[k][1] = a.active => a.table[k][2] < a.next /\ a.table[k] # entry
    BY <1>2, <1>3, <2>1 DEF Apart
  <2>4. \A k \in DOMAIN a.table : a.table[k] # entry
    BY <1>2, <2>3
  <2>5. \A k, j \in DOMAIN n.table : n.table[k] = n.table[j] => k = j
    BY <1>1, <1>6, <2>1, <2>4 DEF Apart
  <2>6. ASSUME n.next # 0, NEW k \in DOMAIN n.table, n.table[k][1] = n.active
        PROVE  n.table[k][2] < n.next
    <3>1. n.next = a.next + 1  BY <1>1, <1>4, <2>6
    <3>2. CASE k = key  BY <1>1, <1>2, <1>3, <1>6, <3>1, <3>2
    <3>3. CASE k # key
      <4>1. k \in DOMAIN a.table /\ n.table[k] = a.table[k]  BY <1>1, <1>6, <3>3
      <4>2. a.table[k][2] < a.next /\ a.table[k][2] \in 0 .. PteSlots - 1
        BY <1>1, <2>3, <2>6, <4>1 DEF Typed
      <4>3. QED  BY <1>3, <3>1, <4>1, <4>2
    <3>4. QED  BY <3>2, <3>3
  <2>7. QED  BY <1>1, <2>1, <2>2, <2>5, <2>6 DEF Apart
<1>9. Sound(n)  BY <1>7, <1>8 DEF Sound
<1>10. QED  BY <1>9, <1>a DEF n, t, x, entry, key

LEMMA StepSound ==
  ASSUME NEW m, Sound(m), NEW v, NEW l \in 1 .. PtLevels
  PROVE  Sound(GetPtePa(m, v, l).vm)
<1> DEFINE a == ActivePage(m)
           key == <<l, Key(v, l)>>
<1>1. /\ Typed(a) /\ a.active \in Pages /\ a.table = m.table
      /\ ~ a.refilled => Apart(a, TRUE)
  BY ActiveSound
<1>2. GetPtePa(m, v, l).vm =
        IF key \in DOMAIN m.table THEN a
        ELSE NewEntry(a, key)
  BY <1>1 DEF GetPtePa, NewEntry
<1> HIDE DEF a
<1>3. CASE key \in DOMAIN m.table
  <2>1. Sound(a)
    <3>1. ~ a.refilled => Apart(a, a.next # 0)  BY <1>1 DEF Apart, ForTables
    <3>2. QED  BY <1>1, <3>1 DEF Sound
  <2>2. QED  BY <1>2, <1>3, <2>1
<1>4. CASE key \notin DOMAIN m.table
  <2>1. Sound(NewEntry(a, <<l, Key(v, l)>>))  BY <1>1, <1>4, EntrySound
  <2>2. QED  BY <1>2, <1>4, <2>1
<1>5. QED  BY <1>3, <1>4

-----------------------------------------------------------------------------
(* The map *)

LEMMA PlaceSound ==
  ASSUME NEW m, Sound(m), NEW v \in Vpages, v \notin DOMAIN m.map, NEW page,
         page = IF v \in DOMAIN PoolPages THEN PoolPages[v] ELSE Head(m.free)
  PROVE  Sound(Place(m, v, page))
<1> DEFINE mp == [u \in DOMAIN m.map \cup {v} |-> IF u = v THEN page ELSE m.map[u]]
           placed == [m EXCEPT !.map = mp]
           h == Head(m.free)
<1>1. Typed(m) /\ (~ m.refilled => Apart(m, m.next # 0))
  BY DEF Sound
<1>2. Place(m, v, page) = IF v \in DOMAIN PoolPages THEN placed ELSE Pop(placed)
  BY DEF Place
<1>3. /\ DOMAIN mp = DOMAIN m.map \cup {v} /\ mp[v] = page
      /\ \A u \in DOMAIN m.map : mp[u] = m.map[u]
  BY v \notin DOMAIN m.map
<1> HIDE DEF mp
<1>4. /\ placed.free = m.free /\ placed.order = m.order /\ placed.map = mp
      /\ placed.table = m.table /\ placed.active = m.active /\ placed.next = m.next
      /\ placed.refilled = m.refilled
      /\ Shaped(placed)
  <2>1. placed = [free |-> m.free, order |-> m.order, map |-> mp, table |-> m.table,
                  active |-> m.active, next |-> m.next, refilled |-> m.refilled]
    BY <1>1 DEF Typed, Shaped
  <2> HIDE DEF placed
  <2>2. QED  BY <2>1 DEF Shaped
<1> HIDE DEF placed
<1>6. m.free \in Seq(Pages) /\ m.free # << >>
  <2>1. m.free \in Seq(Pages) /\ Len(m.free) \in 1 .. Populated  BY <1>1 DEF Typed
  <2>2. QED  BY <2>1
<1>5. Typed(placed)
  <2>1. page \in Nat
    <3>1. Head(m.free) \in Pages  BY <1>6, HeadTailProperties
    <3>2. Pages \subseteq Nat  BY MemoryAssumption DEF Pages
    <3>3. QED  BY <3>1, <3>2, PoolPagesAssumption
  <2>2. \A u \in DOMAIN placed.map : placed.map[u] \in Nat
    BY <1>1, <1>3, <1>4, <2>1 DEF Typed
  <2>3. QED  BY <1>1, <1>3, <1>4, <2>2 DEF Typed
<1>7. \A k \in DOMAIN m.table : m.table[k][1] \in Pages  BY <1>1 DEF Typed
<1>8. m.next # 0 => m.active \in Pages  BY <1>1 DEF Typed
<1>9. ASSUME NEW n, ~ m.refilled,
             n.map = mp, n.table = m.table, n.active = m.active, n.next = m.next,
             Distinct(n.free), Elements(n.free) \subseteq Elements(m.free),
             v \notin DOMAIN PoolPages => page \in Pages \ Elements(n.free),
             ~ ForTables(m, m.next # 0, page),
             \A u \in DOMAIN m.map : m.map[u] # page
      PROVE  Apart(n, n.next # 0)
  <2>1. Apart(m, m.next # 0)  BY <1>1, <1>9
  <2>2. \A q : ForTables(n, n.next # 0, q) <=> ForTables(m, m.next # 0, q)
    BY <1>9 DEF ForTables
  <2>3. ASSUME NEW u \in DOMAIN n.map
        PROVE  /\ IF u \in DOMAIN PoolPages THEN n.map[u] = PoolPages[u]
                  ELSE n.map[u] \in Pages \ Elements(n.free)
               /\ ~ ForTables(n, n.next # 0, n.map[u])
    <3>1. CASE u = v  BY <1>3, <1>9, <2>2, <3>1
    <3>2. CASE u # v
      <4>1. u \in DOMAIN m.map /\ n.map[u] = m.map[u]  BY <1>3, <1>9, <3>2
      <4>2. QED  BY <1>9, <2>1, <2>2, <4>1 DEF Apart
    <3>3. QED  BY <3>1, <3>2
  <2>4. \A u, y \in DOMAIN n.map : n.map[u] = n.map[y] => u = y
    BY <1>3, <1>9, <2>1 DEF Apart
  <2>5. QED  BY <1>9, <2>1, <2>2, <2>3, <2>4 DEF Apart
<1>10. CASE v \in DOMAIN PoolPages
  <2>1. page \notin Pages  BY <1>10, PoolAbove
  <2>2. ASSUME ~ m.refilled PROVE Apart(placed, placed.next # 0)
    <3>1. Apart(m, m.next # 0)  BY <1>1, <2>2
    <3>2. ~ ForTables(m, m.next # 0, page)  BY <1>7, <1>8, <2>1 DEF ForTables
    <3>3. \A u \in DOMAIN m.map : m.map[u] # page
      <4>1. SUFFICES ASSUME NEW u \in DOMAIN m.map, m.map[u] = page PROVE FALSE
        OBVIOUS
      <4>2. u \in DOMAIN PoolPages /\ PoolPages[u] = PoolPages[v]
        BY <1>10, <2>1, <3>1, <4>1 DEF Apart
      <4>3. QED  BY <1>10, <4>1, <4>2, PoolPagesAssumption
    <3>4. Distinct(placed.free) /\ Elements(placed.free) \subseteq Elements(m.free)
      BY <1>4, <3>1 DEF Apart
    <3>5. QED  BY <1>4, <1>9, <1>10, <2>2, <3>2, <3>3, <3>4
  <2>3. Sound(placed)  BY <1>4, <1>5, <2>2 DEF Sound
  <2>4. QED  BY <1>2, <1>10, <2>3
<1>11. CASE v \notin DOMAIN PoolPages
  <2> DEFINE n == Pop(placed)
  <2>1. page = h  BY <1>11
  <2> HIDE DEF h
  <2>2. /\ n = [placed EXCEPT !.free = n.free, !.refilled = n.refilled]
        /\ n.free \in Seq(Pages) /\ Len(n.free) \in 1 .. Populated
        /\ n.refilled \in BOOLEAN
        /\ ~ n.refilled => ~ placed.refilled /\ n.free = Tail(placed.free)
    BY <1>5, Pops
  <2>3. n = Place(m, v, page)  BY <1>2, <1>11
  <2> HIDE DEF n
  <2>4. /\ n.order = m.order /\ n.map = mp /\ n.table = m.table
        /\ n.active = m.active /\ n.next = m.next /\ Shaped(n)
    BY <1>4, <2>2 DEF Shaped
  <2>5. Typed(n)  BY <1>4, <1>5, <2>2, <2>4 DEF Typed
  <2>6. ASSUME ~ n.refilled PROVE Apart(n, n.next # 0)
    <3>1. ~ m.refilled /\ n.free = Tail(m.free)  BY <1>4, <2>2, <2>6
    <3>2. Apart(m, m.next # 0)  BY <1>1, <3>1
    <3>3. /\ h \in Pages /\ h \in Elements(m.free) /\ Distinct(n.free)
          /\ Elements(n.free) = Elements(m.free) \ {h}
      BY <1>6, <3>1, <3>2, FreeLess DEF Apart, h
    <3>4. ~ ForTables(m, m.next # 0, h)  BY <3>2, <3>3 DEF Apart
    <3>5. \A u \in DOMAIN m.map : m.map[u] # h  BY <3>2, <3>3, PoolAbove DEF Apart
    <3>6. QED  BY <1>9, <2>1, <2>4, <3>1, <3>3, <3>4, <3>5
  <2>7. Sound(n)  BY <2>5, <2>6 DEF Sound
  <2>8. QED  BY <2>3, <2>7
<1>12. QED  BY <1>10, <1>11

LEMMA TranslateSound ==
  ASSUME NEW m, Sound(m), NEW v \in Vpages
  PROVE  Sound(VaToPa(m, v).vm)
<1> DEFINE page == IF v \in DOMAIN PoolPages THEN PoolPages[v] ELSE Head(m.free)
<1>1. VaToPa(m, v).vm = IF v \in DOMAIN m.map THEN m ELSE Place(m, v, page)
  BY DEF VaToPa
<1>2. v \notin DOMAIN m.map => Sound(Place(m, v, page))
  BY PlaceSound
<1> HIDE DEF page
<1>3. QED  BY <1>1, <1>2

-----------------------------------------------------------------------------
(* The invariant *)

LEMMA NewSound ==
  ASSUME NEW order \in Shuffles
  PROVE  Sound(NewMemory(order))
<1> DEFINE m == NewMemory(order)
<1>1. /\ m.free = Populate(order) /\ m.order = order /\ m.map = << >> /\ m.table = << >>
      /\ m.active = 0 /\ m.next = 0 /\ m.refilled = FALSE /\ Shaped(m)
  BY DEF NewMemory, Shaped
<1>2. DOMAIN m.map = {} /\ DOMAIN m.table = {}  BY <1>1
<1>3. /\ Populate(order) \in Seq(Pages) /\ Len(Populate(order)) = Populated
      /\ Distinct(Populate(order))
  BY Populates
<1> HIDE DEF m
<1>4. Typed(m)
  <2>1. Populated \in 1 .. Populated /\ 0 \in 0 .. PteSlots - 1  BY MemoryAssumption
  <2>2. m.free \in Seq(Pages) /\ Len(m.free) \in 1 .. Populated  BY <1>1, <1>3, <2>1
  <2>3. \A k \in DOMAIN m.table :
          k[1] \in 1 .. PtLevels /\ m.table[k] \in Pages \X (0 .. PteSlots - 1)
    BY <1>2
  <2>4. DOMAIN m.map \subseteq Vpages /\ \A v \in DOMAIN m.map : m.map[v] \in Nat  BY <1>2
  <2>5. QED  BY <1>1, <2>1, <2>2, <2>3, <2>4 DEF Typed
<1>5. Apart(m, m.next # 0)  BY <1>1, <1>2, <1>3 DEF Apart, ForTables
<1>6. QED  BY <1>4, <1>5 DEF Sound, m

\* What the properties say of the pages follows from the invariant.
LEMMA SoundMeans == Sound(vm) => TypeOK /\ Exclusive
<1> SUFFICES ASSUME Sound(vm) PROVE TypeOK /\ Exclusive
  OBVIOUS
<1>1. Typed(vm) /\ (~ vm.refilled => Apart(vm, vm.next # 0))  BY DEF Sound
<1>2. TypeOK
  <2>1. \A k \in DOMAIN vm.table : vm.table[k][2] \in 0 .. PteSlots - 1
    BY <1>1 DEF Typed
  <2>2. QED  BY <1>1, <2>1 DEF TypeOK, Typed
<1>3. ASSUME ~ vm.refilled
      PROVE  /\ \A v, u \in DOMAIN vm.map : vm.map[v] = vm.map[u] => v = u
             /\ \A k, l \in DOMAIN vm.table : vm.table[k] = vm.table[l] => k = l
             /\ Distinct(vm.free)
             /\ Mapped \cap TablePages = {}
             /\ (Mapped \cup TablePages) \cap Elements(vm.free) = {}
  <2>1. Apart(vm, vm.next # 0)  BY <1>1, <1>3
  <2>2. Elements(vm.free) \subseteq Pages  BY <1>1, ElementsSubset DEF Typed
  <2>3. Mapped \cap TablePages = {}  BY <2>1 DEF Mapped, TablePages, Apart, ForTables
  <2>4. Mapped \cap Elements(vm.free) = {}
    BY <2>1, <2>2, PoolAbove DEF Mapped, Apart
  <2>5. TablePages \cap Elements(vm.free) = {}
    BY <2>1 DEF TablePages, Apart, ForTables
  <2>6. QED  BY <2>1, <2>3, <2>4, <2>5 DEF Apart
<1>4. QED  BY <1>2, <1>3 DEF Exclusive

\* Whatever is translated and walked, in any order, a physical page has one use
\* until the free list is used up, and the list is never empty (va_to_pa,
\* get_pte_pa and ppage_pop of vmem.cc).
THEOREM PagesExclusive == Spec => [](TypeOK /\ Exclusive)
<1>1. Init => Sound(vm)
  <2>1. PtLevels \in 1 .. PtLevels  BY MemoryAssumption
  <2>2. QED  BY <2>1, NewSound, StepSound DEF Init
<1>2. Sound(vm) /\ [Next]_vm => Sound(vm)'
  <2>1. SUFFICES ASSUME Sound(vm), [Next]_vm PROVE Sound(vm')
    BY DEF Sound, Typed, Apart, Shaped, ForTables
  <2>2. CASE UNCHANGED vm  BY <2>1, <2>2
  <2>3. ASSUME NEW v \in Vpages, Translate(v) PROVE Sound(vm')
    BY <2>1, <2>3, TranslateSound DEF Translate
  <2>4. ASSUME NEW v \in Vpages, NEW l \in 1 .. PtLevels, Step(v, l) PROVE Sound(vm')
    BY <2>1, <2>4, StepSound DEF Step
  <2>5. QED  BY <2>1, <2>2, <2>3, <2>4 DEF Next
<1>3. QED  BY <1>1, <1>2, SoundMeans, PTL DEF Spec

-----------------------------------------------------------------------------
(* The map of addresses *)

CONSTANTS Files, Addresses
VARIABLES rest, entries, state

Map == INSTANCE AddressMap

LineType == [start : Nat, size : Nat, type : Map!Types, aligned : BOOLEAN]

EntryType == [start : Nat, size : Nat, type : Map!Types, pool_offset : Nat]

\* Entries are in the order of their starts, and each pool range is placed after
\* the pool ranges before it.
ArrangedAs(q) ==
  /\ \A i, j \in 1 .. Len(q) : i <= j => q[i].start <= q[j].start
  /\ \A i \in 1 .. Len(q) : q[i].type = "Pool" => q[i].pool_offset = Map!Running(q, i)

Arranged == ArrangedAs(entries)

MapInv ==
  /\ rest \in Seq(LineType)
  /\ entries \in Seq(EntryType)
  /\ state = "loaded" => Arranged

LEMMA EntriesTyped ==
  ASSUME MapInv, NEW i \in 1 .. Len(entries)
  PROVE  entries[i].start \in Nat /\ entries[i].size \in Nat /\ entries[i].pool_offset \in Nat
<1>1. entries \in Seq(EntryType)  BY DEF MapInv
<1>2. entries[i] \in EntryType  BY <1>1, ElementOfSeq
<1>3. QED  BY <1>2 DEF EntryType

\* What the pool ranges before the i-th take of the pool.
LEMMA RunningNat ==
  ASSUME NEW q \in Seq(EntryType), NEW i \in 1 .. Len(q)
  PROVE  /\ Map!Running(q, i) \in Nat
         /\ \A j \in 1 .. Len(q) : q[i].type = "Pool" /\ i < j =>
              Map!Running(q, i) + q[i].size <= Map!Running(q, j)
<1> DEFINE weight == [j \in 1 .. Len(q) |-> q[j].size]
           S == {j \in 1 .. Len(q) : q[j].type = "Pool"}
           n == Len(q)
<1>1. \A k \in 1 .. n : Map!Running(q, k) = Total(weight, S, k - 1)
  BY DEF Map!Running, Map!Total, Total
<1>2. \A k \in 1 .. n : q[k] \in EntryType  BY ElementOfSeq
<1>3. n \in Nat /\ weight \in [1 .. n -> Nat] /\ weight[i] = q[i].size
  <2>1. \A k \in 1 .. n : q[k].size \in Nat  BY <1>2 DEF EntryType
  <2>2. n \in Nat  BY LenProperties
  <2>3. QED  BY <2>1, <2>2
<1>4. i \in S <=> q[i].type = "Pool"  OBVIOUS
<1> HIDE DEF weight, S
<1>5. Map!Running(q, i) \in Nat
  <2>1. PICK f : Sums(f, weight, S, n)  BY <1>3, TotalIsSum
  <2>2. i - 1 \in 0 .. n  BY <1>3
  <2>3. Total(weight, S, i - 1) = f[i - 1]  BY <1>3, <2>1, <2>2, TotalPrefix
  <2>4. f[i - 1] \in Nat  BY <1>3, <2>1, <2>2, SumsNat
  <2>5. QED  BY <1>1, <2>3, <2>4
<1>6. ASSUME NEW j \in 1 .. n, q[i].type = "Pool", i < j
      PROVE  Map!Running(q, i) + q[i].size <= Map!Running(q, j)
  <2>1. j - 1 \in i .. n  BY <1>3, <1>6
  <2>2. Total(weight, S, i - 1) + weight[i] <= Total(weight, S, j - 1)
    BY <1>3, <1>4, <1>6, <2>1, TotalLater
  <2>3. QED  BY <1>1, <1>3, <2>2
<1>7. QED  BY <1>5, <1>6

LEMMA SortArranges ==
  ASSUME MapInv, Map!Sort
  PROVE  MapInv'
<1>1. PICK q \in Map!Sorted(entries) :
        entries' = [i \in 1 .. Len(q) |->
                      [q[i] EXCEPT !.pool_offset = IF q[i].type = "Pool"
                                                   THEN Map!Running(q, i) ELSE 0]]
  BY DEF Map!Sort
<1>2. /\ q \in Seq(EntryType)
      /\ \A i, j \in 1 .. Len(q) : i < j => q[i].start <= q[j].start
  <2> DEFINE n == Len(entries)
  <2>1. PICK p \in [1 .. n -> 1 .. n] :
          /\ q = [i \in 1 .. n |-> entries[p[i]]]
          /\ \A i, j \in 1 .. n : i < j => entries[p[i]].start <= entries[p[j]].start
    BY <1>1 DEF Map!Sorted
  <2>2. n \in Nat /\ \A i \in 1 .. n : p[i] \in 1 .. n /\ entries[p[i]] \in EntryType
    BY <2>1, ElementOfSeq DEF MapInv
  <2>3. q \in [1 .. n -> EntryType]  BY <2>1, <2>2
  <2>4. q \in Seq(EntryType) /\ Len(q) = n  BY <2>2, <2>3
  <2>5. \A i \in 1 .. n : q[i] = entries[p[i]]  BY <2>1
  <2>6. QED  BY <2>1, <2>4, <2>5
<1> DEFINE e == [i \in 1 .. Len(q) |->
                   [q[i] EXCEPT !.pool_offset = IF q[i].type = "Pool"
                                                THEN Map!Running(q, i) ELSE 0]]
<1>3. Len(q) \in Nat /\ \A i \in 1 .. Len(q) : q[i] \in EntryType /\ Map!Running(q, i) \in Nat
  BY <1>2, RunningNat, ElementOfSeq
<1>4. \A i \in 1 .. Len(q) :
        /\ e[i] \in EntryType
        /\ e[i].start = q[i].start /\ e[i].size = q[i].size /\ e[i].type = q[i].type
        /\ e[i].type = "Pool" => e[i].pool_offset = Map!Running(q, i)
  BY <1>3 DEF EntryType
<1>5. e \in [1 .. Len(q) -> EntryType]  BY <1>4
<1>6. e \in Seq(EntryType) /\ Len(e) = Len(q)  BY <1>3, <1>5
<1>7. entries' = e  BY <1>1
<1> HIDE DEF e
<1>8. \A i \in 1 .. Len(e) : Map!Running(e, i) = Map!Running(q, i)
  <2>1. /\ [j \in 1 .. Len(e) |-> e[j].size] = [j \in 1 .. Len(q) |-> q[j].size]
        /\ {j \in 1 .. Len(e) : e[j].type = "Pool"} = {j \in 1 .. Len(q) : q[j].type = "Pool"}
    BY <1>4, <1>6
  <2>2. QED  BY <2>1 DEF Map!Running
<1>9. \A i, j \in 1 .. Len(e) : i <= j => e[i].start <= e[j].start
  <2>1. SUFFICES ASSUME NEW i \in 1 .. Len(e), NEW j \in 1 .. Len(e), i <= j
                 PROVE  e[i].start <= e[j].start
    OBVIOUS
  <2>2. CASE i = j
    <3>1. e[i].start \in Nat  BY <1>4, <1>6 DEF EntryType
    <3>2. QED  BY <2>2, <3>1
  <2>3. CASE i < j  BY <1>2, <1>4, <1>6, <2>3
  <2>4. i \in Nat /\ j \in Nat  BY <1>3, <1>6
  <2>5. QED  BY <2>1, <2>2, <2>3, <2>4
<1>10. Arranged'
  <2>1. ArrangedAs(e)  BY <1>4, <1>6, <1>8, <1>9 DEF ArrangedAs
  <2>2. ArrangedAs(entries')  BY <1>7, <2>1
  <2>3. QED  BY <2>2 DEF Arranged, ArrangedAs, Map!Running, Map!Total
<1>11. rest' \in Seq(LineType)  BY DEF MapInv, Map!Sort
<1>12. QED  BY <1>6, <1>7, <1>10, <1>11 DEF MapInv

LEMMA MapInvariance ==
  ASSUME Map!MapAssumption
  PROVE  Map!Spec => []MapInv
<1>1. Map!Init => MapInv
  <2>1. SUFFICES ASSUME Map!Init PROVE MapInv
    OBVIOUS
  <2>2. rest \in Seq(LineType)  BY <2>1 DEF Map!Init, Map!MapAssumption, LineType
  <2>3. entries \in Seq(EntryType) /\ state # "loaded"  BY <2>1 DEF Map!Init
  <2>4. QED  BY <2>2, <2>3 DEF MapInv
<1>2. MapInv /\ [Map!Next]_(Map!vars) => MapInv'
  <2>1. ASSUME MapInv, Map!ReadLine PROVE MapInv'
    <3>1. /\ rest \in Seq(LineType) /\ rest # << >> /\ rest' = Tail(rest)
          /\ entries \in Seq(EntryType) /\ state = "reading"
      BY <2>1 DEF MapInv, Map!ReadLine
    <3>2. rest' \in Seq(LineType) /\ Head(rest) \in LineType
      BY <3>1, HeadTailProperties
    <3> DEFINE line == Head(rest)
               e == [start |-> line.start, size |-> line.size, type |-> line.type,
                     pool_offset |-> 0]
    <3>3. e \in EntryType  BY <3>2 DEF LineType, EntryType
    <3>4. /\ entries' \in {entries, Append(entries, e)}
          /\ state' \in {"failed", "reading"}
      BY <2>1, <3>1 DEF Map!ReadLine
    <3> HIDE DEF e
    <3>5. entries' \in Seq(EntryType)
      <4>1. Append(entries, e) \in Seq(EntryType)  BY <3>1, <3>3
      <4>2. QED  BY <3>1, <3>4, <4>1
    <3>6. state' # "loaded"  BY <3>4
    <3>7. QED  BY <3>2, <3>5, <3>6 DEF MapInv
  <2>2. ASSUME MapInv, UNCHANGED Map!vars PROVE MapInv'
    <3>1. rest' = rest /\ entries' = entries /\ state' = state  BY <2>2 DEF Map!vars
    <3>2. Arranged' = Arranged
      BY <3>1 DEF Arranged, ArrangedAs, Map!Running, Map!Total
    <3>3. QED  BY <2>2, <3>1, <3>2 DEF MapInv
  <2>3. QED  BY <2>1, <2>2, SortArranges DEF Map!Next
<1>3. QED  BY <1>1, <1>2, PTL DEF Map!Spec

\* The binary search by start finds the range of an address exactly if there is
\* one, whatever ranges a file has, in any order of its lines, if no range is
\* empty and no two meet (AddressMap::lookup).
THEOREM LookupFinds ==
  ASSUME Map!MapAssumption
  PROVE  Map!Spec => []Map!LookupFindsRange
<1>1. MapInv => Map!LookupFindsRange
  <2>1. SUFFICES ASSUME MapInv, state = "loaded", Map!Disjoint, NEW addr \in Addresses
                 PROVE  Map!Lookup(entries, addr)
                        = {i \in 1 .. Len(entries) : Map!Contains(entries[i], addr)}
    BY DEF Map!LookupFindsRange
  <2>2. Arranged /\ addr \in Nat  BY <2>1 DEF MapInv, Map!MapAssumption
  <2>3. \A i \in 1 .. Len(entries) : entries[i].start \in Nat /\ entries[i].size \in Nat
    BY <2>1, EntriesTyped
  <2>4. ASSUME NEW i \in 1 .. Len(entries), Map!Contains(entries[i], addr),
               NEW j \in 1 .. Len(entries), entries[j].start <= addr
        PROVE  j <= i
    <3>1. SUFFICES ASSUME i < j PROVE FALSE
      OBVIOUS
    <3>2. /\ entries[i].start <= entries[j].start /\ entries[j].size > 0
          /\ \/ entries[i].start + entries[i].size <= entries[j].start
             \/ entries[j].start + entries[j].size <= entries[i].start
      BY <2>1, <2>2, <3>1 DEF Arranged, ArrangedAs, Map!Disjoint
    <3>3. addr < entries[i].start + entries[i].size  BY <2>4 DEF Map!Contains
    <3>4. QED  BY <2>2, <2>3, <2>4, <3>2, <3>3
  <2>5. \A i \in 1 .. Len(entries) : Map!Contains(entries[i], addr) => entries[i].start <= addr
    BY <2>2, <2>3 DEF Map!Contains
  <2>6. QED  BY <2>4, <2>5 DEF Map!Lookup, Map!Candidates
<1>2. QED  BY <1>1, MapInvariance, PTL

\* Different addresses of pool ranges are at different places of the pool: the
\* offset runs on over the sizes of the ranges before (AddressMap::load).
THEOREM PoolPlacesDiffer ==
  ASSUME Map!MapAssumption
  PROVE  Map!Spec => []Map!PoolDisjoint
<1>1. MapInv => Map!PoolDisjoint
  <2>1. SUFFICES ASSUME MapInv, state = "loaded",
                        NEW x \in Addresses, NEW y \in Addresses,
                        NEW i \in Map!Lookup(entries, x), NEW j \in Map!Lookup(entries, y),
                        entries[i].type = "Pool", entries[j].type = "Pool",
                        Map!PoolPlace(entries[i], x) = Map!PoolPlace(entries[j], y)
                 PROVE  x = y
    BY DEF Map!PoolDisjoint
  <2>2. /\ i \in 1 .. Len(entries) /\ Map!Contains(entries[i], x)
        /\ j \in 1 .. Len(entries) /\ Map!Contains(entries[j], y)
    BY DEF Map!Lookup, Map!Candidates
  <2>3. x \in Nat /\ y \in Nat  BY DEF Map!MapAssumption
  <2>4. ASSUME NEW k \in 1 .. Len(entries)
        PROVE  entries[k].start \in Nat /\ entries[k].size \in Nat /\ entries[k].pool_offset \in Nat
    BY <2>1, <2>4, EntriesTyped
  <2>5. ASSUME NEW k \in 1 .. Len(entries), NEW l \in 1 .. Len(entries), k < l,
               entries[k].type = "Pool", entries[l].type = "Pool"
        PROVE  entries[k].pool_offset + entries[k].size <= entries[l].pool_offset
    <3>1. /\ entries[k].pool_offset = Map!Running(entries, k)
          /\ entries[l].pool_offset = Map!Running(entries, l)
      BY <2>1, <2>5 DEF MapInv, Arranged, ArrangedAs
    <3>2. QED  BY <2>1, <2>5, <3>1, RunningNat DEF MapInv
  <2>6. /\ x >= entries[i].start /\ x < entries[i].start + entries[i].size
        /\ y >= entries[j].start /\ y < entries[j].start + entries[j].size
    BY <2>2 DEF Map!Contains
  <2>7. entries[i].pool_offset + (x - entries[i].start)
        = entries[j].pool_offset + (y - entries[j].start)
    BY <2>1 DEF Map!PoolPlace
  <2>a. /\ entries[i].start \in Nat /\ entries[i].size \in Nat /\ entries[i].pool_offset \in Nat
        /\ entries[j].start \in Nat /\ entries[j].size \in Nat /\ entries[j].pool_offset \in Nat
    BY <2>2, <2>4
  <2>8. CASE i = j
    <3>1. entries[i].pool_offset + (x - entries[i].start)
          = entries[i].pool_offset + (y - entries[i].start)
      BY <2>7, <2>8
    <3>2. QED  BY <2>3, <2>a, <3>1
  <2>9. CASE i < j
    <3>1. entries[i].pool_offset + entries[i].size <= entries[j].pool_offset
      BY <2>1, <2>2, <2>5, <2>9
    <3>2. QED  BY <2>3, <2>a, <2>6, <2>7, <3>1
  <2>10. CASE j < i
    <3>1. entries[j].pool_offset + entries[j].size <= entries[i].pool_offset
      BY <2>1, <2>2, <2>5, <2>10
    <3>2. QED  BY <2>3, <2>a, <2>6, <2>7, <3>1
  <2>11. QED
    <3>1. i \in Nat /\ j \in Nat  BY <2>2
    <3>2. QED  BY <2>8, <2>9, <2>10, <3>1
<1>2. QED  BY <1>1, MapInvariance, PTL

-----------------------------------------------------------------------------
(* The walker: what it keeps *)

\* A call of VirtualMemory adds to the page table and changes none of it.
Extends(m, n) ==
  \A k \in DOMAIN m.table : k \in DOMAIN n.table /\ n.table[k] = m.table[k]

\* A page of page table pages, with the slot.
TablePlaces == Pages \X (0 .. PteSlots - 1)

\* Addresses that the walker reads, and what it gets: a page of the table or of the map.
WalkPlaces ==
  [page : TablePlaces \cup Nat, offset : {Offset(v, l) : v \in Vpages \cup {0}, l \in 0 .. PtLevels}]

WalkBlocks == {BlockOf(a) : a \in WalkPlaces}

RequestIds == {r.id : r \in Requests}
Walks ==
  [v : Vpages, id : RequestIds, level : 0 .. PsclSize, address : WalkPlaces, data : WalkPlaces,
   wait : Nat]
WalkAnswers == [v : Vpages, id : RequestIds, page : TablePlaces \cup Nat]

\* v has the page at level l of the table.
HasPage(m, v, l, page) ==
  <<l, Key(v, l)>> \in DOMAIN m.table /\ m.table[<<l, Key(v, l)>>] = page

\* Walks that have read an entry of the table have the page that it names.
Fetched(m) == {e \in Walks : e.level # 0 /\ HasPage(m, e.v, e.level, e.data.page)}

\* What may be in the paging structure cache i.
PsclEntries == [tag : {Key(v, l) : v \in Vpages, l \in 1 .. PtLevels}, page : TablePlaces, level : 0 .. PsclSize]
PsclFits(m, i) ==
  {x \in PsclEntries : /\ x.level = PsclSize - i
                       /\ \E v \in Vpages : /\ HasPage(m, v, x.level + 1, x.page)
                                            /\ Key(v, x.level + 2) = x.tag}

\* The requests, walks and answers that concern id.
RequestOf(id) == {r \in Requests : r.id = id}
WalkOf(id) == {e \in Walks : e.id = id}
AnswerOf(id) == {x \in WalkAnswers : x.id = id}

WalkShape(s) ==
  s = [vm |-> s.vm, MSHR |-> s.MSHR, finished |-> s.finished, completed |-> s.completed,
       pscl |-> s.pscl, RQ |-> s.RQ, returned |-> s.returned, lower |-> s.lower,
       lower_returned |-> s.lower_returned, next_steps |-> s.next_steps,
       taken |-> s.taken, ok |-> s.ok, CR3_addr |-> s.CR3_addr]

\* The types within a cycle.
WalkTyped(s) ==
  /\ WalkShape(s)
  /\ Sound(s.vm)
  /\ s.MSHR \in Seq(Walks) /\ s.finished \in Seq(Fetched(s.vm)) /\ s.completed \in Seq(Walks)
  /\ DOMAIN s.pscl = 1 .. PsclSize
  /\ \A i \in 1 .. PsclSize : s.pscl[i] \in Seq(PsclFits(s.vm, i))
  /\ s.RQ \in Seq(Requests) /\ s.returned \in Seq(WalkAnswers)
  /\ s.lower \in Seq(WalkBlocks) /\ s.lower_returned \in Seq(WalkBlocks)
  /\ s.next_steps \in Seq(Walks)
  /\ s.taken \in Nat /\ s.ok \in BOOLEAN
  /\ s.CR3_addr \in WalkPlaces

\* How often id is in the walker.
InWalker(s, id) ==
  Copies(s.RQ, RequestOf(id)) + Copies(s.MSHR, WalkOf(id)) + Copies(s.finished, WalkOf(id))
    + Copies(s.completed, WalkOf(id)) + Copies(s.next_steps, WalkOf(id))
    + Copies(s.returned, AnswerOf(id))

\* The walks of q have their blocks in B.
AllRead(q, B) == \A i \in 1 .. Len(q) : BlockOf(q[i].address) \in B

-----------------------------------------------------------------------------
(* The walker: memory *)

LEMMA LevelsOfWalks == PtLevels \in Nat /\ PsclSize = PtLevels - 1 /\ PsclSize \in Nat
BY MemoryAssumption, WalkerAssumption DEF PsclSize

\* The memory after a step: it has the entry.
StepGaves(m, v, l, g) ==
  /\ Sound(g.vm) /\ Extends(m, g.vm)
  /\ HasPage(g.vm, v, l, g.page) /\ g.page \in TablePlaces
  /\ g.offset = Offset(v, l) /\ g.fault \in BOOLEAN

LEMMA StepGives ==
  ASSUME NEW m, Sound(m), NEW v, NEW l \in 1 .. PtLevels
  PROVE  StepGaves(m, v, l, GetPtePa(m, v, l))
<1> DEFINE a == ActivePage(m)
           key == <<l, Key(v, l)>>
           g == GetPtePa(m, v, l)
<1>1. a.table = m.table /\ Typed(a)  BY ActiveSound
<1>2. /\ g.vm = IF key \in DOMAIN m.table THEN a ELSE NewEntry(a, key)
      /\ g.page = g.vm.table[key] /\ g.offset = Offset(v, l)
      /\ g.fault = ~ (key \in DOMAIN m.table)
  BY <1>1 DEF GetPtePa, NewEntry
<1>3. Sound(g.vm)  BY StepSound
<1>4. /\ NewEntry(a, key).table =
           [k \in DOMAIN a.table \cup {key} |-> IF k = key THEN <<a.active, a.next>> ELSE a.table[k]]
  BY <1>1 DEF NewEntry, Typed, Shaped
<1> HIDE DEF a, g, key
<1>5. Extends(m, g.vm) /\ key \in DOMAIN g.vm.table
  <2>1. CASE key \in DOMAIN m.table  BY <1>1, <1>2, <2>1 DEF Extends
  <2>2. CASE key \notin DOMAIN m.table
    <3>1. g.vm.table = [k \in DOMAIN m.table \cup {key} |->
                          IF k = key THEN <<a.active, a.next>> ELSE m.table[k]]
      BY <1>1, <1>2, <1>4, <2>2
    <3>2. QED  BY <2>2, <3>1 DEF Extends
  <2>3. QED  BY <2>1, <2>2
<1>6. g.vm.table[key] \in TablePlaces  BY <1>3, <1>5 DEF Sound, Typed, TablePlaces
<1>7. g.fault \in BOOLEAN  BY <1>2
<1>8. HasPage(g.vm, v, l, g.page)  BY <1>2, <1>5 DEF HasPage, key
<1>9. QED  BY <1>2, <1>3, <1>5, <1>6, <1>7, <1>8 DEF StepGaves, g

\* The memory after the last step: it has the page.
TranslateGave(m, g) ==
  Sound(g.vm) /\ Extends(m, g.vm) /\ g.page \in Nat /\ g.fault \in BOOLEAN

LEMMA TranslateGives ==
  ASSUME NEW m, Sound(m), NEW v \in Vpages
  PROVE  TranslateGave(m, VaToPa(m, v))
<1> DEFINE g == VaToPa(m, v)
           page == IF v \in DOMAIN PoolPages THEN PoolPages[v] ELSE Head(m.free)
           mp == [u \in DOMAIN m.map \cup {v} |-> IF u = v THEN page ELSE m.map[u]]
           placed == [m EXCEPT !.map = mp]
<1>1. /\ g.vm = IF v \in DOMAIN m.map THEN m ELSE Place(m, v, page)
      /\ g.page = g.vm.map[v] /\ g.fault = ~ (v \in DOMAIN m.map)
  BY DEF VaToPa
<1>2. Sound(g.vm)  BY TranslateSound
<1>3. Place(m, v, page) = IF v \in DOMAIN PoolPages THEN placed ELSE Pop(placed)
  BY DEF Place
<1>4. Typed(m) /\ Shaped(m)  BY DEF Sound, Typed
<1> HIDE DEF mp
<1>5. placed.table = m.table /\ placed.map = mp  BY <1>4 DEF Shaped
<1>6. Pop(placed).table = m.table /\ Pop(placed).map = mp
  <2>1. Pop(placed) = [placed EXCEPT !.free = Populate(placed.order), !.refilled = TRUE]
        \/ Pop(placed) = [placed EXCEPT !.free = Tail(placed.free)]
    BY DEF Pop
  <2>2. DOMAIN placed = DOMAIN m /\ "table" \in DOMAIN m /\ "map" \in DOMAIN m
    BY <1>4 DEF Shaped
  <2> HIDE DEF placed
  <2>3. QED  BY <1>5, <2>1, <2>2
<1> HIDE DEF g, page, placed
<1>7. g.vm.table = m.table /\ v \in DOMAIN g.vm.map
  <2>1. v \in DOMAIN mp  BY DEF mp
  <2>2. QED  BY <1>1, <1>3, <1>5, <1>6, <2>1
<1>8. g.page \in Nat  BY <1>1, <1>2, <1>7 DEF Sound, Typed
<1>9. Extends(m, g.vm)  BY <1>7 DEF Extends
<1>10. g.fault \in BOOLEAN  BY <1>1
<1>11. QED  BY <1>2, <1>8, <1>9, <1>10 DEF TranslateGave, g

\* What was fetched or is kept stays so.
LEMMA ExtendsKeeps ==
  ASSUME NEW m, NEW n, Extends(m, n)
  PROVE  /\ \A v, l, page : HasPage(m, v, l, page) => HasPage(n, v, l, page)
         /\ Fetched(m) \subseteq Fetched(n)
         /\ \A i : PsclFits(m, i) \subseteq PsclFits(n, i)
         /\ \A q : q \in Seq(Fetched(m)) => q \in Seq(Fetched(n))
         /\ \A i, q : q \in Seq(PsclFits(m, i)) => q \in Seq(PsclFits(n, i))
<1>1. \A v, l, page : HasPage(m, v, l, page) => HasPage(n, v, l, page)
  BY DEF Extends, HasPage
<1>2. Fetched(m) \subseteq Fetched(n)  BY <1>1 DEF Fetched
<1>3. \A i : PsclFits(m, i) \subseteq PsclFits(n, i)  BY <1>1 DEF PsclFits
<1>4. \A q : q \in Seq(Fetched(m)) => q \in Seq(Fetched(n))  BY <1>2, SeqLarger
<1>5. \A i, q : q \in Seq(PsclFits(m, i)) => q \in Seq(PsclFits(n, i))  BY <1>3, SeqLarger
<1>6. QED  BY <1>1, <1>2, <1>3, <1>4, <1>5

-----------------------------------------------------------------------------
(* The walker: the paging structure caches *)

LEMMA NewestKeeps ==
  ASSUME NEW T, NEW q \in Seq(T), NEW e \in T, NEW ways \in Nat \ {0}
  PROVE  Newest(q, e, ways) \in Seq(T)
<1> DEFINE S == {x \in Elements(q) : x.tag # e.tag}
           others == Among(q, S)
           r == <<e>> \o others
           n == LowerOf(ways, Len(others) + 1)
<1>1. Newest(q, e, ways) = First(r, n)  BY DEF Newest
<1> HIDE DEF S
<1>2. others \in Seq(S \cap T)  BY AmongFacts
<1>3. others \in Seq(T)  BY <1>2, SeqLarger
<1>4. <<e>> \in Seq(T) /\ Len(<<e>>) = 1  OBVIOUS
<1>5. Len(others) \in Nat  BY <1>3, LenProperties
<1> HIDE DEF others
<1>6. r \in Seq(T) /\ Len(r) = Len(others) + 1  BY <1>3, <1>4, <1>5, ConcatProperties
<1>7. n \in 0 .. Len(r)  BY <1>5, <1>6 DEF LowerOf
<1> HIDE DEF r, n
<1>8. First(r, n) \in Seq(T)  BY <1>6, <1>7, CopiesSplit
<1>9. QED  BY <1>1, <1>8

LEMMA KeptFacts ==
  ASSUME NEW T, NEW s, NEW i, s.pscl[i] \in Seq(T), NEW v
  PROVE  Kept(s, i, v) \in Seq(T) /\ (Kept(s, i, v) # << >> => Kept(s, i, v)[1] \in T)
<1> DEFINE q == s.pscl[i]
           S == {x \in Elements(q) : x.tag = Key(v, PtLevels + 1 - i)}
           r == Among(q, S)
<1>1. Kept(s, i, v) = r  BY DEF Kept
<1> HIDE DEF S
<1>2. r \in Seq(S \cap T)  BY AmongFacts
<1>3. r \in Seq(T)  BY <1>2, SeqLarger
<1> HIDE DEF r
<1>4. r # << >> => r[1] \in T
  <2>1. ASSUME r # << >> PROVE 1 \in 1 .. Len(r)
    <3>1. Len(r) \in Nat /\ Len(r) # 0  BY <1>3, <2>1, EmptySeq, LenProperties
    <3>2. QED  BY <3>1
  <2>2. QED  BY <1>3, <2>1, ElementOfSeq
<1>5. QED  BY <1>1, <1>3, <1>4

\* What a walker is with other paging structure caches.
LEMMA PsclReplaced ==
  ASSUME NEW s, WalkShape(s), NEW p
  PROVE  [s EXCEPT !.pscl = p] =
           [vm |-> s.vm, MSHR |-> s.MSHR, finished |-> s.finished, completed |-> s.completed,
            pscl |-> p, RQ |-> s.RQ, returned |-> s.returned, lower |-> s.lower,
            lower_returned |-> s.lower_returned, next_steps |-> s.next_steps,
            taken |-> s.taken, ok |-> s.ok, CR3_addr |-> s.CR3_addr]
BY DEF WalkShape

\* The ways of a cache.
LEMMA WaysNat == \A i \in 1 .. PsclSize : PsclWays[i] \in Nat \ {0}
BY WalkerAssumption, ElementOfSeq DEF PsclSize

\* What may be in place of the caches.
PsclTyped(m, p) ==
  DOMAIN p = 1 .. PsclSize /\ \A i \in 1 .. PsclSize : p[i] \in Seq(PsclFits(m, i))

LEMMA TouchedKeeps ==
  ASSUME NEW s, WalkTyped(s), NEW v
  PROVE  \E p : Touched(s, v) = [s EXCEPT !.pscl = p] /\ PsclTyped(s.vm, p)
<1> DEFINE p == [i \in DOMAIN s.pscl |->
                   IF Kept(s, i, v) = << >> THEN s.pscl[i]
                   ELSE Newest(s.pscl[i], Kept(s, i, v)[1], PsclWays[i])]
<1>1. Touched(s, v) = [s EXCEPT !.pscl = p]  BY DEF Touched
<1>2. DOMAIN p = 1 .. PsclSize  BY DEF WalkTyped
<1>3. ASSUME NEW i \in 1 .. PsclSize PROVE p[i] \in Seq(PsclFits(s.vm, i))
  <2>1. s.pscl[i] \in Seq(PsclFits(s.vm, i))  BY DEF WalkTyped
  <2>2. /\ Kept(s, i, v) \in Seq(PsclFits(s.vm, i))
        /\ Kept(s, i, v) # << >> => Kept(s, i, v)[1] \in PsclFits(s.vm, i)
    BY <2>1, KeptFacts
  <2>3. PsclWays[i] \in Nat \ {0}  BY WaysNat
  <2>4. Kept(s, i, v) # << >> =>
          Newest(s.pscl[i], Kept(s, i, v)[1], PsclWays[i]) \in Seq(PsclFits(s.vm, i))
    BY <2>1, <2>2, <2>3, NewestKeeps
  <2>5. p[i] = IF Kept(s, i, v) = << >> THEN s.pscl[i]
               ELSE Newest(s.pscl[i], Kept(s, i, v)[1], PsclWays[i])
    BY <1>2
  <2> HIDE DEF p
  <2>6. QED  BY <2>1, <2>4, <2>5
<1> HIDE DEF p
<1>4. QED  BY <1>1, <1>2, <1>3 DEF PsclTyped

LEMMA WalkBegins ==
  ASSUME NEW s, WalkTyped(s), NEW v \in Vpages
  PROVE  WalkInit(s, v).address \in WalkPlaces /\ WalkInit(s, v).level \in 0 .. PsclSize
<1> DEFINE hits == {i \in 1 .. PsclSize : Kept(s, i, v) # << >>}
           deepest == CHOOSE i \in hits : \A j \in hits : j <= i
           from == IF hits = {} THEN [page |-> s.CR3_addr.page, level |-> PsclSize]
                                ELSE Kept(s, deepest, v)[1]
<1>1. WalkInit(s, v) =
        [address |-> [page |-> from.page, offset |-> Offset(v, from.level)], level |-> from.level]
  BY DEF WalkInit
<1>2. from.page \in TablePlaces \cup Nat /\ from.level \in 0 .. PsclSize
  <2>1. CASE hits = {}
    <3>1. from.page = s.CR3_addr.page /\ from.level = PsclSize  BY <2>1
    <3>2. s.CR3_addr.page \in TablePlaces \cup Nat  BY DEF WalkTyped, WalkPlaces
    <3> HIDE DEF from
    <3>3. QED  BY <3>1, <3>2, LevelsOfWalks
  <2>2. CASE hits # {}
    <3> DEFINE back == {PsclSize - i : i \in hits}
    <3>1. back \subseteq Nat /\ back # {}  BY <2>2, LevelsOfWalks
    <3>2. \E m \in back : \A n \in back : m <= n
      <4> HIDE DEF back
      <4>1. QED  BY <3>1, Smallest
    <3>3. \E i \in hits : \A j \in hits : j <= i
      <4>1. PICK i \in hits : \A n \in back : PsclSize - i <= n  BY <3>2
      <4>2. \A j \in hits : PsclSize - i <= PsclSize - j  BY <4>1
      <4>3. \A j \in hits : j <= i  BY <4>2, LevelsOfWalks
      <4>4. QED  BY <4>3
    <3>4. deepest \in hits  BY <3>3
    <3>5. from = Kept(s, deepest, v)[1]  BY <2>2
    <3>6. deepest \in 1 .. PsclSize /\ Kept(s, deepest, v) # << >>  BY <3>4
    <3> HIDE DEF from, deepest, hits
    <3>7. s.pscl[deepest] \in Seq(PsclFits(s.vm, deepest))  BY <3>6 DEF WalkTyped
    <3>8. from \in PsclFits(s.vm, deepest)  BY <3>5, <3>6, <3>7, KeptFacts
    <3>9. QED  BY <3>8 DEF PsclFits, PsclEntries
  <2>3. QED  BY <2>1, <2>2
<1> HIDE DEF from
<1>3. Offset(v, from.level) \in {Offset(u, l) : u \in Vpages \cup {0}, l \in 0 .. PtLevels}
  BY <1>2, LevelsOfWalks
<1>4. WalkInit(s, v).address = [page |-> from.page, offset |-> Offset(v, from.level)]
      /\ WalkInit(s, v).level = from.level
  BY <1>1
<1>5. QED  BY <1>2, <1>3, <1>4 DEF WalkPlaces

-----------------------------------------------------------------------------
(* The walker: steps that are asked of the level below *)

\* Of the queue h.q, whose elements concern id if they are in h.of[id], the first u.taken have
\* been sent on their next step, all of them unless one was refused.
StepsSoFar(h, u, n) ==
  /\ WalkTyped(u) /\ h.s.next_steps \in Seq(Walks)
  /\ u.taken <= n /\ (u.ok => u.taken = n)
  /\ u.vm = h.s.vm /\ u.MSHR = h.s.MSHR /\ u.finished = h.s.finished
  /\ u.completed = h.s.completed /\ u.RQ = h.s.RQ /\ u.returned = h.s.returned
  /\ u.lower_returned = h.s.lower_returned /\ u.CR3_addr = h.s.CR3_addr
  /\ Elements(h.s.lower) \subseteq Elements(u.lower)
  /\ AllRead(u.next_steps, Elements(u.lower))
  /\ \A id \in RequestIds :
       Copies(u.next_steps, WalkOf(id)) =
         Copies(h.s.next_steps, WalkOf(id)) + Copies(First(h.q, u.taken), h.of[id])

LEMMA StepsPscl ==
  ASSUME NEW h, NEW u, NEW n, StepsSoFar(h, u, n), NEW p, PsclTyped(u.vm, p)
  PROVE  /\ StepsSoFar(h, [u EXCEPT !.pscl = p], n)
         /\ [u EXCEPT !.pscl = p].ok = u.ok
<1> DEFINE t == [u EXCEPT !.pscl = p]
<1>1. WalkTyped(u)  BY DEF StepsSoFar
<1>2. t = [vm |-> u.vm, MSHR |-> u.MSHR, finished |-> u.finished, completed |-> u.completed,
           pscl |-> p, RQ |-> u.RQ, returned |-> u.returned, lower |-> u.lower,
           lower_returned |-> u.lower_returned, next_steps |-> u.next_steps,
           taken |-> u.taken, ok |-> u.ok, CR3_addr |-> u.CR3_addr]
  BY <1>1, PsclReplaced DEF WalkTyped
<1> HIDE DEF t
<1>3. /\ t.vm = u.vm /\ t.MSHR = u.MSHR /\ t.finished = u.finished /\ t.completed = u.completed
      /\ t.pscl = p /\ t.RQ = u.RQ /\ t.returned = u.returned /\ t.lower = u.lower
      /\ t.lower_returned = u.lower_returned /\ t.next_steps = u.next_steps
      /\ t.taken = u.taken /\ t.ok = u.ok /\ t.CR3_addr = u.CR3_addr /\ WalkShape(t)
  BY <1>2 DEF WalkShape
<1>4. WalkTyped(t)  BY <1>1, <1>3 DEF WalkTyped, PsclTyped
<1>5. StepsSoFar(h, t, n)  BY <1>3, <1>4 DEF StepsSoFar
<1>6. QED  BY <1>3, <1>5 DEF t

\* Where an address is, its block is.
LEMMA BlockTyped == \A e \in Walks : BlockOf(e.address) \in WalkBlocks
BY DEF Walks, WalkBlocks

LEMMA StepTaken ==
  ASSUME NEW h, NEW T, h.q \in Seq(T), NEW n \in 1 .. Len(h.q), NEW u, StepsSoFar(h, u, n - 1), u.ok,
         NEW e \in Walks, \A id \in RequestIds : e \in WalkOf(id) <=> h.q[n] \in h.of[id]
  PROVE  StepsSoFar(h, StepTranslation(u, e), n)
<1> DEFINE t == StepTranslation(u, e)
           b == BlockOf(e.address)
<1>1. WalkTyped(u) /\ WalkShape(u) /\ u.taken = n - 1 /\ u.taken \in Nat /\ n \in Nat
  BY LenProperties DEF StepsSoFar, WalkTyped
<1>2. CASE Len(u.lower) < RQ_SIZE
  <2>1. t = [u EXCEPT !.lower = Append(@, b), !.next_steps = Append(@, e), !.taken = @ + 1]
    BY <1>2 DEF StepTranslation
  <2> DEFINE low == Append(u.lower, b)
             next == Append(u.next_steps, e)
  <2>2. t = [vm |-> u.vm, MSHR |-> u.MSHR, finished |-> u.finished, completed |-> u.completed,
             pscl |-> u.pscl, RQ |-> u.RQ, returned |-> u.returned, lower |-> low,
             lower_returned |-> u.lower_returned, next_steps |-> next,
             taken |-> n, ok |-> u.ok, CR3_addr |-> u.CR3_addr]
    <3>1. u.taken + 1 = n  BY <1>1
    <3>2. QED  BY <1>1, <2>1, <3>1 DEF WalkShape
  <2>3. u.lower \in Seq(WalkBlocks) /\ b \in WalkBlocks /\ u.next_steps \in Seq(Walks)
    BY <1>1, BlockTyped DEF WalkTyped
  <2>4. low \in Seq(WalkBlocks) /\ Elements(low) = Elements(u.lower) \cup {b}
    BY <2>3, AppendProperties, ElementsAppend
  <2>5. /\ next \in Seq(Walks) /\ Len(next) = Len(u.next_steps) + 1 /\ Len(u.next_steps) \in Nat
        /\ \A i \in 1 .. Len(u.next_steps) : next[i] = u.next_steps[i]
        /\ next[Len(u.next_steps) + 1] = e
    BY <2>3, AppendProperties, LenProperties
  <2>6. \A S : Copies(next, S) = Copies(u.next_steps, S) + Mark(e, S)
    BY <2>3, CopiesAppend
  <2> HIDE DEF t, low, next, b
  <2>7. /\ t.vm = u.vm /\ t.MSHR = u.MSHR /\ t.finished = u.finished /\ t.completed = u.completed
        /\ t.pscl = u.pscl /\ t.RQ = u.RQ /\ t.returned = u.returned /\ t.lower = low
        /\ t.lower_returned = u.lower_returned /\ t.next_steps = next
        /\ t.taken = n /\ t.ok = u.ok /\ t.CR3_addr = u.CR3_addr /\ WalkShape(t)
    BY <2>2 DEF WalkShape
  <2>8. WalkTyped(t)  BY <1>1, <2>4, <2>5, <2>7 DEF WalkTyped
  <2>9. AllRead(next, Elements(low))
    <3>1. SUFFICES ASSUME NEW i \in 1 .. Len(next) PROVE BlockOf(next[i].address) \in Elements(low)
      BY DEF AllRead
    <3>2. CASE i = Len(u.next_steps) + 1  BY <2>4, <2>5, <3>2 DEF b
    <3>3. CASE i # Len(u.next_steps) + 1
      <4>1. i \in 1 .. Len(u.next_steps) /\ next[i] = u.next_steps[i]  BY <2>5, <3>3
      <4>2. QED  BY <2>4, <4>1 DEF StepsSoFar, AllRead
    <3>4. QED  BY <3>2, <3>3
  <2>10. ASSUME NEW id \in RequestIds
         PROVE  Copies(next, WalkOf(id)) =
                  Copies(h.s.next_steps, WalkOf(id)) + Copies(First(h.q, n), h.of[id])
    <3>1. Copies(u.next_steps, WalkOf(id)) =
            Copies(h.s.next_steps, WalkOf(id)) + Copies(First(h.q, n - 1), h.of[id])
      BY <1>1 DEF StepsSoFar
    <3>2. /\ First(h.q, n - 1) \in Seq(T) /\ h.q[n] \in T
          /\ First(h.q, n) = Append(First(h.q, n - 1), h.q[n])
      BY FirstGrows
    <3>3. Copies(First(h.q, n), h.of[id]) = Copies(First(h.q, n - 1), h.of[id]) + Mark(h.q[n], h.of[id])
      BY <3>2, CopiesAppend
    <3>4. Mark(h.q[n], h.of[id]) = Mark(e, WalkOf(id)) /\ Mark(e, WalkOf(id)) \in Nat  BY DEF Mark
    <3>5. Copies(First(h.q, n - 1), h.of[id]) \in Nat /\ Copies(u.next_steps, WalkOf(id)) \in Nat
      BY <2>3, <3>2, CopiesNat
    <3>6. Copies(h.s.next_steps, WalkOf(id)) \in Nat  BY CopiesNat DEF StepsSoFar
    <3>7. QED  BY <2>6, <3>1, <3>3, <3>4, <3>5, <3>6
  <2>11. Elements(h.s.lower) \subseteq Elements(low)  BY <2>4 DEF StepsSoFar
  <2>12. StepsSoFar(h, t, n)  BY <1>1, <2>7, <2>8, <2>9, <2>10, <2>11 DEF StepsSoFar
  <2>13. QED  BY <2>12 DEF t
<1>3. CASE ~ (Len(u.lower) < RQ_SIZE)
  <2>1. t = [u EXCEPT !.ok = FALSE]  BY <1>3 DEF StepTranslation
  <2>2. t = [vm |-> u.vm, MSHR |-> u.MSHR, finished |-> u.finished, completed |-> u.completed,
             pscl |-> u.pscl, RQ |-> u.RQ, returned |-> u.returned, lower |-> u.lower,
             lower_returned |-> u.lower_returned, next_steps |-> u.next_steps,
             taken |-> u.taken, ok |-> FALSE, CR3_addr |-> u.CR3_addr]
    BY <1>1, <2>1 DEF WalkShape
  <2> HIDE DEF t
  <2>7. /\ t.vm = u.vm /\ t.MSHR = u.MSHR /\ t.finished = u.finished /\ t.completed = u.completed
        /\ t.pscl = u.pscl /\ t.RQ = u.RQ /\ t.returned = u.returned /\ t.lower = u.lower
        /\ t.lower_returned = u.lower_returned /\ t.next_steps = u.next_steps
        /\ t.taken = u.taken /\ t.ok = FALSE /\ t.CR3_addr = u.CR3_addr /\ WalkShape(t)
    BY <2>2 DEF WalkShape
  <2>8. WalkTyped(t)  BY <1>1, <2>7 DEF WalkTyped
  <2>9. t.taken <= n  BY <1>1, <2>7
  <2>12. StepsSoFar(h, t, n)  BY <2>7, <2>8, <2>9 DEF StepsSoFar
  <2>13. QED  BY <2>12 DEF t
<1>4. QED  BY <1>2, <1>3

\* A beginning of a beginning.
LEMMA FirstOfFirst ==
  ASSUME NEW T, NEW q \in Seq(T), NEW n \in 0 .. Len(q), NEW m \in 0 .. n
  PROVE  First(First(q, n), m) = First(q, m)
<1>1. Len(q) \in Nat /\ \A i \in 1 .. Len(q) : q[i] \in T  BY LenProperties, ElementOfSeq
<1>2. First(q, n) \in Seq(T) /\ Len(First(q, n)) = n /\ \A i \in 1 .. n : First(q, n)[i] = q[i]
  BY <1>1, CopiesSplit DEF First
<1>3. m \in 0 .. Len(q) /\ m \in 0 .. Len(First(q, n))  BY <1>1, <1>2
<1>4. First(q, m) \in Seq(T) /\ Len(First(q, m)) = m /\ \A i \in 1 .. m : First(q, m)[i] = q[i]
  BY <1>1, <1>3, CopiesSplit DEF First
<1> DEFINE r == First(q, n)
<1>5. /\ First(r, m) \in Seq(T) /\ Len(First(r, m)) = m
      /\ \A i \in 1 .. m : First(r, m)[i] = r[i]
  <2>1. r \in Seq(T) /\ m \in 0 .. Len(r)  BY <1>2, <1>3
  <2> HIDE DEF r
  <2>2. \A i \in 1 .. Len(r) : r[i] \in T  BY <2>1, ElementOfSeq
  <2>3. QED  BY <2>1, <2>2, CopiesSplit DEF First
<1>6. \A i \in 1 .. m : First(r, m)[i] = First(q, m)[i]
  <2>1. \A i \in 1 .. m : i \in 1 .. n  BY <1>1
  <2> HIDE DEF r
  <2>2. \A i \in 1 .. n : r[i] = q[i]  BY <1>2 DEF r
  <2>3. QED  BY <1>4, <1>5, <2>1, <2>2
<1> HIDE DEF r
<1>7. First(r, m) = First(q, m)  BY <1>4, <1>5, <1>6, SeqEqual
<1>8. QED  BY <1>7 DEF r

OfHandleRead(k, u, r) == HandleRead(u, r)
ReadSteps == INSTANCE StageLemmas WITH Op <- OfHandleRead, Inv <- StepsSoFar

LEMMA ReadsStepped ==
  ASSUME NEW h, h.q \in Seq(Requests), h.of = [id \in RequestIds |-> RequestOf(id)],
         StepsSoFar(h, h.s, 0)
  PROVE  StepsSoFar(h, Through(HandleRead, h.s, h.q), Len(h.q))
<1>1. Through(HandleRead, h.s, h.q) = ReadSteps!Carried(h, h.s, h.q)
  BY Zenon DEF ReadSteps!Carried, ReadSteps!Steps, Through, OfHandleRead
<1>2. Len(h.q) \in Nat /\ \A i \in 1 .. Len(h.q) : h.q[i] \in Requests
  BY LenProperties, ElementOfSeq
<1>3. ASSUME NEW n \in 1 .. Len(h.q), NEW u, StepsSoFar(h, u, n - 1)
      PROVE  StepsSoFar(h, OfHandleRead(h, u, h.q[n]), n)
  <2> DEFINE r == h.q[n]
             start == WalkInit(u, r.v)
             e == [v |-> r.v, id |-> r.id, level |-> start.level, address |-> start.address,
                   data |-> start.address, wait |-> 0]
             t == Touched(u, r.v)
  <2>1. r \in Requests /\ r.v \in Vpages /\ r.id \in RequestIds
    BY <1>2, WalkerAssumption DEF RequestIds
  <2>2. WalkTyped(u) /\ u.taken \in Nat /\ n \in Nat  BY <1>2, <1>3 DEF StepsSoFar, WalkTyped
  <2>3. CASE u.ok
    <3>1. OfHandleRead(h, u, r) = StepTranslation(t, e)  BY <2>3 DEF OfHandleRead, HandleRead
    <3>2. start.address \in WalkPlaces /\ start.level \in 0 .. PsclSize  BY <2>1, <2>2, WalkBegins
    <3>3. PICK p : t = [u EXCEPT !.pscl = p] /\ PsclTyped(u.vm, p)  BY <2>2, TouchedKeeps
    <3>4. StepsSoFar(h, t, n - 1) /\ t.ok
      <4>1. PsclTyped(u.vm, p) /\ t = [u EXCEPT !.pscl = p]  BY <3>3
      <4> HIDE DEF start, e, t, r
      <4>2. PICK m : m = n - 1  OBVIOUS
      <4>3. StepsSoFar(h, u, m)  BY <1>3, <4>2
      <4>4. StepsSoFar(h, [u EXCEPT !.pscl = p], m) /\ [u EXCEPT !.pscl = p].ok = u.ok
        BY <4>1, <4>3, StepsPscl
      <4>5. QED  BY <2>3, <4>1, <4>2, <4>4
    <3> HIDE DEF start, t
    <3>5. e \in Walks  BY <2>1, <3>2 DEF Walks
    <3>6. \A id \in RequestIds : e \in WalkOf(id) <=> r \in h.of[id]
      BY <2>1, <3>5 DEF WalkOf, RequestOf
    <3> HIDE DEF e
    <3>7. StepsSoFar(h, StepTranslation(t, e), n)  BY <3>4, <3>5, <3>6, StepTaken
    <3>8. QED  BY <3>1, <3>7
  <2>4. CASE ~ u.ok
    <3>1. OfHandleRead(h, u, r) = u  BY <2>4 DEF OfHandleRead, HandleRead
    <3>2. u.taken <= n /\ ~ u.ok  BY <1>3, <2>2, <2>4 DEF StepsSoFar
    <3>3. StepsSoFar(h, u, n)  BY <1>3, <3>2 DEF StepsSoFar
    <3>4. QED  BY <3>1, <3>3
  <2>5. QED  BY <2>3, <2>4
<1>4. StepsSoFar(h, ReadSteps!Carried(h, h.s, h.q), Len(h.q))
  BY <1>2, <1>3, ReadSteps!Kept
<1>5. QED  BY <1>1, <1>4

OfFill(k, u, e) == HandleFill(u, e)
FillSteps == INSTANCE StageLemmas WITH Op <- OfFill, Inv <- StepsSoFar

\* What handle_fill keeps of a walk, and where.
LEMMA FillKept ==
  ASSUME NEW u, WalkTyped(u), NEW e \in Fetched(u.vm)
  PROVE  LET i == PsclSize - e.level + 1
             kept == [tag |-> Key(e.v, e.level + 1), page |-> e.data.page, level |-> e.level - 1]
         IN  PsclTyped(u.vm, [u.pscl EXCEPT ![i] = Newest(@, kept, PsclWays[i])])
<1> DEFINE i == PsclSize - e.level + 1
           kept == [tag |-> Key(e.v, e.level + 1), page |-> e.data.page, level |-> e.level - 1]
           p == [u.pscl EXCEPT ![i] = Newest(@, kept, PsclWays[i])]
<1>1. /\ e \in Walks /\ e.level \in 0 .. PsclSize /\ e.level # 0 /\ e.v \in Vpages
      /\ HasPage(u.vm, e.v, e.level, e.data.page)
  BY DEF Fetched, Walks
<1>2. /\ PsclSize \in Nat /\ PtLevels = PsclSize + 1 /\ e.level \in Nat
      /\ i \in 1 .. PsclSize /\ e.level - 1 = PsclSize - i
      /\ (e.level - 1) + 1 = e.level /\ (e.level - 1) + 2 = e.level + 1
      /\ e.level + 1 \in 1 .. PtLevels /\ e.level - 1 \in 0 .. PsclSize
  BY <1>1, LevelsOfWalks, MemoryAssumption
<1>3. e.data.page \in TablePlaces
  BY <1>1 DEF HasPage, WalkTyped, Sound, Typed, TablePlaces
<1>4. kept \in PsclFits(u.vm, i)
  <2>1. kept \in PsclEntries  BY <1>1, <1>2, <1>3 DEF PsclEntries
  <2>2. kept.level = e.level - 1 /\ kept.page = e.data.page /\ kept.tag = Key(e.v, e.level + 1)
    OBVIOUS
  <2> HIDE DEF kept, i
  <2>3. HasPage(u.vm, e.v, kept.level + 1, kept.page) /\ Key(e.v, kept.level + 2) = kept.tag
    BY <1>1, <1>2, <2>2
  <2>4. QED  BY <1>1, <1>2, <2>1, <2>2, <2>3 DEF PsclFits
<1> HIDE DEF kept, i
<1>5. DOMAIN u.pscl = 1 .. PsclSize /\ \A j \in 1 .. PsclSize : u.pscl[j] \in Seq(PsclFits(u.vm, j))
  BY DEF WalkTyped
<1>6. Newest(u.pscl[i], kept, PsclWays[i]) \in Seq(PsclFits(u.vm, i))
  BY <1>2, <1>4, <1>5, WaysNat, NewestKeeps
<1>7. PsclTyped(u.vm, p)  BY <1>2, <1>5, <1>6 DEF PsclTyped
<1>8. QED  BY <1>7 DEF p, i, kept

LEMMA FillsStepped ==
  ASSUME NEW h, h.q \in Seq(Fetched(h.s.vm)), h.of = [id \in RequestIds |-> WalkOf(id)],
         StepsSoFar(h, h.s, 0)
  PROVE  StepsSoFar(h, Through(HandleFill, h.s, h.q), Len(h.q))
<1>1. Through(HandleFill, h.s, h.q) = FillSteps!Carried(h, h.s, h.q)
  BY Zenon DEF FillSteps!Carried, FillSteps!Steps, Through, OfFill
<1>2. Len(h.q) \in Nat /\ \A i \in 1 .. Len(h.q) : h.q[i] \in Fetched(h.s.vm)
  BY LenProperties, ElementOfSeq
<1>3. ASSUME NEW n \in 1 .. Len(h.q), NEW u, StepsSoFar(h, u, n - 1)
      PROVE  StepsSoFar(h, OfFill(h, u, h.q[n]), n)
  <2> DEFINE e == h.q[n]
             i == PsclSize - e.level + 1
             kept == [tag |-> Key(e.v, e.level + 1), page |-> e.data.page, level |-> e.level - 1]
             p == [u.pscl EXCEPT ![i] = Newest(@, kept, PsclWays[i])]
             t == [u EXCEPT !.pscl = p]
             next == [e EXCEPT !.address = e.data, !.level = @ - 1]
  <2>1. e \in Fetched(u.vm)  BY <1>2, <1>3 DEF StepsSoFar
  <2>2. WalkTyped(u) /\ u.taken \in Nat /\ n \in Nat  BY <1>2, <1>3 DEF StepsSoFar, WalkTyped
  <2>3. CASE u.ok
    <3>1. OfFill(h, u, e) = StepTranslation(t, next)  BY <2>3 DEF OfFill, HandleFill
    <3>3. PsclTyped(u.vm, p)  BY <2>1, <2>2, FillKept
    <3> HIDE DEF p
    <3>4. StepsSoFar(h, t, n - 1) /\ t.ok
      <4> HIDE DEF e, i, kept, next
      <4>2. PICK m : m = n - 1  OBVIOUS
      <4>3. StepsSoFar(h, u, m)  BY <1>3, <4>2
      <4>4. StepsSoFar(h, t, m) /\ t.ok = u.ok  BY <3>3, <4>3, StepsPscl
      <4> HIDE DEF t
      <4>5. QED  BY <2>3, <4>2, <4>4
    <3> HIDE DEF t
    <3>5. next \in Walks /\ next.id = e.id /\ e \in Walks
      <4>1. e \in Walks /\ e.level \in 0 .. PsclSize /\ e.level # 0  BY <2>1 DEF Fetched, Walks
      <4>2. e.level - 1 \in 0 .. PsclSize  BY <4>1, LevelsOfWalks
      <4> HIDE DEF e
      <4>3. QED  BY <4>1, <4>2 DEF Walks
    <3>6. ASSUME NEW id \in RequestIds PROVE next \in WalkOf(id) <=> e \in h.of[id]
      <4>1. h.of[id] = WalkOf(id)  OBVIOUS
      <4> HIDE DEF next, e
      <4>2. QED  BY <3>5, <4>1 DEF WalkOf
    <3> HIDE DEF next
    <3>7. StepsSoFar(h, StepTranslation(t, next), n)  BY <3>4, <3>5, <3>6, StepTaken
    <3>8. QED  BY <3>1, <3>7
  <2>4. CASE ~ u.ok
    <3>1. OfFill(h, u, e) = u  BY <2>4 DEF OfFill, HandleFill
    <3>2. u.taken <= n /\ ~ u.ok  BY <1>3, <2>2, <2>4 DEF StepsSoFar
    <3>3. StepsSoFar(h, u, n)  BY <1>3, <3>2 DEF StepsSoFar
    <3>4. QED  BY <3>1, <3>3
  <2>5. QED  BY <2>3, <2>4
<1>4. StepsSoFar(h, FillSteps!Carried(h, h.s, h.q), Len(h.q))
  BY <1>2, <1>3, FillSteps!Kept
<1>5. QED  BY <1>1, <1>4

-----------------------------------------------------------------------------
(* The walker: its stages *)

\* Between the stages of a cycle: with the blocks in R asked for, each id is c[id] times in the
\* walker, and the walks that wait have their reads on the way.
Balanced(s, R, c) ==
  /\ WalkTyped(s)
  /\ AllRead(s.MSHR, Elements(s.lower) \cup R \cup Elements(s.lower_returned))
  /\ AllRead(s.next_steps, Elements(s.lower))
  /\ \A id \in RequestIds : InWalker(s, id) = c[id]

LEMMA WalkCounts ==
  ASSUME NEW s, WalkTyped(s), NEW id
  PROVE  /\ Copies(s.RQ, RequestOf(id)) \in Nat /\ Copies(s.MSHR, WalkOf(id)) \in Nat
         /\ Copies(s.finished, WalkOf(id)) \in Nat /\ Copies(s.completed, WalkOf(id)) \in Nat
         /\ Copies(s.next_steps, WalkOf(id)) \in Nat /\ Copies(s.returned, AnswerOf(id)) \in Nat
<1>1. Copies(s.RQ, RequestOf(id)) \in Nat  BY CopiesNat DEF WalkTyped
<1>2. Copies(s.MSHR, WalkOf(id)) \in Nat  BY CopiesNat DEF WalkTyped
<1>3. Copies(s.finished, WalkOf(id)) \in Nat  BY CopiesNat DEF WalkTyped
<1>4. Copies(s.completed, WalkOf(id)) \in Nat  BY CopiesNat DEF WalkTyped
<1>5. Copies(s.next_steps, WalkOf(id)) \in Nat  BY CopiesNat DEF WalkTyped
<1>6. Copies(s.returned, AnswerOf(id)) \in Nat  BY CopiesNat DEF WalkTyped
<1>7. QED  BY <1>1, <1>2, <1>3, <1>4, <1>5, <1>6

\* A stage begins.
Begun(s) ==
  [vm |-> s.vm, MSHR |-> s.MSHR, finished |-> s.finished, completed |-> s.completed,
   pscl |-> s.pscl, RQ |-> s.RQ, returned |-> s.returned, lower |-> s.lower,
   lower_returned |-> s.lower_returned, next_steps |-> s.next_steps,
   taken |-> 0, ok |-> TRUE, CR3_addr |-> s.CR3_addr]

LEMMA TakenReplaced ==
  ASSUME NEW s, WalkShape(s), NEW taken, NEW ok
  PROVE  [s EXCEPT !.taken = taken, !.ok = ok] =
           [vm |-> s.vm, MSHR |-> s.MSHR, finished |-> s.finished, completed |-> s.completed,
            pscl |-> s.pscl, RQ |-> s.RQ, returned |-> s.returned, lower |-> s.lower,
            lower_returned |-> s.lower_returned, next_steps |-> s.next_steps,
            taken |-> taken, ok |-> ok, CR3_addr |-> s.CR3_addr]
<1> DEFINE t == [s EXCEPT !.taken = taken]
<1>1. [s EXCEPT !.taken = taken, !.ok = ok] = [t EXCEPT !.ok = ok]  OBVIOUS
<1>2. t = [vm |-> s.vm, MSHR |-> s.MSHR, finished |-> s.finished, completed |-> s.completed,
           pscl |-> s.pscl, RQ |-> s.RQ, returned |-> s.returned, lower |-> s.lower,
           lower_returned |-> s.lower_returned, next_steps |-> s.next_steps,
           taken |-> taken, ok |-> s.ok, CR3_addr |-> s.CR3_addr]
  BY DEF WalkShape
<1> HIDE DEF t
<1>3. [t EXCEPT !.ok = ok] =
        [vm |-> s.vm, MSHR |-> s.MSHR, finished |-> s.finished, completed |-> s.completed,
         pscl |-> s.pscl, RQ |-> s.RQ, returned |-> s.returned, lower |-> s.lower,
         lower_returned |-> s.lower_returned, next_steps |-> s.next_steps,
         taken |-> taken, ok |-> ok, CR3_addr |-> s.CR3_addr]
  BY <1>2
<1>4. QED  BY <1>1, <1>3

LEMMA BegunIs ==
  ASSUME NEW s, WalkTyped(s)
  PROVE  [s EXCEPT !.taken = 0, !.ok = TRUE] = Begun(s) /\ WalkTyped(Begun(s))
<1>1. WalkShape(s)  BY DEF WalkTyped
<1>2. [s EXCEPT !.taken = 0, !.ok = TRUE] = Begun(s)
  <2>1. PICK yes : yes = TRUE  OBVIOUS
  <2>2. [s EXCEPT !.taken = 0, !.ok = yes] =
          [vm |-> s.vm, MSHR |-> s.MSHR, finished |-> s.finished, completed |-> s.completed,
           pscl |-> s.pscl, RQ |-> s.RQ, returned |-> s.returned, lower |-> s.lower,
           lower_returned |-> s.lower_returned, next_steps |-> s.next_steps,
           taken |-> 0, ok |-> yes, CR3_addr |-> s.CR3_addr]
    BY <1>1, TakenReplaced
  <2>3. QED  BY Zenon, <2>1, <2>2 DEF Begun
<1> DEFINE t == Begun(s)
<1>3. /\ t.vm = s.vm /\ t.MSHR = s.MSHR /\ t.finished = s.finished /\ t.completed = s.completed
      /\ t.pscl = s.pscl /\ t.RQ = s.RQ /\ t.returned = s.returned /\ t.lower = s.lower
      /\ t.lower_returned = s.lower_returned /\ t.next_steps = s.next_steps
      /\ t.taken = 0 /\ t.ok = TRUE /\ t.CR3_addr = s.CR3_addr /\ WalkShape(t)
  BY DEF Begun, WalkShape
<1> HIDE DEF t
<1>4. t.ok \in BOOLEAN /\ t.taken \in Nat
  <2>1. t.ok \in BOOLEAN  BY Zenon, <1>3
  <2>2. QED  BY <1>3, <2>1
<1>5. WalkTyped(t)  BY <1>3, <1>4 DEF WalkTyped
<1>6. QED  BY <1>2, <1>5 DEF t

LEMMA StepsBegin ==
  ASSUME NEW s, NEW R, NEW c, Balanced(s, R, c), NEW h, h.s = Begun(s),
         NEW T, h.q \in Seq(T)
  PROVE  StepsSoFar(h, h.s, 0)
<1> DEFINE t == Begun(s)
<1>1. WalkTyped(t)  BY BegunIs DEF Balanced
<1>2. t.lower = s.lower /\ t.next_steps = s.next_steps /\ t.taken = 0  BY DEF Begun
<1>3. h.s = t  OBVIOUS
<1> HIDE DEF t
<1>4. AllRead(t.next_steps, Elements(t.lower))  BY <1>2 DEF Balanced
<1>5. ASSUME NEW id \in RequestIds
      PROVE  Copies(t.next_steps, WalkOf(id)) =
               Copies(t.next_steps, WalkOf(id)) + Copies(First(h.q, t.taken), h.of[id])
  <2>1. First(h.q, t.taken) = << >>  BY <1>2, PartEnds
  <2>2. Copies(First(h.q, t.taken), h.of[id]) = 0  BY <2>1, CopiesEmpty
  <2>3. Copies(t.next_steps, WalkOf(id)) \in Nat  BY <1>1, WalkCounts
  <2>4. QED  BY <2>2, <2>3
<1>6. QED  BY <1>1, <1>2, <1>3, <1>4, <1>5 DEF StepsSoFar, WalkTyped

\* When a stage has tried the first n of a queue Q.
LEMMA StepsEnd ==
  ASSUME NEW T, NEW Q \in Seq(T), NEW n \in 0 .. Len(Q), NEW h, h.q = First(Q, n),
         NEW u, StepsSoFar(h, u, n), NEW id \in RequestIds
  PROVE  /\ u.taken \in 0 .. Len(Q) /\ Rest(Q, u.taken) \in Seq(T)
         /\ Copies(u.next_steps, WalkOf(id)) + Copies(Rest(Q, u.taken), h.of[id])
              = Copies(h.s.next_steps, WalkOf(id)) + Copies(Q, h.of[id])
         /\ Copies(Rest(Q, u.taken), h.of[id]) \in Nat
<1> DEFINE k == u.taken
<1>1. Len(Q) \in Nat  BY LenProperties
<1>2. k \in 0 .. n /\ k \in 0 .. Len(Q)  BY <1>1 DEF StepsSoFar, WalkTyped
<1>3. Copies(u.next_steps, WalkOf(id))
        = Copies(h.s.next_steps, WalkOf(id)) + Copies(First(First(Q, n), k), h.of[id])
  BY DEF StepsSoFar
<1>4. Copies(h.s.next_steps, WalkOf(id)) \in Nat  BY CopiesNat DEF StepsSoFar
<1> HIDE DEF k
<1>5. First(First(Q, n), k) = First(Q, k)  BY <1>2, FirstOfFirst
<1>6. /\ First(Q, k) \in Seq(T) /\ Rest(Q, k) \in Seq(T)
      /\ Copies(Q, h.of[id]) = Copies(First(Q, k), h.of[id]) + Copies(Rest(Q, k), h.of[id])
  BY <1>2, CopiesSplit
<1>7. Copies(First(Q, k), h.of[id]) \in Nat /\ Copies(Rest(Q, k), h.of[id]) \in Nat
  BY <1>6, CopiesNat
<1>8. QED  BY <1>2, <1>3, <1>4, <1>5, <1>6, <1>7 DEF k

\* What was read stays so.
LEMMA ReadsMore ==
  ASSUME NEW q, NEW A, NEW B, A \subseteq B, AllRead(q, A)
  PROVE  AllRead(q, B)
BY DEF AllRead

LEMMA ReadKeeps ==
  ASSUME NEW s, NEW R, NEW c, Balanced(s, R, c)
  PROVE  Balanced(Read(s), R, c)
<1> DEFINE n == LowerOf(Len(s.RQ), MAX_READ)
           h == [s |-> Begun(s), q |-> First(s.RQ, n), of |-> [id \in RequestIds |-> RequestOf(id)]]
           u == Through(HandleRead, Begun(s), First(s.RQ, n))
           t == Read(s)
<1>1. WalkTyped(s) /\ s.RQ \in Seq(Requests)  BY DEF Balanced, WalkTyped
<1>2. Len(s.RQ) \in Nat /\ n \in 0 .. Len(s.RQ)
  BY <1>1, LenProperties, WalkerAssumption DEF LowerOf
<1>3. t = [u EXCEPT !.RQ = Rest(@, u.taken)]  BY <1>1, BegunIs DEF Read
<1> HIDE DEF n
<1>4. First(s.RQ, n) \in Seq(Requests) /\ Len(First(s.RQ, n)) = n  BY <1>1, <1>2, CopiesSplit
<1>5. /\ h.s = Begun(s) /\ h.q = First(s.RQ, n)
      /\ h.of = [id \in RequestIds |-> RequestOf(id)]
  OBVIOUS
<1>6. u = Through(HandleRead, h.s, h.q)  OBVIOUS
<1> HIDE DEF h, u
<1>7. StepsSoFar(h, h.s, 0)  BY <1>4, <1>5, StepsBegin
<1>8. StepsSoFar(h, u, n)  BY <1>4, <1>5, <1>6, <1>7, ReadsStepped
<1> DEFINE later == Rest(s.RQ, u.taken)
<1>9. /\ u.vm = s.vm /\ u.MSHR = s.MSHR /\ u.finished = s.finished
      /\ u.completed = s.completed /\ u.RQ = s.RQ /\ u.returned = s.returned
      /\ u.lower_returned = s.lower_returned
      /\ h.s.next_steps = s.next_steps /\ Elements(s.lower) \subseteq Elements(u.lower)
  BY <1>5, <1>8 DEF StepsSoFar, Begun
<1>10. WalkTyped(u) /\ AllRead(u.next_steps, Elements(u.lower))  BY <1>8 DEF StepsSoFar
<1>11. t = [vm |-> u.vm, MSHR |-> u.MSHR, finished |-> u.finished, completed |-> u.completed,
            pscl |-> u.pscl, RQ |-> later, returned |-> u.returned, lower |-> u.lower,
            lower_returned |-> u.lower_returned, next_steps |-> u.next_steps,
            taken |-> u.taken, ok |-> u.ok, CR3_addr |-> u.CR3_addr]
  BY <1>3, <1>9, <1>10 DEF WalkTyped, WalkShape
<1> HIDE DEF t
<1>12. \A id \in RequestIds :
         /\ later \in Seq(Requests)
         /\ Copies(u.next_steps, WalkOf(id)) + Copies(later, RequestOf(id))
              = Copies(s.next_steps, WalkOf(id)) + Copies(s.RQ, RequestOf(id))
         /\ Copies(later, RequestOf(id)) \in Nat
  <2>1. SUFFICES ASSUME NEW id \in RequestIds
        PROVE  /\ later \in Seq(Requests)
               /\ Copies(u.next_steps, WalkOf(id)) + Copies(later, RequestOf(id))
                    = Copies(s.next_steps, WalkOf(id)) + Copies(s.RQ, RequestOf(id))
               /\ Copies(later, RequestOf(id)) \in Nat
    OBVIOUS
  <2>2. h.of[id] = RequestOf(id)  BY <1>5
  <2>3. QED  BY <1>1, <1>2, <1>5, <1>8, <1>9, <2>2, StepsEnd
<1>13. later \in Seq(Requests)
  <2>1. u.taken \in 0 .. Len(s.RQ)  BY <1>2, <1>8, <1>10 DEF StepsSoFar, WalkTyped
  <2>2. QED  BY <1>1, <2>1, CopiesSplit
<1> HIDE DEF later
<1>14. /\ t.vm = u.vm /\ t.MSHR = u.MSHR /\ t.finished = u.finished /\ t.completed = u.completed
       /\ t.pscl = u.pscl /\ t.RQ = later /\ t.returned = u.returned /\ t.lower = u.lower
       /\ t.lower_returned = u.lower_returned /\ t.next_steps = u.next_steps
       /\ t.taken = u.taken /\ t.ok = u.ok /\ t.CR3_addr = u.CR3_addr /\ WalkShape(t)
  BY <1>11 DEF WalkShape
<1>15. WalkTyped(t)  BY <1>10, <1>13, <1>14 DEF WalkTyped
<1>16. AllRead(t.MSHR, Elements(t.lower) \cup R \cup Elements(t.lower_returned))
  <2>1. AllRead(s.MSHR, Elements(s.lower) \cup R \cup Elements(s.lower_returned))  BY DEF Balanced
  <2>2. Elements(s.lower) \cup R \cup Elements(s.lower_returned)
          \subseteq Elements(t.lower) \cup R \cup Elements(t.lower_returned)
    BY <1>9, <1>14
  <2>3. QED  BY <1>9, <1>14, <2>1, <2>2, ReadsMore
<1>17. ASSUME NEW id \in RequestIds PROVE InWalker(t, id) = c[id]
  <2>1. InWalker(s, id) = c[id]  BY DEF Balanced
  <2>2. Copies(u.next_steps, WalkOf(id)) \in Nat  BY <1>10, WalkCounts
  <2>3. /\ Copies(s.RQ, RequestOf(id)) \in Nat /\ Copies(s.MSHR, WalkOf(id)) \in Nat
        /\ Copies(s.finished, WalkOf(id)) \in Nat /\ Copies(s.completed, WalkOf(id)) \in Nat
        /\ Copies(s.next_steps, WalkOf(id)) \in Nat /\ Copies(s.returned, AnswerOf(id)) \in Nat
    BY <1>1, WalkCounts
  <2>4. c[id] = Copies(s.RQ, RequestOf(id)) + Copies(s.MSHR, WalkOf(id))
                  + Copies(s.finished, WalkOf(id)) + Copies(s.completed, WalkOf(id))
                  + Copies(s.next_steps, WalkOf(id)) + Copies(s.returned, AnswerOf(id))
    BY <2>1 DEF InWalker
  <2>5. InWalker(t, id) = Copies(later, RequestOf(id)) + Copies(s.MSHR, WalkOf(id))
                          + Copies(s.finished, WalkOf(id)) + Copies(s.completed, WalkOf(id))
                          + Copies(u.next_steps, WalkOf(id)) + Copies(s.returned, AnswerOf(id))
    BY <1>9, <1>14 DEF InWalker
  <2>6. /\ Copies(u.next_steps, WalkOf(id)) + Copies(later, RequestOf(id))
             = Copies(s.next_steps, WalkOf(id)) + Copies(s.RQ, RequestOf(id))
        /\ Copies(later, RequestOf(id)) \in Nat
    BY <1>12
  <2>7. QED  BY <2>2, <2>3, <2>4, <2>5, <2>6
<1>18. QED  BY <1>10, <1>14, <1>15, <1>16, <1>17 DEF Balanced, t

\* How many are taken from the front.
LEMMA LeadingBound ==
  ASSUME NEW T, NEW q \in Seq(T), NEW n \in Int
  PROVE  Leading(q, n, IsReady) \in 0 .. Len(q)
<1> DEFINE stops == {i \in 1 .. Len(q) : ~ IsReady(q[i])}
           ok == IF stops = {} THEN Len(q) ELSE Min(stops) - 1
<1>1. Leading(q, n, IsReady) = IF n < 0 THEN 0 ELSE LowerOf(ok, n)  BY DEF Leading
<1>2. Len(q) \in Nat  BY LenProperties
<1>3. ok \in 0 .. Len(q)
  <2>1. CASE stops = {}  BY <1>2, <2>1
  <2>2. CASE stops # {}
    <3>1. stops \subseteq Nat /\ stops \subseteq 1 .. Len(q)  BY <1>2
    <3>2. ok = Min(stops) - 1  BY <2>2
    <3> HIDE DEF stops, ok
    <3>3. \E m \in stops : \A k \in stops : m <= k  BY <2>2, <3>1, Smallest
    <3>4. Min(stops) \in stops  BY <3>3 DEF Min
    <3>5. PICK m \in 1 .. Len(q) : ok = m - 1  BY <3>1, <3>2, <3>4
    <3>6. QED  BY <1>2, <3>5
  <2>3. QED  BY <2>1, <2>2
<1> HIDE DEF ok
<1>4. QED  BY <1>1, <1>2, <1>3 DEF LowerOf

LEMMA FillKeeps ==
  ASSUME NEW s, NEW R, NEW c, Balanced(s, R, c)
  PROVE  Balanced(Fill(s), R, c)
<1> DEFINE n == Leading(s.finished, MAX_FILL - s.taken, IsReady)
           h == [s |-> Begun(s), q |-> First(s.finished, n), of |-> [id \in RequestIds |-> WalkOf(id)]]
           u == Through(HandleFill, Begun(s), First(s.finished, n))
           t == Fill(s)
<1>1. WalkTyped(s) /\ s.finished \in Seq(Fetched(s.vm))  BY DEF Balanced, WalkTyped
<1>2. n \in 0 .. Len(s.finished)
  <2>1. MAX_FILL - s.taken \in Int  BY <1>1, WalkerAssumption DEF WalkTyped
  <2>2. QED  BY <1>1, <2>1, LeadingBound
<1>3. t = [u EXCEPT !.finished = Rest(@, u.taken)]  BY <1>1, BegunIs DEF Fill
<1> HIDE DEF n
<1>4. First(s.finished, n) \in Seq(Fetched(s.vm)) /\ Len(First(s.finished, n)) = n
  BY <1>1, <1>2, CopiesSplit
<1>5. /\ h.s = Begun(s) /\ h.q = First(s.finished, n) /\ Begun(s).vm = s.vm
      /\ h.of = [id \in RequestIds |-> WalkOf(id)]
  BY DEF Begun
<1>6. u = Through(HandleFill, h.s, h.q)  OBVIOUS
<1> HIDE DEF h, u
<1>7. StepsSoFar(h, h.s, 0)  BY <1>4, <1>5, StepsBegin
<1>8. StepsSoFar(h, u, n)  BY <1>4, <1>5, <1>6, <1>7, FillsStepped
<1> DEFINE later == Rest(s.finished, u.taken)
<1>9. /\ u.vm = s.vm /\ u.MSHR = s.MSHR /\ u.finished = s.finished
      /\ u.completed = s.completed /\ u.RQ = s.RQ /\ u.returned = s.returned
      /\ u.lower_returned = s.lower_returned
      /\ h.s.next_steps = s.next_steps /\ Elements(s.lower) \subseteq Elements(u.lower)
  BY <1>5, <1>8 DEF StepsSoFar, Begun
<1>10. WalkTyped(u) /\ AllRead(u.next_steps, Elements(u.lower))  BY <1>8 DEF StepsSoFar
<1>11. t = [vm |-> u.vm, MSHR |-> u.MSHR, finished |-> later, completed |-> u.completed,
            pscl |-> u.pscl, RQ |-> u.RQ, returned |-> u.returned, lower |-> u.lower,
            lower_returned |-> u.lower_returned, next_steps |-> u.next_steps,
            taken |-> u.taken, ok |-> u.ok, CR3_addr |-> u.CR3_addr]
  BY <1>3, <1>9, <1>10 DEF WalkTyped, WalkShape
<1> HIDE DEF t
<1>12. \A id \in RequestIds :
         /\ later \in Seq(Fetched(s.vm))
         /\ Copies(u.next_steps, WalkOf(id)) + Copies(later, WalkOf(id))
              = Copies(s.next_steps, WalkOf(id)) + Copies(s.finished, WalkOf(id))
         /\ Copies(later, WalkOf(id)) \in Nat
  <2>1. SUFFICES ASSUME NEW id \in RequestIds
        PROVE  /\ later \in Seq(Fetched(s.vm))
               /\ Copies(u.next_steps, WalkOf(id)) + Copies(later, WalkOf(id))
                    = Copies(s.next_steps, WalkOf(id)) + Copies(s.finished, WalkOf(id))
               /\ Copies(later, WalkOf(id)) \in Nat
    OBVIOUS
  <2>2. h.of[id] = WalkOf(id)  BY <1>5
  <2>3. QED  BY <1>1, <1>2, <1>5, <1>8, <1>9, <2>2, StepsEnd
<1>13. later \in Seq(Fetched(s.vm))
  <2>1. u.taken \in 0 .. Len(s.finished)
    BY <1>1, <1>2, <1>8, <1>10, LenProperties DEF StepsSoFar, WalkTyped
  <2>2. QED  BY <1>1, <2>1, CopiesSplit
<1> HIDE DEF later
<1>14. /\ t.vm = u.vm /\ t.MSHR = u.MSHR /\ t.finished = later /\ t.completed = u.completed
       /\ t.pscl = u.pscl /\ t.RQ = u.RQ /\ t.returned = u.returned /\ t.lower = u.lower
       /\ t.lower_returned = u.lower_returned /\ t.next_steps = u.next_steps
       /\ t.taken = u.taken /\ t.ok = u.ok /\ t.CR3_addr = u.CR3_addr /\ WalkShape(t)
  BY <1>11 DEF WalkShape
<1>15. WalkTyped(t)  BY <1>9, <1>10, <1>13, <1>14 DEF WalkTyped
<1>16. AllRead(t.MSHR, Elements(t.lower) \cup R \cup Elements(t.lower_returned))
  <2>1. AllRead(s.MSHR, Elements(s.lower) \cup R \cup Elements(s.lower_returned))  BY DEF Balanced
  <2>2. Elements(s.lower) \cup R \cup Elements(s.lower_returned)
          \subseteq Elements(t.lower) \cup R \cup Elements(t.lower_returned)
    BY <1>9, <1>14
  <2>3. QED  BY <1>9, <1>14, <2>1, <2>2, ReadsMore
<1>17. ASSUME NEW id \in RequestIds PROVE InWalker(t, id) = c[id]
  <2>1. InWalker(s, id) = c[id]  BY DEF Balanced
  <2>2. Copies(u.next_steps, WalkOf(id)) \in Nat  BY <1>10, WalkCounts
  <2>3. /\ Copies(s.RQ, RequestOf(id)) \in Nat /\ Copies(s.MSHR, WalkOf(id)) \in Nat
        /\ Copies(s.finished, WalkOf(id)) \in Nat /\ Copies(s.completed, WalkOf(id)) \in Nat
        /\ Copies(s.next_steps, WalkOf(id)) \in Nat /\ Copies(s.returned, AnswerOf(id)) \in Nat
    BY <1>1, WalkCounts
  <2>4. c[id] = Copies(s.RQ, RequestOf(id)) + Copies(s.MSHR, WalkOf(id))
                  + Copies(s.finished, WalkOf(id)) + Copies(s.completed, WalkOf(id))
                  + Copies(s.next_steps, WalkOf(id)) + Copies(s.returned, AnswerOf(id))
    BY <2>1 DEF InWalker
  <2>5. InWalker(t, id) = Copies(s.RQ, RequestOf(id)) + Copies(s.MSHR, WalkOf(id))
                          + Copies(later, WalkOf(id)) + Copies(s.completed, WalkOf(id))
                          + Copies(u.next_steps, WalkOf(id)) + Copies(s.returned, AnswerOf(id))
    BY <1>9, <1>14 DEF InWalker
  <2>6. /\ Copies(u.next_steps, WalkOf(id)) + Copies(later, WalkOf(id))
             = Copies(s.next_steps, WalkOf(id)) + Copies(s.finished, WalkOf(id))
        /\ Copies(later, WalkOf(id)) \in Nat
    BY <1>12
  <2>7. QED  BY <2>2, <2>3, <2>4, <2>5, <2>6
<1>18. QED  BY <1>10, <1>14, <1>15, <1>16, <1>17 DEF Balanced, t

-----------------------------------------------------------------------------
(* The walker: queues that are gone through *)

\* Of h.q, the first n gave r; what concerns id is h.from[id] before and h.to[id] afterwards.
EachSoFar(h, r, n) ==
  /\ r \in Seq(h.T)
  /\ \A id \in RequestIds : Copies(r, h.to[id]) = Copies(First(h.q, n), h.from[id])

LEMMA EachBegins ==
  ASSUME NEW h, NEW S, h.q \in Seq(S)
  PROVE  EachSoFar(h, << >>, 0)
<1>1. First(h.q, 0) = << >>  BY PartEnds
<1>2. << >> \in Seq(h.T)  BY EmptySeq
<1>3. \A id \in RequestIds : Copies(<< >>, h.to[id]) = 0 /\ Copies(<< >>, h.from[id]) = 0
  BY CopiesEmpty
<1>4. QED  BY <1>1, <1>2, <1>3 DEF EachSoFar

LEMMA EachAppended ==
  ASSUME NEW h, NEW S, h.q \in Seq(S), NEW n \in 1 .. Len(h.q), NEW r, EachSoFar(h, r, n - 1),
         NEW x \in h.T, \A id \in RequestIds : x \in h.to[id] <=> h.q[n] \in h.from[id]
  PROVE  EachSoFar(h, Append(r, x), n)
<1>1. /\ First(h.q, n - 1) \in Seq(S) /\ h.q[n] \in S
      /\ First(h.q, n) = Append(First(h.q, n - 1), h.q[n])
  BY FirstGrows
<1>2. r \in Seq(h.T)  BY DEF EachSoFar
<1>3. Append(r, x) \in Seq(h.T)  BY <1>2, AppendProperties
<1>4. ASSUME NEW id \in RequestIds
      PROVE  Copies(Append(r, x), h.to[id]) = Copies(First(h.q, n), h.from[id])
  <2>1. Copies(Append(r, x), h.to[id]) = Copies(r, h.to[id]) + Mark(x, h.to[id])
    BY <1>2, CopiesAppend
  <2>2. Copies(First(h.q, n), h.from[id])
          = Copies(First(h.q, n - 1), h.from[id]) + Mark(h.q[n], h.from[id])
    BY <1>1, CopiesAppend
  <2>3. Mark(x, h.to[id]) = Mark(h.q[n], h.from[id])  BY DEF Mark
  <2>4. Copies(r, h.to[id]) = Copies(First(h.q, n - 1), h.from[id])  BY DEF EachSoFar
  <2>5. QED  BY <2>1, <2>2, <2>3, <2>4
<1>5. QED  BY <1>3, <1>4 DEF EachSoFar

OfElapse(k, r, e) == Append(r, [e EXCEPT !.wait = IF @ = 0 THEN 0 ELSE @ - 1])
ElapseSteps == INSTANCE StageLemmas WITH Op <- OfElapse, Inv <- EachSoFar

\* A cycle later: the same walks.
LEMMA ElapseKeeps ==
  ASSUME NEW m, NEW T, T = Walks \/ T = Fetched(m), NEW q \in Seq(T)
  PROVE  /\ Elapse(q) \in Seq(T)
         /\ \A id \in RequestIds : Copies(Elapse(q), WalkOf(id)) = Copies(q, WalkOf(id))
<1> DEFINE of == [id \in RequestIds |-> WalkOf(id)]
           h == [q |-> q, T |-> T, from |-> of, to |-> of]
<1>1. Elapse(q) = ElapseSteps!Carried(h, << >>, q)
  BY Zenon DEF ElapseSteps!Carried, ElapseSteps!Steps, Elapse, Each, Through, OfElapse
<1>2. Len(q) \in Nat  BY LenProperties
<1>3. h.q = q /\ h.T = T /\ h.from = of /\ h.to = of  OBVIOUS
<1> HIDE DEF h
<1>4. EachSoFar(h, << >>, 0)  BY <1>3, EachBegins
<1>5. ASSUME NEW n \in 1 .. Len(q), NEW r, EachSoFar(h, r, n - 1)
      PROVE  EachSoFar(h, OfElapse(h, r, q[n]), n)
  <2> DEFINE e == q[n]
             left == IF e.wait = 0 THEN 0 ELSE e.wait - 1
             x == [e EXCEPT !.wait = left]
  <2>1. e \in T  BY ElementOfSeq
  <2>2. e \in Walks  BY <2>1 DEF Fetched
  <2>3. OfElapse(h, r, e) = Append(r, x)  BY DEF OfElapse
  <2>4. left \in Nat  BY <2>2 DEF Walks
  <2> HIDE DEF e, left
  <2>5. /\ x \in Walks /\ x.id = e.id /\ x.v = e.v /\ x.level = e.level /\ x.data = e.data
    BY <2>2, <2>4 DEF Walks
  <2> HIDE DEF x
  <2>6. x \in T  BY <2>1, <2>5 DEF Fetched
  <2>7. ASSUME NEW id \in RequestIds PROVE x \in h.to[id] <=> e \in h.from[id]
    <3>1. h.to[id] = WalkOf(id) /\ h.from[id] = WalkOf(id)  BY <1>3
    <3>2. QED  BY <2>2, <2>5, <3>1 DEF WalkOf
  <2>8. EachSoFar(h, Append(r, x), n)
    <3>1. h.q[n] = e /\ n \in 1 .. Len(h.q) /\ h.q \in Seq(T) /\ x \in h.T  BY <1>3, <2>6 DEF e
    <3>2. \A id \in RequestIds : x \in h.to[id] <=> h.q[n] \in h.from[id]  BY <2>7, <3>1
    <3>3. QED  BY <1>5, <3>1, <3>2, EachAppended
  <2>9. QED  BY <2>3, <2>8 DEF e
<1>6. EachSoFar(h, ElapseSteps!Carried(h, << >>, q), Len(q))
  BY <1>2, <1>4, <1>5, ElapseSteps!Kept
<1>7. First(q, Len(q)) = q  BY PartEnds
<1>8. ASSUME NEW id \in RequestIds PROVE Copies(Elapse(q), WalkOf(id)) = Copies(q, WalkOf(id))
  <2>1. h.to[id] = WalkOf(id) /\ h.from[id] = WalkOf(id)  BY <1>3
  <2>2. QED  BY <1>1, <1>3, <1>6, <1>7, <2>1 DEF EachSoFar
<1>9. Elapse(q) \in Seq(T)  BY <1>1, <1>3, <1>6 DEF EachSoFar
<1>10. QED  BY <1>8, <1>9

OfAnswer(k, r, e) == Append(r, [v |-> e.v, id |-> e.id, page |-> e.data.page])
AnswerSteps == INSTANCE StageLemmas WITH Op <- OfAnswer, Inv <- EachSoFar

\* What the walks of q answer.
Answers(q) == Each(q, LAMBDA e : [v |-> e.v, id |-> e.id, page |-> e.data.page])

LEMMA AnswersGiven ==
  ASSUME NEW q \in Seq(Walks)
  PROVE  /\ Answers(q) \in Seq(WalkAnswers)
         /\ \A id \in RequestIds : Copies(Answers(q), AnswerOf(id)) = Copies(q, WalkOf(id))
<1> DEFINE h == [q |-> q, T |-> WalkAnswers, from |-> [id \in RequestIds |-> WalkOf(id)],
                 to |-> [id \in RequestIds |-> AnswerOf(id)]]
<1>1. Answers(q) = AnswerSteps!Carried(h, << >>, q)
  BY Zenon DEF AnswerSteps!Carried, AnswerSteps!Steps, Answers, Each, Through, OfAnswer
<1>2. Len(q) \in Nat  BY LenProperties
<1>3. /\ h.q = q /\ h.T = WalkAnswers
      /\ \A id \in RequestIds : h.from[id] = WalkOf(id) /\ h.to[id] = AnswerOf(id)
  OBVIOUS
<1> HIDE DEF h
<1>4. EachSoFar(h, << >>, 0)  BY <1>3, EachBegins
<1>5. ASSUME NEW n \in 1 .. Len(q), NEW r, EachSoFar(h, r, n - 1)
      PROVE  EachSoFar(h, OfAnswer(h, r, q[n]), n)
  <2> DEFINE e == q[n]
             x == [v |-> e.v, id |-> e.id, page |-> e.data.page]
  <2>1. e \in Walks  BY ElementOfSeq
  <2>3. OfAnswer(h, r, e) = Append(r, x)  BY DEF OfAnswer
  <2> HIDE DEF e
  <2>5. x \in WalkAnswers /\ x.id = e.id  BY <2>1 DEF Walks, WalkAnswers, WalkPlaces
  <2> HIDE DEF x
  <2>7. ASSUME NEW id \in RequestIds PROVE x \in h.to[id] <=> e \in h.from[id]
    BY <1>3, <2>1, <2>5 DEF WalkOf, AnswerOf
  <2>8. EachSoFar(h, Append(r, x), n)
    <3>1. h.q[n] = e /\ n \in 1 .. Len(h.q) /\ h.q \in Seq(Walks) /\ x \in h.T
      BY <1>3, <2>5 DEF e
    <3>2. \A id \in RequestIds : x \in h.to[id] <=> h.q[n] \in h.from[id]  BY <2>7, <3>1
    <3>3. QED  BY <1>5, <3>1, <3>2, EachAppended
  <2>9. QED  BY <2>3, <2>8 DEF e
<1>6. EachSoFar(h, AnswerSteps!Carried(h, << >>, q), Len(q))
  BY <1>2, <1>4, <1>5, AnswerSteps!Kept
<1>7. First(q, Len(q)) = q  BY PartEnds
<1>8. ASSUME NEW id \in RequestIds PROVE Copies(Answers(q), AnswerOf(id)) = Copies(q, WalkOf(id))
  BY <1>1, <1>3, <1>6, <1>7 DEF EachSoFar
<1>9. Answers(q) \in Seq(WalkAnswers)  BY <1>1, <1>3, <1>6 DEF EachSoFar
<1>10. QED  BY <1>8, <1>9

LEMMA CompleteKeeps ==
  ASSUME NEW s, NEW R, NEW c, Balanced(s, R, c)
  PROVE  Balanced(CompleteWalks(s), R, c)
<1> DEFINE n == Leading(s.completed, MAX_FILL, IsReady)
           done == First(s.completed, n)
           answers == Answers(done)
           t == CompleteWalks(s)
           got == s.returned \o answers
           later == Rest(s.completed, n)
<1>1. /\ WalkTyped(s) /\ WalkShape(s) /\ s.completed \in Seq(Walks)
      /\ s.returned \in Seq(WalkAnswers)
  BY DEF Balanced, WalkTyped
<1>2. n \in 0 .. Len(s.completed)
  <2>1. MAX_FILL \in Int  BY WalkerAssumption
  <2>2. QED  BY <1>1, <2>1, LeadingBound
<1>3. t = [s EXCEPT !.returned = got, !.completed = later, !.taken = n]
  BY Zenon DEF CompleteWalks, Answers
<1>a. n \in Nat  BY <1>1, <1>2, LenProperties
<1> HIDE DEF n
<1>4. done \in Seq(Walks) /\ later \in Seq(Walks)  BY <1>1, <1>2, CopiesSplit
<1>5. answers \in Seq(WalkAnswers)  BY <1>4, AnswersGiven
<1>6. got \in Seq(WalkAnswers)  BY <1>1, <1>5, ConcatProperties
<1>7. ASSUME NEW id \in RequestIds
      PROVE  /\ Copies(got, AnswerOf(id)) + Copies(later, WalkOf(id))
                  = Copies(s.returned, AnswerOf(id)) + Copies(s.completed, WalkOf(id))
             /\ Copies(got, AnswerOf(id)) \in Nat /\ Copies(later, WalkOf(id)) \in Nat
  <2>1. Copies(s.completed, WalkOf(id)) = Copies(done, WalkOf(id)) + Copies(later, WalkOf(id))
    BY <1>1, <1>2, CopiesSplit
  <2>2. Copies(answers, AnswerOf(id)) = Copies(done, WalkOf(id))  BY <1>4, AnswersGiven
  <2>3. Copies(got, AnswerOf(id)) = Copies(s.returned, AnswerOf(id)) + Copies(answers, AnswerOf(id))
    BY <1>1, <1>5, CopiesConcat
  <2>4. /\ Copies(got, AnswerOf(id)) \in Nat /\ Copies(later, WalkOf(id)) \in Nat
        /\ Copies(s.returned, AnswerOf(id)) \in Nat /\ Copies(done, WalkOf(id)) \in Nat
    BY <1>1, <1>4, <1>6, CopiesNat
  <2>5. QED  BY <2>1, <2>2, <2>3, <2>4
<1> HIDE DEF done, answers, got, later
<1>8. t = [vm |-> s.vm, MSHR |-> s.MSHR, finished |-> s.finished, completed |-> later,
           pscl |-> s.pscl, RQ |-> s.RQ, returned |-> got, lower |-> s.lower,
           lower_returned |-> s.lower_returned, next_steps |-> s.next_steps,
           taken |-> n, ok |-> s.ok, CR3_addr |-> s.CR3_addr]
  BY <1>1, <1>3 DEF WalkShape
<1> HIDE DEF t
<1>9. /\ t.vm = s.vm /\ t.MSHR = s.MSHR /\ t.finished = s.finished /\ t.completed = later
      /\ t.pscl = s.pscl /\ t.RQ = s.RQ /\ t.returned = got /\ t.lower = s.lower
      /\ t.lower_returned = s.lower_returned /\ t.next_steps = s.next_steps
      /\ t.taken = n /\ t.ok = s.ok /\ t.CR3_addr = s.CR3_addr /\ WalkShape(t)
  BY <1>8 DEF WalkShape
<1>10. WalkTyped(t)  BY <1>1, <1>a, <1>4, <1>6, <1>9 DEF WalkTyped
<1>11. ASSUME NEW id \in RequestIds PROVE InWalker(t, id) = c[id]
  <2>1. /\ Copies(s.RQ, RequestOf(id)) \in Nat /\ Copies(s.MSHR, WalkOf(id)) \in Nat
        /\ Copies(s.finished, WalkOf(id)) \in Nat /\ Copies(s.completed, WalkOf(id)) \in Nat
        /\ Copies(s.next_steps, WalkOf(id)) \in Nat /\ Copies(s.returned, AnswerOf(id)) \in Nat
    BY <1>1, WalkCounts
  <2>2. c[id] = Copies(s.RQ, RequestOf(id)) + Copies(s.MSHR, WalkOf(id))
                  + Copies(s.finished, WalkOf(id)) + Copies(s.completed, WalkOf(id))
                  + Copies(s.next_steps, WalkOf(id)) + Copies(s.returned, AnswerOf(id))
    BY DEF Balanced, InWalker
  <2>3. InWalker(t, id) = Copies(s.RQ, RequestOf(id)) + Copies(s.MSHR, WalkOf(id))
                            + Copies(s.finished, WalkOf(id)) + Copies(later, WalkOf(id))
                            + Copies(s.next_steps, WalkOf(id)) + Copies(got, AnswerOf(id))
    BY <1>9 DEF InWalker
  <2>4. QED  BY <1>7, <2>1, <2>2, <2>3
<1>12. QED  BY <1>9, <1>10, <1>11 DEF Balanced, t

LEMMA InsertKeeps ==
  ASSUME NEW s, NEW R, NEW c, Balanced(s, R, c)
  PROVE  Balanced(Insert(s), R, c) /\ Insert(s).next_steps = << >>
<1> DEFINE waiting == s.MSHR \o s.next_steps
           none == << >>
           t == Insert(s)
<1>1. /\ WalkTyped(s) /\ WalkShape(s) /\ s.MSHR \in Seq(Walks) /\ s.next_steps \in Seq(Walks)
  BY DEF Balanced, WalkTyped
<1>2. waiting \in Seq(Walks) /\ Elements(waiting) = Elements(s.MSHR) \cup Elements(s.next_steps)
  BY <1>1, ElementsConcat
<1>3. \A id : Copies(waiting, WalkOf(id)) = Copies(s.MSHR, WalkOf(id)) + Copies(s.next_steps, WalkOf(id))
  BY <1>1, CopiesConcat
<1>4. none \in Seq(Walks) /\ \A S : Copies(none, S) = 0  BY EmptySeq, CopiesEmpty
<1>5. t = [vm |-> s.vm, MSHR |-> waiting, finished |-> s.finished, completed |-> s.completed,
           pscl |-> s.pscl, RQ |-> s.RQ, returned |-> s.returned, lower |-> s.lower,
           lower_returned |-> s.lower_returned, next_steps |-> none,
           taken |-> 0, ok |-> TRUE, CR3_addr |-> s.CR3_addr]
  <2> DEFINE u == [s EXCEPT !.MSHR = waiting, !.next_steps = none]
  <2>1. t = [u EXCEPT !.taken = 0, !.ok = TRUE]  BY DEF Insert
  <2> HIDE DEF waiting, none
  <2>2. u = [vm |-> s.vm, MSHR |-> waiting, finished |-> s.finished, completed |-> s.completed,
             pscl |-> s.pscl, RQ |-> s.RQ, returned |-> s.returned, lower |-> s.lower,
             lower_returned |-> s.lower_returned, next_steps |-> none,
             taken |-> s.taken, ok |-> s.ok, CR3_addr |-> s.CR3_addr]
    <3> DEFINE r == [s EXCEPT !.MSHR = waiting]
    <3>1. u = [r EXCEPT !.next_steps = none]  OBVIOUS
    <3>2. r = [vm |-> s.vm, MSHR |-> waiting, finished |-> s.finished, completed |-> s.completed,
               pscl |-> s.pscl, RQ |-> s.RQ, returned |-> s.returned, lower |-> s.lower,
               lower_returned |-> s.lower_returned, next_steps |-> s.next_steps,
               taken |-> s.taken, ok |-> s.ok, CR3_addr |-> s.CR3_addr]
      BY <1>1 DEF WalkShape
    <3> HIDE DEF r, u
    <3>3. QED  BY <3>1, <3>2
  <2> HIDE DEF u, t
  <2>3. WalkShape(u)  BY <2>2 DEF WalkShape
  <2>4. PICK yes : yes = TRUE  OBVIOUS
  <2>5. [u EXCEPT !.taken = 0, !.ok = yes] =
          [vm |-> u.vm, MSHR |-> u.MSHR, finished |-> u.finished, completed |-> u.completed,
           pscl |-> u.pscl, RQ |-> u.RQ, returned |-> u.returned, lower |-> u.lower,
           lower_returned |-> u.lower_returned, next_steps |-> u.next_steps,
           taken |-> 0, ok |-> yes, CR3_addr |-> u.CR3_addr]
    BY <2>3, TakenReplaced
  <2>6. /\ u.vm = s.vm /\ u.MSHR = waiting /\ u.finished = s.finished /\ u.completed = s.completed
        /\ u.pscl = s.pscl /\ u.RQ = s.RQ /\ u.returned = s.returned /\ u.lower = s.lower
        /\ u.lower_returned = s.lower_returned /\ u.next_steps = none
        /\ u.CR3_addr = s.CR3_addr
    BY <2>2
  <2>7. QED  BY Zenon, <2>1, <2>4, <2>5, <2>6
<1> HIDE DEF t, waiting, none
<1>6. /\ t.vm = s.vm /\ t.MSHR = waiting /\ t.finished = s.finished /\ t.completed = s.completed
      /\ t.pscl = s.pscl /\ t.RQ = s.RQ /\ t.returned = s.returned /\ t.lower = s.lower
      /\ t.lower_returned = s.lower_returned /\ t.next_steps = none
      /\ t.taken = 0 /\ t.ok = TRUE /\ t.CR3_addr = s.CR3_addr /\ WalkShape(t)
  BY <1>5 DEF WalkShape
<1>7. t.ok \in BOOLEAN /\ t.taken \in Nat
  <2>1. t.ok \in BOOLEAN  BY Zenon, <1>6
  <2>2. QED  BY <1>6, <2>1
<1>8. WalkTyped(t)  BY <1>1, <1>2, <1>4, <1>6, <1>7 DEF WalkTyped
<1>9. AllRead(waiting, Elements(s.lower) \cup R \cup Elements(s.lower_returned))
  <2> DEFINE B == Elements(s.lower) \cup R \cup Elements(s.lower_returned)
  <2>1. \A e \in Elements(s.MSHR) : BlockOf(e.address) \in B
    BY DEF Balanced, AllRead, Elements
  <2>2. \A e \in Elements(s.next_steps) : BlockOf(e.address) \in B
    BY DEF Balanced, AllRead, Elements
  <2>3. \A i \in 1 .. Len(waiting) : waiting[i] \in Elements(waiting)  BY DEF Elements
  <2> HIDE DEF B
  <2>4. AllRead(waiting, B)  BY <1>2, <2>1, <2>2, <2>3 DEF AllRead
  <2>5. QED  BY <2>4 DEF B
<1>10. AllRead(none, Elements(s.lower))  BY DEF AllRead, none
<1>11. ASSUME NEW id \in RequestIds PROVE InWalker(t, id) = c[id]
  <2>1. /\ Copies(s.RQ, RequestOf(id)) \in Nat /\ Copies(s.MSHR, WalkOf(id)) \in Nat
        /\ Copies(s.finished, WalkOf(id)) \in Nat /\ Copies(s.completed, WalkOf(id)) \in Nat
        /\ Copies(s.next_steps, WalkOf(id)) \in Nat /\ Copies(s.returned, AnswerOf(id)) \in Nat
    BY <1>1, WalkCounts
  <2>2. c[id] = Copies(s.RQ, RequestOf(id)) + Copies(s.MSHR, WalkOf(id))
                  + Copies(s.finished, WalkOf(id)) + Copies(s.completed, WalkOf(id))
                  + Copies(s.next_steps, WalkOf(id)) + Copies(s.returned, AnswerOf(id))
    BY DEF Balanced, InWalker
  <2>3. InWalker(t, id) = Copies(s.RQ, RequestOf(id)) + Copies(waiting, WalkOf(id))
                            + Copies(s.finished, WalkOf(id)) + Copies(s.completed, WalkOf(id))
                            + Copies(none, WalkOf(id)) + Copies(s.returned, AnswerOf(id))
    BY <1>6 DEF InWalker
  <2>4. Copies(waiting, WalkOf(id)) = Copies(s.MSHR, WalkOf(id)) + Copies(s.next_steps, WalkOf(id))
        /\ Copies(none, WalkOf(id)) = 0
    BY <1>3, <1>4
  <2>5. QED  BY <2>1, <2>2, <2>3, <2>4
<1>12. Balanced(t, R, c)  BY <1>6, <1>8, <1>9, <1>10, <1>11 DEF Balanced
<1>13. QED  BY <1>6, <1>12 DEF t, none

-----------------------------------------------------------------------------
(* The walker: blocks that come *)

\* Elements of a part are elements of the queue.
LEMMA FromAgreeing ==
  ASSUME NEW T, NEW q \in Seq(T), NEW U, NEW r \in Seq(U), \A S : Copies(r, S) <= Copies(q, S)
  PROVE  Elements(r) \subseteq Elements(q)
<1>1. SUFFICES ASSUME NEW j \in 1 .. Len(r) PROVE r[j] \in Elements(q)  BY DEF Elements
<1> DEFINE x == r[j]
<1>2. Copies(r, {x}) # 0  BY CopiesNone
<1>3. Copies(r, {x}) \in Nat /\ Copies(q, {x}) \in Nat  BY CopiesNat
<1>4. Copies(r, {x}) <= Copies(q, {x})  OBVIOUS
<1>5. Copies(q, {x}) # 0  BY <1>2, <1>3, <1>4
<1>6. \E i \in 1 .. Len(q) : q[i] \in {x}  BY <1>5, CopiesNone
<1>7. QED  BY <1>6 DEF Elements

LEMMA RestElements ==
  ASSUME NEW T, NEW q \in Seq(T), NEW n \in 0 .. Len(q)
  PROVE  Elements(Rest(q, n)) \subseteq Elements(q)
<1>1. First(q, n) \in Seq(T) /\ Rest(q, n) \in Seq(T)
      /\ \A S : Copies(q, S) = Copies(First(q, n), S) + Copies(Rest(q, n), S)
  BY CopiesSplit
<1>2. \A S : Copies(First(q, n), S) \in Nat /\ Copies(Rest(q, n), S) \in Nat  BY <1>1, CopiesNat
<1>3. \A S : Copies(Rest(q, n), S) <= Copies(q, S)
  <2>1. SUFFICES ASSUME NEW S PROVE Copies(Rest(q, n), S) <= Copies(q, S)  OBVIOUS
  <2>2. Copies(q, S) = Copies(First(q, n), S) + Copies(Rest(q, n), S)  BY <1>1
  <2>3. Copies(First(q, n), S) \in Nat /\ Copies(Rest(q, n), S) \in Nat  BY <1>2
  <2>4. QED  BY <2>2, <2>3
<1>4. QED  BY <1>1, <1>3, FromAgreeing

\* Walks that wait for b.
InBlock(b) == {e \in Walks : BlockOf(e.address) = b}

\* std::partition, with lo and hi at its two pointers: an element of the queue stays one,
\* those before lo are in the block and those after hi are not.
OfPart(b, t, x) ==
  CASE t.lo > t.hi -> t
    [] t.lo <= t.hi /\ BlockOf(t.q[t.lo].address) = b -> [t EXCEPT !.lo = @ + 1]
    [] t.lo <= t.hi /\ ~ BlockOf(t.q[t.lo].address) = b /\ ~ BlockOf(t.q[t.hi].address) = b ->
         [t EXCEPT !.hi = @ - 1]
    [] OTHER -> [q |-> [t.q EXCEPT ![t.lo] = t.q[t.hi], ![t.hi] = t.q[t.lo]],
                 lo |-> t.lo + 1, hi |-> t.hi - 1]
PartSoFar(h, t, n) ==
  /\ t = [q |-> t.q, lo |-> t.lo, hi |-> t.hi]
  /\ t.q \in Seq(Walks) /\ Len(t.q) = Len(h.q)
  /\ \A S : Copies(t.q, S) = Copies(h.q, S)
  /\ t.lo \in 1 .. Len(h.q) + 1 /\ t.hi \in 0 .. Len(h.q) /\ t.lo <= t.hi + 1
  /\ \A i \in 1 .. Len(h.q) :
       /\ i < t.lo => BlockOf(t.q[i].address) = h.b
       /\ i > t.hi => BlockOf(t.q[i].address) # h.b
  /\ t.lo > t.hi \/ t.hi - t.lo + 1 <= Len(h.q) - n
PartSteps == INSTANCE StageLemmas WITH Op <- OfPart, Inv <- PartSoFar

\* r is q with the elements at i and j in each other's place.
Swapped(q, i, j, r) ==
  /\ r \in Seq(Walks) /\ Len(r) = Len(q)
  /\ \A k \in 1 .. Len(q) : r[k] = IF k = i THEN q[j] ELSE IF k = j THEN q[i] ELSE q[k]
  /\ \A S : Copies(r, S) = Copies(q, S)

LEMMA SwapFacts ==
  ASSUME NEW q \in Seq(Walks), NEW i \in 1 .. Len(q), NEW j \in 1 .. Len(q), i # j
  PROVE  Swapped(q, i, j, [q EXCEPT ![i] = q[j], ![j] = q[i]])
<1> DEFINE x == q[i]
           y == q[j]
           p == [q EXCEPT ![i] = y]
           r == [p EXCEPT ![j] = x]
<1>1. x \in Walks /\ y \in Walks  BY ElementOfSeq
<1>2. [q EXCEPT ![i] = q[j], ![j] = q[i]] = r  OBVIOUS
<1> HIDE DEF x, y
<1>3. /\ p \in Seq(Walks) /\ Len(p) = Len(q)
      /\ \A k \in 1 .. Len(q) : p[k] = IF k = i THEN y ELSE q[k]
  BY <1>1, ExceptSeq
<1>4. \A S : Copies(p, S) + Mark(x, S) = Copies(q, S) + Mark(y, S)
  BY <1>1, CopiesReplaced DEF x
<1>5. p[j] = y  BY <1>3 DEF y
<1> HIDE DEF p
<1>6. /\ r \in Seq(Walks) /\ Len(r) = Len(p)
      /\ \A k \in 1 .. Len(p) : r[k] = IF k = j THEN x ELSE p[k]
  BY <1>1, <1>3, ExceptSeq
<1>7. \A S : Copies(r, S) + Mark(y, S) = Copies(p, S) + Mark(x, S)
  BY <1>1, <1>3, <1>5, CopiesReplaced
<1> HIDE DEF r
<1>8. ASSUME NEW S PROVE Copies(r, S) = Copies(q, S)
  <2>1. Copies(r, S) \in Nat /\ Copies(p, S) \in Nat /\ Copies(q, S) \in Nat
    BY <1>3, <1>6, CopiesNat
  <2>2. Mark(x, S) \in Nat /\ Mark(y, S) \in Nat  BY DEF Mark
  <2>3. Copies(p, S) + Mark(x, S) = Copies(q, S) + Mark(y, S)  BY <1>4
  <2>4. Copies(r, S) + Mark(y, S) = Copies(p, S) + Mark(x, S)  BY <1>7
  <2>5. QED  BY <2>1, <2>2, <2>3, <2>4
<1>9. \A k \in 1 .. Len(q) : r[k] = IF k = i THEN y ELSE IF k = j THEN x ELSE q[k]
  BY <1>3, <1>6
<1>10. Swapped(q, i, j, r)  BY <1>3, <1>6, <1>8, <1>9 DEF Swapped, x, y
<1>11. QED  BY <1>2, <1>10

LEMMA PartStepped ==
  ASSUME NEW h, h.q \in Seq(Walks), NEW n \in 1 .. Len(h.q), NEW t, PartSoFar(h, t, n - 1), NEW x
  PROVE  PartSoFar(h, OfPart(h.b, t, x), n)
<1> DEFINE u == OfPart(h.b, t, x)
           b == h.b
           N == Len(h.q)
           lo == t.lo
           hi == t.hi
           a == BlockOf(t.q[t.lo].address) = b
           z == BlockOf(t.q[t.hi].address) = b
<1>1. /\ t = [q |-> t.q, lo |-> t.lo, hi |-> t.hi] /\ t.q \in Seq(Walks) /\ Len(t.q) = N
      /\ \A S : Copies(t.q, S) = Copies(h.q, S)
      /\ \A i \in 1 .. N : /\ i < lo => BlockOf(t.q[i].address) = b
                           /\ i > hi => BlockOf(t.q[i].address) # b
  BY DEF PartSoFar
<1>2. /\ N \in Nat /\ n \in Nat /\ n <= N /\ lo \in Nat /\ hi \in Nat /\ lo <= hi + 1
      /\ lo >= 1 /\ lo <= N + 1 /\ hi <= N
      /\ lo > hi \/ hi - lo + 1 <= N - (n - 1)
  BY LenProperties DEF PartSoFar
<1>3. CASE lo > hi
  <2>0. ~ lo <= hi  BY <1>2, <1>3
  <2>1. u = t  BY <1>3, <2>0 DEF OfPart
  <2>2. PartSoFar(h, t, n)  BY <1>1, <1>2, <1>3 DEF PartSoFar
  <2>3. QED  BY <2>1, <2>2 DEF u
<1>4. CASE lo <= hi /\ a
  <2>1. u = [t EXCEPT !.lo = @ + 1]
    <3>1. ~ lo > hi  BY <1>2, <1>4
    <3>2. QED  BY <1>4, <3>1 DEF OfPart
  <2>2. u = [q |-> t.q, lo |-> lo + 1, hi |-> hi]  BY <1>1, <2>1
  <2> HIDE DEF u
  <2>3. u.q = t.q /\ u.lo = lo + 1 /\ u.hi = hi /\ u = [q |-> u.q, lo |-> u.lo, hi |-> u.hi]
    BY <2>2
  <2>4. \A i \in 1 .. N : /\ i < u.lo => BlockOf(t.q[i].address) = b
                          /\ i > u.hi => BlockOf(t.q[i].address) # b
    <3>1. \A i \in 1 .. N : i < lo + 1 => i < lo \/ i = lo  BY <1>2
    <3>2. QED  BY <1>1, <1>4, <2>3, <3>1
  <2>5. u.lo \in 1 .. N + 1 /\ u.hi \in 0 .. N /\ u.lo <= u.hi + 1
        /\ (u.lo > u.hi \/ u.hi - u.lo + 1 <= N - n)
    <3> HIDE DEF lo, hi, N
    <3>1. QED  BY <1>2, <1>4, <2>3
  <2>6. PartSoFar(h, u, n)  BY <1>1, <2>3, <2>4, <2>5 DEF PartSoFar
  <2>7. QED  BY <2>6 DEF u
<1>5. CASE lo <= hi /\ ~ a /\ ~ z
  <2>1. u = [t EXCEPT !.hi = @ - 1]
    <3>1. ~ lo > hi  BY <1>2, <1>5
    <3>2. QED  BY <1>5, <3>1 DEF OfPart
  <2>2. u = [q |-> t.q, lo |-> lo, hi |-> hi - 1]  BY <1>1, <2>1
  <2> HIDE DEF u
  <2>3. u.q = t.q /\ u.lo = lo /\ u.hi = hi - 1 /\ u = [q |-> u.q, lo |-> u.lo, hi |-> u.hi]
    BY <2>2
  <2>4. \A i \in 1 .. N : /\ i < u.lo => BlockOf(t.q[i].address) = b
                          /\ i > u.hi => BlockOf(t.q[i].address) # b
    <3>1. \A i \in 1 .. N : i > hi - 1 => i > hi \/ i = hi  BY <1>2
    <3>2. QED  BY <1>1, <1>5, <2>3, <3>1
  <2>5. u.lo \in 1 .. N + 1 /\ u.hi \in 0 .. N /\ u.lo <= u.hi + 1
        /\ (u.lo > u.hi \/ u.hi - u.lo + 1 <= N - n)
    <3> HIDE DEF lo, hi, N
    <3>1. QED  BY <1>2, <1>5, <2>3
  <2>6. PartSoFar(h, u, n)  BY <1>1, <2>3, <2>4, <2>5 DEF PartSoFar
  <2>7. QED  BY <2>6 DEF u
<1>6. CASE lo <= hi /\ ~ a /\ z
  <2> DEFINE p == [t.q EXCEPT ![t.lo] = t.q[t.hi], ![t.hi] = t.q[t.lo]]
  <2>0. lo # hi  BY <1>6
  <2>1. u = [q |-> p, lo |-> lo + 1, hi |-> hi - 1]
    <3>1. ~ lo > hi  BY <1>2, <1>6
    <3>2. QED  BY <1>6, <3>1 DEF OfPart
  <2>2. lo \in 1 .. N /\ hi \in 1 .. N  BY <1>2, <1>6
  <2>3. /\ p \in Seq(Walks) /\ Len(p) = N
        /\ \A k \in 1 .. N : p[k] = IF k = lo THEN t.q[hi] ELSE IF k = hi THEN t.q[lo] ELSE t.q[k]
        /\ \A S : Copies(p, S) = Copies(t.q, S)
    <3>1. Swapped(t.q, lo, hi, p)  BY <1>1, <2>0, <2>2, SwapFacts
    <3> HIDE DEF p, u, lo, hi, N
    <3>2. QED  BY <1>1, <3>1 DEF Swapped
  <2> HIDE DEF u, p
  <2>4. u.q = p /\ u.lo = lo + 1 /\ u.hi = hi - 1 /\ u = [q |-> u.q, lo |-> u.lo, hi |-> u.hi]
    BY <2>1
  <2>5. ASSUME NEW i \in 1 .. N
        PROVE  /\ i < u.lo => BlockOf(p[i].address) = b
               /\ i > u.hi => BlockOf(p[i].address) # b
    <3>1. CASE i = lo
      <4>1. p[i] = t.q[hi]  BY <2>3, <3>1
      <4>2. ~ i > u.hi  BY <1>2, <1>6, <2>0, <2>2, <2>4, <3>1
      <4>3. QED  BY <1>6, <4>1, <4>2
    <3>2. CASE i = hi
      <4>1. p[i] = t.q[lo]  BY <2>0, <2>3, <3>2
      <4>2. ~ i < u.lo  BY <1>2, <1>6, <2>0, <2>2, <2>4, <3>2
      <4>3. QED  BY <1>6, <4>1, <4>2
    <3>3. CASE i # lo /\ i # hi
      <4>1. p[i] = t.q[i]  BY <2>3, <3>3
      <4>2. (i < u.lo => i < lo) /\ (i > u.hi => i > hi)  BY <1>2, <2>4, <3>3
      <4>3. QED  BY <1>1, <4>1, <4>2
    <3>4. QED  BY <3>1, <3>2, <3>3
  <2>6. u.lo \in 1 .. N + 1 /\ u.hi \in 0 .. N /\ u.lo <= u.hi + 1
        /\ (u.lo > u.hi \/ u.hi - u.lo + 1 <= N - n)
    <3> HIDE DEF lo, hi, N
    <3>1. QED  BY <1>2, <1>6, <2>0, <2>4
  <2>7. \A S : Copies(p, S) = Copies(h.q, S)  BY <1>1, <2>3
  <2>8. PartSoFar(h, u, n)  BY <2>3, <2>4, <2>5, <2>6, <2>7 DEF PartSoFar
  <2>9. QED  BY <2>8 DEF u
<1>7. QED
  <2>1. lo > hi \/ lo <= hi  BY <1>2
  <2>2. QED  BY <1>3, <1>4, <1>5, <1>6, <2>1

\* p is q with the walks that wait for b at the front.
PartedBy(p, q, b) ==
  /\ p \in Seq(Walks) /\ Taken(q, b) \in 0 .. Len(p)
  /\ \A S : Copies(p, S) = Copies(q, S)
  /\ \A i \in 1 .. Len(p) : BlockOf(p[i].address) = b <=> i <= Taken(q, b)

LEMMA Parted ==
  ASSUME NEW q \in Seq(Walks), NEW b
  PROVE  PartedBy(Partitioned(q, LAMBDA e : BlockOf(e.address) = b), q, b)
<1> DEFINE s == [q |-> q, lo |-> 1, hi |-> Len(q)]
           h == [q |-> q, b |-> b]
           t == PartSteps!Carried(b, s, q)
           N == Len(q)
<1>1. Partitioned(q, LAMBDA e : BlockOf(e.address) = b) = t.q
  BY Zenon DEF PartSteps!Carried, PartSteps!Steps, Partitioned, Through, OfPart
<1>2. N \in Nat  BY LenProperties
<1>3. h.q = q /\ h.b = b  OBVIOUS
<1>4. s.q = q /\ s.lo = 1 /\ s.hi = N  OBVIOUS
<1> HIDE DEF h
<1>5. PartSoFar(h, s, 0)
  <2>1. s = [q |-> s.q, lo |-> s.lo, hi |-> s.hi]  OBVIOUS
  <2> HIDE DEF s
  <2>2. QED  BY <1>2, <1>3, <1>4, <2>1 DEF PartSoFar
<1> HIDE DEF s, t
<1>6. \A n \in 1 .. Len(q) : \A u : PartSoFar(h, u, n - 1) => PartSoFar(h, OfPart(b, u, q[n]), n)
  BY <1>3, PartStepped
<1>7. PartSoFar(h, t, N)  BY <1>2, <1>5, <1>6, PartSteps!KeptFor DEF t
<1> DEFINE p == t.q
           k == t.lo - 1
<1>8. /\ p \in Seq(Walks) /\ Len(p) = N /\ \A S : Copies(p, S) = Copies(q, S)
      /\ t.lo \in 1 .. N + 1 /\ t.hi \in 0 .. N /\ t.lo <= t.hi + 1
      /\ t.lo > t.hi \/ t.hi - t.lo + 1 <= N - N
      /\ \A i \in 1 .. N : /\ i < t.lo => BlockOf(p[i].address) = b
                           /\ i > t.hi => BlockOf(p[i].address) # b
  BY <1>3, <1>7 DEF PartSoFar
<1>9. k \in 0 .. N /\ t.lo = k + 1 /\ t.hi = k  BY <1>2, <1>8
<1> HIDE DEF p, k
<1>10. \A i \in 1 .. N : BlockOf(p[i].address) = b <=> i <= k
  <2>1. \A i \in 1 .. N : (i < k + 1 <=> i <= k) /\ (i > k <=> ~ i <= k)  BY <1>2, <1>9
  <2>2. QED  BY <1>8, <1>9, <2>1
<1>11. Taken(q, b) = Copies(q, InBlock(b))
  <2>1. \A i \in 1 .. Len(q) : q[i] \in Walks  BY ElementOfSeq
  <2>2. {i \in 1 .. Len(q) : BlockOf(q[i].address) = b} = {i \in 1 .. Len(q) : q[i] \in InBlock(b)}
    BY <2>1 DEF InBlock
  <2>3. QED  BY <2>2 DEF Taken, Copies
<1>12. Copies(p, InBlock(b)) = k
  <2>1. \A i \in 1 .. N : p[i] \in Walks  BY <1>8, ElementOfSeq
  <2>2. {i \in 1 .. Len(p) : p[i] \in InBlock(b)} = 1 .. k
    <3>1. \A i \in 1 .. N : p[i] \in InBlock(b) <=> i <= k  BY <1>10, <2>1 DEF InBlock
    <3>2. \A i : i \in 1 .. k <=> i \in 1 .. N /\ i <= k  BY <1>2, <1>9
    <3>3. QED  BY <1>8, <3>1, <3>2
  <2>3. Cardinality(1 .. k) = k  BY <1>2, <1>9, FS_Interval
  <2>4. QED  BY <2>2, <2>3 DEF Copies
<1>13. Taken(q, b) = k  BY <1>8, <1>11, <1>12
<1>14. PartedBy(p, q, b)  BY <1>8, <1>9, <1>10, <1>13 DEF PartedBy
<1>15. QED  BY Zenon, <1>1, <1>14 DEF p

\* The first n of h.q, whose walks were waiting, are finished or completed.
FinishedSoFar(h, u, n) ==
  /\ WalkTyped(u)
  /\ u.MSHR = h.s.MSHR /\ u.RQ = h.s.RQ /\ u.returned = h.s.returned /\ u.lower = h.s.lower
  /\ u.lower_returned = h.s.lower_returned /\ u.next_steps = h.s.next_steps
  /\ \A id \in RequestIds :
       Copies(u.finished, WalkOf(id)) + Copies(u.completed, WalkOf(id))
         = Copies(h.s.finished, WalkOf(id)) + Copies(h.s.completed, WalkOf(id))
           + Copies(First(h.q, n), WalkOf(id))
OfFinish(k, u, e) == FinishStep(u, e)
FinishSteps == INSTANCE StageLemmas WITH Op <- OfFinish, Inv <- FinishedSoFar

\* A walk whose step is done, with the memory: n is the memory, done the walk.
StepDone(s, e, n, done) ==
  /\ Sound(n) /\ Extends(s.vm, n)
  /\ done \in Walks /\ done.id = e.id
  /\ e.level > 0 => done \in Fetched(n)

LEMMA StepDoes ==
  ASSUME NEW s, WalkTyped(s), NEW e \in Walks
  PROVE  \E n, done :
           /\ StepDone(s, e, n, done)
           /\ FinishStep(s, e) = IF e.level > 0
                                 THEN [s EXCEPT !.vm = n, !.finished = Append(@, done)]
                                 ELSE [s EXCEPT !.vm = n, !.completed = Append(@, done)]
<1> DEFINE pte == GetPtePa(s.vm, e.v, e.level)
           last == VaToPa(s.vm, e.v)
           got == IF e.level > 0 THEN pte ELSE last
           data == [page |-> got.page, offset |-> IF e.level > 0 THEN pte.offset ELSE 0]
           wait == HIT_LATENCY + IF got.fault THEN MinorFaultPenalty ELSE 0
           done == [e EXCEPT !.data = data, !.wait = wait]
<1>1. FinishStep(s, e) = IF e.level > 0
                         THEN [s EXCEPT !.vm = got.vm, !.finished = Append(@, done)]
                         ELSE [s EXCEPT !.vm = got.vm, !.completed = Append(@, done)]
  BY DEF FinishStep
<1>2. /\ Sound(s.vm) /\ e.v \in Vpages /\ e.level \in 0 .. PsclSize /\ e.level \in Nat
      /\ PsclSize \in Nat /\ PtLevels = PsclSize + 1
  BY LevelsOfWalks, MemoryAssumption DEF WalkTyped, Walks
<1> HIDE DEF done, pte, last
<1>3. wait \in Nat  BY WalkerAssumption
<1>4. CASE e.level > 0
  <2>1. e.level \in 1 .. PtLevels  BY <1>2, <1>4
  <2>2. StepGaves(s.vm, e.v, e.level, pte)  BY <1>2, <2>1, StepGives DEF pte
  <2>3. got = pte  BY <1>4
  <2>4. data = [page |-> pte.page, offset |-> pte.offset]  BY <1>4
  <2>5. data \in WalkPlaces /\ data.page = pte.page
    <3>1. pte.offset \in {Offset(v, l) : v \in Vpages \cup {0}, l \in 0 .. PtLevels}
      BY <1>2, <2>1, <2>2 DEF StepGaves
    <3>2. QED  BY <2>2, <2>4, <3>1 DEF StepGaves, WalkPlaces
  <2> HIDE DEF got, data, wait
  <2>6. /\ done \in Walks /\ done.id = e.id /\ done.v = e.v /\ done.level = e.level
        /\ done.data = data
    <3>1. done = [e EXCEPT !.data = data, !.wait = wait]  BY DEF done
    <3> HIDE DEF done
    <3>2. QED  BY <1>3, <2>5, <3>1 DEF Walks
  <2>7. done \in Fetched(pte.vm)  BY <1>4, <2>2, <2>5, <2>6 DEF Fetched, StepGaves
  <2>8. StepDone(s, e, got.vm, done)  BY <2>2, <2>3, <2>6, <2>7 DEF StepDone, StepGaves
  <2>9. QED  BY <1>1, <2>8
<1>5. CASE ~ e.level > 0
  <2>1. TranslateGave(s.vm, last)  BY <1>2, TranslateGives DEF last
  <2>2. got = last  BY <1>5
  <2>3. data = [page |-> last.page, offset |-> 0]  BY <1>5
  <2>4. data \in WalkPlaces
    <3>1. Offset(e.v, 0) = 0  BY DEF Offset
    <3>2. 0 \in 0 .. PtLevels  BY <1>2
    <3>3. 0 \in {Offset(v, l) : v \in Vpages \cup {0}, l \in 0 .. PtLevels}  BY <1>2, <3>1, <3>2
    <3>4. QED  BY <2>1, <2>3, <3>3 DEF TranslateGave, WalkPlaces
  <2> HIDE DEF got, data, wait
  <2>5. done \in Walks /\ done.id = e.id
    <3>1. done = [e EXCEPT !.data = data, !.wait = wait]  BY DEF done
    <3> HIDE DEF done
    <3>2. QED  BY <1>3, <2>4, <3>1 DEF Walks
  <2>6. StepDone(s, e, got.vm, done)  BY <1>5, <2>1, <2>2, <2>5 DEF StepDone, TranslateGave
  <2>7. QED  BY <1>1, <2>6
<1>6. QED  BY <1>4, <1>5

\* The walker with another memory and other queues of walks.
LEMMA FinishedReplaced ==
  ASSUME NEW s, WalkShape(s), NEW n, NEW f
  PROVE  /\ [s EXCEPT !.vm = n, !.finished = f] =
              [vm |-> n, MSHR |-> s.MSHR, finished |-> f, completed |-> s.completed,
               pscl |-> s.pscl, RQ |-> s.RQ, returned |-> s.returned, lower |-> s.lower,
               lower_returned |-> s.lower_returned, next_steps |-> s.next_steps,
               taken |-> s.taken, ok |-> s.ok, CR3_addr |-> s.CR3_addr]
         /\ [s EXCEPT !.vm = n, !.completed = f] =
              [vm |-> n, MSHR |-> s.MSHR, finished |-> s.finished, completed |-> f,
               pscl |-> s.pscl, RQ |-> s.RQ, returned |-> s.returned, lower |-> s.lower,
               lower_returned |-> s.lower_returned, next_steps |-> s.next_steps,
               taken |-> s.taken, ok |-> s.ok, CR3_addr |-> s.CR3_addr]
<1> DEFINE t == [s EXCEPT !.vm = n]
<1>1. /\ [s EXCEPT !.vm = n, !.finished = f] = [t EXCEPT !.finished = f]
      /\ [s EXCEPT !.vm = n, !.completed = f] = [t EXCEPT !.completed = f]
  OBVIOUS
<1>2. t = [vm |-> n, MSHR |-> s.MSHR, finished |-> s.finished, completed |-> s.completed,
           pscl |-> s.pscl, RQ |-> s.RQ, returned |-> s.returned, lower |-> s.lower,
           lower_returned |-> s.lower_returned, next_steps |-> s.next_steps,
           taken |-> s.taken, ok |-> s.ok, CR3_addr |-> s.CR3_addr]
  BY DEF WalkShape
<1> HIDE DEF t
<1>3. [t EXCEPT !.finished = f] =
         [vm |-> n, MSHR |-> s.MSHR, finished |-> f, completed |-> s.completed,
          pscl |-> s.pscl, RQ |-> s.RQ, returned |-> s.returned, lower |-> s.lower,
          lower_returned |-> s.lower_returned, next_steps |-> s.next_steps,
          taken |-> s.taken, ok |-> s.ok, CR3_addr |-> s.CR3_addr]
  BY <1>2
<1>4. [t EXCEPT !.completed = f] =
         [vm |-> n, MSHR |-> s.MSHR, finished |-> s.finished, completed |-> f,
          pscl |-> s.pscl, RQ |-> s.RQ, returned |-> s.returned, lower |-> s.lower,
          lower_returned |-> s.lower_returned, next_steps |-> s.next_steps,
          taken |-> s.taken, ok |-> s.ok, CR3_addr |-> s.CR3_addr]
  BY <1>2
<1>5. QED  BY <1>1, <1>3, <1>4

\* The same walker with a larger memory.
LEMMA MemoryGrows ==
  ASSUME NEW s, WalkTyped(s), NEW n, Sound(n), Extends(s.vm, n)
  PROVE  /\ s.finished \in Seq(Fetched(n))
         /\ \A i \in 1 .. PsclSize : s.pscl[i] \in Seq(PsclFits(n, i))
<1>1. s.finished \in Seq(Fetched(s.vm)) /\ \A i \in 1 .. PsclSize : s.pscl[i] \in Seq(PsclFits(s.vm, i))
  BY DEF WalkTyped
<1>2. /\ \A q : q \in Seq(Fetched(s.vm)) => q \in Seq(Fetched(n))
      /\ \A i, q : q \in Seq(PsclFits(s.vm, i)) => q \in Seq(PsclFits(n, i))
  BY ExtendsKeeps
<1>3. QED  BY <1>1, <1>2

LEMMA StepFinished ==
  ASSUME NEW h, h.q \in Seq(Walks), WalkTyped(h.s), NEW n \in 1 .. Len(h.q), NEW u, FinishedSoFar(h, u, n - 1)
  PROVE  FinishedSoFar(h, FinishStep(u, h.q[n]), n)
<1> DEFINE e == h.q[n]
           t == FinishStep(u, e)
<1>1. e \in Walks  BY ElementOfSeq
<1>2. WalkTyped(u) /\ WalkShape(u)  BY DEF FinishedSoFar, WalkTyped
<1> HIDE DEF e
<1>3. PICK m, done :
        /\ StepDone(u, e, m, done)
        /\ t = IF e.level > 0
               THEN [u EXCEPT !.vm = m, !.finished = Append(@, done)]
               ELSE [u EXCEPT !.vm = m, !.completed = Append(@, done)]
  BY <1>1, <1>2, StepDoes
<1>4. Sound(m) /\ Extends(u.vm, m) /\ done \in Walks /\ done.id = e.id
  BY <1>3 DEF StepDone
<1>5. /\ u.finished \in Seq(Fetched(m))
      /\ \A i \in 1 .. PsclSize : u.pscl[i] \in Seq(PsclFits(m, i))
  BY <1>2, <1>4, MemoryGrows
<1>6. u.completed \in Seq(Walks)  BY <1>2 DEF WalkTyped
<1>7. /\ First(h.q, n - 1) \in Seq(Walks) /\ First(h.q, n) = Append(First(h.q, n - 1), e)
  BY FirstGrows DEF e
<1>8. ASSUME NEW id \in RequestIds
      PROVE  /\ Copies(First(h.q, n), WalkOf(id))
                  = Copies(First(h.q, n - 1), WalkOf(id)) + Mark(done, WalkOf(id))
             /\ Copies(First(h.q, n - 1), WalkOf(id)) \in Nat /\ Mark(done, WalkOf(id)) \in Nat
  <2>1. Copies(First(h.q, n), WalkOf(id)) = Copies(First(h.q, n - 1), WalkOf(id)) + Mark(e, WalkOf(id))
    BY <1>1, <1>7, CopiesAppend
  <2>2. Mark(e, WalkOf(id)) = Mark(done, WalkOf(id)) /\ Mark(done, WalkOf(id)) \in Nat
    BY <1>1, <1>4 DEF Mark, WalkOf
  <2>3. Copies(First(h.q, n - 1), WalkOf(id)) \in Nat  BY <1>7, CopiesNat
  <2>4. QED  BY <2>1, <2>2, <2>3
<1>9. ASSUME NEW id \in RequestIds
      PROVE  /\ Copies(u.finished, WalkOf(id)) + Copies(u.completed, WalkOf(id))
                  = Copies(h.s.finished, WalkOf(id)) + Copies(h.s.completed, WalkOf(id))
                    + Copies(First(h.q, n - 1), WalkOf(id))
             /\ Copies(u.finished, WalkOf(id)) \in Nat /\ Copies(u.completed, WalkOf(id)) \in Nat
  <2>1. Copies(u.finished, WalkOf(id)) \in Nat /\ Copies(u.completed, WalkOf(id)) \in Nat
    BY <1>2, WalkCounts
  <2>2. QED  BY <2>1 DEF FinishedSoFar
<1>10. CASE e.level > 0
  <2> DEFINE f == Append(u.finished, done)
  <2>1. t = [u EXCEPT !.vm = m, !.finished = f]  BY <1>3, <1>10
  <2>2. done \in Fetched(m)  BY <1>3, <1>10 DEF StepDone
  <2>3. f \in Seq(Fetched(m))  BY <1>5, <2>2, AppendProperties
  <2>4. \A id \in RequestIds : Copies(f, WalkOf(id)) = Copies(u.finished, WalkOf(id)) + Mark(done, WalkOf(id))
    BY <1>5, <2>2, CopiesAppend
  <2> HIDE DEF f, t
  <2>5. t = [vm |-> m, MSHR |-> u.MSHR, finished |-> f, completed |-> u.completed,
             pscl |-> u.pscl, RQ |-> u.RQ, returned |-> u.returned, lower |-> u.lower,
             lower_returned |-> u.lower_returned, next_steps |-> u.next_steps,
             taken |-> u.taken, ok |-> u.ok, CR3_addr |-> u.CR3_addr]
    BY <1>2, <2>1, FinishedReplaced
  <2>6. /\ t.vm = m /\ t.MSHR = u.MSHR /\ t.finished = f /\ t.completed = u.completed
        /\ t.pscl = u.pscl /\ t.RQ = u.RQ /\ t.returned = u.returned /\ t.lower = u.lower
        /\ t.lower_returned = u.lower_returned /\ t.next_steps = u.next_steps
        /\ t.taken = u.taken /\ t.ok = u.ok /\ t.CR3_addr = u.CR3_addr /\ WalkShape(t)
    BY <2>5 DEF WalkShape
  <2>7. WalkTyped(t)  BY <1>2, <1>4, <1>5, <2>3, <2>6 DEF WalkTyped
  <2>8. ASSUME NEW id \in RequestIds
        PROVE  Copies(f, WalkOf(id)) + Copies(u.completed, WalkOf(id))
                 = Copies(h.s.finished, WalkOf(id)) + Copies(h.s.completed, WalkOf(id))
                   + Copies(First(h.q, n), WalkOf(id))
    <3>1. Copies(h.s.finished, WalkOf(id)) \in Nat /\ Copies(h.s.completed, WalkOf(id)) \in Nat
      BY WalkCounts
    <3> DEFINE x == Copies(f, WalkOf(id))
               a == Copies(u.finished, WalkOf(id))
               b == Copies(u.completed, WalkOf(id))
               c == Copies(h.s.finished, WalkOf(id))
               d == Copies(h.s.completed, WalkOf(id))
               before == Copies(First(h.q, n - 1), WalkOf(id))
               after == Copies(First(h.q, n), WalkOf(id))
               one == Mark(done, WalkOf(id))
    <3>2. x = a + one  BY <2>4
    <3>3. after = before + one /\ before \in Nat /\ one \in Nat  BY <1>8
    <3>4. a + b = c + d + before /\ a \in Nat /\ b \in Nat  BY <1>9
    <3>5. c \in Nat /\ d \in Nat  BY <3>1
    <3> HIDE DEF x, a, b, c, d, before, after, one
    <3>6. x + b = c + d + after  BY <3>2, <3>3, <3>4, <3>5
    <3>7. QED  BY <3>6 DEF x, b, c, d, after
  <2>9. FinishedSoFar(h, t, n)  BY <2>6, <2>7, <2>8 DEF FinishedSoFar
  <2>10. QED  BY <2>9 DEF t, e
<1>11. CASE ~ e.level > 0
  <2> DEFINE f == Append(u.completed, done)
  <2>1. t = [u EXCEPT !.vm = m, !.completed = f]  BY <1>3, <1>11
  <2>3. f \in Seq(Walks)  BY <1>4, <1>6, AppendProperties
  <2>4. \A id \in RequestIds : Copies(f, WalkOf(id)) = Copies(u.completed, WalkOf(id)) + Mark(done, WalkOf(id))
    BY <1>4, <1>6, CopiesAppend
  <2> HIDE DEF f, t
  <2>5. t = [vm |-> m, MSHR |-> u.MSHR, finished |-> u.finished, completed |-> f,
             pscl |-> u.pscl, RQ |-> u.RQ, returned |-> u.returned, lower |-> u.lower,
             lower_returned |-> u.lower_returned, next_steps |-> u.next_steps,
             taken |-> u.taken, ok |-> u.ok, CR3_addr |-> u.CR3_addr]
    BY <1>2, <2>1, FinishedReplaced
  <2>6. /\ t.vm = m /\ t.MSHR = u.MSHR /\ t.finished = u.finished /\ t.completed = f
        /\ t.pscl = u.pscl /\ t.RQ = u.RQ /\ t.returned = u.returned /\ t.lower = u.lower
        /\ t.lower_returned = u.lower_returned /\ t.next_steps = u.next_steps
        /\ t.taken = u.taken /\ t.ok = u.ok /\ t.CR3_addr = u.CR3_addr /\ WalkShape(t)
    BY <2>5 DEF WalkShape
  <2>7. WalkTyped(t)  BY <1>2, <1>4, <1>5, <2>3, <2>6 DEF WalkTyped
  <2>8. ASSUME NEW id \in RequestIds
        PROVE  Copies(u.finished, WalkOf(id)) + Copies(f, WalkOf(id))
                 = Copies(h.s.finished, WalkOf(id)) + Copies(h.s.completed, WalkOf(id))
                   + Copies(First(h.q, n), WalkOf(id))
    <3>1. Copies(h.s.finished, WalkOf(id)) \in Nat /\ Copies(h.s.completed, WalkOf(id)) \in Nat
      BY WalkCounts
    <3>2. Copies(f, WalkOf(id)) = Copies(u.completed, WalkOf(id)) + Mark(done, WalkOf(id))
      BY <2>4
    <3>3. /\ Copies(First(h.q, n), WalkOf(id))
               = Copies(First(h.q, n - 1), WalkOf(id)) + Mark(done, WalkOf(id))
          /\ Copies(First(h.q, n - 1), WalkOf(id)) \in Nat /\ Mark(done, WalkOf(id)) \in Nat
      BY <1>8
    <3>4. /\ Copies(u.finished, WalkOf(id)) + Copies(u.completed, WalkOf(id))
               = Copies(h.s.finished, WalkOf(id)) + Copies(h.s.completed, WalkOf(id))
                 + Copies(First(h.q, n - 1), WalkOf(id))
          /\ Copies(u.finished, WalkOf(id)) \in Nat /\ Copies(u.completed, WalkOf(id)) \in Nat
      BY <1>9
    <3>5. Copies(u.finished, WalkOf(id)) + (Copies(u.completed, WalkOf(id)) + Mark(done, WalkOf(id)))
            = Copies(h.s.finished, WalkOf(id)) + Copies(h.s.completed, WalkOf(id))
              + (Copies(First(h.q, n - 1), WalkOf(id)) + Mark(done, WalkOf(id)))
      BY SMTT(60), <3>1, <3>3, <3>4
    <3>6. QED  BY Zenon, <3>2, <3>3, <3>5
  <2>9. FinishedSoFar(h, t, n)  BY <2>6, <2>7, <2>8 DEF FinishedSoFar
  <2>10. QED  BY <2>9 DEF t, e
<1>12. QED  BY <1>10, <1>11

LEMMA WalksFinished ==
  ASSUME NEW s, WalkTyped(s), NEW q \in Seq(Walks)
  PROVE  FinishedSoFar([s |-> s, q |-> q], Through(FinishStep, s, q), Len(q))
<1> DEFINE h == [s |-> s, q |-> q]
<1>1. Through(FinishStep, s, q) = FinishSteps!Carried(h, s, q)
  BY Zenon DEF FinishSteps!Carried, FinishSteps!Steps, Through, OfFinish
<1>2. Len(q) \in Nat  BY LenProperties
<1>3. h.s = s /\ h.q = q  OBVIOUS
<1> HIDE DEF h
<1>4. FinishedSoFar(h, s, 0)
  <2>1. First(q, 0) = << >>  BY PartEnds
  <2>2. \A id \in RequestIds : Copies(First(q, 0), WalkOf(id)) = 0  BY <2>1, CopiesEmpty
  <2>3. \A id \in RequestIds : Copies(s.finished, WalkOf(id)) \in Nat /\ Copies(s.completed, WalkOf(id)) \in Nat
    BY WalkCounts
  <2>4. \A id \in RequestIds :
          Copies(s.finished, WalkOf(id)) + Copies(s.completed, WalkOf(id))
            = Copies(s.finished, WalkOf(id)) + Copies(s.completed, WalkOf(id))
              + Copies(First(q, 0), WalkOf(id))
    BY <2>2, <2>3
  <2>5. QED  BY <1>3, <2>4 DEF FinishedSoFar
<1>5. \A n \in 1 .. Len(q) : \A u : FinishedSoFar(h, u, n - 1) => FinishedSoFar(h, OfFinish(h, u, q[n]), n)
  BY <1>3, StepFinished DEF OfFinish
<1>6. FinishedSoFar(h, FinishSteps!Carried(h, s, q), Len(q))
  BY <1>2, <1>4, <1>5, FinishSteps!Kept
<1>7. QED  BY <1>1, <1>6 DEF h

\* After n of the blocks that came, the walks that still wait have their blocks elsewhere.
PacketsSoFar(h, u, n) ==
  /\ WalkTyped(u)
  /\ u.lower = h.s.lower /\ u.lower_returned = h.s.lower_returned
  /\ u.next_steps = h.s.next_steps
  /\ AllRead(u.MSHR, Elements(h.s.lower) \cup h.R \cup Elements(Rest(h.q, n)))
  /\ \A id \in RequestIds : InWalker(u, id) = h.c[id]
OfPacket(k, u, b) == FinishPacket(u, b)
PacketSteps == INSTANCE StageLemmas WITH Op <- OfPacket, Inv <- PacketsSoFar

LEMMA MshrReplaced ==
  ASSUME NEW s, WalkShape(s), NEW q
  PROVE  [s EXCEPT !.MSHR = q] =
           [vm |-> s.vm, MSHR |-> q, finished |-> s.finished, completed |-> s.completed,
            pscl |-> s.pscl, RQ |-> s.RQ, returned |-> s.returned, lower |-> s.lower,
            lower_returned |-> s.lower_returned, next_steps |-> s.next_steps,
            taken |-> s.taken, ok |-> s.ok, CR3_addr |-> s.CR3_addr]
BY DEF WalkShape

LEMMA PacketFinished ==
  ASSUME NEW h, NEW U, h.q \in Seq(U), NEW n \in 1 .. Len(h.q), NEW u, PacketsSoFar(h, u, n - 1)
  PROVE  PacketsSoFar(h, FinishPacket(u, h.q[n]), n)
<1> DEFINE b == h.q[n]
           p == Partitioned(u.MSHR, LAMBDA e : BlockOf(e.address) = b)
           m == Taken(u.MSHR, b)
           left == Rest(p, m)
           came == First(p, m)
           s == [u EXCEPT !.MSHR = left]
           t == FinishPacket(u, b)
<1>1. WalkTyped(u) /\ WalkShape(u) /\ u.MSHR \in Seq(Walks)
  BY DEF PacketsSoFar, WalkTyped
<1>2. PartedBy(p, u.MSHR, b)  BY <1>1, Parted
<1>3. t = Through(FinishStep, s, came)  BY Zenon DEF FinishPacket
<1> HIDE DEF p, m
<1>4. /\ p \in Seq(Walks) /\ m \in 0 .. Len(p) /\ \A S : Copies(p, S) = Copies(u.MSHR, S)
      /\ \A i \in 1 .. Len(p) : BlockOf(p[i].address) = b <=> i <= m
  BY <1>2 DEF PartedBy, m
<1>5. /\ left \in Seq(Walks) /\ came \in Seq(Walks)
      /\ \A S : Copies(p, S) = Copies(came, S) + Copies(left, S)
  BY <1>4, CopiesSplit
<1>6. s = [vm |-> u.vm, MSHR |-> left, finished |-> u.finished, completed |-> u.completed,
           pscl |-> u.pscl, RQ |-> u.RQ, returned |-> u.returned, lower |-> u.lower,
           lower_returned |-> u.lower_returned, next_steps |-> u.next_steps,
           taken |-> u.taken, ok |-> u.ok, CR3_addr |-> u.CR3_addr]
  BY <1>1, MshrReplaced
<1> HIDE DEF left, came, s, t
<1>7. /\ s.vm = u.vm /\ s.MSHR = left /\ s.finished = u.finished /\ s.completed = u.completed
      /\ s.pscl = u.pscl /\ s.RQ = u.RQ /\ s.returned = u.returned /\ s.lower = u.lower
      /\ s.lower_returned = u.lower_returned /\ s.next_steps = u.next_steps
      /\ s.taken = u.taken /\ s.ok = u.ok /\ s.CR3_addr = u.CR3_addr /\ WalkShape(s)
  BY <1>6 DEF WalkShape
<1>8. WalkTyped(s)  BY <1>1, <1>5, <1>7 DEF WalkTyped
<1> DEFINE g == [s |-> s, q |-> came]
<1>9. FinishedSoFar(g, t, Len(came))  BY <1>3, <1>5, <1>8, WalksFinished
<1>10. g.s = s /\ g.q = came /\ First(came, Len(came)) = came  BY <1>5, PartEnds
<1> HIDE DEF g
<1>11. /\ WalkTyped(t)
       /\ t.MSHR = left /\ t.RQ = u.RQ /\ t.returned = u.returned /\ t.lower = u.lower
       /\ t.lower_returned = u.lower_returned /\ t.next_steps = u.next_steps
       /\ \A id \in RequestIds :
            Copies(t.finished, WalkOf(id)) + Copies(t.completed, WalkOf(id))
              = Copies(u.finished, WalkOf(id)) + Copies(u.completed, WalkOf(id))
                + Copies(came, WalkOf(id))
  BY <1>7, <1>9, <1>10 DEF FinishedSoFar
<1>12. ASSUME NEW id \in RequestIds PROVE InWalker(t, id) = h.c[id]
  <2>1. /\ Copies(u.RQ, RequestOf(id)) \in Nat /\ Copies(u.MSHR, WalkOf(id)) \in Nat
        /\ Copies(u.finished, WalkOf(id)) \in Nat /\ Copies(u.completed, WalkOf(id)) \in Nat
        /\ Copies(u.next_steps, WalkOf(id)) \in Nat /\ Copies(u.returned, AnswerOf(id)) \in Nat
    BY <1>1, WalkCounts
  <2>2. Copies(t.finished, WalkOf(id)) \in Nat /\ Copies(t.completed, WalkOf(id)) \in Nat
    BY <1>11, WalkCounts
  <2>3. Copies(left, WalkOf(id)) \in Nat /\ Copies(came, WalkOf(id)) \in Nat
    BY <1>5, CopiesNat
  <2>4. Copies(u.MSHR, WalkOf(id)) = Copies(came, WalkOf(id)) + Copies(left, WalkOf(id))
    <3>1. Copies(p, WalkOf(id)) = Copies(u.MSHR, WalkOf(id))  BY <1>4
    <3>2. Copies(p, WalkOf(id)) = Copies(came, WalkOf(id)) + Copies(left, WalkOf(id))  BY <1>5
    <3>3. QED  BY <3>1, <3>2
  <2>5. h.c[id] = Copies(u.RQ, RequestOf(id)) + Copies(u.MSHR, WalkOf(id))
                    + Copies(u.finished, WalkOf(id)) + Copies(u.completed, WalkOf(id))
                    + Copies(u.next_steps, WalkOf(id)) + Copies(u.returned, AnswerOf(id))
    BY DEF PacketsSoFar, InWalker
  <2>6. InWalker(t, id) = Copies(u.RQ, RequestOf(id)) + Copies(left, WalkOf(id))
                            + Copies(t.finished, WalkOf(id)) + Copies(t.completed, WalkOf(id))
                            + Copies(u.next_steps, WalkOf(id)) + Copies(u.returned, AnswerOf(id))
    BY <1>11 DEF InWalker
  <2>7. Copies(t.finished, WalkOf(id)) + Copies(t.completed, WalkOf(id))
          = Copies(u.finished, WalkOf(id)) + Copies(u.completed, WalkOf(id))
            + Copies(came, WalkOf(id))
    BY <1>11
  <2>8. Copies(u.RQ, RequestOf(id)) + Copies(left, WalkOf(id))
          + Copies(t.finished, WalkOf(id)) + Copies(t.completed, WalkOf(id))
          + Copies(u.next_steps, WalkOf(id)) + Copies(u.returned, AnswerOf(id))
        = Copies(u.RQ, RequestOf(id)) + Copies(u.MSHR, WalkOf(id))
          + Copies(u.finished, WalkOf(id)) + Copies(u.completed, WalkOf(id))
          + Copies(u.next_steps, WalkOf(id)) + Copies(u.returned, AnswerOf(id))
    BY SMTT(60), <2>1, <2>2, <2>3, <2>4, <2>7
  <2>9. QED  BY Zenon, <2>5, <2>6, <2>8
<1>13. AllRead(left, Elements(h.s.lower) \cup h.R \cup Elements(Rest(h.q, n)))
  <2> DEFINE A == Elements(h.s.lower) \cup h.R
  <2>1. SUFFICES ASSUME NEW j \in 1 .. Len(left)
        PROVE  BlockOf(left[j].address) \in A \cup Elements(Rest(h.q, n))
    BY DEF AllRead
  <2> DEFINE e == left[j]
  <2>2. BlockOf(e.address) # b
    <3>1. Len(p) \in Nat /\ m \in Nat  BY <1>4, LenProperties
    <3>2. left = SubSeq(p, m + 1, Len(p))  BY DEF left, Rest
    <3>3. Len(left) = Len(p) - m
      <4>1. m + 1 \in Int /\ Len(p) \in Int  BY <3>1
      <4>2. Len(came) = m  BY <1>4, CopiesSplit DEF came
      <4>3. came \o left = p  BY <1>4, CopiesSplit DEF came, left
      <4>4. Len(came \o left) = Len(came) + Len(left)  BY <1>5, ConcatProperties
      <4>5. Len(left) \in Nat  BY <1>5, LenProperties
      <4>6. QED  BY <3>1, <4>2, <4>3, <4>4, <4>5
    <3>4. p[m + j] = left[j] /\ m + j \in 1 .. Len(p) /\ ~ m + j <= m
      <4>1. j \in Nat /\ m + j \in 1 .. Len(p) /\ ~ m + j <= m  BY <1>4, <3>1, <3>3
      <4>2. Len(came) = m /\ came \o left = p  BY <1>4, CopiesSplit DEF came, left
      <4>3. (came \o left)[m + j] = left[j]
        <5>1. Len(left) \in Nat  BY <1>5, LenProperties
        <5>2. m + j > Len(came) /\ m + j \in 1 .. Len(came) + Len(left) /\ (m + j) - Len(came) = j
          BY <3>1, <3>3, <4>1, <4>2, <5>1
        <5>3. QED  BY <1>5, <5>2, ConcatProperties
      <4>4. QED  BY <4>1, <4>2, <4>3
    <3>5. QED  BY <1>4, <3>4
  <2>3. e \in Elements(u.MSHR)
    <3>1. e \in Elements(left)  BY DEF Elements
    <3>2. Elements(left) \subseteq Elements(p)  BY <1>4, RestElements DEF left
    <3>3. \A S : Copies(p, S) \in Nat /\ Copies(u.MSHR, S) \in Nat  BY <1>1, <1>4, CopiesNat
    <3>4. \A S : Copies(p, S) <= Copies(u.MSHR, S)
      <4>1. SUFFICES ASSUME NEW S PROVE Copies(p, S) <= Copies(u.MSHR, S)  OBVIOUS
      <4>2. Copies(p, S) = Copies(u.MSHR, S) /\ Copies(p, S) \in Nat  BY <1>4, <3>3
      <4>3. QED  BY <4>2
    <3>5. Elements(p) \subseteq Elements(u.MSHR)  BY <1>1, <1>4, <3>4, FromAgreeing
    <3>6. QED  BY <3>1, <3>2, <3>5
  <2>4. BlockOf(e.address) \in A \cup Elements(Rest(h.q, n - 1))
    <3>1. PICK i \in 1 .. Len(u.MSHR) : e = u.MSHR[i]  BY <2>3 DEF Elements
    <3> HIDE DEF e
    <3>2. QED  BY <3>1 DEF PacketsSoFar, AllRead
  <2>5. Elements(Rest(h.q, n - 1)) \subseteq {b} \cup Elements(Rest(h.q, n))
    <3>1. SUFFICES ASSUME NEW x \in Elements(Rest(h.q, n - 1)), x # b
          PROVE  x \in Elements(Rest(h.q, n))
      OBVIOUS
    <3> DEFINE S == {x}
    <3>2. /\ Rest(h.q, n - 1) \in Seq(U) /\ Rest(h.q, n) \in Seq(U)
          /\ Copies(Rest(h.q, n - 1), S) = Mark(b, S) + Copies(Rest(h.q, n), S)
      BY RestShrinks DEF b
    <3>3. Mark(b, S) = 0  BY <3>1 DEF Mark
    <3>4. Copies(Rest(h.q, n - 1), S) \in Nat /\ Copies(Rest(h.q, n - 1), S) >= 1
      BY <3>2, CopiesPositive
    <3>5. Copies(Rest(h.q, n), S) \in Nat  BY <3>2, CopiesNat
    <3>6. Copies(Rest(h.q, n), S) # 0  BY <3>2, <3>3, <3>4, <3>5
    <3>7. \E i \in 1 .. Len(Rest(h.q, n)) : Rest(h.q, n)[i] \in S  BY <3>2, <3>6, CopiesNone
    <3>8. QED  BY <3>7 DEF Elements
  <2> HIDE DEF A, e, b
  <2>6. BlockOf(e.address) \in A \cup Elements(Rest(h.q, n))  BY <2>2, <2>4, <2>5
  <2>7. QED  BY <2>6 DEF A, e
<1>14. PacketsSoFar(h, t, n)  BY <1>11, <1>12, <1>13 DEF PacketsSoFar
<1>15. QED  BY <1>14 DEF t, b

\* The walker with other blocks that came.
LEMMA ReturnedReplaced ==
  ASSUME NEW s, WalkShape(s), NEW q
  PROVE  [s EXCEPT !.lower_returned = q] =
           [vm |-> s.vm, MSHR |-> s.MSHR, finished |-> s.finished, completed |-> s.completed,
            pscl |-> s.pscl, RQ |-> s.RQ, returned |-> s.returned, lower |-> s.lower,
            lower_returned |-> q, next_steps |-> s.next_steps,
            taken |-> s.taken, ok |-> s.ok, CR3_addr |-> s.CR3_addr]
BY DEF WalkShape

\* The walker with other queues of walks.
LEMMA ElapsedReplaced ==
  ASSUME NEW s, WalkShape(s), NEW f, NEW g
  PROVE  [s EXCEPT !.finished = f, !.completed = g] =
           [vm |-> s.vm, MSHR |-> s.MSHR, finished |-> f, completed |-> g,
            pscl |-> s.pscl, RQ |-> s.RQ, returned |-> s.returned, lower |-> s.lower,
            lower_returned |-> s.lower_returned, next_steps |-> s.next_steps,
            taken |-> s.taken, ok |-> s.ok, CR3_addr |-> s.CR3_addr]
<1> DEFINE t == [s EXCEPT !.finished = f]
<1>1. [s EXCEPT !.finished = f, !.completed = g] = [t EXCEPT !.completed = g]  OBVIOUS
<1>2. t = [vm |-> s.vm, MSHR |-> s.MSHR, finished |-> f, completed |-> s.completed,
           pscl |-> s.pscl, RQ |-> s.RQ, returned |-> s.returned, lower |-> s.lower,
           lower_returned |-> s.lower_returned, next_steps |-> s.next_steps,
           taken |-> s.taken, ok |-> s.ok, CR3_addr |-> s.CR3_addr]
  BY DEF WalkShape
<1> HIDE DEF t
<1>3. [t EXCEPT !.completed = g] =
        [vm |-> s.vm, MSHR |-> s.MSHR, finished |-> f, completed |-> g,
         pscl |-> s.pscl, RQ |-> s.RQ, returned |-> s.returned, lower |-> s.lower,
         lower_returned |-> s.lower_returned, next_steps |-> s.next_steps,
         taken |-> s.taken, ok |-> s.ok, CR3_addr |-> s.CR3_addr]
  BY <1>2
<1>4. QED  BY <1>1, <1>3

LEMMA PacketsKeep ==
  ASSUME NEW s, NEW R, NEW c, Balanced(s, R, c)
  PROVE  Balanced(FinishPackets(s), R, c)
<1> DEFINE f == Elapse(s.finished)
           g == Elapse(s.completed)
           e == [s EXCEPT !.finished = f, !.completed = g]
           q == s.lower_returned
           u == Through(FinishPacket, e, q)
           none == << >>
           t == FinishPackets(s)
           h == [s |-> e, q |-> q, R |-> R, c |-> c]
<1>1. /\ WalkTyped(s) /\ WalkShape(s) /\ s.finished \in Seq(Fetched(s.vm))
      /\ s.completed \in Seq(Walks) /\ q \in Seq(WalkBlocks)
  BY DEF Balanced, WalkTyped
<1>2. f \in Seq(Fetched(s.vm)) /\ \A id \in RequestIds : Copies(f, WalkOf(id)) = Copies(s.finished, WalkOf(id))
  BY <1>1, ElapseKeeps
<1>3. g \in Seq(Walks) /\ \A id \in RequestIds : Copies(g, WalkOf(id)) = Copies(s.completed, WalkOf(id))
  BY <1>1, ElapseKeeps
<1>4. t = [u EXCEPT !.lower_returned = none]  BY DEF FinishPackets
<1>5. u = PacketSteps!Carried(h, e, q)
  BY Zenon DEF PacketSteps!Carried, PacketSteps!Steps, Through, OfPacket
<1>6. h.s = e /\ h.q = q /\ h.R = R /\ h.c = c  OBVIOUS
<1> HIDE DEF f, g, u, h
<1>7. e = [vm |-> s.vm, MSHR |-> s.MSHR, finished |-> f, completed |-> g,
           pscl |-> s.pscl, RQ |-> s.RQ, returned |-> s.returned, lower |-> s.lower,
           lower_returned |-> s.lower_returned, next_steps |-> s.next_steps,
           taken |-> s.taken, ok |-> s.ok, CR3_addr |-> s.CR3_addr]
  BY <1>1, ElapsedReplaced
<1> HIDE DEF e
<1>8. /\ e.vm = s.vm /\ e.MSHR = s.MSHR /\ e.finished = f /\ e.completed = g
      /\ e.pscl = s.pscl /\ e.RQ = s.RQ /\ e.returned = s.returned /\ e.lower = s.lower
      /\ e.lower_returned = s.lower_returned /\ e.next_steps = s.next_steps
      /\ e.taken = s.taken /\ e.ok = s.ok /\ e.CR3_addr = s.CR3_addr /\ WalkShape(e)
  BY <1>7 DEF WalkShape
<1>9. WalkTyped(e)  BY <1>1, <1>2, <1>3, <1>8 DEF WalkTyped
<1>10. \A id \in RequestIds : InWalker(e, id) = c[id]
  BY <1>2, <1>3, <1>8 DEF Balanced, InWalker
<1>11. PacketsSoFar(h, e, 0)
  <2>1. Rest(q, 0) = q  BY <1>1, PartEnds
  <2>2. AllRead(e.MSHR, Elements(e.lower) \cup R \cup Elements(Rest(q, 0)))
    BY <1>8, <2>1 DEF Balanced
  <2>3. QED  BY <1>6, <1>8, <1>9, <1>10, <2>2 DEF PacketsSoFar
<1>12. Len(q) \in Nat  BY <1>1, LenProperties
<1>13. \A n \in 1 .. Len(q) : \A v : PacketsSoFar(h, v, n - 1) => PacketsSoFar(h, OfPacket(h, v, q[n]), n)
  <2>1. h.q \in Seq(WalkBlocks)  BY <1>1, <1>6
  <2>2. SUFFICES ASSUME NEW n \in 1 .. Len(q), NEW v, PacketsSoFar(h, v, n - 1)
        PROVE  PacketsSoFar(h, FinishPacket(v, q[n]), n)
    BY DEF OfPacket
  <2>3. n \in 1 .. Len(h.q) /\ q[n] = h.q[n]  BY <1>6
  <2>4. PacketsSoFar(h, FinishPacket(v, h.q[n]), n)  BY <2>1, <2>2, <2>3, PacketFinished
  <2>5. QED  BY <2>3, <2>4
<1>14. PacketsSoFar(h, u, Len(q))  BY <1>5, <1>11, <1>12, <1>13, PacketSteps!Kept
<1>15. /\ WalkTyped(u) /\ WalkShape(u) /\ u.lower = s.lower /\ u.next_steps = s.next_steps
       /\ AllRead(u.MSHR, Elements(s.lower) \cup R \cup Elements(Rest(q, Len(q))))
       /\ \A id \in RequestIds : InWalker(u, id) = c[id]
  BY <1>6, <1>8, <1>14 DEF PacketsSoFar, WalkTyped
<1>16. none \in Seq(WalkBlocks) /\ Elements(none) = {} /\ Rest(q, Len(q)) = none
  BY <1>1, EmptySeq, ElementsEmpty, PartEnds
<1> HIDE DEF t, none, q
<1>17. t = [vm |-> u.vm, MSHR |-> u.MSHR, finished |-> u.finished, completed |-> u.completed,
            pscl |-> u.pscl, RQ |-> u.RQ, returned |-> u.returned, lower |-> u.lower,
            lower_returned |-> none, next_steps |-> u.next_steps,
            taken |-> u.taken, ok |-> u.ok, CR3_addr |-> u.CR3_addr]
  BY <1>4, <1>15, ReturnedReplaced
<1>18. /\ t.vm = u.vm /\ t.MSHR = u.MSHR /\ t.finished = u.finished /\ t.completed = u.completed
       /\ t.pscl = u.pscl /\ t.RQ = u.RQ /\ t.returned = u.returned /\ t.lower = u.lower
       /\ t.lower_returned = none /\ t.next_steps = u.next_steps
       /\ t.taken = u.taken /\ t.ok = u.ok /\ t.CR3_addr = u.CR3_addr /\ WalkShape(t)
  BY <1>17 DEF WalkShape
<1>19. WalkTyped(t)  BY <1>15, <1>16, <1>18 DEF WalkTyped
<1>20. \A id \in RequestIds : InWalker(t, id) = c[id]
  <2>1. \A id : InWalker(t, id) = InWalker(u, id)  BY <1>18 DEF InWalker
  <2>2. QED  BY <1>15, <2>1
<1>21. AllRead(t.MSHR, Elements(t.lower) \cup R \cup Elements(t.lower_returned))
  BY <1>15, <1>16, <1>18
<1>22. AllRead(t.next_steps, Elements(t.lower))  BY <1>15, <1>18 DEF Balanced
<1>23. Balanced(t, R, c)  BY <1>19, <1>20, <1>21, <1>22 DEF Balanced
<1>24. QED  BY <1>23 DEF t

-----------------------------------------------------------------------------
(* The walker: its invariant *)

PtwShape(p) ==
  p = [MSHR |-> p.MSHR, finished |-> p.finished, completed |-> p.completed,
       pscl |-> p.pscl, RQ |-> p.RQ, returned |-> p.returned, lower |-> p.lower,
       lower_returned |-> p.lower_returned, next_steps |-> p.next_steps,
       taken |-> p.taken, ok |-> p.ok, CR3_addr |-> p.CR3_addr]

\* Whatever is asked and not answered is in the walker once.
WalkerInv ==
  /\ PtwShape(ptw)
  /\ WalkTyped(Now)
  /\ ptw.next_steps = << >>
  /\ reading \in Seq(WalkBlocks)
  /\ asked \subseteq RequestIds /\ answered \subseteq RequestIds
  /\ AllRead(ptw.MSHR, Elements(ptw.lower) \cup Elements(reading) \cup Elements(ptw.lower_returned))
  /\ \A id \in RequestIds : InWalker(Now, id) + Mark(id, answered) = Mark(id, asked)

\* Now, by its parts, and the one after a step.
LEMMA NowIs ==
  /\ Now.vm = vm /\ Now.MSHR = ptw.MSHR /\ Now.finished = ptw.finished
  /\ Now.completed = ptw.completed /\ Now.pscl = ptw.pscl /\ Now.RQ = ptw.RQ
  /\ Now.returned = ptw.returned /\ Now.lower = ptw.lower
  /\ Now.lower_returned = ptw.lower_returned /\ Now.next_steps = ptw.next_steps
  /\ Now.taken = ptw.taken /\ Now.ok = ptw.ok /\ Now.CR3_addr = ptw.CR3_addr
  /\ WalkShape(Now)
BY DEF Now, WalkShape

LEMMA NextIs ==
  /\ Now'.vm = vm' /\ Now'.MSHR = ptw'.MSHR /\ Now'.finished = ptw'.finished
  /\ Now'.completed = ptw'.completed /\ Now'.pscl = ptw'.pscl /\ Now'.RQ = ptw'.RQ
  /\ Now'.returned = ptw'.returned /\ Now'.lower = ptw'.lower
  /\ Now'.lower_returned = ptw'.lower_returned /\ Now'.next_steps = ptw'.next_steps
  /\ Now'.taken = ptw'.taken /\ Now'.ok = ptw'.ok /\ Now'.CR3_addr = ptw'.CR3_addr
  /\ WalkShape(Now')
BY DEF Now, WalkShape

LEMMA OperateKeeps ==
  ASSUME WalkerInv, Operate
  PROVE  WalkerInv'
<1> DEFINE R == Elements(reading)
           c == [id \in RequestIds |-> InWalker(Now, id)]
           s == Insert(Read(Fill(CompleteWalks(FinishPackets(Now)))))
<1>1. Balanced(Now, R, c)
  <2>1. AllRead(Now.MSHR, Elements(Now.lower) \cup R \cup Elements(Now.lower_returned))
    BY NowIs DEF WalkerInv
  <2>2. AllRead(Now.next_steps, Elements(Now.lower))
    <3>1. Now.next_steps = << >>  BY NowIs DEF WalkerInv
    <3>2. \A A : AllRead(<< >>, A)  BY DEF AllRead
    <3>3. QED  BY <3>1, <3>2
  <2>3. QED  BY <2>1, <2>2 DEF Balanced, WalkerInv
<1> HIDE DEF R, c
<1>2. Balanced(s, R, c) /\ s.next_steps = << >>
  BY <1>1, PacketsKeep, CompleteKeeps, FillKeeps, ReadKeeps, InsertKeeps
<1>3. vm' = s.vm /\ ptw' = [k \in DOMAIN ptw |-> s[k]]
      /\ reading' = reading /\ asked' = asked /\ answered' = answered
  BY DEF Operate
<1> HIDE DEF s
<1>4. /\ ptw' = [MSHR |-> s.MSHR, finished |-> s.finished, completed |-> s.completed,
                 pscl |-> s.pscl, RQ |-> s.RQ, returned |-> s.returned, lower |-> s.lower,
                 lower_returned |-> s.lower_returned, next_steps |-> s.next_steps,
                 taken |-> s.taken, ok |-> s.ok, CR3_addr |-> s.CR3_addr]
  <2>1. DOMAIN ptw = {"MSHR", "finished", "completed", "pscl", "RQ", "returned", "lower",
                      "lower_returned", "next_steps", "taken", "ok", "CR3_addr"}
    BY DEF WalkerInv, PtwShape
  <2>2. QED  BY <1>3, <2>1
<1>5. PtwShape(ptw')  BY <1>4 DEF PtwShape
<1>6. Now' = s
  <2>1. WalkShape(s)  BY <1>2 DEF Balanced, WalkTyped
  <2>2. Now' = [vm |-> s.vm, MSHR |-> s.MSHR, finished |-> s.finished, completed |-> s.completed,
                pscl |-> s.pscl, RQ |-> s.RQ, returned |-> s.returned, lower |-> s.lower,
                lower_returned |-> s.lower_returned, next_steps |-> s.next_steps,
                taken |-> s.taken, ok |-> s.ok, CR3_addr |-> s.CR3_addr]
    BY <1>3, <1>4 DEF Now
  <2>3. QED  BY <2>1, <2>2 DEF WalkShape
<1>7. WalkTyped(Now') /\ ptw'.next_steps = << >>  BY <1>2, <1>4, <1>6 DEF Balanced
<1>8. AllRead(ptw'.MSHR, Elements(ptw'.lower) \cup Elements(reading') \cup Elements(ptw'.lower_returned))
  BY <1>2, <1>3, <1>4 DEF Balanced, R
<1>9. ASSUME NEW id \in RequestIds
      PROVE  InWalker(Now', id) + Mark(id, answered') = Mark(id, asked')
  <2>1. InWalker(Now', id) = c[id]  BY <1>2, <1>6 DEF Balanced
  <2>2. c[id] = InWalker(Now, id)  BY DEF c
  <2>3. QED  BY <1>3, <2>1, <2>2 DEF WalkerInv
<1>10. QED  BY <1>3, <1>5, <1>7, <1>8, <1>9 DEF WalkerInv

\* The walker after a step of the TLB or the L1D: the queues of walks are as before.
LEMMA OutsideTyped ==
  ASSUME WalkerInv, vm' = vm,
         NEW rq \in Seq(Requests), NEW got \in Seq(WalkAnswers), NEW low \in Seq(WalkBlocks),
         NEW back \in Seq(WalkBlocks),
         ptw' = [MSHR |-> ptw.MSHR, finished |-> ptw.finished, completed |-> ptw.completed,
                 pscl |-> ptw.pscl, RQ |-> rq, returned |-> got, lower |-> low,
                 lower_returned |-> back, next_steps |-> ptw.next_steps,
                 taken |-> ptw.taken, ok |-> ptw.ok, CR3_addr |-> ptw.CR3_addr]
  PROVE  /\ PtwShape(ptw') /\ WalkTyped(Now') /\ ptw'.next_steps = << >>
         /\ ptw'.MSHR = ptw.MSHR /\ ptw'.RQ = rq /\ ptw'.returned = got /\ ptw'.lower = low
         /\ ptw'.lower_returned = back
<1>1. /\ ptw'.MSHR = ptw.MSHR /\ ptw'.finished = ptw.finished /\ ptw'.completed = ptw.completed
      /\ ptw'.pscl = ptw.pscl /\ ptw'.RQ = rq /\ ptw'.returned = got /\ ptw'.lower = low
      /\ ptw'.lower_returned = back /\ ptw'.next_steps = ptw.next_steps
      /\ ptw'.taken = ptw.taken /\ ptw'.ok = ptw.ok /\ ptw'.CR3_addr = ptw.CR3_addr
      /\ PtwShape(ptw')
  BY DEF PtwShape
<1>2. WalkTyped(Now)  BY DEF WalkerInv
<1>3. /\ Now'.vm = Now.vm /\ Now'.MSHR = Now.MSHR /\ Now'.finished = Now.finished
      /\ Now'.completed = Now.completed /\ Now'.pscl = Now.pscl /\ Now'.RQ = rq
      /\ Now'.returned = got /\ Now'.lower = low
      /\ Now'.lower_returned = back /\ Now'.next_steps = Now.next_steps
      /\ Now'.taken = Now.taken /\ Now'.ok = Now.ok /\ Now'.CR3_addr = Now.CR3_addr
      /\ WalkShape(Now')
  BY <1>1, NowIs, NextIs
<1>4. WalkTyped(Now')  BY <1>2, <1>3 DEF WalkTyped
<1>5. QED  BY <1>1, <1>4 DEF WalkerInv

\* The queues, from the invariant.
LEMMA WalkerQueues ==
  ASSUME WalkerInv
  PROVE  /\ ptw.RQ \in Seq(Requests) /\ ptw.MSHR \in Seq(Walks) /\ ptw.finished \in Seq(Fetched(vm))
         /\ ptw.completed \in Seq(Walks) /\ ptw.returned \in Seq(WalkAnswers)
         /\ ptw.lower \in Seq(WalkBlocks) /\ ptw.lower_returned \in Seq(WalkBlocks)
         /\ reading \in Seq(WalkBlocks)
BY NowIs DEF WalkerInv, WalkTyped

LEMMA WalkerCount ==
  ASSUME WalkerInv, NEW id \in RequestIds
  PROVE  /\ Copies(ptw.RQ, RequestOf(id)) \in Nat /\ Copies(ptw.MSHR, WalkOf(id)) \in Nat
         /\ Copies(ptw.finished, WalkOf(id)) \in Nat /\ Copies(ptw.completed, WalkOf(id)) \in Nat
         /\ Copies(ptw.returned, AnswerOf(id)) \in Nat
         /\ Copies(ptw.RQ, RequestOf(id)) + Copies(ptw.MSHR, WalkOf(id))
              + Copies(ptw.finished, WalkOf(id)) + Copies(ptw.completed, WalkOf(id))
              + 0 + Copies(ptw.returned, AnswerOf(id)) + Mark(id, answered) = Mark(id, asked)
<1>1. /\ Copies(ptw.RQ, RequestOf(id)) \in Nat /\ Copies(ptw.MSHR, WalkOf(id)) \in Nat
      /\ Copies(ptw.finished, WalkOf(id)) \in Nat /\ Copies(ptw.completed, WalkOf(id)) \in Nat
      /\ Copies(ptw.returned, AnswerOf(id)) \in Nat
  BY WalkerQueues, CopiesNat
<1>2. Copies(ptw.next_steps, WalkOf(id)) = 0  BY CopiesEmpty DEF WalkerInv
<1>3. InWalker(Now, id) = Copies(ptw.RQ, RequestOf(id)) + Copies(ptw.MSHR, WalkOf(id))
              + Copies(ptw.finished, WalkOf(id)) + Copies(ptw.completed, WalkOf(id))
              + 0 + Copies(ptw.returned, AnswerOf(id))
  BY <1>2, NowIs DEF InWalker
<1>4. InWalker(Now, id) + Mark(id, answered) = Mark(id, asked)  BY DEF WalkerInv
<1>5. QED  BY <1>1, <1>3, <1>4

\* The same count, after a step that leaves the queues of walks.
LEMMA CountNext ==
  ASSUME ptw'.MSHR = ptw.MSHR, ptw'.finished = ptw.finished, ptw'.completed = ptw.completed,
         ptw'.next_steps = << >>, NEW id
  PROVE  InWalker(Now', id) = Copies(ptw'.RQ, RequestOf(id)) + Copies(ptw.MSHR, WalkOf(id))
              + Copies(ptw.finished, WalkOf(id)) + Copies(ptw.completed, WalkOf(id))
              + 0 + Copies(ptw'.returned, AnswerOf(id))
<1>1. Copies(ptw'.next_steps, WalkOf(id)) = 0  BY CopiesEmpty
<1>2. QED  BY <1>1, NextIs DEF InWalker

LEMMA AskKeeps ==
  ASSUME WalkerInv, NEW r \in Requests, Ask(r)
  PROVE  WalkerInv'
<1> DEFINE rq == Append(ptw.RQ, r)
<1>1. /\ vm' = vm /\ reading' = reading /\ answered' = answered /\ asked' = asked \cup {r.id}
      /\ r.id \notin asked /\ ptw' = [ptw EXCEPT !.RQ = rq]
  BY DEF Ask
<1>2. rq \in Seq(Requests) /\ \A S : Copies(rq, S) = Copies(ptw.RQ, S) + Mark(r, S)
  BY WalkerQueues, CopiesAppend
<1> HIDE DEF rq
<1>3. ptw' = [MSHR |-> ptw.MSHR, finished |-> ptw.finished, completed |-> ptw.completed,
              pscl |-> ptw.pscl, RQ |-> rq, returned |-> ptw.returned, lower |-> ptw.lower,
              lower_returned |-> ptw.lower_returned, next_steps |-> ptw.next_steps,
              taken |-> ptw.taken, ok |-> ptw.ok, CR3_addr |-> ptw.CR3_addr]
  BY <1>1 DEF WalkerInv, PtwShape
<1>4. /\ PtwShape(ptw') /\ WalkTyped(Now') /\ ptw'.next_steps = << >>
      /\ ptw'.MSHR = ptw.MSHR /\ ptw'.RQ = rq /\ ptw'.returned = ptw.returned
      /\ ptw'.lower = ptw.lower /\ ptw'.lower_returned = ptw.lower_returned
  BY <1>1, <1>2, <1>3, WalkerQueues, OutsideTyped
<1>5. ptw'.finished = ptw.finished /\ ptw'.completed = ptw.completed  BY <1>3
<1>6. ASSUME NEW id \in RequestIds
      PROVE  InWalker(Now', id) + Mark(id, answered') = Mark(id, asked')
  <2>1. InWalker(Now', id) = Copies(rq, RequestOf(id)) + Copies(ptw.MSHR, WalkOf(id))
              + Copies(ptw.finished, WalkOf(id)) + Copies(ptw.completed, WalkOf(id))
              + 0 + Copies(ptw.returned, AnswerOf(id))
    BY <1>4, <1>5, CountNext
  <2>2. Copies(rq, RequestOf(id)) = Copies(ptw.RQ, RequestOf(id)) + Mark(r, RequestOf(id))
    BY <1>2
  <2>3. Mark(r, RequestOf(id)) = Mark(id, {r.id})  BY DEF Mark, RequestOf
  <2>4. Mark(id, asked') = Mark(id, asked) + Mark(id, {r.id})
    <3>1. CASE id = r.id  BY <1>1, <3>1 DEF Mark
    <3>2. CASE id # r.id  BY <1>1, <3>2 DEF Mark
    <3>3. QED  BY <3>1, <3>2
  <2>5. Mark(id, answered') = Mark(id, answered) /\ Mark(id, answered) \in Nat
        /\ Mark(id, asked) \in Nat /\ Mark(id, {r.id}) \in Nat
    BY <1>1 DEF Mark
  <2>6. QED  BY SMTT(60), <2>1, <2>2, <2>3, <2>4, <2>5, WalkerCount
<1>7. asked' \subseteq RequestIds /\ answered' \subseteq RequestIds
  BY <1>1 DEF WalkerInv, RequestIds
<1>8. QED  BY <1>1, <1>4, <1>6, <1>7 DEF WalkerInv

LEMMA WalkerCollects ==
  ASSUME WalkerInv, Collect
  PROVE  WalkerInv'
<1> DEFINE none == << >>
<1>1. /\ vm' = vm /\ reading' = reading /\ asked' = asked
      /\ answered' = answered \cup {ptw.returned[i].id : i \in 1 .. Len(ptw.returned)}
      /\ ptw' = [ptw EXCEPT !.returned = none]
  BY DEF Collect
<1>2. none \in Seq(WalkAnswers) /\ \A S : Copies(none, S) = 0  BY EmptySeq, CopiesEmpty
<1> HIDE DEF none
<1>3. ptw' = [MSHR |-> ptw.MSHR, finished |-> ptw.finished, completed |-> ptw.completed,
              pscl |-> ptw.pscl, RQ |-> ptw.RQ, returned |-> none, lower |-> ptw.lower,
              lower_returned |-> ptw.lower_returned, next_steps |-> ptw.next_steps,
              taken |-> ptw.taken, ok |-> ptw.ok, CR3_addr |-> ptw.CR3_addr]
  BY <1>1 DEF WalkerInv, PtwShape
<1>4. /\ PtwShape(ptw') /\ WalkTyped(Now') /\ ptw'.next_steps = << >>
      /\ ptw'.MSHR = ptw.MSHR /\ ptw'.RQ = ptw.RQ /\ ptw'.returned = none
      /\ ptw'.lower = ptw.lower /\ ptw'.lower_returned = ptw.lower_returned
  BY <1>1, <1>2, <1>3, WalkerQueues, OutsideTyped
<1>5. ptw'.finished = ptw.finished /\ ptw'.completed = ptw.completed  BY <1>3
<1>6. ptw.returned \in Seq(WalkAnswers) /\ \A i \in 1 .. Len(ptw.returned) : ptw.returned[i] \in WalkAnswers
  BY WalkerQueues, ElementOfSeq
<1>7. ASSUME NEW id \in RequestIds
      PROVE  InWalker(Now', id) + Mark(id, answered') = Mark(id, asked')
  <2> DEFINE k == Copies(ptw.returned, AnswerOf(id))
  <2>1. InWalker(Now', id) = Copies(ptw.RQ, RequestOf(id)) + Copies(ptw.MSHR, WalkOf(id))
              + Copies(ptw.finished, WalkOf(id)) + Copies(ptw.completed, WalkOf(id)) + 0 + 0
    <3>1. Copies(none, AnswerOf(id)) = 0  BY <1>2
    <3>2. QED  BY <1>4, <1>5, <3>1, CountNext
  <2>2. Mark(id, asked') = Mark(id, asked) /\ Mark(id, asked) \in {0, 1} /\ Mark(id, answered) \in {0, 1}
    BY <1>1 DEF Mark
  <2>3. k \in Nat  BY <1>6, CopiesNat
  <2>4. k + Mark(id, answered) <= 1
    BY SMTT(60), <2>2, <2>3, WalkerCount
  <2>5. k = 0 <=> \A i \in 1 .. Len(ptw.returned) : ptw.returned[i].id # id
    <3>1. k = 0 <=> \A i \in 1 .. Len(ptw.returned) : ptw.returned[i] \notin AnswerOf(id)
      BY <1>6, CopiesNone
    <3>2. \A i \in 1 .. Len(ptw.returned) : ptw.returned[i] \in AnswerOf(id) <=> ptw.returned[i].id = id
      BY <1>6 DEF AnswerOf
    <3>3. QED  BY <3>1, <3>2
  <2>6. Mark(id, answered') = Mark(id, answered) + k
    <3>1. CASE k = 0
      <4>1. id \in answered' <=> id \in answered  BY <1>1, <2>5, <3>1
      <4>2. Mark(id, answered') = Mark(id, answered)  BY <4>1 DEF Mark
      <4>3. QED  BY <2>2, <3>1, <4>2
    <3>2. CASE k # 0
      <4>1. id \in answered'  BY <1>1, <2>5, <3>2
      <4>2. k = 1 /\ Mark(id, answered) = 0  BY <2>2, <2>3, <2>4, <3>2
      <4>3. Mark(id, answered') = 1  BY <4>1 DEF Mark
      <4>4. QED  BY <4>2, <4>3
    <3>3. QED  BY <3>1, <3>2
  <2>7. QED  BY SMTT(60), <2>1, <2>2, <2>3, <2>6, WalkerCount
<1>8. answered' \subseteq RequestIds
  <2>1. \A i \in 1 .. Len(ptw.returned) : ptw.returned[i].id \in RequestIds
    BY <1>6 DEF WalkAnswers
  <2>2. QED  BY <1>1, <2>1 DEF WalkerInv
<1>9. asked' \subseteq RequestIds  BY <1>1 DEF WalkerInv
<1>10. QED  BY <1>1, <1>4, <1>7, <1>8, <1>9 DEF WalkerInv

\* Elements of a queue, by its head and tail or by an element and the others.
LEMMA HeadElements ==
  ASSUME NEW T, NEW q \in Seq(T), q # << >>
  PROVE  /\ Head(q) \in T /\ Tail(q) \in Seq(T)
         /\ Elements(q) = {Head(q)} \cup Elements(Tail(q))
<1>1. <<Head(q)>> \in Seq(T) /\ q = <<Head(q)>> \o Tail(q)  BY HeadAndTail
<1>2. Head(q) \in T /\ Tail(q) \in Seq(T)  BY CopiesTail
<1>3. Elements(<<Head(q)>> \o Tail(q)) = Elements(<<Head(q)>>) \cup Elements(Tail(q))
  BY <1>1, <1>2, ElementsConcat
<1>4. Elements(<<Head(q)>>) = {Head(q)}  BY DEF Elements
<1>5. QED  BY <1>1, <1>2, <1>3, <1>4

LEMMA WithoutElements ==
  ASSUME NEW T, NEW q \in Seq(T), NEW i \in 1 .. Len(q)
  PROVE  /\ q[i] \in T /\ First(q, i - 1) \o Rest(q, i) \in Seq(T)
         /\ Elements(q) = {q[i]} \cup Elements(First(q, i - 1) \o Rest(q, i))
<1>1. Len(q) \in Nat /\ q[i] \in T  BY LenProperties, ElementOfSeq
<1>2. i - 1 \in 0 .. Len(q) /\ i \in 0 .. Len(q)  BY <1>1
<1>3. /\ First(q, i - 1) \in Seq(T) /\ First(q, i) \in Seq(T) /\ Rest(q, i) \in Seq(T)
      /\ First(q, i) \o Rest(q, i) = q
  BY <1>2, CopiesSplit
<1>4. First(q, i) = Append(First(q, i - 1), q[i])  BY FirstGrows
<1>5. Elements(First(q, i)) = Elements(First(q, i - 1)) \cup {q[i]}
  BY <1>1, <1>3, <1>4, ElementsAppend
<1>6. Elements(q) = Elements(First(q, i)) \cup Elements(Rest(q, i))
  BY <1>3, ElementsConcat
<1>7. /\ First(q, i - 1) \o Rest(q, i) \in Seq(T)
      /\ Elements(First(q, i - 1) \o Rest(q, i)) = Elements(First(q, i - 1)) \cup Elements(Rest(q, i))
  BY <1>3, ElementsConcat
<1>8. QED  BY <1>1, <1>5, <1>6, <1>7

LEMMA TakesKeeps ==
  ASSUME WalkerInv, LowerTakes
  PROVE  WalkerInv'
<1> DEFINE low == Tail(ptw.lower)
           b == Head(ptw.lower)
<1>1. /\ vm' = vm /\ asked' = asked /\ answered' = answered
      /\ ptw.lower # << >> /\ ptw' = [ptw EXCEPT !.lower = low]
      /\ reading' = Append(reading, b) \/ (b \in Elements(reading) /\ reading' = reading)
  BY DEF LowerTakes
<1>2. b \in WalkBlocks /\ low \in Seq(WalkBlocks) /\ Elements(ptw.lower) = {b} \cup Elements(low)
  BY <1>1, WalkerQueues, HeadElements
<1> HIDE DEF low, b
<1>3. reading' \in Seq(WalkBlocks) /\ Elements(reading') = Elements(reading) \cup {b}
  <2>1. CASE reading' = Append(reading, b)
    BY <1>2, <2>1, WalkerQueues, ElementsAppend
  <2>2. CASE b \in Elements(reading) /\ reading' = reading
    BY <2>2, WalkerQueues
  <2>3. QED  BY <1>1, <2>1, <2>2
<1>4. ptw' = [MSHR |-> ptw.MSHR, finished |-> ptw.finished, completed |-> ptw.completed,
              pscl |-> ptw.pscl, RQ |-> ptw.RQ, returned |-> ptw.returned, lower |-> low,
              lower_returned |-> ptw.lower_returned, next_steps |-> ptw.next_steps,
              taken |-> ptw.taken, ok |-> ptw.ok, CR3_addr |-> ptw.CR3_addr]
  BY <1>1 DEF WalkerInv, PtwShape
<1>5. /\ PtwShape(ptw') /\ WalkTyped(Now') /\ ptw'.next_steps = << >>
      /\ ptw'.MSHR = ptw.MSHR /\ ptw'.RQ = ptw.RQ /\ ptw'.returned = ptw.returned
      /\ ptw'.lower = low /\ ptw'.lower_returned = ptw.lower_returned
  BY <1>1, <1>2, <1>4, WalkerQueues, OutsideTyped
<1>6. ptw'.finished = ptw.finished /\ ptw'.completed = ptw.completed  BY <1>4
<1>7. ASSUME NEW id \in RequestIds
      PROVE  InWalker(Now', id) + Mark(id, answered') = Mark(id, asked')
  <2>1. InWalker(Now', id) = Copies(ptw.RQ, RequestOf(id)) + Copies(ptw.MSHR, WalkOf(id))
              + Copies(ptw.finished, WalkOf(id)) + Copies(ptw.completed, WalkOf(id))
              + 0 + Copies(ptw.returned, AnswerOf(id))
    BY <1>5, <1>6, CountNext
  <2>2. QED  BY <1>1, <2>1, WalkerCount
<1>8. AllRead(ptw'.MSHR, Elements(ptw'.lower) \cup Elements(reading') \cup Elements(ptw'.lower_returned))
  <2>1. Elements(ptw.lower) \cup Elements(reading) \cup Elements(ptw.lower_returned)
        \subseteq Elements(low) \cup Elements(reading') \cup Elements(ptw.lower_returned)
    BY <1>2, <1>3
  <2>2. AllRead(ptw.MSHR, Elements(low) \cup Elements(reading') \cup Elements(ptw.lower_returned))
    BY <2>1, ReadsMore DEF WalkerInv
  <2>3. QED  BY <1>5, <2>2
<1>9. QED  BY <1>1, <1>3, <1>5, <1>7, <1>8 DEF WalkerInv

LEMMA RespondsKeeps ==
  ASSUME WalkerInv, LowerResponds
  PROVE  WalkerInv'
<1>1. PICK i \in 1 .. Len(reading) :
        /\ ptw' = [ptw EXCEPT !.lower_returned = Append(@, reading[i])]
        /\ reading' = First(reading, i - 1) \o Rest(reading, i)
        /\ vm' = vm /\ asked' = asked /\ answered' = answered
  BY DEF LowerResponds
<1> DEFINE b == reading[i]
           back == Append(ptw.lower_returned, b)
<1>2. b \in WalkBlocks /\ reading' \in Seq(WalkBlocks) /\ Elements(reading) = {b} \cup Elements(reading')
  BY <1>1, WalkerQueues, WithoutElements
<1>3. ptw' = [ptw EXCEPT !.lower_returned = back]  BY <1>1
<1> HIDE DEF b
<1>4. back \in Seq(WalkBlocks) /\ Elements(back) = Elements(ptw.lower_returned) \cup {b}
  BY <1>2, WalkerQueues, ElementsAppend
<1> HIDE DEF back
<1>5. ptw' = [MSHR |-> ptw.MSHR, finished |-> ptw.finished, completed |-> ptw.completed,
              pscl |-> ptw.pscl, RQ |-> ptw.RQ, returned |-> ptw.returned, lower |-> ptw.lower,
              lower_returned |-> back, next_steps |-> ptw.next_steps,
              taken |-> ptw.taken, ok |-> ptw.ok, CR3_addr |-> ptw.CR3_addr]
  BY <1>3 DEF WalkerInv, PtwShape
<1>6. /\ PtwShape(ptw') /\ WalkTyped(Now') /\ ptw'.next_steps = << >>
      /\ ptw'.MSHR = ptw.MSHR /\ ptw'.RQ = ptw.RQ /\ ptw'.returned = ptw.returned
      /\ ptw'.lower = ptw.lower /\ ptw'.lower_returned = back
  BY <1>1, <1>4, <1>5, WalkerQueues, OutsideTyped
<1>7. ptw'.finished = ptw.finished /\ ptw'.completed = ptw.completed  BY <1>5
<1>8. ASSUME NEW id \in RequestIds
      PROVE  InWalker(Now', id) + Mark(id, answered') = Mark(id, asked')
  <2>1. InWalker(Now', id) = Copies(ptw.RQ, RequestOf(id)) + Copies(ptw.MSHR, WalkOf(id))
              + Copies(ptw.finished, WalkOf(id)) + Copies(ptw.completed, WalkOf(id))
              + 0 + Copies(ptw.returned, AnswerOf(id))
    BY <1>6, <1>7, CountNext
  <2>2. QED  BY <1>1, <2>1, WalkerCount
<1>9. AllRead(ptw'.MSHR, Elements(ptw'.lower) \cup Elements(reading') \cup Elements(ptw'.lower_returned))
  <2>1. Elements(ptw.lower) \cup Elements(reading) \cup Elements(ptw.lower_returned)
        \subseteq Elements(ptw.lower) \cup Elements(reading') \cup Elements(back)
    BY <1>2, <1>4
  <2>2. AllRead(ptw.MSHR, Elements(ptw.lower) \cup Elements(reading') \cup Elements(back))
    BY <2>1, ReadsMore DEF WalkerInv
  <2>3. QED  BY <1>6, <2>2
<1>10. QED  BY <1>1, <1>2, <1>6, <1>8, <1>9 DEF WalkerInv

LEMMA WalkerBegins == WalkerInit => WalkerInv
<1>1. SUFFICES ASSUME WalkerInit PROVE WalkerInv  OBVIOUS
<1>2. PICK order \in Shuffles :
        \E cr3 \in {GetPtePa(NewMemory(order), 0, PtLevels)} :
         /\ vm = cr3.vm
         /\ ptw = [MSHR |-> << >>, finished |-> << >>, completed |-> << >>,
                 pscl |-> [i \in 1 .. PsclSize |-> << >>], RQ |-> << >>, returned |-> << >>,
                 lower |-> << >>, lower_returned |-> << >>, next_steps |-> << >>,
                 taken |-> 0, ok |-> TRUE,
                 CR3_addr |-> [page |-> cr3.page, offset |-> cr3.offset]]
  BY <1>1 DEF WalkerInit
<1> DEFINE m == NewMemory(order)
           g == GetPtePa(m, 0, PtLevels)
           root == [page |-> g.page, offset |-> g.offset]
<1>3. /\ vm = g.vm
      /\ ptw = [MSHR |-> << >>, finished |-> << >>, completed |-> << >>,
                pscl |-> [i \in 1 .. PsclSize |-> << >>], RQ |-> << >>, returned |-> << >>,
                lower |-> << >>, lower_returned |-> << >>, next_steps |-> << >>,
                taken |-> 0, ok |-> TRUE, CR3_addr |-> root]
  BY <1>2
<1>4. /\ reading = << >> /\ asked = {} /\ answered = {}  BY <1>1 DEF WalkerInit
<1>5. Sound(m)  BY NewSound
<1> HIDE DEF m
<1>6. StepGaves(m, 0, PtLevels, g)
  <2>1. PtLevels \in 1 .. PtLevels  BY MemoryAssumption
  <2>2. QED  BY <1>5, <2>1, StepGives
<1> HIDE DEF g
<1>7. Sound(g.vm)  BY <1>6 DEF StepGaves
<1>8. root \in WalkPlaces
  <2>1. PtLevels \in 0 .. PtLevels  BY MemoryAssumption
  <2>2. g.offset \in {Offset(v, l) : v \in Vpages \cup {0}, l \in 0 .. PtLevels}
    BY <1>6, <2>1 DEF StepGaves
  <2>3. QED  BY <1>6, <2>2 DEF StepGaves, WalkPlaces
<1> HIDE DEF root
<1>9. /\ ptw.MSHR = << >> /\ ptw.finished = << >> /\ ptw.completed = << >>
      /\ ptw.pscl = [i \in 1 .. PsclSize |-> << >>] /\ ptw.RQ = << >> /\ ptw.returned = << >>
      /\ ptw.lower = << >> /\ ptw.lower_returned = << >> /\ ptw.next_steps = << >>
      /\ ptw.taken = 0 /\ ptw.ok = TRUE /\ ptw.CR3_addr = root /\ PtwShape(ptw)
  BY <1>3 DEF PtwShape
<1>10. WalkTyped(Now)
  <2>1. \A T : << >> \in Seq(T)  BY EmptySeq
  <2>2. Now.ok \in BOOLEAN  BY Zenon, <1>9, NowIs
  <2>3. DOMAIN Now.pscl = 1 .. PsclSize /\ \A i \in 1 .. PsclSize : Now.pscl[i] = << >>
    BY <1>9, NowIs
  <2>4. Now.taken \in Nat  BY <1>9, NowIs
  <2>5. QED  BY <1>3, <1>7, <1>8, <1>9, <2>1, <2>2, <2>3, <2>4, NowIs DEF WalkTyped
<1>11. ASSUME NEW id \in RequestIds
       PROVE  InWalker(Now, id) + Mark(id, answered) = Mark(id, asked)
  <2>1. \A S : Copies(<< >>, S) = 0  BY CopiesEmpty
  <2>2. InWalker(Now, id) = 0  BY <1>9, <2>1, NowIs DEF InWalker
  <2>3. QED  BY <1>4, <2>2 DEF Mark
<1>12. AllRead(ptw.MSHR, Elements(ptw.lower) \cup Elements(reading) \cup Elements(ptw.lower_returned))
  <2>1. Len(ptw.MSHR) = 0  BY <1>9
  <2>2. QED  BY <2>1 DEF AllRead
<1>13. reading \in Seq(WalkBlocks)  BY <1>4, EmptySeq
<1>14. QED  BY <1>4, <1>9, <1>10, <1>11, <1>12, <1>13 DEF WalkerInv

-----------------------------------------------------------------------------
(* The walker: what the invariant says *)

\* A queue whose elements have id id if they are in of[id].
LEMMA IdsCounted ==
  ASSUME NEW T, NEW q \in Seq(T), NEW of, \A e \in T : e.id \in RequestIds,
         \A id \in RequestIds : \A e \in T : e \in of[id] <=> e.id = id
  PROVE  /\ Ids(q) \subseteq RequestIds
         /\ \A id \in RequestIds : Copies(q, of[id]) \in Nat /\ (id \in Ids(q) <=> Copies(q, of[id]) # 0)
         /\ (\A id \in RequestIds : Copies(q, of[id]) <= 1) => OnceIn(q)
<1>1. \A i \in 1 .. Len(q) : q[i] \in T  BY ElementOfSeq
<1>2. Ids(q) \subseteq RequestIds  BY <1>1 DEF Ids
<1>3. ASSUME NEW id \in RequestIds
      PROVE  Copies(q, of[id]) \in Nat /\ (id \in Ids(q) <=> Copies(q, of[id]) # 0)
  <2>1. Copies(q, of[id]) \in Nat  BY CopiesNat
  <2>2. Copies(q, of[id]) = 0 <=> \A i \in 1 .. Len(q) : q[i] \notin of[id]  BY CopiesNone
  <2>3. \A i \in 1 .. Len(q) : q[i] \in of[id] <=> q[i].id = id  BY <1>1
  <2>4. QED  BY <2>1, <2>2, <2>3 DEF Ids
<1>4. ASSUME \A id \in RequestIds : Copies(q, of[id]) <= 1 PROVE OnceIn(q)
  <2>1. SUFFICES ASSUME NEW i \in 1 .. Len(q), NEW j \in 1 .. Len(q), q[i].id = q[j].id, i # j PROVE FALSE
    BY DEF OnceIn
  <2> DEFINE id == q[i].id
  <2>2. id \in RequestIds /\ q[i] \in of[id] /\ q[j] \in of[id]  BY <1>1, <2>1
  <2> HIDE DEF id
  <2>3. Copies(q, of[id]) \in Nat /\ Copies(q, of[id]) >= 2  BY <2>1, <2>2, CopiesTwice
  <2>4. Copies(q, of[id]) <= 1  BY <1>4, <2>2
  <2>5. QED  BY <2>3, <2>4
<1>5. QED  BY <1>2, <1>3, <1>4

\* The ids in the queues.
IdPlaces == <<Ids(ptw.RQ), Ids(ptw.MSHR), Ids(ptw.finished), Ids(ptw.completed), Ids(ptw.returned)>>

LEMMA OncePlaced ==
  ASSUME WalkerInv
  PROVE  /\ OnceIn(ptw.RQ) /\ OnceIn(ptw.MSHR) /\ OnceIn(ptw.finished) /\ OnceIn(ptw.completed)
         /\ OnceIn(ptw.returned)
         /\ \A i \in 1 .. 5 : IdPlaces[i] \subseteq RequestIds
         /\ \A id \in RequestIds :
              /\ id \in asked <=> id \in answered \/ \E i \in 1 .. 5 : id \in IdPlaces[i]
              /\ id \in answered => \A i \in 1 .. 5 : id \notin IdPlaces[i]
              /\ \A i, j \in 1 .. 5 : i # j /\ id \in IdPlaces[i] => id \notin IdPlaces[j]
<1> DEFINE requests == [id \in RequestIds |-> RequestOf(id)]
           walks == [id \in RequestIds |-> WalkOf(id)]
           answers == [id \in RequestIds |-> AnswerOf(id)]
           A(id) == Copies(ptw.RQ, RequestOf(id))
           B(id) == Copies(ptw.MSHR, WalkOf(id))
           C(id) == Copies(ptw.finished, WalkOf(id))
           D(id) == Copies(ptw.completed, WalkOf(id))
           E(id) == Copies(ptw.returned, AnswerOf(id))
<1>1. /\ ptw.RQ \in Seq(Requests) /\ ptw.MSHR \in Seq(Walks) /\ ptw.finished \in Seq(Fetched(vm))
      /\ ptw.completed \in Seq(Walks) /\ ptw.returned \in Seq(WalkAnswers)
  BY WalkerQueues
<1>2. \A id \in RequestIds :
        /\ requests[id] = RequestOf(id) /\ walks[id] = WalkOf(id) /\ answers[id] = AnswerOf(id)
  OBVIOUS
<1>3. Fetched(vm) \subseteq Walks  BY DEF Fetched
<1>4. /\ \A e \in Requests : e.id \in RequestIds
      /\ \A id \in RequestIds : \A e \in Requests : e \in RequestOf(id) <=> e.id = id
  BY DEF RequestIds, RequestOf
<1>5. /\ \A e \in Walks : e.id \in RequestIds
      /\ \A id \in RequestIds : \A e \in Walks : e \in WalkOf(id) <=> e.id = id
  BY DEF Walks, WalkOf
<1>6. /\ \A e \in WalkAnswers : e.id \in RequestIds
      /\ \A id \in RequestIds : \A e \in WalkAnswers : e \in AnswerOf(id) <=> e.id = id
  BY DEF WalkAnswers, AnswerOf
<1> HIDE DEF requests, walks, answers
<1>7. ASSUME NEW id \in RequestIds
      PROVE  /\ A(id) <= 1 /\ B(id) <= 1 /\ C(id) <= 1 /\ D(id) <= 1 /\ E(id) <= 1
             /\ id \in asked <=> id \in answered \/ A(id) # 0 \/ B(id) # 0 \/ C(id) # 0 \/ D(id) # 0 \/ E(id) # 0
             /\ id \in answered => A(id) = 0 /\ B(id) = 0 /\ C(id) = 0 /\ D(id) = 0 /\ E(id) = 0
             /\ A(id) # 0 => B(id) = 0 /\ C(id) = 0 /\ D(id) = 0 /\ E(id) = 0
             /\ B(id) # 0 => A(id) = 0 /\ C(id) = 0 /\ D(id) = 0 /\ E(id) = 0
             /\ C(id) # 0 => A(id) = 0 /\ B(id) = 0 /\ D(id) = 0 /\ E(id) = 0
             /\ D(id) # 0 => A(id) = 0 /\ B(id) = 0 /\ C(id) = 0 /\ E(id) = 0
             /\ E(id) # 0 => A(id) = 0 /\ B(id) = 0 /\ C(id) = 0 /\ D(id) = 0
  <2> DEFINE a == A(id)  b == B(id)  c == C(id)  d == D(id)  e == E(id)
             x == Mark(id, answered)
             y == Mark(id, asked)
  <2>1. a \in Nat /\ b \in Nat /\ c \in Nat /\ d \in Nat /\ e \in Nat  BY WalkerCount
  <2>2. a + b + c + d + 0 + e + x = y  BY WalkerCount
  <2>3. x \in {0, 1} /\ y \in {0, 1} /\ (x = 1 <=> id \in answered) /\ (y = 1 <=> id \in asked)
    BY DEF Mark
  <2> HIDE DEF a, b, c, d, e, x, y
  <2>4. /\ a <= 1 /\ b <= 1 /\ c <= 1 /\ d <= 1 /\ e <= 1
        /\ y = 1 <=> x = 1 \/ a # 0 \/ b # 0 \/ c # 0 \/ d # 0 \/ e # 0
        /\ x = 1 => a = 0 /\ b = 0 /\ c = 0 /\ d = 0 /\ e = 0
        /\ a # 0 => b = 0 /\ c = 0 /\ d = 0 /\ e = 0
        /\ b # 0 => a = 0 /\ c = 0 /\ d = 0 /\ e = 0
        /\ c # 0 => a = 0 /\ b = 0 /\ d = 0 /\ e = 0
        /\ d # 0 => a = 0 /\ b = 0 /\ c = 0 /\ e = 0
        /\ e # 0 => a = 0 /\ b = 0 /\ c = 0 /\ d = 0
    BY SMTT(60), <2>1, <2>2, <2>3
  <2>5. QED  BY <2>3, <2>4 DEF a, b, c, d, e
<1>8. /\ Ids(ptw.RQ) \subseteq RequestIds /\ OnceIn(ptw.RQ)
      /\ \A id \in RequestIds : id \in Ids(ptw.RQ) <=> A(id) # 0
  <2>1. \A id \in RequestIds : \A e \in Requests : e \in requests[id] <=> e.id = id  BY <1>2, <1>4
  <2>2. \A id \in RequestIds : Copies(ptw.RQ, requests[id]) = A(id)  BY <1>2
  <2>3. \A id \in RequestIds : Copies(ptw.RQ, requests[id]) <= 1  BY <1>7, <2>2
  <2>4. ptw.RQ \in Seq(Requests)  BY <1>1
  <2>5. \A e \in Requests : e.id \in RequestIds  BY <1>4
  <2>6. QED  BY <2>1, <2>2, <2>3, <2>4, <2>5, IdsCounted
<1>9. /\ Ids(ptw.MSHR) \subseteq RequestIds /\ OnceIn(ptw.MSHR)
      /\ \A id \in RequestIds : id \in Ids(ptw.MSHR) <=> B(id) # 0
  <2>1. \A id \in RequestIds : \A e \in Walks : e \in walks[id] <=> e.id = id  BY <1>2, <1>5
  <2>2. \A id \in RequestIds : Copies(ptw.MSHR, walks[id]) = B(id)  BY <1>2
  <2>3. \A id \in RequestIds : Copies(ptw.MSHR, walks[id]) <= 1  BY <1>7, <2>2
  <2>4. ptw.MSHR \in Seq(Walks)  BY <1>1
  <2>5. \A e \in Walks : e.id \in RequestIds  BY <1>5
  <2>6. QED  BY <2>1, <2>2, <2>3, <2>4, <2>5, IdsCounted
<1>10. /\ Ids(ptw.finished) \subseteq RequestIds /\ OnceIn(ptw.finished)
       /\ \A id \in RequestIds : id \in Ids(ptw.finished) <=> C(id) # 0
  <2>1. \A id \in RequestIds : \A e \in Walks : e \in walks[id] <=> e.id = id  BY <1>2, <1>5
  <2>2. \A id \in RequestIds : Copies(ptw.finished, walks[id]) = C(id)  BY <1>2
  <2>3. \A id \in RequestIds : Copies(ptw.finished, walks[id]) <= 1  BY <1>7, <2>2
  <2>4. ptw.finished \in Seq(Walks)  BY <1>1, <1>3, SeqLarger
  <2>5. QED  BY <1>5, <2>1, <2>2, <2>3, <2>4, IdsCounted
<1>11. /\ Ids(ptw.completed) \subseteq RequestIds /\ OnceIn(ptw.completed)
       /\ \A id \in RequestIds : id \in Ids(ptw.completed) <=> D(id) # 0
  <2>1. \A id \in RequestIds : \A e \in Walks : e \in walks[id] <=> e.id = id  BY <1>2, <1>5
  <2>2. \A id \in RequestIds : Copies(ptw.completed, walks[id]) = D(id)  BY <1>2
  <2>3. \A id \in RequestIds : Copies(ptw.completed, walks[id]) <= 1  BY <1>7, <2>2
  <2>4. ptw.completed \in Seq(Walks)  BY <1>1
  <2>5. \A e \in Walks : e.id \in RequestIds  BY <1>5
  <2>6. QED  BY <2>1, <2>2, <2>3, <2>4, <2>5, IdsCounted
<1>12. /\ Ids(ptw.returned) \subseteq RequestIds /\ OnceIn(ptw.returned)
       /\ \A id \in RequestIds : id \in Ids(ptw.returned) <=> E(id) # 0
  <2>1. \A id \in RequestIds : \A e \in WalkAnswers : e \in answers[id] <=> e.id = id  BY <1>2, <1>6
  <2>2. \A id \in RequestIds : Copies(ptw.returned, answers[id]) = E(id)  BY <1>2
  <2>3. \A id \in RequestIds : Copies(ptw.returned, answers[id]) <= 1  BY <1>7, <2>2
  <2>4. ptw.returned \in Seq(WalkAnswers)  BY <1>1
  <2>5. \A e \in WalkAnswers : e.id \in RequestIds  BY <1>6
  <2>6. QED  BY <2>1, <2>2, <2>3, <2>4, <2>5, IdsCounted
<1>13. /\ IdPlaces[1] = Ids(ptw.RQ) /\ IdPlaces[2] = Ids(ptw.MSHR) /\ IdPlaces[3] = Ids(ptw.finished)
       /\ IdPlaces[4] = Ids(ptw.completed) /\ IdPlaces[5] = Ids(ptw.returned)
  BY DEF IdPlaces
<1>14. \A i : i \in 1 .. 5 <=> i \in {1, 2, 3, 4, 5}  OBVIOUS
<1>15. \A i \in 1 .. 5 : IdPlaces[i] \subseteq RequestIds
  BY <1>8, <1>9, <1>10, <1>11, <1>12, <1>13, <1>14
<1> HIDE DEF A, B, C, D, E
<1>16. ASSUME NEW id \in RequestIds
       PROVE  /\ id \in asked <=> id \in answered \/ \E i \in 1 .. 5 : id \in IdPlaces[i]
              /\ id \in answered => \A i \in 1 .. 5 : id \notin IdPlaces[i]
              /\ \A i, j \in 1 .. 5 : i # j /\ id \in IdPlaces[i] => id \notin IdPlaces[j]
  <2>1. /\ id \in IdPlaces[1] <=> A(id) # 0
        /\ id \in IdPlaces[2] <=> B(id) # 0
        /\ id \in IdPlaces[3] <=> C(id) # 0
        /\ id \in IdPlaces[4] <=> D(id) # 0
        /\ id \in IdPlaces[5] <=> E(id) # 0
    BY <1>8, <1>9, <1>10, <1>11, <1>12, <1>13
  <2>2. id \in asked <=> id \in answered \/ \E i \in 1 .. 5 : id \in IdPlaces[i]
    <3>1. (\E i \in 1 .. 5 : id \in IdPlaces[i])
            <=> \/ id \in IdPlaces[1] \/ id \in IdPlaces[2] \/ id \in IdPlaces[3]
                \/ id \in IdPlaces[4] \/ id \in IdPlaces[5]
      BY <1>14
    <3>2. QED  BY <1>7, <2>1, <3>1
  <2>3. id \in answered => \A i \in 1 .. 5 : id \notin IdPlaces[i]
    BY <1>7, <1>14, <2>1
  <2>4. ASSUME NEW i \in 1 .. 5, NEW j \in 1 .. 5, i # j, id \in IdPlaces[i]
        PROVE  id \notin IdPlaces[j]
    <3>1. i \in {1, 2, 3, 4, 5} /\ j \in {1, 2, 3, 4, 5}  BY <1>14
    <3>2. CASE i = 1  BY <1>7, <2>1, <2>4, <3>1, <3>2
    <3>3. CASE i = 2  BY <1>7, <2>1, <2>4, <3>1, <3>3
    <3>4. CASE i = 3  BY <1>7, <2>1, <2>4, <3>1, <3>4
    <3>5. CASE i = 4  BY <1>7, <2>1, <2>4, <3>1, <3>5
    <3>6. CASE i = 5  BY <1>7, <2>1, <2>4, <3>1, <3>6
    <3>7. QED  BY <3>1, <3>2, <3>3, <3>4, <3>5, <3>6
  <2>5. QED  BY <2>2, <2>3, <2>4
<1>17. QED  BY <1>8, <1>9, <1>10, <1>11, <1>12, <1>15, <1>16

LEMMA WalkerMeans == WalkerInv => WalkerSound
<1>1. SUFFICES ASSUME WalkerInv PROVE WalkerSound  OBVIOUS
<1>2. AnsweredOnce
  <2>1. \A i \in 1 .. 5 : Ids(Places[i]) = IdPlaces[i]
    <3>1. \A i : i \in 1 .. 5 <=> i \in {1, 2, 3, 4, 5}  OBVIOUS
    <3>2. /\ Places[1] = ptw.RQ /\ Places[2] = ptw.MSHR /\ Places[3] = ptw.finished
          /\ Places[4] = ptw.completed /\ Places[5] = ptw.returned
      BY DEF Places
    <3>3. /\ IdPlaces[1] = Ids(ptw.RQ) /\ IdPlaces[2] = Ids(ptw.MSHR) /\ IdPlaces[3] = Ids(ptw.finished)
          /\ IdPlaces[4] = Ids(ptw.completed) /\ IdPlaces[5] = Ids(ptw.returned)
      BY DEF IdPlaces
    <3>4. QED  BY <3>1, <3>2, <3>3
  <2>2. \A i \in 1 .. 5 : OnceIn(Places[i])
    <3>1. \A i : i \in 1 .. 5 <=> i \in {1, 2, 3, 4, 5}  OBVIOUS
    <3>2. /\ Places[1] = ptw.RQ /\ Places[2] = ptw.MSHR /\ Places[3] = ptw.finished
          /\ Places[4] = ptw.completed /\ Places[5] = ptw.returned
      BY DEF Places
    <3>3. QED  BY <1>1, <3>1, <3>2, OncePlaced
  <2>3. asked \subseteq RequestIds /\ answered \subseteq RequestIds  BY <1>1 DEF WalkerInv
  <2>4. asked = answered \cup UNION {Ids(Places[i]) : i \in 1 .. 5}
    <3>1. \A id : id \in UNION {Ids(Places[i]) : i \in 1 .. 5} <=> \E i \in 1 .. 5 : id \in IdPlaces[i]
      BY <2>1
    <3>2. \A id : (\E i \in 1 .. 5 : id \in IdPlaces[i]) => id \in RequestIds  BY <1>1, OncePlaced
    <3>3. \A id \in RequestIds : id \in asked <=> id \in answered \/ \E i \in 1 .. 5 : id \in IdPlaces[i]
      BY <1>1, OncePlaced
    <3>4. \A id : id \in asked <=> id \in answered \cup UNION {Ids(Places[i]) : i \in 1 .. 5}
      BY <2>3, <3>1, <3>2, <3>3
    <3>5. QED  BY <3>4
  <2>5. \A i \in 1 .. 5 : Ids(Places[i]) \cap answered = {}
    BY <1>1, <2>1, <2>3, OncePlaced
  <2>6. \A i, j \in 1 .. 5 : i # j => Ids(Places[i]) \cap Ids(Places[j]) = {}
    BY <1>1, <2>1, OncePlaced
  <2>7. QED  BY <2>2, <2>4, <2>5, <2>6 DEF AnsweredOnce
<1>3. WalkOwed  BY <1>1 DEF WalkerInv, AllRead, WalkOwed
<1>4. PsclSound
  <2>1. SUFFICES ASSUME NEW i \in 1 .. PsclSize, NEW j \in 1 .. Len(ptw.pscl[i])
        PROVE  LET e == ptw.pscl[i][j]
               IN  /\ e.level = PsclSize - i
                   /\ \E v \in Vpages :
                        LET key == <<e.level + 1, Key(v, e.level + 1)>>
                        IN  /\ key \in DOMAIN vm.table /\ vm.table[key] = e.page
                            /\ Key(v, e.level + 2) = e.tag
    BY DEF PsclSound
  <2>2. ptw.pscl[i] \in Seq(PsclFits(vm, i))  BY <1>1, NowIs DEF WalkerInv, WalkTyped
  <2>3. ptw.pscl[i][j] \in PsclFits(vm, i)  BY <2>2, ElementOfSeq
  <2>4. QED  BY <2>3 DEF PsclFits, HasPage
<1>5. QED  BY <1>2, <1>3, <1>4 DEF WalkerSound

LEMMA WalkerSteps == WalkerInv /\ [WalkerNext]_vars => WalkerInv'
<1>1. SUFFICES ASSUME WalkerInv, [WalkerNext]_vars PROVE WalkerInv'  OBVIOUS
<1>2. CASE Operate  BY <1>1, <1>2, OperateKeeps
<1>3. CASE Collect  BY <1>1, <1>3, WalkerCollects
<1>4. CASE LowerTakes  BY <1>1, <1>4, TakesKeeps
<1>5. CASE LowerResponds  BY <1>1, <1>5, RespondsKeeps
<1>6. ASSUME NEW r \in Requests, Ask(r) PROVE WalkerInv'  BY <1>1, <1>6, AskKeeps
<1>7. CASE UNCHANGED vars
  <2>1. /\ ptw' = ptw /\ vm' = vm /\ reading' = reading /\ asked' = asked /\ answered' = answered
    BY <1>7 DEF vars
  <2>2. Now' = Now  BY <2>1 DEF Now
  <2>3. QED  BY <1>1, <2>1, <2>2 DEF WalkerInv
<1>8. QED  BY <1>1, <1>2, <1>3, <1>4, <1>5, <1>6, <1>7 DEF WalkerNext

\* Whatever is asked, in whatever order the L1D answers, and whatever it refuses: a walk is
\* in one place and its request is answered once, its block is read as long as it waits, and
\* the paging structure caches keep pages of the table (operate and its stages in ptw.cc).
THEOREM WalksSound == WalkerSpec => []WalkerSound
<1>1. QED  BY WalkerBegins, WalkerSteps, WalkerMeans, PTL DEF WalkerSpec

\* While walks go on, too, a physical page has one use until the free list is used up.
THEOREM WalksExclusive == WalkerSpec => [](TypeOK /\ Exclusive)
<1>1. WalkerInv => TypeOK /\ Exclusive
  <2>1. WalkerInv => Sound(vm)  BY NowIs DEF WalkerInv, WalkTyped
  <2>2. QED  BY <2>1, SoundMeans
<1>2. QED  BY <1>1, WalkerBegins, WalkerSteps, PTL DEF WalkerSpec

=============================================================================
