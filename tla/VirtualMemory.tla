--------------------------- MODULE VirtualMemory ---------------------------
(***************************************************************************)
(* Physical memory and the page table (vmem.cc).  The operations work on a *)
(* record, because PageTableWalker uses them too; here each call is an     *)
(* action, in any order.  Physical pages are numbers.                      *)
(***************************************************************************)
EXTENDS Naturals, Sequences, FiniteSets, Queues

CONSTANTS
  Vpages,           \* virtual pages
  Fanout,           \* entries of a page table page
  PtLevels,
  PteSlots,         \* page table pages that fit into a physical page
  FirstPage,        \* the page at 1 MiB
  Populated,        \* the length of the free list, 32768 in the code
  Shuffles,         \* permutations of 1..Populated that the seed can give
  PoolPages         \* for the virtual pages of pool ranges, the page in the pool

ASSUME MemoryAssumption ==
  /\ PtLevels \in Nat \ {0} /\ PteSlots \in Nat \ {0}
  /\ FirstPage \in Nat /\ Populated \in Nat \ {0}

\* Pages of pool ranges differ (PoolDisjoint of AddressMap), and are above the
\* pages of the free list: pool_pa_base is at least the size of the DRAM.
ASSUME PoolPagesAssumption ==
  \A v \in DOMAIN PoolPages :
    /\ PoolPages[v] \in Nat /\ PoolPages[v] >= FirstPage + Populated
    /\ \A w \in DOMAIN PoolPages : PoolPages[v] = PoolPages[w] => v = w

ASSUME ShufflesAssumption ==
  \A s \in Shuffles : s \in [1 .. Populated -> 1 .. Populated] /\ Distinct(s)

VARIABLE vm    \* free: ppage_free_list; order: how it was shuffled; map:
               \* vpage_to_ppage_map; table: page_table, from level and key to
               \* page and slot; active, next: where the next page table page
               \* goes; refilled: the free list was used up once

\* populate_pages and shuffle_pages: the generator is seeded again each time.
Populate(order) == [i \in 1 .. Populated |-> FirstPage + order[i] - 1]

\* Mutant of Pop: the free list is not filled again.
PopOnly(m) == [m EXCEPT !.free = Tail(@)]

Pop(m) ==
  IF Len(m.free) = 1 THEN [m EXCEPT !.free = Populate(m.order), !.refilled = TRUE]
                     ELSE [m EXCEPT !.free = Tail(@)]

\* The part of an address above shamt(l), and the part below it, down to the
\* next level: get_offset.
Key(v, l) == v \div Fanout^(l - 1)
Offset(v, l) == IF l = 0 THEN 0 ELSE Key(v, l) % Fanout

\* Mutant of ActivePage: a page is used for one page table page more.
ActivePageLate(m) ==
  IF m.next = 0 /\ DOMAIN m.table = {} THEN Pop([m EXCEPT !.active = Head(m.free)]) ELSE m

\* The page for the next page table page.  It is taken before the table is
\* looked up, and taken again as long as slot 0 is the next.
ActivePage(m) ==
  IF m.next = 0 THEN Pop([m EXCEPT !.active = Head(m.free)]) ELSE m

\* The memory after the call, the place of the entry, and whether it is new.
GetPtePa(m, v, l) ==
  LET key == <<l, Key(v, l)>>
      found == key \in DOMAIN m.table
      a == ActivePage(m)
      new == [a EXCEPT !.table = [k \in DOMAIN @ \cup {key} |->
                                    IF k = key THEN <<a.active, a.next>> ELSE @[k]],
                       !.next = (@ + 1) % PteSlots]
      after == IF found THEN a ELSE new
  IN  [vm |-> after, page |-> after.table[key], offset |-> Offset(v, l), fault |-> ~ found]

Place(m, v, page) ==
  LET placed == [m EXCEPT !.map = [w \in DOMAIN @ \cup {v} |-> IF w = v THEN page ELSE @[w]]]
  IN  IF v \in DOMAIN PoolPages THEN placed ELSE Pop(placed)

VaToPa(m, v) ==
  LET page == IF v \in DOMAIN PoolPages THEN PoolPages[v] ELSE Head(m.free)
      after == IF v \in DOMAIN m.map THEN m ELSE Place(m, v, page)
  IN  [vm |-> after, page |-> after.map[v], fault |-> v \notin DOMAIN m.map]

\* The constructor.
NewMemory(order) ==
  [free |-> Populate(order), order |-> order, map |-> << >>, table |-> << >>,
   active |-> 0, next |-> 0, refilled |-> FALSE]

-----------------------------------------------------------------------------
\* The page table walker asks for CR3_addr when it is constructed.
Init == \E order \in Shuffles : vm = GetPtePa(NewMemory(order), 0, PtLevels).vm

Step(v, l) == vm' = GetPtePa(vm, v, l).vm

Translate(v) == vm' = VaToPa(vm, v).vm

Next == \E v \in Vpages : Translate(v) \/ \E l \in 1 .. PtLevels : Step(v, l)

Spec == Init /\ [][Next]_vm

-----------------------------------------------------------------------------
Mapped == {vm.map[v] : v \in DOMAIN vm.map}
TablePages == {vm.table[k][1] : k \in DOMAIN vm.table}

TypeOK ==
  /\ DOMAIN vm.map \subseteq Vpages
  /\ \A k \in DOMAIN vm.table : k[1] \in 1 .. PtLevels /\ vm.table[k][2] \in 0 .. PteSlots - 1
  /\ vm.next \in 0 .. PteSlots - 1
  /\ Len(vm.free) \in 1 .. Populated

\* As long as memory lasts, a physical page has one use: it is free, or it holds
\* one virtual page, or page table pages at different slots.
Exclusive ==
  ~ vm.refilled =>
    /\ \A v, w \in DOMAIN vm.map : vm.map[v] = vm.map[w] => v = w
    /\ \A k, l \in DOMAIN vm.table : vm.table[k] = vm.table[l] => k = l
    /\ Distinct(vm.free)
    /\ Mapped \cap TablePages = {}
    /\ (Mapped \cup TablePages) \cap Elements(vm.free) = {}
=============================================================================
