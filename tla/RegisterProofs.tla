--------------------------- MODULE RegisterProofs ---------------------------
(***************************************************************************)
(* RegisterAllocator keeps its invariants whatever the registers are.      *)
(*                                                                         *)
(* OneOwner, SourcesStable and WaitsForProducer need each other, and three *)
(* facts about the tables: what the frontend table says is what program    *)
(* order says at the end of the window, the file knows the register of the *)
(* program that a physical one stands for, and what is committed is valid. *)
(***************************************************************************)
EXTENDS RegisterAllocator, QueueLemmas, TLAPS

FrontMeans == \A reg \in Arch : 
  Means(alloc.back, window, reg, alloc.front[reg], Len(window) + 1)

FileKnows ==
  /\ \A i \in 1 .. Len(window) :
       window[i].written => alloc.file[window[i].phys].arch = window[i].reg
  /\ \A reg \in Arch :
       alloc.back[reg] # None
         => /\ alloc.file[alloc.back[reg]].arch = reg
            /\ alloc.file[alloc.back[reg]].valid

IInv ==
  /\ TypeOK
  /\ OneOwner
  /\ SourcesStable
  /\ WaitsForProducer
  /\ FrontMeans
  /\ FileKnows
Uses == [reg : Arch, phys : Phys, written : BOOLEAN]

LEMMA UsesTyped ==
  ASSUME TypeOK, NEW j \in 1 .. Len(window)
  PROVE  /\ window[j] \in Uses
         /\ window[j].reg \in Arch /\ window[j].phys \in Phys
<1>1. window \in Seq(Uses)
  BY DEF TypeOK, Uses
<1>2. window[j] \in Uses
  BY <1>1
<1>3. QED
  BY <1>2 DEF Uses

\* v is w with one more use u at the end.
Extends(w, u, v) ==
  /\ Len(w) \in Nat /\ Len(v) = Len(w) + 1
  /\ \A i \in 1 .. Len(w) : v[i] = w[i]
  /\ v[Len(w) + 1] = u

\* v is w without its oldest use.
Shortens(w, v) ==
  /\ Len(w) \in Nat \ {0} /\ Len(v) = Len(w) - 1
  /\ \A i \in 1 .. Len(v) : v[i] = w[i + 1]

\* One more use at the end of the window (Source, Destination).
LEMMA WindowAppend ==
  ASSUME TypeOK, NEW u \in Uses, window' = Append(window, u)
  PROVE  window' \in Seq(Uses) /\ Extends(window, u, window')
<1>1. window \in Seq(Uses)
  BY DEF TypeOK, Uses
<1>2. QED
  BY <1>1 DEF Extends

\* Means is about older uses: a new one at the end does not change it.
LEMMA MeansOlder ==
  ASSUME NEW back, NEW w, NEW u, NEW v, Extends(w, u, v),
         NEW reg, NEW p, NEW j \in 1 .. Len(w) + 1, Means(back, w, reg, p, j)
  PROVE  Means(back, v, reg, p, j)
<1>1. \A i \in 1 .. Len(v) : i < j => i \in 1 .. Len(w) /\ v[i] = w[i]
  BY DEF Extends
<1>2. \A i \in 1 .. Len(w) : i \in 1 .. Len(v) /\ v[i] = w[i]
  BY DEF Extends
<1>3. CASE /\ back[reg] = p
           /\ \A i \in 1 .. Len(w) : i < j => ~ (w[i].written /\ w[i].reg = reg)
  BY <1>1, <1>3, Zenon DEF Means
<1>4. ASSUME NEW i \in 1 .. Len(w), i < j, w[i] = Use(reg, p, TRUE),
             \A k \in 1 .. Len(w) :
               i < k /\ k < j => ~ (w[k].written /\ w[k].reg = reg)
      PROVE  Means(back, v, reg, p, j)
  BY <1>1, <1>2, <1>4, Zenon DEF Means
<1>5. QED
  BY <1>3, <1>4, Zenon DEF Means

\* A new use that does not write reg leaves what reg means at the end.
LEMMA MeansAtEnd ==
  ASSUME NEW back, NEW w, NEW u, NEW v, Extends(w, u, v),
         NEW reg, NEW p, ~ (u.written /\ u.reg = reg),
         Means(back, w, reg, p, Len(w) + 1)
  PROVE  Means(back, v, reg, p, Len(v) + 1)
<1>1. \A i \in 1 .. Len(v) :
        v[i].written /\ v[i].reg = reg
          => i \in 1 .. Len(w) /\ i < Len(w) + 1 /\ v[i] = w[i]
  BY DEF Extends
<1>2. \A i \in 1 .. Len(w) : i \in 1 .. Len(v) /\ i < Len(v) + 1 /\ v[i] = w[i]
  BY DEF Extends
<1>3. CASE /\ back[reg] = p
           /\ \A i \in 1 .. Len(w) :
                i < Len(w) + 1 => ~ (w[i].written /\ w[i].reg = reg)
  BY <1>1, <1>3, Zenon DEF Means
<1>4. ASSUME NEW i \in 1 .. Len(w), i < Len(w) + 1, w[i] = Use(reg, p, TRUE),
             \A k \in 1 .. Len(w) :
               i < k /\ k < Len(w) + 1 => ~ (w[k].written /\ w[k].reg = reg)
      PROVE  Means(back, v, reg, p, Len(v) + 1)
  BY <1>1, <1>2, <1>4, Zenon DEF Means
<1>5. QED
  BY <1>3, <1>4, Zenon DEF Means

\* A new write is what the register means from there on.
LEMMA MeansWritten ==
  ASSUME NEW back, NEW w, NEW reg, NEW p, NEW v, Extends(w, Use(reg, p, TRUE), v)
  PROVE  Means(back, v, reg, p, Len(v) + 1)
<1>1. /\ Len(v) \in 1 .. Len(v) /\ Len(v) < Len(v) + 1
      /\ v[Len(v)] = Use(reg, p, TRUE)
      /\ \A k \in 1 .. Len(v) : ~ (Len(v) < k /\ k < Len(v) + 1)
  BY DEF Extends
<1>2. QED
  BY <1>1, Zenon DEF Means

\* The oldest use leaves (Retire).
LEMMA WindowTail ==
  ASSUME TypeOK, window # << >>, window' = Tail(window)
  PROVE  /\ Len(window) \in Nat \ {0} /\ Len(window') = Len(window) - 1
         /\ window' \in Seq(Uses)
         /\ window[1] = Head(window) /\ window[1] \in Uses
         /\ \A i \in 1 .. Len(window') :
              /\ i + 1 \in 1 .. Len(window)
              /\ window'[i] = window[i + 1]
<1>1. window \in Seq(Uses)
  BY DEF TypeOK, Uses
<1>2. QED
  BY <1>1

\* What a name means is a register that is committed or about to be written.
LEMMA MeansLive ==
  ASSUME NEW back, NEW w, NEW reg \in Arch, NEW p, NEW j, Means(back, w, reg, p, j)
  PROVE  \/ \E r \in Arch : back[r] = p
         \/ \E i \in 1 .. Len(w) : w[i].written /\ w[i].phys = p
<1>1. CASE back[reg] = p
  BY <1>1
<1>2. ASSUME NEW i \in 1 .. Len(w), w[i] = Use(reg, p, TRUE)
      PROVE  w[i].written /\ w[i].phys = p
  BY <1>2 DEF Use
<1>3. QED
  BY <1>1, <1>2, Zenon DEF Means

\* The register that reg means is the oldest write's if that write is to reg.
Commits(back, next, w, reg) ==
  /\ w[1].written /\ w[1].reg = reg => next[reg] = w[1].phys
  /\ ~ (w[1].written /\ w[1].reg = reg) => next[reg] = back[reg]

\* When the oldest use leaves, and a write commits, every name keeps its meaning.
LEMMA MeansRetire ==
  ASSUME NEW back, NEW next, NEW w, NEW v, Shortens(w, v),
         NEW reg, NEW p, NEW j \in Nat \ {0}, Means(back, w, reg, p, j + 1),
         Commits(back, next, w, reg)
  PROVE  Means(next, v, reg, p, j)
<1>1. /\ 1 \in 1 .. Len(w) /\ 1 < j + 1
      /\ \A i \in 1 .. Len(v) :
           /\ i + 1 \in 1 .. Len(w) /\ v[i] = w[i + 1]
           /\ i < j => i + 1 < j + 1
           /\ 1 < i + 1
      /\ \A i \in 1 .. Len(w) :
           i # 1 => i - 1 \in 1 .. Len(v) /\ v[i - 1] = w[i] /\ (i < j + 1 => i - 1 < j)
  BY DEF Shortens
<1>2. CASE /\ back[reg] = p
           /\ \A i \in 1 .. Len(w) : i < j + 1 => ~ (w[i].written /\ w[i].reg = reg)
  <2>1. next[reg] = p
    BY <1>1, <1>2 DEF Commits
  <2>2. \A i \in 1 .. Len(v) : i < j => ~ (v[i].written /\ v[i].reg = reg)
    BY <1>1, <1>2
  <2>3. QED
    BY <2>1, <2>2 DEF Means
<1>3. ASSUME NEW i \in 1 .. Len(w), i < j + 1, w[i] = Use(reg, p, TRUE),
             \A k \in 1 .. Len(w) :
               i < k /\ k < j + 1 => ~ (w[k].written /\ w[k].reg = reg)
      PROVE  Means(next, v, reg, p, j)
  <2>1. CASE i = 1
    <3>1. next[reg] = p
      BY <2>1, <1>3 DEF Use, Commits
    <3>2. \A k \in 1 .. Len(v) : k < j => ~ (v[k].written /\ v[k].reg = reg)
      BY <2>1, <1>1, <1>3
    <3>3. QED
      BY <3>1, <3>2 DEF Means
  <2>2. CASE i # 1
    <3>1. i - 1 \in 1 .. Len(v) /\ i - 1 < j /\ v[i - 1] = Use(reg, p, TRUE)
      BY <2>2, <1>1, <1>3
    <3>2. ASSUME NEW k \in 1 .. Len(v), i - 1 < k, k < j
          PROVE  ~ (v[k].written /\ v[k].reg = reg)
      <4>1. k + 1 \in 1 .. Len(w) /\ i < k + 1 /\ k + 1 < j + 1 /\ v[k] = w[k + 1]
        BY <3>2, <1>1
      <4>2. QED
        BY <4>1, <1>3
    <3>3. QED
      BY <3>1, <3>2, Zenon DEF Means
  <2>3. QED
    BY <2>1, <2>2
<1>4. QED
  BY <1>2, <1>3, Zenon DEF Means

LEMMA RegisterInit == Init => IInv
<1> SUFFICES ASSUME Init PROVE IInv
  OBVIOUS
<1> USE RegisterAssumption
<1>1. PICK q \in Seq(Phys) :
        /\ Distinct(q) /\ Elements(q) = Phys
        /\ alloc = NewAllocator(q)
  BY DEF Init
<1>2. /\ window = << >> /\ Len(window) = 0 /\ alloc.free = q
      /\ alloc.front = [r \in Arch |-> None] /\ alloc.back = [r \in Arch |-> None]
      /\ alloc.file = [p \in Phys |-> Unused]
  BY <1>1 DEF Init, NewAllocator
<1>3. TypeOK
  BY <1>1, <1>2 DEF TypeOK, NewAllocator, Unused
<1>4. OneOwner
  <2>1. NamedOnce
    BY <1>1, <1>2 DEF NamedOnce
  <2>2. ASSUME NEW p \in Phys
        PROVE  Free(p) /\ ~ Committed(p) /\ ~ Pending(p) /\ ~ alloc.file[p].busy
    BY <1>1, <1>2 DEF Free, Committed, Pending, Unused
  <2>3. QED
    BY <2>1, <2>2 DEF OneOwner
<1>5. FrontMeans
  BY <1>2 DEF FrontMeans, Means
<1>6. QED
  BY <1>2, <1>3, <1>4, <1>5
     DEF IInv, SourcesStable, WaitsForProducer, FileKnows

\* The next free register is neither committed nor awaited, and is free once.
LEMMA TakeFree ==
  ASSUME IInv, alloc.free # << >>
  PROVE  LET p == Head(alloc.free) IN
         /\ p \in Phys /\ Free(p) /\ ~ Committed(p) /\ ~ Pending(p)
         /\ Tail(alloc.free) \in Seq(Phys) /\ Distinct(Tail(alloc.free))
         /\ Elements(Tail(alloc.free)) = Elements(alloc.free) \ {p}
<1>1. /\ alloc.free \in Seq(Phys) /\ Distinct(alloc.free)
      /\ \A p \in Phys : ~ (Free(p) /\ Committed(p)) /\ ~ (Free(p) /\ Pending(p))
  BY DEF IInv, TypeOK, OneOwner, NamedOnce
<1>2. QED
  BY <1>1, ElementsTail, ElementsSubset DEF Free

\* The sources in the window keep their meaning when a use comes after them.
LEMMA OldSources ==
  ASSUME IInv, NEW u, Extends(window, u, window'),
         \A j \in 1 .. Len(window) :
           ~ window[j].written => alloc'.back[window[j].reg] = alloc.back[window[j].reg]
  PROVE  \A j \in 1 .. Len(window) :
           ~ window[j].written
             => Means(alloc'.back, window', window[j].reg, window[j].phys, j)
<1>1. ASSUME NEW j \in 1 .. Len(window), ~ window[j].written
      PROVE  Means(alloc'.back, window', window[j].reg, window[j].phys, j)
  <2>1. j \in 1 .. Len(window) + 1
    BY DEF Extends
  <2>2. Means(alloc.back, window, window[j].reg, window[j].phys, j)
    BY <1>1 DEF IInv, SourcesStable
  <2>3. Means(alloc'.back, window, window[j].reg, window[j].phys, j)
    BY <1>1, <2>2 DEF Means
  <2>4. QED
    BY <2>1, <2>3, MeansOlder
<1>2. QED
  BY <1>1

\* Nor do they wait for nothing, if only a register changes in the file that was
\* neither committed nor pending.
LEMMA OldWaits ==
  ASSUME IInv, NEW u, Extends(window, u, window'),
         NEW p, ~ Committed(p), ~ Pending(p),
         \A x \in Phys : x # p => alloc'.file[x] = alloc.file[x]
  PROVE  \A j \in 1 .. Len(window) :
           ~ window[j].written /\ ~ alloc'.file[window[j].phys].valid
             => \E i \in 1 .. Len(window') :
                  i < j /\ window'[i] = Use(window[j].reg, window[j].phys, TRUE)
<1>1. \A i \in 1 .. Len(window) : i \in 1 .. Len(window') /\ window'[i] = window[i]
  BY DEF Extends
<1>2. ASSUME NEW j \in 1 .. Len(window), ~ window[j].written,
             ~ alloc'.file[window[j].phys].valid
      PROVE  \E i \in 1 .. Len(window') :
               i < j /\ window'[i] = Use(window[j].reg, window[j].phys, TRUE)
  <2>1. window[j].reg \in Arch /\ window[j].phys \in Phys
    BY UsesTyped DEF IInv
  <2>2. Means(alloc.back, window, window[j].reg, window[j].phys, j)
    BY <1>2 DEF IInv, SourcesStable
  <2>3. window[j].phys # p
    BY <2>1, <2>2, MeansLive DEF Committed, Pending
  <2>4. ~ alloc.file[window[j].phys].valid
    BY <2>1, <2>3, <1>2
  <2>5. PICK i \in 1 .. Len(window) :
          i < j /\ window[i] = Use(window[j].reg, window[j].phys, TRUE)
    BY <2>4, <1>2 DEF IInv, WaitsForProducer
  <2>6. QED
    BY <2>5, <1>1
<1>3. QED
  BY <1>2

LEMMA DestinationInv ==
  ASSUME IInv, NEW reg \in Arch, Destination(reg)
  PROVE  IInv'
<1> USE RegisterAssumption
<1> DEFINE p == Head(alloc.free)
           u == Use(reg, p, TRUE)
           n == Len(window)
<1>1. /\ p \in Phys /\ Free(p) /\ ~ Committed(p) /\ ~ Pending(p)
      /\ Tail(alloc.free) \in Seq(Phys) /\ Distinct(Tail(alloc.free))
      /\ Elements(Tail(alloc.free)) = Elements(alloc.free) \ {p}
  BY TakeFree DEF Destination
<1>2. u \in Uses /\ u.reg = reg /\ u.phys = p /\ u.written
  BY <1>1 DEF Use, Uses
<1> HIDE DEF u
<1>3. window' \in Seq(Uses) /\ Extends(window, u, window')
  BY <1>2, WindowAppend DEF IInv, Destination, u
<1>4. /\ n \in Nat /\ Len(window') = n + 1
      /\ \A i \in 1 .. n : window'[i] = window[i]
      /\ window'[n + 1] = u
      /\ \A i \in 1 .. Len(window') : i \in 1 .. n \/ i = n + 1
  BY <1>3 DEF Extends
<1>5. /\ alloc'.free = Tail(alloc.free)
      /\ alloc'.front = [alloc.front EXCEPT ![reg] = p]
      /\ alloc'.back = alloc.back
      /\ alloc'.file = [alloc.file EXCEPT
                          ![p] = [arch |-> reg, valid |-> FALSE, busy |-> TRUE]]
      /\ alloc' = RenameDest(alloc, reg)
  BY DEF Destination, RenameDest
<1> HIDE DEF p, n
<1>6. TypeOK'
  BY <1>1, <1>3, <1>5 DEF IInv, TypeOK, RenameDest, Uses
<1>7. OneOwner'
  <2>1. /\ \A x \in Phys : Free(x)' <=> Free(x) /\ x # p
        /\ \A x \in Phys : Committed(x)' <=> Committed(x)
    BY <1>1, <1>5 DEF Free, Committed
  <2>2. ASSUME NEW x \in Phys PROVE Pending(x)' <=> Pending(x) \/ x = p
    BY <1>2, <1>4 DEF Pending, n
  <2>3. Distinct(alloc'.free)
    BY <1>1, <1>5
  <2>4. ASSUME NEW i \in 1 .. Len(window'), NEW j \in 1 .. Len(window'),
               window'[i].written, window'[j].written,
               window'[i].phys = window'[j].phys
        PROVE  i = j
    BY <2>4, <1>1, <1>2, <1>4 DEF IInv, OneOwner, NamedOnce, Pending, n
  <2>5. \A q, r \in Arch :
          alloc'.back[q] = alloc'.back[r] /\ alloc'.back[q] # None => q = r
    BY <1>5 DEF IInv, OneOwner, NamedOnce
  <2>6. ASSUME NEW x \in Phys
        PROVE  /\ Free(x)' \/ Committed(x)' \/ Pending(x)'
               /\ ~ (Free(x)' /\ Committed(x)') /\ ~ (Free(x)' /\ Pending(x)')
               /\ ~ (Committed(x)' /\ Pending(x)')
               /\ alloc'.file[x].busy <=> ~ Free(x)'
    BY <1>1, <1>5, <2>1, <2>2 DEF IInv, OneOwner, TypeOK
  <2>7. QED
    BY <2>3, <2>4, <2>5, <2>6 DEF OneOwner, NamedOnce
<1>8. SourcesStable'
  <2>1. \A j \in 1 .. Len(window) :
          ~ window[j].written
            => Means(alloc'.back, window', window[j].reg, window[j].phys, j)
    BY <1>3, <1>5, OldSources
  <2>2. QED
    BY <2>1, <1>2, <1>4 DEF SourcesStable, n
<1>9. WaitsForProducer'
  <2>1. \A x \in Phys : x # p => alloc'.file[x] = alloc.file[x]
    BY <1>5 DEF IInv, TypeOK
  <2>2. \A j \in 1 .. Len(window) :
          ~ window[j].written /\ ~ alloc'.file[window[j].phys].valid
            => \E i \in 1 .. Len(window') :
                 i < j /\ window'[i] = Use(window[j].reg, window[j].phys, TRUE)
    BY <1>1, <1>3, <2>1, OldWaits
  <2>3. QED
    BY <2>2, <1>2, <1>4 DEF WaitsForProducer, n
<1>10. FrontMeans'
  <2>1. ASSUME NEW r \in Arch
        PROVE  Means(alloc'.back, window', r, alloc'.front[r], Len(window') + 1)
    <3>1. CASE r = reg
      <4>1. alloc'.front[r] = p
        BY <3>1, <1>5 DEF IInv, TypeOK
      <4>2. QED
        BY <3>1, <4>1, <1>3, MeansWritten DEF u
    <3>2. CASE r # reg
      <4>1. alloc'.front[r] = alloc.front[r]
        BY <3>2, <1>5 DEF IInv, TypeOK
      <4>2. QED
        BY <3>2, <4>1, <1>2, <1>3, <1>5, MeansAtEnd DEF IInv, FrontMeans
    <3>3. QED
      BY <3>1, <3>2
  <2>2. QED
    BY <2>1 DEF FrontMeans
<1>11. FileKnows'
  <2>1. ASSUME NEW i \in 1 .. Len(window'), window'[i].written
        PROVE  alloc'.file[window'[i].phys].arch = window'[i].reg
    <3>1. CASE i = n + 1
      <4>1. window'[i].phys = p /\ window'[i].reg = reg
        BY <3>1, <1>2, <1>4
      <4>2. alloc'.file[p] = [arch |-> reg, valid |-> FALSE, busy |-> TRUE]
        BY <1>1, <1>5 DEF IInv, TypeOK
      <4>3. QED
        BY <4>1, <4>2
    <3>2. CASE i \in 1 .. n
      <4>1. window'[i] = window[i] /\ i \in 1 .. Len(window) /\ window[i].written
        BY <3>2, <2>1, <1>4 DEF n
      <4>2. window[i].phys \in Phys /\ window[i].phys # p
        BY <4>1, <1>1, UsesTyped DEF IInv, Pending
      <4>3. alloc'.file[window[i].phys] = alloc.file[window[i].phys]
        BY <4>2, <1>5 DEF IInv, TypeOK
      <4>4. alloc.file[window[i].phys].arch = window[i].reg
        BY <4>1 DEF IInv, FileKnows
      <4>5. QED
        BY <4>1, <4>3, <4>4
    <3>3. QED
      BY <3>1, <3>2, <1>4
  <2>2. ASSUME NEW r \in Arch, alloc'.back[r] # None
        PROVE  /\ alloc'.file[alloc'.back[r]].arch = r
               /\ alloc'.file[alloc'.back[r]].valid
    BY <2>2, <1>1, <1>5 DEF IInv, FileKnows, TypeOK, Committed
  <2>3. QED
    BY <2>1, <2>2 DEF FileKnows
<1>12. QED
  BY <1>6, <1>7, <1>8, <1>9, <1>10, <1>11 DEF IInv

\* A source that is mapped already.
LEMMA MappedSourceInv ==
  ASSUME IInv, NEW reg \in Arch, Source(reg), alloc.front[reg] # None
  PROVE  IInv'
<1> DEFINE p == alloc.front[reg]
           u == Use(reg, p, FALSE)
           n == Len(window)
<1>1. p \in Phys /\ u \in Uses /\ u.reg = reg /\ u.phys = p /\ ~ u.written
  BY DEF IInv, TypeOK, Use, Uses
<1>2. alloc' = alloc
  BY DEF Source, RenameSrc
<1>3. window' = Append(window, u)
  BY <1>2 DEF Source
<1> HIDE DEF u
<1>4. window' \in Seq(Uses) /\ Extends(window, u, window')
  BY <1>1, <1>3, WindowAppend DEF IInv
<1>5. /\ n \in Nat /\ Len(window') = n + 1
      /\ \A i \in 1 .. n : window'[i] = window[i]
      /\ window'[n + 1] = u
      /\ \A i \in 1 .. Len(window') : i \in 1 .. n \/ i = n + 1
  BY <1>4 DEF Extends
<1>6. Means(alloc.back, window, reg, p, n + 1)
  BY DEF IInv, FrontMeans
<1> HIDE DEF p, n
<1>7. TypeOK'
  BY <1>2, <1>4 DEF IInv, TypeOK, Uses
<1>8. OneOwner'
  <2>1. \A x \in Phys : Free(x)' = Free(x) /\ Committed(x)' = Committed(x)
    BY <1>2 DEF Free, Committed
  <2>2. ASSUME NEW x \in Phys PROVE Pending(x)' <=> Pending(x)
    BY <1>1, <1>5 DEF Pending, n
  <2>3. NamedOnce'
    BY <1>1, <1>2, <1>5 DEF IInv, OneOwner, NamedOnce, n
  <2>4. QED
    BY <1>2, <2>1, <2>2, <2>3 DEF IInv, OneOwner
<1>9. SourcesStable'
  <2>1. \A j \in 1 .. Len(window) :
          ~ window[j].written
            => Means(alloc'.back, window', window[j].reg, window[j].phys, j)
    BY <1>2, <1>4, OldSources
  <2>2. Means(alloc'.back, window', reg, p, n + 1)
    BY <1>2, <1>4, <1>5, <1>6, MeansOlder DEF n
  <2>3. QED
    BY <2>1, <2>2, <1>1, <1>5 DEF SourcesStable, n
<1>10. WaitsForProducer'
  <2>1. ASSUME NEW j \in 1 .. Len(window'), ~ window'[j].written,
               ~ alloc'.file[window'[j].phys].valid
        PROVE  \E i \in 1 .. Len(window') :
                 i < j /\ window'[i] = Use(window'[j].reg, window'[j].phys, TRUE)
    <3>1. CASE j \in 1 .. n
      <4>1. PICK i \in 1 .. n :
              i < j /\ window[i] = Use(window[j].reg, window[j].phys, TRUE)
        BY <3>1, <2>1, <1>2, <1>5 DEF IInv, WaitsForProducer, n
      <4>2. i \in 1 .. Len(window') /\ window'[i] = window[i] /\ window'[j] = window[j]
        BY <3>1, <1>5
      <4>3. QED
        BY <4>1, <4>2
    <3>2. CASE j = n + 1
      <4>1. window'[j] = u /\ ~ alloc.file[p].valid
        BY <3>2, <2>1, <1>1, <1>2, <1>5
      <4>2. alloc.back[reg] # p
        BY <4>1, <1>1, RegisterAssumption DEF IInv, FileKnows
      <4>3. PICK i \in 1 .. n : window[i] = Use(reg, p, TRUE)
        BY <4>2, <1>6, Zenon DEF Means, n
      <4>4. i \in 1 .. Len(window') /\ i < j /\ window'[i] = window[i]
        BY <3>2, <1>5
      <4>5. QED
        BY <4>1, <4>3, <4>4, <1>1
    <3>3. QED
      BY <3>1, <3>2, <1>5
  <2>2. QED
    BY <2>1 DEF WaitsForProducer
<1>11. FrontMeans'
  BY <1>1, <1>2, <1>4, MeansAtEnd DEF IInv, FrontMeans
<1>12. FileKnows'
  BY <1>1, <1>2, <1>5 DEF IInv, FileKnows, n
<1>13. QED
  BY <1>7, <1>8, <1>9, <1>10, <1>11, <1>12 DEF IInv

\* A source that the trace reads before it writes it: nothing in the window
\* is a use of it.
LEMMA FreshSourceInv ==
  ASSUME IInv, NEW reg \in Arch, Source(reg), alloc.front[reg] = None
  PROVE  IInv'
<1> USE RegisterAssumption
<1> DEFINE p == Head(alloc.free)
           u == Use(reg, p, FALSE)
           n == Len(window)
<1>1. /\ p \in Phys /\ Free(p) /\ ~ Committed(p) /\ ~ Pending(p)
      /\ Tail(alloc.free) \in Seq(Phys) /\ Distinct(Tail(alloc.free))
      /\ Elements(Tail(alloc.free)) = Elements(alloc.free) \ {p}
  BY TakeFree DEF Source
<1>2. u \in Uses /\ u.reg = reg /\ u.phys = p /\ ~ u.written
  BY <1>1 DEF Use, Uses
<1>3. /\ alloc'.free = Tail(alloc.free)
      /\ alloc'.front = [alloc.front EXCEPT ![reg] = p]
      /\ alloc'.back = [alloc.back EXCEPT ![reg] = p]
      /\ alloc'.file = [alloc.file EXCEPT
                          ![p] = [arch |-> reg, valid |-> TRUE, busy |-> TRUE]]
      /\ alloc' = RenameSrc(alloc, reg)
  BY DEF Source, RenameSrc
<1>4. window' = Append(window, u)
  BY <1>3 DEF Source, IInv, TypeOK
<1> HIDE DEF u
<1>5. window' \in Seq(Uses) /\ Extends(window, u, window')
  BY <1>2, <1>4, WindowAppend DEF IInv
<1>6. /\ n \in Nat /\ Len(window') = n + 1
      /\ \A i \in 1 .. n : window'[i] = window[i]
      /\ window'[n + 1] = u
      /\ \A i \in 1 .. Len(window') : i \in 1 .. n \/ i = n + 1
  BY <1>5 DEF Extends
<1>7. /\ alloc.back[reg] = None
      /\ \A i \in 1 .. n : ~ (window[i].written /\ window[i].reg = reg)
  <2>1. Means(alloc.back, window, reg, None, n + 1)
    BY DEF IInv, FrontMeans
  <2>2. \A i \in 1 .. n : window[i].phys # None /\ i < n + 1
    BY <1>6, UsesTyped DEF IInv, n
  <2>3. /\ alloc.back[reg] = None
        /\ \A i \in 1 .. n : i < n + 1 => ~ (window[i].written /\ window[i].reg = reg)
    <3>1. \A i \in 1 .. Len(window) :
            ~ (window[i].written /\ window[i].reg = reg /\ window[i].phys = None)
      BY <2>2 DEF n
    <3>2. QED
      BY <2>1, <3>1 DEF Means, Use, n
  <2>4. QED
    BY <2>2, <2>3
<1>8. /\ alloc'.back[reg] = p
      /\ \A r \in Arch : r # reg => alloc'.back[r] = alloc.back[r]
      /\ \A x \in Phys : x # p => alloc'.file[x] = alloc.file[x]
      /\ alloc'.file[p] = [arch |-> reg, valid |-> TRUE, busy |-> TRUE]
      /\ alloc'.front[reg] = p
      /\ \A r \in Arch : r # reg => alloc'.front[r] = alloc.front[r]
  BY <1>1, <1>3 DEF IInv, TypeOK
<1> HIDE DEF p, n
<1>9. TypeOK'
  BY <1>1, <1>3, <1>5 DEF IInv, TypeOK, RenameSrc, Uses
<1>10. OneOwner'
  <2>1. \A x \in Phys : Free(x)' <=> Free(x) /\ x # p
    BY <1>1, <1>3 DEF Free
  <2>2. \A x \in Phys : Committed(x)' <=> Committed(x) \/ x = p
    BY <1>7, <1>8 DEF Committed
  <2>3. ASSUME NEW x \in Phys PROVE Pending(x)' <=> Pending(x)
    BY <1>2, <1>6 DEF Pending, n
  <2>4. Distinct(alloc'.free)
    BY <1>1, <1>3
  <2>5. ASSUME NEW i \in 1 .. Len(window'), NEW j \in 1 .. Len(window'),
               window'[i].written, window'[j].written,
               window'[i].phys = window'[j].phys
        PROVE  i = j
    BY <2>5, <1>2, <1>6 DEF IInv, OneOwner, NamedOnce, n
  <2>6. ASSUME NEW q \in Arch, NEW r \in Arch, alloc'.back[q] = alloc'.back[r],
               alloc'.back[q] # None
        PROVE  q = r
    BY <2>6, <1>1, <1>8 DEF IInv, OneOwner, NamedOnce, Committed
  <2>7. ASSUME NEW x \in Phys
        PROVE  /\ Free(x)' \/ Committed(x)' \/ Pending(x)'
               /\ ~ (Free(x)' /\ Committed(x)') /\ ~ (Free(x)' /\ Pending(x)')
               /\ ~ (Committed(x)' /\ Pending(x)')
               /\ alloc'.file[x].busy <=> ~ Free(x)'
    BY <1>1, <1>8, <2>1, <2>2, <2>3 DEF IInv, OneOwner, TypeOK
  <2>8. QED
    BY <2>4, <2>5, <2>6, <2>7 DEF OneOwner, NamedOnce
<1>11. SourcesStable'
  <2>1. ASSUME NEW j \in 1 .. Len(window), ~ window[j].written
        PROVE  window[j].reg # reg
    <3>1. Means(alloc.back, window, window[j].reg, window[j].phys, j)
      BY <2>1 DEF IInv, SourcesStable
    <3>2. window[j].phys # None
      BY UsesTyped DEF IInv
    <3>3. SUFFICES ASSUME window[j].reg = reg PROVE FALSE
      OBVIOUS
    <3>4. alloc.back[reg] = window[j].phys
      <4>1. \A i \in 1 .. Len(window) :
              ~ (window[i].written /\ window[i].reg = reg /\ window[i].phys = window[j].phys)
        BY <1>7 DEF n
      <4>2. Means(alloc.back, window, reg, window[j].phys, j)
        BY <3>1, <3>3
      <4>3. QED
        BY <4>1, <4>2 DEF Means, Use
    <3>5. QED
      BY <3>2, <3>4, <1>7
  <2>2. \A j \in 1 .. Len(window) :
          ~ window[j].written
            => Means(alloc'.back, window', window[j].reg, window[j].phys, j)
    <3>1. \A j \in 1 .. Len(window) :
            ~ window[j].written
              => alloc'.back[window[j].reg] = alloc.back[window[j].reg]
      BY <2>1, <1>8, UsesTyped DEF IInv
    <3>2. QED
      BY <3>1, <1>5, OldSources
  <2>3. Means(alloc'.back, window', reg, p, n + 1)
    <3>1. \A i \in 1 .. Len(window') :
            i < n + 1 => ~ (window'[i].written /\ window'[i].reg = reg)
      BY <1>6, <1>7
    <3>2. QED
      BY <3>1, <1>8 DEF Means
  <2>4. QED
    BY <2>2, <2>3, <1>2, <1>6 DEF SourcesStable, n
<1>12. WaitsForProducer'
  <2>1. \A j \in 1 .. Len(window) :
          ~ window[j].written /\ ~ alloc'.file[window[j].phys].valid
            => \E i \in 1 .. Len(window') :
                 i < j /\ window'[i] = Use(window[j].reg, window[j].phys, TRUE)
    BY <1>1, <1>5, <1>8, OldWaits
  <2>2. ASSUME NEW j \in 1 .. Len(window'), ~ window'[j].written,
               ~ alloc'.file[window'[j].phys].valid
        PROVE  j \in 1 .. n /\ window'[j] = window[j]
    BY <2>2, <1>2, <1>6, <1>8
  <2>3. QED
    BY <2>1, <2>2 DEF WaitsForProducer, n
<1>13. FrontMeans'
  <2>1. ASSUME NEW r \in Arch
        PROVE  Means(alloc'.back, window', r, alloc'.front[r], Len(window') + 1)
    <3>1. CASE r = reg
      <4>1. \A i \in 1 .. Len(window') :
              ~ (window'[i].written /\ window'[i].reg = reg)
        BY <1>2, <1>6, <1>7
      <4>2. QED
        BY <3>1, <4>1, <1>8 DEF Means
    <3>2. CASE r # reg
      <4>1. Means(alloc'.back, window, r, alloc'.front[r], Len(window) + 1)
        <5>1. Means(alloc.back, window, r, alloc.front[r], Len(window) + 1)
          BY DEF IInv, FrontMeans
        <5>2. alloc'.back[r] = alloc.back[r] /\ alloc'.front[r] = alloc.front[r]
          BY <3>2, <1>8
        <5>3. QED
          BY <5>1, <5>2, Zenon DEF Means
      <4>2. QED
        BY <3>2, <4>1, <1>2, <1>5, MeansAtEnd
    <3>3. QED
      BY <3>1, <3>2
  <2>2. QED
    BY <2>1 DEF FrontMeans
<1>14. FileKnows'
  <2>1. ASSUME NEW i \in 1 .. Len(window'), window'[i].written
        PROVE  alloc'.file[window'[i].phys].arch = window'[i].reg
    <3>1. i \in 1 .. n /\ window'[i] = window[i]
      BY <2>1, <1>2, <1>6
    <3>2. window[i].phys \in Phys /\ window[i].phys # p
      BY <3>1, <2>1, <1>1, UsesTyped DEF IInv, Pending, n
    <3>3. QED
      BY <3>1, <3>2, <2>1, <1>8 DEF IInv, FileKnows, n
  <2>2. ASSUME NEW r \in Arch, alloc'.back[r] # None
        PROVE  /\ alloc'.file[alloc'.back[r]].arch = r
               /\ alloc'.file[alloc'.back[r]].valid
    <3>1. CASE r = reg
      BY <3>1, <1>8
    <3>2. CASE r # reg
      <4>1. alloc'.back[r] = alloc.back[r] /\ alloc.back[r] \in Phys
        BY <3>2, <2>2, <1>8 DEF IInv, TypeOK
      <4>2. QED
        BY <4>1, <2>2, <1>1, <1>8 DEF IInv, FileKnows, Committed
    <3>3. QED
      BY <3>1, <3>2
  <2>3. QED
    BY <2>1, <2>2 DEF FileKnows
<1>15. QED
  BY <1>9, <1>10, <1>11, <1>12, <1>13, <1>14 DEF IInv

LEMMA CompleteInv ==
  ASSUME IInv, NEW i \in 1 .. Len(window), Complete(i)
  PROVE  IInv'
<1> DEFINE p == window[i].phys
<1>1. p \in Phys
  BY UsesTyped DEF IInv
<1>2. /\ alloc' = CompleteDest(alloc, p) /\ window' = window
      /\ alloc'.free = alloc.free /\ alloc'.front = alloc.front
      /\ alloc'.back = alloc.back
      /\ alloc'.file = [alloc.file EXCEPT ![p] = [@ EXCEPT !.valid = TRUE]]
  BY DEF Complete, CompleteDest
<1> HIDE DEF p
<1>3. /\ \A x \in Phys : x # p => alloc'.file[x] = alloc.file[x]
      /\ alloc'.file[p].valid
      /\ \A x \in Phys : /\ alloc'.file[x].arch = alloc.file[x].arch
                          /\ alloc'.file[x].busy = alloc.file[x].busy
                          /\ alloc.file[x].valid => alloc'.file[x].valid
      /\ alloc'.file \in [Phys -> [arch : Arch \cup {None}, valid : BOOLEAN,
                                   busy : BOOLEAN]]
  <2> DEFINE Entries == [arch : Arch \cup {None}, valid : BOOLEAN, busy : BOOLEAN]
  <2>1. alloc.file \in [Phys -> Entries] /\ alloc.file[p] \in Entries
    BY <1>1 DEF IInv, TypeOK
  <2> DEFINE e == [alloc.file[p] EXCEPT !.valid = TRUE]
  <2>2. /\ e \in Entries /\ e.valid /\ e.arch = alloc.file[p].arch
        /\ e.busy = alloc.file[p].busy
    BY <2>1
  <2>3. alloc'.file = [alloc.file EXCEPT ![p] = e]
    BY <1>2
  <2> HIDE DEF e, Entries
  <2>4. alloc'.file \in [Phys -> Entries] /\ alloc'.file[p] = e
    BY <1>1, <2>1, <2>2, <2>3
  <2>5. \A x \in Phys : x # p => alloc'.file[x] = alloc.file[x]
    BY <2>1, <2>3
  <2>6. QED
    BY <2>2, <2>4, <2>5 DEF Entries
<1>4. TypeOK'
  BY <1>2, <1>3 DEF IInv, TypeOK, CompleteDest
<1>5. OneOwner'
  BY <1>2, <1>3 DEF IInv, OneOwner, NamedOnce, Free, Committed, Pending
<1>6. SourcesStable' /\ FrontMeans'
  BY <1>2 DEF IInv, SourcesStable, FrontMeans
<1>7. WaitsForProducer'
  <2>1. ASSUME NEW j \in 1 .. Len(window), ~ window[j].written,
               ~ alloc'.file[window[j].phys].valid
        PROVE  \E k \in 1 .. Len(window) :
                 k < j /\ window[k] = Use(window[j].reg, window[j].phys, TRUE)
    <3>1. window[j].phys \in Phys
      BY UsesTyped DEF IInv
    <3>2. ~ alloc.file[window[j].phys].valid
      BY <2>1, <3>1, <1>3
    <3>3. QED
      BY <2>1, <3>2 DEF IInv, WaitsForProducer
  <2>2. QED
    BY <2>1, <1>2 DEF WaitsForProducer
<1>8. FileKnows'
  <2>1. \A j \in 1 .. Len(window) : window[j].phys \in Phys
    BY UsesTyped DEF IInv
  <2>2. \A r \in Arch : alloc.back[r] # None => alloc.back[r] \in Phys
    BY DEF IInv, TypeOK
  <2>3. QED
    BY <1>2, <1>3, <2>1, <2>2 DEF IInv, FileKnows
<1>9. QED
  BY <1>4, <1>5, <1>6, <1>7, <1>8 DEF IInv

\* A source leaves the window.
LEMMA RetireSourceInv ==
  ASSUME IInv, Retire, ~ Head(window).written
  PROVE  IInv'
<1>1. alloc' = alloc /\ window # << >> /\ window' = Tail(window)
  BY DEF Retire
<1>2. /\ window' \in Seq(Uses) /\ Shortens(window, window') /\ ~ window[1].written
      /\ Len(window) \in Nat \ {0} /\ Len(window') = Len(window) - 1
      /\ \A i \in 1 .. Len(window') :
           i + 1 \in 1 .. Len(window) /\ window'[i] = window[i + 1]
  BY <1>1, WindowTail DEF IInv, Shortens
<1>3. \A i \in 1 .. Len(window) :
        i # 1 => i - 1 \in 1 .. Len(window') /\ window'[i - 1] = window[i]
  BY <1>2
<1>4. TypeOK'
  BY <1>1, <1>2 DEF IInv, TypeOK, Uses
<1>5. OneOwner'
  <2>1. \A x \in Phys : Free(x)' = Free(x) /\ Committed(x)' = Committed(x)
    BY <1>1 DEF Free, Committed
  <2>2. ASSUME NEW x \in Phys PROVE Pending(x)' <=> Pending(x)
    <3>1. ASSUME NEW i \in 1 .. Len(window), window[i].written, window[i].phys = x
          PROVE  Pending(x)'
      <4>1. i - 1 \in 1 .. Len(window') /\ window'[i - 1] = window[i]
        BY <3>1, <1>2, <1>3
      <4>2. QED
        BY <3>1, <4>1 DEF Pending
    <3>2. ASSUME NEW i \in 1 .. Len(window'), window'[i].written, window'[i].phys = x
          PROVE  Pending(x)
      BY <3>2, <1>2 DEF Pending
    <3>3. QED
      BY <3>1, <3>2 DEF Pending
  <2>3. NamedOnce'
    <3>1. ASSUME NEW i \in 1 .. Len(window'), NEW j \in 1 .. Len(window'),
                 window'[i].written, window'[j].written,
                 window'[i].phys = window'[j].phys
          PROVE  i = j
      <4>1. /\ i + 1 \in 1 .. Len(window) /\ j + 1 \in 1 .. Len(window)
            /\ window[i + 1] = window'[i] /\ window[j + 1] = window'[j]
        BY <1>2
      <4>2. i + 1 = j + 1
        BY <3>1, <4>1 DEF IInv, OneOwner, NamedOnce
      <4>3. QED
        BY <4>2
    <3>2. QED
      BY <3>1, <1>1 DEF IInv, OneOwner, NamedOnce
  <2>4. QED
    BY <1>1, <2>1, <2>2, <2>3 DEF IInv, OneOwner
<1>10. ASSUME NEW r PROVE Commits(alloc.back, alloc'.back, window, r)
  BY <1>1, <1>2 DEF Commits
<1>6. SourcesStable'
  <2>1. ASSUME NEW j \in 1 .. Len(window'), ~ window'[j].written
        PROVE  Means(alloc'.back, window', window'[j].reg, window'[j].phys, j)
    <3>1. Means(alloc.back, window, window'[j].reg, window'[j].phys, j + 1)
      BY <2>1, <1>2 DEF IInv, SourcesStable
    <3>2. j \in Nat \ {0}
      OBVIOUS
    <3>3. Shortens(window, window') /\ Commits(alloc.back, alloc'.back, window, window'[j].reg)
      BY <1>2, <1>10
    <3>4. QED
      BY <3>1, <3>2, <3>3, MeansRetire
  <2>2. QED
    BY <2>1 DEF SourcesStable
<1>7. WaitsForProducer'
  <2>1. ASSUME NEW j \in 1 .. Len(window'), ~ window'[j].written,
               ~ alloc'.file[window'[j].phys].valid
        PROVE  \E i \in 1 .. Len(window') :
                 i < j /\ window'[i] = Use(window'[j].reg, window'[j].phys, TRUE)
    <3>1. PICK i \in 1 .. Len(window) :
            i < j + 1 /\ window[i] = Use(window[j + 1].reg, window[j + 1].phys, TRUE)
      BY <2>1, <1>1, <1>2 DEF IInv, WaitsForProducer
    <3>2. i # 1
      BY <3>1, <1>2 DEF Use
    <3>3. i - 1 \in 1 .. Len(window') /\ i - 1 < j /\ window'[i - 1] = window[i]
      <4>1. i < j + 1 /\ i \in Int /\ j \in Int
        BY <3>1
      <4>2. QED
        BY <4>1, <3>2, <1>3
    <3>4. window'[j] = window[j + 1]
      BY <1>2
    <3>5. window'[i - 1] = Use(window'[j].reg, window'[j].phys, TRUE)
      BY <3>1, <3>3, <3>4
    <3>6. QED
      BY <3>3, <3>5
  <2>2. QED
    BY <2>1 DEF WaitsForProducer
<1>8. FrontMeans'
  <2>1. ASSUME NEW r \in Arch
        PROVE  Means(alloc'.back, window', r, alloc'.front[r], Len(window') + 1)
    <3>1. Len(window') + 1 \in Nat \ {0} /\ Len(window') + 1 + 1 = Len(window) + 1
      BY <1>2
    <3>2. Means(alloc.back, window, r, alloc'.front[r], Len(window') + 1 + 1)
      BY <3>1, <1>1 DEF IInv, FrontMeans
    <3>3. Shortens(window, window') /\ Commits(alloc.back, alloc'.back, window, r)
      BY <1>2, <1>10
    <3>4. QED
      BY <3>1, <3>2, <3>3, MeansRetire
  <2>2. QED
    BY <2>1 DEF FrontMeans
<1>9. FileKnows'
  BY <1>1, <1>2 DEF IInv, FileKnows
<1>11. QED
  BY <1>4, <1>5, <1>6, <1>7, <1>8, <1>9 DEF IInv

\* A write commits: its register takes the place of the one that was committed
\* before, which is free.  No source in the window is that register: those that
\* are meant the value that commits now or a later one.
LEMMA RetireWriteInv ==
  ASSUME IInv, Retire, Head(window).written
  PROVE  IInv'
<1> USE RegisterAssumption
<1> DEFINE p == Head(window).phys
           reg == Head(window).reg
           old == alloc.back[reg]
<1>1. /\ window # << >> /\ window' = Tail(window) /\ alloc.file[p].valid
      /\ alloc' = RetireDest(alloc, p)
  BY DEF Retire
<1>2. /\ window' \in Seq(Uses) /\ Shortens(window, window')
      /\ Len(window) \in Nat \ {0} /\ Len(window') = Len(window) - 1
      /\ 1 \in 1 .. Len(window)
      /\ window[1] = Head(window) /\ window[1] \in Uses
      /\ \A i \in 1 .. Len(window') :
           i + 1 \in 1 .. Len(window) /\ window'[i] = window[i + 1]
  BY <1>1, WindowTail DEF IInv, Shortens
<1>3. \A i \in 1 .. Len(window) :
        i # 1 => i - 1 \in 1 .. Len(window') /\ window'[i - 1] = window[i]
  BY <1>2
<1>4. /\ window[1].written /\ window[1].reg = reg /\ window[1].phys = p
      /\ reg \in Arch /\ p \in Phys /\ alloc.file[p].arch = reg
      /\ old \in Phys \cup {None}
  BY <1>2 DEF Uses, IInv, FileKnows, TypeOK
<1>5. /\ Pending(p) /\ ~ Committed(p) /\ ~ Free(p)
      /\ old # None => Committed(old) /\ ~ Free(old) /\ ~ Pending(old) /\ old # p
  <2>1. Pending(p)
    BY <1>2, <1>4 DEF Pending
  <2>2. old # None => Committed(old)
    BY <1>4 DEF Committed
  <2>3. QED
    BY <2>1, <2>2, <1>4 DEF IInv, OneOwner
<1>6. /\ alloc'.free = IF old = None THEN alloc.free ELSE Append(alloc.free, old)
      /\ alloc'.front = alloc.front
      /\ alloc'.back = [alloc.back EXCEPT ![reg] = p]
      /\ alloc'.file = IF old = None THEN alloc.file
                                     ELSE [alloc.file EXCEPT ![old] = Unused]
      /\ alloc' = [free |-> alloc'.free, front |-> alloc'.front,
                   back |-> alloc'.back, file |-> alloc'.file]
  BY <1>1, <1>4 DEF RetireDest
<1> HIDE DEF p, reg, old
<1>7. /\ alloc'.back[reg] = p
      /\ \A r \in Arch : r # reg => alloc'.back[r] = alloc.back[r]
      /\ alloc'.back \in [Arch -> Phys \cup {None}]
      /\ \A x \in Phys : x # old => alloc'.file[x] = alloc.file[x]
      /\ old # None => alloc'.file[old] = Unused
  BY <1>4, <1>6 DEF IInv, TypeOK
<1>8. /\ alloc'.free \in Seq(Phys) /\ Distinct(alloc'.free)
      /\ \A x \in Phys : Free(x)' <=> Free(x) \/ x = old
  <2>1. alloc.free \in Seq(Phys) /\ Distinct(alloc.free)
    BY DEF IInv, TypeOK, OneOwner, NamedOnce
  <2>2. CASE old = None
    BY <2>1, <2>2, <1>6 DEF Free
  <2>3. CASE old # None
    <3>1. old \in Phys /\ old \notin Elements(alloc.free)
      BY <2>3, <1>4, <1>5 DEF Free
    <3>2. QED
      BY <2>1, <2>3, <3>1, <1>6, ElementsAppend DEF Free
  <2>4. QED
    BY <2>2, <2>3
<1>9. TypeOK'
  <2>1. alloc'.file \in [Phys -> [arch : Arch \cup {None}, valid : BOOLEAN,
                                 busy : BOOLEAN]]
    BY <1>4, <1>6 DEF IInv, TypeOK, Unused
  <2>2. alloc'.front \in [Arch -> Phys \cup {None}]
    BY <1>6 DEF IInv, TypeOK
  <2>3. alloc' \in [free : Seq(Phys), front : [Arch -> Phys \cup {None}],
                   back : [Arch -> Phys \cup {None}],
                   file : [Phys -> [arch : Arch \cup {None}, valid : BOOLEAN,
                                    busy : BOOLEAN]]]
    BY <2>1, <2>2, <1>6, <1>7, <1>8
  <2>4. QED
    BY <2>3, <1>2 DEF TypeOK, Uses
<1>10. \A i \in 1 .. Len(window) :
         window[i].written /\ window[i].phys = p => i = 1
  BY <1>2, <1>4 DEF IInv, OneOwner, NamedOnce
<1>11. OneOwner'
  <2>1. ASSUME NEW x \in Phys
        PROVE  Committed(x)' <=> (Committed(x) /\ x # old) \/ x = p
    BY <1>4, <1>5, <1>7 DEF Committed, IInv, OneOwner, NamedOnce, old
  <2>2. ASSUME NEW x \in Phys PROVE Pending(x)' <=> Pending(x) /\ x # p
    <3>1. ASSUME NEW i \in 1 .. Len(window), window[i].written, window[i].phys = x,
                 x # p
          PROVE  Pending(x)'
      <4>1. i - 1 \in 1 .. Len(window') /\ window'[i - 1] = window[i]
        BY <3>1, <1>3, <1>4
      <4>2. QED
        BY <3>1, <4>1 DEF Pending
    <3>2. ASSUME NEW i \in 1 .. Len(window'), window'[i].written, window'[i].phys = x
          PROVE  Pending(x) /\ x # p
      <4>1. i + 1 \in 1 .. Len(window) /\ window'[i] = window[i + 1] /\ i + 1 # 1
        BY <1>2
      <4>2. QED
        BY <3>2, <4>1, <1>10 DEF Pending
    <3>3. QED
      BY <3>1, <3>2 DEF Pending
  <2>3. ASSUME NEW i \in 1 .. Len(window'), NEW j \in 1 .. Len(window'),
               window'[i].written, window'[j].written,
               window'[i].phys = window'[j].phys
        PROVE  i = j
    <3>1. /\ i + 1 \in 1 .. Len(window) /\ j + 1 \in 1 .. Len(window)
          /\ window[i + 1] = window'[i] /\ window[j + 1] = window'[j]
      BY <1>2
    <3>2. i + 1 = j + 1
      BY <2>3, <3>1 DEF IInv, OneOwner, NamedOnce
    <3>3. QED
      BY <3>2
  <2>4. ASSUME NEW q \in Arch, NEW r \in Arch, alloc'.back[q] = alloc'.back[r],
               alloc'.back[q] # None
        PROVE  q = r
    <3>1. \A t \in Arch : t # reg => alloc'.back[t] # p
      BY <1>5, <1>7 DEF Committed
    <3>2. CASE q = reg \/ r = reg
      BY <2>4, <3>1, <3>2, <1>7
    <3>3. CASE q # reg /\ r # reg
      <4>1. alloc.back[q] = alloc.back[r] /\ alloc.back[q] # None
        BY <2>4, <3>3, <1>7
      <4>2. QED
        BY <4>1 DEF IInv, OneOwner, NamedOnce
    <3>4. QED
      BY <3>2, <3>3
  <2>5. ASSUME NEW x \in Phys
        PROVE  /\ Free(x)' \/ Committed(x)' \/ Pending(x)'
               /\ ~ (Free(x)' /\ Committed(x)') /\ ~ (Free(x)' /\ Pending(x)')
               /\ ~ (Committed(x)' /\ Pending(x)')
    BY <1>4, <1>5, <1>8, <2>1, <2>2 DEF IInv, OneOwner
  <2>6. ASSUME NEW x \in Phys PROVE alloc'.file[x].busy <=> ~ Free(x)'
    <3>1. CASE x = old
      BY <3>1, <1>4, <1>7, <1>8 DEF Unused
    <3>2. CASE x # old
      BY <3>2, <1>7, <1>8 DEF IInv, OneOwner
    <3>3. QED
      BY <3>1, <3>2
  <2>7. QED
    BY <1>8, <2>3, <2>4, <2>5, <2>6 DEF OneOwner, NamedOnce
<1>12. ASSUME NEW r \in Arch, NEW x, NEW j \in Nat \ {0},
              Means(alloc.back, window, r, x, j + 1)
       PROVE  Means(alloc'.back, window', r, x, j)
  <2>1. Shortens(window, window')
    BY <1>2
  <2>2. window[1].written /\ window[1].reg = r => alloc'.back[r] = window[1].phys
    BY <1>4, <1>7
  <2>3. ~ (window[1].written /\ window[1].reg = r) => alloc'.back[r] = alloc.back[r]
    BY <1>4, <1>7
  <2>4. Commits(alloc.back, alloc'.back, window, r)
    BY <2>2, <2>3 DEF Commits
  <2>5. QED
    BY <2>1, <2>4, <1>12, MeansRetire
<1>13. \A j \in 1 .. Len(window') :
         /\ j \in Nat \ {0}
         /\ window'[j].reg \in Arch /\ window'[j].phys \in Phys
  BY <1>2, UsesTyped DEF IInv
<1>14. ASSUME NEW j \in 1 .. Len(window'), ~ window'[j].written
       PROVE  Means(alloc'.back, window', window'[j].reg, window'[j].phys, j)
  <2>1. Means(alloc.back, window, window'[j].reg, window'[j].phys, j + 1)
    BY <1>14, <1>2 DEF IInv, SourcesStable
  <2>2. QED
    BY <2>1, <1>12, <1>13
<1>15. WaitsForProducer'
  <2>1. ASSUME NEW j \in 1 .. Len(window'), ~ window'[j].written,
               ~ alloc'.file[window'[j].phys].valid
        PROVE  \E i \in 1 .. Len(window') :
                 i < j /\ window'[i] = Use(window'[j].reg, window'[j].phys, TRUE)
    <3>1. ASSUME NEW x \in Phys, x = window'[j].phys
          PROVE  alloc'.file[x] = alloc.file[x]
      <4>1. Committed(x)' \/ Pending(x)'
        BY <3>1, <1>13, <1>14, <2>1, MeansLive DEF Committed, Pending
      <4>2. QED
        BY <4>1, <1>7, <1>8, <1>11 DEF OneOwner
    <3>2. ~ alloc.file[window'[j].phys].valid
      BY <3>1, <2>1, <1>13
    <3>3. PICK i \in 1 .. Len(window) :
            i < j + 1 /\ window[i] = Use(window[j + 1].reg, window[j + 1].phys, TRUE)
      BY <2>1, <3>2, <1>2 DEF IInv, WaitsForProducer
    <3>4. window'[j] = window[j + 1] /\ window[i].phys = window'[j].phys
      BY <3>3, <1>2 DEF Use
    <3>5. i # 1
      BY <3>2, <3>4, <1>1, <1>4
    <3>6. i - 1 \in 1 .. Len(window') /\ i - 1 < j /\ window'[i - 1] = window[i]
      <4>1. i < j + 1 /\ i \in Int /\ j \in Int
        BY <3>3
      <4>2. QED
        BY <4>1, <3>5, <1>3
    <3>7. window'[i - 1] = Use(window'[j].reg, window'[j].phys, TRUE)
      BY <3>3, <3>4, <3>6
    <3>8. QED
      BY <3>6, <3>7
  <2>2. QED
    BY <2>1 DEF WaitsForProducer
<1>16. FrontMeans'
  <2>1. ASSUME NEW r \in Arch
        PROVE  Means(alloc'.back, window', r, alloc'.front[r], Len(window') + 1)
    <3>1. Len(window') + 1 \in Nat \ {0} /\ Len(window') + 1 + 1 = Len(window) + 1
      BY <1>2
    <3>2. Means(alloc.back, window, r, alloc'.front[r], Len(window') + 1 + 1)
      BY <3>1, <1>6 DEF IInv, FrontMeans
    <3>3. QED
      BY <3>1, <3>2, <1>12
  <2>2. QED
    BY <2>1 DEF FrontMeans
<1>17. FileKnows'
  <2>1. ASSUME NEW i \in 1 .. Len(window'), window'[i].written
        PROVE  alloc'.file[window'[i].phys].arch = window'[i].reg
    <3>1. window[i + 1].written /\ window'[i] = window[i + 1] /\ i + 1 \in 1 .. Len(window)
      BY <2>1, <1>2
    <3>2. window'[i].phys # old
      BY <3>1, <1>5, <1>13, RegisterAssumption DEF Pending
    <3>3. QED
      BY <3>1, <3>2, <1>7, <1>13 DEF IInv, FileKnows
  <2>2. ASSUME NEW r \in Arch, alloc'.back[r] # None
        PROVE  /\ alloc'.file[alloc'.back[r]].arch = r
               /\ alloc'.file[alloc'.back[r]].valid
    <3>1. CASE r = reg
      <4>1. p # old
        BY <1>4, <1>5
      <4>2. QED
        BY <3>1, <4>1, <1>1, <1>4, <1>7
    <3>2. CASE r # reg
      <4>1. alloc'.back[r] = alloc.back[r] /\ alloc.back[r] \in Phys
        BY <3>2, <2>2, <1>7 DEF IInv, TypeOK
      <4>2. alloc.back[r] # old
        BY <3>2, <4>1, <1>4 DEF IInv, OneOwner, NamedOnce, old
      <4>3. QED
        BY <4>1, <4>2, <2>2, <1>7 DEF IInv, FileKnows
    <3>3. QED
      BY <3>1, <3>2
  <2>3. QED
    BY <2>1, <2>2 DEF FileKnows
<1>18. QED
  BY <1>9, <1>11, <1>14, <1>15, <1>16, <1>17 DEF IInv, SourcesStable

-----------------------------------------------------------------------------
LEMMA RegisterStep == IInv /\ [Next]_vars => IInv'
<1> SUFFICES ASSUME IInv, [Next]_vars PROVE IInv'
  OBVIOUS
<1>1. ASSUME NEW reg \in Arch, Source(reg) PROVE IInv'
  BY <1>1, MappedSourceInv, FreshSourceInv
<1>2. ASSUME NEW reg \in Arch, Destination(reg) PROVE IInv'
  BY <1>2, DestinationInv
<1>3. ASSUME NEW i \in 1 .. Len(window), Complete(i) PROVE IInv'
  BY <1>3, CompleteInv
<1>4. CASE Retire
  BY <1>4, RetireSourceInv, RetireWriteInv
<1>5. CASE UNCHANGED vars
  <2>1. alloc' = alloc /\ window' = window
    BY <1>5 DEF vars
  <2>2. TypeOK' /\ SourcesStable' /\ WaitsForProducer'
    BY <2>1 DEF IInv, TypeOK, SourcesStable, WaitsForProducer
  <2>3. OneOwner'
    BY <2>1 DEF IInv, OneOwner, NamedOnce, Free, Committed, Pending
  <2>4. FrontMeans' /\ FileKnows'
    BY <2>1 DEF IInv, FrontMeans, FileKnows
  <2>5. QED
    BY <2>2, <2>3, <2>4 DEF IInv
<1>6. QED
  BY <1>1, <1>2, <1>3, <1>4, <1>5 DEF Next

\* The invariant that the theorems follow from.
THEOREM RegisterInvariant == Spec => []IInv
<1>1. QED
  BY RegisterInit, RegisterStep, PTL DEF Spec

\* The tables and the file keep their types: -1 is never queued as a free
\* register (retire_dest_register).
THEOREM RegistersTyped == Spec => []TypeOK
<1>1. IInv => TypeOK
  BY DEF IInv
<1>2. QED
  BY <1>1, RegisterInvariant, PTL

\* Whatever the order in which instructions complete, the free queue, the
\* backend table and the destinations in the ROB share out the physical
\* registers: rename_dest_register never hands out one that is in use, and
\* retire_dest_register loses none.
THEOREM RegistersSharedOut == Spec => []OneOwner
<1>1. IInv => OneOwner
  BY DEF IInv
<1>2. QED
  BY <1>1, RegisterInvariant, PTL

\* A renamed source (do_scheduling) means the value program order gives it
\* until its instruction retires.
THEOREM SourcesKeepMeaning == Spec => []SourcesStable
<1>1. IInv => SourcesStable
  BY DEF IInv
<1>2. QED
  BY <1>1, RegisterInvariant, PTL

\* No instruction waits (execute_instruction) for a register that no older
\* instruction in the ROB will write.
THEOREM NoLostWakeup == Spec => []WaitsForProducer
<1>1. IInv => WaitsForProducer
  BY DEF IInv
<1>2. QED
  BY <1>1, RegisterInvariant, PTL
=============================================================================
