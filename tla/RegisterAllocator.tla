------------------------- MODULE RegisterAllocator -------------------------
(***************************************************************************)
(* Register renaming (register_allocator.cc) and what it is used by: the   *)
(* window of register uses, in program order, that are renamed and not     *)
(* retired.                                                                *)
(*                                                                         *)
(* The operations work on a record, so that O3BackEnd can use them too.    *)
(* Here each is an action of its own; the processor calls rename_src for   *)
(* the sources of an instruction, then rename_dest for its destinations,   *)
(* instructions in program order (do_scheduling), and retires uses in that *)
(* order (retire_rob).                                                     *)
(***************************************************************************)
EXTENDS Naturals, Sequences, FiniteSets, Queues

CONSTANTS
  Arch,        \* the registers of the program
  Phys,        \* the physical registers
  None,        \* -1: no mapping
  MAX_WINDOW   \* bound: uses that are renamed and not retired

ASSUME RegisterAssumption ==
  /\ None \notin Phys
  /\ MAX_WINDOW \in Nat

VARIABLES
  alloc,    \* free: the queue of free registers; front, back: the tables;
            \* file: for each physical register its arch, valid and busy
  window    \* the uses: register reg, its physical register phys, and
            \* whether it is written

vars == <<alloc, window>>

-----------------------------------------------------------------------------
(* The operations *)

Unused == [arch |-> None, valid |-> FALSE, busy |-> FALSE]

\* RegisterAllocator(n); the registers are free in some order q.
NewAllocator(q) ==
  [free |-> q, front |-> [r \in Arch |-> None], back |-> [r \in Arch |-> None],
   file |-> [p \in Phys |-> Unused]]

\* rename_dest_register
RenameDest(a, reg) ==
  [free |-> Tail(a.free), front |-> [a.front EXCEPT ![reg] = Head(a.free)],
   back |-> a.back,
   file |-> [a.file EXCEPT ![Head(a.free)] =
                             [arch |-> reg, valid |-> FALSE, busy |-> TRUE]]]

\* Mutant of RenameSrc: a committed mapping is preferred.
RenameSrcCommitted(a, reg) ==
  IF a.back[reg] # None THEN [a EXCEPT !.front[reg] = a.back[reg]]
  ELSE IF a.front[reg] # None THEN a
  ELSE [free |-> Tail(a.free),
        front |-> [a.front EXCEPT ![reg] = Head(a.free)],
        back |-> [a.back EXCEPT ![reg] = Head(a.free)],
        file |-> [a.file EXCEPT ![Head(a.free)] =
                                  [arch |-> reg, valid |-> TRUE, busy |-> TRUE]]]

\* Mutant of RenameSrc: the value is taken to be still in flight.
RenameSrcInFlight(a, reg) ==
  IF a.front[reg] # None THEN a
  ELSE [free |-> Tail(a.free),
        front |-> [a.front EXCEPT ![reg] = Head(a.free)],
        back |-> [a.back EXCEPT ![reg] = Head(a.free)],
        file |-> [a.file EXCEPT ![Head(a.free)] =
                                  [arch |-> reg, valid |-> FALSE, busy |-> TRUE]]]

\* rename_src_register: a register that was never written by the trace gets a
\* physical register that holds a committed value.
RenameSrc(a, reg) ==
  IF a.front[reg] # None THEN a
  ELSE [free |-> Tail(a.free),
        front |-> [a.front EXCEPT ![reg] = Head(a.free)],
        back |-> [a.back EXCEPT ![reg] = Head(a.free)],
        file |-> [a.file EXCEPT ![Head(a.free)] =
                                  [arch |-> reg, valid |-> TRUE, busy |-> TRUE]]]

\* complete_dest_register
CompleteDest(a, p) ==
  [free |-> a.free, front |-> a.front, back |-> a.back,
   file |-> [a.file EXCEPT ![p] = [@ EXCEPT !.valid = TRUE]]]

\* Mutant of RetireDest: the register of a first write frees -1.
RetireDestAlways(a, p) ==
  LET reg == a.file[p].arch
  IN  [a EXCEPT !.free = Append(@, a.back[reg]), !.back[reg] = p]

\* Mutant of RetireDest: the register to free is looked up
\* in the frontend table.
RetireDestFront(a, p) ==
  LET reg == a.file[p].arch
      old == a.front[reg]
  IN  [free |-> IF old = p THEN a.free ELSE Append(a.free, old),
       front |-> a.front,
       back |-> [a.back EXCEPT ![reg] = p],
       file |-> IF old = p THEN a.file ELSE [a.file EXCEPT ![old] = Unused]]

\* retire_dest_register with free_register: the register that p takes the
\* place of is free again.
RetireDest(a, p) ==
  LET reg == a.file[p].arch
      old == a.back[reg]
  IN  [free |-> IF old = None THEN a.free ELSE Append(a.free, old),
       front |-> a.front,
       back |-> [a.back EXCEPT ![reg] = p],
       file |-> IF old = None THEN a.file ELSE [a.file EXCEPT ![old] = Unused]]

-----------------------------------------------------------------------------
Init ==
  /\ \E q \in Seq(Phys) :
       /\ Distinct(q) /\ Elements(q) = Phys
       /\ alloc = NewAllocator(q)
  /\ window = << >>

Use(reg, p, written) == [reg |-> reg, phys |-> p, written |-> written]

\* rename_src_register for a source of the youngest instruction.
Source(reg) ==
  /\ Len(window) < MAX_WINDOW
  /\ alloc.front[reg] = None => alloc.free # << >>
  /\ alloc' = RenameSrc(alloc, reg)
  /\ window' = Append(window, Use(reg, alloc'.front[reg], FALSE))

\* rename_dest_register for a destination of the youngest instruction.
Destination(reg) ==
  /\ Len(window) < MAX_WINDOW
  /\ alloc.free # << >>
  /\ alloc' = RenameDest(alloc, reg)
  /\ window' = Append(window, Use(reg, Head(alloc.free), TRUE))

\* complete_dest_register, which do_complete_execution calls in any order of
\* the instructions.
Complete(i) ==
  /\ window[i].written
  /\ alloc' = CompleteDest(alloc, window[i].phys)
  /\ UNCHANGED window

\* retire_rob
Retire ==
  /\ window # << >>
  /\ alloc.file[Head(window).phys].valid
  /\ alloc' = IF Head(window).written THEN RetireDest(alloc, Head(window).phys)
                                     ELSE alloc
  /\ window' = Tail(window)

Next ==
  \/ \E reg \in Arch : Source(reg) \/ Destination(reg)
  \/ \E i \in 1 .. Len(window) : Complete(i)
  \/ Retire

Spec == Init /\ [][Next]_vars

-----------------------------------------------------------------------------
\* The register that an instruction at place j of a window w means by reg: that
\* of the youngest older write to it or, when there is none, the committed one.
Means(back, w, reg, p, j) ==
  \/ /\ back[reg] = p
     /\ \A i \in 1 .. Len(w) : i < j => ~ (w[i].written /\ w[i].reg = reg)
  \/ \E i \in 1 .. Len(w) :
       /\ i < j /\ w[i] = Use(reg, p, TRUE)
       /\ \A k \in 1 .. Len(w) :
            i < k /\ k < j => ~ (w[k].written /\ w[k].reg = reg)

TypeOK ==
  /\ alloc \in [free : Seq(Phys), front : [Arch -> Phys \cup {None}],
                back : [Arch -> Phys \cup {None}],
                file : [Phys -> [arch : Arch \cup {None}, valid : BOOLEAN,
                                 busy : BOOLEAN]]]
  /\ window \in Seq([reg : Arch, phys : Phys, written : BOOLEAN])

Free(p) == p \in Elements(alloc.free)

Committed(p) == \E reg \in Arch : alloc.back[reg] = p

Pending(p) == \E i \in 1 .. Len(window) : window[i].written /\ window[i].phys = p

\* Neither the free queue nor the backend table nor the renamed destinations
\* name a register twice.
NamedOnce ==
  /\ Distinct(alloc.free)
  /\ \A i, j \in 1 .. Len(window) :
       window[i].written /\ window[j].written
         /\ window[i].phys = window[j].phys => i = j
  /\ \A q, r \in Arch :
       alloc.back[q] = alloc.back[r] /\ alloc.back[q] # None => q = r

\* Every physical register is free, committed, or the destination of a renamed
\* instruction, and only one of these, once: none is lost and none is handed out
\* twice (free_registers, backend_RAT and the destinations in the ROB).
OneOwner ==
  /\ NamedOnce
  /\ \A p \in Phys :
       /\ Free(p) \/ Committed(p) \/ Pending(p)
       /\ ~ (Free(p) /\ Committed(p)) /\ ~ (Free(p) /\ Pending(p))
       /\ ~ (Committed(p) /\ Pending(p))
       /\ alloc.file[p].busy <=> ~ Free(p)

\* A renamed source is the register that program order gives it for as long as
\* the instruction is in the window, although older instructions retire and
\* free registers meanwhile (rename_src_register, retire_dest_register).
SourcesStable ==
  \A j \in 1 .. Len(window) :
    ~ window[j].written
      => Means(alloc.back, window, window[j].reg, window[j].phys, j)

\* An instruction only waits for a source that an older instruction in the
\* window is going to write: none waits for a value that nobody produces
\* (count_reg_dependencies, execute_instruction).
WaitsForProducer ==
  \A j \in 1 .. Len(window) :
    ~ window[j].written /\ ~ alloc.file[window[j].phys].valid
      => \E i \in 1 .. Len(window) :
           i < j /\ window[i] = Use(window[j].reg, window[j].phys, TRUE)
=============================================================================
