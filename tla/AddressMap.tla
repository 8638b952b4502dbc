----------------------------- MODULE AddressMap -----------------------------
(***************************************************************************)
(* The map from virtual addresses to local memory, pools and other nodes   *)
(* (address_map.cc), for one node.  Load reads the lines of a file, then   *)
(* sorts them and places the pool ranges in the pool.  The unit is a page. *)
(***************************************************************************)
EXTENDS Naturals, Sequences, FiniteSets, Queues, Functions

CONSTANTS
  Files,       \* the files: sequences of ranges [start, size, type, aligned]
  Addresses    \* the addresses that are looked up

Types == {"Local", "Pool", "Remote"}

MapAssumption ==
  /\ Addresses \subseteq Nat
  /\ \A f \in Files :
       f \in Seq([start : Nat, size : Nat, type : Types, aligned : BOOLEAN])

VARIABLES
  rest,      \* the lines that are not read
  entries,   \* entries_by_node_
  state      \* "reading", "loaded" or "failed" (the exception)

vars == <<rest, entries, state>>

Init == rest \in Files /\ entries = << >> /\ state = "reading"

ReadLine ==
  /\ state = "reading" /\ rest # << >>
  /\ rest' = Tail(rest)
  /\ LET line == Head(rest)
     IN  IF line.aligned
         THEN /\ entries' = Append(entries, [start |-> line.start, size |-> line.size,
                                             type |-> line.type, pool_offset |-> 0])
              /\ UNCHANGED state
         ELSE state' = "failed" /\ UNCHANGED entries

\* std::sort, which may leave equal starts in any order.
Sorted(q) ==
  {[i \in 1 .. Len(q) |-> q[p[i]]] : p \in {f \in [1 .. Len(q) -> 1 .. Len(q)] :
     IsInjective(f) /\ \A i, j \in 1 .. Len(q) : i < j => q[f[i]].start <= q[f[j]].start}}

\* Mutant of Running: every pool range begins at 0.
RunningNone(q, i) == 0

\* The pool ranges before the i-th take this much of the pool.
Running(q, i) ==
  Total([j \in 1 .. Len(q) |-> q[j].size], {j \in 1 .. Len(q) : q[j].type = "Pool"}, i - 1)

Sort ==
  /\ state = "reading" /\ rest = << >>
  /\ \E q \in Sorted(entries) :
       entries' = [i \in 1 .. Len(q) |->
                     [q[i] EXCEPT !.pool_offset = IF q[i].type = "Pool"
                                                  THEN Running(q, i) ELSE 0]]
  /\ state' = "loaded"
  /\ UNCHANGED rest

Next == ReadLine \/ Sort

Spec == Init /\ [][Next]_vars

-----------------------------------------------------------------------------
Contains(e, addr) == addr >= e.start /\ addr < e.start + e.size

\* Mutant of Candidates: an entry that starts at the address is left out.
CandidatesBefore(q, addr) == {i \in 1 .. Len(q) : q[i].start < addr}

\* upper_bound: the entries that do not start after the address.
Candidates(q, addr) == {i \in 1 .. Len(q) : q[i].start <= addr}

\* The place of the entry, as a set of one; none is std::nullopt.
Lookup(q, addr) ==
  {i \in Candidates(q, addr) :
     (\A j \in Candidates(q, addr) : j <= i) /\ Contains(q[i], addr)}

\* Where a page of a pool range is in the pool.
PoolPlace(e, addr) == e.pool_offset + (addr - e.start)

-----------------------------------------------------------------------------
\* No range is empty, and no two have an address in common.  (load accepts an
\* empty range too, which hides what it lies in from its start on.)
Disjoint ==
  /\ \A i \in 1 .. Len(entries) : entries[i].size > 0
  /\ \A i, j \in 1 .. Len(entries) : i # j =>
       \/ entries[i].start + entries[i].size <= entries[j].start
       \/ entries[j].start + entries[j].size <= entries[i].start

\* Although only the last entry that starts at or before the address is looked
\* at, lookup finds the range that contains it, and finds none only when there
\* is none, in every order of the lines.
LookupFindsRange ==
  state = "loaded" /\ Disjoint =>
    \A addr \in Addresses :
      Lookup(entries, addr) = {i \in 1 .. Len(entries) : Contains(entries[i], addr)}

\* "pool_offset is computed by sorting pool ranges and assigning a running sum,
\* so disjoint VA ranges map to disjoint pool PA regions" (README.md).
PoolDisjoint ==
  state = "loaded" /\ Disjoint =>
    \A x, y \in Addresses :
      \A i \in Lookup(entries, x), j \in Lookup(entries, y) :
        /\ entries[i].type = "Pool" /\ entries[j].type = "Pool"
        /\ PoolPlace(entries[i], x) = PoolPlace(entries[j], y)
        => x = y
=============================================================================
