---------------------------- MODULE Replacement ----------------------------
(***************************************************************************)
(* The replacement policies with the calls that CACHE makes to them and    *)
(* the ways that they give away.  The first part is lru, which every cache *)
(* of csimCore has.  The second part is srrip, ship and drrip on one set:  *)
(* a policy without replacement_cache_fill gets only the hits              *)
(* (impl_update_replacement_state), so the code of these three for a miss, *)
(* with the insertion policies, selectors and samplers, does not run.      *)
(***************************************************************************)
EXTENDS Naturals, Sequences, FiniteSets, FiniteSetsExt

CONSTANTS
  NUM_SET, NUM_WAY,
  Blocks,
  Invalid,     \* the block of a way that is not valid
  Types,       \* access types
  maxRRPV,
  MaxCycle     \* bound: cycle has 64 bits and does not wrap

ReplacementAssumption ==
  /\ NUM_SET \in Nat \ {0} /\ NUM_WAY \in Nat \ {0} /\ maxRRPV \in Nat \ {0}
  /\ Blocks \subseteq Nat /\ Invalid \notin Blocks

VARIABLES
  block, last_used_cycles, cycle,
  policy,              \* which of the three; it does not change
  valid,               \* the ways that hold a block
  rrpv,
  rank,                \* the ways by their last promotion: 0 for none, then the latest highest
  last                 \* the last call: [call, way, type]

lruVars == <<block, last_used_cycles, cycle>>
rripVars == <<policy, valid, rrpv, rank, last>>

Slots == (0 .. NUM_SET - 1) \X (0 .. NUM_WAY - 1)
SetIndex(b) == b % NUM_SET
Span(b) == {x \in Slots : x[1] = SetIndex(b)}
HitWay(b) == {x \in Span(b) : block[x] = b}
FreeWays(b) == {x \in Span(b) : block[x] = Invalid}

LruInit ==
  /\ block = [x \in Slots |-> Invalid]
  /\ last_used_cycles = [x \in Slots |-> 0] /\ cycle = 0

\* Mutant of FindVictim: the way that was used last.
FindVictimNewest(b) ==
  CHOOSE x \in Span(b) : \A y \in Span(b) : last_used_cycles[x] >= last_used_cycles[y]

\* min_element: the first of the least recently used ways.
FindVictim(b) ==
  CHOOSE x \in Span(b) : \A y \in Span(b) :
    \/ last_used_cycles[x] < last_used_cycles[y]
    \/ last_used_cycles[x] = last_used_cycles[y] /\ x[2] <= y[2]

Use(x) ==
  /\ cycle < MaxCycle
  /\ last_used_cycles' = [last_used_cycles EXCEPT ![x] = cycle]
  /\ cycle' = cycle + 1

\* try_hit calls update_replacement_state; a writeback is no use.  The call for a miss
\* names the way behind the last one and changes nothing.
LruHit(b, type) ==
  /\ HitWay(b) # {}
  /\ \E x \in HitWay(b) : IF type # "WRITE" THEN Use(x) ELSE UNCHANGED <<last_used_cycles, cycle>>
  /\ UNCHANGED block

\* handle_fill: the first way that is not valid, or the victim, and the call of
\* replacement_cache_fill.
LruFill(b) ==
  /\ HitWay(b) = {}
  /\ LET way == IF FreeWays(b) = {} THEN FindVictim(b)
                ELSE CHOOSE x \in FreeWays(b) : \A y \in FreeWays(b) : x[2] <= y[2]
     IN  Use(way) /\ block' = [block EXCEPT ![way] = b]

LruNext == \E b \in Blocks : LruFill(b) \/ \E type \in Types : LruHit(b, type)

LruSpec == LruInit /\ [][LruNext]_lruVars

\* The blocks of a set, the last used first.
ByUse(s) ==
  LET ways == {x \in Slots : x[1] = s /\ block[x] # Invalid}
      place(x) == Cardinality({y \in ways : last_used_cycles[y] >= last_used_cycles[x]})
  IN  [i \in 1 .. Cardinality(ways) |-> [tag |-> block[CHOOSE x \in ways : place(x) = i], value |-> 0]]

Order ==
  INSTANCE RecencyList WITH
    Sets <- NUM_SET, Ways <- NUM_WAY, Tags <- Blocks, Values <- {0}, out <- {},
    recent <- [s \in 0 .. NUM_SET - 1 |-> ByUse(s)]

\* With one counter for all sets and 0 both for an unused way and for the first use,
\* the blocks of a set are a list of those that were used last, not counting
\* writebacks, of which a fill of a full set evicts the last.
EvictsOldest == Order!Spec

-----------------------------------------------------------------------------
WaysOf == 0 .. NUM_WAY - 1

\* initialize_replacement: drrip leaves its counters at 0.
InitRrpv == IF policy = "drrip" THEN 0 ELSE maxRRPV

RripInit ==
  /\ policy \in {"srrip", "ship", "drrip"}
  /\ valid = {} /\ rrpv = [w \in WaysOf |-> InitRrpv] /\ rank = [w \in WaysOf |-> 0]
  /\ last = [call |-> "none", way |-> 0, type |-> "LOAD"]

\* max_element finds the first.
Greatest ==
  CHOOSE w \in WaysOf : \A v \in WaysOf :
    \/ rrpv[w] > rrpv[v]
    \/ rrpv[w] = rrpv[v] /\ w <= v

\* A hit by a write promotes in srrip, does nothing in ship and demotes in drrip.
Promotes(type) == type # "WRITE" \/ policy = "srrip"

\* Mutant of Aged: everything ages by one, also when the victim is at the maximum.
AgedByOne == [w \in WaysOf |-> IF rrpv[w] < maxRRPV THEN rrpv[w] + 1 ELSE rrpv[w]]

\* find_victim: everything ages until the victim is at the maximum.
Aged == [w \in WaysOf |-> rrpv[w] + (maxRRPV - rrpv[Greatest])]

\* Mutant of Updated: a hit brings the way one nearer to 0.
UpdatedByOne(w, type) ==
  IF Promotes(type) THEN [rrpv EXCEPT ![w] = IF @ = 0 THEN 0 ELSE @ - 1] ELSE rrpv

\* update_replacement_state for a hit.
Updated(w, type) ==
  CASE Promotes(type) -> [rrpv EXCEPT ![w] = 0]
    [] type = "WRITE" /\ policy = "drrip" -> [rrpv EXCEPT ![w] = maxRRPV - 1]
    [] OTHER -> rrpv

\* The ranks keep only their order.
Promoted(w) ==
  [v \in WaysOf |-> IF v = w THEN Cardinality({u \in WaysOf \ {w} : rank[u] > 0}) + 1
                    ELSE IF rank[w] > 0 /\ rank[v] > rank[w] THEN rank[v] - 1 ELSE rank[v]]

Hit(w, type) ==
  /\ w \in valid
  /\ rrpv' = Updated(w, type)
  /\ rank' = IF Promotes(type) THEN Promoted(w) ELSE rank
  /\ last' = [call |-> "hit", way |-> w, type |-> type]
  /\ UNCHANGED <<policy, valid>>

\* handle_fill into a way that is not valid.
FillFree(type) ==
  /\ valid # WaysOf
  /\ LET w == Min(WaysOf \ valid)
     IN  valid' = valid \cup {w} /\ last' = [call |-> "fill", way |-> w, type |-> type]
  /\ UNCHANGED <<policy, rrpv, rank>>

\* handle_fill in place of the victim.
FillVictim(type) ==
  /\ valid = WaysOf
  /\ rrpv' = Aged
  /\ last' = [call |-> "fill", way |-> Greatest, type |-> type]
  /\ UNCHANGED <<policy, valid, rank>>

\* The queue below does not take the victim's data: handle_fill returns after it asked
\* for the victim, and asks again in the next cycle.
RefusedFill(type) ==
  /\ valid = WaysOf
  /\ rrpv' = Aged
  /\ last' = [call |-> "refused", way |-> Greatest, type |-> type]
  /\ UNCHANGED <<policy, valid, rank>>

RripNext ==
  \E type \in Types :
    FillFree(type) \/ FillVictim(type) \/ RefusedFill(type) \/ \E w \in WaysOf : Hit(w, type)

RripSpec == RripInit /\ [][RripNext]_rripVars

\* No way is nearer to eviction than a way whose last promotion is older, however the
\* hits, the victims and the fills that are tried again follow each other.
RecencyAgrees ==
  policy # "drrip" => \A v, w \in WaysOf : rank[v] > rank[w] => rrpv[v] <= rrpv[w]

\* A fill that is refused comes back to the same victim, unless a hit came between.
SameVictim ==
  [][last.call = "refused" /\ last'.call \in {"fill", "refused"} => last'.way = last.way]_rripVars
=============================================================================
