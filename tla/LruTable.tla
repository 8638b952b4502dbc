------------------------------ MODULE LruTable ------------------------------
(***************************************************************************)
(* lru_table (lru_table.h): sets of ways with the time of their last use,  *)
(* 0 for a way that is not valid.  The branch target buffer, the decoded   *)
(* instruction buffer, the paging structure caches and two prefetchers are *)
(* such tables.                                                            *)
(***************************************************************************)
EXTENDS Naturals, Sequences, FiniteSets

CONSTANTS
  NUM_SET, NUM_WAY,
  Tags, Values,
  NoData,          \* the data of a default-constructed entry, [tag, value]
  MaxAccess        \* bound: access_count has 64 bits and does not wrap

TableAssumption ==
  /\ NUM_SET \in Nat \ {0} /\ NUM_WAY \in Nat \ {0} /\ Tags \subseteq Nat
  /\ NoData.tag \in Tags /\ NoData.value \in Values

VARIABLES block, access_count, result

vars == <<block, access_count, result>>

Unused == [last_used |-> 0, data |-> NoData]

\* The ways of the set that a tag is in.
GetSetSpan(tag) == {<<tag % NUM_SET, way>> : way \in 1 .. NUM_WAY}

Matches(x, tag) == block[x].last_used > 0 /\ block[x].data.tag = tag

\* find_if finds the first of them.
Hits(tag) ==
  {x \in GetSetSpan(tag) :
     Matches(x, tag) /\ \A y \in GetSetSpan(tag) : Matches(y, tag) => x[2] <= y[2]}

\* Mutant of MatchAndCheck: the tag does not count.
MatchAndCheckUse(x, y, tag) ==
  \/ block[x].last_used = 0
  \/ block[y].last_used > 0 /\ block[x].last_used < block[y].last_used

\* The order of the ways for minmax_element: not valid, then not matching, then
\* by last use.
MatchAndCheck(x, y, tag) ==
  LET valid(z) == block[z].last_used > 0
      matches(z) == block[z].data.tag = tag
  IN  \/ ~ valid(x)
      \/ /\ valid(y)
         /\ \/ ~ matches(x) /\ matches(y)
            \/ matches(x) = matches(y) /\ block[x].last_used < block[y].last_used

\* The least and the greatest in that order; it is no strict order among ways
\* that are not valid, of which the algorithm may find any.
Below(x, y, tag) == MatchAndCheck(x, y, tag) /\ ~ MatchAndCheck(y, x, tag)
Misses(tag) == {x \in GetSetSpan(tag) : \A y \in GetSetSpan(tag) : ~ Below(y, x, tag)}
Bests(tag) == {x \in GetSetSpan(tag) : \A y \in GetSetSpan(tag) : ~ Below(x, y, tag)}

-----------------------------------------------------------------------------
Init ==
  /\ block = [x \in (0 .. NUM_SET - 1) \X (1 .. NUM_WAY) |-> Unused]
  /\ access_count = 0 /\ result = {}

Use(x, data) ==
  /\ access_count < MaxAccess
  /\ access_count' = access_count + 1
  /\ block' = [block EXCEPT ![x] = [last_used |-> access_count + 1, data |-> data]]

CheckHit(tag) ==
  /\ result' = {block[x].data.value : x \in Hits(tag)}
  /\ \/ Hits(tag) = {} /\ UNCHANGED <<block, access_count>>
     \/ \E x \in Hits(tag) : Use(x, block[x].data)

Fill(tag, value) ==
  /\ \E miss \in Misses(tag), hit \in Bests(tag) :
       Use(IF block[hit].data.tag = tag THEN hit ELSE miss, [tag |-> tag, value |-> value])
  /\ result' = {}

Invalidate(tag) ==
  /\ result' = {block[x].data.value : x \in Hits(tag)}
  /\ block' = [x \in DOMAIN block |-> IF x \in Hits(tag) THEN Unused ELSE block[x]]
  /\ UNCHANGED access_count

Next ==
  \E tag \in Tags : CheckHit(tag) \/ Invalidate(tag) \/ \E value \in Values : Fill(tag, value)

Spec == Init /\ [][Next]_vars

-----------------------------------------------------------------------------
\* The valid ways of a set, the last used first.
ByUse(s) ==
  LET ways == {x \in DOMAIN block : x[1] = s /\ block[x].last_used > 0}
      place(x) == Cardinality({y \in ways : block[y].last_used >= block[x].last_used})
  IN  [i \in 1 .. Cardinality(ways) |-> block[CHOOSE x \in ways : place(x) = i].data]

Recency ==
  INSTANCE RecencyList WITH
    Sets <- NUM_SET, Ways <- NUM_WAY, recent <- [s \in 0 .. NUM_SET - 1 |-> ByUse(s)], out <- result

\* The table is a list of the most recently used entries of each set: no tag is
\* in two ways, also when ways became free in between and when the data of an
\* unused way happens to have the tag.
KeepsRecent == Recency!Spec
=============================================================================
