----------------------------- MODULE MCPolicies -----------------------------
(***************************************************************************)
(* The components that only decide, each with its own small instance: the  *)
(* prefetchers, the replacement policies, the branch predictors and the    *)
(* tables that they are made of.  They do not interact: a behaviour        *)
(* chooses one of them at the beginning and leaves the others alone.       *)
(***************************************************************************)
EXTENDS Spp

VARIABLES
  part,                                                             \* the component
  entries, access_count, result,                                    \* lru_table
  block, last_used_cycles, cycle, policy, valid, rrpv, rank, last,  \* replacement
  predictor, program, at, turn, prediction, tables, recent,         \* branch predictors
  direct, stack, call_size_trackers, targets, conditional_history, callers, learnt, target,
  tracker, active_lookahead, stride_PQ, seen, course, accesses,     \* ip_stride
  regions, ampm_PQ, done, again                                     \* va_ampm_lite

sppVars == vars
tableVars == <<entries, access_count, result>>
lruVars == <<block, last_used_cycles, cycle>>
rripVars == <<policy, valid, rrpv, rank, last>>
branchVars == <<predictor, program, at, turn, prediction, tables, recent>>
btbVars == <<direct, stack, call_size_trackers, targets, conditional_history, callers, learnt, target>>
strideVars == <<tracker, active_lookahead, stride_PQ, seen, course, accesses>>
ampmVars == <<regions, ampm_PQ, done, again>>
allVars == <<part, sppVars, tableVars, lruVars, rripVars, branchVars, btbVars, strideVars, ampmVars>>

-----------------------------------------------------------------------------
(* Spp: two pages of four blocks.  A set of its pattern table is also run  *)
(* alone, under any deltas                                                 *)

MCDeltas == -3 .. 3
MCPages == {1, 2}
MCSets == {1, 2}
MCPtSet(sig) == IF sig = << >> \/ sig[Len(sig)] > 0 THEN 1 ELSE 2
MCFilter == {0, 1}
MCQuotient(b) == b % 2
MCRemainder(b) == b \div 2

(* lru_table: one set of three ways, and four tags *)

Table ==
  INSTANCE LruTable WITH
    NUM_SET <- 1, NUM_WAY <- 3, Tags <- 0 .. 3, Values <- {0}, NoData <- [tag |-> 0, value |-> 0],
    MaxAccess <- 5, block <- entries

(* lru: two sets of two ways, and three blocks for each.  rrip: three ways *)

CONSTANT Invalid
AccessTypes == {"LOAD", "WRITE"}
Policy ==
  INSTANCE Replacement WITH
    NUM_SET <- 2, NUM_WAY <- 2, Blocks <- 0 .. 5, Types <- AccessTypes, maxRRPV <- 3, MaxCycle <- 6
Rrip ==
  INSTANCE Replacement WITH
    NUM_SET <- 1, NUM_WAY <- 3, Blocks <- {}, Types <- AccessTypes, maxRRPV <- 3, MaxCycle <- 0

(* Branch predictors *)

Turn(taken) == [ip |-> 1, branch |-> TRUE, taken |-> taken]
Second(taken) == <<[ip |-> 2, branch |-> TRUE, taken |-> taken]>>
Plain == <<[ip |-> 3, branch |-> FALSE, taken |-> FALSE]>>
Loops(n) == UNION {[1 .. m -> {Turn(TRUE), Turn(FALSE)}] : m \in 1 .. n}

\* Five turns with at most one result that differs, and a branch of another hash.
OddOnes == {[j \in 1 .. 5 |-> Turn((j = i) # taken)] : i \in 0 .. 5, taken \in BOOLEAN}
BimodalPrograms == {p \o Second(c) \o o : p \in OddOnes, c \in BOOLEAN, o \in {<< >>, Plain}}

\* The exclusive or of the history with two bits of the address.
MCHash(ip, history) ==
  [i \in DOMAIN history |-> history[i] # ((i = 1 /\ ip % 2 = 1) \/ (i = 2 /\ ip \div 2 = 1))]

\* The loops whose results three results before them and the address tell apart.
Before(p, i) == [k \in 1 .. 3 |-> p[((i - 1 - k) % Len(p)) + 1].taken]
Branches(p) == SelectSeq(p, LAMBDA x : x.branch)
Tellable(p) ==
  LET b == Branches(p)
  IN  \A i, j \in 1 .. Len(b) :
        MCHash(b[i].ip, Before(b, i)) = MCHash(b[j].ip, Before(b, j)) => b[i].taken = b[j].taken
GsharePrograms == {p \in Loops(5) \cup {l \o Second(TRUE) \o Plain : l \in Loops(5)} : Tellable(p)}

\* Instructions that are no branches only next to branches of one direction.
Constant(p) == \A i, j \in DOMAIN Branches(p) : Branches(p)[i].taken = Branches(p)[j].taken
PerceptronPrograms ==
  Loops(3) \cup {l \o Second(t) : l \in Loops(3), t \in BOOLEAN}
           \cup {p \in {l \o Plain : l \in Loops(3)} \cup {Plain \o l : l \in Loops(3)} : Constant(p)}

\* Words of two bits, two of them in a value, and histories of which the last has three
\* values.
HashedPrograms == Loops(5) \cup {l \o Plain : l \in Loops(5)}
MCPcBits(ip) == <<ip % 2 = 1, ip \div 2 = 1>>

Branch ==
  INSTANCE BranchPredictors WITH
    Programs <- [bimodal |-> BimodalPrograms, gshare |-> GsharePrograms, perceptron |-> PerceptronPrograms,
                 hashed_perceptron |-> HashedPrograms],
    MaxTurns <- 25, BITS <- 2, PRIME <- 3, GLOBAL_HISTORY_LENGTH <- 3, COUNTER_BITS <- 2, Hash <- MCHash,
    PERCEPTRON_HISTORY <- 3, PERCEPTRON_BITS <- 8, NUM_PERCEPTRONS <- 2, NUM_UPDATE_ENTRIES <- 3,
    PERCEPTRON_THETA <- 20, WORD_LEN <- 2, DIGITS <- 5, history_lengths <- <<0, 2, 3, 9>>, WEIGHT_BITS <- 8,
    THRESHOLD <- 1, THETA <- 10, SPEED <- 3, PcBits <- MCPcBits

(* basic_btb: two calls that share a tracker and one whose size cannot be  *)
(* learnt, a return that shares its tag with a conditional branch, and an  *)
(* instruction that is not a branch                                        *)

Instruction(ip, type, goals, size) == [ip |-> ip, type |-> type, targets |-> goals, size |-> size]
Btb ==
  INSTANCE BasicBtb WITH
    Code <- {Instruction(4, "DIRECT_CALL", {40}, 5), Instruction(20, "INDIRECT_CALL", {40}, 2),
             Instruction(9, "DIRECT_CALL", {40}, 12), Instruction(40, "CONDITIONAL", {4}, 0),
             Instruction(42, "RETURN", {}, 0), Instruction(48, "NONE", {}, 0)},
    Sets <- 2, Ways <- 2, max_size <- 2, num_call_size_trackers <- 8, PredictorSize <- 2, HistoryLength <- 1,
    MaxDepth <- 3, predictor <- targets, prediction <- target

(* ip_stride: instructions of two tags for one entry, pages of five blocks *)

Stride ==
  INSTANCE IpStride WITH
    Ips <- {4, 5, 8}, Blocks <- 0 .. 5, PageBlocks <- 5, TRACKER_WAYS <- 1, PREFETCH_DEGREE <- 3, PQ_SIZE <- 2,
    virtual_prefetch <- FALSE, MaxAccess <- 5, table <- tracker, internal_PQ <- stride_PQ

(* va_ampm_lite: two regions of four blocks, and accesses on two pages and *)
(* into the edges of their neighbours                                      *)

Region ==
  INSTANCE Ampm WITH
    Blocks <- 3 .. 11, PageBlocks <- 4, REGION_WAYS <- 2, MAX_DISTANCE <- 3, PREFETCH_DEGREE <- 2, PQ_SIZE <- 1,
    internal_PQ <- ampm_PQ

ASSUME Table!TableAssumption
ASSUME Policy!ReplacementAssumption
ASSUME Stride!StrideAssumption
ASSUME Region!AmpmAssumption

-----------------------------------------------------------------------------
MCInit ==
  /\ part \in {"spp", "pattern", "table", "lru", "rrip", "branch", "btb", "stride", "ampm"}
  /\ Init /\ Table!Init /\ Policy!LruInit /\ Rrip!RripInit /\ Branch!Init /\ Btb!Init /\ Stride!Init
  /\ Region!Init
  /\ part # "rrip" => policy = "srrip"
  /\ part # "branch" => predictor = "bimodal" /\ program = CHOOSE p \in BimodalPrograms : TRUE

MCNext ==
  /\ UNCHANGED part
  /\ \/ /\ part = "spp" /\ Next
        /\ UNCHANGED <<tableVars, lruVars, rripVars, branchVars, btbVars, strideVars, ampmVars>>
     \/ /\ part = "pattern" /\ (\E d \in Deltas : UpdatePattern(1, d)) /\ UNCHANGED <<ST, FILTER, GHR, look, calls>>
        /\ UNCHANGED <<tableVars, lruVars, rripVars, branchVars, btbVars, strideVars, ampmVars>>
     \/ /\ part = "table" /\ Table!Next
        /\ UNCHANGED <<sppVars, lruVars, rripVars, branchVars, btbVars, strideVars, ampmVars>>
     \/ /\ part = "lru" /\ Policy!LruNext
        /\ UNCHANGED <<sppVars, tableVars, rripVars, branchVars, btbVars, strideVars, ampmVars>>
     \/ /\ part = "rrip" /\ Rrip!RripNext
        /\ UNCHANGED <<sppVars, tableVars, lruVars, branchVars, btbVars, strideVars, ampmVars>>
     \/ /\ part = "branch" /\ Branch!Next
        /\ UNCHANGED <<sppVars, tableVars, lruVars, rripVars, btbVars, strideVars, ampmVars>>
     \/ /\ part = "btb" /\ Btb!Next
        /\ UNCHANGED <<sppVars, tableVars, lruVars, rripVars, branchVars, strideVars, ampmVars>>
     \/ /\ part = "stride" /\ Stride!Next
        /\ UNCHANGED <<sppVars, tableVars, lruVars, rripVars, branchVars, btbVars, ampmVars>>
     \/ /\ part = "ampm" /\ Region!Next
        /\ UNCHANGED <<sppVars, tableVars, lruVars, rripVars, branchVars, btbVars, strideVars>>

MCSpec == MCInit /\ [][MCNext]_allVars

-----------------------------------------------------------------------------
\* Evictions: an lru_table is a list of the entries of each set that were used last, and lru
\* evicts what was used the longest time ago, however the sets interleave; with srrip and ship
\* a way that was promoted later is no nearer to eviction, and a fill that was refused comes
\* back to the same victim, unless a hit came between.
EvictsInOrder ==
  /\ Table!KeepsRecent
  /\ Policy!EvictsOldest
  /\ [](part = "rrip" => Rrip!RecencyAgrees)
  /\ Rrip!SameVictim

\* Predictions: every predictor learns the loop and keeps it, and the folded histories of
\* hashed_perceptron are those of the last results; the return stack of basic_btb has the last
\* calls that have not returned, and a return to a call whose size is known is predicted right.
PredictsRight ==
  /\ [](part = "branch" => Branch!Learns /\ Branch!FoldsHistory)
  /\ [](part = "btb" => Btb!HoldsCallers)
  /\ Btb!ReturnsRight

=============================================================================
