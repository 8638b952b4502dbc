------------------------------ MODULE MCMemory ------------------------------
(***************************************************************************)
(* The components of the memory system beside the caches: page table       *)
(* walker, virtual memory alone, map of addresses, DRAM channel and the    *)
(* mapping of addresses to the DRAM.  A behaviour chooses one of them at   *)
(* the beginning and leaves the others alone.                              *)
(***************************************************************************)
EXTENDS PageTableWalker, TLC

VARIABLES
  part,                                                    \* the component
  memory,                                                  \* virtual memory alone
  rest, entries, state,                                    \* the map of addresses
  channel, readsAsked, written, unwritten, cycle,          \* the DRAM channel
  addresses, question, subextent, permuted, answers        \* the DRAM mapping

mapVars == <<rest, entries, state>>
dramVars == <<channel, readsAsked, written, unwritten, cycle>>
placeVars == <<addresses, question, subextent, permuted, answers>>
allVars == <<part, vars, memory, mapVars, dramVars, placeVars>>

-----------------------------------------------------------------------------
(* The walker: three requests, two of them for one page, and three levels  *)

MCVpages == 0 .. 3
MCShuffles == {[i \in 1 .. Populated |-> i]}
MCPoolPages == << >>
MCRequests == {[v |-> 1, id |-> 1], [v |-> 1, id |-> 2], [v |-> 2, id |-> 3]}
MCPsclWays == <<1, 2>>

(* Virtual memory: three virtual pages, the last in a pool range that      *)
(* begins where the memory of the free list ends; the list is shuffled     *)

VM ==
  INSTANCE VirtualMemory WITH
    Vpages <- 0 .. 2, PtLevels <- 2, PteSlots <- 2, FirstPage <- 2, Populated <- 5,
    Shuffles <- {[i \in 1 .. 5 |-> 6 - i]}, PoolPages <- 2 :> 7, vm <- memory

(* The map: files of two and three lines, and one line that is not aligned *)

Line(start, size, type, aligned) == [start |-> start, size |-> size, type |-> type, aligned |-> aligned]
Lines == {Line(start, size, type, TRUE) : start \in {0, 1, 3, 4}, size \in 0 .. 3, type \in {"Pool", "Local"}}
MCFiles ==
  {<<x, y>> : x, y \in Lines}
  \cup {<<x, y, z>> : x, y \in {l \in Lines : l.size \in {1, 3} /\ l.type = "Pool"}, z \in Lines}
  \cup {<<Line(0, 1, "Pool", TRUE), Line(1, 1, "Pool", FALSE), Line(2, 1, "Pool", TRUE)>>}

Map == INSTANCE AddressMap WITH Files <- MCFiles, Addresses <- 0 .. 8

(* The DRAM channel: two banks of one bank group, two rows in the first    *)

MCBank(b) == IF b = 3 THEN 2 ELSE 1
MCRow(b) == b
MCBankgroup(k) == 1

Dram ==
  INSTANCE DramChannel WITH
    Reads <- {[id |-> 1, block |-> 1], [id |-> 2, block |-> 1], [id |-> 3, block |-> 2]}, Writes <- {1, 3},
    NumBanks <- 2, Bank <- MCBank, Row <- MCRow, Bankgroup <- MCBankgroup, RQ_SIZE <- 2, WQ_SIZE <- 2,
    tRP <- 1, tRCD <- 1, tCAS <- 1, tREF <- 5, tRFC <- 2, TURN_AROUND_TIME <- 1, RETURN_TIME <- 2,
    BANKGROUP_STALL <- 1, MaxWrites <- 1, c <- channel, asked <- readsAsked, odd <- cycle

(* The mapping: a row that is longer than a segment, and no multiple of it *)

Dimm ==
  INSTANCE DramAddress WITH Bits <- <<0, 1, 1, 1, 0, 0, 3>>, asked <- question

ASSUME VM!ShufflesAssumption
ASSUME VM!MemoryAssumption
ASSUME VM!PoolPagesAssumption
ASSUME Map!MapAssumption
ASSUME Dram!DramAssumption
ASSUME Dimm!BitsAssumption

-----------------------------------------------------------------------------
MCInit ==
  /\ part \in {"walker", "memory", "map", "dram", "place"}
  /\ WalkerInit /\ VM!Init /\ Dram!Init
  /\ IF part = "map" THEN Map!Init ELSE rest = << >> /\ entries = << >> /\ state = "reading"
  /\ IF part = "place"
     THEN Dimm!Init
     ELSE addresses = << >> /\ question = 0 /\ subextent = << >> /\ permuted = {} /\ answers = << >>

MCNext ==
  /\ UNCHANGED part
  /\ \/ part = "walker" /\ WalkerNext /\ UNCHANGED <<memory, mapVars, dramVars, placeVars>>
     \/ part = "memory" /\ VM!Next /\ UNCHANGED <<vars, mapVars, dramVars, placeVars>>
     \/ part = "map" /\ Map!Next /\ UNCHANGED <<vars, memory, dramVars, placeVars>>
     \/ part = "dram" /\ Dram!Next /\ UNCHANGED <<vars, memory, mapVars, placeVars>>
     \/ part = "place" /\ Dimm!Next /\ UNCHANGED <<vars, memory, mapVars, dramVars>>

MCSpec == MCInit /\ [][MCNext]_allVars

-----------------------------------------------------------------------------
\* A physical page has one use, until the free list is used up; the list is never empty.
MemoryExclusive == part = "memory" => VM!TypeOK /\ VM!Exclusive

\* The address map finds the range of an address, in every order of the lines, and different
\* addresses of pool ranges are at different places of the pool.
PoolAddresses == part = "map" => Map!LookupFindsRange /\ Map!PoolDisjoint

\* The banks at work and the requests that are scheduled are the same; a refresh waits only
\* for a bank at work, and excludes work.
DramBanks == part = "dram" => Dram!BanksAgree /\ Dram!RefreshKept

\* Merging and forwarding in the DRAM queues lose no reader and answer none twice, and a write
\* that is dropped has another to its block in the queue.
DramRequests == part = "dram" => Dram!AnsweredOnce /\ Dram!NoWriteLost

\* Two addresses are at one place of the DRAM exactly if the queues take them for one block,
\* and every bit of the row moves a block to another channel.
DramPlaces == part = "place" => Dimm!PlacesDistinct /\ Dimm!RowSpreads
=============================================================================
