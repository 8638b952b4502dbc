------------------------------ MODULE MCCache ------------------------------
(***************************************************************************)
(* Caches of three levels and the channel above one, each with the levels  *)
(* around it.  A behaviour chooses one of them at the beginning; the       *)
(* channels alone have variables of their own.                             *)
(***************************************************************************)
EXTENDS CacheSystem

CONSTANTS vblock, vother, pblock, tblock, vpage, core, walker

VARIABLES
  level,                       \* what the behaviour is of
  ch, below, issued, answered  \* a channel alone

channelVars == <<ch, below, issued, answered>>

\* vblock is a virtual block of page vpage, with translation pblock; tblock holds a page
\* table entry, which is read for the virtual block vother.  One set.
AllBlocks == {vblock, vother, pblock, tblock}
NoSets(B) == [x \in B |-> 0]
OnePage(B) == [x \in B |-> vpage]
TranslationOf(B) ==
  [x \in B |-> CASE x = vblock -> pblock [] x = vother -> tblock [] OTHER -> x]
VirtualOf(B) ==
  [x \in B |-> CASE x = pblock -> vblock [] x = tblock -> vother [] OTHER -> x]

\* An L2C: two ways and two MSHR entries, loads, prefetches and writebacks from above and
\* prefetches of its own.
L2CPageOf == OnePage(Block)
L2CPhysical == TranslationOf(Block)
L2CVirtual == VirtualOf(Block)
L2CSetOf == NoSets(Block)
L2CSlots == core :> 1
L2CAsks == core :> ({"LOAD", "PREFETCH", "WRITE"} \X {pblock} \cup {<<"LOAD", tblock>>})
L2CTranslated == core :> TRUE

\* An LLC: one way, loads, prefetches and writebacks from above; a pool has vblock.
LLC ==
  INSTANCE CacheSystem WITH
    Slots <- core :> 2, NUM_WAY <- 1, PQ_SIZE <- 0, Remote <- {vblock}, MaxWrites <- 1,
    Prefetches <- {}

\* An L1D with one MSHR entry: the core has virtual addresses and stores, the page walker
\* reads physical ones.
L1D ==
  INSTANCE CacheSystem WITH
    Upper <- {core, walker}, Block <- AllBlocks, PageOf <- OnePage(AllBlocks),
    Physical <- TranslationOf(AllBlocks), SetOf <- NoSets(AllBlocks), Remote <- {},
    NUM_WAY <- 1, MSHR_SIZE <- 1, PQ_SIZE <- 0, match_offset_bits <- TRUE, RemoteSize <- 0,
    Slots <- core :> 2 @@ walker :> 1,
    Asks <- core :> {"LOAD", "WRITE"} \X {vblock} @@ walker :> {<<"LOAD", tblock>>}, Walker <- {walker},
    Translated <- core :> FALSE @@ walker :> TRUE, Virtual <- VirtualOf(AllBlocks),
    MaxWrites <- 9, Prefetches <- {}

\* A channel that compares whole addresses, with two addresses of one block and one of
\* another, and a channel that compares blocks.
Exact ==
  INSTANCE ChannelSystem WITH
    Address <- {<<pblock, 0>>, <<pblock, 8>>, <<tblock, 0>>}, Translated <- {TRUE}, QueueSize <- 2,
    MatchOffset <- TRUE, MaxRequests <- 3
ByBlock ==
  INSTANCE ChannelSystem WITH
    Address <- {<<pblock, 0>>, <<pblock, 8>>}, Translated <- {FALSE}, QueueSize <- 2,
    MatchOffset <- FALSE, MaxRequests <- 3

ASSUME Exact!ChannelAssumption /\ ByBlock!ChannelAssumption
ASSUME LLC!CacheAssumption /\ LLC!SystemAssumption /\ L1D!CacheAssumption /\ L1D!SystemAssumption

-----------------------------------------------------------------------------
\* What all the instances have alike, where the behaviour is not of it.
NoChannel == Exact!Init

MCInit ==
  \/ level = "L2C" /\ SystemInit /\ NoChannel
  \/ level = "LLC" /\ LLC!SystemInit /\ NoChannel
  \/ level = "L1D" /\ L1D!SystemInit /\ NoChannel
  \/ level = "exact" /\ Exact!Init /\ SystemInit
  \/ level = "block" /\ ByBlock!Init /\ SystemInit

MCNext ==
  /\ \/ level = "L2C" /\ Next /\ UNCHANGED channelVars
     \/ level = "LLC" /\ LLC!Next /\ UNCHANGED channelVars
     \/ level = "L1D" /\ L1D!Next /\ UNCHANGED channelVars
     \/ level = "exact" /\ Exact!Next /\ UNCHANGED vars
     \/ level = "block" /\ ByBlock!Next /\ UNCHANGED vars
  /\ UNCHANGED level

MCSpec == MCInit /\ [][MCNext]_<<vars, channelVars, level>>

-----------------------------------------------------------------------------
\* An L2C reads a block once, however prefetches of the cache, prefetches, loads and writebacks
\* from above and fills race (try_hit, handle_miss, handle_write, handle_fill): of the copies that
\* writebacks may bring one at most is clean, and no write is lost.  It keeps its bounds.
L2CReadsOnce == level = "L2C" => TypeOK /\ OneCleanCopy /\ NoWriteLost

\* An LLC has one request below, or one answer, for each MSHR entry that waits, and what has
\* returned is in front of the MSHR, where handle_fill looks for it.
LLCEntriesServed == level = "LLC" => LLC!OneRequestPerEntry /\ LLC!ReturnedFirst

\* No dirty data is lost, to a pool or to the level below, when writebacks are refused.
LLCNoWriteLost == level = "LLC" => LLC!NoWriteLost

\* Every request to an L1D is in one place until it is answered, once, although it may wait
\* for a translation whose walk reads through the same cache; that translation is under way.
L1DAnsweredOnce == level = "L1D" => L1D!AnsweredOnce /\ L1D!TranslationOwed

\* In an L1D no store is lost when loads of its block meet it in the MSHR.
L1DNoWriteLost == level = "L1D" => L1D!NoWriteLost

\* A channel loses no requester when it merges and forwards, a queue that was checked has one
\* request for a block, and no read passes an older write that it collides with, by address
\* or by block (check_collision).
ChannelKeepsOrder ==
  /\ level = "exact" => Exact!TypeOK /\ Exact!AnsweredOnce /\ Exact!NoDuplicates /\ Exact!NoOvertaking
  /\ level = "block" => ByBlock!AnsweredOnce /\ ByBlock!NoOvertaking
=============================================================================
