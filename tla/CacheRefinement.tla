--------------------------- MODULE CacheRefinement ---------------------------
(***************************************************************************)
(* The two-level cache implements RecencyCache under LRU replacement: the  *)
(* time stamps, whoever gave them, order each set by recency of use.       *)
(* Under LFU replacement it implements FrequencyCache: the counters and    *)
(* the MRU marks of the frames are the counts and the protected block.     *)
(***************************************************************************)
EXTENDS CacheSim

(* Frame i was used later than frame j.  Stamps may tie: a block that LIP  *)
(* puts into an empty set takes the clock's value and leaves it unchanged. *)
Later(set, i, j) ==
  \/ set.frames[i].time_stamp > set.frames[j].time_stamp
  \/ set.frames[i].time_stamp = set.frames[j].time_stamp /\ i > j

Recency(cache) ==
  [k \in DOMAIN cache.sets |->
     LET set == cache.sets[k]
         Rank(i) == 1 + Cardinality({j \in ValidFrames(set) : Later(set, j, i)})
     IN  [n \in 1 .. Cardinality(ValidFrames(set)) |->
            LET i == CHOOSE j \in ValidFrames(set) : Rank(j) = n
            IN  GetAddr(cache, set.frames[i].tag, k)]]

Abstract == INSTANCE RecencyCache WITH
  recent1   <- Recency(L1),
  recent2   <- Recency(L2),
  dirty     <- DirtyBlocks,
  last_miss <- L2.last_miss_addr,
  traffic   <- [read |-> stats.read_misses_l2,
                prefetched |-> stats.prefetches_l2,
                written |-> stats.writes_l2]

(* Every sequence of accesses leaves the caches, the dirty blocks and the  *)
(* traffic below L1 as the recency lists have them, whatever the           *)
(* prefetcher inserted and wherever.  This is Abstract!RecencySpec, for the *)
(* configurations with LRU replacement (config never changes).             *)
UnderLru == config.replace_policy = "LRU"
ImplementsRecency ==
  /\ UnderLru => Abstract!RecencyInit
  /\ [][UnderLru => [Abstract!RecencyNext]_(Abstract!recencyVars)]_vars

-----------------------------------------------------------------------------
BlocksOf(cache, k, frames) ==
  {GetAddr(cache, cache.sets[k].frames[i].tag, k) : i \in frames}

Uses(cache) ==
  [k \in DOMAIN cache.sets |->
     LET set == cache.sets[k]
     IN  [a \in BlocksOf(cache, k, ValidFrames(set)) |->
            set.frames[Find(set, Tag(cache, a))].counter]]

Protected(cache) ==
  [k \in DOMAIN cache.sets |->
     BlocksOf(cache, k, {i \in ValidFrames(cache.sets[k]) :
                           cache.sets[k].frames[i].MRU})]

Frequency == INSTANCE FrequencyCache WITH
  uses1     <- Uses(L1),
  uses2     <- Uses(L2),
  last1     <- Protected(L1),
  last2     <- Protected(L2),
  dirty     <- DirtyBlocks,
  last_miss <- L2.last_miss_addr

(* Every sequence of accesses leaves in each set the blocks that counting  *)
(* uses and protecting the last one leave there: the counter of a block    *)
(* survives what happens to the other frames, write-backs and prefetches   *)
(* count as they should, and the MRU mark moves with every use.  This is   *)
(* Frequency!FrequencySpec, for the configurations with LFU replacement    *)
(* and more than one frame in a set of L1 (so in one of L2, if it is on):  *)
(* with one frame the program ends at the first replacement, see           *)
(* VictimFound.                                                            *)
UnderLfu == config.replace_policy = "LFU" /\ config.s1 > 0
ImplementsFrequency ==
  /\ UnderLfu => Frequency!FrequencyInit
  /\ [][UnderLfu => [Frequency!FrequencyNext]_(Frequency!frequencyVars)]_vars
=============================================================================
