------------------------------ MODULE CacheSim ------------------------------
(***************************************************************************)
(* The two-level cache of project1 (cachesim_cache.cpp, cachesim.cpp).     *)
(* L1 is write-back and write-allocate; L2 is write-through, does not      *)
(* allocate on writes, and prefetches on read misses.  One action is one   *)
(* sim_access with all the calls it makes.                                 *)
(*                                                                         *)
(* An address is the number of its block: the offset only selects a byte.  *)
(***************************************************************************)
EXTENDS CacheSet

CONSTANTS
  ConfigSet,   \* configurations the run may be given
  B,           \* log2 of the block size
  BLOCKS,      \* blocks in the address space, 2^(64 - b) in the code
  AddrSet,     \* addresses the trace draws from
  MAX_ACCESSES \* bound on the length of the trace

Config ==
  [c1 : Nat, s1 : Nat, c2 : Nat, s2 : Nat, l2_disabled : BOOLEAN,
   prefetcher_disabled : BOOLEAN, strided_prefetch_disabled : BOOLEAN,
   replace_policy : {"LRU", "LFU"}, insert_policy : {"MIP", "LIP"}]

(* validate_config, and sizes that Cache::Cache and Set::Set build: at     *)
(* least one set and at most 1024, of at most 1024 ways.                   *)
ValidConfig(x) ==
  /\ ~x.l2_disabled => x.s1 <= x.s2 /\ x.c1 < x.c2
  /\ x.c1 - B - x.s1 \in 0 .. 10 /\ x.c2 - B - x.s2 \in 0 .. 10
  /\ x.s1 <= 10 /\ x.s2 <= 10

ASSUME CacheAssumption ==
  /\ ConfigSet \subseteq Config /\ \A x \in ConfigSet : ValidConfig(x)
  /\ B \in 4 .. 7 /\ BLOCKS \in Nat /\ AddrSet \subseteq 0 .. BLOCKS - 1
  /\ MAX_ACCESSES \in Nat

VARIABLES
  config,  \* sim_config_t
  L1, L2,  \* the caches
  stats    \* sim_stats_t

vars == <<config, L1, L2, stats>>

(* Cache::Cache.  The field lost is set when an insertion finds no victim. *)
NewCache(c, s) ==
  [sets |-> [k \in 0 .. 2 ^ (c - B - s) - 1 |-> NewSet(2 ^ s)],
   time_stamp |-> 2 ^ (c - B + 1), last_miss_addr |-> 0, lost |-> FALSE]

NoStats ==
  [reads |-> 0, writes |-> 0, accesses_l1 |-> 0, hits_l1 |-> 0,
   misses_l1 |-> 0, reads_l2 |-> 0, writes_l2 |-> 0, read_hits_l2 |-> 0,
   read_misses_l2 |-> 0, prefetches_l2 |-> 0]

Init ==
  /\ config \in ConfigSet
  /\ L1 = NewCache(config.c1, config.s1)
  /\ L2 = NewCache(config.c2, config.s2)
  /\ stats = NoStats

-----------------------------------------------------------------------------
(* A cache *)

SetNum(cache)      == Cardinality(DOMAIN cache.sets)
Index(cache, addr) == addr % SetNum(cache)
Tag(cache, addr)   == addr \div SetNum(cache)
GetAddr(cache, tag, index) == tag * SetNum(cache) + index

SetOf(cache, addr) == cache.sets[Index(cache, addr)]
Cached(cache, addr) == Has(SetOf(cache, addr), Tag(cache, addr))

TouchLFU(cache, addr) ==
  LET k == Index(cache, addr)
      i == Find(cache.sets[k], Tag(cache, addr))
      set == ClearMRU(cache.sets[k])
      block == [set.frames[i] EXCEPT !.MRU = TRUE, !.counter = @ + 1]
  IN  [cache EXCEPT !.sets[k] = [set EXCEPT !.frames[i] = block]]

TouchLRU(cache, addr) ==
  LET k == Index(cache, addr)
      i == Find(cache.sets[k], Tag(cache, addr))
  IN  [cache EXCEPT !.sets[k].frames[i].time_stamp = cache.time_stamp,
                    !.time_stamp = @ + 1]

TouchNothing(cache, addr) == cache                              \* mutated form

(* A hit makes the block the most recently used one. *)
Touch(cache, addr) ==
  IF config.replace_policy = "LRU" THEN TouchLRU(cache, addr)
  ELSE TouchLFU(cache, addr)

SetDirty(cache, addr, dirty) ==
  LET k == Index(cache, addr)
  IN  [cache EXCEPT
         !.sets[k].frames[Find(cache.sets[k], Tag(cache, addr))].dirty_bit =
            dirty]

(* The frame a block of addr would take, and the cache with it there; mru  *)
(* says whether it takes the MRU mark over.  A set without a victim is     *)
(* indexed with -1, which ends the program: the cache is lost.             *)
FrameFor(cache, addr) == InsertAt(SetOf(cache, addr), config.replace_policy)

Place(cache, addr, block, mru) ==
  LET k == Index(cache, addr)
      i == FrameFor(cache, addr)
      set == IF mru THEN ClearMRU(cache.sets[k]) ELSE cache.sets[k]
  IN  IF i = NoVictim THEN [cache EXCEPT !.lost = TRUE]
      ELSE [cache EXCEPT !.sets[k] = Insert(set, i, [block EXCEPT !.MRU = mru])]

(* Handle_Miss: the block comes in as the most recent one, counted once. *)
Demand(cache, addr) ==
  LET block == NewBlock(Tag(cache, addr), cache.time_stamp)
  IN  [Place(cache, addr, [block EXCEPT !.counter = 1], TRUE)
         EXCEPT !.time_stamp = @ + 1]

LipAtMinimum(set, stamp) ==                                     \* mutated form
  IF set.valid_block_num = 0 THEN stamp
  ELSE CHOOSE t \in 0 .. SENTINEL :
         /\ \A i \in 1 .. set.valid_block_num : t <= set.frames[i].time_stamp
         /\ \E i \in 1 .. set.valid_block_num : t = set.frames[i].time_stamp

(* The stamp of a block inserted at the LRU position: one less than the    *)
(* smallest of the set, the subtraction being unsigned.                    *)
LipStamp(set, stamp) ==
  LET stamps == {set.frames[i].time_stamp : i \in 1 .. set.valid_block_num}
      least == CHOOSE t \in stamps \cup {SENTINEL} :
                 \A u \in stamps \cup {SENTINEL} : t <= u
  IN  IF set.valid_block_num = 0 THEN stamp ELSE (least - 1) % STAMPS

(* Prefetch_Miss *)
PrefetchMiss(cache, addr) ==
  IF config.insert_policy = "MIP"
  THEN [Place(cache, addr, NewBlock(Tag(cache, addr), cache.time_stamp), TRUE)
          EXCEPT !.time_stamp = @ + 1]
  ELSE LET stamp == LipStamp(SetOf(cache, addr), cache.time_stamp)
       IN  Place(cache, addr, NewBlock(Tag(cache, addr), stamp), FALSE)

(* Prefetch: the next block, or the one as far ahead as this miss is from  *)
(* the last one.                                                           *)
PrefetchAddr(cache, addr) ==
  IF config.strided_prefetch_disabled THEN (addr + 1) % BLOCKS
  ELSE (addr + addr - cache.last_miss_addr) % BLOCKS

WantsPrefetch(cache, addr) ==
  /\ ~config.l2_disabled /\ ~config.prefetcher_disabled
  /\ ~Cached(Demand(cache, addr), PrefetchAddr(cache, addr))

Prefetch(cache, addr, target) ==
  LET noted == IF config.strided_prefetch_disabled THEN cache
               ELSE [cache EXCEPT !.last_miss_addr = addr]
  IN  IF Cached(cache, target) THEN noted ELSE PrefetchMiss(noted, target)

-----------------------------------------------------------------------------
(* L2 *)

(* Cache::Read on L2 *)
L2Read(addr) ==
  IF config.l2_disabled THEN L2
  ELSE IF Cached(L2, addr) THEN Touch(L2, addr)
  ELSE IF config.prefetcher_disabled THEN Demand(L2, addr)
  ELSE Prefetch(Demand(L2, addr), addr, PrefetchAddr(L2, addr))

(* Cache::Write on L2: a hit is refreshed, a miss changes nothing. *)
L2Write(cache, addr) ==
  IF ~config.l2_disabled /\ Cached(cache, addr)
  THEN SetDirty(Touch(cache, addr), addr, FALSE) ELSE cache

-----------------------------------------------------------------------------
(* L1 and sim_access *)

Crashed == L1.lost \/ L2.lost

Counts(cond) == IF cond THEN 1 ELSE 0

CanAccess == ~Crashed /\ stats.reads + stats.writes < MAX_ACCESSES

CountAccess(rw) ==
  [stats EXCEPT !.reads = @ + Counts(rw = "R"),
                !.writes = @ + Counts(rw = "W"), !.accesses_l1 = @ + 1]

L1Hit(rw, addr) ==
  /\ CanAccess /\ Cached(L1, addr)
  /\ L1' = IF rw = "R" THEN Touch(L1, addr)
           ELSE SetDirty(Touch(L1, addr), addr, TRUE)
  /\ stats' = [CountAccess(rw) EXCEPT !.hits_l1 = @ + 1]
  /\ UNCHANGED <<config, L2>>

WritesBackClean(addr) ==                                        \* mutated form
  LET i == FrameFor(L1, addr)
  IN  i # NoVictim /\ SetOf(L1, addr).frames[i].valid_bit

(* The block that leaves L1 for addr has to be written back. *)
WritesBack(addr) ==
  LET i == FrameFor(L1, addr)
  IN  i # NoVictim /\ SetOf(L1, addr).frames[i].dirty_bit

VictimAddr(addr) ==
  GetAddr(L1, SetOf(L1, addr).frames[FrameFor(L1, addr)].tag, Index(L1, addr))

L1Miss(rw, addr) ==
  /\ CanAccess /\ ~Cached(L1, addr)
  /\ L1' = LET filled == Demand(L1, addr)
           IN  IF rw = "R" \/ filled.lost THEN filled
               ELSE SetDirty(filled, addr, TRUE)
  /\ L2' = IF WritesBack(addr) THEN L2Write(L2Read(addr), VictimAddr(addr))
           ELSE L2Read(addr)
  /\ LET hit == ~config.l2_disabled /\ Cached(L2, addr)
     IN  stats' = [CountAccess(rw) EXCEPT
                     !.misses_l1 = @ + 1, !.reads_l2 = @ + 1,
                     !.read_hits_l2 = @ + Counts(hit),
                     !.read_misses_l2 = @ + Counts(~hit),
                     !.prefetches_l2 = @ + Counts(~hit /\ WantsPrefetch(L2, addr)),
                     !.writes_l2 = @ + Counts(WritesBack(addr))]
  /\ UNCHANGED config

Access(rw, addr) == L1Hit(rw, addr) \/ L1Miss(rw, addr)

Next == \E rw \in {"R", "W"}, addr \in AddrSet : Access(rw, addr)

Spec == Init /\ [][Next]_vars /\ WF_vars(Next)

-----------------------------------------------------------------------------
CacheType(c, s) ==
  [sets : [0 .. 2 ^ (c - B - s) - 1 -> SetType(2 ^ s)],
   time_stamp : Nat, last_miss_addr : Nat, lost : BOOLEAN]

StatsType ==
  [reads : Nat, writes : Nat, accesses_l1 : Nat, hits_l1 : Nat,
   misses_l1 : Nat, reads_l2 : Nat, writes_l2 : Nat, read_hits_l2 : Nat,
   read_misses_l2 : Nat, prefetches_l2 : Nat]

(* Every set keeps its frames and counts no more valid ones than it has,   *)
(* in L1 and L2 (Set::Insert, Set::Set).                                   *)
TypeOK ==
  /\ config \in ConfigSet
  /\ L1 \in CacheType(config.c1, config.s1)
  /\ L2 \in CacheType(config.c2, config.s2)
  /\ stats \in StatsType

ValidFrames(set) == {i \in Frames(set) : set.frames[i].valid_bit}

(* The blocks of the address space that a cache holds. *)
Contents(cache) == {addr \in 0 .. BLOCKS - 1 : Cached(cache, addr)}

(* What the replacement code takes for granted of every set: the valid     *)
(* frames are the first valid_block_num (Prefetch_Miss looks for the       *)
(* smallest stamp among those only), no block is there twice, and at most  *)
(* one is marked MRU.                                                      *)
WellShaped(set) ==
  /\ ValidFrames(set) = 1 .. set.valid_block_num
  /\ \A i, j \in ValidFrames(set) :
       set.frames[i].tag = set.frames[j].tag => i = j
  /\ \A i, j \in Frames(set) :
       set.frames[i].MRU /\ set.frames[j].MRU => i = j

SetShape ==
  \A cache \in {L1, L2} : \A k \in DOMAIN cache.sets : WellShaped(cache.sets[k])

DirtyBlocks ==
  {addr \in Contents(L1) :
     LET set == SetOf(L1, addr)
     IN  set.frames[Find(set, Tag(L1, addr))].dirty_bit}

(* The statistics account for every block: each access hits or misses, L2  *)
(* is read once per miss of L1, what L2 holds was read or prefetched, and  *)
(* no store is written back twice.                                         *)
StatsBalance ==
  /\ stats.accesses_l1 = stats.reads + stats.writes
  /\ stats.hits_l1 + stats.misses_l1 = stats.accesses_l1
  /\ stats.reads_l2 = stats.misses_l1
  /\ stats.read_hits_l2 + stats.read_misses_l2 = stats.reads_l2
  /\ stats.prefetches_l2 <= stats.read_misses_l2
  /\ stats.writes_l2 + Cardinality(DirtyBlocks) <= stats.writes
  /\ Cardinality(Contents(L2)) <= stats.read_misses_l2 + stats.prefetches_l2

(* A prefetch does not cost L2 the block whose miss caused it: the block   *)
(* that just entered L1 is in L2 as well, unless a set of L2 has one frame *)
(* only or L2 is disabled.                                                 *)
PrefetchKeepsDemand ==
  [][~config.l2_disabled /\ config.s2 > 0 =>
       (Contents(L1)' \ Contents(L1)) \subseteq Contents(L2)']_vars

(* "Use min_time_stamp-1" (cachesim_cache.cpp, Prefetch_Miss): under LIP a *)
(* block that L2 prefetches is older than all others of its set, which     *)
(* under LRU makes it the next victim unless it is used.  A dirty victim   *)
(* of L1 that the prefetch brought back and the write-back then hit is     *)
(* used at once.                                                           *)
LipIsOldest ==
  [][config.insert_policy = "LIP" =>
       \A addr \in (Contents(L2)' \ Contents(L2))
                     \ (Contents(L1)' \cup Contents(L1)) :
         LET set == SetOf(L2', addr)
             me  == set.frames[Find(set, Tag(L2', addr))]
         IN  \A i \in ValidFrames(set) :
               set.frames[i].tag # me.tag =>
                 me.time_stamp < set.frames[i].time_stamp]_vars

(* The victim search always finds a frame: "No block can victim! Wrong!"   *)
(* (cachesim_set_block.cpp) is never the case.                             *)
VictimFound == ~Crashed
=============================================================================
