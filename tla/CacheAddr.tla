------------------------------ MODULE CacheAddr ------------------------------
(***************************************************************************)
(* How the caches of project1 take an address apart (cachesim_cache.cpp):  *)
(* the masks the constructor computes, tag and index of an access, the     *)
(* address a victim is written back to, and the address that is            *)
(* prefetched.  Module CacheSim works with block numbers and takes all     *)
(* this as division and remainder.                                         *)
(*                                                                         *)
(* The behaviour follows one block: it is read through L1 and L2, L2 may   *)
(* prefetch, and L1 may write the block back.                              *)
(***************************************************************************)
EXTENDS Word

CONSTANTS
  ConfigSet,  \* configurations the run may be given
  AddrSet     \* addresses the trace draws from

Config == [b : Nat, c1 : Nat, s1 : Nat, c2 : Nat, s2 : Nat,
           strided_prefetch_disabled : BOOLEAN]

(* validate_config, with L2 enabled *)
ValidConfig(x) == x.b \in 4 .. 7 /\ x.s1 <= x.s2 /\ x.c1 < x.c2

(* Sets of more than 1024 ways, which validate_config accepts as well, are *)
(* left out: Set::Set returns early for them, with counts never written.   *)
ASSUME AddrAssumption ==
  /\ ConfigSet \subseteq Config /\ \A x \in ConfigSet : ValidConfig(x)
  /\ \A x \in ConfigSet : x.s1 <= 10 /\ x.s2 <= 10
  /\ AddrSet \subseteq Words

VARIABLES
  config,          \* sim_config_t
  read_at,         \* where the last access looked in L1 and in L2
  last_miss_addr,  \* L2's reference for strided prefetches
  prefetch_addr,   \* the last address prefetched
  written_at,      \* where L2 has looked for that block as a victim of L1
  crashed          \* an access has gone to sets that are not there

vars == <<config, read_at, last_miss_addr, prefetch_addr, written_at, crashed>>

-----------------------------------------------------------------------------
(* Cache::Cache.  A level is given by its c, b and s.  The difference is   *)
(* unsigned, so a negative one is also above 10; the constructor then      *)
(* returns and leaves the masks unset and the sets null.  Set::Set builds  *)
(* up to 1024 frames.                                                      *)
Level(c, b, s) == [c |-> c, b |-> b, s |-> s]
L1 == Level(config.c1, config.b, config.s1)
L2 == Level(config.c2, config.b, config.s2)

Built(l) == l.c - l.b - l.s \in 0 .. 10 /\ l.s <= 10

OffsetMask(l) == Widen(IntOnes(l.b))
IndexMaskWide(l) == Widen(IntShl(IntOnes(l.c - l.b), l.b))        \* mutated form
IndexMask(l)  == Widen(IntShl(IntOnes(l.c - l.b - l.s), l.b))
UnsignedTagMask(l) ==                                           \* mutated form
  IntShl(IntOnes(WORD_BITS - l.c + l.s), l.c - l.s)
TagMask(l)    == Widen(IntShl(IntOnes(WORD_BITS - l.c + l.s), l.c - l.s))

(* Read and Write: the place of an address in a level *)
Tag(l, addr)   == Shr(addr \cap TagMask(l), l.c - l.s)
Index(l, addr) == Shr(addr \cap IndexMask(l), l.b)
Place(l, addr) == [tag |-> Tag(l, addr), index |-> Index(l, addr)]

GetAddrSwapped(l, place) ==                                     \* mutated form
  Shl(place.tag, l.c - l.b - l.s) \cup Shl(place.index, l.b)
(* get_addr *)
GetAddr(l, place) == Shl(place.tag, l.c - l.s) \cup Shl(place.index, l.b)

MissAddrUnaligned(l, addr) == addr                              \* mutated form
(* Prefetch: the block address of the miss, and the address it leads to *)
MissAddr(l, addr) == (addr \cap TagMask(l)) \cup (addr \cap IndexMask(l))

Stride(l, addr, last) ==
  IF config.strided_prefetch_disabled THEN Shl({0}, l.b)
  ELSE Minus(MissAddr(l, addr), last)

-----------------------------------------------------------------------------
Nowhere == [tag |-> {}, index |-> {}]

Init ==
  /\ config \in ConfigSet
  /\ read_at = [addr |-> {}, l1 |-> Nowhere, l2 |-> Nowhere]
  /\ last_miss_addr = {} /\ prefetch_addr = {}
  /\ written_at = {}
  /\ crashed = FALSE

AllBuilt == Built(L1) /\ Built(L2)

(* An access that misses in both levels: Read on L1, which reads L2, which *)
(* prefetches.                                                             *)
ReadMiss(addr) ==
  /\ AllBuilt
  /\ read_at' = [addr |-> addr, l1 |-> Place(L1, addr), l2 |-> Place(L2, addr)]
  /\ prefetch_addr' =
       Plus(MissAddr(L2, addr), Stride(L2, addr, last_miss_addr))
  /\ last_miss_addr' = IF config.strided_prefetch_disabled THEN last_miss_addr
                       ELSE MissAddr(L2, addr)
  /\ written_at' = {}
  /\ UNCHANGED <<config, crashed>>

(* Handle_Miss finds that block dirty and calls Victim, which writes it    *)
(* to L2.                                                                  *)
WriteBack ==
  /\ AllBuilt
  /\ written_at' = {Place(L2, GetAddr(L1, read_at.l1))}
  /\ UNCHANGED <<config, read_at, last_miss_addr, prefetch_addr, crashed>>

(* The same with a level that was not built: cache[index] is null. *)
ReadUnbuilt ==
  /\ ~AllBuilt
  /\ crashed' = TRUE
  /\ UNCHANGED <<config, read_at, last_miss_addr, prefetch_addr, written_at>>

Next ==
  \/ \E addr \in AddrSet : ReadMiss(addr)
  \/ WriteBack
  \/ ReadUnbuilt

Spec == Init /\ [][Next]_vars

-----------------------------------------------------------------------------
BlockOf(l, addr) == {k \in addr : k >= l.b}

(* Tag and index name a block: two addresses have the same place exactly   *)
(* when they differ in the offset only, at both ends of a 64-bit address,  *)
(* and the index stays below the number of sets that were built.           *)
SplitExact ==
  AllBuilt => \A l \in {L1, L2} :
    /\ \A a \in AddrSet : Place(l, a) = Place(l, read_at.addr)
                            <=> BlockOf(l, a) = BlockOf(l, read_at.addr)
    /\ Index(l, read_at.addr) \subseteq 0 .. l.c - l.b - l.s - 1

(* The number a word stands for: value[n] is that of its n highest bits.   *)
Value(w) ==
  LET value[n \in 0 .. WORD_BITS] ==
        IF n = 0 THEN 0
        ELSE 2 * value[n - 1] + (IF WORD_BITS - n \in w THEN 1 ELSE 0)
  IN  value[WORD_BITS]

(* Tag and Index of CacheSim are what the masks compute: division of the   *)
(* block number by the number of sets, and its remainder.                  *)
Divides(addr, l, place) ==
  LET sets  == 2 ^ (l.c - l.b - l.s)
      block == Value(addr) \div 2 ^ l.b
  IN  /\ Value(place.index) = block % sets
      /\ Value(place.tag) = block \div sets

(* The same for the last access, as far as TLC has numbers for its address. *)
SplitIsDivision ==
  AllBuilt /\ read_at.addr \subseteq 0 .. 29 =>
    /\ Divides(read_at.addr, L1, read_at.l1)
    /\ Divides(read_at.addr, L2, read_at.l2)

(* The address that L1 rebuilds from a victim's tag and its own index      *)
(* leads L2 to the place where it looked when the block was read.          *)
WriteBackFindsBlock ==
  written_at \subseteq {read_at.l2}

(* A prefetched address is the start of a block, and as far ahead of the   *)
(* miss as the miss was of the one before, or one block, also when that    *)
(* wraps around the address space.                                         *)
PrefetchAligned ==
  [][prefetch_addr' # prefetch_addr =>
       LET miss == BlockOf(L2, read_at'.addr)
       IN  /\ prefetch_addr' \cap OffsetMask(L2) = {}
           /\ Minus(prefetch_addr', miss)
                = IF config.strided_prefetch_disabled THEN {config.b}
                  ELSE Minus(miss, last_miss_addr)]_vars

(* "Total size in bytes for L2 is 2^C1" (cachesim_driver.cpp, print_help): *)
(* a configuration that validate_config accepts can be simulated.          *)
AcceptedConfigRuns == ~crashed
=============================================================================
