------------------------------ MODULE MCCacheSim ------------------------------
(***************************************************************************)
(* Configurations for model checking the two-level cache: an L1 of two     *)
(* blocks and an L2 of four, in sets of one or two.                        *)
(***************************************************************************)
EXTENDS CacheRefinement

Plain == [c1 |-> 5, s1 |-> 1, c2 |-> 6, s2 |-> 1, l2_disabled |-> FALSE,
          prefetcher_disabled |-> FALSE, strided_prefetch_disabled |-> TRUE,
          replace_policy |-> "LRU", insert_policy |-> "LIP"]

(* LRU: the +1 prefetcher and the strided one with both insertion          *)
(* policies, no prefetcher, no L2, and direct-mapped caches.               *)
LruConfigs ==
  {Plain, [Plain EXCEPT !.insert_policy = "MIP"],
   [Plain EXCEPT !.strided_prefetch_disabled = FALSE],
   [Plain EXCEPT !.strided_prefetch_disabled = FALSE, !.insert_policy = "MIP"],
   [Plain EXCEPT !.prefetcher_disabled = TRUE],
   [Plain EXCEPT !.l2_disabled = TRUE],
   [Plain EXCEPT !.s1 = 0, !.s2 = 0, !.strided_prefetch_disabled = FALSE]}

LfuConfigs ==
  {[x EXCEPT !.replace_policy = "LFU", !.s1 = 1, !.s2 = 1] : x \in LruConfigs}

(* LFU with a set of four in L2, in which the counts matter. *)
FourWay == [Plain EXCEPT !.replace_policy = "LFU", !.s1 = 1, !.s2 = 2]
FourWayLfu ==
  {FourWay,
   [FourWay EXCEPT !.insert_policy = "MIP",
                   !.strided_prefetch_disabled = FALSE]}

AllConfigs == LruConfigs \cup LfuConfigs \cup FourWayLfu

DirectMappedLfu == {[Plain EXCEPT !.replace_policy = "LFU", !.s1 = 0, !.s2 = 0]}

(* The smallest caches validate_config accepts: one block, and two. *)
SmallestLip == {[Plain EXCEPT !.c1 = 4, !.s1 = 0, !.c2 = 5, !.s2 = 0]}
=============================================================================
