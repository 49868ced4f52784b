---------------------------- MODULE RecencyCache ----------------------------
(***************************************************************************)
(* What the two-level cache promises under LRU replacement, without        *)
(* frames, tags or time stamps: each set is a list of blocks, the most     *)
(* recently used first, and what no longer fits falls off its end.  L1     *)
(* holds the stores (dirty) until their block falls off; L2 is told then,  *)
(* is filled by the reads that miss L1, and prefetches when it misses too. *)
(***************************************************************************)
EXTENDS Integers, Sequences

CONSTANTS ConfigSet, B, BLOCKS, AddrSet

VARIABLES
  config,
  recent1, recent2,  \* the lists of L1 and of L2
  dirty,             \* blocks of L1 stored to since they came in
  last_miss,         \* the stride prefetcher's reference
  traffic            \* blocks read, prefetched and written below L1

recencyVars == <<config, recent1, recent2, dirty, last_miss, traffic>>

Sets1 == 2 ^ (config.c1 - B - config.s1)
Sets2 == 2 ^ (config.c2 - B - config.s2)
Ways1 == 2 ^ config.s1
Ways2 == 2 ^ config.s2

Member(q, a) == \E k \in 1 .. Len(q) : q[k] = a

Shortest(m, n) == IF m < n THEN m ELSE n

(* a in front of the others, the last one dropped if there are too many: *)
(* those that were before a move down by one place.                      *)
Front(q, a, ways) ==
  LET Passed(n) == \E k \in 1 .. n : q[k] = a
      size == IF Member(q, a) THEN Len(q) ELSE Shortest(ways, Len(q) + 1)
  IN  [n \in 1 .. size |-> IF n = 1 THEN a
                          ELSE IF Passed(n - 1) THEN q[n] ELSE q[n - 1]]

(* a behind the others, in the place of the last one if the set is full. *)
Behind(q, a, ways) ==
  LET size == Shortest(ways, Len(q) + 1)
  IN  [n \in 1 .. size |-> IF n = size THEN a ELSE q[n]]

RecencyInit ==
  /\ config \in ConfigSet
  /\ recent1 = [k \in 0 .. Sets1 - 1 |-> <<>>]
  /\ recent2 = [k \in 0 .. Sets2 - 1 |-> <<>>]
  /\ dirty = {} /\ last_miss = 0
  /\ traffic = [read |-> 0, prefetched |-> 0, written |-> 0]

Hit1(a) == Member(recent1[a % Sets1], a)
Hit2(a) == ~config.l2_disabled /\ Member(recent2[a % Sets2], a)

Reuse(rw, a) ==
  /\ Hit1(a)
  /\ recent1' = [recent1 EXCEPT ![a % Sets1] = Front(@, a, Ways1)]
  /\ dirty' = IF rw = "W" THEN dirty \cup {a} ELSE dirty
  /\ UNCHANGED <<config, recent2, last_miss, traffic>>

(* The block that has to make room for a in L1, if its set is full. *)
Leaving(a) ==
  LET q == recent1[a % Sets1]
  IN  IF Len(q) = Ways1 THEN {q[Ways1]} ELSE {}

Target(a) ==
  IF config.strided_prefetch_disabled THEN (a + 1) % BLOCKS
  ELSE (2 * a - last_miss) % BLOCKS

Demanded2(a) ==
  IF config.l2_disabled THEN recent2
  ELSE [recent2 EXCEPT ![a % Sets2] = Front(@, a, Ways2)]

PrefetchTargets(a) ==
  {t \in {Target(a)} :
     /\ ~config.l2_disabled /\ ~config.prefetcher_disabled /\ ~Hit2(a)
     /\ ~Member(Demanded2(a)[t % Sets2], t)}

AfterPrefetch(r, t) ==
  [r EXCEPT ![t % Sets2] = IF config.insert_policy = "MIP"
                           THEN Front(@, t, Ways2) ELSE Behind(@, t, Ways2)]

AfterWrite(r, v) ==
  IF ~config.l2_disabled /\ Member(r[v % Sets2], v)
  THEN [r EXCEPT ![v % Sets2] = Front(@, v, Ways2)] ELSE r

Fill(rw, a) ==
  /\ ~Hit1(a)
  /\ recent1' = [recent1 EXCEPT ![a % Sets1] = Front(@, a, Ways1)]
  /\ dirty' = (dirty \ Leaving(a)) \cup (IF rw = "W" THEN {a} ELSE {})
  /\ \E r \in {Demanded2(a)} : \E s \in
       (IF PrefetchTargets(a) = {} THEN {r}
        ELSE {AfterPrefetch(r, t) : t \in PrefetchTargets(a)}) :
       recent2' = IF Leaving(a) \cap dirty = {} THEN s
                  ELSE AfterWrite(s, CHOOSE v \in Leaving(a) : TRUE)
  /\ last_miss' = IF \/ config.l2_disabled \/ config.prefetcher_disabled
                     \/ config.strided_prefetch_disabled \/ Hit2(a)
                  THEN last_miss ELSE a
  /\ traffic' =
       [read       |-> traffic.read + (IF Hit2(a) THEN 0 ELSE 1),
        prefetched |-> traffic.prefetched
                         + (IF PrefetchTargets(a) = {} THEN 0 ELSE 1),
        written    |-> traffic.written
                         + (IF Leaving(a) \cap dirty = {} THEN 0 ELSE 1)]
  /\ UNCHANGED config

RecencyNext ==
  \E rw \in {"R", "W"}, a \in AddrSet : Reuse(rw, a) \/ Fill(rw, a)

RecencySpec == RecencyInit /\ [][RecencyNext]_recencyVars
=============================================================================
