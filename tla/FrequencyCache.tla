--------------------------- MODULE FrequencyCache ---------------------------
(***************************************************************************)
(* What the two-level cache promises under LFU replacement: each set is a  *)
(* bag of blocks that counts how often each was used since it came in, and *)
(* the block used last is protected.  A set that is full gives up the      *)
(* unprotected block used least often, the lowest one if several are.      *)
(* Prefetched blocks come in unused; LIP leaves the protection where it    *)
(* was, MIP moves it to them.                                              *)
(***************************************************************************)
EXTENDS Integers, FiniteSets

CONSTANTS ConfigSet, B, BLOCKS, AddrSet

VARIABLES
  config,
  uses1, uses2,  \* per set: the blocks there and how often they were used
  last1, last2,  \* per set: the protected block, or none
  dirty,         \* blocks of L1 stored to since they came in
  last_miss      \* the stride prefetcher's reference

frequencyVars == <<config, uses1, uses2, last1, last2, dirty, last_miss>>

Sets1 == 2 ^ (config.c1 - B - config.s1)
Sets2 == 2 ^ (config.c2 - B - config.s2)

In(uses, a) == a \in DOMAIN uses

(* The block of a full set that is given up. *)
Victim(uses, last) ==
  CHOOSE v \in DOMAIN uses \ last :
    \A w \in DOMAIN uses \ last :
      uses[v] < uses[w] \/ (uses[v] = uses[w] /\ v <= w)

(* The block that goes when another one comes into a set. *)
Leaving(uses, last, ways) ==
  IF Cardinality(DOMAIN uses) < ways THEN {} ELSE {Victim(uses, last)}

(* The set with block a in it, used n times. *)
Counted(uses, gone, a, n) ==
  [x \in (DOMAIN uses \ gone) \cup {a} |-> IF x = a THEN n ELSE uses[x]]

Used(uses, a) == [uses EXCEPT ![a] = @ + 1]

FrequencyInit ==
  /\ config \in ConfigSet
  /\ uses1 = [k \in 0 .. Sets1 - 1 |-> <<>>]
  /\ uses2 = [k \in 0 .. Sets2 - 1 |-> <<>>]
  /\ last1 = [k \in 0 .. Sets1 - 1 |-> {}]
  /\ last2 = [k \in 0 .. Sets2 - 1 |-> {}]
  /\ dirty = {} /\ last_miss = 0

-----------------------------------------------------------------------------
(* Three things can happen to L2, given as [uses, last]. *)

Use(l2, a) ==
  LET k == a % Sets2
  IN  IF ~config.l2_disabled /\ In(l2.uses[k], a)
      THEN [uses |-> [l2.uses EXCEPT ![k] = Used(@, a)],
            last |-> [l2.last EXCEPT ![k] = {a}]]
      ELSE l2

Bring(l2, a, n, protect) ==
  LET k == a % Sets2
      gone == Leaving(l2.uses[k], l2.last[k], 2 ^ config.s2)
  IN  [uses |-> [l2.uses EXCEPT ![k] = Counted(@, gone, a, n)],
       last |-> [l2.last EXCEPT ![k] = IF protect THEN {a} ELSE @]]

Ahead(a) ==
  IF config.strided_prefetch_disabled THEN (a + 1) % BLOCKS
  ELSE (2 * a - last_miss) % BLOCKS

Prefetches == ~config.prefetcher_disabled

BringAhead(l2, a) ==
  LET t == Ahead(a)
  IN  IF ~Prefetches \/ In(l2.uses[t % Sets2], t) THEN l2
      ELSE Bring(l2, t, 0, config.insert_policy = "MIP")

Hit2(a) == In(uses2[a % Sets2], a)

Read2(l2, a) ==
  CASE config.l2_disabled -> l2
    [] ~config.l2_disabled /\ Hit2(a) -> Use(l2, a)
    [] OTHER -> BringAhead(Bring(l2, a, 1, TRUE), a)

-----------------------------------------------------------------------------
Reuse(rw, a) ==
  LET k == a % Sets1
  IN  /\ In(uses1[k], a)
      /\ uses1' = [uses1 EXCEPT ![k] = Used(@, a)]
      /\ last1' = [last1 EXCEPT ![k] = {a}]
      /\ dirty' = IF rw = "W" THEN dirty \cup {a} ELSE dirty
      /\ UNCHANGED <<config, uses2, last2, last_miss>>

Fill(rw, a) ==
  LET k == a % Sets1
      gone == Leaving(uses1[k], last1[k], 2 ^ config.s1)
      read == Read2([uses |-> uses2, last |-> last2], a)
      done == IF gone \cap dirty = {} THEN read
              ELSE Use(read, CHOOSE v \in gone : TRUE)
  IN  /\ ~In(uses1[k], a)
      /\ uses1' = [uses1 EXCEPT ![k] = Counted(@, gone, a, 1)]
      /\ last1' = [last1 EXCEPT ![k] = {a}]
      /\ dirty' = (dirty \ gone) \cup (IF rw = "W" THEN {a} ELSE {})
      /\ uses2' = done.uses /\ last2' = done.last
      /\ last_miss' = IF \/ config.l2_disabled \/ ~Prefetches \/ Hit2(a)
                         \/ config.strided_prefetch_disabled
                      THEN last_miss ELSE a
      /\ UNCHANGED config

FrequencyNext ==
  \E rw \in {"R", "W"}, a \in AddrSet : Reuse(rw, a) \/ Fill(rw, a)

FrequencySpec == FrequencyInit /\ [][FrequencyNext]_frequencyVars
=============================================================================
