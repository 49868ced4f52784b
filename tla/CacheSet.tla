------------------------------ MODULE CacheSet ------------------------------
(***************************************************************************)
(* One set of a cache of project1 (cachesim_set_block.cpp): its frames,    *)
(* lookup, insertion and the choice of a victim, as operators on a set.    *)
(***************************************************************************)
EXTENDS Integers, FiniteSets

CONSTANT TS_BITS  \* width of a time stamp, 64 in the code

ASSUME StampAssumption == TS_BITS \in Nat \ {0}

STAMPS   == 2 ^ TS_BITS        \* a time stamp is a number modulo STAMPS
SENTINEL == 2 ^ (TS_BITS - 1)  \* the code's 1 << 63

Block == [tag : Nat, valid_bit : BOOLEAN, dirty_bit : BOOLEAN,
          time_stamp : Nat, MRU : BOOLEAN, counter : Nat]

SetType(ways) == [frames : [1 .. ways -> Block], valid_block_num : 0 .. ways]

NewBlock(tag, stamp) ==
  [tag |-> tag, valid_bit |-> TRUE, dirty_bit |-> FALSE,
   time_stamp |-> stamp, MRU |-> FALSE, counter |-> 0]

EmptyBlock == [NewBlock(0, 0) EXCEPT !.valid_bit = FALSE]

NewSet(ways) ==
  [frames |-> [i \in 1 .. ways |-> EmptyBlock], valid_block_num |-> 0]

Frames(set) == DOMAIN set.frames

Has(set, tag) ==
  \E i \in Frames(set) : set.frames[i].valid_bit /\ set.frames[i].tag = tag

(* Set::Find, where Has says that there is something to find *)
Find(set, tag) ==
  CHOOSE i \in Frames(set) : set.frames[i].valid_bit /\ set.frames[i].tag = tag

NoVictim == 0  \* victim_index keeps its initial value -1

(* The oldest time stamp below the sentinel, the first frame that has it. *)
LRU_Victim_block(set) ==
  LET Stamp(i) == set.frames[i].time_stamp
      Oldest(i) == /\ Stamp(i) < SENTINEL
                   /\ \A j \in Frames(set) : /\ Stamp(i) <= Stamp(j)
                                             /\ j < i => Stamp(i) < Stamp(j)
  IN  IF \E i \in Frames(set) : Oldest(i)
      THEN CHOOSE i \in Frames(set) : Oldest(i) ELSE NoVictim

LFU_AnyBlock(set) ==                                            \* mutated form
  CHOOSE i \in Frames(set) : \A j \in Frames(set) :
    \/ set.frames[i].counter < set.frames[j].counter
    \/ /\ set.frames[i].counter = set.frames[j].counter
       /\ set.frames[i].tag <= set.frames[j].tag

LFU_FirstLeast(set) ==                                          \* mutated form
  LET Candidate(i) == ~set.frames[i].MRU
      Before(i, j) == set.frames[i].counter < set.frames[j].counter
                        \/ (set.frames[i].counter = set.frames[j].counter
                              /\ i <= j)
  IN  CHOOSE i \in Frames(set) :
        Candidate(i) /\ \A j \in Frames(set) : Candidate(j) => Before(i, j)

(* The smallest count, then the smallest tag, of the frames not marked MRU. *)
LFU_Victim_block(set) ==
  LET Candidate(i) == ~set.frames[i].MRU
      Before(i, j) == \/ set.frames[i].counter < set.frames[j].counter
                      \/ /\ set.frames[i].counter = set.frames[j].counter
                         /\ set.frames[i].tag <= set.frames[j].tag
      Least(i) == /\ Candidate(i)
                  /\ \A j \in Frames(set) : Candidate(j) => Before(i, j)
  IN  IF \E i \in Frames(set) : Least(i)
      THEN CHOOSE i \in Frames(set) : Least(i) ELSE NoVictim

(* The first invalid frame. *)
FirstInvalid(set) ==
  CHOOSE i \in Frames(set) :
    /\ ~set.frames[i].valid_bit
    /\ \A j \in 1 .. i - 1 : set.frames[j].valid_bit

(* Where Set::Insert puts a block that is not there yet: every caller has  *)
(* looked it up before.                                                    *)
InsertAt(set, policy) ==
  IF set.valid_block_num < Cardinality(Frames(set)) THEN FirstInvalid(set)
  ELSE IF policy = "LRU" THEN LRU_Victim_block(set) ELSE LFU_Victim_block(set)

InsertAlwaysCounted(set, i, block) ==                           \* mutated form
  [frames |-> [set.frames EXCEPT ![i] = block],
   valid_block_num |-> set.valid_block_num + 1]

Insert(set, i, block) ==
  [frames |-> [set.frames EXCEPT ![i] = block],
   valid_block_num |-> IF set.frames[i].valid_bit THEN set.valid_block_num
                       ELSE set.valid_block_num + 1]

KeepMRU(set) == set                                             \* mutated form

ClearMRU(set) ==
  [set EXCEPT !.frames = [i \in Frames(set) |->
                            [set.frames[i] EXCEPT !.MRU = FALSE]]]
=============================================================================
