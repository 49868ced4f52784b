---------------------------- MODULE CacheProofs -----------------------------
(***************************************************************************)
(* Proofs about the two-level cache, for every geometry, policy and trace. *)
(* The sets keep their shape: the valid frames are a prefix, no block is   *)
(* there twice, and one block at most is protected (SetShapeHolds).  The   *)
(* statistics account for every block (StatsBalanceHolds): frames are      *)
(* counted where the code sets a valid or a dirty bit, and a block is      *)
(* mapped to the frame it is in.  Under LFU replacement the cache          *)
(* implements FrequencyCache (CacheImplementsFrequency) and under LRU      *)
(* RecencyCache (CacheImplementsRecency): the code works on frames, the    *)
(* abstract caches on blocks, and the lemmas follow a block through what   *)
(* each operation does to the frames of its set.  What holds under LRU     *)
(* rests on the time stamps, which a trace can use up; ShortTrace says     *)
(* which one does not.  Last come the properties of single steps, what a   *)
(* prefetch leaves alone and what LIP makes the oldest.                    *)
(***************************************************************************)
EXTENDS CacheRefinement, Sequences, FiniteSetTheorems, WellFoundedInduction,
        TLAPS

-----------------------------------------------------------------------------
(* Powers of two *)

LEMMA PowerPositive ==
  ASSUME NEW n \in Nat
  PROVE  2 ^ n \in Nat \ {0}
<1> DEFINE S == SUBSET (1 .. n)
<1>1. IsFiniteSet(1 .. n) /\ Cardinality(1 .. n) = n  BY FS_Interval
<1>2. IsFiniteSet(S) /\ Cardinality(S) = 2 ^ n  BY <1>1, FS_SUBSET
<1>3. {} \in S  OBVIOUS
<1> HIDE DEF S
<1>4. Cardinality(S) \in Nat /\ Cardinality(S) # 0
  BY <1>2, <1>3, FS_CardinalityType, FS_EmptySet
<1> QED  BY <1>2, <1>4

LEMMA StampSizes == STAMPS \in Nat \ {0} /\ SENTINEL \in Nat \ {0}
<1>1. TS_BITS \in Nat /\ TS_BITS - 1 \in Nat  BY StampAssumption
<1> QED  BY <1>1, PowerPositive DEF STAMPS, SENTINEL

LEMMA Geometry ==
  ASSUME NEW x \in ConfigSet
  PROVE  /\ 2 ^ x.s1 \in Nat \ {0} /\ 2 ^ (x.c1 - B - x.s1) \in Nat \ {0}
         /\ 2 ^ x.s2 \in Nat \ {0} /\ 2 ^ (x.c2 - B - x.s2) \in Nat \ {0}
         /\ 2 ^ (x.c1 - B + 1) \in Nat /\ 2 ^ (x.c2 - B + 1) \in Nat
<1>1. x \in Config /\ ValidConfig(x) /\ B \in Nat  BY CacheAssumption
<1>2. x.s1 \in Nat /\ x.s2 \in Nat /\ x.c1 \in Nat /\ x.c2 \in Nat
  BY <1>1 DEF Config
<1>3. x.c1 - B - x.s1 \in Nat /\ x.c2 - B - x.s2 \in Nat
  BY <1>1 DEF ValidConfig
<1>4. x.c1 - B + 1 \in Nat /\ x.c2 - B + 1 \in Nat  BY <1>1, <1>2, <1>3
<1> QED  BY <1>2, <1>3, <1>4, PowerPositive

(* A nonempty set of numbers has a least one. *)
LEMMA LeastExists ==
  ASSUME NEW S \in SUBSET Nat, S # {}
  PROVE  \E t \in S : \A u \in S : t <= u
<1>1. PICK x \in S : \A y \in S : ~(<<y, x>> \in OpToRel(<, Nat))
  BY NatLessThanWellFounded, WFMin
<1>2. \A y \in S : <<y, x>> \in OpToRel(<, Nat) <=> y < x  BY DEF OpToRel
<1>3. ASSUME NEW y \in S PROVE x <= y
  <2>1. x \in Nat /\ y \in Nat /\ ~(y < x)  BY <1>1, <1>2
  <2> QED  BY <2>1
<1> QED  BY <1>3

-----------------------------------------------------------------------------
(* One set *)

GoodSet(set, w) == set \in SetType(w) /\ WellShaped(set)

NoMRU(set) == \A j \in Frames(set) : ~set.frames[j].MRU

LEMMA SetFields ==
  ASSUME NEW w \in Nat, NEW set \in SetType(w)
  PROVE  /\ Frames(set) = 1 .. w /\ Cardinality(Frames(set)) = w
         /\ set.valid_block_num \in 0 .. w
         /\ \A i \in 1 .. w : set.frames[i] \in Block
<1>1. set.frames \in [1 .. w -> Block] /\ set.valid_block_num \in 0 .. w
  BY DEF SetType
<1>2. Cardinality(1 .. w) = w  BY FS_Interval
<1> QED  BY <1>1, <1>2 DEF Frames

LEMMA NewSetGood ==
  ASSUME NEW w \in Nat
  PROVE  GoodSet(NewSet(w), w)
<1>1. EmptyBlock \in Block /\ ~EmptyBlock.valid_bit /\ ~EmptyBlock.MRU
  BY DEF EmptyBlock, NewBlock, Block
<1>2. NewSet(w) \in SetType(w)  BY <1>1 DEF NewSet, SetType
<1>3. /\ Frames(NewSet(w)) = 1 .. w /\ NewSet(w).valid_block_num = 0
      /\ \A i \in 1 .. w : NewSet(w).frames[i] = EmptyBlock
  BY DEF NewSet, Frames
<1>4. ValidFrames(NewSet(w)) = {}  BY <1>1, <1>3 DEF ValidFrames
<1> QED  BY <1>1, <1>2, <1>3, <1>4 DEF GoodSet, WellShaped

(* Insertion takes the first invalid frame, or a victim. *)
LEMMA RoomLeft ==
  ASSUME NEW w \in Nat, NEW set, GoodSet(set, w), NEW policy,
         set.valid_block_num < w
  PROVE  InsertAt(set, policy) = set.valid_block_num + 1
<1> DEFINE n == set.valid_block_num
<1>1. /\ Frames(set) = 1 .. w /\ Cardinality(Frames(set)) = w /\ n \in 0 .. w
      /\ ValidFrames(set) = 1 .. n
  BY SetFields DEF GoodSet, WellShaped
<1>2. \A i \in 1 .. w : set.frames[i].valid_bit <=> i <= n
  BY <1>1 DEF ValidFrames
<1>3. /\ n + 1 \in Frames(set) /\ ~set.frames[n + 1].valid_bit
      /\ \A j \in 1 .. n : set.frames[j].valid_bit
  BY <1>1, <1>2
<1>4. ASSUME NEW i \in Frames(set), ~set.frames[i].valid_bit,
             \A j \in 1 .. i - 1 : set.frames[j].valid_bit
      PROVE  i = n + 1
  <2>1. i \in 1 .. w /\ ~(i <= n)  BY <1>1, <1>2, <1>4
  <2>2. ~(n + 1 \in 1 .. i - 1)  BY <1>3, <1>4
  <2> QED  BY <1>1, <2>1, <2>2
<1>5. FirstInvalid(set) = n + 1  BY <1>1, <1>3, <1>4 DEF FirstInvalid
<1> QED  BY <1>1, <1>5 DEF InsertAt

LEMMA FrameChosen ==
  ASSUME NEW w \in Nat, NEW set, GoodSet(set, w), NEW policy,
         InsertAt(set, policy) # NoVictim
  PROVE  /\ InsertAt(set, policy) \in 1 .. w
         /\ set.valid_block_num < w =>
              InsertAt(set, policy) = set.valid_block_num + 1
<1> DEFINE n == set.valid_block_num
<1>1. /\ Frames(set) = 1 .. w /\ Cardinality(Frames(set)) = w /\ n \in 0 .. w
  BY SetFields DEF GoodSet
<1>2. CASE n < w  BY <1>1, <1>2, RoomLeft
<1>3. CASE ~(n < w)
  <2>1. InsertAt(set, policy) \in
          {LRU_Victim_block(set), LFU_Victim_block(set)}
    BY <1>1, <1>3 DEF InsertAt
  <2>2. LRU_Victim_block(set) \in Frames(set) \cup {NoVictim}
    BY DEF LRU_Victim_block
  <2>3. LFU_Victim_block(set) \in Frames(set) \cup {NoVictim}
    BY DEF LFU_Victim_block
  <2> QED  BY <1>1, <1>3, <2>1, <2>2, <2>3
<1> QED  BY <1>2, <1>3

LEMMA ClearMRUGood ==
  ASSUME NEW w \in Nat, NEW set, GoodSet(set, w)
  PROVE  /\ GoodSet(ClearMRU(set), w) /\ NoMRU(ClearMRU(set))
         /\ ClearMRU(set).valid_block_num = set.valid_block_num
         /\ \A i \in 1 .. w : ClearMRU(set).frames[i]
                                = [set.frames[i] EXCEPT !.MRU = FALSE]
<1> DEFINE new == ClearMRU(set)
<1>1. /\ Frames(set) = 1 .. w /\ set \in SetType(w)
      /\ \A i \in 1 .. w : set.frames[i] \in Block
  BY SetFields DEF GoodSet
<1>2. /\ new.valid_block_num = set.valid_block_num
      /\ new.frames = [i \in 1 .. w |-> [set.frames[i] EXCEPT !.MRU = FALSE]]
      /\ new \in SetType(w)
  BY <1>1 DEF ClearMRU, SetType, Block
<1> HIDE DEF new
<1>3. /\ Frames(new) = 1 .. w
      /\ \A i \in 1 .. w : /\ new.frames[i].valid_bit = set.frames[i].valid_bit
                           /\ new.frames[i].tag = set.frames[i].tag
                           /\ ~new.frames[i].MRU
  BY <1>1, <1>2 DEF Frames, Block
<1>4. ValidFrames(new) = ValidFrames(set)  BY <1>1, <1>3 DEF ValidFrames
<1>5. ValidFrames(set) \subseteq 1 .. w  BY <1>1 DEF ValidFrames
<1>6. WellShaped(new)
  BY <1>1, <1>2, <1>3, <1>4, <1>5 DEF GoodSet, WellShaped
<1>7. GoodSet(new, w) /\ NoMRU(new)  BY <1>2, <1>3, <1>6 DEF GoodSet, NoMRU
<1> QED  BY <1>2, <1>7 DEF new

(* A frame changes without becoming another block. *)
LEMMA FrameGood ==
  ASSUME NEW w \in Nat, NEW set, GoodSet(set, w), NEW i, NEW b,
         i \in 1 .. w =>
           /\ b \in Block
           /\ b.tag = set.frames[i].tag
           /\ b.valid_bit = set.frames[i].valid_bit
           /\ NoMRU(set) \/ b.MRU = set.frames[i].MRU
  PROVE  GoodSet([set EXCEPT !.frames[i] = b], w)
<1> DEFINE new == [set EXCEPT !.frames[i] = b]
<1>1. /\ Frames(set) = 1 .. w /\ set \in SetType(w)
      /\ \A j \in 1 .. w : set.frames[j] \in Block
  BY SetFields DEF GoodSet
<1>2. /\ new.valid_block_num = set.valid_block_num
      /\ new.frames = [set.frames EXCEPT ![i] = b]
      /\ new \in SetType(w)
  BY <1>1 DEF SetType
<1> HIDE DEF new
<1>3. /\ Frames(new) = 1 .. w
      /\ \A j \in 1 .. w : new.frames[j] = IF j = i THEN b ELSE set.frames[j]
  BY <1>1, <1>2 DEF Frames, SetType
<1>4. \A j \in 1 .. w : /\ new.frames[j].valid_bit = set.frames[j].valid_bit
                        /\ new.frames[j].tag = set.frames[j].tag
  BY <1>3
<1>5. ValidFrames(new) = ValidFrames(set) /\ ValidFrames(set) \subseteq 1 .. w
  BY <1>1, <1>3, <1>4 DEF ValidFrames
<1>6. ASSUME NEW j \in Frames(new), NEW k \in Frames(new),
             new.frames[j].MRU, new.frames[k].MRU
      PROVE  j = k
  <2>1. CASE NoMRU(set)  BY <1>1, <1>3, <1>6, <2>1 DEF NoMRU
  <2>2. CASE ~NoMRU(set)
    <3>1. set.frames[j].MRU /\ set.frames[k].MRU  BY <1>3, <1>6, <2>2
    <3> QED  BY <1>1, <1>3, <1>6, <3>1 DEF GoodSet, WellShaped
  <2> QED  BY <2>1, <2>2
<1>7. WellShaped(new)
  BY <1>2, <1>4, <1>5, <1>6 DEF GoodSet, WellShaped
<1> QED  BY <1>2, <1>7 DEF GoodSet, new

(* A new block takes the first invalid frame or that of a victim. *)
LEMMA InsertGood ==
  ASSUME NEW w \in Nat, NEW set, GoodSet(set, w), NEW i \in 1 .. w,
         set.valid_block_num < w => i = set.valid_block_num + 1,
         NEW b \in Block, b.valid_bit, ~Has(set, b.tag),
         NoMRU(set) \/ ~b.MRU
  PROVE  GoodSet(Insert(set, i, b), w)
<1> DEFINE new == Insert(set, i, b)
           n   == set.valid_block_num
<1>1. /\ Frames(set) = 1 .. w /\ set.frames \in [1 .. w -> Block]
      /\ n \in 0 .. w /\ ValidFrames(set) = 1 .. n
  BY SetFields DEF GoodSet, WellShaped, SetType
<1>2. \A j \in 1 .. w : set.frames[j].valid_bit <=> j <= n
  BY <1>1 DEF ValidFrames
<1>3. /\ new.frames = [set.frames EXCEPT ![i] = b]
      /\ new.valid_block_num = IF n < w THEN n + 1 ELSE n
      /\ new = [frames |-> new.frames, valid_block_num |-> new.valid_block_num]
  BY <1>1, <1>2 DEF Insert
<1>4. new \in SetType(w)  BY <1>1, <1>3 DEF SetType
<1> HIDE DEF new
<1>5. /\ Frames(new) = 1 .. w
      /\ \A j \in 1 .. w : new.frames[j] = IF j = i THEN b ELSE set.frames[j]
  BY <1>1, <1>3 DEF Frames
<1>6. ValidFrames(new) = 1 .. new.valid_block_num
  <2>1. \A j \in 1 .. w : new.frames[j].valid_bit <=> j <= n \/ j = i
    BY <1>2, <1>5
  <2>2. CASE n < w  BY <1>1, <1>3, <1>5, <2>1, <2>2 DEF ValidFrames
  <2>3. CASE ~(n < w)  BY <1>1, <1>3, <1>5, <2>1, <2>3 DEF ValidFrames
  <2> QED  BY <2>2, <2>3
<1>7. ASSUME NEW j \in ValidFrames(new), NEW k \in ValidFrames(new),
             new.frames[j].tag = new.frames[k].tag
      PROVE  j = k
  <2>1. /\ j \in 1 .. w /\ k \in 1 .. w
        /\ \A l \in {j, k} : l # i => /\ l \in ValidFrames(set)
                                      /\ new.frames[l] = set.frames[l]
                                      /\ set.frames[l].tag # b.tag
    BY <1>1, <1>5 DEF ValidFrames, Has
  <2>2. CASE j = i \/ k = i  BY <1>5, <1>7, <2>1, <2>2
  <2>3. CASE j # i /\ k # i  BY <1>7, <2>1, <2>3 DEF GoodSet, WellShaped
  <2> QED  BY <2>2, <2>3
<1>8. ASSUME NEW j \in Frames(new), NEW k \in Frames(new),
             new.frames[j].MRU, new.frames[k].MRU
      PROVE  j = k
  <2>1. CASE NoMRU(set)  BY <1>1, <1>5, <1>8, <2>1 DEF NoMRU
  <2>2. CASE ~b.MRU
    BY <1>1, <1>5, <1>8, <2>2 DEF GoodSet, WellShaped
  <2> QED  BY <2>1, <2>2
<1>9. WellShaped(new)  BY <1>6, <1>7, <1>8 DEF WellShaped
<1> QED  BY <1>4, <1>9 DEF GoodSet, new

LEMMA LipStampType ==
  ASSUME NEW w \in Nat, NEW set, GoodSet(set, w), NEW stamp \in Nat
  PROVE  LipStamp(set, stamp) \in Nat
<1> DEFINE S == {set.frames[i].time_stamp : i \in 1 .. set.valid_block_num}
                  \cup {SENTINEL}
           least == CHOOSE t \in S : \A u \in S : t <= u
<1>1. /\ set.valid_block_num \in 0 .. w
      /\ \A i \in 1 .. w : set.frames[i] \in Block
  BY SetFields DEF GoodSet
<1>2. S \in SUBSET Nat /\ S # {}  BY <1>1, StampSizes DEF Block
<1> HIDE DEF S
<1>3. \E t \in S : \A u \in S : t <= u  BY <1>2, LeastExists
<1>4. least \in Nat  BY <1>2, <1>3
<1> HIDE DEF least
<1>5. (least - 1) % STAMPS \in Nat  BY <1>4, StampSizes
<1>6. LipStamp(set, stamp) = IF set.valid_block_num = 0 THEN stamp
                             ELSE (least - 1) % STAMPS
  BY DEF LipStamp, least, S
<1> QED  BY <1>5, <1>6

-----------------------------------------------------------------------------
(* One cache, of m sets of w frames *)

CacheRecord(m, w) ==
  [sets : [0 .. m - 1 -> SetType(w)],
   time_stamp : Nat, last_miss_addr : Nat, lost : BOOLEAN]

GoodCache(cache, m, w) ==
  /\ cache \in CacheRecord(m, w)
  /\ \A k \in 0 .. m - 1 : WellShaped(cache.sets[k])

LEMMA CacheFields ==
  ASSUME NEW m \in Nat \ {0}, NEW w \in Nat, NEW cache, GoodCache(cache, m, w)
  PROVE  /\ DOMAIN cache.sets = 0 .. m - 1 /\ SetNum(cache) = m
         /\ \A k \in 0 .. m - 1 : GoodSet(cache.sets[k], w)
         /\ cache.time_stamp \in Nat /\ cache.last_miss_addr \in Nat
<1>1. /\ cache.sets \in [0 .. m - 1 -> SetType(w)]
      /\ cache.time_stamp \in Nat /\ cache.last_miss_addr \in Nat
  BY DEF GoodCache, CacheRecord
<1>2. Cardinality(0 .. m - 1) = m  BY FS_Interval
<1>3. DOMAIN cache.sets = 0 .. m - 1  BY <1>1
<1>4. SetNum(cache) = m  BY <1>2, <1>3 DEF SetNum
<1>5. \A k \in 0 .. m - 1 : GoodSet(cache.sets[k], w)
  BY <1>1 DEF GoodCache, GoodSet
<1> QED  BY <1>1, <1>3, <1>4, <1>5

LEMMA SetGood ==
  ASSUME NEW m \in Nat \ {0}, NEW w \in Nat, NEW cache,
         GoodCache(cache, m, w), NEW k, NEW new,
         k \in 0 .. m - 1 => GoodSet(new, w)
  PROVE  GoodCache([cache EXCEPT !.sets[k] = new], m, w)
<1> DEFINE next == [cache EXCEPT !.sets[k] = new]
<1>1. /\ next \in CacheRecord(m, w)
      /\ \A j \in 0 .. m - 1 :
           next.sets[j] = IF j = k THEN new ELSE cache.sets[j]
  BY DEF GoodCache, GoodSet, CacheRecord
<1> HIDE DEF next
<1>2. \A j \in 0 .. m - 1 : WellShaped(next.sets[j])
  BY <1>1 DEF GoodCache, GoodSet
<1>3. GoodCache(next, m, w)  BY <1>1, <1>2 DEF GoodCache
<1> QED  BY <1>3 DEF next

LEMMA ClockGood ==
  ASSUME NEW m \in Nat \ {0}, NEW w \in Nat, NEW cache, GoodCache(cache, m, w)
  PROVE  /\ GoodCache([cache EXCEPT !.time_stamp = @ + 1], m, w)
         /\ GoodCache([cache EXCEPT !.lost = TRUE], m, w)
         /\ \A a \in Nat : GoodCache([cache EXCEPT !.last_miss_addr = a], m, w)
<1>1. cache \in CacheRecord(m, w)  BY DEF GoodCache
<1>2. \A next : next \in CacheRecord(m, w) /\ next.sets = cache.sets
                  => GoodCache(next, m, w)
  BY DEF GoodCache
<1>3. /\ [cache EXCEPT !.time_stamp = @ + 1] \in CacheRecord(m, w)
      /\ [cache EXCEPT !.time_stamp = @ + 1].sets = cache.sets
  BY <1>1 DEF CacheRecord
<1>4. /\ [cache EXCEPT !.lost = TRUE] \in CacheRecord(m, w)
      /\ [cache EXCEPT !.lost = TRUE].sets = cache.sets
  BY <1>1 DEF CacheRecord
<1>5. ASSUME NEW a \in Nat
      PROVE  /\ [cache EXCEPT !.last_miss_addr = a] \in CacheRecord(m, w)
             /\ [cache EXCEPT !.last_miss_addr = a].sets = cache.sets
  BY <1>1 DEF CacheRecord
<1> QED  BY <1>2, <1>3, <1>4, <1>5

LEMMA TouchGood ==
  ASSUME NEW m \in Nat \ {0}, NEW w \in Nat, NEW cache,
         GoodCache(cache, m, w), NEW addr
  PROVE  GoodCache(Touch(cache, addr), m, w)
<1> DEFINE k == Index(cache, addr)
           set == cache.sets[k]
           f == Find(set, Tag(cache, addr))
<1>1. \A j \in 0 .. m - 1 : GoodSet(cache.sets[j], w)
      /\ cache.time_stamp \in Nat /\ DOMAIN cache.sets = 0 .. m - 1
  BY CacheFields
<1>2. GoodCache(TouchLRU(cache, addr), m, w)
  <2> DEFINE b == [set.frames[f] EXCEPT !.time_stamp = cache.time_stamp]
             new == [set EXCEPT !.frames[f] = b]
             placed == [cache EXCEPT !.sets[k] = new]
  <2>1. ASSUME k \in 0 .. m - 1 PROVE GoodSet(new, w)
    <3>1. GoodSet(set, w)  BY <1>1, <2>1
    <3>2. f \in 1 .. w => set.frames[f] \in Block
      BY <3>1, SetFields DEF GoodSet
    <3>3. f \in 1 .. w => /\ b \in Block /\ b.tag = set.frames[f].tag
                          /\ b.valid_bit = set.frames[f].valid_bit
                          /\ b.MRU = set.frames[f].MRU
      BY <1>1, <2>1, <3>2 DEF Block
    <3> HIDE DEF set, f, b
    <3> QED  BY <3>1, <3>3, FrameGood
  <2>2. GoodCache(placed, m, w)
    <3> HIDE DEF k, new
    <3> QED  BY <2>1, SetGood
  <2>3. TouchLRU(cache, addr) = [placed EXCEPT !.time_stamp = @ + 1]
    BY DEF TouchLRU, GoodCache, CacheRecord
  <2> QED
    <3> HIDE DEF placed
    <3> QED  BY <2>2, <2>3, ClockGood
<1>3. GoodCache(TouchLFU(cache, addr), m, w)
  <2> DEFINE clear == ClearMRU(set)
             marked == [clear.frames[f] EXCEPT !.MRU = TRUE]
             b == [clear.frames[f] EXCEPT !.MRU = TRUE, !.counter = @ + 1]
             new == [clear EXCEPT !.frames[f] = b]
  <2>1. ASSUME k \in 0 .. m - 1 PROVE GoodSet(new, w)
    <3>1. GoodSet(set, w)  BY <1>1, <2>1
    <3> HIDE DEF set
    <3>2. GoodSet(clear, w) /\ NoMRU(clear)  BY <3>1, ClearMRUGood
    <3> HIDE DEF clear, f
    <3>3. f \in 1 .. w => clear.frames[f] \in Block
      BY <3>2, SetFields DEF GoodSet
    <3>4. f \in 1 .. w => /\ marked \in Block
                          /\ marked.tag = clear.frames[f].tag
                          /\ marked.valid_bit = clear.frames[f].valid_bit
      BY <3>3 DEF Block
    <3>5. b = [marked EXCEPT !.counter = @ + 1]  OBVIOUS
    <3> HIDE DEF marked, b
    <3>6. f \in 1 .. w => /\ b \in Block /\ b.tag = marked.tag
                          /\ b.valid_bit = marked.valid_bit
      BY <3>4, <3>5 DEF Block
    <3> QED  BY <3>2, <3>4, <3>6, FrameGood
  <2>2. GoodCache([cache EXCEPT !.sets[k] = new], m, w)
    <3> HIDE DEF k, new
    <3> QED  BY <2>1, SetGood
  <2>3. TouchLFU(cache, addr) = [cache EXCEPT !.sets[k] = new]
    BY DEF TouchLFU
  <2> QED  BY <2>2, <2>3
<1> QED  BY <1>2, <1>3 DEF Touch

LEMMA SetDirtyGood ==
  ASSUME NEW m \in Nat \ {0}, NEW w \in Nat, NEW cache,
         GoodCache(cache, m, w), NEW addr, NEW dirty \in BOOLEAN
  PROVE  GoodCache(SetDirty(cache, addr, dirty), m, w)
<1> DEFINE k == Index(cache, addr)
           set == cache.sets[k]
           f == Find(set, Tag(cache, addr))
           b == [set.frames[f] EXCEPT !.dirty_bit = dirty]
           new == [set EXCEPT !.frames[f] = b]
<1>1. ASSUME k \in 0 .. m - 1 PROVE GoodSet(new, w)
  <2>1. GoodSet(set, w)  BY <1>1, CacheFields
  <2>2. f \in 1 .. w => set.frames[f] \in Block
    BY <2>1, SetFields DEF GoodSet
  <2>3. f \in 1 .. w => /\ b \in Block /\ b.tag = set.frames[f].tag
                        /\ b.valid_bit = set.frames[f].valid_bit
                        /\ b.MRU = set.frames[f].MRU
    BY <2>2 DEF Block
  <2> HIDE DEF set, f, b
  <2> QED  BY <2>1, <2>3, FrameGood
<1>2. SetDirty(cache, addr, dirty) = [cache EXCEPT !.sets[k] = new]
  BY DEF SetDirty, GoodCache, CacheRecord
<1>3. GoodCache([cache EXCEPT !.sets[k] = new], m, w)
  <2> HIDE DEF k, new
  <2> QED  BY <1>1, SetGood
<1> QED  BY <1>2, <1>3

LEMMA PlaceGood ==
  ASSUME NEW m \in Nat \ {0}, NEW w \in Nat, NEW cache,
         GoodCache(cache, m, w), NEW addr, ~Cached(cache, addr),
         NEW block \in Block, block.valid_bit, block.tag = Tag(cache, addr),
         NEW mru \in BOOLEAN
  PROVE  GoodCache(Place(cache, addr, block, mru), m, w)
<1> DEFINE k == Index(cache, addr)
           i == FrameFor(cache, addr)
           old == cache.sets[k]
           set == IF mru THEN ClearMRU(old) ELSE old
           b == [block EXCEPT !.MRU = mru]
           new == Insert(set, i, b)
<1>1. CASE i = NoVictim
  <2>1. Place(cache, addr, block, mru) = [cache EXCEPT !.lost = TRUE]
    BY <1>1 DEF Place
  <2> QED  BY <2>1, ClockGood
<1>2. CASE i # NoVictim
  <2>1. ASSUME k \in 0 .. m - 1 PROVE GoodSet(new, w)
    <3>1. GoodSet(old, w)  BY <2>1, CacheFields
    <3>2. ~Has(old, block.tag)  BY DEF Cached, SetOf
    <3>3. i = InsertAt(old, config.replace_policy)  BY DEF FrameFor, SetOf
    <3> HIDE DEF old, i
    <3>4. /\ i \in 1 .. w
          /\ old.valid_block_num < w => i = old.valid_block_num + 1
      BY <1>2, <3>1, <3>3, FrameChosen
    <3>5. /\ b \in Block /\ b.valid_bit /\ b.tag = block.tag /\ b.MRU = mru
      BY DEF Block
    <3>6. /\ GoodSet(set, w) /\ set.valid_block_num = old.valid_block_num
          /\ NoMRU(set) \/ ~mru
          /\ ~Has(set, block.tag)
      <4>1. CASE ~mru  BY <3>1, <3>2, <4>1
      <4>2. CASE mru
        <5>1. set = ClearMRU(old)  BY <4>2
        <5>2. /\ GoodSet(set, w) /\ NoMRU(set)
              /\ set.valid_block_num = old.valid_block_num
              /\ \A j \in 1 .. w :
                   set.frames[j] = [old.frames[j] EXCEPT !.MRU = FALSE]
          BY <3>1, <5>1, ClearMRUGood
        <5>3. /\ Frames(old) = 1 .. w /\ Frames(set) = 1 .. w
              /\ \A j \in 1 .. w : old.frames[j] \in Block
          BY <3>1, <5>2, SetFields DEF GoodSet
        <5> HIDE DEF set
        <5>4. \A j \in 1 .. w : /\ set.frames[j].tag = old.frames[j].tag
                                /\ set.frames[j].valid_bit
                                     = old.frames[j].valid_bit
          BY <5>2, <5>3 DEF Block
        <5>5. ~Has(set, block.tag)  BY <3>2, <5>3, <5>4 DEF Has
        <5> QED  BY <5>2, <5>5
      <4> QED  BY <4>1, <4>2
    <3> HIDE DEF set, b
    <3> QED  BY <3>4, <3>5, <3>6, InsertGood
  <2>2. Place(cache, addr, block, mru) = [cache EXCEPT !.sets[k] = new]
    BY <1>2 DEF Place
  <2>3. GoodCache([cache EXCEPT !.sets[k] = new], m, w)
    <3> HIDE DEF k, new
    <3> QED  BY <2>1, SetGood
  <2> QED  BY <2>2, <2>3
<1> QED  BY <1>1, <1>2

LEMMA TagType ==
  ASSUME NEW m \in Nat \ {0}, NEW w \in Nat, NEW cache,
         GoodCache(cache, m, w), NEW addr \in Nat
  PROVE  Index(cache, addr) \in 0 .. m - 1 /\ Tag(cache, addr) \in Nat
<1>1. SetNum(cache) = m  BY CacheFields
<1>2. addr % m \in 0 .. m - 1 /\ addr \div m \in Nat  OBVIOUS
<1> QED  BY <1>1, <1>2 DEF Index, Tag

LEMMA NewBlockType ==
  ASSUME NEW t \in Nat, NEW stamp \in Nat
  PROVE  /\ NewBlock(t, stamp) \in Block
         /\ NewBlock(t, stamp).valid_bit /\ NewBlock(t, stamp).tag = t
BY DEF NewBlock, Block

LEMMA DemandGood ==
  ASSUME NEW m \in Nat \ {0}, NEW w \in Nat, NEW cache,
         GoodCache(cache, m, w), NEW addr \in Nat, ~Cached(cache, addr)
  PROVE  GoodCache(Demand(cache, addr), m, w)
<1> DEFINE block == NewBlock(Tag(cache, addr), cache.time_stamp)
           b == [block EXCEPT !.counter = 1]
           placed == Place(cache, addr, b, TRUE)
<1>1. Tag(cache, addr) \in Nat /\ cache.time_stamp \in Nat
  BY TagType, CacheFields
<1>2. block \in Block /\ block.valid_bit /\ block.tag = Tag(cache, addr)
  BY <1>1, NewBlockType
<1>3. Demand(cache, addr) = [placed EXCEPT !.time_stamp = @ + 1]  BY DEF Demand
<1> HIDE DEF block
<1>4. b \in Block /\ b.valid_bit /\ b.tag = Tag(cache, addr)
  BY <1>2 DEF Block
<1> HIDE DEF b
<1>5. GoodCache(placed, m, w)  BY <1>4, PlaceGood
<1> HIDE DEF placed
<1> QED  BY <1>3, <1>5, ClockGood

LEMMA PrefetchMissGood ==
  ASSUME NEW m \in Nat \ {0}, NEW w \in Nat, NEW cache,
         GoodCache(cache, m, w), NEW addr \in Nat, ~Cached(cache, addr)
  PROVE  GoodCache(PrefetchMiss(cache, addr), m, w)
<1> DEFINE t == Tag(cache, addr)
           stamp == LipStamp(SetOf(cache, addr), cache.time_stamp)
           recent == Place(cache, addr, NewBlock(t, cache.time_stamp), TRUE)
           oldest == Place(cache, addr, NewBlock(t, stamp), FALSE)
<1>1. t \in Nat /\ cache.time_stamp \in Nat  BY TagType, CacheFields
<1>2. stamp \in Nat
  <2>1. GoodSet(SetOf(cache, addr), w)  BY TagType, CacheFields DEF SetOf
  <2> QED  BY <1>1, <2>1, LipStampType
<1>3. PrefetchMiss(cache, addr) =
        IF config.insert_policy = "MIP"
        THEN [recent EXCEPT !.time_stamp = @ + 1] ELSE oldest
  BY DEF PrefetchMiss
<1> HIDE DEF stamp
<1>4. GoodCache(recent, m, w)  BY <1>1, NewBlockType, PlaceGood
<1>5. GoodCache(oldest, m, w)  BY <1>1, <1>2, NewBlockType, PlaceGood
<1> HIDE DEF recent, oldest
<1>6. GoodCache([recent EXCEPT !.time_stamp = @ + 1], m, w)
  BY <1>4, ClockGood
<1> QED  BY <1>3, <1>5, <1>6

LEMMA PrefetchGood ==
  ASSUME NEW m \in Nat \ {0}, NEW w \in Nat, NEW cache,
         GoodCache(cache, m, w), NEW addr \in Nat, NEW target \in Nat
  PROVE  GoodCache(Prefetch(cache, addr, target), m, w)
<1> DEFINE noted == IF config.strided_prefetch_disabled THEN cache
                    ELSE [cache EXCEPT !.last_miss_addr = addr]
<1>1. GoodCache(noted, m, w)  BY ClockGood
<1>2. noted.sets = cache.sets  BY DEF GoodCache, CacheRecord
<1>3. Prefetch(cache, addr, target) =
        IF Cached(cache, target) THEN noted ELSE PrefetchMiss(noted, target)
  BY DEF Prefetch
<1> HIDE DEF noted
<1>4. Cached(noted, target) <=> Cached(cache, target)
  BY <1>2 DEF Cached, SetOf, Tag, Index, SetNum
<1>5. ~Cached(cache, target) => GoodCache(PrefetchMiss(noted, target), m, w)
  BY <1>1, <1>4, PrefetchMissGood
<1> QED  BY <1>1, <1>3, <1>5

-----------------------------------------------------------------------------
(* The two caches *)

Ways1 == 2 ^ config.s1
Ways2 == 2 ^ config.s2
Sets1 == 2 ^ (config.c1 - B - config.s1)
Sets2 == 2 ^ (config.c2 - B - config.s2)

CachesInv ==
  /\ config \in ConfigSet
  /\ GoodCache(L1, Sets1, Ways1)
  /\ GoodCache(L2, Sets2, Ways2)

LEMMA Sizes ==
  ASSUME config \in ConfigSet
  PROVE  /\ Ways1 \in Nat \ {0} /\ Ways2 \in Nat \ {0}
         /\ Sets1 \in Nat \ {0} /\ Sets2 \in Nat \ {0}
BY Geometry DEF Ways1, Ways2, Sets1, Sets2

LEMMA NewCacheGood ==
  ASSUME NEW c, NEW s, 2 ^ (c - B - s) \in Nat \ {0}, 2 ^ s \in Nat \ {0},
         2 ^ (c - B + 1) \in Nat
  PROVE  GoodCache(NewCache(c, s), 2 ^ (c - B - s), 2 ^ s)
<1> DEFINE m == 2 ^ (c - B - s)
           w == 2 ^ s
           stamp == 2 ^ (c - B + 1)
           cache == NewCache(c, s)
<1>1. cache = [sets |-> [k \in 0 .. m - 1 |-> NewSet(w)],
               time_stamp |-> stamp, last_miss_addr |-> 0, lost |-> FALSE]
  BY DEF NewCache
<1>2. m \in Nat \ {0} /\ w \in Nat /\ stamp \in Nat  OBVIOUS
<1> HIDE DEF m, w, stamp, cache
<1>3. NewSet(w) \in SetType(w) /\ WellShaped(NewSet(w))
  BY <1>2, NewSetGood DEF GoodSet
<1>4. cache \in CacheRecord(m, w)  BY <1>1, <1>2, <1>3 DEF CacheRecord
<1>5. \A k \in 0 .. m - 1 : WellShaped(cache.sets[k])  BY <1>1, <1>3
<1>6. GoodCache(cache, m, w)  BY <1>4, <1>5 DEF GoodCache
<1> QED  BY <1>6 DEF cache, m, w

LEMMA CachesInit == Init => CachesInv /\ stats \in StatsType
<1> SUFFICES ASSUME Init PROVE CachesInv /\ stats \in StatsType  OBVIOUS
<1>1. config \in ConfigSet  BY DEF Init
<1>2. GoodCache(L1, Sets1, Ways1) /\ GoodCache(L2, Sets2, Ways2)
  BY <1>1, Geometry, NewCacheGood DEF Init, Sets1, Sets2, Ways1, Ways2
<1>3. stats \in StatsType  BY DEF Init, NoStats, StatsType
<1> QED  BY <1>1, <1>2, <1>3 DEF CachesInv

LEMMA AddressType ==
  ASSUME NEW addr \in AddrSet
  PROVE  addr \in Nat /\ addr < BLOCKS /\ BLOCKS \in Nat \ {0}
BY CacheAssumption

LEMMA PrefetchAddrType ==
  ASSUME CachesInv, NEW cache, GoodCache(cache, Sets2, Ways2),
         NEW addr \in AddrSet
  PROVE  PrefetchAddr(cache, addr) \in 0 .. BLOCKS - 1
<1>1. cache.last_miss_addr \in Nat  BY Sizes, CacheFields DEF CachesInv
<1>2. \A a \in Int : a % BLOCKS \in 0 .. BLOCKS - 1  BY AddressType
<1>3. addr + 1 \in Int /\ addr + addr - cache.last_miss_addr \in Int
  BY <1>1, AddressType
<1> QED  BY <1>2, <1>3 DEF PrefetchAddr

LEMMA L2ReadGood ==
  ASSUME CachesInv, NEW addr \in AddrSet
  PROVE  GoodCache(L2Read(addr), Sets2, Ways2)
<1>1. /\ GoodCache(L2, Sets2, Ways2) /\ addr \in Nat
      /\ Sets2 \in Nat \ {0} /\ Ways2 \in Nat
  BY Sizes, AddressType DEF CachesInv
<1>2. GoodCache(Touch(L2, addr), Sets2, Ways2)  BY <1>1, TouchGood
<1>3. ASSUME ~Cached(L2, addr)
      PROVE  /\ GoodCache(Demand(L2, addr), Sets2, Ways2)
             /\ GoodCache(Prefetch(Demand(L2, addr), addr,
                                   PrefetchAddr(L2, addr)), Sets2, Ways2)
  <2>1. GoodCache(Demand(L2, addr), Sets2, Ways2)  BY <1>1, <1>3, DemandGood
  <2>2. PrefetchAddr(L2, addr) \in Nat
    BY <1>1, PrefetchAddrType, AddressType
  <2> QED  BY <1>1, <2>1, <2>2, PrefetchGood
<1> QED  BY <1>1, <1>2, <1>3 DEF L2Read

LEMMA L2WriteGood ==
  ASSUME CachesInv, NEW cache, GoodCache(cache, Sets2, Ways2), NEW addr
  PROVE  GoodCache(L2Write(cache, addr), Sets2, Ways2)
<1>1. Sets2 \in Nat \ {0} /\ Ways2 \in Nat  BY Sizes DEF CachesInv
<1>2. GoodCache(Touch(cache, addr), Sets2, Ways2)  BY <1>1, TouchGood
<1>3. GoodCache(SetDirty(Touch(cache, addr), addr, FALSE), Sets2, Ways2)
  BY <1>1, <1>2, SetDirtyGood
<1> QED  BY <1>3 DEF L2Write

LEMMA CachesStep ==
  ASSUME CachesInv, [Next]_vars
  PROVE  CachesInv'
<1>1. config' = config /\ config \in ConfigSet
  BY DEF CachesInv, Next, Access, L1Hit, L1Miss, vars
<1>2. /\ GoodCache(L1, Sets1, Ways1) /\ GoodCache(L2, Sets2, Ways2)
      /\ Sets1 \in Nat \ {0} /\ Ways1 \in Nat
  BY Sizes DEF CachesInv
<1>3. ASSUME NEW rw \in {"R", "W"}, NEW addr \in AddrSet, L1Hit(rw, addr)
      PROVE  GoodCache(L1', Sets1, Ways1) /\ L2' = L2
  <2>1. GoodCache(Touch(L1, addr), Sets1, Ways1)  BY <1>2, TouchGood
  <2>2. GoodCache(SetDirty(Touch(L1, addr), addr, TRUE), Sets1, Ways1)
    BY <1>2, <2>1, SetDirtyGood
  <2> QED  BY <1>3, <2>1, <2>2 DEF L1Hit
<1>4. ASSUME NEW rw \in {"R", "W"}, NEW addr \in AddrSet, L1Miss(rw, addr)
      PROVE  GoodCache(L1', Sets1, Ways1) /\ GoodCache(L2', Sets2, Ways2)
  <2>1. GoodCache(Demand(L1, addr), Sets1, Ways1)
    BY <1>2, <1>4, AddressType, DemandGood DEF L1Miss
  <2>2. GoodCache(SetDirty(Demand(L1, addr), addr, TRUE), Sets1, Ways1)
    BY <1>2, <2>1, SetDirtyGood
  <2>3. GoodCache(L2Read(addr), Sets2, Ways2)  BY L2ReadGood
  <2>4. GoodCache(L2Write(L2Read(addr), VictimAddr(addr)), Sets2, Ways2)
    BY <2>3, L2WriteGood
  <2> QED  BY <1>4, <2>1, <2>2, <2>3, <2>4 DEF L1Miss
<1>5. GoodCache(L1', Sets1, Ways1) /\ GoodCache(L2', Sets2, Ways2)
  BY <1>2, <1>3, <1>4 DEF Next, Access, vars
<1>6. UNCHANGED <<Sets1, Sets2, Ways1, Ways2>>
  BY <1>1 DEF Sets1, Sets2, Ways1, Ways2
<1> QED  BY <1>1, <1>5, <1>6 DEF CachesInv

(* Every set of both levels is well formed after every sim_access: frames  *)
(* that are valid come first and are counted, no block is there twice, and *)
(* stamps keep their width (set::insert_block, LRU_Victim_block,           *)
(* LFU_Victim_block).                                                      *)
THEOREM CachesInvariant == Spec => []CachesInv
<1>1. Init => CachesInv  BY CachesInit
<1>2. CachesInv /\ [Next]_vars => CachesInv'  BY CachesStep
<1> QED  BY <1>1, <1>2, PTL DEF Spec

(* The valid frames of a set are a prefix, its blocks are different ones   *)
(* and one at most is protected, whatever is read, written or prefetched.  *)
THEOREM SetShapeHolds == Spec => []SetShape
<1>1. CachesInv => SetShape
  <2> SUFFICES ASSUME CachesInv PROVE SetShape  OBVIOUS
  <2>1. /\ DOMAIN L1.sets = 0 .. Sets1 - 1 /\ DOMAIN L2.sets = 0 .. Sets2 - 1
    BY Sizes, CacheFields DEF CachesInv
  <2> QED  BY <2>1 DEF CachesInv, GoodCache, SetShape
<1> QED  BY <1>1, CachesInvariant, PTL

-----------------------------------------------------------------------------
(* Valid and dirty frames *)

FrameAt(cache, p) == cache.sets[p[1]].frames[p[2]]

Spots(m, w) == (0 .. m - 1) \X (1 .. w)

ValidSpots(cache, m, w) == {p \in Spots(m, w) : FrameAt(cache, p).valid_bit}
DirtySpots(cache, m, w) == {p \in Spots(m, w) : FrameAt(cache, p).dirty_bit}

SameMarks(old, new) ==
  new.valid_bit = old.valid_bit /\ new.dirty_bit = old.dirty_bit

LEMMA SpotsFinite ==
  ASSUME NEW m \in Nat, NEW w \in Nat, NEW cache
  PROVE  /\ IsFiniteSet(ValidSpots(cache, m, w))
         /\ IsFiniteSet(DirtySpots(cache, m, w))
         /\ Cardinality(ValidSpots(cache, m, w)) \in Nat
         /\ Cardinality(DirtySpots(cache, m, w)) \in Nat
<1>1. IsFiniteSet(0 .. m - 1) /\ IsFiniteSet(1 .. w)  BY FS_Interval
<1>2. IsFiniteSet(Spots(m, w))  BY <1>1, FS_Product DEF Spots
<1>3. /\ ValidSpots(cache, m, w) \in SUBSET Spots(m, w)
      /\ DirtySpots(cache, m, w) \in SUBSET Spots(m, w)
  BY DEF ValidSpots, DirtySpots
<1>4. /\ IsFiniteSet(ValidSpots(cache, m, w))
      /\ IsFiniteSet(DirtySpots(cache, m, w))
  BY <1>2, <1>3, FS_Subset
<1> QED  BY <1>4, FS_CardinalityType

LEMMA TouchMarks ==
  ASSUME NEW m \in Nat \ {0}, NEW w \in Nat, NEW cache,
         GoodCache(cache, m, w), NEW addr \in Nat
  PROVE  /\ ValidSpots(Touch(cache, addr), m, w) = ValidSpots(cache, m, w)
         /\ DirtySpots(Touch(cache, addr), m, w) = DirtySpots(cache, m, w)
<1> DEFINE k == Index(cache, addr)
           set == cache.sets[k]
           f == Find(set, Tag(cache, addr))
<1>1. k \in 0 .. m - 1 /\ GoodSet(set, w) /\ cache.time_stamp \in Nat
  BY TagType, CacheFields
<1>2. /\ set \in SetType(w)
      /\ \A j \in 1 .. w : set.frames[j] \in Block
  BY <1>1, SetFields DEF GoodSet
<1>3. \A p \in Spots(m, w) :
        /\ p[1] \in 0 .. m - 1 /\ p[2] \in 1 .. w
        /\ p[1] = k => FrameAt(cache, p) = set.frames[p[2]]
  BY DEF Spots, FrameAt
<1>4. ASSUME NEW p \in Spots(m, w)
      PROVE  SameMarks(FrameAt(cache, p), FrameAt(TouchLRU(cache, addr), p))
  <2> DEFINE b == [set.frames[f] EXCEPT !.time_stamp = cache.time_stamp]
             new == [set EXCEPT !.frames[f] = b]
             placed == [cache EXCEPT !.sets[k] = new]
  <2>1. f \in 1 .. w => b \in Block /\ SameMarks(set.frames[f], b)
    <3> HIDE DEF set, f
    <3> QED  BY <1>1, <1>2 DEF Block, SameMarks
  <2>2. TouchLRU(cache, addr).sets = placed.sets
    BY DEF TouchLRU, GoodCache, CacheRecord
  <2>3. FrameAt(TouchLRU(cache, addr), p) = FrameAt(placed, p)
    <3> HIDE DEF placed
    <3> QED  BY <2>2 DEF FrameAt
  <2> HIDE DEF b, k, set, f
  <2>4. new = [set EXCEPT !.frames[f] = b]  OBVIOUS
  <2>5. placed = [cache EXCEPT !.sets[k] = new]  OBVIOUS
  <2> HIDE DEF new, placed
  <2>6. \A j \in 1 .. w : new.frames[j] = IF j = f THEN b ELSE set.frames[j]
    BY <1>2, <2>4 DEF SetType
  <2>7. FrameAt(placed, p) = IF p[1] # k THEN FrameAt(cache, p)
                             ELSE new.frames[p[2]]
    <3>1. \A j \in 0 .. m - 1 :
            placed.sets[j] = IF j = k THEN new ELSE cache.sets[j]
      BY <2>5 DEF GoodCache, CacheRecord
    <3> QED  BY <3>1 DEF FrameAt, Spots
  <2> QED  BY <1>3, <2>1, <2>3, <2>6, <2>7 DEF SameMarks
<1>5. ASSUME NEW p \in Spots(m, w)
      PROVE  SameMarks(FrameAt(cache, p), FrameAt(TouchLFU(cache, addr), p))
  <2> DEFINE clear == ClearMRU(set)
             marked == [clear.frames[f] EXCEPT !.MRU = TRUE]
             b == [clear.frames[f] EXCEPT !.MRU = TRUE, !.counter = @ + 1]
             new == [clear EXCEPT !.frames[f] = b]
             placed == [cache EXCEPT !.sets[k] = new]
  <2>1. /\ clear \in SetType(w)
        /\ \A j \in 1 .. w : clear.frames[j] \in Block
                             /\ SameMarks(set.frames[j], clear.frames[j])
    <3> HIDE DEF set
    <3>1. /\ GoodSet(clear, w)
          /\ \A j \in 1 .. w :
               clear.frames[j] = [set.frames[j] EXCEPT !.MRU = FALSE]
      BY <1>1, ClearMRUGood
    <3> HIDE DEF clear
    <3>2. clear \in SetType(w)  BY <3>1 DEF GoodSet
    <3>3. \A j \in 1 .. w : clear.frames[j] \in Block  BY <3>2, SetFields
    <3>4. \A j \in 1 .. w : SameMarks(set.frames[j], clear.frames[j])
      BY <1>2, <3>1 DEF Block, SameMarks
    <3> QED  BY <3>2, <3>3, <3>4
  <2>2. f \in 1 .. w => b \in Block /\ SameMarks(set.frames[f], b)
    <3> HIDE DEF clear, set, f
    <3>1. f \in 1 .. w => marked \in Block /\ SameMarks(set.frames[f], marked)
      BY <2>1 DEF Block, SameMarks
    <3>2. b = [marked EXCEPT !.counter = @ + 1]  OBVIOUS
    <3> HIDE DEF marked, b
    <3> QED  BY <3>1, <3>2 DEF Block, SameMarks
  <2>3. TouchLFU(cache, addr) = placed  BY DEF TouchLFU
  <2> HIDE DEF b, clear, k, set, f
  <2>4. new = [clear EXCEPT !.frames[f] = b]  OBVIOUS
  <2>5. placed = [cache EXCEPT !.sets[k] = new]  OBVIOUS
  <2> HIDE DEF new, placed
  <2>6. \A j \in 1 .. w : new.frames[j] = IF j = f THEN b ELSE clear.frames[j]
    BY <2>1, <2>4 DEF SetType
  <2>7. FrameAt(placed, p) = IF p[1] # k THEN FrameAt(cache, p)
                             ELSE new.frames[p[2]]
    <3>1. \A j \in 0 .. m - 1 :
            placed.sets[j] = IF j = k THEN new ELSE cache.sets[j]
      BY <2>5 DEF GoodCache, CacheRecord
    <3> QED  BY <3>1 DEF FrameAt, Spots
  <2> QED  BY <1>3, <2>1, <2>2, <2>3, <2>6, <2>7 DEF SameMarks
<1>6. \A p \in Spots(m, w) :
        SameMarks(FrameAt(cache, p), FrameAt(Touch(cache, addr), p))
  BY <1>4, <1>5 DEF Touch
<1> QED  BY <1>6 DEF ValidSpots, DirtySpots, SameMarks

LEMMA DirtyMarks ==
  ASSUME NEW m \in Nat \ {0}, NEW w \in Nat, NEW cache,
         GoodCache(cache, m, w), NEW addr \in Nat, NEW dirty \in BOOLEAN
  PROVE  LET next == SetDirty(cache, addr, dirty)
         IN  /\ ValidSpots(next, m, w) = ValidSpots(cache, m, w)
             /\ \E q : DirtySpots(next, m, w) \subseteq
                         DirtySpots(cache, m, w) \cup {q}
             /\ ~dirty =>
                  DirtySpots(next, m, w) \subseteq DirtySpots(cache, m, w)
             /\ Cached(cache, addr) =>
                  DirtySpots(next, m, w) \subseteq
                    DirtySpots(cache, m, w) \cup ValidSpots(cache, m, w)
<1> DEFINE k == Index(cache, addr)
           set == cache.sets[k]
           f == Find(set, Tag(cache, addr))
           b == [set.frames[f] EXCEPT !.dirty_bit = dirty]
           new == [set EXCEPT !.frames[f] = b]
           next == SetDirty(cache, addr, dirty)
<1>1. k \in 0 .. m - 1 /\ set \in SetType(w)
      /\ \A j \in 1 .. w : set.frames[j] \in Block
  BY TagType, CacheFields, SetFields DEF GoodSet
<1>2. next = [cache EXCEPT !.sets[k] = new]
  BY DEF SetDirty, GoodCache, CacheRecord
<1>3. \A p \in Spots(m, w) :
        /\ p[1] \in 0 .. m - 1 /\ p[2] \in 1 .. w
        /\ p[1] = k => FrameAt(cache, p) = set.frames[p[2]]
  BY DEF Spots, FrameAt
<1>4. Cached(cache, addr) => f \in 1 .. w /\ set.frames[f].valid_bit
  BY <1>1, SetFields DEF Cached, SetOf, Has, Find
<1> HIDE DEF set, f, k, next
<1>5. f \in 1 .. w => /\ b \in Block /\ b.dirty_bit = dirty
                      /\ b.valid_bit = set.frames[f].valid_bit
  BY <1>1 DEF Block
<1> HIDE DEF b
<1>6. \A p \in Spots(m, w) :
        FrameAt(next, p) = IF p[1] # k THEN FrameAt(cache, p)
                           ELSE IF p[2] = f THEN b ELSE set.frames[p[2]]
  <2>1. new = [set EXCEPT !.frames[f] = b]  OBVIOUS
  <2> HIDE DEF new
  <2>2. \A j \in 1 .. w : new.frames[j] = IF j = f THEN b ELSE set.frames[j]
    BY <1>1, <2>1 DEF SetType
  <2>3. ASSUME NEW p \in Spots(m, w)
        PROVE  FrameAt(next, p) = IF p[1] # k THEN FrameAt(cache, p)
                                  ELSE new.frames[p[2]]
    <3>1. \A j \in 0 .. m - 1 :
            next.sets[j] = IF j = k THEN new ELSE cache.sets[j]
      BY <1>2 DEF GoodCache, CacheRecord
    <3> QED  BY <3>1 DEF FrameAt, Spots
  <2> QED  BY <1>3, <2>2, <2>3
<1>7. \A p \in Spots(m, w) :
        /\ FrameAt(next, p).valid_bit = FrameAt(cache, p).valid_bit
        /\ FrameAt(next, p).dirty_bit =
             IF p[1] = k /\ p[2] = f THEN dirty ELSE FrameAt(cache, p).dirty_bit
  BY <1>3, <1>5, <1>6
<1>8. ValidSpots(next, m, w) = ValidSpots(cache, m, w)
  BY <1>7 DEF ValidSpots
<1>9. DirtySpots(next, m, w) \subseteq DirtySpots(cache, m, w) \cup {<<k, f>>}
  BY <1>7 DEF DirtySpots, Spots
<1>10. ~dirty => DirtySpots(next, m, w) \subseteq DirtySpots(cache, m, w)
  BY <1>7 DEF DirtySpots
<1>11. Cached(cache, addr) => <<k, f>> \in ValidSpots(cache, m, w)
  BY <1>1, <1>4 DEF ValidSpots, Spots, FrameAt, set
<1> QED  BY <1>8, <1>9, <1>10, <1>11 DEF next

(* A block that is placed makes one frame valid, and clean. *)
LEMMA PlaceMarks ==
  ASSUME NEW m \in Nat \ {0}, NEW w \in Nat, NEW cache,
         GoodCache(cache, m, w), NEW addr \in Nat,
         NEW block \in Block, block.valid_bit, ~block.dirty_bit,
         NEW mru \in BOOLEAN
  PROVE  LET next == Place(cache, addr, block, mru)
             q    == <<Index(cache, addr), FrameFor(cache, addr)>>
         IN  /\ ValidSpots(next, m, w) \subseteq
                  ValidSpots(cache, m, w) \cup {q}
             /\ DirtySpots(next, m, w) \subseteq DirtySpots(cache, m, w) \ {q}
             /\ ValidSpots(cache, m, w) \subseteq ValidSpots(next, m, w)
<1> DEFINE k == Index(cache, addr)
           i == FrameFor(cache, addr)
           old == cache.sets[k]
           set == IF mru THEN ClearMRU(old) ELSE old
           b == [block EXCEPT !.MRU = mru]
           next == Place(cache, addr, block, mru)
<1>1. k \in 0 .. m - 1 /\ GoodSet(old, w)  BY TagType, CacheFields
<1>2. \A j \in 1 .. w : old.frames[j] \in Block  BY <1>1, SetFields DEF GoodSet
<1>3. /\ set \in SetType(w)
      /\ \A j \in 1 .. w : SameMarks(old.frames[j], set.frames[j])
  <2>1. CASE ~mru  BY <1>1, <2>1 DEF GoodSet, SameMarks
  <2>2. CASE mru
    <3> HIDE DEF old
    <3>1. set = ClearMRU(old)  BY <2>2
    <3>2. /\ set \in SetType(w)
          /\ \A j \in 1 .. w :
               set.frames[j] = [old.frames[j] EXCEPT !.MRU = FALSE]
      BY <1>1, <3>1, ClearMRUGood DEF GoodSet
    <3> HIDE DEF set
    <3> QED  BY <1>2, <3>2 DEF Block, SameMarks
  <2> QED  BY <2>1, <2>2
<1>4. b \in Block /\ b.valid_bit /\ ~b.dirty_bit  BY DEF Block
<1>5. CASE i = NoVictim
  <2>1. next.sets = cache.sets
    BY <1>5 DEF Place, GoodCache, CacheRecord
  <2>2. \A p \in Spots(m, w) :
          FrameAt(next, p) = FrameAt(cache, p) /\ p # <<k, i>>
    <3> HIDE DEF next
    <3> QED  BY <1>5, <2>1 DEF FrameAt, Spots, NoVictim
  <2> QED  BY <2>2 DEF ValidSpots, DirtySpots
<1>6. CASE i # NoVictim
  <2> DEFINE new == Insert(set, i, b)
  <2>1. next = [cache EXCEPT !.sets[k] = new]  BY <1>6 DEF Place
  <2>2. \A p \in Spots(m, w) :
          /\ p[1] \in 0 .. m - 1 /\ p[2] \in 1 .. w
          /\ p = <<p[1], p[2]>>
          /\ p[1] = k => FrameAt(cache, p) = old.frames[p[2]]
    BY DEF Spots, FrameAt
  <2> HIDE DEF old, set, b, k, i, next
  <2>3. \A j \in 1 .. w : new.frames[j] = IF j = i THEN b ELSE set.frames[j]
    BY <1>3 DEF Insert, SetType
  <2> HIDE DEF new
  <2>4. \A j \in 0 .. m - 1 :
          next.sets[j] = IF j = k THEN new ELSE cache.sets[j]
    BY <2>1 DEF GoodCache, CacheRecord
  <2>5. ASSUME NEW p \in Spots(m, w)
        PROVE  /\ p = <<k, i>> => /\ FrameAt(next, p).valid_bit
                                  /\ ~FrameAt(next, p).dirty_bit
               /\ p # <<k, i>> => SameMarks(FrameAt(cache, p), FrameAt(next, p))
    <3>1. FrameAt(next, p) = IF p[1] # k THEN FrameAt(cache, p)
                             ELSE IF p[2] = i THEN b ELSE set.frames[p[2]]
      BY <2>2, <2>3, <2>4 DEF FrameAt
    <3>2. p = <<k, i>> <=> p[1] = k /\ p[2] = i  BY <2>2
    <3> QED  BY <1>3, <1>4, <2>2, <3>1, <3>2 DEF SameMarks
  <2>6. ValidSpots(next, m, w) \subseteq ValidSpots(cache, m, w) \cup {<<k, i>>}
    BY <2>5 DEF ValidSpots, SameMarks
  <2>7. DirtySpots(next, m, w) \subseteq DirtySpots(cache, m, w) \ {<<k, i>>}
    BY <2>5 DEF DirtySpots, SameMarks
  <2>8. ValidSpots(cache, m, w) \subseteq ValidSpots(next, m, w)
    BY <2>5 DEF ValidSpots, SameMarks
  <2> QED  BY <2>6, <2>7, <2>8 DEF next, k, i
<1> QED  BY <1>5, <1>6

-----------------------------------------------------------------------------
(* Counting them *)

LEMMA CountGrows ==
  ASSUME NEW S, NEW T, NEW q, IsFiniteSet(S), T \subseteq S \cup {q}
  PROVE  Cardinality(T) <= Cardinality(S) + 1
<1>1. /\ IsFiniteSet(S \cup {q}) /\ Cardinality(S) \in Nat
      /\ Cardinality(S \cup {q}) <= Cardinality(S) + 1
      /\ Cardinality(S \cup {q}) \in Nat
  BY FS_AddElement, FS_CardinalityType
<1>2. Cardinality(T) <= Cardinality(S \cup {q}) /\ IsFiniteSet(T)
  BY <1>1, FS_Subset
<1>3. Cardinality(T) \in Nat  BY <1>2, FS_CardinalityType
<1> QED  BY <1>1, <1>2, <1>3

LEMMA CountShrinks ==
  ASSUME NEW S, NEW T, NEW q, IsFiniteSet(S), T \subseteq S \ {q}
  PROVE  Cardinality(T) + Counts(q \in S) <= Cardinality(S)
<1>1. /\ IsFiniteSet(S \ {q}) /\ Cardinality(S) \in Nat
      /\ Cardinality(S \ {q}) + Counts(q \in S) = Cardinality(S)
      /\ Cardinality(S \ {q}) \in Nat
  BY FS_RemoveElement, FS_CardinalityType DEF Counts
<1>2. Cardinality(T) <= Cardinality(S \ {q}) /\ IsFiniteSet(T)
  BY <1>1, FS_Subset
<1>3. Cardinality(T) \in Nat  BY <1>2, FS_CardinalityType
<1> QED  BY <1>1, <1>2, <1>3 DEF Counts

LEMMA SameSpots ==
  ASSUME NEW m, NEW w, NEW cache, NEW next, next.sets = cache.sets
  PROVE  /\ ValidSpots(next, m, w) = ValidSpots(cache, m, w)
         /\ DirtySpots(next, m, w) = DirtySpots(cache, m, w)
BY DEF ValidSpots, DirtySpots, FrameAt

LEMMA DemandMarks ==
  ASSUME NEW m \in Nat \ {0}, NEW w \in Nat, NEW cache,
         GoodCache(cache, m, w), NEW addr \in Nat, ~Cached(cache, addr)
  PROVE  /\ ValidSpots(Demand(cache, addr), m, w) \subseteq
              ValidSpots(cache, m, w)
                \cup {<<Index(cache, addr), FrameFor(cache, addr)>>}
         /\ DirtySpots(Demand(cache, addr), m, w) \subseteq
              DirtySpots(cache, m, w)
                \ {<<Index(cache, addr), FrameFor(cache, addr)>>}
         /\ ValidSpots(cache, m, w) \subseteq
              ValidSpots(Demand(cache, addr), m, w)
<1> DEFINE block == NewBlock(Tag(cache, addr), cache.time_stamp)
           b == [block EXCEPT !.counter = 1]
           placed == Place(cache, addr, b, TRUE)
<1>1. Tag(cache, addr) \in Nat /\ cache.time_stamp \in Nat
  BY TagType, CacheFields
<1>2. /\ block \in Block /\ block.valid_bit /\ ~block.dirty_bit
      /\ block.tag = Tag(cache, addr)
  BY <1>1 DEF NewBlock, Block
<1>3. Demand(cache, addr) = [placed EXCEPT !.time_stamp = @ + 1]  BY DEF Demand
<1> HIDE DEF block
<1>4. b \in Block /\ b.valid_bit /\ ~b.dirty_bit /\ b.tag = Tag(cache, addr)
  BY <1>2 DEF Block
<1> HIDE DEF b
<1>5. GoodCache(placed, m, w)  BY <1>4, PlaceGood
<1>6. /\ ValidSpots(placed, m, w) \subseteq
           ValidSpots(cache, m, w)
             \cup {<<Index(cache, addr), FrameFor(cache, addr)>>}
      /\ DirtySpots(placed, m, w) \subseteq
           DirtySpots(cache, m, w)
             \ {<<Index(cache, addr), FrameFor(cache, addr)>>}
      /\ ValidSpots(cache, m, w) \subseteq ValidSpots(placed, m, w)
  BY <1>4, PlaceMarks
<1> HIDE DEF placed
<1>7. Demand(cache, addr).sets = placed.sets
  BY <1>3, <1>5 DEF GoodCache, CacheRecord
<1> QED  BY <1>6, <1>7, SameSpots

LEMMA PrefetchMissMarks ==
  ASSUME NEW m \in Nat \ {0}, NEW w \in Nat, NEW cache,
         GoodCache(cache, m, w), NEW addr \in Nat, ~Cached(cache, addr)
  PROVE  ValidSpots(PrefetchMiss(cache, addr), m, w) \subseteq
           ValidSpots(cache, m, w)
             \cup {<<Index(cache, addr), FrameFor(cache, addr)>>}
<1> DEFINE t == Tag(cache, addr)
           stamp == LipStamp(SetOf(cache, addr), cache.time_stamp)
           q == <<Index(cache, addr), FrameFor(cache, addr)>>
           fresh == NewBlock(t, cache.time_stamp)
           recent == Place(cache, addr, fresh, TRUE)
           oldest == Place(cache, addr, NewBlock(t, stamp), FALSE)
<1>1. t \in Nat /\ cache.time_stamp \in Nat  BY TagType, CacheFields
<1>2. stamp \in Nat
  <2>1. GoodSet(SetOf(cache, addr), w)  BY TagType, CacheFields DEF SetOf
  <2> QED  BY <1>1, <2>1, LipStampType
<1>3. PrefetchMiss(cache, addr) =
        IF config.insert_policy = "MIP"
        THEN [recent EXCEPT !.time_stamp = @ + 1] ELSE oldest
  BY DEF PrefetchMiss
<1> HIDE DEF stamp
<1>4. \A u \in Nat : /\ NewBlock(t, u) \in Block
                     /\ NewBlock(t, u).valid_bit /\ ~NewBlock(t, u).dirty_bit
                     /\ NewBlock(t, u).tag = t
  BY <1>1 DEF NewBlock, Block
<1>5. /\ GoodCache(recent, m, w)
      /\ ValidSpots(recent, m, w) \subseteq ValidSpots(cache, m, w) \cup {q}
  <2>1. /\ fresh \in Block /\ fresh.valid_bit /\ ~fresh.dirty_bit
        /\ fresh.tag = t
    BY <1>1, <1>4
  <2> HIDE DEF fresh
  <2>2. GoodCache(recent, m, w)  BY <2>1, PlaceGood
  <2>3. ValidSpots(recent, m, w) \subseteq ValidSpots(cache, m, w) \cup {q}
    BY <2>1, PlaceMarks
  <2> QED  BY <2>2, <2>3
<1>6. ValidSpots(oldest, m, w) \subseteq ValidSpots(cache, m, w) \cup {q}
  BY <1>2, <1>4, PlaceMarks
<1> HIDE DEF recent, oldest, q
<1>7. [recent EXCEPT !.time_stamp = @ + 1].sets = recent.sets
  BY <1>5 DEF GoodCache, CacheRecord
<1>8. ValidSpots([recent EXCEPT !.time_stamp = @ + 1], m, w)
        = ValidSpots(recent, m, w)
  BY <1>7, SameSpots
<1>9. ValidSpots(PrefetchMiss(cache, addr), m, w) \subseteq
        ValidSpots(cache, m, w) \cup {q}
  BY <1>3, <1>5, <1>6, <1>8
<1> QED  BY <1>9 DEF q

(* A read of L2 fills as many frames as it is counted for. *)
LEMMA L2ReadMarks ==
  ASSUME CachesInv, NEW addr \in AddrSet
  PROVE  LET hit == ~config.l2_disabled /\ Cached(L2, addr)
         IN  Cardinality(ValidSpots(L2Read(addr), Sets2, Ways2))
               <= Cardinality(ValidSpots(L2, Sets2, Ways2)) + Counts(~hit)
                    + Counts(~hit /\ WantsPrefetch(L2, addr))
<1> DEFINE hit == ~config.l2_disabled /\ Cached(L2, addr)
           demanded == Demand(L2, addr)
           target == PrefetchAddr(L2, addr)
           Filled(cache) == Cardinality(ValidSpots(cache, Sets2, Ways2))
<1>1. /\ GoodCache(L2, Sets2, Ways2) /\ addr \in Nat
      /\ Sets2 \in Nat \ {0} /\ Ways2 \in Nat
  BY Sizes, AddressType DEF CachesInv
<1>2. \A cache : IsFiniteSet(ValidSpots(cache, Sets2, Ways2))
                 /\ Filled(cache) \in Nat
  BY <1>1, SpotsFinite
<1>3. CASE config.l2_disabled
  <2>1. L2Read(addr) = L2  BY <1>3 DEF L2Read
  <2> QED  BY <1>2, <2>1 DEF Counts
<1>4. CASE ~config.l2_disabled /\ Cached(L2, addr)
  <2>1. L2Read(addr) = Touch(L2, addr)  BY <1>4 DEF L2Read
  <2>2. Filled(L2Read(addr)) = Filled(L2)  BY <1>1, <2>1, TouchMarks
  <2> QED  BY <1>2, <2>2 DEF Counts
<1>5. CASE ~config.l2_disabled /\ ~Cached(L2, addr)
  <2>1. Filled(demanded) <= Filled(L2) + 1
    <3> DEFINE q == <<Index(L2, addr), FrameFor(L2, addr)>>
    <3>1. ValidSpots(demanded, Sets2, Ways2)
            \subseteq ValidSpots(L2, Sets2, Ways2) \cup {q}
      BY <1>1, <1>5, DemandMarks
    <3> HIDE DEF q, demanded
    <3> QED  BY <1>2, <3>1, CountGrows
  <2>2. GoodCache(demanded, Sets2, Ways2)  BY <1>1, <1>5, DemandGood
  <2>3. CASE config.prefetcher_disabled
    <3>1. L2Read(addr) = demanded  BY <1>5, <2>3 DEF L2Read
    <3> QED  BY <1>2, <1>5, <2>1, <3>1 DEF Counts
  <2>4. CASE ~config.prefetcher_disabled
    <3> DEFINE noted == IF config.strided_prefetch_disabled THEN demanded
                        ELSE [demanded EXCEPT !.last_miss_addr = addr]
    <3>1. L2Read(addr) = IF Cached(demanded, target) THEN noted
                         ELSE PrefetchMiss(noted, target)
      BY <1>5, <2>4 DEF L2Read, Prefetch
    <3>2. WantsPrefetch(L2, addr) <=> ~Cached(demanded, target)
      BY <1>5, <2>4 DEF WantsPrefetch
    <3>3. target \in Nat  BY <1>1, PrefetchAddrType, AddressType
    <3> HIDE DEF demanded, target
    <3>4. GoodCache(noted, Sets2, Ways2)  BY <1>1, <2>2, ClockGood
    <3>5. noted.sets = demanded.sets  BY <2>2 DEF GoodCache, CacheRecord
    <3> HIDE DEF noted
    <3>6. Filled(noted) = Filled(demanded)  BY <3>5, SameSpots
    <3>7. Cached(noted, target) <=> Cached(demanded, target)
      BY <3>5 DEF Cached, SetOf, Tag, Index, SetNum
    <3>8. CASE Cached(demanded, target)
      <4>1. Filled(L2Read(addr)) = Filled(demanded)  BY <3>1, <3>6, <3>8
      <4> QED  BY <1>2, <1>5, <2>1, <3>2, <3>8, <4>1 DEF Counts
    <3>9. CASE ~Cached(demanded, target)
      <4>1. Filled(PrefetchMiss(noted, target)) <= Filled(noted) + 1
        <5> DEFINE q == <<Index(noted, target), FrameFor(noted, target)>>
                   fetched == PrefetchMiss(noted, target)
        <5>1. ValidSpots(fetched, Sets2, Ways2)
                \subseteq ValidSpots(noted, Sets2, Ways2) \cup {q}
          BY <1>1, <3>3, <3>4, <3>7, <3>9, PrefetchMissMarks
        <5> HIDE DEF q, fetched
        <5>2. Filled(fetched) <= Filled(noted) + 1
          BY <1>2, <5>1, CountGrows
        <5> QED  BY <5>2 DEF fetched
      <4>2. Filled(L2Read(addr)) <= Filled(demanded) + 1
        BY <3>1, <3>6, <3>9, <4>1
      <4> QED  BY <1>2, <1>5, <2>1, <3>2, <3>9, <4>2 DEF Counts
    <3> QED  BY <3>8, <3>9
  <2> QED  BY <2>3, <2>4
<1> QED  BY <1>3, <1>4, <1>5

LEMMA L2WriteMarks ==
  ASSUME CachesInv, NEW cache, GoodCache(cache, Sets2, Ways2), NEW addr \in Nat
  PROVE  ValidSpots(L2Write(cache, addr), Sets2, Ways2)
           = ValidSpots(cache, Sets2, Ways2)
<1>1. Sets2 \in Nat \ {0} /\ Ways2 \in Nat  BY Sizes DEF CachesInv
<1> DEFINE touched == Touch(cache, addr)
<1>2. /\ GoodCache(touched, Sets2, Ways2)
      /\ ValidSpots(touched, Sets2, Ways2) = ValidSpots(cache, Sets2, Ways2)
  BY <1>1, TouchGood, TouchMarks
<1> HIDE DEF touched
<1>3. ValidSpots(SetDirty(touched, addr, FALSE), Sets2, Ways2)
        = ValidSpots(touched, Sets2, Ways2)
  BY <1>1, <1>2, DirtyMarks
<1> QED  BY <1>2, <1>3 DEF L2Write, touched

(* What a miss of L1 writes back was dirty. *)
LEMMA WrittenWasDirty ==
  ASSUME CachesInv, NEW addr \in AddrSet, WritesBack(addr)
  PROVE  /\ VictimAddr(addr) \in Nat
         /\ <<Index(L1, addr), FrameFor(L1, addr)>>
              \in DirtySpots(L1, Sets1, Ways1)
<1> DEFINE k == Index(L1, addr)
           i == FrameFor(L1, addr)
           set == L1.sets[k]
<1>1. /\ GoodCache(L1, Sets1, Ways1) /\ addr \in Nat
      /\ Sets1 \in Nat \ {0} /\ Ways1 \in Nat
  BY Sizes, AddressType DEF CachesInv
<1>2. k \in 0 .. Sets1 - 1 /\ GoodSet(set, Ways1) /\ SetNum(L1) = Sets1
  BY <1>1, TagType, CacheFields
<1>3. i # NoVictim /\ set.frames[i].dirty_bit  BY DEF WritesBack, SetOf
<1>4. i = InsertAt(set, config.replace_policy)  BY DEF FrameFor, SetOf
<1>5. VictimAddr(addr) = set.frames[i].tag * SetNum(L1) + k
  BY DEF VictimAddr, GetAddr, SetOf
<1> HIDE DEF set, i, k
<1>6. i \in 1 .. Ways1  BY <1>1, <1>2, <1>3, <1>4, FrameChosen
<1>7. set.frames[i].tag \in Nat
  BY <1>1, <1>2, <1>6, SetFields DEF GoodSet, Block
<1>8. VictimAddr(addr) \in Nat  BY <1>1, <1>2, <1>5, <1>7
<1>9. <<k, i>> \in DirtySpots(L1, Sets1, Ways1)
  BY <1>2, <1>3, <1>6 DEF DirtySpots, Spots, FrameAt, set
<1> QED  BY <1>8, <1>9 DEF k, i

-----------------------------------------------------------------------------
(* The statistics *)

LEMMA Bumped ==
  ASSUME NEW s \in StatsType, NEW c \in Nat
  PROVE  /\ [s EXCEPT !.reads = @ + c] \in StatsType
         /\ [s EXCEPT !.writes = @ + c] \in StatsType
         /\ [s EXCEPT !.accesses_l1 = @ + c] \in StatsType
         /\ [s EXCEPT !.hits_l1 = @ + c] \in StatsType
         /\ [s EXCEPT !.misses_l1 = @ + c] \in StatsType
         /\ [s EXCEPT !.reads_l2 = @ + c] \in StatsType
         /\ [s EXCEPT !.writes_l2 = @ + c] \in StatsType
         /\ [s EXCEPT !.read_hits_l2 = @ + c] \in StatsType
         /\ [s EXCEPT !.read_misses_l2 = @ + c] \in StatsType
         /\ [s EXCEPT !.prefetches_l2 = @ + c] \in StatsType
BY DEF StatsType

LEMMA CountsType == \A cond : Counts(cond) \in {0, 1}
BY DEF Counts

LEMMA CountAccessType ==
  ASSUME stats \in StatsType, NEW rw \in {"R", "W"}
  PROVE  /\ CountAccess(rw) \in StatsType
         /\ CountAccess(rw).reads = stats.reads + Counts(rw = "R")
         /\ CountAccess(rw).writes = stats.writes + Counts(rw = "W")
         /\ CountAccess(rw).accesses_l1 = stats.accesses_l1 + 1
         /\ CountAccess(rw).hits_l1 = stats.hits_l1
         /\ CountAccess(rw).misses_l1 = stats.misses_l1
         /\ CountAccess(rw).reads_l2 = stats.reads_l2
         /\ CountAccess(rw).writes_l2 = stats.writes_l2
         /\ CountAccess(rw).read_hits_l2 = stats.read_hits_l2
         /\ CountAccess(rw).read_misses_l2 = stats.read_misses_l2
         /\ CountAccess(rw).prefetches_l2 = stats.prefetches_l2
<1> DEFINE r == Counts(rw = "R")
           x == Counts(rw = "W")
           a == [stats EXCEPT !.reads = @ + r]
           b == [a EXCEPT !.writes = @ + x]
           c == [b EXCEPT !.accesses_l1 = @ + 1]
<1>1. CountAccess(rw) = c  BY DEF CountAccess
<1>2. r \in Nat /\ x \in Nat  BY CountsType
<1> HIDE DEF r, x
<1>3. a \in StatsType  BY <1>2, Bumped
<1>4. b \in StatsType
  <2> HIDE DEF a
  <2> QED  BY <1>2, <1>3, Bumped
<1>5. c \in StatsType
  <2> HIDE DEF b
  <2> QED  BY <1>4, Bumped
<1>6. /\ c.reads = stats.reads + r /\ c.writes = stats.writes + x
      /\ c.accesses_l1 = stats.accesses_l1 + 1
      /\ c.hits_l1 = stats.hits_l1 /\ c.misses_l1 = stats.misses_l1
      /\ c.reads_l2 = stats.reads_l2 /\ c.writes_l2 = stats.writes_l2
      /\ c.read_hits_l2 = stats.read_hits_l2
      /\ c.read_misses_l2 = stats.read_misses_l2
      /\ c.prefetches_l2 = stats.prefetches_l2
  BY DEF StatsType
<1> QED  BY <1>1, <1>5, <1>6 DEF r, x

LEMMA HitStats ==
  ASSUME stats \in StatsType, NEW rw \in {"R", "W"}, NEW addr, L1Hit(rw, addr)
  PROVE  /\ stats' \in StatsType
         /\ stats'.reads + stats'.writes = stats.reads + stats.writes + 1
         /\ stats'.writes = stats.writes + Counts(rw = "W")
         /\ stats'.accesses_l1 = stats.accesses_l1 + 1
         /\ stats'.hits_l1 = stats.hits_l1 + 1
         /\ stats'.misses_l1 = stats.misses_l1
         /\ stats'.reads_l2 = stats.reads_l2
         /\ stats'.writes_l2 = stats.writes_l2
         /\ stats'.read_hits_l2 = stats.read_hits_l2
         /\ stats'.read_misses_l2 = stats.read_misses_l2
         /\ stats'.prefetches_l2 = stats.prefetches_l2
<1> DEFINE a == CountAccess(rw)
<1>1. stats' = [a EXCEPT !.hits_l1 = @ + 1]  BY DEF L1Hit
<1>2. /\ a \in StatsType
      /\ a.reads + a.writes = stats.reads + stats.writes + 1
    BY CountAccessType DEF Counts, StatsType
<1>3. stats' \in StatsType
  <2> HIDE DEF a
  <2> QED  BY <1>1, <1>2, Bumped
<1> QED  BY <1>1, <1>2, <1>3, CountAccessType DEF StatsType

LEMMA MissStats ==
  ASSUME stats \in StatsType, NEW rw \in {"R", "W"}, NEW addr, L1Miss(rw, addr)
  PROVE  LET hit == ~config.l2_disabled /\ Cached(L2, addr)
         IN  /\ stats' \in StatsType
             /\ stats'.reads + stats'.writes = stats.reads + stats.writes + 1
             /\ stats'.writes = stats.writes + Counts(rw = "W")
             /\ stats'.accesses_l1 = stats.accesses_l1 + 1
             /\ stats'.hits_l1 = stats.hits_l1
             /\ stats'.misses_l1 = stats.misses_l1 + 1
             /\ stats'.reads_l2 = stats.reads_l2 + 1
             /\ stats'.writes_l2 = stats.writes_l2 + Counts(WritesBack(addr))
             /\ stats'.read_hits_l2 = stats.read_hits_l2 + Counts(hit)
             /\ stats'.read_misses_l2 = stats.read_misses_l2 + Counts(~hit)
             /\ stats'.prefetches_l2 =
                  stats.prefetches_l2 + Counts(~hit /\ WantsPrefetch(L2, addr))
<1> DEFINE hit == ~config.l2_disabled /\ Cached(L2, addr)
           nhit == Counts(hit)
           nmiss == Counts(~hit)
           npre == Counts(~hit /\ WantsPrefetch(L2, addr))
           nback == Counts(WritesBack(addr))
           s0 == CountAccess(rw)
           s1 == [s0 EXCEPT !.misses_l1 = @ + 1]
           s2 == [s1 EXCEPT !.reads_l2 = @ + 1]
           s3 == [s2 EXCEPT !.read_hits_l2 = @ + nhit]
           s4 == [s3 EXCEPT !.read_misses_l2 = @ + nmiss]
           s5 == [s4 EXCEPT !.prefetches_l2 = @ + npre]
           s6 == [s5 EXCEPT !.writes_l2 = @ + nback]
<1>1. stats' = [s0 EXCEPT !.misses_l1 = @ + 1, !.reads_l2 = @ + 1,
                          !.read_hits_l2 = @ + nhit,
                          !.read_misses_l2 = @ + nmiss,
                          !.prefetches_l2 = @ + npre,
                          !.writes_l2 = @ + nback]
  BY DEF L1Miss
<1>2. nhit \in Nat /\ nmiss \in Nat /\ npre \in Nat /\ nback \in Nat
  BY CountsType
<1>3. /\ s0 \in StatsType
      /\ s0.reads + s0.writes = stats.reads + stats.writes + 1
  BY CountAccessType DEF Counts, StatsType
<1> HIDE DEF nhit, nmiss, npre, nback, s0
<1>4. stats' = s6  BY <1>1
<1>5. s1 \in StatsType  BY <1>3, Bumped
<1>6. s2 \in StatsType
  <2> HIDE DEF s1
  <2> QED  BY <1>5, Bumped
<1>7. s3 \in StatsType
  <2> HIDE DEF s2
  <2> QED  BY <1>2, <1>6, Bumped
<1>8. s4 \in StatsType
  <2> HIDE DEF s3
  <2> QED  BY <1>2, <1>7, Bumped
<1>9. s5 \in StatsType
  <2> HIDE DEF s4
  <2> QED  BY <1>2, <1>8, Bumped
<1>10. s6 \in StatsType
  <2> HIDE DEF s5
  <2> QED  BY <1>2, <1>9, Bumped
<1>11. /\ stats'.reads = s0.reads /\ stats'.writes = s0.writes
       /\ stats'.accesses_l1 = s0.accesses_l1 /\ stats'.hits_l1 = s0.hits_l1
       /\ stats'.misses_l1 = s0.misses_l1 + 1
       /\ stats'.reads_l2 = s0.reads_l2 + 1
       /\ stats'.read_hits_l2 = s0.read_hits_l2 + nhit
       /\ stats'.read_misses_l2 = s0.read_misses_l2 + nmiss
       /\ stats'.prefetches_l2 = s0.prefetches_l2 + npre
       /\ stats'.writes_l2 = s0.writes_l2 + nback
  BY <1>1, <1>3 DEF StatsType
<1> QED
  BY <1>3, <1>4, <1>10, <1>11, CountAccessType
     DEF s0, nhit, nmiss, npre, nback

(* A store makes one frame of L1 dirty, a miss of L1 cleans the frame it   *)
(* writes back, and a frame of L2 is filled by a counted read or prefetch. *)
Balance ==
  /\ stats.accesses_l1 = stats.reads + stats.writes
  /\ stats.hits_l1 + stats.misses_l1 = stats.accesses_l1
  /\ stats.reads_l2 = stats.misses_l1
  /\ stats.read_hits_l2 + stats.read_misses_l2 = stats.reads_l2
  /\ stats.prefetches_l2 <= stats.read_misses_l2

Dirty  == Cardinality(DirtySpots(L1, Sets1, Ways1))
Filled == Cardinality(ValidSpots(L2, Sets2, Ways2))

Books ==
  /\ stats \in StatsType
  /\ Balance
  /\ stats.writes_l2 + Dirty <= stats.writes
  /\ Filled <= stats.read_misses_l2 + stats.prefetches_l2

LEMMA SizesKept ==
  ASSUME config' = config
  PROVE  UNCHANGED <<Sets1, Sets2, Ways1, Ways2>>
BY DEF Sets1, Sets2, Ways1, Ways2

LEMMA SpotCounts ==
  ASSUME CachesInv
  PROVE  \A cache :
           /\ IsFiniteSet(DirtySpots(cache, Sets1, Ways1))
           /\ Cardinality(DirtySpots(cache, Sets1, Ways1)) \in Nat
           /\ Cardinality(ValidSpots(cache, Sets2, Ways2)) \in Nat
BY Sizes, SpotsFinite DEF CachesInv

LEMMA MarkedDirty ==
  ASSUME NEW m \in Nat \ {0}, NEW w \in Nat, NEW cache,
         GoodCache(cache, m, w), NEW addr \in Nat
  PROVE  Cardinality(DirtySpots(SetDirty(cache, addr, TRUE), m, w))
           <= Cardinality(DirtySpots(cache, m, w)) + 1
<1> DEFINE next == SetDirty(cache, addr, TRUE)
<1>1. \E q : DirtySpots(next, m, w) \subseteq DirtySpots(cache, m, w) \cup {q}
  BY DirtyMarks
<1>2. PICK q : DirtySpots(next, m, w) \subseteq DirtySpots(cache, m, w) \cup {q}
  BY <1>1
<1> QED  BY <1>2, SpotsFinite, CountGrows

LEMMA HitBooks ==
  ASSUME CachesInv, Books, NEW rw \in {"R", "W"}, NEW addr \in AddrSet,
         L1Hit(rw, addr)
  PROVE  Books'
<1> DEFINE touched == Touch(L1, addr)
<1>1. /\ GoodCache(L1, Sets1, Ways1) /\ addr \in Nat
      /\ Sets1 \in Nat \ {0} /\ Ways1 \in Nat
  BY Sizes, AddressType DEF CachesInv
<1>2. /\ GoodCache(touched, Sets1, Ways1)
      /\ Cardinality(DirtySpots(touched, Sets1, Ways1)) = Dirty
  BY <1>1, TouchGood, TouchMarks DEF Dirty
<1>3. /\ L1' = IF rw = "R" THEN touched ELSE SetDirty(touched, addr, TRUE)
      /\ L2' = L2 /\ config' = config
  BY DEF L1Hit
<1> HIDE DEF touched
<1>4. /\ Dirty' = Cardinality(DirtySpots(L1', Sets1, Ways1))
      /\ Filled' = Filled
  BY <1>3, SizesKept DEF Dirty, Filled
<1>5. Dirty \in Nat /\ Dirty' \in Nat /\ Filled \in Nat
  BY <1>4, SpotCounts DEF Dirty, Filled
<1>6. Dirty' <= Dirty + Counts(rw = "W")
  <2>1. CASE rw = "R"  BY <1>2, <1>3, <1>4, <1>5, <2>1 DEF Counts
  <2>2. CASE rw = "W"
    <3>1. L1' = SetDirty(touched, addr, TRUE)  BY <1>3, <2>2
    <3>2. Dirty' <= Dirty + 1  BY <1>1, <1>2, <1>4, <3>1, MarkedDirty
    <3> QED  BY <2>2, <3>2 DEF Counts
  <2> QED  BY <2>1, <2>2
<1>7. Counts(rw = "W") \in Nat  BY CountsType
<1>8. stats \in StatsType  BY DEF Books
<1>9. stats' \in StatsType /\ Balance'
  BY <1>8, HitStats DEF Books, Balance, StatsType
<1>10. stats'.writes_l2 + Dirty' <= stats'.writes
  BY <1>5, <1>6, <1>7, <1>8, HitStats DEF Books, StatsType
<1>11. Filled' <= stats'.read_misses_l2 + stats'.prefetches_l2
  BY <1>4, <1>8, HitStats DEF Books
<1> QED  BY <1>9, <1>10, <1>11 DEF Books

LEMMA MissBooks ==
  ASSUME CachesInv, Books, NEW rw \in {"R", "W"}, NEW addr \in AddrSet,
         L1Miss(rw, addr)
  PROVE  Books'
<1> DEFINE hit == ~config.l2_disabled /\ Cached(L2, addr)
           nmiss == Counts(~hit)
           npre == Counts(~hit /\ WantsPrefetch(L2, addr))
           nback == Counts(WritesBack(addr))
           nstore == Counts(rw = "W")
           demanded == Demand(L1, addr)
           read == L2Read(addr)
           q == <<Index(L1, addr), FrameFor(L1, addr)>>
           CountDirty(cache) == Cardinality(DirtySpots(cache, Sets1, Ways1))
           CountFilled(cache) == Cardinality(ValidSpots(cache, Sets2, Ways2))
<1>1. /\ GoodCache(L1, Sets1, Ways1) /\ addr \in Nat
      /\ Sets1 \in Nat \ {0} /\ Ways1 \in Nat /\ ~Cached(L1, addr)
  BY Sizes, AddressType DEF CachesInv, L1Miss
<1>2. /\ GoodCache(demanded, Sets1, Ways1) /\ GoodCache(read, Sets2, Ways2)
      /\ config' = config
  BY <1>1, DemandGood, L2ReadGood DEF L1Miss
<1>3. /\ Dirty' = CountDirty(L1') /\ Filled' = CountFilled(L2')
      /\ Dirty = CountDirty(L1) /\ Filled = CountFilled(L2)
  BY <1>2, SizesKept DEF Dirty, Filled
<1>4. \A cache : CountDirty(cache) \in Nat /\ CountFilled(cache) \in Nat
  BY SpotCounts
<1>5. /\ nmiss \in {0, 1} /\ npre \in {0, 1}
      /\ nback \in {0, 1} /\ nstore \in {0, 1}
  BY CountsType
<1>6. npre <= nmiss  BY DEF Counts
<1>7. CountDirty(demanded) + nback <= Dirty
  <2> DEFINE S == DirtySpots(L1, Sets1, Ways1)
             T == DirtySpots(demanded, Sets1, Ways1)
  <2>1. T \subseteq S \ {q}  BY <1>1, DemandMarks
  <2>2. IsFiniteSet(S)  BY SpotCounts
  <2>3. WritesBack(addr) => q \in S  BY WrittenWasDirty
  <2> HIDE DEF S, T, q
  <2>4. Cardinality(T) + Counts(q \in S) <= Cardinality(S)
    BY <2>1, <2>2, CountShrinks
  <2>5. nback <= Counts(q \in S) /\ Counts(q \in S) \in {0, 1}
    BY <2>3 DEF Counts
  <2>6. Cardinality(T) \in Nat /\ Cardinality(S) \in Nat
    BY SpotCounts DEF S, T
  <2>7. Cardinality(T) + nback <= Cardinality(S)
    BY <1>5, <2>4, <2>5, <2>6
  <2> QED  BY <2>7 DEF S, T, Dirty
<1>8. CountDirty(L1') <= CountDirty(demanded) + nstore
  <2>1. L1' = IF rw = "R" \/ demanded.lost THEN demanded
              ELSE SetDirty(demanded, addr, TRUE)
    BY DEF L1Miss
  <2> HIDE DEF demanded
  <2>2. CASE L1' = demanded  BY <1>4, <1>5, <2>2
  <2>3. CASE rw = "W" /\ L1' = SetDirty(demanded, addr, TRUE)
    <3>1. CountDirty(SetDirty(demanded, addr, TRUE)) <= CountDirty(demanded) + 1
      BY <1>1, <1>2, MarkedDirty
    <3> QED  BY <2>3, <3>1 DEF Counts
  <2> QED  BY <2>1, <2>2, <2>3
<1>9. CountFilled(L2') <= Filled + nmiss + npre
  <2>1. CountFilled(read) <= Filled + nmiss + npre
    BY L2ReadMarks DEF Filled
  <2>2. L2' = IF WritesBack(addr) THEN L2Write(read, VictimAddr(addr)) ELSE read
    BY DEF L1Miss
  <2> HIDE DEF read, nmiss, npre
  <2>3. WritesBack(addr) =>
          CountFilled(L2Write(read, VictimAddr(addr))) = CountFilled(read)
    BY <1>2, WrittenWasDirty, L2WriteMarks
  <2> QED  BY <2>1, <2>2, <2>3
<1>10. stats \in StatsType  BY DEF Books
<1>11. /\ stats' \in StatsType
       /\ stats'.reads + stats'.writes = stats.reads + stats.writes + 1
       /\ stats'.writes = stats.writes + nstore
       /\ stats'.accesses_l1 = stats.accesses_l1 + 1
       /\ stats'.hits_l1 = stats.hits_l1
       /\ stats'.misses_l1 = stats.misses_l1 + 1
       /\ stats'.reads_l2 = stats.reads_l2 + 1
       /\ stats'.writes_l2 = stats.writes_l2 + nback
       /\ stats'.read_misses_l2 = stats.read_misses_l2 + nmiss
       /\ stats'.read_hits_l2 = stats.read_hits_l2 + 1 - nmiss
       /\ stats'.prefetches_l2 = stats.prefetches_l2 + npre
  BY <1>10, MissStats DEF Counts, StatsType
<1> HIDE DEF nmiss, npre, nback, nstore, demanded, CountDirty, CountFilled
<1>12. Balance'
  BY <1>5, <1>6, <1>10, <1>11 DEF Books, Balance, StatsType
<1>13. stats'.writes_l2 + Dirty' <= stats'.writes
  BY <1>3, <1>4, <1>5, <1>7, <1>8, <1>10, <1>11 DEF Books, StatsType
<1>14. Filled' <= stats'.read_misses_l2 + stats'.prefetches_l2
  BY <1>3, <1>4, <1>5, <1>9, <1>10, <1>11 DEF Books, StatsType
<1> QED  BY <1>11, <1>12, <1>13, <1>14 DEF Books

-----------------------------------------------------------------------------
(* Blocks and the frames they are in *)

SpotOf(cache, addr) ==
  <<Index(cache, addr), Find(SetOf(cache, addr), Tag(cache, addr))>>

LEMMA SpotFound ==
  ASSUME NEW m \in Nat \ {0}, NEW w \in Nat, NEW cache,
         GoodCache(cache, m, w), NEW addr \in Contents(cache)
  PROVE  /\ addr \in Nat /\ SpotOf(cache, addr) \in ValidSpots(cache, m, w)
         /\ FrameAt(cache, SpotOf(cache, addr)).tag = Tag(cache, addr)
<1> DEFINE k == Index(cache, addr)
           set == cache.sets[k]
           t == Tag(cache, addr)
           f == Find(set, t)
<1>1. addr \in Nat /\ Has(set, t)
  BY CacheAssumption DEF Contents, Cached, SetOf
<1>2. k \in 0 .. m - 1 /\ Frames(set) = 1 .. w
  BY <1>1, TagType, CacheFields, SetFields DEF GoodSet
<1>3. SpotOf(cache, addr) = <<k, f>>  BY DEF SpotOf, SetOf
<1> HIDE DEF k, t
<1>4. f \in 1 .. w /\ set.frames[f].valid_bit /\ set.frames[f].tag = t
  BY <1>1, <1>2 DEF Has, Find
<1> HIDE DEF f
<1> QED  BY <1>1, <1>2, <1>3, <1>4 DEF ValidSpots, Spots, FrameAt, t

(* The frame of a block determines it. *)
LEMMA SpotInjective ==
  ASSUME NEW m \in Nat \ {0}, NEW w \in Nat, NEW cache,
         GoodCache(cache, m, w),
         NEW a \in Contents(cache), NEW b \in Contents(cache),
         SpotOf(cache, a) = SpotOf(cache, b)
  PROVE  a = b
<1>1. a \in Nat /\ b \in Nat /\ Tag(cache, a) = Tag(cache, b)
  BY SpotFound
<1>2. Index(cache, a) = Index(cache, b)  BY DEF SpotOf
<1>3. SetNum(cache) = m  BY CacheFields
<1>4. a % m = b % m /\ a \div m = b \div m
  BY <1>1, <1>2, <1>3 DEF Tag, Index
<1> QED  BY <1>1, <1>4, SMTT(30)

LEMMA BlocksCounted ==
  ASSUME NEW m \in Nat \ {0}, NEW w \in Nat, NEW cache,
         GoodCache(cache, m, w), NEW S \in SUBSET Contents(cache),
         NEW T, IsFiniteSet(T), \A addr \in S : SpotOf(cache, addr) \in T
  PROVE  /\ Cardinality(S) <= Cardinality(T)
         /\ Cardinality(S) \in Nat /\ Cardinality(T) \in Nat
<1> DEFINE spot == [addr \in S |-> SpotOf(cache, addr)]
<1>1. spot \in [S -> T]  OBVIOUS
<1>2. \A a, b \in S : spot[a] = spot[b] => a = b  BY SpotInjective
<1> HIDE DEF spot
<1>3. spot \in Injection(S, T)  BY <1>1, <1>2 DEF Injection, IsInjective
<1>4. IsFiniteSet(S) /\ Cardinality(S) <= Cardinality(T)
  BY <1>3, FS_Injection
<1> QED  BY <1>4, FS_CardinalityType

LEMMA BlocksBounded ==
  ASSUME CachesInv
  PROVE  /\ Cardinality(DirtyBlocks) <= Dirty
         /\ Cardinality(Contents(L2)) <= Filled
         /\ Cardinality(DirtyBlocks) \in Nat /\ Dirty \in Nat
         /\ Cardinality(Contents(L2)) \in Nat /\ Filled \in Nat
<1>1. /\ GoodCache(L1, Sets1, Ways1) /\ GoodCache(L2, Sets2, Ways2)
      /\ Sets1 \in Nat \ {0} /\ Ways1 \in Nat
      /\ Sets2 \in Nat \ {0} /\ Ways2 \in Nat
  BY Sizes DEF CachesInv
<1>2. \A addr \in DirtyBlocks :
        SpotOf(L1, addr) \in DirtySpots(L1, Sets1, Ways1)
  <2> SUFFICES ASSUME NEW addr \in DirtyBlocks
               PROVE  SpotOf(L1, addr) \in DirtySpots(L1, Sets1, Ways1)
    OBVIOUS
  <2>1. /\ addr \in Contents(L1)
        /\ FrameAt(L1, SpotOf(L1, addr)).dirty_bit
    BY DEF DirtyBlocks, FrameAt, SpotOf, SetOf
  <2>2. SpotOf(L1, addr) \in Spots(Sets1, Ways1)
    BY <1>1, <2>1, SpotFound DEF ValidSpots
  <2> QED  BY <2>1, <2>2 DEF DirtySpots
<1>3. \A addr \in Contents(L2) :
        SpotOf(L2, addr) \in ValidSpots(L2, Sets2, Ways2)
  BY <1>1, SpotFound
<1>4. /\ IsFiniteSet(DirtySpots(L1, Sets1, Ways1))
      /\ IsFiniteSet(ValidSpots(L2, Sets2, Ways2))
  BY <1>1, SpotsFinite
<1>5. DirtyBlocks \in SUBSET Contents(L1)  BY DEF DirtyBlocks
<1>6. /\ Cardinality(DirtyBlocks) <= Dirty
      /\ Cardinality(DirtyBlocks) \in Nat /\ Dirty \in Nat
  BY <1>1, <1>2, <1>4, <1>5, BlocksCounted DEF Dirty
<1>7. /\ Cardinality(Contents(L2)) <= Filled
      /\ Cardinality(Contents(L2)) \in Nat /\ Filled \in Nat
  BY <1>1, <1>3, <1>4, BlocksCounted DEF Filled
<1> QED  BY <1>6, <1>7

LEMMA BooksInit == Init => Books
<1> SUFFICES ASSUME Init PROVE Books  OBVIOUS
<1>1. CachesInv /\ stats \in StatsType  BY CachesInit
<1>2. Balance  BY DEF Init, NoStats, Balance
<1>3. ASSUME NEW c, NEW s, NEW m, NEW w,
             m = 2 ^ (c - B - s), w = 2 ^ s
      PROVE  /\ DirtySpots(NewCache(c, s), m, w) = {}
             /\ ValidSpots(NewCache(c, s), m, w) = {}
  <2>1. \A p \in Spots(m, w) : FrameAt(NewCache(c, s), p) = EmptyBlock
    BY <1>3 DEF Spots, FrameAt, NewCache, NewSet
  <2>2. ~EmptyBlock.valid_bit /\ ~EmptyBlock.dirty_bit
    BY DEF EmptyBlock, NewBlock
  <2> QED  BY <2>1, <2>2 DEF DirtySpots, ValidSpots
<1>4. /\ DirtySpots(L1, Sets1, Ways1) = {}
      /\ ValidSpots(L2, Sets2, Ways2) = {}
  BY <1>3 DEF Init, Sets1, Ways1, Sets2, Ways2
<1>5. Dirty = 0 /\ Filled = 0  BY <1>4, FS_EmptySet DEF Dirty, Filled
<1> QED  BY <1>1, <1>2, <1>5 DEF Init, NoStats, Books

LEMMA BooksStep ==
  ASSUME CachesInv, Books, [Next]_vars
  PROVE  Books'
<1>1. ASSUME NEW rw \in {"R", "W"}, NEW addr \in AddrSet, Access(rw, addr)
      PROVE  Books'
  BY <1>1, HitBooks, MissBooks DEF Access
<1>2. CASE UNCHANGED vars
  BY <1>2 DEF vars, Books, Balance, Dirty, Filled, Sets1, Sets2, Ways1, Ways2
<1> QED  BY <1>1, <1>2 DEF Next

(* After every sim_access the counters agree with the frames: no more      *)
(* blocks are dirty or written back than were stored to, and no more       *)
(* frames of L2 are filled than were read or prefetched into it.           *)
THEOREM BooksInvariant == Spec => []Books
<1>1. Init => Books  BY BooksInit
<1>2. CachesInv /\ Books /\ [Next]_vars => Books'  BY BooksStep
<1> QED  BY <1>1, <1>2, CachesInvariant, PTL DEF Spec

(* Every set keeps its frames, a count of valid ones that fits them, and   *)
(* blocks in them; the statistics stay numbers.                            *)
THEOREM CacheTypeCorrect == Spec => []TypeOK
<1>1. CachesInv /\ Books => TypeOK
  BY DEF CachesInv, Books, TypeOK, GoodCache, CacheRecord, CacheType,
         Sets1, Sets2, Ways1, Ways2
<1> QED  BY <1>1, CachesInvariant, BooksInvariant, PTL

(* The statistics account for every access and every block: no store is    *)
(* written back twice, and L2 holds nothing that was not read or           *)
(* prefetched.                                                             *)
THEOREM StatsBalanceHolds == Spec => []StatsBalance
<1>1. CachesInv /\ Books => StatsBalance
  <2> SUFFICES ASSUME CachesInv, Books PROVE StatsBalance  OBVIOUS
  <2>1. stats.writes_l2 + Cardinality(DirtyBlocks) <= stats.writes
    BY BlocksBounded DEF Books, StatsType
  <2>2. Cardinality(Contents(L2)) <= stats.read_misses_l2 + stats.prefetches_l2
    BY BlocksBounded DEF Books, StatsType
  <2> QED  BY <2>1, <2>2 DEF Books, Balance, StatsBalance
<1> QED  BY <1>1, CachesInvariant, BooksInvariant, PTL

-----------------------------------------------------------------------------
(* Addresses: the parts of a block number, for m sets *)

LEMMA AddressParts ==
  ASSUME NEW m \in Nat \ {0}, NEW t \in Nat, NEW k \in 0 .. m - 1
  PROVE  /\ t * m + k \in Nat
         /\ (t * m + k) % m = k /\ (t * m + k) \div m = t
BY SMTT(30)

LEMMA AddressWhole ==
  ASSUME NEW m \in Nat \ {0}, NEW a \in Nat
  PROVE  /\ a % m \in 0 .. m - 1 /\ a \div m \in Nat
         /\ (a \div m) * m + (a % m) = a
BY SMTT(30)

LEMMA AddressSame ==
  ASSUME NEW m \in Nat \ {0}, NEW a \in Nat, NEW b \in Nat
  PROVE  a = b <=> a % m = b % m /\ a \div m = b \div m
BY SMTT(30)

LEMMA AddressOrder ==
  ASSUME NEW m \in Nat \ {0}, NEW a \in Nat, NEW b \in Nat, a % m = b % m
  PROVE  a <= b <=> a \div m <= b \div m
BY SMTT(30)

-----------------------------------------------------------------------------
(* One set, seen by its tags *)

Entry(set, t) == set.frames[Find(set, t)]

LEMMA EntryFrame ==
  ASSUME NEW w \in Nat, NEW set, GoodSet(set, w), NEW t, Has(set, t)
  PROVE  /\ Find(set, t) \in 1 .. w /\ Find(set, t) \in ValidFrames(set)
         /\ Entry(set, t) \in Block
         /\ Entry(set, t).valid_bit /\ Entry(set, t).tag = t
<1> DEFINE f == Find(set, t)
<1>1. Frames(set) = 1 .. w /\ \A i \in 1 .. w : set.frames[i] \in Block
  BY SetFields DEF GoodSet
<1>2. f \in Frames(set) /\ set.frames[f].valid_bit /\ set.frames[f].tag = t
  BY DEF Has, Find
<1> QED  BY <1>1, <1>2 DEF Entry, ValidFrames

LEMMA EntryIs ==
  ASSUME NEW w \in Nat, NEW set, GoodSet(set, w), NEW i \in 1 .. w,
         set.frames[i].valid_bit
  PROVE  /\ Has(set, set.frames[i].tag)
         /\ Find(set, set.frames[i].tag) = i
         /\ Entry(set, set.frames[i].tag) = set.frames[i]
<1> DEFINE t == set.frames[i].tag
<1>1. Frames(set) = 1 .. w  BY SetFields DEF GoodSet
<1>2. Has(set, t)  BY <1>1 DEF Has
<1>3. Find(set, t) \in ValidFrames(set) /\ i \in ValidFrames(set)
      /\ set.frames[Find(set, t)].tag = t
  BY <1>1, <1>2, EntryFrame DEF ValidFrames, Entry
<1>4. Find(set, t) = i  BY <1>3 DEF GoodSet, WellShaped
<1> QED  BY <1>2, <1>4 DEF Entry

(* What does not change the tags finds the blocks where they were. *)
LEMMA SameTags ==
  ASSUME NEW w \in Nat, NEW set, GoodSet(set, w), NEW new, GoodSet(new, w),
         \A j \in 1 .. w : /\ new.frames[j].valid_bit = set.frames[j].valid_bit
                           /\ new.frames[j].tag = set.frames[j].tag
  PROVE  \A t : /\ Has(new, t) <=> Has(set, t)
                /\ Has(set, t) => Find(new, t) = Find(set, t)
<1> SUFFICES ASSUME NEW t
             PROVE  /\ Has(new, t) <=> Has(set, t)
                    /\ Has(set, t) => Find(new, t) = Find(set, t)
  OBVIOUS
<1>1. Frames(set) = 1 .. w /\ Frames(new) = 1 .. w  BY SetFields DEF GoodSet
<1>2. Has(new, t) <=> Has(set, t)  BY <1>1 DEF Has
<1>3. ASSUME Has(set, t) PROVE Find(new, t) = Find(set, t)
  <2>1. Find(set, t) \in 1 .. w /\ set.frames[Find(set, t)].valid_bit
        /\ set.frames[Find(set, t)].tag = t
    BY <1>3, EntryFrame DEF Entry
  <2>2. new.frames[Find(set, t)].valid_bit /\ new.frames[Find(set, t)].tag = t
    BY <2>1
  <2> QED  BY <2>1, <2>2, EntryIs
<1> QED  BY <1>2, <1>3

(* A block that takes frame i, and the one that was there. *)
LEMMA InsertEntries ==
  ASSUME NEW w \in Nat, NEW set, GoodSet(set, w), NEW i \in 1 .. w,
         NEW b \in Block, b.valid_bit, ~Has(set, b.tag),
         GoodSet(Insert(set, i, b), w)
  PROVE  LET new == Insert(set, i, b)
         IN  /\ Has(new, b.tag) /\ Entry(new, b.tag) = b
             /\ \A t : t # b.tag =>
                  /\ Has(new, t) <=> Has(set, t) /\ Find(set, t) # i
                  /\ Has(new, t) => Entry(new, t) = Entry(set, t)
<1> DEFINE new == Insert(set, i, b)
<1>1. /\ Frames(set) = 1 .. w /\ Frames(new) = 1 .. w
      /\ set.frames \in [1 .. w -> Block]
  BY SetFields DEF GoodSet, SetType
<1>2. \A j \in 1 .. w : new.frames[j] = IF j = i THEN b ELSE set.frames[j]
  BY <1>1 DEF Insert
<1> HIDE DEF new
<1>3. GoodSet(new, w)  BY DEF new
<1>4. new.frames[i] = b  BY <1>2
<1>5. Has(new, b.tag) /\ Entry(new, b.tag) = b  BY <1>3, <1>4, EntryIs
<1>6. ASSUME NEW t, t # b.tag
      PROVE  /\ Has(new, t) <=> Has(set, t) /\ Find(set, t) # i
             /\ Has(new, t) => Entry(new, t) = Entry(set, t)
  <2>1. ASSUME Has(new, t)
        PROVE  /\ Has(set, t) /\ Find(set, t) # i
               /\ Entry(new, t) = Entry(set, t)
    <3> DEFINE f == Find(new, t)
    <3>1. f \in 1 .. w /\ new.frames[f].valid_bit /\ new.frames[f].tag = t
      BY <1>3, <2>1, EntryFrame DEF Entry
    <3> HIDE DEF f
    <3>2. f # i /\ set.frames[f] = new.frames[f]  BY <1>2, <1>4, <1>6, <3>1
    <3>3. Has(set, t) /\ Find(set, t) = f /\ Entry(set, t) = set.frames[f]
      BY <3>1, <3>2, EntryIs
    <3> QED  BY <3>2, <3>3 DEF Entry, f
  <2>2. ASSUME Has(set, t), Find(set, t) # i
        PROVE  Has(new, t)
    <3>1. /\ Find(set, t) \in 1 .. w /\ set.frames[Find(set, t)].valid_bit
          /\ set.frames[Find(set, t)].tag = t
      BY <2>2, EntryFrame DEF Entry
    <3>2. new.frames[Find(set, t)] = set.frames[Find(set, t)]
      BY <1>2, <2>2, <3>1
    <3> QED  BY <1>1, <3>1, <3>2 DEF Has
  <2> QED  BY <2>1, <2>2
<1> QED  BY <1>5, <1>6 DEF new

-----------------------------------------------------------------------------
(* One cache, seen by its blocks *)

BlockAt(cache, a) == Entry(SetOf(cache, a), Tag(cache, a))

LEMMA Located ==
  ASSUME NEW m \in Nat \ {0}, NEW w \in Nat, NEW cache,
         GoodCache(cache, m, w), NEW a \in Nat
  PROVE  /\ Index(cache, a) = a % m /\ a % m \in 0 .. m - 1
         /\ Tag(cache, a) = a \div m /\ a \div m \in Nat
         /\ SetOf(cache, a) = cache.sets[a % m] /\ GoodSet(SetOf(cache, a), w)
<1>1. SetNum(cache) = m /\ \A k \in 0 .. m - 1 : GoodSet(cache.sets[k], w)
  BY CacheFields
<1>2. a % m \in 0 .. m - 1 /\ a \div m \in Nat  BY AddressWhole
<1> QED  BY <1>1, <1>2 DEF Index, Tag, SetOf

LEMMA BlockType ==
  ASSUME NEW m \in Nat \ {0}, NEW w \in Nat, NEW cache,
         GoodCache(cache, m, w), NEW a \in Nat, Cached(cache, a)
  PROVE  /\ BlockAt(cache, a) \in Block
         /\ BlockAt(cache, a).counter \in Nat
         /\ BlockAt(cache, a).MRU \in BOOLEAN
         /\ BlockAt(cache, a).dirty_bit \in BOOLEAN
         /\ BlockAt(cache, a).time_stamp \in Nat
<1>1. GoodSet(SetOf(cache, a), w) /\ Has(SetOf(cache, a), Tag(cache, a))
  BY Located DEF Cached
<1>2. BlockAt(cache, a) \in Block  BY <1>1, EntryFrame DEF BlockAt
<1> QED  BY <1>2 DEF Block

(* Set k of the cache has become new. *)
SetChange(cache, next, k, new, m, w) ==
  /\ GoodCache(cache, m, w) /\ GoodCache(next, m, w)
  /\ k \in 0 .. m - 1 /\ next.sets[k] = new
  /\ \A j \in 0 .. m - 1 : j # k => next.sets[j] = cache.sets[j]

InSetOnly(cache, next, k, new, m) ==
  \A x \in Nat :
    /\ x % m # k => /\ Cached(next, x) <=> Cached(cache, x)
                    /\ BlockAt(next, x) = BlockAt(cache, x)
    /\ x % m = k => /\ Cached(cache, x) <=> Has(cache.sets[k], x \div m)
                    /\ BlockAt(cache, x) = Entry(cache.sets[k], x \div m)
                    /\ Cached(next, x) <=> Has(new, x \div m)
                    /\ BlockAt(next, x) = Entry(new, x \div m)

LEMMA SetReplaced ==
  ASSUME NEW m \in Nat \ {0}, NEW w \in Nat, NEW cache, NEW next, NEW k,
         NEW new,
         SetChange(cache, next, k, new, m, w)
  PROVE  InSetOnly(cache, next, k, new, m)
<1> SUFFICES ASSUME NEW x \in Nat
             PROVE  /\ x % m # k => /\ Cached(next, x) <=> Cached(cache, x)
                                    /\ BlockAt(next, x) = BlockAt(cache, x)
                    /\ x % m = k =>
                         /\ Cached(cache, x) <=> Has(cache.sets[k], x \div m)
                         /\ BlockAt(cache, x) = Entry(cache.sets[k], x \div m)
                         /\ Cached(next, x) <=> Has(new, x \div m)
                         /\ BlockAt(next, x) = Entry(new, x \div m)
  BY DEF InSetOnly
<1>1. /\ GoodCache(cache, m, w) /\ GoodCache(next, m, w)
      /\ k \in 0 .. m - 1 /\ next.sets[k] = new
      /\ \A j \in 0 .. m - 1 : j # k => next.sets[j] = cache.sets[j]
  BY DEF SetChange
<1>2. /\ x % m \in 0 .. m - 1
      /\ Tag(cache, x) = x \div m /\ SetOf(cache, x) = cache.sets[x % m]
  BY <1>1, Located
<1>3. Tag(next, x) = x \div m /\ SetOf(next, x) = next.sets[x % m]
  BY <1>1, Located
<1> QED  BY <1>1, <1>2, <1>3 DEF Cached, BlockAt

(* If its blocks stay in their frames, each is what became of its frame.   *)
Refreshed(cache, next, k, new, m, w) ==
  \A x \in Nat :
    /\ Cached(next, x) <=> Cached(cache, x)
    /\ x % m # k => BlockAt(next, x) = BlockAt(cache, x)
    /\ x % m = k /\ Cached(cache, x) =>
         \E j \in 1 .. w : /\ cache.sets[k].frames[j].valid_bit
                           /\ cache.sets[k].frames[j].tag = x \div m
                           /\ BlockAt(cache, x) = cache.sets[k].frames[j]
                           /\ BlockAt(next, x) = new.frames[j]

LEMMA SetRefreshed ==
  ASSUME NEW m \in Nat \ {0}, NEW w \in Nat, NEW cache, NEW next, NEW k,
         NEW new,
         SetChange(cache, next, k, new, m, w),
         \A j \in 1 .. w :
           /\ new.frames[j].valid_bit = cache.sets[k].frames[j].valid_bit
           /\ new.frames[j].tag = cache.sets[k].frames[j].tag
  PROVE  Refreshed(cache, next, k, new, m, w)
<1> DEFINE set == cache.sets[k]
<1>1. GoodSet(set, w) /\ GoodSet(new, w)
  <2>1. GoodCache(cache, m, w) /\ GoodCache(next, m, w) /\ k \in 0 .. m - 1
        /\ next.sets[k] = new
    BY DEF SetChange
  <2>2. GoodSet(cache.sets[k], w)  BY <2>1, CacheFields
  <2>3. GoodSet(next.sets[k], w)  BY <2>1, CacheFields
  <2> QED  BY <2>1, <2>2, <2>3
<1>2. \A j \in 1 .. w : /\ new.frames[j].valid_bit = set.frames[j].valid_bit
                        /\ new.frames[j].tag = set.frames[j].tag
  OBVIOUS
<1>3. InSetOnly(cache, next, k, new, m)  BY SetReplaced
<1>4. \A x \in Nat :
         /\ x % m # k => /\ Cached(next, x) <=> Cached(cache, x)
                         /\ BlockAt(next, x) = BlockAt(cache, x)
         /\ x % m = k => /\ Cached(cache, x) <=> Has(set, x \div m)
                         /\ BlockAt(cache, x) = Entry(set, x \div m)
                         /\ Cached(next, x) <=> Has(new, x \div m)
                         /\ BlockAt(next, x) = Entry(new, x \div m)
  BY <1>3 DEF InSetOnly
<1> HIDE DEF set
<1>5. \A t : /\ Has(new, t) <=> Has(set, t)
             /\ Has(set, t) => Find(new, t) = Find(set, t)
  BY <1>1, <1>2, SameTags
<1>6. ASSUME NEW x \in Nat, x % m = k, Cached(cache, x)
      PROVE  \E j \in 1 .. w : /\ set.frames[j].valid_bit
                               /\ set.frames[j].tag = x \div m
                               /\ BlockAt(cache, x) = set.frames[j]
                               /\ BlockAt(next, x) = new.frames[j]
  <2> DEFINE t == x \div m
             f == Find(set, t)
  <2>1. /\ Has(set, t) /\ BlockAt(cache, x) = Entry(set, t)
        /\ BlockAt(next, x) = Entry(new, t)
    BY <1>4, <1>6
  <2> HIDE DEF t
  <2>2. f \in 1 .. w /\ Entry(set, t).valid_bit /\ Entry(set, t).tag = t
    BY <1>1, <2>1, EntryFrame
  <2>3. Find(new, t) = f  BY <1>5, <2>1
  <2>4. Entry(set, t) = set.frames[f] /\ Entry(new, t) = new.frames[f]
    BY <2>3 DEF Entry
  <2> HIDE DEF f
  <2> QED  BY <2>1, <2>2, <2>4 DEF t
<1>7. \A x \in Nat : /\ Cached(next, x) <=> Cached(cache, x)
                     /\ x % m # k => BlockAt(next, x) = BlockAt(cache, x)
  BY <1>4, <1>5
<1> QED  BY <1>6, <1>7 DEF Refreshed, set

LEMMA SameSets ==
  ASSUME NEW cache, NEW next, next.sets = cache.sets
  PROVE  \A x : /\ Cached(next, x) <=> Cached(cache, x)
                /\ BlockAt(next, x) = BlockAt(cache, x)
                /\ Index(next, x) = Index(cache, x)
                /\ Tag(next, x) = Tag(cache, x)
                /\ SetOf(next, x) = SetOf(cache, x)
                /\ FrameFor(next, x) = FrameFor(cache, x)
BY DEF Cached, BlockAt, FrameFor, SetOf, Tag, Index, SetNum

(* SetDirty changes the dirty bit of one block. *)
Marked(cache, next, a, dirty) ==
  \A x \in Nat :
    /\ Cached(next, x) <=> Cached(cache, x)
    /\ Cached(cache, x) =>
         /\ BlockAt(next, x).counter = BlockAt(cache, x).counter
         /\ BlockAt(next, x).MRU = BlockAt(cache, x).MRU
         /\ BlockAt(next, x).time_stamp = BlockAt(cache, x).time_stamp
         /\ BlockAt(next, x).dirty_bit =
              IF x = a THEN dirty ELSE BlockAt(cache, x).dirty_bit

LEMMA SetDirtyMarks ==
  ASSUME NEW m \in Nat \ {0}, NEW w \in Nat, NEW cache,
         GoodCache(cache, m, w), NEW a \in Nat, NEW dirty \in BOOLEAN,
         Cached(cache, a)
  PROVE  /\ Marked(cache, SetDirty(cache, a, dirty), a, dirty)
         /\ SetDirty(cache, a, dirty).last_miss_addr = cache.last_miss_addr
         /\ SetDirty(cache, a, dirty).time_stamp = cache.time_stamp
         /\ SetDirty(cache, a, dirty).lost = cache.lost
<1> DEFINE k == a % m
           t == a \div m
           set == cache.sets[k]
           f == Find(set, t)
           b == [set.frames[f] EXCEPT !.dirty_bit = dirty]
           new == [set EXCEPT !.frames[f] = b]
           next == SetDirty(cache, a, dirty)
<1>1. /\ k \in 0 .. m - 1 /\ Index(cache, a) = k /\ Tag(cache, a) = t
      /\ GoodSet(set, w) /\ Has(set, t)
  BY Located DEF Cached
<1>2. GoodCache(next, m, w)  BY SetDirtyGood
<1>3. /\ next.sets = [cache.sets EXCEPT ![k] = new]
      /\ next.last_miss_addr = cache.last_miss_addr
      /\ next.time_stamp = cache.time_stamp /\ next.lost = cache.lost
  BY <1>1 DEF SetDirty, GoodCache, CacheRecord
<1>4. /\ next.sets[k] = new
      /\ \A j \in 0 .. m - 1 : j # k => next.sets[j] = cache.sets[j]
  BY <1>1, <1>3, CacheFields
<1>5. f \in 1 .. w /\ set.frames[f] \in Block /\ set.frames[f].tag = t
      /\ set.frames[f].valid_bit
  BY <1>1, EntryFrame DEF Entry
<1>6. \A j \in 1 .. w :
        new.frames[j] = IF j = f THEN b ELSE set.frames[j]
  BY <1>1 DEF GoodSet, SetType
<1>7. /\ b.tag = t /\ b.valid_bit = set.frames[f].valid_bit
      /\ b.counter = set.frames[f].counter /\ b.MRU = set.frames[f].MRU
      /\ b.time_stamp = set.frames[f].time_stamp /\ b.dirty_bit = dirty
  BY <1>5 DEF Block
<1> HIDE DEF next, new, b, set, f, t, k
<1>8. \A j \in 1 .. w : /\ new.frames[j].valid_bit = set.frames[j].valid_bit
                        /\ new.frames[j].tag = set.frames[j].tag
  BY <1>5, <1>6, <1>7
<1>9. \A x \in Nat :
        /\ Cached(next, x) <=> Cached(cache, x)
        /\ x % m # k => BlockAt(next, x) = BlockAt(cache, x)
        /\ x % m = k /\ Cached(cache, x) =>
             \E j \in 1 .. w : /\ set.frames[j].valid_bit
                               /\ set.frames[j].tag = x \div m
                               /\ BlockAt(cache, x) = set.frames[j]
                               /\ BlockAt(next, x) = new.frames[j]
  <2>1. SetChange(cache, next, k, new, m, w)  BY <1>1, <1>2, <1>4 DEF SetChange
  <2>2. Refreshed(cache, next, k, new, m, w)
    BY <1>8, <2>1, SetRefreshed DEF set
  <2> QED  BY <2>2 DEF Refreshed, set
<1>10. ASSUME NEW x \in Nat, Cached(cache, x)
       PROVE  /\ BlockAt(next, x).counter = BlockAt(cache, x).counter
              /\ BlockAt(next, x).MRU = BlockAt(cache, x).MRU
              /\ BlockAt(next, x).time_stamp = BlockAt(cache, x).time_stamp
              /\ BlockAt(next, x).dirty_bit =
                   IF x = a THEN dirty ELSE BlockAt(cache, x).dirty_bit
  <2>1. x = a <=> x % m = k /\ x \div m = t
    BY AddressSame DEF k, t
  <2>2. CASE x % m # k  BY <1>9, <2>1, <2>2
  <2>3. CASE x % m = k
    <3>1. PICK j \in 1 .. w : /\ set.frames[j].valid_bit
                              /\ set.frames[j].tag = x \div m
                              /\ BlockAt(cache, x) = set.frames[j]
                              /\ BlockAt(next, x) = new.frames[j]
      BY <1>9, <1>10, <2>3
    <3>2. j = f <=> x = a  BY <1>1, <1>5, <2>1, <2>3, <3>1, EntryIs
    <3> QED  BY <1>6, <1>7, <3>1, <3>2
  <2> QED  BY <2>2, <2>3
<1>11. Marked(cache, next, a, dirty)  BY <1>9, <1>10 DEF Marked
<1> QED  BY <1>3, <1>11 DEF next

(* A hit under LFU counts the block and moves the mark to it. *)
Reused(cache, next, a, m) ==
  \A x \in Nat :
    /\ Cached(next, x) <=> Cached(cache, x)
    /\ Cached(cache, x) =>
         /\ BlockAt(next, x).counter =
              BlockAt(cache, x).counter + (IF x = a THEN 1 ELSE 0)
         /\ BlockAt(next, x).MRU <=>
              IF x % m = a % m THEN x = a ELSE BlockAt(cache, x).MRU
         /\ BlockAt(next, x).dirty_bit = BlockAt(cache, x).dirty_bit

LEMMA TouchCounts ==
  ASSUME NEW m \in Nat \ {0}, NEW w \in Nat, NEW cache,
         GoodCache(cache, m, w), NEW a \in Nat, Cached(cache, a),
         config.replace_policy = "LFU"
  PROVE  /\ Reused(cache, Touch(cache, a), a, m)
         /\ Touch(cache, a).last_miss_addr = cache.last_miss_addr
         /\ Touch(cache, a).lost = cache.lost
<1> DEFINE k == a % m
           t == a \div m
           set == cache.sets[k]
           f == Find(set, t)
           clear == ClearMRU(set)
           b == [clear.frames[f] EXCEPT !.MRU = TRUE, !.counter = @ + 1]
           new == [clear EXCEPT !.frames[f] = b]
           next == Touch(cache, a)
<1>1. /\ k \in 0 .. m - 1 /\ Index(cache, a) = k /\ Tag(cache, a) = t
      /\ GoodSet(set, w) /\ Has(set, t)
  <2>1. /\ Index(cache, a) = k /\ Tag(cache, a) = t /\ k \in 0 .. m - 1
        /\ SetOf(cache, a) = set /\ GoodSet(set, w)
    BY Located
  <2> HIDE DEF k, t, set
  <2> QED  BY <2>1 DEF Cached
<1>2. GoodCache(next, m, w)  BY TouchGood
<1>3. next = [cache EXCEPT !.sets[k] = new]
  BY <1>1 DEF Touch, TouchLFU
<1>4. /\ next.sets = [cache.sets EXCEPT ![k] = new]
      /\ next.last_miss_addr = cache.last_miss_addr
      /\ next.lost = cache.lost
  <2> HIDE DEF next, new, k
  <2> QED  BY <1>1, <1>3 DEF GoodCache, CacheRecord
<1>5. /\ next.sets[k] = new
      /\ \A j \in 0 .. m - 1 : j # k => next.sets[j] = cache.sets[j]
  <2> HIDE DEF next, new, k
  <2> QED  BY <1>1, <1>4, CacheFields
<1>6. GoodSet(new, w)
  <2> HIDE DEF next, new, k
  <2> QED  BY <1>1, <1>2, <1>5, CacheFields
<1>7. /\ f \in 1 .. w /\ set.frames[f].tag = t
      /\ set.frames[f].valid_bit
      /\ \A j \in 1 .. w : set.frames[j] \in Block
  BY <1>1, EntryFrame, SetFields DEF Entry, GoodSet
<1>8. /\ \A j \in 1 .. w :
           clear.frames[j] = [set.frames[j] EXCEPT !.MRU = FALSE]
      /\ GoodSet(clear, w)
  BY <1>1, ClearMRUGood
<1>9. \A j \in 1 .. w :
        new.frames[j] = IF j = f THEN b ELSE clear.frames[j]
  <2> HIDE DEF clear, b
  <2> QED  BY <1>8 DEF GoodSet, SetType
<1> HIDE DEF next, new, clear, set, f, t, k
<1>10. \A j \in 1 .. w :
         /\ new.frames[j].valid_bit = set.frames[j].valid_bit
         /\ new.frames[j].tag = set.frames[j].tag
         /\ new.frames[j].counter =
              set.frames[j].counter + (IF j = f THEN 1 ELSE 0)
         /\ new.frames[j].MRU <=> j = f
         /\ new.frames[j].dirty_bit = set.frames[j].dirty_bit
  <2> SUFFICES ASSUME NEW j \in 1 .. w
               PROVE  /\ new.frames[j].valid_bit = set.frames[j].valid_bit
                      /\ new.frames[j].tag = set.frames[j].tag
                      /\ new.frames[j].counter =
                           set.frames[j].counter + (IF j = f THEN 1 ELSE 0)
                      /\ new.frames[j].MRU <=> j = f
                      /\ new.frames[j].dirty_bit = set.frames[j].dirty_bit
    OBVIOUS
  <2>1. clear.frames[j] = [set.frames[j] EXCEPT !.MRU = FALSE]  BY <1>8
  <2>2. set.frames[j] \in Block  BY <1>7
  <2>3. CASE j = f
    <3>1. new.frames[j] =
            [clear.frames[j] EXCEPT !.MRU = TRUE, !.counter = @ + 1]
      BY <1>9, <2>3
    <3>2. clear.frames[j] \in Block  BY <1>8, SetFields DEF GoodSet
    <3>3. /\ clear.frames[j].valid_bit = set.frames[j].valid_bit
          /\ clear.frames[j].tag = set.frames[j].tag
          /\ clear.frames[j].counter = set.frames[j].counter
          /\ clear.frames[j].dirty_bit = set.frames[j].dirty_bit
      BY <2>1, <2>2 DEF Block
    <3> QED  BY <2>3, <3>1, <3>2, <3>3 DEF Block
  <2>4. CASE j # f
    <3>1. new.frames[j] = [set.frames[j] EXCEPT !.MRU = FALSE]
      BY <1>9, <2>1, <2>4
    <3> QED  BY <2>2, <2>4, <3>1 DEF Block
  <2> QED  BY <2>3, <2>4
<1>11. \A x \in Nat :
         /\ Cached(next, x) <=> Cached(cache, x)
         /\ x % m # k => BlockAt(next, x) = BlockAt(cache, x)
         /\ x % m = k /\ Cached(cache, x) =>
              \E j \in 1 .. w : /\ set.frames[j].valid_bit
                                /\ set.frames[j].tag = x \div m
                                /\ BlockAt(cache, x) = set.frames[j]
                                /\ BlockAt(next, x) = new.frames[j]
  <2>1. SetChange(cache, next, k, new, m, w)  BY <1>1, <1>2, <1>5 DEF SetChange
  <2>2. \A j \in 1 .. w :
          /\ new.frames[j].valid_bit = set.frames[j].valid_bit
          /\ new.frames[j].tag = set.frames[j].tag
    BY <1>10
  <2>3. Refreshed(cache, next, k, new, m, w)
    BY <2>1, <2>2, SetRefreshed DEF set
  <2> QED  BY <2>3 DEF Refreshed, set
<1>12. ASSUME NEW x \in Nat, Cached(cache, x)
       PROVE  /\ BlockAt(next, x).counter =
                   BlockAt(cache, x).counter + (IF x = a THEN 1 ELSE 0)
              /\ BlockAt(next, x).MRU <=>
                   IF x % m = a % m THEN x = a ELSE BlockAt(cache, x).MRU
              /\ BlockAt(next, x).dirty_bit = BlockAt(cache, x).dirty_bit
  <2>1. x = a <=> x % m = k /\ x \div m = t
    BY AddressSame DEF k, t
  <2>2. CASE x % m # k
    <3>1. BlockAt(cache, x).counter \in Nat  BY <1>12, BlockType
    <3> QED  BY <1>11, <2>1, <2>2, <3>1 DEF k
  <2>3. CASE x % m = k
    <3>1. PICK j \in 1 .. w : /\ set.frames[j].valid_bit
                              /\ set.frames[j].tag = x \div m
                              /\ BlockAt(cache, x) = set.frames[j]
                              /\ BlockAt(next, x) = new.frames[j]
      BY <1>11, <1>12, <2>3
    <3>2. j = f <=> x = a  BY <1>1, <1>7, <2>1, <2>3, <3>1, EntryIs
    <3> QED  BY <1>10, <2>3, <3>1, <3>2 DEF k
  <2> QED  BY <2>2, <2>3
<1>13. Reused(cache, next, a, m)  BY <1>11, <1>12 DEF Reused
<1> QED  BY <1>4, <1>13 DEF next

(* A hit under LRU gives the frame of the block the value of the clock.    *)
Restamped(cache, next, k, f, m, w) ==
  \E new :
    /\ SetChange(cache, next, k, new, m, w)
    /\ \A j \in 1 .. w :
         /\ new.frames[j].valid_bit = cache.sets[k].frames[j].valid_bit
         /\ new.frames[j].tag = cache.sets[k].frames[j].tag
         /\ new.frames[j].dirty_bit = cache.sets[k].frames[j].dirty_bit
         /\ new.frames[j].time_stamp =
              IF j = f THEN cache.time_stamp
              ELSE cache.sets[k].frames[j].time_stamp

LEMMA TouchStamps ==
  ASSUME NEW m \in Nat \ {0}, NEW w \in Nat, NEW cache,
         GoodCache(cache, m, w), NEW a \in Nat, Cached(cache, a),
         config.replace_policy = "LRU"
  PROVE  /\ Restamped(cache, Touch(cache, a), a % m,
                       Find(cache.sets[a % m], a \div m), m, w)
         /\ Touch(cache, a).last_miss_addr = cache.last_miss_addr
         /\ Touch(cache, a).lost = cache.lost
         /\ Touch(cache, a).time_stamp = cache.time_stamp + 1
<1> DEFINE k == a % m
           t == a \div m
           set == cache.sets[k]
           f == Find(set, t)
           b == [set.frames[f] EXCEPT !.time_stamp = cache.time_stamp]
           new == [set EXCEPT !.frames[f] = b]
           placed == [cache EXCEPT !.sets[k] = new]
           next == Touch(cache, a)
<1>1. /\ k \in 0 .. m - 1 /\ Index(cache, a) = k /\ Tag(cache, a) = t
      /\ GoodSet(set, w) /\ Has(set, t)
  <2>1. /\ Index(cache, a) = k /\ Tag(cache, a) = t /\ k \in 0 .. m - 1
        /\ SetOf(cache, a) = set /\ GoodSet(set, w)
    BY Located
  <2> HIDE DEF k, t, set
  <2> QED  BY <2>1 DEF Cached
<1>2. GoodCache(next, m, w)  BY TouchGood
<1>3. next = [placed EXCEPT !.time_stamp = @ + 1]
  BY <1>1 DEF Touch, TouchLRU, GoodCache, CacheRecord
<1>4. cache \in CacheRecord(m, w) /\ cache.time_stamp \in Nat
  BY CacheFields DEF GoodCache
<1>5. /\ next.sets = [cache.sets EXCEPT ![k] = new]
      /\ next.last_miss_addr = cache.last_miss_addr
      /\ next.lost = cache.lost
      /\ next.time_stamp = cache.time_stamp + 1
  <2> HIDE DEF next, new, k
  <2> QED  BY <1>1, <1>3, <1>4 DEF CacheRecord
<1>6. SetChange(cache, next, k, new, m, w)
  <2> HIDE DEF next, new, k
  <2> QED  BY <1>1, <1>2, <1>5, CacheFields DEF SetChange
<1>7. f \in 1 .. w /\ set.frames[f] \in Block
  BY <1>1, EntryFrame DEF Entry
<1>8. \A j \in 1 .. w :
        new.frames[j] = IF j = f THEN b ELSE set.frames[j]
  BY <1>1 DEF GoodSet, SetType
<1>9. /\ b.tag = set.frames[f].tag
      /\ b.valid_bit = set.frames[f].valid_bit
      /\ b.dirty_bit = set.frames[f].dirty_bit
      /\ b.time_stamp = cache.time_stamp
  BY <1>7 DEF Block
<1> HIDE DEF next, new, b, set, f, t, k
<1>10. \A j \in 1 .. w :
         /\ new.frames[j].valid_bit = set.frames[j].valid_bit
         /\ new.frames[j].tag = set.frames[j].tag
         /\ new.frames[j].dirty_bit = set.frames[j].dirty_bit
         /\ new.frames[j].time_stamp =
              IF j = f THEN cache.time_stamp ELSE set.frames[j].time_stamp
  BY <1>7, <1>8, <1>9
<1>11. Restamped(cache, next, k, f, m, w)  BY <1>6, <1>10 DEF Restamped, set
<1> QED  BY <1>5, <1>11 DEF next, f, k, t, set

(* Under both policies a hit leaves the blocks where they are, and dirty   *)
(* those that were.                                                        *)
SameBlocks(cache, next) ==
  \A x \in Nat :
    /\ Cached(next, x) <=> Cached(cache, x)
    /\ Cached(cache, x) =>
         BlockAt(next, x).dirty_bit = BlockAt(cache, x).dirty_bit

LEMMA TouchKeeps ==
  ASSUME NEW m \in Nat \ {0}, NEW w \in Nat, NEW cache,
         GoodCache(cache, m, w), NEW a \in Nat, Cached(cache, a),
         config.replace_policy \in {"LRU", "LFU"}
  PROVE  /\ SameBlocks(cache, Touch(cache, a))
         /\ Touch(cache, a).last_miss_addr = cache.last_miss_addr
         /\ Touch(cache, a).lost = cache.lost
<1>1. CASE config.replace_policy = "LFU"
  BY <1>1, TouchCounts DEF Reused, SameBlocks
<1>2. CASE config.replace_policy = "LRU"
  <2> DEFINE next == Touch(cache, a)
             k == a % m
             f == Find(cache.sets[k], a \div m)
  <2>1. /\ Restamped(cache, next, k, f, m, w)
        /\ next.last_miss_addr = cache.last_miss_addr
        /\ next.lost = cache.lost
    BY <1>2, TouchStamps
  <2> HIDE DEF next, k, f
  <2>2. PICK new :
          /\ SetChange(cache, next, k, new, m, w)
          /\ \A j \in 1 .. w :
               /\ new.frames[j].valid_bit = cache.sets[k].frames[j].valid_bit
               /\ new.frames[j].tag = cache.sets[k].frames[j].tag
               /\ new.frames[j].dirty_bit = cache.sets[k].frames[j].dirty_bit
    BY <2>1 DEF Restamped
  <2>3. Refreshed(cache, next, k, new, m, w)  BY <2>2, SetRefreshed
  <2>4. SameBlocks(cache, next)
    <3> SUFFICES ASSUME NEW x \in Nat
                 PROVE  /\ Cached(next, x) <=> Cached(cache, x)
                        /\ Cached(cache, x) =>
                             BlockAt(next, x).dirty_bit
                               = BlockAt(cache, x).dirty_bit
      BY DEF SameBlocks
    <3>1. CASE x % m # k  BY <2>3, <3>1 DEF Refreshed
    <3>2. CASE x % m = k  BY <2>2, <2>3, <3>2 DEF Refreshed
    <3> QED  BY <3>1, <3>2
  <2> QED  BY <2>1, <2>4 DEF next
<1> QED  BY <1>1, <1>2

-----------------------------------------------------------------------------
(* A block comes in *)

Cleared(set, mru) == IF mru THEN ClearMRU(set) ELSE set

LEMMA ClearedFrames ==
  ASSUME NEW w \in Nat, NEW set, GoodSet(set, w), NEW mru \in BOOLEAN
  PROVE  /\ GoodSet(Cleared(set, mru), w)
         /\ Cleared(set, mru).valid_block_num = set.valid_block_num
         /\ \A j \in 1 .. w :
              /\ Cleared(set, mru).frames[j].valid_bit = set.frames[j].valid_bit
              /\ Cleared(set, mru).frames[j].tag = set.frames[j].tag
              /\ Cleared(set, mru).frames[j].counter = set.frames[j].counter
              /\ Cleared(set, mru).frames[j].dirty_bit = set.frames[j].dirty_bit
              /\ Cleared(set, mru).frames[j].time_stamp
                   = set.frames[j].time_stamp
              /\ Cleared(set, mru).frames[j].MRU
                   <=> set.frames[j].MRU /\ ~mru
<1>1. CASE ~mru
  <2>1. Cleared(set, mru) = set  BY <1>1 DEF Cleared
  <2>2. \A j \in 1 .. w : set.frames[j].MRU <=> set.frames[j].MRU /\ ~mru
    BY <1>1
  <2> QED  BY <2>1, <2>2
<1>2. CASE mru
  <2> DEFINE new == ClearMRU(set)
  <2>1. Cleared(set, mru) = new  BY <1>2 DEF Cleared
  <2>2. /\ GoodSet(new, w) /\ new.valid_block_num = set.valid_block_num
        /\ \A j \in 1 .. w :
             new.frames[j] = [set.frames[j] EXCEPT !.MRU = FALSE]
    BY ClearMRUGood
  <2> HIDE DEF new
  <2>3. \A j \in 1 .. w : set.frames[j] \in Block  BY SetFields DEF GoodSet
  <2>4. \A j \in 1 .. w :
          /\ new.frames[j].valid_bit = set.frames[j].valid_bit
          /\ new.frames[j].tag = set.frames[j].tag
          /\ new.frames[j].counter = set.frames[j].counter
          /\ new.frames[j].dirty_bit = set.frames[j].dirty_bit
          /\ new.frames[j].time_stamp = set.frames[j].time_stamp
          /\ ~new.frames[j].MRU
    BY <2>2, <2>3 DEF Block
  <2> QED  BY <1>2, <2>1, <2>2, <2>4
<1> QED  BY <1>1, <1>2

(* What the insertion of b into frame i leaves of a set. *)
Inserted(old, new, i, b, mru) ==
  /\ Has(new, b.tag) /\ Entry(new, b.tag) = b
  /\ \A t :
       t # b.tag =>
         /\ Has(new, t) <=> Has(old, t) /\ Find(old, t) # i
         /\ Has(new, t) =>
              /\ Entry(new, t).counter = Entry(old, t).counter
              /\ Entry(new, t).dirty_bit = Entry(old, t).dirty_bit
              /\ Entry(new, t).time_stamp = Entry(old, t).time_stamp
              /\ Entry(new, t).MRU <=> Entry(old, t).MRU /\ ~mru

LEMMA PlaceEntries ==
  ASSUME NEW w \in Nat, NEW old, GoodSet(old, w), NEW i \in 1 .. w,
         NEW b \in Block, b.valid_bit, ~Has(old, b.tag), NEW mru \in BOOLEAN,
         GoodSet(Insert(Cleared(old, mru), i, b), w)
  PROVE  Inserted(old, Insert(Cleared(old, mru), i, b), i, b, mru)
<1> DEFINE set == Cleared(old, mru)
           new == Insert(set, i, b)
<1>1. /\ GoodSet(set, w) /\ GoodSet(new, w)
      /\ \A j \in 1 .. w :
           /\ set.frames[j].valid_bit = old.frames[j].valid_bit
           /\ set.frames[j].tag = old.frames[j].tag
           /\ set.frames[j].counter = old.frames[j].counter
           /\ set.frames[j].dirty_bit = old.frames[j].dirty_bit
           /\ set.frames[j].time_stamp = old.frames[j].time_stamp
           /\ set.frames[j].MRU <=> old.frames[j].MRU /\ ~mru
  BY ClearedFrames
<1> HIDE DEF set
<1>2. \A t : /\ Has(set, t) <=> Has(old, t)
             /\ Has(old, t) => Find(set, t) = Find(old, t)
  BY <1>1, SameTags
<1>3. ~Has(set, b.tag)  BY <1>2
<1>4. /\ Has(new, b.tag) /\ Entry(new, b.tag) = b
      /\ \A t : t # b.tag =>
           /\ Has(new, t) <=> Has(set, t) /\ Find(set, t) # i
           /\ Has(new, t) => Entry(new, t) = Entry(set, t)
  BY <1>1, <1>3, InsertEntries
<1> HIDE DEF new
<1>5. ASSUME NEW t, t # b.tag
      PROVE  /\ Has(new, t) <=> Has(old, t) /\ Find(old, t) # i
             /\ Has(new, t) =>
                  /\ Entry(new, t).counter = Entry(old, t).counter
                  /\ Entry(new, t).dirty_bit = Entry(old, t).dirty_bit
                  /\ Entry(new, t).time_stamp = Entry(old, t).time_stamp
                  /\ Entry(new, t).MRU <=> Entry(old, t).MRU /\ ~mru
  <2>1. Has(new, t) <=> Has(old, t) /\ Find(old, t) # i
    BY <1>2, <1>4, <1>5
  <2>2. ASSUME Has(new, t)
        PROVE  /\ Entry(new, t).counter = Entry(old, t).counter
               /\ Entry(new, t).dirty_bit = Entry(old, t).dirty_bit
               /\ Entry(new, t).time_stamp = Entry(old, t).time_stamp
               /\ Entry(new, t).MRU <=> Entry(old, t).MRU /\ ~mru
    <3>1. Has(old, t) /\ Find(set, t) = Find(old, t)  BY <1>2, <2>1, <2>2
    <3>2. Find(old, t) \in 1 .. w  BY <3>1, EntryFrame
    <3>3. Entry(new, t) = set.frames[Find(old, t)]
      BY <1>4, <1>5, <2>2, <3>1 DEF Entry
    <3>4. Entry(old, t) = old.frames[Find(old, t)]  BY DEF Entry
    <3> QED  BY <1>1, <3>2, <3>3, <3>4
  <2> QED  BY <2>1, <2>2
<1>6. Inserted(old, new, i, b, mru)  BY <1>4, <1>5 DEF Inserted
<1> QED  BY <1>6 DEF new, set

(* The block that gives its frame to a, as a set of none or one. *)
Gone(cache, a) ==
  {GetAddr(cache, SetOf(cache, a).frames[i].tag, Index(cache, a)) :
     i \in {j \in {FrameFor(cache, a)} : SetOf(cache, a).frames[j].valid_bit}}

(* Block a has come in, as b, and what had to go is gone. *)
Placed(cache, next, a, b, mru, m) ==
  /\ BlockAt(next, a) = [b EXCEPT !.MRU = mru]
  /\ \A x \in Nat :
       /\ Cached(next, x)
            <=> x = a \/ (Cached(cache, x) /\ x \notin Gone(cache, a))
       /\ Cached(next, x) /\ x # a =>
            /\ BlockAt(next, x).counter = BlockAt(cache, x).counter
            /\ BlockAt(next, x).dirty_bit = BlockAt(cache, x).dirty_bit
            /\ BlockAt(next, x).time_stamp = BlockAt(cache, x).time_stamp
            /\ BlockAt(next, x).MRU
                 <=> BlockAt(cache, x).MRU /\ ~(mru /\ x % m = a % m)

LEMMA PlacePlaces ==
  ASSUME NEW m \in Nat \ {0}, NEW w \in Nat, NEW cache,
         GoodCache(cache, m, w), NEW a \in Nat, ~Cached(cache, a),
         NEW b \in Block, b.valid_bit, b.tag = Tag(cache, a),
         NEW mru \in BOOLEAN, FrameFor(cache, a) # NoVictim
  PROVE  /\ Placed(cache, Place(cache, a, b, mru), a, b, mru, m)
         /\ Place(cache, a, b, mru).last_miss_addr = cache.last_miss_addr
         /\ Place(cache, a, b, mru).time_stamp = cache.time_stamp
         /\ Place(cache, a, b, mru).lost = cache.lost
<1> DEFINE k == a % m
           t == a \div m
           i == FrameFor(cache, a)
           old == cache.sets[k]
           c == [b EXCEPT !.MRU = mru]
           new == Insert(Cleared(old, mru), i, c)
           next == Place(cache, a, b, mru)
<1>1. /\ k \in 0 .. m - 1 /\ Index(cache, a) = k /\ Tag(cache, a) = t
      /\ t \in Nat
      /\ SetOf(cache, a) = old /\ GoodSet(old, w) /\ ~Has(old, t)
  BY Located DEF Cached
<1>2. GoodCache(next, m, w)  BY PlaceGood
<1>3. i \in 1 .. w
  <2>1. i = InsertAt(old, config.replace_policy)  BY <1>1 DEF FrameFor
  <2> QED  BY <1>1, <2>1, FrameChosen
<1>4. next = [cache EXCEPT !.sets[k] = new]
  BY <1>1 DEF Place, Cleared
<1>5. c \in Block /\ c.valid_bit /\ c.tag = t  BY <1>1 DEF Block
<1>6. /\ next.sets = [cache.sets EXCEPT ![k] = new]
      /\ next.last_miss_addr = cache.last_miss_addr
      /\ next.time_stamp = cache.time_stamp /\ next.lost = cache.lost
  <2> HIDE DEF next, new, k
  <2> QED  BY <1>1, <1>4 DEF GoodCache, CacheRecord
<1>7. SetChange(cache, next, k, new, m, w)
  <2> HIDE DEF next, new, k
  <2> QED  BY <1>1, <1>2, <1>6, CacheFields DEF SetChange
<1>8. Inserted(old, new, i, c, mru)
  <2>1. GoodSet(new, w)
    <3> HIDE DEF next, new, k
    <3>1. GoodSet(next.sets[k], w)  BY <1>1, <1>2, CacheFields
    <3> QED  BY <1>7, <3>1 DEF SetChange
  <2> HIDE DEF c, old, i
  <2> QED  BY <1>1, <1>3, <1>5, <2>1, PlaceEntries
<1>9. Gone(cache, a) = {old.frames[j].tag * m + k :
                          j \in {l \in {i} : old.frames[l].valid_bit}}
  <2>1. SetNum(cache) = m  BY CacheFields
  <2> QED  BY <1>1, <2>1 DEF Gone, GetAddr
<1>10. BlockAt(next, a) = c
  <2>1. InSetOnly(cache, next, k, new, m)  BY <1>7, SetReplaced
  <2>2. BlockAt(next, a) = Entry(new, t)  BY <2>1 DEF InSetOnly
  <2> HIDE DEF new, c
  <2> QED  BY <1>5, <1>8, <2>2 DEF Inserted
<1> HIDE DEF next, new, c, old, i, t, k
<1>11. ASSUME NEW x \in Nat, x % m = k, Has(old, x \div m)
       PROVE  x \in Gone(cache, a) <=> Find(old, x \div m) = i
  <2> DEFINE u == x \div m
  <2>1. /\ Find(old, u) \in 1 .. w /\ old.frames[Find(old, u)].valid_bit
        /\ old.frames[Find(old, u)].tag = u
    BY <1>1, <1>11, EntryFrame DEF Entry
  <2>2. u * m + k = x  BY <1>11, AddressWhole
  <2>3. ASSUME Find(old, u) = i PROVE x \in Gone(cache, a)
    BY <1>9, <2>1, <2>2, <2>3
  <2>4. ASSUME x \in Gone(cache, a) PROVE Find(old, u) = i
    <3>1. old.frames[i].valid_bit /\ x = old.frames[i].tag * m + k
      BY <1>9, <2>4
    <3>2. old.frames[i].tag \in Nat
      BY <1>1, <1>3, SetFields DEF GoodSet, Block
    <3>3. x \div m = old.frames[i].tag  BY <1>1, <3>1, <3>2, AddressParts
    <3> QED  BY <1>1, <1>3, <3>1, <3>3, EntryIs
  <2> QED  BY <2>3, <2>4
<1>12. ASSUME NEW x \in Gone(cache, a)
       PROVE  x % m = k
  <2>1. PICK j \in {l \in {i} : old.frames[l].valid_bit} :
          x = old.frames[j].tag * m + k
    BY <1>9
  <2>2. old.frames[i].tag \in Nat  BY <1>1, <1>3, SetFields DEF GoodSet, Block
  <2> QED  BY <1>1, <2>1, <2>2, AddressParts
<1>13. \A x \in Nat :
         /\ x % m # k => /\ Cached(next, x) <=> Cached(cache, x)
                         /\ BlockAt(next, x) = BlockAt(cache, x)
         /\ x % m = k => /\ Cached(cache, x) <=> Has(old, x \div m)
                         /\ BlockAt(cache, x) = Entry(old, x \div m)
                         /\ Cached(next, x) <=> Has(new, x \div m)
                         /\ BlockAt(next, x) = Entry(new, x \div m)
  BY <1>7, SetReplaced DEF InSetOnly, old
<1>14. ASSUME NEW x \in Nat
       PROVE  /\ Cached(next, x)
                   <=> x = a \/ (Cached(cache, x) /\ x \notin Gone(cache, a))
              /\ Cached(next, x) /\ x # a =>
                   /\ BlockAt(next, x).counter = BlockAt(cache, x).counter
                   /\ BlockAt(next, x).dirty_bit = BlockAt(cache, x).dirty_bit
                   /\ BlockAt(next, x).time_stamp = BlockAt(cache, x).time_stamp
                   /\ BlockAt(next, x).MRU
                        <=> BlockAt(cache, x).MRU /\ ~(mru /\ x % m = a % m)
  <2>1. x = a <=> x % m = k /\ x \div m = t  BY AddressSame DEF k, t
  <2>2. CASE x % m # k  BY <1>12, <1>13, <2>1, <2>2 DEF k
  <2>3. CASE x % m = k
    <3>1. /\ Cached(cache, x) <=> Has(old, x \div m)
          /\ BlockAt(cache, x) = Entry(old, x \div m)
          /\ Cached(next, x) <=> Has(new, x \div m)
          /\ BlockAt(next, x) = Entry(new, x \div m)
      BY <1>13, <2>3
    <3>2. CASE x = a
      <4>1. Has(new, t)  BY <1>5, <1>8 DEF Inserted
      <4> QED  BY <2>1, <3>1, <3>2, <4>1
    <3>3. CASE x # a
      <4> DEFINE u == x \div m
      <4>1. u # c.tag  BY <1>5, <2>1, <2>3, <3>3
      <4>2. /\ Has(new, u) <=> Has(old, u) /\ Find(old, u) # i
            /\ Has(new, u) =>
                 /\ Entry(new, u).counter = Entry(old, u).counter
                 /\ Entry(new, u).dirty_bit = Entry(old, u).dirty_bit
                 /\ Entry(new, u).time_stamp = Entry(old, u).time_stamp
                 /\ Entry(new, u).MRU <=> Entry(old, u).MRU /\ ~mru
        BY <1>8, <4>1 DEF Inserted
      <4>3. Has(old, u) => (x \in Gone(cache, a) <=> Find(old, u) = i)
        BY <1>11, <2>3
      <4>4. x % m = a % m  BY <2>3 DEF k
      <4> QED  BY <3>1, <3>3, <4>2, <4>3, <4>4
    <3> QED  BY <3>2, <3>3
  <2> QED  BY <2>2, <2>3
<1>15. Placed(cache, next, a, b, mru, m)
  BY <1>10, <1>14 DEF Placed, c
<1> QED  BY <1>6, <1>15 DEF next

-----------------------------------------------------------------------------
(* The mapping to FrequencyCache *)

Held(cache, m, k) == {x \in Nat : x % m = k /\ Cached(cache, x)}

LEMMA HeldFrames ==
  ASSUME NEW m \in Nat \ {0}, NEW w \in Nat, NEW cache,
         GoodCache(cache, m, w), NEW k \in 0 .. m - 1
  PROVE  /\ \A i \in ValidFrames(cache.sets[k]) :
              LET x == GetAddr(cache, cache.sets[k].frames[i].tag, k)
              IN  /\ x \in Held(cache, m, k)
                  /\ x \div m = cache.sets[k].frames[i].tag
                  /\ BlockAt(cache, x) = cache.sets[k].frames[i]
         /\ \A x \in Held(cache, m, k) :
              \E i \in ValidFrames(cache.sets[k]) :
                /\ x = GetAddr(cache, cache.sets[k].frames[i].tag, k)
                /\ BlockAt(cache, x) = cache.sets[k].frames[i]
<1> DEFINE set == cache.sets[k]
<1>1. /\ SetNum(cache) = m /\ GoodSet(set, w) /\ Frames(set) = 1 .. w
      /\ \A i \in 1 .. w : set.frames[i] \in Block
  BY CacheFields, SetFields DEF GoodSet
<1> HIDE DEF set
<1>2. ASSUME NEW x \in Nat, x % m = k
      PROVE  /\ Cached(cache, x) <=> Has(set, x \div m)
             /\ BlockAt(cache, x) = Entry(set, x \div m)
  BY <1>2, Located DEF Cached, BlockAt, set
<1>3. ASSUME NEW i \in ValidFrames(set), NEW x,
             x = GetAddr(cache, set.frames[i].tag, k)
      PROVE  /\ x \in Held(cache, m, k) /\ x \div m = set.frames[i].tag
             /\ BlockAt(cache, x) = set.frames[i]
  <2> DEFINE t == set.frames[i].tag
  <2>1. i \in 1 .. w /\ set.frames[i].valid_bit /\ t \in Nat
    BY <1>1 DEF ValidFrames, Block
  <2>2. Has(set, t) /\ Entry(set, t) = set.frames[i]
    BY <1>1, <2>1, EntryIs
  <2>3. x = t * m + k  BY <1>1, <1>3 DEF GetAddr
  <2> HIDE DEF t
  <2>4. x \in Nat /\ x % m = k /\ x \div m = t
    BY <2>1, <2>3, AddressParts
  <2>5. Cached(cache, x) /\ BlockAt(cache, x) = set.frames[i]
    BY <1>2, <2>2, <2>4
  <2> QED  BY <2>4, <2>5 DEF Held, t
<1>4. ASSUME NEW x \in Held(cache, m, k)
      PROVE  \E i \in ValidFrames(set) :
               /\ x = GetAddr(cache, set.frames[i].tag, k)
               /\ BlockAt(cache, x) = set.frames[i]
  <2> DEFINE t == x \div m
             f == Find(set, t)
  <2>1. x \in Nat /\ x % m = k /\ t * m + k = x
    BY AddressWhole DEF Held
  <2>2. Has(set, t) /\ BlockAt(cache, x) = Entry(set, t)
    BY <1>2, <2>1 DEF Held
  <2> HIDE DEF t
  <2>3. f \in ValidFrames(set) /\ set.frames[f].tag = t
    BY <1>1, <2>2, EntryFrame DEF Entry
  <2>4. Entry(set, t) = set.frames[f]  BY DEF Entry
  <2>5. GetAddr(cache, t, k) = t * m + k  BY <1>1 DEF GetAddr
  <2> HIDE DEF f
  <2> QED  BY <2>1, <2>2, <2>3, <2>4, <2>5
<1> QED  BY <1>3, <1>4 DEF set

LEMMA UsesAre ==
  ASSUME NEW m \in Nat \ {0}, NEW w \in Nat, NEW cache,
         GoodCache(cache, m, w)
  PROVE  Uses(cache) =
           [k \in 0 .. m - 1 |->
              [x \in Held(cache, m, k) |-> BlockAt(cache, x).counter]]
<1>1. DOMAIN cache.sets = 0 .. m - 1  BY CacheFields
<1>2. ASSUME NEW k \in 0 .. m - 1
      PROVE  /\ BlocksOf(cache, k, ValidFrames(cache.sets[k]))
                  = Held(cache, m, k)
             /\ \A x \in Held(cache, m, k) :
                  cache.sets[k].frames[Find(cache.sets[k], Tag(cache, x))]
                    = BlockAt(cache, x)
  <2>1. \A i \in ValidFrames(cache.sets[k]) :
          GetAddr(cache, cache.sets[k].frames[i].tag, k) \in Held(cache, m, k)
    BY HeldFrames
  <2>2. \A x \in Held(cache, m, k) :
          \E i \in ValidFrames(cache.sets[k]) :
            x = GetAddr(cache, cache.sets[k].frames[i].tag, k)
    BY HeldFrames
  <2>3. BlocksOf(cache, k, ValidFrames(cache.sets[k])) = Held(cache, m, k)
    BY <2>1, <2>2 DEF BlocksOf
  <2>4. ASSUME NEW x \in Held(cache, m, k)
        PROVE  SetOf(cache, x) = cache.sets[k]
    BY Located DEF Held
  <2> QED  BY <2>3, <2>4 DEF BlockAt, Entry
<1> QED  BY <1>1, <1>2 DEF Uses

LEMMA ProtectedAre ==
  ASSUME NEW m \in Nat \ {0}, NEW w \in Nat, NEW cache,
         GoodCache(cache, m, w)
  PROVE  Protected(cache) =
           [k \in 0 .. m - 1 |->
              {x \in Held(cache, m, k) : BlockAt(cache, x).MRU}]
<1>1. DOMAIN cache.sets = 0 .. m - 1  BY CacheFields
<1>2. ASSUME NEW k \in 0 .. m - 1
      PROVE  BlocksOf(cache, k, {i \in ValidFrames(cache.sets[k]) :
                                   cache.sets[k].frames[i].MRU})
               = {x \in Held(cache, m, k) : BlockAt(cache, x).MRU}
  <2>1. \A i \in ValidFrames(cache.sets[k]) :
          /\ GetAddr(cache, cache.sets[k].frames[i].tag, k)
               \in Held(cache, m, k)
          /\ BlockAt(cache, GetAddr(cache, cache.sets[k].frames[i].tag, k))
               = cache.sets[k].frames[i]
    BY HeldFrames
  <2>2. \A x \in Held(cache, m, k) :
          \E i \in ValidFrames(cache.sets[k]) :
            /\ x = GetAddr(cache, cache.sets[k].frames[i].tag, k)
            /\ BlockAt(cache, x) = cache.sets[k].frames[i]
    BY HeldFrames
  <2> QED  BY <2>1, <2>2 DEF BlocksOf
<1> QED  BY <1>1, <1>2 DEF Protected

(* A cache as FrequencyCache has it, and two things that happen to it:     *)
(* block a is used, or it comes in, counted n times, in place of gone.     *)
View(cache) == [uses |-> Uses(cache), last |-> Protected(cache)]

UsedView(view, a, m) ==
  [uses |-> [view.uses EXCEPT ![a % m] = Frequency!Used(@, a)],
   last |-> [view.last EXCEPT ![a % m] = {a}]]

NewView(view, gone, a, n, protect, m) ==
  [uses |-> [view.uses EXCEPT ![a % m] = Frequency!Counted(@, gone, a, n)],
   last |-> [view.last EXCEPT ![a % m] = IF protect THEN {a} ELSE @]]

LEMMA ReusedMaps ==
  ASSUME NEW m \in Nat \ {0}, NEW w \in Nat, NEW cache, NEW next,
         GoodCache(cache, m, w), GoodCache(next, m, w), NEW a \in Nat,
         Cached(cache, a), Reused(cache, next, a, m)
  PROVE  View(next) = UsedView(View(cache), a, m)
<1> DEFINE u == Uses(cache)  p == Protected(cache)
<1>1. a % m \in 0 .. m - 1  BY AddressWhole
<1>2. /\ u = [k \in 0 .. m - 1 |->
                [x \in Held(cache, m, k) |-> BlockAt(cache, x).counter]]
      /\ p = [k \in 0 .. m - 1 |->
                {x \in Held(cache, m, k) : BlockAt(cache, x).MRU}]
  BY UsesAre, ProtectedAre
<1>3. /\ Uses(next) =
           [k \in 0 .. m - 1 |->
              [x \in Held(next, m, k) |-> BlockAt(next, x).counter]]
      /\ Protected(next) =
           [k \in 0 .. m - 1 |->
              {x \in Held(next, m, k) : BlockAt(next, x).MRU}]
  BY UsesAre, ProtectedAre
<1> HIDE DEF u, p
<1>4. \A k : Held(next, m, k) = Held(cache, m, k)  BY DEF Held, Reused
<1>5. a \in Held(cache, m, a % m)  BY DEF Held
<1>6. \A k : \A x \in Held(cache, m, k) :
        /\ x \in Nat /\ x % m = k
        /\ BlockAt(cache, x).counter \in Nat
        /\ BlockAt(next, x).counter =
             BlockAt(cache, x).counter + (IF x = a THEN 1 ELSE 0)
        /\ BlockAt(next, x).MRU <=>
             IF x % m = a % m THEN x = a ELSE BlockAt(cache, x).MRU
  BY BlockType DEF Held, Reused
<1>7. ASSUME NEW k \in 0 .. m - 1
      PROVE  [x \in Held(next, m, k) |-> BlockAt(next, x).counter]
               = IF k = a % m THEN Frequency!Used(u[k], a) ELSE u[k]
  <2>1. u[k] = [x \in Held(cache, m, k) |-> BlockAt(cache, x).counter]
    BY <1>2
  <2>2. CASE k = a % m
    <3>1. [u[k] EXCEPT ![a] = @ + 1] =
            [x \in Held(cache, m, k) |-> BlockAt(next, x).counter]
      BY <1>5, <1>6, <2>1, <2>2
    <3> QED  BY <1>4, <2>2, <3>1 DEF Frequency!Used
  <2>3. CASE k # a % m
    <3>1. \A x \in Held(cache, m, k) :
            BlockAt(next, x).counter = BlockAt(cache, x).counter
      BY <1>6, <2>3
    <3> QED  BY <1>4, <2>1, <2>3, <3>1
  <2> QED  BY <2>2, <2>3
<1>8. Uses(next) = [u EXCEPT ![a % m] = Frequency!Used(@, a)]
  BY <1>1, <1>2, <1>3, <1>7
<1>9. ASSUME NEW k \in 0 .. m - 1
      PROVE  {x \in Held(next, m, k) : BlockAt(next, x).MRU}
               = IF k = a % m THEN {a} ELSE p[k]
  BY <1>2, <1>4, <1>5, <1>6
<1>10. Protected(next) = [p EXCEPT ![a % m] = {a}]
  BY <1>1, <1>2, <1>3, <1>9
<1> QED  BY <1>8, <1>10 DEF View, UsedView, u, p

(* What goes was in the set of a, and unmarked. *)
GoesUnmarked(cache, a, m) ==
  \A x \in Gone(cache, a) : /\ x \in Nat /\ x % m = a % m
                            /\ Cached(cache, x) /\ ~BlockAt(cache, x).MRU

LEMMA PlacedMaps ==
  ASSUME NEW m \in Nat \ {0}, NEW w \in Nat, NEW cache, NEW next,
         GoodCache(cache, m, w), GoodCache(next, m, w), NEW a \in Nat,
         NEW b \in Block, NEW mru \in BOOLEAN,
         Placed(cache, next, a, b, mru, m), ~Cached(cache, a),
         GoesUnmarked(cache, a, m)
  PROVE  View(next) =
           NewView(View(cache), Gone(cache, a), a, b.counter, mru, m)
<1> DEFINE u == Uses(cache)  p == Protected(cache)  gone == Gone(cache, a)
<1>1. a % m \in 0 .. m - 1  BY AddressWhole
<1>2. /\ u = [k \in 0 .. m - 1 |->
                [x \in Held(cache, m, k) |-> BlockAt(cache, x).counter]]
      /\ p = [k \in 0 .. m - 1 |->
                {x \in Held(cache, m, k) : BlockAt(cache, x).MRU}]
  BY UsesAre, ProtectedAre
<1>3. /\ Uses(next) =
           [k \in 0 .. m - 1 |->
              [x \in Held(next, m, k) |-> BlockAt(next, x).counter]]
      /\ Protected(next) =
           [k \in 0 .. m - 1 |->
              {x \in Held(next, m, k) : BlockAt(next, x).MRU}]
  BY UsesAre, ProtectedAre
<1> HIDE DEF u, p
<1>4. BlockAt(next, a).counter = b.counter /\ (BlockAt(next, a).MRU <=> mru)
  <2>1. BlockAt(next, a) = [b EXCEPT !.MRU = mru]  BY DEF Placed
  <2> QED  BY <2>1 DEF Block
<1>5. \A x \in Nat :
        /\ Cached(next, x) <=> x = a \/ (Cached(cache, x) /\ x \notin gone)
        /\ Cached(next, x) /\ x # a =>
             /\ BlockAt(next, x).counter = BlockAt(cache, x).counter
             /\ BlockAt(next, x).MRU
                  <=> BlockAt(cache, x).MRU /\ ~(mru /\ x % m = a % m)
  BY DEF Placed
<1>6. \A x \in gone : /\ x \in Nat /\ x % m = a % m /\ Cached(cache, x)
                      /\ ~BlockAt(cache, x).MRU
  BY DEF GoesUnmarked
<1> HIDE DEF gone
<1>7. Held(next, m, a % m) = (Held(cache, m, a % m) \ gone) \cup {a}
  BY <1>5 DEF Held
<1>8. \A k : k # a % m => Held(next, m, k) = Held(cache, m, k)
  BY <1>5, <1>6 DEF Held
<1>9. ASSUME NEW k \in 0 .. m - 1
      PROVE  [x \in Held(next, m, k) |-> BlockAt(next, x).counter]
               = IF k = a % m THEN Frequency!Counted(u[k], gone, a, b.counter)
                 ELSE u[k]
  <2>1. u[k] = [x \in Held(cache, m, k) |-> BlockAt(cache, x).counter]
    BY <1>2
  <2>2. CASE k = a % m
    <3>1. \A x \in Held(next, m, k) :
            BlockAt(next, x).counter = IF x = a THEN b.counter ELSE u[k][x]
      BY <1>4, <1>5, <1>7, <2>1, <2>2 DEF Held
    <3>2. Held(next, m, k) = (DOMAIN u[k] \ gone) \cup {a}
      BY <1>7, <2>1, <2>2
    <3> QED  BY <2>2, <3>1, <3>2 DEF Frequency!Counted
  <2>3. CASE k # a % m
    <3>1. \A x \in Held(cache, m, k) :
            BlockAt(next, x).counter = BlockAt(cache, x).counter
      BY <1>5, <1>8, <2>3 DEF Held
    <3> QED  BY <1>8, <2>1, <2>3, <3>1
  <2> QED  BY <2>2, <2>3
<1>10. Uses(next) =
         [u EXCEPT ![a % m] = Frequency!Counted(@, gone, a, b.counter)]
  BY <1>1, <1>2, <1>3, <1>9
<1>11. ASSUME NEW k \in 0 .. m - 1
       PROVE  {x \in Held(next, m, k) : BlockAt(next, x).MRU}
                = IF k = a % m /\ mru THEN {a} ELSE p[k]
  <2>1. p[k] = {x \in Held(cache, m, k) : BlockAt(cache, x).MRU}  BY <1>2
  <2>2. CASE k # a % m  BY <1>5, <1>8, <2>1, <2>2 DEF Held
  <2>3. CASE k = a % m /\ mru  BY <1>4, <1>5, <1>7, <2>1, <2>3 DEF Held
  <2>4. CASE k = a % m /\ ~mru
    <3>1. ~BlockAt(next, a).MRU /\ a \notin p[k]  BY <1>4, <2>1, <2>4 DEF Held
    <3>2. \A x \in Held(cache, m, k) \ gone :
            x # a /\ (BlockAt(next, x).MRU <=> BlockAt(cache, x).MRU)
      BY <1>5, <2>4 DEF Held
    <3> QED  BY <1>6, <1>7, <2>1, <2>4, <3>1, <3>2
  <2> QED  BY <2>2, <2>3, <2>4
<1>12. Protected(next) = [p EXCEPT ![a % m] = IF mru THEN {a} ELSE @]
  BY <1>1, <1>2, <1>3, <1>11
<1> QED  BY <1>10, <1>12 DEF View, NewView, u, p, gone

(* Under LFU a full set of two blocks or more has a victim. *)
Unmarked(set) == {i \in Frames(set) : ~set.frames[i].MRU}

LEMMA LfuVictim ==
  ASSUME NEW w \in Nat, w > 1, NEW set, GoodSet(set, w)
  PROVE  LET v == LFU_Victim_block(set)
         IN  /\ v \in Unmarked(set) /\ v \in 1 .. w
             /\ \A j \in Unmarked(set) :
                  \/ set.frames[v].counter < set.frames[j].counter
                  \/ /\ set.frames[v].counter = set.frames[j].counter
                     /\ set.frames[v].tag <= set.frames[j].tag
<1> DEFINE Least(i) ==
             \A j \in Unmarked(set) :
               \/ set.frames[i].counter < set.frames[j].counter
               \/ /\ set.frames[i].counter = set.frames[j].counter
                  /\ set.frames[i].tag <= set.frames[j].tag
           U == Unmarked(set)
           counts == {set.frames[i].counter : i \in U}
<1>1. /\ Frames(set) = 1 .. w /\ U \subseteq 1 .. w
      /\ \A i \in 1 .. w : /\ set.frames[i].counter \in Nat
                           /\ set.frames[i].tag \in Nat
  BY SetFields DEF GoodSet, Block, Unmarked
<1>2. U # {}
  <2>1. 1 \in 1 .. w /\ 2 \in 1 .. w  OBVIOUS
  <2>2. ~(set.frames[1].MRU /\ set.frames[2].MRU)
    BY <1>1, <2>1 DEF GoodSet, WellShaped
  <2> QED  BY <1>1, <2>1, <2>2 DEF Unmarked
<1>3. PICK c \in counts : \A d \in counts : c <= d
  <2>1. counts \in SUBSET Nat /\ counts # {}  BY <1>1, <1>2
  <2> QED  BY <2>1, LeastExists
<1> DEFINE T == {i \in U : set.frames[i].counter = c}
           tags == {set.frames[i].tag : i \in T}
<1>4. PICK t \in tags : \A d \in tags : t <= d
  <2>1. tags \in SUBSET Nat /\ tags # {}  BY <1>1, <1>3
  <2> QED  BY <2>1, LeastExists
<1>5. PICK i \in T : set.frames[i].tag = t  BY <1>4
<1>6. ASSUME NEW j \in U
      PROVE  \/ set.frames[i].counter < set.frames[j].counter
             \/ /\ set.frames[i].counter = set.frames[j].counter
                /\ set.frames[i].tag <= set.frames[j].tag
  <2>1. c <= set.frames[j].counter /\ set.frames[i].counter = c
    BY <1>3, <1>5
  <2>2. CASE set.frames[j].counter = c
    <3>1. set.frames[j].tag \in tags  BY <2>2
    <3> QED  BY <1>4, <1>5, <2>1, <2>2, <3>1
  <2>3. CASE set.frames[j].counter # c  BY <1>1, <1>3, <2>1, <2>3
  <2> QED  BY <2>2, <2>3
<1>7. i \in U /\ Least(i)  BY <1>5, <1>6
<1> HIDE DEF Least, U
<1>8. LFU_Victim_block(set) =
        IF \E j \in Frames(set) : j \in U /\ Least(j)
        THEN CHOOSE j \in Frames(set) : j \in U /\ Least(j) ELSE NoVictim
  BY DEF LFU_Victim_block, Least, U, Unmarked
<1>9. LFU_Victim_block(set) \in U /\ Least(LFU_Victim_block(set))
  BY <1>1, <1>7, <1>8
<1> QED  BY <1>1, <1>9 DEF Least, U

LEMMA HeldCount ==
  ASSUME NEW m \in Nat \ {0}, NEW w \in Nat, NEW cache,
         GoodCache(cache, m, w), NEW k \in 0 .. m - 1
  PROVE  Cardinality(Held(cache, m, k)) = cache.sets[k].valid_block_num
<1> DEFINE set == cache.sets[k]
           n == set.valid_block_num
           V == ValidFrames(set)
           H == Held(cache, m, k)
           f == [i \in V |-> GetAddr(cache, set.frames[i].tag, k)]
<1>1. GoodSet(set, w) /\ n \in Nat /\ V = 1 .. n
  BY CacheFields, SetFields DEF GoodSet, WellShaped
<1>2. \A i, j \in V : set.frames[i].tag = set.frames[j].tag => i = j
  BY <1>1 DEF GoodSet, WellShaped
<1>3. \A i \in V : /\ GetAddr(cache, set.frames[i].tag, k) \in H
                   /\ GetAddr(cache, set.frames[i].tag, k) \div m
                        = set.frames[i].tag
  BY HeldFrames
<1>4. \A x \in H : \E i \in V : x = GetAddr(cache, set.frames[i].tag, k)
  BY HeldFrames
<1> HIDE DEF H, V
<1>5. f \in [V -> H]  BY <1>3
<1>6. ASSUME NEW i \in V, NEW j \in V, f[i] = f[j] PROVE i = j
  BY <1>2, <1>3, <1>6
<1>7. \A x \in H : \E i \in V : f[i] = x  BY <1>4
<1> HIDE DEF f
<1>8. f \in Bijection(V, H)
  BY <1>5, <1>6, <1>7 DEF Bijection, Injection, Surjection, IsInjective
<1>9. IsFiniteSet(1 .. n) /\ Cardinality(1 .. n) = n
  <2> HIDE DEF n
  <2> QED  BY <1>1, FS_Interval
<1>10. IsFiniteSet(V) /\ Cardinality(V) = n
  <2> HIDE DEF n
  <2> QED  BY <1>1, <1>9
<1>11. ExistsBijection(V, H)  BY <1>8 DEF ExistsBijection
<1>12. Cardinality(H) = n  BY <1>10, <1>11, FS_Bijection
<1> QED  BY <1>12 DEF H

LEMMA FrequencyCardinality == \A S : Frequency!Cardinality(S) = Cardinality(S)
BY DEF Cardinality, Frequency!Cardinality, IsFiniteSet, Frequency!IsFiniteSet

(* The block whose frame the code gives up is the one FrequencyCache lets  *)
(* go, and there always is a frame.                                        *)
LEMMA GoneLeaves ==
  ASSUME NEW m \in Nat \ {0}, NEW w \in Nat, w > 1, NEW cache,
         GoodCache(cache, m, w), NEW a \in Nat, config.replace_policy = "LFU"
  PROVE  /\ FrameFor(cache, a) # NoVictim
         /\ Gone(cache, a) =
              Frequency!Leaving(Uses(cache)[a % m], Protected(cache)[a % m], w)
         /\ GoesUnmarked(cache, a, m)
<1> DEFINE k == a % m
           set == cache.sets[k]
           n == set.valid_block_num
           i == FrameFor(cache, a)
           u == Uses(cache)[k]
           p == Protected(cache)[k]
<1>1. /\ k \in 0 .. m - 1 /\ Index(cache, a) = k
      /\ SetOf(cache, a) = set /\ GoodSet(set, w)
  BY Located
<1>2. /\ Frames(set) = 1 .. w /\ Cardinality(Frames(set)) = w /\ n \in 0 .. w
      /\ ValidFrames(set) = 1 .. n
  BY <1>1, SetFields DEF GoodSet, WellShaped
<1>3. i = InsertAt(set, "LFU")  BY <1>1 DEF FrameFor
<1>4. Gone(cache, a) = {GetAddr(cache, set.frames[j].tag, k) :
                          j \in {l \in {i} : set.frames[l].valid_bit}}
  BY <1>1 DEF Gone
<1>5. /\ u = [x \in Held(cache, m, k) |-> BlockAt(cache, x).counter]
      /\ p = {x \in Held(cache, m, k) : BlockAt(cache, x).MRU}
  BY <1>1, UsesAre, ProtectedAre
<1>6. Cardinality(DOMAIN u) = n  BY <1>1, <1>5, HeldCount
<1>7. /\ \A j \in ValidFrames(set) :
           LET x == GetAddr(cache, set.frames[j].tag, k)
           IN  /\ x \in Held(cache, m, k) /\ x \div m = set.frames[j].tag
               /\ BlockAt(cache, x) = set.frames[j]
      /\ \A x \in Held(cache, m, k) :
           \E j \in ValidFrames(set) :
             /\ x = GetAddr(cache, set.frames[j].tag, k)
             /\ BlockAt(cache, x) = set.frames[j]
  BY <1>1, HeldFrames
<1> HIDE DEF u, p, i, set, k
<1>8. CASE n < w
  <2>1. i = n + 1  BY <1>1, <1>3, <1>8, RoomLeft
  <2>2. i \in 1 .. w /\ i \notin ValidFrames(set)  BY <1>2, <1>8, <2>1
  <2>3. ~set.frames[i].valid_bit  BY <1>2, <2>2 DEF ValidFrames
  <2>4. Gone(cache, a) = {}  BY <1>4, <2>3
  <2>5. Frequency!Leaving(u, p, w) = {}
    <3>1. Cardinality(DOMAIN u) < w  BY <1>6, <1>8
    <3> QED  BY <3>1, FrequencyCardinality DEF Frequency!Leaving
  <2> QED  BY <2>2, <2>4, <2>5 DEF NoVictim, GoesUnmarked, i, u, p, k
<1>9. CASE ~(n < w)
  <2> DEFINE v == GetAddr(cache, set.frames[i].tag, k)
             D == Held(cache, m, k) \ p
             Best(x) == \A y \in D : u[x] < u[y] \/ (u[x] = u[y] /\ x <= y)
  <2>1. i = LFU_Victim_block(set)  BY <1>2, <1>3, <1>9 DEF InsertAt
  <2>2. /\ i \in Unmarked(set) /\ i \in 1 .. w
        /\ \A j \in Unmarked(set) :
             \/ set.frames[i].counter < set.frames[j].counter
             \/ /\ set.frames[i].counter = set.frames[j].counter
                /\ set.frames[i].tag <= set.frames[j].tag
    BY <1>1, <2>1, LfuVictim
  <2>3. i \in ValidFrames(set)  BY <1>2, <1>9, <2>2
  <2>4. /\ v \in Held(cache, m, k) /\ v \div m = set.frames[i].tag
        /\ BlockAt(cache, v) = set.frames[i]
    BY <1>7, <2>3
  <2>5. Gone(cache, a) = {v}  BY <1>4, <2>3 DEF ValidFrames
  <2> HIDE DEF v
  <2>6. v \in D  BY <1>5, <2>2, <2>4 DEF Unmarked
  <2>7. ASSUME NEW y \in D
        PROVE  u[v] < u[y] \/ (u[v] = u[y] /\ v <= y)
    <3>1. PICK j \in ValidFrames(set) :
            /\ y = GetAddr(cache, set.frames[j].tag, k)
            /\ BlockAt(cache, y) = set.frames[j]
      BY <1>7
    <3>2. y \div m = set.frames[j].tag  BY <1>7, <3>1
    <3>3. j \in Unmarked(set)
      BY <1>5, <3>1 DEF Unmarked, ValidFrames
    <3>4. /\ u[v] = set.frames[i].counter /\ u[y] = set.frames[j].counter
      BY <1>5, <2>4, <3>1
    <3>5. v \in Nat /\ y \in Nat /\ v % m = y % m  BY <2>4 DEF Held
    <3>6. v <= y <=> set.frames[i].tag <= set.frames[j].tag
      BY <2>4, <3>2, <3>5, AddressOrder
    <3> QED  BY <2>2, <3>3, <3>4, <3>6
  <2>8. \A x \in D : u[x] \in Nat /\ x \in Nat
    BY <1>5, BlockType DEF Held
  <2> HIDE DEF D
  <2>9. \A x \in D : Best(x) => x = v
    <3> SUFFICES ASSUME NEW x \in D, Best(x) PROVE x = v  OBVIOUS
    <3>1. u[x] < u[v] \/ (u[x] = u[v] /\ x <= v)  BY <2>6
    <3>2. u[v] < u[x] \/ (u[v] = u[x] /\ v <= x)  BY <2>7
    <3> QED  BY <2>6, <2>8, <3>1, <3>2
  <2>10. v = CHOOSE x \in D : Best(x)  BY <2>6, <2>7, <2>9
  <2>11. DOMAIN u \ p = D  BY <1>5 DEF D
  <2>12. Frequency!Victim(u, p) = v
    BY <2>10, <2>11 DEF Frequency!Victim
  <2>13. Frequency!Leaving(u, p, w) = {v}
    <3>1. ~(Cardinality(DOMAIN u) < w)  BY <1>6, <1>9
    <3> QED  BY <2>12, <3>1, FrequencyCardinality DEF Frequency!Leaving
  <2>14. /\ v \in Nat /\ v % m = k /\ Cached(cache, v)
         /\ ~BlockAt(cache, v).MRU
    BY <2>2, <2>4 DEF Held, Unmarked
  <2>15. i # NoVictim  BY <2>2 DEF NoVictim
  <2> QED  BY <2>5, <2>13, <2>14, <2>15 DEF GoesUnmarked, i, u, p, k
<1> QED  BY <1>8, <1>9

(* SetDirty marks block a, and changes nothing else. *)
MarksWell(cache, a, dirty) ==
  /\ Marked(cache, SetDirty(cache, a, dirty), a, dirty)
  /\ SetDirty(cache, a, dirty).last_miss_addr = cache.last_miss_addr
  /\ SetDirty(cache, a, dirty).lost = cache.lost

LEMMA MarksAny ==
  ASSUME NEW m \in Nat \ {0}, NEW w \in Nat, NEW cache,
         GoodCache(cache, m, w), NEW a \in Nat, Cached(cache, a)
  PROVE  \A dirty \in BOOLEAN : MarksWell(cache, a, dirty)
BY SetDirtyMarks DEF MarksWell

LEMMA MarkedMaps ==
  ASSUME NEW m \in Nat \ {0}, NEW w \in Nat, NEW cache, NEW next,
         GoodCache(cache, m, w), GoodCache(next, m, w), NEW a
  PROVE  \A dirty \in BOOLEAN :
           Marked(cache, next, a, dirty) => View(next) = View(cache)
<1> SUFFICES ASSUME NEW dirty \in BOOLEAN, Marked(cache, next, a, dirty)
             PROVE  View(next) = View(cache)
  OBVIOUS
<1>1. \A k : Held(next, m, k) = Held(cache, m, k)  BY DEF Held, Marked
<1>2. \A k : \A x \in Held(cache, m, k) :
        /\ BlockAt(next, x).counter = BlockAt(cache, x).counter
        /\ BlockAt(next, x).MRU = BlockAt(cache, x).MRU
  BY DEF Held, Marked
<1>3. Uses(cache) = [k \in 0 .. m - 1 |->
                       [x \in Held(cache, m, k) |-> BlockAt(cache, x).counter]]
  BY UsesAre
<1>4. Uses(next) = [k \in 0 .. m - 1 |->
                      [x \in Held(next, m, k) |-> BlockAt(next, x).counter]]
  BY UsesAre
<1>5. Protected(cache) =
        [k \in 0 .. m - 1 |-> {x \in Held(cache, m, k) : BlockAt(cache, x).MRU}]
  BY ProtectedAre
<1>6. Protected(next) =
        [k \in 0 .. m - 1 |-> {x \in Held(next, m, k) : BlockAt(next, x).MRU}]
  BY ProtectedAre
<1>7. \A k : [x \in Held(next, m, k) |-> BlockAt(next, x).counter]
               = [x \in Held(cache, m, k) |-> BlockAt(cache, x).counter]
  BY <1>1, <1>2
<1>8. \A k : {x \in Held(next, m, k) : BlockAt(next, x).MRU}
               = {x \in Held(cache, m, k) : BlockAt(cache, x).MRU}
  BY <1>1, <1>2
<1>9. Uses(next) = Uses(cache)  BY <1>3, <1>4, <1>7
<1>10. Protected(next) = Protected(cache)  BY <1>5, <1>6, <1>8
<1> QED  BY <1>9, <1>10 DEF View

LEMMA ViewOfSets ==
  ASSUME NEW cache, NEW next, next.sets = cache.sets
  PROVE  View(next) = View(cache)
BY DEF View, Uses, Protected, BlocksOf, GetAddr, Tag, SetNum

LEMMA InView ==
  ASSUME NEW m \in Nat \ {0}, NEW w \in Nat, NEW cache,
         GoodCache(cache, m, w), NEW a \in Nat
  PROVE  Frequency!In(View(cache).uses[a % m], a) <=> Cached(cache, a)
<1>1. a % m \in 0 .. m - 1  BY AddressWhole
<1>2. Uses(cache) = [k \in 0 .. m - 1 |->
                       [x \in Held(cache, m, k) |-> BlockAt(cache, x).counter]]
  BY UsesAre
<1>3. DOMAIN Uses(cache)[a % m] = Held(cache, m, a % m)  BY <1>1, <1>2
<1> QED  BY <1>3 DEF View, Frequency!In, Held

(* Place puts block b of a in, and changes neither reference nor fate. *)
PlacesWell(cache, a, b, mru, m) ==
  /\ Placed(cache, Place(cache, a, b, mru), a, b, mru, m)
  /\ Place(cache, a, b, mru).last_miss_addr = cache.last_miss_addr
  /\ Place(cache, a, b, mru).lost = cache.lost

LEMMA PlacesAny ==
  ASSUME NEW m \in Nat \ {0}, NEW w \in Nat, NEW cache,
         GoodCache(cache, m, w), NEW a \in Nat, ~Cached(cache, a),
         FrameFor(cache, a) # NoVictim
  PROVE  \A b \in Block : b.valid_bit /\ b.tag = Tag(cache, a) =>
           \A mru \in BOOLEAN : PlacesWell(cache, a, b, mru, m)
BY PlacePlaces DEF PlacesWell

(* What Demand does: a comes in counted once, protected and clean. *)
LEMMA DemandPlaces ==
  ASSUME NEW m \in Nat \ {0}, NEW w \in Nat, NEW cache,
         GoodCache(cache, m, w), NEW a \in Nat, ~Cached(cache, a),
         FrameFor(cache, a) # NoVictim
  PROVE  \E b \in Block :
           /\ Placed(cache, Demand(cache, a), a, b, TRUE, m)
           /\ b.counter = 1 /\ ~b.dirty_bit
           /\ Demand(cache, a).last_miss_addr = cache.last_miss_addr
           /\ Demand(cache, a).lost = cache.lost
<1> DEFINE block == NewBlock(Tag(cache, a), cache.time_stamp)
           b == [block EXCEPT !.counter = 1]
           placed == Place(cache, a, b, TRUE)
           next == Demand(cache, a)
<1>1. Tag(cache, a) \in Nat /\ cache.time_stamp \in Nat
  BY TagType, CacheFields
<1>2. block \in Block /\ block.valid_bit /\ block.tag = Tag(cache, a)
      /\ ~block.dirty_bit
  BY <1>1, NewBlockType DEF NewBlock
<1>3. next = [placed EXCEPT !.time_stamp = @ + 1]  BY DEF Demand
<1> HIDE DEF block, next
<1>4. b \in Block /\ b.valid_bit /\ b.tag = Tag(cache, a)
      /\ b.counter = 1 /\ ~b.dirty_bit
  BY <1>2 DEF Block
<1> HIDE DEF b
<1>5. /\ Placed(cache, placed, a, b, TRUE, m)
      /\ placed.last_miss_addr = cache.last_miss_addr
      /\ placed.lost = cache.lost
  <2>1. \A c \in Block : c.valid_bit /\ c.tag = Tag(cache, a) =>
          \A mru \in BOOLEAN : PlacesWell(cache, a, c, mru, m)
    BY PlacesAny
  <2>2. PlacesWell(cache, a, b, TRUE, m)  BY <1>4, <2>1
  <2> QED  BY <2>2 DEF PlacesWell
<1>6. GoodCache(placed, m, w)  BY <1>4, PlaceGood
<1> HIDE DEF placed
<1>7. /\ next.sets = placed.sets /\ next.lost = placed.lost
      /\ next.last_miss_addr = placed.last_miss_addr
  BY <1>3, <1>6 DEF GoodCache, CacheRecord
<1>8. \A x : /\ Cached(next, x) <=> Cached(placed, x)
             /\ BlockAt(next, x) = BlockAt(placed, x)
  BY <1>7, SameSets
<1>9. Placed(cache, next, a, b, TRUE, m)  BY <1>5, <1>8 DEF Placed
<1> QED  BY <1>4, <1>5, <1>7, <1>9 DEF next

LEMMA PrefetchMissPlaces ==
  ASSUME NEW m \in Nat \ {0}, NEW w \in Nat, NEW cache,
         GoodCache(cache, m, w), NEW a \in Nat, ~Cached(cache, a),
         FrameFor(cache, a) # NoVictim
  PROVE  \E b \in Block :
           /\ Placed(cache, PrefetchMiss(cache, a), a, b,
                     config.insert_policy = "MIP", m)
           /\ b.counter = 0
           /\ PrefetchMiss(cache, a).last_miss_addr = cache.last_miss_addr
           /\ PrefetchMiss(cache, a).lost = cache.lost
<1> DEFINE t == Tag(cache, a)
           stamp == LipStamp(SetOf(cache, a), cache.time_stamp)
           newest == NewBlock(t, cache.time_stamp)
           oldest == NewBlock(t, stamp)
           recent == Place(cache, a, newest, TRUE)
           next == PrefetchMiss(cache, a)
<1>1. t \in Nat /\ cache.time_stamp \in Nat  BY TagType, CacheFields
<1>2. stamp \in Nat
  <2>1. GoodSet(SetOf(cache, a), w)  BY TagType, CacheFields DEF SetOf
  <2> QED  BY <1>1, <2>1, LipStampType
<1>3. next = IF config.insert_policy = "MIP"
             THEN [recent EXCEPT !.time_stamp = @ + 1]
             ELSE Place(cache, a, oldest, FALSE)
  BY DEF PrefetchMiss
<1> HIDE DEF stamp, next
<1>4. /\ newest \in Block /\ newest.valid_bit /\ newest.tag = t
      /\ newest.counter = 0
  BY <1>1, NewBlockType DEF NewBlock
<1>5. /\ oldest \in Block /\ oldest.valid_bit /\ oldest.tag = t
      /\ oldest.counter = 0
  BY <1>1, <1>2, NewBlockType DEF NewBlock
<1>6. \A c \in Block : c.valid_bit /\ c.tag = Tag(cache, a) =>
        \A mru \in BOOLEAN : PlacesWell(cache, a, c, mru, m)
  BY PlacesAny
<1> HIDE DEF newest, oldest
<1>7. CASE config.insert_policy = "MIP"
  <2>1. /\ Placed(cache, recent, a, newest, TRUE, m)
        /\ recent.last_miss_addr = cache.last_miss_addr
        /\ recent.lost = cache.lost
    BY <1>4, <1>6 DEF PlacesWell
  <2>2. GoodCache(recent, m, w)  BY <1>4, PlaceGood
  <2> HIDE DEF recent
  <2>3. /\ next.sets = recent.sets /\ next.lost = recent.lost
        /\ next.last_miss_addr = recent.last_miss_addr
    BY <1>3, <1>7, <2>2 DEF GoodCache, CacheRecord
  <2>4. \A x : /\ Cached(next, x) <=> Cached(recent, x)
               /\ BlockAt(next, x) = BlockAt(recent, x)
    BY <2>3, SameSets
  <2>5. Placed(cache, next, a, newest, TRUE, m)  BY <2>1, <2>4 DEF Placed
  <2>6. (config.insert_policy = "MIP") = TRUE  BY <1>7
  <2> QED  BY <1>4, <2>1, <2>3, <2>5, <2>6 DEF next
<1>8. CASE config.insert_policy # "MIP"
  <2>1. /\ Placed(cache, next, a, oldest, FALSE, m)
        /\ next.last_miss_addr = cache.last_miss_addr
        /\ next.lost = cache.lost
    <3>1. PlacesWell(cache, a, oldest, FALSE, m)  BY <1>5, <1>6
    <3> QED  BY <1>3, <1>8, <3>1 DEF PlacesWell
  <2>2. (config.insert_policy = "MIP") = FALSE  BY <1>8
  <2> QED  BY <1>5, <2>1, <2>2 DEF next
<1> QED  BY <1>7, <1>8

(* The view of a cache that a has come into. *)
Brought(view, a, n, protect, m, w) ==
  NewView(view, Frequency!Leaving(view.uses[a % m], view.last[a % m], w),
          a, n, protect, m)

LEMMA ComesIn ==
  ASSUME NEW m \in Nat \ {0}, NEW w \in Nat, w > 1, NEW cache,
         GoodCache(cache, m, w), NEW a \in Nat, ~Cached(cache, a),
         config.replace_policy = "LFU"
  PROVE  /\ View(Demand(cache, a)) = Brought(View(cache), a, 1, TRUE, m, w)
         /\ View(PrefetchMiss(cache, a)) =
              Brought(View(cache), a, 0, config.insert_policy = "MIP", m, w)
<1>1. /\ Gone(cache, a) =
           Frequency!Leaving(Uses(cache)[a % m], Protected(cache)[a % m], w)
      /\ GoesUnmarked(cache, a, m) /\ FrameFor(cache, a) # NoVictim
  BY GoneLeaves
<1>2. ASSUME NEW next, GoodCache(next, m, w), NEW b \in Block,
             NEW mru \in BOOLEAN, Placed(cache, next, a, b, mru, m)
      PROVE  View(next) = Brought(View(cache), a, b.counter, mru, m, w)
  <2>1. View(next) = NewView(View(cache), Gone(cache, a), a, b.counter, mru, m)
    BY <1>1, <1>2, PlacedMaps
  <2> QED  BY <1>1, <2>1 DEF View, Brought
<1>3. GoodCache(Demand(cache, a), m, w)  BY DemandGood
<1>4. PICK b \in Block :
        /\ Placed(cache, Demand(cache, a), a, b, TRUE, m)
        /\ b.counter = 1 /\ ~b.dirty_bit
        /\ Demand(cache, a).last_miss_addr = cache.last_miss_addr
        /\ Demand(cache, a).lost = cache.lost
  BY <1>1, DemandPlaces
<1>5. View(Demand(cache, a)) = Brought(View(cache), a, 1, TRUE, m, w)
  BY <1>2, <1>3, <1>4
<1>6. GoodCache(PrefetchMiss(cache, a), m, w)  BY PrefetchMissGood
<1>7. PICK c \in Block : /\ Placed(cache, PrefetchMiss(cache, a), a, c,
                                   config.insert_policy = "MIP", m)
                         /\ c.counter = 0
  BY <1>1, PrefetchMissPlaces
<1>8. (config.insert_policy = "MIP") \in BOOLEAN  OBVIOUS
<1>9. View(PrefetchMiss(cache, a)) =
        Brought(View(cache), a, 0, config.insert_policy = "MIP", m, w)
  BY <1>2, <1>6, <1>7, <1>8
<1> QED  BY <1>5, <1>9

-----------------------------------------------------------------------------
(* L2, under LFU with two frames or more in a set *)

LEMMA PowerAboveOne ==
  ASSUME NEW n \in Nat, n > 0
  PROVE  2 ^ n > 1
<1> DEFINE S == SUBSET (1 .. n)
           none == {}
           rest == S \ {none}
<1>1. IsFiniteSet(1 .. n) /\ Cardinality(1 .. n) = n  BY FS_Interval
<1>2. IsFiniteSet(S) /\ Cardinality(S) = 2 ^ n  BY <1>1, FS_SUBSET
<1>3. none \in S /\ {1} \in rest  OBVIOUS
<1> HIDE DEF S, none
<1>4. IsFiniteSet(rest) /\ Cardinality(rest) = Cardinality(S) - 1
  BY <1>2, <1>3, FS_RemoveElement
<1> HIDE DEF rest
<1>5. Cardinality(rest) \in Nat /\ Cardinality(rest) # 0
  BY <1>3, <1>4, FS_CardinalityType, FS_EmptySet
<1>6. 2 ^ n \in Nat  BY PowerPositive
<1> QED  BY <1>2, <1>4, <1>5, <1>6

LEMMA WaysEnough ==
  ASSUME CachesInv, UnderLfu
  PROVE  Ways1 > 1 /\ (~config.l2_disabled => Ways2 > 1)
<1>1. config \in Config /\ ValidConfig(config)
  BY CacheAssumption DEF CachesInv
<1>2. config.s1 \in Nat /\ config.s2 \in Nat /\ config.s1 > 0
  BY <1>1 DEF Config, UnderLfu
<1>3. ~config.l2_disabled => config.s2 > 0  BY <1>1, <1>2 DEF ValidConfig
<1> QED  BY <1>2, <1>3, PowerAboveOne DEF Ways1, Ways2

LEMMA FrequencySizes ==
  /\ Frequency!Sets1 = Sets1 /\ Frequency!Sets2 = Sets2
BY DEF Frequency!Sets1, Frequency!Sets2, Sets1, Sets2

LEMMA UsesTwo ==
  ASSUME CachesInv, UnderLfu, ~config.l2_disabled, NEW cache,
         GoodCache(cache, Sets2, Ways2), NEW a \in Nat, Cached(cache, a)
  PROVE  /\ View(Touch(cache, a)) = Frequency!Use(View(cache), a)
         /\ Touch(cache, a).last_miss_addr = cache.last_miss_addr
         /\ Touch(cache, a).lost = cache.lost
<1> DEFINE next == Touch(cache, a)
<1>1. Sets2 \in Nat \ {0} /\ Ways2 \in Nat /\ config.replace_policy = "LFU"
  BY Sizes DEF CachesInv, UnderLfu
<1>2. GoodCache(next, Sets2, Ways2)  BY <1>1, TouchGood
<1>3. /\ Reused(cache, next, a, Sets2) /\ next.lost = cache.lost
      /\ next.last_miss_addr = cache.last_miss_addr
  BY <1>1, TouchCounts
<1> HIDE DEF next
<1>4. View(next) = UsedView(View(cache), a, Sets2)
  BY <1>1, <1>2, <1>3, ReusedMaps
<1>5. Frequency!In(View(cache).uses[a % Sets2], a)  BY <1>1, InView
<1>6. UsedView(View(cache), a, Sets2) = Frequency!Use(View(cache), a)
  BY <1>5, FrequencySizes DEF UsedView, Frequency!Use
<1> QED  BY <1>3, <1>4, <1>6 DEF next

LEMMA BringsTwo ==
  ASSUME NEW view, NEW a, NEW n, NEW protect \in BOOLEAN
  PROVE  Brought(view, a, n, protect, Sets2, Ways2)
           = Frequency!Bring(view, a, n, protect)
BY FrequencySizes DEF Brought, NewView, Frequency!Bring, Ways2

LEMMA DemandTwo ==
  ASSUME CachesInv, UnderLfu, ~config.l2_disabled, NEW cache,
         GoodCache(cache, Sets2, Ways2), NEW a \in Nat, ~Cached(cache, a)
  PROVE  /\ View(Demand(cache, a)) = Frequency!Bring(View(cache), a, 1, TRUE)
         /\ Demand(cache, a).last_miss_addr = cache.last_miss_addr
         /\ Demand(cache, a).lost = cache.lost
<1>1. Sets2 \in Nat \ {0} /\ Ways2 \in Nat /\ config.replace_policy = "LFU"
      /\ Ways2 > 1
  BY Sizes, WaysEnough DEF CachesInv, UnderLfu
<1>2. View(Demand(cache, a)) = Brought(View(cache), a, 1, TRUE, Sets2, Ways2)
  BY <1>1, ComesIn
<1>3. View(Demand(cache, a)) = Frequency!Bring(View(cache), a, 1, TRUE)
  BY <1>2, BringsTwo
<1>4. \E b \in Block :
        /\ Placed(cache, Demand(cache, a), a, b, TRUE, Sets2)
        /\ b.counter = 1 /\ ~b.dirty_bit
        /\ Demand(cache, a).last_miss_addr = cache.last_miss_addr
        /\ Demand(cache, a).lost = cache.lost
  <2>1. FrameFor(cache, a) # NoVictim  BY <1>1, GoneLeaves
  <2> QED  BY <1>1, <2>1, DemandPlaces
<1> QED  BY <1>3, <1>4

LEMMA PrefetchMissTwo ==
  ASSUME CachesInv, UnderLfu, ~config.l2_disabled, NEW cache,
         GoodCache(cache, Sets2, Ways2), NEW a \in Nat, ~Cached(cache, a)
  PROVE  /\ View(PrefetchMiss(cache, a)) =
              Frequency!Bring(View(cache), a, 0, config.insert_policy = "MIP")
         /\ PrefetchMiss(cache, a).last_miss_addr = cache.last_miss_addr
         /\ PrefetchMiss(cache, a).lost = cache.lost
<1>1. Sets2 \in Nat \ {0} /\ Ways2 \in Nat /\ config.replace_policy = "LFU"
      /\ Ways2 > 1
  BY Sizes, WaysEnough DEF CachesInv, UnderLfu
<1>2. View(PrefetchMiss(cache, a)) =
        Brought(View(cache), a, 0, config.insert_policy = "MIP", Sets2, Ways2)
  BY <1>1, ComesIn
<1>3. Brought(View(cache), a, 0, config.insert_policy = "MIP", Sets2, Ways2)
        = Frequency!Bring(View(cache), a, 0, config.insert_policy = "MIP")
  BY BringsTwo
<1>4. \E b \in Block :
        /\ Placed(cache, PrefetchMiss(cache, a), a, b,
                  config.insert_policy = "MIP", Sets2)
        /\ b.counter = 0
        /\ PrefetchMiss(cache, a).last_miss_addr = cache.last_miss_addr
        /\ PrefetchMiss(cache, a).lost = cache.lost
  <2>1. FrameFor(cache, a) # NoVictim  BY <1>1, GoneLeaves
  <2> QED  BY <1>1, <2>1, PrefetchMissPlaces
<1> QED  BY <1>2, <1>3, <1>4

LEMMA PrefetchTwo ==
  ASSUME CachesInv, UnderLfu, ~config.l2_disabled, NEW cache,
         GoodCache(cache, Sets2, Ways2), NEW a \in Nat, NEW t \in Nat
  PROVE  /\ View(Prefetch(cache, a, t)) =
              IF Cached(cache, t) THEN View(cache)
              ELSE Frequency!Bring(View(cache), t, 0,
                                   config.insert_policy = "MIP")
         /\ Prefetch(cache, a, t).last_miss_addr =
              IF config.strided_prefetch_disabled THEN cache.last_miss_addr
              ELSE a
         /\ Prefetch(cache, a, t).lost = cache.lost
<1> DEFINE noted == IF config.strided_prefetch_disabled THEN cache
                    ELSE [cache EXCEPT !.last_miss_addr = a]
<1>1. Sets2 \in Nat \ {0} /\ Ways2 \in Nat  BY Sizes DEF CachesInv
<1>2. GoodCache(noted, Sets2, Ways2)  BY <1>1, ClockGood
<1>3. /\ noted.sets = cache.sets /\ noted.lost = cache.lost
      /\ noted.last_miss_addr = IF config.strided_prefetch_disabled
                                THEN cache.last_miss_addr ELSE a
  BY DEF GoodCache, CacheRecord
<1>4. Prefetch(cache, a, t) =
        IF Cached(cache, t) THEN noted ELSE PrefetchMiss(noted, t)
  BY DEF Prefetch
<1> HIDE DEF noted
<1>5. Cached(noted, t) <=> Cached(cache, t)  BY <1>3, SameSets
<1>6. View(noted) = View(cache)  BY <1>3, ViewOfSets
<1>7. CASE Cached(cache, t)  BY <1>3, <1>4, <1>6, <1>7
<1>8. CASE ~Cached(cache, t)
  <2>1. /\ View(PrefetchMiss(noted, t)) =
             Frequency!Bring(View(noted), t, 0, config.insert_policy = "MIP")
        /\ PrefetchMiss(noted, t).last_miss_addr = noted.last_miss_addr
        /\ PrefetchMiss(noted, t).lost = noted.lost
    BY <1>2, <1>5, <1>8, PrefetchMissTwo
  <2> QED  BY <1>3, <1>4, <1>6, <1>8, <2>1
<1> QED  BY <1>7, <1>8

LEMMA ReadsTwo ==
  ASSUME CachesInv, UnderLfu, NEW a \in AddrSet
  PROVE  /\ View(L2Read(a)) = Frequency!Read2(View(L2), a)
         /\ L2Read(a).last_miss_addr =
              IF \/ config.l2_disabled \/ config.prefetcher_disabled
                 \/ Cached(L2, a) \/ config.strided_prefetch_disabled
              THEN L2.last_miss_addr ELSE a
         /\ L2Read(a).lost = L2.lost
<1> DEFINE t == PrefetchAddr(L2, a)
           demanded == Demand(L2, a)
           there == View(demanded)
<1>1. /\ Sets2 \in Nat \ {0} /\ Ways2 \in Nat /\ a \in Nat
      /\ GoodCache(L2, Sets2, Ways2) /\ config \in Config
  BY Sizes, AddressType, CacheAssumption DEF CachesInv
<1>2. Frequency!Hit2(a) <=> Cached(L2, a)
  BY <1>1, InView, FrequencySizes DEF Frequency!Hit2, View
<1>3. t \in Nat
  <2>1. t \in 0 .. BLOCKS - 1 /\ BLOCKS \in Nat
    BY <1>1, PrefetchAddrType, AddressType
  <2> QED  BY <2>1
<1>4. t = Frequency!Ahead(a)
  <2>1. L2.last_miss_addr \in Nat  BY <1>1, CacheFields
  <2>2. a + a - L2.last_miss_addr = 2 * a - L2.last_miss_addr  BY <1>1, <2>1
  <2> QED  BY <2>2 DEF PrefetchAddr, Frequency!Ahead
<1>5. CASE config.l2_disabled
  BY <1>5 DEF L2Read, Frequency!Read2
<1>6. CASE ~config.l2_disabled /\ Cached(L2, a)
  <2>1. L2Read(a) = Touch(L2, a)  BY <1>6 DEF L2Read
  <2>2. Frequency!Read2(View(L2), a) = Frequency!Use(View(L2), a)
    BY <1>2, <1>6 DEF Frequency!Read2
  <2> QED  BY <1>1, <1>6, <2>1, <2>2, UsesTwo
<1>7. CASE ~config.l2_disabled /\ ~Cached(L2, a)
  <2>1. /\ View(demanded) = Frequency!Bring(View(L2), a, 1, TRUE)
        /\ demanded.last_miss_addr = L2.last_miss_addr
        /\ demanded.lost = L2.lost
    BY <1>1, <1>7, DemandTwo
  <2>2. GoodCache(demanded, Sets2, Ways2)  BY <1>1, <1>7, DemandGood
  <2>3. Frequency!Read2(View(L2), a)
          = Frequency!BringAhead(Frequency!Bring(View(L2), a, 1, TRUE), a)
    BY <1>2, <1>7 DEF Frequency!Read2
  <2>4. Frequency!Read2(View(L2), a) = Frequency!BringAhead(there, a)
    BY <2>1, <2>3
  <2>5. L2Read(a) = IF config.prefetcher_disabled THEN demanded
                    ELSE Prefetch(demanded, a, t)
    BY <1>7 DEF L2Read
  <2>6. Frequency!In(there.uses[t % Sets2], t) <=> Cached(demanded, t)
    BY <1>1, <1>3, <2>2, InView
  <2> HIDE DEF demanded, t
  <2>7. CASE config.prefetcher_disabled
    <3>1. Frequency!BringAhead(there, a) = there
      BY <2>7 DEF Frequency!BringAhead, Frequency!Prefetches
    <3> QED  BY <2>1, <2>4, <2>5, <2>7, <3>1
  <2>8. CASE ~config.prefetcher_disabled
    <3>1. /\ View(Prefetch(demanded, a, t)) =
               IF Cached(demanded, t) THEN there
               ELSE Frequency!Bring(there, t, 0, config.insert_policy = "MIP")
          /\ Prefetch(demanded, a, t).last_miss_addr =
               IF config.strided_prefetch_disabled
               THEN demanded.last_miss_addr ELSE a
          /\ Prefetch(demanded, a, t).lost = demanded.lost
      BY <1>1, <1>3, <1>7, <2>2, PrefetchTwo
    <3> HIDE DEF there
    <3>2. Frequency!BringAhead(there, a) =
            IF Cached(demanded, t) THEN there
            ELSE Frequency!Bring(there, t, 0, config.insert_policy = "MIP")
      BY <1>4, <2>6, <2>8, FrequencySizes
         DEF Frequency!BringAhead, Frequency!Prefetches
    <3> QED  BY <1>7, <2>1, <2>4, <2>5, <2>8, <3>1, <3>2
  <2> QED  BY <2>7, <2>8
<1> QED  BY <1>5, <1>6, <1>7

LEMMA WritesTwo ==
  ASSUME CachesInv, UnderLfu, NEW cache, GoodCache(cache, Sets2, Ways2),
         NEW a \in Nat
  PROVE  /\ View(L2Write(cache, a)) = Frequency!Use(View(cache), a)
         /\ L2Write(cache, a).last_miss_addr = cache.last_miss_addr
         /\ L2Write(cache, a).lost = cache.lost
<1> DEFINE touched == Touch(cache, a)
           next == SetDirty(touched, a, FALSE)
<1>1. Sets2 \in Nat \ {0} /\ Ways2 \in Nat /\ config.replace_policy = "LFU"
  BY Sizes DEF CachesInv, UnderLfu
<1>2. Frequency!In(View(cache).uses[a % Sets2], a) <=> Cached(cache, a)
  BY <1>1, InView
<1>3. CASE config.l2_disabled \/ ~Cached(cache, a)
  BY <1>2, <1>3, FrequencySizes DEF L2Write, Frequency!Use
<1>4. CASE ~config.l2_disabled /\ Cached(cache, a)
  <2>1. L2Write(cache, a) = next  BY <1>4 DEF L2Write
  <2>2. /\ View(touched) = Frequency!Use(View(cache), a)
        /\ touched.last_miss_addr = cache.last_miss_addr
        /\ touched.lost = cache.lost
    BY <1>4, UsesTwo
  <2>3. GoodCache(touched, Sets2, Ways2)  BY <1>1, TouchGood
  <2>4. Cached(touched, a)  BY <1>1, <1>4, TouchCounts DEF Reused
  <2> HIDE DEF touched
  <2>5. GoodCache(next, Sets2, Ways2)  BY <1>1, <2>3, SetDirtyGood
  <2>6. /\ Marked(touched, next, a, FALSE)
        /\ next.last_miss_addr = touched.last_miss_addr
        /\ next.lost = touched.lost
    BY <1>1, <2>3, <2>4, MarksAny DEF MarksWell
  <2> HIDE DEF next
  <2>7. View(next) = View(touched)
    <3>1. \A dirty \in BOOLEAN :
            Marked(touched, next, a, dirty) => View(next) = View(touched)
      BY <1>1, <2>3, <2>5, MarkedMaps
    <3> QED  BY <2>6, <3>1
  <2> QED  BY <2>1, <2>2, <2>6, <2>7
<1> QED  BY <1>3, <1>4

-----------------------------------------------------------------------------
(* L1 *)

(* The blocks a cache holds dirty. *)
DirtyHeld(cache) ==
  {x \in Nat : Cached(cache, x) /\ BlockAt(cache, x).dirty_bit}

NoStray(cache, m, w) ==
  DirtySpots(cache, m, w) \subseteq ValidSpots(cache, m, w)

HitCache(rw, a) ==
  IF rw = "R" THEN Touch(L1, a) ELSE SetDirty(Touch(L1, a), a, TRUE)

(* A hit of L1 leaves its blocks where they are, and a store makes one     *)
(* dirty.                                                                  *)
LEMMA HitBlocks ==
  ASSUME CachesInv, NEW rw \in {"R", "W"}, NEW a \in AddrSet, Cached(L1, a)
  PROVE  /\ DirtyHeld(HitCache(rw, a)) =
              IF rw = "W" THEN DirtyHeld(L1) \cup {a} ELSE DirtyHeld(L1)
         /\ \A x \in Nat : Cached(HitCache(rw, a), x) <=> Cached(L1, x)
         /\ HitCache(rw, a).lost = L1.lost
<1> DEFINE touched == Touch(L1, a)
           next == SetDirty(touched, a, TRUE)
<1>1. /\ Sets1 \in Nat \ {0} /\ Ways1 \in Nat /\ a \in Nat
      /\ GoodCache(L1, Sets1, Ways1)
      /\ config.replace_policy \in {"LRU", "LFU"}
  BY Sizes, AddressType, CacheAssumption DEF CachesInv, Config
<1>2. GoodCache(touched, Sets1, Ways1)  BY <1>1, TouchGood
<1>3. SameBlocks(L1, touched) /\ touched.lost = L1.lost  BY <1>1, TouchKeeps
<1> HIDE DEF touched
<1>4. /\ \A x \in Nat : Cached(touched, x) <=> Cached(L1, x)
      /\ DirtyHeld(touched) = DirtyHeld(L1)
  BY <1>3 DEF SameBlocks, DirtyHeld
<1>5. CASE rw = "R"
  <2>1. HitCache(rw, a) = touched  BY <1>5 DEF HitCache, touched
  <2> QED  BY <1>3, <1>4, <1>5, <2>1
<1>6. CASE rw = "W"
  <2>1. HitCache(rw, a) = next  BY <1>6 DEF HitCache, touched
  <2>2. \A dirty \in BOOLEAN : MarksWell(touched, a, dirty)
    BY <1>1, <1>2, <1>4, MarksAny
  <2>3. Marked(touched, next, a, TRUE) /\ next.lost = touched.lost
    BY <2>2 DEF MarksWell
  <2> HIDE DEF next
  <2>4. \A x \in Nat :
          /\ Cached(next, x) <=> Cached(touched, x)
          /\ Cached(touched, x) =>
               BlockAt(next, x).dirty_bit =
                 IF x = a THEN TRUE ELSE BlockAt(touched, x).dirty_bit
    BY <2>3 DEF Marked
  <2>5. DirtyHeld(next) = DirtyHeld(touched) \cup {a}
    BY <1>1, <1>4, <2>4 DEF DirtyHeld
  <2> QED  BY <1>3, <1>4, <1>6, <2>1, <2>3, <2>4, <2>5
<1> QED  BY <1>5, <1>6

LEMMA HitView ==
  ASSUME CachesInv, UnderLfu, NEW rw \in {"R", "W"}, NEW a \in AddrSet,
         Cached(L1, a)
  PROVE  View(HitCache(rw, a)) = UsedView(View(L1), a, Sets1)
<1> DEFINE touched == Touch(L1, a)
           next == SetDirty(touched, a, TRUE)
<1>1. /\ Sets1 \in Nat \ {0} /\ Ways1 \in Nat /\ a \in Nat
      /\ GoodCache(L1, Sets1, Ways1) /\ config.replace_policy = "LFU"
  BY Sizes, AddressType DEF CachesInv, UnderLfu
<1>2. GoodCache(touched, Sets1, Ways1)  BY <1>1, TouchGood
<1>3. Reused(L1, touched, a, Sets1)  BY <1>1, TouchCounts
<1> HIDE DEF touched
<1>4. View(touched) = UsedView(View(L1), a, Sets1)
  BY <1>1, <1>2, <1>3, ReusedMaps
<1>5. GoodCache(next, Sets1, Ways1)  BY <1>1, <1>2, SetDirtyGood
<1>6. Cached(touched, a)  BY <1>1, <1>3 DEF Reused
<1>7. \A dirty \in BOOLEAN : MarksWell(touched, a, dirty)
  BY <1>1, <1>2, <1>6, MarksAny
<1>8. Marked(touched, next, a, TRUE)  BY <1>7 DEF MarksWell
<1> HIDE DEF next
<1>9. View(next) = View(touched)
  <2>1. \A dirty \in BOOLEAN :
          Marked(touched, next, a, dirty) => View(next) = View(touched)
    BY <1>1, <1>2, <1>5, MarkedMaps
  <2> QED  BY <1>8, <2>1
<1> QED  BY <1>4, <1>9 DEF HitCache, touched, next

LEMMA HitNoStray ==
  ASSUME CachesInv, NEW rw \in {"R", "W"}, NEW a \in AddrSet,
         Cached(L1, a), NoStray(L1, Sets1, Ways1)
  PROVE  NoStray(HitCache(rw, a), Sets1, Ways1)
<1> DEFINE touched == Touch(L1, a)
           next == SetDirty(touched, a, TRUE)
<1>1. /\ Sets1 \in Nat \ {0} /\ Ways1 \in Nat /\ a \in Nat
      /\ GoodCache(L1, Sets1, Ways1)
      /\ config.replace_policy \in {"LRU", "LFU"}
  BY Sizes, AddressType, CacheAssumption DEF CachesInv, Config
<1>2. GoodCache(touched, Sets1, Ways1)  BY <1>1, TouchGood
<1>3. /\ ValidSpots(touched, Sets1, Ways1) = ValidSpots(L1, Sets1, Ways1)
      /\ DirtySpots(touched, Sets1, Ways1) = DirtySpots(L1, Sets1, Ways1)
  BY <1>1, TouchMarks
<1>4. Cached(touched, a)  BY <1>1, TouchKeeps DEF SameBlocks
<1> HIDE DEF touched
<1>5. /\ ValidSpots(next, Sets1, Ways1) = ValidSpots(touched, Sets1, Ways1)
      /\ DirtySpots(next, Sets1, Ways1) \subseteq
           DirtySpots(touched, Sets1, Ways1)
             \cup ValidSpots(touched, Sets1, Ways1)
  BY <1>1, <1>2, <1>4, DirtyMarks
<1> QED  BY <1>3, <1>5 DEF HitCache, NoStray, touched

MissCache(rw, a) ==
  IF rw = "R" \/ Demand(L1, a).lost THEN Demand(L1, a)
  ELSE SetDirty(Demand(L1, a), a, TRUE)

(* A miss of L1 that finds a frame brings one block in, dirty for a store, *)
(* and what goes is no longer dirty.                                       *)
LEMMA MissBlocks ==
  ASSUME CachesInv, ~L1.lost, NEW rw \in {"R", "W"}, NEW a \in AddrSet,
         ~Cached(L1, a), FrameFor(L1, a) # NoVictim
  PROVE  /\ DirtyHeld(MissCache(rw, a)) =
              (DirtyHeld(L1) \ Gone(L1, a)) \cup (IF rw = "W" THEN {a} ELSE {})
         /\ \A x \in Nat :
              Cached(MissCache(rw, a), x) => x = a \/ Cached(L1, x)
         /\ Cached(MissCache(rw, a), a)
         /\ ~MissCache(rw, a).lost
<1> DEFINE filled == Demand(L1, a)
           next == SetDirty(filled, a, TRUE)
<1>1. /\ Sets1 \in Nat \ {0} /\ Ways1 \in Nat /\ a \in Nat
      /\ GoodCache(L1, Sets1, Ways1)
  BY Sizes, AddressType DEF CachesInv
<1>2. GoodCache(filled, Sets1, Ways1)  BY <1>1, DemandGood
<1>3. PICK b \in Block :
        /\ Placed(L1, Demand(L1, a), a, b, TRUE, Sets1)
        /\ b.counter = 1 /\ ~b.dirty_bit
        /\ Demand(L1, a).last_miss_addr = L1.last_miss_addr
        /\ Demand(L1, a).lost = L1.lost
  BY <1>1, DemandPlaces
<1> HIDE DEF filled
<1>4. ~BlockAt(filled, a).dirty_bit
  <2>1. BlockAt(filled, a) = [b EXCEPT !.MRU = TRUE]
    BY <1>3 DEF Placed, filled
  <2> QED  BY <1>3, <2>1 DEF Block
<1>5. \A x \in Nat :
        /\ Cached(filled, x)
             <=> x = a \/ (Cached(L1, x) /\ x \notin Gone(L1, a))
        /\ Cached(filled, x) /\ x # a =>
             BlockAt(filled, x).dirty_bit = BlockAt(L1, x).dirty_bit
  BY <1>3 DEF Placed, filled
<1>6. DirtyHeld(filled) = DirtyHeld(L1) \ Gone(L1, a)
  BY <1>4, <1>5 DEF DirtyHeld
<1>7. ~filled.lost  BY <1>3 DEF filled
<1>8. CASE rw = "R"
  <2>1. MissCache(rw, a) = filled  BY <1>8 DEF MissCache, filled
  <2> QED  BY <1>1, <1>5, <1>6, <1>7, <1>8, <2>1
<1>9. CASE rw = "W"
  <2>1. MissCache(rw, a) = next  BY <1>7, <1>9 DEF MissCache, filled
  <2>2. \A dirty \in BOOLEAN : MarksWell(filled, a, dirty)
    BY <1>1, <1>2, <1>5, MarksAny
  <2>3. Marked(filled, next, a, TRUE) /\ next.lost = filled.lost
    BY <2>2 DEF MarksWell
  <2> HIDE DEF next
  <2>4. \A x \in Nat :
          /\ Cached(next, x) <=> Cached(filled, x)
          /\ Cached(filled, x) =>
               BlockAt(next, x).dirty_bit =
                 IF x = a THEN TRUE ELSE BlockAt(filled, x).dirty_bit
    BY <2>3 DEF Marked
  <2>5. DirtyHeld(next) = DirtyHeld(filled) \cup {a}
    BY <1>1, <1>5, <2>4 DEF DirtyHeld
  <2>6. ~next.lost  BY <1>7, <2>3
  <2>7. /\ \A x \in Nat : Cached(next, x) => x = a \/ Cached(L1, x)
        /\ Cached(next, a)
    BY <1>1, <1>5, <2>4
  <2> QED  BY <1>6, <1>9, <2>1, <2>5, <2>6, <2>7
<1> QED  BY <1>8, <1>9

LEMMA MissView ==
  ASSUME CachesInv, UnderLfu, NEW rw \in {"R", "W"}, NEW a \in AddrSet,
         ~Cached(L1, a)
  PROVE  View(MissCache(rw, a)) = Brought(View(L1), a, 1, TRUE, Sets1, Ways1)
<1> DEFINE filled == Demand(L1, a)
           next == SetDirty(filled, a, TRUE)
<1>1. /\ Sets1 \in Nat \ {0} /\ Ways1 \in Nat /\ Ways1 > 1 /\ a \in Nat
      /\ GoodCache(L1, Sets1, Ways1) /\ config.replace_policy = "LFU"
  BY Sizes, WaysEnough, AddressType DEF CachesInv, UnderLfu
<1>2. GoodCache(filled, Sets1, Ways1)  BY <1>1, DemandGood
<1>3. View(filled) = Brought(View(L1), a, 1, TRUE, Sets1, Ways1)
  BY <1>1, ComesIn
<1>4. FrameFor(L1, a) # NoVictim  BY <1>1, GoneLeaves
<1>5. Cached(filled, a)
  <2>1. \E b \in Block :
          /\ Placed(L1, Demand(L1, a), a, b, TRUE, Sets1)
          /\ b.counter = 1 /\ ~b.dirty_bit
          /\ Demand(L1, a).last_miss_addr = L1.last_miss_addr
          /\ Demand(L1, a).lost = L1.lost
    BY <1>1, <1>4, DemandPlaces
  <2> QED  BY <1>1, <2>1 DEF Placed
<1> HIDE DEF filled
<1>6. GoodCache(next, Sets1, Ways1)  BY <1>1, <1>2, SetDirtyGood
<1>7. \A dirty \in BOOLEAN : MarksWell(filled, a, dirty)
  BY <1>1, <1>2, <1>5, MarksAny
<1>8. Marked(filled, next, a, TRUE)  BY <1>7 DEF MarksWell
<1> HIDE DEF next
<1>9. View(next) = View(filled)
  <2>1. \A dirty \in BOOLEAN :
          Marked(filled, next, a, dirty) => View(next) = View(filled)
    BY <1>1, <1>2, <1>6, MarkedMaps
  <2> QED  BY <1>8, <2>1
<1> QED  BY <1>3, <1>9 DEF MissCache, filled, next

LEMMA MissNoStray ==
  ASSUME CachesInv, NEW rw \in {"R", "W"}, NEW a \in AddrSet,
         ~Cached(L1, a), FrameFor(L1, a) # NoVictim,
         NoStray(L1, Sets1, Ways1)
  PROVE  NoStray(MissCache(rw, a), Sets1, Ways1)
<1> DEFINE filled == Demand(L1, a)
           next == SetDirty(filled, a, TRUE)
<1>1. /\ Sets1 \in Nat \ {0} /\ Ways1 \in Nat /\ a \in Nat
      /\ GoodCache(L1, Sets1, Ways1)
  BY Sizes, AddressType DEF CachesInv
<1>2. GoodCache(filled, Sets1, Ways1)  BY <1>1, DemandGood
<1>3. /\ ValidSpots(L1, Sets1, Ways1) \subseteq ValidSpots(filled, Sets1, Ways1)
      /\ DirtySpots(filled, Sets1, Ways1) \subseteq DirtySpots(L1, Sets1, Ways1)
  BY <1>1, DemandMarks
<1>4. Cached(filled, a)
  <2>1. \E b \in Block :
          /\ Placed(L1, Demand(L1, a), a, b, TRUE, Sets1)
          /\ b.counter = 1 /\ ~b.dirty_bit
          /\ Demand(L1, a).last_miss_addr = L1.last_miss_addr
          /\ Demand(L1, a).lost = L1.lost
    BY <1>1, DemandPlaces
  <2> QED  BY <1>1, <2>1 DEF Placed
<1> HIDE DEF filled
<1>5. /\ ValidSpots(next, Sets1, Ways1) = ValidSpots(filled, Sets1, Ways1)
      /\ DirtySpots(next, Sets1, Ways1) \subseteq
           DirtySpots(filled, Sets1, Ways1)
             \cup ValidSpots(filled, Sets1, Ways1)
  BY <1>1, <1>2, <1>4, DirtyMarks
<1> QED  BY <1>3, <1>5 DEF MissCache, NoStray, filled

(* What leaves L1 is written back exactly if it is dirty. *)
LEMMA WritesGone ==
  ASSUME CachesInv, NoStray(L1, Sets1, Ways1), NEW a \in AddrSet,
         ~Cached(L1, a), FrameFor(L1, a) # NoVictim
  PROVE  /\ WritesBack(a) <=> Gone(L1, a) \cap DirtyHeld(L1) # {}
         /\ WritesBack(a) => /\ Gone(L1, a) = {VictimAddr(a)}
                             /\ VictimAddr(a) \in DirtyHeld(L1)
<1> DEFINE k == a % Sets1
           set == L1.sets[k]
           i == FrameFor(L1, a)
           v == GetAddr(L1, set.frames[i].tag, k)
<1>1. /\ Sets1 \in Nat \ {0} /\ Ways1 \in Nat /\ a \in Nat
      /\ GoodCache(L1, Sets1, Ways1)
  BY Sizes, AddressType DEF CachesInv
<1>2. /\ k \in 0 .. Sets1 - 1 /\ Index(L1, a) = k /\ SetOf(L1, a) = set
      /\ GoodSet(set, Ways1)
  BY <1>1, Located
<1>3. i \in 1 .. Ways1
  <2>1. i = InsertAt(set, config.replace_policy) /\ i # NoVictim
    BY <1>2 DEF FrameFor
  <2> HIDE DEF set, i
  <2> QED  BY <1>1, <1>2, <2>1, FrameChosen
<1>4. /\ VictimAddr(a) = v
      /\ WritesBack(a) <=> set.frames[i].dirty_bit
      /\ Gone(L1, a) = {GetAddr(L1, set.frames[j].tag, k) :
                          j \in {l \in {i} : set.frames[l].valid_bit}}
  BY <1>2 DEF VictimAddr, WritesBack, Gone
<1> HIDE DEF i
<1>5. set.frames[i].dirty_bit => set.frames[i].valid_bit
  <2>1. /\ <<k, i>> \in Spots(Sets1, Ways1)
        /\ FrameAt(L1, <<k, i>>) = set.frames[i]
    BY <1>2, <1>3 DEF Spots, FrameAt
  <2> QED  BY <2>1 DEF NoStray, DirtySpots, ValidSpots
<1>6. Frames(set) = 1 .. Ways1  BY <1>1, <1>2, SetFields DEF GoodSet
<1>7. CASE set.frames[i].valid_bit
  <2>1. Gone(L1, a) = {v}  BY <1>4, <1>7
  <2>2. i \in ValidFrames(set)  BY <1>3, <1>6, <1>7 DEF ValidFrames
  <2>3. v \in Held(L1, Sets1, k) /\ BlockAt(L1, v) = set.frames[i]
    BY <1>1, <1>2, <2>2, HeldFrames
  <2> HIDE DEF v, set, k
  <2>4. v \in Nat /\ Cached(L1, v)  BY <2>3 DEF Held
  <2>5. v \in DirtyHeld(L1) <=> set.frames[i].dirty_bit
    BY <2>3, <2>4 DEF DirtyHeld
  <2> QED  BY <1>4, <2>1, <2>5
<1>8. CASE ~set.frames[i].valid_bit
  <2>1. Gone(L1, a) = {}  BY <1>4, <1>8
  <2> QED  BY <1>4, <1>5, <1>8, <2>1
<1> QED  BY <1>7, <1>8

-----------------------------------------------------------------------------
(* The refinement *)

InSpace == \A x \in Nat : Cached(L1, x) => x < BLOCKS

(* What FrequencyCache cannot see and the refinement rests on: no search   *)
(* for a victim has failed, no frame without a block is marked dirty (the  *)
(* write-back would invent a block), and L1 holds blocks of the address    *)
(* space only (the blocks among which DirtyBlocks counts).                 *)
FrequencyInv ==
  /\ CachesInv
  /\ UnderLfu => ~Crashed /\ NoStray(L1, Sets1, Ways1) /\ InSpace

Fresh(cache, m, w) == cache.sets = [k \in 0 .. m - 1 |-> NewSet(w)]

LEMMA FreshCache ==
  ASSUME NEW m \in Nat \ {0}, NEW w \in Nat, NEW cache, GoodCache(cache, m, w),
         Fresh(cache, m, w)
  PROVE  /\ Uses(cache) = [k \in 0 .. m - 1 |-> <<>>]
         /\ Protected(cache) = [k \in 0 .. m - 1 |-> {}]
         /\ \A x \in Nat : ~Cached(cache, x)
         /\ NoStray(cache, m, w)
<1>1. /\ \A k \in 0 .. m - 1 : cache.sets[k] = NewSet(w)
      /\ \A i \in 1 .. w : NewSet(w).frames[i] = EmptyBlock
  BY DEF NewSet, Fresh
<1>2. ~EmptyBlock.valid_bit /\ ~EmptyBlock.dirty_bit
  BY DEF EmptyBlock, NewBlock
<1>3. Frames(NewSet(w)) = 1 .. w  BY DEF NewSet, Frames
<1>4. ASSUME NEW x \in Nat PROVE ~Cached(cache, x)
  <2>1. SetOf(cache, x) = NewSet(w)
    <3>1. SetOf(cache, x) = cache.sets[x % m]  BY Located
    <3>2. x % m \in 0 .. m - 1  BY AddressWhole
    <3> QED  BY <1>1, <3>1, <3>2
  <2>2. ~Has(NewSet(w), Tag(cache, x))  BY <1>1, <1>2, <1>3 DEF Has
  <2> QED  BY <2>1, <2>2 DEF Cached
<1>5. \A k : Held(cache, m, k) = {}  BY <1>4 DEF Held
<1>6. /\ Uses(cache) = [k \in 0 .. m - 1 |->
                          [x \in Held(cache, m, k) |->
                             BlockAt(cache, x).counter]]
      /\ Protected(cache) = [k \in 0 .. m - 1 |->
                               {x \in Held(cache, m, k) :
                                  BlockAt(cache, x).MRU}]
  BY UsesAre, ProtectedAre
<1>7. \A k : [x \in Held(cache, m, k) |-> BlockAt(cache, x).counter] = <<>>
  BY <1>5
<1>8. \A k : {x \in Held(cache, m, k) : BlockAt(cache, x).MRU} = {}
  BY <1>5
<1>9. NoStray(cache, m, w)
  BY <1>1, <1>2 DEF NoStray, DirtySpots, Spots, FrameAt
<1> QED  BY <1>4, <1>6, <1>7, <1>8, <1>9

LEMMA InitNothing ==
  ASSUME Init
  PROVE  FrequencyInv /\ Frequency!FrequencyInit
<1>1. CachesInv  BY CachesInit
<1>2. /\ GoodCache(L1, Sets1, Ways1) /\ GoodCache(L2, Sets2, Ways2)
      /\ Sets1 \in Nat \ {0} /\ Ways1 \in Nat
      /\ Sets2 \in Nat \ {0} /\ Ways2 \in Nat
  BY <1>1, Sizes DEF CachesInv
<1>3. Fresh(L1, Sets1, Ways1) /\ ~L1.lost /\ L1.last_miss_addr = 0
  BY DEF Init, NewCache, Sets1, Ways1, Fresh
<1>4. Fresh(L2, Sets2, Ways2) /\ ~L2.lost /\ L2.last_miss_addr = 0
  BY DEF Init, NewCache, Sets2, Ways2, Fresh
<1>5. /\ Uses(L1) = [k \in 0 .. Sets1 - 1 |-> <<>>]
      /\ Protected(L1) = [k \in 0 .. Sets1 - 1 |-> {}]
      /\ \A x \in Nat : ~Cached(L1, x)
      /\ NoStray(L1, Sets1, Ways1)
  BY <1>2, <1>3, FreshCache
<1>6. /\ Uses(L2) = [k \in 0 .. Sets2 - 1 |-> <<>>]
      /\ Protected(L2) = [k \in 0 .. Sets2 - 1 |-> {}]
      /\ \A x \in Nat : ~Cached(L2, x)
      /\ NoStray(L2, Sets2, Ways2)
  BY <1>2, <1>4, FreshCache
<1>7. FrequencyInv  BY <1>1, <1>3, <1>4, <1>5 DEF FrequencyInv, Crashed, InSpace
<1>8. DirtyBlocks = {}
  <2>1. \A x \in 0 .. BLOCKS - 1 : x \in Nat  BY CacheAssumption
  <2> QED  BY <1>5, <2>1 DEF DirtyBlocks, Contents
<1>9. config \in ConfigSet  BY DEF Init
<1>10. Frequency!FrequencyInit
  BY <1>4, <1>5, <1>6, <1>8, <1>9, FrequencySizes DEF Frequency!FrequencyInit
<1> QED  BY <1>7, <1>10

LEMMA DirtyBlocksAre ==
  ASSUME InSpace
  PROVE  DirtyBlocks = DirtyHeld(L1)
<1>1. \A x : x \in 0 .. BLOCKS - 1 <=> x \in Nat /\ x < BLOCKS
  BY CacheAssumption
<1>2. \A x :
        SetOf(L1, x).frames[Find(SetOf(L1, x), Tag(L1, x))] = BlockAt(L1, x)
  BY DEF BlockAt, Entry
<1> QED  BY <1>1, <1>2 DEF InSpace, DirtyBlocks, DirtyHeld, Contents

LEMMA DirtyBlocksThen ==
  ASSUME InSpace'
  PROVE  DirtyBlocks' = DirtyHeld(L1')
<1>1. \A x : x \in 0 .. BLOCKS - 1 <=> x \in Nat /\ x < BLOCKS
  BY CacheAssumption
<1>2. \A x : SetOf(L1', x).frames[Find(SetOf(L1', x), Tag(L1', x))]
               = BlockAt(L1', x)
  BY DEF BlockAt, Entry
<1> QED  BY <1>1, <1>2 DEF InSpace, DirtyBlocks, DirtyHeld, Contents

LEMMA HitStep ==
  ASSUME FrequencyInv, UnderLfu, NEW rw \in {"R", "W"}, NEW a \in AddrSet,
         L1Hit(rw, a)
  PROVE  /\ Frequency!Reuse(rw, a)
         /\ ~Crashed' /\ NoStray(L1', Sets1, Ways1) /\ InSpace'
<1>1. /\ CachesInv /\ ~Crashed /\ NoStray(L1, Sets1, Ways1) /\ InSpace
      /\ Cached(L1, a) /\ UNCHANGED <<config, L2>>
  BY DEF FrequencyInv, L1Hit
<1>2. L1' = HitCache(rw, a)  BY DEF L1Hit, HitCache
<1>3. View(L1') = UsedView(View(L1), a, Sets1)  BY <1>1, <1>2, HitView
<1>4. /\ DirtyHeld(L1') =
           IF rw = "W" THEN DirtyHeld(L1) \cup {a} ELSE DirtyHeld(L1)
      /\ \A x \in Nat : Cached(L1', x) <=> Cached(L1, x)
      /\ L1'.lost = L1.lost
  BY <1>1, <1>2, HitBlocks
<1>5. NoStray(L1', Sets1, Ways1)  BY <1>1, <1>2, HitNoStray
<1>6. InSpace'  BY <1>1, <1>4 DEF InSpace
<1>7. ~Crashed'  BY <1>1, <1>4 DEF Crashed
<1>8. /\ Uses(L1') = [Uses(L1) EXCEPT ![a % Sets1] = Frequency!Used(@, a)]
      /\ Protected(L1') = [Protected(L1) EXCEPT ![a % Sets1] = {a}]
  BY <1>3 DEF View, UsedView
<1>9. Frequency!In(Uses(L1)[a % Sets1], a)
  <2>1. /\ Sets1 \in Nat \ {0} /\ Ways1 \in Nat /\ a \in Nat
        /\ GoodCache(L1, Sets1, Ways1)
    BY <1>1, Sizes, AddressType DEF CachesInv
  <2> QED  BY <1>1, <2>1, InView DEF View
<1>10. DirtyBlocks = DirtyHeld(L1)  BY <1>1, DirtyBlocksAre
<1>11. DirtyBlocks' = DirtyHeld(L1')  BY <1>6, DirtyBlocksThen
<1>12. UNCHANGED <<Uses(L2), Protected(L2), L2.last_miss_addr>>  BY <1>1
<1> QED
  BY <1>1, <1>4, <1>5, <1>6, <1>7, <1>8, <1>9, <1>10, <1>11, <1>12,
     FrequencySizes
     DEF Frequency!Reuse

LEMMA MissStep ==
  ASSUME FrequencyInv, UnderLfu, NEW rw \in {"R", "W"}, NEW a \in AddrSet,
         L1Miss(rw, a)
  PROVE  /\ Frequency!Fill(rw, a)
         /\ ~Crashed' /\ NoStray(L1', Sets1, Ways1) /\ InSpace'
<1> DEFINE k == a % Sets1
           gone == Gone(L1, a)
           read == Frequency!Read2(View(L2), a)
           done == IF gone \cap DirtyBlocks = {} THEN read
                   ELSE Frequency!Use(read, CHOOSE v \in gone : TRUE)
<1>1. /\ CachesInv /\ ~L1.lost /\ ~L2.lost /\ InSpace
      /\ NoStray(L1, Sets1, Ways1) /\ ~Cached(L1, a) /\ config' = config
  BY DEF FrequencyInv, L1Miss, Crashed
<1>2. /\ Sets1 \in Nat \ {0} /\ Ways1 \in Nat
      /\ Sets2 \in Nat \ {0} /\ Ways2 \in Nat /\ a \in Nat
      /\ GoodCache(L1, Sets1, Ways1) /\ GoodCache(L2, Sets2, Ways2)
  BY <1>1, Sizes, AddressType DEF CachesInv
<1>3. L1' = MissCache(rw, a)  BY DEF L1Miss, MissCache
<1>4. View(L1') = Brought(View(L1), a, 1, TRUE, Sets1, Ways1)
  BY <1>1, <1>3, MissView
<1>5. /\ gone = Frequency!Leaving(Uses(L1)[k], Protected(L1)[k], Ways1)
      /\ FrameFor(L1, a) # NoVictim
  <2>1. Ways1 > 1 /\ config.replace_policy = "LFU"
    BY <1>1, WaysEnough DEF UnderLfu
  <2> QED  BY <1>2, <2>1, GoneLeaves
<1>6. /\ DirtyHeld(L1') =
           (DirtyHeld(L1) \ gone) \cup (IF rw = "W" THEN {a} ELSE {})
      /\ \A x \in Nat : Cached(L1', x) => x = a \/ Cached(L1, x)
      /\ ~L1'.lost
  BY <1>1, <1>3, <1>5, MissBlocks
<1>7. NoStray(L1', Sets1, Ways1)  BY <1>1, <1>3, <1>5, MissNoStray
<1>8. InSpace'  BY <1>1, <1>6, AddressType DEF InSpace
<1>9. /\ gone = Frequency!Leaving(Uses(L1)[k], Protected(L1)[k], Ways1)
      /\ WritesBack(a) <=> gone \cap DirtyHeld(L1) # {}
      /\ WritesBack(a) => gone = {VictimAddr(a)} /\ VictimAddr(a) \in Nat
  BY <1>1, <1>5, WritesGone DEF DirtyHeld
<1>10. DirtyBlocks = DirtyHeld(L1)  BY <1>1, DirtyBlocksAre
<1>11. DirtyBlocks' = DirtyHeld(L1')  BY <1>8, DirtyBlocksThen
<1>12. ~Frequency!In(Uses(L1)[k], a)  BY <1>1, <1>2, InView DEF View
<1>13. Frequency!Hit2(a) <=> Cached(L2, a)
  BY <1>2, InView, FrequencySizes DEF Frequency!Hit2, View
<1>14. /\ Uses(L1') = [Uses(L1) EXCEPT ![k] = Frequency!Counted(@, gone, a, 1)]
       /\ Protected(L1') = [Protected(L1) EXCEPT ![k] = {a}]
  <2>1. View(L1') = NewView(View(L1), gone, a, 1, TRUE, Sets1)
    BY <1>4, <1>9 DEF Brought, View
  <2> HIDE DEF gone
  <2> QED  BY <2>1 DEF NewView, View
<1>15. /\ View(L2Read(a)) = read
       /\ L2Read(a).last_miss_addr =
            IF \/ config.l2_disabled \/ config.prefetcher_disabled
               \/ Cached(L2, a) \/ config.strided_prefetch_disabled
            THEN L2.last_miss_addr ELSE a
       /\ L2Read(a).lost = L2.lost
       /\ GoodCache(L2Read(a), Sets2, Ways2)
  BY <1>1, ReadsTwo, L2ReadGood
<1>16. /\ View(L2') = done /\ ~L2'.lost
       /\ L2'.last_miss_addr = L2Read(a).last_miss_addr
  <2> HIDE DEF gone, read
  <2>1. CASE ~WritesBack(a)
    <3>1. L2' = L2Read(a)  BY <2>1 DEF L1Miss
    <3>2. done = read  BY <1>9, <1>10, <2>1
    <3> QED  BY <1>1, <1>15, <3>1, <3>2
  <2>2. CASE WritesBack(a)
    <3> DEFINE v == VictimAddr(a)
    <3>1. L2' = L2Write(L2Read(a), v)  BY <2>2 DEF L1Miss
    <3>2. v \in Nat /\ gone = {v}  BY <1>9, <2>2
    <3> HIDE DEF v
    <3>3. (CHOOSE x \in gone : TRUE) = v  BY <3>2
    <3>4. done = Frequency!Use(read, v)  BY <1>9, <1>10, <2>2, <3>3
    <3>5. /\ View(L2Write(L2Read(a), v)) = Frequency!Use(View(L2Read(a)), v)
          /\ L2Write(L2Read(a), v).last_miss_addr = L2Read(a).last_miss_addr
          /\ L2Write(L2Read(a), v).lost = L2Read(a).lost
      BY <1>1, <1>15, <3>2, WritesTwo
    <3> QED  BY <1>1, <1>15, <3>1, <3>4, <3>5
  <2> QED  BY <2>1, <2>2
<1>17. ~Crashed'  BY <1>6, <1>16 DEF Crashed
<1>18. L2'.last_miss_addr =
         IF \/ config.l2_disabled \/ ~Frequency!Prefetches
            \/ Frequency!Hit2(a) \/ config.strided_prefetch_disabled
         THEN L2.last_miss_addr ELSE a
  BY <1>13, <1>15, <1>16 DEF Frequency!Prefetches
<1>19. Uses(L2') = done.uses /\ Protected(L2') = done.last
  <2> HIDE DEF done
  <2> QED  BY <1>16 DEF View
<1>20. Frequency!Fill(rw, a)
  <2>1. gone = Frequency!Leaving(Uses(L1)[k], Protected(L1)[k], 2 ^ config.s1)
    BY <1>9 DEF Ways1
  <2>2. done = IF gone \cap DirtyBlocks = {}
               THEN Frequency!Read2([uses |-> Uses(L2),
                                     last |-> Protected(L2)], a)
               ELSE Frequency!Use(
                      Frequency!Read2([uses |-> Uses(L2),
                                       last |-> Protected(L2)], a),
                      CHOOSE v \in gone : TRUE)
    BY DEF View
  <2>3. DirtyBlocks' = (DirtyBlocks \ gone) \cup (IF rw = "W" THEN {a} ELSE {})
    BY <1>6, <1>10, <1>11
  <2> HIDE DEF gone, done
  <2> QED
    BY <1>1, <1>12, <1>14, <1>18, <1>19, <2>1, <2>2, <2>3, FrequencySizes
       DEF Frequency!Fill
<1> QED  BY <1>7, <1>8, <1>17, <1>20

LEMMA FrequencyInvStep ==
  ASSUME FrequencyInv, [Next]_vars
  PROVE  FrequencyInv'
<1>1. CachesInv'  BY CachesStep DEF FrequencyInv
<1>2. config' = config
  BY DEF Next, Access, L1Hit, L1Miss, vars
<1>3. (UnderLfu' <=> UnderLfu) /\ Sets1' = Sets1 /\ Ways1' = Ways1
  BY <1>2 DEF UnderLfu, Sets1, Ways1
<1>4. ASSUME UnderLfu
      PROVE  ~Crashed' /\ NoStray(L1', Sets1, Ways1) /\ InSpace'
  <2>1. CASE UNCHANGED vars
    <3>1. ~Crashed /\ NoStray(L1, Sets1, Ways1) /\ InSpace
      BY <1>4 DEF FrequencyInv
    <3>2. L1' = L1 /\ L2' = L2  BY <2>1 DEF vars
    <3> QED  BY <3>1, <3>2 DEF Crashed, InSpace
  <2>2. CASE Next
    <3>1. PICK rw \in {"R", "W"}, a \in AddrSet : Access(rw, a)
      BY <2>2 DEF Next
    <3> QED  BY <1>4, <3>1, HitStep, MissStep DEF Access
  <2> QED  BY <2>1, <2>2
<1> QED  BY <1>1, <1>3, <1>4 DEF FrequencyInv

LEMMA FrequencyStep ==
  ASSUME FrequencyInv, [Next]_vars, UnderLfu
  PROVE  [Frequency!FrequencyNext]_(Frequency!frequencyVars)
<1>1. CASE UNCHANGED vars
  <2>1. config' = config /\ L1' = L1 /\ L2' = L2  BY <1>1 DEF vars
  <2>2. UNCHANGED <<Uses(L1), Uses(L2), Protected(L1), Protected(L2),
                    L2.last_miss_addr>>
    BY <2>1
  <2>3. DirtyBlocks' = DirtyBlocks
    BY <2>1 DEF DirtyBlocks, Contents
  <2> QED  BY <2>1, <2>2, <2>3 DEF Frequency!frequencyVars
<1>2. CASE Next
  <2>1. PICK rw \in {"R", "W"}, a \in AddrSet : Access(rw, a)
    BY <1>2 DEF Next
  <2>2. Frequency!Reuse(rw, a) \/ Frequency!Fill(rw, a)
    BY <2>1, HitStep, MissStep DEF Access
  <2> QED  BY <2>2 DEF Frequency!FrequencyNext
<1> QED  BY <1>1, <1>2

(* The invariant of the refinement.  A cold set is filled frame by frame,  *)
(* so its dirty bits and its MRU mark belong to blocks; a full set of at   *)
(* least two frames has one that is not the last used.                     *)
THEOREM FrequencyInvariant == Spec => []FrequencyInv
<1>1. Init => FrequencyInv  BY InitNothing
<1>2. FrequencyInv /\ [Next]_vars => FrequencyInv'  BY FrequencyInvStep
<1> QED  BY <1>1, <1>2, PTL DEF Spec

(* Under LFU replacement with more than one frame in a set, the two-level  *)
(* cache is FrequencyCache: which blocks are in L1 and in L2, how often    *)
(* each was used, which one is protected and which of L1 are dirty, after  *)
(* every sequence of loads and stores, with the prefetches and write-backs *)
(* they cause.                                                             *)
THEOREM CacheImplementsFrequency == Spec => ImplementsFrequency
<1>1. Init => Frequency!FrequencyInit  BY InitNothing
<1>2. FrequencyInv /\ [Next]_vars =>
        [UnderLfu => [Frequency!FrequencyNext]_(Frequency!frequencyVars)]_vars
  BY FrequencyStep
<1> QED  BY <1>1, <1>2, FrequencyInvariant, PTL DEF Spec, ImplementsFrequency

(* Under LFU replacement with more than one frame in a set, a set that is  *)
(* full has a block to give up: "No block can victim! Wrong!" of           *)
(* Set::LFU_Victim_block is never reached.                                 *)
THEOREM LfuFindsVictim == Spec => [](UnderLfu => VictimFound)
<1>1. FrequencyInv => (UnderLfu => VictimFound)
  BY DEF FrequencyInv, VictimFound
<1> QED  BY <1>1, FrequencyInvariant, PTL

-----------------------------------------------------------------------------
(* The frames of a set in the order of use, the last used first *)

Younger(set, i) == {j \in ValidFrames(set) : Later(set, j, i)}

Rank(set, i) == 1 + Cardinality(Younger(set, i))

Order(set) ==
  [r \in 1 .. Cardinality(ValidFrames(set)) |->
     CHOOSE j \in ValidFrames(set) : Rank(set, j) = r]

(* A list of the n frames of V, each used later than those behind it. *)
Sorted(set, p, n) ==
  /\ p \in [1 .. n -> ValidFrames(set)]
  /\ \A r, s \in 1 .. n : r < s => Later(set, p[r], p[s])
  /\ \A i \in ValidFrames(set) : \E r \in 1 .. n : p[r] = i

LEMMA LaterOrder ==
  ASSUME NEW w \in Nat, NEW set, GoodSet(set, w),
         NEW i \in 1 .. w, NEW j \in 1 .. w
  PROVE  /\ ~Later(set, i, i)
         /\ Later(set, i, j) => ~Later(set, j, i)
         /\ i # j => Later(set, i, j) \/ Later(set, j, i)
         /\ \A h \in 1 .. w :
              Later(set, i, j) /\ Later(set, j, h) => Later(set, i, h)
<1>1. \A h \in 1 .. w : set.frames[h].time_stamp \in Nat
  BY SetFields DEF GoodSet, Block
<1> QED  BY <1>1 DEF Later

LEMMA ValidCount ==
  ASSUME NEW w \in Nat, NEW set, GoodSet(set, w)
  PROVE  /\ set.valid_block_num \in 0 .. w
         /\ ValidFrames(set) = 1 .. set.valid_block_num
         /\ ValidFrames(set) \subseteq 1 .. w
         /\ IsFiniteSet(ValidFrames(set))
         /\ Cardinality(ValidFrames(set)) = set.valid_block_num
<1> DEFINE n == set.valid_block_num
<1>1. n \in 0 .. w /\ ValidFrames(set) = 1 .. n
  BY SetFields DEF GoodSet, WellShaped
<1> HIDE DEF n
<1>2. IsFiniteSet(1 .. n) /\ Cardinality(1 .. n) = n  BY <1>1, FS_Interval
<1>3. 1 .. n \subseteq 1 .. w  BY <1>1
<1> QED  BY <1>1, <1>2, <1>3 DEF n

(* In a sorted list, the rank of a frame is its place. *)
LEMMA SortedRank ==
  ASSUME NEW w \in Nat, NEW set, GoodSet(set, w), NEW n \in Nat, NEW p,
         Sorted(set, p, n), NEW r \in 1 .. n
  PROVE  Rank(set, p[r]) = r
<1> DEFINE V == ValidFrames(set)
           S == 1 .. r - 1
           T == Younger(set, p[r])
           f == [s \in S |-> p[s]]
<1>1. V \subseteq 1 .. w  BY ValidCount
<1> HIDE DEF V
<1>2. /\ p \in [1 .. n -> V]
      /\ \A s, t \in 1 .. n : s < t => Later(set, p[s], p[t])
      /\ \A i \in V : \E s \in 1 .. n : p[s] = i
  BY DEF Sorted, V
<1>3. \A s \in S : s \in 1 .. n /\ s < r  OBVIOUS
<1>4. \A s \in S : p[s] \in T  BY <1>2, <1>3 DEF Younger, V
<1>5. ASSUME NEW s \in 1 .. n, NEW t \in 1 .. n, p[s] = p[t]
      PROVE  s = t
  <2>1. p[s] \in 1 .. w  BY <1>1, <1>2
  <2>2. ~Later(set, p[s], p[s])  BY <2>1, LaterOrder
  <2>3. ~(s < t) /\ ~(t < s)  BY <1>2, <1>5, <2>2
  <2> QED  BY <2>3
<1>6. ASSUME NEW j \in T PROVE \E s \in S : p[s] = j
  <2>1. j \in V /\ Later(set, j, p[r])  BY DEF Younger, V
  <2>2. PICK s \in 1 .. n : p[s] = j  BY <1>2, <2>1
  <2>3. j \in 1 .. w /\ p[r] \in 1 .. w  BY <1>1, <1>2, <2>1
  <2>4. ~Later(set, p[r], j) /\ ~Later(set, j, j)  BY <2>1, <2>3, LaterOrder
  <2>5. s # r  BY <2>1, <2>2, <2>4
  <2>6. ~(r < s)  BY <1>2, <2>2, <2>4
  <2> QED  BY <2>2, <2>5, <2>6
<1>7. f \in Bijection(S, T)
  <2> HIDE DEF S, T
  <2>1. f \in [S -> T]  BY <1>4
  <2>2. \A s, t \in S : f[s] = f[t] => s = t  BY <1>3, <1>5
  <2>3. \A j \in T : \E s \in S : f[s] = j  BY <1>6
  <2> QED  BY <2>1, <2>2, <2>3 DEF Bijection, Injection, Surjection, IsInjective
<1>8. IsFiniteSet(S) /\ Cardinality(S) = r - 1
  BY FS_Interval
<1> HIDE DEF S, T, f
<1>9. Cardinality(T) = r - 1
  BY <1>7, <1>8, FS_Bijection DEF ExistsBijection
<1> QED  BY <1>9 DEF Rank, T

LEMMA SortedIsOrder ==
  ASSUME NEW w \in Nat, NEW set, GoodSet(set, w), NEW n \in Nat, NEW p,
         Sorted(set, p, n), n = Cardinality(ValidFrames(set))
  PROVE  Order(set) = p
<1>1. /\ p \in [1 .. n -> ValidFrames(set)]
      /\ \A i \in ValidFrames(set) : \E s \in 1 .. n : p[s] = i
  BY DEF Sorted
<1>2. \A s \in 1 .. n : Rank(set, p[s]) = s  BY SortedRank
<1>3. ASSUME NEW r \in 1 .. n
      PROVE  (CHOOSE j \in ValidFrames(set) : Rank(set, j) = r) = p[r]
  <2>1. p[r] \in ValidFrames(set) /\ Rank(set, p[r]) = r  BY <1>1, <1>2
  <2>2. ASSUME NEW j \in ValidFrames(set), Rank(set, j) = r PROVE j = p[r]
    <3>1. PICK s \in 1 .. n : p[s] = j  BY <1>1
    <3> QED  BY <1>2, <2>2, <3>1
  <2> QED  BY <2>1, <2>2
<1> QED  BY <1>1, <1>3 DEF Order

(* There is a sorted list: the ranks of the frames are 1 to their number.  *)
LEMMA RankOrder ==
  ASSUME NEW w \in Nat, NEW set, GoodSet(set, w),
         NEW i \in ValidFrames(set)
  PROVE  /\ Rank(set, i) \in 1 .. Cardinality(ValidFrames(set))
         /\ \A j \in ValidFrames(set) :
              Later(set, j, i) => Rank(set, j) < Rank(set, i)
<1> DEFINE V == ValidFrames(set)
           c == Cardinality(V)
<1>1. V \subseteq 1 .. w /\ IsFiniteSet(V) /\ c \in Nat
  BY ValidCount, FS_CardinalityType
<1> HIDE DEF V, c
<1>2. \A j \in V : Younger(set, j) \subseteq V  BY DEF Younger, V
<1>3. \A j \in V : /\ IsFiniteSet(Younger(set, j))
                   /\ Cardinality(Younger(set, j)) \in Nat
  BY <1>1, <1>2, FS_Subset, FS_CardinalityType
<1>4. i \in V /\ i \notin Younger(set, i)
  BY <1>1, LaterOrder DEF Younger, V
<1>5. Cardinality(Younger(set, i)) <= c /\ Cardinality(Younger(set, i)) # c
  <2>1. Younger(set, i) # V  BY <1>4
  <2> QED  BY <1>1, <1>2, <1>4, <2>1, FS_Subset DEF c
<1>6. ASSUME NEW j \in V, Later(set, j, i)
      PROVE  Rank(set, j) < Rank(set, i)
  <2>1. i \in 1 .. w /\ j \in 1 .. w  BY <1>1, <1>4
  <2>2. ASSUME NEW h \in Younger(set, j) PROVE h \in Younger(set, i)
    <3>1. h \in V /\ h \in 1 .. w /\ Later(set, h, j)
      BY <1>1 DEF Younger, V
    <3>2. Later(set, h, i)  BY <1>6, <2>1, <3>1, LaterOrder
    <3> QED  BY <3>1, <3>2 DEF Younger, V
  <2>3. Younger(set, j) \subseteq Younger(set, i)  BY <2>2
  <2>4. j \in Younger(set, i)  BY <1>6 DEF Younger, V
  <2>5. j \notin Younger(set, j)  BY <2>1, LaterOrder DEF Younger
  <2>6. Younger(set, j) # Younger(set, i)  BY <2>4, <2>5
  <2>7. /\ Cardinality(Younger(set, j)) <= Cardinality(Younger(set, i))
        /\ Cardinality(Younger(set, i)) # Cardinality(Younger(set, j))
    BY <1>3, <1>4, <2>3, <2>6, FS_Subset
  <2> QED  BY <1>3, <1>4, <2>7 DEF Rank
<1>7. Rank(set, i) \in 1 .. c  BY <1>1, <1>3, <1>4, <1>5 DEF Rank
<1> QED  BY <1>6, <1>7 DEF V, c

LEMMA OrderSorted ==
  ASSUME NEW w \in Nat, NEW set, GoodSet(set, w)
  PROVE  Sorted(set, Order(set), set.valid_block_num)
<1> DEFINE V == ValidFrames(set)
           n == set.valid_block_num
           N == 1 .. n
           f == [i \in V |-> Rank(set, i)]
<1>1. /\ n \in Nat /\ V \subseteq 1 .. w /\ IsFiniteSet(V)
      /\ Cardinality(V) = n
  BY ValidCount
<1>2. IsFiniteSet(N) /\ Cardinality(N) = n
  <2> HIDE DEF n
  <2> QED  BY <1>1, FS_Interval
<1>3. /\ \A i \in V : Rank(set, i) \in N
      /\ \A i, j \in V : Later(set, j, i) => Rank(set, j) < Rank(set, i)
  BY <1>1, RankOrder
<1>4. \A i \in V : Rank(set, i) \in Nat  BY <1>3
<1> HIDE DEF N, V, n
<1>5. ASSUME NEW i \in V, NEW j \in V, Rank(set, i) = Rank(set, j)
      PROVE  i = j
  <2>1. ~Later(set, i, j) /\ ~Later(set, j, i)  BY <1>3, <1>4, <1>5
  <2>2. i \in 1 .. w /\ j \in 1 .. w  BY <1>1
  <2> QED  BY <2>1, <2>2, LaterOrder
<1>6. f \in Injection(V, N)
  BY <1>3, <1>5 DEF Injection, IsInjective
<1>7. f \in Surjection(V, N)  BY <1>1, <1>2, <1>6, FS_Injection
<1>8. \A r \in N : \E i \in V : Rank(set, i) = r
  BY <1>7 DEF Surjection
<1>9. /\ Order(set) = [r \in N |-> CHOOSE j \in V : Rank(set, j) = r]
      /\ \A r \in N : Order(set)[r] \in V /\ Rank(set, Order(set)[r]) = r
  BY <1>1, <1>8 DEF Order, V, N
<1>10. ASSUME NEW r \in N, NEW s \in N, r < s
       PROVE  Later(set, Order(set)[r], Order(set)[s])
  <2> DEFINE i == Order(set)[r]
             j == Order(set)[s]
  <2>1. i \in V /\ j \in V /\ Rank(set, i) = r /\ Rank(set, j) = s  BY <1>9
  <2> HIDE DEF i, j
  <2>2. r \in Nat /\ s \in Nat  BY <1>1 DEF N
  <2>3. i # j /\ ~Later(set, j, i)  BY <1>3, <1>10, <2>1, <2>2
  <2>4. i \in 1 .. w /\ j \in 1 .. w  BY <1>1, <2>1
  <2> QED  BY <2>3, <2>4, LaterOrder DEF i, j
<1>11. ASSUME NEW i \in V PROVE \E r \in N : Order(set)[r] = i
  <2>1. Rank(set, i) \in N  BY <1>3
  <2>2. Order(set)[Rank(set, i)] = i  BY <1>5, <1>9, <2>1
  <2> QED  BY <2>1, <2>2
<1>12. Order(set) \in [N -> V]  BY <1>9
<1> QED  BY <1>10, <1>11, <1>12 DEF Sorted, V, N, n

-----------------------------------------------------------------------------
(* Frame f of a set takes another block or another stamp *)

Kept(old, new, f) ==
  /\ ValidFrames(new) = ValidFrames(old) \cup {f}
  /\ \A j \in ValidFrames(old) \ {f} :
       /\ new.frames[j].tag = old.frames[j].tag
       /\ new.frames[j].time_stamp = old.frames[j].time_stamp

Youngest(set, f) == \A j \in ValidFrames(set) \ {f} : Later(set, f, j)
Oldest(set, f)   == \A j \in ValidFrames(set) \ {f} : Later(set, j, f)

MovedFront(p, f, n) ==
  [r \in 1 .. n |-> IF r = 1 THEN f
                    ELSE IF \E k \in 1 .. r - 1 : p[k] = f THEN p[r]
                    ELSE p[r - 1]]

MovedBack(p, f, n) == [r \in 1 .. n |-> IF r = n THEN f ELSE p[r]]

LEMMA KeptOrder ==
  ASSUME NEW w \in Nat, NEW old, GoodSet(old, w), NEW new, GoodSet(new, w),
         NEW f \in 1 .. w, Kept(old, new, f)
  PROVE  /\ \A i, j \in ValidFrames(old) \ {f} :
              Later(new, i, j) <=> Later(old, i, j)
         /\ new.valid_block_num =
              IF f \in ValidFrames(old) THEN old.valid_block_num
              ELSE old.valid_block_num + 1
<1>1. \A i, j \in ValidFrames(old) \ {f} :
        Later(new, i, j) <=> Later(old, i, j)
  BY DEF Kept, Later
<1>2. /\ IsFiniteSet(ValidFrames(old))
      /\ Cardinality(ValidFrames(old)) = old.valid_block_num
  BY ValidCount
<1>3. Cardinality(ValidFrames(new)) = new.valid_block_num  BY ValidCount
<1>4. ValidFrames(new) = ValidFrames(old) \cup {f}  BY DEF Kept
<1>5. Cardinality(ValidFrames(old) \cup {f}) =
        IF f \in ValidFrames(old) THEN Cardinality(ValidFrames(old))
        ELSE Cardinality(ValidFrames(old)) + 1
  BY <1>2, FS_AddElement
<1> QED  BY <1>1, <1>2, <1>3, <1>4, <1>5

LEMMA FrontSorted ==
  ASSUME NEW w \in Nat, NEW old, GoodSet(old, w), NEW new, GoodSet(new, w),
         NEW f \in 1 .. w, Kept(old, new, f), Youngest(new, f), NEW p,
         Sorted(old, p, old.valid_block_num)
  PROVE  Sorted(new, MovedFront(p, f, new.valid_block_num),
                new.valid_block_num)
<1> DEFINE V == ValidFrames(old)
           n == old.valid_block_num
           N == new.valid_block_num
           Passed(r) == \E k \in 1 .. r : p[k] = f
           q == MovedFront(p, f, N)
<1>1. /\ n \in Nat /\ N \in Nat
      /\ N = IF f \in V THEN n ELSE n + 1
      /\ ValidFrames(new) = V \cup {f}
      /\ \A i, j \in V \ {f} : Later(new, i, j) <=> Later(old, i, j)
      /\ \A j \in V \ {f} : Later(new, f, j)
  <2>1. ValidFrames(new) = V \cup {f}  BY DEF Kept
  <2>2. \A j \in V \ {f} : Later(new, f, j)  BY <2>1 DEF Youngest
  <2> QED  BY <2>1, <2>2, ValidCount, KeptOrder
<1>2. /\ p \in [1 .. n -> V]
      /\ \A r, s \in 1 .. n : r < s => Later(old, p[r], p[s])
      /\ \A i \in V : \E r \in 1 .. n : p[r] = i
  BY DEF Sorted
<1>3. V \subseteq 1 .. w  BY ValidCount
<1>4. \A r \in 1 .. N :
        q[r] = IF r = 1 THEN f ELSE IF Passed(r - 1) THEN p[r] ELSE p[r - 1]
  BY DEF MovedFront
<1>5. q \in [1 .. N -> {q[r] : r \in 1 .. N}]  BY DEF MovedFront
<1> HIDE DEF V, n, N, q
<1>6. ASSUME NEW r \in 1 .. n, NEW s \in 1 .. n, p[r] = p[s]
      PROVE  r = s
  <2>1. p[r] \in 1 .. w  BY <1>2, <1>3
  <2>2. ~Later(old, p[r], p[r])  BY <2>1, LaterOrder
  <2>3. ~(r < s) /\ ~(s < r)  BY <1>2, <1>6, <2>2
  <2> QED  BY <1>1, <2>3
(* Where the frame at place r > 1 of the new list was in the old one. *)
<1> DEFINE at(r) == IF Passed(r - 1) THEN r ELSE r - 1
<1>7. ASSUME NEW r \in 1 .. N, r # 1
      PROVE  at(r) \in 1 .. n /\ q[r] = p[at(r)] /\ p[at(r)] \in V \ {f}
  <2>1. q[r] = p[at(r)]  BY <1>4, <1>7
  <2>2. CASE Passed(r - 1)
    <3>1. PICK k \in 1 .. r - 1 : p[k] = f  BY <2>2
    <3>2. f \in V
      <4>1. CASE k \in 1 .. n  BY <1>2, <3>1, <4>1
      <4>2. CASE k \notin 1 .. n
        <5>1. N = n \/ N = n + 1  BY <1>1
        <5>2. k <= n  BY <1>1, <3>1, <5>1
        <5> QED  BY <1>1, <3>1, <4>2, <5>2
      <4> QED  BY <4>1, <4>2
    <3>3. r \in 1 .. n /\ k \in 1 .. n /\ k # r  BY <1>1, <3>1, <3>2
    <3>4. p[r] # f  BY <1>6, <3>1, <3>3
    <3> QED  BY <1>2, <2>1, <2>2, <3>3, <3>4
  <2>3. CASE ~Passed(r - 1)
    <3>1. r - 1 \in 1 .. n  BY <1>1, <1>7
    <3>2. p[r - 1] # f  BY <1>1, <1>7, <2>3
    <3> QED  BY <1>2, <2>1, <2>3, <3>1, <3>2
  <2> QED  BY <2>2, <2>3
<1>8. ASSUME NEW r \in 1 .. N, NEW s \in 1 .. N, r # 1, r < s
      PROVE  at(r) < at(s)
  <2>1. Passed(r - 1) => Passed(s - 1)  BY <1>1, <1>8
  <2> QED  BY <1>1, <1>8, <2>1
<1> HIDE DEF at
<1>9. ASSUME NEW r \in 1 .. N, NEW s \in 1 .. N, r < s
      PROVE  Later(new, q[r], q[s])
  <2>1. s # 1 /\ q[s] \in V \ {f}  BY <1>1, <1>7, <1>9
  <2>2. CASE r = 1
    <3>1. q[r] = f  BY <1>4, <2>2
    <3> QED  BY <1>1, <2>1, <3>1
  <2>3. CASE r # 1
    <3>1. /\ at(r) \in 1 .. n /\ q[r] = p[at(r)] /\ q[r] \in V \ {f}
          /\ at(s) \in 1 .. n /\ q[s] = p[at(s)]
      BY <1>7, <2>1, <2>3
    <3>2. at(r) < at(s)  BY <1>8, <1>9, <2>3
    <3>3. Later(old, q[r], q[s])  BY <1>2, <3>1, <3>2
    <3> QED  BY <1>1, <2>1, <3>1, <3>3
  <2> QED  BY <2>2, <2>3
<1>10. ASSUME NEW i \in V \cup {f} PROVE \E r \in 1 .. N : q[r] = i
  <2>1. CASE i = f
    <3>1. 1 \in 1 .. N
      <4>1. f \in V => n # 0  BY <1>2
      <4> QED  BY <1>1, <4>1
    <3> QED  BY <1>4, <2>1, <3>1
  <2>2. CASE i # f
    <3>1. PICK s \in 1 .. n : p[s] = i  BY <1>2, <2>2
    <3>2. CASE Passed(s)
      <4>1. PICK k \in 1 .. s : p[k] = f  BY <3>2
      <4>2. k # s /\ k \in 1 .. s - 1 /\ s # 1  BY <1>1, <2>2, <3>1, <4>1
      <4>3. s \in 1 .. N  BY <1>1
      <4>4. q[s] = p[s]  BY <1>4, <4>1, <4>2, <4>3
      <4> QED  BY <3>1, <4>3, <4>4
    <3>3. CASE ~Passed(s)
      <4>1. s + 1 \in 1 .. N
        <5>1. CASE f \notin V  BY <1>1, <5>1
        <5>2. CASE f \in V
          <6>1. PICK k \in 1 .. n : p[k] = f  BY <1>2, <5>2
          <6>2. k > s  BY <1>1, <3>3, <6>1
          <6> QED  BY <1>1, <5>2, <6>2
        <5> QED  BY <5>1, <5>2
      <4>2. s + 1 # 1 /\ (s + 1) - 1 = s  BY <1>1
      <4>3. q[s + 1] = p[s]  BY <1>4, <3>3, <4>1, <4>2
      <4> QED  BY <3>1, <4>1, <4>3
    <3> QED  BY <3>2, <3>3
  <2> QED  BY <2>1, <2>2
<1>11. \A r \in 1 .. N : q[r] \in V \cup {f}
  BY <1>4, <1>7
<1>12. q \in [1 .. N -> ValidFrames(new)]  BY <1>1, <1>5, <1>11
<1> QED  BY <1>1, <1>9, <1>10, <1>12 DEF Sorted, q, N

LEMMA BackSorted ==
  ASSUME NEW w \in Nat, NEW old, GoodSet(old, w), NEW new, GoodSet(new, w),
         NEW f \in 1 .. w, Kept(old, new, f), Oldest(new, f), NEW p,
         Sorted(old, p, old.valid_block_num),
         f \in ValidFrames(old) => Oldest(old, f)
  PROVE  Sorted(new, MovedBack(p, f, new.valid_block_num),
                new.valid_block_num)
<1> DEFINE V == ValidFrames(old)
           n == old.valid_block_num
           N == new.valid_block_num
           q == MovedBack(p, f, N)
<1>1. /\ n \in Nat /\ N \in Nat
      /\ N = IF f \in V THEN n ELSE n + 1
      /\ ValidFrames(new) = V \cup {f}
      /\ \A i, j \in V \ {f} : Later(new, i, j) <=> Later(old, i, j)
      /\ \A j \in V \ {f} : Later(new, j, f)
  <2>1. ValidFrames(new) = V \cup {f}  BY DEF Kept
  <2>2. \A j \in V \ {f} : Later(new, j, f)  BY <2>1 DEF Oldest
  <2> QED  BY <2>1, <2>2, ValidCount, KeptOrder
<1>2. /\ p \in [1 .. n -> V]
      /\ \A r, s \in 1 .. n : r < s => Later(old, p[r], p[s])
      /\ \A i \in V : \E r \in 1 .. n : p[r] = i
  BY DEF Sorted
<1>3. V \subseteq 1 .. w  BY ValidCount
<1>4. /\ \A r \in 1 .. N : q[r] = IF r = N THEN f ELSE p[r]
      /\ q \in [1 .. N -> {q[r] : r \in 1 .. N}]
  BY DEF MovedBack
<1>5. f \in V => \A j \in V \ {f} : Later(old, j, f)  BY DEF Oldest
<1> HIDE DEF V, n, N, q
<1>6. \A i \in V, j \in V : Later(old, i, j) => ~Later(old, j, i)
  BY <1>3, LaterOrder
<1>7. \A r \in 1 .. n : p[r] = f => r = n
  <2> SUFFICES ASSUME NEW r \in 1 .. n, p[r] = f, r # n PROVE FALSE
    OBVIOUS
  <2>1. n \in 1 .. n /\ r < n  BY <1>1
  <2>2. f \in V /\ p[n] \in V /\ Later(old, f, p[n])  BY <1>2, <2>1
  <2>3. p[n] # f  BY <1>6, <2>2
  <2> QED  BY <1>5, <1>6, <2>2, <2>3
<1>8. ASSUME NEW r \in 1 .. N, r # N
      PROVE  r \in 1 .. n /\ q[r] = p[r] /\ p[r] \in V \ {f}
  <2>1. r \in 1 .. n /\ q[r] = p[r]  BY <1>1, <1>4, <1>8
  <2>2. p[r] # f
    <3>1. CASE f \in V  BY <1>1, <1>7, <1>8, <2>1, <3>1
    <3>2. CASE f \notin V  BY <1>2, <2>1, <3>2
    <3> QED  BY <3>1, <3>2
  <2> QED  BY <1>2, <2>1, <2>2
<1>9. ASSUME NEW r \in 1 .. N, NEW s \in 1 .. N, r < s
      PROVE  Later(new, q[r], q[s])
  <2>1. r # N /\ r \in 1 .. n /\ q[r] = p[r] /\ q[r] \in V \ {f}
    BY <1>1, <1>8, <1>9
  <2>2. CASE s = N
    <3>1. q[s] = f  BY <1>4, <2>2
    <3> QED  BY <1>1, <2>1, <3>1
  <2>3. CASE s # N
    <3>1. s \in 1 .. n /\ q[s] = p[s] /\ q[s] \in V \ {f}  BY <1>8, <2>3
    <3>2. Later(old, q[r], q[s])  BY <1>2, <1>9, <2>1, <3>1
    <3> QED  BY <1>1, <2>1, <3>1, <3>2
  <2> QED  BY <2>2, <2>3
<1>10. ASSUME NEW i \in V \cup {f} PROVE \E r \in 1 .. N : q[r] = i
  <2>1. CASE i = f
    <3>1. N \in 1 .. N
      <4>1. f \in V => n # 0  BY <1>2
      <4> QED  BY <1>1, <4>1
    <3> QED  BY <1>4, <2>1, <3>1
  <2>2. CASE i # f
    <3>1. PICK s \in 1 .. n : p[s] = i  BY <1>2, <2>2
    <3>2. s \in 1 .. N /\ s # N
      <4>1. CASE f \notin V  BY <1>1, <4>1
      <4>2. CASE f \in V
        <5>1. PICK k \in 1 .. n : p[k] = f  BY <1>2, <4>2
        <5>2. k = n /\ s # k  BY <1>7, <2>2, <3>1, <5>1
        <5> QED  BY <1>1, <4>2, <5>2
      <4> QED  BY <4>1, <4>2
    <3>3. q[s] = p[s]  BY <1>4, <3>2
    <3> QED  BY <3>1, <3>2, <3>3
  <2> QED  BY <2>1, <2>2
<1>11. \A r \in 1 .. N : q[r] \in V \cup {f}
  BY <1>4, <1>8
<1>12. q \in [1 .. N -> ValidFrames(new)]  BY <1>1, <1>4, <1>11
<1> QED  BY <1>1, <1>9, <1>10, <1>12 DEF Sorted, q, N

-----------------------------------------------------------------------------
(* The list of the blocks of a set, and what happens to it *)

BlockList(set, m, k) ==
  [r \in 1 .. set.valid_block_num |->
     set.frames[Order(set)[r]].tag * m + k]

(* Frame f is empty, or the set is full and f holds its oldest block. *)
CanTake(set, f, w) ==
  f \in ValidFrames(set) => set.valid_block_num = w /\ Oldest(set, f)

LEMMA RecencyIs ==
  ASSUME NEW m \in Nat \ {0}, NEW w \in Nat, NEW cache,
         GoodCache(cache, m, w)
  PROVE  Recency(cache) = [k \in 0 .. m - 1 |-> BlockList(cache.sets[k], m, k)]
<1>1. /\ DOMAIN cache.sets = 0 .. m - 1 /\ SetNum(cache) = m
      /\ \A k \in 0 .. m - 1 : GoodSet(cache.sets[k], w)
  BY CacheFields
<1>2. ASSUME NEW k \in 0 .. m - 1
      PROVE  LET set == cache.sets[k]
                 R(i) == 1 + Cardinality({j \in ValidFrames(set) :
                                            Later(set, j, i)})
             IN  [n \in 1 .. Cardinality(ValidFrames(set)) |->
                    LET i == CHOOSE j \in ValidFrames(set) : R(j) = n
                    IN  GetAddr(cache, set.frames[i].tag, k)]
                   = BlockList(set, m, k)
  <2> DEFINE set == cache.sets[k]
  <2>1. Cardinality(ValidFrames(set)) = set.valid_block_num
    BY <1>1, ValidCount
  <2> HIDE DEF set
  <2>2. Order(set) = [n \in 1 .. set.valid_block_num |->
                        CHOOSE j \in ValidFrames(set) :
                          1 + Cardinality({h \in ValidFrames(set) :
                                             Later(set, h, j)}) = n]
    BY <2>1 DEF Order, Rank, Younger
  <2>3. \A n \in 1 .. set.valid_block_num :
          Order(set)[n] = CHOOSE j \in ValidFrames(set) :
                            1 + Cardinality({h \in ValidFrames(set) :
                                               Later(set, h, j)}) = n
    BY <2>2
  <2>4. \A t : GetAddr(cache, t, k) = t * m + k  BY <1>1 DEF GetAddr
  <2> QED  BY <2>1, <2>3, <2>4 DEF BlockList, set
<1> QED  BY <1>1, <1>2 DEF Recency

LEMMA ListLength ==
  ASSUME NEW n \in Nat, NEW q \in [1 .. n -> Nat]
  PROVE  q \in Seq(Nat) /\ Len(q) = n
OBVIOUS

(* The list that belongs to a sorted list of frames. *)
LEMMA ListSorted ==
  ASSUME NEW m \in Nat \ {0}, NEW k \in 0 .. m - 1,
         NEW w \in Nat, NEW set, GoodSet(set, w), NEW p,
         Sorted(set, p, set.valid_block_num)
  PROVE  /\ BlockList(set, m, k) = [r \in 1 .. set.valid_block_num |->
                                      set.frames[p[r]].tag * m + k]
         /\ BlockList(set, m, k) \in [1 .. set.valid_block_num -> Nat]
         /\ Len(BlockList(set, m, k)) = set.valid_block_num
         /\ \A r, s \in 1 .. set.valid_block_num : p[r] = p[s] => r = s
         /\ \A r \in 1 .. set.valid_block_num :
              /\ p[r] \in ValidFrames(set)
              /\ set.frames[p[r]].tag \in Nat
<1> DEFINE n == set.valid_block_num
           q == BlockList(set, m, k)
<1>1. /\ ValidFrames(set) \subseteq 1 .. w /\ n \in Nat
      /\ Cardinality(ValidFrames(set)) = n
  BY ValidCount
<1>2. /\ p \in [1 .. n -> ValidFrames(set)]
      /\ \A r, s \in 1 .. n : r < s => Later(set, p[r], p[s])
  BY DEF Sorted
<1>3. Order(set) = p  BY <1>1, SortedIsOrder
<1>4. \A j \in 1 .. w : set.frames[j].tag \in Nat
  BY SetFields DEF GoodSet, Block
<1>5. q = [r \in 1 .. n |-> set.frames[p[r]].tag * m + k]
  BY <1>3 DEF BlockList
<1> HIDE DEF q, n
<1>6. \A r \in 1 .. n : /\ p[r] \in ValidFrames(set)
                        /\ set.frames[p[r]].tag \in Nat
  BY <1>1, <1>2, <1>4
<1>7. \A r \in 1 .. n : set.frames[p[r]].tag * m + k \in Nat
  <2>1. \A t \in Nat : t * m + k \in Nat  BY AddressParts
  <2> QED  BY <1>6, <2>1
<1>8. q \in [1 .. n -> Nat]  BY <1>5, <1>7
<1>9. Len(q) = n  BY <1>1, <1>8, ListLength
<1>10. ASSUME NEW r \in 1 .. n, NEW s \in 1 .. n, p[r] = p[s]
       PROVE  r = s
  <2>1. p[r] \in 1 .. w  BY <1>1, <1>6
  <2>2. ~Later(set, p[r], p[r])  BY <2>1, LaterOrder
  <2>3. ~(r < s) /\ ~(s < r)  BY <1>2, <1>10, <2>2
  <2> QED  BY <1>1, <2>3
<1> QED  BY <1>5, <1>6, <1>8, <1>9, <1>10 DEF q, n

LEMMA TagAddress ==
  ASSUME NEW m \in Nat \ {0}, NEW k \in 0 .. m - 1, NEW t \in Nat, NEW u \in Nat
  PROVE  t * m + k = u * m + k <=> t = u
BY AddressParts

LEMMA ListFront ==
  ASSUME NEW m \in Nat \ {0}, NEW k \in 0 .. m - 1, NEW w \in Nat,
         NEW old, GoodSet(old, w), NEW new, GoodSet(new, w),
         NEW f \in 1 .. w, NEW t \in Nat, Kept(old, new, f),
         Youngest(new, f), new.frames[f].tag = t,
         \/ f \in ValidFrames(old) /\ old.frames[f].tag = t
         \/ ~Has(old, t) /\ CanTake(old, f, w)
  PROVE  BlockList(new, m, k) =
           Abstract!Front(BlockList(old, m, k), t * m + k, w)
<1> DEFINE V == ValidFrames(old)
           n == old.valid_block_num
           N == new.valid_block_num
           p == Order(old)
           q == MovedFront(p, f, N)
           a == t * m + k
           x == BlockList(old, m, k)
           y == BlockList(new, m, k)
           PassedF(r) == \E j \in 1 .. r : p[j] = f
           PassedA(r) == \E j \in 1 .. r : x[j] = a
<1>1. Sorted(old, p, n)  BY OrderSorted
<1>2. Sorted(new, q, N)  BY <1>1, FrontSorted
<1>3. /\ x = [r \in 1 .. n |-> old.frames[p[r]].tag * m + k]
      /\ Len(x) = n
      /\ \A r, s \in 1 .. n : p[r] = p[s] => r = s
      /\ \A r \in 1 .. n : p[r] \in V /\ old.frames[p[r]].tag \in Nat
  BY <1>1, ListSorted
<1>4. /\ y = [r \in 1 .. N |-> new.frames[q[r]].tag * m + k]
      /\ \A r, s \in 1 .. N : q[r] = q[s] => r = s
      /\ \A r \in 1 .. N : q[r] \in ValidFrames(new)
  <2> HIDE DEF p, q, a, x
  <2> QED  BY <1>2, ListSorted
<1>5. /\ N = IF f \in V THEN n ELSE n + 1
      /\ n \in Nat /\ N \in Nat /\ n <= w /\ N <= w
      /\ ValidFrames(new) = V \cup {f}
      /\ \A j \in V \ {f} : new.frames[j].tag = old.frames[j].tag
      /\ V = 1 .. n
  <2>1. n \in 0 .. w /\ N \in 0 .. w /\ V = 1 .. n  BY ValidCount
  <2>2. N = IF f \in V THEN n ELSE n + 1  BY KeptOrder
  <2> HIDE DEF p, q, a, x, y
  <2> QED  BY <2>1, <2>2 DEF Kept
<1>6. \A r \in 1 .. N :
        q[r] = IF r = 1 THEN f ELSE IF PassedF(r - 1) THEN p[r] ELSE p[r - 1]
  BY DEF MovedFront
<1>7. /\ \A i \in V : \E r \in 1 .. n : p[r] = i
      /\ \A r, s \in 1 .. n : r < s => Later(old, p[r], p[s])
  BY <1>1 DEF Sorted
<1>8. \A i, j \in V : old.frames[i].tag = old.frames[j].tag => i = j
  BY DEF GoodSet, WellShaped
<1>9. V \subseteq 1 .. w /\ Frames(old) = 1 .. w
  BY ValidCount, SetFields DEF GoodSet
<1>10. \A j \in V : old.frames[j].valid_bit  BY DEF ValidFrames
<1> HIDE DEF V, n, N, p, q, x, y
<1>11. \A r \in 1 .. n : x[r] = a <=> old.frames[p[r]].tag = t
  <2> SUFFICES ASSUME NEW r \in 1 .. n
               PROVE  x[r] = a <=> old.frames[p[r]].tag = t
    OBVIOUS
  <2> DEFINE u == old.frames[p[r]].tag
  <2>1. x[r] = u * m + k /\ u \in Nat  BY <1>3
  <2> HIDE DEF u
  <2>2. u * m + k = a <=> u = t  BY <2>1, TagAddress
  <2> QED  BY <2>1, <2>2 DEF u
<1> HIDE DEF a
<1>12. /\ \A r \in 1 .. N : PassedA(r - 1) <=> PassedF(r - 1)
       /\ N = IF Abstract!Member(x, a) THEN Len(x)
              ELSE Abstract!Shortest(w, Len(x) + 1)
  <2>1. CASE f \in V /\ old.frames[f].tag = t
    <3>1. \A r \in 1 .. n : x[r] = a <=> p[r] = f  BY <1>3, <1>8, <1>11, <2>1
    <3>2. \A r \in 1 .. N : r - 1 <= n  BY <1>5
    <3>3. \A r \in 1 .. N : PassedA(r - 1) <=> PassedF(r - 1)
      BY <1>5, <3>1, <3>2
    <3>4. Abstract!Member(x, a)
      <4>1. PICK r \in 1 .. n : p[r] = f  BY <1>7, <2>1
      <4> QED  BY <1>3, <3>1, <4>1 DEF Abstract!Member
    <3> QED  BY <1>3, <1>5, <2>1, <3>3, <3>4
  <2>2. CASE ~Has(old, t) /\ CanTake(old, f, w)
    <3>1. \A r \in 1 .. n : x[r] # a
      <4>1. \A j \in V : old.frames[j].tag # t
        BY <1>9, <1>10, <2>2 DEF Has
      <4> QED  BY <1>3, <1>11, <4>1
    <3>2. ~Abstract!Member(x, a)  BY <1>3, <3>1 DEF Abstract!Member
    <3>3. \A r \in 1 .. N : ~PassedA(r - 1)
      <4>1. \A r \in 1 .. N : r - 1 <= n  BY <1>5
      <4> QED  BY <1>5, <3>1, <4>1
    <3>4. f \in V => n = w /\ \A j \in V \ {f} : Later(old, j, f)
      BY <2>2 DEF CanTake, Oldest, V, n
    <3>5. \A r \in 1 .. N : ~PassedF(r - 1)
      <4> SUFFICES ASSUME NEW r \in 1 .. N, NEW j \in 1 .. r - 1, p[j] = f
                   PROVE  FALSE
        OBVIOUS
      <4>1. j \in 1 .. n  BY <1>5
      <4>2. f \in V  BY <1>3, <4>1
      <4>3. r \in 1 .. n /\ j < r  BY <1>5, <4>2
      <4>4. p[r] \in V /\ p[r] # f  BY <1>3, <4>1, <4>3
      <4>5. Later(old, p[r], f) /\ Later(old, f, p[r])
        BY <1>7, <3>4, <4>1, <4>2, <4>3, <4>4
      <4>6. p[r] \in 1 .. w  BY <1>9, <4>4
      <4> QED  BY <4>5, <4>6, LaterOrder
    <3>6. N = Abstract!Shortest(w, Len(x) + 1)
      BY <1>3, <1>5, <3>4 DEF Abstract!Shortest
    <3> QED  BY <3>2, <3>3, <3>5, <3>6
  <2> QED  BY <2>1, <2>2 DEF V
<1>13. ASSUME NEW r \in 1 .. N
       PROVE  y[r] = IF r = 1 THEN a
                     ELSE IF PassedA(r - 1) THEN x[r] ELSE x[r - 1]
  <2>1. CASE r = 1  BY <1>4, <1>6, <2>1 DEF a
  <2>2. CASE r # 1
    <3> DEFINE s == IF PassedF(r - 1) THEN r ELSE r - 1
    <3>1. q[r] = p[s]  BY <1>6, <2>2
    <3>2. 1 \in 1 .. N /\ q[1] = f  BY <1>5, <1>6
    <3>3. q[r] \in V \ {f}  BY <1>4, <1>5, <2>2, <3>2
    <3>4. s \in 1 .. n
      <4>1. CASE f \in V  BY <1>5, <2>2, <4>1
      <4>2. CASE f \notin V
        <5>1. ~PassedF(r - 1)
          <6>1. \A j \in 1 .. r - 1 : j \in 1 .. n  BY <1>5
          <6> QED  BY <1>3, <4>2, <6>1
        <5> QED  BY <1>5, <2>2, <4>2, <5>1
      <4> QED  BY <4>1, <4>2
    <3>5. x[s] = old.frames[q[r]].tag * m + k  BY <1>3, <3>1, <3>4
    <3>6. y[r] = new.frames[q[r]].tag * m + k  BY <1>4
    <3>7. y[r] = x[s]  BY <1>5, <3>3, <3>5, <3>6
    <3> QED  BY <1>12, <2>2, <3>7
  <2> QED  BY <2>1, <2>2
<1>14. y = [r \in 1 .. N |-> IF r = 1 THEN a
                             ELSE IF PassedA(r - 1) THEN x[r] ELSE x[r - 1]]
  <2>1. y = [r \in 1 .. N |-> y[r]]  BY <1>4
  <2> QED  BY <1>13, <2>1
<1> QED  BY <1>12, <1>14 DEF Abstract!Front, x, y, a

LEMMA ListBehind ==
  ASSUME NEW m \in Nat \ {0}, NEW k \in 0 .. m - 1, NEW w \in Nat,
         NEW old, GoodSet(old, w), NEW new, GoodSet(new, w),
         NEW f \in 1 .. w, NEW t \in Nat, Kept(old, new, f),
         Oldest(new, f), new.frames[f].tag = t, CanTake(old, f, w)
  PROVE  BlockList(new, m, k) =
           Abstract!Behind(BlockList(old, m, k), t * m + k, w)
<1> DEFINE V == ValidFrames(old)
           n == old.valid_block_num
           N == new.valid_block_num
           p == Order(old)
           q == MovedBack(p, f, N)
           a == t * m + k
           x == BlockList(old, m, k)
           y == BlockList(new, m, k)
<1>1. Sorted(old, p, n)  BY OrderSorted
<1>2. f \in V => n = w /\ Oldest(old, f)  BY DEF CanTake
<1>3. Sorted(new, q, N)  BY <1>1, <1>2, BackSorted
<1>4. /\ x = [r \in 1 .. n |-> old.frames[p[r]].tag * m + k]
      /\ Len(x) = n
      /\ \A r, s \in 1 .. n : p[r] = p[s] => r = s
      /\ \A r \in 1 .. n : p[r] \in V /\ old.frames[p[r]].tag \in Nat
  <2> HIDE DEF V, n, N, x, y, a, p, q
  <2>1. x \in [1 .. n -> Nat]  BY <1>1, ListSorted DEF n, x
  <2> QED  BY <1>1, <2>1, ListSorted DEF n, x, V
<1>5. /\ y = [r \in 1 .. N |-> new.frames[q[r]].tag * m + k]
      /\ \A r, s \in 1 .. N : q[r] = q[s] => r = s
      /\ \A r \in 1 .. N : q[r] \in ValidFrames(new)
  <2> HIDE DEF V, n, N, x, y, a, p, q
  <2>1. y \in [1 .. N -> Nat]  BY <1>3, ListSorted DEF N, y
  <2> QED  BY <1>3, <2>1, ListSorted DEF N, y
<1>6. /\ N = IF f \in V THEN n ELSE n + 1
      /\ n \in Nat /\ N \in Nat /\ n <= w /\ N <= w
      /\ ValidFrames(new) = V \cup {f} /\ V = 1 .. n
      /\ \A j \in V \ {f} : new.frames[j].tag = old.frames[j].tag
  <2>1. n \in 0 .. w /\ N \in 0 .. w /\ V = 1 .. n  BY ValidCount
  <2>2. N = IF f \in V THEN n ELSE n + 1  BY KeptOrder
  <2> HIDE DEF p, q, a, x, y
  <2> QED  BY <2>1, <2>2 DEF Kept
<1>7. \A r \in 1 .. N : q[r] = IF r = N THEN f ELSE p[r]
  BY DEF MovedBack
<1> HIDE DEF V, n, N, p, q, x, y, a
<1>8. N = Abstract!Shortest(w, Len(x) + 1)
  BY <1>2, <1>4, <1>6 DEF Abstract!Shortest
<1>9. ASSUME NEW r \in 1 .. N
      PROVE  y[r] = IF r = N THEN a ELSE x[r]
  <2>1. CASE r = N  BY <1>5, <1>7, <2>1 DEF a
  <2>2. CASE r # N
    <3>1. q[r] = p[r] /\ r \in 1 .. n  BY <1>6, <1>7, <2>2
    <3>2. N \in 1 .. N /\ q[N] = f  BY <1>6, <1>7
    <3>3. q[r] \in V \ {f}  BY <1>5, <1>6, <2>2, <3>2
    <3>4. y[r] = old.frames[p[r]].tag * m + k  BY <1>5, <1>6, <3>1, <3>3
    <3> QED  BY <1>4, <2>2, <3>1, <3>4
  <2> QED  BY <2>1, <2>2
<1>10. y = [r \in 1 .. N |-> IF r = N THEN a ELSE x[r]]
  <2>1. y = [r \in 1 .. N |-> y[r]]  BY <1>5
  <2> QED  BY <1>9, <2>1
<1> QED  BY <1>8, <1>10 DEF Abstract!Behind, x, y, a

-----------------------------------------------------------------------------
(* The stamps of a cache: none is below lo, and none above the clock.  A   *)
(* stamp equals the clock only if LIP gave it to the first block of a set. *)

StampedSet(set, lo, clock) ==
  \A i \in ValidFrames(set) :
    /\ lo <= set.frames[i].time_stamp
    /\ \/ set.frames[i].time_stamp < clock
       \/ set.frames[i].time_stamp = clock /\ i = 1

Stamped(cache, lo, m) ==
  /\ lo <= cache.time_stamp
  /\ \A k \in 0 .. m - 1 : StampedSet(cache.sets[k], lo, cache.time_stamp)

LEMMA LruVictim ==
  ASSUME NEW w \in Nat \ {0}, NEW set, GoodSet(set, w),
         \A i \in 1 .. w : set.frames[i].time_stamp < SENTINEL
  PROVE  LRU_Victim_block(set) \in 1 .. w /\ Oldest(set, LRU_Victim_block(set))
<1> DEFINE Stamp(i) == set.frames[i].time_stamp
           First(i) == /\ Stamp(i) < SENTINEL
                       /\ \A j \in 1 .. w : /\ Stamp(i) <= Stamp(j)
                                            /\ j < i => Stamp(i) < Stamp(j)
           S == {Stamp(i) : i \in 1 .. w}
           v == LRU_Victim_block(set)
<1>1. /\ Frames(set) = 1 .. w /\ ValidFrames(set) \subseteq 1 .. w
      /\ \A i \in 1 .. w : Stamp(i) \in Nat
  BY SetFields, ValidCount DEF GoodSet, Block
<1>2. S \in SUBSET Nat /\ S # {}
  <2>1. 1 \in 1 .. w  OBVIOUS
  <2> QED  BY <1>1, <2>1
<1>3. PICK s \in S : \A u \in S : s <= u
  <2> HIDE DEF S
  <2> QED  BY <1>2, LeastExists
<1> DEFINE I == {i \in 1 .. w : Stamp(i) = s}
<1>4. I \in SUBSET Nat /\ I # {}
  <2>1. PICK i \in 1 .. w : Stamp(i) = s  BY <1>3
  <2> QED  BY <2>1
<1>5. PICK i \in I : \A j \in I : i <= j
  <2> HIDE DEF I
  <2> QED  BY <1>4, LeastExists
<1>6. i \in 1 .. w /\ First(i)
  <2>1. i \in 1 .. w /\ Stamp(i) = s  BY <1>5
  <2>2. \A j \in 1 .. w : s <= Stamp(j)  BY <1>3
  <2>3. ASSUME NEW j \in 1 .. w, j < i PROVE s < Stamp(j)
    <3>1. Stamp(j) # s  BY <1>5, <2>1, <2>3
    <3>2. s \in Nat /\ Stamp(j) \in Nat  BY <1>1, <2>1, <2>3
    <3> HIDE DEF Stamp, S
    <3> QED  BY <2>2, <2>3, <3>1, <3>2
  <2> HIDE DEF S
  <2> QED  BY <2>1, <2>2, <2>3
<1>7. v \in 1 .. w /\ First(v)
  <2>1. v = IF \E j \in 1 .. w : First(j)
            THEN CHOOSE j \in 1 .. w : First(j) ELSE NoVictim
    BY <1>1 DEF LRU_Victim_block
  <2> HIDE DEF First, v
  <2> QED  BY <1>6, <2>1
<1> HIDE DEF v
<1>8. ASSUME NEW j \in ValidFrames(set) \ {v} PROVE Later(set, j, v)
  <2>1. j \in 1 .. w /\ j # v  BY <1>1, <1>8
  <2>2. /\ Stamp(v) \in Nat /\ Stamp(j) \in Nat /\ Stamp(v) <= Stamp(j)
        /\ j < v => Stamp(v) < Stamp(j)
    BY <1>1, <1>7, <2>1
  <2> QED  BY <1>7, <2>1, <2>2 DEF Later
<1> QED  BY <1>7, <1>8 DEF Oldest, v

(* The frame that a block takes under LRU: an empty one, or the oldest.    *)
LEMMA LruFrame ==
  ASSUME NEW m \in Nat \ {0}, NEW w \in Nat \ {0}, NEW cache,
         GoodCache(cache, m, w), NEW lo \in Int, Stamped(cache, lo, m),
         cache.time_stamp < SENTINEL, UnderLru, NEW a \in Nat
  PROVE  /\ FrameFor(cache, a) # NoVictim /\ FrameFor(cache, a) \in 1 .. w
         /\ CanTake(cache.sets[a % m], FrameFor(cache, a), w)
<1> DEFINE set == cache.sets[a % m]
           n == set.valid_block_num
           i == FrameFor(cache, a)
<1>1. GoodSet(set, w) /\ SetOf(cache, a) = set /\ a % m \in 0 .. m - 1
  BY Located
<1>2. i = InsertAt(set, "LRU")  BY <1>1 DEF FrameFor, UnderLru
<1>3. /\ Frames(set) = 1 .. w /\ Cardinality(Frames(set)) = w /\ n \in 0 .. w
      /\ ValidFrames(set) = 1 .. n
      /\ \A j \in 1 .. w : set.frames[j].time_stamp \in Nat
  BY <1>1, SetFields DEF GoodSet, WellShaped, Block
<1>4. StampedSet(set, lo, cache.time_stamp)  BY <1>1 DEF Stamped
<1>5. cache.time_stamp \in Nat /\ SENTINEL \in Nat  BY CacheFields, StampSizes
<1> HIDE DEF set, i, n
<1>6. CASE n < w
  <2>1. i = n + 1  BY <1>1, <1>2, <1>6, RoomLeft DEF n
  <2> QED  BY <1>3, <1>6, <2>1 DEF NoVictim, CanTake, i, set
<1>7. CASE ~(n < w)
  <2>1. n = w  BY <1>3, <1>7
  <2>2. i = LRU_Victim_block(set)
    BY <1>2, <1>3, <1>7 DEF InsertAt, n
  <2>3. \A j \in 1 .. w : set.frames[j].time_stamp < SENTINEL
    BY <1>3, <1>4, <1>5, <2>1 DEF StampedSet
  <2>4. i \in 1 .. w /\ Oldest(set, i)  BY <1>1, <2>2, <2>3, LruVictim
  <2> QED  BY <2>1, <2>4 DEF NoVictim, CanTake, i, set, n
<1> QED  BY <1>6, <1>7

-----------------------------------------------------------------------------
(* Frame i of the set of a has block a now, with that stamp. *)

PlacedIn(cache, next, a, i, stamp, m, w) ==
  \E new :
    /\ SetChange(cache, next, a % m, new, m, w)
    /\ Kept(cache.sets[a % m], new, i)
    /\ new.frames[i].tag = a \div m /\ new.frames[i].time_stamp = stamp

LEMMA PlaceFrames ==
  ASSUME NEW m \in Nat \ {0}, NEW w \in Nat, NEW cache,
         GoodCache(cache, m, w), NEW a \in Nat, ~Cached(cache, a),
         NEW b \in Block, b.valid_bit, b.tag = Tag(cache, a),
         NEW mru \in BOOLEAN, FrameFor(cache, a) # NoVictim
  PROVE  PlacedIn(cache, Place(cache, a, b, mru), a, FrameFor(cache, a),
                  b.time_stamp, m, w)
<1> DEFINE k == a % m
           t == a \div m
           i == FrameFor(cache, a)
           old == cache.sets[k]
           c == [b EXCEPT !.MRU = mru]
           mid == Cleared(old, mru)
           new == Insert(mid, i, c)
           next == Place(cache, a, b, mru)
<1>1. /\ k \in 0 .. m - 1 /\ Index(cache, a) = k /\ Tag(cache, a) = t
      /\ t \in Nat /\ SetOf(cache, a) = old /\ GoodSet(old, w)
  BY Located
<1>2. GoodCache(next, m, w)  BY PlaceGood
<1>3. i \in 1 .. w
  <2>1. i = InsertAt(old, config.replace_policy)  BY <1>1 DEF FrameFor
  <2> QED  BY <1>1, <2>1, FrameChosen
<1>4. next = [cache EXCEPT !.sets[k] = new]
  BY <1>1 DEF Place, Cleared
<1>5. c.tag = t /\ c.valid_bit /\ c.time_stamp = b.time_stamp
  BY <1>1 DEF Block
<1>6. SetChange(cache, next, k, new, m, w)
  <2> HIDE DEF next, new, k
  <2>1. next.sets = [cache.sets EXCEPT ![k] = new]
    BY <1>1, <1>4 DEF GoodCache, CacheRecord
  <2> QED  BY <1>1, <1>2, <2>1, CacheFields DEF SetChange
<1>7. GoodSet(new, w)
  <2> HIDE DEF next, new, k
  <2>1. GoodSet(next.sets[k], w)  BY <1>1, <1>2, CacheFields
  <2> QED  BY <1>6, <2>1 DEF SetChange
<1>8. /\ GoodSet(mid, w)
      /\ \A j \in 1 .. w :
           /\ mid.frames[j].valid_bit = old.frames[j].valid_bit
           /\ mid.frames[j].tag = old.frames[j].tag
           /\ mid.frames[j].time_stamp = old.frames[j].time_stamp
  <2> HIDE DEF old
  <2> QED  BY <1>1, ClearedFrames
<1>9. \A j \in 1 .. w : new.frames[j] = IF j = i THEN c ELSE mid.frames[j]
  <2> HIDE DEF mid, c, i
  <2> QED  BY <1>8 DEF Insert, GoodSet, SetType
<1>10. /\ Frames(old) = 1 .. w /\ Frames(new) = 1 .. w
  <2> HIDE DEF old, new
  <2> QED  BY <1>1, <1>7, SetFields DEF GoodSet
<1> HIDE DEF next, new, mid, c, old, i, t, k
<1>11. ValidFrames(new) = ValidFrames(old) \cup {i}
  BY <1>3, <1>5, <1>8, <1>9, <1>10 DEF ValidFrames
<1>12. \A j \in ValidFrames(old) \ {i} :
         /\ new.frames[j].tag = old.frames[j].tag
         /\ new.frames[j].time_stamp = old.frames[j].time_stamp
  BY <1>8, <1>9, <1>10 DEF ValidFrames
<1>13. Kept(old, new, i)  BY <1>11, <1>12 DEF Kept
<1>14. new.frames[i].tag = t /\ new.frames[i].time_stamp = b.time_stamp
  BY <1>3, <1>5, <1>9
<1>15. \E x : /\ SetChange(cache, next, k, x, m, w) /\ Kept(old, x, i)
              /\ x.frames[i].tag = t /\ x.frames[i].time_stamp = b.time_stamp
  BY <1>6, <1>13, <1>14
<1> QED  BY <1>15 DEF PlacedIn, next, old, i, t, k

LEMMA PlaceClock ==
  ASSUME NEW m, NEW w, NEW cache, GoodCache(cache, m, w), NEW a
  PROVE  \A b, mru :
           Place(cache, a, b, mru).time_stamp = cache.time_stamp
BY DEF Place, GoodCache, CacheRecord

(* The other fields of the cache do not matter. *)
LEMMA PlacedSame ==
  ASSUME NEW m \in Nat \ {0}, NEW w \in Nat, NEW cache, NEW next, NEW other,
         NEW other2, NEW a, NEW i, NEW stamp,
         PlacedIn(cache, next, a, i, stamp, m, w),
         GoodCache(other, m, w), other.sets = next.sets,
         GoodCache(other2, m, w), other2.sets = cache.sets
  PROVE  PlacedIn(other2, other, a, i, stamp, m, w)
BY DEF PlacedIn, SetChange

(* Demand, under any policy: the new block has the value of the clock, and *)
(* the clock goes on.                                                      *)
LEMMA DemandFrames ==
  ASSUME NEW m \in Nat \ {0}, NEW w \in Nat, NEW cache,
         GoodCache(cache, m, w), NEW a \in Nat, ~Cached(cache, a),
         FrameFor(cache, a) # NoVictim
  PROVE  /\ PlacedIn(cache, Demand(cache, a), a, FrameFor(cache, a),
                     cache.time_stamp, m, w)
         /\ Demand(cache, a).time_stamp = cache.time_stamp + 1
<1> DEFINE block == NewBlock(Tag(cache, a), cache.time_stamp)
           b == [block EXCEPT !.counter = 1]
           placed == Place(cache, a, b, TRUE)
           next == Demand(cache, a)
<1>1. Tag(cache, a) \in Nat /\ cache.time_stamp \in Nat
  BY TagType, CacheFields
<1>2. block \in Block /\ block.valid_bit /\ block.tag = Tag(cache, a)
      /\ block.time_stamp = cache.time_stamp
  BY <1>1, NewBlockType DEF NewBlock
<1>3. next = [placed EXCEPT !.time_stamp = @ + 1]  BY DEF Demand
<1> HIDE DEF block, next
<1>4. b \in Block /\ b.valid_bit /\ b.tag = Tag(cache, a)
      /\ b.time_stamp = cache.time_stamp
  BY <1>2 DEF Block
<1> HIDE DEF b
<1>5. PlacedIn(cache, placed, a, FrameFor(cache, a), b.time_stamp, m, w)
  BY <1>4, PlaceFrames
<1>6. placed.time_stamp = cache.time_stamp /\ GoodCache(placed, m, w)
  <2>1. placed.time_stamp = cache.time_stamp  BY PlaceClock
  <2>2. GoodCache(placed, m, w)  BY <1>4, PlaceGood
  <2> QED  BY <2>1, <2>2
<1> HIDE DEF placed
<1>7. next.sets = placed.sets /\ next.time_stamp = placed.time_stamp + 1
  BY <1>3, <1>6 DEF GoodCache, CacheRecord
<1>8. GoodCache(next, m, w)  BY <1>3, <1>6, ClockGood
<1>9. PlacedIn(cache, next, a, FrameFor(cache, a), cache.time_stamp, m, w)
  BY <1>4, <1>5, <1>7, <1>8, PlacedSame
<1> QED  BY <1>6, <1>7, <1>9 DEF next

(* A hit under LRU: the block stays in its frame. *)
TouchedIn(cache, a, i, m, w) ==
  /\ PlacedIn(cache, Touch(cache, a), a, i, cache.time_stamp, m, w)
  /\ i \in ValidFrames(cache.sets[a % m])
  /\ cache.sets[a % m].frames[i].tag = a \div m

LEMMA TouchFrames ==
  ASSUME NEW m \in Nat \ {0}, NEW w \in Nat, NEW cache,
         GoodCache(cache, m, w), NEW a \in Nat, Cached(cache, a),
         config.replace_policy = "LRU"
  PROVE  \E i \in 1 .. w : TouchedIn(cache, a, i, m, w)
<1> DEFINE k == a % m
           t == a \div m
           set == cache.sets[k]
           f == Find(set, t)
           next == Touch(cache, a)
<1>1. GoodSet(set, w) /\ Has(set, t)
  <2>1. Tag(cache, a) = t /\ SetOf(cache, a) = set /\ GoodSet(set, w)
    BY Located
  <2> HIDE DEF t, set
  <2> QED  BY <2>1 DEF Cached
<1>2. Restamped(cache, next, k, f, m, w)  BY TouchStamps
<1> HIDE DEF next
<1>3. PICK new :
        /\ SetChange(cache, next, k, new, m, w)
        /\ \A j \in 1 .. w :
             /\ new.frames[j].valid_bit = set.frames[j].valid_bit
             /\ new.frames[j].tag = set.frames[j].tag
             /\ new.frames[j].dirty_bit = set.frames[j].dirty_bit
             /\ new.frames[j].time_stamp =
                  IF j = f THEN cache.time_stamp ELSE set.frames[j].time_stamp
  BY <1>2 DEF Restamped
<1>4. GoodSet(new, w)
  <2>1. GoodCache(next, m, w) /\ k \in 0 .. m - 1 /\ next.sets[k] = new
    BY <1>3 DEF SetChange
  <2> HIDE DEF k
  <2> QED  BY <2>1, CacheFields
<1>5. f \in 1 .. w /\ set.frames[f].tag = t /\ set.frames[f].valid_bit
  <2> HIDE DEF set, t
  <2> QED  BY <1>1, EntryFrame DEF Entry
<1>6. Frames(set) = 1 .. w /\ Frames(new) = 1 .. w
  <2> HIDE DEF set
  <2> QED  BY <1>1, <1>4, SetFields DEF GoodSet
<1> HIDE DEF f, set, t, k
<1>7. ValidFrames(new) = ValidFrames(set) \cup {f} /\ f \in ValidFrames(set)
  BY <1>3, <1>5, <1>6 DEF ValidFrames
<1>8. Kept(set, new, f)  BY <1>3, <1>6, <1>7 DEF Kept, ValidFrames
<1>9. \E x : /\ SetChange(cache, next, k, x, m, w) /\ Kept(set, x, f)
             /\ x.frames[f].tag = t /\ x.frames[f].time_stamp = cache.time_stamp
  BY <1>3, <1>5, <1>8
<1>10. PlacedIn(cache, next, a, f, cache.time_stamp, m, w)
  BY <1>9 DEF PlacedIn, set, t, k
<1> QED  BY <1>5, <1>7, <1>10 DEF TouchedIn, next, set, t, k

-----------------------------------------------------------------------------
(* The stamp of a block that LIP inserts *)

LEMMA SentinelFits == SENTINEL <= STAMPS
<1> DEFINE n == TS_BITS - 1
           S == SUBSET (1 .. n)
           T == SUBSET (1 .. TS_BITS)
<1>1. TS_BITS \in Nat /\ n \in Nat /\ n <= TS_BITS  BY StampAssumption
<1> HIDE DEF n
<1>2. /\ IsFiniteSet(1 .. n) /\ Cardinality(1 .. n) = n
      /\ IsFiniteSet(1 .. TS_BITS) /\ Cardinality(1 .. TS_BITS) = TS_BITS
  BY <1>1, FS_Interval
<1>3. /\ IsFiniteSet(S) /\ Cardinality(S) = 2 ^ n
      /\ IsFiniteSet(T) /\ Cardinality(T) = 2 ^ TS_BITS
  BY <1>2, FS_SUBSET
<1>4. S \subseteq T  BY <1>1
<1> HIDE DEF S, T
<1>5. Cardinality(S) <= Cardinality(T)  BY <1>3, <1>4, FS_Subset
<1> QED  BY <1>3, <1>5 DEF STAMPS, SENTINEL, n

LEMMA LipIsLeast ==
  ASSUME NEW w \in Nat, NEW set, GoodSet(set, w), NEW clock \in Nat,
         NEW lo \in Nat \ {0}, lo <= clock, clock < SENTINEL,
         StampedSet(set, lo, clock)
  PROVE  /\ LipStamp(set, clock) \in Nat
         /\ lo - 1 <= LipStamp(set, clock)
         /\ \/ ValidFrames(set) = {} /\ LipStamp(set, clock) = clock
            \/ LipStamp(set, clock) < clock
         /\ \A j \in ValidFrames(set) :
              LipStamp(set, clock) < set.frames[j].time_stamp
<1> DEFINE n == set.valid_block_num
           U == {set.frames[i].time_stamp : i \in 1 .. n}
           S == U \cup {SENTINEL}
           least == CHOOSE t \in S : \A u \in S : t <= u
           s == LipStamp(set, clock)
<1>1. n \in 0 .. w /\ ValidFrames(set) = 1 .. n  BY ValidCount
<1>2. \A i \in 1 .. w : set.frames[i].time_stamp \in Nat
  BY SetFields DEF GoodSet, Block
<1>3. s = IF n = 0 THEN clock ELSE (least - 1) % STAMPS
  BY DEF LipStamp
<1>4. SENTINEL \in Nat /\ STAMPS \in Nat \ {0} /\ SENTINEL <= STAMPS
  BY StampSizes, SentinelFits
<1> HIDE DEF s, n
<1>5. CASE n = 0  BY <1>1, <1>3, <1>5 DEF s
<1>6. CASE n # 0
  <2>1. \A u \in U : u \in Nat /\ lo <= u /\ u <= clock
    BY <1>1, <1>2 DEF StampedSet
  <2>2. 1 \in 1 .. n  BY <1>1, <1>6
  <2>3. U # {}  BY <2>2
  <2>4. S \in SUBSET Nat /\ S # {}  BY <1>4, <2>1
  <2>5. least \in S /\ \A u \in S : least <= u
    <3> HIDE DEF S
    <3>1. \E t \in S : \A u \in S : t <= u  BY <2>4, LeastExists
    <3> QED  BY <3>1
  <2> HIDE DEF least
  <2>6. PICK u \in U : least <= u  BY <2>3, <2>5
  <2>7. least \in U  BY <1>4, <2>1, <2>4, <2>5, <2>6
  <2>8. least \in Nat /\ lo <= least /\ least <= clock  BY <2>1, <2>7
  <2>9. least - 1 \in 0 .. STAMPS - 1  BY <1>4, <2>8
  <2>10. s = least - 1  BY <1>3, <1>4, <1>6, <2>9
  <2>11. \A j \in 1 .. n : least <= set.frames[j].time_stamp  BY <2>5
  <2>12. \A j \in 1 .. n : set.frames[j].time_stamp \in Nat  BY <1>1, <1>2
  <2> HIDE DEF U, S
  <2>13. \A j \in 1 .. n : s < set.frames[j].time_stamp
    BY <2>8, <2>10, <2>11, <2>12
  <2>14. s \in Nat /\ lo - 1 <= s /\ s < clock  BY <2>8, <2>10
  <2> QED  BY <1>1, <2>13, <2>14 DEF s
<1> QED  BY <1>5, <1>6

-----------------------------------------------------------------------------
(* What a prefetch inserts, at the one end or the other *)

AtFront == config.insert_policy = "MIP"

PrefetchStamp(cache, a) ==
  IF AtFront THEN cache.time_stamp
  ELSE LipStamp(SetOf(cache, a), cache.time_stamp)

LEMMA PrefetchMissFrames ==
  ASSUME NEW m \in Nat \ {0}, NEW w \in Nat, NEW cache,
         GoodCache(cache, m, w), NEW a \in Nat, ~Cached(cache, a),
         FrameFor(cache, a) # NoVictim
  PROVE  /\ PlacedIn(cache, PrefetchMiss(cache, a), a, FrameFor(cache, a),
                     PrefetchStamp(cache, a), m, w)
         /\ PrefetchMiss(cache, a).time_stamp =
              IF AtFront THEN cache.time_stamp + 1 ELSE cache.time_stamp
<1> DEFINE t == Tag(cache, a)
           stamp == LipStamp(SetOf(cache, a), cache.time_stamp)
           newest == NewBlock(t, cache.time_stamp)
           oldest == NewBlock(t, stamp)
           recent == Place(cache, a, newest, TRUE)
           behind == Place(cache, a, oldest, FALSE)
           next == PrefetchMiss(cache, a)
<1>1. t \in Nat /\ cache.time_stamp \in Nat  BY TagType, CacheFields
<1>2. stamp \in Nat
  <2>1. GoodSet(SetOf(cache, a), w)  BY TagType, CacheFields DEF SetOf
  <2> QED  BY <1>1, <2>1, LipStampType
<1>3. next = IF AtFront THEN [recent EXCEPT !.time_stamp = @ + 1] ELSE behind
  BY DEF PrefetchMiss, AtFront
<1>4. PrefetchStamp(cache, a) = IF AtFront THEN cache.time_stamp ELSE stamp
  BY DEF PrefetchStamp
<1> HIDE DEF stamp, next
<1>5. /\ newest \in Block /\ newest.valid_bit /\ newest.tag = t
      /\ newest.time_stamp = cache.time_stamp
  BY <1>1, NewBlockType DEF NewBlock
<1>6. /\ oldest \in Block /\ oldest.valid_bit /\ oldest.tag = t
      /\ oldest.time_stamp = stamp
  BY <1>1, <1>2, NewBlockType DEF NewBlock
<1> HIDE DEF newest, oldest
<1>7. /\ recent.time_stamp = cache.time_stamp
      /\ behind.time_stamp = cache.time_stamp
  BY PlaceClock
<1>8. CASE AtFront
  <2>1. PlacedIn(cache, recent, a, FrameFor(cache, a), newest.time_stamp, m, w)
    BY <1>5, PlaceFrames
  <2>2. GoodCache(recent, m, w)  BY <1>5, PlaceGood
  <2> HIDE DEF recent
  <2>3. /\ next.sets = recent.sets
        /\ next.time_stamp = recent.time_stamp + 1
    BY <1>3, <1>8, <2>2 DEF GoodCache, CacheRecord
  <2>4. GoodCache(next, m, w)  BY <1>3, <1>8, <2>2, ClockGood
  <2>5. PlacedIn(cache, next, a, FrameFor(cache, a), cache.time_stamp, m, w)
    BY <1>5, <2>1, <2>3, <2>4, PlacedSame
  <2> QED  BY <1>4, <1>7, <1>8, <2>3, <2>5 DEF next
<1>9. CASE ~AtFront
  <2>1. PlacedIn(cache, behind, a, FrameFor(cache, a), oldest.time_stamp, m, w)
    BY <1>6, PlaceFrames
  <2> HIDE DEF behind
  <2> QED  BY <1>3, <1>4, <1>6, <1>7, <1>9, <2>1 DEF next
<1> QED  BY <1>8, <1>9

(* The stamps after a block has come in or was used. *)
LEMMA PlacedStamps ==
  ASSUME NEW m \in Nat \ {0}, NEW w \in Nat, NEW cache, NEW next,
         GoodCache(cache, m, w), NEW a \in Nat, NEW i \in 1 .. w,
         NEW stamp \in Nat, PlacedIn(cache, next, a, i, stamp, m, w),
         NEW lo \in Int, Stamped(cache, lo, m), NEW low \in Int,
         low <= lo, low <= stamp, cache.time_stamp <= next.time_stamp,
         stamp < next.time_stamp \/ (stamp = next.time_stamp /\ i = 1)
  PROVE  Stamped(next, low, m)
<1> DEFINE k == a % m
           old == cache.sets[k]
           clock == cache.time_stamp
           after == next.time_stamp
<1>1. PICK new :
        /\ SetChange(cache, next, k, new, m, w) /\ Kept(old, new, i)
        /\ new.frames[i].time_stamp = stamp
  BY DEF PlacedIn
<1>2. /\ GoodCache(next, m, w) /\ next.sets[k] = new /\ k \in 0 .. m - 1
      /\ \A j \in 0 .. m - 1 : j # k => next.sets[j] = cache.sets[j]
  BY <1>1 DEF SetChange
<1>3. clock \in Nat /\ after \in Nat  BY <1>2, CacheFields
<1>4. /\ lo <= clock
      /\ \A j \in 0 .. m - 1 : StampedSet(cache.sets[j], lo, clock)
  BY DEF Stamped
<1>5. \A j \in 0 .. m - 1 : \A h \in ValidFrames(cache.sets[j]) :
        cache.sets[j].frames[h].time_stamp \in Nat
  <2> SUFFICES ASSUME NEW j \in 0 .. m - 1, NEW h \in ValidFrames(cache.sets[j])
               PROVE  cache.sets[j].frames[h].time_stamp \in Nat
    OBVIOUS
  <2>1. GoodSet(cache.sets[j], w)  BY CacheFields
  <2>2. h \in 1 .. w  BY <2>1, ValidCount
  <2> QED  BY <2>1, <2>2, SetFields DEF GoodSet, Block
<1> HIDE DEF k, clock, after
<1>6. \A j \in 0 .. m - 1 : StampedSet(cache.sets[j], low, after)
  BY <1>3, <1>4, <1>5 DEF StampedSet, clock, after
<1>7. StampedSet(new, low, after)
  <2> SUFFICES ASSUME NEW h \in ValidFrames(new)
               PROVE  /\ low <= new.frames[h].time_stamp
                      /\ \/ new.frames[h].time_stamp < after
                         \/ new.frames[h].time_stamp = after /\ h = 1
    BY DEF StampedSet
  <2>1. CASE h = i  BY <1>1, <2>1 DEF after
  <2>2. CASE h # i
    <3>1. /\ h \in ValidFrames(old)
          /\ new.frames[h].time_stamp = old.frames[h].time_stamp
      BY <1>1, <2>2 DEF Kept
    <3> QED  BY <1>2, <1>6, <3>1 DEF StampedSet
  <2> QED  BY <2>1, <2>2
<1>8. low <= after  BY <1>3, <1>4 DEF clock, after
<1>9. \A j \in 0 .. m - 1 : StampedSet(next.sets[j], low, after)
  BY <1>2, <1>6, <1>7
<1> QED  BY <1>8, <1>9 DEF Stamped, after

(* Frame i has block a already, or a may take it. *)
Takes(cache, a, i, m, w) ==
  LET set == cache.sets[a % m]
  IN  \/ i \in ValidFrames(set) /\ set.frames[i].tag = a \div m
      \/ ~Has(set, a \div m) /\ CanTake(set, i, w)

LEMMA OneList ==
  ASSUME NEW m \in Nat \ {0}, NEW w \in Nat, NEW cache, NEW next, NEW k,
         NEW new, SetChange(cache, next, k, new, m, w)
  PROVE  Recency(next) = [Recency(cache) EXCEPT ![k] = BlockList(new, m, k)]
<1>1. /\ GoodCache(cache, m, w) /\ GoodCache(next, m, w)
      /\ k \in 0 .. m - 1 /\ next.sets[k] = new
      /\ \A j \in 0 .. m - 1 : j # k => next.sets[j] = cache.sets[j]
  BY DEF SetChange
<1>2. /\ Recency(cache) = [j \in 0 .. m - 1 |-> BlockList(cache.sets[j], m, j)]
      /\ Recency(next) = [j \in 0 .. m - 1 |-> BlockList(next.sets[j], m, j)]
  BY <1>1, RecencyIs
<1> QED  BY <1>1, <1>2

(* A block stamped with the clock is the youngest of its set. *)
LEMMA PlacedYoungest ==
  ASSUME NEW m \in Nat \ {0}, NEW w \in Nat, NEW cache, NEW next,
         GoodCache(cache, m, w), NEW a \in Nat, NEW i \in 1 .. w,
         PlacedIn(cache, next, a, i, cache.time_stamp, m, w),
         NEW lo \in Int, Stamped(cache, lo, m)
  PROVE  /\ i \in ValidFrames(next.sets[a % m])
         /\ next.sets[a % m].frames[i].tag = a \div m
         /\ Youngest(next.sets[a % m], i)
<1> DEFINE k == a % m
           t == a \div m
           old == cache.sets[k]
           clock == cache.time_stamp
<1>1. PICK new :
        /\ SetChange(cache, next, k, new, m, w) /\ Kept(old, new, i)
        /\ new.frames[i].tag = t /\ new.frames[i].time_stamp = clock
  BY DEF PlacedIn
<1>2. /\ GoodCache(next, m, w) /\ next.sets[k] = new /\ k \in 0 .. m - 1
  BY <1>1 DEF SetChange
<1> HIDE DEF k, t, clock
<1>3. GoodSet(old, w) /\ GoodSet(new, w)  BY <1>2, CacheFields
<1>4. /\ StampedSet(old, lo, clock)
  BY <1>2 DEF Stamped, clock
<1> HIDE DEF old
<1>5. ASSUME NEW j \in ValidFrames(new) \ {i}
      PROVE  Later(new, i, j)
  <2>1. /\ j \in ValidFrames(old)
        /\ new.frames[j].time_stamp = old.frames[j].time_stamp
    BY <1>1 DEF Kept
  <2>2. \/ old.frames[j].time_stamp < clock
        \/ old.frames[j].time_stamp = clock /\ j = 1
    BY <1>4, <2>1 DEF StampedSet
  <2>3. old.frames[j].time_stamp \in Nat /\ clock \in Nat
    <3>1. j \in 1 .. w  BY <1>3, <2>1, ValidCount
    <3> QED  BY <1>3, <3>1, SetFields, CacheFields DEF GoodSet, Block, clock
  <2> QED  BY <1>1, <2>1, <2>2, <2>3 DEF Later
<1>6. Youngest(new, i) /\ i \in ValidFrames(new)
  BY <1>1, <1>5 DEF Youngest, Kept
<1> QED  BY <1>1, <1>2, <1>6 DEF k, t

LEMMA PlacedFront ==
  ASSUME NEW m \in Nat \ {0}, NEW w \in Nat, NEW cache, NEW next,
         GoodCache(cache, m, w), NEW a \in Nat, NEW i \in 1 .. w,
         PlacedIn(cache, next, a, i, cache.time_stamp, m, w),
         NEW lo \in Int, Stamped(cache, lo, m), Takes(cache, a, i, m, w)
  PROVE  Recency(next) =
           [Recency(cache) EXCEPT ![a % m] = Abstract!Front(@, a, w)]
<1> DEFINE k == a % m
           t == a \div m
           old == cache.sets[k]
           clock == cache.time_stamp
<1>1. PICK new :
        /\ SetChange(cache, next, k, new, m, w) /\ Kept(old, new, i)
        /\ new.frames[i].tag = t /\ new.frames[i].time_stamp = clock
  BY DEF PlacedIn
<1>2. /\ GoodCache(next, m, w) /\ next.sets[k] = new /\ k \in 0 .. m - 1
  BY <1>1 DEF SetChange
<1>3. /\ t \in Nat /\ a = t * m + k  BY AddressWhole
<1> HIDE DEF k, t, clock
<1>4. GoodSet(old, w) /\ GoodSet(new, w)  BY <1>2, CacheFields
<1> HIDE DEF old
<1>5. Youngest(new, i)
  <2>1. Youngest(next.sets[a % m], i)  BY PlacedYoungest
  <2> QED  BY <1>2, <2>1 DEF k
<1>6. \/ i \in ValidFrames(old) /\ old.frames[i].tag = t
      \/ ~Has(old, t) /\ CanTake(old, i, w)
  BY DEF Takes, old, k, t
<1>7. BlockList(new, m, k) = Abstract!Front(BlockList(old, m, k), t * m + k, w)
  BY <1>1, <1>2, <1>3, <1>4, <1>5, <1>6, ListFront
<1>8. Recency(next) = [Recency(cache) EXCEPT ![k] = BlockList(new, m, k)]
  BY <1>1, OneList
<1>9. Recency(cache)[k] = BlockList(old, m, k)
  <2>1. Recency(cache) = [j \in 0 .. m - 1 |-> BlockList(cache.sets[j], m, j)]
    BY RecencyIs
  <2> QED  BY <1>2, <2>1 DEF old
<1> QED  BY <1>3, <1>7, <1>8, <1>9 DEF k

LEMMA PlacedBack ==
  ASSUME NEW m \in Nat \ {0}, NEW w \in Nat, NEW cache, NEW next,
         GoodCache(cache, m, w), NEW a \in Nat, NEW i \in 1 .. w,
         NEW stamp \in Nat, PlacedIn(cache, next, a, i, stamp, m, w),
         CanTake(cache.sets[a % m], i, w),
         \A j \in ValidFrames(cache.sets[a % m]) :
           stamp < cache.sets[a % m].frames[j].time_stamp
  PROVE  Recency(next) =
           [Recency(cache) EXCEPT ![a % m] = Abstract!Behind(@, a, w)]
<1> DEFINE k == a % m
           t == a \div m
           old == cache.sets[k]
<1>1. PICK new :
        /\ SetChange(cache, next, k, new, m, w) /\ Kept(old, new, i)
        /\ new.frames[i].tag = t /\ new.frames[i].time_stamp = stamp
  BY DEF PlacedIn
<1>2. /\ GoodCache(next, m, w) /\ next.sets[k] = new /\ k \in 0 .. m - 1
  BY <1>1 DEF SetChange
<1>3. /\ t \in Nat /\ a = t * m + k  BY AddressWhole
<1>4. CanTake(old, i, w)  OBVIOUS
<1>5. \A j \in ValidFrames(old) : stamp < old.frames[j].time_stamp  OBVIOUS
<1> HIDE DEF k, t
<1>6. GoodSet(old, w) /\ GoodSet(new, w)  BY <1>2, CacheFields
<1> HIDE DEF old
<1>7. ASSUME NEW j \in ValidFrames(new) \ {i}
      PROVE  Later(new, j, i)
  <2>1. /\ j \in ValidFrames(old)
        /\ new.frames[j].time_stamp = old.frames[j].time_stamp
    BY <1>1 DEF Kept
  <2>2. old.frames[j].time_stamp \in Nat
    <3>1. j \in 1 .. w  BY <1>6, <2>1, ValidCount
    <3> QED  BY <1>6, <3>1, SetFields DEF GoodSet, Block
  <2> QED  BY <1>1, <1>5, <2>1, <2>2 DEF Later
<1>8. Oldest(new, i)  BY <1>7 DEF Oldest
<1>9. BlockList(new, m, k) = Abstract!Behind(BlockList(old, m, k), t * m + k, w)
  BY <1>1, <1>2, <1>3, <1>4, <1>6, <1>8, ListBehind
<1>10. Recency(next) = [Recency(cache) EXCEPT ![k] = BlockList(new, m, k)]
  BY <1>1, OneList
<1>11. Recency(cache)[k] = BlockList(old, m, k)
  <2>1. Recency(cache) = [j \in 0 .. m - 1 |-> BlockList(cache.sets[j], m, j)]
    BY RecencyIs
  <2> QED  BY <1>2, <2>1 DEF old
<1> QED  BY <1>3, <1>9, <1>10, <1>11 DEF k

-----------------------------------------------------------------------------
(* What leaves blocks and stamps alone leaves the lists alone *)

SameFrames(cache, next, m, w) ==
  \A k \in 0 .. m - 1 : \A j \in 1 .. w :
    /\ next.sets[k].frames[j].valid_bit = cache.sets[k].frames[j].valid_bit
    /\ next.sets[k].frames[j].tag = cache.sets[k].frames[j].tag
    /\ next.sets[k].frames[j].time_stamp = cache.sets[k].frames[j].time_stamp

LEMMA SameLists ==
  ASSUME NEW m \in Nat \ {0}, NEW w \in Nat, NEW cache, NEW next,
         GoodCache(cache, m, w), GoodCache(next, m, w),
         SameFrames(cache, next, m, w)
  PROVE  Recency(next) = Recency(cache)
<1>1. ASSUME NEW k \in 0 .. m - 1
      PROVE  BlockList(next.sets[k], m, k) = BlockList(cache.sets[k], m, k)
  <2> DEFINE old == cache.sets[k]
             new == next.sets[k]
             n == old.valid_block_num
             p == Order(old)
  <2>1. /\ \A j \in 1 .. w :
             /\ new.frames[j].valid_bit = old.frames[j].valid_bit
             /\ new.frames[j].tag = old.frames[j].tag
             /\ new.frames[j].time_stamp = old.frames[j].time_stamp
        /\ GoodSet(old, w) /\ GoodSet(new, w)
    BY CacheFields DEF SameFrames
  <2> HIDE DEF old, new
  <2>2. Frames(old) = 1 .. w /\ Frames(new) = 1 .. w
    BY <2>1, SetFields DEF GoodSet
  <2>3. ValidFrames(new) = ValidFrames(old)  BY <2>1, <2>2 DEF ValidFrames
  <2>4. new.valid_block_num = n /\ ValidFrames(old) \subseteq 1 .. w
    BY <2>1, <2>3, ValidCount
  <2>5. Sorted(old, p, n)  BY <2>1, OrderSorted
  <2>6. Sorted(new, p, n)
    <3>1. \A r \in 1 .. n : p[r] \in 1 .. w  BY <2>4, <2>5 DEF Sorted
    <3> QED  BY <2>1, <2>3, <2>5, <3>1 DEF Sorted, Later
  <2>7. BlockList(old, m, k) = [r \in 1 .. n |-> old.frames[p[r]].tag * m + k]
    BY DEF BlockList
  <2>8. BlockList(new, m, k) = [r \in 1 .. n |-> new.frames[p[r]].tag * m + k]
    <3> HIDE DEF n, p
    <3> QED  BY <2>1, <2>4, <2>6, ListSorted
  <2>9. \A r \in 1 .. n : new.frames[p[r]].tag = old.frames[p[r]].tag
    BY <2>1, <2>4, <2>5 DEF Sorted
  <2> HIDE DEF n, p
  <2> QED  BY <2>7, <2>8, <2>9 DEF old, new
<1>2. Recency(cache) = [k \in 0 .. m - 1 |-> BlockList(cache.sets[k], m, k)]
  BY RecencyIs
<1>3. Recency(next) = [k \in 0 .. m - 1 |-> BlockList(next.sets[k], m, k)]
  BY RecencyIs
<1> QED  BY <1>1, <1>2, <1>3

LEMMA SameStamps ==
  ASSUME NEW m \in Nat \ {0}, NEW w \in Nat, NEW cache, NEW next,
         GoodCache(cache, m, w), GoodCache(next, m, w),
         SameFrames(cache, next, m, w), next.time_stamp = cache.time_stamp,
         NEW lo, Stamped(cache, lo, m)
  PROVE  Stamped(next, lo, m)
<1>1. ASSUME NEW k \in 0 .. m - 1
      PROVE  StampedSet(next.sets[k], lo, next.time_stamp)
  <2> DEFINE old == cache.sets[k]
             new == next.sets[k]
  <2>1. /\ \A j \in 1 .. w :
             /\ new.frames[j].valid_bit = old.frames[j].valid_bit
             /\ new.frames[j].time_stamp = old.frames[j].time_stamp
        /\ GoodSet(old, w) /\ GoodSet(new, w)
    BY CacheFields DEF SameFrames
  <2>2. StampedSet(old, lo, cache.time_stamp)  BY DEF Stamped
  <2> HIDE DEF old, new
  <2>3. Frames(old) = 1 .. w /\ Frames(new) = 1 .. w
    BY <2>1, SetFields DEF GoodSet
  <2>4. ValidFrames(new) = ValidFrames(old) /\ ValidFrames(old) \subseteq 1 .. w
    BY <2>1, <2>3 DEF ValidFrames
  <2>5. StampedSet(new, lo, cache.time_stamp)
    BY <2>1, <2>2, <2>4 DEF StampedSet
  <2> QED  BY <2>5 DEF new
<1> QED  BY <1>1 DEF Stamped

LEMMA SetDirtyFrames ==
  ASSUME NEW m \in Nat \ {0}, NEW w \in Nat, NEW cache,
         GoodCache(cache, m, w), NEW a \in Nat, NEW dirty \in BOOLEAN
  PROVE  /\ SameFrames(cache, SetDirty(cache, a, dirty), m, w)
         /\ SetDirty(cache, a, dirty).time_stamp = cache.time_stamp
<1> DEFINE k == Index(cache, a)
           set == cache.sets[k]
           f == Find(set, Tag(cache, a))
           b == [set.frames[f] EXCEPT !.dirty_bit = dirty]
           new == [set EXCEPT !.frames[f] = b]
           next == SetDirty(cache, a, dirty)
<1>1. k \in 0 .. m - 1 /\ GoodSet(set, w)
  BY TagType, CacheFields
<1>2. /\ next.sets = [cache.sets EXCEPT ![k] = new]
      /\ next.time_stamp = cache.time_stamp
  BY <1>1 DEF SetDirty, GoodCache, CacheRecord
<1>3. \A j \in 1 .. w :
        /\ new.frames[j] = IF j = f THEN b ELSE set.frames[j]
        /\ set.frames[j] \in Block
  <2> HIDE DEF b, f
  <2> QED  BY <1>1, SetFields DEF GoodSet, SetType
<1>4. f \in 1 .. w => /\ b.tag = set.frames[f].tag
                      /\ b.valid_bit = set.frames[f].valid_bit
                      /\ b.time_stamp = set.frames[f].time_stamp
  BY <1>3 DEF Block
<1> HIDE DEF b, f, new
<1>5. \A j \in 1 .. w :
        /\ new.frames[j].valid_bit = set.frames[j].valid_bit
        /\ new.frames[j].tag = set.frames[j].tag
        /\ new.frames[j].time_stamp = set.frames[j].time_stamp
  BY <1>3, <1>4
<1> HIDE DEF next, k
<1>6. \A j \in 0 .. m - 1 :
        next.sets[j] = IF j = k THEN new ELSE cache.sets[j]
  BY <1>1, <1>2, CacheFields
<1>7. SameFrames(cache, next, m, w)  BY <1>5, <1>6 DEF SameFrames
<1> QED  BY <1>2, <1>7 DEF next

LEMMA TouchLfuFrames ==
  ASSUME NEW m \in Nat \ {0}, NEW w \in Nat, NEW cache,
         GoodCache(cache, m, w), NEW a \in Nat,
         config.replace_policy = "LFU"
  PROVE  /\ SameFrames(cache, Touch(cache, a), m, w)
         /\ Touch(cache, a).time_stamp = cache.time_stamp
<1> DEFINE k == Index(cache, a)
           set == cache.sets[k]
           f == Find(set, Tag(cache, a))
           clear == ClearMRU(set)
           b == [clear.frames[f] EXCEPT !.MRU = TRUE, !.counter = @ + 1]
           new == [clear EXCEPT !.frames[f] = b]
           next == Touch(cache, a)
<1>1. k \in 0 .. m - 1 /\ GoodSet(set, w)
  BY TagType, CacheFields
<1>2. next = [cache EXCEPT !.sets[k] = new]
  BY DEF Touch, TouchLFU
<1>3. /\ next.sets = [cache.sets EXCEPT ![k] = new]
      /\ next.time_stamp = cache.time_stamp
  <2> HIDE DEF next, new, k
  <2> QED  BY <1>1, <1>2 DEF GoodCache, CacheRecord
<1>4. /\ \A j \in 1 .. w :
           clear.frames[j] = [set.frames[j] EXCEPT !.MRU = FALSE]
      /\ GoodSet(clear, w) /\ \A j \in 1 .. w : set.frames[j] \in Block
  BY <1>1, ClearMRUGood, SetFields DEF GoodSet
<1>5. \A j \in 1 .. w : new.frames[j] = IF j = f THEN b ELSE clear.frames[j]
  <2> HIDE DEF clear, b, f
  <2> QED  BY <1>4 DEF GoodSet, SetType
<1> HIDE DEF next, new, clear, set, f, k
<1>6. ASSUME NEW j \in 1 .. w
      PROVE  /\ new.frames[j].valid_bit = set.frames[j].valid_bit
             /\ new.frames[j].tag = set.frames[j].tag
             /\ new.frames[j].time_stamp = set.frames[j].time_stamp
  <2>1. /\ clear.frames[j].valid_bit = set.frames[j].valid_bit
        /\ clear.frames[j].tag = set.frames[j].tag
        /\ clear.frames[j].time_stamp = set.frames[j].time_stamp
    BY <1>4 DEF Block
  <2>2. CASE j = f
    <3>1. new.frames[j] =
            [clear.frames[j] EXCEPT !.MRU = TRUE, !.counter = @ + 1]
      BY <1>5, <2>2
    <3>2. clear.frames[j] \in Block  BY <1>4, SetFields DEF GoodSet
    <3> QED  BY <2>1, <3>1, <3>2 DEF Block
  <2>3. CASE j # f  BY <1>5, <2>1, <2>3
  <2> QED  BY <2>2, <2>3
<1>7. \A j \in 0 .. m - 1 :
        next.sets[j] = IF j = k THEN new ELSE cache.sets[j]
  BY <1>1, <1>3, CacheFields
<1>8. SameFrames(cache, next, m, w)
  BY <1>6, <1>7 DEF SameFrames, set
<1> QED  BY <1>3, <1>8 DEF next

-----------------------------------------------------------------------------
(* A cache whose stamps are lo or more, and whose clock is top at most.     *)
Ready(cache, lo, top, m, w) ==
  /\ GoodCache(cache, m, w) /\ Stamped(cache, lo, m)
  /\ lo \in Int /\ top \in Nat /\ cache.time_stamp <= top

(* The replacement policies that always find a frame. *)
Finds(w) == UnderLru \/ (config.replace_policy = "LFU" /\ w > 1)

LEMMA FrameFound ==
  ASSUME NEW m \in Nat \ {0}, NEW w \in Nat \ {0}, NEW cache, NEW lo, NEW top,
         Ready(cache, lo, top, m, w), top < SENTINEL, Finds(w), NEW a \in Nat
  PROVE  FrameFor(cache, a) # NoVictim /\ FrameFor(cache, a) \in 1 .. w
<1>1. GoodCache(cache, m, w) /\ Stamped(cache, lo, m) /\ lo \in Int
  BY DEF Ready
<1>2. FrameFor(cache, a) # NoVictim
  <2>1. CASE UnderLru
    <3>1. cache.time_stamp < SENTINEL
      <4>1. cache.time_stamp \in Nat  BY <1>1 DEF GoodCache, CacheRecord
      <4> QED  BY <4>1, StampSizes DEF Ready
    <3> QED  BY <1>1, <2>1, <3>1, LruFrame
  <2>2. CASE config.replace_policy = "LFU" /\ w > 1
    BY <1>1, <2>2, GoneLeaves
  <2> QED  BY <2>1, <2>2 DEF Finds
<1>3. FrameFor(cache, a) \in 1 .. w
  <2>1. GoodSet(SetOf(cache, a), w)  BY <1>1, Located
  <2> QED  BY <1>2, <2>1, FrameChosen DEF FrameFor
<1> QED  BY <1>2, <1>3

LEMMA TouchReady ==
  ASSUME NEW m \in Nat \ {0}, NEW w \in Nat, NEW cache, NEW lo, NEW top,
         Ready(cache, lo, top, m, w), NEW a \in Nat, Cached(cache, a),
         config.replace_policy \in {"LRU", "LFU"}
  PROVE  Ready(Touch(cache, a), lo, top + 1, m, w)
<1> DEFINE next == Touch(cache, a)
<1>1. /\ GoodCache(cache, m, w) /\ Stamped(cache, lo, m) /\ lo \in Int
      /\ top \in Nat /\ cache.time_stamp <= top /\ cache.time_stamp \in Nat
      /\ lo <= cache.time_stamp
  BY CacheFields DEF Ready, Stamped
<1>2. GoodCache(next, m, w)  BY <1>1, TouchGood
<1>3. CASE config.replace_policy = "LFU"
  <2>1. SameFrames(cache, next, m, w) /\ next.time_stamp = cache.time_stamp
    BY <1>1, <1>3, TouchLfuFrames
  <2> HIDE DEF next
  <2>2. Stamped(next, lo, m)  BY <1>1, <1>2, <2>1, SameStamps
  <2> QED  BY <1>1, <1>2, <2>1, <2>2 DEF Ready, next
<1>4. CASE config.replace_policy = "LRU"
  <2>1. PICK i \in 1 .. w :
          PlacedIn(cache, next, a, i, cache.time_stamp, m, w)
    BY <1>1, <1>4, TouchFrames DEF TouchedIn
  <2>2. next.time_stamp = cache.time_stamp + 1  BY <1>1, <1>4, TouchStamps
  <2> HIDE DEF next
  <2>3. Stamped(next, lo, m)  BY <1>1, <2>1, <2>2, PlacedStamps
  <2> QED  BY <1>1, <1>2, <2>2, <2>3 DEF Ready, next
<1> QED  BY <1>3, <1>4

LEMMA SetDirtyReady ==
  ASSUME NEW m \in Nat \ {0}, NEW w \in Nat, NEW cache, NEW lo, NEW top,
         Ready(cache, lo, top, m, w), NEW a \in Nat, NEW dirty \in BOOLEAN
  PROVE  /\ Ready(SetDirty(cache, a, dirty), lo, top, m, w)
         /\ Recency(SetDirty(cache, a, dirty)) = Recency(cache)
<1> DEFINE next == SetDirty(cache, a, dirty)
<1>1. GoodCache(cache, m, w) /\ Stamped(cache, lo, m) /\ lo \in Int
      /\ top \in Nat /\ cache.time_stamp <= top
  BY DEF Ready
<1>2. GoodCache(next, m, w)  BY <1>1, SetDirtyGood
<1>3. SameFrames(cache, next, m, w) /\ next.time_stamp = cache.time_stamp
  BY <1>1, SetDirtyFrames
<1> HIDE DEF next
<1>4. Stamped(next, lo, m)  BY <1>1, <1>2, <1>3, SameStamps
<1>5. Recency(next) = Recency(cache)  BY <1>1, <1>2, <1>3, SameLists
<1> QED  BY <1>1, <1>2, <1>3, <1>4, <1>5 DEF Ready, next

LEMMA DemandReady ==
  ASSUME NEW m \in Nat \ {0}, NEW w \in Nat, NEW cache, NEW lo, NEW top,
         Ready(cache, lo, top, m, w), NEW a \in Nat, ~Cached(cache, a),
         FrameFor(cache, a) # NoVictim, FrameFor(cache, a) \in 1 .. w
  PROVE  Ready(Demand(cache, a), lo, top + 1, m, w)
<1> DEFINE next == Demand(cache, a)
<1>1. /\ GoodCache(cache, m, w) /\ Stamped(cache, lo, m) /\ lo \in Int
      /\ top \in Nat /\ cache.time_stamp <= top /\ cache.time_stamp \in Nat
      /\ lo <= cache.time_stamp
  BY CacheFields DEF Ready, Stamped
<1>2. GoodCache(next, m, w)  BY <1>1, DemandGood
<1>3. /\ PlacedIn(cache, next, a, FrameFor(cache, a), cache.time_stamp, m, w)
      /\ next.time_stamp = cache.time_stamp + 1
  BY <1>1, DemandFrames
<1> HIDE DEF next
<1>4. Stamped(next, lo, m)  BY <1>1, <1>3, PlacedStamps
<1> QED  BY <1>1, <1>2, <1>3, <1>4 DEF Ready, next

(* The stamps reach one lower when LIP inserts, and no less than that. *)
LEMMA PrefetchStampIs ==
  ASSUME NEW m \in Nat \ {0}, NEW w \in Nat, NEW cache, NEW lo, NEW top,
         Ready(cache, lo, top, m, w), NEW a \in Nat, lo > 0, top < SENTINEL,
         ~AtFront, FrameFor(cache, a) # NoVictim
  PROVE  LET stamp == PrefetchStamp(cache, a)
             set == cache.sets[a % m]
         IN  /\ stamp \in Nat /\ lo - 1 <= stamp
             /\ \/ stamp < cache.time_stamp
                \/ stamp = cache.time_stamp /\ FrameFor(cache, a) = 1
             /\ \A j \in ValidFrames(set) : stamp < set.frames[j].time_stamp
<1> DEFINE set == cache.sets[a % m]
           clock == cache.time_stamp
           stamp == PrefetchStamp(cache, a)
           n == set.valid_block_num
<1>1. /\ GoodCache(cache, m, w) /\ Stamped(cache, lo, m) /\ lo \in Nat \ {0}
      /\ clock < SENTINEL /\ clock \in Nat /\ lo <= clock
  BY CacheFields, StampSizes DEF Ready, Stamped
<1>2. /\ GoodSet(set, w) /\ SetOf(cache, a) = set /\ a % m \in 0 .. m - 1
  BY <1>1, Located
<1>3. StampedSet(set, lo, clock)  BY <1>1, <1>2 DEF Stamped
<1>4. stamp = LipStamp(set, clock)  BY <1>2 DEF PrefetchStamp
<1>5. FrameFor(cache, a) = InsertAt(set, config.replace_policy)
  BY <1>2 DEF FrameFor
<1> HIDE DEF set, clock, stamp
<1>6. /\ LipStamp(set, clock) \in Nat
      /\ lo - 1 <= LipStamp(set, clock)
      /\ \/ ValidFrames(set) = {} /\ LipStamp(set, clock) = clock
         \/ LipStamp(set, clock) < clock
      /\ \A j \in ValidFrames(set) :
           LipStamp(set, clock) < set.frames[j].time_stamp
  BY <1>1, <1>2, <1>3, LipIsLeast
<1>7. ASSUME ValidFrames(set) = {} PROVE FrameFor(cache, a) = 1
  <2>1. n \in 0 .. w /\ ValidFrames(set) = 1 .. n  BY <1>2, ValidCount
  <2>2. n = 0  BY <1>7, <2>1
  <2>3. /\ FrameFor(cache, a) \in 1 .. w
        /\ n < w => FrameFor(cache, a) = n + 1
    BY <1>2, <1>5, FrameChosen
  <2> QED  BY <2>1, <2>2, <2>3
<1> QED  BY <1>4, <1>6, <1>7 DEF stamp, clock, set

LEMMA PrefetchMissReady ==
  ASSUME NEW m \in Nat \ {0}, NEW w \in Nat, NEW cache, NEW lo, NEW top,
         Ready(cache, lo, top, m, w), NEW a \in Nat, ~Cached(cache, a),
         FrameFor(cache, a) # NoVictim, FrameFor(cache, a) \in 1 .. w,
         lo > 0 \/ AtFront, top < SENTINEL
  PROVE  Ready(PrefetchMiss(cache, a), IF AtFront THEN lo ELSE lo - 1,
               top + 1, m, w)
<1> DEFINE next == PrefetchMiss(cache, a)
           i == FrameFor(cache, a)
           stamp == PrefetchStamp(cache, a)
<1>1. /\ GoodCache(cache, m, w) /\ Stamped(cache, lo, m) /\ lo \in Int
      /\ top \in Nat /\ cache.time_stamp <= top /\ cache.time_stamp \in Nat
      /\ lo <= cache.time_stamp
  BY CacheFields DEF Ready, Stamped
<1>2. GoodCache(next, m, w)  BY <1>1, PrefetchMissGood
<1>3. /\ PlacedIn(cache, next, a, i, stamp, m, w)
      /\ next.time_stamp = IF AtFront THEN cache.time_stamp + 1
                           ELSE cache.time_stamp
  BY <1>1, PrefetchMissFrames
<1> HIDE DEF next
<1>4. CASE AtFront
  <2>1. stamp = cache.time_stamp  BY <1>4 DEF PrefetchStamp
  <2> HIDE DEF stamp, i
  <2>2. Stamped(next, lo, m)  BY <1>1, <1>3, <1>4, <2>1, PlacedStamps DEF i
  <2> QED  BY <1>1, <1>2, <1>3, <1>4, <2>2 DEF Ready, next
<1>5. CASE ~AtFront
  <2>1. /\ stamp \in Nat /\ lo - 1 <= stamp
        /\ stamp < cache.time_stamp \/ (stamp = cache.time_stamp /\ i = 1)
    BY <1>5, PrefetchStampIs
  <2> HIDE DEF stamp, i
  <2>2. Stamped(next, lo - 1, m)
    <3>1. i \in 1 .. w  BY DEF i
    <3>2. lo - 1 \in Int /\ lo - 1 <= lo  BY <1>1
    <3> QED  BY <1>1, <1>3, <1>5, <2>1, <3>1, <3>2, PlacedStamps
  <2> QED  BY <1>1, <1>2, <1>3, <1>5, <2>2 DEF Ready, next
<1> QED  BY <1>4, <1>5

-----------------------------------------------------------------------------
(* What each operation does to the lists, under LRU *)

LEMMA TouchList ==
  ASSUME NEW m \in Nat \ {0}, NEW w \in Nat, NEW cache, NEW lo, NEW top,
         Ready(cache, lo, top, m, w), NEW a \in Nat, Cached(cache, a), UnderLru
  PROVE  Recency(Touch(cache, a)) =
           [Recency(cache) EXCEPT ![a % m] = Abstract!Front(@, a, w)]
<1>1. /\ GoodCache(cache, m, w) /\ Stamped(cache, lo, m) /\ lo \in Int
      /\ config.replace_policy = "LRU"
  BY DEF Ready, UnderLru
<1>2. PICK i \in 1 .. w : TouchedIn(cache, a, i, m, w)
  BY <1>1, TouchFrames
<1>3. /\ Takes(cache, a, i, m, w)
      /\ PlacedIn(cache, Touch(cache, a), a, i, cache.time_stamp, m, w)
  BY <1>2 DEF Takes, TouchedIn
<1> QED  BY <1>1, <1>3, PlacedFront

(* A block that is not there may take the frame found for it. *)
LEMMA MayTake ==
  ASSUME NEW m \in Nat \ {0}, NEW w \in Nat \ {0}, NEW cache, NEW lo, NEW top,
         Ready(cache, lo, top, m, w), top < SENTINEL, NEW a \in Nat,
         ~Cached(cache, a), UnderLru
  PROVE  /\ CanTake(cache.sets[a % m], FrameFor(cache, a), w)
         /\ Takes(cache, a, FrameFor(cache, a), m, w)
<1>1. GoodCache(cache, m, w) /\ Stamped(cache, lo, m) /\ lo \in Int
  BY DEF Ready
<1>2. cache.time_stamp < SENTINEL
  <2>1. cache.time_stamp \in Nat  BY <1>1 DEF GoodCache, CacheRecord
  <2> QED  BY <2>1, StampSizes DEF Ready
<1>3. CanTake(cache.sets[a % m], FrameFor(cache, a), w)
  BY <1>1, <1>2, LruFrame
<1>4. ~Has(cache.sets[a % m], a \div m)
  <2>1. Tag(cache, a) = a \div m /\ SetOf(cache, a) = cache.sets[a % m]
    BY <1>1, Located
  <2> QED  BY <2>1 DEF Cached
<1> QED  BY <1>3, <1>4 DEF Takes

LEMMA DemandList ==
  ASSUME NEW m \in Nat \ {0}, NEW w \in Nat \ {0}, NEW cache, NEW lo, NEW top,
         Ready(cache, lo, top, m, w), top < SENTINEL, NEW a \in Nat,
         ~Cached(cache, a), UnderLru
  PROVE  Recency(Demand(cache, a)) =
           [Recency(cache) EXCEPT ![a % m] = Abstract!Front(@, a, w)]
<1> DEFINE i == FrameFor(cache, a)
<1>1. GoodCache(cache, m, w) /\ Stamped(cache, lo, m) /\ lo \in Int
  BY DEF Ready
<1>2. i # NoVictim /\ i \in 1 .. w  BY FrameFound DEF Finds
<1>3. Takes(cache, a, i, m, w)  BY MayTake
<1>4. PlacedIn(cache, Demand(cache, a), a, i, cache.time_stamp, m, w)
  BY <1>1, <1>2, DemandFrames
<1> HIDE DEF i
<1> QED  BY <1>1, <1>2, <1>3, <1>4, PlacedFront

LEMMA PrefetchMissList ==
  ASSUME NEW m \in Nat \ {0}, NEW w \in Nat \ {0}, NEW cache, NEW lo, NEW top,
         Ready(cache, lo, top, m, w), top < SENTINEL, NEW a \in Nat,
         ~Cached(cache, a), UnderLru, lo > 0 \/ AtFront
  PROVE  Recency(PrefetchMiss(cache, a)) =
           [Recency(cache) EXCEPT ![a % m] =
              IF AtFront THEN Abstract!Front(@, a, w)
              ELSE Abstract!Behind(@, a, w)]
<1> DEFINE i == FrameFor(cache, a)
           stamp == PrefetchStamp(cache, a)
           next == PrefetchMiss(cache, a)
<1>1. GoodCache(cache, m, w) /\ Stamped(cache, lo, m) /\ lo \in Int
  BY DEF Ready
<1>2. i # NoVictim /\ i \in 1 .. w  BY FrameFound DEF Finds
<1>3. Takes(cache, a, i, m, w) /\ CanTake(cache.sets[a % m], i, w)
  BY MayTake
<1>4. PlacedIn(cache, next, a, i, stamp, m, w)
  BY <1>1, <1>2, PrefetchMissFrames
<1> HIDE DEF next
<1>5. CASE AtFront
  <2>1. stamp = cache.time_stamp  BY <1>5 DEF PrefetchStamp
  <2> HIDE DEF i, stamp
  <2>2. Recency(next) =
          [Recency(cache) EXCEPT ![a % m] = Abstract!Front(@, a, w)]
    BY <1>1, <1>2, <1>3, <1>4, <2>1, PlacedFront
  <2> QED  BY <1>5, <2>2 DEF next
<1>6. CASE ~AtFront
  <2>1. /\ stamp \in Nat
        /\ \A j \in ValidFrames(cache.sets[a % m]) :
             stamp < cache.sets[a % m].frames[j].time_stamp
    BY <1>2, <1>6, PrefetchStampIs
  <2> HIDE DEF i, stamp
  <2>2. Recency(next) =
          [Recency(cache) EXCEPT ![a % m] = Abstract!Behind(@, a, w)]
    BY <1>1, <1>2, <1>3, <1>4, <2>1, PlacedBack
  <2> QED  BY <1>6, <2>2 DEF next
<1> QED  BY <1>5, <1>6

(* A block is in the list of its set exactly if it is cached, and the one  *)
(* that gives its frame up is the last of a full list.                     *)
LEMMA ListMember ==
  ASSUME NEW m \in Nat \ {0}, NEW w \in Nat, NEW cache,
         GoodCache(cache, m, w), NEW a \in Nat
  PROVE  Abstract!Member(Recency(cache)[a % m], a) <=> Cached(cache, a)
<1> DEFINE k == a % m
           t == a \div m
           set == cache.sets[k]
           n == set.valid_block_num
           p == Order(set)
           q == BlockList(set, m, k)
<1>1. /\ GoodSet(set, w) /\ SetOf(cache, a) = set /\ k \in 0 .. m - 1
      /\ Tag(cache, a) = t /\ t \in Nat
  BY Located
<1>2. Recency(cache)[k] = q
  <2>1. Recency(cache) = [j \in 0 .. m - 1 |-> BlockList(cache.sets[j], m, j)]
    BY RecencyIs
  <2> HIDE DEF k, q
  <2> QED  BY <1>1, <2>1 DEF q
<1>3. a = t * m + k  BY AddressWhole
<1> HIDE DEF k, t, set
<1>4. Sorted(set, p, n)  BY <1>1, OrderSorted
<1> HIDE DEF p
<1>5. /\ q = [r \in 1 .. n |-> set.frames[p[r]].tag * m + k]
      /\ Len(q) = n
      /\ \A r \in 1 .. n : p[r] \in ValidFrames(set)
                           /\ set.frames[p[r]].tag \in Nat
  <2> HIDE DEF q, n
  <2>1. q \in [1 .. n -> Nat]  BY <1>1, <1>4, ListSorted DEF q, n
  <2>2. q = [r \in 1 .. n |-> set.frames[p[r]].tag * m + k]
    BY <1>1, <1>4, ListSorted DEF q, n
  <2>3. Len(q) = n
    <3>1. n \in Nat  BY <1>1, ValidCount DEF n
    <3> QED  BY <2>1, <3>1, ListLength
  <2>4. \A r \in 1 .. n : p[r] \in ValidFrames(set)
                          /\ set.frames[p[r]].tag \in Nat
    BY <1>1, <1>4, ListSorted DEF n
  <2> QED  BY <2>2, <2>3, <2>4
<1> HIDE DEF q, n
<1>6. \A r \in 1 .. n : q[r] = a <=> set.frames[p[r]].tag = t
  <2> SUFFICES ASSUME NEW r \in 1 .. n
               PROVE  q[r] = a <=> set.frames[p[r]].tag = t
    OBVIOUS
  <2> DEFINE u == set.frames[p[r]].tag
  <2>1. q[r] = u * m + k /\ u \in Nat  BY <1>5
  <2> HIDE DEF u
  <2>2. u * m + k = t * m + k <=> u = t  BY <1>1, <2>1, TagAddress
  <2> QED  BY <1>3, <2>1, <2>2 DEF u
<1>7. Cached(cache, a) <=> \E j \in ValidFrames(set) : set.frames[j].tag = t
  BY <1>1 DEF Cached, Has, ValidFrames
<1>8. \A j \in ValidFrames(set) : \E r \in 1 .. n : p[r] = j
  BY <1>4 DEF Sorted, n
<1>9. Cached(cache, a) <=> \E r \in 1 .. n : q[r] = a
  BY <1>5, <1>6, <1>7, <1>8
<1>10. Abstract!Member(q, a) <=> \E r \in 1 .. n : q[r] = a
  BY <1>5 DEF Abstract!Member
<1> QED  BY <1>2, <1>9, <1>10 DEF k

(* The block that gives its frame up is the last of a full list.           *)
LEMMA GoneLast ==
  ASSUME NEW m \in Nat \ {0}, NEW w \in Nat \ {0}, NEW cache, NEW lo, NEW top,
         Ready(cache, lo, top, m, w), top < SENTINEL, NEW a \in Nat, UnderLru
  PROVE  Gone(cache, a) =
           IF Len(Recency(cache)[a % m]) = w
           THEN {Recency(cache)[a % m][w]} ELSE {}
<1> DEFINE k == a % m
           set == cache.sets[k]
           n == set.valid_block_num
           p == Order(set)
           i == FrameFor(cache, a)
           q == BlockList(set, m, k)
<1>1. /\ GoodCache(cache, m, w) /\ Stamped(cache, lo, m) /\ lo \in Int
      /\ cache.time_stamp < SENTINEL
  <2>1. GoodCache(cache, m, w)  BY DEF Ready
  <2>2. cache.time_stamp \in Nat  BY <2>1 DEF GoodCache, CacheRecord
  <2> QED  BY <2>1, <2>2, StampSizes DEF Ready
<1>2. /\ GoodSet(set, w) /\ SetOf(cache, a) = set /\ k \in 0 .. m - 1
      /\ Index(cache, a) = k /\ SetNum(cache) = m
  <2>1. SetNum(cache) = m  BY <1>1, CacheFields
  <2>2. /\ GoodSet(set, w) /\ SetOf(cache, a) = set /\ k \in 0 .. m - 1
        /\ Index(cache, a) = k
    BY <1>1, Located
  <2> QED  BY <2>1, <2>2
<1>3. Recency(cache)[k] = q
  <2>1. Recency(cache) = [j \in 0 .. m - 1 |-> BlockList(cache.sets[j], m, j)]
    BY <1>1, RecencyIs
  <2> HIDE DEF k, q
  <2> QED  BY <1>2, <2>1 DEF q
<1>4. i \in 1 .. w /\ CanTake(set, i, w)  BY <1>1, LruFrame
<1>5. Gone(cache, a) = {set.frames[j].tag * m + k :
                          j \in {h \in {i} : set.frames[h].valid_bit}}
  BY <1>2 DEF Gone, GetAddr
<1> HIDE DEF k, set, i
<1>6. Sorted(set, p, n)  BY <1>2, OrderSorted
<1>7. n \in 0 .. w /\ ValidFrames(set) \subseteq 1 .. w
      /\ ValidFrames(set) = 1 .. n /\ Frames(set) = 1 .. w
  BY <1>2, ValidCount, SetFields DEF GoodSet
<1>8. q = [r \in 1 .. n |-> set.frames[p[r]].tag * m + k]
  BY DEF BlockList
<1>9. Len(q) = n
  <2> HIDE DEF q, n, p
  <2>1. q \in [1 .. n -> Nat]  BY <1>2, <1>6, ListSorted DEF q, n
  <2> QED  BY <1>7, <2>1, ListLength
<1> HIDE DEF p, q
<1>10. /\ \A r \in 1 .. n : p[r] \in ValidFrames(set)
       /\ \A r, s \in 1 .. n : r < s => Later(set, p[r], p[s])
       /\ \A j \in ValidFrames(set) : \E r \in 1 .. n : p[r] = j
  BY <1>6 DEF Sorted
<1>11. i \in ValidFrames(set) => /\ n = w
                                 /\ \A j \in ValidFrames(set) \ {i} :
                                      Later(set, j, i)
  BY <1>4 DEF CanTake, Oldest, n
<1> HIDE DEF n
<1>12. CASE n = w
  <2>1. i \in ValidFrames(set)  BY <1>4, <1>7, <1>12
  <2>2. w \in 1 .. n  BY <1>12
  <2>3. p[w] = i
    <3> SUFFICES ASSUME p[w] # i PROVE FALSE
      OBVIOUS
    <3>1. PICK r \in 1 .. n : p[r] = i  BY <1>10, <2>1
    <3>2. r < w  BY <1>12, <3>1
    <3>3. Later(set, i, p[w]) /\ Later(set, p[w], i)
      BY <1>10, <1>11, <2>1, <2>2, <3>1, <3>2
    <3>4. p[w] \in 1 .. w  BY <1>7, <1>10, <2>2
    <3> QED  BY <1>2, <1>4, <3>3, <3>4, LaterOrder
  <2>4. q[w] = set.frames[i].tag * m + k  BY <1>8, <2>2, <2>3
  <2>5. set.frames[i].valid_bit  BY <2>1 DEF ValidFrames
  <2> QED  BY <1>3, <1>5, <1>9, <1>12, <2>4, <2>5 DEF k
<1>13. CASE n # w
  <2>1. ~set.frames[i].valid_bit
    BY <1>4, <1>7, <1>11, <1>13 DEF ValidFrames
  <2> QED  BY <1>3, <1>5, <1>9, <1>13, <2>1 DEF k
<1> QED  BY <1>12, <1>13

-----------------------------------------------------------------------------
(* L2 *)

(* What a cache notes besides its sets and its clock does not matter.      *)
LEMMA NotedReady ==
  ASSUME NEW m \in Nat \ {0}, NEW w \in Nat, NEW cache, NEW next, NEW lo,
         NEW top, Ready(cache, lo, top, m, w), GoodCache(next, m, w),
         next.sets = cache.sets, next.time_stamp = cache.time_stamp
  PROVE  Ready(next, lo, top, m, w) /\ Recency(next) = Recency(cache)
<1>1. Ready(next, lo, top, m, w)  BY DEF Ready, Stamped
<1>2. Recency(next) = Recency(cache)  BY DEF Recency, GetAddr, SetNum
<1> QED  BY <1>1, <1>2

(* What a prefetch does to the list, and to the lowest stamp.              *)
WithAhead(lists, t, m, w) ==
  [lists EXCEPT ![t % m] = IF AtFront THEN Abstract!Front(@, t, w)
                           ELSE Abstract!Behind(@, t, w)]

Lowest(lo, fetched) == IF fetched /\ ~AtFront THEN lo - 1 ELSE lo

LEMMA PrefetchReady ==
  ASSUME NEW m \in Nat \ {0}, NEW w \in Nat \ {0}, NEW cache, NEW lo, NEW top,
         Ready(cache, lo, top, m, w), top < SENTINEL, Finds(w),
         NEW a \in Nat, NEW t \in Nat,
         Cached(cache, t) \/ lo > 0 \/ AtFront
  PROVE  /\ Ready(Prefetch(cache, a, t), Lowest(lo, ~Cached(cache, t)),
                  top + 1, m, w)
         /\ UnderLru => Recency(Prefetch(cache, a, t)) =
              IF Cached(cache, t) THEN Recency(cache)
              ELSE WithAhead(Recency(cache), t, m, w)
         /\ Prefetch(cache, a, t).last_miss_addr =
              IF config.strided_prefetch_disabled THEN cache.last_miss_addr
              ELSE a
         /\ Prefetch(cache, a, t).lost = cache.lost
<1> DEFINE noted == IF config.strided_prefetch_disabled THEN cache
                    ELSE [cache EXCEPT !.last_miss_addr = a]
           next == PrefetchMiss(noted, t)
<1>1. /\ GoodCache(cache, m, w) /\ lo \in Int /\ top \in Nat
      /\ cache.time_stamp <= top
  BY DEF Ready
<1>2. GoodCache(noted, m, w)  BY <1>1, ClockGood
<1>3. /\ noted.sets = cache.sets /\ noted.lost = cache.lost
      /\ noted.time_stamp = cache.time_stamp
      /\ noted.last_miss_addr = IF config.strided_prefetch_disabled
                                THEN cache.last_miss_addr ELSE a
  BY <1>1 DEF GoodCache, CacheRecord
<1>4. Prefetch(cache, a, t) = IF Cached(cache, t) THEN noted ELSE next
  BY DEF Prefetch
<1> HIDE DEF noted
<1>5. Cached(noted, t) <=> Cached(cache, t)  BY <1>3, SameSets
<1>6. Ready(noted, lo, top, m, w) /\ Recency(noted) = Recency(cache)
  BY <1>2, <1>3, NotedReady
<1>7. CASE Cached(cache, t)
  <2>1. Lowest(lo, ~Cached(cache, t)) = lo  BY <1>7 DEF Lowest
  <2>2. Ready(noted, lo, top + 1, m, w)
    <3>1. noted.time_stamp \in Nat  BY <1>2 DEF GoodCache, CacheRecord
    <3> QED  BY <1>6, <3>1 DEF Ready
  <2> QED  BY <1>3, <1>4, <1>6, <1>7, <2>1, <2>2
<1>8. CASE ~Cached(cache, t)
  <2>1. FrameFor(noted, t) # NoVictim /\ FrameFor(noted, t) \in 1 .. w
    BY <1>6, FrameFound
  <2>2. Ready(next, IF AtFront THEN lo ELSE lo - 1, top + 1, m, w)
    BY <1>5, <1>6, <1>8, <2>1, PrefetchMissReady
  <2>3. \E b \in Block :
          /\ Placed(noted, next, t, b, config.insert_policy = "MIP", m)
          /\ b.counter = 0
          /\ next.last_miss_addr = noted.last_miss_addr
          /\ next.lost = noted.lost
    BY <1>2, <1>5, <1>8, <2>1, PrefetchMissPlaces
  <2>4. UnderLru => Recency(next) =
          [Recency(noted) EXCEPT ![t % m] =
             IF AtFront THEN Abstract!Front(@, t, w)
             ELSE Abstract!Behind(@, t, w)]
    BY <1>5, <1>6, <1>8, PrefetchMissList
  <2> HIDE DEF next
  <2>5. UnderLru => Recency(next) = WithAhead(Recency(cache), t, m, w)
    BY <1>6, <2>4 DEF WithAhead
  <2>6. Lowest(lo, ~Cached(cache, t)) = IF AtFront THEN lo ELSE lo - 1
    BY <1>8 DEF Lowest
  <2> QED  BY <1>3, <1>4, <1>8, <2>2, <2>3, <2>5, <2>6
<1> QED  BY <1>7, <1>8

LEMMA RecencySizes ==
  /\ Abstract!Sets1 = Sets1 /\ Abstract!Sets2 = Sets2
  /\ Abstract!Ways1 = Ways1 /\ Abstract!Ways2 = Ways2
BY DEF Abstract!Sets1, Abstract!Sets2, Abstract!Ways1, Abstract!Ways2,
       Sets1, Sets2, Ways1, Ways2

(* A block comes in, and the one that gives its frame up goes.             *)
LEMMA DemandKeeps ==
  ASSUME NEW m \in Nat \ {0}, NEW w \in Nat, NEW cache,
         GoodCache(cache, m, w), NEW a \in Nat, ~Cached(cache, a),
         FrameFor(cache, a) # NoVictim
  PROVE  /\ \A x \in Nat :
              Cached(Demand(cache, a), x)
                <=> x = a \/ (Cached(cache, x) /\ x \notin Gone(cache, a))
         /\ Demand(cache, a).last_miss_addr = cache.last_miss_addr
         /\ Demand(cache, a).lost = cache.lost
<1>1. \E b \in Block :
        /\ Placed(cache, Demand(cache, a), a, b, TRUE, m)
        /\ b.counter = 1 /\ ~b.dirty_bit
        /\ Demand(cache, a).last_miss_addr = cache.last_miss_addr
        /\ Demand(cache, a).lost = cache.lost
  BY DemandPlaces
<1> QED  BY <1>1 DEF Placed

(* A read of L2 for block a prefetches (stats.prefetches_l2 counts it).    *)
Fetches(a) ==
  ~(~config.l2_disabled /\ Cached(L2, a)) /\ WantsPrefetch(L2, a)

(* Every insertion into L2 finds a frame. *)
L2Finds == config.l2_disabled \/ Finds(Ways2)

LEMMA ReadReady ==
  ASSUME CachesInv, NEW lo, NEW top, Ready(L2, lo, top, Sets2, Ways2),
         top + 1 < SENTINEL, L2Finds, NEW a \in AddrSet,
         Fetches(a) => lo > 0 \/ AtFront
  PROVE  /\ Ready(L2Read(a), Lowest(lo, Fetches(a)), top + 2, Sets2, Ways2)
         /\ UnderLru => Recency(L2Read(a)) =
              IF Fetches(a)
              THEN Abstract!AfterPrefetch(Abstract!Demanded2(a),
                                          PrefetchAddr(L2, a))
              ELSE Abstract!Demanded2(a)
         /\ L2Read(a).last_miss_addr =
              IF \/ config.l2_disabled \/ config.prefetcher_disabled
                 \/ Cached(L2, a) \/ config.strided_prefetch_disabled
              THEN L2.last_miss_addr ELSE a
         /\ L2Read(a).lost = L2.lost
<1> DEFINE t == PrefetchAddr(L2, a)
           filled == Demand(L2, a)
           ahead == Prefetch(filled, a, t)
<1>1. /\ Sets2 \in Nat \ {0} /\ Ways2 \in Nat \ {0} /\ a \in Nat
      /\ GoodCache(L2, Sets2, Ways2)
      /\ config.replace_policy \in {"LRU", "LFU"}
  BY Sizes, AddressType, CacheAssumption DEF CachesInv, Config
<1>2. /\ top \in Nat /\ lo \in Int /\ top < SENTINEL
      /\ L2.time_stamp \in Nat /\ L2.time_stamp <= top
  <2>1. top \in Nat /\ lo \in Int /\ L2.time_stamp <= top  BY DEF Ready
  <2>2. L2.time_stamp \in Nat  BY <1>1 DEF GoodCache, CacheRecord
  <2> QED  BY <2>1, <2>2, StampSizes
<1>3. t \in Nat
  <2>1. t \in 0 .. BLOCKS - 1 /\ BLOCKS \in Nat
    BY <1>1, PrefetchAddrType, AddressType
  <2> QED  BY <2>1
<1>4. WantsPrefetch(L2, a) <=>
        /\ ~config.l2_disabled /\ ~config.prefetcher_disabled
        /\ ~Cached(filled, t)
  BY DEF WantsPrefetch
<1> HIDE DEF t
<1>5. Lowest(lo, FALSE) = lo  BY DEF Lowest
<1>6. CASE config.l2_disabled
  <2>1. L2Read(a) = L2 /\ ~Fetches(a)  BY <1>4, <1>6 DEF L2Read, Fetches
  <2>2. Ready(L2, lo, top + 2, Sets2, Ways2)  BY <1>2 DEF Ready
  <2>3. Abstract!Demanded2(a) = Recency(L2)  BY <1>6 DEF Abstract!Demanded2
  <2>4. Lowest(lo, Fetches(a)) = lo  BY <2>1 DEF Lowest
  <2> QED  BY <1>6, <2>1, <2>2, <2>3, <2>4
<1>7. CASE ~config.l2_disabled /\ Cached(L2, a)
  <2>1. L2Read(a) = Touch(L2, a) /\ ~Fetches(a)
    BY <1>7 DEF L2Read, Fetches
  <2>2. Ready(Touch(L2, a), lo, top + 1, Sets2, Ways2)
    BY <1>1, <1>7, TouchReady
  <2>3. Ready(Touch(L2, a), lo, top + 2, Sets2, Ways2)
    <3>1. Touch(L2, a).time_stamp \in Nat
      BY <2>2 DEF Ready, GoodCache, CacheRecord
    <3> QED  BY <1>2, <2>2, <3>1 DEF Ready
  <2>4. UnderLru => Recency(Touch(L2, a)) = Abstract!Demanded2(a)
    <3>1. UnderLru => Recency(Touch(L2, a)) =
            [Recency(L2) EXCEPT ![a % Sets2] = Abstract!Front(@, a, Ways2)]
      BY <1>1, <1>7, TouchList
    <3> QED  BY <1>7, <3>1, RecencySizes DEF Abstract!Demanded2
  <2>5. /\ Touch(L2, a).last_miss_addr = L2.last_miss_addr
        /\ Touch(L2, a).lost = L2.lost
    BY <1>1, <1>7, TouchKeeps
  <2>6. Lowest(lo, Fetches(a)) = lo  BY <2>1 DEF Lowest
  <2> QED  BY <1>7, <2>1, <2>3, <2>4, <2>5, <2>6
<1>8. CASE ~config.l2_disabled /\ ~Cached(L2, a)
  <2>1. Finds(Ways2)  BY <1>8 DEF L2Finds
  <2>2. FrameFor(L2, a) # NoVictim /\ FrameFor(L2, a) \in 1 .. Ways2
    BY <1>1, <1>2, <2>1, FrameFound
  <2>3. Ready(filled, lo, top + 1, Sets2, Ways2)
    BY <1>1, <1>8, <2>2, DemandReady
  <2>4. UnderLru => Recency(filled) = Abstract!Demanded2(a)
    <3>1. UnderLru => Recency(filled) =
            [Recency(L2) EXCEPT ![a % Sets2] = Abstract!Front(@, a, Ways2)]
      BY <1>1, <1>2, <1>8, DemandList
    <3> HIDE DEF filled
    <3> QED  BY <1>8, <3>1, RecencySizes DEF Abstract!Demanded2
  <2>5. filled.last_miss_addr = L2.last_miss_addr /\ filled.lost = L2.lost
    BY <1>1, <1>8, <2>2, DemandKeeps
  <2>6. L2Read(a) = IF config.prefetcher_disabled THEN filled ELSE ahead
    BY <1>8 DEF L2Read, t
  <2>7. Fetches(a) <=> ~config.prefetcher_disabled /\ ~Cached(filled, t)
    BY <1>4, <1>8 DEF Fetches
  <2>8. top + 1 \in Nat /\ top + 2 = (top + 1) + 1  BY <1>2
  <2> HIDE DEF filled
  <2>9. CASE config.prefetcher_disabled
    <3>1. Ready(filled, lo, top + 2, Sets2, Ways2)
      <4>1. filled.time_stamp \in Nat
        BY <2>3 DEF Ready, GoodCache, CacheRecord
      <4> QED  BY <1>2, <2>3, <4>1 DEF Ready
    <3>2. Lowest(lo, Fetches(a)) = lo  BY <2>7, <2>9 DEF Lowest
    <3> QED  BY <2>4, <2>5, <2>6, <2>7, <2>9, <3>1, <3>2
  <2>10. CASE ~config.prefetcher_disabled
    <3>1. L2Read(a) = ahead  BY <2>6, <2>10
    <3>2. Fetches(a) <=> ~Cached(filled, t)  BY <2>7, <2>10
    <3>3. Cached(filled, t) \/ lo > 0 \/ AtFront  BY <3>2
    <3>4. /\ Ready(ahead, Lowest(lo, ~Cached(filled, t)), (top + 1) + 1,
                   Sets2, Ways2)
          /\ UnderLru => Recency(ahead) =
               IF Cached(filled, t) THEN Recency(filled)
               ELSE WithAhead(Recency(filled), t, Sets2, Ways2)
          /\ ahead.last_miss_addr =
               IF config.strided_prefetch_disabled
               THEN filled.last_miss_addr ELSE a
          /\ ahead.lost = filled.lost
      BY <1>1, <1>3, <2>1, <2>3, <2>8, <3>3, PrefetchReady
    <3> HIDE DEF ahead
    <3>5. \A r : WithAhead(r, t, Sets2, Ways2) = Abstract!AfterPrefetch(r, t)
      BY RecencySizes DEF WithAhead, Abstract!AfterPrefetch, AtFront
    <3>6. Lowest(lo, Fetches(a)) = Lowest(lo, ~Cached(filled, t))
      BY <3>2 DEF Lowest
    <3>7. UnderLru => Recency(ahead) =
            IF Fetches(a) THEN Abstract!AfterPrefetch(Abstract!Demanded2(a), t)
            ELSE Abstract!Demanded2(a)
      BY <2>4, <3>2, <3>4, <3>5
    <3> QED  BY <1>8, <2>5, <2>8, <2>10, <3>1, <3>4, <3>6, <3>7 DEF t
  <2> QED  BY <2>9, <2>10
<1> QED  BY <1>6, <1>7, <1>8

LEMMA WriteReady ==
  ASSUME CachesInv, NEW cache, NEW lo, NEW top,
         Ready(cache, lo, top, Sets2, Ways2), NEW v \in Nat
  PROVE  /\ Ready(L2Write(cache, v), lo, top + 1, Sets2, Ways2)
         /\ UnderLru => Recency(L2Write(cache, v)) =
              Abstract!AfterWrite(Recency(cache), v)
         /\ L2Write(cache, v).last_miss_addr = cache.last_miss_addr
         /\ L2Write(cache, v).lost = cache.lost
         /\ \A x \in Nat : Cached(L2Write(cache, v), x) <=> Cached(cache, x)
<1> DEFINE touched == Touch(cache, v)
           next == SetDirty(touched, v, FALSE)
<1>1. /\ Sets2 \in Nat \ {0} /\ Ways2 \in Nat /\ GoodCache(cache, Sets2, Ways2)
      /\ config.replace_policy \in {"LRU", "LFU"}
      /\ top \in Nat /\ cache.time_stamp <= top
  BY Sizes, CacheAssumption DEF CachesInv, Config, Ready
<1>2. Abstract!Member(Recency(cache)[v % Sets2], v) <=> Cached(cache, v)
  BY <1>1, ListMember
<1>3. CASE config.l2_disabled \/ ~Cached(cache, v)
  <2>1. L2Write(cache, v) = cache  BY <1>3 DEF L2Write
  <2>2. Ready(cache, lo, top + 1, Sets2, Ways2)
    <3>1. cache.time_stamp \in Nat  BY <1>1 DEF GoodCache, CacheRecord
    <3> QED  BY <1>1, <3>1 DEF Ready
  <2>3. Abstract!AfterWrite(Recency(cache), v) = Recency(cache)
    BY <1>2, <1>3, RecencySizes DEF Abstract!AfterWrite
  <2> QED  BY <2>1, <2>2, <2>3
<1>4. CASE ~config.l2_disabled /\ Cached(cache, v)
  <2>1. L2Write(cache, v) = next  BY <1>4 DEF L2Write
  <2>2. Ready(touched, lo, top + 1, Sets2, Ways2)
    BY <1>1, <1>4, TouchReady
  <2>3. UnderLru => Recency(touched) =
          [Recency(cache) EXCEPT ![v % Sets2] = Abstract!Front(@, v, Ways2)]
    BY <1>1, <1>4, TouchList
  <2>4. /\ SameBlocks(cache, touched) /\ touched.lost = cache.lost
        /\ touched.last_miss_addr = cache.last_miss_addr
    BY <1>1, <1>4, TouchKeeps
  <2>5. GoodCache(touched, Sets2, Ways2)  BY <1>1, TouchGood
  <2> HIDE DEF touched
  <2>6. Ready(next, lo, top + 1, Sets2, Ways2)
        /\ Recency(next) = Recency(touched)
    <3>1. \A dirty \in BOOLEAN :
            /\ Ready(SetDirty(touched, v, dirty), lo, top + 1, Sets2, Ways2)
            /\ Recency(SetDirty(touched, v, dirty)) = Recency(touched)
      BY <1>1, <2>2, SetDirtyReady
    <3> QED  BY <3>1
  <2>7. /\ Marked(touched, next, v, FALSE)
        /\ next.last_miss_addr = touched.last_miss_addr
        /\ next.lost = touched.lost
    <3>1. Cached(touched, v)  BY <1>4, <2>4 DEF SameBlocks
    <3>2. \A dirty \in BOOLEAN : MarksWell(touched, v, dirty)
      BY <1>1, <2>5, <3>1, MarksAny
    <3> QED  BY <3>2 DEF MarksWell
  <2> HIDE DEF next
  <2>8. UnderLru => Recency(next) = Abstract!AfterWrite(Recency(cache), v)
    BY <1>2, <1>4, <2>3, <2>6, RecencySizes DEF Abstract!AfterWrite
  <2>9. \A x \in Nat : Cached(next, x) <=> Cached(cache, x)
    BY <2>4, <2>7 DEF SameBlocks, Marked
  <2> QED  BY <2>1, <2>4, <2>6, <2>7, <2>8, <2>9
<1> QED  BY <1>3, <1>4

-----------------------------------------------------------------------------
(* L1 *)

LEMMA HitReady ==
  ASSUME CachesInv, NEW lo, NEW top, Ready(L1, lo, top, Sets1, Ways1),
         NEW rw \in {"R", "W"}, NEW a \in AddrSet, Cached(L1, a)
  PROVE  /\ Ready(HitCache(rw, a), lo, top + 1, Sets1, Ways1)
         /\ UnderLru => Recency(HitCache(rw, a)) =
              [Recency(L1) EXCEPT ![a % Sets1] = Abstract!Front(@, a, Ways1)]
<1> DEFINE touched == Touch(L1, a)
           next == SetDirty(touched, a, TRUE)
<1>1. /\ Sets1 \in Nat \ {0} /\ Ways1 \in Nat /\ a \in Nat
      /\ config.replace_policy \in {"LRU", "LFU"}
  BY Sizes, AddressType, CacheAssumption DEF CachesInv, Config
<1>2. Ready(touched, lo, top + 1, Sets1, Ways1)  BY <1>1, TouchReady
<1>3. UnderLru => Recency(touched) =
        [Recency(L1) EXCEPT ![a % Sets1] = Abstract!Front(@, a, Ways1)]
  BY <1>1, TouchList
<1> HIDE DEF touched
<1>4. /\ Ready(next, lo, top + 1, Sets1, Ways1)
      /\ Recency(next) = Recency(touched)
  <2>1. \A dirty \in BOOLEAN :
          /\ Ready(SetDirty(touched, a, dirty), lo, top + 1, Sets1, Ways1)
          /\ Recency(SetDirty(touched, a, dirty)) = Recency(touched)
    BY <1>1, <1>2, SetDirtyReady
  <2> QED  BY <2>1
<1> HIDE DEF next
<1>5. HitCache(rw, a) = IF rw = "R" THEN touched ELSE next
  BY DEF HitCache, touched, next
<1> QED  BY <1>2, <1>3, <1>4, <1>5

LEMMA MissReady ==
  ASSUME CachesInv, NEW lo, NEW top, Ready(L1, lo, top, Sets1, Ways1),
         top < SENTINEL, Finds(Ways1),
         NEW rw \in {"R", "W"}, NEW a \in AddrSet, ~Cached(L1, a)
  PROVE  /\ Ready(MissCache(rw, a), lo, top + 1, Sets1, Ways1)
         /\ UnderLru => Recency(MissCache(rw, a)) =
              [Recency(L1) EXCEPT ![a % Sets1] = Abstract!Front(@, a, Ways1)]
<1> DEFINE filled == Demand(L1, a)
           next == SetDirty(filled, a, TRUE)
<1>1. Sets1 \in Nat \ {0} /\ Ways1 \in Nat \ {0} /\ a \in Nat
  BY Sizes, AddressType DEF CachesInv
<1>2. FrameFor(L1, a) # NoVictim /\ FrameFor(L1, a) \in 1 .. Ways1
  BY <1>1, FrameFound
<1>3. Ready(filled, lo, top + 1, Sets1, Ways1)  BY <1>1, <1>2, DemandReady
<1>4. UnderLru => Recency(filled) =
        [Recency(L1) EXCEPT ![a % Sets1] = Abstract!Front(@, a, Ways1)]
  BY <1>1, DemandList
<1> HIDE DEF filled
<1>5. /\ Ready(next, lo, top + 1, Sets1, Ways1)
      /\ Recency(next) = Recency(filled)
  <2>1. \A dirty \in BOOLEAN :
          /\ Ready(SetDirty(filled, a, dirty), lo, top + 1, Sets1, Ways1)
          /\ Recency(SetDirty(filled, a, dirty)) = Recency(filled)
    BY <1>1, <1>3, SetDirtyReady
  <2> QED  BY <2>1
<1> HIDE DEF next
<1>6. MissCache(rw, a) = filled \/ MissCache(rw, a) = next
  BY DEF MissCache, filled, next
<1> QED  BY <1>3, <1>4, <1>5, <1>6

-----------------------------------------------------------------------------
(* The invariant *)

(* The configurations in which the program does not end at a replacement.  *)
Works == UnderLru \/ UnderLfu

(* The clocks stay below the sentinel of LRU_Victim_block, and LIP never   *)
(* subtracts one from zero.                                                *)
StampsFit ==
  /\ L1.time_stamp < SENTINEL /\ L2.time_stamp + 1 < SENTINEL
  /\ ~AtFront =>
       /\ L2.time_stamp > 0
       /\ \A k \in DOMAIN L2.sets : \A i \in ValidFrames(L2.sets[k]) :
            L2.sets[k].frames[i].time_stamp > 0

RecencyInv ==
  /\ CachesInv
  /\ Works => /\ Stamped(L1, 0, Sets1) /\ Stamped(L2, 0, Sets2)
              /\ ~Crashed /\ NoStray(L1, Sets1, Ways1) /\ InSpace

LEMMA WorksFinds ==
  ASSUME CachesInv, Works
  PROVE  Finds(Ways1) /\ L2Finds
BY WaysEnough DEF Works, UnderLfu, Finds, L2Finds

LEMMA ReadyOne ==
  ASSUME RecencyInv, Works, StampsFit
  PROVE  /\ Ready(L1, 0, L1.time_stamp, Sets1, Ways1)
         /\ L1.time_stamp < SENTINEL /\ L1.time_stamp \in Nat
<1>1. GoodCache(L1, Sets1, Ways1) /\ Stamped(L1, 0, Sets1)
  BY DEF RecencyInv, CachesInv
<1>2. L1.time_stamp \in Nat  BY <1>1 DEF GoodCache, CacheRecord
<1> QED  BY <1>1, <1>2 DEF Ready, StampsFit

Floor == IF AtFront THEN 0 ELSE 1

LEMMA ReadyTwo ==
  ASSUME RecencyInv, Works, StampsFit
  PROVE  /\ Ready(L2, Floor, L2.time_stamp, Sets2, Ways2)
         /\ L2.time_stamp + 1 < SENTINEL /\ L2.time_stamp \in Nat
         /\ Floor > 0 \/ AtFront
<1>1. /\ GoodCache(L2, Sets2, Ways2) /\ Stamped(L2, 0, Sets2)
      /\ Sets2 \in Nat \ {0} /\ Ways2 \in Nat
  BY Sizes DEF RecencyInv, CachesInv
<1>2. L2.time_stamp \in Nat  BY <1>1 DEF GoodCache, CacheRecord
<1>3. /\ DOMAIN L2.sets = 0 .. Sets2 - 1
      /\ \A k \in 0 .. Sets2 - 1 : GoodSet(L2.sets[k], Ways2)
  BY <1>1, CacheFields
<1>4. ASSUME NEW k \in 0 .. Sets2 - 1, NEW i \in ValidFrames(L2.sets[k])
      PROVE  L2.sets[k].frames[i].time_stamp \in Nat
  <2>1. i \in 1 .. Ways2  BY <1>1, <1>3, ValidCount
  <2> QED  BY <1>1, <1>3, <2>1, SetFields DEF GoodSet, Block
<1>5. CASE AtFront
  <2>1. Floor = 0  BY <1>5 DEF Floor
  <2> QED  BY <1>1, <1>2, <1>5, <2>1 DEF Ready, StampsFit
<1>6. CASE ~AtFront
  <2>1. Floor = 1  BY <1>6 DEF Floor
  <2>2. Stamped(L2, 1, Sets2)
    <3>1. L2.time_stamp > 0 /\ 1 <= L2.time_stamp
      BY <1>2, <1>6 DEF StampsFit
    <3>2. ASSUME NEW k \in 0 .. Sets2 - 1
          PROVE  StampedSet(L2.sets[k], 1, L2.time_stamp)
      <4>1. \A i \in ValidFrames(L2.sets[k]) :
              1 <= L2.sets[k].frames[i].time_stamp
        BY <1>3, <1>4, <1>6 DEF StampsFit
      <4>2. StampedSet(L2.sets[k], 0, L2.time_stamp)  BY <1>1 DEF Stamped
      <4> QED  BY <4>1, <4>2 DEF StampedSet
    <3> QED  BY <3>1, <3>2 DEF Stamped
  <2> QED  BY <1>1, <1>2, <1>6, <2>1, <2>2 DEF Ready, StampsFit
<1> QED  BY <1>5, <1>6

(* Stamps that are lo or more are 0 or more. *)
LEMMA ReadyStamped ==
  ASSUME NEW m \in Nat \ {0}, NEW w \in Nat, NEW cache, NEW lo, NEW top,
         Ready(cache, lo, top, m, w), lo >= 0
  PROVE  Stamped(cache, 0, m)
<1>1. /\ GoodCache(cache, m, w) /\ Stamped(cache, lo, m) /\ lo \in Int
      /\ cache.time_stamp \in Nat
      /\ \A k \in 0 .. m - 1 : GoodSet(cache.sets[k], w)
  BY CacheFields DEF Ready
<1>2. ASSUME NEW k \in 0 .. m - 1
      PROVE  StampedSet(cache.sets[k], 0, cache.time_stamp)
  <2>1. StampedSet(cache.sets[k], lo, cache.time_stamp)
    BY <1>1 DEF Stamped
  <2>2. \A i \in ValidFrames(cache.sets[k]) :
          cache.sets[k].frames[i].time_stamp \in Nat
    <3>1. GoodSet(cache.sets[k], w)  BY <1>1
    <3>2. ValidFrames(cache.sets[k]) \subseteq 1 .. w  BY <3>1, ValidCount
    <3> QED  BY <3>1, <3>2, SetFields DEF GoodSet, Block
  <2> QED  BY <2>1, <2>2 DEF StampedSet
<1> QED  BY <1>1, <1>2 DEF Stamped

-----------------------------------------------------------------------------
(* The steps *)

ReadLists(a) ==
  IF Fetches(a)
  THEN Abstract!AfterPrefetch(Abstract!Demanded2(a), PrefetchAddr(L2, a))
  ELSE Abstract!Demanded2(a)

LEMMA HitsTwo ==
  ASSUME CachesInv, NEW a \in AddrSet
  PROVE  /\ Abstract!Hit2(a) <=> ~config.l2_disabled /\ Cached(L2, a)
         /\ Abstract!Hit1(a) <=> Cached(L1, a)
<1>1. /\ Sets1 \in Nat \ {0} /\ Ways1 \in Nat /\ a \in Nat
      /\ Sets2 \in Nat \ {0} /\ Ways2 \in Nat
      /\ GoodCache(L1, Sets1, Ways1) /\ GoodCache(L2, Sets2, Ways2)
  BY Sizes, AddressType DEF CachesInv
<1>2. Abstract!Member(Recency(L1)[a % Sets1], a) <=> Cached(L1, a)
  BY <1>1, ListMember
<1>3. Abstract!Member(Recency(L2)[a % Sets2], a) <=> Cached(L2, a)
  BY <1>1, ListMember
<1> QED  BY <1>2, <1>3, RecencySizes DEF Abstract!Hit1, Abstract!Hit2

(* The block that is prefetched is the one the lists say.                  *)
LEMMA TargetsAre ==
  ASSUME RecencyInv, UnderLru, StampsFit, NEW a \in AddrSet
  PROVE  Abstract!PrefetchTargets(a) =
           IF Fetches(a) THEN {PrefetchAddr(L2, a)} ELSE {}
<1> DEFINE t == PrefetchAddr(L2, a)
           filled == Demand(L2, a)
           hit == ~config.l2_disabled /\ Cached(L2, a)
<1>1. /\ CachesInv /\ Sets2 \in Nat \ {0} /\ Ways2 \in Nat \ {0} /\ a \in Nat
      /\ GoodCache(L2, Sets2, Ways2) /\ Works
  BY Sizes, AddressType DEF RecencyInv, CachesInv, Works
<1>2. t \in Nat
  <2>1. t \in 0 .. BLOCKS - 1 /\ BLOCKS \in Nat
    BY <1>1, PrefetchAddrType, AddressType
  <2> QED  BY <2>1
<1>3. t = Abstract!Target(a)
  <2>1. L2.last_miss_addr \in Nat  BY <1>1, CacheFields
  <2>2. a + a - L2.last_miss_addr = 2 * a - L2.last_miss_addr  BY <1>1, <2>1
  <2> QED  BY <2>2 DEF PrefetchAddr, Abstract!Target
<1>4. Fetches(a) <=> /\ ~config.l2_disabled /\ ~config.prefetcher_disabled
                     /\ ~hit /\ ~Cached(filled, t)
  BY DEF Fetches, WantsPrefetch
<1>5. Abstract!Hit2(a) <=> hit  BY <1>1, HitsTwo
<1> HIDE DEF t
<1>6. Abstract!PrefetchTargets(a) =
        {x \in {t} :
           /\ ~config.l2_disabled /\ ~config.prefetcher_disabled /\ ~hit
           /\ ~Abstract!Member(Abstract!Demanded2(a)[x % Sets2], x)}
  BY <1>3, <1>5, RecencySizes DEF Abstract!PrefetchTargets
<1>7. ASSUME ~config.l2_disabled, ~hit
      PROVE  Abstract!Member(Abstract!Demanded2(a)[t % Sets2], t)
               <=> Cached(filled, t)
  <2>1. ~Cached(L2, a)  BY <1>7
  <2>2. Ready(L2, Floor, L2.time_stamp, Sets2, Ways2)  BY <1>1, ReadyTwo
  <2>3. L2.time_stamp < SENTINEL
    <3>1. L2.time_stamp + 1 < SENTINEL /\ L2.time_stamp \in Nat
      BY <1>1, ReadyTwo
    <3> QED  BY <3>1, StampSizes
  <2>4. Recency(filled) =
          [Recency(L2) EXCEPT ![a % Sets2] = Abstract!Front(@, a, Ways2)]
    BY <1>1, <2>1, <2>2, <2>3, DemandList
  <2>5. GoodCache(filled, Sets2, Ways2)  BY <1>1, <2>1, DemandGood
  <2> HIDE DEF filled
  <2>6. Abstract!Demanded2(a) = Recency(filled)
    BY <1>7, <2>4, RecencySizes DEF Abstract!Demanded2
  <2> QED  BY <1>1, <1>2, <2>5, <2>6, ListMember
<1> HIDE DEF filled, hit
<1> QED  BY <1>4, <1>6, <1>7 DEF t

(* What an access that misses L1 does to L2.                               *)
LEMMA MissTwo ==
  ASSUME RecencyInv, Works, StampsFit, NEW lo, NEW top,
         Ready(L2, lo, top, Sets2, Ways2), top + 1 < SENTINEL,
         lo > 0 \/ AtFront, NEW rw \in {"R", "W"}, NEW a \in AddrSet,
         L1Miss(rw, a)
  PROVE  /\ Ready(L2', Lowest(lo, Fetches(a)), top + 3, Sets2, Ways2)
         /\ UnderLru => Recency(L2') =
              IF WritesBack(a)
              THEN Abstract!AfterWrite(ReadLists(a), VictimAddr(a))
              ELSE ReadLists(a)
         /\ L2'.last_miss_addr =
              IF \/ config.l2_disabled \/ config.prefetcher_disabled
                 \/ Cached(L2, a) \/ config.strided_prefetch_disabled
              THEN L2.last_miss_addr ELSE a
         /\ ~L2'.lost
         /\ WritesBack(a) <=> Gone(L1, a) \cap DirtyHeld(L1) # {}
         /\ WritesBack(a) => /\ Gone(L1, a) = {VictimAddr(a)}
                             /\ VictimAddr(a) \in DirtyHeld(L1)
<1> DEFINE read == L2Read(a)
           low == Lowest(lo, Fetches(a))
           high == top + 2
<1>1. /\ CachesInv /\ Sets2 \in Nat \ {0} /\ Ways2 \in Nat \ {0} /\ a \in Nat
      /\ Sets1 \in Nat \ {0} /\ Ways1 \in Nat \ {0} /\ ~L2.lost
      /\ ~Cached(L1, a) /\ NoStray(L1, Sets1, Ways1)
  BY Sizes, AddressType DEF RecencyInv, CachesInv, L1Miss, Crashed
<1>2. Finds(Ways1) /\ L2Finds  BY <1>1, WorksFinds
<1>3. top \in Nat  BY DEF Ready
<1>4. /\ Ready(read, low, high, Sets2, Ways2)
      /\ UnderLru => Recency(read) = ReadLists(a)
      /\ read.last_miss_addr =
           IF \/ config.l2_disabled \/ config.prefetcher_disabled
              \/ Cached(L2, a) \/ config.strided_prefetch_disabled
           THEN L2.last_miss_addr ELSE a
      /\ read.lost = L2.lost
  BY <1>1, <1>2, <1>3, ReadReady DEF ReadLists
<1>5. /\ WritesBack(a) <=> Gone(L1, a) \cap DirtyHeld(L1) # {}
      /\ WritesBack(a) => /\ Gone(L1, a) = {VictimAddr(a)}
                          /\ VictimAddr(a) \in DirtyHeld(L1)
  <2>1. FrameFor(L1, a) # NoVictim
    <3>1. Ready(L1, 0, L1.time_stamp, Sets1, Ways1)
          /\ L1.time_stamp < SENTINEL
      BY ReadyOne
    <3> QED  BY <1>1, <1>2, <3>1, FrameFound
  <2> QED  BY <1>1, <2>1, WritesGone
<1> HIDE DEF read, low, high
<1>6. high \in Nat /\ high + 1 = top + 3  BY <1>3 DEF high
<1>7. CASE ~WritesBack(a)
  <2>1. L2' = read  BY <1>7 DEF L1Miss, read
  <2>2. Ready(read, low, high + 1, Sets2, Ways2)
    <3>1. read.time_stamp \in Nat
      BY <1>4 DEF Ready, GoodCache, CacheRecord
    <3> QED  BY <1>4, <1>6, <3>1 DEF Ready
  <2> QED  BY <1>1, <1>4, <1>5, <1>6, <1>7, <2>1, <2>2 DEF low
<1>8. CASE WritesBack(a)
  <2> DEFINE v == VictimAddr(a)
  <2>1. L2' = L2Write(read, v)  BY <1>8 DEF L1Miss, read
  <2>2. v \in Nat  BY <1>5, <1>8 DEF DirtyHeld
  <2> HIDE DEF v
  <2>3. /\ Ready(L2Write(read, v), low, high + 1, Sets2, Ways2)
        /\ UnderLru => Recency(L2Write(read, v)) =
             Abstract!AfterWrite(Recency(read), v)
        /\ L2Write(read, v).last_miss_addr = read.last_miss_addr
        /\ L2Write(read, v).lost = read.lost
    BY <1>1, <1>4, <2>2, WriteReady
  <2> QED  BY <1>1, <1>4, <1>5, <1>6, <1>8, <2>1, <2>3 DEF low, v
<1> QED  BY <1>7, <1>8

LEMMA RecencyHit ==
  ASSUME RecencyInv, Works, StampsFit, NEW rw \in {"R", "W"},
         NEW a \in AddrSet, L1Hit(rw, a)
  PROVE  /\ Stamped(L1', 0, Sets1) /\ Stamped(L2', 0, Sets2)
         /\ ~Crashed' /\ NoStray(L1', Sets1, Ways1) /\ InSpace'
<1>1. /\ CachesInv /\ ~Crashed /\ NoStray(L1, Sets1, Ways1) /\ InSpace
      /\ Cached(L1, a) /\ L2' = L2 /\ Stamped(L2, 0, Sets2)
      /\ Sets1 \in Nat \ {0} /\ Ways1 \in Nat
  BY Sizes DEF RecencyInv, L1Hit, CachesInv
<1>2. L1' = HitCache(rw, a)  BY DEF L1Hit, HitCache
<1>3. Ready(L1, 0, L1.time_stamp, Sets1, Ways1)  BY ReadyOne
<1>4. Ready(L1', 0, L1.time_stamp + 1, Sets1, Ways1)
  BY <1>1, <1>2, <1>3, HitReady
<1>5. Stamped(L1', 0, Sets1)  BY <1>1, <1>4, ReadyStamped
<1>6. /\ \A x \in Nat : Cached(L1', x) <=> Cached(L1, x)
      /\ L1'.lost = L1.lost
  BY <1>1, <1>2, HitBlocks
<1>7. NoStray(L1', Sets1, Ways1)  BY <1>1, <1>2, HitNoStray
<1>8. InSpace'  BY <1>1, <1>6 DEF InSpace
<1>9. ~Crashed'  BY <1>1, <1>6 DEF Crashed
<1> QED  BY <1>1, <1>5, <1>7, <1>8, <1>9

LEMMA RecencyMiss ==
  ASSUME RecencyInv, Works, StampsFit, NEW rw \in {"R", "W"},
         NEW a \in AddrSet, L1Miss(rw, a)
  PROVE  /\ Stamped(L1', 0, Sets1) /\ Stamped(L2', 0, Sets2)
         /\ ~Crashed' /\ NoStray(L1', Sets1, Ways1) /\ InSpace'
<1>1. /\ CachesInv /\ ~Crashed /\ NoStray(L1, Sets1, Ways1) /\ InSpace
      /\ ~Cached(L1, a) /\ ~L1.lost
      /\ Sets1 \in Nat \ {0} /\ Ways1 \in Nat \ {0}
      /\ Sets2 \in Nat \ {0} /\ Ways2 \in Nat
  BY Sizes DEF RecencyInv, L1Miss, CachesInv, Crashed
<1>2. L1' = MissCache(rw, a)  BY DEF L1Miss, MissCache
<1>3. /\ Ready(L1, 0, L1.time_stamp, Sets1, Ways1)
      /\ L1.time_stamp < SENTINEL /\ Finds(Ways1)
  BY <1>1, ReadyOne, WorksFinds
<1>4. FrameFor(L1, a) # NoVictim
  <2>1. a \in Nat  BY AddressType
  <2> QED  BY <1>1, <1>3, <2>1, FrameFound
<1>5. Ready(L1', 0, L1.time_stamp + 1, Sets1, Ways1)
  BY <1>1, <1>2, <1>3, MissReady
<1>6. Stamped(L1', 0, Sets1)  BY <1>1, <1>5, ReadyStamped
<1>7. /\ \A x \in Nat : Cached(L1', x) => x = a \/ Cached(L1, x)
      /\ ~L1'.lost
  BY <1>1, <1>2, <1>4, MissBlocks
<1>8. NoStray(L1', Sets1, Ways1)  BY <1>1, <1>2, <1>4, MissNoStray
<1>9. InSpace'  BY <1>1, <1>7, AddressType DEF InSpace
<1>10. Ready(L2', Lowest(Floor, Fetches(a)), L2.time_stamp + 3, Sets2, Ways2)
       /\ ~L2'.lost
  BY ReadyTwo, MissTwo
<1>11. Lowest(Floor, Fetches(a)) >= 0  BY DEF Lowest, Floor
<1>12. Stamped(L2', 0, Sets2)  BY <1>1, <1>10, <1>11, ReadyStamped
<1> QED  BY <1>6, <1>7, <1>8, <1>9, <1>10, <1>12 DEF Crashed

LEMMA FreshLists ==
  ASSUME NEW m \in Nat \ {0}, NEW w \in Nat, NEW cache, GoodCache(cache, m, w),
         Fresh(cache, m, w)
  PROVE  /\ Recency(cache) = [k \in 0 .. m - 1 |-> <<>>]
         /\ Stamped(cache, 0, m) /\ Stamped(cache, cache.time_stamp, m)
<1>1. /\ \A k \in 0 .. m - 1 : cache.sets[k] = NewSet(w)
      /\ cache.time_stamp \in Nat
  BY CacheFields DEF Fresh
<1>2. /\ NewSet(w).valid_block_num = 0
      /\ \A i \in Frames(NewSet(w)) : ~NewSet(w).frames[i].valid_bit
  BY DEF NewSet, Frames, EmptyBlock, NewBlock
<1>3. ValidFrames(NewSet(w)) = {}  BY <1>2 DEF ValidFrames
<1>4. \A k : BlockList(NewSet(w), m, k) = <<>>  BY <1>2 DEF BlockList
<1>5. Recency(cache) = [k \in 0 .. m - 1 |-> BlockList(cache.sets[k], m, k)]
  BY RecencyIs
<1>6. Recency(cache) = [k \in 0 .. m - 1 |-> <<>>]  BY <1>1, <1>4, <1>5
<1>7. Stamped(cache, 0, m) /\ Stamped(cache, cache.time_stamp, m)
  BY <1>1, <1>3 DEF Stamped, StampedSet
<1> QED  BY <1>6, <1>7

LEMMA InitLists ==
  ASSUME Init
  PROVE  RecencyInv /\ Abstract!RecencyInit
<1>1. CachesInv  BY CachesInit
<1>2. /\ GoodCache(L1, Sets1, Ways1) /\ GoodCache(L2, Sets2, Ways2)
      /\ Sets1 \in Nat \ {0} /\ Ways1 \in Nat
      /\ Sets2 \in Nat \ {0} /\ Ways2 \in Nat
  BY <1>1, Sizes DEF CachesInv
<1>3. Fresh(L1, Sets1, Ways1) /\ ~L1.lost
  BY DEF Init, NewCache, Sets1, Ways1, Fresh
<1>4. Fresh(L2, Sets2, Ways2) /\ ~L2.lost /\ L2.last_miss_addr = 0
  BY DEF Init, NewCache, Sets2, Ways2, Fresh
<1>5. /\ \A x \in Nat : ~Cached(L1, x)
      /\ NoStray(L1, Sets1, Ways1)
  BY <1>2, <1>3, FreshCache
<1>6. /\ Recency(L1) = [k \in 0 .. Sets1 - 1 |-> <<>>]
      /\ Stamped(L1, 0, Sets1)
  BY <1>2, <1>3, FreshLists
<1>7. /\ Recency(L2) = [k \in 0 .. Sets2 - 1 |-> <<>>]
      /\ Stamped(L2, 0, Sets2)
  BY <1>2, <1>4, FreshLists
<1>8. RecencyInv
  BY <1>1, <1>3, <1>4, <1>5, <1>6, <1>7 DEF RecencyInv, Crashed, InSpace
<1>9. DirtyBlocks = {}
  <2>1. \A x \in 0 .. BLOCKS - 1 : x \in Nat  BY CacheAssumption
  <2> QED  BY <1>5, <2>1 DEF DirtyBlocks, Contents
<1>10. config \in ConfigSet  BY DEF Init
<1>11. [read |-> stats.read_misses_l2, prefetched |-> stats.prefetches_l2,
        written |-> stats.writes_l2]
         = [read |-> 0, prefetched |-> 0, written |-> 0]
  BY DEF Init, NoStats
<1>12. Abstract!RecencyInit
  BY <1>4, <1>6, <1>7, <1>9, <1>10, <1>11, RecencySizes
     DEF Abstract!RecencyInit
<1> QED  BY <1>8, <1>12

LEMMA RecencyInvStep ==
  ASSUME RecencyInv, Works => StampsFit, [Next]_vars
  PROVE  RecencyInv'
<1>1. CachesInv'  BY CachesStep DEF RecencyInv
<1>2. config' = config
  BY DEF Next, Access, L1Hit, L1Miss, vars
<1>3. /\ Works' <=> Works
      /\ Sets1' = Sets1 /\ Ways1' = Ways1 /\ Sets2' = Sets2
  BY <1>2 DEF Works, UnderLru, UnderLfu, Sets1, Ways1, Sets2
<1>4. ASSUME Works
      PROVE  /\ Stamped(L1', 0, Sets1) /\ Stamped(L2', 0, Sets2)
             /\ ~Crashed' /\ NoStray(L1', Sets1, Ways1) /\ InSpace'
  <2>1. CASE UNCHANGED vars
    <3>1. /\ Stamped(L1, 0, Sets1) /\ Stamped(L2, 0, Sets2)
          /\ ~Crashed /\ NoStray(L1, Sets1, Ways1) /\ InSpace
      BY <1>4 DEF RecencyInv
    <3>2. L1' = L1 /\ L2' = L2  BY <2>1 DEF vars
    <3> QED  BY <3>1, <3>2 DEF Crashed, InSpace
  <2>2. CASE Next
    <3>1. PICK rw \in {"R", "W"}, a \in AddrSet : Access(rw, a)
      BY <2>2 DEF Next
    <3>2. CASE L1Hit(rw, a)  BY <1>4, <3>2, RecencyHit
    <3>3. CASE L1Miss(rw, a)  BY <1>4, <3>3, RecencyMiss
    <3> QED  BY <3>1, <3>2, <3>3 DEF Access
  <2> QED  BY <2>1, <2>2
<1> QED  BY <1>1, <1>3, <1>4 DEF RecencyInv

(* A hit of L1 moves its block to the front of its list.                   *)
LEMMA ReuseStep ==
  ASSUME RecencyInv, UnderLru, StampsFit, stats \in StatsType,
         NEW rw \in {"R", "W"}, NEW a \in AddrSet, L1Hit(rw, a)
  PROVE  Abstract!Reuse(rw, a)
<1>1. /\ CachesInv /\ InSpace /\ Cached(L1, a) /\ Works
      /\ UNCHANGED <<config, L2>>
  BY DEF RecencyInv, L1Hit, Works
<1>2. L1' = HitCache(rw, a)  BY DEF L1Hit, HitCache
<1>3. Recency(L1') =
        [Recency(L1) EXCEPT ![a % Sets1] = Abstract!Front(@, a, Ways1)]
  <2>1. Ready(L1, 0, L1.time_stamp, Sets1, Ways1)  BY <1>1, ReadyOne
  <2> QED  BY <1>1, <1>2, <2>1, HitReady
<1>4. DirtyHeld(L1') =
        IF rw = "W" THEN DirtyHeld(L1) \cup {a} ELSE DirtyHeld(L1)
  BY <1>1, <1>2, HitBlocks
<1>5. DirtyBlocks = DirtyHeld(L1) /\ DirtyBlocks' = DirtyHeld(L1')
  <2>1. InSpace'  BY <1>1, RecencyHit
  <2> QED  BY <1>1, <2>1, DirtyBlocksAre, DirtyBlocksThen
<1>6. Abstract!Hit1(a)  BY <1>1, HitsTwo
<1>7. /\ stats'.writes_l2 = stats.writes_l2
      /\ stats'.read_misses_l2 = stats.read_misses_l2
      /\ stats'.prefetches_l2 = stats.prefetches_l2
  BY HitStats
<1>8. UNCHANGED <<Recency(L2), L2.last_miss_addr>>  BY <1>1
<1> QED
  BY <1>1, <1>3, <1>4, <1>5, <1>6, <1>7, <1>8, RecencySizes
     DEF Abstract!Reuse

(* A miss brings the block to the front in L1, lets the last one of a full *)
(* list go, and does in L2 what the lists do for the read, the prefetch    *)
(* and the write-back.                                                     *)
LEMMA FillStep ==
  ASSUME RecencyInv, UnderLru, StampsFit, stats \in StatsType,
         NEW rw \in {"R", "W"}, NEW a \in AddrSet, L1Miss(rw, a)
  PROVE  Abstract!Fill(rw, a)
<1> DEFINE k == a % Sets1
           gone == Gone(L1, a)
           hit == ~config.l2_disabled /\ Cached(L2, a)
           targets == Abstract!PrefetchTargets(a)
           r == Abstract!Demanded2(a)
           s == ReadLists(a)
           v == VictimAddr(a)
           back == WritesBack(a)
<1>1. /\ CachesInv /\ InSpace /\ ~Cached(L1, a) /\ Works /\ ~L1.lost
      /\ config' = config
      /\ Sets1 \in Nat \ {0} /\ Ways1 \in Nat \ {0} /\ a \in Nat
  BY Sizes, AddressType DEF RecencyInv, L1Miss, Works, CachesInv, Crashed
<1>2. L1' = MissCache(rw, a)  BY DEF L1Miss, MissCache
<1>3. /\ Ready(L1, 0, L1.time_stamp, Sets1, Ways1)
      /\ L1.time_stamp < SENTINEL /\ Finds(Ways1)
  BY <1>1, ReadyOne, WorksFinds
<1>4. FrameFor(L1, a) # NoVictim  BY <1>1, <1>3, FrameFound
<1>5. Recency(L1') = [Recency(L1) EXCEPT ![k] = Abstract!Front(@, a, Ways1)]
  BY <1>1, <1>2, <1>3, MissReady
<1>6. gone = Abstract!Leaving(a)
  <2>1. gone = IF Len(Recency(L1)[k]) = Ways1
               THEN {Recency(L1)[k][Ways1]} ELSE {}
    BY <1>1, <1>3, GoneLast
  <2> QED  BY <2>1, RecencySizes DEF Abstract!Leaving
<1>7. DirtyHeld(L1') =
        (DirtyHeld(L1) \ gone) \cup (IF rw = "W" THEN {a} ELSE {})
  BY <1>1, <1>2, <1>4, MissBlocks
<1>8. DirtyBlocks = DirtyHeld(L1) /\ DirtyBlocks' = DirtyHeld(L1')
  <2>1. InSpace'  BY <1>1, RecencyMiss
  <2> QED  BY <1>1, <2>1, DirtyBlocksAre, DirtyBlocksThen
<1>9. /\ Recency(L2') = IF back THEN Abstract!AfterWrite(s, v) ELSE s
      /\ L2'.last_miss_addr =
           IF \/ config.l2_disabled \/ config.prefetcher_disabled
              \/ Cached(L2, a) \/ config.strided_prefetch_disabled
           THEN L2.last_miss_addr ELSE a
      /\ back <=> gone \cap DirtyHeld(L1) # {}
      /\ back => gone = {v}
  BY <1>1, ReadyTwo, MissTwo
<1>10. ~Abstract!Hit1(a) /\ (Abstract!Hit2(a) <=> hit)  BY <1>1, HitsTwo
<1>11. targets = IF Fetches(a) THEN {PrefetchAddr(L2, a)} ELSE {}
  BY TargetsAre
<1>12. /\ stats'.writes_l2 = stats.writes_l2 + (IF back THEN 1 ELSE 0)
       /\ stats'.read_misses_l2 = stats.read_misses_l2 + (IF hit THEN 0 ELSE 1)
       /\ stats'.prefetches_l2 =
            stats.prefetches_l2 + (IF Fetches(a) THEN 1 ELSE 0)
  <2>1. LET h == ~config.l2_disabled /\ Cached(L2, a)
        IN  /\ stats'.writes_l2 = stats.writes_l2 + Counts(WritesBack(a))
            /\ stats'.read_misses_l2 = stats.read_misses_l2 + Counts(~h)
            /\ stats'.prefetches_l2 =
                 stats.prefetches_l2 + Counts(~h /\ WantsPrefetch(L2, a))
    BY MissStats
  <2> QED  BY <2>1 DEF Counts, Fetches
<1> HIDE DEF gone, hit, targets, r, s, v, back
<1>13. Recency(L2') = IF gone \cap DirtyBlocks = {} THEN s
                      ELSE Abstract!AfterWrite(s, CHOOSE x \in gone : TRUE)
  <2>1. CASE back
    <3>1. gone = {v}  BY <1>9, <2>1
    <3>2. (CHOOSE x \in gone : TRUE) = v  BY <3>1
    <3> QED  BY <1>8, <1>9, <2>1, <3>2
  <2>2. CASE ~back  BY <1>8, <1>9, <2>2
  <2> QED  BY <2>1, <2>2
<1>14. s \in (IF targets = {} THEN {r}
              ELSE {Abstract!AfterPrefetch(r, t) : t \in targets})
  <2>1. CASE Fetches(a)
    <3>1. targets = {PrefetchAddr(L2, a)}  BY <1>11, <2>1
    <3>2. s = Abstract!AfterPrefetch(r, PrefetchAddr(L2, a))
      BY <2>1 DEF s, r, ReadLists
    <3>3. targets # {} /\ PrefetchAddr(L2, a) \in targets  BY <3>1
    <3> QED  BY <3>2, <3>3
  <2>2. CASE ~Fetches(a)
    <3>1. targets = {}  BY <1>11, <2>2
    <3>2. s = r  BY <2>2 DEF s, r, ReadLists
    <3> QED  BY <3>1, <3>2
  <2> QED  BY <2>1, <2>2
<1>15. \E x \in {r} : \E y \in
         (IF targets = {} THEN {x}
          ELSE {Abstract!AfterPrefetch(x, t) : t \in targets}) :
         Recency(L2') = IF gone \cap DirtyBlocks = {} THEN y
                        ELSE Abstract!AfterWrite(y, CHOOSE z \in gone : TRUE)
  BY <1>13, <1>14
<1>16. L2'.last_miss_addr =
         IF \/ config.l2_disabled \/ config.prefetcher_disabled
            \/ config.strided_prefetch_disabled \/ Abstract!Hit2(a)
         THEN L2.last_miss_addr ELSE a
  BY <1>9, <1>10 DEF hit
<1>17. (targets = {} <=> ~Fetches(a)) /\ (gone \cap DirtyBlocks = {} <=> ~back)
  BY <1>8, <1>9, <1>11
<1>18. [read |-> stats'.read_misses_l2, prefetched |-> stats'.prefetches_l2,
        written |-> stats'.writes_l2] =
         [read |-> stats.read_misses_l2
                     + (IF Abstract!Hit2(a) THEN 0 ELSE 1),
          prefetched |-> stats.prefetches_l2
                           + (IF targets = {} THEN 0 ELSE 1),
          written |-> stats.writes_l2
                        + (IF gone \cap DirtyBlocks = {} THEN 0 ELSE 1)]
  <2>1. stats'.read_misses_l2 =
          stats.read_misses_l2 + (IF Abstract!Hit2(a) THEN 0 ELSE 1)
    BY <1>10, <1>12
  <2>2. stats'.prefetches_l2 =
          stats.prefetches_l2 + (IF targets = {} THEN 0 ELSE 1)
    BY <1>12, <1>17
  <2>3. stats'.writes_l2 =
          stats.writes_l2 + (IF gone \cap DirtyBlocks = {} THEN 0 ELSE 1)
    BY <1>12, <1>17
  <2> QED  BY <2>1, <2>2, <2>3
<1>19. DirtyBlocks' = (DirtyBlocks \ gone) \cup (IF rw = "W" THEN {a} ELSE {})
  BY <1>7, <1>8
<1> QED
  BY <1>1, <1>5, <1>6, <1>10, <1>15, <1>16, <1>18, <1>19, RecencySizes
     DEF Abstract!Fill, targets, r

LEMMA RecencyStep ==
  ASSUME RecencyInv, UnderLru, StampsFit, stats \in StatsType, [Next]_vars
  PROVE  [Abstract!RecencyNext]_(Abstract!recencyVars)
<1>1. CASE UNCHANGED vars
  <2>1. config' = config /\ L1' = L1 /\ L2' = L2 /\ stats' = stats
    BY <1>1 DEF vars
  <2>2. UNCHANGED <<Recency(L1), Recency(L2), L2.last_miss_addr>>
    BY <2>1
  <2>3. DirtyBlocks' = DirtyBlocks
    BY <2>1 DEF DirtyBlocks, Contents
  <2> QED  BY <2>1, <2>2, <2>3 DEF Abstract!recencyVars
<1>2. CASE Next
  <2>1. PICK rw \in {"R", "W"}, a \in AddrSet : Access(rw, a)
    BY <1>2 DEF Next
  <2>2. Abstract!Reuse(rw, a) \/ Abstract!Fill(rw, a)
    BY <2>1, ReuseStep, FillStep DEF Access
  <2> QED  BY <2>2 DEF Abstract!RecencyNext
<1> QED  BY <1>1, <1>2

-----------------------------------------------------------------------------
(* How far the clocks get *)

(* A trace short enough for the clocks, which start at twice the number of *)
(* blocks: an access advances the clock of L1 once and that of L2 three    *)
(* times at most, and an insertion by LIP lowers the least stamp by one.   *)
ShortTrace ==
  \A x \in ConfigSet :
    /\ 2 ^ (x.c1 - B + 1) + MAX_ACCESSES < SENTINEL
    /\ 2 ^ (x.c2 - B + 1) + 3 * MAX_ACCESSES + 1 < SENTINEL
    /\ x.insert_policy = "LIP" => MAX_ACCESSES < 2 ^ (x.c2 - B + 1)

Start1 == 2 ^ (config.c1 - B + 1)
Start2 == 2 ^ (config.c2 - B + 1)

Accesses == stats.reads + stats.writes

Least2 == IF AtFront THEN 0 ELSE Start2 - stats.prefetches_l2

ClockInv ==
  /\ Accesses <= MAX_ACCESSES
  /\ Works => /\ Ready(L1, 0, Start1 + Accesses, Sets1, Ways1)
              /\ Ready(L2, Least2, Start2 + 3 * Accesses, Sets2, Ways2)

LEMMA ClockSizes ==
  ASSUME CachesInv, Books
  PROVE  /\ Start1 \in Nat /\ Start2 \in Nat /\ Accesses \in Nat
         /\ stats.prefetches_l2 \in Nat /\ stats.prefetches_l2 <= Accesses
         /\ MAX_ACCESSES \in Nat /\ Least2 \in Int
<1>1. Start1 \in Nat /\ Start2 \in Nat
  BY Geometry DEF CachesInv, Start1, Start2
<1>2. /\ stats.reads \in Nat /\ stats.writes \in Nat
      /\ stats.prefetches_l2 \in Nat /\ stats.read_misses_l2 \in Nat
      /\ stats.read_hits_l2 \in Nat /\ stats.hits_l1 \in Nat
  BY DEF Books, StatsType
<1>3. stats.prefetches_l2 <= stats.reads + stats.writes
  BY <1>2 DEF Books, Balance
<1> QED  BY <1>1, <1>2, <1>3, CacheAssumption DEF Accesses, Least2

LEMMA ClocksFit ==
  ASSUME ShortTrace, CachesInv, Books, ClockInv
  PROVE  /\ Works => StampsFit
         /\ Works => /\ Start2 + 3 * Accesses + 1 < SENTINEL
                     /\ Start1 + Accesses < SENTINEL
                     /\ Least2 > 0 \/ AtFront
<1>1. /\ Start1 \in Nat /\ Start2 \in Nat /\ Accesses \in Nat
      /\ stats.prefetches_l2 \in Nat /\ stats.prefetches_l2 <= Accesses
      /\ MAX_ACCESSES \in Nat /\ Least2 \in Int /\ SENTINEL \in Nat
  BY ClockSizes, StampSizes
<1>2. config \in ConfigSet /\ config \in Config
  BY CacheAssumption DEF CachesInv
<1>3. /\ Start1 + MAX_ACCESSES < SENTINEL
      /\ Start2 + 3 * MAX_ACCESSES + 1 < SENTINEL
      /\ ~AtFront => MAX_ACCESSES < Start2
  BY <1>2 DEF ShortTrace, Start1, Start2, AtFront, Config
<1>4. Accesses <= MAX_ACCESSES  BY DEF ClockInv
<1>5. /\ Start1 + Accesses < SENTINEL /\ Start2 + 3 * Accesses + 1 < SENTINEL
      /\ Least2 > 0 \/ AtFront
  BY <1>1, <1>3, <1>4 DEF Least2
<1>6. ASSUME Works PROVE StampsFit
  <2>1. /\ Ready(L1, 0, Start1 + Accesses, Sets1, Ways1)
        /\ Ready(L2, Least2, Start2 + 3 * Accesses, Sets2, Ways2)
        /\ Sets2 \in Nat \ {0} /\ Ways2 \in Nat
    BY <1>6, Sizes DEF ClockInv, CachesInv
  <2>2. L1.time_stamp \in Nat /\ L2.time_stamp \in Nat
    BY DEF CachesInv, GoodCache, CacheRecord
  <2>3. L1.time_stamp < SENTINEL /\ L2.time_stamp + 1 < SENTINEL
    BY <1>1, <1>5, <2>1, <2>2 DEF Ready
  <2>4. ASSUME ~AtFront
        PROVE  /\ L2.time_stamp > 0
               /\ \A k \in DOMAIN L2.sets : \A i \in ValidFrames(L2.sets[k]) :
                    L2.sets[k].frames[i].time_stamp > 0
    <3>1. Least2 > 0 /\ Stamped(L2, Least2, Sets2)
      BY <1>5, <2>1, <2>4 DEF Ready
    <3>2. GoodCache(L2, Sets2, Ways2)  BY DEF CachesInv
    <3>3. L2.time_stamp > 0  BY <1>1, <2>2, <3>1 DEF Stamped
    <3>4. ASSUME NEW k \in DOMAIN L2.sets, NEW i \in ValidFrames(L2.sets[k])
          PROVE  L2.sets[k].frames[i].time_stamp > 0
      <4>1. k \in 0 .. Sets2 - 1 /\ GoodSet(L2.sets[k], Ways2)
        BY <2>1, <3>2, CacheFields
      <4>2. i \in 1 .. Ways2  BY <2>1, <4>1, ValidCount
      <4>3. L2.sets[k].frames[i].time_stamp \in Nat
        BY <2>1, <4>1, <4>2, SetFields DEF GoodSet, Block
      <4>4. Least2 <= L2.sets[k].frames[i].time_stamp
        BY <3>1, <4>1 DEF Stamped, StampedSet
      <4> QED  BY <1>1, <3>1, <4>3, <4>4
    <3> QED  BY <3>3, <3>4
  <2> QED  BY <2>3, <2>4 DEF StampsFit
<1> QED  BY <1>5, <1>6

LEMMA ClockInit ==
  ASSUME Init
  PROVE  ClockInv
<1>1. CachesInv /\ Books /\ RecencyInv  BY CachesInit, BooksInit, InitLists
<1>2. /\ GoodCache(L1, Sets1, Ways1) /\ GoodCache(L2, Sets2, Ways2)
      /\ Sets1 \in Nat \ {0} /\ Ways1 \in Nat
      /\ Sets2 \in Nat \ {0} /\ Ways2 \in Nat
      /\ L1.time_stamp \in Nat /\ L2.time_stamp \in Nat
  BY <1>1, Sizes DEF CachesInv, GoodCache, CacheRecord
<1>3. Fresh(L1, Sets1, Ways1) /\ L1.time_stamp = Start1
  BY DEF Init, NewCache, Sets1, Ways1, Fresh, Start1
<1>4. Fresh(L2, Sets2, Ways2) /\ L2.time_stamp = Start2
  BY DEF Init, NewCache, Sets2, Ways2, Fresh, Start2
<1>5. Accesses = 0 /\ stats.prefetches_l2 = 0
  BY DEF Init, NoStats, Accesses
<1>6. Stamped(L1, 0, Sets1)  BY <1>2, <1>3, FreshLists
<1>7. Stamped(L2, 0, Sets2) /\ Stamped(L2, L2.time_stamp, Sets2)
  BY <1>2, <1>4, FreshLists
<1>8. Stamped(L2, Least2, Sets2) /\ Least2 \in Int
  BY <1>2, <1>4, <1>5, <1>7 DEF Least2
<1>9. Ready(L1, 0, Start1 + Accesses, Sets1, Ways1)
  BY <1>2, <1>3, <1>5, <1>6 DEF Ready
<1>10. Ready(L2, Least2, Start2 + 3 * Accesses, Sets2, Ways2)
  BY <1>2, <1>4, <1>5, <1>8 DEF Ready
<1>11. Accesses <= MAX_ACCESSES  BY <1>5, CacheAssumption
<1> QED  BY <1>9, <1>10, <1>11 DEF ClockInv

(* The stamps of a cache stay where they were found. *)
LEMMA ReadyLater ==
  ASSUME NEW m, NEW w, NEW cache, NEW lo, NEW top, NEW new \in Nat,
         Ready(cache, lo, top, m, w), top <= new
  PROVE  Ready(cache, lo, new, m, w)
<1>1. cache.time_stamp \in Nat  BY DEF Ready, GoodCache, CacheRecord
<1> QED  BY <1>1 DEF Ready

LEMMA ClockStep ==
  ASSUME ShortTrace, RecencyInv, Books, ClockInv, [Next]_vars
  PROVE  ClockInv'
<1> DEFINE top1 == Start1 + Accesses
           top2 == Start2 + 3 * Accesses
<1>1. /\ CachesInv /\ Start1 \in Nat /\ Start2 \in Nat /\ Accesses \in Nat
      /\ stats.prefetches_l2 \in Nat /\ MAX_ACCESSES \in Nat
      /\ Least2 \in Int /\ stats \in StatsType
  BY ClockSizes DEF RecencyInv, Books
<1>2. config' = config  BY DEF Next, Access, L1Hit, L1Miss, vars
<1>3. /\ Sets1' = Sets1 /\ Ways1' = Ways1 /\ Sets2' = Sets2 /\ Ways2' = Ways2
      /\ Start1' = Start1 /\ Start2' = Start2
      /\ Works' <=> Works
      /\ AtFront' <=> AtFront
  BY <1>2 DEF Sets1, Ways1, Sets2, Ways2, Start1, Start2, Works, UnderLru,
              UnderLfu, AtFront
<1>4. CASE UNCHANGED vars
  <2>1. L1' = L1 /\ L2' = L2 /\ stats' = stats  BY <1>4 DEF vars
  <2>2. Accesses' = Accesses /\ Least2' = Least2
    BY <1>3, <2>1 DEF Accesses, Least2
  <2> QED  BY <1>3, <2>1, <2>2 DEF ClockInv
<1>5. ASSUME NEW rw \in {"R", "W"}, NEW a \in AddrSet, Access(rw, a)
      PROVE  ClockInv'
  <2>1. Accesses' = Accesses + 1
    BY <1>1, <1>5, HitStats, MissStats DEF Access, Accesses
  <2>2. Accesses' <= MAX_ACCESSES
    <3>1. Accesses < MAX_ACCESSES
      BY <1>5 DEF Access, L1Hit, L1Miss, CanAccess, Accesses
    <3> QED  BY <1>1, <2>1, <3>1
  <2>3. ASSUME Works
        PROVE  /\ Ready(L1', 0, top1 + 1, Sets1, Ways1)
               /\ Ready(L2', Least2', top2 + 3, Sets2, Ways2)
    <3>1. /\ Ready(L1, 0, top1, Sets1, Ways1)
          /\ Ready(L2, Least2, top2, Sets2, Ways2)
      BY <2>3 DEF ClockInv
    <3>2. /\ top2 + 1 < SENTINEL /\ top1 < SENTINEL /\ StampsFit
          /\ Least2 > 0 \/ AtFront
      BY <1>1, <2>3, ClocksFit
    <3>3. top1 \in Nat /\ top2 \in Nat  BY <1>1
    <3> HIDE DEF top1, top2
    <3>4. CASE L1Hit(rw, a)
      <4>1. L1' = HitCache(rw, a) /\ L2' = L2 /\ Cached(L1, a)
        BY <3>4 DEF L1Hit, HitCache
      <4>2. stats'.prefetches_l2 = stats.prefetches_l2
        BY <1>1, <3>4, HitStats
      <4>3. Least2' = Least2  BY <1>3, <4>2 DEF Least2
      <4>4. Ready(L1', 0, top1 + 1, Sets1, Ways1)
        BY <1>1, <3>1, <4>1, HitReady
      <4>5. Ready(L2, Least2, top2 + 3, Sets2, Ways2)
        <5>1. top2 + 3 \in Nat /\ top2 <= top2 + 3  BY <3>3
        <5> QED  BY <3>1, <5>1, ReadyLater
      <4> QED  BY <4>1, <4>3, <4>4, <4>5
    <3>5. CASE L1Miss(rw, a)
      <4>1. L1' = MissCache(rw, a) /\ ~Cached(L1, a)
        BY <3>5 DEF L1Miss, MissCache
      <4>2. stats'.prefetches_l2 = stats.prefetches_l2 + Counts(Fetches(a))
        BY <1>1, <3>5, MissStats DEF Fetches
      <4>3. Least2' = Lowest(Least2, Fetches(a))
        BY <1>1, <1>3, <4>2 DEF Least2, Lowest, Counts
      <4>4. Finds(Ways1)  BY <1>1, <2>3, WorksFinds
      <4>5. Ready(L1', 0, top1 + 1, Sets1, Ways1)
        BY <1>1, <3>1, <3>2, <4>1, <4>4, MissReady
      <4>6. Ready(L2', Lowest(Least2, Fetches(a)), top2 + 3, Sets2, Ways2)
        BY <2>3, <3>1, <3>2, <3>5, MissTwo
      <4> QED  BY <4>3, <4>5, <4>6
    <3> QED  BY <1>5, <3>4, <3>5 DEF Access
  <2>4. top1 + 1 = Start1' + Accesses' /\ top2 + 3 = Start2' + 3 * Accesses'
    BY <1>1, <1>3, <2>1
  <2> HIDE DEF top1, top2
  <2> QED  BY <1>3, <2>2, <2>3, <2>4 DEF ClockInv
<1> QED  BY <1>4, <1>5 DEF Next

(* The invariant of the refinement, with the bounds on the stamps that it  *)
(* needs: a set whose stamps reach the sentinel has no victim, and one     *)
(* that LIP takes below zero has its order turned round.                   *)
THEOREM RecencyInvariant ==
  ASSUME ShortTrace
  PROVE  Spec => [](RecencyInv /\ Books /\ ClockInv)
<1>1. Init => RecencyInv /\ Books /\ ClockInv
  BY InitLists, BooksInit, ClockInit
<1>2. RecencyInv /\ Books /\ ClockInv /\ [Next]_vars
        => (RecencyInv /\ Books /\ ClockInv)'
  <2> SUFFICES ASSUME RecencyInv, Books, ClockInv, [Next]_vars
               PROVE  RecencyInv' /\ Books' /\ ClockInv'
    OBVIOUS
  <2>1. CachesInv  BY DEF RecencyInv
  <2>2. Works => StampsFit  BY <2>1, ClocksFit
  <2>3. RecencyInv'  BY <2>2, RecencyInvStep
  <2>4. Books'  BY <2>1, BooksStep
  <2>5. ClockInv'  BY ClockStep
  <2> QED  BY <2>3, <2>4, <2>5
<1> QED  BY <1>1, <1>2, PTL DEF Spec

(* Whatever the length of the trace: as long as no stamp has reached the   *)
(* sentinel and LIP has not subtracted from zero, the two-level cache      *)
(* under LRU replacement is RecencyCache.                                  *)
THEOREM RecencyWhileStampsFit ==
  Spec /\ [](Works => StampsFit) => ImplementsRecency
<1>1. Init => RecencyInv /\ Books /\ Abstract!RecencyInit
  BY InitLists, BooksInit
<1>2. RecencyInv /\ Books /\ (Works => StampsFit) /\ [Next]_vars
        => RecencyInv' /\ Books'
  BY RecencyInvStep, BooksStep DEF RecencyInv
<1>3. RecencyInv /\ Books /\ (Works => StampsFit) /\ [Next]_vars =>
        [UnderLru => [Abstract!RecencyNext]_(Abstract!recencyVars)]_vars
  <2> SUFFICES ASSUME RecencyInv, Books, Works => StampsFit, [Next]_vars,
                      UnderLru
               PROVE  [Abstract!RecencyNext]_(Abstract!recencyVars)
    OBVIOUS
  <2>1. StampsFit /\ stats \in StatsType  BY DEF Works, Books
  <2> QED  BY <2>1, RecencyStep
<1> QED  BY <1>1, <1>2, <1>3, PTL DEF Spec, ImplementsRecency

(* Under LRU replacement the two-level cache is RecencyCache: which blocks *)
(* each set holds and in what order of use, whatever was prefetched and    *)
(* wherever it was inserted, which blocks of L1 are dirty, and what is     *)
(* read, prefetched and written below L1 by every sequence of loads and    *)
(* stores that is short enough for the clocks.                             *)
THEOREM CacheImplementsRecency ==
  ASSUME ShortTrace
  PROVE  Spec => ImplementsRecency
<1>1. RecencyInv /\ Books /\ ClockInv => (Works => StampsFit)
  BY ClocksFit DEF RecencyInv
<1> QED  BY <1>1, RecencyInvariant, RecencyWhileStampsFit, PTL

(* Under LRU replacement too, a full set has a block to give up: no time   *)
(* stamp reaches the sentinel that Set::LRU_Victim_block starts from, and  *)
(* none becomes 2^64 - 1 by the subtraction of Prefetch_Miss.              *)
THEOREM LruFindsVictim ==
  ASSUME ShortTrace
  PROVE  Spec => [](UnderLru => VictimFound)
<1>1. RecencyInv => (UnderLru => VictimFound)
  BY DEF RecencyInv, VictimFound, Works
<1> QED  BY <1>1, RecencyInvariant, PTL

-----------------------------------------------------------------------------
(* Properties of single steps *)

(* The frame that a prefetch takes is not that of the block whose miss     *)
(* caused it.                                                              *)
LEMMA PrefetchSpares ==
  ASSUME NEW m \in Nat \ {0}, NEW w \in Nat \ {0}, w > 1, NEW cache, NEW lo,
         NEW top, GoodCache(cache, m, w),
         config.replace_policy \in {"LRU", "LFU"},
         UnderLru => Ready(cache, lo, top, m, w) /\ top + 1 < SENTINEL,
         NEW a \in Nat, ~Cached(cache, a), FrameFor(cache, a) # NoVictim,
         FrameFor(cache, a) \in 1 .. w, NEW t \in Nat
  PROVE  /\ FrameFor(Demand(cache, a), t) # NoVictim
         /\ a \notin Gone(Demand(cache, a), t)
<1> DEFINE filled == Demand(cache, a)
<1>1. GoodCache(filled, m, w)  BY DemandGood
<1>2. CASE config.replace_policy = "LFU"
  <2>1. PICK b \in Block : Placed(cache, filled, a, b, TRUE, m)
    BY DemandPlaces
  <2> HIDE DEF filled
  <2>2. BlockAt(filled, a).MRU  BY <2>1 DEF Placed, Block
  <2>3. FrameFor(filled, t) # NoVictim /\ GoesUnmarked(filled, t, m)
    BY <1>1, <1>2, GoneLeaves
  <2> QED  BY <2>2, <2>3 DEF GoesUnmarked, filled
<1>3. CASE UnderLru
  <2> DEFINE set == filled.sets[t % m]
             f == FrameFor(filled, t)
             i == FrameFor(cache, a)
  <2>1. /\ Ready(cache, lo, top, m, w) /\ top + 1 < SENTINEL
        /\ Stamped(cache, lo, m) /\ lo \in Int /\ top \in Nat
    BY <1>3 DEF Ready
  <2>2. Ready(filled, lo, top + 1, m, w)  BY <2>1, DemandReady
  <2>3. PlacedIn(cache, filled, a, i, cache.time_stamp, m, w)
    BY DemandFrames
  <2> HIDE DEF filled, i
  <2>4. /\ i \in ValidFrames(filled.sets[a % m])
        /\ filled.sets[a % m].frames[i].tag = a \div m
        /\ Youngest(filled.sets[a % m], i)
    <3>1. i \in 1 .. w  BY DEF i
    <3> QED  BY <2>1, <2>3, <3>1, PlacedYoungest
  <2>5. f # NoVictim /\ f \in 1 .. w /\ CanTake(set, f, w)
    <3>1. filled.time_stamp < SENTINEL
      <4>1. filled.time_stamp \in Nat  BY <1>1 DEF GoodCache, CacheRecord
      <4> QED  BY <2>1, <2>2, <4>1, StampSizes DEF Ready
    <3>2. Stamped(filled, lo, m)  BY <2>2 DEF Ready
    <3> QED  BY <1>1, <1>3, <2>1, <3>1, <3>2, LruFrame
  <2>6. /\ GoodSet(set, w) /\ SetOf(filled, t) = set /\ t % m \in 0 .. m - 1
        /\ Index(filled, t) = t % m /\ SetNum(filled) = m
    <3>1. SetNum(filled) = m  BY <1>1, CacheFields
    <3>2. /\ GoodSet(SetOf(filled, t), w) /\ SetOf(filled, t) = set
          /\ t % m \in 0 .. m - 1 /\ Index(filled, t) = t % m
      BY <1>1, Located
    <3> QED  BY <3>1, <3>2
  <2> HIDE DEF f
  <2>7. ASSUME a \in Gone(filled, t) PROVE FALSE
    <3> DEFINE u == set.frames[f].tag
    <3>1. a = u * m + (t % m) /\ f \in ValidFrames(set)
      <4>1. f \in Frames(set)  BY <2>5, <2>6, SetFields DEF GoodSet
      <4> QED  BY <2>6, <2>7, <4>1 DEF Gone, GetAddr, ValidFrames, f
    <3>2. u \in Nat  BY <2>5, <2>6, SetFields DEF GoodSet, Block
    <3> HIDE DEF u
    <3>3. a % m = t % m /\ a \div m = u
      BY <2>6, <3>1, <3>2, AddressParts
    <3> USE DEF u
    <3>4. f = i
      BY <2>4, <2>6, <3>1, <3>3 DEF GoodSet, WellShaped
    <3>5. set.valid_block_num = w /\ Oldest(set, f)
      BY <2>5, <3>1 DEF CanTake
    <3>6. ValidFrames(set) = 1 .. w
      BY <2>6, <3>5 DEF GoodSet, WellShaped
    <3>7. PICK j \in 1 .. w : j # f
      <4>1. 1 \in 1 .. w /\ 2 \in 1 .. w  OBVIOUS
      <4> QED  BY <4>1
    <3>8. Later(set, j, f) /\ Later(set, f, j)
      BY <2>4, <3>3, <3>4, <3>5, <3>6, <3>7 DEF Oldest, Youngest
    <3> QED  BY <2>5, <2>6, <3>7, <3>8, LaterOrder
  <2> QED  BY <2>5, <2>7 DEF filled, f
<1> QED  BY <1>2, <1>3 DEF UnderLru

LEMMA ReadBrings ==
  ASSUME CachesInv, NEW lo, NEW top,
         UnderLru => Ready(L2, lo, top, Sets2, Ways2) /\ top + 1 < SENTINEL,
         ~config.l2_disabled, Ways2 > 1, NEW a \in AddrSet
  PROVE  Cached(L2Read(a), a) /\ GoodCache(L2Read(a), Sets2, Ways2)
<1> DEFINE t == PrefetchAddr(L2, a)
           filled == Demand(L2, a)
           noted == IF config.strided_prefetch_disabled THEN filled
                    ELSE [filled EXCEPT !.last_miss_addr = a]
           next == PrefetchMiss(noted, t)
<1>1. /\ Sets2 \in Nat \ {0} /\ Ways2 \in Nat \ {0} /\ a \in Nat
      /\ GoodCache(L2, Sets2, Ways2)
      /\ config.replace_policy \in {"LRU", "LFU"}
  BY Sizes, AddressType, CacheAssumption DEF CachesInv, Config
<1>2. GoodCache(L2Read(a), Sets2, Ways2)  BY L2ReadGood
<1>3. CASE Cached(L2, a)
  <2>1. L2Read(a) = Touch(L2, a)  BY <1>3 DEF L2Read
  <2>2. SameBlocks(L2, Touch(L2, a))  BY <1>1, <1>3, TouchKeeps
  <2> QED  BY <1>1, <1>2, <1>3, <2>1, <2>2 DEF SameBlocks
<1>4. CASE ~Cached(L2, a)
  <2>1. FrameFor(L2, a) # NoVictim /\ FrameFor(L2, a) \in 1 .. Ways2
    <3>1. CASE config.replace_policy = "LFU"
      <4>1. FrameFor(L2, a) # NoVictim  BY <1>1, <3>1, GoneLeaves
      <4>2. GoodSet(SetOf(L2, a), Ways2)  BY <1>1, Located
      <4> QED  BY <1>1, <4>1, <4>2, FrameChosen DEF FrameFor
    <3>2. CASE UnderLru
      <4>1. Ready(L2, lo, top, Sets2, Ways2) /\ top < SENTINEL /\ Finds(Ways2)
        <5>1. Ready(L2, lo, top, Sets2, Ways2) /\ top + 1 < SENTINEL
          BY <3>2
        <5>2. top \in Nat  BY <5>1 DEF Ready
        <5> QED  BY <3>2, <5>1, <5>2, StampSizes DEF Finds
      <4> QED  BY <1>1, <4>1, FrameFound
    <3> QED  BY <1>1, <3>1, <3>2 DEF UnderLru
  <2>2. t \in Nat
    <3>1. t \in 0 .. BLOCKS - 1 /\ BLOCKS \in Nat
      BY <1>1, PrefetchAddrType, AddressType
    <3> QED  BY <3>1
  <2> HIDE DEF t
  <2>3. Cached(filled, a)  BY <1>1, <1>4, <2>1, DemandKeeps
  <2>4. FrameFor(filled, t) # NoVictim /\ a \notin Gone(filled, t)
    BY <1>1, <1>4, <2>1, <2>2, PrefetchSpares
  <2>5. GoodCache(filled, Sets2, Ways2)  BY <1>1, <1>4, DemandGood
  <2>6. L2Read(a) = IF config.prefetcher_disabled THEN filled
                    ELSE IF Cached(filled, t) THEN noted ELSE next
    BY <1>4 DEF L2Read, Prefetch, t
  <2> HIDE DEF filled
  <2>7. noted.sets = filled.sets  BY <2>5 DEF GoodCache, CacheRecord
  <2>8. GoodCache(noted, Sets2, Ways2)  BY <1>1, <2>5, ClockGood
  <2> HIDE DEF noted
  <2>9. /\ Cached(noted, a) /\ (Cached(noted, t) <=> Cached(filled, t))
        /\ FrameFor(noted, t) = FrameFor(filled, t)
    BY <2>3, <2>7, SameSets
  <2>10. Gone(noted, t) = Gone(filled, t)
    BY <2>7 DEF Gone, GetAddr, SetNum, Index, FrameFor, SetOf
  <2>11. ~Cached(filled, t) => Cached(next, a)
    <3> SUFFICES ASSUME ~Cached(filled, t) PROVE Cached(next, a)  OBVIOUS
    <3>1. PICK b \in Block : Placed(noted, next, t, b,
                                    config.insert_policy = "MIP", Sets2)
      BY <1>1, <2>2, <2>4, <2>8, <2>9, PrefetchMissPlaces
    <3> HIDE DEF next
    <3> QED  BY <1>1, <2>4, <2>9, <2>10, <3>1 DEF Placed
  <2> QED  BY <1>2, <2>3, <2>6, <2>9, <2>11
<1> QED  BY <1>3, <1>4

LEMMA WriteKeeps ==
  ASSUME CachesInv, NEW cache, GoodCache(cache, Sets2, Ways2), NEW v \in Nat
  PROVE  \A x \in Nat : Cached(L2Write(cache, v), x) <=> Cached(cache, x)
<1> DEFINE touched == Touch(cache, v)
<1>1. /\ Sets2 \in Nat \ {0} /\ Ways2 \in Nat
      /\ config.replace_policy \in {"LRU", "LFU"}
  BY Sizes, CacheAssumption DEF CachesInv, Config
<1>2. CASE Cached(cache, v)
  <2>1. SameBlocks(cache, touched)  BY <1>1, <1>2, TouchKeeps
  <2>2. GoodCache(touched, Sets2, Ways2)  BY <1>1, <1>2, TouchGood
  <2> HIDE DEF touched
  <2>3. Cached(touched, v)  BY <1>2, <2>1 DEF SameBlocks
  <2>4. \A dirty \in BOOLEAN : MarksWell(touched, v, dirty)
    BY <1>1, <2>2, <2>3, MarksAny
  <2>5. Marked(touched, SetDirty(touched, v, FALSE), v, FALSE)
    BY <2>4 DEF MarksWell
  <2>6. \A x \in Nat : Cached(SetDirty(touched, v, FALSE), x)
                         <=> Cached(cache, x)
    BY <2>1, <2>5 DEF SameBlocks, Marked
  <2> QED  BY <2>6 DEF L2Write, touched
<1>3. CASE ~Cached(cache, v)  BY <1>3 DEF L2Write
<1> QED  BY <1>2, <1>3

(* The blocks that an access brings into L1. *)
LEMMA NewInL1 ==
  ASSUME CachesInv, NEW rw \in {"R", "W"}, NEW a \in AddrSet
  PROVE  /\ L1Hit(rw, a) => \A x \in Nat : Cached(L1', x) => Cached(L1, x)
         /\ L1Miss(rw, a) =>
              \A x \in Nat : Cached(L1', x) => x = a \/ Cached(L1, x)
<1>1. ASSUME L1Hit(rw, a)
      PROVE  \A x \in Nat : Cached(L1', x) => Cached(L1, x)
  <2>1. L1' = HitCache(rw, a) /\ Cached(L1, a)
    BY <1>1 DEF L1Hit, HitCache
  <2> QED  BY <2>1, HitBlocks
<1>2. ASSUME L1Miss(rw, a)
      PROVE  \A x \in Nat : Cached(L1', x) => x = a \/ Cached(L1, x)
  <2>1. L1' = MissCache(rw, a) /\ ~Cached(L1, a) /\ ~L1.lost
    BY <1>2 DEF L1Miss, MissCache, CanAccess, Crashed
  <2>2. CASE FrameFor(L1, a) # NoVictim  BY <2>1, <2>2, MissBlocks
  <2>3. CASE FrameFor(L1, a) = NoVictim
    <3> DEFINE filled == Demand(L1, a)
    <3>1. GoodCache(L1, Sets1, Ways1)  BY DEF CachesInv
    <3>2. filled.sets = L1.sets /\ filled.lost
      BY <2>3, <3>1 DEF Demand, Place, GoodCache, CacheRecord
    <3>3. MissCache(rw, a) = filled  BY <3>2 DEF MissCache
    <3> HIDE DEF filled
    <3> QED  BY <2>1, <3>2, <3>3, SameSets
  <2> QED  BY <2>2, <2>3
<1> QED  BY <1>1, <1>2

(* The block that a write-back concerns. *)
LEMMA VictimType ==
  ASSUME CachesInv, NEW a \in AddrSet, WritesBack(a)
  PROVE  VictimAddr(a) \in Nat
<1> DEFINE set == SetOf(L1, a)
           i == FrameFor(L1, a)
<1>1. /\ Sets1 \in Nat \ {0} /\ Ways1 \in Nat \ {0} /\ a \in Nat
      /\ GoodCache(L1, Sets1, Ways1)
  BY Sizes, AddressType DEF CachesInv
<1>2. SetNum(L1) = Sets1  BY <1>1, CacheFields
<1>3. GoodSet(set, Ways1) /\ Index(L1, a) \in Nat
  <2>1. /\ GoodSet(set, Ways1) /\ Index(L1, a) = a % Sets1
        /\ a % Sets1 \in 0 .. Sets1 - 1
    BY <1>1, Located
  <2> QED  BY <2>1
<1>4. i # NoVictim  BY DEF WritesBack
<1>5. i \in 1 .. Ways1  BY <1>1, <1>3, <1>4, FrameChosen DEF FrameFor
<1>6. set.frames[i].tag \in Nat
  <2> HIDE DEF i, set
  <2> QED  BY <1>1, <1>3, <1>5, SetFields DEF GoodSet, Block
<1> HIDE DEF i, set
<1> QED  BY <1>1, <1>2, <1>3, <1>6 DEF VictimAddr, GetAddr, i, set

LEMMA PrefetchKeepsStep ==
  ASSUME RecencyInv, Works => StampsFit, [Next]_vars,
         ~config.l2_disabled, config.s2 > 0
  PROVE  (Contents(L1)' \ Contents(L1)) \subseteq Contents(L2)'
<1>1. /\ CachesInv /\ BLOCKS \in Nat /\ Ways2 > 1
      /\ GoodCache(L2, Sets2, Ways2)
  <2>1. CachesInv  BY DEF RecencyInv
  <2>2. config.s2 \in Nat  BY <2>1, CacheAssumption DEF CachesInv, Config
  <2> QED  BY <2>1, <2>2, PowerAboveOne, CacheAssumption
           DEF Ways2, CachesInv
<1>2. \A x \in 0 .. BLOCKS - 1 : x \in Nat  BY <1>1
<1>3. CASE UNCHANGED vars
  BY <1>3 DEF vars, Contents
<1>4. ASSUME NEW rw \in {"R", "W"}, NEW a \in AddrSet, L1Hit(rw, a)
      PROVE  Contents(L1)' \subseteq Contents(L1)
  BY <1>1, <1>2, <1>4, NewInL1 DEF Contents
<1>5. ASSUME NEW rw \in {"R", "W"}, NEW a \in AddrSet, L1Miss(rw, a)
      PROVE  (Contents(L1)' \ Contents(L1)) \subseteq Contents(L2)'
  <2> DEFINE read == L2Read(a)
  <2>1. Contents(L1)' \ Contents(L1) \subseteq {a}
    BY <1>1, <1>2, <1>5, NewInL1 DEF Contents
  <2>2. UnderLru => /\ Ready(L2, Floor, L2.time_stamp, Sets2, Ways2)
                    /\ L2.time_stamp + 1 < SENTINEL
    BY ReadyTwo DEF Works
  <2>3. Cached(read, a) /\ GoodCache(read, Sets2, Ways2)
    BY <1>1, <2>2, ReadBrings
  <2> HIDE DEF read
  <2>4. L2' = IF WritesBack(a) THEN L2Write(read, VictimAddr(a)) ELSE read
    BY <1>5 DEF L1Miss, read
  <2>5. a \in Nat  BY AddressType
  <2>6. Cached(L2', a)
    <3>1. CASE WritesBack(a)
      <4>1. VictimAddr(a) \in Nat  BY <1>1, <3>1, VictimType
      <4>2. \A x \in Nat : Cached(L2Write(read, VictimAddr(a)), x)
                             <=> Cached(read, x)
        BY <1>1, <2>3, <4>1, WriteKeeps
      <4> QED  BY <2>3, <2>4, <2>5, <3>1, <4>2
    <3>2. CASE ~WritesBack(a)  BY <2>3, <2>4, <3>2
    <3> QED  BY <3>1, <3>2
  <2>7. a \in 0 .. BLOCKS - 1  BY CacheAssumption
  <2>8. a \in Contents(L2)'  BY <2>6, <2>7 DEF Contents
  <2> QED  BY <2>1, <2>8
<1> QED  BY <1>3, <1>4, <1>5 DEF Next, Access

(* A prefetch does not cost L2 the block whose miss caused it: it takes    *)
(* the frame of another block, whatever the policies, as long as a set has *)
(* more than one frame; and the write-back that follows removes nothing.   *)
THEOREM PrefetchKeepsDemandHolds ==
  ASSUME ShortTrace
  PROVE  Spec => PrefetchKeepsDemand
<1>1. RecencyInv /\ Books /\ ClockInv /\ [Next]_vars =>
        [~config.l2_disabled /\ config.s2 > 0 =>
           (Contents(L1)' \ Contents(L1)) \subseteq Contents(L2)']_vars
  <2> SUFFICES ASSUME RecencyInv, Books, ClockInv, [Next]_vars,
                      ~config.l2_disabled, config.s2 > 0
               PROVE  (Contents(L1)' \ Contents(L1)) \subseteq Contents(L2)'
    OBVIOUS
  <2>1. Works => StampsFit  BY ClocksFit DEF RecencyInv
  <2> QED  BY <2>1, PrefetchKeepsStep
<1> QED  BY <1>1, RecencyInvariant, PTL DEF Spec, PrefetchKeepsDemand

(* Block x is there, and older than all others of its set. *)
Eldest(cache, x, m) ==
  LET set == cache.sets[x % m]
  IN  \E f \in ValidFrames(set) :
        /\ set.frames[f].tag = x \div m
        /\ \A j \in ValidFrames(set) \ {f} :
             set.frames[f].time_stamp < set.frames[j].time_stamp

LEMMA PrefetchMissEldest ==
  ASSUME NEW m \in Nat \ {0}, NEW w \in Nat, NEW cache, NEW lo, NEW top,
         Ready(cache, lo, top, m, w), NEW t \in Nat, ~Cached(cache, t),
         lo > 0, top < SENTINEL, ~AtFront, FrameFor(cache, t) # NoVictim
  PROVE  Eldest(PrefetchMiss(cache, t), t, m)
<1> DEFINE k == t % m
           f == FrameFor(cache, t)
           stamp == PrefetchStamp(cache, t)
           old == cache.sets[k]
           next == PrefetchMiss(cache, t)
<1>1. \A j \in ValidFrames(old) : stamp < old.frames[j].time_stamp
  BY PrefetchStampIs
<1>2. PlacedIn(cache, next, t, f, stamp, m, w)
  BY PrefetchMissFrames DEF Ready
<1> HIDE DEF next, stamp, f
<1>3. PICK new :
        /\ SetChange(cache, next, k, new, m, w) /\ Kept(old, new, f)
        /\ new.frames[f].tag = t \div m /\ new.frames[f].time_stamp = stamp
  BY <1>2 DEF PlacedIn
<1>4. next.sets[k] = new  BY <1>3 DEF SetChange
<1>5. /\ f \in ValidFrames(new)
      /\ \A j \in ValidFrames(new) \ {f} :
           new.frames[f].time_stamp < new.frames[j].time_stamp
  BY <1>1, <1>3 DEF Kept
<1> QED  BY <1>3, <1>4, <1>5 DEF Eldest, next

LEMMA SameEldest ==
  ASSUME NEW m \in Nat \ {0}, NEW w \in Nat, NEW cache, NEW next,
         GoodCache(cache, m, w), GoodCache(next, m, w),
         SameFrames(cache, next, m, w), NEW x \in Nat, Eldest(cache, x, m)
  PROVE  Eldest(next, x, m)
<1> DEFINE k == x % m
           old == cache.sets[k]
           new == next.sets[k]
<1>1. /\ k \in 0 .. m - 1 /\ GoodSet(old, w) /\ GoodSet(new, w)
  <2>1. k \in 0 .. m - 1  BY AddressWhole
  <2> HIDE DEF k
  <2> QED  BY <2>1, CacheFields
<1>2. \A j \in 1 .. w :
        /\ new.frames[j].valid_bit = old.frames[j].valid_bit
        /\ new.frames[j].tag = old.frames[j].tag
        /\ new.frames[j].time_stamp = old.frames[j].time_stamp
  BY <1>1 DEF SameFrames
<1>3. Eldest(cache, x, m) <=>
        \E f \in ValidFrames(old) :
          /\ old.frames[f].tag = x \div m
          /\ \A j \in ValidFrames(old) \ {f} :
               old.frames[f].time_stamp < old.frames[j].time_stamp
  BY DEF Eldest
<1>4. Eldest(next, x, m) <=>
        \E f \in ValidFrames(new) :
          /\ new.frames[f].tag = x \div m
          /\ \A j \in ValidFrames(new) \ {f} :
               new.frames[f].time_stamp < new.frames[j].time_stamp
  BY DEF Eldest
<1> HIDE DEF old, new
<1>5. Frames(old) = 1 .. w /\ Frames(new) = 1 .. w
  BY <1>1, SetFields DEF GoodSet
<1>6. ValidFrames(new) = ValidFrames(old) /\ ValidFrames(old) \subseteq 1 .. w
  BY <1>2, <1>5 DEF ValidFrames
<1> QED  BY <1>2, <1>3, <1>4, <1>6

(* Another block is used, which makes that one younger. *)
LEMMA TouchEldest ==
  ASSUME NEW m \in Nat \ {0}, NEW w \in Nat, NEW cache, NEW lo,
         GoodCache(cache, m, w), Stamped(cache, lo, m),
         config.replace_policy \in {"LRU", "LFU"},
         NEW v \in Nat, Cached(cache, v), NEW x \in Nat, x # v,
         Eldest(cache, x, m)
  PROVE  Eldest(Touch(cache, v), x, m)
<1> DEFINE next == Touch(cache, v)
<1>1. GoodCache(next, m, w)  BY TouchGood
<1>2. CASE config.replace_policy = "LFU"
  <2>1. SameFrames(cache, next, m, w)  BY <1>2, TouchLfuFrames
  <2> HIDE DEF next
  <2>2. Eldest(next, x, m)  BY <1>1, <2>1, SameEldest
  <2> QED  BY <2>2 DEF next
<1>3. CASE config.replace_policy = "LRU"
  <2> DEFINE k == v % m
             old == cache.sets[k]
  <2>1. PICK i \in 1 .. w : TouchedIn(cache, v, i, m, w)
    BY <1>3, TouchFrames
  <2> HIDE DEF next
  <2>2. PICK new :
          /\ SetChange(cache, next, k, new, m, w) /\ Kept(old, new, i)
          /\ new.frames[i].tag = v \div m
          /\ new.frames[i].time_stamp = cache.time_stamp
    BY <2>1 DEF TouchedIn, PlacedIn, next
  <2>3. /\ next.sets[k] = new /\ k \in 0 .. m - 1 /\ x % m \in 0 .. m - 1
        /\ \A j \in 0 .. m - 1 : j # k => next.sets[j] = cache.sets[j]
    BY <2>2, AddressWhole DEF SetChange
  <2>4. CASE x % m # k
    <3>1. next.sets[x % m] = cache.sets[x % m]  BY <2>3, <2>4
    <3> QED  BY <3>1 DEF Eldest, next
  <2>5. CASE x % m = k
    <3>1. i \in ValidFrames(old) /\ old.frames[i].tag = v \div m
      BY <2>1 DEF TouchedIn
    <3>2. PICK f \in ValidFrames(old) :
            /\ old.frames[f].tag = x \div m
            /\ \A j \in ValidFrames(old) \ {f} :
                 old.frames[f].time_stamp < old.frames[j].time_stamp
      BY <2>5 DEF Eldest
    <3>3. f # i
      <4>1. x = v <=> x % m = v % m /\ x \div m = v \div m  BY AddressSame
      <4>2. x \div m # v \div m  BY <2>5, <4>1
      <4> QED  BY <3>1, <3>2, <4>2
    <3>4. /\ new.frames[f].tag = old.frames[f].tag
          /\ new.frames[f].time_stamp = old.frames[f].time_stamp
          /\ ValidFrames(new) = ValidFrames(old)
      BY <3>1, <2>2, <3>2, <3>3 DEF Kept
    <3>5. GoodSet(old, w) /\ cache.time_stamp \in Nat
          /\ StampedSet(old, lo, cache.time_stamp)
      <4> HIDE DEF k
      <4> QED  BY <2>3, CacheFields DEF Stamped
    <3>6. /\ old.frames[f].time_stamp \in Nat
          /\ old.frames[i].time_stamp \in Nat
      <4> HIDE DEF old
      <4>1. f \in 1 .. w  BY <3>2, <3>5, ValidCount
      <4> QED  BY <3>5, <4>1, SetFields DEF GoodSet, Block
    <3>7. old.frames[i].time_stamp <= cache.time_stamp
      BY <3>1, <3>5, <3>6 DEF StampedSet
    <3>8. old.frames[f].time_stamp < cache.time_stamp
      <4>1. old.frames[f].time_stamp < old.frames[i].time_stamp
        BY <3>1, <3>2, <3>3
      <4> HIDE DEF old
      <4> QED  BY <3>5, <3>6, <3>7, <4>1
    <3>9. \A j \in ValidFrames(new) \ {f} :
            new.frames[f].time_stamp < new.frames[j].time_stamp
      BY <2>2, <3>2, <3>4, <3>8 DEF Kept
    <3> QED  BY <2>3, <2>5, <3>2, <3>4, <3>9 DEF Eldest, next
  <2> QED  BY <2>4, <2>5
<1> QED  BY <1>2, <1>3

(* What a read brings into L2 besides the block that was asked for. *)
LEMMA ReadEldest ==
  ASSUME CachesInv, NEW lo, NEW top, Ready(L2, lo, top, Sets2, Ways2),
         top + 1 < SENTINEL, L2Finds, lo > 0, ~AtFront, NEW a \in AddrSet,
         NEW x \in Nat, x # a, Cached(L2Read(a), x), ~Cached(L2, x)
  PROVE  Eldest(L2Read(a), x, Sets2)
<1> DEFINE t == PrefetchAddr(L2, a)
           filled == Demand(L2, a)
           noted == IF config.strided_prefetch_disabled THEN filled
                    ELSE [filled EXCEPT !.last_miss_addr = a]
           next == PrefetchMiss(noted, t)
<1>1. /\ Sets2 \in Nat \ {0} /\ Ways2 \in Nat \ {0} /\ a \in Nat
      /\ GoodCache(L2, Sets2, Ways2)
      /\ config.replace_policy \in {"LRU", "LFU"}
  BY Sizes, AddressType, CacheAssumption DEF CachesInv, Config
<1>2. /\ top \in Nat /\ top < SENTINEL /\ top + 1 \in Nat
  <2>1. top \in Nat  BY DEF Ready
  <2> QED  BY <2>1, StampSizes
<1>3. t \in Nat
  <2>1. t \in 0 .. BLOCKS - 1 /\ BLOCKS \in Nat
    BY <1>1, PrefetchAddrType, AddressType
  <2> QED  BY <2>1
<1> HIDE DEF t
<1>4. ~config.l2_disabled  BY DEF L2Read
<1>5. ~Cached(L2, a)
  <2> SUFFICES ASSUME Cached(L2, a) PROVE FALSE  OBVIOUS
  <2>1. L2Read(a) = Touch(L2, a)  BY <1>4 DEF L2Read
  <2>2. SameBlocks(L2, Touch(L2, a))  BY <1>1, TouchKeeps
  <2> QED  BY <2>1, <2>2 DEF SameBlocks
<1>6. FrameFor(L2, a) # NoVictim /\ FrameFor(L2, a) \in 1 .. Ways2
      /\ Finds(Ways2)
  <2>1. Finds(Ways2)  BY <1>4 DEF L2Finds
  <2>2. FrameFor(L2, a) # NoVictim /\ FrameFor(L2, a) \in 1 .. Ways2
    BY <1>1, <1>2, <2>1, FrameFound
  <2> QED  BY <2>1, <2>2
<1>7. Ready(filled, lo, top + 1, Sets2, Ways2)
  BY <1>1, <1>5, <1>6, DemandReady
<1>8. ~Cached(filled, x)  BY <1>1, <1>5, <1>6, DemandKeeps
<1>9. L2Read(a) = IF config.prefetcher_disabled THEN filled
                  ELSE IF Cached(filled, t) THEN noted ELSE next
  BY <1>4, <1>5 DEF L2Read, Prefetch, t
<1> HIDE DEF filled
<1>10. GoodCache(filled, Sets2, Ways2)  BY <1>7 DEF Ready
<1>11. noted.sets = filled.sets /\ noted.time_stamp = filled.time_stamp
  BY <1>10 DEF GoodCache, CacheRecord
<1>12. GoodCache(noted, Sets2, Ways2)  BY <1>1, <1>10, ClockGood
<1> HIDE DEF noted
<1>13. \A y : Cached(noted, y) <=> Cached(filled, y)  BY <1>11, SameSets
<1>14. L2Read(a) = next /\ ~Cached(noted, t)  BY <1>8, <1>9, <1>13
<1>15. Ready(noted, lo, top + 1, Sets2, Ways2)
  BY <1>1, <1>7, <1>11, <1>12, NotedReady
<1>16. FrameFor(noted, t) # NoVictim
  BY <1>1, <1>3, <1>6, <1>15, FrameFound
<1>17. x = t
  <2>1. \E b \in Block : Placed(noted, next, t, b,
                                config.insert_policy = "MIP", Sets2)
    BY <1>1, <1>3, <1>12, <1>14, <1>16, PrefetchMissPlaces
  <2> HIDE DEF next
  <2> QED  BY <1>8, <1>13, <1>14, <2>1 DEF Placed
<1>18. Eldest(next, t, Sets2)
  BY <1>1, <1>2, <1>3, <1>14, <1>15, <1>16, PrefetchMissEldest
<1> QED  BY <1>14, <1>17, <1>18

LEMMA EldestFound ==
  ASSUME NEW m \in Nat \ {0}, NEW w \in Nat, NEW cache,
         GoodCache(cache, m, w), NEW x \in Nat, Eldest(cache, x, m)
  PROVE  LET set == SetOf(cache, x)
             me  == set.frames[Find(set, Tag(cache, x))]
         IN  \A i \in ValidFrames(set) :
               set.frames[i].tag # me.tag =>
                 me.time_stamp < set.frames[i].time_stamp
<1> DEFINE set == SetOf(cache, x)
           t == x \div m
           h == Find(set, t)
<1>1. /\ GoodSet(set, w) /\ Tag(cache, x) = t /\ cache.sets[x % m] = set
  BY Located
<1>2. PICK f \in ValidFrames(set) :
        /\ set.frames[f].tag = t
        /\ \A j \in ValidFrames(set) \ {f} :
             set.frames[f].time_stamp < set.frames[j].time_stamp
  BY <1>1 DEF Eldest
<1> HIDE DEF set, t
<1>3. Has(set, t)  BY <1>2 DEF Has, ValidFrames
<1>4. h \in ValidFrames(set) /\ set.frames[h].tag = t
  BY <1>1, <1>3, EntryFrame DEF Entry
<1>5. h = f
  <2>1. \A i, j \in ValidFrames(set) :
          set.frames[i].tag = set.frames[j].tag => i = j
    BY <1>1 DEF GoodSet, WellShaped
  <2> QED  BY <1>2, <1>4, <2>1
<1> HIDE DEF h
<1>6. \A i \in ValidFrames(set) :
        set.frames[i].tag # set.frames[h].tag =>
          set.frames[h].time_stamp < set.frames[i].time_stamp
  BY <1>2, <1>5
<1> QED  BY <1>1, <1>6 DEF h, set

LEMMA LipStep ==
  ASSUME RecencyInv, Works, StampsFit, [Next]_vars, ~AtFront,
         NEW x \in (Contents(L2)' \ Contents(L2))
                     \ (Contents(L1)' \cup Contents(L1))
  PROVE  Eldest(L2', x, Sets2) /\ GoodCache(L2', Sets2, Ways2)
<1>1. /\ CachesInv /\ Sets2 \in Nat \ {0} /\ Ways2 \in Nat \ {0}
      /\ Sets1 \in Nat \ {0} /\ Ways1 \in Nat \ {0}
      /\ BLOCKS \in Nat /\ GoodCache(L1, Sets1, Ways1)
      /\ config.replace_policy \in {"LRU", "LFU"}
  BY Sizes, CacheAssumption DEF RecencyInv, CachesInv, Config
<1>2. x \in Nat /\ Cached(L2', x) /\ ~Cached(L2, x)
      /\ ~Cached(L1', x) /\ ~Cached(L1, x)
  BY <1>1 DEF Contents
<1>3. L2' # L2  BY <1>2
<1>4. PICK rw \in {"R", "W"}, a \in AddrSet : L1Miss(rw, a)
  BY <1>3 DEF Next, Access, L1Hit, vars
<1> DEFINE read == L2Read(a)
           v == VictimAddr(a)
           touched == Touch(read, v)
<1>5. a \in Nat  BY AddressType
<1>6. /\ Ready(L1, 0, L1.time_stamp, Sets1, Ways1)
      /\ L1.time_stamp < SENTINEL /\ Finds(Ways1) /\ L2Finds
  BY <1>1, ReadyOne, WorksFinds
<1>7. FrameFor(L1, a) # NoVictim  BY <1>1, <1>5, <1>6, FrameFound
<1>8. x # a
  <2>1. L1' = MissCache(rw, a) /\ ~Cached(L1, a) /\ ~L1.lost
    BY <1>4 DEF L1Miss, MissCache, CanAccess, Crashed
  <2>2. Cached(L1', a)  BY <1>1, <1>7, <2>1, MissBlocks
  <2> QED  BY <1>2, <2>2
<1>9. /\ Ready(L2, Floor, L2.time_stamp, Sets2, Ways2)
      /\ L2.time_stamp + 1 < SENTINEL /\ Floor > 0
  BY ReadyTwo
<1>10. Ready(read, Lowest(Floor, Fetches(a)), L2.time_stamp + 2, Sets2, Ways2)
  BY <1>1, <1>6, <1>9, ReadReady
<1>11. Cached(read, x) /\ GoodCache(read, Sets2, Ways2)
       /\ Stamped(read, Lowest(Floor, Fetches(a)), Sets2)
  <2>1. GoodCache(read, Sets2, Ways2)  BY <1>10 DEF Ready
  <2>2. Stamped(read, Lowest(Floor, Fetches(a)), Sets2)  BY <1>10 DEF Ready
  <2>3. Cached(read, x)
    <3>1. CASE WritesBack(a)
      <4>1. v \in Nat  BY <1>1, <3>1, VictimType
      <4>2. L2' = L2Write(read, v)  BY <1>4, <3>1 DEF L1Miss
      <4> HIDE DEF read, v
      <4>3. \A y \in Nat : Cached(L2Write(read, v), y) <=> Cached(read, y)
        BY <1>1, <2>1, <4>1, WriteKeeps
      <4> QED  BY <1>2, <4>2, <4>3
    <3>2. CASE ~WritesBack(a)
      <4>1. L2' = read  BY <1>4, <3>2 DEF L1Miss
      <4> QED  BY <1>2, <4>1
    <3> QED  BY <3>1, <3>2
  <2> QED  BY <2>1, <2>2, <2>3
<1>12. Eldest(read, x, Sets2)
  BY <1>1, <1>2, <1>6, <1>8, <1>9, <1>11, ReadEldest
<1>13. L2' = IF WritesBack(a) /\ ~config.l2_disabled /\ Cached(read, v)
             THEN SetDirty(touched, v, FALSE) ELSE read
  BY <1>4 DEF L1Miss, L2Write
<1>14. WritesBack(a) => v \in Nat /\ v # x
  <2> SUFFICES ASSUME WritesBack(a) PROVE v \in Nat /\ v # x  OBVIOUS
  <2>1. v \in Nat  BY <1>1, VictimType
  <2>2. v \in DirtyHeld(L1)
    <3>1. ~Cached(L1, a)  BY <1>4 DEF L1Miss
    <3>2. NoStray(L1, Sets1, Ways1)  BY DEF RecencyInv
    <3> QED  BY <1>1, <1>7, <3>1, <3>2, WritesGone
  <2> HIDE DEF v
  <2>3. Cached(L1, v)  BY <2>2 DEF DirtyHeld
  <2> QED  BY <1>2, <2>1, <2>3
<1> HIDE DEF read, v
<1>15. CASE WritesBack(a) /\ ~config.l2_disabled /\ Cached(read, v)
  <2>1. v \in Nat /\ v # x /\ Cached(read, v)  BY <1>14, <1>15
  <2>2. Eldest(touched, x, Sets2)
    BY <1>1, <1>2, <1>11, <1>12, <2>1, TouchEldest
  <2>3. GoodCache(touched, Sets2, Ways2)  BY <1>1, <1>11, <2>1, TouchGood
  <2> HIDE DEF touched
  <2>4. /\ SameFrames(touched, SetDirty(touched, v, FALSE), Sets2, Ways2)
        /\ GoodCache(SetDirty(touched, v, FALSE), Sets2, Ways2)
    <3>1. \A dirty \in BOOLEAN :
            SameFrames(touched, SetDirty(touched, v, dirty), Sets2, Ways2)
      BY <1>1, <2>1, <2>3, SetDirtyFrames
    <3>2. \A dirty \in BOOLEAN :
            GoodCache(SetDirty(touched, v, dirty), Sets2, Ways2)
      BY <1>1, <2>1, <2>3, SetDirtyGood
    <3> QED  BY <3>1, <3>2
  <2>5. Eldest(SetDirty(touched, v, FALSE), x, Sets2)
    BY <1>1, <1>2, <2>2, <2>3, <2>4, SameEldest
  <2> QED  BY <1>13, <1>15, <2>4, <2>5
<1>16. CASE ~(WritesBack(a) /\ ~config.l2_disabled /\ Cached(read, v))
  BY <1>11, <1>12, <1>13, <1>16
<1> QED  BY <1>15, <1>16

(* Under LIP a block that a read prefetches into L2 is older than all      *)
(* others of its set once the access is over, also if the write-back of    *)
(* that access used another block of the set.  (With one frame in a set    *)
(* and LFU replacement the program may end in the middle of the access,    *)
(* and L1 lacks the block that was read.)                                  *)
THEOREM LipIsOldestHolds ==
  ASSUME ShortTrace
  PROVE  Spec /\ Works => LipIsOldest
<1>1. RecencyInv /\ Books /\ ClockInv /\ Works /\ [Next]_vars =>
        [config.insert_policy = "LIP" =>
           \A addr \in (Contents(L2)' \ Contents(L2))
                         \ (Contents(L1)' \cup Contents(L1)) :
             LET set == SetOf(L2', addr)
                 me  == set.frames[Find(set, Tag(L2', addr))]
             IN  \A i \in ValidFrames(set) :
                   set.frames[i].tag # me.tag =>
                     me.time_stamp < set.frames[i].time_stamp]_vars
  <2> SUFFICES ASSUME RecencyInv, Books, ClockInv, Works, [Next]_vars,
                      config.insert_policy = "LIP",
                      NEW addr \in (Contents(L2)' \ Contents(L2))
                                     \ (Contents(L1)' \cup Contents(L1))
               PROVE  LET set == SetOf(L2', addr)
                          me  == set.frames[Find(set, Tag(L2', addr))]
                      IN  \A i \in ValidFrames(set) :
                            set.frames[i].tag # me.tag =>
                              me.time_stamp < set.frames[i].time_stamp
    OBVIOUS
  <2>1. StampsFit /\ ~AtFront  BY ClocksFit DEF RecencyInv, AtFront
  <2>2. Eldest(L2', addr, Sets2) /\ GoodCache(L2', Sets2, Ways2)
    BY <2>1, LipStep
  <2>3. addr \in Nat /\ Sets2 \in Nat \ {0} /\ Ways2 \in Nat
    <3>1. addr \in 0 .. BLOCKS - 1  BY DEF Contents
    <3> QED  BY <3>1, Sizes, CacheAssumption DEF RecencyInv, CachesInv
  <2> QED  BY <2>2, <2>3, EldestFound
<1>2. Works /\ [Next]_vars => Works'
  BY DEF Works, UnderLru, UnderLfu, Next, Access, L1Hit, L1Miss, vars
<1> QED  BY <1>1, <1>2, RecencyInvariant, PTL DEF Spec, LipIsOldest
=============================================================================
