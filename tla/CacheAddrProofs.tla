--------------------------- MODULE CacheAddrProofs ---------------------------
(***************************************************************************)
(* The address arithmetic of the caches on words of 64 bits, for every     *)
(* address and every configuration whose levels are built: as sets of bits *)
(* first, then as numbers.                                                 *)
(***************************************************************************)
EXTENDS CacheAddr, FiniteSetTheorems, WellFoundedInduction, TLAPS

-----------------------------------------------------------------------------
(* Masks *)

TagAt(l) == l.c - l.s   \* the lowest bit of the tag

IsLevel(l) == l.b \in 4 .. 7 /\ l.c \in Nat /\ l.s \in Nat /\ Built(l)

LEMMA LevelSizes ==
  ASSUME NEW l, IsLevel(l)
  PROVE  /\ l.b \in 4 .. 7 /\ TagAt(l) \in 4 .. 17 /\ l.b <= TagAt(l)
         /\ l.c - l.b - l.s = TagAt(l) - l.b
         /\ WORD_BITS - l.c + l.s = 64 - TagAt(l)
BY DEF IsLevel, Built, TagAt, WORD_BITS

(* The masks are runs of 1s: the tag's up to bit 63, although computed on  *)
(* int, because its sign bit is set; the index's below bit 31.             *)
LEMMA MaskRuns ==
  ASSUME NEW l, IsLevel(l)
  PROVE  /\ OffsetMask(l) = 0 .. l.b - 1
         /\ IndexMask(l) = l.b .. TagAt(l) - 1
         /\ TagMask(l) = TagAt(l) .. 63
<1> DEFINE b == l.b
           d == TagAt(l)
<1>1. b \in 4 .. 7 /\ d \in 4 .. 17 /\ b <= d  BY LevelSizes
<1>2. OffsetMask(l) = Widen(IntOnes(b))
      /\ IndexMask(l) = Widen(IntShl(IntOnes(d - b), b))
      /\ TagMask(l) = Widen(IntShl(IntOnes(64 - d), d))
  BY LevelSizes DEF OffsetMask, IndexMask, TagMask, TagAt
<1> HIDE DEF b, d
<1>3. OffsetMask(l) = 0 .. b - 1
  <2>1. IntOnes(b) = 0 .. b - 1  BY <1>1 DEF IntOnes, INT_BITS
  <2>2. 31 \notin 0 .. b - 1  BY <1>1
  <2> QED  BY <1>2, <2>1, <2>2 DEF Widen, INT_BITS
<1>4. IndexMask(l) = b .. d - 1
  <2>1. IntOnes(d - b) = 0 .. d - b - 1  BY <1>1 DEF IntOnes, INT_BITS
  <2>2. b % 32 = b  BY <1>1
  <2>3. {k + b : k \in 0 .. d - b - 1} = b .. d - 1
    <3>1. \A j \in b .. d - 1 : j - b \in 0 .. d - b - 1 /\ j = (j - b) + b
      BY <1>1
    <3>2. \A k \in 0 .. d - b - 1 : k + b \in b .. d - 1  BY <1>1
    <3> QED  BY <3>1, <3>2
  <2>4. b .. d - 1 \subseteq IntBits  BY <1>1 DEF IntBits, INT_BITS
  <2>5. IntShl(IntOnes(d - b), b) = b .. d - 1
    BY <2>1, <2>2, <2>3, <2>4 DEF IntShl, INT_BITS
  <2>6. 31 \notin b .. d - 1  BY <1>1
  <2>7. Widen(b .. d - 1) = b .. d - 1  BY <2>6 DEF Widen, INT_BITS
  <2> QED  BY <1>2, <2>5, <2>7
<1>5. TagMask(l) = d .. 63
  <2>1. (64 - d) % 32 = 32 - d /\ d % 32 = d  BY <1>1
  <2>2. IntOnes(64 - d) = 0 .. 31 - d  BY <1>1, <2>1 DEF IntOnes, INT_BITS
  <2>3. {k + d : k \in 0 .. 31 - d} = d .. 31
    <3>1. \A j \in d .. 31 : j - d \in 0 .. 31 - d /\ j = (j - d) + d
      BY <1>1
    <3>2. \A k \in 0 .. 31 - d : k + d \in d .. 31  BY <1>1
    <3> QED  BY <3>1, <3>2
  <2>4. d .. 31 \subseteq IntBits  BY <1>1 DEF IntBits, INT_BITS
  <2>5. IntShl(IntOnes(64 - d), d) = d .. 31
    BY <2>1, <2>2, <2>3, <2>4 DEF IntShl, INT_BITS
  <2>6. 31 \in d .. 31 /\ (d .. 31) \cup (32 .. 63) = d .. 63  BY <1>1
  <2>7. INT_BITS - 1 = 31 /\ INT_BITS .. WORD_BITS - 1 = 32 .. 63
    BY DEF INT_BITS, WORD_BITS
  <2>8. Widen(d .. 31) = d .. 63  BY <2>6, <2>7 DEF Widen
  <2> QED  BY <1>2, <2>5, <2>8
<1> QED  BY <1>3, <1>4, <1>5 DEF b, d

-----------------------------------------------------------------------------
(* Tag and index *)

LEMMA PlaceBits ==
  ASSUME NEW l, IsLevel(l), NEW addr \in Words
  PROVE  /\ Tag(l, addr) \subseteq Nat /\ Index(l, addr) \subseteq Nat
         /\ \A j \in Nat : j \in Tag(l, addr) <=> j + TagAt(l) \in addr
         /\ \A j \in Nat : j \in Index(l, addr)
                             <=> j + l.b < TagAt(l) /\ j + l.b \in addr
<1> DEFINE b == l.b
           d == TagAt(l)
<1>1. b \in 4 .. 7 /\ d \in 4 .. 17 /\ b <= d  BY LevelSizes
<1>2. Tag(l, addr) = {k - d : k \in {j \in addr \cap (d .. 63) : j >= d}}
  BY MaskRuns DEF Tag, Shr, TagAt
<1>3. Index(l, addr) = {k - b : k \in {j \in addr \cap (b .. d - 1) : j >= b}}
  BY MaskRuns DEF Index, Shr, TagAt
<1>4. \A k \in addr : k \in 0 .. 63  BY DEF Words, Bits, WORD_BITS
<1> HIDE DEF b, d
<1>5. \A k \in addr : (k \in d .. 63 <=> k >= d) /\ k \in Int
                      /\ (k \in b .. d - 1 <=> k >= b /\ k < d)
  BY <1>1, <1>4
<1>6. Tag(l, addr) = {k - d : k \in {j \in addr : j >= d}}
  BY <1>2, <1>5
<1>7. Index(l, addr) = {k - b : k \in {j \in addr : j >= b /\ j < d}}
  BY <1>3, <1>5
<1>8. \A j \in Nat : j \in Tag(l, addr) <=> j + d \in addr
  <2> TAKE j \in Nat
  <2>1. j + d >= d /\ (j + d) - d = j  BY <1>1
  <2>2. \A k \in addr : k - d = j => k = j + d  BY <1>1, <1>5
  <2> QED  BY <1>6, <2>1, <2>2
<1>9. \A j \in Nat : j \in Index(l, addr) <=> j + b < d /\ j + b \in addr
  <2> TAKE j \in Nat
  <2>1. j + b >= b /\ (j + b) - b = j  BY <1>1
  <2>2. \A k \in addr : k - b = j => k = j + b  BY <1>1, <1>5
  <2> QED  BY <1>7, <2>1, <2>2
<1>10. Tag(l, addr) \subseteq Nat /\ Index(l, addr) \subseteq Nat
  <2>1. \A k \in addr : k >= d => k - d \in Nat  BY <1>1, <1>5
  <2>2. \A k \in addr : k >= b => k - b \in Nat  BY <1>1, <1>5
  <2> QED  BY <1>6, <1>7, <2>1, <2>2
<1> QED  BY <1>8, <1>9, <1>10 DEF b, d

(* The place of an address is what is left of it without the offset. *)
LEMMA PlaceIsBlock ==
  ASSUME NEW l, IsLevel(l), NEW a \in Words, NEW x \in Words
  PROVE  Place(l, a) = Place(l, x) <=> BlockOf(l, a) = BlockOf(l, x)
<1> DEFINE b == l.b
           d == TagAt(l)
<1>1. b \in 4 .. 7 /\ d \in 4 .. 17 /\ b <= d  BY LevelSizes
<1>2. Place(l, a) = Place(l, x)
        <=> Tag(l, a) = Tag(l, x) /\ Index(l, a) = Index(l, x)
  BY DEF Place
<1>3. \A k : (k \in BlockOf(l, a) <=> k \in a /\ k >= b)
             /\ (k \in BlockOf(l, x) <=> k \in x /\ k >= b)
  BY DEF BlockOf
<1>4. \A k : (k \in a => k \in Nat) /\ (k \in x => k \in Nat)
  <2>1. a \subseteq Bits /\ x \subseteq Bits  BY DEF Words
  <2>2. Bits \subseteq Nat  BY DEF Bits, WORD_BITS
  <2> QED  BY <2>1, <2>2
<1>5. /\ Tag(l, a) \subseteq Nat /\ Tag(l, x) \subseteq Nat
      /\ Index(l, a) \subseteq Nat /\ Index(l, x) \subseteq Nat
      /\ \A j \in Nat : /\ j \in Tag(l, a) <=> j + d \in a
                        /\ j \in Tag(l, x) <=> j + d \in x
      /\ \A j \in Nat : /\ j \in Index(l, a) <=> j + b < d /\ j + b \in a
                        /\ j \in Index(l, x) <=> j + b < d /\ j + b \in x
  BY PlaceBits
<1> HIDE DEF b, d
<1>6. ASSUME Tag(l, a) = Tag(l, x), Index(l, a) = Index(l, x), NEW k \in Nat,
             k >= b
      PROVE  k \in a <=> k \in x
  <2>1. CASE k >= d
    <3>1. k - d \in Nat /\ (k - d) + d = k  BY <1>1, <1>6, <2>1
    <3> QED  BY <1>5, <1>6, <3>1
  <2>2. CASE k < d
    <3>1. k - b \in Nat /\ (k - b) + b = k  BY <1>1, <1>6
    <3> QED  BY <1>5, <1>6, <2>2, <3>1
  <2> QED  BY <1>1, <1>6, <2>1, <2>2
<1>7. ASSUME BlockOf(l, a) = BlockOf(l, x), NEW k \in Nat, k >= b
      PROVE  k \in a <=> k \in x
  BY <1>3, <1>7
<1>8. Tag(l, a) = Tag(l, x) /\ Index(l, a) = Index(l, x)
        => BlockOf(l, a) = BlockOf(l, x)
  BY <1>3, <1>4, <1>6
<1>9. BlockOf(l, a) = BlockOf(l, x)
        => Tag(l, a) = Tag(l, x) /\ Index(l, a) = Index(l, x)
  <2> HAVE BlockOf(l, a) = BlockOf(l, x)
  <2>1. \A j \in Nat : /\ j + d \in Nat /\ j + d >= b
                       /\ j + b \in Nat /\ j + b >= b
    BY <1>1
  <2> QED  BY <1>5, <1>7, <2>1
<1> QED  BY <1>2, <1>8, <1>9

LEMMA IndexBelow ==
  ASSUME NEW l, IsLevel(l), NEW addr \in Words
  PROVE  Index(l, addr) \subseteq 0 .. l.c - l.b - l.s - 1
<1>1. /\ l.b \in 4 .. 7 /\ TagAt(l) \in 4 .. 17
      /\ l.c - l.b - l.s = TagAt(l) - l.b
  BY LevelSizes
<1>2. /\ Index(l, addr) \subseteq Nat
      /\ \A j \in Nat : j \in Index(l, addr) => j + l.b < TagAt(l)
  BY PlaceBits
<1>3. \A j \in Nat : j + l.b < TagAt(l) => j \in 0 .. TagAt(l) - l.b - 1
  BY <1>1
<1> QED  BY <1>1, <1>2, <1>3

(* get_addr puts the block address together again. *)
LEMMA RebuiltBlock ==
  ASSUME NEW l, IsLevel(l), NEW addr \in Words
  PROVE  GetAddr(l, Place(l, addr)) = BlockOf(l, addr)
<1> DEFINE b == l.b
           d == TagAt(l)
           t == Tag(l, addr)
           i == Index(l, addr)
<1>1. b \in 4 .. 7 /\ d \in 4 .. 17 /\ b <= d  BY LevelSizes
<1>2. GetAddr(l, Place(l, addr)) =
        ({k + d : k \in t} \cap (0 .. 63)) \cup ({k + b : k \in i} \cap (0 .. 63))
  BY DEF GetAddr, Place, Shl, TagAt, Bits, WORD_BITS
<1>3. /\ t \subseteq Nat /\ i \subseteq Nat
      /\ \A j \in Nat : j \in t <=> j + d \in addr
      /\ \A j \in Nat : j \in i <=> j + b < d /\ j + b \in addr
  BY PlaceBits
<1>4. \A k \in addr : k \in 0 .. 63  BY DEF Words, Bits, WORD_BITS
<1>5. BlockOf(l, addr) = {k \in addr : k >= b}  BY DEF BlockOf
<1> HIDE DEF b, d, t, i
<1>6. ASSUME NEW k \in addr, k >= b
      PROVE  k \in {j + d : j \in t} \/ k \in {j + b : j \in i}
  <2>1. CASE k >= d
    <3>1. k - d \in Nat /\ (k - d) + d = k  BY <1>1, <1>4, <2>1
    <3> QED  BY <1>3, <3>1
  <2>2. CASE k < d
    <3>1. k - b \in Nat /\ (k - b) + b = k  BY <1>1, <1>4, <1>6
    <3> QED  BY <1>3, <2>2, <3>1
  <2> QED  BY <1>1, <1>4, <2>1, <2>2
<1>7. \A j \in t : j + d \in addr /\ j + d >= b  BY <1>1, <1>3
<1>8. \A j \in i : j + b \in addr /\ j + b >= b  BY <1>1, <1>3
<1> QED  BY <1>2, <1>4, <1>5, <1>6, <1>7, <1>8

LEMMA MissIsBlock ==
  ASSUME NEW l, IsLevel(l), NEW addr \in Words
  PROVE  MissAddr(l, addr) = BlockOf(l, addr)
<1> DEFINE b == l.b
           d == TagAt(l)
<1>1. b \in 4 .. 7 /\ d \in 4 .. 17 /\ b <= d  BY LevelSizes
<1>2. MissAddr(l, addr) = (addr \cap (d .. 63)) \cup (addr \cap (b .. d - 1))
  BY MaskRuns DEF MissAddr
<1>3. \A k \in addr : k \in 0 .. 63  BY DEF Words, Bits, WORD_BITS
<1>4. BlockOf(l, addr) = {k \in addr : k >= b}  BY DEF BlockOf
<1> HIDE DEF b, d
<1>5. \A k \in addr : k >= b <=> k \in d .. 63 \/ k \in b .. d - 1
  BY <1>1, <1>3
<1> QED  BY <1>2, <1>4, <1>5

-----------------------------------------------------------------------------
(* Carries *)

LEMMA LeastBit ==
  ASSUME NEW S, S \subseteq Nat, S # {}
  PROVE  \E m \in S : \A k \in S : m <= k
<1>1. PICK m \in S : \A k \in S : ~(<<k, m>> \in OpToRel(<, Nat))
  BY NatLessThanWellFounded, WFMin
<1>2. \A k \in S : <<k, m>> \in OpToRel(<, Nat) <=> k < m  BY DEF OpToRel
<1>3. ASSUME NEW k \in S PROVE m <= k
  <2>1. m \in Nat /\ k \in Nat /\ ~(k < m)  BY <1>1, <1>2
  <2> QED  BY <2>1
<1> QED  BY <1>3

LEMMA CarryZero ==
  ASSUME NEW v \in Words, NEW w \in Words
  PROVE  ~Carry(v, w, 0)
BY DEF Carry, Words, Bits, WORD_BITS

LEMMA CarryNext ==
  ASSUME NEW v \in Words, NEW w \in Words, NEW k \in Bits
  PROVE  Carry(v, w, k + 1)
           <=> \/ k \in v /\ k \in w
               \/ (k \in v \/ k \in w) /\ Carry(v, w, k)
<1>1. v \subseteq Nat /\ w \subseteq Nat /\ k \in Nat
  BY DEF Words, Bits, WORD_BITS
<1>2. ASSUME Carry(v, w, k + 1), ~(k \in v /\ k \in w)
      PROVE  (k \in v \/ k \in w) /\ Carry(v, w, k)
  <2>1. PICK j \in v \cap w :
          j < k + 1 /\ \A m \in j + 1 .. (k + 1) - 1 : m \in v \cup w
    BY <1>2 DEF Carry
  <2>2. j \in Nat /\ j # k  BY <1>1, <1>2, <2>1
  <2>3. j < k  BY <1>1, <2>1, <2>2
  <2>4. k \in j + 1 .. (k + 1) - 1  BY <1>1, <2>2, <2>3
  <2>5. \A m \in j + 1 .. k - 1 : m \in j + 1 .. (k + 1) - 1
    BY <1>1, <2>2
  <2>6. \A m \in j + 1 .. k - 1 : m \in v \cup w  BY <2>1, <2>5
  <2> QED  BY <2>1, <2>3, <2>4, <2>6 DEF Carry
<1>3. ASSUME k \in v, k \in w PROVE Carry(v, w, k + 1)
  <2>1. k < k + 1 /\ k + 1 .. (k + 1) - 1 = {}  BY <1>1
  <2>2. k \in v \cap w  BY <1>3
  <2> QED  BY <2>1, <2>2 DEF Carry
<1>4. ASSUME k \in v \cup w, Carry(v, w, k) PROVE Carry(v, w, k + 1)
  <2>1. PICK j \in v \cap w : j < k /\ \A m \in j + 1 .. k - 1 : m \in v \cup w
    BY <1>4 DEF Carry
  <2>2. j \in Nat /\ j < k + 1  BY <1>1, <2>1
  <2>3. \A m \in j + 1 .. (k + 1) - 1 : m \in j + 1 .. k - 1 \/ m = k
    BY <1>1, <2>2
  <2>4. \A m \in j + 1 .. (k + 1) - 1 : m \in v \cup w
    BY <1>4, <2>1, <2>3
  <2> QED  BY <2>1, <2>2, <2>4 DEF Carry
<1> QED  BY <1>2, <1>3, <1>4

LEMMA PlusBits ==
  ASSUME NEW v \in Words, NEW w \in Words
  PROVE  /\ Plus(v, w) \in Words
         /\ \A k \in Bits : k \in Plus(v, w)
              <=> ~(k \in v <=> ~(k \in w <=> Carry(v, w, k)))
<1>1. Plus(v, w) \in Words  BY DEF Plus, Words
<1>2. ASSUME NEW k \in Bits
      PROVE  k \in Plus(v, w)
               <=> ~(k \in v <=> ~(k \in w <=> Carry(v, w, k)))
  <2>1. Carry(v, w, k) \in BOOLEAN  BY DEF Carry
  <2>2. k \in Plus(v, w) <=> (k \in v) # ((k \in w) # Carry(v, w, k))
    BY DEF Plus
  <2>3. ((k \in w) # Carry(v, w, k)) <=> ~(k \in w <=> Carry(v, w, k))
    BY <2>1
  <2> QED  BY <2>1, <2>2, <2>3
<1> QED  BY <1>1, <1>2

-----------------------------------------------------------------------------
(* Minus undoes Plus *)

OneOf(c, d, e) == (c \/ d \/ e) /\ ~(c /\ d) /\ ~(c /\ e) /\ ~(d /\ e)

(* One column of v + s, of the sum p plus the complement of v, and of that *)
(* sum q plus 1: if one carry comes in, the column's bit of s comes out,   *)
(* and one carry leaves it.                                                *)
LEMMA Column ==
  ASSUME NEW v \in BOOLEAN, NEW s \in BOOLEAN, NEW c \in BOOLEAN,
         NEW d \in BOOLEAN, NEW e \in BOOLEAN, OneOf(c, d, e),
         NEW p \in BOOLEAN, p <=> ~(v <=> ~(s <=> c)),
         NEW q \in BOOLEAN, q <=> ~(p <=> ~(~v <=> d))
  PROVE  /\ ~(q <=> e) <=> s
         /\ OneOf((v /\ s) \/ ((v \/ s) /\ c),
                  (p /\ ~v) \/ ((p \/ ~v) /\ d),
                  q /\ e)
BY DEF OneOf

LEMMA MinusPlus ==
  ASSUME NEW v \in Words, NEW s \in Words
  PROVE  Minus(Plus(v, s), v) = s
<1> DEFINE p == Plus(v, s)
           n == Bits \ v
           q == Plus(p, n)
           r == Plus(q, {0})
           c(k) == Carry(v, s, k)
           d(k) == Carry(p, n, k)
           e(k) == Carry(q, {0}, k)
           In(k) == e(k) \/ k = 0
           One(k) == OneOf(c(k), d(k), In(k))
<1>1. {0} \in Words /\ n \in Words  BY DEF Words, Bits, WORD_BITS
<1>2. p \in Words /\ (\A k \in Bits : k \in p <=> ~(k \in v <=> ~(k \in s <=> c(k))))
  BY PlusBits
<1>3. q \in Words /\ (\A k \in Bits : k \in q <=> ~(k \in p <=> ~(k \in n <=> d(k))))
  BY <1>1, <1>2, PlusBits
<1>4. r \in Words /\ (\A k \in Bits : k \in r <=> ~(k \in q <=> ~(k \in {0} <=> e(k))))
  BY <1>1, <1>3, PlusBits
<1>5. ~c(0) /\ ~d(0) /\ ~e(0)  BY <1>1, <1>2, <1>3, CarryZero
<1>6. \A k \in Bits : c(k + 1) <=> \/ k \in v /\ k \in s
                                   \/ (k \in v \/ k \in s) /\ c(k)
  BY CarryNext
<1>7. \A k \in Bits : d(k + 1) <=> \/ k \in p /\ k \in n
                                   \/ (k \in p \/ k \in n) /\ d(k)
  BY <1>1, <1>2, CarryNext
<1>8. \A k \in Bits : e(k + 1) <=> \/ k \in q /\ k \in {0}
                                   \/ (k \in q \/ k \in {0}) /\ e(k)
  BY <1>1, <1>3, CarryNext
<1>9. \A k \in Bits : k \in Nat /\ k + 1 # 0 /\ (k \in n <=> k \notin v)
  BY DEF Bits, WORD_BITS
<1>10. \A k \in Bits : c(k) \in BOOLEAN /\ d(k) \in BOOLEAN /\ e(k) \in BOOLEAN
  BY DEF Carry
<1>11. Minus(p, v) = r  BY DEF Minus
<1> HIDE DEF p, n, q, r, c, d, e
<1>12. \A k \in Bits : In(k + 1) <=> k \in q /\ In(k)
  BY <1>5, <1>8, <1>9
<1>13. \A k \in Bits : k \in r <=> ~(k \in q <=> In(k))
  BY <1>4, <1>5
<1>14. ASSUME NEW k \in Bits, One(k)
       PROVE  (k \in r <=> k \in s) /\ One(k + 1)
  <2> DEFINE vk == k \in v
             sk == k \in s
             pk == k \in p
             qk == k \in q
             ck == c(k)
             dk == d(k)
             ik == In(k)
  <2>1. OneOf(ck, dk, ik)  BY <1>14
  <2>2. vk \in BOOLEAN /\ sk \in BOOLEAN /\ pk \in BOOLEAN /\ qk \in BOOLEAN
        /\ ck \in BOOLEAN /\ dk \in BOOLEAN /\ ik \in BOOLEAN
    BY <1>10
  <2>3. pk <=> ~(vk <=> ~(sk <=> ck))  BY <1>2
  <2>4. qk <=> ~(pk <=> ~(~vk <=> dk))  BY <1>3, <1>9
  <2>5. c(k + 1) <=> (vk /\ sk) \/ ((vk \/ sk) /\ ck)  BY <1>6
  <2>6. d(k + 1) <=> (pk /\ ~vk) \/ ((pk \/ ~vk) /\ dk)  BY <1>7, <1>9
  <2>7. In(k + 1) <=> qk /\ ik  BY <1>12
  <2>8. k \in r <=> ~(qk <=> ik)  BY <1>13
  <2> HIDE DEF vk, sk, pk, qk, ck, dk, ik, In
  <2>9. /\ ~(qk <=> ik) <=> sk
        /\ OneOf((vk /\ sk) \/ ((vk \/ sk) /\ ck),
                 (pk /\ ~vk) \/ ((pk \/ ~vk) /\ dk),
                 qk /\ ik)
    BY <2>1, <2>2, <2>3, <2>4, Column
  <2>10. One(k + 1)  BY <2>5, <2>6, <2>7, <2>9, Zenon DEF OneOf
  <2>11. k \in r <=> sk  BY <2>8, <2>9
  <2> QED  BY <2>10, <2>11 DEF sk
<1>15. One(0)  BY <1>5 DEF OneOf
<1> HIDE DEF In, One
<1>16. \A k \in Bits : One(k)
  <2> SUFFICES ASSUME \E k \in Bits : ~One(k) PROVE FALSE  OBVIOUS
  <2>1. {k \in Bits : ~One(k)} \subseteq Nat  BY <1>9
  <2>2. PICK m \in {k \in Bits : ~One(k)} :
          \A k \in {k \in Bits : ~One(k)} : m <= k
    BY <2>1, LeastBit
  <2>3. m \in Bits /\ ~One(m) /\ m # 0  BY <1>15, <2>2
  <2>4. m - 1 \in Bits /\ (m - 1) + 1 = m /\ ~(m <= m - 1)
    BY <2>3 DEF Bits, WORD_BITS
  <2>5. One(m - 1)  BY <2>2, <2>4
  <2>6. One((m - 1) + 1)  BY <1>14, <2>4, <2>5
  <2> QED  BY <2>3, <2>4, <2>6
<1>17. \A k \in Bits : k \in r <=> k \in s  BY <1>14, <1>16
<1>18. r = s  BY <1>4, <1>17 DEF Words
<1> QED  BY <1>11, <1>18 DEF p

-----------------------------------------------------------------------------
(* Words whose bits below b are clear *)
ClearBelow(w, b) == \A k \in w : k >= b

LEMMA PlusClear ==
  ASSUME NEW v \in Words, NEW w \in Words, NEW b \in Nat,
         ClearBelow(v, b), ClearBelow(w, b)
  PROVE  ClearBelow(Plus(v, w), b)
<1> SUFFICES ASSUME NEW k \in Plus(v, w), k < b PROVE FALSE
  <2>1. Plus(v, w) \subseteq Nat  BY DEF Plus, Bits, WORD_BITS
  <2> QED  BY <2>1 DEF ClearBelow
<1>1. k \in Bits /\ k \in Nat  BY DEF Plus, Bits, WORD_BITS
<1>2. k \notin v /\ k \notin w  BY <1>1 DEF ClearBelow
<1>3. ~Carry(v, w, k)
  <2>1. \A j \in v : j \in Nat /\ j >= b
    BY DEF ClearBelow, Words, Bits, WORD_BITS
  <2> QED  BY <1>1, <2>1 DEF Carry
<1> QED  BY <1>1, <1>2, <1>3, PlusBits

LEMMA MinusClear ==
  ASSUME NEW v \in Words, NEW w \in Words, NEW b \in Nat,
         ClearBelow(v, b), ClearBelow(w, b)
  PROVE  Minus(v, w) \in Words /\ ClearBelow(Minus(v, w), b)
<1> DEFINE n == Bits \ w
           p == Plus(v, n)
           r == Plus(p, {0})
<1>1. {0} \in Words /\ n \in Words  BY DEF Words, Bits, WORD_BITS
<1>2. p \in Words /\ (\A k \in Bits : k \in p <=> ~(k \in v <=> ~(k \in n <=> Carry(v, n, k))))
  BY <1>1, PlusBits
<1>3. r \in Words /\ (\A k \in Bits : k \in r <=> ~(k \in p <=> ~(k \in {0} <=> Carry(p, {0}, k))))
  BY <1>1, <1>2, PlusBits
<1>4. Minus(v, w) = r  BY DEF Minus
<1>5. \A k \in Bits : k \in Nat /\ (k \in n <=> k \notin w)
  BY DEF Bits, WORD_BITS
<1> HIDE DEF n, p, r
<1>6. ASSUME NEW k \in Bits, k < b PROVE k \in p
  <2>1. k \notin v /\ k \notin w /\ k \in n  BY <1>5, <1>6 DEF ClearBelow
  <2>2. \A j \in v : j \in Nat /\ j >= b
    BY DEF ClearBelow, Words, Bits, WORD_BITS
  <2>3. ~Carry(v, n, k)  BY <1>5, <1>6, <2>2 DEF Carry
  <2> QED  BY <1>2, <2>1, <2>3
<1>7. ASSUME NEW k \in Bits, k < b PROVE k \notin r
  <2>1. k \in p  BY <1>6, <1>7
  <2>2. CASE k = 0
    <3>1. ~Carry(p, {0}, k)  BY <1>1, <1>2, <2>2, CarryZero
    <3> QED  BY <1>3, <2>1, <2>2, <3>1
  <2>3. CASE k # 0
    <3>1. 0 \in Bits /\ 0 < b /\ 0 < k
      BY <1>5, <1>7, <2>3 DEF Bits, WORD_BITS
    <3>2. 0 \in p \cap {0}  BY <1>6, <3>1
    <3>3. \A m \in 0 + 1 .. k - 1 : m \in Bits /\ m < b
      BY <1>7 DEF Bits, WORD_BITS
    <3>4. \A m \in 0 + 1 .. k - 1 : m \in p  BY <1>6, <3>3
    <3>5. Carry(p, {0}, k)  BY <3>1, <3>2, <3>4 DEF Carry
    <3> QED  BY <1>3, <2>1, <2>3, <3>5
  <2> QED  BY <2>2, <2>3
<1>8. ClearBelow(r, b)
  <2>1. \A k \in r : k \in Bits  BY <1>3 DEF Words
  <2> QED  BY <1>5, <1>7, <2>1 DEF ClearBelow
<1> QED  BY <1>3, <1>4, <1>8

-----------------------------------------------------------------------------
(* Where the last access looked, the reference for strides, and where the  *)
(* block was written back to.                                              *)
AddrInv ==
  /\ config \in ConfigSet
  /\ read_at.addr \in Words
  /\ AllBuilt => /\ read_at.l1 = Place(L1, read_at.addr)
                 /\ read_at.l2 = Place(L2, read_at.addr)
  /\ last_miss_addr \in Words /\ ClearBelow(last_miss_addr, config.b)
  /\ written_at \subseteq {read_at.l2}

LEMMA BuiltLevels ==
  ASSUME config \in ConfigSet, AllBuilt
  PROVE  /\ IsLevel(L1) /\ IsLevel(L2)
         /\ L1.b = config.b /\ L2.b = config.b /\ config.b \in Nat
<1>1. config \in Config /\ ValidConfig(config)  BY AddrAssumption
<1>2. /\ config.b \in 4 .. 7 /\ config.c1 \in Nat /\ config.s1 \in Nat
      /\ config.c2 \in Nat /\ config.s2 \in Nat
  BY <1>1 DEF Config, ValidConfig
<1>3. /\ L1.b = config.b /\ L1.c = config.c1 /\ L1.s = config.s1
      /\ L2.b = config.b /\ L2.c = config.c2 /\ L2.s = config.s2
  BY DEF L1, L2, Level
<1>4. Built(L1) /\ Built(L2)  BY DEF AllBuilt
<1> QED  BY <1>2, <1>3, <1>4 DEF IsLevel

LEMMA BlockClear ==
  ASSUME NEW l, NEW addr \in Words
  PROVE  BlockOf(l, addr) \in Words /\ ClearBelow(BlockOf(l, addr), l.b)
BY DEF BlockOf, ClearBelow, Words

(* The block address of a block is the block address. *)
LEMMA BlockOfBlock ==
  ASSUME NEW l, NEW h, l.b = h.b, NEW addr
  PROVE  BlockOf(h, BlockOf(l, addr)) = BlockOf(h, addr)
BY DEF BlockOf

LEMMA AddrInit == Init => AddrInv
<1> SUFFICES ASSUME Init PROVE AddrInv  OBVIOUS
<1>1. /\ config \in ConfigSet /\ last_miss_addr = {} /\ written_at = {}
      /\ read_at = [addr |-> {}, l1 |-> Nowhere, l2 |-> Nowhere]
  BY DEF Init
<1>2. read_at.addr = {} /\ read_at.l1 = Nowhere /\ read_at.l2 = Nowhere
  BY <1>1
<1>3. \A l : Place(l, {}) = Nowhere
  BY DEF Place, Nowhere, Tag, Index, Shr
<1>4. {} \in Words  BY DEF Words
<1>5. ClearBelow(last_miss_addr, config.b)  BY <1>1 DEF ClearBelow
<1> QED  BY <1>1, <1>2, <1>3, <1>4, <1>5 DEF AddrInv

LEMMA AddrStep == AddrInv /\ [Next]_vars => AddrInv'
<1> SUFFICES ASSUME AddrInv, [Next]_vars PROVE AddrInv'  OBVIOUS
<1> USE DEF AddrInv
<1>1. ASSUME NEW addr \in AddrSet, ReadMiss(addr) PROVE AddrInv'
  <2>1. /\ AllBuilt /\ config' = config /\ written_at' = {}
        /\ read_at' = [addr |-> addr, l1 |-> Place(L1, addr),
                       l2 |-> Place(L2, addr)]
        /\ last_miss_addr' = IF config.strided_prefetch_disabled
                             THEN last_miss_addr ELSE MissAddr(L2, addr)
    BY <1>1 DEF ReadMiss
  <2>2. addr \in Words  BY AddrAssumption
  <2>3. L1' = L1 /\ L2' = L2 /\ AllBuilt' = AllBuilt
    BY <2>1 DEF L1, L2, AllBuilt
  <2>4. /\ read_at'.addr = addr /\ read_at'.l1 = Place(L1, addr)
        /\ read_at'.l2 = Place(L2, addr)
    BY <2>1
  <2>5. /\ MissAddr(L2, addr) \in Words
        /\ ClearBelow(MissAddr(L2, addr), config.b)
    BY <2>1, <2>2, BuiltLevels, MissIsBlock, BlockClear
  <2>6. last_miss_addr' \in Words /\ ClearBelow(last_miss_addr', config.b)
    BY <2>1, <2>5
  <2> QED  BY <2>1, <2>2, <2>3, <2>4, <2>6
<1>2. ASSUME WriteBack PROVE AddrInv'
  <2>1. /\ AllBuilt /\ config' = config /\ read_at' = read_at
        /\ last_miss_addr' = last_miss_addr
        /\ written_at' = {Place(L2, GetAddr(L1, read_at.l1))}
    BY <1>2 DEF WriteBack
  <2>2. L1' = L1 /\ L2' = L2 /\ AllBuilt' = AllBuilt
    BY <2>1 DEF L1, L2, AllBuilt
  <2> DEFINE x == read_at.addr
             blk == BlockOf(L1, x)
  <2>3. IsLevel(L1) /\ IsLevel(L2) /\ L1.b = L2.b /\ x \in Words
    BY <2>1, BuiltLevels
  <2>4. read_at.l1 = Place(L1, x) /\ read_at.l2 = Place(L2, x)  BY <2>1
  <2> HIDE DEF x
  <2>5. GetAddr(L1, read_at.l1) = blk  BY <2>3, <2>4, RebuiltBlock
  <2>6. blk \in Words /\ BlockOf(L2, blk) = BlockOf(L2, x)
    BY <2>3, BlockClear, BlockOfBlock
  <2> HIDE DEF blk
  <2>7. Place(L2, blk) = Place(L2, x)  BY <2>3, <2>6, PlaceIsBlock
  <2>8. written_at' \subseteq {read_at'.l2}  BY <2>1, <2>4, <2>5, <2>7
  <2> QED  BY <2>1, <2>2, <2>8
<1>3. ASSUME ReadUnbuilt \/ UNCHANGED vars PROVE AddrInv'
  <2>1. /\ config' = config /\ read_at' = read_at
        /\ last_miss_addr' = last_miss_addr /\ written_at' = written_at
    BY <1>3 DEF ReadUnbuilt, vars
  <2>2. L1' = L1 /\ L2' = L2 /\ AllBuilt' = AllBuilt
    BY <2>1 DEF L1, L2, AllBuilt
  <2> QED  BY <2>1, <2>2
<1> QED  BY <1>1, <1>2, <1>3 DEF Next

LEMMA AddrInvHolds == Spec => []AddrInv
BY AddrInit, AddrStep, PTL DEF Spec

-----------------------------------------------------------------------------
(* In every built configuration, and for every 64-bit address, tag and     *)
(* index say which block an access is to, no more and no less, and the     *)
(* index is one of a set that Cache::Cache allocated.                      *)
THEOREM SplitExactHolds == Spec => []SplitExact
<1>1. ASSUME AddrInv PROVE SplitExact
  <2> SUFFICES ASSUME AllBuilt, NEW l \in {L1, L2}
               PROVE  /\ \A a \in AddrSet :
                           Place(l, a) = Place(l, read_at.addr)
                             <=> BlockOf(l, a) = BlockOf(l, read_at.addr)
                      /\ Index(l, read_at.addr)
                           \subseteq 0 .. l.c - l.b - l.s - 1
    BY DEF SplitExact
  <2>1. IsLevel(l) /\ read_at.addr \in Words
    BY <1>1, BuiltLevels DEF AddrInv
  <2>2. \A a \in AddrSet : a \in Words  BY AddrAssumption
  <2>3. \A a \in AddrSet : Place(l, a) = Place(l, read_at.addr)
                             <=> BlockOf(l, a) = BlockOf(l, read_at.addr)
    BY <2>1, <2>2, PlaceIsBlock
  <2>4. Index(l, read_at.addr) \subseteq 0 .. l.c - l.b - l.s - 1
    BY <2>1, IndexBelow
  <2> QED  BY <2>3, <2>4
<1> QED  BY <1>1, AddrInvHolds, PTL

(* Handle_Miss rebuilds the address of L1's victim from its tag and the    *)
(* set it was in; L2 finds it under the tag and index it was read with,    *)
(* although the two levels cut addresses in different places.              *)
THEOREM WriteBackFindsBlockHolds == Spec => []WriteBackFindsBlock
<1>1. AddrInv => WriteBackFindsBlock  BY DEF AddrInv, WriteBackFindsBlock
<1> QED  BY <1>1, AddrInvHolds, PTL

(* What Prefetch adds to the address of the miss *)
LEMMA StrideIs ==
  ASSUME AddrInv, AllBuilt, NEW addr \in Words
  PROVE  LET stride == Stride(L2, addr, last_miss_addr)
             miss   == BlockOf(L2, addr)
         IN  /\ stride \in Words /\ ClearBelow(stride, config.b)
             /\ stride = IF config.strided_prefetch_disabled THEN {config.b}
                         ELSE Minus(miss, last_miss_addr)
<1> DEFINE b == config.b
           miss == BlockOf(L2, addr)
<1>1. L2.b = b /\ IsLevel(L2) /\ config \in ConfigSet
  BY BuiltLevels DEF AddrInv
<1>2. b \in 4 .. 7  BY <1>1 DEF IsLevel
<1>3. MissAddr(L2, addr) = miss  BY <1>1, MissIsBlock
<1>4. miss \in Words /\ ClearBelow(miss, b)  BY <1>1, BlockClear
<1>5. last_miss_addr \in Words /\ ClearBelow(last_miss_addr, b)
  BY DEF AddrInv
<1>6. Stride(L2, addr, last_miss_addr) =
        IF config.strided_prefetch_disabled THEN Shl({0}, b)
        ELSE Minus(miss, last_miss_addr)
  BY <1>1, <1>3 DEF Stride
<1> HIDE DEF miss, b
<1>7. Shl({0}, b) = {b}  BY <1>2 DEF Shl, Bits, WORD_BITS
<1>8. {b} \in Words /\ ClearBelow({b}, b)
  BY <1>2 DEF Words, Bits, WORD_BITS, ClearBelow
<1>9. /\ Minus(miss, last_miss_addr) \in Words
      /\ ClearBelow(Minus(miss, last_miss_addr), b)
  BY <1>2, <1>4, <1>5, MinusClear
<1> QED  BY <1>6, <1>7, <1>8, <1>9 DEF miss, b

(* Every prefetched address starts a block and is one stride ahead of the  *)
(* miss, modulo 2^64: uint64_t addition and subtraction wrap around, and   *)
(* the one undoes the other.                                               *)
THEOREM PrefetchAlignedHolds == Spec => PrefetchAligned
<1> DEFINE Ahead ==
      prefetch_addr' # prefetch_addr =>
        LET miss == BlockOf(L2, read_at'.addr)
        IN  /\ prefetch_addr' \cap OffsetMask(L2) = {}
            /\ Minus(prefetch_addr', miss)
                 = IF config.strided_prefetch_disabled THEN {config.b}
                   ELSE Minus(miss, last_miss_addr)
<1>1. ASSUME AddrInv, NEW addr \in AddrSet, ReadMiss(addr) PROVE Ahead
  <2> DEFINE miss == BlockOf(L2, addr)
             stride == Stride(L2, addr, last_miss_addr)
  <2>1. addr \in Words /\ AllBuilt  BY <1>1, AddrAssumption DEF ReadMiss
  <2>2. /\ IsLevel(L2) /\ L2.b = config.b /\ config.b \in Nat
    BY <1>1, <2>1, BuiltLevels DEF AddrInv
  <2>3. read_at'.addr = addr  BY <1>1 DEF ReadMiss
  <2>4. prefetch_addr' = Plus(miss, stride)
    BY <1>1, <2>1, <2>2, MissIsBlock DEF ReadMiss
  <2>5. miss \in Words /\ ClearBelow(miss, config.b)
    BY <2>1, <2>2, BlockClear
  <2>6. /\ stride \in Words /\ ClearBelow(stride, config.b)
        /\ stride = IF config.strided_prefetch_disabled THEN {config.b}
                    ELSE Minus(miss, last_miss_addr)
    BY <1>1, <2>1, StrideIs
  <2> HIDE DEF miss, stride
  <2>7. Minus(prefetch_addr', miss) = stride
    BY <2>4, <2>5, <2>6, MinusPlus
  <2>8. ClearBelow(prefetch_addr', config.b)
    BY <2>2, <2>4, <2>5, <2>6, PlusClear
  <2>9. OffsetMask(L2) = 0 .. config.b - 1  BY <2>2, MaskRuns
  <2>10. \A k \in prefetch_addr' : k \notin 0 .. config.b - 1
    BY <2>2, <2>8 DEF ClearBelow
  <2> QED  BY <2>3, <2>6, <2>7, <2>9, <2>10 DEF miss
<1>2. ASSUME WriteBack \/ ReadUnbuilt PROVE Ahead
  BY <1>2 DEF WriteBack, ReadUnbuilt
<1>3. AddrInv /\ [Next]_vars => [Ahead]_vars
  BY <1>1, <1>2 DEF Next
<1>4. PrefetchAligned <=> [][Ahead]_vars  BY DEF PrefetchAligned
<1> QED  BY <1>3, <1>4, AddrInvHolds, PTL DEF Spec

-----------------------------------------------------------------------------
(* Powers of two, counted as sets *)

LEMMA PowerIsCount ==
  ASSUME NEW n \in Nat
  PROVE  /\ IsFiniteSet(SUBSET (1 .. n))
         /\ Cardinality(SUBSET (1 .. n)) = 2 ^ n
         /\ 2 ^ n \in Nat
<1> DEFINE S == SUBSET (1 .. n)
<1>1. IsFiniteSet(1 .. n) /\ Cardinality(1 .. n) = n  BY FS_Interval
<1>2. IsFiniteSet(S) /\ Cardinality(S) = 2 ^ n  BY <1>1, FS_SUBSET
<1>3. Cardinality(S) \in Nat
  <2> HIDE DEF S
  <2> QED  BY <1>2, FS_CardinalityType
<1> QED  BY <1>2, <1>3

LEMMA PowerZero == 2 ^ 0 = 1
<1>1. Cardinality(SUBSET (1 .. 0)) = 2 ^ 0  BY PowerIsCount
<1>2. SUBSET (1 .. 0) = {{}}  OBVIOUS
<1>3. Cardinality({{}}) = 1  BY FS_Singleton
<1> QED  BY <1>1, <1>2, <1>3

(* A set of numbers up to n + 1 has n + 1 in it or it has not. *)
LEMMA PowerNext ==
  ASSUME NEW n \in Nat
  PROVE  2 ^ (n + 1) = 2 * 2 ^ n
<1> DEFINE S == SUBSET (1 .. n)
           T == {s \cup {n + 1} : s \in S}
           U == SUBSET (1 .. n + 1)
<1>1. /\ IsFiniteSet(S) /\ Cardinality(S) = 2 ^ n /\ 2 ^ n \in Nat
      /\ Cardinality(U) = 2 ^ (n + 1)
  <2>1. n + 1 \in Nat  OBVIOUS
  <2> QED  BY <2>1, PowerIsCount
<1>2. n + 1 \notin 1 .. n  OBVIOUS
<1>3. IsFiniteSet(T) /\ Cardinality(T) = 2 ^ n
  <2> DEFINE f == [s \in S |-> s \cup {n + 1}]
  <2>1. f \in [S -> T]  OBVIOUS
  <2>2. \A r \in S, s \in S : f[r] = f[s] => r = s
    <3> SUFFICES ASSUME NEW r \in S, NEW s \in S,
                        r \cup {n + 1} = s \cup {n + 1}
                 PROVE  r = s
      OBVIOUS
    <3>1. n + 1 \notin r /\ n + 1 \notin s  BY <1>2
    <3>2. r = (r \cup {n + 1}) \ {n + 1} /\ s = (s \cup {n + 1}) \ {n + 1}
      BY <3>1
    <3> QED  BY <3>2
  <2>3. \A t \in T : \E s \in S : f[s] = t  OBVIOUS
  <2> HIDE DEF f, S, T
  <2>4. f \in Bijection(S, T)
    BY <2>1, <2>2, <2>3 DEF Bijection, Injection, Surjection, IsInjective
  <2>5. ExistsBijection(S, T)  BY <2>4 DEF ExistsBijection
  <2> QED  BY <1>1, <2>5, FS_Bijection
<1>4. U = S \cup T
  <2>1. ASSUME NEW u \in U, n + 1 \in u PROVE u \in T
    <3>1. u \ {n + 1} \in S
      <4>1. \A k \in u \ {n + 1} : k \in 1 .. n  OBVIOUS
      <4> QED  BY <4>1
    <3>2. u = (u \ {n + 1}) \cup {n + 1}  BY <2>1
    <3> QED  BY <3>1, <3>2
  <2>2. ASSUME NEW u \in U, n + 1 \notin u PROVE u \in S
    <3>1. \A k \in u : k \in 1 .. n + 1 /\ k # n + 1  BY <2>2
    <3>2. \A k \in u : k \in 1 .. n  BY <3>1
    <3> QED  BY <3>2
  <2>3. S \subseteq U /\ T \subseteq U
    <3>1. 1 .. n \subseteq 1 .. n + 1 /\ n + 1 \in 1 .. n + 1  OBVIOUS
    <3> QED  BY <3>1
  <2> QED  BY <2>1, <2>2, <2>3
<1>5. S \cap T = {}
  <2>1. \A s \in S : n + 1 \notin s  BY <1>2
  <2> QED  BY <2>1
<1> HIDE DEF S, T, U
<1>6. Cardinality(U) = Cardinality(S) + Cardinality(T) - Cardinality({})
  BY <1>1, <1>3, <1>4, <1>5, FS_Union
<1>7. Cardinality({}) = 0  BY FS_EmptySet
<1> QED  BY <1>1, <1>3, <1>6, <1>7

-----------------------------------------------------------------------------
(* The number a word stands for *)

Digit(w, n) == IF WORD_BITS - n \in w THEN 1 ELSE 0

IsValue(g, w, n) ==
  g = [k \in 0 .. n |-> IF k = 0 THEN 0 ELSE 2 * g[k - 1] + Digit(w, k)]

ValueOf(w) == CHOOSE g : IsValue(g, w, WORD_BITS)

(* The recursive definition of Value has a solution ... *)
LEMMA ValueExists ==
  ASSUME NEW w, NEW n \in Nat
  PROVE  \E g : IsValue(g, w, n)
<1> DEFINE S == {m \in Nat : ~ \E g : IsValue(g, w, m)}
<1> SUFFICES ASSUME S # {} PROVE FALSE  OBVIOUS
<1>1. PICK m \in S : \A k \in S : m <= k  BY LeastBit
<1>2. CASE m = 0
  <2> DEFINE g == [k \in 0 .. 0 |-> 0]
  <2>1. IsValue(g, w, 0)  BY DEF IsValue
  <2> QED  BY <1>2, <2>1
<1>3. CASE m # 0
  <2>1. m \in Nat /\ m - 1 \in Nat /\ ~(m <= m - 1)  BY <1>3
  <2>2. PICK g : IsValue(g, w, m - 1)  BY <1>1, <2>1
  <2> DEFINE h == [k \in 0 .. m |-> IF k = m THEN 2 * g[m - 1] + Digit(w, m)
                                    ELSE g[k]]
  <2>3. \A k \in 0 .. m - 1 :
          g[k] = IF k = 0 THEN 0 ELSE 2 * g[k - 1] + Digit(w, k)
    BY <2>1, <2>2 DEF IsValue
  <2>4. \A k \in 0 .. m : h[k] = IF k = 0 THEN 0 ELSE 2 * h[k - 1] + Digit(w, k)
    <3> SUFFICES ASSUME NEW k \in 0 .. m
                 PROVE  h[k] = IF k = 0 THEN 0 ELSE 2 * h[k - 1] + Digit(w, k)
      OBVIOUS
    <3>1. CASE k = m
      <4>1. m - 1 \in 0 .. m /\ m - 1 # m /\ m \in 0 .. m  BY <2>1
      <4>2. h[m - 1] = g[m - 1] /\ h[m] = 2 * g[m - 1] + Digit(w, m)  BY <4>1
      <4> QED  BY <1>3, <3>1, <4>2
    <3>2. CASE k # m
      <4>1. k \in 0 .. m - 1 /\ h[k] = g[k]  BY <2>1, <3>2
      <4>2. k # 0 => k - 1 \in 0 .. m /\ k - 1 # m  BY <4>1, <2>1
      <4>3. k # 0 => h[k - 1] = g[k - 1]  BY <4>2
      <4> QED  BY <2>3, <4>1, <4>3
    <3> QED  BY <3>1, <3>2
  <2>5. h = [k \in 0 .. m |-> h[k]]  OBVIOUS
  <2> HIDE DEF h
  <2>6. IsValue(h, w, m)  BY <2>4, <2>5 DEF IsValue
  <2> QED  BY <1>1, <2>6
<1> QED  BY <1>2, <1>3

(* ... which satisfies its equations. *)
LEMMA ValueEquations ==
  ASSUME NEW w
  PROVE  /\ Value(w) = ValueOf(w)[64]
         /\ ValueOf(w)[0] = 0
         /\ \A k \in 1 .. 64 :
              ValueOf(w)[k] = 2 * ValueOf(w)[k - 1]
                                + (IF 64 - k \in w THEN 1 ELSE 0)
<1>1. Value(w) = ValueOf(w)[64]
  BY DEF Value, ValueOf, IsValue, Digit, WORD_BITS
<1>2. IsValue(ValueOf(w), w, 64)
  <2>1. \E g : IsValue(g, w, 64)  BY ValueExists
  <2> QED  BY <2>1 DEF ValueOf, WORD_BITS
<1>3. \A k \in 0 .. 64 :
        ValueOf(w)[k] = IF k = 0 THEN 0
                        ELSE 2 * ValueOf(w)[k - 1] + Digit(w, k)
  BY <1>2 DEF IsValue
<1> QED  BY <1>1, <1>3 DEF Digit, WORD_BITS

LEMMA ValueTypes ==
  ASSUME NEW w
  PROVE  \A k \in 0 .. 64 : ValueOf(w)[k] \in Nat
<1> DEFINE S == {k \in 0 .. 64 : ValueOf(w)[k] \notin Nat}
<1> SUFFICES ASSUME S # {} PROVE FALSE  OBVIOUS
<1>1. S \subseteq Nat  OBVIOUS
<1>2. PICK k \in S : \A j \in S : k <= j  BY <1>1, LeastBit
<1>3. CASE k = 0  BY <1>3, ValueEquations
<1>4. CASE k # 0
  <2>1. k \in 1 .. 64 /\ k - 1 \in 0 .. 64 /\ ~(k <= k - 1)  BY <1>4
  <2>2. ValueOf(w)[k - 1] \in Nat  BY <1>2, <2>1
  <2>3. ValueOf(w)[k] = 2 * ValueOf(w)[k - 1] + (IF 64 - k \in w THEN 1 ELSE 0)
    BY <2>1, ValueEquations
  <2>4. ValueOf(w)[k] \in Nat  BY <2>2, <2>3
  <2> QED  BY <2>4
<1> QED  BY <1>3, <1>4

(* The highest bits that a word lacks do not count. *)
LEMMA ValueTop ==
  ASSUME NEW w, NEW m \in 0 .. 64, \A j \in w : j < m
  PROVE  \A k \in 0 .. 64 - m : ValueOf(w)[k] = 0
<1> DEFINE S == {k \in 0 .. 64 - m : ValueOf(w)[k] # 0}
<1> SUFFICES ASSUME S # {} PROVE FALSE  OBVIOUS
<1>1. S \subseteq Nat  OBVIOUS
<1>2. PICK k \in S : \A j \in S : k <= j  BY <1>1, LeastBit
<1>3. CASE k = 0  BY <1>3, ValueEquations
<1>4. CASE k # 0
  <2>1. k \in 1 .. 64 /\ k - 1 \in 0 .. 64 - m /\ ~(k <= k - 1)  BY <1>4
  <2>2. ValueOf(w)[k - 1] = 0  BY <1>2, <2>1
  <2>3. 64 - k \notin w
    <3>1. ~(64 - k < m)  OBVIOUS
    <3> QED  BY <3>1
  <2>4. ValueOf(w)[k] = 2 * ValueOf(w)[k - 1] + (IF 64 - k \in w THEN 1 ELSE 0)
    BY <2>1, ValueEquations
  <2>5. ValueOf(w)[k] = 0  BY <2>2, <2>3, <2>4
  <2> QED  BY <2>5
<1> QED  BY <1>3, <1>4

(* A word shifted to the right: the same bits, d places lower. *)
Lowered(v, w, d) == \A j \in Int : j \in v <=> j >= 0 /\ j + d \in w

LEMMA ValueLowered ==
  ASSUME NEW v \in SUBSET Int, NEW w \in Words, NEW d \in 0 .. 63, Lowered(v, w, d)
  PROVE  \A k \in 0 .. 64 - d : ValueOf(v)[k + d] = ValueOf(w)[k]
<1> DEFINE S == {k \in 0 .. 64 - d : ValueOf(v)[k + d] # ValueOf(w)[k]}
<1> SUFFICES ASSUME S # {} PROVE FALSE  OBVIOUS
<1>1. S \subseteq Nat  OBVIOUS
<1>2. PICK k \in S : \A j \in S : k <= j  BY <1>1, LeastBit
<1>3. CASE k = 0
  <2>1. \A j \in v : j < 64 - d  BY DEF Lowered, Words, Bits, WORD_BITS
  <2>2. 64 - d \in 0 .. 64 /\ d \in 0 .. 64 - (64 - d)  OBVIOUS
  <2>3. ValueOf(v)[d] = 0  BY <2>1, <2>2, ValueTop
  <2>4. ValueOf(w)[0] = 0  BY ValueEquations
  <2> QED  BY <1>3, <2>3, <2>4
<1>4. CASE k # 0
  <2>1. /\ k \in 1 .. 64 /\ k - 1 \in 0 .. 64 - d /\ ~(k <= k - 1)
        /\ k + d \in 1 .. 64 /\ (k + d) - 1 = (k - 1) + d
    BY <1>4
  <2>2. ValueOf(v)[(k - 1) + d] = ValueOf(w)[k - 1]  BY <1>2, <2>1
  <2>3. 64 - (k + d) \in v <=> 64 - k \in w
    <3>1. 64 - (k + d) \in Int /\ 64 - (k + d) >= 0
      BY <2>1
    <3>2. (64 - (k + d)) + d = 64 - k  BY <2>1
    <3> QED  BY <3>1, <3>2 DEF Lowered
  <2>4. ValueOf(w)[k] = 2 * ValueOf(w)[k - 1] + (IF 64 - k \in w THEN 1 ELSE 0)
    BY <2>1, ValueEquations
  <2>5. ValueOf(v)[k + d] = 2 * ValueOf(v)[(k + d) - 1]
                              + (IF 64 - (k + d) \in v THEN 1 ELSE 0)
    BY <2>1, ValueEquations
  <2>6. ValueOf(v)[k + d] = ValueOf(w)[k]  BY <2>1, <2>2, <2>3, <2>4, <2>5
  <2> QED  BY <2>6
<1> QED  BY <1>3, <1>4

(* A word cut in two: v has the n lowest bits of w. *)
Lowest(v, w, n) ==
  /\ v \subseteq Int
  /\ \A j \in Int : j \in v <=> j \in w /\ 0 <= j /\ j < n

LEMMA ValueCut ==
  ASSUME NEW v, NEW w, NEW n \in 0 .. 63, Lowest(v, w, n)
  PROVE  /\ Value(v) \in Nat /\ ValueOf(w)[64 - n] \in Nat
         /\ 2 ^ n \in Nat
         /\ Value(v) < 2 ^ n
         /\ Value(w) = 2 ^ n * ValueOf(w)[64 - n] + Value(v)
<1> DEFINE x == ValueOf(w)[64 - n]
           Cut(k) == /\ ValueOf(v)[64 - n + k] < 2 ^ k
                     /\ ValueOf(w)[64 - n + k] = 2 ^ k * x + ValueOf(v)[64 - n + k]
           S == {k \in 0 .. n : ~Cut(k)}
<1>1. 64 - n \in 0 .. 64 /\ x \in Nat  BY ValueTypes
<1>2. S = {}
  <2> SUFFICES ASSUME S # {} PROVE FALSE  OBVIOUS
  <2>1. S \subseteq Nat  OBVIOUS
  <2>2. PICK k \in S : \A j \in S : k <= j  BY <2>1, LeastBit
  <2>3. CASE k = 0
    <3>1. \A j \in v : j < n  BY DEF Lowest
    <3>2. n \in 0 .. 64 /\ 64 - n \in 0 .. 64 - n  OBVIOUS
    <3>3. ValueOf(v)[64 - n] = 0  BY <3>1, <3>2, ValueTop
    <3>4. 64 - n + 0 = 64 - n  OBVIOUS
    <3>5. Cut(0)
      <4> HIDE DEF x
      <4>1. 2 ^ 0 * x + 0 = x /\ 0 < 2 ^ 0  BY <1>1, PowerZero
      <4> QED  BY <3>3, <3>4, <4>1 DEF x
    <3> QED  BY <2>3, <3>5
  <2>4. CASE k # 0
    <3>1. /\ k - 1 \in Nat /\ k - 1 \in 0 .. n /\ ~(k <= k - 1)
          /\ k = (k - 1) + 1
      BY <2>4
    <3>2. Cut(k - 1)  BY <2>2, <3>1
    <3>3. PICK m \in Nat : m = 64 - n + k  OBVIOUS
    <3>4. m \in 1 .. 64 /\ m - 1 = 64 - n + (k - 1) /\ m - 1 \in 0 .. 64
      BY <3>1, <3>3
    <3>5. 64 - m \in v <=> 64 - m \in w
      <4>1. 64 - m \in Int /\ 0 <= 64 - m /\ 64 - m < n  BY <3>1, <3>3
      <4> QED  BY <4>1 DEF Lowest
    <3>6. PICK e \in {0, 1} :
            /\ ValueOf(v)[m] = 2 * ValueOf(v)[m - 1] + e
            /\ ValueOf(w)[m] = 2 * ValueOf(w)[m - 1] + e
      <4> DEFINE e == IF 64 - m \in w THEN 1 ELSE 0
      <4>1. /\ ValueOf(v)[m] = 2 * ValueOf(v)[m - 1] + e
            /\ ValueOf(w)[m] = 2 * ValueOf(w)[m - 1] + e
        BY <3>4, <3>5, ValueEquations
      <4>2. e \in {0, 1}  OBVIOUS
      <4> QED  BY <4>1, <4>2
    <3>7. /\ ValueOf(v)[m - 1] < 2 ^ (k - 1)
          /\ ValueOf(w)[m - 1] = 2 ^ (k - 1) * x + ValueOf(v)[m - 1]
      BY <3>2, <3>4
    <3>8. /\ ValueOf(v)[m - 1] \in Nat /\ ValueOf(w)[m - 1] \in Nat
      BY <3>4, ValueTypes
    <3>9. 2 ^ (k - 1) \in Nat /\ 2 ^ k = 2 * 2 ^ (k - 1)
      BY <3>1, PowerIsCount, PowerNext
    <3>10. /\ ValueOf(v)[m] < 2 ^ k
           /\ ValueOf(w)[m] = 2 ^ k * x + ValueOf(v)[m]
      <4> HIDE DEF x, Cut
      <4>1. PICK p \in Nat : p = 2 ^ (k - 1)  BY <3>9
      <4>2. (2 * p) * x = 2 * (p * x) /\ p * x \in Nat  BY <1>1
      <4>3. ValueOf(v)[m] < 2 * p  BY <3>6, <3>7, <3>8, <4>1
      <4>4. ValueOf(w)[m] = 2 * (p * x) + ValueOf(v)[m]
        BY <3>6, <3>7, <3>8, <4>1, <4>2
      <4> QED  BY <3>9, <4>1, <4>2, <4>3, <4>4
    <3>11. Cut(k)  BY <3>3, <3>10
    <3> QED  BY <3>11
  <2> QED  BY <2>3, <2>4
<1>3. Cut(n)
  <2>1. n \in 0 .. n  OBVIOUS
  <2> HIDE DEF Cut
  <2> QED  BY <1>2, <2>1
<1>4. 64 - n + n = 64  OBVIOUS
<1>5. Value(v) = ValueOf(v)[64] /\ Value(w) = ValueOf(w)[64]  BY ValueEquations
<1>6. ValueOf(v)[64] \in Nat  BY ValueTypes
<1> QED  BY <1>1, <1>3, <1>4, <1>5, <1>6, PowerIsCount

(* Quotient and remainder are determined by what they add up to. *)
LEMMA QuotientIs ==
  ASSUME NEW m \in Nat, NEW q \in Nat, NEW r \in Nat, r < m
  PROVE  (m * q + r) \div m = q /\ (m * q + r) % m = r
BY SMTT(30)

-----------------------------------------------------------------------------
(* Tag and index of an address are the quotient and the remainder of its   *)
(* block number by the number of sets, for every 64-bit address.           *)
LEMMA PlaceDivides ==
  ASSUME NEW l, IsLevel(l), NEW addr \in Words
  PROVE  Divides(addr, l, Place(l, addr))
<1>1. PICK b \in Nat, d \in Nat :
        /\ b = l.b /\ d = TagAt(l) /\ b <= d /\ d < 64
        /\ d - b = l.c - l.b - l.s /\ d - b \in Nat
  BY LevelSizes
<1>2. PICK t, x : t = Tag(l, addr) /\ x = Index(l, addr)  OBVIOUS
<1>3. /\ t \subseteq Nat /\ x \subseteq Nat
      /\ \A j \in Nat : j \in t <=> j + d \in addr
      /\ \A j \in Nat : j \in x <=> j + b < d /\ j + b \in addr
  BY <1>1, <1>2, PlaceBits
<1> DEFINE block == {j \in Bits : j + b \in addr}
           low   == addr \cap (0 .. b - 1)
<1>4. /\ \A j \in Int : j \in block <=> j >= 0 /\ j + b \in addr
      /\ block \subseteq Nat /\ addr \subseteq Nat
  BY DEF Words, Bits, WORD_BITS
<1>5. Lowered(t, addr, d) /\ Lowered(block, addr, b)
  <2>1. Lowered(block, addr, b)  BY <1>4 DEF Lowered
  <2>2. Lowered(t, addr, d)
    <3>1. \A j \in Int : j \in t => j \in Nat  BY <1>3
    <3>2. \A j \in Int : j >= 0 <=> j \in Nat  OBVIOUS
    <3> QED  BY <1>3, <3>1, <3>2 DEF Lowered
  <2> QED  BY <2>1, <2>2
<1>6. Lowest(low, addr, b)
  <2>1. low \subseteq Int  OBVIOUS
  <2>2. \A j \in Int : j \in low <=> j \in addr /\ 0 <= j /\ j < b  OBVIOUS
  <2> QED  BY <2>1, <2>2 DEF Lowest
<1>7. Lowest(x, block, d - b)
  <2>1. ASSUME NEW j \in Int
        PROVE  j \in x <=> j \in block /\ 0 <= j /\ j < d - b
    <3>1. CASE j \in Nat
      <4>1. j + b < d <=> j < d - b  OBVIOUS
      <4> QED  BY <1>4, <1>3, <3>1, <4>1
    <3>2. CASE j \notin Nat  BY <1>3, <3>2
    <3> QED  BY <3>1, <3>2
  <2> QED  BY <1>3, <2>1 DEF Lowest
<1>8. t \in SUBSET Int /\ block \in SUBSET Int
  BY <1>4, <1>3
<1> HIDE DEF block, low
<1>9. Value(t) = ValueOf(addr)[64 - d]
  <2>1. d \in 0 .. 63 /\ 64 - d \in 0 .. 64 - d /\ (64 - d) + d = 64
    BY <1>1
  <2>2. ValueOf(t)[(64 - d) + d] = ValueOf(addr)[64 - d]
    BY <1>5, <1>8, <2>1, ValueLowered
  <2> QED  BY <2>1, <2>2, ValueEquations
<1>10. /\ Value(block) = ValueOf(addr)[64 - b]
      /\ ValueOf(block)[64 - (d - b)] = ValueOf(addr)[64 - d]
  <2>1. /\ b \in 0 .. 63 /\ 64 - b \in 0 .. 64 - b /\ (64 - b) + b = 64
        /\ 64 - d \in 0 .. 64 - b /\ (64 - d) + b = 64 - (d - b)
    BY <1>1
  <2>2. \A k \in 0 .. 64 - b : ValueOf(block)[k + b] = ValueOf(addr)[k]
    BY <1>5, <1>8, <2>1, ValueLowered
  <2>3. /\ ValueOf(block)[(64 - b) + b] = ValueOf(addr)[64 - b]
        /\ ValueOf(block)[(64 - d) + b] = ValueOf(addr)[64 - d]
    BY <2>1, <2>2
  <2> QED  BY <2>1, <2>3, ValueEquations
<1>11. /\ Value(low) \in Nat /\ Value(low) < 2 ^ b /\ 2 ^ b \in Nat
       /\ Value(block) \in Nat
       /\ Value(addr) = 2 ^ b * Value(block) + Value(low)
  <2>1. b \in 0 .. 63  BY <1>1
  <2>2. /\ Value(low) \in Nat /\ ValueOf(addr)[64 - b] \in Nat
        /\ 2 ^ b \in Nat /\ Value(low) < 2 ^ b
        /\ Value(addr) = 2 ^ b * ValueOf(addr)[64 - b] + Value(low)
    BY <1>6, <2>1, ValueCut
  <2> QED  BY <1>10, <2>2
<1>12. /\ Value(x) \in Nat /\ Value(x) < 2 ^ (d - b) /\ 2 ^ (d - b) \in Nat
       /\ Value(t) \in Nat
       /\ Value(block) = 2 ^ (d - b) * Value(t) + Value(x)
  <2>1. d - b \in 0 .. 63  BY <1>1
  <2>2. PICK n \in 0 .. 63 : n = d - b  BY <2>1
  <2>3. /\ Value(x) \in Nat /\ ValueOf(block)[64 - n] \in Nat
        /\ 2 ^ n \in Nat /\ Value(x) < 2 ^ n
        /\ Value(block) = 2 ^ n * ValueOf(block)[64 - n] + Value(x)
    BY <1>7, <2>2, ValueCut
  <2>4. ValueOf(block)[64 - n] = Value(t)  BY <1>9, <1>10, <2>2
  <2> QED  BY <2>2, <2>3, <2>4
<1>13. Value(addr) \div 2 ^ b = Value(block)  BY <1>11, QuotientIs
<1>14. /\ Value(block) % 2 ^ (d - b) = Value(x)
       /\ Value(block) \div 2 ^ (d - b) = Value(t)
  <2>1. PICK m : m = 2 ^ (d - b)  OBVIOUS
  <2>2. PICK q, r : q = Value(t) /\ r = Value(x)  OBVIOUS
  <2>3. m \in Nat /\ q \in Nat /\ r \in Nat /\ r < m /\ Value(block) = m * q + r
    BY <1>12, <2>1, <2>2
  <2>4. Value(block) % m = r /\ Value(block) \div m = q  BY <2>3, QuotientIs
  <2> QED  BY <2>1, <2>2, <2>4
<1>15. Place(l, addr).tag = t /\ Place(l, addr).index = x
  BY <1>2 DEF Place
<1> QED  BY <1>1, <1>13, <1>14, <1>15 DEF Divides

(* What CacheSim does with block numbers is what the masks and shifts of   *)
(* Read, Write and Prefetch compute, for the 64-bit addresses that TLC has *)
(* no numbers for, too ...                                                 *)
THEOREM EverySplitDivides ==
  Spec => [](AllBuilt => /\ Divides(read_at.addr, L1, read_at.l1)
                         /\ Divides(read_at.addr, L2, read_at.l2))
<1>1. AddrInv => (AllBuilt => /\ Divides(read_at.addr, L1, read_at.l1)
                              /\ Divides(read_at.addr, L2, read_at.l2))
  <2> SUFFICES ASSUME AddrInv, AllBuilt
               PROVE  /\ Divides(read_at.addr, L1, read_at.l1)
                      /\ Divides(read_at.addr, L2, read_at.l2)
    OBVIOUS
  <2>1. IsLevel(L1) /\ IsLevel(L2)  BY BuiltLevels DEF AddrInv
  <2>2. /\ Divides(read_at.addr, L1, Place(L1, read_at.addr))
        /\ Divides(read_at.addr, L2, Place(L2, read_at.addr))
    BY <2>1, PlaceDivides DEF AddrInv
  <2> QED  BY <2>2 DEF AddrInv
<1> QED  BY <1>1, AddrInvHolds, PTL

(* ... and so for those of the cache_addr run.                             *)
THEOREM SplitIsDivisionHolds == Spec => []SplitIsDivision
<1>1. (AllBuilt => /\ Divides(read_at.addr, L1, read_at.l1)
                   /\ Divides(read_at.addr, L2, read_at.l2))
        => SplitIsDivision
  BY DEF SplitIsDivision
<1> QED  BY <1>1, EverySplitDivides, PTL
=============================================================================
