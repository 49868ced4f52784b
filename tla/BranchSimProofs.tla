--------------------------- MODULE BranchSimProofs ---------------------------
(***************************************************************************)
(* The branch predictors, for every length of history, every size of the   *)
(* tables and every trace: what the history registers hold, that the       *)
(* counter that is trained is the one that predicts, and how fast it       *)
(* learns.                                                                 *)
(***************************************************************************)
EXTENDS BranchSim, FiniteSetTheorems, WellFoundedInduction, TLAPS

-----------------------------------------------------------------------------
(* Numbers *)

(* A nonempty set of numbers has a least one. *)
LEMMA LeastNat ==
  ASSUME NEW S, S \subseteq Nat, S # {}
  PROVE  \E m \in S : \A k \in S : m <= k
<1>1. PICK m \in S : \A k \in S : ~(<<k, m>> \in OpToRel(<, Nat))
  BY NatLessThanWellFounded, WFMin
<1>2. \A k \in S : <<k, m>> \in OpToRel(<, Nat) <=> k < m  BY DEF OpToRel
<1>3. ASSUME NEW k \in S PROVE m <= k
  <2>1. m \in Nat /\ k \in Nat /\ ~(k < m)  BY <1>1, <1>2
  <2> QED  BY <2>1
<1> QED  BY <1>3

LEMMA PowerPositive ==
  ASSUME NEW n \in Nat
  PROVE  2 ^ n \in Nat \ {0}
<1> DEFINE S == SUBSET (1 .. n)
<1>1. IsFiniteSet(1 .. n) /\ Cardinality(1 .. n) = n  BY FS_Interval
<1>2. IsFiniteSet(S) /\ Cardinality(S) = 2 ^ n  BY <1>1, FS_SUBSET
<1>3. {} \in S  OBVIOUS
<1> HIDE DEF S
<1>4. Cardinality(S) \in Nat /\ Cardinality(S) # 0
  BY <1>2, <1>3, FS_CardinalityType, FS_EmptySet
<1> QED  BY <1>2, <1>4

(* A set of n + 1 elements has twice as many subsets as one of n: those    *)
(* with and those without the last element.                                *)
LEMMA PowerDoubles ==
  ASSUME NEW n \in Nat
  PROVE  2 ^ (n + 1) = 2 * 2 ^ n
<1> DEFINE S == SUBSET (1 .. n)
           T == {X \cup {n + 1} : X \in S}
           f == [X \in S |-> X \cup {n + 1}]
<1>1. IsFiniteSet(1 .. n) /\ Cardinality(1 .. n) = n  BY FS_Interval
<1>2. IsFiniteSet(S) /\ Cardinality(S) = 2 ^ n  BY <1>1, FS_SUBSET
<1>3. n + 1 \notin 1 .. n  OBVIOUS
<1>4. f \in Bijection(S, T)
  <2>1. f \in [S -> T]  OBVIOUS
  <2>2. ASSUME NEW X \in S, NEW Y \in S, f[X] = f[Y] PROVE X = Y
    <3>1. X = (X \cup {n + 1}) \ {n + 1} /\ Y = (Y \cup {n + 1}) \ {n + 1}
      BY <1>3
    <3>2. f[X] = X \cup {n + 1} /\ f[Y] = Y \cup {n + 1}  OBVIOUS
    <3> QED  BY <2>2, <3>1, <3>2
  <2>3. \A t \in T : \E X \in S : f[X] = t  OBVIOUS
  <2> HIDE DEF f, S, T
  <2> QED
    BY <2>1, <2>2, <2>3 DEF Bijection, Injection, Surjection, IsInjective
<1>5. IsFiniteSet(T) /\ Cardinality(T) = 2 ^ n
  <2>1. ExistsBijection(S, T)  BY <1>4 DEF ExistsBijection
  <2> HIDE DEF S, T, f
  <2> QED  BY <1>2, <2>1, FS_Bijection
<1>6. S \cap T = {}
  <2>1. \A X \in S : n + 1 \notin X  BY <1>3
  <2> QED  BY <2>1
<1>7. S \cup T = SUBSET (1 .. n + 1)
  <2>1. (1 .. n) \cup {n + 1} = 1 .. n + 1  OBVIOUS
  <2>2. ASSUME NEW X \in SUBSET (1 .. n + 1) PROVE X \in S \cup T
    <3>1. CASE n + 1 \in X
      <4>1. X \ {n + 1} \in S  BY <2>1
      <4>2. X = (X \ {n + 1}) \cup {n + 1}  BY <3>1
      <4> QED  BY <4>1, <4>2
    <3>2. CASE n + 1 \notin X
      <4>1. X \in S  BY <2>1, <3>2
      <4> QED  BY <4>1
    <3> QED  BY <3>1, <3>2
  <2>3. \A X \in S : X \subseteq 1 .. n + 1 /\ X \cup {n + 1} \subseteq 1 .. n + 1
    BY <2>1
  <2>4. \A X \in S \cup T : X \in SUBSET (1 .. n + 1)  BY <2>3
  <2> QED  BY <2>2, <2>4
<1> HIDE DEF S, T
<1>8. Cardinality(S \cup T) = 2 ^ n + 2 ^ n - 0
  BY <1>2, <1>5, <1>6, FS_Union, FS_EmptySet
<1>9. Cardinality(SUBSET (1 .. n + 1)) = 2 ^ (n + 1)
  <2>1. n + 1 \in Nat  OBVIOUS
  <2>2. 1 <= n + 1  OBVIOUS
  <2>3. IsFiniteSet(1 .. n + 1) /\ Cardinality(1 .. n + 1) = n + 1
    BY <2>1, <2>2, FS_Interval
  <2> QED  BY <2>3, FS_SUBSET
<1> DEFINE p == 2 ^ n
<1>10. p \in Nat  BY PowerPositive
<1>11. 2 ^ (n + 1) = p + p - 0  BY <1>7, <1>8, <1>9
<1> HIDE DEF p
<1>12. p + p - 0 = 2 * p  BY <1>10
<1> QED  BY <1>11, <1>12 DEF p

(* Powers divide one another. *)
LEMMA PowerFactor ==
  ASSUME NEW j \in Nat, NEW n \in Nat, j < n
  PROVE  \E d \in Nat \ {0} : 2 ^ n = 2 ^ j * (2 * d)
<1> DEFINE Factor(m) == \E d \in Nat \ {0} : 2 ^ m = 2 ^ j * (2 * d)
           S == {m \in Nat : j < m /\ ~Factor(m)}
<1> SUFFICES ASSUME S # {} PROVE FALSE  OBVIOUS
<1>1. PICK m \in S : \A k \in S : m <= k
  <2>1. S \subseteq Nat  OBVIOUS
  <2> QED  BY <2>1, LeastNat
<1>2. m \in Nat /\ m - 1 \in Nat /\ (m - 1) + 1 = m /\ ~(m <= m - 1)  OBVIOUS
<1>3. 2 ^ m = 2 * 2 ^ (m - 1)  BY <1>2, PowerDoubles
<1>4. 2 ^ j \in Nat  BY PowerPositive
<1>5. CASE m - 1 = j
  <2>1. 2 ^ m = 2 ^ j * (2 * 1)  BY <1>3, <1>4, <1>5
  <2> QED  BY <2>1
<1>6. CASE m - 1 # j
  <2>1. j < m - 1  BY <1>2, <1>6
  <2>2. PICK d \in Nat \ {0} : 2 ^ (m - 1) = 2 ^ j * (2 * d)
    BY <1>1, <1>2, <2>1
  <2> DEFINE p == 2 ^ j
  <2>3. 2 ^ m = 2 * (p * (2 * d)) /\ p \in Nat  BY <1>3, <1>4, <2>2
  <2> HIDE DEF p
  <2>4. 2 * (p * (2 * d)) = p * (2 * (2 * d))  BY <2>3
  <2>5. 2 * d \in Nat \ {0}  OBVIOUS
  <2> QED  BY <2>3, <2>4, <2>5 DEF p
<1> QED  BY <1>5, <1>6

(* Division by a number, of a sum one part of which it divides. *)
LEMMA DivSum ==
  ASSUME NEW m \in Nat \ {0}, NEW x \in Nat, NEW k \in Nat
  PROVE  (x + m * k) \div m = x \div m + k
<1>1. x \div m \in Nat /\ x % m \in 0 .. m - 1
      /\ x = m * (x \div m) + (x % m)
  BY SMTT(30)
<1> DEFINE q == x \div m
           r == x % m
<1>2. q \in Nat /\ r \in 0 .. m - 1 /\ x = m * q + r  BY <1>1
<1> HIDE DEF q, r
<1>3. x + m * k = m * (q + k) + r  BY <1>2
<1>4. (m * (q + k) + r) \div m = q + k  BY <1>2, SMTT(30)
<1> QED  BY <1>3, <1>4 DEF q

-----------------------------------------------------------------------------
(* Bits *)

LEMMA Parity ==
  ASSUME NEW x \in Nat, NEW k \in Nat
  PROVE  (x + 2 * k) % 2 = x % 2
BY SMTT(30)

(* What is added above a bit leaves it alone. *)
LEMMA BitBelow ==
  ASSUME NEW j \in Nat, NEW n \in Nat, j < n, NEW x \in Nat, NEW b \in Nat
  PROVE  BitSet(x + 2 ^ n * b, j) <=> BitSet(x, j)
<1>1. PICK d \in Nat \ {0} : 2 ^ n = 2 ^ j * (2 * d)  BY PowerFactor
<1> DEFINE p == 2 ^ j
           k == 2 * (d * b)
           y == x \div p
<1>2. p \in Nat \ {0}  BY PowerPositive
<1>3. d * b \in Nat /\ k \in Nat  OBVIOUS
<1>4. 2 ^ n * b = p * k
  <2>1. (p * (2 * d)) * b = p * (2 * (d * b))
    <3> HIDE DEF p
    <3> QED  BY <1>2
  <2> QED  BY <1>1, <2>1
<1> HIDE DEF p
<1>5. (x + p * k) \div p = y + k
  <2> HIDE DEF k
  <2> QED  BY <1>2, <1>3, DivSum
<1>6. y \in Nat  BY <1>2, SMTT(30)
<1> HIDE DEF y
<1>7. (y + 2 * (d * b)) % 2 = y % 2  BY <1>3, <1>6, Parity
<1> QED  BY <1>4, <1>5, <1>7 DEF BitSet, p, y

LEMMA BitZero ==
  ASSUME NEW x \in Nat
  PROVE  BitSet(x, 0) <=> x % 2 = 1
<1>1. 2 ^ 0 = 1 /\ x \div 1 = x  OBVIOUS
<1> QED  BY <1>1 DEF BitSet

LEMMA BitDoubled ==
  ASSUME NEW x \in Nat, NEW t \in 0 .. 1, NEW j \in Nat
  PROVE  BitSet(2 * x + t, j + 1) <=> BitSet(x, j)
<1> DEFINE p == 2 ^ j
           q == x \div p
           r == x % p
<1>1. p \in Nat \ {0}  BY PowerPositive
<1>2. 2 ^ (j + 1) = 2 * p  BY PowerDoubles
<1> HIDE DEF p
<1>3. q \in Nat /\ r \in 0 .. p - 1 /\ x = p * q + r  BY <1>1, SMTT(30)
<1> HIDE DEF q, r
<1>4. 2 * x + t = (2 * p) * q + (2 * r + t)  BY <1>1, <1>3
<1>5. 2 * r + t \in 0 .. 2 * p - 1  BY <1>1, <1>3
<1> DEFINE m == 2 * p
           s == 2 * r + t
<1>6. m \in Nat \ {0} /\ s \in 0 .. m - 1  BY <1>1, <1>5
<1> HIDE DEF m, s
<1>7. s \div m = 0 /\ s \in Nat  BY <1>6, SMTT(30)
<1>8. (s + m * q) \div m = s \div m + q  BY <1>3, <1>6, <1>7, DivSum
<1>9. 2 * x + t = s + m * q
  <2>1. m * q \in Nat /\ s \in Nat  BY <1>3, <1>6
  <2>2. 2 * x + t = m * q + s  BY <1>4 DEF m, s
  <2> QED  BY <2>1, <2>2
<1>10. (2 * x + t) \div m = q  BY <1>3, <1>7, <1>8, <1>9
<1> QED  BY <1>2, <1>10 DEF BitSet, m, p, q

(* Numbers of n bits with the same bits are the same. *)
LEMMA SameBits ==
  ASSUME NEW n \in Nat, NEW x \in 0 .. 2 ^ n - 1, NEW y \in 0 .. 2 ^ n - 1,
         \A j \in 0 .. n - 1 : BitSet(x, j) <=> BitSet(y, j)
  PROVE  x = y
<1> DEFINE Equal(m) == \A u, v \in 0 .. 2 ^ m - 1 :
              (\A j \in 0 .. m - 1 : BitSet(u, j) <=> BitSet(v, j)) => u = v
           S == {m \in Nat : ~Equal(m)}
<1>1. SUFFICES ASSUME S # {} PROVE FALSE
  <2>1. CASE S = {}
    <3>1. Equal(n)  BY <2>1
    <3> QED  BY <3>1
  <2> QED  BY <1>1, <2>1
<1>2. PICK m \in S : \A k \in S : m <= k
  <2>1. S \subseteq Nat  OBVIOUS
  <2> QED  BY <1>1, <2>1, LeastNat
<1>3. PICK u \in 0 .. 2 ^ m - 1, v \in 0 .. 2 ^ m - 1 :
        (\A j \in 0 .. m - 1 : BitSet(u, j) <=> BitSet(v, j)) /\ u # v
  OBVIOUS
<1>4. CASE m = 0
  <2>1. 2 ^ m = 1  BY <1>4
  <2> QED  BY <1>3, <2>1
<1>5. CASE m # 0
  <2>1. m - 1 \in Nat /\ (m - 1) + 1 = m /\ ~(m <= m - 1)  BY <1>5
  <2>2. 2 ^ m = 2 * 2 ^ (m - 1)  BY <2>1, PowerDoubles
  <2>3. Equal(m - 1)  BY <1>2, <2>1
  <2> DEFINE p == 2 ^ (m - 1)
  <2>4. p \in Nat /\ u \in 0 .. 2 * p - 1 /\ v \in 0 .. 2 * p - 1
    BY <2>1, <2>2, PowerPositive
  <2> HIDE DEF p
  <2>5. /\ u \div 2 \in 0 .. p - 1 /\ u % 2 \in 0 .. 1
        /\ v \div 2 \in 0 .. p - 1 /\ v % 2 \in 0 .. 1
        /\ u = 2 * (u \div 2) + (u % 2) /\ v = 2 * (v \div 2) + (v % 2)
    BY <2>4, SMTT(30)
  <2> DEFINE uh == u \div 2
             vh == v \div 2
             ul == u % 2
             vl == v % 2
  <2>6. /\ uh \in 0 .. p - 1 /\ ul \in 0 .. 1 /\ vh \in 0 .. p - 1
        /\ vl \in 0 .. 1 /\ u = 2 * uh + ul /\ v = 2 * vh + vl
    BY <2>5
  <2>7. ul = vl
    <3>1. BitSet(u, 0) <=> BitSet(v, 0)  BY <1>3, <1>5
    <3>2. BitSet(u, 0) <=> ul = 1  BY BitZero
    <3>3. BitSet(v, 0) <=> vl = 1  BY BitZero
    <3> HIDE DEF ul, vl, uh, vh
    <3> QED  BY <2>6, <3>1, <3>2, <3>3
  <2> HIDE DEF ul, vl, uh, vh
  <2>8. uh \in Nat /\ vh \in Nat  BY <2>6
  <2>9. ASSUME NEW j \in 0 .. m - 2
        PROVE  BitSet(uh, j) <=> BitSet(vh, j)
    <3>1. j \in Nat /\ j + 1 \in 0 .. m - 1  OBVIOUS
    <3>2. BitSet(u, j + 1) <=> BitSet(uh, j)  BY <2>6, <2>8, <3>1, BitDoubled
    <3>3. BitSet(v, j + 1) <=> BitSet(vh, j)  BY <2>6, <2>8, <3>1, BitDoubled
    <3> QED  BY <1>3, <3>1, <3>2, <3>3
  <2>10. uh = vh
    <3>1. (m - 1) - 1 = m - 2  OBVIOUS
    <3> QED  BY <2>3, <2>6, <2>9, <3>1 DEF p
  <2> QED  BY <1>3, <2>6, <2>7, <2>10
<1> QED  BY <1>4, <1>5

-----------------------------------------------------------------------------
(* Registers and indices *)

LEMMA MaskSizes ==
  /\ P \in Nat \ {0} /\ H \in Nat
  /\ HT_MASK \in Nat /\ HT_MASK + 1 = 2 ^ P /\ HT_MASK = 2 ^ P - 1
  /\ 2 ^ P \in Nat \ {0} /\ 2 ^ H \in Nat \ {0}
<1>1. P \in Nat \ {0} /\ H \in Nat  BY PredictorAssumption
<1>2. 2 ^ P \in Nat \ {0} /\ 2 ^ H \in Nat \ {0}  BY <1>1, PowerPositive
<1> DEFINE p == 2 ^ P
<1>3. p \in Nat \ {0} /\ HT_MASK = p - 1  BY <1>2 DEF HT_MASK
<1> HIDE DEF p
<1>4. HT_MASK \in Nat /\ HT_MASK + 1 = p  BY <1>3
<1> QED  BY <1>1, <1>2, <1>3, <1>4 DEF p

LEMMA HashType ==
  ASSUME NEW ip \in Nat, NEW bits \in Nat
  PROVE  PcHash(ip, bits) \in 0 .. 2 ^ bits - 1
<1> DEFINE m == 2 ^ bits
           w == ip \div 4
<1>1. m \in Nat \ {0} /\ w \in Nat  BY PowerPositive, SMTT(30)
<1> HIDE DEF m, w
<1>2. w % m \in 0 .. m - 1  BY <1>1, SMTT(30)
<1> QED  BY <1>2 DEF PcHash, m, w

(* A history register takes an outcome in at bit 0 and keeps to its mask.  *)
LEMMA ShiftBits ==
  ASSUME NEW r \in 0 .. HT_MASK, NEW taken \in BOOLEAN
  PROVE  /\ Shift(r, taken) \in 0 .. HT_MASK
         /\ BitSet(Shift(r, taken), 0) <=> taken
         /\ \A j \in Nat : j + 1 < P =>
              (BitSet(Shift(r, taken), j + 1) <=> BitSet(r, j))
<1> DEFINE t == IF taken THEN 1 ELSE 0
           m == 2 ^ P
           z == 2 * r + t
           s == z % m
           e == z \div m
<1>1. m \in Nat \ {0} /\ HT_MASK = m - 1 /\ HT_MASK + 1 = m /\ r \in Nat
  BY MaskSizes
<1>2. t \in 0 .. 1 /\ (taken <=> t = 1)  OBVIOUS
<1>3. Shift(r, taken) = s  BY <1>1 DEF Shift
<1> HIDE DEF m, t
<1>4. z \in Nat  BY <1>1, <1>2
<1>5. s \in 0 .. m - 1 /\ e \in Nat /\ z = s + m * e
  <2> HIDE DEF z
  <2> QED  BY <1>1, <1>4, SMTT(30)
<1> HIDE DEF s, e
<1>6. s \in 0 .. HT_MASK /\ s \in Nat  BY <1>1, <1>5
<1>7. ASSUME NEW j \in Nat, j < P PROVE BitSet(s, j) <=> BitSet(z, j)
  <2>1. BitSet(s + 2 ^ P * e, j) <=> BitSet(s, j)
    BY <1>5, <1>6, <1>7, MaskSizes, BitBelow
  <2> HIDE DEF z
  <2> QED  BY <1>5, <2>1 DEF m
<1>8. BitSet(s, 0) <=> taken
  <2>1. BitSet(s, 0) <=> BitSet(z, 0)  BY <1>7, MaskSizes
  <2>2. BitSet(z, 0) <=> z % 2 = 1
    <3> HIDE DEF z
    <3> QED  BY <1>4, BitZero
  <2>3. z % 2 = 1 <=> t = 1  BY <1>1, <1>2, SMTT(30)
  <2> QED  BY <1>2, <2>1, <2>2, <2>3
<1>9. ASSUME NEW j \in Nat, j + 1 < P
      PROVE  BitSet(s, j + 1) <=> BitSet(r, j)
  <2>1. BitSet(s, j + 1) <=> BitSet(z, j + 1)
    <3> HIDE DEF z
    <3> QED  BY <1>7, <1>9
  <2>2. BitSet(2 * r + t, j + 1) <=> BitSet(r, j)
    BY <1>1, <1>2, BitDoubled
  <2> QED  BY <2>1, <2>2
<1> QED  BY <1>3, <1>6, <1>8, <1>9

(* The recursive definition of Xor has a solution. *)
Digit(x, y, k) ==
  2 ^ (k - 1) * ((x \div 2 ^ (k - 1) + y \div 2 ^ (k - 1)) % 2)

IsXor(g, x, y, n) ==
  g = [k \in 0 .. n |-> IF k = 0 THEN 0 ELSE g[k - 1] + Digit(x, y, k)]

LEMMA XorExists ==
  ASSUME NEW x, NEW y, NEW n \in Nat
  PROVE  \E g : IsXor(g, x, y, n)
<1> DEFINE S == {m \in Nat : ~ \E g : IsXor(g, x, y, m)}
<1> SUFFICES ASSUME S # {} PROVE FALSE  OBVIOUS
<1>1. PICK m \in S : \A k \in S : m <= k
  <2>1. S \subseteq Nat  OBVIOUS
  <2> QED  BY <2>1, LeastNat
<1>2. CASE m = 0
  <2> DEFINE g == [k \in 0 .. 0 |-> 0]
  <2>1. IsXor(g, x, y, 0)  BY DEF IsXor
  <2> QED  BY <1>2, <2>1
<1>3. CASE m # 0
  <2>1. m \in Nat /\ m - 1 \in Nat /\ ~(m <= m - 1)  BY <1>3
  <2>2. PICK g : IsXor(g, x, y, m - 1)  BY <1>1, <2>1
  <2> DEFINE h == [k \in 0 .. m |-> IF k = m THEN g[m - 1] + Digit(x, y, m)
                                    ELSE g[k]]
  <2>3. \A k \in 0 .. m - 1 :
          g[k] = IF k = 0 THEN 0 ELSE g[k - 1] + Digit(x, y, k)
    BY <2>1, <2>2 DEF IsXor
  <2>4. \A k \in 0 .. m : h[k] = IF k = 0 THEN 0 ELSE h[k - 1] + Digit(x, y, k)
    <3> SUFFICES ASSUME NEW k \in 0 .. m
                 PROVE  h[k] = IF k = 0 THEN 0
                               ELSE h[k - 1] + Digit(x, y, k)
      OBVIOUS
    <3>1. CASE k = m
      <4>1. m - 1 \in 0 .. m /\ m - 1 # m /\ m \in 0 .. m  BY <2>1
      <4>2. h[m - 1] = g[m - 1] /\ h[m] = g[m - 1] + Digit(x, y, m)  BY <4>1
      <4> QED  BY <1>3, <3>1, <4>2
    <3>2. CASE k # m
      <4>1. k \in 0 .. m - 1 /\ h[k] = g[k]  BY <2>1, <3>2
      <4>2. k # 0 => k - 1 \in 0 .. m /\ k - 1 # m  BY <4>1, <2>1
      <4>3. k # 0 => h[k - 1] = g[k - 1]  BY <4>2
      <4> QED  BY <2>3, <4>1, <4>3
    <3> QED  BY <3>1, <3>2
  <2>5. h = [k \in 0 .. m |-> h[k]]  OBVIOUS
  <2> HIDE DEF h
  <2>6. IsXor(h, x, y, m)  BY <2>4, <2>5 DEF IsXor
  <2> QED  BY <1>1, <2>6
<1> QED  BY <1>2, <1>3

(* Xor differs from one of its arguments where the other has a 1. *)
LEMMA XorBits ==
  ASSUME NEW x \in Nat, NEW y \in Nat
  PROVE  /\ Xor(x, y) \in 0 .. HT_MASK
         /\ \A j \in 0 .. P - 1 :
              BitSet(Xor(x, y), j) <=> ~(BitSet(x, j) <=> BitSet(y, j))
<1> DEFINE low == CHOOSE g : IsXor(g, x, y, P)
<1>1. P \in Nat /\ HT_MASK = 2 ^ P - 1  BY MaskSizes
<1>2. Xor(x, y) = low[P]  BY DEF Xor, IsXor, Digit
<1>3. IsXor(low, x, y, P)  BY <1>1, XorExists
<1> HIDE DEF low
<1>4. \A k \in 0 .. P :
        low[k] = IF k = 0 THEN 0 ELSE low[k - 1] + Digit(x, y, k)
  BY <1>3 DEF IsXor
<1> DEFINE Good(n) ==
      /\ low[n] \in 0 .. 2 ^ n - 1
      /\ \A j \in 0 .. n - 1 :
           BitSet(low[n], j) <=> ~(BitSet(x, j) <=> BitSet(y, j))
           S == {n \in 0 .. P : ~Good(n)}
<1>5. S = {}
  <2> SUFFICES ASSUME S # {} PROVE FALSE  OBVIOUS
  <2>1. PICK m \in S : \A k \in S : m <= k
    <3>1. S \subseteq Nat  OBVIOUS
    <3> QED  BY <3>1, LeastNat
  <2>2. CASE m = 0
    <3>1. low[0] = 0 /\ 2 ^ 0 = 1  BY <1>1, <1>4
    <3>2. Good(0)  BY <3>1
    <3> QED  BY <2>1, <2>2, <3>2
  <2>3. CASE m # 0
    <3> DEFINE n == m - 1
               p == 2 ^ n
               u == x \div p
               v == y \div p
               b == (u + v) % 2
    <3>1. n \in Nat /\ n \in 0 .. P /\ n + 1 = m /\ ~(m <= n)
      BY <1>1, <2>3
    <3>2. Good(n)  BY <2>1, <3>1
    <3>3. p \in Nat \ {0} /\ 2 ^ m = 2 * p
      BY <3>1, PowerPositive, PowerDoubles
    <3>4. low[m] = low[n] + p * b  BY <1>4, <2>3 DEF Digit
    <3>5. low[n] \in 0 .. p - 1  BY <3>2
    <3> HIDE DEF p
    <3>6. u \in Nat /\ v \in Nat  BY <3>3, SMTT(30)
    <3> HIDE DEF u, v
    <3>7. b \in 0 .. 1 /\ (b = 1 <=> ~(u % 2 = 1 <=> v % 2 = 1))
      BY <3>6, SMTT(30)
    <3> HIDE DEF b
    <3>8. low[m] \in 0 .. 2 ^ m - 1
      <4>1. p * b \in {0, p}  BY <3>3, <3>7
      <4> QED  BY <3>3, <3>4, <3>5, <4>1
    <3>9. ASSUME NEW j \in 0 .. m - 1
          PROVE  BitSet(low[m], j) <=> ~(BitSet(x, j) <=> BitSet(y, j))
      <4>1. CASE j = n
        <5>1. low[n] \div p = 0  BY <3>3, <3>5, SMTT(30)
        <5>2. (low[n] + p * b) \div p = low[n] \div p + b
          <6>1. low[n] \in Nat /\ b \in Nat  BY <3>3, <3>5, <3>7
          <6> QED  BY <3>3, <6>1, DivSum
        <5>3. low[m] \div p = b  BY <3>4, <3>7, <5>1, <5>2
        <5>4. BitSet(low[m], j) <=> b = 1
          BY <3>7, <4>1, <5>3 DEF BitSet, p
        <5>5. /\ BitSet(x, j) <=> u % 2 = 1
              /\ BitSet(y, j) <=> v % 2 = 1
          BY <4>1 DEF BitSet, u, v, p
        <5> QED  BY <3>7, <5>4, <5>5
      <4>2. CASE j # n
        <5>1. j \in 0 .. n - 1 /\ j \in Nat /\ j < n  BY <3>1, <4>2
        <5>2. BitSet(low[n], j) <=> ~(BitSet(x, j) <=> BitSet(y, j))
          BY <3>2, <5>1
        <5>3. BitSet(low[n] + 2 ^ n * b, j) <=> BitSet(low[n], j)
          <6>1. low[n] \in Nat /\ b \in Nat  BY <3>5, <3>7
          <6> QED  BY <3>1, <5>1, <6>1, BitBelow
        <5> QED  BY <3>4, <5>2, <5>3 DEF p
      <4> QED  BY <4>1, <4>2
    <3>10. Good(m)  BY <3>8, <3>9
    <3> QED  BY <2>1, <3>10
  <2> QED  BY <2>2, <2>3
<1>6. Good(P)
  <2>1. P \in 0 .. P  BY <1>1
  <2> HIDE DEF Good
  <2> QED  BY <1>5, <2>1
<1> QED  BY <1>1, <1>2, <1>6

-----------------------------------------------------------------------------
(* Outcomes of a growing trace *)

LEMMA AppendBranch ==
  ASSUME NEW q \in Seq(Branch), NEW br \in Branch
  PROVE  /\ Append(q, br) \in Seq(Branch) /\ Len(q) \in Nat
         /\ Len(Append(q, br)) = Len(q) + 1
         /\ Append(q, br)[Len(q) + 1] = br
         /\ \A k \in 1 .. Len(q) : Append(q, br)[k] = q[k]
OBVIOUS

(* A branch that is not among those at the places T moves none of them. *)
LEMMA OutcomeKept ==
  ASSUME NEW q \in Seq(Branch), NEW br \in Branch,
         NEW T \in SUBSET (1 .. Len(q)), NEW j, NEW taken
  PROVE  Outcome(Append(q, br), T, j, taken) <=> Outcome(q, T, j, taken)
<1>1. \A k \in T : Append(q, br)[k] = q[k]  BY AppendBranch
<1> QED  BY <1>1 DEF Outcome

(* A branch that joins them is the latest, and the others move one back.   *)
Joined(q, br, T) ==
  LET r == Append(q, br)
      U == T \cup {Len(q) + 1}
  IN  \A taken \in BOOLEAN :
        /\ Outcome(r, U, 0, taken) <=> br.is_taken = taken
        /\ \A j \in Nat :
             Outcome(r, U, j + 1, taken) <=> Outcome(q, T, j, taken)

LEMMA OutcomeJoined ==
  ASSUME NEW q \in Seq(Branch), NEW br \in Branch,
         NEW T \in SUBSET (1 .. Len(q))
  PROVE  Joined(q, br, T)
<1> DEFINE n == Len(q)
           r == Append(q, br)
           U == T \cup {n + 1}
           A(k) == {m \in T : m > k}
           B(k) == {m \in U : m > k}
<1>1. n \in Nat /\ r[n + 1] = br /\ \A k \in T : r[k] = q[k]
  BY AppendBranch
<1>2. n + 1 \notin T /\ \A k \in T : k \in Nat /\ k < n + 1  BY <1>1
<1>3. IsFiniteSet(T)
  <2>1. IsFiniteSet(1 .. n)  BY <1>1, FS_Interval
  <2> QED  BY <2>1, FS_Subset
<1>4. B(n + 1) = {} /\ Cardinality(B(n + 1)) = 0
  <2>1. \A m \in U : ~(m > n + 1)
    <3> HIDE DEF n
    <3> QED  BY <1>1, <1>2
  <2>2. B(n + 1) = {}
    <3> HIDE DEF U
    <3> QED  BY <2>1
  <2> QED  BY <2>2, FS_EmptySet
<1>5. ASSUME NEW k \in T
      PROVE  Cardinality(A(k)) \in Nat
             /\ Cardinality(B(k)) = Cardinality(A(k)) + 1
  <2>1. B(k) = A(k) \cup {n + 1} /\ n + 1 \notin A(k)  BY <1>1, <1>2
  <2>2. IsFiniteSet(A(k))
    <3>1. A(k) \subseteq T  OBVIOUS
    <3> QED  BY <1>3, <3>1, FS_Subset
  <2> HIDE DEF A, B
  <2> QED  BY <2>1, <2>2, FS_AddElement, FS_CardinalityType
<1> SUFFICES ASSUME NEW taken \in BOOLEAN
             PROVE  /\ Outcome(r, U, 0, taken) <=> br.is_taken = taken
                    /\ \A j \in Nat : Outcome(r, U, j + 1, taken)
                                        <=> Outcome(q, T, j, taken)
  BY DEF Joined
<1>6. \A j : Outcome(r, U, j, taken)
               <=> \E k \in U : r[k].is_taken = taken /\ Cardinality(B(k)) = j
  BY DEF Outcome
<1>7. \A j : Outcome(q, T, j, taken)
               <=> \E k \in T : q[k].is_taken = taken /\ Cardinality(A(k)) = j
  BY DEF Outcome
<1> HIDE DEF A, B, r, n
<1>8. Outcome(r, U, 0, taken) <=> br.is_taken = taken
  <2>1. ASSUME NEW k \in T PROVE Cardinality(B(k)) # 0  BY <1>5
  <2> QED  BY <1>1, <1>4, <1>6, <2>1
<1>9. ASSUME NEW j \in Nat
      PROVE  Outcome(r, U, j + 1, taken) <=> Outcome(q, T, j, taken)
  <2>1. \A k \in T : Cardinality(B(k)) = j + 1 <=> Cardinality(A(k)) = j
    BY <1>5
  <2>2. Cardinality(B(n + 1)) # j + 1  BY <1>4
  <2>3. Outcome(r, U, j + 1, taken)
          <=> \E k \in U : r[k].is_taken = taken
                           /\ Cardinality(B(k)) = j + 1
    BY <1>6
  <2>4. Outcome(q, T, j, taken)
          <=> \E k \in T : q[k].is_taken = taken /\ Cardinality(A(k)) = j
    BY <1>7
  <2>5. \A k \in U : Cardinality(B(k)) = j + 1 => k \in T  BY <2>2
  <2>6. \A k \in T : k \in U /\ r[k] = q[k]  BY <1>1
  <2> HIDE DEF U
  <2> QED  BY <2>1, <2>3, <2>4, <2>5, <2>6
<1> QED  BY <1>8, <1>9 DEF r, n

LEMMA SharingGrows ==
  ASSUME NEW q \in Seq(Branch), NEW br \in Branch, NEW ip
  PROVE  /\ Sharing(q, ip) \in SUBSET (1 .. Len(q))
         /\ Sharing(Append(q, br), ip) =
              IF PcHash(br.ip, H) = PcHash(ip, H)
              THEN Sharing(q, ip) \cup {Len(q) + 1} ELSE Sharing(q, ip)
<1> DEFINE n == Len(q)
           r == Append(q, br)
<1>1. /\ n \in Nat /\ Len(r) = n + 1 /\ r[n + 1] = br
      /\ \A k \in 1 .. n : r[k] = q[k]
  BY AppendBranch
<1>2. 1 .. n + 1 = (1 .. n) \cup {n + 1} /\ n + 1 \notin 1 .. n  BY <1>1
<1> HIDE DEF n, r
<1>3. Sharing(r, ip) = {k \in 1 .. n + 1 :
                          PcHash(r[k].ip, H) = PcHash(ip, H)}
  BY <1>1 DEF Sharing
<1>4. Sharing(q, ip) = {k \in 1 .. n : PcHash(q[k].ip, H) = PcHash(ip, H)}
  BY DEF Sharing, n
<1> QED  BY <1>1, <1>2, <1>3, <1>4 DEF n, r

-----------------------------------------------------------------------------
(* History registers *)

(* Register r holds the outcomes of the branches at the places T. *)
Remembers(r, q, T) ==
  \A j \in 0 .. P - 1 : BitSet(r, j) <=> Outcome(q, T, j, TRUE)

LEMMA RemembersNothing ==
  ASSUME NEW q
  PROVE  0 \in 0 .. HT_MASK /\ Remembers(0, q, {})
<1>1. ASSUME NEW j \in 0 .. P - 1 PROVE ~BitSet(0, j)
  <2> DEFINE m == 2 ^ j
  <2>1. m \in Nat \ {0}  BY PowerPositive
  <2> HIDE DEF m
  <2>2. 0 \div m = 0  BY <2>1, SMTT(30)
  <2>3. (0 \div m) % 2 # 1  BY <2>2
  <2> QED  BY <2>3 DEF BitSet, m
<1>2. \A j : ~Outcome(q, {}, j, TRUE)  BY DEF Outcome
<1>3. 0 \in 0 .. HT_MASK  BY MaskSizes
<1> QED  BY <1>1, <1>2, <1>3 DEF Remembers

LEMMA RemembersKept ==
  ASSUME NEW q \in Seq(Branch), NEW br \in Branch,
         NEW T \in SUBSET (1 .. Len(q)), NEW r, Remembers(r, q, T)
  PROVE  Remembers(r, Append(q, br), T)
<1>1. \A j : Outcome(Append(q, br), T, j, TRUE) <=> Outcome(q, T, j, TRUE)
  BY OutcomeKept
<1> QED  BY <1>1 DEF Remembers

LEMMA RemembersJoined ==
  ASSUME NEW q \in Seq(Branch), NEW br \in Branch,
         NEW T \in SUBSET (1 .. Len(q)),
         NEW r \in 0 .. HT_MASK, Remembers(r, q, T)
  PROVE  Remembers(Shift(r, br.is_taken), Append(q, br), T \cup {Len(q) + 1})
<1> DEFINE s == Shift(r, br.is_taken)
           p == Append(q, br)
           U == T \cup {Len(q) + 1}
<1>1. br.is_taken \in BOOLEAN /\ P \in Nat \ {0}  BY MaskSizes DEF Branch
<1>2. /\ BitSet(s, 0) <=> br.is_taken
      /\ \A j \in Nat : j + 1 < P => (BitSet(s, j + 1) <=> BitSet(r, j))
  BY <1>1, ShiftBits
<1>3. /\ Outcome(p, U, 0, TRUE) <=> br.is_taken = TRUE
      /\ \A j \in Nat : Outcome(p, U, j + 1, TRUE) <=> Outcome(q, T, j, TRUE)
  BY OutcomeJoined DEF Joined
<1> HIDE DEF s, p, U
<1>4. ASSUME NEW j \in 0 .. P - 1
      PROVE  BitSet(s, j) <=> Outcome(p, U, j, TRUE)
  <2>1. CASE j = 0  BY <1>1, <1>2, <1>3, <2>1
  <2>2. CASE j # 0
    <3> DEFINE i == j - 1
    <3>1. i \in Nat /\ i + 1 = j /\ i + 1 < P /\ i \in 0 .. P - 1
      BY <1>1, <2>2
    <3> HIDE DEF i
    <3>2. BitSet(s, i + 1) <=> BitSet(r, i)  BY <1>2, <3>1
    <3>3. BitSet(r, i) <=> Outcome(q, T, i, TRUE)  BY <3>1 DEF Remembers
    <3>4. Outcome(p, U, i + 1, TRUE) <=> Outcome(q, T, i, TRUE)
      BY <1>3, <3>1
    <3> QED  BY <3>1, <3>2, <3>3, <3>4
  <2> QED  BY <2>1, <2>2
<1> QED  BY <1>4 DEF Remembers, s, p, U

-----------------------------------------------------------------------------
(* Predictors *)

LEMMA SwitchType ==
  ASSUME NEW state \in 0 .. 3, NEW taken \in BOOLEAN
  PROVE  StateSwitch(state, taken) \in 0 .. 3
<1>1. state \in {0, 1, 2, 3}  OBVIOUS
<1> QED  BY <1>1 DEF StateSwitch

LEMMA CounterType ==
  ASSUME NEW ctr \in 0 .. CTR_MAX, NEW taken \in BOOLEAN
  PROVE  Counter_update(ctr, taken) \in 0 .. CTR_MAX
<1>1. CTR_MAX = 3  BY DEF CTR_MAX, CTR_BITS
<1> QED  BY <1>1 DEF Counter_update

LEMMA PredictorFields ==
  ASSUME NEW b \in PredictorState
  PROVE  /\ b.kind \in PredictorKind
         /\ b.history_table \in [0 .. 2 ^ H - 1 -> 0 .. HT_MASK]
         /\ b.pattern_table \in [0 .. HT_MASK -> 0 .. 3]
         /\ b.GHR \in 0 .. HT_MASK /\ b.ctr \in 0 .. CTR_MAX
BY DEF PredictorState

LEMMA IndexType ==
  ASSUME NEW b \in PredictorState, NEW ip \in Nat
  PROVE  /\ PcHash(ip, H) \in 0 .. 2 ^ H - 1
         /\ PcHash(ip, P) \in 0 .. HT_MASK
         /\ YehPattIndex(b, ip) \in 0 .. HT_MASK
         /\ GshareIndex(b, ip) \in 0 .. HT_MASK
<1>1. P \in Nat /\ H \in Nat /\ HT_MASK \in Nat /\ HT_MASK = 2 ^ P - 1
  BY MaskSizes
<1>2. PcHash(ip, H) \in 0 .. 2 ^ H - 1 /\ PcHash(ip, P) \in 0 .. HT_MASK
  BY <1>1, HashType
<1>3. YehPattIndex(b, ip) \in 0 .. HT_MASK
  BY <1>2, PredictorFields DEF YehPattIndex
<1>4. PcHash(ip, P) \in Nat /\ b.GHR \in Nat  BY <1>1, <1>2, PredictorFields
<1>5. GshareIndex(b, ip) \in 0 .. HT_MASK  BY <1>4, XorBits DEF GshareIndex
<1> QED  BY <1>2, <1>3, <1>5

(* What training changes. *)
YehPattTrained(c, b, ip, taken) ==
  LET p == YehPattIndex(b, ip)
      h == PcHash(ip, H)
  IN  /\ c.kind = b.kind /\ c.GHR = b.GHR /\ c.ctr = b.ctr
      /\ c.pattern_table =
           [b.pattern_table EXCEPT ![p] = StateSwitch(b.pattern_table[p], taken)]
      /\ c.history_table =
           [b.history_table EXCEPT ![h] = Shift(b.history_table[h], taken)]

GshareTrained(c, b, ip, taken) ==
  LET p == GshareIndex(b, ip)
  IN  /\ c.kind = b.kind /\ c.history_table = b.history_table /\ c.ctr = b.ctr
      /\ c.pattern_table =
           [b.pattern_table EXCEPT ![p] = StateSwitch(b.pattern_table[p], taken)]
      /\ c.GHR = Shift(b.GHR, taken)

CounterTrained(c, b, taken) ==
  /\ c.kind = b.kind /\ c.history_table = b.history_table
  /\ c.pattern_table = b.pattern_table /\ c.GHR = b.GHR
  /\ c.ctr = Counter_update(b.ctr, taken)

LEMMA UpdateFields ==
  ASSUME NEW b \in PredictorState, NEW ip \in Nat, NEW taken \in BOOLEAN
  PROVE  LET c == UpdatePredictor(b, ip, taken)
         IN  /\ c \in PredictorState /\ c.kind = b.kind
             /\ b.kind = "ALWAYS_TAKEN" => c = b
             /\ b.kind = "TWO_BIT_COUNTER" => CounterTrained(c, b, taken)
             /\ b.kind = "YEHPATT" => YehPattTrained(c, b, ip, taken)
             /\ b.kind = "GSHARE" => GshareTrained(c, b, ip, taken)
<1> DEFINE c == UpdatePredictor(b, ip, taken)
<1>1. CASE b.kind = "ALWAYS_TAKEN"
  <2>1. c = b  BY <1>1 DEF UpdatePredictor
  <2> QED  BY <1>1, <2>1
<1>2. CASE b.kind = "TWO_BIT_COUNTER"
  <2>1. c = [b EXCEPT !.ctr = Counter_update(@, taken)]
    BY <1>2 DEF UpdatePredictor, TwoBitUpdate
  <2>2. Counter_update(b.ctr, taken) \in 0 .. CTR_MAX
    BY PredictorFields, CounterType
  <2> HIDE DEF c
  <2>3. c \in PredictorState /\ CounterTrained(c, b, taken)
    BY <2>1, <2>2 DEF PredictorState, CounterTrained
  <2> QED  BY <1>2, <2>3 DEF CounterTrained, c
<1>3. CASE b.kind = "YEHPATT"
  <2> DEFINE p == YehPattIndex(b, ip)
             h == PcHash(ip, H)
             s == StateSwitch(b.pattern_table[p], taken)
             r == Shift(b.history_table[h], taken)
  <2>1. c = [b EXCEPT !.pattern_table[p] = s, !.history_table[h] = r]
    BY <1>3 DEF UpdatePredictor, YehPattUpdate
  <2>2. p \in 0 .. HT_MASK /\ h \in 0 .. 2 ^ H - 1  BY IndexType
  <2>3. s \in 0 .. 3
    <3>1. b.pattern_table[p] \in 0 .. 3  BY <2>2, PredictorFields
    <3> QED  BY <3>1, SwitchType
  <2>4. r \in 0 .. HT_MASK
    <3>1. b.history_table[h] \in 0 .. HT_MASK  BY <2>2, PredictorFields
    <3> QED  BY <3>1, ShiftBits
  <2>5. YehPattTrained(c, b, ip, taken)
    <3>1. /\ c.kind = b.kind /\ c.GHR = b.GHR /\ c.ctr = b.ctr
          /\ c.pattern_table = [b.pattern_table EXCEPT ![p] = s]
          /\ c.history_table = [b.history_table EXCEPT ![h] = r]
      <4> HIDE DEF p, h, s, r, c
      <4> QED  BY <2>1 DEF PredictorState
    <3> QED  BY <3>1 DEF YehPattTrained
  <2>6. c \in PredictorState
    <3> HIDE DEF p, h, s, r, c
    <3>1. [b.pattern_table EXCEPT ![p] = s] \in [0 .. HT_MASK -> 0 .. 3]
      BY <2>2, <2>3, PredictorFields
    <3>2. [b.history_table EXCEPT ![h] = r]
            \in [0 .. 2 ^ H - 1 -> 0 .. HT_MASK]
      BY <2>2, <2>4, PredictorFields
    <3> QED  BY <2>1, <3>1, <3>2 DEF PredictorState
  <2> HIDE DEF c
  <2> QED  BY <1>3, <2>5, <2>6 DEF YehPattTrained, c
<1>4. CASE b.kind = "GSHARE"
  <2> DEFINE p == GshareIndex(b, ip)
             s == StateSwitch(b.pattern_table[p], taken)
             r == Shift(b.GHR, taken)
  <2>1. c = [b EXCEPT !.pattern_table[p] = s, !.GHR = r]
    BY <1>4 DEF UpdatePredictor, GshareUpdate
  <2>2. p \in 0 .. HT_MASK  BY IndexType
  <2>3. s \in 0 .. 3
    <3>1. b.pattern_table[p] \in 0 .. 3  BY <2>2, PredictorFields
    <3> QED  BY <3>1, SwitchType
  <2>4. r \in 0 .. HT_MASK  BY PredictorFields, ShiftBits
  <2>5. GshareTrained(c, b, ip, taken)
    <3>1. /\ c.kind = b.kind /\ c.history_table = b.history_table
          /\ c.ctr = b.ctr /\ c.GHR = r
          /\ c.pattern_table = [b.pattern_table EXCEPT ![p] = s]
      <4> HIDE DEF p, s, r, c
      <4> QED  BY <2>1 DEF PredictorState
    <3> QED  BY <3>1 DEF GshareTrained
  <2>6. c \in PredictorState
    <3> HIDE DEF p, s, r, c
    <3>1. [b.pattern_table EXCEPT ![p] = s] \in [0 .. HT_MASK -> 0 .. 3]
      BY <2>2, <2>3, PredictorFields
    <3> QED  BY <2>1, <2>4, <3>1 DEF PredictorState
  <2> HIDE DEF c
  <2> QED  BY <1>4, <2>5, <2>6 DEF GshareTrained, c
<1> QED  BY <1>1, <1>2, <1>3, <1>4, PredictorFields DEF PredictorKind

LEMMA InitType ==
  ASSUME NEW kind \in PredictorKind
  PROVE  InitPredictor(kind) \in PredictorState
<1>1. FreshHistory \in [0 .. 2 ^ H - 1 -> 0 .. HT_MASK]
  BY MaskSizes DEF FreshHistory
<1>2. FreshPattern \in [0 .. HT_MASK -> 0 .. 3]
  BY DEF FreshPattern, WEAKLY_NOT_TAKEN
<1>3. FreshCounter \in 0 .. CTR_MAX
  BY DEF FreshCounter, CTR_MAX, CTR_BITS
<1>4. 0 \in 0 .. HT_MASK  BY MaskSizes
<1> QED  BY <1>1, <1>2, <1>3, <1>4 DEF InitPredictor, PredictorState

-----------------------------------------------------------------------------
(* Types *)

(* What the trace and the counts are, for the sums in TypeOK. *)
Traced ==
  /\ seen \in Seq(Branch)
  /\ sim_stats \in [total_instructions : Nat, num_branch_instructions : Nat,
                    num_branches_correctly_predicted : Nat,
                    num_branches_mispredicted : Nat]

LEMMA TypeInit == Init => TypeOK /\ Traced
<1> SUFFICES ASSUME Init PROVE TypeOK /\ Traced  OBVIOUS
<1>1. PICK kind \in KindSet : bp = InitPredictor(kind)  BY DEF Init
<1>2. bp \in PredictorState
  BY <1>1, BranchSimAssumption, InitType
<1>3. seen = <<>> /\ seen \in Seq(Branch) /\ Len(seen) = 0  BY DEF Init
<1> QED  BY <1>2, <1>3 DEF Init, TypeOK, Traced

(* What reading a branch does to the predictor and to the trace. *)
LEMMA ReadTrains ==
  ASSUME TypeOK, Traced, NEW br \in Branch, ReadBranch(br)
  PROVE  /\ bp' \in PredictorState /\ bp'.kind = bp.kind
         /\ br.ip \in Nat /\ br.is_taken \in BOOLEAN
         /\ bp' = UpdatePredictor(bp, br.ip, br.is_taken)
         /\ seen' = Append(seen, br)
<1>1. br.ip \in Nat /\ br.is_taken \in BOOLEAN
  BY BranchSimAssumption DEF Branch
<1>2. bp' = UpdatePredictor(bp, br.ip, br.is_taken) /\ bp \in PredictorState
      /\ seen' = Append(seen, br)
  BY DEF ReadBranch, TypeOK
<1> QED  BY <1>1, <1>2, UpdateFields

LEMMA TypeStep ==
  ASSUME TypeOK, Traced, [Next]_vars
  PROVE  TypeOK' /\ Traced'
<1>1. ASSUME NEW br \in Branch, ReadBranch(br) PROVE TypeOK' /\ Traced'
  <2>1. bp' \in PredictorState  BY <1>1, ReadTrains
  <2>2. /\ seen' = Append(seen, br) /\ seen' \in Seq(Branch)
        /\ Len(seen') = Len(seen) + 1 /\ Len(seen) \in Nat
    BY <1>1, AppendBranch DEF ReadBranch, Traced
  <2> DEFINE hit == Predict(bp, br.ip) = br.is_taken
             c == sim_stats.num_branches_correctly_predicted
             w == sim_stats.num_branches_mispredicted
             u == IF hit THEN c + 1 ELSE c
             v == IF hit THEN w ELSE w + 1
  <2>3. sim_stats' =
          [sim_stats EXCEPT !.total_instructions = @ + 1,
                            !.num_branch_instructions = @ + 1,
                            !.num_branches_correctly_predicted = u,
                            !.num_branches_mispredicted = v]
    BY <1>1 DEF ReadBranch, CountBranch, dyncount
  <2>4. c \in Nat /\ w \in Nat  BY DEF Traced
  <2> HIDE DEF hit, c, w
  <2>5. u \in Nat /\ v \in Nat /\ u + v = c + w + 1  BY <2>4
  <2> HIDE DEF u, v
  <2>6. Traced'
    <3>1. /\ sim_stats.total_instructions + 1 \in Nat
          /\ sim_stats.num_branch_instructions + 1 \in Nat
      BY DEF Traced
    <3> QED  BY <2>2, <2>3, <2>5, <3>1 DEF Traced
  <2>7. /\ sim_stats'.num_branch_instructions =
             sim_stats.num_branch_instructions + 1
        /\ sim_stats'.total_instructions = sim_stats.total_instructions + 1
        /\ sim_stats'.num_branches_correctly_predicted = u
        /\ sim_stats'.num_branches_mispredicted = v
    BY <2>3 DEF Traced
  <2>8. c + w = Len(seen)  BY DEF TypeOK, c, w
  <2> QED  BY <2>1, <2>2, <2>5, <2>6, <2>7, <2>8 DEF TypeOK, Traced
<1>2. CASE ReadOther
  BY <1>2 DEF ReadOther, dyncount, TypeOK, Traced
<1>3. CASE UNCHANGED vars  BY <1>3 DEF vars, TypeOK, Traced
<1> QED  BY <1>1, <1>2, <1>3 DEF Next

(* The tables of every predictor keep their shape, the history registers   *)
(* stay within their mask, and every branch of the trace is counted once   *)
(* as a branch and once as predicted right or wrong                        *)
(* (branchsim_update_stats).                                               *)
THEOREM BranchTypeCorrect == Spec => [](TypeOK /\ Traced)
<1>1. Init => TypeOK /\ Traced  BY TypeInit
<1>2. (TypeOK /\ Traced) /\ [Next]_vars => (TypeOK /\ Traced)'  BY TypeStep
<1> QED  BY <1>1, <1>2, PTL DEF Spec

-----------------------------------------------------------------------------
(* What the history registers hold *)

LEMMA HistoryInit == Init => HistoryRegisters
<1> SUFFICES ASSUME Init PROVE HistoryRegisters  OBVIOUS
<1>1. PICK kind \in KindSet : bp = InitPredictor(kind)  BY DEF Init
<1>2. seen = <<>> /\ 1 .. Len(seen) = {} /\ \A ip : Sharing(seen, ip) = {}
  BY DEF Init, Sharing
<1>3. 0 \in 0 .. HT_MASK /\ Remembers(0, seen, {})  BY RemembersNothing
<1>4. bp.GHR = 0  BY <1>1 DEF InitPredictor
<1>5. \A ip \in IpSet : bp.history_table[PcHash(ip, H)] = 0
  <2>1. \A ip \in IpSet : PcHash(ip, H) \in 0 .. 2 ^ H - 1
    BY BranchSimAssumption, MaskSizes, HashType
  <2> QED  BY <1>1, <2>1 DEF InitPredictor, FreshHistory
<1> QED  BY <1>2, <1>3, <1>4, <1>5 DEF HistoryRegisters, Remembers

(* The registers, with the places of the branches they remember. *)
LEMMA HistoryRemembers ==
  HistoryRegisters
    <=> /\ bp.kind = "YEHPATT" => \A ip \in IpSet :
             /\ bp.history_table[PcHash(ip, H)] \in 0 .. HT_MASK
             /\ Remembers(bp.history_table[PcHash(ip, H)], seen,
                          Sharing(seen, ip))
        /\ bp.kind = "GSHARE" =>
             /\ bp.GHR \in 0 .. HT_MASK
             /\ Remembers(bp.GHR, seen, 1 .. Len(seen))
BY DEF HistoryRegisters, Remembers

LEMMA HistoryStep ==
  ASSUME TypeOK, Traced, HistoryRegisters, [Next]_vars
  PROVE  HistoryRegisters'
<1> USE HistoryRemembers
<1>1. ASSUME NEW br \in Branch, ReadBranch(br) PROVE HistoryRegisters'
  <2> DEFINE taken == br.is_taken
  <2>1. /\ bp' = UpdatePredictor(bp, br.ip, taken) /\ bp'.kind = bp.kind
        /\ bp' \in PredictorState /\ seen' = Append(seen, br)
        /\ br.ip \in Nat /\ taken \in BOOLEAN
    BY <1>1, ReadTrains
  <2>2. bp \in PredictorState /\ seen \in Seq(Branch)  BY DEF TypeOK, Traced
  <2>3. CASE bp.kind = "YEHPATT"
    <3> SUFFICES ASSUME NEW ip \in IpSet
                 PROVE  /\ bp'.history_table[PcHash(ip, H)] \in 0 .. HT_MASK
                        /\ Remembers(bp'.history_table[PcHash(ip, H)], seen',
                                     Sharing(seen', ip))
      BY <2>1, <2>3 DEF HistoryRegisters, Remembers
    <3> DEFINE g == PcHash(ip, H)
               h == PcHash(br.ip, H)
               r == bp.history_table[g]
               T == Sharing(seen, ip)
    <3>1. g \in 0 .. 2 ^ H - 1 /\ h \in 0 .. 2 ^ H - 1
      BY <2>1, BranchSimAssumption, MaskSizes, HashType
    <3>2. r \in 0 .. HT_MASK /\ Remembers(r, seen, T)  BY <2>3
    <3>3. /\ T \in SUBSET (1 .. Len(seen))
          /\ Sharing(seen', ip) = IF h = g THEN T \cup {Len(seen) + 1} ELSE T
      BY <2>1, <2>2, SharingGrows
    <3>4. YehPattTrained(bp', bp, br.ip, taken)
      BY <2>1, <2>2, <2>3, UpdateFields
    <3>5. bp'.history_table =
            [bp.history_table EXCEPT ![h] = Shift(bp.history_table[h], taken)]
      BY <3>4 DEF YehPattTrained
    <3>6. bp'.history_table[g] = IF h = g THEN Shift(r, taken) ELSE r
      BY <2>2, <3>1, <3>5, PredictorFields
    <3>7. bp'.history_table[g] \in 0 .. HT_MASK
      BY <2>1, <3>1, PredictorFields
    <3> HIDE DEF g, h, r, T
    <3>8. CASE h = g
      <4>1. Remembers(Shift(r, taken), Append(seen, br),
                      T \cup {Len(seen) + 1})
        BY <2>2, <3>2, <3>3, RemembersJoined
      <4>2. Remembers(bp'.history_table[g], seen', Sharing(seen', ip))
        BY <2>1, <3>3, <3>6, <3>8, <4>1
      <4> QED  BY <3>7, <4>2 DEF g
    <3>9. CASE h # g
      <4>1. Remembers(r, Append(seen, br), T)
        BY <2>2, <3>2, <3>3, RemembersKept
      <4>2. Remembers(bp'.history_table[g], seen', Sharing(seen', ip))
        BY <2>1, <3>3, <3>6, <3>9, <4>1
      <4> QED  BY <3>7, <4>2 DEF g
    <3> QED  BY <3>8, <3>9
  <2>4. CASE bp.kind = "GSHARE"
    <3> DEFINE n == Len(seen)
    <3>1. GshareTrained(bp', bp, br.ip, taken)
      BY <2>1, <2>2, <2>4, UpdateFields
    <3>2. bp'.GHR = Shift(bp.GHR, taken)  BY <3>1 DEF GshareTrained
    <3>3. bp.GHR \in 0 .. HT_MASK /\ Remembers(bp.GHR, seen, 1 .. n)  BY <2>4
    <3>4. n \in Nat /\ Len(seen') = n + 1  BY <2>1, <2>2, AppendBranch
    <3> HIDE DEF n
    <3>5. 1 .. n + 1 = (1 .. n) \cup {n + 1}  BY <3>4
    <3>6. Remembers(Shift(bp.GHR, taken), Append(seen, br),
                    (1 .. n) \cup {n + 1})
      <4>1. 1 .. n \in SUBSET (1 .. Len(seen))  BY DEF n
      <4> QED  BY <2>2, <3>3, <4>1, RemembersJoined DEF n
    <3>7. Remembers(bp'.GHR, seen', 1 .. Len(seen'))
      BY <2>1, <3>2, <3>4, <3>5, <3>6
    <3>8. bp'.GHR \in 0 .. HT_MASK  BY <2>1, PredictorFields
    <3> QED  BY <2>1, <2>4, <3>7, <3>8 DEF HistoryRegisters, Remembers
  <2>5. CASE bp.kind \notin {"YEHPATT", "GSHARE"}
    BY <2>1, <2>5 DEF HistoryRegisters
  <2> QED  BY <2>3, <2>4, <2>5
<1>2. CASE ReadOther
  <2>1. bp' = bp /\ seen' = seen  BY <1>2 DEF ReadOther
  <2> QED  BY <2>1 DEF HistoryRegisters
<1>3. CASE UNCHANGED vars
  <2>1. bp' = bp /\ seen' = seen  BY <1>3 DEF vars
  <2> QED  BY <2>1 DEF HistoryRegisters
<1> QED  BY <1>1, <1>2, <1>3 DEF Next

(* A history register holds the last P outcomes of the branches that share *)
(* it, the latest in bit 0, and never leaves its mask, whatever the trace  *)
(* and the sizes of the tables (yeh_patt_update_predictor,                 *)
(* gshare_update_predictor).                                               *)
THEOREM HistoryRegistersHolds == Spec => []HistoryRegisters
<1>1. Init => HistoryRegisters  BY HistoryInit
<1>2. TypeOK /\ Traced /\ HistoryRegisters /\ [Next]_vars
        => HistoryRegisters'
  BY HistoryStep
<1> QED  BY <1>1, <1>2, BranchTypeCorrect, PTL DEF Spec

-----------------------------------------------------------------------------
(* Contexts *)

Bits(n) == [j \in 0 .. P - 1 |-> BitSet(n, j)]

AllSet == [j \in 0 .. P - 1 |-> TRUE]

(* The table entry that stands for a branch at ip in predictor b. *)
Entry(b, ip) ==
  IF b.kind = "YEHPATT" THEN YehPattIndex(b, ip) ELSE GshareIndex(b, ip)

TwoLevel == bp.kind \in {"YEHPATT", "GSHARE"}

(* The context of a branch and the entry it selects are the same bits. *)
LEMMA ContextIsEntry ==
  ASSUME TypeOK, HistoryRegisters, TwoLevel, NEW ip \in IpSet
  PROVE  Entry(bp, ip) \in 0 .. HT_MASK
         /\ Context(seen, ip) = Bits(Entry(bp, ip))
<1>1. ip \in Nat /\ bp \in PredictorState
  BY BranchSimAssumption DEF TypeOK
<1>2. Entry(bp, ip) \in 0 .. HT_MASK  BY <1>1, IndexType DEF Entry
<1>3. CASE bp.kind = "YEHPATT"
  <2>1. \A j \in 0 .. P - 1 :
          BitSet(Entry(bp, ip), j)
            <=> Outcome(seen, Sharing(seen, ip), j, TRUE)
    BY <1>3 DEF HistoryRegisters, Entry, YehPattIndex
  <2>2. Context(seen, ip) =
          [j \in 0 .. P - 1 |-> Outcome(seen, Sharing(seen, ip), j, TRUE)]
    BY <1>3 DEF Context
  <2>3. \A j \in 0 .. P - 1 :
          Outcome(seen, Sharing(seen, ip), j, TRUE) = BitSet(Entry(bp, ip), j)
    BY <2>1, Zenon DEF BitSet, Outcome
  <2> QED  BY <1>2, <2>2, <2>3, Zenon DEF Bits
<1>4. CASE bp.kind = "GSHARE"
  <2> DEFINE g == PcHash(ip, P)
  <2>1. g \in Nat /\ bp.GHR \in Nat
    BY <1>1, MaskSizes, IndexType, PredictorFields
  <2>2. Entry(bp, ip) = Xor(g, bp.GHR)  BY <1>4 DEF Entry, GshareIndex
  <2> HIDE DEF g
  <2>3. \A j \in 0 .. P - 1 :
          BitSet(Xor(g, bp.GHR), j) <=> ~(BitSet(g, j) <=> BitSet(bp.GHR, j))
    BY <2>1, XorBits
  <2>4. \A j \in 0 .. P - 1 :
          BitSet(bp.GHR, j) <=> Outcome(seen, 1 .. Len(seen), j, TRUE)
    BY <1>4 DEF HistoryRegisters
  <2>5. Context(seen, ip) =
          [j \in 0 .. P - 1 |->
             Outcome(seen, 1 .. Len(seen), j, TRUE) # BitSet(g, j)]
    BY <1>4 DEF Context, g
  <2>6. \A j \in 0 .. P - 1 :
          BitSet(Xor(g, bp.GHR), j)
            <=> ~(Outcome(seen, 1 .. Len(seen), j, TRUE) <=> BitSet(g, j))
    BY <2>3, <2>4
  <2>7. \A j \in 0 .. P - 1 :
          (Outcome(seen, 1 .. Len(seen), j, TRUE) # BitSet(g, j))
            = BitSet(Xor(g, bp.GHR), j)
    BY <2>6, Zenon DEF BitSet, Outcome
  <2> QED  BY <1>2, <2>2, <2>5, <2>7, Zenon DEF Bits
<1> QED  BY <1>3, <1>4 DEF TwoLevel

(* Different entries have different bits. *)
LEMMA SameEntry ==
  ASSUME NEW a \in 0 .. HT_MASK, NEW b \in 0 .. HT_MASK, Bits(a) = Bits(b)
  PROVE  a = b
<1>1. \A j \in 0 .. P - 1 : Bits(a)[j] = Bits(b)[j]  OBVIOUS
<1>2. \A j \in 0 .. P - 1 : BitSet(a, j) <=> BitSet(b, j)
  <2> TAKE j \in 0 .. P - 1
  <2>1. Bits(a)[j] = BitSet(a, j) /\ Bits(b)[j] = BitSet(b, j)
    BY Zenon DEF Bits
  <2> QED  BY <1>1, <2>1
<1>3. P \in Nat /\ HT_MASK = 2 ^ P - 1  BY MaskSizes
<1> QED  BY <1>2, <1>3, SameBits

(* One more branch is met in the context it had before it. *)
LEMMA MetGrows ==
  ASSUME TypeOK, Traced, NEW br \in Branch, ReadBranch(br), NEW c
  PROVE  /\ MetIn(c) \in SUBSET (1 .. Len(seen))
         /\ MetIn(c)' = IF Context(seen, br.ip) = c
                        THEN MetIn(c) \cup {Len(seen) + 1} ELSE MetIn(c)
<1> DEFINE n == Len(seen)
           C(q, ip) ==
             [j \in 0 .. P - 1 |->
                CASE bp.kind = "YEHPATT" -> Outcome(q, Sharing(q, ip), j, TRUE)
                  [] bp.kind = "GSHARE"  -> Outcome(q, 1 .. Len(q), j, TRUE)
                                              # BitSet(PcHash(ip, P), j)
                  [] OTHER               -> TRUE]
<1>1. /\ bp'.kind = bp.kind /\ seen' = Append(seen, br)
      /\ seen \in Seq(Branch)
  BY ReadTrains DEF Traced
<1>2. /\ n \in Nat /\ Len(seen') = n + 1 /\ seen'[n + 1] = br
      /\ \A k \in 1 .. n : seen'[k] = seen[k]
  BY <1>1, AppendBranch
<1>3. \A k \in 1 .. n + 1 : SubSeq(seen', 1, k - 1) = SubSeq(seen, 1, k - 1)
  <2> TAKE k \in 1 .. n + 1
  <2>1. k - 1 \in 0 .. n  BY <1>2
  <2> QED  BY <1>1, <1>2, <2>1
<1>4. SubSeq(seen, 1, n) = seen  BY <1>1
<1>5. MetIn(c) = {k \in 1 .. n : C(SubSeq(seen, 1, k - 1), seen[k].ip) = c}
  BY DEF MetIn, Context
<1>6. MetIn(c)' =
        {k \in 1 .. Len(seen') : C(SubSeq(seen', 1, k - 1), seen'[k].ip) = c}
  BY <1>1 DEF MetIn, Context
<1>7. Context(seen, br.ip) = C(seen, br.ip)  BY DEF Context
<1> HIDE DEF n, C
<1>8. 1 .. n + 1 = (1 .. n) \cup {n + 1} /\ n + 1 \notin 1 .. n  BY <1>2
<1>9. MetIn(c)' =
        {k \in 1 .. n + 1 : C(SubSeq(seen, 1, k - 1), seen'[k].ip) = c}
  BY <1>2, <1>3, <1>6
<1>10. C(SubSeq(seen, 1, n + 1 - 1), seen'[n + 1].ip) = C(seen, br.ip)
  <2>1. n + 1 - 1 = n  BY <1>2
  <2> QED  BY <1>2, <1>4, <2>1
<1>11. MetIn(c) \in SUBSET (1 .. n)  BY <1>5
<1> QED  BY <1>2, <1>5, <1>7, <1>8, <1>9, <1>10, <1>11 DEF n

-----------------------------------------------------------------------------
(* Counters *)

(* How far counter s is on the side of an outcome: 2 and 3 predict it. *)
Leaning(s, taken) == IF taken THEN s ELSE 3 - s

(* What the latest outcomes at the places T have made of counter s. *)
Trained(s, q, T) ==
  \A taken \in BOOLEAN :
    /\ Outcome(q, T, 0, taken) => Leaning(s, taken) >= 1
    /\ Outcome(q, T, 0, taken) /\ Outcome(q, T, 1, taken)
         => Leaning(s, taken) >= 2
    /\ Outcome(q, T, 0, taken) /\ Outcome(q, T, 1, taken)
         /\ Outcome(q, T, 2, taken) => Leaning(s, taken) = 3
    /\ Outcome(q, T, 0, ~taken) /\ Outcome(q, T, 1, taken)
         /\ Outcome(q, T, 2, taken) /\ Outcome(q, T, 3, taken)
         => Leaning(s, taken) >= 2

LEMMA SwitchLeans ==
  ASSUME NEW s \in 0 .. 3
  PROVE  \A o \in BOOLEAN, taken \in BOOLEAN :
           LET a == Leaning(s, taken)
               b == Leaning(StateSwitch(s, o), taken)
           IN  /\ a \in 0 .. 3 /\ b \in 0 .. 3
               /\ o = taken => b = IF a = 3 THEN 3 ELSE a + 1
               /\ o # taken => b = IF a = 0 THEN 0 ELSE a - 1
<1>1. s \in {0, 1, 2, 3}  OBVIOUS
<1>2. ASSUME NEW o \in BOOLEAN, NEW taken \in BOOLEAN
      PROVE  LET a == Leaning(s, taken)
                 b == Leaning(StateSwitch(s, o), taken)
             IN  /\ a \in 0 .. 3 /\ b \in 0 .. 3
                 /\ o = taken => b = IF a = 3 THEN 3 ELSE a + 1
                 /\ o # taken => b = IF a = 0 THEN 0 ELSE a - 1
  <2> DEFINE a == Leaning(s, taken)
             b == Leaning(StateSwitch(s, o), taken)
  <2>1. CASE taken /\ o
    <3>1. a = s /\ a \in 0 .. 3  BY <1>1, <2>1 DEF Leaning
    <3>2. b = IF a = 3 THEN 3 ELSE a + 1
      BY <1>1, <2>1 DEF StateSwitch, Leaning
    <3>3. o = taken  BY <2>1, Zenon
    <3> HIDE DEF a, b
    <3>4. b \in 0 .. 3  BY <3>1, <3>2
    <3> QED  BY <3>1, <3>2, <3>3, <3>4 DEF a, b
  <2>2. CASE taken /\ ~o
    <3>1. a = s /\ a \in 0 .. 3  BY <1>1, <2>2 DEF Leaning
    <3>2. b = IF a = 0 THEN 0 ELSE a - 1
      BY <1>1, <2>2 DEF StateSwitch, Leaning
    <3>3. o # taken  BY <2>2, Zenon
    <3> HIDE DEF a, b
    <3>4. b \in 0 .. 3  BY <3>1, <3>2
    <3> QED  BY <3>1, <3>2, <3>3, <3>4 DEF a, b
  <2>3. CASE ~taken /\ o
    <3>1. a = 3 - s /\ a \in 0 .. 3  BY <1>1, <2>3 DEF Leaning
    <3>2. b = IF a = 0 THEN 0 ELSE a - 1
      BY <1>1, <2>3 DEF StateSwitch, Leaning
    <3>3. o # taken  BY <2>3, Zenon
    <3> HIDE DEF a, b
    <3>4. b \in 0 .. 3  BY <3>1, <3>2
    <3> QED  BY <3>1, <3>2, <3>3, <3>4 DEF a, b
  <2>4. CASE ~taken /\ ~o
    <3>1. a = 3 - s /\ a \in 0 .. 3  BY <1>1, <2>4 DEF Leaning
    <3>2. b = IF a = 3 THEN 3 ELSE a + 1
      BY <1>1, <2>4 DEF StateSwitch, Leaning
    <3>3. o = taken  BY <2>4, Zenon
    <3> HIDE DEF a, b
    <3>4. b \in 0 .. 3  BY <3>1, <3>2
    <3> QED  BY <3>1, <3>2, <3>3, <3>4 DEF a, b
  <2> QED  BY <2>1, <2>2, <2>3, <2>4
<1> QED  BY <1>2

(* The counter of Counter.cpp moves as the states of state_switch do. *)
LEMMA CounterIsSwitch ==
  ASSUME NEW s \in 0 .. CTR_MAX, NEW taken \in BOOLEAN
  PROVE  s \in 0 .. 3 /\ Counter_update(s, taken) = StateSwitch(s, taken)
<1>1. CTR_MAX = 3  BY DEF CTR_MAX, CTR_BITS
<1>2. s \in {0, 1, 2, 3}  BY <1>1
<1> QED  BY <1>1, <1>2 DEF Counter_update, StateSwitch

LEMMA TrainedNothing ==
  ASSUME NEW s, NEW q
  PROVE  Trained(s, q, {})
BY DEF Trained, Outcome

LEMMA TrainedKept ==
  ASSUME NEW q \in Seq(Branch), NEW br \in Branch,
         NEW T \in SUBSET (1 .. Len(q)), NEW s, Trained(s, q, T)
  PROVE  Trained(s, Append(q, br), T)
<1>1. \A j, taken : Outcome(Append(q, br), T, j, taken)
                      <=> Outcome(q, T, j, taken)
  BY OutcomeKept
<1> QED  BY <1>1 DEF Trained

LEMMA TrainedJoined ==
  ASSUME NEW q \in Seq(Branch), NEW br \in Branch,
         NEW T \in SUBSET (1 .. Len(q)), NEW s \in 0 .. 3, Trained(s, q, T)
  PROVE  Trained(StateSwitch(s, br.is_taken), Append(q, br),
                 T \cup {Len(q) + 1})
<1> DEFINE o == br.is_taken
           p == Append(q, br)
           U == T \cup {Len(q) + 1}
           z == StateSwitch(s, o)
<1>1. o \in BOOLEAN  BY DEF Branch
<1>2. ASSUME NEW t \in BOOLEAN
      PROVE  /\ Outcome(p, U, 0, t) <=> o = t
             /\ Outcome(p, U, 1, t) <=> Outcome(q, T, 0, t)
             /\ Outcome(p, U, 2, t) <=> Outcome(q, T, 1, t)
             /\ Outcome(p, U, 3, t) <=> Outcome(q, T, 2, t)
  <2>1. /\ Outcome(p, U, 0, t) <=> o = t
        /\ \A j \in Nat : Outcome(p, U, j + 1, t) <=> Outcome(q, T, j, t)
    <3>1. Joined(q, br, T)  BY OutcomeJoined
    <3>2. \A x \in BOOLEAN :
            /\ Outcome(p, U, 0, x) <=> o = x
            /\ \A j \in Nat : Outcome(p, U, j + 1, x) <=> Outcome(q, T, j, x)
      BY <3>1, Zenon DEF Joined
    <3> HIDE DEF o, p, U
    <3> QED  BY <3>2, Zenon
  <2> HIDE DEF o, p, U
  <2>2. Outcome(p, U, 0 + 1, t) <=> Outcome(q, T, 0, t)  BY <2>1
  <2>3. Outcome(p, U, 1 + 1, t) <=> Outcome(q, T, 1, t)  BY <2>1
  <2>4. Outcome(p, U, 2 + 1, t) <=> Outcome(q, T, 2, t)  BY <2>1
  <2>5. 0 + 1 = 1 /\ 1 + 1 = 2 /\ 2 + 1 = 3  OBVIOUS
  <2> QED  BY <2>1, <2>2, <2>3, <2>4, <2>5
<1>3. \A x \in BOOLEAN, t \in BOOLEAN :
        LET a == Leaning(s, t)
            b == Leaning(StateSwitch(s, x), t)
        IN  /\ a \in 0 .. 3 /\ b \in 0 .. 3
            /\ x = t => b = IF a = 3 THEN 3 ELSE a + 1
            /\ x # t => b = IF a = 0 THEN 0 ELSE a - 1
  BY SwitchLeans
<1> SUFFICES ASSUME NEW t \in BOOLEAN
             PROVE  /\ Outcome(p, U, 0, t) => Leaning(z, t) >= 1
                    /\ Outcome(p, U, 0, t) /\ Outcome(p, U, 1, t)
                         => Leaning(z, t) >= 2
                    /\ Outcome(p, U, 0, t) /\ Outcome(p, U, 1, t)
                         /\ Outcome(p, U, 2, t) => Leaning(z, t) = 3
                    /\ Outcome(p, U, 0, ~t) /\ Outcome(p, U, 1, t)
                         /\ Outcome(p, U, 2, t) /\ Outcome(p, U, 3, t)
                         => Leaning(z, t) >= 2
  BY DEF Trained
<1> DEFINE a == Leaning(s, t)
           b == Leaning(z, t)
<1>4. /\ a \in 0 .. 3 /\ b \in 0 .. 3
      /\ o = t => b = IF a = 3 THEN 3 ELSE a + 1
      /\ o # t => b = IF a = 0 THEN 0 ELSE a - 1
  BY <1>1, <1>3
<1>5. /\ Outcome(q, T, 0, t) => a >= 1
      /\ Outcome(q, T, 0, t) /\ Outcome(q, T, 1, t) => a >= 2
      /\ Outcome(q, T, 0, t) /\ Outcome(q, T, 1, t) /\ Outcome(q, T, 2, t)
           => a = 3
  BY DEF Trained
<1>6. /\ Outcome(p, U, 0, t) <=> o = t
      /\ Outcome(p, U, 1, t) <=> Outcome(q, T, 0, t)
      /\ Outcome(p, U, 2, t) <=> Outcome(q, T, 1, t)
      /\ Outcome(p, U, 3, t) <=> Outcome(q, T, 2, t)
  BY <1>2
<1>7. Outcome(p, U, 0, ~t) <=> o # t
  <2>1. (~t) \in BOOLEAN  OBVIOUS
  <2>2. Outcome(p, U, 0, ~t) <=> o = (~t)  BY <1>2, <2>1
  <2>3. o = (~t) <=> o # t  BY <1>1, Zenon
  <2> QED  BY <2>2, <2>3
<1> HIDE DEF a, b, o, p, U, z
<1> QED  BY <1>4, <1>5, <1>6, <1>7 DEF a, b

-----------------------------------------------------------------------------
(* Each counter of the predictor has been trained by the branches that met *)
(* its context, and by no other.                                           *)
TrainedInContext ==
  /\ TwoLevel => \A i \in 0 .. HT_MASK :
       Trained(bp.pattern_table[i], seen, MetIn(Bits(i)))
  /\ bp.kind = "TWO_BIT_COUNTER" => Trained(bp.ctr, seen, MetIn(AllSet))

LEMMA TrainedInit == Init => TrainedInContext
<1> SUFFICES ASSUME Init PROVE TrainedInContext  OBVIOUS
<1>1. \A c : MetIn(c) = {}  BY DEF Init, MetIn
<1> QED  BY <1>1, TrainedNothing DEF TrainedInContext

LEMMA TrainedStep ==
  ASSUME TypeOK, Traced, HistoryRegisters, TrainedInContext, [Next]_vars
  PROVE  TrainedInContext'
<1>1. ASSUME NEW br \in Branch, ReadBranch(br) PROVE TrainedInContext'
  <2> DEFINE taken == br.is_taken
  <2>1. /\ bp' = UpdatePredictor(bp, br.ip, taken) /\ bp'.kind = bp.kind
        /\ bp' \in PredictorState /\ seen' = Append(seen, br)
        /\ br.ip \in Nat /\ taken \in BOOLEAN /\ br.ip \in IpSet
    BY <1>1, ReadTrains DEF Branch
  <2>2. bp \in PredictorState /\ seen \in Seq(Branch)  BY DEF TypeOK, Traced
  <2>3. ASSUME TwoLevel, NEW i \in 0 .. HT_MASK
        PROVE  Trained(bp'.pattern_table[i], seen', MetIn(Bits(i))')
    <3> DEFINE e == Entry(bp, br.ip)
               s == bp.pattern_table[i]
               T == MetIn(Bits(i))
    <3>1. e \in 0 .. HT_MASK /\ Context(seen, br.ip) = Bits(e)
      BY <2>1, <2>3, ContextIsEntry
    <3>2. /\ T \in SUBSET (1 .. Len(seen))
          /\ T' = IF Context(seen, br.ip) = Bits(i)
                  THEN T \cup {Len(seen) + 1} ELSE T
      BY <1>1, MetGrows
    <3>3. s \in 0 .. 3  BY <2>2, <2>3, PredictorFields
    <3>4. Trained(s, seen, T)  BY <2>3 DEF TrainedInContext
    <3>5. bp'.pattern_table =
            [bp.pattern_table EXCEPT
               ![e] = StateSwitch(bp.pattern_table[e], taken)]
      <4>1. CASE bp.kind = "YEHPATT"
        <5>1. YehPattTrained(bp', bp, br.ip, taken)
          BY <2>1, <2>2, <4>1, UpdateFields
        <5> QED  BY <4>1, <5>1 DEF YehPattTrained, Entry
      <4>2. CASE bp.kind = "GSHARE"
        <5>1. GshareTrained(bp', bp, br.ip, taken)
          BY <2>1, <2>2, <4>2, UpdateFields
        <5> QED  BY <4>2, <5>1 DEF GshareTrained, Entry
      <4> QED  BY <2>3, <4>1, <4>2 DEF TwoLevel
    <3>6. bp'.pattern_table[i] =
            IF i = e THEN StateSwitch(s, taken) ELSE s
      BY <2>2, <3>5, PredictorFields
    <3> HIDE DEF e, s
    <3>7. CASE i = e
      <4>1. T' = T \cup {Len(seen) + 1}  BY <3>1, <3>2, <3>7
      <4>2. Trained(StateSwitch(s, taken), Append(seen, br),
                    T \cup {Len(seen) + 1})
        BY <2>2, <3>2, <3>3, <3>4, TrainedJoined
      <4> QED  BY <2>1, <3>6, <3>7, <4>1, <4>2
    <3>8. CASE i # e
      <4>1. T' = T  BY <3>1, <3>2, <3>8, SameEntry
      <4>2. Trained(s, Append(seen, br), T)
        BY <2>2, <3>2, <3>4, TrainedKept
      <4> QED  BY <2>1, <3>6, <3>8, <4>1, <4>2
    <3> QED  BY <3>7, <3>8
  <2>4. ASSUME bp.kind = "TWO_BIT_COUNTER"
        PROVE  Trained(bp'.ctr, seen', MetIn(AllSet)')
    <3> DEFINE T == MetIn(AllSet)
    <3>1. Context(seen, br.ip) = AllSet  BY <2>4 DEF Context, AllSet
    <3>2. /\ T \in SUBSET (1 .. Len(seen)) /\ T' = T \cup {Len(seen) + 1}
      BY <1>1, <3>1, MetGrows
    <3>3. CounterTrained(bp', bp, taken)  BY <2>1, <2>2, <2>4, UpdateFields
    <3>4. bp.ctr \in 0 .. CTR_MAX  BY <2>2, PredictorFields
    <3>5. bp.ctr \in 0 .. 3 /\ bp'.ctr = StateSwitch(bp.ctr, taken)
      BY <2>1, <3>3, <3>4, CounterIsSwitch DEF CounterTrained
    <3>6. Trained(bp.ctr, seen, T)  BY <2>4 DEF TrainedInContext
    <3>7. Trained(StateSwitch(bp.ctr, taken), Append(seen, br),
                  T \cup {Len(seen) + 1})
      BY <2>2, <3>2, <3>5, <3>6, TrainedJoined
    <3> QED  BY <2>1, <3>2, <3>5, <3>7
  <2> QED  BY <2>1, <2>3, <2>4 DEF TrainedInContext, TwoLevel
<1>2. ASSUME bp' = bp, seen' = seen PROVE TrainedInContext'
  <2>1. \A c : MetIn(c)' = MetIn(c)  BY <1>2 DEF MetIn, Context
  <2> QED  BY <1>2, <2>1 DEF TrainedInContext, TwoLevel
<1>3. CASE ReadOther  BY <1>2, <1>3 DEF ReadOther
<1>4. CASE UNCHANGED vars  BY <1>2, <1>4 DEF vars
<1> QED  BY <1>1, <1>3, <1>4 DEF Next

LEMMA TrainedInvariant ==
  Spec => [](TypeOK /\ HistoryRegisters /\ TrainedInContext)
<1>1. Init => TrainedInContext  BY TrainedInit
<1>2. TypeOK /\ Traced /\ HistoryRegisters /\ TrainedInContext /\ [Next]_vars
        => TrainedInContext'
  BY TrainedStep
<1> QED
  BY <1>1, <1>2, BranchTypeCorrect, HistoryRegistersHolds, PTL DEF Spec

(* The counter that predicts a branch is the one its context trained. *)
LEMMA PredictorTrained ==
  ASSUME TypeOK, HistoryRegisters, TrainedInContext, NEW ip \in IpSet,
         bp.kind # "ALWAYS_TAKEN"
  PROVE  \E s \in 0 .. 3 :
           /\ Trained(s, seen, MetIn(Context(seen, ip)))
           /\ \A taken \in BOOLEAN :
                Leaning(s, taken) >= 2 => Predict(bp, ip) = taken
<1>1. bp \in PredictorState  BY DEF TypeOK
<1>2. ASSUME NEW s \in 0 .. 3, Predict(bp, ip) = (s >= 2)
      PROVE  \A taken \in BOOLEAN :
               Leaning(s, taken) >= 2 => Predict(bp, ip) = taken
  <2> SUFFICES ASSUME NEW taken \in BOOLEAN, Leaning(s, taken) >= 2
               PROVE  Predict(bp, ip) = taken
    OBVIOUS
  <2>1. CASE taken
    <3>1. s >= 2  BY <2>1 DEF Leaning
    <3> QED  BY <1>2, <2>1, <3>1
  <2>2. CASE ~taken
    <3>1. ~(s >= 2)  BY <2>2 DEF Leaning
    <3> QED  BY <1>2, <2>2, <3>1
  <2> QED  BY <2>1, <2>2
<1>3. CASE TwoLevel
  <2> DEFINE e == Entry(bp, ip)
             s == bp.pattern_table[e]
  <2>1. e \in 0 .. HT_MASK /\ Context(seen, ip) = Bits(e)
    BY <1>3, ContextIsEntry
  <2>2. s \in 0 .. 3  BY <1>1, <2>1, PredictorFields
  <2>3. Trained(s, seen, MetIn(Context(seen, ip)))
    BY <1>3, <2>1 DEF TrainedInContext
  <2>4. Predict(bp, ip) = (s >= 2)
    BY <1>3 DEF TwoLevel, Predict, Entry
  <2> HIDE DEF e, s
  <2> QED  BY <1>2, <2>2, <2>3, <2>4
<1>4. CASE bp.kind = "TWO_BIT_COUNTER"
  <2>1. CTR_MAX = 3 /\ 2 ^ (CTR_BITS - 1) = 2  BY DEF CTR_MAX, CTR_BITS
  <2>2. bp.ctr \in 0 .. 3  BY <1>1, <2>1, PredictorFields
  <2>3. Context(seen, ip) = AllSet  BY <1>4 DEF Context, AllSet
  <2>4. Trained(bp.ctr, seen, MetIn(Context(seen, ip)))
    BY <1>4, <2>3 DEF TrainedInContext
  <2>5. Predict(bp, ip) = (bp.ctr >= 2)  BY <1>4, <2>1 DEF Predict
  <2> QED  BY <1>2, <2>2, <2>4, <2>5
<1> QED
  BY <1>1, <1>3, <1>4, PredictorFields DEF TwoLevel, PredictorKind

(* Two equal outcomes in a row in one context are predicted to go on, for  *)
(* every trace and every size of the tables: the counter that is trained   *)
(* is the one that predicted, although the history moves in between        *)
(* (yeh_patt_update_predictor, gshare_update_predictor, Counter_update).   *)
THEOREM LearnsHolds == Spec => []Learns
<1>1. ASSUME TypeOK, HistoryRegisters, TrainedInContext PROVE Learns
  <2> SUFFICES ASSUME bp.kind # "ALWAYS_TAKEN", NEW ip \in IpSet,
                      NEW taken \in BOOLEAN,
                      \A j \in 0 .. 1 :
                        Outcome(seen, MetIn(Context(seen, ip)), j, taken)
               PROVE  Predict(bp, ip) = taken
    BY DEF Learns
  <2> DEFINE T == MetIn(Context(seen, ip))
  <2>1. PICK s \in 0 .. 3 :
          /\ Trained(s, seen, T)
          /\ \A t \in BOOLEAN : Leaning(s, t) >= 2 => Predict(bp, ip) = t
    BY <1>1, PredictorTrained
  <2>2. Outcome(seen, T, 0, taken) /\ Outcome(seen, T, 1, taken)  OBVIOUS
  <2> HIDE DEF T
  <2>3. Leaning(s, taken) >= 2  BY <2>1, <2>2 DEF Trained
  <2> QED  BY <2>1, <2>3
<1> QED  BY <1>1, TrainedInvariant, PTL

(* One deviation after three equal outcomes does not turn the prediction   *)
(* (state_switch, Counter_update).                                         *)
THEOREM HysteresisHolds == Spec => []Hysteresis
<1>1. ASSUME TypeOK, HistoryRegisters, TrainedInContext PROVE Hysteresis
  <2> SUFFICES ASSUME bp.kind # "ALWAYS_TAKEN", NEW ip \in IpSet,
                      NEW taken \in BOOLEAN,
                      Outcome(seen, MetIn(Context(seen, ip)), 0, ~taken),
                      \A j \in 1 .. 3 :
                        Outcome(seen, MetIn(Context(seen, ip)), j, taken)
               PROVE  Predict(bp, ip) = taken
    BY DEF Hysteresis
  <2> DEFINE T == MetIn(Context(seen, ip))
  <2>1. PICK s \in 0 .. 3 :
          /\ Trained(s, seen, T)
          /\ \A t \in BOOLEAN : Leaning(s, t) >= 2 => Predict(bp, ip) = t
    BY <1>1, PredictorTrained
  <2>2. /\ Outcome(seen, T, 0, ~taken) /\ Outcome(seen, T, 1, taken)
        /\ Outcome(seen, T, 2, taken) /\ Outcome(seen, T, 3, taken)
    OBVIOUS
  <2> HIDE DEF T
  <2>3. Leaning(s, taken) >= 2  BY <2>1, <2>2 DEF Trained
  <2> QED  BY <2>1, <2>3
<1> QED  BY <1>1, TrainedInvariant, PTL
=============================================================================
