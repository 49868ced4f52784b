-------------------------- MODULE ProcsimUnitProofs --------------------------
(***************************************************************************)
(* The function units and the control of Procsim, for every trace, every   *)
(* number of units and every latency: no latency is overrun, an instruction *)
(* fires once and is found in one place until its result is broadcast, the *)
(* driver's miss flags are about the next instruction, a mispredicted branch *)
(* leaves an empty machine, older instructions fire first, and with one    *)
(* unit of each kind the watchdog of the driver never ends a run.          *)
(***************************************************************************)
EXTENDS ProcsimDataProofs, FiniteSetTheorems

-----------------------------------------------------------------------------
(* Counting occurrences *)

Spots(q, id) == {k \in 1 .. Len(q) : q[k].inst = id}
AsNumber(condition) == IF condition THEN 1 ELSE 0
Put(fu, u, e) == [fu EXCEPT ![u] = e]

LEMMA SpotsFinite ==
  ASSUME NEW q, NEW id, Len(q) \in Nat
  PROVE  /\ IsFiniteSet(Spots(q, id))
         /\ Occurrences(q, id) = Cardinality(Spots(q, id))
         /\ Occurrences(q, id) \in Nat
         /\ Occurrences(q, id) > 0 <=> Holds(q, id)
<1>1. IsFiniteSet(Spots(q, id))
  <2>1. IsFiniteSet(1 .. Len(q))  BY FS_Interval
  <2>2. Spots(q, id) \in SUBSET (1 .. Len(q))  BY DEF Spots
  <2> QED  BY <2>1, <2>2, FS_Subset
<1>2. Occurrences(q, id) = Cardinality(Spots(q, id))
  BY DEF Occurrences, Spots
<1>3. Cardinality(Spots(q, id)) \in Nat  BY <1>1, FS_CardinalityType
<1>4. Cardinality(Spots(q, id)) = 0 <=> Spots(q, id) = {}
  BY <1>1, FS_EmptySet
<1>5. Spots(q, id) = {} <=> ~Holds(q, id)  BY DEF Spots, Holds
<1> QED  BY <1>1, <1>2, <1>3, <1>4, <1>5

LEMMA OccSame ==
  ASSUME NEW q, NEW r, NEW id, Len(q) = Len(r),
         \A k \in 1 .. Len(q) : q[k].inst = r[k].inst
  PROVE  Occurrences(q, id) = Occurrences(r, id)
<1>1. Spots(q, id) = Spots(r, id)  BY DEF Spots
<1> QED  BY <1>1 DEF Occurrences, Spots

LEMMA OccExcept ==
  ASSUME NEW q \in Seq(FuEntry), NEW k \in 1 .. Len(q), NEW e \in FuEntry,
         NEW id
  PROVE  Occurrences(Put(q, k, e), id)
           = Occurrences(q, id) - AsNumber(q[k].inst = id) + AsNumber(e.inst = id)
<1> DEFINE r == Put(q, k, e)
           T == Spots(q, id) \ {k}
<1>1. /\ r \in Seq(FuEntry) /\ Len(r) = Len(q) /\ Len(q) \in Nat
      /\ \A j \in 1 .. Len(q) : r[j] = IF j = k THEN e ELSE q[j]
  BY ExceptType, LenProperties DEF Put
<1>2. IsFiniteSet(T)
      /\ Cardinality(T) = Occurrences(q, id) - AsNumber(q[k].inst = id)
  <2>1. k \in Spots(q, id) <=> q[k].inst = id  BY DEF Spots
  <2> QED  BY <1>1, <2>1, SpotsFinite, FS_RemoveElement DEF AsNumber
<1>3. Spots(r, id) = IF e.inst = id THEN T \cup {k} ELSE T
  <2> HIDE DEF r
  <2> QED  BY <1>1 DEF Spots
<1>4. k \notin T  OBVIOUS
<1>5. Cardinality(Spots(r, id)) = Cardinality(T) + AsNumber(e.inst = id)
  <2>1. Cardinality(T) \in Nat  BY <1>2, FS_CardinalityType
  <2>2. Cardinality(T \cup {k}) = Cardinality(T) + 1
    BY <1>2, <1>4, FS_AddElement
  <2> HIDE DEF T, r
  <2> QED  BY <1>3, <2>1, <2>2 DEF AsNumber
<1>6. Occurrences(r, id) = Cardinality(Spots(r, id))
  BY DEF Occurrences, Spots
<1> QED  BY <1>2, <1>5, <1>6

LEMMA OccAppend ==
  ASSUME NEW q \in Seq(FuEntry), NEW e \in FuEntry, NEW id
  PROVE  Occurrences(Append(q, e), id) = Occurrences(q, id) + AsNumber(e.inst = id)
<1> DEFINE r == Append(q, e)
           T == Spots(q, id)
<1>1. /\ Len(r) = Len(q) + 1 /\ Len(q) \in Nat
      /\ \A j \in 1 .. Len(q) : r[j] = q[j]
      /\ r[Len(q) + 1] = e
  BY AppendProperties, LenProperties
<1> HIDE DEF r
<1>2. Spots(r, id) = IF e.inst = id THEN T \cup {Len(q) + 1} ELSE T
  BY <1>1 DEF Spots
<1>3. Len(q) + 1 \notin T  BY <1>1 DEF Spots
<1>4. IsFiniteSet(T) /\ Cardinality(T) = Occurrences(q, id)
      /\ Cardinality(T) \in Nat
  BY <1>1, SpotsFinite
<1>5. Cardinality(T \cup {Len(q) + 1}) = Cardinality(T) + 1
  BY <1>3, <1>4, FS_AddElement
<1>6. Occurrences(r, id) = Cardinality(Spots(r, id))
  BY DEF Occurrences, Spots
<1> HIDE DEF T
<1>7. Occurrences(r, id) = Occurrences(q, id) + AsNumber(e.inst = id)
  BY <1>2, <1>4, <1>5, <1>6 DEF AsNumber
<1> QED  BY <1>7 DEF r

LEMMA Shifted ==
  ASSUME NEW S \in SUBSET Int, IsFiniteSet(S), NEW d \in Int
  PROVE  /\ IsFiniteSet({k + d : k \in S})
         /\ Cardinality({k + d : k \in S}) = Cardinality(S)
<1> DEFINE T == {k + d : k \in S}
           f == [k \in S |-> k + d]
<1>1. f \in [S -> T] /\ \A t \in T : \E k \in S : f[k] = t  OBVIOUS
<1>2. \A j, k \in S : f[j] = f[k] => j = k  OBVIOUS
<1>3. f \in Bijection(S, T)
  BY <1>1, <1>2 DEF Bijection, Injection, Surjection, IsInjective
<1>4. ExistsBijection(S, T)  BY <1>3 DEF ExistsBijection
<1> QED  BY <1>4, FS_Bijection

LEMMA OccConcat ==
  ASSUME NEW s \in Seq(FuEntry), NEW t \in Seq(FuEntry), NEW id
  PROVE  Occurrences(s \o t, id) = Occurrences(s, id) + Occurrences(t, id)
<1> DEFINE r == s \o t
           S == Spots(s, id)
           T == {k + Len(s) : k \in Spots(t, id)}
<1>1. /\ Len(r) = Len(s) + Len(t) /\ Len(s) \in Nat /\ Len(t) \in Nat
      /\ \A j \in 1 .. Len(s) + Len(t) :
           r[j] = IF j <= Len(s) THEN s[j] ELSE t[j - Len(s)]
  BY ConcatProperties, LenProperties
<1> HIDE DEF r
<1>2. Spots(r, id) = S \cup T
  <2>1. ASSUME NEW j \in Spots(r, id) PROVE j \in S \cup T
    <3>1. j \in 1 .. Len(s) + Len(t) /\ r[j].inst = id  BY <1>1 DEF Spots
    <3>2. CASE j <= Len(s)  BY <1>1, <3>1, <3>2 DEF Spots
    <3>3. CASE ~(j <= Len(s))
      <4>1. j - Len(s) \in 1 .. Len(t) /\ t[j - Len(s)].inst = id
            /\ j = (j - Len(s)) + Len(s)
        BY <1>1, <3>1, <3>3
      <4> QED  BY <4>1 DEF Spots
    <3> QED  BY <3>2, <3>3
  <2>2. ASSUME NEW j \in S PROVE j \in Spots(r, id)  BY <1>1 DEF Spots
  <2>3. ASSUME NEW k \in Spots(t, id) PROVE k + Len(s) \in Spots(r, id)
    <3>1. k \in 1 .. Len(t) /\ t[k].inst = id  BY DEF Spots
    <3>2. k + Len(s) \in 1 .. Len(s) + Len(t) /\ ~(k + Len(s) <= Len(s))
          /\ (k + Len(s)) - Len(s) = k
      BY <1>1, <3>1
    <3>3. r[k + Len(s)] = t[k]  BY <1>1, <3>2
    <3> QED  BY <1>1, <3>1, <3>2, <3>3 DEF Spots
  <2> QED  BY <2>1, <2>2, <2>3
<1>3. S \cap T = {}  BY <1>1 DEF Spots
<1>4. /\ IsFiniteSet(S) /\ Cardinality(S) = Occurrences(s, id)
      /\ IsFiniteSet(Spots(t, id))
      /\ Cardinality(Spots(t, id)) = Occurrences(t, id)
      /\ Cardinality(S) \in Nat
  BY <1>1, SpotsFinite
<1>5. IsFiniteSet(T) /\ Cardinality(T) = Occurrences(t, id)
  <2>1. Spots(t, id) \in SUBSET Int /\ Len(s) \in Int  BY <1>1 DEF Spots
  <2> DEFINE P == Spots(t, id)
  <2>2. P \in SUBSET Int /\ IsFiniteSet(P)  BY <1>4, <2>1
  <2> HIDE DEF P
  <2>3. /\ IsFiniteSet({k + Len(s) : k \in P})
        /\ Cardinality({k + Len(s) : k \in P}) = Cardinality(P)
    BY <2>1, <2>2, Shifted
  <2> QED  BY <1>4, <2>3 DEF P
<1>6. Cardinality(T) \in Nat  BY <1>5, FS_CardinalityType
<1>7. Occurrences(r, id) = Cardinality(S \cup T)
  BY <1>2 DEF Occurrences, Spots
<1> HIDE DEF S, T
<1>8. Cardinality(S \cup T) = Cardinality(S) + Cardinality(T) - 0
  <2>1. Cardinality(S \cap T) = 0  BY <1>3, FS_EmptySet
  <2> QED  BY <1>4, <1>5, <2>1, FS_Union
<1>9. Occurrences(r, id) = Occurrences(s, id) + Occurrences(t, id)
  BY <1>4, <1>5, <1>6, <1>7, <1>8
<1> QED  BY <1>9 DEF r

LEMMA OccTail ==
  ASSUME NEW q \in Seq(FuEntry), q # <<>>, NEW id
  PROVE  Occurrences(q, id) = AsNumber(Head(q).inst = id) + Occurrences(Tail(q), id)
<1>1. /\ Head(q) \in FuEntry /\ Tail(q) \in Seq(FuEntry)
      /\ Head(q) = q[1] /\ Len(Tail(q)) = Len(q) - 1
      /\ \A k \in 1 .. Len(Tail(q)) : Tail(q)[k] = q[k + 1]
      /\ Len(q) \in Nat \ {0}
  BY HeadTailProperties, LenProperties, EmptySeq
<1> DEFINE R == Spots(Tail(q), id)
           T == {k + 1 : k \in R}
<1>2. Spots(q, id) = IF Head(q).inst = id THEN T \cup {1} ELSE T
  <2>1. ASSUME NEW k \in Spots(q, id), k # 1 PROVE k \in T
    <3>1. k - 1 \in 1 .. Len(Tail(q)) /\ k = (k - 1) + 1 /\ q[k].inst = id
      BY <1>1, <2>1 DEF Spots
    <3> QED  BY <1>1, <3>1 DEF Spots
  <2>2. ASSUME NEW k \in R PROVE k + 1 \in Spots(q, id)
    <3>1. k + 1 \in 1 .. Len(q) /\ q[k + 1].inst = id  BY <1>1 DEF Spots
    <3> QED  BY <3>1 DEF Spots
  <2>3. 1 \in Spots(q, id) <=> Head(q).inst = id  BY <1>1 DEF Spots
  <2>4. T \subseteq Spots(q, id) /\ Spots(q, id) \subseteq T \cup {1}
    BY <2>1, <2>2
  <2>5. 1 \notin T  BY DEF Spots
  <2> HIDE DEF T, R
  <2>6. CASE Head(q).inst = id
    <3>1. 1 \in Spots(q, id)  BY <2>3, <2>6
    <3>2. Spots(q, id) = T \cup {1}  BY <2>4, <3>1
    <3> QED  BY <2>6, <3>2
  <2>7. CASE Head(q).inst # id
    <3>1. 1 \notin Spots(q, id)  BY <2>3, <2>7
    <3>2. Spots(q, id) = T  BY <2>4, <3>1
    <3> QED  BY <2>7, <3>2
  <2> QED  BY <2>6, <2>7
<1>3. 1 \notin T  BY DEF Spots
<1>4. /\ R \in SUBSET Int /\ IsFiniteSet(R)
      /\ Cardinality(R) = Occurrences(Tail(q), id)
  <2>1. Len(Tail(q)) \in Nat  BY <1>1
  <2>2. R \in SUBSET Int  BY DEF Spots
  <2> QED  BY <2>1, <2>2, SpotsFinite
<1> HIDE DEF R
<1>5. IsFiniteSet(T) /\ Cardinality(T) = Occurrences(Tail(q), id)
  <2>1. 1 \in Int  OBVIOUS
  <2>2. /\ IsFiniteSet({k + 1 : k \in R})
        /\ Cardinality({k + 1 : k \in R}) = Cardinality(R)
    BY <1>4, <2>1, Shifted
  <2> QED  BY <1>4, <2>2
<1>6. Cardinality(T) \in Nat /\ Cardinality(T \cup {1}) = Cardinality(T) + 1
  BY <1>3, <1>5, FS_AddElement, FS_CardinalityType
<1>7. Occurrences(q, id) = Cardinality(Spots(q, id))
  BY DEF Occurrences, Spots
<1> HIDE DEF T
<1> QED  BY <1>2, <1>5, <1>6, <1>7 DEF AsNumber

(* Cutting a pipeline in two loses nothing. *)
LEMMA OccCut ==
  ASSUME NEW q \in Seq(FuEntry), NEW p \in 0 .. Len(q), NEW id
  PROVE  /\ SubSeq(q, 1, p) \in Seq(FuEntry)
         /\ SubSeq(q, p + 1, Len(q)) \in Seq(FuEntry)
         /\ Len(SubSeq(q, 1, p)) = p
         /\ Len(SubSeq(q, p + 1, Len(q))) = Len(q) - p
         /\ \A k \in 1 .. Len(q) - p : SubSeq(q, p + 1, Len(q))[k] = q[p + k]
         /\ Occurrences(q, id) = Occurrences(SubSeq(q, 1, p), id)
                                  + Occurrences(SubSeq(q, p + 1, Len(q)), id)
<1> DEFINE front == SubSeq(q, 1, p)
           back  == SubSeq(q, p + 1, Len(q))
<1>1. /\ Len(q) \in Nat /\ p \in Nat /\ p <= Len(q)
      /\ \A k \in 1 .. Len(q) : q[k] \in FuEntry
  BY LenProperties, ElementOfSeq
<1>2. front \in Seq(FuEntry) /\ Len(front) = p
      /\ \A k \in 1 .. p : front[k] = q[k]
  <2>1. \A k \in 1 .. p : q[k] \in FuEntry  BY <1>1
  <2>2. 1 \in Int /\ p \in Int /\ (IF 1 <= p THEN p - 1 + 1 ELSE 0) = p
        /\ \A k \in 1 .. p : 1 + k - 1 = k
    BY <1>1
  <2> QED  BY <2>1, <2>2, SubSeqProperties
<1>3. back \in Seq(FuEntry) /\ Len(back) = Len(q) - p
      /\ \A k \in 1 .. Len(q) - p : back[k] = q[p + k]
  <2>1. \A k \in p + 1 .. Len(q) : q[k] \in FuEntry  BY <1>1
  <2>2. p + 1 \in Int /\ Len(q) \in Int
        /\ (IF p + 1 <= Len(q) THEN Len(q) - (p + 1) + 1 ELSE 0) = Len(q) - p
        /\ \A k \in 1 .. Len(q) - p : (p + 1) + k - 1 = p + k
    BY <1>1
  <2> QED  BY <2>1, <2>2, SubSeqProperties
<1> HIDE DEF front, back
<1>4. /\ Len(front \o back) = Len(q)
      /\ \A k \in 1 .. Len(q) : (front \o back)[k] = q[k]
  <2>1. /\ Len(front \o back) = Len(front) + Len(back)
        /\ \A k \in 1 .. Len(front) + Len(back) : (front \o back)[k] =
             IF k <= Len(front) THEN front[k] ELSE back[k - Len(front)]
    BY <1>2, <1>3, ConcatProperties
  <2>2. Len(front) + Len(back) = Len(q)  BY <1>1, <1>2, <1>3
  <2>3. \A k \in 1 .. Len(q) : ~(k <= p) => k - p \in 1 .. Len(q) - p
                                            /\ p + (k - p) = k
    BY <1>1
  <2>4. ASSUME NEW k \in 1 .. Len(q) PROVE (front \o back)[k] = q[k]
    <3>1. CASE k <= p
      <4>1. k \in 1 .. p  BY <1>1, <3>1
      <4> QED  BY <1>2, <2>1, <2>2, <3>1, <4>1
    <3>2. CASE ~(k <= p)  BY <1>2, <1>3, <2>1, <2>2, <2>3, <3>2
    <3> QED  BY <3>1, <3>2
  <2> QED  BY <2>1, <2>2, <2>4
<1>5. Occurrences(q, id) = Occurrences(front \o back, id)
  BY <1>4, OccSame
<1>6. Occurrences(front \o back, id)
        = Occurrences(front, id) + Occurrences(back, id)
  BY <1>2, <1>3, OccConcat
<1> QED  BY <1>2, <1>3, <1>5, <1>6 DEF front, back

(* The places of an instruction in the MUL pipelines: those in one of them *)
(* and those in the others.                                                *)
MulSpots(m, id) ==
  UNION {{u} \X {k \in 1 .. Len(m[u]) : m[u][k].inst = id} : u \in 1 .. MUL_NUM}

LEMMA MulExcept ==
  ASSUME NEW m \in [1 .. MUL_NUM -> Seq(FuEntry)], NEW u \in 1 .. MUL_NUM,
         NEW s \in Seq(FuEntry), NEW id
  PROVE  /\ IsFiniteSet(MulSpots(m, id))
         /\ Cardinality(MulSpots(m, id)) \in Nat
         /\ Cardinality(MulSpots(Put(m, u, s), id))
              = Cardinality(MulSpots(m, id)) - Occurrences(m[u], id)
                  + Occurrences(s, id)
<1> DEFINE One_u(q)  == {u} \X Spots(q, id)
           rest(n) == UNION {{v} \X Spots(n[v], id) : v \in (1 .. MUL_NUM) \ {u}}
           r == Put(m, u, s)
<1>1. ASSUME NEW n \in [1 .. MUL_NUM -> Seq(FuEntry)]
      PROVE  /\ IsFiniteSet(rest(n)) /\ MulSpots(n, id) = One_u(n[u]) \cup rest(n)
             /\ IsFiniteSet(MulSpots(n, id))
             /\ Cardinality(MulSpots(n, id))
                  = Occurrences(n[u], id) + Cardinality(rest(n))
  <2>1. MulSpots(n, id) = One_u(n[u]) \cup rest(n)  BY DEF MulSpots, Spots
  <2>2. One_u(n[u]) \cap rest(n) = {}  OBVIOUS
  <2>3. \A v \in 1 .. MUL_NUM : Len(n[v]) \in Nat  BY LenProperties
  <2>4. \A v \in 1 .. MUL_NUM : /\ IsFiniteSet({v} \X Spots(n[v], id))
                               /\ Cardinality({v} \X Spots(n[v], id))
                                    = Occurrences(n[v], id)
    <3> SUFFICES ASSUME NEW v \in 1 .. MUL_NUM
                 PROVE  /\ IsFiniteSet({v} \X Spots(n[v], id))
                        /\ Cardinality({v} \X Spots(n[v], id))
                             = Occurrences(n[v], id)
      OBVIOUS
    <3>1. IsFiniteSet({v}) /\ Cardinality({v}) = 1  BY FS_Singleton
    <3>2. /\ IsFiniteSet(Spots(n[v], id))
          /\ Cardinality(Spots(n[v], id)) = Occurrences(n[v], id)
          /\ Occurrences(n[v], id) \in Nat
      BY <2>3, SpotsFinite
    <3> DEFINE P == Spots(n[v], id)
    <3>3. /\ IsFiniteSet({v} \X P)
          /\ Cardinality({v} \X P) = Cardinality({v}) * Cardinality(P)
      BY <3>1, <3>2, FS_Product
    <3>4. Cardinality({v} \X P) = 1 * Occurrences(n[v], id)
      BY <3>1, <3>2, <3>3
    <3> HIDE DEF P
    <3>5. Cardinality({v} \X P) = Occurrences(n[v], id)  BY <3>2, <3>4
    <3> QED  BY <3>3, <3>5 DEF P
  <2>5. IsFiniteSet(rest(n))
    <3> DEFINE F == {{v} \X Spots(n[v], id) : v \in (1 .. MUL_NUM) \ {u}}
               G == (1 .. MUL_NUM) \ {u}
               f == [v \in G |-> {v} \X Spots(n[v], id)]
    <3>1. IsFiniteSet(G)
      <4>1. IsFiniteSet(1 .. MUL_NUM)  BY SizeAssumption, FS_Interval
      <4> QED  BY <4>1, FS_Difference
    <3>2. f \in Surjection(G, F)  BY DEF Surjection
    <3>3. IsFiniteSet(F)
      <4> HIDE DEF F, G, f
      <4> QED  BY <3>1, <3>2, FS_Surjection
    <3>4. \A T \in F : IsFiniteSet(T)  BY <2>4
    <3> HIDE DEF F
    <3>5. IsFiniteSet(UNION F)  BY <3>3, <3>4, FS_UNION
    <3> QED  BY <3>5 DEF F
  <2> HIDE DEF rest, One_u
  <2>6. IsFiniteSet(One_u(n[u])) /\ Cardinality(One_u(n[u])) = Occurrences(n[u], id)
    BY <2>4 DEF One_u
  <2>7. /\ IsFiniteSet(One_u(n[u]) \cup rest(n))
        /\ Cardinality(One_u(n[u]) \cup rest(n))
             = Cardinality(One_u(n[u])) + Cardinality(rest(n)) - 0
    <3>1. Cardinality(One_u(n[u]) \cap rest(n)) = 0  BY <2>2, FS_EmptySet
    <3> QED  BY <2>5, <2>6, <3>1, FS_Union
  <2>8. Cardinality(rest(n)) \in Nat /\ Occurrences(n[u], id) \in Nat
    BY <2>3, <2>5, SpotsFinite, FS_CardinalityType
  <2> QED  BY <2>1, <2>5, <2>6, <2>7, <2>8
<1>2. r \in [1 .. MUL_NUM -> Seq(FuEntry)] /\ r[u] = s
      /\ \A v \in (1 .. MUL_NUM) \ {u} : r[v] = m[v]
  BY DEF Put
<1>3. rest(r) = rest(m)  BY <1>2
<1>4. /\ Occurrences(m[u], id) \in Nat /\ Occurrences(s, id) \in Nat
      /\ Cardinality(MulSpots(m, id)) \in Nat /\ Cardinality(rest(m)) \in Nat
  BY <1>1, SpotsFinite, LenProperties, FS_CardinalityType
<1> HIDE DEF r, rest, One_u
<1>5. Cardinality(MulSpots(r, id))
        = Cardinality(MulSpots(m, id)) - Occurrences(m[u], id)
            + Occurrences(s, id)
  <2>1. Cardinality(MulSpots(m, id))
          = Occurrences(m[u], id) + Cardinality(rest(m))
    BY <1>1
  <2>2. Cardinality(MulSpots(r, id))
          = Occurrences(r[u], id) + Cardinality(rest(r))
    BY <1>1, <1>2
  <2> QED  BY <1>2, <1>3, <1>4, <2>1, <2>2
<1>6. IsFiniteSet(MulSpots(m, id))  BY <1>1
<1> QED  BY <1>4, <1>5, <1>6 DEF r

-----------------------------------------------------------------------------
(* Latencies *)

(* When the schedule loop feeds a MUL unit, everything in it has been there *)
(* for a cycle: the units were aged in this cycle's exec, and a unit that   *)
(* has been fed since is not fed again.                                     *)
MulMustAge(u) ==
  \/ stage = "mul" /\ u < i
  \/ stage \in {"lsu", "result_bus"}
  \/ stage = "schedule" /\ u > mul_current

MulAged ==
  \A u \in 1 .. MUL_NUM : MulMustAge(u) =>
    \A k \in 1 .. Len(mul[u]) : mul[u][k].fu_count >= 1

LatencyInv == CountsBelowLatency /\ MulAged

LEMMA LatencyPositive ==
  ASSUME TypeOK, NEW id \in 1 .. N
  PROVE  CyclesNeeded(id) \in Nat \ {0}
<1>1. insts[id] \in Inst  BY DEF TypeOK, TraceTypeOK
<1>2. insts[id].dcache \in Latency  BY <1>1 DEF Inst
<1>3. LatencyCycles(insts[id].dcache) \in Nat \ {0}
  BY <1>2, LatencyAssumption DEF LatencyCycles, Latency
<1> QED  BY <1>3 DEF CyclesNeeded

LEMMA UnitTypes ==
  ASSUME TypeOK
  PROVE  /\ alu \in [1 .. ALU_NUM -> FuEntry] /\ lsu \in [1 .. LSU_NUM -> FuEntry]
         /\ mul \in [1 .. MUL_NUM -> Seq(FuEntry)]
         /\ complete_vec \in Seq(FuEntry) /\ Len(complete_vec) \in Nat
         /\ \A u \in 1 .. MUL_NUM : Len(mul[u]) \in Nat /\
               \A k \in 1 .. Len(mul[u]) : mul[u][k] \in FuEntry
         /\ alu_current \in Int /\ lsu_current \in Int /\ mul_current \in Nat
         /\ mul_current <= MUL_NUM
         /\ ALU_NUM \in Nat /\ MUL_NUM \in Nat /\ LSU_NUM \in Nat /\ i \in Nat \ {0}
<1>1. /\ alu \in [1 .. ALU_NUM -> FuEntry] /\ lsu \in [1 .. LSU_NUM -> FuEntry]
      /\ mul \in [1 .. MUL_NUM -> Seq(FuEntry)]
      /\ complete_vec \in Seq(FuEntry)
      /\ alu_current \in Int /\ lsu_current \in Int
      /\ mul_current \in 0 .. MUL_NUM /\ i \in Nat \ {0}
  BY DEF TypeOK, UnitTypeOK, QueueTypeOK, LoopTypeOK
<1>2. \A u \in 1 .. MUL_NUM : Len(mul[u]) \in Nat /\
        \A k \in 1 .. Len(mul[u]) : mul[u][k] \in FuEntry
  BY <1>1, LenProperties, ElementOfSeq
<1>3. Len(complete_vec) \in Nat  BY <1>1, LenProperties
<1> QED  BY <1>1, <1>2, <1>3, SizeAssumption

LEMMA MaskUnits ==
  /\ MUL_MASK_UNITS \in 0 .. 31 /\ MUL_MASK_UNITS <= MUL_NUM
  /\ MUL_NUM \in 0 .. 31 => MUL_MASK_UNITS = MUL_NUM
<1>1. MUL_NUM \in Nat  BY SizeAssumption
<1>2. \A n \in Nat : /\ n % 32 \in 0 .. 31 /\ n % 32 <= n
                     /\ n \in 0 .. 31 => n % 32 = n
  OBVIOUS
<1> QED  BY <1>1, <1>2 DEF MUL_MASK_UNITS

LEMMA AgedFields ==
  ASSUME NEW e \in FuEntry
  PROVE  /\ Aged(e) \in FuEntry /\ Aged(e).inst = e.inst
         /\ Aged(e).fu_count = e.fu_count + 1 /\ e.fu_count \in Nat
         /\ e.inst \in 0 .. N
BY DEF Aged, FuEntry

LEMMA LatencyInit == Init => LatencyInv
<1> SUFFICES ASSUME Init PROVE LatencyInv  OBVIOUS
<1>1. /\ \A u \in 1 .. ALU_NUM : ~Busy(alu[u])
      /\ \A u \in 1 .. LSU_NUM : ~Busy(lsu[u])
  BY DEF Init, Busy, Free
<1>2. \A u \in 1 .. MUL_NUM : Len(mul[u]) = 0  BY EmptySeq DEF Init
<1> QED  BY <1>1, <1>2 DEF LatencyInv, CountsBelowLatency, MulAged

LEMMA LatencyAlu ==
  ASSUME TypeOK, LatencyInv, AluCheck
  PROVE  LatencyInv'
<1>1. i \in 1 .. ALU_NUM  BY UnitTypes DEF AluCheck
<1>2. stage' = "alu" /\ UNCHANGED <<mul, lsu, insts>>  BY DEF AluCheck, traceVars
<1>3. alu[i] \in FuEntry  BY <1>1, UnitTypes
<1>4. Busy(alu[i]) => Aged(alu[i]).fu_count = 1
  BY <1>1, <1>3, AgedFields DEF LatencyInv, CountsBelowLatency
<1>5. \/ alu' = [alu EXCEPT ![i] = Free]
      \/ ~Busy(alu[i]) /\ alu' = alu
  BY <1>4 DEF AluCheck
<1>6. ASSUME NEW u \in 1 .. ALU_NUM, Busy(alu'[u]) PROVE alu'[u].fu_count < 1
  <2>1. ~Busy(Free) /\ alu \in [1 .. ALU_NUM -> FuEntry]
    BY UnitTypes DEF Busy, Free
  <2>2. alu'[u] = alu[u]  BY <1>1, <1>5, <1>6, <2>1
  <2> QED  BY <1>6, <2>2 DEF LatencyInv, CountsBelowLatency
<1> QED
  BY <1>2, <1>6 DEF LatencyInv, CountsBelowLatency, MulAged, MulMustAge, Busy,
                    CyclesNeeded, Op

LEMMA LatencyLsu ==
  ASSUME TypeOK, LatencyInv, LsuCheck
  PROVE  LatencyInv'
<1>1. i \in 1 .. LSU_NUM  BY UnitTypes DEF LsuCheck
<1>2. /\ stage = "lsu" /\ stage' = "lsu"
      /\ UNCHANGED <<mul, alu, insts, mul_current>>
  BY DEF LsuCheck, traceVars
<1>3. lsu[i] \in FuEntry  BY <1>1, UnitTypes
<1>4. ASSUME NEW u \in 1 .. LSU_NUM, Busy(lsu'[u])
      PROVE  lsu'[u].fu_count < CyclesNeeded(lsu'[u].inst)
  <2>1. CASE Busy(lsu[i]) /\ Aged(lsu[i]).fu_count = CyclesNeeded(lsu[i].inst)
    <3>1. lsu' = [lsu EXCEPT ![i] = Free]  BY <2>1 DEF LsuCheck
    <3>2. lsu'[u] = lsu[u]  BY <1>1, <1>4, <3>1, UnitTypes DEF Busy, Free
    <3> QED  BY <1>4, <3>2 DEF LatencyInv, CountsBelowLatency
  <2>2. CASE /\ Busy(lsu[i]) /\ u = i
             /\ Aged(lsu[i]).fu_count # CyclesNeeded(lsu[i].inst)
    <3>1. lsu'[u] = Aged(lsu[i])  BY <1>1, <2>2, UnitTypes DEF LsuCheck
    <3>2. lsu[i].fu_count < CyclesNeeded(lsu[i].inst)
      BY <1>1, <2>2 DEF LatencyInv, CountsBelowLatency
    <3>3. lsu[i].inst \in 1 .. N  BY <1>3, <2>2, AgedFields DEF Busy
    <3>4. CyclesNeeded(lsu[i].inst) \in Nat  BY <3>3, LatencyPositive
    <3> QED  BY <1>3, <2>2, <3>1, <3>2, <3>4, AgedFields
  <2>3. CASE ~Busy(lsu[i]) \/ (u # i /\ Aged(lsu[i]).fu_count
                                          # CyclesNeeded(lsu[i].inst))
    <3>1. lsu'[u] = lsu[u]  BY <1>1, <2>3, UnitTypes DEF LsuCheck
    <3> QED  BY <1>4, <3>1 DEF LatencyInv, CountsBelowLatency
  <2> QED  BY <2>1, <2>2, <2>3
<1>5. \A id : CyclesNeeded(id)' = CyclesNeeded(id)
  BY <1>2 DEF CyclesNeeded, Op, LatencyCycles
<1> QED
  BY <1>2, <1>4, <1>5 DEF LatencyInv, CountsBelowLatency, MulAged, MulMustAge,
                          Busy

(* The pipeline's front is the only entry that can be through. *)
LEMMA LatencyMul ==
  ASSUME TypeOK, LatencyInv, MulCheck
  PROVE  LatencyInv'
<1> DEFINE pipe == [k \in 1 .. Len(mul[i]) |-> Aged(mul[i][k])]
           p    == CHOOSE q \in 0 .. Len(pipe) : MulLeaving(pipe, q)
<1>1. /\ i \in 1 .. MUL_NUM /\ stage = "mul" /\ stage' = "mul" /\ i' = i + 1
      /\ UNCHANGED <<alu, lsu, insts, mul_current>>
      /\ mul' = [mul EXCEPT ![i] = SubSeq(pipe, p + 1, Len(pipe))]
  BY UnitTypes DEF MulCheck, traceVars
<1>2. /\ pipe \in Seq(FuEntry) /\ Len(pipe) = Len(mul[i])
      /\ Len(pipe) \in Nat
      /\ \A k \in 1 .. Len(pipe) : /\ mul[i][k].fu_count \in Nat
                                   /\ pipe[k].fu_count = mul[i][k].fu_count + 1
  <2>1. /\ Len(mul[i]) \in Nat
        /\ \A k \in 1 .. Len(mul[i]) : mul[i][k] \in FuEntry
    BY <1>1, UnitTypes
  <2>2. \A k \in 1 .. Len(mul[i]) :
          /\ Aged(mul[i][k]) \in FuEntry /\ mul[i][k].fu_count \in Nat
          /\ Aged(mul[i][k]).fu_count = mul[i][k].fu_count + 1
    BY <2>1, AgedFields
  <2>3. pipe \in Seq(FuEntry) /\ Len(pipe) = Len(mul[i])  BY <2>1, <2>2
  <2> QED  BY <2>1, <2>2, <2>3
<1>3. p \in 0 .. Len(pipe) /\ MulLeaving(pipe, p)  BY <1>2, MulCut
<1> HIDE DEF pipe, p
<1> DEFINE back == SubSeq(pipe, p + 1, Len(pipe))
<1>4. /\ Len(back) = Len(pipe) - p
      /\ \A k \in 1 .. Len(pipe) - p : back[k] = pipe[p + k]
  BY <1>2, <1>3, OccCut
<1> HIDE DEF back
<1>5. \A k \in 1 .. Len(pipe) :
        /\ pipe[k].fu_count <= MUL_STAGES /\ pipe[k].fu_count \in Nat
        /\ pipe[k].fu_count >= 1
        /\ k > 1 => pipe[k].fu_count < pipe[k - 1].fu_count
  <2> SUFFICES ASSUME NEW k \in 1 .. Len(pipe)
               PROVE  /\ pipe[k].fu_count <= MUL_STAGES
                      /\ pipe[k].fu_count \in Nat
                      /\ pipe[k].fu_count >= 1
                      /\ k > 1 => pipe[k].fu_count < pipe[k - 1].fu_count
    OBVIOUS
  <2>1. mul[i][k].fu_count < MUL_STAGES
        /\ (k > 1 => mul[i][k].fu_count < mul[i][k - 1].fu_count)
    BY <1>1, <1>2 DEF LatencyInv, CountsBelowLatency
  <2>2. k > 1 => k - 1 \in 1 .. Len(pipe)  BY <1>2
  <2> QED  BY <1>2, <2>1, <2>2 DEF MUL_STAGES
<1>6. \A k \in 1 .. Len(pipe) : k > p => pipe[k].fu_count < MUL_STAGES
  <2> SUFFICES ASSUME NEW k \in 1 .. Len(pipe), k > p
               PROVE  pipe[k].fu_count < MUL_STAGES
    OBVIOUS
  <2>1. CASE k = p + 1
    <3>1. pipe[k].fu_count # MUL_STAGES  BY <1>2, <1>3, <2>1 DEF MulLeaving
    <3> QED  BY <1>5, <3>1 DEF MUL_STAGES
  <2>2. CASE k > p + 1
    <3>1. k > 1 /\ k - 1 \in 1 .. Len(pipe)  BY <1>2, <1>3, <2>2
    <3> QED  BY <1>5, <3>1 DEF MUL_STAGES
  <2> QED  BY <1>2, <1>3, <2>1, <2>2
<1>7. \A k \in 1 .. Len(back) :
        /\ back[k].fu_count < MUL_STAGES /\ back[k].fu_count >= 1
        /\ k > 1 => back[k].fu_count < back[k - 1].fu_count
  <2> SUFFICES ASSUME NEW k \in 1 .. Len(back)
               PROVE  /\ back[k].fu_count < MUL_STAGES /\ back[k].fu_count >= 1
                      /\ k > 1 => back[k].fu_count < back[k - 1].fu_count
    OBVIOUS
  <2>1. k \in 1 .. Len(pipe) - p /\ back[k] = pipe[p + k]  BY <1>4
  <2>2. p + k \in 1 .. Len(pipe) /\ p + k > p  BY <1>2, <1>3, <2>1
  <2>3. ASSUME k > 1
        PROVE  p + k > 1 /\ back[k - 1] = pipe[(p + k) - 1]
    <3>1. k - 1 \in 1 .. Len(back)  BY <1>2, <1>3, <1>4, <2>1, <2>3
    <3>2. back[k - 1] = pipe[p + (k - 1)]  BY <1>4, <3>1
    <3>3. p + k > 1 /\ p + (k - 1) = (p + k) - 1  BY <1>2, <1>3, <2>1, <2>3
    <3> QED  BY <3>2, <3>3
  <2> QED  BY <1>5, <1>6, <2>1, <2>2, <2>3
<1>8. mul'[i] = back /\ \A u \in (1 .. MUL_NUM) \ {i} : mul'[u] = mul[u]
  BY <1>1, UnitTypes DEF back
<1>9. ASSUME NEW u \in 1 .. MUL_NUM, NEW k \in 1 .. Len(mul'[u])
      PROVE  /\ mul'[u][k].fu_count < MUL_STAGES
             /\ k > 1 => mul'[u][k].fu_count < mul'[u][k - 1].fu_count
  <2>1. CASE u = i  BY <1>7, <1>8, <1>9, <2>1
  <2>2. CASE u # i
    <3>1. mul'[u] = mul[u]  BY <1>8, <2>2
    <3> QED  BY <1>9, <3>1 DEF LatencyInv, CountsBelowLatency
  <2> QED  BY <2>1, <2>2
<1>10. ASSUME NEW u \in 1 .. MUL_NUM, MulMustAge(u)',
              NEW k \in 1 .. Len(mul'[u])
       PROVE  mul'[u][k].fu_count >= 1
  <2>1. CASE u = i  BY <1>7, <1>8, <1>10, <2>1
  <2>2. CASE u # i
    <3>1. mul'[u] = mul[u]  BY <1>8, <2>2
    <3>2. MulMustAge(u)  BY <1>1, <1>10, <2>2 DEF MulMustAge
    <3> QED  BY <1>10, <3>1, <3>2 DEF LatencyInv, MulAged
  <2> QED  BY <2>1, <2>2
<1>11. \A id : CyclesNeeded(id)' = CyclesNeeded(id)
  BY <1>1 DEF CyclesNeeded, Op, LatencyCycles
<1> QED
  BY <1>1, <1>9, <1>10, <1>11 DEF LatencyInv, CountsBelowLatency, MulAged, Busy

LEMMA SlotPushed ==
  ASSUME NEW n \in Nat, NEW fu \in [1 .. n -> FuEntry], NEW e \in SchedEntry,
         HasFree(fu, n)
  PROVE  \E u \in 1 .. n :
           /\ ~Busy(fu[u]) /\ PushSlot(fu, n, e) = [fu EXCEPT ![u] = Fired(e)]
           /\ Fired(e) \in FuEntry /\ Fired(e).inst = e.inst
           /\ Fired(e).fu_count = 0 /\ Busy(Fired(e))
<1> DEFINE S == {u \in 1 .. n : ~Busy(fu[u])}
           First(u) == ~Busy(fu[u]) /\ \A v \in 1 .. u - 1 : Busy(fu[v])
<1>1. S # {} /\ S \subseteq Nat  BY DEF HasFree
<1>2. PICK m \in S : \A k \in S : m <= k  BY <1>1, MinNat
<1>3. \A v \in 1 .. m - 1 : Busy(fu[v])  BY <1>2
<1>4. \E u \in 1 .. n : First(u)  BY <1>2, <1>3
<1> DEFINE f == CHOOSE u \in 1 .. n : First(u)
<1>5. f \in 1 .. n /\ First(f)  BY <1>4
<1>6. PushSlot(fu, n, e) = [fu EXCEPT ![f] = Fired(e)]  BY DEF PushSlot
<1>7. /\ Fired(e) \in FuEntry /\ Fired(e).inst = e.inst
      /\ Fired(e).fu_count = 0 /\ Busy(Fired(e))
  BY TraceAssumption DEF Fired, SchedEntry, FuEntry, Busy
<1> HIDE DEF f
<1> QED  BY <1>5, <1>6, <1>7

LEMMA LatencyFire ==
  ASSUME TypeOK, StationOrder, LatencyInv, ScheduleFire
  PROVE  LatencyInv'
<1> DEFINE e == sche_q[i]
<1>1. e \in SchedEntry /\ e.inst \in 1 .. N
  BY ScheduleFireInsts, SchedEntries DEF SchedEntry
<1>2. /\ FireAlu(e) \/ FireMul(e) \/ FireLsu(e)
      /\ UNCHANGED <<insts, stage>> /\ stage = "schedule"
  BY DEF ScheduleFire, traceVars
<1>3. \A id : CyclesNeeded(id)' = CyclesNeeded(id)
  BY <1>2 DEF CyclesNeeded, Op, LatencyCycles
<1> HIDE DEF e
<1>4. CASE FireAlu(e)
  <2>1. UNCHANGED <<mul, lsu, mul_current>>  BY <1>4 DEF FireAlu
  <2>2. ASSUME NEW u \in 1 .. ALU_NUM, Busy(alu'[u]) PROVE alu'[u].fu_count < 1
    <3>1. CASE HasFree(alu, ALU_NUM)
      <4>1. PICK v \in 1 .. ALU_NUM :
              /\ PushSlot(alu, ALU_NUM, e) = [alu EXCEPT ![v] = Fired(e)]
              /\ Fired(e).fu_count = 0
        BY <1>1, <3>1, UnitTypes, SlotPushed
      <4>2. alu' = [alu EXCEPT ![v] = Fired(e)] /\ Fired(e).fu_count = 0
        BY <1>4, <4>1 DEF FireAlu
      <4>3. alu'[u] = alu[u] \/ alu'[u] = Fired(e)  BY <4>2, UnitTypes
      <4> QED  BY <2>2, <4>2, <4>3 DEF LatencyInv, CountsBelowLatency
    <3>2. CASE ~HasFree(alu, ALU_NUM)
      <4>1. alu' = alu  BY <1>4, <3>2 DEF FireAlu, PushSlot
      <4> QED  BY <2>2, <4>1 DEF LatencyInv, CountsBelowLatency
    <3> QED  BY <3>1, <3>2
  <2> QED
    BY <1>2, <1>3, <2>1, <2>2 DEF LatencyInv, CountsBelowLatency, MulAged,
                                  MulMustAge, Busy
<1>5. CASE FireLsu(e)
  <2>1. UNCHANGED <<mul, alu, mul_current>>  BY <1>5 DEF FireLsu
  <2>2. ASSUME NEW u \in 1 .. LSU_NUM, Busy(lsu'[u])
        PROVE  lsu'[u].fu_count < CyclesNeeded(lsu'[u].inst)
    <3>1. CASE HasFree(lsu, LSU_NUM)
      <4>1. PICK v \in 1 .. LSU_NUM :
              /\ PushSlot(lsu, LSU_NUM, e) = [lsu EXCEPT ![v] = Fired(e)]
              /\ Fired(e).fu_count = 0 /\ Fired(e).inst = e.inst
        BY <1>1, <3>1, UnitTypes, SlotPushed
      <4>2. /\ lsu' = [lsu EXCEPT ![v] = Fired(e)]
            /\ Fired(e).fu_count = 0 /\ Fired(e).inst = e.inst
        BY <1>5, <4>1 DEF FireLsu
      <4>3. lsu'[u] = lsu[u] \/ lsu'[u] = Fired(e)  BY <4>2, UnitTypes
      <4>4. 0 < CyclesNeeded(e.inst)  BY <1>1, LatencyPositive
      <4> QED  BY <2>2, <4>2, <4>3, <4>4 DEF LatencyInv, CountsBelowLatency
    <3>2. CASE ~HasFree(lsu, LSU_NUM)
      <4>1. lsu' = lsu  BY <1>5, <3>2 DEF FireLsu, PushSlot
      <4> QED  BY <2>2, <4>1 DEF LatencyInv, CountsBelowLatency
    <3> QED  BY <3>1, <3>2
  <2> QED
    BY <1>2, <1>3, <2>1, <2>2 DEF LatencyInv, CountsBelowLatency, MulAged,
                                  MulMustAge, Busy
<1>6. CASE FireMul(e)
  <2>1. UNCHANGED <<alu, lsu>>  BY <1>6 DEF FireMul
  <2>2. CASE mul_current < MUL_NUM
    <3> DEFINE v == mul_current + 1
    <3>1. /\ mul' = [mul EXCEPT ![v] = Append(mul[v], Fired(e))]
          /\ mul_current' = mul_current + 1 /\ v \in 1 .. MUL_NUM
      BY <1>6, <2>2, UnitTypes DEF FireMul
    <3>2. Fired(e) \in FuEntry /\ Fired(e).fu_count = 0
      BY <1>1, TraceAssumption DEF Fired, SchedEntry, FuEntry
    <3>3. /\ Len(mul[v]) \in Nat /\ Len(Append(mul[v], Fired(e))) = Len(mul[v]) + 1
          /\ \A n \in 1 .. Len(mul[v]) : Append(mul[v], Fired(e))[n] = mul[v][n]
          /\ Append(mul[v], Fired(e))[Len(mul[v]) + 1] = Fired(e)
      BY <3>1, <3>2, UnitTypes, AppendProperties
    <3>4. \A k \in 1 .. Len(mul[v]) : mul[v][k].fu_count >= 1
                                     /\ mul[v][k].fu_count \in Nat
      <4>1. MulMustAge(v)  BY <1>2, <3>1, UnitTypes DEF MulMustAge
      <4>2. \A k \in 1 .. Len(mul[v]) : mul[v][k] \in FuEntry
        BY <3>1, UnitTypes
      <4> QED  BY <3>1, <4>1, <4>2, AgedFields DEF LatencyInv, MulAged
    <3>5. /\ mul'[v] = Append(mul[v], Fired(e))
          /\ \A u \in (1 .. MUL_NUM) \ {v} : mul'[u] = mul[u]
      BY <3>1, UnitTypes
    <3>6. ASSUME NEW u \in 1 .. MUL_NUM, NEW k \in 1 .. Len(mul'[u])
          PROVE  /\ mul'[u][k].fu_count < MUL_STAGES
                 /\ k > 1 => mul'[u][k].fu_count < mul'[u][k - 1].fu_count
      <4>1. CASE u # v
        <5>1. mul'[u] = mul[u]  BY <3>5, <4>1
        <5> QED  BY <3>6, <5>1 DEF LatencyInv, CountsBelowLatency
      <4>2. CASE u = v /\ k \in 1 .. Len(mul[v])
        <5>1. mul'[u][k] = mul[v][k]  BY <3>3, <3>5, <4>2
        <5>2. k > 1 => mul'[u][k - 1] = mul[v][k - 1]  BY <3>3, <3>5, <4>2
        <5> QED  BY <3>1, <4>2, <5>1, <5>2 DEF LatencyInv, CountsBelowLatency
      <4>3. CASE u = v /\ k = Len(mul[v]) + 1
        <5>1. mul'[u][k] = Fired(e)  BY <3>3, <3>5, <4>3
        <5>2. k > 1 => k - 1 \in 1 .. Len(mul[v])
                       /\ mul'[u][k - 1] = mul[v][k - 1]
          BY <3>3, <3>5, <4>3
        <5> QED  BY <3>2, <3>4, <5>1, <5>2 DEF MUL_STAGES
      <4> QED  BY <3>3, <3>5, <3>6, <4>1, <4>2, <4>3
    <3>7. ASSUME NEW u \in 1 .. MUL_NUM, MulMustAge(u)'
          PROVE  MulMustAge(u) /\ u # v
      BY <1>2, <3>1, <3>7, UnitTypes DEF MulMustAge
    <3> HIDE DEF v
    <3>8. MulAged'
      BY <3>5, <3>7 DEF LatencyInv, MulAged
    <3> QED
      BY <1>3, <2>1, <3>6, <3>8 DEF LatencyInv, CountsBelowLatency, Busy
  <2>3. CASE ~(mul_current < MUL_NUM)
    <3>1. UNCHANGED <<mul, mul_current>>  BY <1>6, <2>3 DEF FireMul
    <3> QED
      BY <1>2, <1>3, <2>1, <3>1 DEF LatencyInv, CountsBelowLatency, MulAged,
                                    MulMustAge, Busy
  <2> QED  BY <2>2, <2>3
<1> QED  BY <1>2, <1>4, <1>5, <1>6

(* Steps that leave the units alone, the MUL mask apart. *)
QuietStep ==
  \/ Retire \/ ExecDone \/ ResultBus \/ ResultBusDone
  \/ ScheduleSkip \/ ScheduleDone \/ Dispatch \/ Fetch \/ EndCycle
  \/ UNCHANGED vars

LEMMA UnitSteps ==
  ASSUME [Next]_vars
  PROVE  AluCheck \/ MulCheck \/ LsuCheck \/ ScheduleFire \/ QuietStep
BY DEF Next, Exec, Schedule, Terminated, QuietStep

LEMMA QuietFrame ==
  ASSUME QuietStep
  PROVE  /\ UNCHANGED <<insts, alu, mul, lsu, alu_current, lsu_current>>
         /\ ~ResultBus => complete_vec' = complete_vec
BY DEF QuietStep, Retire, RetireEntry, RetireDone, ExecDone, ResultBus,
  ResultBusDone, ScheduleSkip, ScheduleDone, Dispatch, DispatchInst,
  DispatchNop, DispatchDone, Fetch, FetchNothing, FetchNop, FetchMiss,
  FetchInst, FetchDone, EndCycle, vars, traceVars, fuVars

LEMMA LatencyQuiet ==
  ASSUME TypeOK, LatencyInv, QuietStep
  PROVE  LatencyInv'
<1>1. UNCHANGED <<insts, alu, mul, lsu>>  BY QuietFrame
<1>2. ASSUME NEW u \in 1 .. MUL_NUM, MulMustAge(u)' PROVE MulMustAge(u)
  <2>1. CASE ExecDone  BY <1>2, <2>1, UnitTypes DEF ExecDone, MulMustAge
  <2>2. CASE ResultBusDone  BY <2>2 DEF ResultBusDone, MulMustAge
  <2>3. CASE ResultBus  BY <2>3 DEF ResultBus, MulMustAge
  <2>4. CASE ScheduleSkip
    BY <1>2, <2>4 DEF ScheduleSkip, MulMustAge, fuVars
  <2>5. CASE UNCHANGED vars
    BY <1>2, <2>5 DEF MulMustAge, vars, loopVars, fuVars
  <2>6. CASE Retire \/ ScheduleDone \/ Dispatch \/ Fetch \/ EndCycle
    <3>1. stage' \notin {"mul", "lsu", "result_bus", "schedule"}
      BY <2>6 DEF Retire, RetireEntry, RetireDone, ScheduleDone, Dispatch,
        DispatchInst, DispatchNop, DispatchDone, Fetch, FetchNothing, FetchNop,
        FetchMiss, FetchInst, FetchDone, EndCycle
    <3> QED  BY <1>2, <3>1 DEF MulMustAge
  <2> QED  BY <2>1, <2>2, <2>3, <2>4, <2>5, <2>6 DEF QuietStep
<1>3. \A id : CyclesNeeded(id)' = CyclesNeeded(id)
  BY <1>1 DEF CyclesNeeded, Op, LatencyCycles
<1> QED
  BY <1>1, <1>2, <1>3 DEF LatencyInv, CountsBelowLatency, MulAged, Busy

(* No unit counts past the latency of its instruction, and what is in a    *)
(* MUL pipeline when the next is fed has been there for a cycle (the check *)
(* stages of exec).                                                        *)
THEOREM LatencyInvariant == Spec => []LatencyInv
<1>1. TypeOK /\ StationOrder /\ LatencyInv /\ [Next]_vars => LatencyInv'
  BY UnitSteps, LatencyAlu, LatencyMul, LatencyLsu, LatencyFire, LatencyQuiet
<1> QED  BY <1>1, LatencyInit, TypeCorrect, StationInvariant, PTL DEF Spec

(* Nothing in a unit has overrun its latency, although completion is       *)
(* tested with ==, and a MUL pipeline is emptied from the front only.      *)
THEOREM CountsBelowLatencyHolds == Spec => []CountsBelowLatency
<1>1. LatencyInv => CountsBelowLatency  BY DEF LatencyInv
<1> QED  BY <1>1, LatencyInvariant, PTL

-----------------------------------------------------------------------------
(* Each instruction in one place *)

BusySlots(fu, n) == {u \in 1 .. n : Busy(fu[u])}

(* FiredOnce, said of instructions instead of stations, is inductive. *)
PlacesOK   == \A id \in 1 .. N : Places(id) = AsNumber(HasFired(id))
CountersOK == /\ alu_current = Cardinality(BusySlots(alu, ALU_NUM))
              /\ lsu_current = Cardinality(BusySlots(lsu, LSU_NUM))

LEMMA SlotsAreSeq ==
  ASSUME NEW n \in Nat, NEW fu \in [1 .. n -> FuEntry]
  PROVE  fu \in Seq(FuEntry) /\ Len(fu) = n
OBVIOUS

LEMMA BusyExcept ==
  ASSUME NEW n \in Nat, NEW fu \in [1 .. n -> FuEntry], NEW u \in 1 .. n,
         NEW e \in FuEntry
  PROVE  /\ Cardinality(BusySlots(fu, n)) \in Nat
         /\ Cardinality(BusySlots(Put(fu, u, e), n))
              = Cardinality(BusySlots(fu, n)) - AsNumber(Busy(fu[u])) + AsNumber(Busy(e))
<1> DEFINE r == Put(fu, u, e)
           T == BusySlots(fu, n) \ {u}
<1>1. \A v \in 1 .. n : r[v] = IF v = u THEN e ELSE fu[v]  BY DEF Put
<1> HIDE DEF r
<1>2. IsFiniteSet(BusySlots(fu, n))
  <2>1. IsFiniteSet(1 .. n)  BY FS_Interval
  <2>2. BusySlots(fu, n) \in SUBSET (1 .. n)  BY DEF BusySlots
  <2> QED  BY <2>1, <2>2, FS_Subset
<1>3. Cardinality(BusySlots(fu, n)) \in Nat  BY <1>2, FS_CardinalityType
<1>4. IsFiniteSet(T)
      /\ Cardinality(T) = Cardinality(BusySlots(fu, n)) - AsNumber(Busy(fu[u]))
  <2>1. u \in BusySlots(fu, n) <=> Busy(fu[u])  BY DEF BusySlots
  <2> QED  BY <1>2, <1>3, <2>1, FS_RemoveElement DEF AsNumber
<1>5. BusySlots(r, n) = IF Busy(e) THEN T \cup {u} ELSE T
  BY <1>1 DEF BusySlots
<1>6. Cardinality(T \cup {u}) = Cardinality(T) + 1
  BY <1>4, FS_AddElement
<1>7. Cardinality(T) \in Nat  BY <1>4, FS_CardinalityType
<1> HIDE DEF T
<1>8. Cardinality(BusySlots(r, n)) = Cardinality(T) + AsNumber(Busy(e))
  BY <1>5, <1>6, <1>7 DEF AsNumber
<1> QED  BY <1>3, <1>4, <1>8 DEF r

LEMMA RoomIsFree ==
  ASSUME NEW n \in Nat, NEW fu, Cardinality(BusySlots(fu, n)) < n
  PROVE  HasFree(fu, n)
<1> SUFFICES ASSUME ~HasFree(fu, n) PROVE FALSE  OBVIOUS
<1>1. BusySlots(fu, n) = 1 .. n  BY DEF HasFree, BusySlots
<1>2. Cardinality(1 .. n) = n  BY FS_Interval
<1> QED  BY <1>1, <1>2

LEMMA PlacesSum ==
  ASSUME TypeOK, NEW id
  PROVE  /\ Places(id) = Occurrences(alu, id) + Occurrences(lsu, id)
                          + Occurrences(complete_vec, id)
                          + Cardinality(MulSpots(mul, id))
         /\ Occurrences(alu, id) \in Nat /\ Occurrences(lsu, id) \in Nat
         /\ Occurrences(complete_vec, id) \in Nat
         /\ Cardinality(MulSpots(mul, id)) \in Nat
<1>1. Places(id) = Occurrences(alu, id) + Occurrences(lsu, id)
                     + Occurrences(complete_vec, id)
                     + Cardinality(MulSpots(mul, id))
  BY DEF Places, MulSpots
<1>2. Len(alu) \in Nat /\ Len(lsu) \in Nat /\ Len(complete_vec) \in Nat
  BY UnitTypes, SlotsAreSeq
<1>3. Cardinality(MulSpots(mul, id)) \in Nat
  <2>1. CASE MUL_NUM = 0
    <3>1. MulSpots(mul, id) = {}  BY <2>1 DEF MulSpots
    <3> QED  BY <3>1, FS_EmptySet
  <2>2. CASE MUL_NUM # 0
    <3>1. 1 \in 1 .. MUL_NUM /\ mul[1] \in Seq(FuEntry)  BY <2>2, UnitTypes
    <3> QED  BY <3>1, UnitTypes, MulExcept
  <2> QED  BY <2>1, <2>2
<1> QED  BY <1>1, <1>2, <1>3, SpotsFinite

LEMMA PlacesNext ==
  ASSUME NEW id
  PROVE  Places(id)' = Occurrences(alu', id) + Occurrences(lsu', id)
                         + Occurrences(complete_vec', id)
                         + Cardinality(MulSpots(mul', id))
BY DEF Places, MulSpots, Occurrences

(* An instruction that leaves a slot joins the results. *)
LEMMA AluPlaces ==
  ASSUME TypeOK, CountersOK, AluCheck
  PROVE  /\ \A id \in 1 .. N : Places(id)' = Places(id)
         /\ CountersOK'
<1>1. /\ i \in 1 .. ALU_NUM /\ alu[i] \in FuEntry
      /\ UNCHANGED <<mul, lsu, lsu_current>>
  BY UnitTypes DEF AluCheck
<1>2. /\ alu \in Seq(FuEntry) /\ Len(alu) = ALU_NUM
      /\ alu \in [1 .. ALU_NUM -> FuEntry] /\ ALU_NUM \in Nat
      /\ complete_vec \in Seq(FuEntry) /\ alu_current \in Int
  BY UnitTypes, SlotsAreSeq
<1>3. /\ Aged(alu[i]) \in FuEntry /\ Aged(alu[i]).inst = alu[i].inst
      /\ Free \in FuEntry /\ Free.inst = 0 /\ ~Busy(Free)
      /\ Busy(Aged(alu[i])) <=> Busy(alu[i])
  BY <1>1, AgedFields, FreeType DEF Free, Busy
<1>4. CASE Busy(alu[i]) /\ Aged(alu[i]).fu_count = 1
  <2>1. /\ alu' = Put(alu, i, Free)
        /\ complete_vec' = Append(complete_vec, Aged(alu[i]))
        /\ alu_current' = alu_current - 1
    BY <1>4 DEF AluCheck, Put
  <2>2. ASSUME NEW id \in 1 .. N PROVE Places(id)' = Places(id)
    <3>1. Occurrences(alu', id) = Occurrences(alu, id)
            - AsNumber(alu[i].inst = id) + AsNumber(Free.inst = id)
      BY <1>1, <1>2, <1>3, <2>1, OccExcept
    <3>2. Occurrences(complete_vec', id) = Occurrences(complete_vec, id)
            + AsNumber(alu[i].inst = id)
      BY <1>2, <1>3, <2>1, OccAppend
    <3>3. AsNumber(Free.inst = id) = 0 /\ AsNumber(alu[i].inst = id) \in Nat
      BY <1>3 DEF AsNumber
    <3> QED  BY <1>1, <3>1, <3>2, <3>3, PlacesSum, PlacesNext
  <2>3. Cardinality(BusySlots(alu', ALU_NUM))
          = Cardinality(BusySlots(alu, ALU_NUM)) - 1 + 0
    <3>1. AsNumber(Busy(alu[i])) = 1 /\ AsNumber(Busy(Free)) = 0
      BY <1>3, <1>4 DEF AsNumber
    <3>2. Cardinality(BusySlots(Put(alu, i, Free), ALU_NUM))
            = Cardinality(BusySlots(alu, ALU_NUM)) - AsNumber(Busy(alu[i]))
                + AsNumber(Busy(Free))
      BY <1>1, <1>2, <1>3, BusyExcept
    <3> QED  BY <2>1, <3>1, <3>2
  <2>4. alu_current' = Cardinality(BusySlots(alu', ALU_NUM))
    BY <1>2, <2>1, <2>3 DEF CountersOK
  <2> QED  BY <1>1, <2>2, <2>4 DEF CountersOK, BusySlots, Busy
<1>5. CASE Busy(alu[i]) /\ Aged(alu[i]).fu_count # 1
  <2>1. /\ alu' = Put(alu, i, Aged(alu[i]))
        /\ UNCHANGED <<complete_vec, alu_current>>
    BY <1>5 DEF AluCheck, Put
  <2>2. ASSUME NEW id \in 1 .. N PROVE Places(id)' = Places(id)
    <3>1. Occurrences(alu', id) = Occurrences(alu, id)
            - AsNumber(alu[i].inst = id) + AsNumber(alu[i].inst = id)
      BY <1>1, <1>2, <1>3, <2>1, OccExcept
    <3>2. AsNumber(alu[i].inst = id) \in Nat  BY DEF AsNumber
    <3> QED  BY <1>1, <2>1, <3>1, <3>2, PlacesSum, PlacesNext
  <2>3. Cardinality(BusySlots(alu', ALU_NUM))
          = Cardinality(BusySlots(alu, ALU_NUM)) - 1 + 1
    <3>1. AsNumber(Busy(alu[i])) = 1 /\ AsNumber(Busy(Aged(alu[i]))) = 1
      BY <1>3, <1>5 DEF AsNumber
    <3> QED  BY <1>1, <1>2, <1>3, <2>1, <3>1, BusyExcept
  <2>4. alu_current' = Cardinality(BusySlots(alu', ALU_NUM))
    BY <1>2, <2>1, <2>3 DEF CountersOK
  <2> QED  BY <1>1, <2>2, <2>4 DEF CountersOK, BusySlots, Busy
<1>6. CASE ~Busy(alu[i])
  <2>1. UNCHANGED <<alu, complete_vec, alu_current>>  BY <1>6 DEF AluCheck
  <2>2. \A id \in 1 .. N : Places(id)' = Places(id)
    BY <1>1, <2>1, PlacesSum, PlacesNext
  <2> QED  BY <1>1, <2>1, <2>2 DEF CountersOK, BusySlots, Busy
<1> QED  BY <1>4, <1>5, <1>6

LEMMA LsuPlaces ==
  ASSUME TypeOK, CountersOK, LsuCheck
  PROVE  /\ \A id \in 1 .. N : Places(id)' = Places(id)
         /\ CountersOK'
<1>1. /\ i \in 1 .. LSU_NUM /\ lsu[i] \in FuEntry
      /\ UNCHANGED <<mul, alu, alu_current>>
  BY UnitTypes DEF LsuCheck
<1>2. /\ lsu \in Seq(FuEntry) /\ Len(lsu) = LSU_NUM
      /\ lsu \in [1 .. LSU_NUM -> FuEntry] /\ LSU_NUM \in Nat
      /\ complete_vec \in Seq(FuEntry) /\ lsu_current \in Int
  BY UnitTypes, SlotsAreSeq
<1>3. /\ Aged(lsu[i]) \in FuEntry /\ Aged(lsu[i]).inst = lsu[i].inst
      /\ Free \in FuEntry /\ Free.inst = 0 /\ ~Busy(Free)
      /\ Busy(Aged(lsu[i])) <=> Busy(lsu[i])
  BY <1>1, AgedFields, FreeType DEF Free, Busy
<1> DEFINE done == Aged(lsu[i]).fu_count = CyclesNeeded(lsu[i].inst)
<1>4. CASE Busy(lsu[i]) /\ done
  <2>1. /\ lsu' = Put(lsu, i, Free)
        /\ complete_vec' = Append(complete_vec, Aged(lsu[i]))
        /\ lsu_current' = lsu_current - 1
    BY <1>4 DEF LsuCheck, Put
  <2>2. ASSUME NEW id \in 1 .. N PROVE Places(id)' = Places(id)
    <3>1. Occurrences(lsu', id) = Occurrences(lsu, id)
            - AsNumber(lsu[i].inst = id) + AsNumber(Free.inst = id)
      BY <1>1, <1>2, <1>3, <2>1, OccExcept
    <3>2. Occurrences(complete_vec', id) = Occurrences(complete_vec, id)
            + AsNumber(lsu[i].inst = id)
      BY <1>2, <1>3, <2>1, OccAppend
    <3>3. AsNumber(Free.inst = id) = 0 /\ AsNumber(lsu[i].inst = id) \in Nat
      BY <1>3 DEF AsNumber
    <3> QED  BY <1>1, <3>1, <3>2, <3>3, PlacesSum, PlacesNext
  <2>3. Cardinality(BusySlots(lsu', LSU_NUM))
          = Cardinality(BusySlots(lsu, LSU_NUM)) - 1 + 0
    <3>1. AsNumber(Busy(lsu[i])) = 1 /\ AsNumber(Busy(Free)) = 0
      BY <1>3, <1>4 DEF AsNumber
    <3>2. Cardinality(BusySlots(Put(lsu, i, Free), LSU_NUM))
            = Cardinality(BusySlots(lsu, LSU_NUM)) - AsNumber(Busy(lsu[i]))
                + AsNumber(Busy(Free))
      BY <1>1, <1>2, <1>3, BusyExcept
    <3> QED  BY <2>1, <3>1, <3>2
  <2>4. lsu_current' = Cardinality(BusySlots(lsu', LSU_NUM))
    BY <1>2, <2>1, <2>3 DEF CountersOK
  <2> QED  BY <1>1, <2>2, <2>4 DEF CountersOK, BusySlots, Busy
<1>5. CASE Busy(lsu[i]) /\ ~done
  <2>1. /\ lsu' = Put(lsu, i, Aged(lsu[i]))
        /\ UNCHANGED <<complete_vec, lsu_current>>
    BY <1>5 DEF LsuCheck, Put
  <2>2. ASSUME NEW id \in 1 .. N PROVE Places(id)' = Places(id)
    <3>1. Occurrences(lsu', id) = Occurrences(lsu, id)
            - AsNumber(lsu[i].inst = id) + AsNumber(lsu[i].inst = id)
      BY <1>1, <1>2, <1>3, <2>1, OccExcept
    <3>2. AsNumber(lsu[i].inst = id) \in Nat  BY DEF AsNumber
    <3> QED  BY <1>1, <2>1, <3>1, <3>2, PlacesSum, PlacesNext
  <2>3. Cardinality(BusySlots(lsu', LSU_NUM))
          = Cardinality(BusySlots(lsu, LSU_NUM)) - 1 + 1
    <3>1. AsNumber(Busy(lsu[i])) = 1 /\ AsNumber(Busy(Aged(lsu[i]))) = 1
      BY <1>3, <1>5 DEF AsNumber
    <3> QED  BY <1>1, <1>2, <1>3, <2>1, <3>1, BusyExcept
  <2>4. lsu_current' = Cardinality(BusySlots(lsu', LSU_NUM))
    BY <1>2, <2>1, <2>3 DEF CountersOK
  <2> QED  BY <1>1, <2>2, <2>4 DEF CountersOK, BusySlots, Busy
<1>6. CASE ~Busy(lsu[i])
  <2>1. UNCHANGED <<lsu, complete_vec, lsu_current>>  BY <1>6 DEF LsuCheck
  <2>2. \A id \in 1 .. N : Places(id)' = Places(id)
    BY <1>1, <2>1, PlacesSum, PlacesNext
  <2> QED  BY <1>1, <2>1, <2>2 DEF CountersOK, BusySlots, Busy
<1> QED  BY <1>4, <1>5, <1>6

(* What leaves a MUL pipeline joins the results in the same order. *)
LEMMA MulPlaces ==
  ASSUME TypeOK, CountersOK, MulCheck
  PROVE  /\ \A id \in 1 .. N : Places(id)' = Places(id)
         /\ CountersOK'
<1> DEFINE pipe  == [k \in 1 .. Len(mul[i]) |-> Aged(mul[i][k])]
           p     == CHOOSE q \in 0 .. Len(pipe) : MulLeaving(pipe, q)
           front == SubSeq(pipe, 1, p)
           back  == SubSeq(pipe, p + 1, Len(pipe))
<1>1. /\ i \in 1 .. MUL_NUM
      /\ UNCHANGED <<alu, lsu, alu_current, lsu_current>>
      /\ mul' = Put(mul, i, back) /\ complete_vec' = complete_vec \o front
  BY UnitTypes DEF MulCheck, Put
<1>2. /\ mul \in [1 .. MUL_NUM -> Seq(FuEntry)] /\ mul[i] \in Seq(FuEntry)
      /\ complete_vec \in Seq(FuEntry)
  BY <1>1, UnitTypes
<1>3. /\ pipe \in Seq(FuEntry) /\ Len(pipe) = Len(mul[i])
      /\ \A k \in 1 .. Len(mul[i]) : mul[i][k].inst = pipe[k].inst
  <2>1. /\ Len(mul[i]) \in Nat
        /\ \A k \in 1 .. Len(mul[i]) : mul[i][k] \in FuEntry
    BY <1>1, UnitTypes
  <2>2. \A k \in 1 .. Len(mul[i]) : Aged(mul[i][k]) \in FuEntry
                                   /\ Aged(mul[i][k]).inst = mul[i][k].inst
    BY <2>1, AgedFields
  <2> QED  BY <2>1, <2>2
<1>4. p \in 0 .. Len(pipe)  BY <1>3, MulCut
<1> HIDE DEF pipe, p
<1>5. front \in Seq(FuEntry) /\ back \in Seq(FuEntry)  BY <1>3, <1>4, OccCut
<1>6. ASSUME NEW id \in 1 .. N PROVE Places(id)' = Places(id)
  <2>1. Occurrences(mul[i], id) = Occurrences(front, id) + Occurrences(back, id)
    <3>1. Occurrences(mul[i], id) = Occurrences(pipe, id)  BY <1>3, OccSame
    <3>2. Occurrences(pipe, id) = Occurrences(front, id) + Occurrences(back, id)
      BY <1>3, <1>4, OccCut
    <3> QED  BY <3>1, <3>2
  <2> HIDE DEF front, back
  <2>2. Occurrences(complete_vec', id)
          = Occurrences(complete_vec, id) + Occurrences(front, id)
    BY <1>1, <1>2, <1>5, OccConcat
  <2>3. Cardinality(MulSpots(mul', id))
          = Cardinality(MulSpots(mul, id)) - Occurrences(mul[i], id)
              + Occurrences(back, id)
    BY <1>1, <1>2, <1>5, MulExcept
  <2>4. Occurrences(front, id) \in Nat /\ Occurrences(back, id) \in Nat
    BY <1>5, LenProperties, SpotsFinite
  <2>5. alu' = alu /\ lsu' = lsu  BY <1>1
  <2> QED  BY <2>1, <2>2, <2>3, <2>4, <2>5, PlacesSum, PlacesNext
<1> QED  BY <1>1, <1>6 DEF CountersOK, BusySlots, Busy

(* A station that fires puts its instruction into one slot more: the       *)
(* counter fu_has_room reads promises the free slot that push looks for.   *)
LEMMA SlotFired ==
  ASSUME NEW n \in Nat, NEW fu \in [1 .. n -> FuEntry], NEW e \in SchedEntry,
         NEW current, current = Cardinality(BusySlots(fu, n)), current < n
  PROVE  /\ \A id \in 1 .. N : Occurrences(PushSlot(fu, n, e), id)
                                = Occurrences(fu, id) + AsNumber(e.inst = id)
         /\ PushCount(fu, n, current)
              = Cardinality(BusySlots(PushSlot(fu, n, e), n))
<1>1. HasFree(fu, n)  BY RoomIsFree
<1>2. PICK u \in 1 .. n :
        /\ ~Busy(fu[u]) /\ PushSlot(fu, n, e) = [fu EXCEPT ![u] = Fired(e)]
        /\ Fired(e) \in FuEntry /\ Fired(e).inst = e.inst /\ Busy(Fired(e))
  BY <1>1, SlotPushed
<1>3. PushSlot(fu, n, e) = Put(fu, u, Fired(e))  BY <1>2 DEF Put
<1>4. fu \in Seq(FuEntry) /\ Len(fu) = n  BY SlotsAreSeq
<1>5. ASSUME NEW id \in 1 .. N
      PROVE  Occurrences(Put(fu, u, Fired(e)), id)
               = Occurrences(fu, id) + AsNumber(e.inst = id)
  <2>1. Occurrences(Put(fu, u, Fired(e)), id) = Occurrences(fu, id)
          - AsNumber(fu[u].inst = id) + AsNumber(Fired(e).inst = id)
    BY <1>2, <1>4, OccExcept
  <2>2. AsNumber(fu[u].inst = id) = 0 /\ AsNumber(e.inst = id) \in Nat
    BY <1>2 DEF AsNumber, Busy
  <2>3. Occurrences(fu, id) \in Nat  BY <1>4, SpotsFinite
  <2> QED  BY <1>2, <2>1, <2>2, <2>3
<1>6. Cardinality(BusySlots(Put(fu, u, Fired(e)), n))
        = Cardinality(BusySlots(fu, n)) + 1
  <2>1. /\ Cardinality(BusySlots(fu, n)) \in Nat
        /\ Cardinality(BusySlots(Put(fu, u, Fired(e)), n))
             = Cardinality(BusySlots(fu, n)) - AsNumber(Busy(fu[u]))
                 + AsNumber(Busy(Fired(e)))
    BY <1>2, BusyExcept
  <2>2. AsNumber(Busy(fu[u])) = 0 /\ AsNumber(Busy(Fired(e))) = 1  BY <1>2 DEF AsNumber
  <2> QED  BY <2>1, <2>2
<1>7. PushCount(fu, n, current) = current + 1  BY <1>1 DEF PushCount
<1> QED  BY <1>3, <1>5, <1>6, <1>7

LEMMA FirePlaces ==
  ASSUME TypeOK, StationOrder, CountersOK, ScheduleFire
  PROVE  /\ \A id \in 1 .. N :
              Places(id)' = Places(id) + AsNumber(sche_q[i].inst = id)
         /\ CountersOK'
<1> DEFINE e == sche_q[i]
<1>1. /\ e \in SchedEntry /\ e.inst \in 1 .. N /\ FuHasRoom(e.inst)
      /\ complete_vec' = complete_vec
  BY ScheduleFireInsts, SchedEntries DEF SchedEntry, ScheduleFire, CanFire
<1>2. FireAlu(e) \/ FireMul(e) \/ FireLsu(e)  BY DEF ScheduleFire
<1> HIDE DEF e
<1>3. \A id : AsNumber(e.inst = id) \in Nat  BY DEF AsNumber
<1>4. CASE FireAlu(e)
  <2>1. /\ alu' = PushSlot(alu, ALU_NUM, e)
        /\ alu_current' = PushCount(alu, ALU_NUM, alu_current)
        /\ UNCHANGED <<mul, lsu, lsu_current>>
    BY <1>4 DEF FireAlu
  <2>2. alu_current < ALU_NUM
    BY <1>1, <1>4 DEF FireAlu, FuHasRoom, IsAluOp, IsMulOp, IsLoadStore
  <2>3. /\ \A id \in 1 .. N :
             Occurrences(PushSlot(alu, ALU_NUM, e), id)
               = Occurrences(alu, id) + AsNumber(e.inst = id)
        /\ PushCount(alu, ALU_NUM, alu_current)
             = Cardinality(BusySlots(PushSlot(alu, ALU_NUM, e), ALU_NUM))
    <3>1. alu_current = Cardinality(BusySlots(alu, ALU_NUM))  BY DEF CountersOK
    <3>2. alu \in [1 .. ALU_NUM -> FuEntry] /\ ALU_NUM \in Nat  BY UnitTypes
    <3> QED  BY <1>1, <2>2, <3>1, <3>2, SlotFired
  <2>4. ASSUME NEW id \in 1 .. N
        PROVE  Places(id)' = Places(id) + AsNumber(e.inst = id)
    <3>1. AsNumber(e.inst = id) \in Nat  BY <1>3
    <3>2. Occurrences(alu', id) = Occurrences(alu, id) + AsNumber(e.inst = id)
      BY <2>1, <2>3
    <3>3. Places(id)' = Occurrences(alu', id) + Occurrences(lsu', id)
                          + Occurrences(complete_vec, id)
                          + Cardinality(MulSpots(mul, id))
      BY <1>1, <2>1, PlacesNext
    <3> QED  BY <2>1, <3>1, <3>2, <3>3, PlacesSum
  <2> QED  BY <2>1, <2>3, <2>4 DEF CountersOK, BusySlots, Busy, e
<1>5. CASE FireLsu(e)
  <2>1. /\ lsu' = PushSlot(lsu, LSU_NUM, e)
        /\ lsu_current' = PushCount(lsu, LSU_NUM, lsu_current)
        /\ UNCHANGED <<mul, alu, alu_current>>
    BY <1>5 DEF FireLsu
  <2>2. lsu_current < LSU_NUM
    BY <1>1, <1>5 DEF FireLsu, FuHasRoom, IsAluOp, IsMulOp, IsLoadStore
  <2>3. /\ \A id \in 1 .. N :
             Occurrences(PushSlot(lsu, LSU_NUM, e), id)
               = Occurrences(lsu, id) + AsNumber(e.inst = id)
        /\ PushCount(lsu, LSU_NUM, lsu_current)
             = Cardinality(BusySlots(PushSlot(lsu, LSU_NUM, e), LSU_NUM))
    <3>1. lsu_current = Cardinality(BusySlots(lsu, LSU_NUM))  BY DEF CountersOK
    <3>2. lsu \in [1 .. LSU_NUM -> FuEntry] /\ LSU_NUM \in Nat  BY UnitTypes
    <3> QED  BY <1>1, <2>2, <3>1, <3>2, SlotFired
  <2>4. ASSUME NEW id \in 1 .. N
        PROVE  Places(id)' = Places(id) + AsNumber(e.inst = id)
    <3>1. AsNumber(e.inst = id) \in Nat  BY <1>3
    <3>2. Occurrences(lsu', id) = Occurrences(lsu, id) + AsNumber(e.inst = id)
      BY <2>1, <2>3
    <3>3. Places(id)' = Occurrences(alu', id) + Occurrences(lsu', id)
                          + Occurrences(complete_vec, id)
                          + Cardinality(MulSpots(mul, id))
      BY <1>1, <2>1, PlacesNext
    <3> QED  BY <2>1, <3>1, <3>2, <3>3, PlacesSum
  <2> QED  BY <2>1, <2>3, <2>4 DEF CountersOK, BusySlots, Busy, e
<1>6. CASE FireMul(e)
  <2>1. mul_current < MUL_NUM
    <3>1. mul_current < MUL_MASK_UNITS
      BY <1>1, <1>6 DEF FireMul, FuHasRoom, IsAluOp, IsMulOp, IsLoadStore
    <3> QED  BY <3>1, MaskUnits, UnitTypes
  <2> DEFINE v == mul_current + 1
  <2>2. /\ mul' = Put(mul, v, Append(mul[v], Fired(e)))
        /\ UNCHANGED <<alu, lsu, alu_current, lsu_current>>
    BY <1>6, <2>1 DEF FireMul, Put
  <2>3. v \in 1 .. MUL_NUM /\ mul[v] \in Seq(FuEntry)  BY <2>1, UnitTypes
  <2> HIDE DEF v
  <2>4. Fired(e) \in FuEntry /\ Fired(e).inst = e.inst
    BY <1>1, TraceAssumption DEF Fired, SchedEntry, FuEntry
  <2>5. Append(mul[v], Fired(e)) \in Seq(FuEntry)
    BY <2>3, <2>4, AppendProperties
  <2>6. ASSUME NEW id \in 1 .. N
        PROVE  Places(id)' = Places(id) + AsNumber(e.inst = id)
    <3>1. Occurrences(Append(mul[v], Fired(e)), id)
            = Occurrences(mul[v], id) + AsNumber(e.inst = id)
      BY <2>3, <2>4, OccAppend
    <3>2. Cardinality(MulSpots(mul', id)) = Cardinality(MulSpots(mul, id))
            - Occurrences(mul[v], id) + Occurrences(Append(mul[v], Fired(e)), id)
      BY <2>2, <2>3, <2>5, UnitTypes, MulExcept
    <3>3. Occurrences(mul[v], id) \in Nat  BY <2>3, UnitTypes, SpotsFinite
    <3>4. Places(id)' = Occurrences(alu, id) + Occurrences(lsu, id)
                          + Occurrences(complete_vec, id)
                          + Cardinality(MulSpots(mul', id))
      BY <1>1, <2>2, PlacesNext
    <3>5. AsNumber(e.inst = id) \in Nat  BY <1>3
    <3> QED  BY <3>1, <3>2, <3>3, <3>4, <3>5, PlacesSum
  <2> QED  BY <2>2, <2>6 DEF CountersOK, BusySlots, Busy, e
<1> QED  BY <1>2, <1>4, <1>5, <1>6

LEMMA PlacesSame ==
  ASSUME UNCHANGED <<alu, mul, lsu, complete_vec>>
  PROVE  \A id : Places(id)' = Places(id)
BY DEF Places, Occurrences

LEMMA FirePlacesOK ==
  ASSUME TypeOK, StationOrder, PlacesOK, CountersOK, ScheduleFire
  PROVE  PlacesOK' /\ CountersOK'
<1>1. /\ Len(sche_q') = Len(sche_q) /\ i \in 1 .. Len(sche_q)
      /\ \A k \in 1 .. Len(sche_q) : sche_q'[k] =
           IF k = i THEN [sche_q[k] EXCEPT !.scheduled = TRUE] ELSE sche_q[k]
  BY ScheduleFireInsts
<1>2. /\ \A k \in 1 .. Len(sche_q) : sche_q[k] \in SchedEntry
      /\ \A j, k \in 1 .. Len(sche_q) :
           sche_q[j].inst = sche_q[k].inst => j = k
  BY SchedEntries
<1>3. \A k \in 1 .. Len(sche_q) :
        /\ sche_q'[k].inst = sche_q[k].inst
        /\ sche_q'[k].scheduled <=> sche_q[k].scheduled \/ k = i
  BY <1>1, <1>2 DEF SchedEntry
<1>4. ~sche_q[i].scheduled  BY DEF ScheduleFire, CanFire
<1>5. ASSUME NEW id \in 1 .. N
      PROVE  AsNumber(HasFired(id)') = AsNumber(HasFired(id)) + AsNumber(sche_q[i].inst = id)
  <2>1. CASE sche_q[i].inst = id
    <3>1. ~HasFired(id)  BY <1>1, <1>2, <1>4, <2>1 DEF HasFired
    <3>2. HasFired(id)'  BY <1>1, <1>3, <2>1 DEF HasFired
    <3> QED  BY <2>1, <3>1, <3>2 DEF AsNumber
  <2>2. CASE sche_q[i].inst # id
    <3>1. HasFired(id)' <=> HasFired(id)  BY <1>1, <1>3, <2>2 DEF HasFired
    <3> QED  BY <2>2, <3>1 DEF AsNumber
  <2> QED  BY <2>1, <2>2
<1>6. /\ \A id \in 1 .. N : Places(id)' = Places(id) + AsNumber(sche_q[i].inst = id)
      /\ CountersOK'
  BY FirePlaces
<1>7. ASSUME NEW id \in 1 .. N PROVE Places(id)' = AsNumber(HasFired(id)')
  BY <1>5, <1>6 DEF PlacesOK
<1> QED  BY <1>6, <1>7 DEF PlacesOK, AsNumber

(* A new reservation station has not fired. *)
LEMMA DispatchPlaces ==
  ASSUME TypeOK, OrderInv, StationOrder, PlacesOK, CountersOK, DispatchInst
  PROVE  PlacesOK' /\ CountersOK'
<1>1. UNCHANGED <<alu, mul, lsu, alu_current, lsu_current, complete_vec>>
  BY DEF DispatchInst, fuVars
<1> DEFINE e == CreateEntry(Head(disp_q))
<1>2. /\ Len(sche_q) \in Nat /\ Len(sche_q') = Len(sche_q) + 1
      /\ \A k \in 1 .. Len(sche_q) : sche_q'[k] = sche_q[k]
      /\ sche_q'[Len(sche_q) + 1] = e
  <2>1. sche_q' = Append(sche_q, e)  BY DEF DispatchInst
  <2>2. sche_q \in Seq(SchedEntry)  BY DEF TypeOK, QueueTypeOK
  <2> HIDE DEF e
  <2> QED  BY <2>1, <2>2, AppendProperties, LenProperties
<1>3. ~e.scheduled  BY DEF CreateEntry
<1> HIDE DEF e
<1>4. ASSUME NEW id PROVE HasFired(id)' <=> HasFired(id)
  BY <1>2, <1>3 DEF HasFired
<1>5. \A id : Places(id)' = Places(id)  BY <1>1, PlacesSame
<1>6. ASSUME NEW id \in 1 .. N PROVE Places(id)' = AsNumber(HasFired(id)')
  BY <1>4, <1>5 DEF PlacesOK, AsNumber
<1> QED  BY <1>1, <1>6 DEF PlacesOK, CountersOK, BusySlots, Busy, AsNumber

(* The result that leaves the bus takes its reservation station along. *)
LEMMA ResultPlaces ==
  ASSUME TypeOK, OrderInv, StationOrder, DataInv, PlacesOK, CountersOK, ResultBus
  PROVE  PlacesOK' /\ CountersOK'
<1> DEFINE c == Head(complete_vec)
<1>1. /\ UNCHANGED <<alu, mul, lsu, alu_current, lsu_current>>
      /\ complete_vec # <<>> /\ complete_vec' = Tail(complete_vec)
  BY DEF ResultBus, fuVars
<1>2. complete_vec \in Seq(FuEntry) /\ Tail(complete_vec) \in Seq(FuEntry)
  BY <1>1, UnitTypes, HeadTailProperties
<1>3. \A id : Occurrences(complete_vec, id)
                = AsNumber(c.inst = id) + Occurrences(complete_vec', id)
  BY <1>1, <1>2, OccTail
<1>4. \A id : Occurrences(complete_vec', id) \in Nat
  BY <1>1, <1>2, LenProperties, SpotsFinite
<1>5. /\ \A k \in 1 .. Len(sche_q') :
           \E j \in 1 .. Len(sche_q) :
             sche_q[j].inst # c.inst /\ sche_q'[k] = Wakeup(sche_q[j], c)
      /\ \A j \in 1 .. Len(sche_q) : sche_q[j].inst # c.inst =>
           \E k \in 1 .. Len(sche_q') : sche_q'[k] = Wakeup(sche_q[j], c)
  BY ResultBusStations DEF StationOrder
<1>6. \A j \in 1 .. Len(sche_q) :
        /\ Wakeup(sche_q[j], c).inst = sche_q[j].inst
        /\ Wakeup(sche_q[j], c).scheduled = sche_q[j].scheduled
  BY SchedEntries DEF Wakeup, SchedEntry
<1>7. c.inst \in 1 .. N
  <2>1. Len(complete_vec) \in Nat \ {0} /\ c = complete_vec[1]
    BY <1>1, <1>2, EmptySeq, LenProperties, HeadTailProperties
  <2>2. c.inst \in 1 .. Dispatched  BY <2>1 DEF DataInv, ResultsOK, ResultOK
  <2> QED  BY <2>2, Counts DEF OrderInv, FetchAhead
<1> HIDE DEF c
<1>8. ASSUME NEW id \in 1 .. N
      PROVE  /\ Places(id) = AsNumber(c.inst = id) + Places(id)'
             /\ Places(id)' \in Nat
  <2>1. Places(id)' = Occurrences(alu, id) + Occurrences(lsu, id)
                        + Occurrences(complete_vec', id)
                        + Cardinality(MulSpots(mul, id))
    BY <1>1, PlacesNext
  <2>2. AsNumber(c.inst = id) \in Nat  BY DEF AsNumber
  <2> QED  BY <1>3, <1>4, <2>1, <2>2, PlacesSum
<1>9. ASSUME NEW id \in 1 .. N
      PROVE  HasFired(id)' <=> HasFired(id) /\ id # c.inst
  <2>1. ASSUME HasFired(id)' PROVE HasFired(id) /\ id # c.inst
    <3>1. PICK k \in 1 .. Len(sche_q') : sche_q'[k].inst = id
                                        /\ sche_q'[k].scheduled
      BY <2>1 DEF HasFired
    <3>2. PICK j \in 1 .. Len(sche_q) :
            sche_q[j].inst # c.inst /\ sche_q'[k] = Wakeup(sche_q[j], c)
      BY <1>5
    <3>3. sche_q[j].inst = id /\ sche_q[j].scheduled  BY <1>6, <3>1, <3>2
    <3> QED  BY <3>2, <3>3 DEF HasFired
  <2>2. ASSUME HasFired(id), id # c.inst PROVE HasFired(id)'
    <3>1. PICK j \in 1 .. Len(sche_q) : sche_q[j].inst = id
                                       /\ sche_q[j].scheduled
      BY <2>2 DEF HasFired
    <3>2. PICK k \in 1 .. Len(sche_q') : sche_q'[k] = Wakeup(sche_q[j], c)
      BY <1>5, <2>2, <3>1
    <3> QED  BY <1>6, <3>1, <3>2 DEF HasFired
  <2> QED  BY <2>1, <2>2
<1>10. ASSUME NEW id \in 1 .. N PROVE Places(id)' = AsNumber(HasFired(id)')
  <2>1. Places(id) = AsNumber(HasFired(id))  BY DEF PlacesOK
  <2>2. CASE id = c.inst
    <3>1. AsNumber(c.inst = id) = 1  BY <2>2 DEF AsNumber
    <3>2. Places(id) \in {0, 1}  BY <2>1 DEF AsNumber
    <3>3. Places(id)' = 0  BY <1>8, <3>1, <3>2
    <3>4. ~HasFired(id)'  BY <1>9, <2>2
    <3> QED  BY <3>3, <3>4 DEF AsNumber
  <2>3. CASE id # c.inst
    <3>1. AsNumber(c.inst = id) = 0  BY <2>3 DEF AsNumber
    <3>2. Places(id)' = Places(id)  BY <1>8, <3>1
    <3>3. HasFired(id)' <=> HasFired(id)  BY <1>9, <2>3
    <3> QED  BY <2>1, <3>2, <3>3 DEF AsNumber
  <2> QED  BY <2>2, <2>3
<1> QED  BY <1>1, <1>10 DEF PlacesOK, CountersOK, BusySlots, Busy, AsNumber

LEMMA QuietPlaces ==
  ASSUME PlacesOK, CountersOK, QuietStep, ~ResultBus, ~DispatchInst
  PROVE  PlacesOK' /\ CountersOK'
<1>1. UNCHANGED <<alu, mul, lsu, alu_current, lsu_current, complete_vec>>
  BY QuietFrame
<1>2. sche_q' = sche_q
  BY DEF QuietStep, Retire, RetireEntry, RetireDone, ExecDone, ResultBusDone,
    ScheduleSkip, ScheduleDone, Dispatch, DispatchNop, DispatchDone, Fetch,
    FetchNothing, FetchNop, FetchMiss, FetchInst, FetchDone, EndCycle, vars
<1>3. \A id : Places(id)' = Places(id)  BY <1>1, PlacesSame
<1> QED
  BY <1>1, <1>2, <1>3 DEF PlacesOK, CountersOK, BusySlots, Busy, HasFired, AsNumber

LEMMA PlacesInit == Init => PlacesOK /\ CountersOK
<1> SUFFICES ASSUME Init PROVE PlacesOK /\ CountersOK  OBVIOUS
<1>1. /\ complete_vec = <<>> /\ sche_q = <<>>
      /\ alu = [u \in 1 .. ALU_NUM |-> Free]
      /\ lsu = [u \in 1 .. LSU_NUM |-> Free]
      /\ mul = [u \in 1 .. MUL_NUM |-> <<>>]
      /\ alu_current = 0 /\ lsu_current = 0
  BY DEF Init
<1>2. \A u \in 1 .. ALU_NUM : ~Busy(alu[u]) /\ alu[u].inst = 0
  BY <1>1 DEF Free, Busy
<1>3. \A u \in 1 .. LSU_NUM : ~Busy(lsu[u]) /\ lsu[u].inst = 0
  BY <1>1 DEF Free, Busy
<1>4. BusySlots(alu, ALU_NUM) = {} /\ BusySlots(lsu, LSU_NUM) = {}
  BY <1>2, <1>3 DEF BusySlots
<1>5. ASSUME NEW id \in 1 .. N PROVE Places(id) = AsNumber(HasFired(id))
  <2>1. Spots(alu, id) = {} /\ Spots(lsu, id) = {}
    <3>1. Len(alu) = ALU_NUM /\ Len(lsu) = LSU_NUM
      BY <1>1, SizeAssumption
    <3> QED  BY <1>2, <1>3, <3>1 DEF Spots
  <2>2. Spots(complete_vec, id) = {}  BY <1>1 DEF Spots
  <2>3. MulSpots(mul, id) = {}  BY <1>1 DEF MulSpots
  <2>4. ~HasFired(id)  BY <1>1 DEF HasFired
  <2>5. /\ Occurrences(alu, id) = 0 /\ Occurrences(lsu, id) = 0
        /\ Occurrences(complete_vec, id) = 0
        /\ Cardinality(MulSpots(mul, id)) = 0
    BY <2>1, <2>2, <2>3, FS_EmptySet DEF Occurrences, Spots
  <2>6. Places(id) = 0 + 0 + 0 + 0  BY <2>5 DEF Places, MulSpots
  <2> QED  BY <2>4, <2>6 DEF AsNumber
<1>6. Cardinality({}) = 0  BY FS_EmptySet
<1> QED  BY <1>1, <1>4, <1>5, <1>6 DEF PlacesOK, CountersOK

LEMMA PlacesStep ==
  TypeOK /\ OrderInv /\ StationOrder /\ DataInv /\ PlacesOK /\ CountersOK
    /\ [Next]_vars => (PlacesOK /\ CountersOK)'
<1> SUFFICES ASSUME TypeOK, OrderInv, StationOrder, DataInv, PlacesOK,
                    CountersOK, [Next]_vars
             PROVE  PlacesOK' /\ CountersOK'
  OBVIOUS
<1>1. CASE AluCheck \/ MulCheck \/ LsuCheck
  <2>1. (\A id \in 1 .. N : Places(id)' = Places(id)) /\ CountersOK'
    BY <1>1, AluPlaces, MulPlaces, LsuPlaces
  <2>2. sche_q' = sche_q  BY <1>1 DEF AluCheck, MulCheck, LsuCheck
  <2> QED  BY <2>1, <2>2 DEF PlacesOK, HasFired, AsNumber
<1>2. CASE ScheduleFire  BY <1>2, FirePlacesOK
<1>3. CASE ResultBus     BY <1>3, ResultPlaces
<1>4. CASE DispatchInst  BY <1>4, DispatchPlaces
<1>5. CASE QuietStep /\ ~ResultBus /\ ~DispatchInst  BY <1>5, QuietPlaces
<1> QED  BY <1>1, <1>2, <1>3, <1>4, <1>5, UnitSteps

(* An instruction that has fired and not completed is in one unit or in    *)
(* the result list, once, and the counters of the units are the number of  *)
(* their busy slots (alu_current, lsu_current).                            *)
THEOREM PlacesInvariant == Spec => [](PlacesOK /\ CountersOK)
<1> QED
  BY PlacesStep, PlacesInit, TypeCorrect, OrderInvariant, StationInvariant,
     DataInvariant, PTL DEF Spec

(* Every fired instruction is executing or waiting for the result bus in   *)
(* exactly one place, no other is in any, and fu_has_room's counters agree *)
(* with the slots that push searches.                                      *)
THEOREM FiredOnceHolds == Spec => []FiredOnce
<1>1. TypeOK /\ OrderInv /\ StationOrder /\ PlacesOK /\ CountersOK => FiredOnce
  <2> SUFFICES ASSUME TypeOK, OrderInv, StationOrder, PlacesOK, CountersOK
               PROVE  FiredOnce
    OBVIOUS
  <2>1. ASSUME NEW k \in 1 .. Len(sche_q)
        PROVE  Places(sche_q[k].inst) = IF sche_q[k].scheduled THEN 1 ELSE 0
    <3>1. sche_q[k].inst \in 1 .. N
      BY SchedEntries, Counts DEF OrderInv, FetchAhead
    <3>2. HasFired(sche_q[k].inst) <=> sche_q[k].scheduled
      BY SchedEntries DEF HasFired
    <3> QED  BY <3>1, <3>2 DEF PlacesOK, AsNumber
  <2>2. ASSUME NEW id \in 1 .. N, Places(id) > 0 PROVE Holds(sche_q, id)
    <3>1. HasFired(id)  BY <2>2 DEF PlacesOK, AsNumber
    <3> QED  BY <3>1 DEF HasFired, Holds
  <2> QED  BY <2>1, <2>2 DEF FiredOnce, CountersOK, BusySlots
<1> QED
  BY <1>1, PlacesInvariant, TypeCorrect, OrderInvariant, StationInvariant, PTL

-----------------------------------------------------------------------------
(* Control *)

-----------------------------------------------------------------------------
(* Instruction cache misses *)

(* While a miss is served, and while finished_miss stands for one that was *)
(* served, the next instruction is the one that missed.                    *)
MissInv ==
  /\ in_icache_miss =>
       fetch_inst_idx < N /\ IcacheMiss(next_inst) /\ ~finished_miss
  /\ finished_miss =>
       fetch_inst_idx < N /\ IcacheMiss(next_inst) /\ ~in_icache_miss

LEMMA MissFrame ==
  ASSUME MissInv,
         UNCHANGED <<insts, fetch_inst_idx, in_icache_miss, finished_miss>>
  PROVE  MissInv'
BY DEF MissInv, IcacheMiss, next_inst

LEMMA MissStep ==
  ASSUME TypeOK, OrderInv, MissInv, [Next]_vars
  PROVE  MissInv'
<1>1. CASE FetchMiss
  BY <1>1 DEF FetchMiss, ReadAvailable, MissInv, IcacheMiss, next_inst,
              traceVars
<1>2. ASSUME NEW prediction \in BOOLEAN, FetchInst(prediction) PROVE MissInv'
  <2>1. ~in_icache_miss' /\ ~finished_miss'
    BY <1>2 DEF FetchInst, ReadAvailable, MissInv
  <2> QED  BY <2>1 DEF MissInv
<1>3. CASE EndCycle
  <2>1. fetch_inst_idx' = fetch_inst_idx /\ insts' = insts
    BY <1>3 DEF EndCycle, RedirectIdx, OrderInv, RedirectSafe, traceVars
  <2>2. /\ in_icache_miss' = (in_icache_miss /\ ~MissServed)
        /\ finished_miss' = (finished_miss \/ MissServed)
    BY <1>3 DEF EndCycle
  <2> QED
    BY <2>1, <2>2 DEF MissInv, MissServed, IcacheMiss, next_inst
<1>4. CASE Retire \/ Exec \/ Schedule \/ Dispatch \/ FetchNothing \/ FetchNop
             \/ FetchDone \/ Terminated \/ UNCHANGED vars
  <2>1. UNCHANGED <<insts, fetch_inst_idx, in_icache_miss, finished_miss>>
    BY <1>4 DEF Retire, RetireEntry, RetireDone, Exec, AluCheck, MulCheck,
      LsuCheck, ExecDone, ResultBus, ResultBusDone, Schedule, ScheduleFire,
      ScheduleSkip, ScheduleDone, Dispatch, DispatchInst, DispatchNop,
      DispatchDone, FetchNothing, FetchNop, FetchDone, Terminated, vars,
      traceVars, driverVars
  <2> QED  BY <2>1, MissFrame
<1> QED  BY <1>1, <1>2, <1>3, <1>4 DEF Next, Fetch

(* finished_miss lets through the instruction that missed and no other.    *)
THEOREM FinishedMissFreshHolds == Spec => []FinishedMissFresh
<1>1. Init => MissInv  BY DEF Init, MissInv
<1>2. TypeOK /\ OrderInv /\ MissInv /\ [Next]_vars => MissInv'  BY MissStep
<1>3. MissInv => FinishedMissFresh  BY DEF MissInv, FinishedMissFresh
<1> QED  BY <1>1, <1>2, <1>3, TypeCorrect, OrderInvariant, PTL DEF Spec

-----------------------------------------------------------------------------
(* The order of firing *)

(* What the schedule loop has passed and left waiting, though ready, found *)
(* no room, and room only shrinks while the loop runs.                     *)
PassedOver ==
  stage = "schedule" =>
    \A j \in 1 .. Len(sche_q) :
      j < i /\ ~sche_q[j].scheduled /\ InstReady(sche_q[j])
        => ~FuHasRoom(sche_q[j].inst)

LEMMA RoomShrinks ==
  ASSUME TypeOK, ScheduleFire, NEW id \in 1 .. N, ~FuHasRoom(id)
  PROVE  ~FuHasRoom(id)'
<1>1. /\ alu_current' \in Int /\ alu_current' >= alu_current
      /\ lsu_current' \in Int /\ lsu_current' >= lsu_current
      /\ mul_current' \in Int /\ mul_current' >= mul_current
  BY UnitTypes DEF ScheduleFire, FireAlu, FireMul, FireLsu, PushCount
<1>2. insts' = insts  BY DEF ScheduleFire, traceVars
<1> DEFINE m == MUL_NUM % 32
<1>3. m \in Int  BY MaskUnits DEF MUL_MASK_UNITS
<1>4. FuHasRoom(id) <=> \/ IsAluOp(id) /\ alu_current < ALU_NUM
                        \/ IsMulOp(id) /\ mul_current < m
                        \/ IsLoadStore(id) /\ lsu_current < LSU_NUM
  BY DEF FuHasRoom, MUL_MASK_UNITS
<1>5. FuHasRoom(id)' <=> \/ IsAluOp(id) /\ alu_current' < ALU_NUM
                         \/ IsMulOp(id) /\ mul_current' < m
                         \/ IsLoadStore(id) /\ lsu_current' < LSU_NUM
  BY <1>2 DEF FuHasRoom, MUL_MASK_UNITS, IsAluOp, IsMulOp, IsLoadStore, Op
<1> HIDE DEF m
<1> QED  BY <1>1, <1>3, <1>4, <1>5, UnitTypes

LEMMA PassedOverStep ==
  ASSUME TypeOK, OrderInv, StationOrder, PassedOver, [Next]_vars
  PROVE  PassedOver'
<1>1. CASE ScheduleFire
  <2>1. /\ Len(sche_q') = Len(sche_q) /\ i \in 1 .. Len(sche_q)
        /\ \A k \in 1 .. Len(sche_q) : sche_q'[k] =
             IF k = i THEN [sche_q[k] EXCEPT !.scheduled = TRUE] ELSE sche_q[k]
    BY <1>1, ScheduleFireInsts
  <2>2. stage = "schedule" /\ i' = i + 1 /\ insts' = insts
    BY <1>1 DEF ScheduleFire, traceVars
  <2>3. \A k \in 1 .. Len(sche_q) : sche_q[k] \in SchedEntry
                                   /\ sche_q[k].inst \in 1 .. N
    BY SchedEntries DEF SchedEntry
  <2>4. ASSUME NEW j \in 1 .. Len(sche_q'), j < i',
               ~(sche_q[j].scheduled)', InstReady(sche_q[j])'
        PROVE  ~FuHasRoom(sche_q[j].inst)'
    <3>1. j # i  BY <2>1, <2>3, <2>4 DEF SchedEntry
    <3>2. j \in 1 .. Len(sche_q) /\ j < i /\ sche_q'[j] = sche_q[j]
      <4>1. j \in 1 .. Len(sche_q)  BY <2>1, <2>4
      <4>2. j < i  BY <2>2, <2>4, <3>1, <4>1, UnitTypes
      <4> QED  BY <2>1, <3>1, <4>1, <4>2
    <3>3. InstReady(sche_q[j])
      BY <2>2, <2>4, <3>2 DEF InstReady, IsLoadStore, Op
    <3>4. PICK id \in 1 .. N : id = sche_q[j].inst  BY <2>3, <3>2
    <3>5. ~FuHasRoom(id)
      BY <2>2, <2>4, <3>2, <3>3, <3>4 DEF PassedOver
    <3>6. ~FuHasRoom(id)'  BY <1>1, <3>5, RoomShrinks
    <3>7. (sche_q[j].inst)' = id  BY <3>2, <3>4
    <3> QED
      BY <3>6, <3>7
      DEF FuHasRoom, IsAluOp, IsMulOp, IsLoadStore, Op, MUL_MASK_UNITS
  <2> QED  BY <2>4 DEF PassedOver
<1>2. CASE ScheduleSkip
  BY <1>2, UnitTypes DEF ScheduleSkip, CanFire, PassedOver, InstReady,
     FuHasRoom, IsAluOp, IsMulOp, IsLoadStore, Op, fuVars, traceVars,
     MUL_MASK_UNITS
<1>3. CASE ResultBusDone
  <2>1. i' = 1 /\ sche_q' = sche_q  BY <1>3 DEF ResultBusDone
  <2> QED  BY <2>1 DEF PassedOver
<1>4. CASE UNCHANGED vars
  BY <1>4 DEF vars, loopVars, fuVars, traceVars, PassedOver, InstReady,
     FuHasRoom, IsAluOp, IsMulOp, IsLoadStore, Op, MUL_MASK_UNITS
<1>5. CASE Retire \/ AluCheck \/ MulCheck \/ LsuCheck \/ ExecDone \/ ResultBus
             \/ ScheduleDone \/ Dispatch \/ Fetch \/ EndCycle
  <2>1. stage' # "schedule"
    BY <1>5 DEF Retire, RetireEntry, RetireDone, AluCheck, MulCheck, LsuCheck,
      ExecDone, ResultBus, ScheduleDone, Dispatch, DispatchInst, DispatchNop,
      DispatchDone, Fetch, FetchNothing, FetchNop, FetchMiss, FetchInst,
      FetchDone, EndCycle
  <2> QED  BY <2>1 DEF PassedOver
<1> QED
  BY <1>1, <1>2, <1>3, <1>4, <1>5 DEF Next, Exec, Schedule, Terminated

(* Of the ready instructions that want one kind of unit, the oldest fires  *)
(* first, although erase takes completed entries out of the queue's middle *)
(* and a full unit makes the loop pass over entries.                       *)
THEOREM OldestReadyFirstHolds == Spec => OldestReadyFirst
<1>1. Init => PassedOver  BY DEF Init, PassedOver
<1>2. TypeOK /\ OrderInv /\ StationOrder /\ PassedOver /\ [Next]_vars
        => PassedOver'
  BY PassedOverStep
<1>3. TypeOK /\ StationOrder /\ PassedOver /\ [Next]_vars
        => [stage = "schedule" /\ sche_q' # sche_q =>
              \A j \in 1 .. Len(sche_q) :
                /\ sche_q[j].inst < sche_q[i].inst
                /\ SameUnit(sche_q[j].inst, sche_q[i].inst)
                /\ InstReady(sche_q[j])
                => sche_q[j].scheduled]_vars
  <2> SUFFICES ASSUME TypeOK, StationOrder, PassedOver, [Next]_vars,
                      stage = "schedule", sche_q' # sche_q,
                      NEW j \in 1 .. Len(sche_q),
                      sche_q[j].inst < sche_q[i].inst,
                      SameUnit(sche_q[j].inst, sche_q[i].inst),
                      InstReady(sche_q[j])
               PROVE  sche_q[j].scheduled
    OBVIOUS
  <2>1. ScheduleFire
    BY DEF Next, Retire, RetireEntry, RetireDone, Exec, AluCheck, MulCheck,
      LsuCheck, ExecDone, ResultBus, ResultBusDone, Schedule, ScheduleSkip,
      ScheduleDone, Dispatch, DispatchInst, DispatchNop, DispatchDone, Fetch,
      FetchNothing, FetchNop, FetchMiss, FetchInst, FetchDone, EndCycle,
      Terminated, vars
  <2>2. i \in 1 .. Len(sche_q) /\ FuHasRoom(sche_q[i].inst)
    BY <2>1, ScheduleFireInsts DEF ScheduleFire, CanFire
  <2>3. /\ Len(sche_q) \in Nat
        /\ \A k \in 1 .. Len(sche_q) : sche_q[k].inst \in Nat
    BY SchedEntries
  <2>4. j < i
    <3>1. ~(i < j) /\ i # j  BY <2>2, <2>3 DEF StationOrder
    <3> QED  BY <2>2, <2>3, <3>1
  <2>5. FuHasRoom(sche_q[j].inst)
    BY <2>2 DEF FuHasRoom, SameUnit, IsAluOp, IsMulOp, IsLoadStore
  <2> QED  BY <2>4, <2>5 DEF PassedOver
<1> QED
  BY <1>1, <1>2, <1>3, TypeCorrect, OrderInvariant, StationInvariant, PTL
  DEF Spec, OldestReadyFirst

-----------------------------------------------------------------------------
(* Mispredicted branches *)

(* Nothing follows a mispredicted branch into the dispatch queue, not even *)
(* a NOP: fetch gets MISPRED and leaves the queue alone.                   *)
BranchLast ==
  in_mispred => disp_q = <<>> \/ disp_q[Len(disp_q)] = fetch_inst_idx

LEMMA TailLast ==
  ASSUME NEW q \in Seq(0 .. N), q # <<>>
  PROVE  \/ Tail(q) = <<>>
         \/ Tail(q)[Len(Tail(q))] = q[Len(q)]
<1>1. /\ Tail(q) \in Seq(0 .. N) /\ Len(Tail(q)) = Len(q) - 1
      /\ \A k \in 1 .. Len(Tail(q)) : Tail(q)[k] = q[k + 1]
      /\ Len(q) \in Nat \ {0}
  BY HeadTailProperties, LenProperties, EmptySeq
<1>2. CASE Len(q) = 1
  <2>1. Len(Tail(q)) = 0  BY <1>1, <1>2
  <2> QED  BY <1>1, <2>1, EmptySeq
<1>3. CASE Len(q) # 1
  <2>1. Len(Tail(q)) \in 1 .. Len(Tail(q)) /\ Len(Tail(q)) + 1 = Len(q)
    BY <1>1, <1>3
  <2> QED  BY <1>1, <2>1
<1> QED  BY <1>2, <1>3

LEMMA BranchLastStep ==
  ASSUME TypeOK, OrderInv, BranchLast, [Next]_vars
  PROVE  BranchLast'
<1>1. disp_q \in Seq(0 .. N)  BY DEF TypeOK, QueueTypeOK
<1>2. CASE DispatchInst \/ DispatchNop
  <2>1. /\ disp_q # <<>> /\ disp_q' = Tail(disp_q)
        /\ UNCHANGED <<in_mispred, fetch_inst_idx>>
    BY <1>2 DEF DispatchInst, DispatchNop, CanDispatch, driverVars
  <2> QED  BY <1>1, <2>1, TailLast DEF BranchLast
<1>3. CASE FetchNop \/ FetchMiss
  <2>1. ~in_mispred'
    BY <1>3 DEF FetchNop, FetchMiss, ReadMissing, ReadAvailable, driverVars
  <2> QED  BY <2>1 DEF BranchLast
<1>4. ASSUME NEW prediction \in BOOLEAN, FetchInst(prediction)
      PROVE  BranchLast'
  <2>1. disp_q' = Append(disp_q, next_inst) /\ fetch_inst_idx' = next_inst
    BY <1>4 DEF FetchInst, next_inst
  <2>2. next_inst \in 0 .. N
    BY <1>4, Counts DEF FetchInst, ReadAvailable, next_inst
  <2>3. disp_q'[Len(disp_q')] = next_inst
    BY <1>1, <2>1, <2>2, AppendProperties, LenProperties
  <2> QED  BY <2>1, <2>3 DEF BranchLast
<1>5. CASE EndCycle
  <2>1. /\ in_mispred' => in_mispred
        /\ disp_q' = disp_q /\ fetch_inst_idx' = fetch_inst_idx
    BY <1>5 DEF EndCycle, RedirectIdx, OrderInv, RedirectSafe
  <2> QED  BY <2>1 DEF BranchLast
<1>6. CASE Retire \/ Exec \/ Schedule \/ DispatchDone \/ FetchNothing
             \/ FetchDone \/ Terminated \/ UNCHANGED vars
  <2>1. UNCHANGED <<in_mispred, disp_q, fetch_inst_idx>>
    BY <1>6 DEF Retire, RetireEntry, RetireDone, Exec, AluCheck, MulCheck,
      LsuCheck, ExecDone, ResultBus, ResultBusDone, Schedule, ScheduleFire,
      ScheduleSkip, ScheduleDone, DispatchDone, FetchNothing, FetchDone,
      Terminated, vars, driverVars
  <2> QED  BY <2>1 DEF BranchLast
<1> QED  BY <1>2, <1>3, <1>4, <1>5, <1>6 DEF Next, Dispatch, Fetch

(* When all that was fetched has completed and the last of it is a         *)
(* mispredicted branch, nothing is left in the queues and the units.       *)
LEMMA AllDrained ==
  ASSUME TypeOK, OrderInv, StationOrder, DataInv, PlacesOK, BranchLast,
         in_mispred, fetch_inst_idx = Dispatched, Dispatched > 0,
         \A w \in 1 .. Dispatched : Completed(w)
  PROVE  /\ sche_q = <<>> /\ disp_q = <<>> /\ complete_vec = <<>>
         /\ \A u \in 1 .. ALU_NUM : ~Busy(alu[u])
         /\ \A u \in 1 .. MUL_NUM : mul[u] = <<>>
         /\ \A u \in 1 .. LSU_NUM : ~Busy(lsu[u])
         /\ \A r \in Reg : rf[r].ready
         /\ \A m \in MatReg : mat[m].ready
<1>1. sche_q = <<>>
  <2>1. sche_q \in Seq(SchedEntry) /\ Len(sche_q) \in Nat
    BY SchedEntries DEF TypeOK, QueueTypeOK
  <2>2. \A k \in 1 .. Len(sche_q) : FALSE  BY DEF StationOrder
  <2>3. Len(sche_q) = 0
    <3>1. CASE Len(sche_q) # 0
      <4>1. 1 \in 1 .. Len(sche_q)  BY <2>1, <3>1
      <4> QED  BY <2>2, <4>1
    <3> QED  BY <3>1
  <2> QED  BY <2>1, <2>3, EmptySeq
<1>2. disp_q = <<>>
  <2> SUFFICES ASSUME disp_q # <<>> PROVE FALSE  OBVIOUS
  <2>1. disp_q \in Seq(0 .. N) /\ Len(disp_q) \in Nat \ {0}
    BY EmptySeq, LenProperties DEF TypeOK, QueueTypeOK
  <2> DEFINE last == Len(disp_q)
  <2>2. last \in 1 .. Len(disp_q) /\ disp_q[last] = Dispatched
    BY <2>1 DEF BranchLast
  <2>3. disp_q[last] # NOP  BY <2>2 DEF NOP
  <2>4. \A k \in 1 .. Len(disp_q) : disp_q[k] # NOP =>
          disp_q[k] \in Dispatched + 1 .. fetch_inst_idx
    BY Counts, QueueMembers DEF OrderInv, DispQOrder
  <2>5. Dispatched \in Dispatched + 1 .. fetch_inst_idx  BY <2>2, <2>3, <2>4
  <2> QED  BY <2>5, Counts
<1>3. Dispatched <= N /\ Dispatched \in Nat  BY Counts DEF OrderInv, FetchAhead
<1>4. ASSUME NEW c, ResultOK(c) PROVE c.inst \in 1 .. N
  <2>1. c.inst \in 1 .. Dispatched  BY <1>4 DEF ResultOK
  <2> QED  BY <1>3, <2>1, TraceAssumption
<1>5. ASSUME NEW id \in 1 .. N
      PROVE  /\ ~Holds(alu, id) /\ ~Holds(lsu, id) /\ ~Holds(complete_vec, id)
             /\ MulSpots(mul, id) = {}
  <2>1. ~HasFired(id)  BY <1>1 DEF HasFired
  <2>2. Places(id) = 0  BY <2>1 DEF PlacesOK, AsNumber
  <2>3. /\ Occurrences(alu, id) = 0 /\ Occurrences(lsu, id) = 0
        /\ Occurrences(complete_vec, id) = 0
        /\ Cardinality(MulSpots(mul, id)) = 0
    BY <2>2, PlacesSum
  <2>4. Len(alu) \in Nat /\ Len(lsu) \in Nat /\ Len(complete_vec) \in Nat
    BY UnitTypes, SlotsAreSeq
  <2>5. MulSpots(mul, id) = {}
    <3>1. CASE MUL_NUM = 0  BY <3>1 DEF MulSpots
    <3>2. CASE MUL_NUM # 0
      <4>1. 1 \in 1 .. MUL_NUM /\ mul[1] \in Seq(FuEntry)
        BY <3>2, UnitTypes
      <4>2. IsFiniteSet(MulSpots(mul, id))  BY <4>1, UnitTypes, MulExcept
      <4> QED  BY <2>3, <4>2, FS_EmptySet
    <3> QED  BY <3>1, <3>2
  <2> QED  BY <2>3, <2>4, <2>5, SpotsFinite
<1>6. complete_vec = <<>>
  <2>1. complete_vec \in Seq(FuEntry) /\ Len(complete_vec) \in Nat
    BY UnitTypes
  <2>2. Len(complete_vec) = 0
    <3>1. CASE Len(complete_vec) # 0
      <4>1. 1 \in 1 .. Len(complete_vec)  BY <2>1, <3>1
      <4>2. complete_vec[1].inst \in 1 .. N
        <5>1. ResultOK(complete_vec[1])  BY <4>1 DEF DataInv, ResultsOK
        <5> QED  BY <1>4, <5>1
      <4> QED  BY <1>5, <4>1, <4>2 DEF Holds
    <3> QED  BY <3>1
  <2> QED  BY <2>1, <2>2, EmptySeq
<1>7. ASSUME NEW u \in 1 .. ALU_NUM PROVE ~Busy(alu[u])
  <2> SUFFICES ASSUME Busy(alu[u]) PROVE FALSE  OBVIOUS
  <2>1. alu[u].inst \in 1 .. N
    <3>1. ResultOK(alu[u])  BY DEF DataInv, UnitsOK
    <3> QED  BY <1>4, <3>1
  <2>2. Len(alu) = ALU_NUM  BY UnitTypes, SlotsAreSeq
  <2> QED  BY <1>5, <2>1, <2>2 DEF Holds
<1>8. ASSUME NEW u \in 1 .. LSU_NUM PROVE ~Busy(lsu[u])
  <2> SUFFICES ASSUME Busy(lsu[u]) PROVE FALSE  OBVIOUS
  <2>1. lsu[u].inst \in 1 .. N
    <3>1. ResultOK(lsu[u])  BY DEF DataInv, UnitsOK
    <3> QED  BY <1>4, <3>1
  <2>2. Len(lsu) = LSU_NUM  BY UnitTypes, SlotsAreSeq
  <2> QED  BY <1>5, <2>1, <2>2 DEF Holds
<1>9. ASSUME NEW u \in 1 .. MUL_NUM PROVE mul[u] = <<>>
  <2>1. mul[u] \in Seq(FuEntry) /\ Len(mul[u]) \in Nat  BY UnitTypes
  <2>2. Len(mul[u]) = 0
    <3>1. CASE Len(mul[u]) # 0
      <4>1. 1 \in 1 .. Len(mul[u])  BY <2>1, <3>1
      <4>2. mul[u][1].inst \in 1 .. N
        <5>1. ResultOK(mul[u][1])  BY <4>1 DEF DataInv, UnitsOK
        <5> QED  BY <1>4, <5>1
      <4>3. <<u, 1>> \in MulSpots(mul, mul[u][1].inst)
        BY <4>1 DEF MulSpots
      <4> QED  BY <1>5, <4>2, <4>3
    <3> QED  BY <3>1
  <2> QED  BY <2>1, <2>2, EmptySeq
<1>10. (\A r \in Reg : rf[r].ready) /\ (\A m \in MatReg : mat[m].ready)
  BY DEF DataInv, TablesOK, RegOK, MatOK
<1> QED  BY <1>1, <1>2, <1>6, <1>7, <1>8, <1>9, <1>10

LEMMA RetireDrains ==
  ASSUME TypeOK, OrderInv, StationOrder, DataInv, PlacesOK, BranchLast,
         RetireEntry, MispredictAtHead
  PROVE  MispredictDrained'
<1>1. /\ rob # <<>> /\ rob' = Tail(rob) /\ retire_count' = retire_count + 1
      /\ Head(rob).finished
      /\ UNCHANGED <<insts, disp_q, sche_q, complete_vec, alu, mul, lsu, rf, mat,
                     fetch_inst_idx, retired_inst_idx, in_mispred>>
  BY DEF RetireEntry, CanRetire, driverVars, traceVars, fuVars, renameVars
<1>2. /\ rob \in Seq(RobEntry) /\ Len(rob) \in Nat \ {0}
      /\ Tail(rob) \in Seq(RobEntry) /\ Len(Tail(rob)) = Len(rob) - 1
      /\ Head(rob) = rob[1]
  BY <1>1, HeadTailProperties, EmptySeq, LenProperties DEF TypeOK, QueueTypeOK
<1>3. /\ Head(rob).inst = Retired + 1 /\ Retired + 1 <= fetch_inst_idx
      /\ Retired \in Nat /\ fetch_inst_idx \in Nat
  BY <1>2, Counts DEF OrderInv, RobOrder, FetchAhead, Dispatched
<1>4. fetch_inst_idx = Retired + 1 /\ in_mispred
  <2>1. mispredict[Retired + 1]  BY <1>3 DEF MispredictAtHead
  <2>2. ~(Retired + 1 <= fetch_inst_idx - 1)
    BY <1>3, <2>1 DEF OrderInv, NothingPastMispredict
  <2>3. fetch_inst_idx = Retired + 1  BY <1>3, <2>2
  <2> QED  BY <1>3, <2>1, <2>3 DEF OrderInv, MispredictKnown
<1>5. Len(rob) = 1 /\ Dispatched = Retired + 1
  BY <1>2, <1>3, <1>4 DEF OrderInv, FetchAhead, Dispatched
<1>6. \A w \in 1 .. Dispatched : Completed(w)
  <2>1. 1 \in 1 .. Len(rob)  BY <1>2
  <2>2. Completed(Retired + 1)  BY <1>1, <1>2, <1>3, <2>1 DEF Completed
  <2> QED  BY <1>3, <1>5, <2>2 DEF Completed
<1>7. rob' = <<>>  BY <1>1, <1>2, <1>5, EmptySeq
<1>8. Retired' = Retired + 1
  BY <1>1, Counts DEF Retired
<1>9. /\ sche_q = <<>> /\ disp_q = <<>> /\ complete_vec = <<>>
      /\ \A u \in 1 .. ALU_NUM : ~Busy(alu[u])
      /\ \A u \in 1 .. MUL_NUM : mul[u] = <<>>
      /\ \A u \in 1 .. LSU_NUM : ~Busy(lsu[u])
      /\ \A r \in Reg : rf[r].ready
      /\ \A m \in MatReg : mat[m].ready
  BY <1>3, <1>4, <1>5, <1>6, AllDrained
<1> QED
  BY <1>1, <1>4, <1>7, <1>8, <1>9 DEF MispredictDrained, Busy

(* Between that retirement and the end of the cycle nothing runs. *)
LEMMA DrainedStep ==
  ASSUME TypeOK, OrderInv, StationOrder, DataInv, PlacesOK, BranchLast,
         MispredictDrained, [Next]_vars
  PROVE  MispredictDrained'
<1>1. CASE RetireEntry
  <2>1. retired_mispredict' = MispredictAtHead  BY <1>1 DEF RetireEntry
  <2> QED  BY <1>1, <2>1, RetireDrains DEF MispredictDrained
<1>2. CASE EndCycle
  <2>1. retired_mispredict' = FALSE  BY <1>2 DEF EndCycle
  <2> QED  BY <2>1 DEF MispredictDrained
<1>3. CASE UNCHANGED vars
  <2>1. UNCHANGED <<rob, sche_q, disp_q, complete_vec, alu, mul, lsu, rf, mat,
                    in_mispred, fetch_inst_idx, retired_mispredict>>
        /\ Retired' = Retired
    BY <1>3 DEF vars, fuVars, renameVars, driverVars, cycleVars, Retired
  <2> QED  BY <2>1 DEF MispredictDrained, Busy
<1>4. CASE RetireDone \/ Exec \/ Schedule \/ Dispatch \/ Fetch
  <2>1. stage # "end_cycle" /\ retired_mispredict' = retired_mispredict
    BY <1>4 DEF RetireDone, Exec, AluCheck, MulCheck, LsuCheck, ExecDone,
      ResultBus, ResultBusDone, Schedule, ScheduleFire, ScheduleSkip,
      ScheduleDone, Dispatch, DispatchInst, DispatchNop, DispatchDone, Fetch,
      FetchNothing, FetchNop, FetchMiss, FetchInst, FetchDone, cycleVars
  <2>2. ~retired_mispredict'  BY <2>1 DEF OrderInv, RedirectSafe
  <2> QED  BY <2>2 DEF MispredictDrained
<1> QED  BY <1>1, <1>2, <1>3, <1>4 DEF Next, Retire, Terminated

(* A mispredicted branch retires from an otherwise empty machine, which is *)
(* why nothing has to be squashed.                                         *)
THEOREM MispredictDrainedHolds == Spec => []MispredictDrained
<1>1. Init => BranchLast /\ MispredictDrained
  BY DEF Init, BranchLast, MispredictDrained
<1>2. TypeOK /\ OrderInv /\ BranchLast /\ [Next]_vars => BranchLast'
  BY BranchLastStep
<1>3. TypeOK /\ OrderInv /\ StationOrder /\ DataInv /\ PlacesOK /\ BranchLast
        /\ MispredictDrained /\ [Next]_vars => MispredictDrained'
  BY DrainedStep
<1> QED
  BY <1>1, <1>2, <1>3, TypeCorrect, OrderInvariant, StationInvariant,
     DataInvariant, PlacesInvariant, PTL DEF Spec

-----------------------------------------------------------------------------
(* How long the next instruction to retire can take *)

Longer(m, n) == IF m < n THEN n ELSE m
LONGEST ==
  Longer(MUL_STAGES, Longer(L1_HIT_CYCLES, Longer(L2_HIT_CYCLES, L2_MISS_CYCLES)))

(* From the fetch of an instruction by an idle machine to its retirement:  *)
(* the NOPs in front of it, DISPQ_ENTRIES at most, leave the dispatch      *)
(* queue in REG_NUM cycles, then it is dispatched, fired and executed.     *)
FETCHED_LIMIT == REG_NUM + LONGEST + 2

(* From any state, if the instruction cache has to be waited for first. *)
RETIRE_LIMIT == LONGEST + FETCHED_LIMIT

(* One unit of each kind that can be fed, and room for an instruction on   *)
(* its way to them: without that some traces stop the machine.  A multiple *)
(* of 32 MUL units has an empty mask, as if there were none.               *)
Equipped ==
  /\ ALU_NUM > 0 /\ MUL_MASK_UNITS > 0 /\ LSU_NUM > 0
  /\ SCHEDQ_PER_FU > 0 /\ ROB_PER_WIDTH > 0

(* The cycles to come are counted by their ends.  In the middle of a cycle *)
(* a unit may have been visited by exec, and its count advanced, or not.   *)
AluTurn(u) ==
  IF stage = "retire" \/ (stage = "alu" /\ i <= u) THEN 0 ELSE 1
MulTurn(u) ==
  IF stage \in {"retire", "alu"} \/ (stage = "mul" /\ i <= u) THEN 0 ELSE 1
LsuTurn(u) ==
  IF stage \in {"retire", "alu", "mul"} \/ (stage = "lsu" /\ i <= u)
  THEN 0 ELSE 1
Past(stages) == IF stage \in stages THEN 1 ELSE 0

next_retired == Retired + 1

(* Each of the following says that the next instruction to retire is in a  *)
(* certain place and does so after at most d ends of cycles more.          *)
Finished(d) ==
  /\ rob # <<>> /\ Head(rob).finished
  /\ (IF stage = "retire" THEN 0 ELSE 1) <= d

InAlu(d) ==
  \E u \in 1 .. ALU_NUM :
    /\ alu[u].inst = next_retired
    /\ 1 - alu[u].fu_count + AluTurn(u) <= d
InMul(d) ==
  \E u \in 1 .. MUL_NUM : \E k \in 1 .. Len(mul[u]) :
    /\ mul[u][k].inst = next_retired
    /\ MUL_STAGES - mul[u][k].fu_count + MulTurn(u) <= d
InLsu(d) ==
  \E u \in 1 .. LSU_NUM :
    /\ lsu[u].inst = next_retired
    /\ CyclesNeeded(next_retired) - lsu[u].fu_count + LsuTurn(u) <= d
OnBus(d) ==
  /\ \E k \in 1 .. Len(complete_vec) : complete_vec[k].inst = next_retired
  /\ 1 <= d

(* It fires when schedule looks at it, which it does first of all... *)
Unfired == rob # <<>> /\ ~Head(rob).finished /\ ~Head(sche_q).scheduled
ToFire(d) ==
  /\ Unfired
  /\ ~(stage = "schedule" /\ i > 1)
  /\ IsLoadStore(next_retired) => \E u \in 1 .. LSU_NUM : ~Busy(lsu[u])
  /\ Past({"dispatch", "fetch", "end_cycle"}) + LONGEST + 1 <= d
(* ... or the LSUs are taken by younger loads that were ready before. *)
LsuTaken(d) ==
  /\ Unfired /\ IsLoadStore(next_retired)
  /\ \E u \in 1 .. LSU_NUM :
       /\ Busy(lsu[u])
       /\ CyclesNeeded(lsu[u].inst) - lsu[u].fu_count + LsuTurn(u) + LONGEST <= d

(* It is in the dispatch queue, and p - 1 NOPs are in front of it, of      *)
(* which FETCH_WIDTH leave in a cycle.                                     *)
NopsGone == IF stage = "dispatch" THEN nop_dispatch ELSE 0
ToDispatch(d) ==
  /\ rob = <<>>
  /\ \E p \in 1 .. Len(disp_q), v \in 0 .. REG_NUM :
       /\ disp_q[p] = next_retired
       /\ p + NopsGone <= (v + 1) * FETCH_WIDTH
       /\ v + Past({"fetch", "end_cycle"}) + LONGEST + 2 <= d

(* It has not been fetched. *)
Unfetched == rob = <<>> /\ fetch_inst_idx = Retired
RoomToFetch ==
  /\ stage = "dispatch" => Len(disp_q) + nop_dispatch <= DISPQ_ENTRIES
  /\ stage = "fetch" => fetch_count = 0 /\ Len(disp_q) < DISPQ_ENTRIES
FetchWait ==
  IF in_icache_miss THEN Longer(icache_miss_ctr, 1)
  ELSE Past({"end_cycle"})
         + IF IcacheMiss(next_inst) /\ ~finished_miss THEN LONGEST ELSE 0
ToFetch(d) ==
  /\ Unfetched
  /\ ~in_icache_miss => RoomToFetch
  /\ FetchWait + FETCHED_LIMIT <= d

Due(d) ==
  \/ Finished(d) \/ InAlu(d) \/ InMul(d) \/ InLsu(d) \/ OnBus(d)
  \/ ToFire(d) \/ LsuTaken(d) \/ ToDispatch(d) \/ ToFetch(d)

(* What cycles_since_last_retire is as of this cycle's end, less one. *)
Since == IF retire_count > 0 THEN -1 ELSE cycles_since_last_retire

-----------------------------------------------------------------------------
(* The invariant *)

Running == stage \notin {"finished", "deadlock"}

(* The result bus has been emptied, the ALUs are free when schedule comes  *)
(* to the first entry, and no MUL unit has been fed yet.                   *)
UnitsInTime ==
  /\ stage \in {"retire", "schedule", "dispatch", "fetch", "end_cycle"}
       => complete_vec = <<>>
  /\ \A u \in 1 .. ALU_NUM :
       \/ stage = "alu" /\ u < i
       \/ stage \in {"mul", "lsu", "result_bus"}
       \/ stage = "schedule" /\ i = 1
       => ~Busy(alu[u])
  /\ stage = "schedule" /\ i = 1 => mul_current = 0

(* What dispatch has put into the ROB is still there. *)
DispatchSeen == stage = "dispatch" /\ normal_dispatch > 0 => rob # <<>>

(* The misprediction that blocks fetching is of the last instruction       *)
(* fetched, until that retires.                                            *)
MispredictPending ==
  /\ \A id \in 1 .. N : mispredict[id] => Op(id) = "BRANCH"
  /\ in_mispred =>
       \/ retired_mispredict
       \/ fetch_inst_idx > Retired /\ mispredict[fetch_inst_idx]

MissCounted == icache_miss_ctr <= LONGEST

ControlInv ==
  /\ UnitsInTime /\ DispatchSeen /\ MispredictPending /\ MissCounted
  /\ Running => retired_inst_idx < N

(* The cycles that have gone by without a retirement and those until the   *)
(* next one are RETIRE_LIMIT at most.                                      *)
ProgressInv ==
  /\ stage # "deadlock"
  /\ Running /\ Retired < N =>
       \E d \in 0 .. RETIRE_LIMIT + 1 : Due(d) /\ Since + d <= RETIRE_LIMIT

-----------------------------------------------------------------------------
(* What is known of the machine *)

PipelineInv ==
  /\ TypeOK /\ OrderInv /\ StationOrder /\ DataInv
  /\ LatencyInv /\ PlacesOK /\ CountersOK

(* The steps of a cycle between its first retirement and its end. *)
MidStep == RetireDone \/ Exec \/ Schedule \/ Dispatch \/ Fetch

LEMMA MidFrame ==
  ASSUME MidStep
  PROVE  /\ UNCHANGED <<insts, retired_inst_idx, retire_count,
                        retired_mispredict, cycles_since_last_retire>>
         /\ Retired' = Retired /\ Since' = Since /\ next_retired' = next_retired
         /\ Running /\ Running' /\ stage # "end_cycle"
<1>1. /\ UNCHANGED <<insts, retired_inst_idx, retire_count, retired_mispredict,
                     cycles_since_last_retire>>
      /\ stage \in {"retire", "alu", "mul", "lsu", "result_bus", "schedule",
                    "dispatch", "fetch"}
      /\ stage' \in {"alu", "mul", "lsu", "result_bus", "schedule",
                     "dispatch", "fetch", "end_cycle"}
  BY DEF MidStep, RetireDone, Exec, AluCheck, MulCheck, LsuCheck, ExecDone,
    ResultBus, ResultBusDone, Schedule, ScheduleFire, ScheduleSkip,
    ScheduleDone, Dispatch, DispatchInst, DispatchNop, DispatchDone, Fetch,
    FetchNothing, FetchNop, FetchMiss, FetchInst, FetchDone, traceVars,
    driverVars, cycleVars
<1> QED  BY <1>1 DEF Retired, Since, next_retired, Running

LEMMA CycleSteps ==
  ASSUME [Next]_vars
  PROVE  RetireEntry \/ MidStep \/ EndCycle \/ UNCHANGED vars
BY DEF Next, Retire, Terminated, MidStep

LEMMA LimitSizes ==
  /\ LONGEST \in Nat \ {0} /\ MUL_STAGES <= LONGEST /\ L1_HIT_CYCLES <= LONGEST
  /\ L2_HIT_CYCLES <= LONGEST /\ L2_MISS_CYCLES <= LONGEST
  /\ MUL_STAGES = 3
  /\ REG_NUM \in Nat \ {0} /\ FETCHED_LIMIT = REG_NUM + LONGEST + 2
  /\ RETIRE_LIMIT = LONGEST + FETCHED_LIMIT
  /\ FETCHED_LIMIT \in Nat /\ RETIRE_LIMIT \in Nat
<1>1. /\ L1_HIT_CYCLES \in Nat \ {0} /\ L2_HIT_CYCLES \in Nat \ {0}
      /\ L2_MISS_CYCLES \in Nat \ {0} /\ REG_NUM \in Nat \ {0}
  BY LatencyAssumption, TraceAssumption
<1> QED
  BY <1>1 DEF LONGEST, Longer, MUL_STAGES, FETCHED_LIMIT, RETIRE_LIMIT

LEMMA LatencyBound ==
  ASSUME TypeOK, NEW id \in 1 .. N
  PROVE  /\ CyclesNeeded(id) \in 1 .. LONGEST
         /\ LatencyCycles(insts[id].icache) \in 1 .. LONGEST
<1>1. insts[id] \in Inst  BY DEF TypeOK, TraceTypeOK
<1>2. insts[id].dcache \in Latency /\ insts[id].icache \in Latency
  BY <1>1 DEF Inst
<1>3. \A level \in Latency : LatencyCycles(level) \in 1 .. LONGEST
  BY LimitSizes, LatencyAssumption DEF Latency, LatencyCycles
<1>4. 1 \in 1 .. LONGEST  BY LimitSizes
<1> QED  BY <1>2, <1>3, <1>4 DEF CyclesNeeded

-----------------------------------------------------------------------------
(* The side conditions are invariants *)

LEMMA UnitsInTimeStep ==
  ASSUME TypeOK, LatencyInv, UnitsInTime, [Next]_vars
  PROVE  UnitsInTime'
<1>1. CASE AluCheck
  <2>1. i \in 1 .. ALU_NUM /\ stage = "alu" /\ stage' = "alu" /\ i' = i + 1
    BY <1>1, UnitTypes DEF AluCheck
  <2>2. alu[i] \in FuEntry  BY <2>1, UnitTypes
  <2>3. Busy(alu[i]) => Aged(alu[i]).fu_count = 1
    BY <2>1, <2>2, AgedFields DEF LatencyInv, CountsBelowLatency
  <2>4. \/ alu' = [alu EXCEPT ![i] = Free]
        \/ ~Busy(alu[i]) /\ alu' = alu
    BY <1>1, <2>3 DEF AluCheck
  <2>5. ~Busy(Free) /\ alu \in [1 .. ALU_NUM -> FuEntry]
    BY UnitTypes DEF Busy, Free
  <2>6. ASSUME NEW u \in 1 .. ALU_NUM, u < i' PROVE ~Busy(alu'[u])
    <3>1. u = i \/ u < i  BY <2>1, <2>6
    <3>2. CASE u = i  BY <2>1, <2>4, <2>5, <3>2
    <3>3. CASE u < i
      <4>1. ~Busy(alu[u])  BY <2>1, <3>3 DEF UnitsInTime
      <4> QED  BY <2>1, <2>4, <2>5, <4>1
    <3> QED  BY <3>1, <3>2, <3>3
  <2> QED  BY <2>1, <2>6 DEF UnitsInTime, Busy
<1>2. CASE MulCheck \/ LsuCheck
  <2>1. alu' = alu /\ stage' = stage /\ stage \in {"mul", "lsu"}
    BY <1>2 DEF MulCheck, LsuCheck
  <2> QED  BY <2>1 DEF UnitsInTime, Busy
<1>3. CASE ScheduleFire
  <2>1. stage' = "schedule" /\ i' # 1 /\ complete_vec' = complete_vec
        /\ stage = "schedule"
    BY <1>3, UnitTypes DEF ScheduleFire
  <2> QED  BY <2>1 DEF UnitsInTime
<1>4. CASE QuietStep
  <2>1. alu' = alu /\ (~ResultBus => complete_vec' = complete_vec)
    BY <1>4, QuietFrame
  <2>2. CASE ExecDone
    <3>1. \/ stage = "alu" /\ i > ALU_NUM /\ stage' = "mul"
          \/ stage = "mul" /\ stage' = "lsu"
          \/ stage = "lsu" /\ stage' = "result_bus"
      BY <2>2 DEF ExecDone
    <3>2. \A u \in 1 .. ALU_NUM : i > ALU_NUM => u < i  BY UnitTypes
    <3> QED  BY <2>1, <3>1, <3>2 DEF UnitsInTime, Busy
  <2>3. CASE ResultBus
    <3>1. stage' = stage /\ stage = "result_bus"  BY <2>3 DEF ResultBus
    <3> QED  BY <2>1, <3>1 DEF UnitsInTime, Busy
  <2>4. CASE ResultBusDone
    <3>1. /\ stage = "result_bus" /\ stage' = "schedule" /\ mul_current' = 0
          /\ complete_vec' = <<>>
      BY <2>4 DEF ResultBusDone
    <3> QED  BY <2>1, <3>1 DEF UnitsInTime, Busy
  <2>5. CASE ScheduleSkip
    <3>1. stage' = "schedule" /\ i' # 1 /\ complete_vec' = complete_vec
          /\ stage = "schedule"
      BY <2>5, UnitTypes DEF ScheduleSkip
    <3> QED  BY <3>1 DEF UnitsInTime
  <2>6. CASE RetireDone
    <3>1. stage' = "alu" /\ i' = 1  BY <2>6 DEF RetireDone
    <3> QED  BY <3>1 DEF UnitsInTime
  <2>7. CASE RetireEntry \/ ScheduleDone \/ Dispatch \/ Fetch \/ EndCycle
    <3>1. /\ stage \in {"retire", "schedule", "dispatch", "fetch", "end_cycle"}
          /\ stage' \in {"retire", "dispatch", "fetch", "end_cycle",
                         "deadlock", "finished"}
          /\ complete_vec' = complete_vec
      BY <2>7 DEF RetireEntry, ScheduleDone, Dispatch, DispatchInst,
        DispatchNop, DispatchDone, Fetch, FetchNothing, FetchNop, FetchMiss,
        FetchInst, FetchDone, EndCycle
    <3> QED  BY <3>1 DEF UnitsInTime
  <2>8. CASE UNCHANGED vars
    <3>1. UNCHANGED <<stage, i, alu, mul_current, complete_vec>>
      BY <2>8 DEF vars, loopVars, fuVars
    <3> QED  BY <3>1 DEF UnitsInTime, Busy
  <2> QED
    BY <1>4, <2>2, <2>3, <2>4, <2>5, <2>6, <2>7, <2>8 DEF QuietStep, Retire
<1> QED  BY <1>1, <1>2, <1>3, <1>4, UnitSteps

LEMMA DispatchSeenStep ==
  ASSUME TypeOK, DispatchSeen, [Next]_vars
  PROVE  DispatchSeen'
<1>1. CASE DispatchInst
  <2>1. rob' = Append(rob, [inst |-> Head(disp_q), finished |-> FALSE])
    BY <1>1 DEF DispatchInst
  <2>2. rob' # <<>>  BY <2>1 DEF TypeOK, QueueTypeOK
  <2> QED  BY <2>2 DEF DispatchSeen
<1>2. CASE ScheduleDone
  BY <1>2 DEF ScheduleDone, DispatchSeen
<1>3. CASE DispatchNop \/ UNCHANGED vars
  <2>1. UNCHANGED <<stage, normal_dispatch, rob>>
    BY <1>3 DEF DispatchNop, vars, loopVars
  <2> QED  BY <2>1 DEF DispatchSeen
<1>4. CASE \/ Retire \/ Exec \/ ScheduleFire \/ ScheduleSkip \/ DispatchDone
           \/ Fetch \/ EndCycle
  <2>1. stage' # "dispatch"
    BY <1>4 DEF Retire, RetireEntry, RetireDone, Exec, AluCheck, MulCheck,
      LsuCheck, ExecDone, ResultBus, ResultBusDone, ScheduleFire, ScheduleSkip,
      DispatchDone, Fetch, FetchNothing, FetchNop, FetchMiss, FetchInst,
      FetchDone, EndCycle
  <2> QED  BY <2>1 DEF DispatchSeen
<1> QED  BY <1>1, <1>2, <1>3, <1>4 DEF Next, Schedule, Dispatch, Terminated

LEMMA MispredictPendingStep ==
  ASSUME TypeOK, OrderInv, MispredictPending, [Next]_vars
  PROVE  MispredictPending'
<1>0. /\ Retired \in Nat /\ fetch_inst_idx \in Nat /\ N \in Nat
      /\ mispredict \in [1 .. N -> BOOLEAN]
  BY Counts DEF TypeOK, TraceTypeOK
<1>1. CASE RetireEntry
  <2>1. /\ rob # <<>> /\ retire_count' = retire_count + 1
        /\ retired_mispredict' = MispredictAtHead
        /\ UNCHANGED <<insts, mispredict, in_mispred, fetch_inst_idx,
                       retired_inst_idx>>
        /\ stage = "retire"
    BY <1>1 DEF RetireEntry, CanRetire, traceVars, driverVars
  <2>2. Retired' = Retired + 1  BY <2>1, Counts DEF Retired
  <2>3. Head(rob).inst = Retired + 1
    BY <2>1, HeadTailProperties, EmptySeq, LenProperties
    DEF TypeOK, QueueTypeOK, OrderInv, RobOrder
  <2>4. ~retired_mispredict  BY <2>1 DEF OrderInv, RedirectSafe
  <2>5. ASSUME in_mispred
        PROVE  \/ retired_mispredict'
               \/ fetch_inst_idx' > Retired' /\ mispredict'[fetch_inst_idx']
    <3>1. fetch_inst_idx > Retired /\ mispredict[fetch_inst_idx]
      BY <2>4, <2>5 DEF MispredictPending
    <3>2. CASE fetch_inst_idx = Retired + 1
      <4>1. fetch_inst_idx \in 1 .. N
        BY <1>0, <3>1 DEF OrderInv, FetchAhead
      <4>2. MispredictAtHead
        BY <2>3, <3>1, <3>2, <4>1 DEF MispredictPending, MispredictAtHead
      <4> QED  BY <2>1, <4>2
    <3>3. CASE fetch_inst_idx > Retired + 1
      BY <1>0, <2>1, <2>2, <3>1, <3>3
    <3> QED  BY <1>0, <3>1, <3>2, <3>3
  <2> QED  BY <2>1, <2>5 DEF MispredictPending, Op
<1>2. ASSUME NEW prediction \in BOOLEAN, FetchInst(prediction)
      PROVE  MispredictPending'
  <2>1. /\ fetch_inst_idx < N /\ fetch_inst_idx' = fetch_inst_idx + 1
        /\ in_mispred' => Op(fetch_inst_idx + 1) = "BRANCH"
        /\ mispredict' = [mispredict EXCEPT ![fetch_inst_idx + 1] = in_mispred']
        /\ UNCHANGED <<insts, retired_inst_idx, retire_count>>
    BY <1>2 DEF FetchInst, ReadAvailable, next_inst, cycleVars
  <2>2. Retired' = Retired /\ Retired <= fetch_inst_idx
    BY <1>0, <2>1, Counts DEF Retired, OrderInv, FetchAhead, Dispatched
  <2>3. fetch_inst_idx + 1 \in 1 .. N  BY <1>0, <2>1
  <2>4. in_mispred' => fetch_inst_idx' > Retired' /\ mispredict'[fetch_inst_idx']
    BY <1>0, <2>1, <2>2, <2>3
  <2>5. \A id \in 1 .. N : mispredict'[id] => Op(id)' = "BRANCH"
    BY <1>0, <2>1, <2>3 DEF MispredictPending, Op
  <2> QED  BY <2>4, <2>5 DEF MispredictPending
<1>3. CASE EndCycle
  <2>1. /\ retired_inst_idx' = Retired /\ retire_count' = 0
        /\ in_mispred' => in_mispred /\ ~retired_mispredict
        /\ ~retired_mispredict => fetch_inst_idx' = fetch_inst_idx
        /\ UNCHANGED <<insts, mispredict>>
    BY <1>3 DEF EndCycle, traceVars
  <2>2. Retired' = Retired  BY <1>0, <2>1 DEF Retired
  <2> QED  BY <2>1, <2>2 DEF MispredictPending, Op
<1>4. CASE \/ RetireDone \/ Exec \/ Schedule \/ Dispatch \/ FetchNothing
           \/ FetchNop \/ FetchMiss \/ FetchDone \/ UNCHANGED vars
  <2>1. UNCHANGED <<insts, mispredict, in_mispred, fetch_inst_idx,
                    retired_inst_idx, retire_count, retired_mispredict>>
    BY <1>4 DEF RetireDone, Exec, AluCheck, MulCheck, LsuCheck, ExecDone,
      ResultBus, ResultBusDone, Schedule, ScheduleFire, ScheduleSkip,
      ScheduleDone, Dispatch, DispatchInst, DispatchNop, DispatchDone,
      FetchNothing, FetchNop, FetchMiss, FetchDone, traceVars, driverVars,
      cycleVars, vars
  <2> QED  BY <2>1 DEF MispredictPending, Op, Retired
<1> QED
  BY <1>1, <1>2, <1>3, <1>4 DEF Next, Retire, Fetch, Terminated

LEMMA MissCountedStep ==
  ASSUME TypeOK, OrderInv, MissCounted, [Next]_vars
  PROVE  MissCounted'
<1>1. CASE FetchMiss
  <2>1. /\ icache_miss_ctr' = LatencyCycles(insts[fetch_inst_idx + 1].icache)
        /\ fetch_inst_idx < N
    BY <1>1 DEF FetchMiss, next_inst, ReadAvailable
  <2>2. fetch_inst_idx + 1 \in 1 .. N  BY <2>1, Counts
  <2> QED  BY <2>1, <2>2, LatencyBound, LimitSizes DEF MissCounted
<1>2. CASE EndCycle
  <2>1. icache_miss_ctr' \in {icache_miss_ctr - 1, 0}  BY <1>2 DEF EndCycle
  <2> QED
    BY <2>1, LimitSizes DEF MissCounted, TypeOK, DriverTypeOK
<1>3. CASE ~FetchMiss /\ ~EndCycle
  <2>1. icache_miss_ctr' = icache_miss_ctr
    BY <1>3 DEF Next, Retire, RetireEntry, RetireDone, Exec, AluCheck, MulCheck,
      LsuCheck, ExecDone, ResultBus, ResultBusDone, Schedule, ScheduleFire,
      ScheduleSkip, ScheduleDone, Dispatch, DispatchInst, DispatchNop,
      DispatchDone, Fetch, FetchNothing, FetchNop, FetchInst, FetchDone,
      Terminated, driverVars, vars
  <2> QED  BY <2>1 DEF MissCounted
<1> QED  BY <1>1, <1>2, <1>3

LEMMA ControlStep ==
  ASSUME PipelineInv, ControlInv, [Next]_vars
  PROVE  ControlInv'
<1>1. UnitsInTime'  BY UnitsInTimeStep DEF PipelineInv, ControlInv
<1>2. DispatchSeen'  BY DispatchSeenStep DEF PipelineInv, ControlInv
<1>3. MispredictPending'  BY MispredictPendingStep DEF PipelineInv, ControlInv
<1>4. MissCounted'  BY MissCountedStep DEF PipelineInv, ControlInv
<1>5. Running' => retired_inst_idx' < N
  <2>1. CASE RetireEntry
    <3>1. retired_inst_idx' = retired_inst_idx /\ Running
      BY <2>1 DEF RetireEntry, driverVars, Running
    <3> QED  BY <3>1 DEF ControlInv
  <2>2. CASE MidStep  BY <2>2, MidFrame DEF ControlInv
  <2>3. CASE EndCycle
    <3>1. /\ retired_inst_idx' = Retired
          /\ Running' => Retired < N
      BY <2>3 DEF EndCycle, Running
    <3> QED  BY <3>1
  <2>4. CASE UNCHANGED vars
    <3>1. UNCHANGED <<retired_inst_idx, stage>>  BY <2>4 DEF vars, driverVars
    <3> QED  BY <3>1 DEF ControlInv, Running
  <2> QED  BY <2>1, <2>2, <2>3, <2>4, CycleSteps
<1> QED  BY <1>1, <1>2, <1>3, <1>4, <1>5 DEF ControlInv

-----------------------------------------------------------------------------
(* The head of the ROB *)

LEMMA PipelineStep ==
  ASSUME PipelineInv, [Next]_vars
  PROVE  PipelineInv'
<1>1. TypeOK' /\ OrderInv' /\ StationOrder' /\ DataInv'
  BY StepType, OrderStep, StationOrderStep, DataStep DEF PipelineInv
<1>2. LatencyInv'
  BY UnitSteps, LatencyAlu, LatencyMul, LatencyLsu, LatencyFire, LatencyQuiet
  DEF PipelineInv
<1>3. (PlacesOK /\ CountersOK)'  BY PlacesStep DEF PipelineInv
<1> QED  BY <1>1, <1>2, <1>3 DEF PipelineInv

LEMMA RobHead ==
  ASSUME TypeOK, OrderInv
  PROVE  /\ Retired \in Nat /\ next_retired \in Nat \ {0} /\ Len(rob) \in Nat
         /\ Dispatched = Retired + Len(rob)
         /\ rob # <<>> =>
              /\ Len(rob) >= 1 /\ Head(rob) = rob[1] /\ rob[1].inst = next_retired
              /\ next_retired \in 1 .. N /\ next_retired \in 1 .. Dispatched
              /\ Head(rob).finished \in BOOLEAN
              /\ Completed(next_retired) <=> Head(rob).finished
<1>1. Retired \in Nat /\ Len(rob) \in Nat /\ rob \in Seq(RobEntry) /\ N \in Nat
  BY Counts DEF TypeOK, QueueTypeOK
<1>2. Dispatched = Retired + Len(rob)  BY DEF Dispatched
<1>3. ASSUME rob # <<>>
      PROVE  /\ Len(rob) >= 1 /\ Head(rob) = rob[1] /\ rob[1] \in RobEntry
             /\ rob[1].inst = next_retired
    <2>1. Len(rob) >= 1 /\ Head(rob) = rob[1] /\ rob[1] \in RobEntry
      BY <1>1, <1>3
    <2> QED  BY <2>1 DEF OrderInv, RobOrder, next_retired
<1>4. ASSUME rob # <<>>
      PROVE  /\ next_retired \in 1 .. N /\ next_retired \in 1 .. Dispatched
             /\ Head(rob).finished \in BOOLEAN
  BY <1>1, <1>2, <1>3, <1>4 DEF RobEntry, next_retired
<1>5. ASSUME rob # <<>>
      PROVE  Completed(next_retired) <=> Head(rob).finished
  <2>1. \A k \in 1 .. Len(rob) : rob[k].inst = next_retired => k = 1
    BY <1>1 DEF OrderInv, RobOrder, next_retired
  <2>2. ~(next_retired <= Retired)  BY <1>1 DEF next_retired
  <2> QED  BY <1>1, <1>3, <1>5, <2>1, <2>2 DEF Completed
<1> QED  BY <1>1, <1>2, <1>3, <1>4, <1>5 DEF next_retired

(* The oldest instruction in flight waits for nothing but a unit. *)
HeadWaits == rob # <<>> /\ ~Head(rob).finished
HeadStationed ==
  /\ sche_q # <<>> /\ Len(sche_q) >= 1 /\ Head(sche_q) = sche_q[1]
  /\ sche_q[1] \in SchedEntry
  /\ sche_q[1].inst = next_retired /\ InstReady(sche_q[1])

LEMMA HeadStation == PipelineInv => (HeadWaits => HeadStationed)
<1> SUFFICES ASSUME PipelineInv, HeadWaits PROVE HeadStationed  OBVIOUS
<1>0. TypeOK /\ OrderInv /\ StationOrder /\ DataInv  BY DEF PipelineInv
<1>1. /\ Retired \in Nat /\ next_retired \in 1 .. N /\ ~Completed(next_retired)
      /\ next_retired \in 1 .. Dispatched /\ next_retired = Retired + 1
  BY <1>0, RobHead DEF HeadWaits, next_retired
<1>2. PICK k \in 1 .. Len(sche_q) : sche_q[k].inst = next_retired
  BY <1>0, <1>1 DEF StationOrder, Holds
<1>3. sche_q \in Seq(SchedEntry) /\ Len(sche_q) \in Nat
  BY <1>0 DEF TypeOK, QueueTypeOK
<1>4. k = 1
  <2> SUFFICES ASSUME k # 1 PROVE FALSE  OBVIOUS
  <2>1. 1 \in 1 .. Len(sche_q) /\ 1 < k  BY <1>2, <1>3
  <2>2. sche_q[1].inst < next_retired  BY <1>0, <1>2, <2>1 DEF StationOrder
  <2>3. sche_q[1].inst \in 1 .. Dispatched /\ ~Completed(sche_q[1].inst)
    BY <1>0, <2>1 DEF StationOrder
  <2>4. sche_q[1].inst <= Retired  BY <1>1, <2>2, <2>3
  <2> QED  BY <2>3, <2>4 DEF Completed
<1>5. InstReady(sche_q[1])
  <2>1. \A w \in 1 .. N : DependsOn(next_retired, w) => w < next_retired
    BY <1>1 DEF DependsOn, ReadsFrom, LastWriter
  <2>2. \A w \in 1 .. N : DependsOn(next_retired, w) => Completed(w)
    BY <1>1, <2>1 DEF Completed
  <2>3. NoLostWakeup  BY <1>0, ReadyExactly
  <2> QED  BY <1>2, <1>4, <2>2, <2>3 DEF NoLostWakeup
<1> QED  BY <1>2, <1>3, <1>4, <1>5 DEF HeadStationed

LEMMA HeadStationNext == PipelineInv' => (HeadWaits' => HeadStationed')
BY HeadStation, PTL

(* Nothing leaves the ROB after the retirements of a cycle. *)
LEMMA RobKept ==
  ASSUME TypeOK, OrderInv, MidStep, rob # <<>>
  PROVE  /\ rob' # <<>>
         /\ Head(rob).finished => Head(rob').finished
<1>0. /\ rob \in Seq(RobEntry) /\ Len(rob) \in Nat /\ Len(rob) >= 1
      /\ Head(rob) = rob[1]
  BY RobHead DEF TypeOK, QueueTypeOK
<1>1. CASE ResultBus
  <2>1. complete_vec # <<>> /\ complete_vec \in Seq(FuEntry)
    BY <1>1 DEF ResultBus, TypeOK, QueueTypeOK
  <2>2. Head(complete_vec) \in FuEntry  BY <2>1
  <2>3. rob' = RobUpdate(Head(complete_vec))  BY <1>1 DEF ResultBus
  <2>4. RobUpdate(Head(complete_vec)) \in Seq(RobEntry)  BY <2>2, RobUpdateType
  <2>5. /\ Len(rob') = Len(rob)
        /\ rob[1].finished => rob'[1].finished
    BY <1>0, <2>2, <2>3, RobUpdateInsts
  <2> QED  BY <1>0, <2>3, <2>4, <2>5
<1>2. CASE DispatchInst
  <2>1. rob' = Append(rob, [inst |-> Head(disp_q), finished |-> FALSE])
    BY <1>2 DEF DispatchInst
  <2>2. rob' # <<>> /\ Head(rob') = Head(rob)  BY <1>0, <2>1
  <2> QED  BY <2>2
<1>3. CASE ~ResultBus /\ ~DispatchInst
  <2>1. rob' = rob
    BY <1>3 DEF MidStep, RetireDone, Exec, AluCheck, MulCheck, LsuCheck,
      ExecDone, ResultBusDone, Schedule, ScheduleFire, ScheduleSkip,
      ScheduleDone, Dispatch, DispatchNop, DispatchDone, Fetch,
      FetchNothing, FetchNop, FetchMiss, FetchInst, FetchDone
  <2> QED  BY <2>1
<1> QED  BY <1>1, <1>2, <1>3

(* How a step moves through the cycle: a unit's turn comes once. *)
LEMMA TurnsKept ==
  ASSUME TypeOK, MidStep
  PROVE  /\ \A u \in 1 .. ALU_NUM : ~(AluCheck /\ u = i) => AluTurn(u)' = AluTurn(u)
         /\ \A u \in 1 .. MUL_NUM : ~(MulCheck /\ u = i) => MulTurn(u)' = MulTurn(u)
         /\ \A u \in 1 .. LSU_NUM : ~(LsuCheck /\ u = i) => LsuTurn(u)' = LsuTurn(u)
<1>0. i \in Nat \ {0} /\ ALU_NUM \in Nat /\ MUL_NUM \in Nat /\ LSU_NUM \in Nat
  BY UnitTypes
<1>1. CASE AluCheck
  <2>1. stage = "alu" /\ stage' = "alu" /\ i' = i + 1  BY <1>1 DEF AluCheck
  <2>2. ~MulCheck /\ ~LsuCheck  BY <2>1 DEF MulCheck, LsuCheck
  <2> QED  BY <1>0, <1>1, <2>1, <2>2 DEF AluTurn, MulTurn, LsuTurn
<1>2. CASE MulCheck
  <2>1. stage = "mul" /\ stage' = "mul" /\ i' = i + 1  BY <1>2 DEF MulCheck
  <2>2. ~AluCheck /\ ~LsuCheck  BY <2>1 DEF AluCheck, LsuCheck
  <2> QED  BY <1>0, <1>2, <2>1, <2>2 DEF AluTurn, MulTurn, LsuTurn
<1>3. CASE LsuCheck
  <2>1. stage = "lsu" /\ stage' = "lsu" /\ i' = i + 1  BY <1>3 DEF LsuCheck
  <2>2. ~AluCheck /\ ~MulCheck  BY <2>1 DEF AluCheck, MulCheck
  <2> QED  BY <1>0, <1>3, <2>1, <2>2 DEF AluTurn, MulTurn, LsuTurn
<1>4. CASE ~AluCheck /\ ~MulCheck /\ ~LsuCheck
  <2>1. \/ stage = "retire" /\ stage' = "alu" /\ i' = 1
        \/ stage = "alu" /\ i > ALU_NUM /\ stage' = "mul" /\ i' = 1
        \/ stage = "mul" /\ i > MUL_NUM /\ stage' = "lsu" /\ i' = 1
        \/ stage = "lsu" /\ i > LSU_NUM /\ stage' = "result_bus"
        \/ /\ stage \in {"result_bus", "schedule", "dispatch", "fetch"}
           /\ stage' \in {"result_bus", "schedule", "dispatch", "fetch",
                          "end_cycle"}
    BY <1>4 DEF MidStep, RetireDone, Exec, ExecDone, ResultBus, ResultBusDone,
      Schedule, ScheduleFire, ScheduleSkip, ScheduleDone, Dispatch,
      DispatchInst, DispatchNop, DispatchDone, Fetch, FetchNothing, FetchNop,
      FetchMiss, FetchInst, FetchDone
  <2> QED  BY <1>0, <2>1 DEF AluTurn, MulTurn, LsuTurn
<1> QED  BY <1>1, <1>2, <1>3, <1>4

LEMMA TurnNumbers ==
  /\ \A u : AluTurn(u) \in 0 .. 1 /\ MulTurn(u) \in 0 .. 1 /\ LsuTurn(u) \in 0 .. 1
  /\ \A s : Past(s) \in 0 .. 1
BY DEF AluTurn, MulTurn, LsuTurn, Past

(* Firing fills a slot that was free and queues behind what a MUL unit has. *)
LEMMA SlotsKept ==
  ASSUME TypeOK, StationOrder, ScheduleFire
  PROVE  /\ \A u \in 1 .. ALU_NUM : Busy(alu[u]) => alu'[u] = alu[u]
         /\ \A u \in 1 .. LSU_NUM : Busy(lsu[u]) => lsu'[u] = lsu[u]
         /\ \A u \in 1 .. MUL_NUM :
              /\ Len(mul'[u]) \in Nat /\ Len(mul'[u]) >= Len(mul[u])
              /\ \A k \in 1 .. Len(mul[u]) : mul'[u][k] = mul[u][k]
<1> DEFINE e == sche_q[i]
<1>1. /\ i \in 1 .. Len(sche_q)
      /\ FireAlu(e) \/ FireMul(e) \/ FireLsu(e)
  BY UnitTypes, SchedEntries DEF ScheduleFire
<1>2. e \in SchedEntry  BY <1>1, SchedEntries
<1>3. Fired(e) \in FuEntry
  BY <1>2 DEF Fired, FuEntry, SchedEntry
<1> HIDE DEF e
<1>4. ASSUME NEW n \in Nat, NEW fu \in [1 .. n -> FuEntry]
      PROVE  \A u \in 1 .. n : Busy(fu[u]) => PushSlot(fu, n, e)[u] = fu[u]
  <2>1. CASE HasFree(fu, n)
    <3>1. PICK v \in 1 .. n : /\ ~Busy(fu[v])
                              /\ PushSlot(fu, n, e) = [fu EXCEPT ![v] = Fired(e)]
      BY <1>2, <1>4, <2>1, SlotPushed
    <3> QED  BY <1>4, <3>1
  <2>2. CASE ~HasFree(fu, n)  BY <2>2 DEF PushSlot
  <2> QED  BY <2>1, <2>2
<1>5. \/ alu' = alu \/ alu' = PushSlot(alu, ALU_NUM, e)
  BY <1>1 DEF FireAlu, FireMul, FireLsu
<1>6. \/ lsu' = lsu \/ lsu' = PushSlot(lsu, LSU_NUM, e)
  BY <1>1 DEF FireAlu, FireMul, FireLsu
<1>7. \/ mul' = mul
      \/ /\ mul_current < MUL_NUM
         /\ mul' = [mul EXCEPT ![mul_current + 1] = Append(@, Fired(e))]
  BY <1>1 DEF FireAlu, FireMul, FireLsu
<1>8. \A u \in 1 .. MUL_NUM :
        /\ Len(mul'[u]) \in Nat /\ Len(mul'[u]) >= Len(mul[u])
        /\ \A k \in 1 .. Len(mul[u]) : mul'[u][k] = mul[u][k]
  <2> TAKE u \in 1 .. MUL_NUM
  <2>1. mul[u] \in Seq(FuEntry) /\ Len(mul[u]) \in Nat  BY UnitTypes
  <2>2. mul'[u] = mul[u] \/ mul'[u] = Append(mul[u], Fired(e))
    BY <1>7, UnitTypes
  <2> QED  BY <1>3, <2>1, <2>2
<1>9. \A u \in 1 .. ALU_NUM : Busy(alu[u]) => alu'[u] = alu[u]
  <2>1. ALU_NUM \in Nat /\ alu \in [1 .. ALU_NUM -> FuEntry]  BY UnitTypes
  <2>2. \A u \in 1 .. ALU_NUM :
          Busy(alu[u]) => PushSlot(alu, ALU_NUM, e)[u] = alu[u]
    BY <1>4, <2>1
  <2> QED  BY <1>5, <2>2
<1>10. \A u \in 1 .. LSU_NUM : Busy(lsu[u]) => lsu'[u] = lsu[u]
  <2>1. LSU_NUM \in Nat /\ lsu \in [1 .. LSU_NUM -> FuEntry]  BY UnitTypes
  <2>2. \A u \in 1 .. LSU_NUM :
          Busy(lsu[u]) => PushSlot(lsu, LSU_NUM, e)[u] = lsu[u]
    BY <1>4, <2>1
  <2> QED  BY <1>6, <2>2
<1> QED  BY <1>8, <1>9, <1>10

(* What a step that is no check and no firing leaves alone. *)
LEMMA QuietMid ==
  ASSUME MidStep, ~AluCheck, ~MulCheck, ~LsuCheck, ~ScheduleFire
  PROVE  /\ UNCHANGED <<insts, alu, mul, lsu, alu_current, lsu_current>>
         /\ ~ResultBus => complete_vec' = complete_vec
<1>1. QuietStep
  BY DEF MidStep, QuietStep, Retire, Exec, Schedule
<1> QED  BY <1>1, QuietFrame

-----------------------------------------------------------------------------
(* A step of a cycle keeps the promise, place by place *)

LEMMA FinishedKept ==
  ASSUME TypeOK, OrderInv, MidStep, NEW d \in Int, 1 <= d, Finished(d)
  PROVE  Finished(d)'
<1>1. rob' # <<>> /\ Head(rob').finished  BY RobKept DEF Finished
<1> QED  BY <1>1 DEF Finished

(* A result that is on the list is broadcast in this cycle. *)
LEMMA OnBusKept ==
  ASSUME PipelineInv, MidStep, NEW d \in Int, OnBus(d)
  PROVE  OnBus(d)' \/ Finished(d)'
<1>0. TypeOK /\ OrderInv /\ DataInv  BY DEF PipelineInv
<1>1. PICK k \in 1 .. Len(complete_vec) : complete_vec[k].inst = next_retired
  BY DEF OnBus
<1>2. /\ complete_vec \in Seq(FuEntry) /\ Len(complete_vec) \in Nat /\ 1 <= d
      /\ next_retired' = next_retired
  BY <1>0, UnitTypes, MidFrame DEF OnBus
<1>3. ASSUME NEW j \in 1 .. Len(complete_vec'),
             complete_vec'[j].inst = next_retired
      PROVE  OnBus(d)'
  BY <1>2, <1>3 DEF OnBus
<1>4. CASE ResultBus /\ k = 1
  <2>1. /\ Head(complete_vec) = complete_vec[1] /\ complete_vec[1] \in FuEntry
        /\ rob' = RobUpdate(complete_vec[1])
    BY <1>1, <1>2, <1>4 DEF ResultBus
  <2>2. ResultOK(complete_vec[1])  BY <1>0, <1>1, <1>4 DEF DataInv, ResultsOK
  <2>3. rob # <<>>
    <3>1. next_retired \in 1 .. Dispatched  BY <1>1, <1>4, <2>2 DEF ResultOK
    <3>2. Len(rob) > 0  BY <1>0, <3>1, RobHead DEF next_retired
    <3> QED  BY <3>2
  <2>4. /\ Len(rob) >= 1 /\ rob[1].inst = next_retired /\ Len(rob) \in Nat
    BY <1>0, <2>3, RobHead
  <2>5. Holds(rob, next_retired)  BY <2>4 DEF Holds
  <2>6. FirstOf(rob, next_retired) = 1
    <3>1. /\ FirstOf(rob, next_retired) \in 1 .. Len(rob)
          /\ rob[FirstOf(rob, next_retired)].inst = next_retired
      BY <2>4, <2>5, FirstOfProperties
    <3>2. \A j \in 1 .. Len(rob) : rob[j].inst = next_retired => j = 1
      BY <1>0, <2>4, RobHead DEF OrderInv, RobOrder, next_retired
    <3> QED  BY <3>1, <3>2
  <2>7. /\ RobUpdate(complete_vec[1]) \in Seq(RobEntry)
        /\ Len(RobUpdate(complete_vec[1])) = Len(rob)
        /\ RobUpdate(complete_vec[1])[1].finished
    BY <1>0, <1>1, <1>4, <2>1, <2>4, <2>5, <2>6, RobUpdateInsts, RobUpdateType
  <2>8. rob' # <<>> /\ Head(rob').finished  BY <2>1, <2>4, <2>7
  <2> QED  BY <1>2, <2>8 DEF Finished
<1>5. CASE ResultBus /\ k # 1
  <2>1. complete_vec' = Tail(complete_vec)  BY <1>5 DEF ResultBus
  <2>2. k - 1 \in 1 .. Len(complete_vec') /\ complete_vec'[k - 1] = complete_vec[k]
    BY <1>1, <1>2, <1>5, <2>1
  <2> QED  BY <1>1, <1>3, <2>2
<1>6. CASE ~ResultBus
  <2>1. /\ Len(complete_vec') \in Nat /\ Len(complete_vec) <= Len(complete_vec')
        /\ \A j \in 1 .. Len(complete_vec) : complete_vec'[j] = complete_vec[j]
    <3>1. CASE AluCheck
      <4>1. \/ complete_vec' = complete_vec
            \/ /\ i \in 1 .. ALU_NUM
               /\ complete_vec' = Append(complete_vec, Aged(alu[i]))
        BY <1>0, <3>1, UnitTypes DEF AluCheck
      <4>2. i \in 1 .. ALU_NUM => Aged(alu[i]) \in FuEntry
        BY <1>0, UnitTypes, AgedFields
      <4> QED  BY <1>2, <4>1, <4>2
    <3>2. CASE LsuCheck
      <4>1. \/ complete_vec' = complete_vec
            \/ /\ i \in 1 .. LSU_NUM
               /\ complete_vec' = Append(complete_vec, Aged(lsu[i]))
        BY <1>0, <3>2, UnitTypes DEF LsuCheck
      <4>2. i \in 1 .. LSU_NUM => Aged(lsu[i]) \in FuEntry
        BY <1>0, UnitTypes, AgedFields
      <4> QED  BY <1>2, <4>1, <4>2
    <3>3. CASE MulCheck
      <4> DEFINE pipe == [j \in 1 .. Len(mul[i]) |-> Aged(mul[i][j])]
                 p == CHOOSE q \in 0 .. Len(pipe) : MulLeaving(pipe, q)
      <4>1. i \in 1 .. MUL_NUM /\ complete_vec' = complete_vec \o SubSeq(pipe, 1, p)
        BY <1>0, <3>3, UnitTypes DEF MulCheck
      <4>2. pipe \in Seq(FuEntry)
        <5>1. Len(mul[i]) \in Nat /\ \A j \in 1 .. Len(mul[i]) : Aged(mul[i][j]) \in FuEntry
          BY <1>0, <4>1, UnitTypes, AgedFields
        <5> QED  BY <5>1
      <4>3. p \in 0 .. Len(pipe)
        <5> HIDE DEF pipe
        <5> QED  BY <4>2, MulCut
      <4>4. SubSeq(pipe, 1, p) \in Seq(FuEntry)
        <5> HIDE DEF pipe, p
        <5> QED  BY <4>2, <4>3, OccCut
      <4> HIDE DEF pipe, p
      <4> QED  BY <1>2, <4>1, <4>4
    <3>4. CASE ScheduleFire  BY <1>2, <3>4 DEF ScheduleFire
    <3> QED  BY <1>2, <1>6, <3>1, <3>2, <3>3, <3>4, QuietMid
  <2>2. k \in 1 .. Len(complete_vec') /\ complete_vec'[k] = complete_vec[k]
    BY <1>1, <1>2, <2>1
  <2> QED  BY <1>1, <1>3, <2>2
<1> QED  BY <1>4, <1>5, <1>6

(* An instruction in a unit stays there, nearer to its end, or leaves it   *)
(* for the list of results.                                                *)
LEMMA InAluKept ==
  ASSUME PipelineInv, MidStep, NEW d \in Int, InAlu(d)
  PROVE  InAlu(d)' \/ OnBus(d)'
<1>0. TypeOK /\ OrderInv /\ StationOrder /\ LatencyInv  BY DEF PipelineInv
<1>1. PICK u \in 1 .. ALU_NUM : /\ alu[u].inst = next_retired
                                /\ 1 - alu[u].fu_count + AluTurn(u) <= d
  BY DEF InAlu
<1>2. /\ next_retired' = next_retired /\ Busy(alu[u]) /\ alu[u] \in FuEntry
      /\ alu[u].fu_count \in Nat /\ alu[u].fu_count < 1
  <2>1. next_retired' = next_retired /\ next_retired \in Nat \ {0}
    BY <1>0, MidFrame, RobHead
  <2>2. Busy(alu[u])  BY <1>1, <2>1 DEF Busy
  <2>3. alu[u] \in FuEntry  BY <1>0, UnitTypes
  <2> QED
    BY <1>0, <2>1, <2>2, <2>3, AgedFields DEF LatencyInv, CountsBelowLatency
<1>3. CASE AluCheck /\ u = i
  <2>1. /\ Aged(alu[u]) \in FuEntry /\ Aged(alu[u]).inst = next_retired
        /\ Aged(alu[u]).fu_count = 1
    BY <1>1, <1>2, AgedFields
  <2>2. complete_vec' = Append(complete_vec, Aged(alu[u]))
    BY <1>2, <1>3, <2>1 DEF AluCheck
  <2>3. 1 <= d
    <3>1. stage = "alu"  BY <1>3 DEF AluCheck
    <3>2. AluTurn(u) = 0  BY <1>0, <1>3, <3>1, UnitTypes DEF AluTurn
    <3> QED  BY <1>1, <1>2, <3>2
  <2>4. Len(complete_vec) + 1 \in 1 .. Len(complete_vec')
        /\ complete_vec'[Len(complete_vec) + 1] = Aged(alu[u])
    BY <1>0, <2>1, <2>2, UnitTypes
  <2> QED  BY <1>2, <2>1, <2>3, <2>4 DEF OnBus
<1>4. CASE ~(AluCheck /\ u = i)
  <2>1. AluTurn(u)' = AluTurn(u)  BY <1>0, <1>4, TurnsKept
  <2>2. alu'[u] = alu[u]
    <3>1. CASE AluCheck
      <4>1. i \in 1 .. ALU_NUM  BY <1>0, <3>1, UnitTypes DEF AluCheck
      <4>2. \/ alu' = alu \/ alu' = [alu EXCEPT ![i] = Free]
            \/ alu' = [alu EXCEPT ![i] = Aged(@)]
        BY <3>1 DEF AluCheck
      <4> QED  BY <1>0, <1>4, <3>1, <4>1, <4>2, UnitTypes
    <3>2. CASE ScheduleFire  BY <1>0, <1>2, <3>2, SlotsKept
    <3>3. CASE MulCheck \/ LsuCheck  BY <3>3 DEF MulCheck, LsuCheck
    <3> QED  BY <3>1, <3>2, <3>3, QuietMid
  <2> QED  BY <1>1, <1>2, <2>1, <2>2 DEF InAlu
<1> QED  BY <1>3, <1>4

LEMMA InLsuKept ==
  ASSUME PipelineInv, MidStep, NEW d \in Int, InLsu(d)
  PROVE  InLsu(d)' \/ OnBus(d)'
<1>0. TypeOK /\ OrderInv /\ StationOrder /\ LatencyInv  BY DEF PipelineInv
<1> DEFINE needed == CyclesNeeded(next_retired)
<1>1. PICK u \in 1 .. LSU_NUM : /\ lsu[u].inst = next_retired
                                /\ needed - lsu[u].fu_count + LsuTurn(u) <= d
  BY DEF InLsu
<1>2. /\ next_retired' = next_retired /\ Busy(lsu[u]) /\ lsu[u] \in FuEntry
      /\ lsu[u].fu_count \in Nat /\ lsu[u].fu_count < needed
      /\ needed \in Nat /\ needed' = needed
  <2>1. /\ next_retired' = next_retired /\ next_retired \in Nat \ {0}
        /\ insts' = insts
    BY <1>0, MidFrame, RobHead
  <2>2. Busy(lsu[u])  BY <1>1, <2>1 DEF Busy
  <2>3. lsu[u] \in FuEntry /\ next_retired \in 1 .. N /\ lsu[u].fu_count \in Nat
    BY <1>0, <1>1, <2>1, UnitTypes, AgedFields
  <2>4. needed \in Nat  BY <1>0, <2>3, LatencyPositive
  <2>5. lsu[u].fu_count < needed
    BY <1>0, <1>1, <2>2 DEF LatencyInv, CountsBelowLatency
  <2>6. needed' = needed  BY <2>1 DEF CyclesNeeded, Op, LatencyCycles
  <2> HIDE DEF needed
  <2> QED  BY <2>1, <2>2, <2>3, <2>4, <2>5, <2>6
<1>3. CASE LsuCheck /\ u = i
  <2>1. /\ Aged(lsu[u]) \in FuEntry /\ Aged(lsu[u]).inst = next_retired
        /\ Aged(lsu[u]).fu_count = lsu[u].fu_count + 1
    BY <1>1, <1>2, AgedFields
  <2>2. stage = "lsu" /\ stage' = "lsu" /\ i' = i + 1  BY <1>3 DEF LsuCheck
  <2>3. LsuTurn(u) = 0 /\ LsuTurn(u)' = 1
    BY <1>0, <1>3, <2>2, UnitTypes DEF LsuTurn
  <2>4. CASE Aged(lsu[u]).fu_count = needed
    <3>1. complete_vec' = Append(complete_vec, Aged(lsu[u]))
      BY <1>1, <1>2, <1>3, <2>4 DEF LsuCheck
    <3>2. 1 <= d
      <4> HIDE DEF needed
      <4> QED  BY <1>1, <1>2, <2>3
    <3>3. Len(complete_vec) + 1 \in 1 .. Len(complete_vec')
          /\ complete_vec'[Len(complete_vec) + 1] = Aged(lsu[u])
      BY <1>0, <2>1, <3>1, UnitTypes
    <3> QED  BY <1>2, <2>1, <3>2, <3>3 DEF OnBus
  <2>5. CASE Aged(lsu[u]).fu_count # needed
    <3>1. lsu' = [lsu EXCEPT ![u] = Aged(@)]
      BY <1>1, <1>2, <1>3, <2>5 DEF LsuCheck
    <3>2. lsu'[u] = Aged(lsu[u])  BY <1>0, <3>1, UnitTypes
    <3>3. needed' - lsu'[u].fu_count + LsuTurn(u)' <= d
      <4> HIDE DEF needed
      <4> QED  BY <1>1, <1>2, <2>1, <2>3, <3>2
    <3> QED  BY <1>2, <2>1, <3>2, <3>3 DEF InLsu
  <2> QED  BY <2>4, <2>5
<1>4. CASE ~(LsuCheck /\ u = i)
  <2>1. LsuTurn(u)' = LsuTurn(u)  BY <1>0, <1>4, TurnsKept
  <2>2. lsu'[u] = lsu[u]
    <3>1. CASE LsuCheck
      <4>1. i \in 1 .. LSU_NUM  BY <1>0, <3>1, UnitTypes DEF LsuCheck
      <4>2. \/ lsu' = lsu \/ lsu' = [lsu EXCEPT ![i] = Free]
            \/ lsu' = [lsu EXCEPT ![i] = Aged(@)]
        BY <3>1 DEF LsuCheck
      <4> QED  BY <1>0, <1>4, <3>1, <4>1, <4>2, UnitTypes
    <3>2. CASE ScheduleFire  BY <1>0, <1>2, <3>2, SlotsKept
    <3>3. CASE AluCheck \/ MulCheck  BY <3>3 DEF AluCheck, MulCheck
    <3> QED  BY <3>1, <3>2, <3>3, QuietMid
  <2>3. needed' - lsu'[u].fu_count + LsuTurn(u)' <= d
    <3> HIDE DEF needed
    <3> QED  BY <1>1, <1>2, <2>1, <2>2
  <2> QED  BY <1>1, <1>2, <2>2, <2>3 DEF InLsu
<1> QED  BY <1>3, <1>4

LEMMA InMulKept ==
  ASSUME PipelineInv, MidStep, NEW d \in Int, InMul(d)
  PROVE  InMul(d)' \/ OnBus(d)'
<1>0. TypeOK /\ OrderInv /\ StationOrder /\ LatencyInv  BY DEF PipelineInv
<1>u. PICK u \in 1 .. MUL_NUM : \E k \in 1 .. Len(mul[u]) :
        /\ mul[u][k].inst = next_retired
        /\ MUL_STAGES - mul[u][k].fu_count + MulTurn(u) <= d
  BY DEF InMul
<1>1. PICK k \in 1 .. Len(mul[u]) :
        /\ mul[u][k].inst = next_retired
        /\ MUL_STAGES - mul[u][k].fu_count + MulTurn(u) <= d
  BY <1>u
<1>2. /\ next_retired' = next_retired /\ mul[u][k] \in FuEntry
      /\ mul[u][k].fu_count \in Nat /\ mul[u][k].fu_count < MUL_STAGES
      /\ MUL_STAGES \in Nat /\ Len(mul[u]) \in Nat
  BY <1>0, MidFrame, UnitTypes, AgedFields, LimitSizes
  DEF LatencyInv, CountsBelowLatency
<1>3. CASE MulCheck /\ u = i
  <2> DEFINE pipe == [j \in 1 .. Len(mul[u]) |-> Aged(mul[u][j])]
             p == CHOOSE q \in 0 .. Len(pipe) : MulLeaving(pipe, q)
  <2>1. /\ complete_vec' = complete_vec \o SubSeq(pipe, 1, p)
        /\ mul' = [mul EXCEPT ![u] = SubSeq(pipe, p + 1, Len(pipe))]
        /\ stage = "mul" /\ stage' = "mul" /\ i' = i + 1
    BY <1>3 DEF MulCheck
  <2>2. /\ pipe \in Seq(FuEntry) /\ Len(pipe) = Len(mul[u])
        /\ pipe[k] = Aged(mul[u][k])
    <3>1. \A j \in 1 .. Len(mul[u]) : Aged(mul[u][j]) \in FuEntry
      BY <1>0, UnitTypes, AgedFields
    <3> QED  BY <1>2, <3>1
  <2> HIDE DEF pipe
  <2>3. p \in 0 .. Len(pipe)  BY <2>2, MulCut
  <2> HIDE DEF p
  <2>4. /\ SubSeq(pipe, 1, p) \in Seq(FuEntry) /\ Len(SubSeq(pipe, 1, p)) = p
        /\ Len(SubSeq(pipe, p + 1, Len(pipe))) = Len(pipe) - p
        /\ \A j \in 1 .. Len(pipe) - p : SubSeq(pipe, p + 1, Len(pipe))[j] = pipe[p + j]
    BY <2>2, <2>3, OccCut
  <2>5. /\ pipe[k].inst = next_retired
        /\ pipe[k].fu_count = mul[u][k].fu_count + 1
    BY <1>1, <1>2, <2>2, AgedFields
  <2>6. MulTurn(u) = 0 /\ MulTurn(u)' = 1
    BY <1>0, <1>3, <2>1, UnitTypes DEF MulTurn
  <2>7. CASE k <= p
    <3>1. SubSeq(pipe, 1, p)[k] = pipe[k]  BY <1>2, <2>2, <2>3, <2>7
    <3>2. /\ Len(complete_vec) + k \in 1 .. Len(complete_vec')
          /\ complete_vec'[Len(complete_vec) + k] = pipe[k]
      <4>1. complete_vec \in Seq(FuEntry) /\ Len(complete_vec) \in Nat
        BY <1>0, UnitTypes
      <4>2. PICK done : /\ done \in Seq(FuEntry) /\ Len(done) = p
                        /\ complete_vec' = complete_vec \o done
                        /\ done[k] = pipe[k]
        BY <2>1, <2>4, <3>1
      <4>3. k \in 1 .. Len(done)  BY <1>2, <2>3, <2>7, <4>2
      <4>4. /\ Len(complete_vec) + k \in 1 .. Len(complete_vec \o done)
            /\ (complete_vec \o done)[Len(complete_vec) + k] = done[k]
        BY <4>1, <4>2, <4>3
      <4> QED  BY <4>2, <4>4
    <3>3. 1 <= d  BY <1>1, <1>2, <2>6
    <3> QED  BY <1>2, <2>5, <3>2, <3>3 DEF OnBus
  <2>8. CASE k > p
    <3>1. mul'[u] = SubSeq(pipe, p + 1, Len(pipe))  BY <1>0, <2>1, UnitTypes
    <3>2. k - p \in 1 .. Len(mul'[u]) /\ mul'[u][k - p] = pipe[k]
      <4>1. k - p \in 1 .. Len(pipe) - p /\ p + (k - p) = k
        BY <1>2, <2>2, <2>3, <2>8
      <4> QED  BY <2>4, <3>1, <4>1
    <3>3. MUL_STAGES - mul'[u][k - p].fu_count + MulTurn(u)' <= d
      BY <1>1, <1>2, <2>5, <2>6, <3>2
    <3>4. mul'[u][k - p].inst = next_retired'  BY <1>2, <2>5, <3>2
    <3> QED  BY <3>2, <3>3, <3>4 DEF InMul, MUL_STAGES
  <2> QED  BY <1>2, <2>2, <2>3, <2>7, <2>8
<1>4. CASE ~(MulCheck /\ u = i)
  <2>1. MulTurn(u)' = MulTurn(u)  BY <1>0, <1>4, TurnsKept
  <2>2. k \in 1 .. Len(mul'[u]) /\ mul'[u][k] = mul[u][k]
    <3>1. CASE MulCheck
      <4>1. i \in 1 .. MUL_NUM  BY <1>0, <3>1, UnitTypes DEF MulCheck
      <4>2. \E s : mul' = [mul EXCEPT ![i] = s]  BY <3>1 DEF MulCheck
      <4>3. mul'[u] = mul[u]  BY <1>0, <1>4, <3>1, <4>1, <4>2, UnitTypes
      <4> QED  BY <4>3
    <3>2. CASE ScheduleFire
      BY <1>0, <1>2, <3>2, SlotsKept
    <3>3. CASE AluCheck \/ LsuCheck  BY <3>3 DEF AluCheck, LsuCheck
    <3> QED  BY <3>1, <3>2, <3>3, QuietMid
  <2>3. MUL_STAGES - mul'[u][k].fu_count + MulTurn(u)' <= d
    BY <1>1, <2>1, <2>2
  <2> QED  BY <1>1, <1>2, <2>2, <2>3 DEF InMul, MUL_STAGES
<1> QED  BY <1>3, <1>4

-----------------------------------------------------------------------------
(* Firing *)

LEMMA FreeIsRoom ==
  ASSUME NEW n \in Nat, NEW fu, NEW u \in 1 .. n, ~Busy(fu[u])
  PROVE  Cardinality(BusySlots(fu, n)) < n
<1>1. IsFiniteSet(1 .. n) /\ Cardinality(1 .. n) = n  BY FS_Interval
<1>2. /\ IsFiniteSet((1 .. n) \ {u})
      /\ Cardinality((1 .. n) \ {u}) = n - 1
  BY <1>1, FS_RemoveElement
<1>3. BusySlots(fu, n) \subseteq (1 .. n) \ {u}  BY DEF BusySlots
<1>4. /\ Cardinality(BusySlots(fu, n)) <= n - 1
      /\ Cardinality(BusySlots(fu, n)) \in Nat
  BY <1>2, <1>3, FS_Subset, FS_CardinalityType
<1> QED  BY <1>4

LEMMA UnitKinds ==
  ASSUME TypeOK, NEW id \in 1 .. N
  PROVE  IsAluOp(id) \/ IsMulOp(id) \/ IsLoadStore(id)
BY DEF TypeOK, TraceTypeOK, Inst, Opcode, Op, IsAluOp, IsMulOp, IsLoadStore

LEMMA UnfiredHead ==
  ASSUME PipelineInv, Unfired
  PROVE  /\ HeadStationed /\ ~sche_q[1].scheduled
         /\ next_retired \in 1 .. N /\ Len(sche_q) \in Nat
<1>1. HeadStationed  BY HeadStation DEF Unfired, HeadWaits
<1>2. TypeOK /\ OrderInv  BY DEF PipelineInv
<1>3. next_retired \in 1 .. N  BY <1>2, RobHead DEF Unfired
<1>4. Len(sche_q) \in Nat  BY <1>2 DEF TypeOK, QueueTypeOK
<1> QED  BY <1>1, <1>3, <1>4 DEF HeadStationed, Unfired

LEMMA UnfiredKept ==
  ASSUME PipelineInv, PipelineInv', MidStep, Unfired
  PROVE  \/ Unfired'
         \/ rob' # <<>> /\ Head(rob').finished
         \/ ScheduleFire /\ i = 1
<1>0. /\ TypeOK /\ OrderInv /\ StationOrder
      /\ sche_q \in Seq(SchedEntry) /\ next_retired' = next_retired
      /\ HeadStationed /\ ~sche_q[1].scheduled /\ Len(sche_q) \in Nat
  BY UnfiredHead, MidFrame DEF PipelineInv, TypeOK, QueueTypeOK
<1>1. rob' # <<>>  BY <1>0, RobKept DEF Unfired
<1> SUFFICES ASSUME ~Head(rob').finished, ~(ScheduleFire /\ i = 1)
             PROVE  Unfired'
  BY <1>1
<1>2. HeadStationed'  BY <1>1, HeadStationNext DEF HeadWaits
<1>3. ~sche_q'[1].scheduled
  <2>1. CASE ResultBus
    <3> DEFINE c == Head(complete_vec)
    <3>1. PICK j \in 1 .. Len(sche_q) : sche_q'[1] = Wakeup(sche_q[j], c)
      <4>1. 1 \in 1 .. Len(sche_q')  BY <1>2 DEF HeadStationed
      <4>2. \A k \in 1 .. Len(sche_q') : \E j \in 1 .. Len(sche_q) :
               sche_q'[k] = Wakeup(sche_q[j], c)
        BY <1>0, <2>1, ResultBusStations DEF StationOrder
      <4> QED  BY <4>1, <4>2
    <3> HIDE DEF c
    <3>5. sche_q[j] \in SchedEntry  BY <1>0, SchedEntries
    <3>2. /\ sche_q'[1].inst = sche_q[j].inst
          /\ sche_q'[1].scheduled = sche_q[j].scheduled
      BY <3>1, <3>5 DEF Wakeup, SchedEntry
    <3>3. sche_q[j].inst = sche_q[1].inst
      BY <1>0, <1>2, <3>2 DEF HeadStationed
    <3>4. j = 1  BY <1>0, <3>3, SchedEntries DEF HeadStationed
    <3> QED  BY <1>0, <3>2, <3>4
  <2>2. CASE DispatchInst
    <3>1. sche_q' = Append(sche_q, CreateEntry(Head(disp_q)))
      BY <2>2 DEF DispatchInst
    <3>2. sche_q'[1] = sche_q[1]  BY <1>0, <3>1 DEF HeadStationed
    <3> QED  BY <1>0, <3>2
  <2>3. CASE ScheduleFire
    <3>1. 1 \in 1 .. Len(sche_q) /\ i # 1  BY <1>0, <2>3 DEF HeadStationed
    <3>2. sche_q'[1] = sche_q[1]  BY <1>0, <2>3, <3>1, ScheduleFireInsts
    <3> QED  BY <1>0, <3>2
  <2>4. CASE ~ResultBus /\ ~DispatchInst /\ ~ScheduleFire
    <3>1. sche_q' = sche_q
      BY <2>4 DEF MidStep, RetireDone, Exec, AluCheck, MulCheck, LsuCheck,
        ExecDone, ResultBusDone, Schedule, ScheduleSkip, ScheduleDone,
        Dispatch, DispatchNop, DispatchDone, Fetch, FetchNothing, FetchNop,
        FetchMiss, FetchInst, FetchDone
    <3> QED  BY <1>0, <3>1
  <2> QED  BY <2>1, <2>2, <2>3, <2>4
<1> QED  BY <1>1, <1>2, <1>3 DEF Unfired, HeadStationed

(* The head of the ROB has fired into a unit of its kind. *)
LEMMA HeadFires ==
  ASSUME PipelineInv, ScheduleFire, i = 1, Unfired,
         NEW d \in Int, LONGEST + 1 <= d
  PROVE  InAlu(d)' \/ InMul(d)' \/ InLsu(d)'
<1> DEFINE e == sche_q[1]
<1>0. TypeOK /\ StationOrder /\ CountersOK  BY DEF PipelineInv
<1>1. /\ e \in SchedEntry /\ e.inst = next_retired /\ next_retired \in 1 .. N
      /\ CanFire(e) /\ (FireAlu(e) \/ FireMul(e) \/ FireLsu(e))
  BY UnfiredHead DEF HeadStationed, ScheduleFire
<1>2. /\ next_retired' = next_retired /\ stage' = "schedule" /\ insts' = insts
  <2>1. MidStep  BY DEF MidStep, Schedule
  <2>2. stage' = "schedule"  BY DEF ScheduleFire
  <2> QED  BY <2>1, <2>2, MidFrame
<1>3. \A u : AluTurn(u)' = 1 /\ MulTurn(u)' = 1 /\ LsuTurn(u)' = 1
  BY <1>2 DEF AluTurn, MulTurn, LsuTurn
<1> HIDE DEF e
<1>4. CASE FireAlu(e)
  <2>1. /\ ALU_NUM \in Nat /\ alu \in [1 .. ALU_NUM -> FuEntry]
        /\ alu_current < ALU_NUM
    BY <1>0, <1>1, <1>4, UnitTypes
    DEF FireAlu, CanFire, FuHasRoom, IsAluOp, IsMulOp, IsLoadStore
  <2>2. HasFree(alu, ALU_NUM)  BY <1>0, <2>1, RoomIsFree DEF CountersOK
  <2>3. PICK u \in 1 .. ALU_NUM :
          /\ PushSlot(alu, ALU_NUM, e) = [alu EXCEPT ![u] = Fired(e)]
          /\ Fired(e).inst = e.inst /\ Fired(e).fu_count = 0
    BY <1>1, <2>1, <2>2, SlotPushed
  <2>4. alu'[u] = Fired(e)  BY <1>4, <2>1, <2>3 DEF FireAlu
  <2>5. 1 - alu'[u].fu_count + AluTurn(u)' <= d
    BY <1>3, <2>3, <2>4, LimitSizes
  <2> QED  BY <1>1, <1>2, <2>3, <2>4, <2>5 DEF InAlu
<1>5. CASE FireLsu(e)
  <2>1. /\ LSU_NUM \in Nat /\ lsu \in [1 .. LSU_NUM -> FuEntry]
        /\ lsu_current < LSU_NUM
    BY <1>0, <1>1, <1>5, UnitTypes
    DEF FireLsu, CanFire, FuHasRoom, IsAluOp, IsMulOp, IsLoadStore
  <2>2. HasFree(lsu, LSU_NUM)  BY <1>0, <2>1, RoomIsFree DEF CountersOK
  <2>3. PICK u \in 1 .. LSU_NUM :
          /\ PushSlot(lsu, LSU_NUM, e) = [lsu EXCEPT ![u] = Fired(e)]
          /\ Fired(e).inst = e.inst /\ Fired(e).fu_count = 0
    BY <1>1, <2>1, <2>2, SlotPushed
  <2>4. lsu'[u] = Fired(e)  BY <1>5, <2>1, <2>3 DEF FireLsu
  <2>5. CyclesNeeded(next_retired)' \in 1 .. LONGEST
    <3>1. CyclesNeeded(next_retired) \in 1 .. LONGEST
      BY <1>0, <1>1, LatencyBound
    <3>2. CyclesNeeded(next_retired)' = CyclesNeeded(next_retired)
      BY <1>2 DEF CyclesNeeded, Op, LatencyCycles
    <3> QED  BY <3>1, <3>2
  <2>6. CyclesNeeded(next_retired)' - lsu'[u].fu_count + LsuTurn(u)' <= d
    BY <1>3, <2>3, <2>4, <2>5, LimitSizes
  <2> QED  BY <1>1, <1>2, <2>3, <2>4, <2>6 DEF InLsu
<1>6. CASE FireMul(e)
  <2>1. /\ MUL_NUM \in Nat /\ mul_current < MUL_NUM /\ mul_current \in Nat
        /\ mul \in [1 .. MUL_NUM -> Seq(FuEntry)]
    <3>1. mul_current < MUL_MASK_UNITS
      BY <1>0, <1>1, <1>6
      DEF FireMul, CanFire, FuHasRoom, IsAluOp, IsMulOp, IsLoadStore
    <3>2. /\ MUL_NUM \in Nat /\ mul_current \in Nat
          /\ mul \in [1 .. MUL_NUM -> Seq(FuEntry)]
      BY <1>0, UnitTypes
    <3>3. MUL_MASK_UNITS \in Int /\ MUL_MASK_UNITS <= MUL_NUM  BY MaskUnits
    <3> QED  BY <3>1, <3>2, <3>3
  <2>2. PICK u \in 1 .. MUL_NUM : u = mul_current + 1  BY <2>1
  <2>3. mul' = [mul EXCEPT ![u] = Append(@, Fired(e))]
    BY <1>6, <2>1, <2>2 DEF FireMul
  <2>4. /\ Fired(e) \in FuEntry /\ Fired(e).inst = e.inst
        /\ Fired(e).fu_count = 0
    BY <1>1 DEF Fired, FuEntry, SchedEntry
  <2>5. mul[u] \in Seq(FuEntry) /\ mul'[u] = Append(mul[u], Fired(e))
    BY <2>1, <2>2, <2>3
  <2> DEFINE k == Len(mul[u]) + 1
  <2>6. k \in 1 .. Len(mul'[u]) /\ mul'[u][k] = Fired(e)  BY <2>4, <2>5
  <2> HIDE DEF k
  <2>7. MUL_STAGES - mul'[u][k].fu_count + MulTurn(u)' <= d
    BY <1>3, <2>4, <2>6, LimitSizes
  <2>8. mul'[u][k].inst = next_retired'  BY <1>1, <1>2, <2>4, <2>6
  <2>9. \E v \in 1 .. MUL_NUM : \E j \in 1 .. Len(mul'[v]) :
          /\ mul'[v][j].inst = next_retired'
          /\ MUL_STAGES - mul'[v][j].fu_count + MulTurn(v)' <= d
    BY <2>2, <2>6, <2>7, <2>8
  <2> QED  BY <2>9 DEF InMul, MUL_STAGES
<1> QED  BY <1>1, <1>4, <1>5, <1>6

(* Schedule passes it over only if it needs an LSU and all are taken. *)
LEMMA HeadSkipped ==
  ASSUME PipelineInv, UnitsInTime, Equipped, ScheduleSkip, i = 1, Unfired
  PROVE  IsLoadStore(next_retired) /\ \A u \in 1 .. LSU_NUM : Busy(lsu[u])
<1>0. TypeOK /\ CountersOK  BY DEF PipelineInv
<1>1. /\ sche_q[1].inst = next_retired /\ next_retired \in 1 .. N
      /\ ~FuHasRoom(next_retired) /\ stage = "schedule"
  BY UnfiredHead DEF HeadStationed, ScheduleSkip, CanFire
<1>2. ~IsAluOp(next_retired)
  <2>1. ALU_NUM \in Nat /\ 1 \in 1 .. ALU_NUM  BY <1>0, UnitTypes DEF Equipped
  <2>2. ~Busy(alu[1])  BY <1>1, <2>1 DEF UnitsInTime
  <2>3. alu_current < ALU_NUM  BY <1>0, <2>1, <2>2, FreeIsRoom DEF CountersOK
  <2> QED  BY <1>1, <2>3 DEF FuHasRoom
<1>3. ~IsMulOp(next_retired)
  BY <1>1 DEF UnitsInTime, Equipped, FuHasRoom
<1>4. \A u \in 1 .. LSU_NUM : IsLoadStore(next_retired) => Busy(lsu[u])
  BY <1>0, <1>1, FreeIsRoom, UnitTypes DEF CountersOK, FuHasRoom
<1> QED  BY <1>0, <1>1, <1>2, <1>3, <1>4, UnitKinds

LEMMA ToFireKept ==
  ASSUME PipelineInv, PipelineInv', UnitsInTime, Equipped, MidStep,
         NEW d \in Int, ToFire(d)
  PROVE  \/ ToFire(d)' \/ Finished(d)' \/ InAlu(d)' \/ InMul(d)' \/ InLsu(d)'
<1>0. TypeOK /\ Unfired /\ Len(sche_q) \in Nat /\ Len(sche_q) >= 1
      /\ i \in Nat \ {0} /\ ~(stage = "schedule" /\ i > 1)
      /\ next_retired' = next_retired /\ insts' = insts
  BY UnfiredHead, MidFrame, UnitTypes DEF ToFire, PipelineInv, HeadStationed
<1>1. LONGEST + 1 <= d /\ 1 <= d
  BY TurnNumbers, LimitSizes DEF ToFire
<1>2. CASE ScheduleFire /\ i = 1  BY <1>0, <1>1, <1>2, HeadFires
<1>3. CASE rob' # <<>> /\ Head(rob').finished  BY <1>1, <1>3 DEF Finished
<1>4. CASE Unfired' /\ ~(ScheduleFire /\ i = 1)
  <2>1. ~ScheduleFire
    <3>1. ScheduleFire => stage = "schedule"  BY DEF ScheduleFire
    <3> QED  BY <1>0, <1>4, <3>1
  <2>2. ~ScheduleDone
    <3>1. ScheduleDone => stage = "schedule" /\ i > Len(sche_q)
      BY DEF ScheduleDone
    <3> QED  BY <1>0, <3>1
  <2>4. ~ScheduleSkip
    <3>1. ScheduleSkip => stage = "schedule"  BY DEF ScheduleSkip
    <3>2. ScheduleSkip =>
            IsLoadStore(next_retired) /\ \A u \in 1 .. LSU_NUM : Busy(lsu[u])
      BY <1>0, <3>1, HeadSkipped
    <3> QED  BY <3>2 DEF ToFire
  <2>5. /\ ~(stage' = "schedule" /\ i' > 1)
        /\ stage' \in {"dispatch", "fetch", "end_cycle"}
             <=> stage \in {"dispatch", "fetch", "end_cycle"}
    <3>1. \/ /\ stage \in {"retire", "alu", "mul", "lsu", "result_bus"}
             /\ stage' \in {"alu", "mul", "lsu", "result_bus"}
          \/ stage = "result_bus" /\ stage' = "schedule" /\ i' = 1
          \/ /\ stage \in {"dispatch", "fetch"}
             /\ stage' \in {"dispatch", "fetch", "end_cycle"}
      BY <2>1, <2>2, <2>4 DEF MidStep, RetireDone, Exec, AluCheck, MulCheck,
        LsuCheck, ExecDone, ResultBus, ResultBusDone, Schedule, Dispatch,
        DispatchInst, DispatchNop, DispatchDone, Fetch, FetchNothing, FetchNop,
        FetchMiss, FetchInst, FetchDone
    <3> QED  BY <3>1
  <2>6. IsLoadStore(next_retired)' => \E u \in 1 .. LSU_NUM : ~Busy(lsu'[u])
    <3> SUFFICES ASSUME IsLoadStore(next_retired)
                 PROVE  \E u \in 1 .. LSU_NUM : ~Busy(lsu'[u])
      BY <1>0 DEF IsLoadStore, Op
    <3>1. PICK u \in 1 .. LSU_NUM : ~Busy(lsu[u])  BY DEF ToFire
    <3>2. CASE LsuCheck
      <4>1. i \in 1 .. LSU_NUM /\ lsu \in [1 .. LSU_NUM -> FuEntry]
        BY <1>0, <3>2, UnitTypes DEF LsuCheck
      <4>2. \/ lsu' = lsu \/ lsu' = [lsu EXCEPT ![i] = Free]
            \/ Busy(lsu[i]) /\ lsu' = [lsu EXCEPT ![i] = Aged(@)]
        BY <3>2 DEF LsuCheck
      <4>3. ~Busy(Free)  BY DEF Busy, Free
      <4>4. ~Busy(lsu'[u])  BY <3>1, <4>1, <4>2, <4>3
      <4> QED  BY <4>4
    <3>3. CASE ~LsuCheck
      <4>1. lsu' = lsu
        <5>1. CASE AluCheck \/ MulCheck  BY <5>1 DEF AluCheck, MulCheck
        <5> QED  BY <2>1, <3>3, <5>1, QuietMid
      <4> QED  BY <3>1, <4>1
    <3> QED  BY <3>2, <3>3
  <2>7. Past({"dispatch", "fetch", "end_cycle"})' + LONGEST + 1 <= d
    BY <2>5 DEF ToFire, Past
  <2>8. IsLoadStore(next_retired)' => (\E u \in 1 .. LSU_NUM : ~Busy(lsu[u]))'
    BY <2>6 DEF Busy
  <2> QED  BY <1>4, <2>5, <2>7, <2>8 DEF ToFire
<1> QED  BY <1>0, <1>2, <1>3, <1>4, UnfiredKept

LEMMA LsuTakenKept ==
  ASSUME PipelineInv, PipelineInv', MidStep, NEW d \in Int, LsuTaken(d)
  PROVE  \/ LsuTaken(d)' \/ ToFire(d)' \/ Finished(d)'
         \/ InAlu(d)' \/ InMul(d)' \/ InLsu(d)'
<1>0. /\ TypeOK /\ OrderInv /\ StationOrder /\ LatencyInv /\ Unfired
      /\ next_retired' = next_retired /\ insts' = insts
      /\ LONGEST \in Nat
  BY MidFrame, LimitSizes DEF LsuTaken, PipelineInv
<1>1. PICK u \in 1 .. LSU_NUM :
        /\ Busy(lsu[u])
        /\ CyclesNeeded(lsu[u].inst) - lsu[u].fu_count + LsuTurn(u) + LONGEST <= d
  BY DEF LsuTaken
<1>2. /\ lsu[u] \in FuEntry /\ lsu[u].inst \in 1 .. N /\ lsu[u].fu_count \in Nat
      /\ CyclesNeeded(lsu[u].inst) \in Nat
      /\ lsu[u].fu_count < CyclesNeeded(lsu[u].inst)
      /\ LsuTurn(u) \in 0 .. 1
  <2>1. lsu[u] \in FuEntry /\ lsu[u].inst \in 1 .. N /\ lsu[u].fu_count \in Nat
    <3>1. lsu[u] \in FuEntry  BY <1>0, UnitTypes
    <3>2. lsu[u].inst \in 0 .. N /\ lsu[u].fu_count \in Nat  BY <3>1, AgedFields
    <3>3. lsu[u].inst # 0 /\ N \in Nat  BY <1>0, <1>1, Counts DEF Busy
    <3> QED  BY <3>1, <3>2, <3>3
  <2>2. CyclesNeeded(lsu[u].inst) \in Nat  BY <1>0, <2>1, LatencyPositive
  <2>3. lsu[u].fu_count < CyclesNeeded(lsu[u].inst)
    BY <1>0, <1>1 DEF LatencyInv, CountsBelowLatency
  <2> QED  BY <2>1, <2>2, <2>3, TurnNumbers
<1>3. LONGEST + 1 <= d /\ 1 <= d  BY <1>0, <1>1, <1>2
<1>4. CASE ScheduleFire /\ i = 1  BY <1>0, <1>3, <1>4, HeadFires
<1>5. CASE rob' # <<>> /\ Head(rob').finished  BY <1>3, <1>5 DEF Finished
<1>6. CASE Unfired'
  <2>0. IsLoadStore(next_retired)'  BY <1>0 DEF LsuTaken, IsLoadStore, Op
  <2>1. ASSUME NEW e \in FuEntry, e.inst = lsu[u].inst, lsu'[u] = e,
               CyclesNeeded(e.inst) - e.fu_count + LsuTurn(u)' + LONGEST <= d
        PROVE  LsuTaken(d)'
    <3>1. CyclesNeeded(e.inst)' = CyclesNeeded(e.inst)
      BY <1>0 DEF CyclesNeeded, Op, LatencyCycles
    <3>2. Busy(lsu[u])'  BY <1>1, <2>1 DEF Busy
    <3>3. CyclesNeeded(lsu[u].inst)' = CyclesNeeded(e.inst)
      <4>1. lsu'[u].inst = e.inst  BY <2>1
      <4> HIDE <2>1
      <4> QED  BY <1>0, <4>1 DEF CyclesNeeded, Op, LatencyCycles
    <3>4. \E v \in 1 .. LSU_NUM :
            /\ Busy(lsu[v])'
            /\ CyclesNeeded(lsu[v].inst)' - lsu'[v].fu_count + LsuTurn(v)' + LONGEST
                 <= d
      BY <2>1, <3>2, <3>3
    <3> QED  BY <1>6, <2>0, <3>4 DEF LsuTaken, LONGEST, MUL_STAGES
  <2>2. CASE LsuCheck /\ u = i
    <3>1. /\ Aged(lsu[u]) \in FuEntry /\ Aged(lsu[u]).inst = lsu[u].inst
          /\ Aged(lsu[u]).fu_count = lsu[u].fu_count + 1
      BY <1>2, AgedFields
    <3>2. stage = "lsu" /\ stage' = "lsu" /\ i' = i + 1  BY <2>2 DEF LsuCheck
    <3>3. LsuTurn(u) = 0 /\ LsuTurn(u)' = 1
      BY <1>0, <2>2, <3>2, UnitTypes DEF LsuTurn
    <3>4. CASE Aged(lsu[u]).fu_count = CyclesNeeded(lsu[u].inst)
      <4>1. lsu' = [lsu EXCEPT ![u] = Free]
        BY <1>1, <2>2, <3>4 DEF LsuCheck
      <4>2. ~Busy(lsu'[u])  BY <1>0, <4>1, UnitTypes DEF Busy, Free
      <4>3. Past({"dispatch", "fetch", "end_cycle"})' = 0  BY <3>2 DEF Past
      <4>4. Past({"dispatch", "fetch", "end_cycle"})' + LONGEST + 1 <= d
        BY <1>0, <1>3, <4>3
      <4>5. (\E v \in 1 .. LSU_NUM : ~Busy(lsu[v]))'  BY <4>2 DEF Busy
      <4> QED
        BY <1>6, <3>2, <4>4, <4>5 DEF ToFire
    <3>5. CASE Aged(lsu[u]).fu_count # CyclesNeeded(lsu[u].inst)
      <4>1. lsu' = [lsu EXCEPT ![u] = Aged(@)]
        BY <1>1, <2>2, <3>5 DEF LsuCheck
      <4>2. lsu'[u] = Aged(lsu[u])  BY <1>0, <4>1, UnitTypes
      <4>3. CyclesNeeded(Aged(lsu[u]).inst) - Aged(lsu[u]).fu_count
              + LsuTurn(u)' + LONGEST <= d
        <5>1. CyclesNeeded(Aged(lsu[u]).inst) = CyclesNeeded(lsu[u].inst)
          BY <3>1
        <5> QED  BY <1>0, <1>1, <1>2, <3>1, <3>3, <5>1
      <4>4. PICK e \in FuEntry : e = Aged(lsu[u])  BY <3>1
      <4> QED  BY <2>1, <3>1, <4>2, <4>3, <4>4
    <3> QED  BY <3>4, <3>5
  <2>3. CASE ~(LsuCheck /\ u = i)
    <3>1. LsuTurn(u)' = LsuTurn(u)  BY <1>0, <2>3, TurnsKept
    <3>2. lsu'[u] = lsu[u]
      <4>1. CASE LsuCheck
        <5>1. i \in 1 .. LSU_NUM  BY <1>0, <4>1, UnitTypes DEF LsuCheck
        <5>2. \/ lsu' = lsu \/ lsu' = [lsu EXCEPT ![i] = Free]
              \/ lsu' = [lsu EXCEPT ![i] = Aged(@)]
          BY <4>1 DEF LsuCheck
        <5> QED  BY <1>0, <2>3, <4>1, <5>1, <5>2, UnitTypes
      <4>2. CASE ScheduleFire  BY <1>0, <1>1, <4>2, SlotsKept
      <4>3. CASE AluCheck \/ MulCheck  BY <4>3 DEF AluCheck, MulCheck
      <4> QED  BY <4>1, <4>2, <4>3, QuietMid
    <3>3. PICK e \in FuEntry : e = lsu[u]  BY <1>2
    <3> QED  BY <1>1, <2>1, <3>1, <3>2, <3>3
  <2> QED  BY <2>2, <2>3
<1> QED  BY <1>0, <1>4, <1>5, <1>6, UnfiredKept

-----------------------------------------------------------------------------
(* Dispatch and fetch, when nothing is in flight *)

LEMMA QueueRoom ==
  ASSUME Equipped
  PROVE  /\ SCHEDQ_ENTRIES > 0 /\ ROB_ENTRIES > 0 /\ DISPQ_ENTRIES > 0
         /\ DISPQ_ENTRIES \in Nat /\ FETCH_WIDTH \in Nat \ {0}
         /\ (REG_NUM - 1 + 1) * FETCH_WIDTH = DISPQ_ENTRIES
<1>1. \A m, n \in Nat \ {0} : m * n \in Nat \ {0}  OBVIOUS
<1>2. /\ FETCH_WIDTH \in Nat \ {0} /\ ROB_PER_WIDTH \in Nat \ {0}
      /\ SCHEDQ_PER_FU \in Nat \ {0} /\ REG_NUM \in Nat \ {0}
      /\ ALU_NUM + MUL_NUM + LSU_NUM \in Nat \ {0}
  BY SizeAssumption, TraceAssumption, MaskUnits DEF Equipped
<1>3. FETCH_WIDTH * REG_NUM = (REG_NUM - 1 + 1) * FETCH_WIDTH
  BY <1>2
<1>4. /\ SCHEDQ_ENTRIES \in Nat \ {0} /\ ROB_ENTRIES \in Nat \ {0}
      /\ DISPQ_ENTRIES \in Nat \ {0}
  BY <1>1, <1>2 DEF SCHEDQ_ENTRIES, ROB_ENTRIES, DISPQ_ENTRIES
<1> QED  BY <1>2, <1>3, <1>4 DEF DISPQ_ENTRIES

LEMMA EmptyMachine ==
  ASSUME PipelineInv, rob = <<>>
  PROVE  /\ Dispatched = Retired /\ sche_q = <<>> /\ Len(sche_q) = 0
         /\ complete_vec = <<>> /\ \A u \in 1 .. LSU_NUM : ~Busy(lsu[u])
<1>0. /\ TypeOK /\ OrderInv /\ StationOrder /\ PlacesOK
      /\ sche_q \in Seq(SchedEntry) /\ Len(sche_q) \in Nat
      /\ complete_vec \in Seq(FuEntry) /\ Len(complete_vec) \in Nat
      /\ lsu \in [1 .. LSU_NUM -> FuEntry] /\ LSU_NUM \in Nat /\ N \in Nat
  BY UnitTypes, Counts DEF PipelineInv, TypeOK, QueueTypeOK
<1>1. Dispatched = Retired
  BY <1>0, RobHead
<1>2. Len(sche_q) = 0
  <2> SUFFICES ASSUME 1 \in 1 .. Len(sche_q) PROVE FALSE  BY <1>0
  <2>1. sche_q[1].inst \in 1 .. Dispatched /\ ~Completed(sche_q[1].inst)
    BY <1>0 DEF StationOrder
  <2> QED  BY <1>0, <1>1, <2>1, Counts DEF Completed
<1>3. \A id \in 1 .. N : Places(id) = 0
  <2>1. \A id : ~HasFired(id)  BY <1>2 DEF HasFired
  <2> QED  BY <1>0, <2>1 DEF PlacesOK, AsNumber
<1>4. ASSUME NEW u \in 1 .. LSU_NUM, Busy(lsu[u]) PROVE FALSE
  <2>1. lsu[u].inst \in 1 .. N
    <3>1. lsu[u] \in FuEntry  BY <1>0
    <3> QED  BY <1>0, <1>4, <3>1 DEF Busy, FuEntry
  <2>2. lsu \in Seq(FuEntry) /\ Len(lsu) = LSU_NUM  BY <1>0, SlotsAreSeq
  <2>3. Holds(lsu, lsu[u].inst)  BY <2>2 DEF Holds
  <2>4. Occurrences(lsu, lsu[u].inst) > 0  BY <1>0, <2>2, <2>3, SpotsFinite
  <2> QED  BY <1>0, <1>3, <2>1, <2>4, PlacesSum
<1>5. complete_vec = <<>>
  <2> SUFFICES ASSUME 1 \in 1 .. Len(complete_vec) PROVE FALSE  BY <1>0
  <2>1. complete_vec[1].inst \in 1 .. Dispatched
    BY DEF PipelineInv, DataInv, ResultsOK, ResultOK
  <2>2. complete_vec[1].inst \in 1 .. N
    BY <1>0, <2>1, Counts DEF OrderInv, FetchAhead
  <2>3. Holds(complete_vec, complete_vec[1].inst)  BY DEF Holds
  <2>4. Occurrences(complete_vec, complete_vec[1].inst) > 0
    BY <1>0, <2>3, SpotsFinite
  <2> QED  BY <1>0, <1>3, <2>2, <2>4, PlacesSum
<1> QED  BY <1>0, <1>1, <1>2, <1>4, <1>5

LEMMA QueueGrows ==
  ASSUME TypeOK, MidStep, ~DispatchInst, ~DispatchNop
  PROVE  /\ Len(disp_q') \in Nat /\ Len(disp_q') >= Len(disp_q)
         /\ \A p \in 1 .. Len(disp_q) : disp_q'[p] = disp_q[p]
<1>0. disp_q \in Seq(0 .. N) /\ Len(disp_q) \in Nat /\ NOP \in 0 .. N
      /\ fetch_inst_idx \in Nat /\ N \in Nat
  BY Counts DEF TypeOK, QueueTypeOK, NOP
<1>1. disp_q' = disp_q \/ \E x \in 0 .. N : disp_q' = Append(disp_q, x)
  <2>1. CASE FetchNop \/ FetchMiss  BY <1>0, <2>1 DEF FetchNop, FetchMiss
  <2>2. ASSUME NEW prediction \in BOOLEAN, FetchInst(prediction)
        PROVE  \E x \in 0 .. N : disp_q' = Append(disp_q, x)
    BY <1>0, <2>2 DEF FetchInst, ReadAvailable, next_inst
  <2>3. CASE ~Fetch \/ FetchNothing \/ FetchDone
    BY <2>3 DEF MidStep, RetireDone, Exec, AluCheck, MulCheck, LsuCheck,
      ExecDone, ResultBus, ResultBusDone, Schedule, ScheduleFire,
      ScheduleSkip, ScheduleDone, Dispatch, DispatchDone, FetchNothing,
      FetchDone
  <2> QED  BY <2>1, <2>2, <2>3 DEF Fetch
<1> QED  BY <1>0, <1>1

(* Nothing enters the ROB but by dispatch. *)
LEMMA RobEmptyKept ==
  ASSUME TypeOK, MidStep, rob = <<>>, ~DispatchInst
  PROVE  rob' = <<>>
<1>1. CASE ResultBus
  <2>1. Head(complete_vec) \in FuEntry
    BY <1>1 DEF ResultBus, TypeOK, QueueTypeOK
  <2>2. rob' = RobUpdate(Head(complete_vec))  BY <1>1 DEF ResultBus
  <2>3. rob' \in Seq(RobEntry) /\ Len(rob') = Len(rob)
    BY <2>1, <2>2, RobUpdateType
  <2> QED  BY <2>3
<1>2. CASE ~ResultBus
  BY <1>2 DEF MidStep, RetireDone, Exec, AluCheck, MulCheck, LsuCheck,
    ExecDone, ResultBusDone, Schedule, ScheduleFire, ScheduleSkip,
    ScheduleDone, Dispatch, DispatchNop, DispatchDone, Fetch, FetchNothing,
    FetchNop, FetchMiss, FetchInst, FetchDone
<1> QED  BY <1>1, <1>2

LEMMA ToDispatchKept ==
  ASSUME PipelineInv, PipelineInv', DispatchSeen, Equipped, MidStep,
         NEW d \in Int, ToDispatch(d)
  PROVE  ToDispatch(d)' \/ ToFire(d)'
<1>0. /\ TypeOK /\ OrderInv /\ rob = <<>> /\ next_retired' = next_retired
      /\ Dispatched = Retired /\ Len(sche_q) = 0 /\ sche_q = <<>>
      /\ \A u \in 1 .. LSU_NUM : ~Busy(lsu[u])
      /\ disp_q \in Seq(0 .. N) /\ Len(disp_q) \in Nat
      /\ LONGEST \in Nat /\ FETCH_WIDTH \in Nat \ {0}
      /\ nop_dispatch \in Nat /\ normal_dispatch \in Nat
      /\ Retired \in Nat /\ next_retired = Retired + 1
      /\ insts' = insts
  BY EmptyMachine, MidFrame, LimitSizes, QueueRoom, RobHead
  DEF ToDispatch, PipelineInv, TypeOK, QueueTypeOK, LoopTypeOK, next_retired
<1>1. PICK p \in 1 .. Len(disp_q), v \in 0 .. REG_NUM :
        /\ disp_q[p] = next_retired
        /\ p + NopsGone <= (v + 1) * FETCH_WIDTH
        /\ v + Past({"fetch", "end_cycle"}) + LONGEST + 2 <= d
  BY DEF ToDispatch
<1>2. v \in Nat /\ v <= REG_NUM /\ p \in Nat /\ p >= 1 /\ REG_NUM \in Nat
      /\ (v + 1) * FETCH_WIDTH \in Nat
      /\ (v + 1) * FETCH_WIDTH = v * FETCH_WIDTH + FETCH_WIDTH
      /\ v * FETCH_WIDTH \in Nat /\ (v = 0 => v * FETCH_WIDTH = 0)
  BY <1>0, <1>1, LimitSizes
<1>3. CASE DispatchInst
  <2>1. /\ disp_q # <<>> /\ Head(disp_q) # NOP /\ stage' = "dispatch"
        /\ rob' = Append(rob, [inst |-> Head(disp_q), finished |-> FALSE])
        /\ sche_q' = Append(sche_q, CreateEntry(Head(disp_q)))
        /\ lsu' = lsu
    BY <1>3 DEF DispatchInst, fuVars
  <2>2. rob' # <<>> /\ ~Head(rob').finished  BY <1>0, <2>1
  <2>3. Head(sche_q') = CreateEntry(Head(disp_q))  BY <1>0, <2>1
  <2>4. ~Head(sche_q').scheduled  BY <2>3 DEF CreateEntry
  <2>5. Unfired'  BY <2>2, <2>4 DEF Unfired
  <2>6. (\E u \in 1 .. LSU_NUM : ~Busy(lsu[u]))'
    <3>1. 1 \in 1 .. LSU_NUM  BY SizeAssumption DEF Equipped
    <3> QED  BY <1>0, <2>1, <3>1 DEF Busy
  <2>7. Past({"dispatch", "fetch", "end_cycle"})' = 1  BY <2>1 DEF Past
  <2>8. Past({"dispatch", "fetch", "end_cycle"})' + LONGEST + 1 <= d
    BY <1>0, <1>1, <1>2, <2>7, TurnNumbers
  <2> QED  BY <2>1, <2>5, <2>6, <2>8 DEF ToFire
<1>4. ASSUME NEW q \in 1 .. Len(disp_q'), NEW w \in 0 .. REG_NUM,
             disp_q'[q] = next_retired, ~DispatchInst,
             q + NopsGone' <= (w + 1) * FETCH_WIDTH,
             w + Past({"fetch", "end_cycle"})' + LONGEST + 2 <= d
      PROVE  ToDispatch(d)'
  <2>1. rob' = <<>>  BY <1>0, <1>4, RobEmptyKept
  <2> QED  BY <1>0, <1>4, <2>1 DEF ToDispatch, LONGEST, MUL_STAGES
<1>5. CASE DispatchNop
  <2>1. /\ stage = "dispatch" /\ stage' = "dispatch" /\ disp_q # <<>>
        /\ Head(disp_q) = NOP /\ disp_q' = Tail(disp_q)
        /\ nop_dispatch' = nop_dispatch + 1 /\ ~DispatchInst
    BY <1>5 DEF DispatchNop, DispatchInst, CanDispatch
  <2>2. p # 1
    <3>1. disp_q[1] = NOP  BY <1>0, <2>1
    <3> QED  BY <1>0, <1>1, <3>1 DEF NOP
  <2>3. p - 1 \in 1 .. Len(disp_q') /\ disp_q'[p - 1] = next_retired
    BY <1>0, <1>1, <1>2, <2>1, <2>2
  <2>4. NopsGone = nop_dispatch /\ NopsGone' = nop_dispatch + 1
        /\ Past({"fetch", "end_cycle"})' = Past({"fetch", "end_cycle"})
    BY <2>1 DEF NopsGone, Past
  <2>5. p - 1 + NopsGone' <= (v + 1) * FETCH_WIDTH
    BY <1>0, <1>1, <1>2, <2>4
  <2> QED  BY <1>1, <1>4, <2>1, <2>3, <2>4, <2>5
<1>6. CASE ~DispatchInst /\ ~DispatchNop
  <2>1. p \in 1 .. Len(disp_q') /\ disp_q'[p] = next_retired
    BY <1>0, <1>1, <1>6, QueueGrows
  <2>2. CASE DispatchDone
    <3>1. stage = "dispatch" /\ stage' = "fetch" /\ ~CanDispatch
      BY <2>2 DEF DispatchDone
    <3>2. nop_dispatch >= FETCH_WIDTH
      <4>1. normal_dispatch = 0  BY <1>0, <3>1 DEF DispatchSeen
      <4>2. disp_q # <<>>  BY <1>0, <1>1
      <4>3. Len(rob) = 0  BY <1>0
      <4> QED  BY <1>0, <3>1, <4>1, <4>2, <4>3, QueueRoom DEF CanDispatch
    <3>3. NopsGone = nop_dispatch /\ NopsGone' = 0
          /\ Past({"fetch", "end_cycle"}) = 0
          /\ Past({"fetch", "end_cycle"})' = 1
      BY <3>1 DEF NopsGone, Past
    <3>4. v # 0  BY <1>0, <1>1, <1>2, <3>2, <3>3
    <3>5. v - 1 \in 0 .. REG_NUM /\ (v - 1 + 1) * FETCH_WIDTH = v * FETCH_WIDTH
      BY <1>0, <1>2, <3>4
    <3>6. p + NopsGone' <= (v - 1 + 1) * FETCH_WIDTH
      BY <1>0, <1>1, <1>2, <3>2, <3>3, <3>5
    <3>7. (v - 1) + Past({"fetch", "end_cycle"})' + LONGEST + 2 <= d
      BY <1>0, <1>1, <1>2, <3>3
    <3> QED  BY <1>4, <1>6, <2>1, <3>5, <3>6, <3>7
  <2>3. CASE ~DispatchDone
    <3>1. NopsGone' <= NopsGone /\ NopsGone' \in Nat
          /\ Past({"fetch", "end_cycle"})' = Past({"fetch", "end_cycle"})
      <4>1. \/ /\ stage \in {"retire", "alu", "mul", "lsu", "result_bus", "schedule"}
               /\ stage' \in {"alu", "mul", "lsu", "result_bus", "schedule"}
            \/ stage = "schedule" /\ stage' = "dispatch" /\ nop_dispatch' = 0
            \/ stage = "fetch" /\ stage' \in {"fetch", "end_cycle"}
        BY <1>6, <2>3 DEF MidStep, RetireDone, Exec, AluCheck, MulCheck,
          LsuCheck, ExecDone, ResultBus, ResultBusDone, Schedule,
          ScheduleFire, ScheduleSkip, ScheduleDone, Dispatch, Fetch,
          FetchNothing, FetchNop, FetchMiss, FetchInst, FetchDone
      <4> QED  BY <4>1 DEF NopsGone, Past
    <3>2. NopsGone \in Nat  BY <1>0 DEF NopsGone
    <3>3. p + NopsGone' <= (v + 1) * FETCH_WIDTH
      BY <1>1, <1>2, <3>1, <3>2
    <3> QED  BY <1>1, <1>4, <1>6, <2>1, <3>1, <3>3
  <2> QED  BY <2>2, <2>3
<1> QED  BY <1>3, <1>5, <1>6

LEMMA FetchWaitNumber == TypeOK => FetchWait \in Nat
BY LimitSizes, TurnNumbers
DEF FetchWait, Longer, TypeOK, DriverTypeOK

LEMMA FetchWaitNext == TypeOK' => (FetchWait \in Nat)'
BY FetchWaitNumber, PTL

LEMMA ToFetchKept ==
  ASSUME PipelineInv, MispredictPending, DispatchSeen, Equipped, MidStep,
         Retired < N, NEW d \in Int, ToFetch(d)
  PROVE  ToFetch(d)' \/ ToDispatch(d)'
<1>0. /\ TypeOK /\ OrderInv /\ rob = <<>> /\ fetch_inst_idx = Retired
      /\ next_retired' = next_retired /\ Retired' = Retired
      /\ Dispatched = Retired /\ insts' = insts
      /\ disp_q \in Seq(0 .. N) /\ Len(disp_q) \in Nat
      /\ Len(disp_q) <= DISPQ_ENTRIES /\ DISPQ_ENTRIES \in Nat
      /\ DISPQ_ENTRIES > 0 /\ FETCH_WIDTH \in Nat \ {0} /\ LONGEST \in Nat \ {0}
      /\ nop_dispatch \in Nat /\ normal_dispatch \in Nat /\ fetch_count \in Nat
      /\ Retired \in Nat /\ next_retired = Retired + 1 /\ N \in Nat
      /\ FetchWait + FETCHED_LIMIT <= d /\ FetchWait \in Nat
      /\ FETCHED_LIMIT = REG_NUM + LONGEST + 2 /\ REG_NUM \in Nat \ {0}
  BY EmptyMachine, MidFrame, LimitSizes, QueueRoom, RobHead, FetchWaitNumber,
    Counts
  DEF ToFetch, Unfetched, PipelineInv, TypeOK, QueueTypeOK, LoopTypeOK,
    next_retired
<1>1. ~DispatchInst
  <2> SUFFICES ASSUME DispatchInst PROVE FALSE  OBVIOUS
  <2>1. disp_q # <<>> /\ Head(disp_q) # NOP
    BY DEF DispatchInst, CanDispatch
  <2> QED  BY <1>0, <2>1, DispatchHead
<1>2. ~FetchNothing
  <2> SUFFICES ASSUME FetchNothing PROVE FALSE  OBVIOUS
  <2>1. stage = "fetch" /\ in_mispred
    BY <1>0 DEF FetchNothing, ReadBlocked, ReadEndOfTrace
  <2>2. ~retired_mispredict  BY <1>0, <2>1 DEF OrderInv, RedirectSafe
  <2> QED  BY <1>0, <2>1, <2>2 DEF MispredictPending
<1>3. rob' = <<>>  BY <1>0, <1>1, RobEmptyKept
<1>4. ASSUME fetch_inst_idx' = fetch_inst_idx, FetchWait' <= FetchWait,
             ~in_icache_miss' => RoomToFetch', TypeOK'
      PROVE  ToFetch(d)'
  <2>1. FetchWait' \in Nat  BY <1>4, FetchWaitNext
  <2>3. FetchWait' + FETCHED_LIMIT <= d
    <3>1. /\ FetchWait' <= FetchWait /\ FetchWait \in Nat /\ FETCHED_LIMIT \in Nat
          /\ FetchWait + FETCHED_LIMIT <= d
      BY <1>0, <1>4, LimitSizes
    <3>2. \A a, b, c \in Nat : a <= b /\ b + c <= d => a + c <= d  OBVIOUS
    <3> QED  BY <2>1, <3>1, <3>2
  <2>4. Unfetched'  BY <1>0, <1>3, <1>4 DEF Unfetched
  <2> QED
    BY <1>4, <2>3, <2>4 DEF ToFetch, FETCHED_LIMIT, LONGEST, MUL_STAGES
<1>5. TypeOK'
  BY <1>0, StepType DEF MidStep, Next, Retire
<1>6. CASE FetchMiss
  <2>1. /\ ~in_mispred /\ ~in_icache_miss /\ in_icache_miss' /\ stage = "fetch"
        /\ icache_miss_ctr' = LatencyCycles(insts[next_retired].icache)
        /\ IcacheMiss(next_inst) /\ ~finished_miss
        /\ fetch_inst_idx' = fetch_inst_idx
    BY <1>0, <1>6 DEF FetchMiss, ReadAvailable, next_inst
  <2>2. icache_miss_ctr' \in 1 .. LONGEST
    BY <1>0, <2>1, LatencyBound
  <2>3. FetchWait' = icache_miss_ctr'
    BY <1>0, <2>1, <2>2 DEF FetchWait, Longer
  <2>4. FetchWait = LONGEST
    <3>1. Past({"end_cycle"}) = 0  BY <2>1 DEF Past
    <3> QED  BY <1>0, <2>1, <3>1 DEF FetchWait
  <2> QED  BY <1>0, <1>4, <1>5, <2>1, <2>2, <2>3, <2>4
<1>7. ASSUME NEW prediction \in BOOLEAN, FetchInst(prediction)
      PROVE  ToDispatch(d)'
  <2>1. /\ stage = "fetch" /\ stage' = "fetch" /\ ~in_icache_miss
        /\ disp_q' = Append(disp_q, next_retired)
    BY <1>0, <1>7 DEF FetchInst, ReadAvailable, next_inst, cycleVars
  <2>2. Len(disp_q) < DISPQ_ENTRIES  BY <2>1 DEF ToFetch, RoomToFetch
  <2>3. NopsGone' = 0 /\ Past({"fetch", "end_cycle"})' = 1
    BY <2>1 DEF NopsGone, Past
  <2> DEFINE p == Len(disp_q) + 1
             v == REG_NUM - 1
  <2>4. p \in 1 .. Len(disp_q') /\ disp_q'[p] = next_retired'
    BY <1>0, <2>1
  <2>5. v \in 0 .. REG_NUM /\ p <= DISPQ_ENTRIES /\ p \in Nat
    BY <1>0, <2>2
  <2>6. (v + 1) * FETCH_WIDTH = DISPQ_ENTRIES  BY QueueRoom
  <2>7. v + 1 + LONGEST + 2 <= d  BY <1>0
  <2> HIDE DEF p, v
  <2>8. p + NopsGone' <= (v + 1) * FETCH_WIDTH  BY <1>0, <2>3, <2>5, <2>6
  <2>9. v + Past({"fetch", "end_cycle"})' + LONGEST' + 2 <= d
    <3>1. LONGEST' = LONGEST  BY DEF LONGEST, MUL_STAGES
    <3> QED  BY <2>3, <2>7, <3>1
  <2>10. \E q \in 1 .. Len(disp_q'), w \in 0 .. REG_NUM :
           /\ disp_q'[q] = next_retired'
           /\ q + NopsGone' <= (w + 1) * FETCH_WIDTH
           /\ w + Past({"fetch", "end_cycle"})' + LONGEST' + 2 <= d
    BY <2>4, <2>5, <2>8, <2>9
  <2> QED  BY <1>3, <2>10 DEF ToDispatch
<1>8. CASE ~FetchMiss /\ ~\E prediction \in BOOLEAN : FetchInst(prediction)
  <2>1. UNCHANGED <<insts, fetch_inst_idx, in_icache_miss, icache_miss_ctr,
                    finished_miss>>
    BY <1>1, <1>2, <1>8 DEF MidStep, RetireDone, Exec, AluCheck, MulCheck,
      LsuCheck, ExecDone, ResultBus, ResultBusDone, Schedule, ScheduleFire,
      ScheduleSkip, ScheduleDone, Dispatch, DispatchNop, DispatchDone, Fetch,
      FetchNop, FetchDone, traceVars, driverVars
  <2>2. CASE in_icache_miss
    <3>1. FetchWait' = FetchWait  BY <2>1, <2>2 DEF FetchWait
    <3> QED  BY <1>0, <1>4, <1>5, <2>1, <2>2, <3>1
  <2>3. CASE ~in_icache_miss
    <3>0. RoomToFetch  BY <2>3 DEF ToFetch
    <3>1. ~FetchNop  BY <2>3 DEF FetchNop, ReadMissing
    <3>2. ~FetchDone
      BY <1>0, <3>0 DEF FetchDone, CanFetch, RoomToFetch
    <3>3. stage' # "end_cycle" /\ stage # "end_cycle"
      BY <1>1, <1>2, <1>8, <3>1, <3>2 DEF MidStep, RetireDone, Exec, AluCheck,
        MulCheck, LsuCheck, ExecDone, ResultBus, ResultBusDone, Schedule,
        ScheduleFire, ScheduleSkip, ScheduleDone, Dispatch, DispatchNop,
        DispatchDone, Fetch
    <3>4. Past({"end_cycle"})' = 0 /\ Past({"end_cycle"}) = 0
      BY <3>3 DEF Past
    <3>5. FetchWait' = FetchWait
      BY <2>1, <2>3, <3>4 DEF FetchWait, IcacheMiss, next_inst
    <3>6. RoomToFetch'
      <4>1. CASE DispatchDone
        <5>1. /\ stage = "dispatch" /\ stage' = "fetch" /\ fetch_count' = 0
              /\ disp_q' = disp_q /\ ~CanDispatch
          BY <4>1 DEF DispatchDone
        <5>2. Len(disp_q) + nop_dispatch <= DISPQ_ENTRIES
          BY <3>0, <5>1 DEF RoomToFetch
        <5>4. disp_q = <<>> \/ nop_dispatch >= FETCH_WIDTH
          <6>1. Len(sche_q) = 0 /\ Len(rob) = 0 /\ normal_dispatch = 0
            BY <1>0, <5>1, EmptyMachine DEF DispatchSeen
          <6> QED  BY <1>0, <5>1, <6>1, QueueRoom DEF CanDispatch
        <5> QED  BY <1>0, <5>1, <5>2, <5>4 DEF RoomToFetch
      <4>2. CASE DispatchNop
        <5>1. /\ stage = "dispatch" /\ stage' = "dispatch" /\ disp_q # <<>>
              /\ disp_q' = Tail(disp_q) /\ nop_dispatch' = nop_dispatch + 1
          BY <4>2 DEF DispatchNop, CanDispatch
        <5>2. Len(disp_q') = Len(disp_q) - 1  BY <1>0, <5>1
        <5> QED  BY <1>0, <3>0, <5>1, <5>2 DEF RoomToFetch
      <4>3. CASE ScheduleDone
        <5>1. stage' = "dispatch" /\ nop_dispatch' = 0 /\ disp_q' = disp_q
          BY <4>3 DEF ScheduleDone
        <5> QED  BY <1>0, <5>1 DEF RoomToFetch
      <4>4. CASE ~DispatchDone /\ ~DispatchNop /\ ~ScheduleDone
        <5>1. stage' \notin {"dispatch", "fetch"}
          BY <1>1, <1>2, <1>8, <3>1, <3>2, <4>4 DEF MidStep, RetireDone, Exec,
            AluCheck, MulCheck, LsuCheck, ExecDone, ResultBus, ResultBusDone,
            Schedule, ScheduleFire, ScheduleSkip, Dispatch, Fetch
        <5> QED  BY <5>1 DEF RoomToFetch
      <4> QED  BY <4>1, <4>2, <4>3, <4>4
    <3> QED  BY <1>0, <1>4, <1>5, <2>1, <3>5, <3>6
  <2> QED  BY <2>2, <2>3
<1> QED  BY <1>6, <1>7, <1>8

LEMMA MidDue ==
  ASSUME PipelineInv, PipelineInv', ControlInv, Equipped, MidStep, Retired < N,
         NEW d \in Int, Finished(d) => 1 <= d, Due(d)
  PROVE  Due(d)'
<1>0. /\ TypeOK /\ OrderInv /\ UnitsInTime /\ DispatchSeen /\ MispredictPending
  BY DEF PipelineInv, ControlInv
<1>1. CASE Finished(d)    BY <1>0, <1>1, FinishedKept DEF Due
<1>2. CASE InAlu(d)       BY <1>2, InAluKept DEF Due
<1>3. CASE InMul(d)       BY <1>3, InMulKept DEF Due
<1>4. CASE InLsu(d)       BY <1>4, InLsuKept DEF Due
<1>5. CASE OnBus(d)       BY <1>5, OnBusKept DEF Due
<1>6. CASE ToFire(d)      BY <1>0, <1>6, ToFireKept DEF Due
<1>7. CASE LsuTaken(d)    BY <1>7, LsuTakenKept DEF Due
<1>8. CASE ToDispatch(d)  BY <1>0, <1>8, ToDispatchKept DEF Due
<1>9. CASE ToFetch(d)     BY <1>0, <1>9, ToFetchKept DEF Due
<1> QED
  BY <1>1, <1>2, <1>3, <1>4, <1>5, <1>6, <1>7, <1>8, <1>9 DEF Due

-----------------------------------------------------------------------------
(* The end of a cycle *)

(* What a unit still has to do is not nothing. *)
LEMMA CyclesLeft ==
  ASSUME PipelineInv
  PROVE  /\ \A u \in 1 .. ALU_NUM : Busy(alu[u]) =>
              alu[u].fu_count \in Nat /\ alu[u].fu_count < 1
         /\ \A u \in 1 .. MUL_NUM : \A k \in 1 .. Len(mul[u]) :
              mul[u][k].fu_count \in Nat /\ mul[u][k].fu_count < MUL_STAGES
         /\ \A u \in 1 .. LSU_NUM : Busy(lsu[u]) =>
              /\ lsu[u].fu_count \in Nat
              /\ CyclesNeeded(lsu[u].inst) \in 1 .. LONGEST
              /\ lsu[u].fu_count < CyclesNeeded(lsu[u].inst)
<1>0. TypeOK /\ LatencyInv  BY DEF PipelineInv
<1>1. \A e \in FuEntry : e.fu_count \in Nat /\ e.inst \in 0 .. N
  BY AgedFields
<1>2. /\ \A u \in 1 .. ALU_NUM : alu[u] \in FuEntry
      /\ \A u \in 1 .. LSU_NUM : lsu[u] \in FuEntry
      /\ \A u \in 1 .. MUL_NUM : \A k \in 1 .. Len(mul[u]) : mul[u][k] \in FuEntry
  BY <1>0, UnitTypes
<1>3. ASSUME NEW u \in 1 .. LSU_NUM, Busy(lsu[u])
      PROVE  CyclesNeeded(lsu[u].inst) \in 1 .. LONGEST
  <2>1. lsu[u].inst \in 1 .. N
    BY <1>0, <1>1, <1>2, <1>3, Counts DEF Busy
  <2> QED  BY <1>0, <2>1, LatencyBound
<1>4. CountsBelowLatency  BY <1>0 DEF LatencyInv
<1> QED  BY <1>1, <1>2, <1>3, <1>4 DEF CountsBelowLatency

LEMMA DueAtEnd ==
  ASSUME PipelineInv, stage = "end_cycle", NEW d \in Int, Due(d)
  PROVE  1 <= d
<1>0. /\ TypeOK /\ OrderInv /\ LONGEST \in Nat \ {0} /\ MUL_STAGES = 3
      /\ FETCHED_LIMIT = REG_NUM + LONGEST + 2 /\ REG_NUM \in Nat \ {0}
  BY LimitSizes DEF PipelineInv
<1>1. next_retired \in Nat \ {0}  BY <1>0, RobHead
<1>2. CASE Finished(d) \/ OnBus(d)  BY <1>2 DEF Finished, OnBus
<1>3. CASE InAlu(d)
  <2>1. PICK u \in 1 .. ALU_NUM : /\ alu[u].inst = next_retired
                                  /\ 1 - alu[u].fu_count + AluTurn(u) <= d
    BY <1>3 DEF InAlu
  <2>2. Busy(alu[u])  BY <1>1, <2>1 DEF Busy
  <2> QED  BY <2>1, <2>2, CyclesLeft, TurnNumbers
<1>4. CASE InMul(d)
  <2>1. PICK u \in 1 .. MUL_NUM : \E k \in 1 .. Len(mul[u]) :
          /\ mul[u][k].inst = next_retired
          /\ MUL_STAGES - mul[u][k].fu_count + MulTurn(u) <= d
    BY <1>4 DEF InMul
  <2> QED  BY <1>0, <2>1, CyclesLeft, TurnNumbers
<1>5. CASE InLsu(d)
  <2>1. PICK u \in 1 .. LSU_NUM :
          /\ lsu[u].inst = next_retired
          /\ CyclesNeeded(next_retired) - lsu[u].fu_count + LsuTurn(u) <= d
    BY <1>5 DEF InLsu
  <2>2. Busy(lsu[u])  BY <1>1, <2>1 DEF Busy
  <2>3. /\ CyclesNeeded(lsu[u].inst) = CyclesNeeded(next_retired)
    BY <2>1
  <2>4. /\ lsu[u].fu_count \in Nat /\ CyclesNeeded(lsu[u].inst) \in 1 .. LONGEST
        /\ lsu[u].fu_count < CyclesNeeded(lsu[u].inst)
    BY <2>2, CyclesLeft
  <2> QED  BY <1>0, <2>1, <2>3, <2>4, TurnNumbers
<1>6. CASE ToFire(d)  BY <1>0, <1>6, TurnNumbers DEF ToFire
<1>7. CASE LsuTaken(d)
  <2>1. PICK u \in 1 .. LSU_NUM :
          /\ Busy(lsu[u])
          /\ CyclesNeeded(lsu[u].inst) - lsu[u].fu_count + LsuTurn(u) + LONGEST <= d
    BY <1>7 DEF LsuTaken
  <2> QED  BY <1>0, <2>1, CyclesLeft, TurnNumbers
<1>8. CASE ToDispatch(d)
  <2>1. PICK v \in 0 .. REG_NUM :
          v + Past({"fetch", "end_cycle"}) + LONGEST + 2 <= d
    BY <1>8 DEF ToDispatch
  <2> QED  BY <1>0, <2>1, TurnNumbers
<1>9. CASE ToFetch(d)
  <2>1. FetchWait + FETCHED_LIMIT <= d /\ FetchWait \in Nat
    BY <1>0, <1>9, FetchWaitNumber DEF ToFetch
  <2> QED  BY <1>0, <2>1
<1> QED
  BY <1>2, <1>3, <1>4, <1>5, <1>6, <1>7, <1>8, <1>9 DEF Due

LEMMA EndCycleDue ==
  ASSUME PipelineInv, UnitsInTime, EndCycle, stage' = "retire",
         NEW d \in Int, NEW e \in Int, e = d - 1, Due(d)
  PROVE  Due(e)'
<1>0. /\ TypeOK /\ OrderInv /\ stage = "end_cycle" /\ complete_vec = <<>>
      /\ UNCHANGED <<insts, alu, mul, lsu, rob, disp_q, sche_q>>
      /\ Retired' = Retired /\ next_retired' = next_retired
      /\ next_retired \in Nat \ {0} /\ 1 <= d /\ 0 <= e
      /\ LONGEST \in Nat \ {0}
  <2>1. TypeOK /\ OrderInv /\ stage = "end_cycle"  BY DEF PipelineInv, EndCycle
  <2>2. complete_vec = <<>>  BY <2>1 DEF UnitsInTime
  <2>3. UNCHANGED <<insts, alu, mul, lsu, rob, disp_q, sche_q>>
    BY DEF EndCycle, traceVars, fuVars
  <2>4. Retired' = Retired  BY <2>1, EndCycleFrame
  <2>5. next_retired' = next_retired  BY <2>4 DEF next_retired
  <2>6. next_retired \in Nat \ {0}  BY <2>1, RobHead
  <2>7. 1 <= d  BY <2>1, DueAtEnd
  <2> QED  BY <2>1, <2>2, <2>3, <2>4, <2>5, <2>6, <2>7, LimitSizes
<1>1. /\ \A u : AluTurn(u) = 1 /\ MulTurn(u) = 1 /\ LsuTurn(u) = 1
      /\ \A u : AluTurn(u)' = 0 /\ MulTurn(u)' = 0 /\ LsuTurn(u)' = 0
  BY <1>0 DEF AluTurn, MulTurn, LsuTurn
<1>2. \A id : CyclesNeeded(id)' = CyclesNeeded(id)
  BY <1>0 DEF CyclesNeeded, Op, LatencyCycles
<1>3. CASE Finished(d)  BY <1>0, <1>3 DEF Finished, Due
<1>4. CASE OnBus(d)  BY <1>0, <1>4 DEF OnBus
<1>5. CASE InAlu(d)
  <2>1. PICK u \in 1 .. ALU_NUM : /\ alu[u].inst = next_retired
                                  /\ 1 - alu[u].fu_count + AluTurn(u) <= d
    BY <1>5 DEF InAlu
  <2>2. Busy(alu[u])  BY <1>0, <2>1 DEF Busy
  <2>3. 1 - alu[u].fu_count + AluTurn(u)' <= e
    BY <1>1, <2>1, <2>2, CyclesLeft
  <2> QED  BY <1>0, <2>1, <2>3 DEF InAlu, Due
<1>6. CASE InMul(d)
  <2>u. PICK u \in 1 .. MUL_NUM : \E k \in 1 .. Len(mul[u]) :
          /\ mul[u][k].inst = next_retired
          /\ MUL_STAGES - mul[u][k].fu_count + MulTurn(u) <= d
    BY <1>6 DEF InMul
  <2>1. PICK k \in 1 .. Len(mul[u]) :
          /\ mul[u][k].inst = next_retired
          /\ MUL_STAGES - mul[u][k].fu_count + MulTurn(u) <= d
    BY <2>u
  <2>2. MUL_STAGES - mul[u][k].fu_count + MulTurn(u)' <= e
    BY <1>1, <2>1, CyclesLeft, LimitSizes
  <2>3. \E v \in 1 .. MUL_NUM : \E j \in 1 .. Len(mul'[v]) :
          /\ mul'[v][j].inst = next_retired'
          /\ MUL_STAGES - mul'[v][j].fu_count + MulTurn(v)' <= e
    BY <1>0, <2>1, <2>2
  <2> QED  BY <2>3 DEF InMul, Due, MUL_STAGES
<1>7. CASE InLsu(d)
  <2>1. PICK u \in 1 .. LSU_NUM :
          /\ lsu[u].inst = next_retired
          /\ CyclesNeeded(next_retired) - lsu[u].fu_count + LsuTurn(u) <= d
    BY <1>7 DEF InLsu
  <2>2. Busy(lsu[u])  BY <1>0, <2>1 DEF Busy
  <2>3. CyclesNeeded(lsu[u].inst) = CyclesNeeded(next_retired)  BY <2>1
  <2>4. CyclesNeeded(next_retired)' = CyclesNeeded(next_retired)
    BY <1>0 DEF CyclesNeeded, Op, LatencyCycles
  <2>5. CyclesNeeded(next_retired)' - lsu[u].fu_count + LsuTurn(u)' <= e
    <3>1. /\ lsu[u].fu_count \in Nat
          /\ CyclesNeeded(lsu[u].inst) \in 1 .. LONGEST
      BY <2>2, CyclesLeft
    <3> QED  BY <1>0, <1>1, <2>1, <2>3, <2>4, <3>1
  <2> QED  BY <1>0, <2>1, <2>5 DEF InLsu, Due
<1>8. CASE ToFire(d)
  <2>1. Unfired'  BY <1>0, <1>8 DEF ToFire, Unfired
  <2>2. /\ Past({"dispatch", "fetch", "end_cycle"}) = 1
        /\ Past({"dispatch", "fetch", "end_cycle"})' = 0
    BY <1>0 DEF Past
  <2>3. Past({"dispatch", "fetch", "end_cycle"})' + LONGEST + 1 <= e
    BY <1>0, <1>8, <2>2 DEF ToFire
  <2>4. IsLoadStore(next_retired)' => (\E u \in 1 .. LSU_NUM : ~Busy(lsu[u]))'
    BY <1>0, <1>8 DEF ToFire, IsLoadStore, Op, Busy
  <2> QED  BY <2>1, <2>3, <2>4 DEF ToFire, Due
<1>9. CASE LsuTaken(d)
  <2>1. PICK u \in 1 .. LSU_NUM :
          /\ Busy(lsu[u])
          /\ CyclesNeeded(lsu[u].inst) - lsu[u].fu_count + LsuTurn(u) + LONGEST <= d
    BY <1>9 DEF LsuTaken
  <2>2. Unfired' /\ IsLoadStore(next_retired)'
    BY <1>0, <1>9 DEF LsuTaken, Unfired, IsLoadStore, Op
  <2>3. CyclesNeeded(lsu[u].inst)' = CyclesNeeded(lsu[u].inst)
    BY <1>0 DEF CyclesNeeded, Op, LatencyCycles
  <2>4. CyclesNeeded(lsu[u].inst)' - lsu[u].fu_count + LsuTurn(u)' + LONGEST <= e
    BY <1>0, <1>1, <2>1, <2>3, CyclesLeft
  <2>5. \E v \in 1 .. LSU_NUM :
          /\ Busy(lsu[v])'
          /\ CyclesNeeded(lsu[v].inst)' - lsu'[v].fu_count + LsuTurn(v)' + LONGEST
               <= e
    BY <1>0, <2>1, <2>4 DEF Busy
  <2> QED  BY <2>2, <2>5 DEF LsuTaken, Due, LONGEST, MUL_STAGES
<1>10. CASE ToDispatch(d)
  <2>1. PICK p \in 1 .. Len(disp_q), v \in 0 .. REG_NUM :
          /\ disp_q[p] = next_retired
          /\ p + NopsGone <= (v + 1) * FETCH_WIDTH
          /\ v + Past({"fetch", "end_cycle"}) + LONGEST + 2 <= d
    BY <1>10 DEF ToDispatch
  <2>2. /\ Past({"fetch", "end_cycle"}) = 1 /\ Past({"fetch", "end_cycle"})' = 0
        /\ NopsGone' = NopsGone
    BY <1>0 DEF Past, NopsGone
  <2>3. v + Past({"fetch", "end_cycle"})' + LONGEST + 2 <= e
    BY <1>0, <2>1, <2>2, LimitSizes
  <2>4. rob' = <<>>  BY <1>0, <1>10 DEF ToDispatch
  <2>5. \E q \in 1 .. Len(disp_q'), w \in 0 .. REG_NUM :
          /\ disp_q'[q] = next_retired'
          /\ q + NopsGone' <= (w + 1) * FETCH_WIDTH
          /\ w + Past({"fetch", "end_cycle"})' + LONGEST + 2 <= e
    BY <1>0, <2>1, <2>2, <2>3
  <2> QED  BY <2>4, <2>5 DEF ToDispatch, Due, LONGEST, MUL_STAGES
<1>11. CASE ToFetch(d)
  <2>1. /\ rob = <<>> /\ fetch_inst_idx = Retired /\ FetchWait + FETCHED_LIMIT <= d
    BY <1>11 DEF ToFetch, Unfetched
  <2>2. fetch_inst_idx' = fetch_inst_idx
    BY <2>1 DEF EndCycle, RedirectIdx
  <2>3. FetchWait' + 1 <= FetchWait
    <3>0. icache_miss_ctr \in Nat  BY <1>0 DEF TypeOK, DriverTypeOK
    <3>1. /\ icache_miss_ctr' = IF icache_miss_ctr # 0 THEN icache_miss_ctr - 1 ELSE 0
          /\ in_icache_miss' = (in_icache_miss /\ ~MissServed)
          /\ finished_miss' = (finished_miss \/ MissServed)
      BY DEF EndCycle
    <3>2. Past({"end_cycle"}) = 1 /\ Past({"end_cycle"})' = 0
      BY <1>0 DEF Past
    <3>3. IcacheMiss(next_inst)' = IcacheMiss(next_inst)
      BY <1>0, <2>2 DEF IcacheMiss, next_inst
    <3>4. CASE in_icache_miss /\ icache_miss_ctr \in {0, 1}
      <4>1. ~in_icache_miss' /\ finished_miss'  BY <3>1, <3>4 DEF MissServed
      <4>2. FetchWait' = 0  BY <3>2, <4>1 DEF FetchWait
      <4>3. FetchWait = 1  BY <3>4 DEF FetchWait, Longer
      <4> QED  BY <4>2, <4>3
    <3>5. CASE in_icache_miss /\ icache_miss_ctr \notin {0, 1}
      <4>1. in_icache_miss' /\ icache_miss_ctr' = icache_miss_ctr - 1
            /\ icache_miss_ctr' >= 1
        <5>1. ~MissServed  BY <3>5 DEF MissServed
        <5>2. in_icache_miss'  BY <3>1, <3>5, <5>1
        <5>3. icache_miss_ctr # 0 /\ icache_miss_ctr # 1  BY <3>5
        <5> QED  BY <3>0, <3>1, <5>2, <5>3
      <4>2. FetchWait' = icache_miss_ctr'
        BY <3>0, <4>1 DEF FetchWait, Longer
      <4>3. FetchWait = icache_miss_ctr
        BY <3>0, <3>5 DEF FetchWait, Longer
      <4> QED  BY <3>0, <4>1, <4>2, <4>3
    <3>6. CASE ~in_icache_miss
      <4>1. ~in_icache_miss' /\ (finished_miss' <=> finished_miss)
        BY <1>0, <3>1, <3>6 DEF MissServed, TypeOK, DriverTypeOK
      <4>2. FetchWait = 1 + (IF IcacheMiss(next_inst) /\ ~finished_miss
                             THEN LONGEST ELSE 0)
        BY <3>2, <3>6 DEF FetchWait
      <4>3. FetchWait' = 0 + (IF IcacheMiss(next_inst) /\ ~finished_miss
                              THEN LONGEST ELSE 0)
        BY <3>2, <3>3, <4>1 DEF FetchWait, LONGEST, MUL_STAGES
      <4> QED  BY <1>0, <4>2, <4>3
    <3> QED  BY <3>4, <3>5, <3>6
  <2>4. FetchWait' + FETCHED_LIMIT <= e
    <3>1. FetchWait' \in Nat
      <4>1. TypeOK'  BY <1>0, EndCycleType
      <4> QED  BY <4>1, FetchWaitNext
    <3>2. FetchWait \in Nat /\ FETCHED_LIMIT \in Nat
      BY <1>0, FetchWaitNumber, LimitSizes
    <3>3. \A a, b, c \in Nat : a + 1 <= b /\ b + c <= d => a + c <= e
      OBVIOUS
    <3> QED  BY <2>1, <2>3, <3>1, <3>2, <3>3
  <2>5. Unfetched'  BY <1>0, <2>1, <2>2 DEF Unfetched
  <2>6. RoomToFetch'  BY DEF RoomToFetch
  <2> QED
    BY <2>4, <2>5, <2>6 DEF ToFetch, Due, FETCHED_LIMIT, LONGEST, MUL_STAGES
<1> QED
  BY <1>3, <1>4, <1>5, <1>6, <1>7, <1>8, <1>9, <1>10, <1>11 DEF Due

-----------------------------------------------------------------------------
(* The bound holds from any state that stands at a cycle's retirements *)

(* An instruction that has fired is in a unit or on the list of results. *)
LEMMA FiredIsSomewhere ==
  ASSUME TypeOK, PlacesOK, NEW id \in 1 .. N, HasFired(id)
  PROVE  \/ \E u \in 1 .. ALU_NUM : alu[u].inst = id
         \/ \E u \in 1 .. LSU_NUM : lsu[u].inst = id
         \/ \E u \in 1 .. MUL_NUM : \E k \in 1 .. Len(mul[u]) : mul[u][k].inst = id
         \/ complete_vec # <<>>
<1>1. Places(id) = 1  BY DEF PlacesOK, AsNumber
<1>2. \/ Occurrences(alu, id) > 0 \/ Occurrences(lsu, id) > 0
      \/ Occurrences(complete_vec, id) > 0
      \/ Cardinality(MulSpots(mul, id)) > 0
  BY <1>1, PlacesSum
<1>3. CASE Occurrences(alu, id) > 0
  <2>1. Len(alu) = ALU_NUM /\ ALU_NUM \in Nat  BY UnitTypes, SlotsAreSeq
  <2>2. Holds(alu, id)  BY <1>3, <2>1, SpotsFinite
  <2> QED  BY <2>1, <2>2 DEF Holds
<1>4. CASE Occurrences(lsu, id) > 0
  <2>1. Len(lsu) = LSU_NUM /\ LSU_NUM \in Nat  BY UnitTypes, SlotsAreSeq
  <2>2. Holds(lsu, id)  BY <1>4, <2>1, SpotsFinite
  <2> QED  BY <2>1, <2>2 DEF Holds
<1>5. CASE Occurrences(complete_vec, id) > 0
  <2>1. Len(complete_vec) \in Nat  BY UnitTypes
  <2>2. Holds(complete_vec, id)  BY <1>5, <2>1, SpotsFinite
  <2>3. Len(complete_vec) # 0  BY <2>1, <2>2 DEF Holds
  <2> QED  BY <2>3
<1>6. CASE Cardinality(MulSpots(mul, id)) > 0
  <2>1. MulSpots(mul, id) # {}  BY <1>6, FS_EmptySet
  <2> QED  BY <2>1 DEF MulSpots
<1> QED  BY <1>2, <1>3, <1>4, <1>5, <1>6

DueAtAll == \E d \in 0 .. RETIRE_LIMIT + 1 : Due(d)
StaticPremise ==
  /\ Equipped /\ PipelineInv /\ ControlInv /\ Retired < N
  /\ stage = "retire" \/ retired_mispredict

LEMMA StaticDue == StaticPremise => DueAtAll
<1> SUFFICES ASSUME StaticPremise PROVE DueAtAll  OBVIOUS
<1>0. /\ TypeOK /\ OrderInv /\ StationOrder /\ PlacesOK /\ PipelineInv
      /\ Equipped /\ UnitsInTime /\ MissCounted
      /\ stage \in {"retire", "end_cycle"}
      /\ rob # <<>> \/ fetch_inst_idx > Retired => stage = "retire"
      /\ Retired < N
  <2>1. TypeOK /\ OrderInv /\ StationOrder /\ PlacesOK /\ PipelineInv
        /\ Equipped /\ UnitsInTime /\ MissCounted /\ Retired < N
    BY DEF StaticPremise, PipelineInv, ControlInv
  <2>2. CASE stage = "retire"  BY <2>1, <2>2
  <2>3. CASE retired_mispredict
    <3>1. stage = "end_cycle" /\ fetch_inst_idx = Retired
      BY <2>1, <2>3 DEF OrderInv, RedirectSafe
    <3>2. Dispatched <= Retired  BY <2>1, <3>1 DEF OrderInv, FetchAhead
    <3>3. rob = <<>>  BY <2>1, <3>2, RobHead
    <3>4. ~(fetch_inst_idx > Retired)  BY <2>1, <3>1, Counts, RobHead
    <3> QED  BY <2>1, <3>1, <3>3, <3>4
  <2> QED  BY <2>2, <2>3 DEF StaticPremise
<1>1. /\ LONGEST \in Nat \ {0} /\ MUL_STAGES = 3 /\ MUL_STAGES <= LONGEST
      /\ REG_NUM \in Nat \ {0} /\ FETCHED_LIMIT = REG_NUM + LONGEST + 2
      /\ RETIRE_LIMIT = LONGEST + FETCHED_LIMIT
      /\ RETIRE_LIMIT \in Nat /\ FETCHED_LIMIT \in Nat
  BY LimitSizes
<1>2. ASSUME NEW d \in Nat, d <= RETIRE_LIMIT + 1, Due(d) PROVE DueAtAll
  BY <1>1, <1>2 DEF DueAtAll
<1>3. CASE rob = <<>> /\ fetch_inst_idx = Retired
  <2>1. FetchWait <= LONGEST + 1
    BY <1>0, <1>1, TurnNumbers
    DEF FetchWait, Longer, MissCounted, TypeOK, DriverTypeOK
  <2>2. FetchWait \in Nat  BY <1>0, FetchWaitNumber
  <2> DEFINE d == FetchWait + FETCHED_LIMIT
  <2>3. d \in Nat /\ d <= RETIRE_LIMIT + 1  BY <1>1, <2>1, <2>2
  <2>4. ToFetch(d)  BY <1>0, <1>3, <2>3 DEF ToFetch, Unfetched, RoomToFetch
  <2>5. PICK n \in Nat : n = d  BY <2>3
  <2> HIDE DEF d
  <2>6. ToFetch(n)  BY <2>4, <2>5
  <2> QED  BY <1>2, <2>3, <2>5, <2>6 DEF Due
<1>4. CASE rob = <<>> /\ fetch_inst_idx # Retired
  <2>1. /\ Dispatched = Retired /\ Retired \in Nat /\ fetch_inst_idx \in Nat
        /\ next_retired \in Dispatched + 1 .. fetch_inst_idx
        /\ Len(disp_q) \in Nat /\ Len(disp_q) <= DISPQ_ENTRIES
    <3>1. /\ Dispatched = Retired /\ Retired \in Nat
          /\ fetch_inst_idx \in Nat
      BY <1>0, <1>4, RobHead, Counts
    <3>2. Dispatched <= fetch_inst_idx  BY <1>0 DEF OrderInv, FetchAhead
    <3> QED
      BY <1>0, <1>4, <3>1, <3>2 DEF TypeOK, QueueTypeOK, next_retired
  <2>2. PICK p \in 1 .. Len(disp_q) : disp_q[p] = next_retired
    BY <1>0, <2>1 DEF OrderInv, DispQOrder
  <2>3. stage = "retire"  BY <1>0, <1>4, <2>1 DEF next_retired
  <2>4. NopsGone = 0 /\ Past({"fetch", "end_cycle"}) = 0
    BY <2>3 DEF NopsGone, Past
  <2> DEFINE v == REG_NUM - 1
             d == v + LONGEST + 2
  <2>5. v \in 0 .. REG_NUM /\ d \in Nat /\ d <= RETIRE_LIMIT + 1  BY <1>1
  <2>6. p + NopsGone <= (v + 1) * FETCH_WIDTH
    <3>1. (v + 1) * FETCH_WIDTH = DISPQ_ENTRIES  BY <1>0, QueueRoom
    <3> HIDE DEF v
    <3> QED  BY <1>0, <2>1, <2>2, <2>4, <3>1, QueueRoom
  <2>7. v + Past({"fetch", "end_cycle"}) + LONGEST + 2 <= d
    BY <1>1, <2>4
  <2>8. ToDispatch(d)
    <3> HIDE DEF v, d
    <3> QED  BY <1>4, <2>2, <2>5, <2>6, <2>7 DEF ToDispatch
  <2> HIDE DEF d
  <2> QED  BY <1>2, <2>5, <2>8 DEF Due
<1>5. CASE rob # <<>> /\ Head(rob).finished
  <2>1. stage = "retire"  BY <1>0, <1>5
  <2>2. Finished(0)  BY <1>5, <2>1 DEF Finished
  <2> QED  BY <1>1, <1>2, <2>2 DEF Due
<1>6. CASE rob # <<>> /\ ~Head(rob).finished
  <2>0. /\ stage = "retire" /\ HeadStationed /\ next_retired \in 1 .. N
        /\ Len(sche_q) \in Nat
    BY <1>0, <1>6, HeadStation, RobHead
    DEF HeadWaits, TypeOK, QueueTypeOK
  <2>1. \A u : AluTurn(u) = 0 /\ MulTurn(u) = 0 /\ LsuTurn(u) = 0
    BY <2>0 DEF AluTurn, MulTurn, LsuTurn
  <2>2. CyclesNeeded(next_retired) \in 1 .. LONGEST
    BY <1>0, <2>0, LatencyBound
  <2>3. CASE sche_q[1].scheduled
    <3>1. HasFired(next_retired)
      BY <2>0, <2>3 DEF HeadStationed, HasFired
    <3>2. complete_vec = <<>>  BY <1>0, <2>0 DEF UnitsInTime
    <3>3. ASSUME NEW u \in 1 .. ALU_NUM, alu[u].inst = next_retired
          PROVE  DueAtAll
      <4>1. Busy(alu[u])  BY <2>0, <3>3 DEF Busy
      <4>2. 1 - alu[u].fu_count + AluTurn(u) <= 1
        BY <1>0, <2>1, <4>1, CyclesLeft
      <4>3. InAlu(1)  BY <3>3, <4>2 DEF InAlu
      <4> QED  BY <1>1, <1>2, <4>3 DEF Due
    <3>4. ASSUME NEW u \in 1 .. LSU_NUM, lsu[u].inst = next_retired
          PROVE  DueAtAll
      <4>1. Busy(lsu[u])  BY <2>0, <3>4 DEF Busy
      <4>2. lsu[u].fu_count \in Nat  BY <1>0, <4>1, CyclesLeft
      <4>3. CyclesNeeded(next_retired) - lsu[u].fu_count + LsuTurn(u) <= LONGEST
        BY <1>1, <2>1, <2>2, <4>2
      <4>4. PICK d \in Nat : d = LONGEST  BY <1>1
      <4>5. InLsu(d)  BY <3>4, <4>3, <4>4 DEF InLsu
      <4> QED  BY <1>1, <1>2, <4>4, <4>5 DEF Due
    <3>5. ASSUME NEW u \in 1 .. MUL_NUM, NEW k \in 1 .. Len(mul[u]),
                 mul[u][k].inst = next_retired
          PROVE  DueAtAll
      <4>1. mul[u][k].fu_count \in Nat  BY <1>0, CyclesLeft
      <4>2. MUL_STAGES - mul[u][k].fu_count + MulTurn(u) <= LONGEST
        BY <1>1, <2>1, <4>1
      <4>3. PICK d \in Nat : d = LONGEST  BY <1>1
      <4>4. InMul(d)  BY <3>5, <4>2, <4>3 DEF InMul
      <4> QED  BY <1>1, <1>2, <4>3, <4>4 DEF Due
    <3> QED
      BY <1>0, <2>0, <3>1, <3>2, <3>3, <3>4, <3>5, FiredIsSomewhere
  <2>4. CASE ~sche_q[1].scheduled
    <3>1. Unfired  BY <1>6, <2>0, <2>4 DEF Unfired, HeadStationed
    <3>2. CASE IsLoadStore(next_retired) /\ \A u \in 1 .. LSU_NUM : Busy(lsu[u])
      <4>1. 1 \in 1 .. LSU_NUM  BY <1>0, SizeAssumption DEF Equipped
      <4>2. /\ Busy(lsu[1]) /\ lsu[1].fu_count \in Nat
            /\ CyclesNeeded(lsu[1].inst) \in 1 .. LONGEST
        BY <1>0, <3>2, <4>1, CyclesLeft
      <4>3. PICK d \in Nat : d = LONGEST + LONGEST  BY <1>1
      <4>4. CyclesNeeded(lsu[1].inst) - lsu[1].fu_count + LsuTurn(1) + LONGEST <= d
        BY <1>1, <2>1, <4>2, <4>3
      <4>5. LsuTaken(d)  BY <3>1, <3>2, <4>1, <4>2, <4>4 DEF LsuTaken
      <4> QED  BY <1>1, <1>2, <4>3, <4>5 DEF Due
    <3>3. CASE ~(IsLoadStore(next_retired) /\ \A u \in 1 .. LSU_NUM : Busy(lsu[u]))
      <4>1. Past({"dispatch", "fetch", "end_cycle"}) = 0  BY <2>0 DEF Past
      <4>2. PICK d \in Nat : d = LONGEST + 1  BY <1>1
      <4>3. Past({"dispatch", "fetch", "end_cycle"}) + LONGEST + 1 <= d
        BY <1>1, <4>1, <4>2
      <4>4. ToFire(d)  BY <2>0, <3>1, <3>3, <4>3 DEF ToFire
      <4> QED  BY <1>1, <1>2, <4>2, <4>4 DEF Due
    <3> QED  BY <3>2, <3>3
  <2> QED  BY <2>3, <2>4
<1> QED  BY <1>3, <1>4, <1>5, <1>6

LEMMA StaticDueNext == StaticPremise' => DueAtAll'
BY StaticDue, PTL

LEMMA StutterDue ==
  ASSUME UNCHANGED vars, NEW d, Due(d)
  PROVE  Due(d)'
<1>1. UNCHANGED <<insts, stage, i, alu, mul, lsu, rob, sche_q, disp_q,
                  complete_vec, fetch_inst_idx, retired_inst_idx, retire_count,
                  in_icache_miss, icache_miss_ctr, finished_miss,
                  nop_dispatch, fetch_count>>
  BY DEF vars, traceVars, driverVars, cycleVars, loopVars, fuVars
<1>2. next_retired' = next_retired /\ Retired' = Retired
  BY <1>1 DEF next_retired, Retired
<1>3. (Unfired' <=> Unfired) /\ (Unfetched' <=> Unfetched)
  BY <1>1, <1>2 DEF Unfired, Unfetched
<1>4. CASE Finished(d)  BY <1>1, <1>4 DEF Finished, Due
<1>5. CASE InAlu(d)  BY <1>1, <1>2, <1>5 DEF InAlu, AluTurn, Due
<1>6. CASE InMul(d)  BY <1>1, <1>2, <1>6 DEF InMul, MulTurn, MUL_STAGES, Due
<1>7. CASE InLsu(d)
  BY <1>1, <1>2, <1>7
  DEF InLsu, LsuTurn, CyclesNeeded, LatencyCycles, Op, Due
<1>8. CASE OnBus(d)  BY <1>1, <1>2, <1>8 DEF OnBus, Due
<1>9. CASE ToFire(d)
  BY <1>1, <1>2, <1>3, <1>9
  DEF ToFire, Past, IsLoadStore, Op, Busy, LONGEST, MUL_STAGES, Due
<1>10. CASE LsuTaken(d)
  BY <1>1, <1>2, <1>3, <1>10
  DEF LsuTaken, LsuTurn, CyclesNeeded, LatencyCycles, IsLoadStore, Op, Busy,
    LONGEST, MUL_STAGES, Due
<1>11. CASE ToDispatch(d)
  BY <1>1, <1>2, <1>11
  DEF ToDispatch, NopsGone, Past, LONGEST, MUL_STAGES, Due
<1>12. CASE ToFetch(d)
  BY <1>1, <1>2, <1>3, <1>12
  DEF ToFetch, RoomToFetch, FetchWait, Past, IcacheMiss, next_inst,
    FETCHED_LIMIT, LONGEST, MUL_STAGES, Due
<1> QED
  BY <1>4, <1>5, <1>6, <1>7, <1>8, <1>9, <1>10, <1>11, <1>12 DEF Due

-----------------------------------------------------------------------------
(* The watchdog *)

LEMMA ProgressInit ==
  ASSUME Init
  PROVE  ControlInv /\ ProgressInv
<1>1. /\ stage = "retire" /\ i = 1 /\ complete_vec = <<>> /\ rob = <<>>
      /\ fetch_inst_idx = 0 /\ retired_inst_idx = 0 /\ retire_count = 0
      /\ ~in_mispred /\ ~in_icache_miss /\ icache_miss_ctr = 0
      /\ cycles_since_last_retire = 0
      /\ mispredict = [id \in 1 .. N |-> FALSE]
  BY DEF Init
<1>2. N \in Nat \ {0} /\ LONGEST \in Nat \ {0} /\ REG_NUM \in Nat
      /\ FETCHED_LIMIT = REG_NUM + LONGEST + 2
      /\ RETIRE_LIMIT = LONGEST + FETCHED_LIMIT
      /\ RETIRE_LIMIT \in Nat /\ FETCHED_LIMIT \in Nat
  BY TraceAssumption, LimitSizes
<1>3. ControlInv
  BY <1>1, <1>2 DEF ControlInv, UnitsInTime, DispatchSeen, MispredictPending,
    MissCounted, Running
<1>4. ToFetch(RETIRE_LIMIT)
  <2>1. FetchWait <= LONGEST
    BY <1>1, <1>2 DEF FetchWait, Past
  <2>2. FetchWait + FETCHED_LIMIT <= RETIRE_LIMIT
    <3>1. TypeOK  BY InitType
    <3>2. FetchWait \in Nat  BY <3>1, FetchWaitNumber
    <3> QED  BY <1>2, <2>1, <3>2
  <2> QED  BY <1>1, <2>2 DEF ToFetch, Unfetched, Retired, RoomToFetch
<1>5. PICK d \in 0 .. RETIRE_LIMIT + 1 : d = RETIRE_LIMIT  BY <1>2
<1>6. Due(d)  BY <1>4, <1>5 DEF Due
<1>7. Since = 0  BY <1>1 DEF Since
<1>8. Since + d <= RETIRE_LIMIT  BY <1>2, <1>5, <1>7
<1> QED  BY <1>1, <1>3, <1>6, <1>8 DEF ProgressInv

LEMMA ProgressStep ==
  ASSUME Equipped, RETIRE_LIMIT < MAX_CYCLES,
         PipelineInv, ControlInv, ProgressInv, [Next]_vars
  PROVE  ProgressInv'
<1>0. /\ TypeOK /\ OrderInv /\ UnitsInTime
      /\ N \in Nat /\ MAX_CYCLES \in Nat
      /\ RETIRE_LIMIT \in Nat /\ cycles_since_last_retire \in Nat
      /\ retire_count \in Nat /\ retired_inst_idx \in Nat
      /\ PipelineInv' /\ ControlInv'
  BY PipelineStep, ControlStep, LimitSizes, LatencyAssumption, Counts
  DEF PipelineInv, ControlInv, TypeOK, DriverTypeOK
<1>1. Since \in Int /\ Since >= -1  BY <1>0 DEF Since
<1>2. ASSUME NEW d \in 0 .. RETIRE_LIMIT + 1, Due(d)', stage' # "deadlock",
             Since' + d <= RETIRE_LIMIT
      PROVE  ProgressInv'
  BY <1>2 DEF ProgressInv, RETIRE_LIMIT, FETCHED_LIMIT, LONGEST, MUL_STAGES
<1>3. ASSUME stage' # "deadlock", ~(Running' /\ Retired' < N)
      PROVE  ProgressInv'
  BY <1>3 DEF ProgressInv
<1>4. CASE RetireEntry
  <2>1. /\ stage' \in {"retire", "end_cycle"}
        /\ retire_count' = retire_count + 1
        /\ stage' = "retire" \/ retired_mispredict'
    BY <1>4 DEF RetireEntry
  <2>2. Since' = -1  BY <1>0, <2>1 DEF Since
  <2>3. CASE Retired' < N
    <3>1. StaticPremise'
      BY <1>0, <2>1, <2>3 DEF StaticPremise, Equipped
    <3>2. DueAtAll'  BY <3>1, StaticDueNext
    <3>3. PICK d \in 0 .. RETIRE_LIMIT + 1 : Due(d)'
      BY <3>2 DEF DueAtAll, RETIRE_LIMIT, FETCHED_LIMIT, LONGEST, MUL_STAGES
    <3>4. Since' + d <= RETIRE_LIMIT  BY <1>0, <2>2, <3>3
    <3> QED  BY <1>2, <2>1, <3>3, <3>4
  <2>4. CASE ~(Retired' < N)  BY <1>3, <2>1, <2>4
  <2> QED  BY <2>3, <2>4
<1>5. CASE MidStep
  <2>1. /\ Running /\ Running' /\ Since' = Since /\ Retired' = Retired
    BY <1>5, MidFrame
  <2>2. CASE Retired < N
    <3>1. PICK d \in 0 .. RETIRE_LIMIT + 1 : Due(d) /\ Since + d <= RETIRE_LIMIT
      BY <2>1, <2>2 DEF ProgressInv
    <3>2. \E c \in 0 .. RETIRE_LIMIT + 1 :
            Due(c) /\ (Finished(c) => 1 <= c) /\ Since + c <= RETIRE_LIMIT
      <4>1. CASE Finished(d) /\ stage = "retire"
        <5>1. RetireDone
          BY <1>5, <4>1 DEF MidStep, Exec, AluCheck, MulCheck, LsuCheck,
            ExecDone, ResultBus, ResultBusDone, Schedule, ScheduleFire,
            ScheduleSkip, ScheduleDone, Dispatch, DispatchInst, DispatchNop,
            DispatchDone, Fetch, FetchNothing, FetchNop, FetchMiss, FetchInst,
            FetchDone
        <5>2. retire_count > 0
          BY <1>0, <4>1, <5>1, SizeAssumption
          DEF RetireDone, CanRetire, Finished
        <5>3. Since = -1  BY <5>2 DEF Since
        <5>4. PICK c \in 0 .. RETIRE_LIMIT + 1 : c = RETIRE_LIMIT + 1  BY <1>0
        <5>5. 1 <= c /\ Since + c <= RETIRE_LIMIT  BY <1>0, <5>3, <5>4
        <5>6. Due(c)  BY <1>0, <4>1, <5>4 DEF Finished, Due
        <5> QED  BY <5>5, <5>6
      <4>2. CASE Finished(d) /\ stage # "retire"
        <5>1. 1 <= d  BY <4>2 DEF Finished
        <5> QED  BY <3>1, <5>1
      <4>3. CASE ~Finished(d)  BY <3>1, <4>3
      <4> QED  BY <4>1, <4>2, <4>3
    <3>3. PICK c \in 0 .. RETIRE_LIMIT + 1 :
            Due(c) /\ (Finished(c) => 1 <= c) /\ Since + c <= RETIRE_LIMIT
      BY <3>2
    <3>4. c \in Int  BY <1>0, <3>3
    <3>5. Due(c)'  BY <1>0, <1>5, <2>2, <3>3, <3>4, MidDue
    <3>6. stage' # "deadlock"  BY <2>1 DEF Running
    <3> QED  BY <1>2, <2>1, <3>3, <3>5, <3>6
  <2>3. CASE ~(Retired < N)
    <3>1. stage' # "deadlock"  BY <2>1 DEF Running
    <3> QED  BY <1>3, <2>1, <2>3, <3>1
  <2> QED  BY <2>2, <2>3
<1>6. CASE EndCycle
  <2>1. /\ stage = "end_cycle" /\ Running /\ retire_count' = 0
        /\ cycles_since_last_retire' =
             IF retire_count > 0 THEN 0 ELSE cycles_since_last_retire + 1
        /\ stage' = IF cycles_since_last_retire' = MAX_CYCLES THEN "deadlock"
                    ELSE IF Retired < N THEN "retire" ELSE "finished"
        /\ Retired' = Retired
    <3>1. stage = "end_cycle" /\ Running  BY <1>6 DEF EndCycle, Running
    <3>2. Retired' = Retired  BY <1>0, <1>6, EndCycleFrame
    <3> QED  BY <1>6, <3>1, <3>2 DEF EndCycle
  <2>2. Since' = cycles_since_last_retire'
    BY <2>1 DEF Since
  <2>3. Since' = Since + 1  BY <1>0, <2>1, <2>2 DEF Since
  <2>4. CASE Retired < N
    <3>1. PICK d \in 0 .. RETIRE_LIMIT + 1 : Due(d) /\ Since + d <= RETIRE_LIMIT
      BY <2>1, <2>4 DEF ProgressInv
    <3>2. d \in Int /\ 1 <= d  BY <1>0, <2>1, <3>1, DueAtEnd
    <3>3. PICK e \in 0 .. RETIRE_LIMIT + 1 : e = d - 1  BY <1>0, <3>1, <3>2
    <3>4. Since' + e <= RETIRE_LIMIT  BY <1>0, <1>1, <2>3, <3>1, <3>2, <3>3
    <3>5. cycles_since_last_retire' # MAX_CYCLES
      BY <1>0, <1>1, <2>2, <2>3, <3>1, <3>2, <3>3, <3>4
    <3>6. stage' = "retire"  BY <2>1, <2>4, <3>5
    <3>7. Due(e)'
      <4>1. e \in Int  BY <1>0, <3>3
      <4> QED  BY <1>0, <1>6, <3>1, <3>2, <3>3, <3>6, <4>1, EndCycleDue
    <3> QED  BY <1>2, <3>3, <3>4, <3>6, <3>7
  <2>5. CASE ~(Retired < N)
    <3>1. retire_count > 0
      <4>1. retired_inst_idx < N  BY <2>1 DEF ControlInv
      <4> QED  BY <1>0, <2>5, <4>1 DEF Retired
    <3>2. cycles_since_last_retire' = 0  BY <2>1, <3>1
    <3>3. MAX_CYCLES # 0  BY LatencyAssumption
    <3>4. stage' # "deadlock"  BY <2>1, <3>2, <3>3
    <3> QED  BY <1>3, <2>1, <2>5, <3>4
  <2> QED  BY <2>4, <2>5
<1>7. CASE UNCHANGED vars
  <2>1. UNCHANGED <<stage, retired_inst_idx, retire_count,
                    cycles_since_last_retire>>
    BY <1>7 DEF vars, driverVars, cycleVars
  <2>2. (Running' <=> Running) /\ Retired' = Retired /\ Since' = Since
        /\ stage' # "deadlock"
    BY <2>1 DEF Running, Retired, Since, ProgressInv
  <2>3. CASE Running /\ Retired < N
    <3>1. PICK d \in 0 .. RETIRE_LIMIT + 1 : Due(d) /\ Since + d <= RETIRE_LIMIT
      BY <2>3 DEF ProgressInv
    <3>2. Due(d)'  BY <1>7, <3>1, StutterDue
    <3> QED  BY <1>2, <2>2, <3>1, <3>2
  <2>4. CASE ~(Running /\ Retired < N)  BY <1>3, <2>2, <2>4
  <2> QED  BY <2>3, <2>4
<1> QED  BY <1>4, <1>5, <1>6, <1>7, CycleSteps

(* The watchdog of run_procsim never ends a run, whatever the trace: with  *)
(* one unit of each kind the machine always retires an instruction within  *)
(* RETIRE_LIMIT cycles of the one before it, however many instructions are *)
(* in flight, and MAX_CYCLES is more than that (256 against 2 * 100 + 32   *)
(* + 2 in the code).                                                       *)
THEOREM WatchdogQuietHolds ==
  ASSUME Equipped, RETIRE_LIMIT < MAX_CYCLES
  PROVE  Spec => []WatchdogQuiet
<1> DEFINE PInv == PipelineInv /\ ControlInv /\ ProgressInv
<1>1. Init => PInv
  <2> SUFFICES ASSUME Init PROVE PInv  OBVIOUS
  <2>1. PipelineInv
    BY InitType, OrderInit, StationOrderInit, DataInit, LatencyInit, PlacesInit
    DEF PipelineInv
  <2> QED  BY <2>1, ProgressInit
<1>2. PInv /\ [Next]_vars => PInv'
  <2> SUFFICES ASSUME PInv, [Next]_vars PROVE PInv'  OBVIOUS
  <2>1. PipelineInv' /\ ControlInv'  BY PipelineStep, ControlStep
  <2>2. ProgressInv'  BY ProgressStep
  <2> QED  BY <2>1, <2>2
<1>3. PInv => WatchdogQuiet  BY DEF ProgressInv, WatchdogQuiet
<1> HIDE DEF PInv
<1> QED  BY <1>1, <1>2, <1>3, PTL DEF Spec
=============================================================================
