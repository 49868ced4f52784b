-------------------------- MODULE ProcsimDataProofs --------------------------
(***************************************************************************)
(* Data dependences in Procsim: an instruction fires only when everything  *)
(* it depends on has completed, no wakeup is lost, and the register file   *)
(* and the alias table are a future file, for every trace and every        *)
(* number of registers, alias classes, units and stations.  The refinement *)
(* of Dataflow follows: every step of the processor is a step of one       *)
(* instruction of the abstract machine, or none.                           *)
(***************************************************************************)
EXTENDS ProcsimOrderProofs, ProcsimRefinement

(* The result tags of the w-th dispatched instruction, which is the w-th   *)
(* of the trace: tags are handed out in program order and never reused.    *)
Tag1(w) == FIRST_TAG + 2 * (w - 1)
Tag2(w) == Tag1(w) + 1

(* w is the last of the first n instructions to access alias class m. *)
LastAccess(w, n, m) ==
  /\ w \in 1 .. n /\ IsLoadStore(w) /\ insts[w].ms = m
  /\ \A k \in w + 1 .. n : ~(IsLoadStore(k) /\ insts[k].ms = m)

(* A register operand of a station: either it counts as ready and its      *)
(* producer has completed, or the station waits for the tag of a producer  *)
(* that has not.                                                           *)
OperandOK(src, ready, t, id, scheduled) ==
  \/ /\ src < 0 \/ ready
     /\ \A w \in 1 .. id - 1 : LastWriter(w, id - 1, src) => Completed(w)
  \/ /\ ~(src < 0 \/ ready) /\ ~scheduled
     /\ \E w \in 1 .. id - 1 :
          LastWriter(w, id - 1, src) /\ ~Completed(w) /\ t = Tag2(w)

(* The same of the memory operand: only the last access of the class is    *)
(* waited for, and it waited for the others.                               *)
MemOperandOK(e) ==
  \/ /\ IsLoadStore(e.inst) => e.ms_ready
     /\ \A w \in 1 .. e.inst - 1 : SameClass(w, e.inst) => Completed(w)
  \/ /\ IsLoadStore(e.inst) /\ ~e.ms_ready /\ ~e.scheduled
     /\ \E w \in 1 .. e.inst - 1 :
          /\ LastAccess(w, e.inst - 1, insts[e.inst].ms)
          /\ ~Completed(w) /\ e.ms_tag = Tag1(w)

StationOK(e) ==
  /\ e.tag1 = Tag1(e.inst) /\ e.tag2 = Tag2(e.inst)
  /\ OperandOK(insts[e.inst].src1, e.src1_ready, e.src1_tag, e.inst, e.scheduled)
  /\ OperandOK(insts[e.inst].src2, e.src2_ready, e.src2_tag, e.inst, e.scheduled)
  /\ MemOperandOK(e)

(* The register file and the alias table, in the same terms. *)
RegOK(r) ==
  \/ /\ rf[r].ready
     /\ \A w \in 1 .. Dispatched : LastWriter(w, Dispatched, r) => Completed(w)
  \/ /\ ~rf[r].ready
     /\ \E w \in 1 .. Dispatched :
          LastWriter(w, Dispatched, r) /\ ~Completed(w) /\ rf[r].tag = Tag2(w)

MatOK(m) ==
  \/ /\ mat[m].ready
     /\ \A w \in 1 .. Dispatched :
          IsLoadStore(w) /\ insts[w].ms = m => Completed(w)
  \/ /\ ~mat[m].ready
     /\ \E w \in 1 .. Dispatched :
          LastAccess(w, Dispatched, m) /\ ~Completed(w) /\ mat[m].tag = Tag1(w)

(* What a unit or the result bus holds is a dispatched instruction with    *)
(* its own tags that has fired, and so has seen all of its class complete. *)
ResultOK(c) ==
  /\ c.inst \in 1 .. Dispatched
  /\ c.tag1 = Tag1(c.inst) /\ c.tag2 = Tag2(c.inst)
  /\ \A w \in 1 .. c.inst - 1 : SameClass(w, c.inst) => Completed(w)
  /\ \A k \in 1 .. Len(sche_q) :
       sche_q[k].inst = c.inst => sche_q[k].scheduled

StationsOK == \A k \in 1 .. Len(sche_q) : StationOK(sche_q[k])
TablesOK   == (\A r \in Reg : RegOK(r)) /\ (\A m \in MatReg : MatOK(m))
UnitsOK ==
  /\ \A u \in 1 .. ALU_NUM : Busy(alu[u]) => ResultOK(alu[u])
  /\ \A u \in 1 .. MUL_NUM : \A k \in 1 .. Len(mul[u]) : ResultOK(mul[u][k])
  /\ \A u \in 1 .. LSU_NUM : Busy(lsu[u]) => ResultOK(lsu[u])
ResultsOK == \A k \in 1 .. Len(complete_vec) : ResultOK(complete_vec[k])

DataInv ==
  /\ tag = FIRST_TAG + 2 * Dispatched
  /\ StationsOK /\ TablesOK /\ UnitsOK /\ ResultsOK

-----------------------------------------------------------------------------
(* Dependences and tags *)

LEMMA DepsKept ==
  ASSUME insts' = insts
  PROVE  /\ \A w, n, r : LastWriter(w, n, r)' <=> LastWriter(w, n, r)
         /\ \A w, n, m : LastAccess(w, n, m)' <=> LastAccess(w, n, m)
         /\ \A a, b : SameClass(a, b)' <=> SameClass(a, b)
         /\ \A a : IsLoadStore(a)' <=> IsLoadStore(a)
BY DEF LastWriter, LastAccess, SameClass, IsLoadStore, Op

LEMMA LastWriterUnique ==
  ASSUME NEW n \in Nat, NEW r, NEW v, NEW w,
         LastWriter(v, n, r), LastWriter(w, n, r)
  PROVE  v = w
<1>1. v \in 1 .. n /\ w \in 1 .. n  BY DEF LastWriter
<1>2. ~(v < w) /\ ~(w < v)  BY <1>1 DEF LastWriter
<1> QED  BY <1>1, <1>2

LEMMA TagsDiffer ==
  ASSUME NEW v \in Nat, NEW w \in Nat
  PROVE  (Tag1(v) = Tag1(w) => v = w) /\ (Tag2(v) = Tag2(w) => v = w)
BY TraceAssumption DEF Tag1, Tag2, FIRST_TAG

-----------------------------------------------------------------------------
(* Steps that complete nothing *)

LEMMA OperandKept ==
  ASSUME insts' = insts, \A w \in Nat : Completed(w)' <=> Completed(w),
         NEW src, NEW ready, NEW t, NEW id, NEW scheduled,
         OperandOK(src, ready, t, id, scheduled)
  PROVE  OperandOK(src, ready, t, id, scheduled)'
<1>1. \A w, n, r : LastWriter(w, n, r)' <=> LastWriter(w, n, r)  BY DepsKept
<1>2. \A w \in 1 .. id - 1 : w \in Nat  OBVIOUS
<1> QED  BY <1>1, <1>2 DEF OperandOK, Tag1, Tag2

LEMMA MemOperandKept ==
  ASSUME insts' = insts, \A w \in Nat : Completed(w)' <=> Completed(w),
         NEW e, MemOperandOK(e)
  PROVE  MemOperandOK(e)'
<1>1. /\ \A w, n, m : LastAccess(w, n, m)' <=> LastAccess(w, n, m)
      /\ \A a, b : SameClass(a, b)' <=> SameClass(a, b)
      /\ \A a : IsLoadStore(a)' <=> IsLoadStore(a)
  BY DepsKept
<1>2. \A w \in 1 .. e.inst - 1 : w \in Nat  OBVIOUS
<1> QED  BY <1>1, <1>2 DEF MemOperandOK, Tag1

LEMMA StationKept ==
  ASSUME insts' = insts, \A w \in Nat : Completed(w)' <=> Completed(w),
         NEW e, StationOK(e)
  PROVE  StationOK(e)'
<1>1. MemOperandOK(e)'  BY MemOperandKept DEF StationOK
<1>2. OperandOK(insts[e.inst].src1, e.src1_ready, e.src1_tag, e.inst,
                e.scheduled)'
  BY OperandKept DEF StationOK
<1>3. OperandOK(insts[e.inst].src2, e.src2_ready, e.src2_tag, e.inst,
                e.scheduled)'
  BY OperandKept DEF StationOK
<1> QED  BY <1>1, <1>2, <1>3 DEF StationOK, Tag1, Tag2

(* The tables, when they do not change either. *)
LEMMA TablesKept ==
  ASSUME TypeOK, TablesOK, insts' = insts, rf' = rf, mat' = mat,
         Dispatched' = Dispatched,
         \A w \in Nat : Completed(w)' <=> Completed(w)
  PROVE  TablesOK'
<1>1. /\ \A w, n, r : LastWriter(w, n, r)' <=> LastWriter(w, n, r)
      /\ \A w, n, m : LastAccess(w, n, m)' <=> LastAccess(w, n, m)
      /\ \A a : IsLoadStore(a)' <=> IsLoadStore(a)
  BY DepsKept
<1>2. \A w \in 1 .. Dispatched : w \in Nat  OBVIOUS
<1>3. ASSUME NEW r \in Reg PROVE RegOK(r)'
  BY <1>1, <1>2 DEF TablesOK, RegOK, Tag1, Tag2
<1>4. ASSUME NEW m \in MatReg PROVE MatOK(m)'
  BY <1>1, <1>2 DEF TablesOK, MatOK, Tag1
<1> QED  BY <1>3, <1>4 DEF TablesOK

-----------------------------------------------------------------------------
(* What is in a unit or on its way to the result bus stays right *)

(* How the stations may change: none of those left loses its mark. *)
MarksKept ==
  \A k \in 1 .. Len(sche_q') :
    \/ sche_q'[k].inst = Dispatched + 1
    \/ \E j \in 1 .. Len(sche_q) :
         /\ sche_q'[k].inst = sche_q[j].inst
         /\ sche_q[j].scheduled => sche_q'[k].scheduled

LEMMA ResultKept ==
  ASSUME TypeOK, insts' = insts, MarksKept,
         Dispatched' \in {Dispatched, Dispatched + 1},
         \A w \in Nat : Completed(w) => Completed(w)'
  PROVE  \A c : ResultOK(c) => ResultOK(c)'
<1>1. Dispatched \in Nat  BY Counts
<1>2. \A a, b : SameClass(a, b)' <=> SameClass(a, b)  BY DepsKept
<1> SUFFICES ASSUME NEW c, ResultOK(c) PROVE ResultOK(c)'
  OBVIOUS
<1>3. c.inst \in 1 .. Dispatched' /\ c.tag1 = Tag1(c.inst) /\ c.tag2 = Tag2(c.inst)
  BY <1>1 DEF ResultOK
<1>4. \A w \in 1 .. c.inst - 1 : SameClass(w, c.inst)' => Completed(w)'
  BY <1>2 DEF ResultOK
<1>5. ASSUME NEW k \in 1 .. Len(sche_q'), sche_q'[k].inst = c.inst
      PROVE  sche_q'[k].scheduled
  <2>1. c.inst # Dispatched + 1  BY <1>1 DEF ResultOK
  <2>2. PICK j \in 1 .. Len(sche_q) :
          /\ sche_q'[k].inst = sche_q[j].inst
          /\ sche_q[j].scheduled => sche_q'[k].scheduled
    BY <1>5, <2>1 DEF MarksKept
  <2> QED  BY <1>5, <2>2 DEF ResultOK
<1> QED  BY <1>3, <1>4, <1>5 DEF ResultOK, Tag1, Tag2

LEMMA AgedResult ==
  ASSUME NEW c \in FuEntry, ResultOK(c)
  PROVE  ResultOK(Aged(c))
<1>1. Aged(c).inst = c.inst /\ Aged(c).tag1 = c.tag1 /\ Aged(c).tag2 = c.tag2
  BY DEF Aged, FuEntry
<1> QED  BY <1>1 DEF ResultOK

(* Steps that leave units, results and stations alone. *)
LEMMA UnitsKept ==
  ASSUME UnitsOK, UNCHANGED <<alu, mul, lsu>>,
         \A c : ResultOK(c) => ResultOK(c)'
  PROVE  UnitsOK'
BY DEF UnitsOK, Busy

LEMMA ResultsKept ==
  ASSUME ResultsOK, complete_vec' = complete_vec,
         \A c : ResultOK(c) => ResultOK(c)'
  PROVE  ResultsOK'
BY DEF ResultsOK

LEMMA MarksSame == ASSUME sche_q' = sche_q PROVE MarksKept
BY DEF MarksKept

-----------------------------------------------------------------------------
(* The steps of the function units *)

LEMMA AluCheckData ==
  ASSUME TypeOK, UnitsOK, ResultsOK, AluCheck,
         \A c : ResultOK(c) => ResultOK(c)'
  PROVE  UnitsOK' /\ ResultsOK'
<1>1. i \in 1 .. ALU_NUM
  BY SizeAssumption DEF AluCheck, TypeOK, LoopTypeOK
<1>2. alu \in [1 .. ALU_NUM -> FuEntry] /\ alu[i] \in FuEntry
  BY <1>1 DEF TypeOK, UnitTypeOK
<1>3. Busy(alu[i]) => ResultOK(Aged(alu[i]))
  BY <1>1, <1>2, AgedResult DEF UnitsOK
<1>4. mul' = mul /\ lsu' = lsu  BY DEF AluCheck
<1>5. Len(complete_vec) \in Nat /\ complete_vec \in Seq(FuEntry)
  BY LenProperties DEF TypeOK, QueueTypeOK
<1>6. ~Busy(Free)  BY DEF Busy, Free
<1>7. CASE Busy(alu[i]) /\ Aged(alu[i]).fu_count = 1
  <2>1. alu' = [alu EXCEPT ![i] = Free]
        /\ complete_vec' = Append(complete_vec, Aged(alu[i]))
    BY <1>7 DEF AluCheck
  <2>2. Aged(alu[i]) \in FuEntry /\ ResultOK(Aged(alu[i]))
    BY <1>2, <1>3, <1>7, AgedType
  <2>3. ASSUME NEW k \in 1 .. Len(complete_vec')
        PROVE  ResultOK(complete_vec[k])'
    <3>1. /\ Len(complete_vec') = Len(complete_vec) + 1
          /\ \A n \in 1 .. Len(complete_vec) : complete_vec'[n] = complete_vec[n]
          /\ complete_vec'[Len(complete_vec) + 1] = Aged(alu[i])
      BY <1>5, <2>1, <2>2, AppendProperties
    <3>2. ResultOK(complete_vec'[k])
      <4>1. CASE k \in 1 .. Len(complete_vec)
        BY <3>1, <4>1 DEF ResultsOK
      <4>2. CASE k = Len(complete_vec) + 1  BY <2>2, <3>1, <4>2
      <4> QED  BY <1>5, <3>1, <4>1, <4>2
    <3> QED  BY <3>2
  <2>4. ASSUME NEW u \in 1 .. ALU_NUM, Busy(alu'[u])
        PROVE  ResultOK(alu[u])'
    <3>1. u # i /\ alu'[u] = alu[u]  BY <1>2, <1>6, <2>1, <2>4
    <3> QED  BY <2>4, <3>1 DEF UnitsOK
  <2> QED  BY <1>4, <2>3, <2>4 DEF UnitsOK, ResultsOK, Busy
<1>8. CASE ~(Busy(alu[i]) /\ Aged(alu[i]).fu_count = 1)
  <2>1. alu' = (IF Busy(alu[i]) THEN [alu EXCEPT ![i] = Aged(alu[i])] ELSE alu)
        /\ complete_vec' = complete_vec
    BY <1>8 DEF AluCheck
  <2>2. ASSUME NEW u \in 1 .. ALU_NUM, Busy(alu'[u])
        PROVE  ResultOK(alu[u])'
    <3>1. CASE Busy(alu[i]) /\ u = i
      <4>1. alu'[u] = Aged(alu[i])  BY <1>1, <1>2, <2>1, <3>1
      <4> QED  BY <1>3, <3>1, <4>1
    <3>2. CASE ~(Busy(alu[i]) /\ u = i)
      <4>1. alu'[u] = alu[u]  BY <1>2, <2>1, <3>2
      <4> QED  BY <2>2, <4>1 DEF UnitsOK
    <3> QED  BY <3>1, <3>2
  <2> QED  BY <1>4, <2>1, <2>2, ResultsKept DEF UnitsOK, Busy
<1> QED  BY <1>7, <1>8

LEMMA LsuCheckData ==
  ASSUME TypeOK, UnitsOK, ResultsOK, LsuCheck,
         \A c : ResultOK(c) => ResultOK(c)'
  PROVE  UnitsOK' /\ ResultsOK'
<1>1. i \in 1 .. LSU_NUM
  BY SizeAssumption DEF LsuCheck, TypeOK, LoopTypeOK
<1>2. lsu \in [1 .. LSU_NUM -> FuEntry] /\ lsu[i] \in FuEntry
  BY <1>1 DEF TypeOK, UnitTypeOK
<1>3. Busy(lsu[i]) => ResultOK(Aged(lsu[i]))
  BY <1>1, <1>2, AgedResult DEF UnitsOK
<1>4. mul' = mul /\ alu' = alu  BY DEF LsuCheck
<1>5. Len(complete_vec) \in Nat /\ complete_vec \in Seq(FuEntry)
  BY LenProperties DEF TypeOK, QueueTypeOK
<1>6. ~Busy(Free)  BY DEF Busy, Free
<1> DEFINE done == Busy(lsu[i])
                   /\ Aged(lsu[i]).fu_count = CyclesNeeded(lsu[i].inst)
<1>7. CASE done
  <2>1. lsu' = [lsu EXCEPT ![i] = Free]
        /\ complete_vec' = Append(complete_vec, Aged(lsu[i]))
    BY <1>7 DEF LsuCheck
  <2>2. Aged(lsu[i]) \in FuEntry /\ ResultOK(Aged(lsu[i]))
    BY <1>2, <1>3, <1>7, AgedType
  <2>3. ASSUME NEW k \in 1 .. Len(complete_vec')
        PROVE  ResultOK(complete_vec[k])'
    <3>1. /\ Len(complete_vec') = Len(complete_vec) + 1
          /\ \A n \in 1 .. Len(complete_vec) : complete_vec'[n] = complete_vec[n]
          /\ complete_vec'[Len(complete_vec) + 1] = Aged(lsu[i])
      BY <1>5, <2>1, <2>2, AppendProperties
    <3>2. ResultOK(complete_vec'[k])
      <4>1. CASE k \in 1 .. Len(complete_vec)
        BY <3>1, <4>1 DEF ResultsOK
      <4>2. CASE k = Len(complete_vec) + 1  BY <2>2, <3>1, <4>2
      <4> QED  BY <1>5, <3>1, <4>1, <4>2
    <3> QED  BY <3>2
  <2>4. ASSUME NEW u \in 1 .. LSU_NUM, Busy(lsu'[u])
        PROVE  ResultOK(lsu[u])'
    <3>1. u # i /\ lsu'[u] = lsu[u]  BY <1>2, <1>6, <2>1, <2>4
    <3> QED  BY <2>4, <3>1 DEF UnitsOK
  <2> QED  BY <1>4, <2>3, <2>4 DEF UnitsOK, ResultsOK, Busy
<1>8. CASE ~done
  <2>1. lsu' = (IF Busy(lsu[i]) THEN [lsu EXCEPT ![i] = Aged(lsu[i])] ELSE lsu)
        /\ complete_vec' = complete_vec
    BY <1>8 DEF LsuCheck
  <2>2. ASSUME NEW u \in 1 .. LSU_NUM, Busy(lsu'[u])
        PROVE  ResultOK(lsu[u])'
    <3>1. CASE Busy(lsu[i]) /\ u = i
      <4>1. lsu'[u] = Aged(lsu[i])  BY <1>1, <1>2, <2>1, <3>1
      <4> QED  BY <1>3, <3>1, <4>1
    <3>2. CASE ~(Busy(lsu[i]) /\ u = i)
      <4>1. lsu'[u] = lsu[u]  BY <1>2, <2>1, <3>2
      <4> QED  BY <2>2, <4>1 DEF UnitsOK
    <3> QED  BY <3>1, <3>2
  <2> QED  BY <1>4, <2>1, <2>2, ResultsKept DEF UnitsOK, Busy
<1> QED  BY <1>7, <1>8

(* A MUL pipeline is cut in two: the front goes to the result bus. *)
LEMMA MulCheckData ==
  ASSUME TypeOK, UnitsOK, ResultsOK, MulCheck,
         \A c : ResultOK(c) => ResultOK(c)'
  PROVE  UnitsOK' /\ ResultsOK'
<1> DEFINE pipe == [k \in 1 .. Len(mul[i]) |-> Aged(mul[i][k])]
           p    == CHOOSE q \in 0 .. Len(pipe) : MulLeaving(pipe, q)
<1>1. i \in 1 .. MUL_NUM
  BY SizeAssumption DEF MulCheck, TypeOK, LoopTypeOK
<1>2. mul \in [1 .. MUL_NUM -> Seq(FuEntry)] /\ mul[i] \in Seq(FuEntry)
      /\ Len(mul[i]) \in Nat
  BY <1>1, LenProperties DEF TypeOK, UnitTypeOK
<1>3. \A k \in 1 .. Len(mul[i]) :
        Aged(mul[i][k]) \in FuEntry /\ ResultOK(Aged(mul[i][k]))
  BY <1>1, <1>2, ElementOfSeq, AgedType, AgedResult DEF UnitsOK
<1>4. pipe \in Seq(FuEntry)  BY <1>2, <1>3
<1>5. Len(pipe) = Len(mul[i]) /\ \A k \in 1 .. Len(pipe) : ResultOK(pipe[k])
  BY <1>2, <1>3
<1>6. p \in 0 .. Len(pipe)  BY <1>4, MulCut
<1>7. complete_vec' = complete_vec \o SubSeq(pipe, 1, p)
      /\ mul' = [mul EXCEPT ![i] = SubSeq(pipe, p + 1, Len(pipe))]
      /\ alu' = alu /\ lsu' = lsu
  BY DEF MulCheck
<1> HIDE DEF pipe, p
<1>8. /\ Len(pipe) \in Nat /\ p \in Nat /\ p <= Len(pipe)
      /\ \A k \in 1 .. Len(pipe) : pipe[k] \in FuEntry
  BY <1>4, <1>6, LenProperties, ElementOfSeq
<1> DEFINE front == SubSeq(pipe, 1, p)
           back  == SubSeq(pipe, p + 1, Len(pipe))
<1>9. /\ front \in Seq(FuEntry) /\ Len(front) = p
      /\ \A k \in 1 .. Len(front) : ResultOK(front[k])
  <2>1. front \in Seq(FuEntry) /\ Len(front) = p
        /\ \A k \in 1 .. p : front[k] = pipe[k]
    <3>1. \A k \in 1 .. p : pipe[k] \in FuEntry  BY <1>8
    <3>2. 1 \in Int /\ p \in Int /\ (IF 1 <= p THEN p - 1 + 1 ELSE 0) = p
          /\ \A k \in 1 .. p : 1 + k - 1 = k
      BY <1>8
    <3> QED  BY <3>1, <3>2, SubSeqProperties
  <2> QED  BY <1>5, <1>8, <2>1
<1>10. \A k \in 1 .. Len(back) : ResultOK(back[k])
  <2>1. Len(back) = Len(pipe) - p
        /\ \A k \in 1 .. Len(back) : back[k] = pipe[p + k]
    <3>1. \A k \in p + 1 .. Len(pipe) : pipe[k] \in FuEntry  BY <1>8
    <3>2. p + 1 \in Int /\ Len(pipe) \in Int
          /\ (IF p + 1 <= Len(pipe) THEN Len(pipe) - (p + 1) + 1 ELSE 0)
               = Len(pipe) - p
          /\ \A k \in 1 .. Len(pipe) - p : (p + 1) + k - 1 = p + k
      BY <1>8
    <3> QED  BY <3>1, <3>2, SubSeqProperties
  <2> QED  BY <1>5, <1>8, <2>1
<1> HIDE DEF front, back
<1>11. ASSUME NEW k \in 1 .. Len(complete_vec')
       PROVE  ResultOK(complete_vec[k])'
  <2>1. Len(complete_vec) \in Nat /\ complete_vec \in Seq(FuEntry)
    BY LenProperties DEF TypeOK, QueueTypeOK
  <2>2. /\ Len(complete_vec') = Len(complete_vec) + Len(front)
        /\ \A n \in 1 .. Len(complete_vec) + Len(front) : complete_vec'[n] =
             IF n <= Len(complete_vec) THEN complete_vec[n]
             ELSE front[n - Len(complete_vec)]
    BY <1>7, <1>9, <2>1, ConcatProperties DEF front
  <2>3. ResultOK(complete_vec'[k])
    <3>1. CASE k <= Len(complete_vec)
      BY <1>9, <2>1, <2>2, <3>1, <1>8 DEF ResultsOK
    <3>2. CASE ~(k <= Len(complete_vec))
      <4>1. k - Len(complete_vec) \in 1 .. Len(front)
        BY <1>8, <1>9, <2>1, <2>2, <3>2
      <4> QED  BY <1>9, <2>2, <3>2, <4>1
    <3> QED  BY <3>1, <3>2
  <2> QED  BY <2>3
<1>12. ASSUME NEW u \in 1 .. MUL_NUM, NEW k \in 1 .. Len(mul'[u])
       PROVE  ResultOK(mul[u][k])'
  <2>1. CASE u = i
    <3>1. mul'[u] = back  BY <1>1, <1>2, <1>7, <2>1 DEF back
    <3> QED  BY <1>10, <1>12, <3>1
  <2>2. CASE u # i
    <3>1. mul'[u] = mul[u]  BY <1>2, <1>7, <2>2
    <3> QED  BY <1>12, <3>1 DEF UnitsOK
  <2> QED  BY <2>1, <2>2
<1> QED  BY <1>7, <1>11, <1>12 DEF UnitsOK, ResultsOK, Busy

-----------------------------------------------------------------------------
(* Firing *)

LEMMA SchedEntries ==
  ASSUME TypeOK, StationOrder
  PROVE  /\ Len(sche_q) \in Nat
         /\ \A k \in 1 .. Len(sche_q) :
              sche_q[k] \in SchedEntry /\ sche_q[k].inst \in 1 .. Dispatched
         /\ \A j, k \in 1 .. Len(sche_q) :
              sche_q[j].inst = sche_q[k].inst => j = k
<1>1. Len(sche_q) \in Nat
      /\ \A k \in 1 .. Len(sche_q) : sche_q[k] \in SchedEntry
  BY LenProperties, ElementOfSeq DEF TypeOK, QueueTypeOK
<1>2. \A k \in 1 .. Len(sche_q) : sche_q[k].inst \in 1 .. Dispatched
  BY DEF StationOrder
<1>3. ASSUME NEW j \in 1 .. Len(sche_q), NEW k \in 1 .. Len(sche_q),
             sche_q[j].inst = sche_q[k].inst
      PROVE  j = k
  <2>1. ~(j < k) /\ ~(k < j)
    BY <1>2, <1>3, Counts DEF StationOrder
  <2> QED  BY <1>1, <2>1
<1> QED  BY <1>1, <1>2, <1>3

(* A station whose operands are ready has seen its producers complete. *)
LEMMA ReadyResolved ==
  ASSUME NEW e, StationOK(e), InstReady(e)
  PROVE  /\ \A w \in 1 .. e.inst - 1 : ReadsFrom(e.inst, w) => Completed(w)
         /\ \A w \in 1 .. e.inst - 1 : SameClass(w, e.inst) => Completed(w)
<1>1. \A w \in 1 .. e.inst - 1 :
        LastWriter(w, e.inst - 1, insts[e.inst].src1) => Completed(w)
  <2>1. insts[e.inst].src1 < 0 \/ e.src1_ready  BY DEF InstReady
  <2> QED  BY <2>1 DEF StationOK, OperandOK
<1>2. \A w \in 1 .. e.inst - 1 :
        LastWriter(w, e.inst - 1, insts[e.inst].src2) => Completed(w)
  <2>1. insts[e.inst].src2 < 0 \/ e.src2_ready  BY DEF InstReady
  <2> QED  BY <2>1 DEF StationOK, OperandOK
<1>3. \A w \in 1 .. e.inst - 1 : SameClass(w, e.inst) => Completed(w)
  BY DEF StationOK, MemOperandOK, InstReady
<1> QED  BY <1>1, <1>2, <1>3 DEF ReadsFrom

(* ... and may be marked as scheduled. *)
LEMMA FiredStation ==
  ASSUME NEW e \in SchedEntry, StationOK(e), InstReady(e)
  PROVE  StationOK([e EXCEPT !.scheduled = TRUE])
<1> DEFINE f == [e EXCEPT !.scheduled = TRUE]
<1>1. /\ f.inst = e.inst /\ f.tag1 = e.tag1 /\ f.tag2 = e.tag2
      /\ f.src1_ready = e.src1_ready /\ f.src1_tag = e.src1_tag
      /\ f.src2_ready = e.src2_ready /\ f.src2_tag = e.src2_tag
      /\ f.ms_ready = e.ms_ready /\ f.ms_tag = e.ms_tag
  BY DEF SchedEntry
<1> HIDE DEF f
<1>2. OperandOK(insts[f.inst].src1, f.src1_ready, f.src1_tag, f.inst,
                f.scheduled)
  <2>1. insts[e.inst].src1 < 0 \/ e.src1_ready  BY DEF InstReady
  <2>2. OperandOK(insts[e.inst].src1, e.src1_ready, e.src1_tag, e.inst,
                  e.scheduled)
    BY DEF StationOK
  <2> QED  BY <1>1, <2>1, <2>2 DEF OperandOK
<1>3. OperandOK(insts[f.inst].src2, f.src2_ready, f.src2_tag, f.inst,
                f.scheduled)
  <2>1. insts[e.inst].src2 < 0 \/ e.src2_ready  BY DEF InstReady
  <2>2. OperandOK(insts[e.inst].src2, e.src2_ready, e.src2_tag, e.inst,
                  e.scheduled)
    BY DEF StationOK
  <2> QED  BY <1>1, <2>1, <2>2 DEF OperandOK
<1>4. MemOperandOK(f)
  <2>1. IsLoadStore(e.inst) => e.ms_ready  BY DEF InstReady
  <2>2. MemOperandOK(e)  BY DEF StationOK
  <2> QED  BY <1>1, <2>1, <2>2 DEF MemOperandOK
<1>5. f.tag1 = Tag1(f.inst) /\ f.tag2 = Tag2(f.inst)  BY <1>1 DEF StationOK
<1>6. StationOK(f)  BY <1>2, <1>3, <1>4, <1>5 DEF StationOK
<1> QED  BY <1>6 DEF f

LEMMA FireData ==
  ASSUME TypeOK, StationOrder, DataInv, ScheduleFire
  PROVE  DataInv'
<1> DEFINE e == sche_q[i]
<1>1. Dispatched \in Nat  BY Counts
<1>2. /\ ~e.scheduled /\ InstReady(e)
      /\ FireAlu(e) \/ FireMul(e) \/ FireLsu(e)
      /\ UNCHANGED <<insts, rob, retired_inst_idx, retire_count, rf, mat, tag,
                     complete_vec>>
  BY DEF ScheduleFire, CanFire, traceVars, driverVars, cycleVars, renameVars
<1>3. /\ i \in 1 .. Len(sche_q) /\ Len(sche_q') = Len(sche_q)
      /\ \A k \in 1 .. Len(sche_q) : sche_q'[k] =
           IF k = i THEN [sche_q[k] EXCEPT !.scheduled = TRUE] ELSE sche_q[k]
  BY ScheduleFireInsts
<1>4. Dispatched' = Dispatched /\ \A w \in Nat : Completed(w)' <=> Completed(w)
  BY <1>2, CompletedFrame
<1>5. e \in SchedEntry /\ e.inst \in 1 .. Dispatched /\ StationOK(e)
  BY <1>3, SchedEntries DEF DataInv, StationsOK
<1>6. \A x \in SchedEntry : /\ [x EXCEPT !.scheduled = TRUE].inst = x.inst
                            /\ [x EXCEPT !.scheduled = TRUE].scheduled
  BY DEF SchedEntry
<1>7. StationsOK'
  <2> SUFFICES ASSUME NEW k \in 1 .. Len(sche_q) PROVE StationOK(sche_q[k])'
    BY <1>3 DEF StationsOK
  <2>1. StationOK(sche_q'[k])
    <3>1. CASE k = i
      <4>1. StationOK([e EXCEPT !.scheduled = TRUE])
        BY <1>2, <1>5, FiredStation
      <4>2. sche_q'[k] = [e EXCEPT !.scheduled = TRUE]  BY <1>3, <3>1
      <4> QED  BY <4>1, <4>2
    <3>2. CASE k # i
      <4>1. sche_q'[k] = sche_q[k]  BY <1>3, <3>2
      <4> QED  BY <4>1 DEF DataInv, StationsOK
    <3> QED  BY <3>1, <3>2
  <2> QED  BY <1>2, <1>4, <2>1, StationKept
<1>8. TablesOK'  BY <1>2, <1>4, TablesKept DEF DataInv
<1>9. MarksKept
  <2> SUFFICES ASSUME NEW k \in 1 .. Len(sche_q)
               PROVE  /\ sche_q'[k].inst = sche_q[k].inst
                      /\ sche_q[k].scheduled => sche_q'[k].scheduled
    BY <1>3 DEF MarksKept
  <2>1. sche_q[k] \in SchedEntry  BY SchedEntries
  <2> QED  BY <1>3, <1>6, <2>1
<1>10. \A c : ResultOK(c) => ResultOK(c)'
  BY <1>2, <1>4, <1>9, ResultKept
<1>11. ResultsOK'  BY <1>2, <1>10, ResultsKept DEF DataInv
<1>12. ASSUME NEW c, c.inst = e.inst, c.tag1 = e.tag1, c.tag2 = e.tag2
       PROVE  ResultOK(c)'
  <2>1. /\ c.inst \in 1 .. Dispatched' /\ c.tag1 = Tag1(c.inst)
        /\ c.tag2 = Tag2(c.inst)
    BY <1>4, <1>5, <1>12 DEF StationOK
  <2>2. \A w \in 1 .. c.inst - 1 : SameClass(w, c.inst)' => Completed(w)'
    <3>1. \A w \in 1 .. c.inst - 1 : SameClass(w, c.inst) => Completed(w)
      BY <1>2, <1>5, <1>12, ReadyResolved
    <3>2. \A w : SameClass(w, c.inst)' <=> SameClass(w, c.inst)
      BY <1>2, DepsKept
    <3> QED  BY <1>4, <3>1, <3>2
  <2>3. ASSUME NEW k \in 1 .. Len(sche_q'), sche_q'[k].inst = c.inst
        PROVE  sche_q'[k].scheduled
    <3>1. sche_q[k] \in SchedEntry /\ sche_q'[k].inst = sche_q[k].inst
      BY <1>3, <1>6, SchedEntries
    <3>2. k = i  BY <1>3, <1>12, <2>3, <3>1, SchedEntries
    <3> QED  BY <1>3, <1>5, <1>6, <3>2
  <2> QED  BY <2>1, <2>2, <2>3 DEF ResultOK, Tag1, Tag2
<1>13. ASSUME NEW c, c = Fired(e) PROVE ResultOK(c)'
  <2>1. c.inst = e.inst /\ c.tag1 = e.tag1 /\ c.tag2 = e.tag2
    BY <1>13 DEF Fired
  <2> QED  BY <1>12, <2>1
<1> HIDE DEF e
<1>14. UnitsOK'
  <2>1. UnitsOK /\ alu \in [1 .. ALU_NUM -> FuEntry]
        /\ lsu \in [1 .. LSU_NUM -> FuEntry]
        /\ mul \in [1 .. MUL_NUM -> Seq(FuEntry)] /\ mul_current \in Nat
    BY SizeAssumption DEF DataInv, TypeOK, UnitTypeOK
  <2>2. CASE FireAlu(e)
    <3>1. \A u \in 1 .. ALU_NUM : alu'[u] = alu[u] \/ alu'[u] = Fired(e)
      <4>1. alu' = PushSlot(alu, ALU_NUM, e)  BY <2>2 DEF FireAlu
      <4>2. \A u \in 1 .. ALU_NUM : \/ PushSlot(alu, ALU_NUM, e)[u] = alu[u]
                                   \/ PushSlot(alu, ALU_NUM, e)[u] = Fired(e)
        BY <2>1 DEF PushSlot
      <4> QED  BY <4>1, <4>2
    <3>2. ASSUME NEW u \in 1 .. ALU_NUM, Busy(alu'[u])
          PROVE  ResultOK(alu[u])'
      <4>1. CASE alu'[u] = Fired(e)  BY <1>13, <4>1
      <4>2. CASE alu'[u] = alu[u]  BY <1>10, <2>1, <3>2, <4>2 DEF UnitsOK
      <4> QED  BY <3>1, <4>1, <4>2
    <3> QED  BY <1>10, <2>1, <2>2, <3>2 DEF FireAlu, UnitsOK, Busy
  <2>3. CASE FireLsu(e)
    <3>1. \A u \in 1 .. LSU_NUM : lsu'[u] = lsu[u] \/ lsu'[u] = Fired(e)
      <4>1. lsu' = PushSlot(lsu, LSU_NUM, e)  BY <2>3 DEF FireLsu
      <4>2. \A u \in 1 .. LSU_NUM : \/ PushSlot(lsu, LSU_NUM, e)[u] = lsu[u]
                                   \/ PushSlot(lsu, LSU_NUM, e)[u] = Fired(e)
        BY <2>1 DEF PushSlot
      <4> QED  BY <4>1, <4>2
    <3>2. ASSUME NEW u \in 1 .. LSU_NUM, Busy(lsu'[u])
          PROVE  ResultOK(lsu[u])'
      <4>1. CASE lsu'[u] = Fired(e)  BY <1>13, <4>1
      <4>2. CASE lsu'[u] = lsu[u]  BY <1>10, <2>1, <3>2, <4>2 DEF UnitsOK
      <4> QED  BY <3>1, <4>1, <4>2
    <3> QED  BY <1>10, <2>1, <2>3, <3>2 DEF FireLsu, UnitsOK, Busy
  <2>4. CASE FireMul(e)
    <3>1. alu' = alu /\ lsu' = lsu  BY <2>4 DEF FireMul
    <3>2. ASSUME NEW u \in 1 .. MUL_NUM, NEW k \in 1 .. Len(mul'[u])
          PROVE  ResultOK(mul[u][k])'
      <4>1. CASE mul_current < MUL_NUM /\ u = mul_current + 1
        <5>1. mul'[u] = Append(mul[u], Fired(e))
          BY <2>1, <2>4, <4>1 DEF FireMul
        <5>2. Fired(e) \in FuEntry
          BY <1>5, TraceAssumption DEF Fired, SchedEntry, FuEntry
        <5>3. /\ Len(mul'[u]) = Len(mul[u]) + 1 /\ Len(mul[u]) \in Nat
              /\ \A n \in 1 .. Len(mul[u]) : mul'[u][n] = mul[u][n]
              /\ mul'[u][Len(mul[u]) + 1] = Fired(e)
          BY <2>1, <5>1, <5>2, AppendProperties, LenProperties
        <5>4. CASE k \in 1 .. Len(mul[u])
          BY <1>10, <2>1, <5>3, <5>4 DEF UnitsOK
        <5>5. CASE k = Len(mul[u]) + 1  BY <1>13, <5>3, <5>5
        <5> QED  BY <5>3, <5>4, <5>5
      <4>2. CASE ~(mul_current < MUL_NUM /\ u = mul_current + 1)
        <5>1. mul'[u] = mul[u]  BY <2>1, <2>4, <4>2 DEF FireMul
        <5> QED  BY <1>10, <2>1, <3>2, <5>1 DEF UnitsOK
      <4> QED  BY <4>1, <4>2
    <3> QED  BY <1>10, <2>1, <3>1, <3>2 DEF UnitsOK, Busy
  <2> QED  BY <1>2, <2>2, <2>3, <2>4
<1>15. tag' = FIRST_TAG + 2 * Dispatched'  BY <1>2, <1>4 DEF DataInv
<1> QED  BY <1>7, <1>8, <1>11, <1>14, <1>15 DEF DataInv

-----------------------------------------------------------------------------
(* Dispatching *)

LEMMA SourceResolved ==
  ASSUME TypeOK, TablesOK, NEW src \in OptReg, NEW id, id = Dispatched + 1
  PROVE  OperandOK(src, RfReady(src), RfTag(src), id, FALSE)
<1>1. Dispatched \in Nat /\ id - 1 = Dispatched  BY Counts
<1>2. CASE src = NoReg
  <2>1. \A w \in 1 .. id - 1 : ~LastWriter(w, id - 1, src)
    BY <1>2 DEF LastWriter
  <2> QED  BY <1>2, <2>1 DEF OperandOK, NoReg
<1>3. CASE src # NoReg
  <2>1. src \in Reg /\ src >= 0 /\ ~(src < 0)
    BY <1>3, TraceAssumption DEF OptReg, Reg
  <2>2. RfReady(src) = rf[src].ready /\ RfTag(src) = rf[src].tag
    <3>1. rf[src].ready \in BOOLEAN
      BY <2>1 DEF TypeOK, RenameTypeOK, RegEntry
    <3> QED  BY <2>1, <3>1 DEF RfReady, RfTag
  <2>3. RegOK(src)  BY <2>1 DEF TablesOK
  <2> QED  BY <1>1, <2>1, <2>2, <2>3 DEF OperandOK, RegOK
<1> QED  BY <1>2, <1>3

(* The new station. *)
LEMMA NewStation ==
  ASSUME TypeOK, DataInv, NEW id \in 1 .. N, id = Dispatched + 1
  PROVE  StationOK(CreateEntry(id))
<1> DEFINE e == CreateEntry(id)
<1>1. Dispatched \in Nat /\ id - 1 = Dispatched  BY Counts
<1>2. insts[id] \in Inst  BY DEF TypeOK, TraceTypeOK
<1>3. /\ e.inst = id /\ e.tag1 = tag /\ e.tag2 = tag + 1 /\ e.scheduled = FALSE
      /\ e.src1_ready = RfReady(insts[id].src1)
      /\ e.src1_tag = RfTag(insts[id].src1)
      /\ e.src2_ready = RfReady(insts[id].src2)
      /\ e.src2_tag = RfTag(insts[id].src2)
      /\ e.ms_ready = (IsLoadStore(id) /\ mat[insts[id].ms].ready)
      /\ e.ms_tag =
           IF IsLoadStore(id) THEN mat[insts[id].ms].tag ELSE 0
  BY DEF CreateEntry
<1> HIDE DEF e
<1>4. e.tag1 = Tag1(e.inst) /\ e.tag2 = Tag2(e.inst)
  BY <1>1, <1>3 DEF DataInv, Tag1, Tag2
<1>5. /\ OperandOK(insts[e.inst].src1, e.src1_ready, e.src1_tag, e.inst, e.scheduled)
      /\ OperandOK(insts[e.inst].src2, e.src2_ready, e.src2_tag, e.inst, e.scheduled)
  <2>1. insts[id].src1 \in OptReg /\ insts[id].src2 \in OptReg
    BY <1>2 DEF Inst
  <2> QED  BY <1>3, <2>1, SourceResolved DEF DataInv
<1>6. MemOperandOK(e)
  <2>1. CASE ~IsLoadStore(id)
    BY <1>3, <2>1 DEF MemOperandOK, SameClass
  <2>2. CASE IsLoadStore(id)
    <3>1. insts[id].ms \in MatReg  BY <1>2 DEF Inst
    <3>2. MatOK(insts[id].ms)  BY <3>1 DEF DataInv, TablesOK
    <3>3. e.ms_ready = mat[insts[id].ms].ready
          /\ e.ms_tag = mat[insts[id].ms].tag
      <4>1. mat[insts[id].ms].ready \in BOOLEAN
        BY <3>1 DEF TypeOK, RenameTypeOK, RegEntry
      <4> QED  BY <1>3, <2>2, <4>1
    <3>4. CASE mat[insts[id].ms].ready
      <4>1. \A w \in 1 .. Dispatched :
              IsLoadStore(w) /\ insts[w].ms = insts[id].ms => Completed(w)
        BY <3>2, <3>4 DEF MatOK
      <4> QED
        BY <1>1, <1>3, <3>3, <3>4, <4>1 DEF MemOperandOK, SameClass
    <3>5. CASE ~mat[insts[id].ms].ready
      <4>1. PICK w \in 1 .. Dispatched :
              /\ LastAccess(w, Dispatched, insts[id].ms)
              /\ ~Completed(w) /\ mat[insts[id].ms].tag = Tag1(w)
        BY <3>2, <3>5 DEF MatOK
      <4> QED
        BY <1>1, <1>3, <2>2, <3>3, <3>5, <4>1 DEF MemOperandOK
    <3> QED  BY <3>4, <3>5
  <2> QED  BY <2>1, <2>2
<1>7. StationOK(e)  BY <1>4, <1>5, <1>6 DEF StationOK
<1> QED  BY <1>7 DEF e

(* The tables after the new instruction has claimed its destinations. *)
LEMMA ClaimedTables ==
  ASSUME TypeOK, TablesOK, insts' = insts, NEW id \in 1 .. N,
         id = Dispatched + 1, Dispatched' = id, ~Completed(id),
         tag = FIRST_TAG + 2 * Dispatched,
         rf' = ClaimRf(id), mat' = ClaimMat(id),
         \A w \in Nat : Completed(w)' <=> Completed(w)
  PROVE  TablesOK'
<1>1. Dispatched \in Nat /\ id \in Nat  BY Counts
<1>2. /\ \A w, n, r : LastWriter(w, n, r)' <=> LastWriter(w, n, r)
      /\ \A w, n, m : LastAccess(w, n, m)' <=> LastAccess(w, n, m)
      /\ \A a : IsLoadStore(a)' <=> IsLoadStore(a)
  BY DepsKept
<1>3. insts[id] \in Inst /\ rf \in [Reg -> RegEntry] /\ mat \in [MatReg -> RegEntry]
  BY DEF TypeOK, TraceTypeOK, RenameTypeOK
<1>4. tag = Tag1(id) /\ tag + 1 = Tag2(id)
  BY <1>1, TraceAssumption DEF Tag1, Tag2, FIRST_TAG
<1>5. \A w \in 1 .. Dispatched' : w \in Nat /\ (w \in 1 .. Dispatched \/ w = id)
  BY <1>1
<1>6. ASSUME NEW r \in Reg PROVE RegOK(r)'
  <2>1. CASE insts[id].dest = r
    <3>1. r >= 0  BY TraceAssumption DEF Reg
    <3>2. rf'[r].ready = FALSE /\ rf'[r].tag = Tag2(id)
      BY <1>3, <1>4, <2>1, <3>1 DEF ClaimRf
    <3>3. LastWriter(id, Dispatched', r)
      BY <1>1, <2>1, <3>1 DEF LastWriter, NoReg
    <3>4. id \in 1 .. Dispatched' /\ ~Completed(id)'  BY <1>1
    <3> QED  BY <1>2, <3>2, <3>3, <3>4 DEF RegOK, Tag1, Tag2
  <2>2. CASE insts[id].dest # r
    <3>1. rf'[r] = rf[r]  BY <1>3, <2>2 DEF ClaimRf
    <3>2. \A w : LastWriter(w, Dispatched', r) <=> LastWriter(w, Dispatched, r)
      BY <1>1, <2>2 DEF LastWriter
    <3>3. RegOK(r)  BY DEF TablesOK
    <3>4. \A w : LastWriter(w, Dispatched, r) => w \in 1 .. Dispatched
      BY DEF LastWriter
    <3>5. \A w \in 1 .. Dispatched : w \in Nat /\ w \in 1 .. Dispatched'
      BY <1>1
    <3> QED
      BY <1>2, <3>1, <3>2, <3>3, <3>4, <3>5 DEF RegOK, Tag1, Tag2
  <2> QED  BY <2>1, <2>2
<1>7. ASSUME NEW m \in MatReg PROVE MatOK(m)'
  <2>1. CASE IsLoadStore(id) /\ insts[id].ms = m
    <3>1. mat'[m].ready = FALSE /\ mat'[m].tag = Tag1(id)
      BY <1>3, <1>4, <2>1 DEF ClaimMat
    <3>2. LastAccess(id, Dispatched', m)  BY <1>1, <2>1 DEF LastAccess
    <3>3. id \in 1 .. Dispatched' /\ ~Completed(id)'  BY <1>1
    <3> QED  BY <1>2, <3>1, <3>2, <3>3 DEF MatOK, Tag1
  <2>2. CASE ~(IsLoadStore(id) /\ insts[id].ms = m)
    <3>1. mat'[m] = mat[m]  BY <1>3, <2>2 DEF ClaimMat
    <3>2. \A w : LastAccess(w, Dispatched, m) => LastAccess(w, Dispatched', m)
      BY <1>1, <2>2 DEF LastAccess
    <3>3. MatOK(m)  BY DEF TablesOK
    <3>4. CASE mat[m].ready
      <4>1. \A w \in 1 .. Dispatched :
              IsLoadStore(w) /\ insts[w].ms = m => Completed(w)
        BY <3>3, <3>4 DEF MatOK
      <4>2. \A w \in 1 .. Dispatched' :
              IsLoadStore(w)' /\ insts'[w].ms = m => Completed(w)'
        BY <1>2, <1>5, <2>2, <4>1
      <4> QED  BY <3>1, <3>4, <4>2 DEF MatOK
    <3>5. CASE ~mat[m].ready
      <4>1. PICK w \in 1 .. Dispatched :
              LastAccess(w, Dispatched, m) /\ ~Completed(w)
              /\ mat[m].tag = Tag1(w)
        BY <3>3, <3>5 DEF MatOK
      <4>2. w \in 1 .. Dispatched' /\ w \in Nat  BY <1>1
      <4> QED  BY <1>2, <3>1, <3>2, <3>5, <4>1, <4>2 DEF MatOK, Tag1
    <3> QED  BY <3>4, <3>5
  <2> QED  BY <2>1, <2>2
<1> QED  BY <1>6, <1>7 DEF TablesOK

LEMMA DispatchData ==
  ASSUME TypeOK, OrderInv, StationOrder, DataInv, DispatchInst
  PROVE  DataInv'
<1>1. Dispatched \in Nat  BY Counts
<1>2. /\ Dispatched' = Dispatched + 1 /\ Head(disp_q) = Dispatched + 1
      /\ \A w \in Nat : Completed(w)' <=> Completed(w)
  BY CompletedDispatch
<1>3. PICK id \in 1 .. N : id = Head(disp_q)
  BY <1>1, <1>2, DispatchHead, Counts
     DEF DispatchInst, CanDispatch, OrderInv, FetchAhead
<1>4. /\ sche_q' = Append(sche_q, CreateEntry(id))
      /\ rf' = ClaimRf(id) /\ mat' = ClaimMat(id) /\ tag' = tag + 2
      /\ UNCHANGED <<insts, alu, mul, lsu, complete_vec>>
  BY <1>3 DEF DispatchInst, traceVars, fuVars
<1>5. StationOK(CreateEntry(id))  BY <1>2, <1>3, NewStation
<1>6. CreateEntry(id) \in SchedEntry  BY DispatchTypes
<1>7. /\ Len(sche_q') = Len(sche_q) + 1 /\ Len(sche_q) \in Nat
      /\ \A k \in 1 .. Len(sche_q) : sche_q'[k] = sche_q[k]
      /\ sche_q'[Len(sche_q) + 1] = CreateEntry(id)
  BY <1>4, <1>6, AppendProperties, LenProperties DEF TypeOK, QueueTypeOK
<1>8. \A k \in 1 .. Len(sche_q') :
        k \in 1 .. Len(sche_q) \/ k = Len(sche_q) + 1
  BY <1>7
<1>9. StationsOK'
  <2> SUFFICES ASSUME NEW k \in 1 .. Len(sche_q') PROVE StationOK(sche_q[k])'
    BY DEF StationsOK
  <2>1. StationOK(sche_q'[k])
    <3>1. CASE k = Len(sche_q) + 1  BY <1>5, <1>7, <3>1
    <3>2. CASE k \in 1 .. Len(sche_q)
      BY <1>7, <3>2 DEF DataInv, StationsOK
    <3> QED  BY <1>8, <3>1, <3>2
  <2> QED  BY <1>2, <1>4, <2>1, StationKept
<1>10. TablesOK'
  <2>1. ~Completed(id)  BY <1>1, <1>2, <1>3, CompletedBound
  <2> QED  BY <1>2, <1>3, <1>4, <2>1, ClaimedTables DEF DataInv
<1>11. MarksKept
  <2> SUFFICES ASSUME NEW k \in 1 .. Len(sche_q')
               PROVE  \/ sche_q'[k].inst = Dispatched + 1
                      \/ k \in 1 .. Len(sche_q) /\ sche_q'[k] = sche_q[k]
    BY DEF MarksKept
  <2>1. CreateEntry(id).inst = id  BY DEF CreateEntry
  <2> QED  BY <1>2, <1>3, <1>7, <1>8, <2>1
<1>12. \A c : ResultOK(c) => ResultOK(c)'
  BY <1>1, <1>2, <1>4, <1>11, ResultKept
<1>13. UnitsOK' /\ ResultsOK'
  BY <1>4, <1>12, UnitsKept, ResultsKept DEF DataInv
<1>14. tag' = FIRST_TAG + 2 * Dispatched'
  <2>1. FIRST_TAG \in Nat  BY TraceAssumption DEF FIRST_TAG
  <2> QED  BY <1>1, <1>2, <1>4, <2>1 DEF DataInv
<1> QED  BY <1>9, <1>10, <1>13, <1>14 DEF DataInv

-----------------------------------------------------------------------------
(* The result bus: instruction x completes, and its tags are broadcast *)

LEMMA WokenOperand ==
  ASSUME insts' = insts, NEW x \in Nat,
         \A w \in Nat : Completed(w)' <=> Completed(w) \/ w = x,
         NEW src, NEW ready, NEW ready2, NEW t, NEW id, NEW scheduled,
         OperandOK(src, ready, t, id, scheduled), id \in Nat,
         ready2 <=> ready \/ Tag2(x) = t
  PROVE  OperandOK(src, ready2, t, id, scheduled)'
<1>1. \A w, n, r : LastWriter(w, n, r)' <=> LastWriter(w, n, r)  BY DepsKept
<1>2. \A w \in 1 .. id - 1 : w \in Nat  OBVIOUS
<1>3. CASE /\ src < 0 \/ ready
           /\ \A w \in 1 .. id - 1 : LastWriter(w, id - 1, src) => Completed(w)
  BY <1>1, <1>2, <1>3 DEF OperandOK
<1>4. CASE /\ ~(src < 0 \/ ready) /\ ~scheduled
           /\ \E w \in 1 .. id - 1 :
                LastWriter(w, id - 1, src) /\ ~Completed(w) /\ t = Tag2(w)
  <2>1. PICK w \in 1 .. id - 1 :
          LastWriter(w, id - 1, src) /\ ~Completed(w) /\ t = Tag2(w)
    BY <1>4
  <2>2. CASE w = x
    <3>1. ready2  BY <2>1, <2>2
    <3>2. \A v \in 1 .. id - 1 : LastWriter(v, id - 1, src) => v = x
      <4>1. id - 1 \in Nat  OBVIOUS
      <4> QED  BY <2>1, <2>2, <4>1, LastWriterUnique
    <3> QED  BY <1>1, <1>2, <3>1, <3>2 DEF OperandOK
  <2>3. CASE w # x
    <3>1. ~ready2  BY <1>2, <1>4, <2>1, <2>3, TagsDiffer
    <3>2. ~Completed(w)'  BY <1>2, <2>1, <2>3
    <3>3. t = Tag2(w)'  BY <2>1 DEF Tag1, Tag2
    <3> QED  BY <1>1, <1>4, <2>1, <3>1, <3>2, <3>3 DEF OperandOK
  <2> QED  BY <2>2, <2>3
<1> QED  BY <1>3, <1>4 DEF OperandOK

(* The instruction that completes saw the accesses before it complete, so  *)
(* whoever waits for it waits for none of those.                           *)
LEMMA WokenMemOperand ==
  ASSUME insts' = insts, NEW x \in Nat,
         \A w \in Nat : Completed(w)' <=> Completed(w) \/ w = x,
         \A w \in 1 .. x - 1 : SameClass(w, x) => Completed(w),
         NEW e, NEW f, MemOperandOK(e), e.inst \in Nat,
         f.inst = e.inst, f.scheduled = e.scheduled, f.ms_tag = e.ms_tag,
         f.ms_ready <=>
           e.ms_ready \/ (IsLoadStore(e.inst) /\ Tag1(x) = e.ms_tag)
  PROVE  MemOperandOK(f)'
<1>1. /\ \A w, n, m : LastAccess(w, n, m)' <=> LastAccess(w, n, m)
      /\ \A a, b : SameClass(a, b)' <=> SameClass(a, b)
      /\ \A a : IsLoadStore(a)' <=> IsLoadStore(a)
  BY DepsKept
<1>2. \A w \in 1 .. e.inst - 1 : w \in Nat  OBVIOUS
<1>3. CASE /\ IsLoadStore(e.inst) => e.ms_ready
           /\ \A w \in 1 .. e.inst - 1 : SameClass(w, e.inst) => Completed(w)
  BY <1>1, <1>2, <1>3 DEF MemOperandOK
<1>4. CASE /\ IsLoadStore(e.inst) /\ ~e.ms_ready /\ ~e.scheduled
           /\ \E w \in 1 .. e.inst - 1 :
                /\ LastAccess(w, e.inst - 1, insts[e.inst].ms)
                /\ ~Completed(w) /\ e.ms_tag = Tag1(w)
  <2>1. PICK w \in 1 .. e.inst - 1 :
          /\ LastAccess(w, e.inst - 1, insts[e.inst].ms)
          /\ ~Completed(w) /\ e.ms_tag = Tag1(w)
    BY <1>4
  <2>2. CASE w = x
    <3>1. f.ms_ready  BY <1>4, <2>1, <2>2
    <3>2. ASSUME NEW v \in 1 .. e.inst - 1, SameClass(v, e.inst)
          PROVE  Completed(v)'
      <4>1. ~(v > x)  BY <2>1, <2>2, <3>2 DEF LastAccess, SameClass
      <4>2. CASE v = x  BY <1>2, <4>2
      <4>3. CASE v # x
        <5>1. v \in 1 .. x - 1  BY <1>2, <4>1, <4>3
        <5>2. SameClass(v, x)
          BY <2>1, <2>2, <3>2 DEF LastAccess, SameClass
        <5> QED  BY <1>2, <5>1, <5>2
      <4> QED  BY <4>2, <4>3
    <3> QED  BY <1>1, <3>1, <3>2 DEF MemOperandOK
  <2>3. CASE w # x
    <3>1. ~f.ms_ready  BY <1>2, <1>4, <2>1, <2>3, TagsDiffer
    <3>2. ~Completed(w)'  BY <1>2, <2>1, <2>3
    <3>3. e.ms_tag = Tag1(w)'  BY <2>1 DEF Tag1
    <3> QED  BY <1>1, <1>4, <2>1, <3>1, <3>2, <3>3 DEF MemOperandOK
  <2> QED  BY <2>2, <2>3
<1> QED  BY <1>3, <1>4 DEF MemOperandOK

LEMMA WokenStation ==
  ASSUME insts' = insts, NEW c \in FuEntry, ResultOK(c),
         \A w \in Nat : Completed(w)' <=> Completed(w) \/ w = c.inst,
         NEW e \in SchedEntry, StationOK(e), NEW f, f = Wakeup(e, c)
  PROVE  StationOK(f)'
<1>1. c.inst \in Nat /\ e.inst \in Nat
  BY TraceAssumption DEF FuEntry, SchedEntry
<1>2. c.tag1 = Tag1(c.inst) /\ c.tag2 = Tag2(c.inst)
      /\ \A w \in 1 .. c.inst - 1 : SameClass(w, c.inst) => Completed(w)
  BY DEF ResultOK
<1>3. /\ f.inst = e.inst /\ f.tag1 = e.tag1 /\ f.tag2 = e.tag2
      /\ f.src1_tag = e.src1_tag /\ f.src2_tag = e.src2_tag
      /\ f.ms_tag = e.ms_tag /\ f.scheduled = e.scheduled
  BY DEF Wakeup, SchedEntry
<1>4. f.src1_ready <=> e.src1_ready \/ Tag2(c.inst) = e.src1_tag
  BY <1>2 DEF Wakeup, SchedEntry
<1>5. f.src2_ready <=> e.src2_ready \/ Tag2(c.inst) = e.src2_tag
  BY <1>2 DEF Wakeup, SchedEntry
<1>6. f.ms_ready <=>
        e.ms_ready \/ (IsLoadStore(e.inst) /\ Tag1(c.inst) = e.ms_tag)
  BY <1>2 DEF Wakeup, SchedEntry
<1>7. OperandOK(insts[f.inst].src1, f.src1_ready, f.src1_tag, f.inst,
                f.scheduled)'
  BY <1>1, <1>3, <1>4, WokenOperand DEF StationOK
<1>8. OperandOK(insts[f.inst].src2, f.src2_ready, f.src2_tag, f.inst,
                f.scheduled)'
  BY <1>1, <1>3, <1>5, WokenOperand DEF StationOK
<1>9. MemOperandOK(f)'
  BY <1>1, <1>2, <1>3, <1>6, WokenMemOperand DEF StationOK
<1>10. f.tag1 = Tag1(f.inst)' /\ f.tag2 = Tag2(f.inst)'
  BY <1>3 DEF StationOK, Tag1, Tag2
<1> QED  BY <1>7, <1>8, <1>9, <1>10 DEF StationOK

LEMMA WokenTables ==
  ASSUME TypeOK, TablesOK, insts' = insts, NEW c \in FuEntry, ResultOK(c),
         rf' = RfUpdate(c), mat' = MatUpdate(c), Dispatched' = Dispatched,
         \A w \in Nat : Completed(w)' <=> Completed(w) \/ w = c.inst
  PROVE  TablesOK'
<1> DEFINE x == c.inst
<1>1. Dispatched \in Nat /\ x \in 1 .. Dispatched /\ x \in Nat
  BY Counts, TraceAssumption DEF ResultOK, FuEntry
<1>2. c.tag1 = Tag1(x) /\ c.tag2 = Tag2(x)
      /\ \A w \in 1 .. x - 1 : SameClass(w, x) => Completed(w)
  BY DEF ResultOK
<1>3. /\ \A w, n, r : LastWriter(w, n, r)' <=> LastWriter(w, n, r)
      /\ \A w, n, m : LastAccess(w, n, m)' <=> LastAccess(w, n, m)
      /\ \A a : IsLoadStore(a)' <=> IsLoadStore(a)
  BY DepsKept
<1>4. \A w \in 1 .. Dispatched : w \in Nat  OBVIOUS
<1>5. rf \in [Reg -> RegEntry] /\ mat \in [MatReg -> RegEntry]
  BY DEF TypeOK, RenameTypeOK
<1>6. /\ rf' = IF insts[x].dest >= 0 /\ rf[insts[x].dest].tag = Tag2(x)
               THEN [rf EXCEPT ![insts[x].dest].ready = TRUE] ELSE rf
      /\ mat' = IF IsLoadStore(x) /\ mat[insts[x].ms].tag = Tag1(x)
                THEN [mat EXCEPT ![insts[x].ms].ready = TRUE] ELSE mat
  BY <1>2 DEF RfUpdate, MatUpdate
<1> HIDE DEF x
<1>7. ASSUME NEW r \in Reg PROVE RegOK(r)'
  <2>1. r >= 0 /\ rf[r] \in RegEntry  BY <1>5, TraceAssumption DEF Reg
  <2>2. /\ rf'[r].tag = rf[r].tag
        /\ rf'[r].ready <=>
             rf[r].ready \/ (insts[x].dest = r /\ rf[r].tag = Tag2(x))
    BY <1>5, <1>6, <2>1 DEF RegEntry
  <2>3. RegOK(r)  BY DEF TablesOK
  <2>4. CASE rf[r].ready
    <3>1. \A w \in 1 .. Dispatched :
            LastWriter(w, Dispatched, r) => Completed(w)
      BY <2>3, <2>4 DEF RegOK
    <3>2. \A w \in 1 .. Dispatched' :
            LastWriter(w, Dispatched, r)' => Completed(w)'
      BY <1>3, <1>4, <3>1
    <3> QED  BY <2>2, <2>4, <3>2 DEF RegOK
  <2>5. CASE ~rf[r].ready
    <3>1. PICK w \in 1 .. Dispatched :
            LastWriter(w, Dispatched, r) /\ ~Completed(w)
            /\ rf[r].tag = Tag2(w)
      BY <2>3, <2>5 DEF RegOK
    <3>2. CASE w = x
      <4>1. rf'[r].ready  BY <2>2, <3>1, <3>2 DEF LastWriter
      <4>2. \A v \in 1 .. Dispatched : LastWriter(v, Dispatched, r) => v = x
        BY <1>1, <3>1, <3>2, LastWriterUnique
      <4>3. \A v \in 1 .. Dispatched' :
              LastWriter(v, Dispatched, r)' => Completed(v)'
        BY <1>3, <1>4, <4>2 DEF x
      <4> QED  BY <4>1, <4>3 DEF RegOK
    <3>3. CASE w # x
      <4>1. ~rf'[r].ready  BY <1>1, <1>4, <2>2, <2>5, <3>1, <3>3, TagsDiffer
      <4>2. ~Completed(w)'  BY <1>4, <3>1, <3>3 DEF x
      <4>3. rf'[r].tag = Tag2(w)'  BY <2>2, <3>1 DEF Tag1, Tag2
      <4>4. w \in 1 .. Dispatched' /\ LastWriter(w, Dispatched, r)'
        BY <1>3, <3>1
      <4> QED  BY <4>1, <4>2, <4>3, <4>4 DEF RegOK
    <3> QED  BY <3>2, <3>3
  <2> QED  BY <2>4, <2>5
<1>8. ASSUME NEW m \in MatReg PROVE MatOK(m)'
  <2>1. mat[m] \in RegEntry  BY <1>5
  <2>2. /\ mat'[m].tag = mat[m].tag
        /\ mat'[m].ready <=>
             \/ mat[m].ready
             \/ IsLoadStore(x) /\ insts[x].ms = m /\ mat[m].tag = Tag1(x)
    BY <1>5, <1>6, <2>1 DEF RegEntry
  <2>3. MatOK(m)  BY DEF TablesOK
  <2>4. CASE mat[m].ready
    <3>1. \A w \in 1 .. Dispatched :
            IsLoadStore(w) /\ insts[w].ms = m => Completed(w)
      BY <2>3, <2>4 DEF MatOK
    <3>2. \A w \in 1 .. Dispatched' :
            IsLoadStore(w)' /\ insts'[w].ms = m => Completed(w)'
      BY <1>3, <1>4, <3>1
    <3> QED  BY <2>2, <2>4, <3>2 DEF MatOK
  <2>5. CASE ~mat[m].ready
    <3>1. PICK w \in 1 .. Dispatched :
            LastAccess(w, Dispatched, m) /\ ~Completed(w)
            /\ mat[m].tag = Tag1(w)
      BY <2>3, <2>5 DEF MatOK
    <3>2. CASE w = x
      <4>1. mat'[m].ready  BY <2>2, <3>1, <3>2 DEF LastAccess
      <4>2. ASSUME NEW v \in 1 .. Dispatched, IsLoadStore(v), insts[v].ms = m
            PROVE  Completed(v) \/ v = x
        <5>1. ~(v > x)  BY <1>1, <3>1, <3>2, <4>2 DEF LastAccess
        <5>2. SameClass(v, x)  BY <3>1, <3>2, <4>2 DEF LastAccess, SameClass
        <5>3. v # x => v \in 1 .. x - 1  BY <1>1, <5>1
        <5> QED  BY <1>2, <5>2, <5>3 DEF x
      <4>3. \A v \in 1 .. Dispatched' :
              IsLoadStore(v)' /\ insts'[v].ms = m => Completed(v)'
        BY <1>3, <1>4, <4>2 DEF x
      <4> QED  BY <4>1, <4>3 DEF MatOK
    <3>3. CASE w # x
      <4>1. ~mat'[m].ready
        BY <1>1, <1>4, <2>2, <2>5, <3>1, <3>3, TagsDiffer
      <4>2. ~Completed(w)'  BY <1>4, <3>1, <3>3 DEF x
      <4>3. mat'[m].tag = Tag1(w)'  BY <2>2, <3>1 DEF Tag1
      <4>4. w \in 1 .. Dispatched' /\ LastAccess(w, Dispatched, m)'
        BY <1>3, <3>1
      <4> QED  BY <4>1, <4>2, <4>3, <4>4 DEF MatOK
    <3> QED  BY <3>2, <3>3
  <2> QED  BY <2>4, <2>5
<1> QED  BY <1>7, <1>8 DEF TablesOK

LEMMA ResultBusData ==
  ASSUME TypeOK, OrderInv, StationOrder, DataInv, ResultBus
  PROVE  DataInv'
<1> DEFINE c == Head(complete_vec)
<1>1. Dispatched \in Nat  BY Counts
<1>2. complete_vec \in Seq(FuEntry) /\ complete_vec # <<>>
      /\ Len(complete_vec) \in Nat
  BY LenProperties DEF ResultBus, TypeOK, QueueTypeOK
<1>3. /\ c = complete_vec[1] /\ c \in FuEntry
      /\ Len(complete_vec) >= 1
      /\ Len(Tail(complete_vec)) = Len(complete_vec) - 1
      /\ \A k \in 1 .. Len(complete_vec) - 1 :
           Tail(complete_vec)[k] = complete_vec[k + 1]
  BY <1>2, HeadTailProperties, EmptySeq
<1>4. ResultOK(c)
  <2>1. 1 \in 1 .. Len(complete_vec)  BY <1>2, <1>3
  <2> QED  BY <1>3, <2>1 DEF DataInv, ResultsOK
<1>5. c.inst \in 1 .. Dispatched /\ c.inst \in Nat
  BY <1>4, <1>1 DEF ResultOK
<1>6. /\ Dispatched' = Dispatched
      /\ \A w \in Nat : Completed(w)' <=> Completed(w) \/ w = c.inst
  BY <1>5, CompletedResult, InRob
<1>7. /\ rf' = RfUpdate(c) /\ mat' = MatUpdate(c)
      /\ complete_vec' = Tail(complete_vec)
      /\ UNCHANGED <<insts, tag, alu, mul, lsu>>
  BY DEF ResultBus, traceVars, fuVars
<1>8. \A k \in 1 .. Len(sche_q') : \E j \in 1 .. Len(sche_q) :
        sche_q[j].inst # c.inst /\ sche_q'[k] = Wakeup(sche_q[j], c)
  BY ResultBusStations DEF StationOrder
<1> HIDE DEF c
<1>9. StationsOK'
  <2> SUFFICES ASSUME NEW k \in 1 .. Len(sche_q') PROVE StationOK(sche_q[k])'
    BY DEF StationsOK
  <2>1. PICK j \in 1 .. Len(sche_q) : sche_q'[k] = Wakeup(sche_q[j], c)
    BY <1>8
  <2>2. sche_q[j] \in SchedEntry /\ StationOK(sche_q[j])
    BY SchedEntries DEF DataInv, StationsOK
  <2>3. ASSUME NEW f, f = Wakeup(sche_q[j], c) PROVE StationOK(f)'
    BY <1>3, <1>4, <1>6, <1>7, <2>2, <2>3, WokenStation
  <2> QED  BY <2>1, <2>3
<1>10. TablesOK'  BY <1>3, <1>4, <1>6, <1>7, WokenTables DEF DataInv
<1>11. MarksKept
  <2> SUFFICES ASSUME NEW k \in 1 .. Len(sche_q')
               PROVE  \E j \in 1 .. Len(sche_q) :
                        /\ sche_q'[k].inst = sche_q[j].inst
                        /\ sche_q[j].scheduled => sche_q'[k].scheduled
    BY DEF MarksKept
  <2>1. PICK j \in 1 .. Len(sche_q) : sche_q'[k] = Wakeup(sche_q[j], c)
    BY <1>8
  <2>2. sche_q[j] \in SchedEntry  BY SchedEntries
  <2>3. /\ sche_q'[k].inst = sche_q[j].inst
        /\ sche_q'[k].scheduled = sche_q[j].scheduled
    BY <2>1, <2>2 DEF Wakeup, SchedEntry
  <2> QED  BY <2>3
<1>12. \A d : ResultOK(d) => ResultOK(d)'
  BY <1>6, <1>7, <1>11, ResultKept
<1>13. UnitsOK'  BY <1>7, <1>12, UnitsKept DEF DataInv
<1>14. ResultsOK'
  <2> SUFFICES ASSUME NEW k \in 1 .. Len(complete_vec')
               PROVE  ResultOK(complete_vec[k])'
    BY DEF ResultsOK
  <2>1. k + 1 \in 1 .. Len(complete_vec)
        /\ complete_vec'[k] = complete_vec[k + 1]
    BY <1>2, <1>3, <1>7
  <2>2. ResultOK(complete_vec[k + 1])  BY <2>1 DEF DataInv, ResultsOK
  <2> QED  BY <1>12, <2>1, <2>2
<1>15. tag' = FIRST_TAG + 2 * Dispatched'  BY <1>6, <1>7 DEF DataInv
<1> QED  BY <1>9, <1>10, <1>13, <1>14, <1>15 DEF DataInv

-----------------------------------------------------------------------------
(* The invariant *)

LEMMA DataInit == Init => DataInv
<1> SUFFICES ASSUME Init PROVE DataInv  OBVIOUS
<1>1. /\ Len(sche_q) = 0 /\ Len(rob) = 0 /\ Len(complete_vec) = 0
      /\ Retired = 0 /\ Dispatched = 0
  BY EmptySeq DEF Init, Retired, Dispatched
<1>2. tag = FIRST_TAG + 2 * Dispatched
  BY <1>1, TraceAssumption DEF Init, FIRST_TAG
<1>3. StationsOK /\ ResultsOK  BY <1>1 DEF StationsOK, ResultsOK
<1>4. TablesOK
  <2>1. \A r \in Reg : RegOK(r)  BY <1>1 DEF Init, RegOK
  <2>2. \A m \in MatReg : MatOK(m)  BY <1>1 DEF Init, MatOK
  <2> QED  BY <2>1, <2>2 DEF TablesOK
<1>5. UnitsOK
  <2>1. /\ \A u \in 1 .. ALU_NUM : ~Busy(alu[u])
        /\ \A u \in 1 .. LSU_NUM : ~Busy(lsu[u])
    BY DEF Init, Busy, Free
  <2>2. \A u \in 1 .. MUL_NUM : Len(mul[u]) = 0  BY EmptySeq DEF Init
  <2> QED  BY <2>1, <2>2 DEF UnitsOK
<1> QED  BY <1>2, <1>3, <1>4, <1>5 DEF DataInv

(* Steps that leave stations and tables alone and complete nothing keep    *)
(* all of the invariant but what they say of units and results.            *)
LEMMA DataFrame ==
  ASSUME TypeOK, DataInv, UNCHANGED <<insts, sche_q, rf, mat, tag>>,
         Dispatched' = Dispatched,
         \A w \in Nat : Completed(w)' <=> Completed(w)
  PROVE  /\ StationsOK' /\ TablesOK' /\ tag' = FIRST_TAG + 2 * Dispatched'
         /\ \A c : ResultOK(c) => ResultOK(c)'
<1>1. StationsOK'
  <2> SUFFICES ASSUME NEW k \in 1 .. Len(sche_q) PROVE StationOK(sche_q[k])'
    BY DEF StationsOK
  <2>1. StationOK(sche_q[k])  BY DEF DataInv, StationsOK
  <2>2. ASSUME NEW e, e = sche_q[k] PROVE StationOK(e)'
    BY <2>1, <2>2, StationKept
  <2>3. sche_q'[k] = sche_q[k]  OBVIOUS
  <2> QED  BY <2>2, <2>3
<1>2. TablesOK'  BY TablesKept DEF DataInv
<1>3. tag' = FIRST_TAG + 2 * Dispatched'  BY DEF DataInv
<1>4. \A c : ResultOK(c) => ResultOK(c)'
  <2>1. \A w \in Nat : Completed(w) => Completed(w)'  OBVIOUS
  <2> QED  BY <2>1, MarksSame, ResultKept
<1> QED  BY <1>1, <1>2, <1>3, <1>4

LEMMA NoDataUnits ==
  ASSUME TypeOK, UnitsOK, ResultsOK, NoDataStep,
         \A c : ResultOK(c) => ResultOK(c)'
  PROVE  UnitsOK' /\ ResultsOK'
<1>1. CASE AluCheck  BY <1>1, AluCheckData
<1>2. CASE LsuCheck  BY <1>2, LsuCheckData
<1>3. CASE MulCheck  BY <1>3, MulCheckData
<1>4. CASE ~AluCheck /\ ~LsuCheck /\ ~MulCheck
  <2>1. UNCHANGED <<alu, mul, lsu, complete_vec>>
    BY <1>4 DEF NoDataStep, RetireDone, ExecDone, ResultBusDone, ScheduleSkip,
      ScheduleDone, DispatchNop, DispatchDone, Fetch, FetchNothing, FetchNop,
      FetchMiss, FetchInst, FetchDone, vars, fuVars
  <2> QED  BY <2>1, UnitsKept, ResultsKept
<1> QED  BY <1>1, <1>2, <1>3, <1>4

LEMMA DataStep ==
  ASSUME TypeOK, OrderInv, StationOrder, DataInv, [Next]_vars
  PROVE  DataInv'
<1>1. UnitsOK /\ ResultsOK  BY DEF DataInv
<1>2. CASE RetireEntry
  <2>1. UNCHANGED <<insts, sche_q, rf, mat, tag, alu, mul, lsu, complete_vec>>
    BY <1>2 DEF RetireEntry, traceVars, renameVars, fuVars
  <2>2. /\ StationsOK' /\ TablesOK' /\ tag' = FIRST_TAG + 2 * Dispatched'
        /\ \A c : ResultOK(c) => ResultOK(c)'
    BY <1>2, <2>1, CompletedRetire, DataFrame
  <2>3. UnitsOK' /\ ResultsOK'
    BY <1>1, <2>1, <2>2, UnitsKept, ResultsKept
  <2> QED  BY <2>2, <2>3 DEF DataInv
<1>3. CASE ResultBus  BY <1>3, ResultBusData
<1>4. CASE ScheduleFire  BY <1>4, FireData
<1>5. CASE DispatchInst  BY <1>5, DispatchData
<1>6. CASE EndCycle
  <2>1. UNCHANGED <<insts, sche_q, rf, mat, tag, alu, mul, lsu, complete_vec>>
    BY <1>6 DEF EndCycle, traceVars, renameVars, fuVars
  <2>2. /\ StationsOK' /\ TablesOK' /\ tag' = FIRST_TAG + 2 * Dispatched'
        /\ \A c : ResultOK(c) => ResultOK(c)'
    BY <1>6, <2>1, EndCycleFrame, DataFrame
  <2>3. UnitsOK' /\ ResultsOK'
    BY <1>1, <2>1, <2>2, UnitsKept, ResultsKept
  <2> QED  BY <2>2, <2>3 DEF DataInv
<1>7. CASE NoDataStep
  <2>1. UNCHANGED <<insts, sche_q, rob, retired_inst_idx, retire_count,
                    rf, mat, tag>>
    BY <1>7, NoDataFrame DEF renameVars
  <2>2. /\ StationsOK' /\ TablesOK' /\ tag' = FIRST_TAG + 2 * Dispatched'
        /\ \A c : ResultOK(c) => ResultOK(c)'
    BY <2>1, CompletedFrame, DataFrame
  <2>3. UnitsOK' /\ ResultsOK'  BY <1>7, <1>1, <2>2, NoDataUnits
  <2> QED  BY <2>2, <2>3 DEF DataInv
<1> QED  BY <1>2, <1>3, <1>4, <1>5, <1>6, <1>7, NextSteps

(* Every station, table entry and result in flight carries the tags of the *)
(* instruction it stands for, and a waiting operand that of its last       *)
(* writer (dispatch, rf and mat updates, the result bus).                  *)
THEOREM DataInvariant == Spec => []DataInv
<1>1. Init => DataInv  BY DataInit
<1>2. TypeOK /\ OrderInv /\ StationOrder /\ DataInv /\ [Next]_vars => DataInv'
  BY DataStep
<1> QED
  BY <1>1, <1>2, TypeCorrect, OrderInvariant, StationInvariant, PTL DEF Spec

-----------------------------------------------------------------------------
(* What it implies *)

(* Tomasulo's promise: a fired instruction's producers, the last writers   *)
(* before it of the registers it reads, have all broadcast their results.  *)
THEOREM DataflowOrderHolds == Spec => []DataflowOrder
<1>1. DataInv => DataflowOrder
  <2> SUFFICES ASSUME DataInv, NEW k \in 1 .. Len(sche_q), sche_q[k].scheduled,
                      NEW w \in 1 .. sche_q[k].inst - 1,
                      ReadsFrom(sche_q[k].inst, w)
               PROVE  Completed(w)
    BY DEF DataflowOrder
  <2>1. StationOK(sche_q[k])  BY DEF DataInv, StationsOK
  <2> DEFINE e == sche_q[k]
  <2>2. CASE LastWriter(w, e.inst - 1, insts[e.inst].src1)
    BY <2>1, <2>2 DEF StationOK, OperandOK
  <2>3. CASE LastWriter(w, e.inst - 1, insts[e.inst].src2)
    BY <2>1, <2>3 DEF StationOK, OperandOK
  <2> QED  BY <2>2, <2>3 DEF ReadsFrom
<1> QED  BY <1>1, DataInvariant, PTL

(* A fired load or store has seen every earlier access of its alias class  *)
(* complete, though it only ever waited for the last of them.              *)
THEOREM MemoryOrderHolds == Spec => []MemoryOrder
<1>1. DataInv => MemoryOrder
  <2> SUFFICES ASSUME DataInv, NEW k \in 1 .. Len(sche_q), sche_q[k].scheduled,
                      NEW w \in 1 .. sche_q[k].inst - 1,
                      SameClass(w, sche_q[k].inst)
               PROVE  Completed(w)
    BY DEF MemoryOrder
  <2>1. StationOK(sche_q[k])  BY DEF DataInv, StationsOK
  <2> QED  BY <2>1 DEF StationOK, MemOperandOK
<1> QED  BY <1>1, DataInvariant, PTL

(* The register file and the alias table always tell whether the youngest  *)
(* dispatched claimant of an entry has completed.                          *)
THEOREM FutureFileHolds == Spec => []FutureFile
<1>1. DataInv => FutureFile
  <2> SUFFICES ASSUME DataInv PROVE FutureFile  OBVIOUS
  <2>1. ASSUME NEW r \in Reg
        PROVE  rf[r].ready <=> \A w \in 1 .. Dispatched :
                 LastWriter(w, Dispatched, r) => Completed(w)
    <3>1. RegOK(r)  BY DEF DataInv, TablesOK
    <3> QED  BY <3>1 DEF RegOK
  <2>2. ASSUME NEW m \in MatReg
        PROVE  mat[m].ready <=> \A w \in 1 .. Dispatched :
                 IsLoadStore(w) /\ insts[w].ms = m => Completed(w)
    <3>1. MatOK(m)  BY DEF DataInv, TablesOK
    <3> QED  BY <3>1 DEF MatOK, LastAccess
  <2> QED  BY <2>1, <2>2 DEF FutureFile
<1> QED  BY <1>1, DataInvariant, PTL

LEMMA ReadyExactly ==
  ASSUME TypeOK, OrderInv, StationOrder, DataInv
  PROVE  NoLostWakeup
<1> SUFFICES ASSUME NEW k \in 1 .. Len(sche_q)
             PROVE  InstReady(sche_q[k]) <=> \A w \in 1 .. N :
                      DependsOn(sche_q[k].inst, w) => Completed(w)
  BY DEF NoLostWakeup
<1> DEFINE e == sche_q[k]
           id == e.inst
<1>1. e \in SchedEntry /\ StationOK(e)
  BY SchedEntries DEF DataInv, StationsOK
<1>2. id \in 1 .. N /\ id \in Nat /\ N \in Nat
  BY <1>1, TraceAssumption DEF SchedEntry
<1> HIDE DEF e
<1>3. ASSUME InstReady(e), NEW w \in 1 .. N, DependsOn(id, w)
      PROVE  Completed(w)
  <2>1. w \in 1 .. id - 1
    BY <1>2, <1>3 DEF DependsOn, ReadsFrom, LastWriter
  <2> QED  BY <1>1, <1>3, <2>1, ReadyResolved DEF DependsOn
<1>4. ASSUME ~InstReady(e)
      PROVE  \E w \in 1 .. N : DependsOn(id, w) /\ ~Completed(w)
  <2>1. \A w \in 1 .. id - 1 : w \in 1 .. N /\ w < id  BY <1>2
  <2>2. CASE ~(insts[id].src1 < 0 \/ e.src1_ready)
    <3>1. PICK w \in 1 .. id - 1 :
            LastWriter(w, id - 1, insts[id].src1) /\ ~Completed(w)
      BY <1>1, <2>2 DEF StationOK, OperandOK
    <3> QED  BY <2>1, <3>1 DEF DependsOn, ReadsFrom
  <2>3. CASE ~(insts[id].src2 < 0 \/ e.src2_ready)
    <3>1. PICK w \in 1 .. id - 1 :
            LastWriter(w, id - 1, insts[id].src2) /\ ~Completed(w)
      BY <1>1, <2>3 DEF StationOK, OperandOK
    <3> QED  BY <2>1, <3>1 DEF DependsOn, ReadsFrom
  <2>4. CASE IsLoadStore(id) /\ ~e.ms_ready
    <3>1. PICK w \in 1 .. id - 1 :
            LastAccess(w, id - 1, insts[id].ms) /\ ~Completed(w)
      BY <1>1, <2>4 DEF StationOK, MemOperandOK
    <3>2. SameClass(w, id)  BY <2>4, <3>1 DEF LastAccess, SameClass
    <3> QED  BY <2>1, <3>1, <3>2 DEF DependsOn
  <2> QED  BY <1>4, <2>2, <2>3, <2>4 DEF InstReady
<1> QED  BY <1>3, <1>4 DEF e

(* A station holds its instruction back exactly as long as something that  *)
(* instruction depends on has not completed: no broadcast is missed by an  *)
(* instruction dispatched around it, and none is heard by mistake.         *)
THEOREM NoLostWakeupHolds == Spec => []NoLostWakeup
<1> QED
  BY ReadyExactly, TypeCorrect, OrderInvariant, StationInvariant, DataInvariant,
     PTL

-----------------------------------------------------------------------------
(* The state of the abstract machine *)

AllInv == TypeOK /\ OrderInv /\ StationOrder /\ DataInv

Mapped == [id \in 1 .. N |-> StatusOf(id)]

-----------------------------------------------------------------------------
(* How the status of the instructions changes *)

LEMMA MappedUpdate ==
  ASSUME NEW x \in 1 .. N, NEW s,
         StatusOf(x)' = s,
         \A id \in 1 .. N : id # x => StatusOf(id)' = StatusOf(id)
  PROVE  Mapped' = [Mapped EXCEPT ![x] = s]
BY DEF Mapped

LEMMA MappedSame ==
  ASSUME \A id \in 1 .. N : StatusOf(id)' = StatusOf(id)
  PROVE  Mapped' = Mapped
BY DEF Mapped

LEMMA StatusKept ==
  ASSUME NEW id, Retired' = Retired, fetch_inst_idx' = fetch_inst_idx,
         Completed(id)' <=> Completed(id), HasFired(id)' <=> HasFired(id)
  PROVE  StatusOf(id)' = StatusOf(id)
BY DEF StatusOf

LEMMA CompletedStatus ==
  ASSUME NEW id \in 1 .. N
  PROVE  Mapped[id] \in {"completed", "retired"} <=> Completed(id)
BY DEF Mapped, StatusOf, Completed

LEMMA RetireStatus ==
  ASSUME AllInv, RetireEntry
  PROVE  \E x \in 1 .. N :
           /\ Mapped[x] = "completed" /\ Mapped' = [Mapped EXCEPT ![x] = "retired"]
           /\ \A j \in 1 .. x - 1 : Mapped[j] = "retired"
<1> USE DEF AllInv
<1>1. /\ Retired \in Nat /\ Len(rob) \in Nat /\ N \in Nat
      /\ Dispatched = Retired + Len(rob) /\ Dispatched <= N
      /\ retired_inst_idx \in Nat /\ retire_count \in Nat
      /\ fetch_inst_idx \in Nat
  BY Counts DEF Dispatched, OrderInv, FetchAhead
<1>2. /\ Retired' = Retired + 1 /\ UNCHANGED <<sche_q, fetch_inst_idx>>
      /\ rob # <<>> /\ Head(rob).finished
  BY <1>1 DEF RetireEntry, CanRetire, driverVars, Retired
<1>3. Len(rob) >= 1 /\ Head(rob) = rob[1]
  BY <1>2, HeadTailProperties, EmptySeq, LenProperties
     DEF TypeOK, QueueTypeOK
<1>4. rob[1].inst = Retired + 1 /\ rob[1].finished /\ 1 \in 1 .. Len(rob)
  BY <1>1, <1>2, <1>3 DEF OrderInv, RobOrder
<1> DEFINE x == Retired + 1
<1>5. x \in 1 .. N /\ Completed(x)
  <2>1. x \in 1 .. N  BY <1>1, <1>3
  <2>2. Completed(x)  BY <1>4 DEF Completed
  <2> QED  BY <2>1, <2>2
<1>6. StatusOf(x) = "completed"  BY <1>1, <1>5 DEF StatusOf
<1>7. \A w \in Nat : Completed(w)' <=> Completed(w)  BY CompletedRetire
<1>8. \A w : HasFired(w)' <=> HasFired(w)  BY <1>2 DEF HasFired
<1>9. \A id \in 1 .. N : StatusOf(id)' =
        IF id = x THEN "retired" ELSE StatusOf(id)
  <2> SUFFICES ASSUME NEW id \in 1 .. N
               PROVE  StatusOf(id)' = IF id = x THEN "retired" ELSE StatusOf(id)
    OBVIOUS
  <2>1. id <= Retired' <=> id <= Retired \/ id = x  BY <1>1, <1>2
  <2> QED  BY <1>2, <1>7, <1>8, <2>1 DEF StatusOf
<1>10. \A j \in 1 .. x - 1 : StatusOf(j) = "retired" /\ j \in 1 .. N
  BY <1>1, <1>5 DEF StatusOf
<1> HIDE DEF x
<1>11. ASSUME NEW y \in 1 .. N, y = x
       PROVE  Mapped' = [Mapped EXCEPT ![y] = "retired"]
  BY <1>9, <1>11, MappedUpdate
<1> QED  BY <1>5, <1>6, <1>10, <1>11 DEF Mapped

LEMMA ResultStatus ==
  ASSUME AllInv, ResultBus
  PROVE  \/ Mapped' = Mapped
         \/ \E x \in 1 .. N : /\ Mapped[x] = "executing"
                              /\ Mapped' = [Mapped EXCEPT ![x] = "completed"]
<1> USE DEF AllInv
<1> SUFFICES ASSUME NEW c, c = Head(complete_vec)
             PROVE  \/ Mapped' = Mapped
                    \/ \E x \in 1 .. N :
                         /\ Mapped[x] = "executing"
                         /\ Mapped' = [Mapped EXCEPT ![x] = "completed"]
  OBVIOUS
<1> DEFINE x == c.inst
<1>1. Retired \in Nat /\ Dispatched \in Nat /\ N \in Nat /\ Dispatched <= N
  BY Counts DEF OrderInv, FetchAhead
<1>2. ResultOK(c)
  <2>1. c = complete_vec[1] /\ 1 \in 1 .. Len(complete_vec)
    BY HeadTailProperties, EmptySeq, LenProperties
       DEF ResultBus, TypeOK, QueueTypeOK
  <2> QED  BY <2>1 DEF DataInv, ResultsOK
<1>3. x \in 1 .. Dispatched /\ x \in 1 .. N /\ x \in Nat
  BY <1>1, <1>2 DEF ResultOK
<1>4. \A w : Completed(w)' <=> Completed(w) \/ w = x
  BY <1>3, CompletedResult, InRob DEF Completed
<1>5. /\ \A k \in 1 .. Len(sche_q') : \E j \in 1 .. Len(sche_q) :
           sche_q[j].inst # x /\ sche_q'[k] = Wakeup(sche_q[j], c)
      /\ \A j \in 1 .. Len(sche_q) : sche_q[j].inst # x =>
           \E k \in 1 .. Len(sche_q') : sche_q'[k] = Wakeup(sche_q[j], c)
  BY ResultBusStations DEF StationOrder
<1>6. \A j \in 1 .. Len(sche_q) :
        /\ Wakeup(sche_q[j], c).inst = sche_q[j].inst
        /\ Wakeup(sche_q[j], c).scheduled = sche_q[j].scheduled
  <2>1. \A j \in 1 .. Len(sche_q) : sche_q[j] \in SchedEntry
    BY SchedEntries
  <2> QED  BY <2>1 DEF Wakeup, SchedEntry
<1>7. UNCHANGED <<retired_inst_idx, retire_count, fetch_inst_idx>>
  BY DEF ResultBus, driverVars, cycleVars
<1>8. Retired' = Retired  BY <1>7 DEF Retired
<1>9. ASSUME NEW w, w # x PROVE HasFired(w)' <=> HasFired(w)
  <2>1. ASSUME HasFired(w) PROVE HasFired(w)'
    <3>1. PICK j \in 1 .. Len(sche_q) :
            sche_q[j].inst = w /\ sche_q[j].scheduled
      BY <2>1 DEF HasFired
    <3>2. PICK k \in 1 .. Len(sche_q') : sche_q'[k] = Wakeup(sche_q[j], c)
      BY <1>5, <1>9, <3>1
    <3> QED  BY <1>6, <3>1, <3>2 DEF HasFired
  <2>2. ASSUME HasFired(w)' PROVE HasFired(w)
    <3>1. PICK k \in 1 .. Len(sche_q') :
            sche_q'[k].inst = w /\ sche_q'[k].scheduled
      BY <2>2 DEF HasFired
    <3>2. PICK j \in 1 .. Len(sche_q) : sche_q'[k] = Wakeup(sche_q[j], c)
      BY <1>5
    <3> QED  BY <1>6, <3>1, <3>2 DEF HasFired
  <2> QED  BY <2>1, <2>2
<1>10. \A id \in 1 .. N : id # x => StatusOf(id)' = StatusOf(id)
  BY <1>4, <1>7, <1>8, <1>9, StatusKept
<1>11. CASE Completed(x)
  <2>1. StatusOf(x)' = StatusOf(x)
    BY <1>4, <1>8, <1>11 DEF StatusOf
  <2> QED  BY <1>10, <2>1, MappedSame
<1>12. CASE ~Completed(x)
  <2>1. HasFired(x)
    <3>1. PICK k \in 1 .. Len(sche_q) : sche_q[k].inst = x
      BY <1>3, <1>12 DEF StationOrder, Holds
    <3> QED  BY <1>2, <3>1 DEF ResultOK, HasFired
  <2>2. ~(x <= Retired)  BY <1>12 DEF Completed
  <2>3. StatusOf(x) = "executing"  BY <1>12, <2>1, <2>2 DEF StatusOf
  <2>4. StatusOf(x)' = "completed"  BY <1>4, <1>8, <2>2 DEF StatusOf
  <2>5. Mapped' = [Mapped EXCEPT ![x] = "completed"]
    BY <1>3, <1>10, <2>4, MappedUpdate
  <2> QED  BY <1>3, <2>3, <2>5 DEF Mapped
<1> QED  BY <1>11, <1>12

LEMMA FireStatus ==
  ASSUME AllInv, ScheduleFire
  PROVE  \E x \in 1 .. N :
           /\ Mapped[x] = "fetched" /\ Mapped' = [Mapped EXCEPT ![x] = "executing"]
           /\ \A w \in 1 .. N : DependsOn(x, w) => Completed(w)
<1> USE DEF AllInv
<1>1. /\ i \in 1 .. Len(sche_q) /\ Len(sche_q') = Len(sche_q)
      /\ \A k \in 1 .. Len(sche_q) : sche_q'[k] =
           IF k = i THEN [sche_q[k] EXCEPT !.scheduled = TRUE] ELSE sche_q[k]
  BY ScheduleFireInsts
<1>2. PICK x \in 1 .. N : x = sche_q[i].inst
  BY <1>1, SchedEntries DEF SchedEntry
<1>3. /\ ~sche_q[i].scheduled /\ InstReady(sche_q[i])
      /\ UNCHANGED <<rob, retired_inst_idx, retire_count, fetch_inst_idx>>
  BY DEF ScheduleFire, CanFire, driverVars, cycleVars
<1>4. /\ Retired' = Retired
      /\ \A w : Completed(w)' <=> Completed(w)
  BY <1>3, CompletedFrame DEF Retired
<1>5. \A j \in 1 .. Len(sche_q) :
        sche_q[j] \in SchedEntry /\ (sche_q[j].inst = x => j = i)
  BY <1>1, <1>2, SchedEntries
<1>6. \A e \in SchedEntry : /\ [e EXCEPT !.scheduled = TRUE].inst = e.inst
                            /\ [e EXCEPT !.scheduled = TRUE].scheduled
  BY DEF SchedEntry
<1>7. ~HasFired(x)  BY <1>3, <1>5 DEF HasFired
<1>8. HasFired(x)'
  <2>1. sche_q'[i].inst = x /\ sche_q'[i].scheduled /\ i \in 1 .. Len(sche_q')
    BY <1>1, <1>2, <1>5, <1>6
  <2>2. \E k \in 1 .. Len(sche_q') : sche_q'[k].inst = x /\ sche_q'[k].scheduled
    BY <2>1
  <2> QED  BY <2>2 DEF HasFired
<1>9. ASSUME NEW w, w # x PROVE HasFired(w)' <=> HasFired(w)
  <2>1. \A k \in 1 .. Len(sche_q) :
          sche_q[k].inst = w \/ sche_q'[k].inst = w => sche_q'[k] = sche_q[k]
    BY <1>1, <1>2, <1>5, <1>6, <1>9
  <2> QED  BY <1>1, <2>1 DEF HasFired
<1>10. ~Completed(x) /\ x <= fetch_inst_idx
  <2>1. x \in 1 .. Dispatched /\ ~Completed(x)
    BY <1>1, <1>2 DEF StationOrder
  <2> QED  BY <2>1, Counts DEF OrderInv, FetchAhead
<1>11. ~(x <= Retired)  BY <1>10 DEF Completed
<1>12. StatusOf(x) = "fetched"  BY <1>7, <1>10, <1>11 DEF StatusOf
<1>13. StatusOf(x)' = "executing"
  BY <1>4, <1>8, <1>10, <1>11 DEF StatusOf
<1>14. \A id \in 1 .. N : id # x => StatusOf(id)' = StatusOf(id)
  BY <1>3, <1>4, <1>9, StatusKept
<1>15. Mapped' = [Mapped EXCEPT ![x] = "executing"]
  BY <1>13, <1>14, MappedUpdate
<1>16. ASSUME NEW w \in 1 .. N, DependsOn(x, w) PROVE Completed(w)
  <2>1. StationOK(sche_q[i])  BY <1>1 DEF DataInv, StationsOK
  <2>2. w \in 1 .. x - 1
    BY <1>16, TraceAssumption DEF DependsOn, ReadsFrom, LastWriter
  <2> QED  BY <1>2, <1>3, <1>16, <2>1, <2>2, ReadyResolved DEF DependsOn
<1> QED  BY <1>12, <1>15, <1>16 DEF Mapped

LEMMA DispatchStatus ==
  ASSUME AllInv, DispatchInst
  PROVE  Mapped' = Mapped
<1> USE DEF AllInv
<1>1. UNCHANGED <<retired_inst_idx, retire_count, fetch_inst_idx>>
  BY DEF DispatchInst, driverVars, cycleVars
<1>2. Retired' = Retired  BY <1>1 DEF Retired
<1>3. \A w \in Nat : Completed(w)' <=> Completed(w)  BY CompletedDispatch
<1> DEFINE e == CreateEntry(Head(disp_q))
<1>4. Head(disp_q) \in 1 .. N
  <2>1. Head(disp_q) = Dispatched + 1 /\ Dispatched + 1 <= fetch_inst_idx
    BY DispatchHead DEF DispatchInst, CanDispatch
  <2>2. fetch_inst_idx <= N  BY DEF OrderInv, FetchAhead
  <2>3. Dispatched \in Nat /\ fetch_inst_idx \in Nat /\ N \in Nat  BY Counts
  <2> QED  BY <2>1, <2>2, <2>3
<1>5. e \in SchedEntry /\ ~e.scheduled
  BY <1>4, DispatchTypes DEF CreateEntry
<1>6. sche_q' = Append(sche_q, e)  BY DEF DispatchInst
<1> HIDE DEF e
<1>7. /\ Len(sche_q') = Len(sche_q) + 1 /\ Len(sche_q) \in Nat
      /\ \A k \in 1 .. Len(sche_q) : sche_q'[k] = sche_q[k]
      /\ ~sche_q'[Len(sche_q) + 1].scheduled
  BY <1>5, <1>6, AppendProperties, LenProperties DEF TypeOK, QueueTypeOK
<1>8. /\ \A k \in 1 .. Len(sche_q') :
           k \in 1 .. Len(sche_q) \/ k = Len(sche_q) + 1
      /\ \A k \in 1 .. Len(sche_q) : k \in 1 .. Len(sche_q')
  BY <1>7
<1>9. \A w : HasFired(w)' <=> HasFired(w)  BY <1>7, <1>8 DEF HasFired
<1>10. \A id \in 1 .. N : StatusOf(id)' = StatusOf(id)
  BY <1>1, <1>2, <1>3, <1>9, StatusKept
<1> QED  BY <1>10, MappedSame

LEMMA FetchStatus ==
  ASSUME AllInv, NEW prediction \in BOOLEAN, FetchInst(prediction)
  PROVE  \E x \in 1 .. N : \E wrong \in BOOLEAN :
           /\ Mapped[x] = "unfetched" /\ Mapped' = [Mapped EXCEPT ![x] = "fetched"]
           /\ \A j \in 1 .. x - 1 :
                Mapped[j] # "unfetched" /\ (mispredict[j] => Mapped[j] = "retired")
           /\ wrong => Op(x) = "BRANCH" /\ MISSES_ENABLED
           /\ mispredict' = [mispredict EXCEPT ![x] = wrong]
<1> USE DEF AllInv
<1>1. /\ Retired \in Nat /\ Dispatched \in Nat /\ fetch_inst_idx \in Nat
      /\ N \in Nat /\ Dispatched <= fetch_inst_idx /\ Retired <= Dispatched
  BY Counts DEF OrderInv, FetchAhead, Dispatched
<1>2. /\ ~in_mispred /\ fetch_inst_idx < N
      /\ fetch_inst_idx' = fetch_inst_idx + 1
      /\ UNCHANGED <<retired_inst_idx, retire_count, rob, sche_q>>
  BY DEF FetchInst, ReadAvailable, cycleVars
<1> DEFINE x == fetch_inst_idx + 1
           wrong == /\ Op(x) = "BRANCH"
                    /\ prediction # insts[x].br_taken
                    /\ MISSES_ENABLED
<1>3. mispredict' = [mispredict EXCEPT ![x] = wrong]
  BY DEF FetchInst, next_inst
<1>4. /\ Retired' = Retired
      /\ \A w : Completed(w)' <=> Completed(w)
      /\ \A w : HasFired(w)' <=> HasFired(w)
  BY <1>2, CompletedFrame DEF Retired, HasFired
<1>5. x \in 1 .. N /\ wrong \in BOOLEAN  BY <1>1, <1>2
<1>6. ~Completed(x) /\ ~(x <= Retired)
  BY <1>1, <1>5, CompletedBound DEF Completed
<1>7. ~HasFired(x)
  <2>1. \A k \in 1 .. Len(sche_q) : sche_q[k].inst \in 1 .. Dispatched
    BY DEF StationOrder
  <2>2. x \notin 1 .. Dispatched  BY <1>1
  <2> QED  BY <2>1, <2>2 DEF HasFired
<1>8. StatusOf(x) = "unfetched"  BY <1>1, <1>6, <1>7 DEF StatusOf
<1>9. \A id \in 1 .. N :
        StatusOf(id)' = IF id = x THEN "fetched" ELSE StatusOf(id)
  <2> SUFFICES ASSUME NEW id \in 1 .. N
               PROVE  StatusOf(id)' = IF id = x THEN "fetched" ELSE StatusOf(id)
    OBVIOUS
  <2>1. id <= fetch_inst_idx' <=> id <= fetch_inst_idx \/ id = x
    BY <1>1, <1>2
  <2>2. CASE id = x
    BY <1>4, <1>6, <1>7, <2>1, <2>2 DEF StatusOf
  <2>3. CASE id # x  BY <1>4, <2>1, <2>3 DEF StatusOf
  <2> QED  BY <2>2, <2>3
<1>10. ASSUME NEW j \in 1 .. x - 1
      PROVE  /\ j \in 1 .. N /\ StatusOf(j) # "unfetched"
             /\ mispredict[j] => StatusOf(j) = "retired"
  <2>1. j \in 1 .. N /\ j <= fetch_inst_idx  BY <1>1, <1>5
  <2>2. CASE j <= Retired  BY <2>1, <2>2 DEF StatusOf
  <2>3. CASE j > Retired
    <3>1. CASE j = fetch_inst_idx
      <4>1. ~mispredict[j]
        BY <1>2, <2>3, <3>1 DEF OrderInv, MispredictKnown
      <4> QED  BY <2>1, <4>1 DEF StatusOf
    <3>2. CASE j # fetch_inst_idx
      <4>1. j \in Retired + 1 .. fetch_inst_idx - 1
        BY <1>1, <2>1, <2>3, <3>2
      <4>2. ~mispredict[j]  BY <4>1 DEF OrderInv, NothingPastMispredict
      <4> QED  BY <2>1, <4>2 DEF StatusOf
    <3> QED  BY <3>1, <3>2
  <2> QED  BY <1>1, <2>1, <2>2, <2>3
<1>11. wrong => Op(x) = "BRANCH" /\ MISSES_ENABLED  OBVIOUS
<1> HIDE DEF x, wrong
<1>12. ASSUME NEW y \in 1 .. N, y = x
       PROVE  Mapped' = [Mapped EXCEPT ![y] = "fetched"]
  BY <1>9, <1>12, MappedUpdate
<1> QED  BY <1>3, <1>5, <1>8, <1>10, <1>11, <1>12 DEF Mapped

(* The steps that move no instruction. *)
LEMMA EndCycleStatus ==
  ASSUME AllInv, EndCycle
  PROVE  Mapped' = Mapped
<1> USE DEF AllInv
<1>1. /\ Retired' = Retired /\ sche_q' = sche_q
      /\ \A w : Completed(w)' <=> Completed(w)
  BY EndCycleFrame
<1>2. fetch_inst_idx' = fetch_inst_idx
  BY DEF EndCycle, RedirectIdx, OrderInv, RedirectSafe
<1>3. \A w : HasFired(w)' <=> HasFired(w)  BY <1>1 DEF HasFired
<1> QED  BY <1>1, <1>2, <1>3, StatusKept, MappedSame

LEMMA NoDataStatus ==
  ASSUME NoDataStep, ~\E prediction \in BOOLEAN : FetchInst(prediction)
  PROVE  Mapped' = Mapped /\ UNCHANGED <<insts, mispredict>>
<1>1. UNCHANGED <<insts, sche_q, rob, retired_inst_idx, retire_count>>
  BY NoDataFrame
<1>2. UNCHANGED <<fetch_inst_idx, mispredict>>
  BY DEF NoDataStep, RetireDone, AluCheck, MulCheck, LsuCheck, ExecDone,
    ResultBusDone, ScheduleSkip, ScheduleDone, DispatchNop, DispatchDone,
    Fetch, FetchNothing, FetchNop, FetchMiss, FetchDone, vars, traceVars,
    driverVars
<1>3. /\ Retired' = Retired
      /\ \A w : Completed(w)' <=> Completed(w)
      /\ \A w : HasFired(w)' <=> HasFired(w)
  BY <1>1, CompletedFrame DEF Retired, HasFired
<1>4. \A id \in 1 .. N : StatusOf(id)' = StatusOf(id)
  BY <1>2, <1>3, StatusKept
<1> QED  BY <1>1, <1>2, <1>4, MappedSame

-----------------------------------------------------------------------------
(* The refinement *)

LEMMA AbstractInit == Init => Abstract!DataflowInit
<1> SUFFICES ASSUME Init PROVE Abstract!DataflowInit  OBVIOUS
<1>1. Len(sche_q) = 0 /\ Len(rob) = 0 /\ Retired = 0 /\ fetch_inst_idx = 0
  BY EmptySeq DEF Init, Retired
<1>2. \A id \in 1 .. N : StatusOf(id) = "unfetched"
  BY <1>1 DEF StatusOf, Completed, HasFired
<1>3. Abstract!TraceInit
  <2>1. \A line : Abstract!ReadTraceLine(line) = ReadTraceLine(line)
    BY DEF ReadTraceLine, Destination, Outcome, NoReg, Abstract!ReadTraceLine,
      Abstract!Destination, Abstract!Outcome, Abstract!NoReg
  <2> QED  BY <2>1 DEF Init, TraceInit, Abstract!TraceInit
<1> QED  BY <1>2, <1>3 DEF Init, Abstract!DataflowInit

LEMMA AbstractStep ==
  ASSUME AllInv, [Next]_vars
  PROVE  [Abstract!DataflowNext]_(Abstract!dataflowVars)
<1> USE DEF Mapped
<1>1. CASE RetireEntry
  <2>1. UNCHANGED <<insts, mispredict>>  BY <1>1 DEF RetireEntry, traceVars
  <2>2. \E x \in 1 .. N : Abstract!RetireNext(x)
    BY <1>1, <2>1, RetireStatus DEF Abstract!RetireNext, Abstract!Become
  <2> QED  BY <2>2 DEF Abstract!DataflowNext, Abstract!Advance
<1>2. CASE ResultBus
  <2>1. UNCHANGED <<insts, mispredict>>  BY <1>2 DEF ResultBus, traceVars
  <2>2. CASE Mapped' = Mapped  BY <2>1, <2>2 DEF Abstract!dataflowVars
  <2>3. CASE Mapped' # Mapped
    <3>1. \E x \in 1 .. N : Abstract!Complete(x)
      BY <1>2, <2>1, <2>3, ResultStatus DEF Abstract!Complete, Abstract!Become
    <3> QED  BY <3>1 DEF Abstract!DataflowNext, Abstract!Advance
  <2> QED  BY <2>2, <2>3
<1>3. CASE ScheduleFire
  <2>1. UNCHANGED <<insts, mispredict>>  BY <1>3 DEF ScheduleFire, traceVars
  <2>2. PICK x \in 1 .. N :
          /\ Mapped[x] = "fetched" /\ Mapped' = [Mapped EXCEPT ![x] = "executing"]
          /\ \A w \in 1 .. N : DependsOn(x, w) => Completed(w)
    BY <1>3, FireStatus
  <2>3. \A w \in 1 .. N :
          Abstract!DependsOn(x, w) => Abstract!IsCompleted(w)
    <3>1. \A w : Abstract!DependsOn(x, w) <=> DependsOn(x, w)
      BY DEF DependsOn, ReadsFrom, LastWriter, SameClass, IsLoadStore, Op,
        Abstract!DependsOn, Abstract!ReadsFrom, Abstract!LastWriter,
        Abstract!SameClass, Abstract!IsLoadStore, Abstract!Op, NoReg,
        Abstract!NoReg
    <3> QED  BY <2>2, <3>1, CompletedStatus DEF Abstract!IsCompleted
  <2>4. Abstract!Execute(x)
    BY <2>1, <2>2, <2>3 DEF Abstract!Execute, Abstract!Become
  <2> QED  BY <2>4 DEF Abstract!DataflowNext, Abstract!Advance
<1>4. CASE DispatchInst
  <2>1. UNCHANGED <<insts, mispredict>>  BY <1>4 DEF DispatchInst, traceVars
  <2> QED  BY <1>4, <2>1, DispatchStatus DEF Abstract!dataflowVars
<1>5. CASE EndCycle
  <2>1. UNCHANGED <<insts, mispredict>>  BY <1>5 DEF EndCycle, traceVars
  <2> QED  BY <1>5, <2>1, EndCycleStatus DEF Abstract!dataflowVars
<1>6. ASSUME NEW prediction \in BOOLEAN, FetchInst(prediction)
      PROVE  Abstract!DataflowNext
  <2>1. insts' = insts  BY <1>6 DEF FetchInst
  <2>2. \E x \in 1 .. N : Abstract!FetchNext(x)
    <3>1. PICK x \in 1 .. N, wrong \in BOOLEAN :
           /\ Mapped[x] = "unfetched" /\ Mapped' = [Mapped EXCEPT ![x] = "fetched"]
           /\ \A j \in 1 .. x - 1 :
                Mapped[j] # "unfetched" /\ (mispredict[j] => Mapped[j] = "retired")
           /\ wrong => Op(x) = "BRANCH" /\ MISSES_ENABLED
           /\ mispredict' = [mispredict EXCEPT ![x] = wrong]
      BY <1>6, FetchStatus
    <3>2. Abstract!Op(x) = Op(x)  BY DEF Op, Abstract!Op
    <3>3. Abstract!FetchNext(x)
      BY <2>1, <3>1, <3>2 DEF Abstract!FetchNext, Abstract!Become
    <3> QED  BY <3>3
  <2> QED  BY <2>2 DEF Abstract!DataflowNext, Abstract!Advance
<1>7. CASE NoDataStep /\ ~\E prediction \in BOOLEAN : FetchInst(prediction)
  BY <1>7, NoDataStatus DEF Abstract!dataflowVars
<1> QED  BY <1>1, <1>2, <1>3, <1>4, <1>5, <1>6, <1>7, NextSteps

(* The processor implements the abstract machine: instructions are fetched *)
(* in order and never past an unretired misprediction, execute only after  *)
(* what they depend on, complete once and retire in order.                 *)
THEOREM ProcsimImplementsDataflow == Spec => ImplementsDataflow
<1>1. Init => Abstract!DataflowInit  BY AbstractInit
<1>2. AllInv /\ [Next]_vars => [Abstract!DataflowNext]_(Abstract!dataflowVars)
  BY AbstractStep
<1>3. Spec => []AllInv
  BY TypeCorrect, OrderInvariant, StationInvariant, DataInvariant, PTL
     DEF AllInv
<1> QED
  BY <1>1, <1>2, <1>3, PTL DEF Spec, ImplementsDataflow, Abstract!DataflowSafe
=============================================================================
