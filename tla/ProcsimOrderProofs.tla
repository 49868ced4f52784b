------------------------- MODULE ProcsimOrderProofs -------------------------
(***************************************************************************)
(* The queues of Procsim, for every trace, every width, every number of    *)
(* units and registers, and every latency: every variable keeps its type,  *)
(* no instruction is lost, duplicated or overtaken, nothing is fetched past *)
(* a mispredicted branch, and the reservation stations hold the unfinished *)
(* instructions of the ROB.                                                *)
(***************************************************************************)
EXTENDS Procsim, SequenceTheorems, WellFoundedInduction, TLAPS

-----------------------------------------------------------------------------
(* Types *)

(* A set of natural numbers that is not empty has a least element. *)
LEMMA MinNat ==
  ASSUME NEW S, S \subseteq Nat, S # {}
  PROVE  \E m \in S : \A k \in S : m <= k
<1> DEFINE R == {ss \in Nat \X Nat : ss[1] < ss[2]}
<1>1. IsWellFoundedOn(R, Nat)  BY NatLessThanWellFounded DEF OpToRel
<1> HIDE DEF R
<1>2. PICK m \in S : \A k \in S : ~ (<<k, m>> \in R)  BY <1>1, WFMin
<1>3. ASSUME NEW k \in S PROVE m <= k
  <2>1. m \in Nat /\ k \in Nat  OBVIOUS
  <2>2. ~ (<<k, m>> \in R)  BY <1>2
  <2>3. ~ (k < m)  BY <2>1, <2>2 DEF R
  <2> QED  BY <2>1, <2>3
<1> QED  BY <1>3

(* FirstOf finds the first entry of an instruction that is in the queue. *)
LEMMA FirstOfProperties ==
  ASSUME NEW q, NEW id, Len(q) \in Nat, Holds(q, id)
  PROVE  /\ FirstOf(q, id) \in 1 .. Len(q)
         /\ q[FirstOf(q, id)].inst = id
<1> DEFINE S == {k \in 1 .. Len(q) : q[k].inst = id}
<1>1. S # {} /\ S \subseteq Nat  BY DEF Holds
<1>2. PICK m \in S : \A k \in S : m <= k  BY <1>1, MinNat
<1>3. \A j \in 1 .. m - 1 : q[j].inst # id  BY <1>2
<1> QED  BY <1>3 DEF FirstOf

LEMMA Sizes ==
  /\ DISPQ_ENTRIES \in Nat /\ ROB_ENTRIES \in Nat /\ SCHEDQ_ENTRIES \in Nat
  /\ FETCH_WIDTH \in Nat \ {0}
BY SizeAssumption, TraceAssumption
   DEF DISPQ_ENTRIES, ROB_ENTRIES, SCHEDQ_ENTRIES

LEMMA TraceLineType ==
  ASSUME NEW line \in InstSet
  PROVE  ReadTraceLine(line) \in Inst
<1>1. line \in Inst  BY TraceAssumption
<1>2. Destination(line.dest) \in OptReg
  BY <1>1 DEF Destination, Inst, OptReg, NoReg
<1>3. Outcome(line.icache) \in Latency /\ Outcome(line.dcache) \in Latency
  BY <1>1 DEF Outcome, Inst, Latency
<1> QED  BY <1>1, <1>2, <1>3 DEF ReadTraceLine, Inst

(* An update of one element keeps a sequence a sequence of its kind. *)
LEMMA ExceptType ==
  ASSUME NEW S, NEW q \in Seq(S), NEW k \in 1 .. Len(q), NEW e \in S
  PROVE  [q EXCEPT ![k] = e] \in Seq(S) /\ Len([q EXCEPT ![k] = e]) = Len(q)
BY ExceptSeq

-----------------------------------------------------------------------------

(* The pipeline starts in a state of its types (procsim_init).             *)
THEOREM InitType == Init => TypeOK
<1> SUFFICES ASSUME Init PROVE TypeOK  OBVIOUS
<1> USE Sizes, SizeAssumption, TraceAssumption
<1>1. TraceTypeOK
  BY TraceLineType DEF Init, TraceInit, TraceTypeOK
<1>2. DriverTypeOK  BY DEF Init, DriverTypeOK
<1>3. LoopTypeOK
  <2>1. stage \in Stage  BY DEF Init, Stage
  <2>2. i \in Nat \ {0} BY DEF Init
  <2>3. retire_count \in Nat /\ retired_mispredict \in BOOLEAN BY DEF Init
  <2>4. normal_dispatch \in Nat /\ nop_dispatch \in Nat /\ fetch_count \in Nat BY DEF Init
  <2> QED BY <2>1, <2>2, <2>3, <2>4 DEF LoopTypeOK
<1>4. QueueTypeOK  BY EmptySeq DEF Init, QueueTypeOK
<1>5. RenameTypeOK
  BY DEF Init, RenameTypeOK, RegEntry, Reg, MatReg, FIRST_TAG
<1>6. UnitTypeOK  BY EmptySeq DEF Init, UnitTypeOK, Free, FuEntry
<1> QED  BY <1>1, <1>2, <1>3, <1>4, <1>5, <1>6 DEF TypeOK

-----------------------------------------------------------------------------
(* One lemma per stage: whatever the stage does, every part of TypeOK is   *)
(* kept.                                                                   *)

LEMMA RetireType == ASSUME TypeOK, Retire PROVE TypeOK'
<1> USE DEF TypeOK
<1>1. CASE RetireEntry
  <2>1. TraceTypeOK' /\ DriverTypeOK' /\ RenameTypeOK' /\ UnitTypeOK'
    BY <1>1 DEF RetireEntry, traceVars, driverVars, renameVars, fuVars,
                TraceTypeOK, DriverTypeOK, RenameTypeOK, UnitTypeOK
  <2>2. LoopTypeOK'
    <3>1. stage' \in Stage  BY <1>1 DEF RetireEntry, Stage
    <3>2. retired_mispredict' \in BOOLEAN
      BY <1>1 DEF RetireEntry, MispredictAtHead
    <3>3. retire_count' \in Nat  BY <1>1 DEF RetireEntry, LoopTypeOK
    <3> QED  BY <1>1, <3>1, <3>2, <3>3 DEF RetireEntry, loopVars, LoopTypeOK
  <2>3. QueueTypeOK'
    <3>1. rob # <<>> /\ rob \in Seq(RobEntry)
      BY <1>1 DEF RetireEntry, CanRetire, QueueTypeOK
    <3>2. Tail(rob) \in Seq(RobEntry) /\ Len(Tail(rob)) = Len(rob) - 1
      BY <3>1, HeadTailProperties
    <3>3. Len(rob) \in Nat  BY <3>1, LenProperties
    <3> QED  BY <1>1, <3>2, <3>3, Sizes DEF RetireEntry, QueueTypeOK
  <2> QED  BY <2>1, <2>2, <2>3
<1>2. CASE RetireDone
  <2>1. TraceTypeOK' /\ DriverTypeOK' /\ RenameTypeOK' /\ UnitTypeOK'
    BY <1>2 DEF RetireDone, traceVars, driverVars, renameVars, fuVars,
                TraceTypeOK, DriverTypeOK, RenameTypeOK, UnitTypeOK
  <2>2. LoopTypeOK'
    BY <1>2 DEF RetireDone, cycleVars, LoopTypeOK, Stage
  <2>3. QueueTypeOK'  BY <1>2 DEF RetireDone, QueueTypeOK
  <2> QED  BY <2>1, <2>2, <2>3
<1> QED  BY <1>1, <1>2 DEF Retire

LEMMA AgedType == ASSUME NEW e \in FuEntry PROVE Aged(e) \in FuEntry
BY DEF Aged, FuEntry

LEMMA FreeType == Free \in FuEntry
BY TraceAssumption DEF Free, FuEntry

(* The cut MulCheck makes in a pipeline exists. *)
LEMMA MulCut ==
  ASSUME NEW pipe \in Seq(FuEntry)
  PROVE  LET p == CHOOSE q \in 0 .. Len(pipe) : MulLeaving(pipe, q)
         IN  p \in 0 .. Len(pipe) /\ MulLeaving(pipe, p)
<1> DEFINE S == {q \in 0 .. Len(pipe) :
                   q < Len(pipe) => pipe[q + 1].fu_count # MUL_STAGES}
<1>1. Len(pipe) \in Nat  BY LenProperties
<1>2. Len(pipe) \in S /\ S \subseteq Nat  BY <1>1
<1>3. PICK m \in S : \A k \in S : m <= k  BY <1>2, MinNat
<1>4. \A k \in 1 .. m : pipe[k].fu_count = MUL_STAGES
  <2> SUFFICES ASSUME NEW k \in 1 .. m, pipe[k].fu_count # MUL_STAGES
               PROVE  FALSE
    OBVIOUS
  <2>1. k - 1 \in 0 .. Len(pipe) /\ (k - 1) + 1 = k  BY <1>1
  <2>2. k - 1 \in S  BY <2>1
  <2>3. m <= k - 1  BY <1>3, <2>2
  <2>4. m \in Nat /\ k \in Nat /\ k <= m  BY <1>2
  <2> QED  BY <2>3, <2>4
<1>5. m \in 0 .. Len(pipe) /\ MulLeaving(pipe, m)  BY <1>4 DEF MulLeaving
<1> QED  BY <1>5

(* What the result bus writes has the type of what it replaces. *)
LEMMA SchedRemoveType ==
  ASSUME TypeOK, NEW c \in FuEntry
  PROVE  /\ SchedRemove(c) \in Seq(SchedEntry)
         /\ Len(SchedRemove(c)) <= Len(sche_q)
         /\ Len(SchedRemove(c)) \in Nat
<1>1. sche_q \in Seq(SchedEntry) /\ Len(sche_q) \in Nat
  BY LenProperties DEF TypeOK, QueueTypeOK
<1>2. CASE ~Holds(sche_q, c.inst)  BY <1>1, <1>2 DEF SchedRemove
<1>3. CASE Holds(sche_q, c.inst)
  <2> DEFINE p == FirstOf(sche_q, c.inst)
             q == [k \in 1 .. Len(sche_q) - 1 |->
                     IF k < p THEN sche_q[k] ELSE sche_q[k + 1]]
  <2>1. SchedRemove(c) = q  BY <1>3 DEF SchedRemove
  <2>2. p \in 1 .. Len(sche_q)  BY <1>1, <1>3, FirstOfProperties
  <2>3. Len(sche_q) - 1 \in Nat  BY <1>1, <2>2
  <2>4. \A k \in 1 .. Len(sche_q) : sche_q[k] \in SchedEntry
    BY <1>1, ElementOfSeq
  <2> HIDE DEF p
  <2>5. \A k \in 1 .. Len(sche_q) - 1 :
          (IF k < p THEN sche_q[k] ELSE sche_q[k + 1]) \in SchedEntry
    BY <2>3, <2>4
  <2>6. q \in Seq(SchedEntry) /\ Len(q) = Len(sche_q) - 1
    BY <2>3, <2>5
  <2> HIDE DEF q
  <2>7. Len(SchedRemove(c)) = Len(sche_q) - 1  BY <2>1, <2>6
  <2>8. SchedRemove(c) \in Seq(SchedEntry)  BY <2>1, <2>6
  <2> QED  BY <1>1, <2>3, <2>7, <2>8
<1> QED  BY <1>2, <1>3

LEMMA WakeupType ==
  ASSUME NEW e \in SchedEntry, NEW c \in FuEntry
  PROVE  Wakeup(e, c) \in SchedEntry
BY DEF Wakeup, SchedEntry

LEMMA RobUpdateType ==
  ASSUME TypeOK, NEW c \in FuEntry
  PROVE  RobUpdate(c) \in Seq(RobEntry) /\ Len(RobUpdate(c)) = Len(rob)
<1>1. rob \in Seq(RobEntry) /\ Len(rob) \in Nat
  BY LenProperties DEF TypeOK, QueueTypeOK
<1>2. CASE ~Holds(rob, c.inst)  BY <1>1, <1>2 DEF RobUpdate
<1>3. CASE Holds(rob, c.inst)
  <2> DEFINE p == FirstOf(rob, c.inst)
  <2>1. p \in 1 .. Len(rob)  BY <1>1, <1>3, FirstOfProperties
  <2>2. rob[p] \in RobEntry  BY <1>1, <2>1, ElementOfSeq
  <2> HIDE DEF p
  <2>3. [rob[p] EXCEPT !.finished = TRUE] \in RobEntry  BY <2>2 DEF RobEntry
  <2>4. [rob EXCEPT ![p].finished = TRUE]
          = [rob EXCEPT ![p] = [rob[p] EXCEPT !.finished = TRUE]]
    OBVIOUS
  <2>5. [rob EXCEPT ![p].finished = TRUE] \in Seq(RobEntry)
        /\ Len([rob EXCEPT ![p].finished = TRUE]) = Len(rob)
    BY <1>1, <2>1, <2>3, <2>4, ExceptType
  <2> QED  BY <1>3, <2>5 DEF RobUpdate, p
<1> QED  BY <1>2, <1>3

LEMMA RegUpdateType ==
  ASSUME TypeOK, NEW c \in FuEntry
  PROVE  RfUpdate(c) \in [Reg -> RegEntry] /\ MatUpdate(c) \in [MatReg -> RegEntry]
<1>1. rf \in [Reg -> RegEntry] /\ mat \in [MatReg -> RegEntry]
  BY DEF TypeOK, RenameTypeOK
<1>2. ASSUME NEW S, NEW f \in [S -> RegEntry], NEW r
      PROVE  [f EXCEPT ![r].ready = TRUE] \in [S -> RegEntry]
  BY <1>2 DEF RegEntry
<1> QED  BY <1>1, <1>2 DEF RfUpdate, MatUpdate

LEMMA ExecType == ASSUME TypeOK, Exec PROVE TypeOK'
<1> USE DEF TypeOK
<1>1. CASE AluCheck
  <2>1. TraceTypeOK' /\ DriverTypeOK' /\ RenameTypeOK' /\ LoopTypeOK'
    BY <1>1 DEF AluCheck, traceVars, driverVars, cycleVars, renameVars,
                TraceTypeOK, DriverTypeOK, RenameTypeOK, LoopTypeOK
  <2>2. i \in 1 .. ALU_NUM
    BY <1>1, SizeAssumption DEF AluCheck, LoopTypeOK
  <2>3. Aged(alu[i]) \in FuEntry  BY <2>2, AgedType DEF UnitTypeOK
  <2>4. complete_vec' \in Seq(FuEntry)
    <3>1. \/ complete_vec' = Append(complete_vec, Aged(alu[i]))
          \/ complete_vec' = complete_vec
      BY <1>1 DEF AluCheck
    <3> QED  BY <2>3, <3>1, AppendProperties DEF QueueTypeOK
  <2>5. alu' \in [1 .. ALU_NUM -> FuEntry] /\ alu_current' \in Int
    BY <1>1, <2>3, FreeType DEF AluCheck, UnitTypeOK
  <2> QED  BY <1>1, <2>1, <2>4, <2>5 DEF AluCheck, QueueTypeOK, UnitTypeOK
<1>2. CASE MulCheck
  <2> DEFINE pipe == [k \in 1 .. Len(mul[i]) |-> Aged(mul[i][k])]
             p    == CHOOSE q \in 0 .. Len(pipe) : MulLeaving(pipe, q)
  <2>1. TraceTypeOK' /\ DriverTypeOK' /\ RenameTypeOK' /\ LoopTypeOK'
    BY <1>2 DEF MulCheck, traceVars, driverVars, cycleVars, renameVars,
                TraceTypeOK, DriverTypeOK, RenameTypeOK, LoopTypeOK
  <2>2. i \in 1 .. MUL_NUM
    BY <1>2, SizeAssumption DEF MulCheck, LoopTypeOK
  <2>3. mul[i] \in Seq(FuEntry)  BY <2>2 DEF UnitTypeOK
  <2>4. pipe \in Seq(FuEntry)
    <3>1. Len(mul[i]) \in Nat  BY <2>3, LenProperties
    <3>2. \A k \in 1 .. Len(mul[i]) : Aged(mul[i][k]) \in FuEntry
      BY <2>3, ElementOfSeq, AgedType
    <3> QED  BY <3>1, <3>2
  <2>5. p \in 0 .. Len(pipe)  BY <2>4, MulCut
  <2>6. Len(pipe) \in Nat /\ \A k \in 1 .. Len(pipe) : pipe[k] \in FuEntry
    BY <2>4, LenProperties, ElementOfSeq
  <2>7. complete_vec' = complete_vec \o SubSeq(pipe, 1, p)
        /\ mul' = [mul EXCEPT ![i] = SubSeq(pipe, p + 1, Len(pipe))]
    BY <1>2 DEF MulCheck
  <2> HIDE DEF pipe, p
  <2>8. /\ SubSeq(pipe, 1, p) \in Seq(FuEntry)
        /\ SubSeq(pipe, p + 1, Len(pipe)) \in Seq(FuEntry)
    <3>1. \A k \in 1 .. p : pipe[k] \in FuEntry  BY <2>5, <2>6
    <3>2. \A k \in p + 1 .. Len(pipe) : pipe[k] \in FuEntry  BY <2>5, <2>6
    <3>3. p \in Int /\ p + 1 \in Int /\ Len(pipe) \in Int  BY <2>5, <2>6
    <3> QED  BY <3>1, <3>2, <3>3, SubSeqProperties
  <2>9. complete_vec' \in Seq(FuEntry)
    BY <2>7, <2>8, ConcatProperties DEF QueueTypeOK
  <2>10. mul' \in [1 .. MUL_NUM -> Seq(FuEntry)]
    BY <2>7, <2>8 DEF UnitTypeOK
  <2> QED  BY <1>2, <2>1, <2>9, <2>10 DEF MulCheck, QueueTypeOK, UnitTypeOK
<1>3. CASE LsuCheck
  <2>1. TraceTypeOK' /\ DriverTypeOK' /\ RenameTypeOK' /\ LoopTypeOK'
    BY <1>3 DEF LsuCheck, traceVars, driverVars, cycleVars, renameVars,
                TraceTypeOK, DriverTypeOK, RenameTypeOK, LoopTypeOK
  <2>2. i \in 1 .. LSU_NUM
    BY <1>3, SizeAssumption DEF LsuCheck, LoopTypeOK
  <2>3. Aged(lsu[i]) \in FuEntry  BY <2>2, AgedType DEF UnitTypeOK
  <2>4. complete_vec' \in Seq(FuEntry)
    <3>1. \/ complete_vec' = Append(complete_vec, Aged(lsu[i]))
          \/ complete_vec' = complete_vec
      BY <1>3 DEF LsuCheck
    <3> QED  BY <2>3, <3>1, AppendProperties DEF QueueTypeOK
  <2>5. lsu' \in [1 .. LSU_NUM -> FuEntry] /\ lsu_current' \in Int
    BY <1>3, <2>3, FreeType DEF LsuCheck, UnitTypeOK
  <2> QED  BY <1>3, <2>1, <2>4, <2>5 DEF LsuCheck, QueueTypeOK, UnitTypeOK
<1>4. CASE ExecDone
  <2>1. stage' \in Stage  BY <1>4 DEF ExecDone, Stage
  <2> QED
    BY <1>4, <2>1 DEF ExecDone, traceVars, driverVars, cycleVars, renameVars,
      fuVars, TraceTypeOK, DriverTypeOK, RenameTypeOK, LoopTypeOK, QueueTypeOK,
      UnitTypeOK
<1>5. CASE ResultBus
  <2> DEFINE c == Head(complete_vec)
             q == SchedRemove(c)
             w == [k \in 1 .. Len(q) |-> Wakeup(q[k], c)]
  <2>1. c \in FuEntry /\ Tail(complete_vec) \in Seq(FuEntry)
    BY <1>5, HeadTailProperties DEF ResultBus, QueueTypeOK
  <2>2. /\ mat' = MatUpdate(c) /\ rf' = RfUpdate(c)
        /\ sche_q' = w /\ rob' = RobUpdate(c)
        /\ complete_vec' = Tail(complete_vec)
    BY <1>5 DEF ResultBus
  <2>3. q \in Seq(SchedEntry) /\ Len(q) <= Len(sche_q) /\ Len(q) \in Nat
    BY <2>1, SchedRemoveType
  <2> HIDE DEF c, q
  <2>4. \A k \in 1 .. Len(q) : Wakeup(q[k], c) \in SchedEntry
    BY <2>1, <2>3, ElementOfSeq, WakeupType
  <2>5. w \in Seq(SchedEntry) /\ Len(w) = Len(q)  BY <2>3, <2>4
  <2>6. Len(sche_q) \in Nat  BY LenProperties DEF QueueTypeOK
  <2> HIDE DEF w
  <2>7. QueueTypeOK'
    <3>1. disp_q' = disp_q  BY <1>5 DEF ResultBus
    <3>2. sche_q' \in Seq(SchedEntry) /\ Len(sche_q') <= SCHEDQ_ENTRIES
      BY <2>2, <2>3, <2>5, <2>6, Sizes DEF QueueTypeOK
    <3>3. rob' \in Seq(RobEntry) /\ Len(rob') = Len(rob)
      BY <2>1, <2>2, RobUpdateType
    <3>4. Len(rob') <= ROB_ENTRIES  BY <3>3 DEF QueueTypeOK
    <3> QED  BY <2>1, <2>2, <3>1, <3>2, <3>3, <3>4 DEF QueueTypeOK
  <2>8. RenameTypeOK'
    BY <1>5, <2>1, <2>2, RegUpdateType DEF ResultBus, RenameTypeOK
  <2>9. TraceTypeOK' /\ DriverTypeOK' /\ LoopTypeOK' /\ UnitTypeOK'
    BY <1>5 DEF ResultBus, traceVars, driverVars, cycleVars, loopVars, fuVars,
                TraceTypeOK, DriverTypeOK, LoopTypeOK, UnitTypeOK
  <2> QED  BY <2>7, <2>8, <2>9
<1>6. CASE ResultBusDone
  <2>1. stage' \in Stage /\ mul_current' \in 0 .. MUL_NUM
    BY <1>6, SizeAssumption DEF ResultBusDone, Stage
  <2> QED
    BY <1>6, <2>1 DEF ResultBusDone, traceVars, driverVars, cycleVars,
      renameVars, TraceTypeOK, DriverTypeOK, RenameTypeOK, LoopTypeOK,
      QueueTypeOK, UnitTypeOK
<1> QED  BY <1>1, <1>2, <1>3, <1>4, <1>5, <1>6 DEF Exec

-----------------------------------------------------------------------------

LEMMA PushSlotType ==
  ASSUME NEW n \in Nat, NEW fu \in [1 .. n -> FuEntry],
         NEW e \in SchedEntry
  PROVE  PushSlot(fu, n, e) \in [1 .. n -> FuEntry]
<1>1. Fired(e) \in FuEntry
  BY TraceAssumption DEF Fired, SchedEntry, FuEntry
<1> QED  BY <1>1 DEF PushSlot

LEMMA ScheduleType == ASSUME TypeOK, Schedule PROVE TypeOK'
<1> USE DEF TypeOK
<1>1. CASE ScheduleFire
  <2> DEFINE e == sche_q[i]
  <2>1. i \in 1 .. Len(sche_q) /\ Len(sche_q) \in Nat
    BY <1>1, LenProperties DEF ScheduleFire, LoopTypeOK, QueueTypeOK
  <2>2. e \in SchedEntry  BY <2>1, ElementOfSeq DEF QueueTypeOK
  <2>3. Fired(e) \in FuEntry
    BY <2>2, TraceAssumption DEF Fired, SchedEntry, FuEntry
  <2>4. FireAlu(e) \/ FireMul(e) \/ FireLsu(e)  BY <1>1 DEF ScheduleFire
  <2> HIDE DEF e
  <2>5. UnitTypeOK'
    <3>1. CASE FireAlu(e)
      <4>1. alu' \in [1 .. ALU_NUM -> FuEntry]
        BY <2>2, <3>1, PushSlotType, SizeAssumption DEF FireAlu, UnitTypeOK
      <4>2. alu_current' \in Int  BY <3>1 DEF FireAlu, PushCount, UnitTypeOK
      <4> QED  BY <3>1, <4>1, <4>2 DEF FireAlu, UnitTypeOK
    <3>2. CASE FireMul(e)
      <4>1. CASE mul_current < MUL_NUM
        <5>1. mul_current + 1 \in 1 .. MUL_NUM
          BY <4>1, SizeAssumption DEF UnitTypeOK
        <5>2. Append(mul[mul_current + 1], Fired(e)) \in Seq(FuEntry)
          BY <2>3, <5>1, AppendProperties DEF UnitTypeOK
        <5>3. mul' \in [1 .. MUL_NUM -> Seq(FuEntry)]
          BY <3>2, <4>1, <5>2 DEF FireMul, UnitTypeOK
        <5>4. mul_current' \in 0 .. MUL_NUM
          BY <3>2, <4>1, <5>1 DEF FireMul
        <5> QED  BY <3>2, <5>3, <5>4 DEF FireMul, UnitTypeOK
      <4>2. CASE ~(mul_current < MUL_NUM)
        BY <3>2, <4>2 DEF FireMul, UnitTypeOK
      <4> QED  BY <4>1, <4>2
    <3>3. CASE FireLsu(e)
      <4>1. lsu' \in [1 .. LSU_NUM -> FuEntry]
        BY <2>2, <3>3, PushSlotType, SizeAssumption DEF FireLsu, UnitTypeOK
      <4>2. lsu_current' \in Int  BY <3>3 DEF FireLsu, PushCount, UnitTypeOK
      <4> QED  BY <3>3, <4>1, <4>2 DEF FireLsu, UnitTypeOK
    <3> QED  BY <2>4, <3>1, <3>2, <3>3
  <2>6. [e EXCEPT !.scheduled = TRUE] \in SchedEntry  BY <2>2 DEF SchedEntry
  <2>7. sche_q' = [sche_q EXCEPT ![i] = [e EXCEPT !.scheduled = TRUE]]
    BY <1>1 DEF ScheduleFire, e
  <2>8. sche_q' \in Seq(SchedEntry) /\ Len(sche_q') = Len(sche_q)
    BY <2>1, <2>6, <2>7, ExceptType DEF QueueTypeOK
  <2>9. TraceTypeOK' /\ DriverTypeOK' /\ LoopTypeOK' /\ RenameTypeOK'
    BY <1>1 DEF ScheduleFire, traceVars, driverVars, cycleVars, renameVars,
                TraceTypeOK, DriverTypeOK, LoopTypeOK, RenameTypeOK
  <2> QED  BY <1>1, <2>5, <2>8, <2>9 DEF ScheduleFire, QueueTypeOK
<1>2. CASE ScheduleSkip
  BY <1>2 DEF ScheduleSkip, traceVars, driverVars, cycleVars, renameVars,
    fuVars, TraceTypeOK, DriverTypeOK, LoopTypeOK, RenameTypeOK, QueueTypeOK,
    UnitTypeOK
<1>3. CASE ScheduleDone
  <2>1. stage' \in Stage  BY <1>3 DEF ScheduleDone, Stage
  <2> QED
    BY <1>3, <2>1 DEF ScheduleDone, traceVars, driverVars, cycleVars,
      renameVars, fuVars, TraceTypeOK, DriverTypeOK, LoopTypeOK, RenameTypeOK,
      QueueTypeOK, UnitTypeOK
<1> QED  BY <1>1, <1>2, <1>3 DEF Schedule

-----------------------------------------------------------------------------

(* A new reservation station, and the tables after its claim. *)
LEMMA DispatchTypes ==
  ASSUME TypeOK, NEW id \in 1 .. N
  PROVE  /\ CreateEntry(id) \in SchedEntry
         /\ ClaimMat(id) \in [MatReg -> RegEntry]
         /\ ClaimRf(id) \in [Reg -> RegEntry]
<1>1. insts[id] \in Inst  BY DEF TypeOK, TraceTypeOK
<1>2. rf \in [Reg -> RegEntry] /\ mat \in [MatReg -> RegEntry] /\ tag \in Nat
  BY DEF TypeOK, RenameTypeOK
<1>3. \A r \in OptReg : RfReady(r) \in BOOLEAN /\ RfTag(r) \in Nat
  <2> SUFFICES ASSUME NEW r \in OptReg
               PROVE  RfReady(r) \in BOOLEAN /\ RfTag(r) \in Nat
    OBVIOUS
  <2>1. r >= 0 => r \in Reg  BY TraceAssumption DEF OptReg, Reg, NoReg
  <2>2. RfReady(r) \in BOOLEAN  BY DEF RfReady
  <2>3. RfTag(r) \in Nat  BY <1>2, <2>1 DEF RfTag, RegEntry
  <2> QED  BY <2>2, <2>3
<1>4. insts[id].src1 \in OptReg /\ insts[id].src2 \in OptReg
      /\ insts[id].ms \in MatReg
  BY <1>1 DEF Inst
<1>5. (IsLoadStore(id) /\ mat[insts[id].ms].ready) \in BOOLEAN  OBVIOUS
<1>6. (IF IsLoadStore(id) THEN mat[insts[id].ms].tag ELSE 0) \in Nat
  BY <1>2, <1>4 DEF RegEntry
<1>7. CreateEntry(id) \in SchedEntry
  BY <1>2, <1>3, <1>4, <1>5, <1>6 DEF CreateEntry, SchedEntry
<1>8. [ready |-> FALSE, tag |-> tag] \in RegEntry
      /\ [ready |-> FALSE, tag |-> tag + 1] \in RegEntry
  BY <1>2 DEF RegEntry
<1> QED  BY <1>2, <1>7, <1>8 DEF ClaimMat, ClaimRf

LEMMA DispatchType == ASSUME TypeOK, Dispatch PROVE TypeOK'
<1> USE DEF TypeOK
<1>1. CASE DispatchInst
  <2> DEFINE id == Head(disp_q)
  <2>1. /\ id \in 0 .. N /\ id # 0 /\ Tail(disp_q) \in Seq(0 .. N)
        /\ Len(Tail(disp_q)) = Len(disp_q) - 1
    BY <1>1, HeadTailProperties
       DEF DispatchInst, CanDispatch, QueueTypeOK, NOP
  <2>2. id \in 1 .. N  BY <2>1, TraceAssumption
  <2>3. /\ sche_q' = Append(sche_q, CreateEntry(id))
        /\ rob' = Append(rob, [inst |-> id, finished |-> FALSE])
        /\ mat' = ClaimMat(id) /\ rf' = ClaimRf(id) /\ tag' = tag + 2
        /\ Len(sche_q) < SCHEDQ_ENTRIES /\ Len(rob) < ROB_ENTRIES
        /\ disp_q' = Tail(disp_q)
    BY <1>1 DEF DispatchInst, CanDispatch
  <2> HIDE DEF id
  <2>4. [inst |-> id, finished |-> FALSE] \in RobEntry  BY <2>2 DEF RobEntry
  <2>5. sche_q' \in Seq(SchedEntry) /\ Len(sche_q') = Len(sche_q) + 1
    BY <2>2, <2>3, DispatchTypes, AppendProperties DEF QueueTypeOK
  <2>6. rob' \in Seq(RobEntry) /\ Len(rob') = Len(rob) + 1
    BY <2>3, <2>4, AppendProperties DEF QueueTypeOK
  <2>7. Len(sche_q) \in Nat /\ Len(rob) \in Nat /\ Len(disp_q) \in Nat
    BY LenProperties DEF QueueTypeOK
  <2>8. QueueTypeOK'
    BY <1>1, <2>1, <2>3, <2>5, <2>6, <2>7, Sizes DEF DispatchInst, QueueTypeOK
  <2>9. RenameTypeOK'  BY <2>2, <2>3, DispatchTypes DEF RenameTypeOK
  <2>10. TraceTypeOK' /\ DriverTypeOK' /\ LoopTypeOK' /\ UnitTypeOK'
    BY <1>1 DEF DispatchInst, traceVars, driverVars, cycleVars, fuVars,
                TraceTypeOK, DriverTypeOK, LoopTypeOK, UnitTypeOK
  <2> QED  BY <2>8, <2>9, <2>10
<1>2. CASE DispatchNop
  <2>1. /\ Tail(disp_q) \in Seq(0 .. N)
        /\ Len(Tail(disp_q)) = Len(disp_q) - 1
    BY <1>2, HeadTailProperties DEF DispatchNop, CanDispatch, QueueTypeOK
  <2>2. Len(disp_q) \in Nat  BY LenProperties DEF QueueTypeOK
  <2>3. QueueTypeOK'  BY <1>2, <2>1, <2>2, Sizes DEF DispatchNop, QueueTypeOK
  <2> QED
    BY <1>2, <2>3 DEF DispatchNop, traceVars, driverVars, cycleVars,
      renameVars, fuVars, TraceTypeOK, DriverTypeOK, LoopTypeOK, RenameTypeOK,
      UnitTypeOK
<1>3. CASE DispatchDone
  <2>1. stage' \in Stage  BY <1>3 DEF DispatchDone, Stage
  <2> QED
    BY <1>3, <2>1 DEF DispatchDone, traceVars, driverVars, cycleVars,
      renameVars, fuVars, TraceTypeOK, DriverTypeOK, LoopTypeOK, RenameTypeOK,
      QueueTypeOK, UnitTypeOK
<1> QED  BY <1>1, <1>2, <1>3 DEF Dispatch

LEMMA FetchType == ASSUME TypeOK, Fetch PROVE TypeOK'
<1> USE DEF TypeOK
<1>1. CASE FetchNothing
  BY <1>1 DEF FetchNothing, traceVars, driverVars, cycleVars, renameVars,
    fuVars, TraceTypeOK, DriverTypeOK, LoopTypeOK, RenameTypeOK, QueueTypeOK,
    UnitTypeOK
<1>2. ASSUME NEW id \in 0 .. N, CanFetch
      PROVE  /\ Append(disp_q, id) \in Seq(0 .. N)
             /\ Len(Append(disp_q, id)) <= DISPQ_ENTRIES
  <2>1. Len(disp_q) \in Nat  BY LenProperties DEF QueueTypeOK
  <2> QED
    BY <1>2, <2>1, AppendProperties, Sizes DEF CanFetch, QueueTypeOK
<1>3. NOP \in 0 .. N  BY TraceAssumption DEF NOP
<1>4. CASE FetchNop
  <2>1. QueueTypeOK'  BY <1>2, <1>3, <1>4 DEF FetchNop, QueueTypeOK
  <2> QED
    BY <1>4, <2>1 DEF FetchNop, traceVars, driverVars, cycleVars, renameVars,
      fuVars, TraceTypeOK, DriverTypeOK, LoopTypeOK, RenameTypeOK, UnitTypeOK
<1>5. CASE FetchMiss
  <2>1. QueueTypeOK'  BY <1>2, <1>3, <1>5 DEF FetchMiss, QueueTypeOK
  <2>2. DriverTypeOK'
    <3>1. next_inst \in 1 .. N
      BY <1>5, TraceAssumption
         DEF FetchMiss, ReadAvailable, next_inst, DriverTypeOK
    <3>2. insts[next_inst].icache \in Latency
      BY <3>1 DEF TraceTypeOK, Inst
    <3>3. LatencyCycles(insts[next_inst].icache) \in Nat
      BY <3>2, LatencyAssumption DEF LatencyCycles, Latency
    <3> QED  BY <1>5, <3>3 DEF FetchMiss, DriverTypeOK
  <2> QED
    BY <1>5, <2>1, <2>2 DEF FetchMiss, traceVars, cycleVars, renameVars,
      fuVars, TraceTypeOK, LoopTypeOK, RenameTypeOK, UnitTypeOK
<1>6. ASSUME NEW prediction \in BOOLEAN, FetchInst(prediction) PROVE TypeOK'
  <2>1. next_inst \in 1 .. N
    BY <1>6, TraceAssumption
       DEF FetchInst, ReadAvailable, next_inst, DriverTypeOK
  <2>2. QueueTypeOK'
    <3>1. next_inst \in 0 .. N  BY <2>1
    <3> QED  BY <1>2, <1>6, <3>1 DEF FetchInst, QueueTypeOK
  <2> DEFINE wrong == /\ Op(next_inst) = "BRANCH"
                      /\ prediction # insts[next_inst].br_taken
                      /\ MISSES_ENABLED
  <2>3. mispredict' = [mispredict EXCEPT ![next_inst] = wrong]
        /\ in_mispred' = wrong
    BY <1>6 DEF FetchInst
  <2>4. wrong \in BOOLEAN  OBVIOUS
  <2> HIDE DEF wrong
  <2>5. TraceTypeOK'  BY <1>6, <2>3, <2>4 DEF FetchInst, TraceTypeOK
  <2>6. DriverTypeOK'
    <3>1. finished_miss' \in BOOLEAN  BY <1>6 DEF FetchInst
    <3> QED  BY <1>6, <2>3, <2>4, <3>1 DEF FetchInst, DriverTypeOK
  <2> QED
    BY <1>6, <2>2, <2>5, <2>6 DEF FetchInst, cycleVars, renameVars, fuVars,
      LoopTypeOK, RenameTypeOK, UnitTypeOK
<1>7. CASE FetchDone
  <2>1. stage' \in Stage  BY <1>7 DEF FetchDone, Stage
  <2> QED
    BY <1>7, <2>1 DEF FetchDone, traceVars, driverVars, cycleVars, loopVars,
      renameVars, fuVars, TraceTypeOK, DriverTypeOK, LoopTypeOK, RenameTypeOK,
      QueueTypeOK, UnitTypeOK
<1> QED  BY <1>1, <1>4, <1>5, <1>6, <1>7 DEF Fetch

LEMMA EndCycleType == ASSUME TypeOK, EndCycle PROVE TypeOK'
<1> USE DEF TypeOK
<1>1. stage' \in Stage  BY DEF EndCycle, Stage
<1>2. Retired \in Nat  BY DEF Retired, DriverTypeOK, LoopTypeOK
<1>3. DriverTypeOK'
  <2>1. fetch_inst_idx' \in Nat /\ retired_inst_idx' \in Nat
    BY <1>2 DEF EndCycle, RedirectIdx, DriverTypeOK
  <2>2. in_mispred' \in BOOLEAN /\ in_icache_miss' \in BOOLEAN
        /\ finished_miss' \in BOOLEAN
    BY DEF EndCycle
  <2>3. icache_miss_ctr' \in Nat  BY DEF EndCycle, DriverTypeOK
  <2>4. cycles_since_last_retire' \in Nat  BY DEF EndCycle, DriverTypeOK
  <2> QED  BY <2>1, <2>2, <2>3, <2>4 DEF DriverTypeOK
<1>4. LoopTypeOK'  BY <1>1 DEF EndCycle, loopVars, LoopTypeOK
<1> QED
  BY <1>3, <1>4 DEF EndCycle, traceVars, renameVars, fuVars, TraceTypeOK,
    RenameTypeOK, QueueTypeOK, UnitTypeOK

LEMMA StutterType == ASSUME TypeOK, UNCHANGED vars PROVE TypeOK'
BY DEF vars, traceVars, driverVars, cycleVars, loopVars, renameVars, fuVars,
  TypeOK, TraceTypeOK, DriverTypeOK, LoopTypeOK, RenameTypeOK, QueueTypeOK,
  UnitTypeOK

LEMMA StepType == ASSUME TypeOK, [Next]_vars PROVE TypeOK'
BY RetireType, ExecType, ScheduleType, DispatchType, FetchType, EndCycleType,
   StutterType
   DEF Next, Terminated

(* Every variable of the processor keeps its type, and the dispatch queue, *)
(* the reservation stations and the ROB never outgrow the sizes the        *)
(* configuration gives them, whatever the trace and the sizes are.         *)
THEOREM TypeCorrect == Spec => []TypeOK
<1>1. Init => TypeOK  BY InitType
<1>2. TypeOK /\ [Next]_vars => TypeOK'  BY StepType
<1> QED  BY <1>1, <1>2, PTL DEF Spec

-----------------------------------------------------------------------------
(* Program order *)

(* What makes ProgramOrder inductive.  A redirect sets fetch_inst_idx back *)
(* to Retired: it loses nothing because the two are equal then, and they   *)
(* are because a mispredicted branch is always the last one fetched.       *)
FetchAhead == Dispatched <= fetch_inst_idx /\ fetch_inst_idx <= N
MispredictKnown ==
  fetch_inst_idx > Retired /\ mispredict[fetch_inst_idx] => in_mispred
RedirectSafe ==
  retired_mispredict =>
    stage = "end_cycle" /\ in_mispred /\ fetch_inst_idx = Retired

OrderInv == RobOrder /\ DispQOrder /\ NothingPastMispredict
              /\ FetchAhead /\ MispredictKnown /\ RedirectSafe

(* The variables OrderInv is about, the stage apart. *)
orderVars == <<retired_inst_idx, retire_count, rob, disp_q, fetch_inst_idx,
               mispredict, in_mispred, retired_mispredict>>

-----------------------------------------------------------------------------

(* The set of instructions in a dispatch queue, member by member. *)
LEMMA QueueMembers ==
  ASSUME NEW q, NEW a \in Nat, NEW b \in Nat
  PROVE  ({q[k] : k \in 1 .. Len(q)} \ {NOP} = a + 1 .. b)
           <=> /\ \A k \in 1 .. Len(q) : q[k] # NOP => q[k] \in a + 1 .. b
               /\ \A id \in a + 1 .. b : \E k \in 1 .. Len(q) : q[k] = id
<1> NOP \notin a + 1 .. b  BY DEF NOP
<1> QED  OBVIOUS

LEMMA QueueOfMembers ==
  ASSUME NEW q, NEW a \in Nat, NEW b \in Nat,
         \A k \in 1 .. Len(q) : q[k] # NOP => q[k] \in a + 1 .. b,
         \A id \in a + 1 .. b : \E k \in 1 .. Len(q) : q[k] = id
  PROVE  {q[k] : k \in 1 .. Len(q)} \ {NOP} = a + 1 .. b
<1> DEFINE S == {q[k] : k \in 1 .. Len(q)} \ {NOP}
<1>1. NOP \notin a + 1 .. b  BY DEF NOP
<1>2. \A x \in S : x \in a + 1 .. b  OBVIOUS
<1>3. \A x \in a + 1 .. b : x \in S  BY <1>1
<1> HIDE DEF S
<1>4. S = a + 1 .. b  BY <1>2, <1>3
<1> QED  BY <1>4 DEF S

LEMMA Counts ==
  ASSUME TypeOK
  PROVE  /\ Retired \in Nat /\ Dispatched \in Nat /\ fetch_inst_idx \in Nat
         /\ Len(rob) \in Nat /\ Len(disp_q) \in Nat
         /\ retired_inst_idx \in Nat /\ retire_count \in Nat /\ N \in Nat \ {0}
BY LenProperties, TraceAssumption DEF TypeOK, DriverTypeOK, LoopTypeOK,
   QueueTypeOK, Retired, Dispatched

LEMMA OrderInit == Init => OrderInv
<1> SUFFICES ASSUME Init PROVE OrderInv  OBVIOUS
<1>1. TypeOK  BY InitType
<1>2. Len(rob) = 0 /\ Len(disp_q) = 0 /\ Retired = 0 /\ Dispatched = 0
      /\ fetch_inst_idx = 0
  BY EmptySeq DEF Init, Retired, Dispatched
<1>3. DispQOrder  BY <1>2, QueueMembers DEF DispQOrder
<1>4. RobOrder /\ NothingPastMispredict  BY <1>2 DEF RobOrder, NothingPastMispredict
<1>5. FetchAhead  BY <1>2, TraceAssumption DEF FetchAhead
<1>6. MispredictKnown /\ RedirectSafe
  BY <1>2 DEF MispredictKnown, RedirectSafe, Init
<1> QED  BY <1>3, <1>4, <1>5, <1>6 DEF OrderInv

(* A step that leaves those variables alone keeps OrderInv, because a      *)
(* retired misprediction goes straight to the end of the cycle.            *)
LEMMA OrderFrame ==
  ASSUME OrderInv, UNCHANGED orderVars,
         stage # "end_cycle" \/ UNCHANGED stage
  PROVE  OrderInv'
<1>1. RobOrder'  BY DEF OrderInv, RobOrder, orderVars, Retired
<1>2. DispQOrder'
  BY DEF OrderInv, DispQOrder, orderVars, Dispatched, Retired
<1>3. NothingPastMispredict'
  BY DEF OrderInv, NothingPastMispredict, orderVars, Retired
<1>4. FetchAhead'  BY DEF OrderInv, FetchAhead, orderVars, Dispatched, Retired
<1>5. MispredictKnown'  BY DEF OrderInv, MispredictKnown, orderVars, Retired
<1>6. RedirectSafe'  BY DEF OrderInv, RedirectSafe, orderVars, Retired
<1> QED  BY <1>1, <1>2, <1>3, <1>4, <1>5, <1>6 DEF OrderInv

LEMMA RetireEntryOrder == ASSUME TypeOK, OrderInv, RetireEntry PROVE OrderInv'
<1>1. /\ Retired \in Nat /\ Dispatched \in Nat /\ fetch_inst_idx \in Nat
      /\ Len(rob) \in Nat /\ Len(disp_q) \in Nat
      /\ retired_inst_idx \in Nat /\ retire_count \in Nat /\ N \in Nat \ {0}
  BY Counts
<1> USE <1>1
<1>2. /\ rob # <<>> /\ rob' = Tail(rob) /\ retire_count' = retire_count + 1
      /\ retired_mispredict' = MispredictAtHead
      /\ stage' = IF MispredictAtHead THEN "end_cycle" ELSE "retire"
      /\ UNCHANGED <<disp_q, fetch_inst_idx, retired_inst_idx, mispredict,
                     in_mispred>>
  BY DEF RetireEntry, CanRetire, driverVars, traceVars
<1>3. /\ Len(rob) >= 1 /\ Len(rob') = Len(rob) - 1
      /\ \A k \in 1 .. Len(rob') : rob'[k] = rob[k + 1]
      /\ Head(rob) = rob[1]
  <2>1. rob \in Seq(RobEntry)  BY DEF TypeOK, QueueTypeOK
  <2> QED  BY <1>2, <2>1, HeadTailProperties, EmptySeq, LenProperties
<1>4. Retired' = Retired + 1 /\ Dispatched' = Dispatched
  BY <1>2, <1>3 DEF Retired, Dispatched
<1>5. Head(rob).inst = Retired + 1 /\ Retired + 1 <= fetch_inst_idx
  BY <1>3 DEF OrderInv, RobOrder, FetchAhead, Dispatched
<1>6. RobOrder'  BY <1>3, <1>4 DEF OrderInv, RobOrder
<1>7. DispQOrder'  BY <1>2, <1>4 DEF OrderInv, DispQOrder
<1>8. NothingPastMispredict'
  BY <1>2, <1>4 DEF OrderInv, NothingPastMispredict
<1>9. FetchAhead'  BY <1>2, <1>4 DEF OrderInv, FetchAhead
<1>10. MispredictKnown'  BY <1>2, <1>4 DEF OrderInv, MispredictKnown
<1>11. RedirectSafe'
  <2> SUFFICES ASSUME MispredictAtHead
               PROVE  stage' = "end_cycle" /\ in_mispred'
                      /\ fetch_inst_idx' = Retired'
    BY <1>2 DEF RedirectSafe
  <2>1. mispredict[Retired + 1]  BY <1>5 DEF MispredictAtHead
  <2>2. ~(Retired + 1 <= fetch_inst_idx - 1)
    BY <2>1 DEF OrderInv, NothingPastMispredict
  <2>3. fetch_inst_idx = Retired + 1  BY <1>5, <2>2
  <2>4. in_mispred  BY <2>1, <2>3 DEF OrderInv, MispredictKnown
  <2> QED  BY <1>2, <1>4, <2>3, <2>4
<1> QED  BY <1>6, <1>7, <1>8, <1>9, <1>10, <1>11 DEF OrderInv

(* The result bus marks entries of the ROB and moves none. *)
LEMMA RobUpdateInsts ==
  ASSUME TypeOK, NEW c \in FuEntry
  PROVE  /\ Len(RobUpdate(c)) = Len(rob)
         /\ \A k \in 1 .. Len(rob) :
              /\ RobUpdate(c)[k].inst = rob[k].inst
              /\ RobUpdate(c)[k].finished <=>
                   \/ rob[k].finished
                   \/ Holds(rob, c.inst) /\ k = FirstOf(rob, c.inst)
<1>1. rob \in Seq(RobEntry) /\ Len(rob) \in Nat
  BY LenProperties DEF TypeOK, QueueTypeOK
<1>2. \A k \in 1 .. Len(rob) : rob[k] \in RobEntry  BY <1>1, ElementOfSeq
<1>3. Len(RobUpdate(c)) = Len(rob)  BY RobUpdateType
<1>4. CASE ~Holds(rob, c.inst)  BY <1>3, <1>4 DEF RobUpdate
<1>5. CASE Holds(rob, c.inst)
  <2> DEFINE p == FirstOf(rob, c.inst)
  <2>1. p \in 1 .. Len(rob)  BY <1>1, <1>5, FirstOfProperties
  <2>2. RobUpdate(c) = [rob EXCEPT ![p].finished = TRUE]
    BY <1>5 DEF RobUpdate
  <2> HIDE DEF p
  <2>3. ASSUME NEW k \in 1 .. Len(rob)
        PROVE  /\ RobUpdate(c)[k].inst = rob[k].inst
               /\ RobUpdate(c)[k].finished <=> (rob[k].finished \/ k = p)
    <3>1. CASE k = p
      <4>1. rob[p] \in RobEntry  BY <1>2, <2>1
      <4>2. RobUpdate(c)[p] = [rob[p] EXCEPT !.finished = TRUE]
        <5>1. RobUpdate(c)
                = [rob EXCEPT ![p] = [rob[p] EXCEPT !.finished = TRUE]]
          BY <2>2
        <5>2. rob \in [1 .. Len(rob) -> RobEntry]  BY <1>1, LenProperties
        <5> QED  BY <2>1, <5>1, <5>2
      <4> QED  BY <3>1, <4>1, <4>2 DEF RobEntry
    <3>2. CASE k # p
      <4>1. RobUpdate(c)[k] = rob[k]  BY <1>1, <2>2, <3>2
      <4> QED  BY <3>2, <4>1
    <3> QED  BY <3>1, <3>2
  <2> QED  BY <1>3, <1>5, <2>3 DEF p
<1> QED  BY <1>4, <1>5

LEMMA ResultBusOrder == ASSUME TypeOK, OrderInv, ResultBus PROVE OrderInv'
<1> DEFINE c == Head(complete_vec)
<1>1. c \in FuEntry
  BY HeadTailProperties DEF ResultBus, TypeOK, QueueTypeOK
<1>2. /\ rob' = RobUpdate(c)
      /\ stage = "result_bus" /\ stage' = stage
      /\ UNCHANGED <<retired_inst_idx, retire_count, disp_q, fetch_inst_idx,
                     mispredict, in_mispred, retired_mispredict>>
  BY DEF ResultBus, traceVars, driverVars, cycleVars
<1> HIDE DEF c
<1>3. Len(rob') = Len(rob)
      /\ \A k \in 1 .. Len(rob) : rob'[k].inst = rob[k].inst
  BY <1>1, <1>2, RobUpdateInsts
<1>4. Retired' = Retired /\ Dispatched' = Dispatched
  BY <1>2, <1>3 DEF Retired, Dispatched
<1>5. RobOrder'  BY <1>3, <1>4 DEF OrderInv, RobOrder
<1>6. DispQOrder' /\ NothingPastMispredict' /\ FetchAhead' /\ MispredictKnown'
      /\ RedirectSafe'
  BY <1>2, <1>4 DEF OrderInv, DispQOrder, NothingPastMispredict, FetchAhead,
    MispredictKnown, RedirectSafe
<1> QED  BY <1>5, <1>6 DEF OrderInv

(* The instruction at the head of the dispatch queue is the next in        *)
(* program order.                                                          *)
LEMMA DispatchHead ==
  ASSUME TypeOK, OrderInv, disp_q # <<>>, Head(disp_q) # NOP
  PROVE  Head(disp_q) = Dispatched + 1 /\ Dispatched + 1 <= fetch_inst_idx
<1>1. /\ Retired \in Nat /\ Dispatched \in Nat /\ fetch_inst_idx \in Nat
      /\ Len(rob) \in Nat /\ Len(disp_q) \in Nat
      /\ retired_inst_idx \in Nat /\ retire_count \in Nat /\ N \in Nat \ {0}
  BY Counts
<1> USE <1>1
<1>2. disp_q \in Seq(0 .. N) /\ Head(disp_q) = disp_q[1] /\ Len(disp_q) >= 1
  BY HeadTailProperties, EmptySeq, LenProperties DEF TypeOK, QueueTypeOK
<1>3. disp_q[1] \in Dispatched + 1 .. fetch_inst_idx
  BY <1>2, QueueMembers DEF OrderInv, DispQOrder
<1>4. PICK k \in 1 .. Len(disp_q) : disp_q[k] = Dispatched + 1
  <2>1. Dispatched + 1 \in Dispatched + 1 .. fetch_inst_idx  BY <1>3
  <2>2. \A id \in Dispatched + 1 .. fetch_inst_idx :
          \E k \in 1 .. Len(disp_q) : disp_q[k] = id
    BY QueueMembers DEF OrderInv, DispQOrder
  <2> QED  BY <2>1, <2>2
<1>5. k > 1 => disp_q[1] < disp_q[k]
  BY <1>2, <1>3, <1>4 DEF OrderInv, DispQOrder, NOP
<1> QED  BY <1>2, <1>3, <1>4, <1>5

(* What is left of the dispatch queue once its head is gone. *)
LEMMA DispatchTail ==
  ASSUME TypeOK, OrderInv, disp_q # <<>>, disp_q' = Tail(disp_q),
         fetch_inst_idx' = fetch_inst_idx,
         Dispatched' = IF Head(disp_q) = NOP THEN Dispatched ELSE Dispatched + 1
  PROVE  DispQOrder'
<1>1. /\ Retired \in Nat /\ Dispatched \in Nat /\ fetch_inst_idx \in Nat
      /\ Len(rob) \in Nat /\ Len(disp_q) \in Nat
      /\ retired_inst_idx \in Nat /\ retire_count \in Nat /\ N \in Nat \ {0}
  BY Counts
<1> USE <1>1
<1>2. /\ Head(disp_q) = disp_q[1] /\ Len(disp_q) >= 1
      /\ Len(disp_q') = Len(disp_q) - 1
      /\ \A k \in 1 .. Len(disp_q') : disp_q'[k] = disp_q[k + 1]
  BY HeadTailProperties, EmptySeq, LenProperties DEF TypeOK, QueueTypeOK
<1>3. \A k \in 1 .. Len(disp_q) : disp_q[k] # NOP =>
        disp_q[k] \in Dispatched + 1 .. fetch_inst_idx
  BY QueueMembers DEF OrderInv, DispQOrder
<1>4. \A id \in Dispatched + 1 .. fetch_inst_idx :
        \E k \in 1 .. Len(disp_q) : disp_q[k] = id
  BY QueueMembers DEF OrderInv, DispQOrder
<1>5. \A j, k \in 1 .. Len(disp_q) :
        j < k /\ disp_q[j] # NOP /\ disp_q[k] # NOP => disp_q[j] < disp_q[k]
  BY DEF OrderInv, DispQOrder
<1>6. disp_q[1] # NOP => disp_q[1] = Dispatched + 1  BY <1>2, DispatchHead
<1>7. Dispatched' \in Nat /\ fetch_inst_idx' \in Nat  OBVIOUS
<1>8. \A k \in 1 .. Len(disp_q') : disp_q'[k] # NOP =>
        disp_q'[k] \in Dispatched' + 1 .. fetch_inst_idx'
  <2> SUFFICES ASSUME NEW k \in 1 .. Len(disp_q'), disp_q'[k] # NOP
               PROVE  disp_q'[k] \in Dispatched' + 1 .. fetch_inst_idx'
    OBVIOUS
  <2>1. k + 1 \in 1 .. Len(disp_q) /\ disp_q'[k] = disp_q[k + 1]  BY <1>2
  <2>2. disp_q[k + 1] \in Dispatched + 1 .. fetch_inst_idx  BY <1>3, <2>1
  <2>3. disp_q[1] # NOP => disp_q[1] < disp_q[k + 1]
    BY <1>2, <1>5, <2>1
  <2> QED  BY <1>2, <1>6, <2>1, <2>2, <2>3
<1>9. \A id \in Dispatched' + 1 .. fetch_inst_idx' :
        \E k \in 1 .. Len(disp_q') : disp_q'[k] = id
  <2> SUFFICES ASSUME NEW id \in Dispatched' + 1 .. fetch_inst_idx'
               PROVE  \E k \in 1 .. Len(disp_q') : disp_q'[k] = id
    OBVIOUS
  <2>1. PICK k \in 1 .. Len(disp_q) : disp_q[k] = id  BY <1>4
  <2>2. k # 1  BY <1>2, <1>6, <2>1 DEF NOP
  <2>3. k - 1 \in 1 .. Len(disp_q') /\ disp_q'[k - 1] = disp_q[k]
    BY <1>2, <2>2
  <2> QED  BY <2>1, <2>3
<1>10. \A j, k \in 1 .. Len(disp_q') :
        j < k /\ disp_q'[j] # NOP /\ disp_q'[k] # NOP => disp_q'[j] < disp_q'[k]
  BY <1>2, <1>5
<1>11. {disp_q'[k] : k \in 1 .. Len(disp_q')} \ {NOP}
         = Dispatched' + 1 .. fetch_inst_idx'
  <2> DEFINE q == disp_q'  a == Dispatched'  b == fetch_inst_idx'
  <2>1. a \in Nat /\ b \in Nat  BY <1>7
  <2>2. \A k \in 1 .. Len(q) : q[k] # NOP => q[k] \in a + 1 .. b  BY <1>8
  <2>3. \A id \in a + 1 .. b : \E k \in 1 .. Len(q) : q[k] = id  BY <1>9
  <2> HIDE DEF q, a, b
  <2>4. {q[k] : k \in 1 .. Len(q)} \ {NOP} = a + 1 .. b
    BY <2>1, <2>2, <2>3, QueueOfMembers
  <2> QED  BY <2>4 DEF q, a, b
<1> QED  BY <1>10, <1>11 DEF DispQOrder

LEMMA DispatchInstOrder == ASSUME TypeOK, OrderInv, DispatchInst PROVE OrderInv'
<1>1. /\ Retired \in Nat /\ Dispatched \in Nat /\ fetch_inst_idx \in Nat
      /\ Len(rob) \in Nat /\ Len(disp_q) \in Nat
      /\ retired_inst_idx \in Nat /\ retire_count \in Nat /\ N \in Nat \ {0}
  BY Counts
<1> USE <1>1
<1>2. /\ disp_q # <<>> /\ Head(disp_q) # NOP /\ disp_q' = Tail(disp_q)
      /\ rob' = Append(rob, [inst |-> Head(disp_q), finished |-> FALSE])
      /\ UNCHANGED <<retired_inst_idx, retire_count, fetch_inst_idx,
                     mispredict, in_mispred, retired_mispredict, stage>>
  BY DEF DispatchInst, CanDispatch, traceVars, driverVars, cycleVars
<1>3. Head(disp_q) = Dispatched + 1 /\ Dispatched + 1 <= fetch_inst_idx
  BY <1>2, DispatchHead
<1>4. /\ Len(rob') = Len(rob) + 1
      /\ \A k \in 1 .. Len(rob) : rob'[k] = rob[k]
      /\ rob'[Len(rob) + 1].inst = Head(disp_q)
  <2>1. rob \in Seq(RobEntry)  BY DEF TypeOK, QueueTypeOK
  <2>2. [inst |-> Head(disp_q), finished |-> FALSE] \in RobEntry
    BY <1>3 DEF RobEntry, OrderInv, FetchAhead
  <2> QED  BY <1>2, <2>1, <2>2, AppendProperties
<1>5. Retired' = Retired /\ Dispatched' = Dispatched + 1
  BY <1>2, <1>4 DEF Retired, Dispatched
<1>6. RobOrder'
  <2>1. \A k \in 1 .. Len(rob) : rob'[k].inst = Retired + k
    BY <1>4 DEF OrderInv, RobOrder
  <2>2. rob'[Len(rob) + 1].inst = Retired + (Len(rob) + 1)
    BY <1>3, <1>4 DEF Dispatched
  <2>3. \A k \in 1 .. Len(rob') : k \in 1 .. Len(rob) \/ k = Len(rob) + 1
    BY <1>4
  <2> QED  BY <1>5, <2>1, <2>2, <2>3 DEF RobOrder
<1>7. DispQOrder'  BY <1>2, <1>5, DispatchTail
<1>8. NothingPastMispredict' /\ MispredictKnown' /\ RedirectSafe'
  BY <1>2, <1>5 DEF OrderInv, NothingPastMispredict, MispredictKnown,
    RedirectSafe
<1>9. FetchAhead'  BY <1>2, <1>3, <1>5 DEF OrderInv, FetchAhead
<1> QED  BY <1>6, <1>7, <1>8, <1>9 DEF OrderInv

LEMMA DispatchNopOrder == ASSUME TypeOK, OrderInv, DispatchNop PROVE OrderInv'
<1>1. /\ disp_q # <<>> /\ Head(disp_q) = NOP /\ disp_q' = Tail(disp_q)
      /\ UNCHANGED <<rob, retired_inst_idx, retire_count, fetch_inst_idx,
                     mispredict, in_mispred, retired_mispredict, stage>>
  BY DEF DispatchNop, CanDispatch, traceVars, driverVars, cycleVars
<1>2. Retired' = Retired /\ Dispatched' = Dispatched
  BY <1>1 DEF Retired, Dispatched
<1>3. DispQOrder'  BY <1>1, <1>2, DispatchTail
<1>4. RobOrder' /\ NothingPastMispredict' /\ MispredictKnown' /\ RedirectSafe'
      /\ FetchAhead'
  BY <1>1, <1>2 DEF OrderInv, RobOrder, NothingPastMispredict,
    MispredictKnown, RedirectSafe, FetchAhead
<1> QED  BY <1>3, <1>4 DEF OrderInv

(* The dispatch queue with one more entry. *)
LEMMA AppendOrder ==
  ASSUME TypeOK, OrderInv, NEW id \in 0 .. N, disp_q' = Append(disp_q, id),
         Dispatched' = Dispatched,
         \/ id = NOP /\ fetch_inst_idx' = fetch_inst_idx
         \/ id = fetch_inst_idx + 1 /\ fetch_inst_idx' = id
  PROVE  DispQOrder'
<1>1. /\ Dispatched \in Nat /\ fetch_inst_idx \in Nat /\ Len(disp_q) \in Nat
      /\ Dispatched <= fetch_inst_idx
  BY Counts DEF OrderInv, FetchAhead
<1> USE <1>1
<1>2. /\ Len(disp_q') = Len(disp_q) + 1
      /\ \A k \in 1 .. Len(disp_q) : disp_q'[k] = disp_q[k]
      /\ disp_q'[Len(disp_q) + 1] = id
  BY AppendProperties DEF TypeOK, QueueTypeOK
<1>3. \A k \in 1 .. Len(disp_q') :
        k \in 1 .. Len(disp_q) \/ k = Len(disp_q) + 1
  BY <1>2
<1>4. \A k \in 1 .. Len(disp_q) : disp_q[k] # NOP =>
        disp_q[k] \in Dispatched + 1 .. fetch_inst_idx
  BY QueueMembers DEF OrderInv, DispQOrder
<1>5. \A x \in Dispatched + 1 .. fetch_inst_idx :
        \E k \in 1 .. Len(disp_q) : disp_q[k] = x
  BY QueueMembers DEF OrderInv, DispQOrder
<1> DEFINE q == disp_q'  a == Dispatched'  b == fetch_inst_idx'
<1>6. a \in Nat /\ b \in Nat  OBVIOUS
<1>7. \A k \in 1 .. Len(q) : q[k] # NOP => q[k] \in a + 1 .. b
  BY <1>2, <1>3, <1>4 DEF NOP
<1>8. \A x \in a + 1 .. b : \E k \in 1 .. Len(q) : q[k] = x
  <2> SUFFICES ASSUME NEW x \in a + 1 .. b
               PROVE  \E k \in 1 .. Len(q) : q[k] = x
    OBVIOUS
  <2>1. CASE x \in Dispatched + 1 .. fetch_inst_idx
    <3>1. PICK k \in 1 .. Len(disp_q) : disp_q[k] = x  BY <1>5, <2>1
    <3> QED  BY <1>2, <3>1
  <2>2. CASE x = id
    <3>1. Len(disp_q) + 1 \in 1 .. Len(q)  BY <1>2
    <3> QED  BY <1>2, <2>2, <3>1
  <2> QED  BY <2>1, <2>2
<1>9. \A j, k \in 1 .. Len(q) :
        j < k /\ q[j] # NOP /\ q[k] # NOP => q[j] < q[k]
  <2> SUFFICES ASSUME NEW j \in 1 .. Len(q), NEW k \in 1 .. Len(q),
                      j < k, q[j] # NOP, q[k] # NOP
               PROVE  q[j] < q[k]
    OBVIOUS
  <2>1. j \in 1 .. Len(disp_q) /\ q[j] = disp_q[j]  BY <1>2, <1>3
  <2>2. q[j] \in Dispatched + 1 .. fetch_inst_idx  BY <1>4, <2>1
  <2>3. CASE k \in 1 .. Len(disp_q)
    <3>1. q[k] = disp_q[k]  BY <1>2, <2>3
    <3> QED  BY <2>1, <2>3, <3>1 DEF OrderInv, DispQOrder
  <2>4. CASE k = Len(disp_q) + 1
    <3>1. q[k] = id  BY <1>2, <2>4
    <3> QED  BY <2>2, <3>1
  <2> QED  BY <1>3, <2>3, <2>4
<1> HIDE DEF q, a, b
<1>10. {q[k] : k \in 1 .. Len(q)} \ {NOP} = a + 1 .. b
  BY <1>6, <1>7, <1>8, QueueOfMembers
<1> QED  BY <1>9, <1>10 DEF DispQOrder, q, a, b

LEMMA FetchNopOrder ==
  ASSUME TypeOK, OrderInv, FetchNop \/ FetchMiss PROVE OrderInv'
<1>1. /\ disp_q' = Append(disp_q, NOP)
      /\ UNCHANGED <<rob, retired_inst_idx, retire_count, fetch_inst_idx,
                     mispredict, in_mispred, retired_mispredict, stage>>
  BY DEF FetchNop, FetchMiss, traceVars, driverVars, cycleVars
<1>2. Retired' = Retired /\ Dispatched' = Dispatched
  BY <1>1 DEF Retired, Dispatched
<1>3. DispQOrder'
  <2>1. NOP \in 0 .. N  BY Counts DEF NOP
  <2> QED  BY <1>1, <1>2, <2>1, AppendOrder
<1>4. RobOrder' /\ NothingPastMispredict' /\ MispredictKnown' /\ RedirectSafe'
      /\ FetchAhead'
  BY <1>1, <1>2 DEF OrderInv, RobOrder, NothingPastMispredict,
    MispredictKnown, RedirectSafe, FetchAhead
<1> QED  BY <1>3, <1>4 DEF OrderInv

LEMMA FetchInstOrder ==
  ASSUME TypeOK, OrderInv, NEW prediction \in BOOLEAN, FetchInst(prediction)
  PROVE  OrderInv'
<1>1. /\ Retired \in Nat /\ Dispatched \in Nat /\ fetch_inst_idx \in Nat
      /\ Dispatched <= fetch_inst_idx /\ N \in Nat \ {0}
  BY Counts DEF OrderInv, FetchAhead
<1> USE <1>1
<1>2. /\ disp_q' = Append(disp_q, next_inst)
      /\ fetch_inst_idx' = fetch_inst_idx + 1 /\ fetch_inst_idx < N
      /\ ~in_mispred
      /\ UNCHANGED <<rob, retired_inst_idx, retire_count, retired_mispredict,
                     stage>>
  BY DEF FetchInst, ReadAvailable, cycleVars
<1>3. /\ mispredict' = [mispredict EXCEPT ![next_inst] = in_mispred']
      /\ mispredict \in [1 .. N -> BOOLEAN]
  BY DEF FetchInst, TypeOK, TraceTypeOK
<1>4. next_inst = fetch_inst_idx + 1 /\ next_inst \in 1 .. N
  BY <1>2 DEF next_inst
<1>5. Retired' = Retired /\ Dispatched' = Dispatched
  BY <1>2 DEF Retired, Dispatched
<1>6. RobOrder'  BY <1>2, <1>5 DEF OrderInv, RobOrder
<1>7. DispQOrder'
  <2>1. next_inst \in 0 .. N  BY <1>4
  <2> QED  BY <1>2, <1>4, <1>5, <2>1, AppendOrder
<1>8. NothingPastMispredict'
  <2> SUFFICES ASSUME NEW id \in Retired + 1 .. fetch_inst_idx
               PROVE  ~mispredict'[id]
    BY <1>2, <1>5 DEF NothingPastMispredict
  <2>1. id \in 1 .. N /\ id # next_inst  BY <1>2, <1>4
  <2>2. mispredict'[id] = mispredict[id]  BY <1>3, <2>1
  <2>3. CASE id = fetch_inst_idx
    BY <1>2, <2>2, <2>3 DEF OrderInv, MispredictKnown
  <2>4. CASE id # fetch_inst_idx
    <3>1. id \in Retired + 1 .. fetch_inst_idx - 1  BY <2>4
    <3> QED  BY <2>2, <3>1 DEF OrderInv, NothingPastMispredict
  <2> QED  BY <2>3, <2>4
<1>9. FetchAhead'  BY <1>2, <1>5 DEF FetchAhead
<1>10. MispredictKnown'
  <2>1. mispredict'[next_inst] = in_mispred'  BY <1>3, <1>4
  <2>2. fetch_inst_idx' = next_inst  BY <1>2, <1>4
  <2> QED  BY <2>1, <2>2 DEF MispredictKnown
<1>11. RedirectSafe'  BY <1>2 DEF OrderInv, RedirectSafe
<1> QED  BY <1>6, <1>7, <1>8, <1>9, <1>10, <1>11 DEF OrderInv

LEMMA EndCycleOrder == ASSUME TypeOK, OrderInv, EndCycle PROVE OrderInv'
<1>1. /\ Retired \in Nat /\ fetch_inst_idx \in Nat /\ Len(rob) \in Nat
      /\ retired_inst_idx \in Nat /\ retire_count \in Nat
  BY Counts
<1> USE <1>1
<1>2. /\ retired_inst_idx' = Retired /\ retire_count' = 0
      /\ retired_mispredict' = FALSE
      /\ fetch_inst_idx' =
           IF retired_mispredict THEN Retired ELSE fetch_inst_idx
      /\ in_mispred' = (in_mispred /\ ~retired_mispredict)
      /\ UNCHANGED <<rob, disp_q, mispredict>>
  BY DEF EndCycle, RedirectIdx, traceVars
<1>3. Retired' = Retired /\ Dispatched' = Dispatched
  BY <1>2 DEF Retired, Dispatched
<1>4. fetch_inst_idx' = fetch_inst_idx
      /\ (retired_mispredict => fetch_inst_idx = Retired)
  BY <1>2 DEF OrderInv, RedirectSafe
<1>5. RobOrder' /\ DispQOrder' /\ NothingPastMispredict' /\ FetchAhead'
  BY <1>2, <1>3, <1>4 DEF OrderInv, RobOrder, DispQOrder,
    NothingPastMispredict, FetchAhead
<1>6. MispredictKnown'
  <2> SUFFICES ASSUME fetch_inst_idx > Retired, mispredict[fetch_inst_idx]
               PROVE  in_mispred'
    BY <1>2, <1>3, <1>4 DEF MispredictKnown
  <2>1. in_mispred  BY DEF OrderInv, MispredictKnown
  <2>2. ~retired_mispredict  BY <1>4
  <2> QED  BY <1>2, <2>1, <2>2
<1>7. RedirectSafe'  BY <1>2 DEF RedirectSafe
<1> QED  BY <1>5, <1>6, <1>7 DEF OrderInv

(* The other steps touch none of these variables. *)
LEMMA OtherStepsOrder ==
  ASSUME OrderInv,
         \/ RetireDone \/ AluCheck \/ MulCheck \/ LsuCheck \/ ExecDone
         \/ ResultBusDone \/ Schedule \/ DispatchDone \/ FetchNothing
         \/ FetchDone
  PROVE  OrderInv'
<1>1. UNCHANGED orderVars /\ stage # "end_cycle"
  BY DEF RetireDone, AluCheck, MulCheck, LsuCheck, ExecDone, ResultBusDone,
    Schedule, ScheduleFire, ScheduleSkip, ScheduleDone, DispatchDone,
    FetchNothing, FetchDone, traceVars, driverVars, cycleVars, orderVars
<1> QED  BY <1>1, OrderFrame

LEMMA OrderStep == ASSUME TypeOK, OrderInv, [Next]_vars PROVE OrderInv'
<1>1. CASE UNCHANGED vars
  <2>1. UNCHANGED orderVars /\ UNCHANGED stage
    BY <1>1 DEF vars, traceVars, driverVars, cycleVars, orderVars
  <2> QED  BY <2>1, OrderFrame
<1>2. CASE Retire
  BY <1>2, RetireEntryOrder, OtherStepsOrder DEF Retire
<1>3. CASE Exec
  BY <1>3, ResultBusOrder, OtherStepsOrder DEF Exec
<1>4. CASE Schedule  BY <1>4, OtherStepsOrder
<1>5. CASE Dispatch
  BY <1>5, DispatchInstOrder, DispatchNopOrder, OtherStepsOrder DEF Dispatch
<1>6. CASE Fetch
  BY <1>6, FetchNopOrder, FetchInstOrder, OtherStepsOrder DEF Fetch
<1>7. CASE EndCycle  BY <1>7, EndCycleOrder
<1> QED
  BY <1>1, <1>2, <1>3, <1>4, <1>5, <1>6, <1>7 DEF Next, Terminated

(* The ROB, the dispatch queue and the driver's index split the trace into *)
(* what has retired, what is in flight and what is to come, in program     *)
(* order and with nothing behind a mispredicted branch.                    *)
THEOREM OrderInvariant == Spec => []OrderInv
<1>1. Init => OrderInv  BY OrderInit
<1>2. TypeOK /\ TypeOK' /\ OrderInv /\ [Next]_vars => OrderInv'
  BY OrderStep
<1> QED  BY <1>1, <1>2, TypeCorrect, PTL DEF Spec

(* No instruction is lost, duplicated or overtaken between the trace and   *)
(* its retirement, whatever is stalled, mispredicted or missing.           *)
THEOREM ProgramOrderHolds == Spec => []ProgramOrder
<1>1. OrderInv => ProgramOrder  BY DEF OrderInv, ProgramOrder
<1> QED  BY <1>1, OrderInvariant, PTL

(* Of the instructions in flight only the youngest can be mispredicted.    *)
THEOREM NothingPastMispredictHolds == Spec => []NothingPastMispredict
<1>1. OrderInv => NothingPastMispredict  BY DEF OrderInv
<1> QED  BY <1>1, OrderInvariant, PTL

-----------------------------------------------------------------------------
(* Reservation stations: which instructions have completed, and that the   *)
(* stations hold the dispatched ones that have not.                        *)

(* The stations in terms of Completed: retirement, which takes a finished  *)
(* instruction out of the ROB, changes nothing here.                       *)
StationOrder ==
  /\ \A j, k \in 1 .. Len(sche_q) : j < k => sche_q[j].inst < sche_q[k].inst
  /\ \A k \in 1 .. Len(sche_q) :
       sche_q[k].inst \in 1 .. Dispatched /\ ~Completed(sche_q[k].inst)
  /\ \A w \in 1 .. Dispatched : ~Completed(w) => Holds(sche_q, w)

-----------------------------------------------------------------------------
(* Completed, step by step *)

LEMMA CompletedBound ==
  ASSUME TypeOK, OrderInv
  PROVE  \A w \in Nat : Completed(w) => w <= Dispatched
BY Counts DEF Completed, OrderInv, RobOrder, Dispatched

(* What has not completed although it was dispatched is in the ROB. *)
LEMMA InRob ==
  ASSUME TypeOK, OrderInv, NEW w \in 1 .. Dispatched, ~Completed(w)
  PROVE  Holds(rob, w)
<1>1. Retired \in Nat /\ Len(rob) \in Nat /\ Dispatched = Retired + Len(rob)
  BY Counts DEF Dispatched
<1>2. w - Retired \in 1 .. Len(rob) /\ Retired + (w - Retired) = w
  BY <1>1 DEF Completed
<1>3. rob[w - Retired].inst = w  BY <1>2 DEF OrderInv, RobOrder
<1> QED  BY <1>2, <1>3 DEF Holds

LEMMA CompletedFrame ==
  ASSUME UNCHANGED <<rob, retired_inst_idx, retire_count>>
  PROVE  Dispatched' = Dispatched /\ \A w : Completed(w)' <=> Completed(w)
BY DEF Completed, Dispatched, Retired

LEMMA CompletedRetire ==
  ASSUME TypeOK, OrderInv, RetireEntry
  PROVE  /\ Dispatched' = Dispatched
         /\ \A w \in Nat : Completed(w)' <=> Completed(w)
<1>1. /\ Retired \in Nat /\ Len(rob) \in Nat
      /\ retired_inst_idx \in Nat /\ retire_count \in Nat
  BY Counts
<1>2. /\ rob # <<>> /\ rob' = Tail(rob) /\ retire_count' = retire_count + 1
      /\ retired_inst_idx' = retired_inst_idx /\ Head(rob).finished
  BY DEF RetireEntry, CanRetire, driverVars
<1>3. /\ Len(rob) >= 1 /\ Len(rob') = Len(rob) - 1
      /\ \A k \in 1 .. Len(rob') : rob'[k] = rob[k + 1]
      /\ Head(rob) = rob[1]
  <2>1. rob \in Seq(RobEntry)  BY DEF TypeOK, QueueTypeOK
  <2> QED  BY <1>2, <2>1, HeadTailProperties, EmptySeq, LenProperties
<1>4. Retired' = Retired + 1 /\ Dispatched' = Dispatched
  BY <1>1, <1>2, <1>3 DEF Retired, Dispatched
<1>5. rob[1].inst = Retired + 1 /\ rob[1].finished
  BY <1>1, <1>2, <1>3 DEF OrderInv, RobOrder
<1>6. ASSUME NEW w \in Nat, Completed(w) PROVE Completed(w)'
  <2>1. CASE w <= Retired  BY <1>1, <1>4, <2>1 DEF Completed
  <2>2. CASE w > Retired
    <3>1. PICK k \in 1 .. Len(rob) : rob[k].inst = w /\ rob[k].finished
      BY <1>1, <1>6, <2>2 DEF Completed
    <3>2. CASE k = 1  BY <1>1, <1>4, <1>5, <3>1, <3>2 DEF Completed
    <3>3. CASE k # 1
      <4>1. k - 1 \in 1 .. Len(rob') /\ rob'[k - 1] = rob[k]
        BY <1>1, <1>3, <3>3
      <4> QED  BY <3>1, <4>1 DEF Completed
    <3> QED  BY <3>2, <3>3
  <2> QED  BY <1>1, <2>1, <2>2
<1>7. ASSUME NEW w \in Nat, Completed(w)' PROVE Completed(w)
  <2>1. CASE w <= Retired + 1
    <3>1. 1 \in 1 .. Len(rob)  BY <1>1, <1>3
    <3>2. w <= Retired \/ w = rob[1].inst  BY <1>1, <1>5, <2>1
    <3> QED  BY <1>5, <3>1, <3>2 DEF Completed
  <2>2. CASE w > Retired + 1
    <3>1. PICK k \in 1 .. Len(rob') : rob'[k].inst = w /\ rob'[k].finished
      BY <1>1, <1>4, <1>7, <2>2 DEF Completed
    <3>2. k + 1 \in 1 .. Len(rob) /\ rob'[k] = rob[k + 1]  BY <1>1, <1>3
    <3> QED  BY <3>1, <3>2 DEF Completed
  <2> QED  BY <1>1, <2>1, <2>2
<1> QED  BY <1>4, <1>6, <1>7

LEMMA CompletedDispatch ==
  ASSUME TypeOK, OrderInv, DispatchInst
  PROVE  /\ Dispatched' = Dispatched + 1 /\ Head(disp_q) = Dispatched + 1
         /\ \A w \in Nat : Completed(w)' <=> Completed(w)
<1>1. Retired \in Nat /\ Len(rob) \in Nat /\ Dispatched \in Nat  BY Counts
<1>2. /\ disp_q # <<>> /\ Head(disp_q) # NOP
      /\ rob' = Append(rob, [inst |-> Head(disp_q), finished |-> FALSE])
      /\ UNCHANGED <<retired_inst_idx, retire_count>>
  BY DEF DispatchInst, CanDispatch, driverVars, cycleVars
<1>3. Head(disp_q) = Dispatched + 1 /\ Dispatched + 1 <= N
  BY <1>2, DispatchHead, Counts DEF OrderInv, FetchAhead
<1>4. /\ Len(rob') = Len(rob) + 1
      /\ \A k \in 1 .. Len(rob) : rob'[k] = rob[k]
      /\ ~rob'[Len(rob) + 1].finished
  <2>1. rob \in Seq(RobEntry)  BY DEF TypeOK, QueueTypeOK
  <2>2. [inst |-> Head(disp_q), finished |-> FALSE] \in RobEntry
    BY <1>1, <1>3, Counts DEF RobEntry
  <2> QED  BY <1>2, <2>1, <2>2, AppendProperties
<1>5. Retired' = Retired /\ Dispatched' = Dispatched + 1
  BY <1>1, <1>2, <1>4 DEF Retired, Dispatched
<1>6. \A k \in 1 .. Len(rob') : k \in 1 .. Len(rob) \/ k = Len(rob) + 1
  BY <1>1, <1>4
<1>7. \A k \in 1 .. Len(rob) : k \in 1 .. Len(rob')  BY <1>1, <1>4
<1>8. \A w \in Nat : Completed(w)' <=> Completed(w)
  BY <1>4, <1>5, <1>6, <1>7 DEF Completed
<1> QED  BY <1>3, <1>5, <1>8

(* The result bus completes the instruction whose result it carries. *)
LEMMA CompletedResult ==
  ASSUME TypeOK, ResultBus
  PROVE  /\ Dispatched' = Dispatched
         /\ \A w : Completed(w)' <=>
              \/ Completed(w)
              \/ w = Head(complete_vec).inst /\ Holds(rob, w)
<1> DEFINE c == Head(complete_vec)
<1>1. c \in FuEntry
  BY HeadTailProperties DEF ResultBus, TypeOK, QueueTypeOK
<1>2. /\ rob' = RobUpdate(c)
      /\ UNCHANGED <<retired_inst_idx, retire_count>>
  BY DEF ResultBus, driverVars, cycleVars
<1>3. Len(rob) \in Nat  BY Counts
<1>4. Holds(rob, c.inst) =>
        FirstOf(rob, c.inst) \in 1 .. Len(rob)
        /\ rob[FirstOf(rob, c.inst)].inst = c.inst
  BY <1>3, FirstOfProperties
<1> HIDE DEF c
<1>5. /\ Len(rob') = Len(rob)
      /\ \A k \in 1 .. Len(rob) :
           /\ rob'[k].inst = rob[k].inst
           /\ rob'[k].finished <=>
                rob[k].finished \/ (Holds(rob, c.inst)
                                    /\ k = FirstOf(rob, c.inst))
  BY <1>1, <1>2, RobUpdateInsts
<1>6. Retired' = Retired /\ Dispatched' = Dispatched
  BY <1>2, <1>5 DEF Retired, Dispatched
<1>7. ASSUME NEW w, Completed(w) PROVE Completed(w)'
  BY <1>5, <1>6, <1>7 DEF Completed
<1>8. ASSUME NEW w, w = c.inst, Holds(rob, w) PROVE Completed(w)'
  BY <1>4, <1>5, <1>8 DEF Completed
<1>9. ASSUME NEW w, Completed(w)', ~Completed(w)
      PROVE  w = c.inst /\ Holds(rob, w)
  <2>1. PICK k \in 1 .. Len(rob) : rob'[k].inst = w /\ rob'[k].finished
    BY <1>5, <1>6, <1>9 DEF Completed
  <2>2. rob[k].inst = w /\ ~rob[k].finished
    BY <1>5, <1>9, <2>1 DEF Completed
  <2>3. Holds(rob, c.inst) /\ k = FirstOf(rob, c.inst)  BY <1>5, <2>1, <2>2
  <2> QED  BY <1>4, <2>2, <2>3
<1> QED  BY <1>6, <1>7, <1>8, <1>9 DEF c

-----------------------------------------------------------------------------
(* The stations the result bus leaves *)

LEMMA ResultBusStations ==
  ASSUME TypeOK, ResultBus,
         \A j, k \in 1 .. Len(sche_q) :
           j < k => sche_q[j].inst < sche_q[k].inst
  PROVE  LET c == Head(complete_vec)
         IN  /\ \A k \in 1 .. Len(sche_q') :
                  \E j \in 1 .. Len(sche_q) :
                    sche_q[j].inst # c.inst /\ sche_q'[k] = Wakeup(sche_q[j], c)
             /\ \A j \in 1 .. Len(sche_q) : sche_q[j].inst # c.inst =>
                  \E k \in 1 .. Len(sche_q') : sche_q'[k] = Wakeup(sche_q[j], c)
             /\ \A j, k \in 1 .. Len(sche_q') :
                  j < k => sche_q'[j].inst < sche_q'[k].inst
<1> DEFINE c == Head(complete_vec)
           q == SchedRemove(c)
<1>1. sche_q' = [k \in 1 .. Len(q) |-> Wakeup(q[k], c)]
  BY DEF ResultBus
<1>2. c \in FuEntry
  BY HeadTailProperties DEF ResultBus, TypeOK, QueueTypeOK
<1>3. q \in Seq(SchedEntry) /\ Len(q) \in Nat  BY <1>2, SchedRemoveType
<1>4. sche_q \in Seq(SchedEntry) /\ Len(sche_q) \in Nat
  BY LenProperties DEF TypeOK, QueueTypeOK
<1>5. \A k \in 1 .. Len(sche_q) : sche_q[k].inst \in Nat
  <2>1. \A k \in 1 .. Len(sche_q) : sche_q[k] \in SchedEntry
    BY <1>4, ElementOfSeq
  <2> QED  BY <2>1, Counts DEF SchedEntry
<1>6. /\ \A k \in 1 .. Len(q) : \E j \in 1 .. Len(sche_q) :
           sche_q[j].inst # c.inst /\ q[k] = sche_q[j]
      /\ \A j \in 1 .. Len(sche_q) : sche_q[j].inst # c.inst =>
           \E k \in 1 .. Len(q) : q[k] = sche_q[j]
      /\ \A j, k \in 1 .. Len(q) : j < k => q[j].inst < q[k].inst
  <2>1. CASE ~Holds(sche_q, c.inst)
    <3>1. q = sche_q  BY <2>1 DEF SchedRemove
    <3>2. \A j \in 1 .. Len(sche_q) : sche_q[j].inst # c.inst
      BY <2>1 DEF Holds
    <3> HIDE DEF q, c
    <3> QED  BY <3>1, <3>2
  <2>2. CASE Holds(sche_q, c.inst)
    <3> DEFINE p == FirstOf(sche_q, c.inst)
    <3>1. q = [k \in 1 .. Len(sche_q) - 1 |->
                 IF k < p THEN sche_q[k] ELSE sche_q[k + 1]]
      BY <2>2 DEF SchedRemove
    <3>2. p \in 1 .. Len(sche_q) /\ sche_q[p].inst = c.inst
      BY <1>4, <2>2, FirstOfProperties
    <3> HIDE DEF p, q, c
    <3>3. Len(q) = Len(sche_q) - 1 /\ Len(sche_q) - 1 \in Nat
      BY <1>4, <3>1, <3>2
    <3>4. \A k \in 1 .. Len(q) :
            q[k] = IF k < p THEN sche_q[k] ELSE sche_q[k + 1]
      BY <3>1, <3>3
    <3>5. \A j \in 1 .. Len(sche_q) : j # p => sche_q[j].inst # c.inst
      BY <1>4, <1>5, <3>2
    <3>6. ASSUME NEW k \in 1 .. Len(q)
          PROVE  \E j \in 1 .. Len(sche_q) :
                   sche_q[j].inst # c.inst /\ q[k] = sche_q[j]
      <4>1. k \in 1 .. Len(sche_q) /\ k + 1 \in 1 .. Len(sche_q)
        BY <1>4, <3>3
      <4>2. CASE k < p
        <5>1. k # p /\ q[k] = sche_q[k]  BY <3>2, <3>4, <4>2
        <5> QED  BY <3>5, <4>1, <5>1
      <4>3. CASE ~(k < p)
        <5>1. k + 1 # p /\ q[k] = sche_q[k + 1]  BY <3>2, <3>4, <4>3
        <5> QED  BY <3>5, <4>1, <5>1
      <4> QED  BY <4>2, <4>3
    <3>7. ASSUME NEW j \in 1 .. Len(sche_q), sche_q[j].inst # c.inst
          PROVE  \E k \in 1 .. Len(q) : q[k] = sche_q[j]
      <4>1. j # p  BY <3>2, <3>7
      <4>2. CASE j < p
        <5>1. j \in 1 .. Len(q)  BY <1>4, <3>2, <3>3, <4>2
        <5> QED  BY <3>4, <4>2, <5>1
      <4>3. CASE j > p
        <5>1. j - 1 \in 1 .. Len(q) /\ ~(j - 1 < p) /\ (j - 1) + 1 = j
          BY <1>4, <3>2, <3>3, <4>3
        <5> QED  BY <3>4, <5>1
      <4> QED  BY <1>4, <3>2, <4>1, <4>2, <4>3
    <3>8. ASSUME NEW j \in 1 .. Len(q), NEW k \in 1 .. Len(q), j < k
          PROVE  q[j].inst < q[k].inst
      <4>1. \E a, b \in 1 .. Len(sche_q) :
              a < b /\ q[j] = sche_q[a] /\ q[k] = sche_q[b]
        <5>1. /\ j \in 1 .. Len(sche_q) /\ j + 1 \in 1 .. Len(sche_q)
              /\ k \in 1 .. Len(sche_q) /\ k + 1 \in 1 .. Len(sche_q)
          BY <1>4, <3>3
        <5>2. CASE k < p
          <6>1. j < p  BY <3>2, <3>8, <5>2
          <6> QED  BY <3>4, <3>8, <5>1, <5>2, <6>1
        <5>3. CASE ~(k < p) /\ j < p
          <6>1. j < k + 1  BY <3>8
          <6> QED  BY <3>4, <5>1, <5>3, <6>1
        <5>4. CASE ~(k < p) /\ ~(j < p)
          <6>1. j + 1 < k + 1  BY <3>8
          <6> QED  BY <3>4, <5>1, <5>4, <6>1
        <5> QED  BY <5>2, <5>3, <5>4
      <4> QED  BY <4>1
    <3> QED  BY <3>6, <3>7, <3>8
  <2> QED  BY <2>1, <2>2
<1> HIDE DEF c, q
<1>7. Len(sche_q') = Len(q)
      /\ \A k \in 1 .. Len(q) : sche_q'[k] = Wakeup(q[k], c)
  BY <1>1, <1>3
<1>8. \A e \in SchedEntry : Wakeup(e, c).inst = e.inst
  BY DEF Wakeup, SchedEntry
<1>9. \A k \in 1 .. Len(q) : q[k] \in SchedEntry  BY <1>3, ElementOfSeq
<1>10. \A j, k \in 1 .. Len(sche_q') :
         j < k => sche_q'[j].inst < sche_q'[k].inst
  <2> SUFFICES ASSUME NEW j \in 1 .. Len(q), NEW k \in 1 .. Len(q), j < k
               PROVE  sche_q'[j].inst < sche_q'[k].inst
    BY <1>7
  <2>1. q[j].inst < q[k].inst  BY <1>6
  <2>2. sche_q'[j].inst = q[j].inst /\ sche_q'[k].inst = q[k].inst
    BY <1>7, <1>8, <1>9
  <2> QED  BY <2>1, <2>2
<1>11. \A k \in 1 .. Len(sche_q') : \E j \in 1 .. Len(sche_q) :
         sche_q[j].inst # c.inst /\ sche_q'[k] = Wakeup(sche_q[j], c)
  BY <1>6, <1>7
<1>12. \A j \in 1 .. Len(sche_q) : sche_q[j].inst # c.inst =>
         \E k \in 1 .. Len(sche_q') : sche_q'[k] = Wakeup(sche_q[j], c)
  BY <1>6, <1>7
<1> QED  BY <1>10, <1>11, <1>12 DEF c

-----------------------------------------------------------------------------
(* StationOrder is an invariant *)

LEMMA StationOrderInit == Init => StationOrder
<1> SUFFICES ASSUME Init PROVE StationOrder  OBVIOUS
<1>1. Len(sche_q) = 0 /\ Len(rob) = 0 /\ Retired = 0 /\ Dispatched = 0
  BY EmptySeq DEF Init, Retired, Dispatched
<1> QED  BY <1>1 DEF StationOrder

(* Steps that keep the stations' instructions, and what has completed. *)
LEMMA StationFrame ==
  ASSUME TypeOK, StationOrder, Len(sche_q') = Len(sche_q),
         \A k \in 1 .. Len(sche_q) : sche_q'[k].inst = sche_q[k].inst,
         Dispatched' = Dispatched,
         \A w \in Nat : Completed(w)' <=> Completed(w)
  PROVE  StationOrder'
<1>1. Dispatched \in Nat  BY Counts
<1>2. \A j, k \in 1 .. Len(sche_q') :
        j < k => sche_q'[j].inst < sche_q'[k].inst
  BY DEF StationOrder
<1>3. \A k \in 1 .. Len(sche_q') :
        sche_q'[k].inst \in 1 .. Dispatched' /\ ~Completed(sche_q[k].inst)'
  BY <1>1 DEF StationOrder
<1>4. \A w \in 1 .. Dispatched' : ~Completed(w)' => Holds(sche_q, w)
  BY <1>1 DEF StationOrder
<1>5. \A w : Holds(sche_q, w) => Holds(sche_q', w)  BY DEF Holds
<1>6. \A w \in 1 .. Dispatched' : ~Completed(w)' => Holds(sche_q', w)
  BY <1>4, <1>5
<1> QED  BY <1>2, <1>3, <1>6 DEF StationOrder

LEMMA ScheduleFireInsts ==
  ASSUME TypeOK, ScheduleFire
  PROVE  /\ Len(sche_q') = Len(sche_q) /\ i \in 1 .. Len(sche_q)
         /\ \A k \in 1 .. Len(sche_q) : sche_q'[k] =
              IF k = i THEN [sche_q[k] EXCEPT !.scheduled = TRUE] ELSE sche_q[k]
<1>1. sche_q \in Seq(SchedEntry) /\ Len(sche_q) \in Nat
      /\ sche_q \in [1 .. Len(sche_q) -> SchedEntry]
  BY LenProperties DEF TypeOK, QueueTypeOK
<1>2. i \in 1 .. Len(sche_q)
  BY <1>1 DEF ScheduleFire, TypeOK, LoopTypeOK
<1>3. [sche_q[i] EXCEPT !.scheduled = TRUE] \in SchedEntry
  <2>1. sche_q[i] \in SchedEntry  BY <1>1, <1>2
  <2> QED  BY <2>1 DEF SchedEntry
<1>4. sche_q' = [sche_q EXCEPT ![i] = [sche_q[i] EXCEPT !.scheduled = TRUE]]
  BY DEF ScheduleFire
<1>5. Len(sche_q') = Len(sche_q)  BY <1>1, <1>2, <1>3, <1>4, ExceptType
<1> QED  BY <1>1, <1>2, <1>4, <1>5

LEMMA StationOrderResult ==
  ASSUME TypeOK, OrderInv, StationOrder, ResultBus
  PROVE  StationOrder'
<1> DEFINE c == Head(complete_vec)
<1>1. Dispatched \in Nat  BY Counts
<1>2. Dispatched' = Dispatched
      /\ \A w : Completed(w)' <=> Completed(w) \/ (w = c.inst /\ Holds(rob, w))
  BY CompletedResult
<1>3. c \in FuEntry
  BY HeadTailProperties DEF ResultBus, TypeOK, QueueTypeOK
<1>4. /\ \A k \in 1 .. Len(sche_q') : \E j \in 1 .. Len(sche_q) :
           sche_q[j].inst # c.inst /\ sche_q'[k] = Wakeup(sche_q[j], c)
      /\ \A j \in 1 .. Len(sche_q) : sche_q[j].inst # c.inst =>
           \E k \in 1 .. Len(sche_q') : sche_q'[k] = Wakeup(sche_q[j], c)
      /\ \A j, k \in 1 .. Len(sche_q') :
           j < k => sche_q'[j].inst < sche_q'[k].inst
  BY ResultBusStations DEF StationOrder
<1>5. \A j \in 1 .. Len(sche_q) : Wakeup(sche_q[j], c).inst = sche_q[j].inst
  <2>1. \A j \in 1 .. Len(sche_q) : sche_q[j] \in SchedEntry
    BY ElementOfSeq DEF TypeOK, QueueTypeOK
  <2> QED  BY <2>1 DEF Wakeup, SchedEntry
<1> HIDE DEF c
<1>6. ASSUME NEW k \in 1 .. Len(sche_q')
      PROVE  /\ sche_q'[k].inst \in 1 .. Dispatched'
             /\ ~Completed(sche_q[k].inst)'
  <2>1. PICK j \in 1 .. Len(sche_q) :
          sche_q[j].inst # c.inst /\ sche_q'[k] = Wakeup(sche_q[j], c)
    BY <1>4
  <2>2. sche_q'[k].inst = sche_q[j].inst  BY <1>5, <2>1
  <2>3. sche_q[j].inst \in 1 .. Dispatched /\ ~Completed(sche_q[j].inst)
    BY DEF StationOrder
  <2> QED  BY <1>2, <2>1, <2>2, <2>3
<1>7. ASSUME NEW w \in 1 .. Dispatched', ~Completed(w)'
      PROVE  Holds(sche_q', w)
  <2>1. w \in 1 .. Dispatched /\ ~Completed(w)  BY <1>2, <1>7
  <2>2. w # c.inst  BY <1>2, <1>7, <2>1, InRob
  <2>3. PICK j \in 1 .. Len(sche_q) : sche_q[j].inst = w
    BY <2>1 DEF StationOrder, Holds
  <2>4. PICK k \in 1 .. Len(sche_q') : sche_q'[k] = Wakeup(sche_q[j], c)
    BY <1>4, <2>2, <2>3
  <2> QED  BY <1>5, <2>3, <2>4 DEF Holds
<1> QED  BY <1>4, <1>6, <1>7 DEF StationOrder

LEMMA StationOrderDispatch ==
  ASSUME TypeOK, OrderInv, StationOrder, DispatchInst
  PROVE  StationOrder'
<1>1. Dispatched \in Nat  BY Counts
<1>2. /\ Dispatched' = Dispatched + 1 /\ Head(disp_q) = Dispatched + 1
      /\ \A w \in Nat : Completed(w)' <=> Completed(w)
  BY CompletedDispatch
<1> DEFINE e == CreateEntry(Head(disp_q))
<1>3. e.inst = Dispatched + 1  BY <1>2 DEF CreateEntry
<1>4. sche_q' = Append(sche_q, e)  BY DEF DispatchInst
<1>5. Head(disp_q) \in 1 .. N
  BY <1>1, <1>2, DispatchHead, Counts
     DEF DispatchInst, CanDispatch, OrderInv, FetchAhead
<1>6. e \in SchedEntry  BY <1>5, DispatchTypes
<1> HIDE DEF e
<1>7. /\ Len(sche_q') = Len(sche_q) + 1 /\ Len(sche_q) \in Nat
      /\ \A k \in 1 .. Len(sche_q) : sche_q'[k] = sche_q[k]
      /\ sche_q'[Len(sche_q) + 1] = e
  BY <1>4, <1>6, AppendProperties, LenProperties DEF TypeOK, QueueTypeOK
<1>8. /\ \A k \in 1 .. Len(sche_q') :
           k \in 1 .. Len(sche_q) \/ k = Len(sche_q) + 1
      /\ \A k \in 1 .. Len(sche_q) : k \in 1 .. Len(sche_q')
      /\ Len(sche_q) + 1 \in 1 .. Len(sche_q')
  BY <1>7
<1>9. ~Completed(Dispatched + 1)  BY <1>1, CompletedBound
<1>10. \A j, k \in 1 .. Len(sche_q') :
        j < k => sche_q'[j].inst < sche_q'[k].inst
  <2> SUFFICES ASSUME NEW j \in 1 .. Len(sche_q'), NEW k \in 1 .. Len(sche_q'),
                      j < k
               PROVE  sche_q'[j].inst < sche_q'[k].inst
    OBVIOUS
  <2>1. j \in 1 .. Len(sche_q) /\ sche_q'[j] = sche_q[j]  BY <1>7, <1>8
  <2>2. sche_q[j].inst \in 1 .. Dispatched  BY <2>1 DEF StationOrder
  <2>3. CASE k = Len(sche_q) + 1  BY <1>1, <1>3, <1>7, <2>1, <2>2, <2>3
  <2>4. CASE k \in 1 .. Len(sche_q)
    BY <1>7, <2>1, <2>4 DEF StationOrder
  <2> QED  BY <1>8, <2>3, <2>4
<1>11. \A k \in 1 .. Len(sche_q') :
         sche_q'[k].inst \in 1 .. Dispatched' /\ ~Completed(sche_q[k].inst)'
  <2> SUFFICES ASSUME NEW k \in 1 .. Len(sche_q')
               PROVE  /\ sche_q'[k].inst \in 1 .. Dispatched'
                      /\ ~Completed(sche_q[k].inst)'
    OBVIOUS
  <2>1. CASE k = Len(sche_q) + 1
    <3>1. sche_q'[k].inst = Dispatched + 1  BY <1>3, <1>7, <2>1
    <3> QED  BY <1>1, <1>2, <1>9, <3>1
  <2>2. CASE k \in 1 .. Len(sche_q)
    <3>1. sche_q'[k].inst = sche_q[k].inst  BY <1>7, <2>2
    <3>2. sche_q[k].inst \in 1 .. Dispatched /\ ~Completed(sche_q[k].inst)
      BY <2>2 DEF StationOrder
    <3> QED  BY <1>1, <1>2, <3>1, <3>2
  <2> QED  BY <1>8, <2>1, <2>2
<1>12. ASSUME NEW w \in 1 .. Dispatched', ~Completed(w)'
       PROVE  Holds(sche_q', w)
  <2>1. CASE w = Dispatched + 1  BY <1>3, <1>7, <1>8, <2>1 DEF Holds
  <2>2. CASE w # Dispatched + 1
    <3>1. w \in 1 .. Dispatched /\ ~Completed(w)
      BY <1>1, <1>2, <1>12, <2>2
    <3>2. PICK k \in 1 .. Len(sche_q) : sche_q[k].inst = w
      BY <3>1 DEF StationOrder, Holds
    <3> QED  BY <1>7, <1>8, <3>2 DEF Holds
  <2> QED  BY <2>1, <2>2
<1> QED  BY <1>10, <1>11, <1>12 DEF StationOrder

(* Steps that leave the stations, the ROB and the counts alone. *)
NoDataStep ==
  \/ RetireDone \/ AluCheck \/ MulCheck \/ LsuCheck \/ ExecDone
  \/ ResultBusDone \/ ScheduleSkip \/ ScheduleDone \/ DispatchNop
  \/ DispatchDone \/ Fetch \/ UNCHANGED vars

LEMMA NoDataFrame ==
  ASSUME NoDataStep
  PROVE  UNCHANGED <<insts, sche_q, rob, retired_inst_idx, retire_count,
                     renameVars>>
BY DEF NoDataStep, RetireDone, AluCheck, MulCheck, LsuCheck, ExecDone,
  ResultBusDone, ScheduleSkip, ScheduleDone, DispatchNop, DispatchDone, Fetch,
  FetchNothing, FetchNop, FetchMiss, FetchInst, FetchDone, vars, traceVars,
  driverVars, cycleVars, renameVars

LEMMA NextSteps ==
  ASSUME [Next]_vars
  PROVE  \/ RetireEntry \/ ResultBus \/ ScheduleFire \/ DispatchInst
         \/ EndCycle \/ NoDataStep
BY DEF Next, Retire, Exec, Schedule, Dispatch, Terminated, NoDataStep

LEMMA EndCycleFrame ==
  ASSUME TypeOK, EndCycle
  PROVE  /\ UNCHANGED <<insts, sche_q, rob, renameVars>>
         /\ Dispatched' = Dispatched /\ Retired' = Retired
         /\ \A w : Completed(w)' <=> Completed(w)
<1>1. /\ UNCHANGED <<insts, sche_q, rob, renameVars>>
      /\ retired_inst_idx' = Retired /\ retire_count' = 0
  BY DEF EndCycle, traceVars
<1>2. Retired' = Retired  BY <1>1, Counts DEF Retired
<1> QED  BY <1>1, <1>2 DEF Dispatched, Completed

LEMMA StationOrderStep ==
  ASSUME TypeOK, OrderInv, StationOrder, [Next]_vars
  PROVE  StationOrder'
<1>1. CASE RetireEntry
  <2>1. sche_q' = sche_q  BY <1>1 DEF RetireEntry
  <2> QED  BY <1>1, <2>1, CompletedRetire, StationFrame
<1>2. CASE ResultBus  BY <1>2, StationOrderResult
<1>3. CASE ScheduleFire
  <2>1. UNCHANGED <<rob, retired_inst_idx, retire_count>>
    BY <1>3 DEF ScheduleFire, driverVars, cycleVars
  <2>2. \A k \in 1 .. Len(sche_q) : sche_q'[k].inst = sche_q[k].inst
    <3>1. \A k \in 1 .. Len(sche_q) : sche_q[k] \in SchedEntry
      BY ElementOfSeq DEF TypeOK, QueueTypeOK
    <3>2. \A e \in SchedEntry : [e EXCEPT !.scheduled = TRUE].inst = e.inst
      BY DEF SchedEntry
    <3> QED  BY <1>3, <3>1, <3>2, ScheduleFireInsts
  <2> QED  BY <1>3, <2>1, <2>2, ScheduleFireInsts, CompletedFrame, StationFrame
<1>4. CASE DispatchInst  BY <1>4, StationOrderDispatch
<1>5. CASE EndCycle
  <2>1. sche_q' = sche_q  BY <1>5, EndCycleFrame
  <2> QED  BY <1>5, <2>1, EndCycleFrame, StationFrame
<1>6. CASE NoDataStep
  <2>1. UNCHANGED <<sche_q, rob, retired_inst_idx, retire_count>>
    BY <1>6, NoDataFrame
  <2> QED  BY <2>1, CompletedFrame, StationFrame
<1> QED  BY <1>1, <1>2, <1>3, <1>4, <1>5, <1>6, NextSteps

(* The reservation stations are in program order, and they hold exactly    *)
(* the instructions dispatched and not completed (dispatch, the result     *)
(* bus of state_update).                                                   *)
THEOREM StationInvariant == Spec => []StationOrder
<1>1. Init => StationOrder  BY StationOrderInit
<1>2. TypeOK /\ OrderInv /\ StationOrder /\ [Next]_vars => StationOrder'
  BY StationOrderStep
<1> QED  BY <1>1, <1>2, TypeCorrect, OrderInvariant, PTL DEF Spec

(* An instruction holds exactly one reservation station, from dispatch     *)
(* until its result has been broadcast, and the stations stay in program   *)
(* order although results free them in any order.                          *)
THEOREM ReservationStationsHold == Spec => []ReservationStations
<1>1. TypeOK /\ OrderInv /\ StationOrder => ReservationStations
  <2> SUFFICES ASSUME TypeOK, OrderInv, StationOrder
               PROVE  ReservationStations
    OBVIOUS
  <2>1. Retired \in Nat /\ Len(rob) \in Nat /\ Dispatched = Retired + Len(rob)
    BY Counts DEF Dispatched
  <2>2. ASSUME NEW k \in 1 .. Len(sche_q)
        PROVE  \E j \in 1 .. Len(rob) :
                 ~rob[j].finished /\ rob[j].inst = sche_q[k].inst
    <3>1. sche_q[k].inst \in 1 .. Dispatched /\ ~Completed(sche_q[k].inst)
      BY DEF StationOrder
    <3>2. PICK j \in 1 .. Len(rob) : rob[j].inst = sche_q[k].inst
      BY <3>1, InRob DEF Holds
    <3> QED  BY <3>1, <3>2 DEF Completed
  <2>3. ASSUME NEW j \in 1 .. Len(rob), ~rob[j].finished
        PROVE  Holds(sche_q, rob[j].inst)
    <3>1. \A k \in 1 .. Len(rob) : rob[k].inst = Retired + k
      BY DEF OrderInv, RobOrder
    <3>2. rob[j].inst \in 1 .. Dispatched /\ rob[j].inst > Retired
      BY <2>1, <3>1
    <3>3. \A k \in 1 .. Len(rob) : rob[k].inst = rob[j].inst => k = j
      BY <2>1, <3>1
    <3>4. ~Completed(rob[j].inst)  BY <2>1, <2>3, <3>2, <3>3 DEF Completed
    <3> QED  BY <3>2, <3>4 DEF StationOrder
  <2> DEFINE A == {sche_q[k].inst : k \in 1 .. Len(sche_q)}
             B == {rob[k].inst : k \in {j \in 1 .. Len(rob) : ~rob[j].finished}}
  <2>4. \A x \in A : x \in B  BY <2>2
  <2>5. \A x \in B : x \in A  BY <2>3 DEF Holds
  <2>6. A = B  BY <2>4, <2>5
  <2> QED  BY <2>6 DEF ReservationStations, StationOrder
<1> QED  BY <1>1, TypeCorrect, OrderInvariant, StationInvariant, PTL

=============================================================================
