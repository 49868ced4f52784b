------------------------------ MODULE Procsim ------------------------------
(***************************************************************************)
(* The out-of-order processor of project2 (procsim.hpp, procsim.cpp)       *)
(* together with the driver loop that feeds it (proj2_driver.cpp,          *)
(* procsim_driver_read_inst and run_procsim).                              *)
(*                                                                         *)
(* The program is sequential: one simulated cycle runs the stages state    *)
(* update (retire), exec, schedule, dispatch and fetch in that order, then *)
(* the driver's end-of-cycle code.  The variable stage says which of them  *)
(* is running, and one action is one iteration of that stage's loop, so a  *)
(* stage sees exactly what the iterations before it left.                  *)
(*                                                                         *)
(* An instruction is named by its place in the trace (module Trace); the   *)
(* code's NULL entry of the dispatch queue is NOP.  Register values,       *)
(* addresses and statistics are left out: they never guard a step.         *)
(***************************************************************************)
EXTENDS Trace, Sequences, FiniteSets

CONSTANTS
  FETCH_WIDTH,    \* also the dispatch and retire width (parse_arguments)
  ROB_PER_WIDTH,  \* the literal 32 of num_rob_entries = fetch_width * 32
  ALU_NUM, MUL_NUM, LSU_NUM,
  SCHEDQ_PER_FU,  \* num_schedq_entries_per_fu
  L1_HIT_CYCLES, L2_HIT_CYCLES, L2_MISS_CYCLES,
  MAX_CYCLES      \* max_cycles_since_last_retire, 256 in the code

ASSUME SizeAssumption ==
  /\ FETCH_WIDTH \in Nat \ {0} /\ ROB_PER_WIDTH \in Nat
  /\ ALU_NUM \in Nat /\ MUL_NUM \in Nat /\ LSU_NUM \in Nat
  /\ SCHEDQ_PER_FU \in Nat
ASSUME LatencyAssumption ==
  /\ L1_HIT_CYCLES \in Nat \ {0} /\ L2_HIT_CYCLES \in Nat \ {0}
  /\ L2_MISS_CYCLES \in Nat \ {0} /\ MAX_CYCLES \in Nat \ {0}

NOP == 0          \* the NULL instruction of the dispatch queue

DISPQ_ENTRIES  == FETCH_WIDTH * REG_NUM
ROB_ENTRIES    == FETCH_WIDTH * ROB_PER_WIDTH
SCHEDQ_ENTRIES == SCHEDQ_PER_FU * (ALU_NUM + MUL_NUM + LSU_NUM)
MUL_STAGES     == 3
\* Bits of mul_mask, (1 << mul_num) - 1 computed on int: a shift takes its
\* count modulo 32, so 32 units have an empty mask (see module MulUnits).
MUL_MASK_UNITS == MUL_NUM % 32
FIRST_TAG      == REG_NUM + MAT_REG_NUM   \* the literal 96 of procsim's tag(96)

VARIABLES
  mispredict,                \* inst_t::mispredict, set when fetched
  fetch_inst_idx,            \* instructions handed out by the driver
  retired_inst_idx,          \* instructions retired in earlier cycles
  in_mispred, in_icache_miss, icache_miss_ctr, finished_miss,
  cycles_since_last_retire,
  stage,                     \* the stage that runs next
  i,                         \* loop index of the exec and schedule loops
  retire_count, retired_mispredict,
  normal_dispatch, nop_dispatch, fetch_count,
  disp_q,                    \* dispatch queue
  sche_q,                    \* schedule queue (reservation stations)
  rob,                       \* reorder buffer
  rf, mat, tag,              \* messy register file, memory alias table
  alu, mul, lsu,             \* function units
  alu_current, mul_current, lsu_current,
  complete_vec               \* results waiting for the result bus

traceVars  == <<insts, mispredict>>
driverVars == <<fetch_inst_idx, retired_inst_idx, in_mispred, in_icache_miss,
                icache_miss_ctr, finished_miss, cycles_since_last_retire>>
cycleVars  == <<retire_count, retired_mispredict>>
loopVars   == <<i, normal_dispatch, nop_dispatch, fetch_count>>
renameVars == <<rf, mat, tag>>
fuVars     == <<alu, mul, lsu, alu_current, mul_current, lsu_current>>
vars == <<traceVars, driverVars, stage, cycleVars, loopVars, disp_q, sche_q,
          rob, renameVars, fuVars, complete_vec>>

-----------------------------------------------------------------------------
(* Records *)

FuEntry    == [inst : 0 .. N, tag1 : Nat, tag2 : Nat, fu_count : Nat]
SchedEntry == [inst : 1 .. N,
               src1_ready : BOOLEAN, src1_tag : Nat,
               src2_ready : BOOLEAN, src2_tag : Nat,
               ms_ready : BOOLEAN, ms_tag : Nat,
               tag1 : Nat, tag2 : Nat, scheduled : BOOLEAN]
RobEntry   == [inst : 1 .. N, finished : BOOLEAN]
RegEntry   == [ready : BOOLEAN, tag : Nat]

(* A slot of alu_vec or lsu_vec whose entry is finished takes a new one. *)
Free       == [inst |-> 0, tag1 |-> 0, tag2 |-> 0, fu_count |-> 0]
Busy(slot) == slot.inst # 0

Init ==
  /\ TraceInit
  /\ mispredict = [id \in 1 .. N |-> FALSE]
  /\ fetch_inst_idx = 0 /\ retired_inst_idx = 0
  /\ in_mispred = FALSE /\ in_icache_miss = FALSE
  /\ icache_miss_ctr = 0 /\ finished_miss = FALSE
  /\ cycles_since_last_retire = 0
  /\ stage = "retire" /\ i = 1
  /\ retire_count = 0 /\ retired_mispredict = FALSE
  /\ normal_dispatch = 0 /\ nop_dispatch = 0 /\ fetch_count = 0
  /\ disp_q = <<>> /\ sche_q = <<>> /\ rob = <<>>
  /\ rf  = [r \in Reg |-> [ready |-> TRUE, tag |-> r]]
  /\ mat = [m \in MatReg |-> [ready |-> TRUE, tag |-> REG_NUM + m]]
  /\ tag = FIRST_TAG
  /\ alu = [u \in 1 .. ALU_NUM |-> Free]
  /\ mul = [u \in 1 .. MUL_NUM |-> <<>>]
  /\ lsu = [u \in 1 .. LSU_NUM |-> Free]
  /\ alu_current = 0 /\ mul_current = 0 /\ lsu_current = 0
  /\ complete_vec = <<>>

(* How many instructions have retired, this cycle's included, and how many *)
(* have entered the ROB.                                                   *)
Retired    == retired_inst_idx + retire_count
Dispatched == Retired + Len(rob)

-----------------------------------------------------------------------------
(* State update: rob::retire *)

(* The head of the ROB may leave: it is finished and the width allows it. *)
CanRetire ==
  /\ rob # <<>>
  /\ retire_count < FETCH_WIDTH
  /\ Head(rob).finished

AnyBranchAtHead == Op(Head(rob).inst) = "BRANCH"                \* mutated form
MispredictAtHead ==
  Op(Head(rob).inst) = "BRANCH" /\ mispredict[Head(rob).inst]

(* One iteration of the loop.  A mispredicted branch ends the loop, and    *)
(* procsim_do_cycle then skips the other stages.                           *)
RetireEntry ==
  /\ stage = "retire" /\ CanRetire
  /\ rob' = Tail(rob)
  /\ retire_count' = retire_count + 1
  /\ retired_mispredict' = MispredictAtHead
  /\ stage' = IF MispredictAtHead THEN "end_cycle" ELSE "retire"
  /\ UNCHANGED <<traceVars, driverVars, loopVars, disp_q, sche_q, renameVars,
                 fuVars, complete_vec>>

RetireDone ==
  /\ stage = "retire" /\ ~CanRetire
  /\ stage' = "alu" /\ i' = 1
  /\ UNCHANGED <<traceVars, driverVars, cycleVars, normal_dispatch,
                 nop_dispatch, fetch_count, disp_q, sche_q, rob, renameVars,
                 fuVars, complete_vec>>

-----------------------------------------------------------------------------
(* Exec: function_unit::fu_check for each kind of unit, then the result    *)
(* bus.                                                                    *)

Aged(e) == [e EXCEPT !.fu_count = @ + 1]

(* An ALU finishes in the cycle after its instruction fired. *)
AluCheck ==
  /\ stage = "alu" /\ i <= ALU_NUM
  /\ i' = i + 1
  /\ IF Busy(alu[i]) /\ Aged(alu[i]).fu_count = 1
     THEN /\ complete_vec' = Append(complete_vec, Aged(alu[i]))
          /\ alu' = [alu EXCEPT ![i] = Free]
          /\ alu_current' = alu_current - 1
     ELSE /\ alu' = IF Busy(alu[i]) THEN [alu EXCEPT ![i] = Aged(@)] ELSE alu
          /\ UNCHANGED <<complete_vec, alu_current>>
  /\ UNCHANGED <<traceVars, driverVars, stage, cycleVars, normal_dispatch,
                 nop_dispatch, fetch_count, disp_q, sche_q, rob, renameVars,
                 mul, lsu, mul_current, lsu_current>>

(* The entries at the front of one MUL pipeline that leave it: all of them *)
(* have passed its last stage.                                             *)
MulLeaving(pipe, p) ==
  /\ \A k \in 1 .. p : pipe[k].fu_count = MUL_STAGES
  /\ p < Len(pipe) => pipe[p + 1].fu_count # MUL_STAGES

MulCheck ==
  /\ stage = "mul" /\ i <= MUL_NUM
  /\ i' = i + 1
  /\ LET pipe == [k \in 1 .. Len(mul[i]) |-> Aged(mul[i][k])]
         p    == CHOOSE q \in 0 .. Len(pipe) : MulLeaving(pipe, q)
     IN  /\ complete_vec' = complete_vec \o SubSeq(pipe, 1, p)
         /\ mul' = [mul EXCEPT ![i] = SubSeq(pipe, p + 1, Len(pipe))]
  /\ UNCHANGED <<traceVars, driverVars, stage, cycleVars, normal_dispatch,
                 nop_dispatch, fetch_count, disp_q, sche_q, rob, renameVars,
                 alu, lsu, alu_current, mul_current, lsu_current>>

LatencyCycles(level) ==
  CASE level = "L1_HIT"  -> L1_HIT_CYCLES
    [] level = "L2_HIT"  -> L2_HIT_CYCLES
    [] level = "L2_MISS" -> L2_MISS_CYCLES

(* A store leaves the LSU after one cycle, a load after its cache latency. *)
CyclesNeeded(id) ==
  IF Op(id) = "STORE" THEN 1 ELSE LatencyCycles(insts[id].dcache)

LsuCheck ==
  /\ stage = "lsu" /\ i <= LSU_NUM
  /\ i' = i + 1
  /\ IF Busy(lsu[i]) /\ Aged(lsu[i]).fu_count = CyclesNeeded(lsu[i].inst)
     THEN /\ complete_vec' = Append(complete_vec, Aged(lsu[i]))
          /\ lsu' = [lsu EXCEPT ![i] = Free]
          /\ lsu_current' = lsu_current - 1
     ELSE /\ lsu' = IF Busy(lsu[i]) THEN [lsu EXCEPT ![i] = Aged(@)] ELSE lsu
          /\ UNCHANGED <<complete_vec, lsu_current>>
  /\ UNCHANGED <<traceVars, driverVars, stage, cycleVars, normal_dispatch,
                 nop_dispatch, fetch_count, disp_q, sche_q, rob, renameVars,
                 alu, mul, alu_current, mul_current>>

(* stage_exec runs the ALUs, then the MULs, then the LSUs. *)
ExecDone ==
  /\ \/ stage = "alu" /\ i > ALU_NUM /\ stage' = "mul"
     \/ stage = "mul" /\ i > MUL_NUM /\ stage' = "lsu"
     \/ stage = "lsu" /\ i > LSU_NUM /\ stage' = "result_bus"
  /\ i' = 1
  /\ UNCHANGED <<traceVars, driverVars, cycleVars, normal_dispatch,
                 nop_dispatch, fetch_count, disp_q, sche_q, rob, renameVars,
                 fuVars, complete_vec>>

(* The first entry of q that belongs to instruction id. *)
FirstOf(q, id) ==
  CHOOSE k \in 1 .. Len(q) :
    q[k].inst = id /\ \A j \in 1 .. k - 1 : q[j].inst # id

Holds(q, id) == \E k \in 1 .. Len(q) : q[k].inst = id

(* memory_alias_table::update *)
MatUpdate(c) ==
  LET m == insts[c.inst].ms
  IN  IF IsLoadStore(c.inst) /\ mat[m].tag = c.tag1
      THEN [mat EXCEPT ![m].ready = TRUE] ELSE mat

RfUpdateAnyTag(c) ==                                            \* mutated form
  LET d == insts[c.inst].dest
  IN  IF d >= 0 THEN [rf EXCEPT ![d].ready = TRUE] ELSE rf

(* register_file::update: a later writer of the register has taken it over *)
(* when the tags differ.                                                   *)
RfUpdate(c) ==
  LET d == insts[c.inst].dest
  IN  IF d >= 0 /\ rf[d].tag = c.tag2
      THEN [rf EXCEPT ![d].ready = TRUE] ELSE rf

SwapRemove(c) ==                                                \* mutated form
  IF Holds(sche_q, c.inst)
  THEN LET p == FirstOf(sche_q, c.inst)
       IN  [k \in 1 .. Len(sche_q) - 1 |->
              IF k = p THEN sche_q[Len(sche_q)] ELSE sche_q[k]]
  ELSE sche_q

(* schedule_queue::remove *)
SchedRemove(c) ==
  IF Holds(sche_q, c.inst)
  THEN LET p == FirstOf(sche_q, c.inst)
       IN  [k \in 1 .. Len(sche_q) - 1 |->
              IF k < p THEN sche_q[k] ELSE sche_q[k + 1]]
  ELSE sche_q

WakeupFirstOnly(e, c) ==                                        \* mutated form
  [e EXCEPT !.src1_ready = @ \/ c.tag2 = e.src1_tag,
            !.ms_ready   = @ \/ (IsLoadStore(e.inst) /\ c.tag1 = e.ms_tag)]

(* schedule_queue::update on one entry *)
Wakeup(e, c) ==
  [e EXCEPT !.src1_ready = @ \/ c.tag2 = e.src1_tag,
            !.src2_ready = @ \/ c.tag2 = e.src2_tag,
            !.ms_ready   = @ \/ (IsLoadStore(e.inst) /\ c.tag1 = e.ms_tag)]

(* rob::update *)
RobUpdate(c) ==
  IF Holds(rob, c.inst)
  THEN [rob EXCEPT ![FirstOf(rob, c.inst)].finished = TRUE]
  ELSE rob

(* One iteration of result_bus. *)
ResultBus ==
  /\ stage = "result_bus" /\ complete_vec # <<>>
  /\ LET c == Head(complete_vec)
         q == SchedRemove(c)
     IN  /\ mat' = MatUpdate(c)
         /\ rf' = RfUpdate(c)
         /\ sche_q' = [k \in 1 .. Len(q) |-> Wakeup(q[k], c)]
         /\ rob' = RobUpdate(c)
  /\ complete_vec' = Tail(complete_vec)
  /\ UNCHANGED <<traceVars, driverVars, stage, cycleVars, loopVars, disp_q,
                 tag, fuVars>>

(* schedule starts by declaring every MUL unit free to take one more. *)
ResultBusDone ==
  /\ stage = "result_bus" /\ complete_vec = <<>>
  /\ stage' = "schedule" /\ i' = 1
  /\ mul_current' = 0
  /\ UNCHANGED <<traceVars, driverVars, cycleVars, normal_dispatch,
                 nop_dispatch, fetch_count, disp_q, sche_q, rob, renameVars,
                 alu, mul, lsu, alu_current, lsu_current, complete_vec>>

-----------------------------------------------------------------------------
(* Schedule: fire ready instructions in queue order *)

(* schedule_queue::inst_ready *)
InstReady(e) ==
  /\ insts[e.inst].src1 < 0 \/ e.src1_ready
  /\ insts[e.inst].src2 < 0 \/ e.src2_ready
  /\ IsLoadStore(e.inst) => e.ms_ready

MulNeverFull(id) ==                                             \* mutated form
  \/ IsAluOp(id) /\ alu_current < ALU_NUM
  \/ IsMulOp(id) /\ mul_current <= MUL_MASK_UNITS
  \/ IsLoadStore(id) /\ lsu_current < LSU_NUM

(* function_unit::fu_has_room.  The code's mul_current is a word whose low *)
(* bits are set one by one, compared with mul_mask, a run of low bits as   *)
(* well; here both are the number of their bits.                           *)
FuHasRoom(id) ==
  \/ IsAluOp(id) /\ alu_current < ALU_NUM
  \/ IsMulOp(id) /\ mul_current < MUL_MASK_UNITS
  \/ IsLoadStore(id) /\ lsu_current < LSU_NUM

CanFire(e) == ~e.scheduled /\ InstReady(e) /\ FuHasRoom(e.inst)

FiredOneOld(e) ==                                               \* mutated form
  [inst |-> e.inst, tag1 |-> e.tag1, tag2 |-> e.tag2, fu_count |-> 1]
Fired(e) == [inst |-> e.inst, tag1 |-> e.tag1, tag2 |-> e.tag2, fu_count |-> 0]

HasFree(fu, n) == \E u \in 1 .. n : ~Busy(fu[u])

(* function_unit::push into the first finished slot of alu_vec or lsu_vec, *)
(* or the first MUL unit not fed this cycle; without one the instruction   *)
(* is dropped.                                                             *)
PushSlot(fu, n, e) ==
  IF HasFree(fu, n)
  THEN [fu EXCEPT ![CHOOSE u \in 1 .. n :
                      ~Busy(fu[u]) /\ \A v \in 1 .. u - 1 : Busy(fu[v])]
                  = Fired(e)]
  ELSE fu

PushCount(fu, n, current) == IF HasFree(fu, n) THEN current + 1 ELSE current

FireAlu(e) ==
  /\ IsAluOp(e.inst)
  /\ alu' = PushSlot(alu, ALU_NUM, e)
  /\ alu_current' = PushCount(alu, ALU_NUM, alu_current)
  /\ UNCHANGED <<mul, lsu, mul_current, lsu_current>>

FireMul(e) ==
  /\ IsMulOp(e.inst)
  /\ IF mul_current < MUL_NUM
     THEN /\ mul' = [mul EXCEPT ![mul_current + 1] = Append(@, Fired(e))]
          /\ mul_current' = mul_current + 1
     ELSE UNCHANGED <<mul, mul_current>>
  /\ UNCHANGED <<alu, lsu, alu_current, lsu_current>>

FireLsu(e) ==
  /\ IsLoadStore(e.inst)
  /\ lsu' = PushSlot(lsu, LSU_NUM, e)
  /\ lsu_current' = PushCount(lsu, LSU_NUM, lsu_current)
  /\ UNCHANGED <<alu, mul, alu_current, mul_current>>

(* The schedule loop visits entry i, which fires and keeps its place... *)
ScheduleFire ==
  /\ stage = "schedule" /\ i <= Len(sche_q) /\ CanFire(sche_q[i])
  /\ FireAlu(sche_q[i]) \/ FireMul(sche_q[i]) \/ FireLsu(sche_q[i])
  /\ sche_q' = [sche_q EXCEPT ![i].scheduled = TRUE]
  /\ i' = i + 1
  /\ UNCHANGED <<traceVars, driverVars, stage, cycleVars, normal_dispatch,
                 nop_dispatch, fetch_count, disp_q, rob, renameVars,
                 complete_vec>>

(* ... or has fired before, lacks an operand, or finds no room. *)
ScheduleSkip ==
  /\ stage = "schedule" /\ i <= Len(sche_q) /\ ~CanFire(sche_q[i])
  /\ i' = i + 1
  /\ UNCHANGED <<traceVars, driverVars, stage, cycleVars, normal_dispatch,
                 nop_dispatch, fetch_count, disp_q, sche_q, rob, renameVars,
                 fuVars, complete_vec>>

ScheduleDone ==
  /\ stage = "schedule" /\ i > Len(sche_q)
  /\ stage' = "dispatch" /\ i' = 1
  /\ normal_dispatch' = 0 /\ nop_dispatch' = 0
  /\ UNCHANGED <<traceVars, driverVars, cycleVars, fetch_count, disp_q, sche_q,
                 rob, renameVars, fuVars, complete_vec>>

-----------------------------------------------------------------------------
(* Dispatch: rename and allocate in program order *)

(* The condition of dispatch's while loop. *)
CanDispatch ==
  /\ normal_dispatch < FETCH_WIDTH /\ nop_dispatch < FETCH_WIDTH
  /\ disp_q # <<>>
  /\ Len(sche_q) < SCHEDQ_ENTRIES
  /\ Len(rob) < ROB_ENTRIES

(* register_file::lookup of one operand; the constructor's values stay     *)
(* when the operand is absent.                                             *)
RfReady(r) == r >= 0 /\ rf[r].ready
RfTag(r)   == IF r >= 0 THEN rf[r].tag ELSE 0

(* create_entry: sources are looked up before the destinations are claimed. *)
CreateEntry(id) ==
  LET x == insts[id]
  IN  [inst       |-> id,
       src1_ready |-> RfReady(x.src1), src1_tag |-> RfTag(x.src1),
       src2_ready |-> RfReady(x.src2), src2_tag |-> RfTag(x.src2),
       ms_ready   |-> IsLoadStore(id) /\ mat[x.ms].ready,
       ms_tag     |-> IF IsLoadStore(id) THEN mat[x.ms].tag ELSE 0,
       tag1 |-> tag, tag2 |-> tag + 1, scheduled |-> FALSE]

StoresClaimMat(id) ==                                           \* mutated form
  IF Op(id) = "STORE"
  THEN [mat EXCEPT ![insts[id].ms] = [ready |-> FALSE, tag |-> tag]] ELSE mat
ClaimMat(id) ==
  IF IsLoadStore(id)
  THEN [mat EXCEPT ![insts[id].ms] = [ready |-> FALSE, tag |-> tag]] ELSE mat

ClaimRfWithTag1(id) ==                                          \* mutated form
  IF insts[id].dest >= 0
  THEN [rf EXCEPT ![insts[id].dest] = [ready |-> FALSE, tag |-> tag]]
  ELSE rf
ClaimRf(id) ==
  IF insts[id].dest >= 0
  THEN [rf EXCEPT ![insts[id].dest] = [ready |-> FALSE, tag |-> tag + 1]]
  ELSE rf

DispatchInst ==
  /\ stage = "dispatch" /\ CanDispatch /\ Head(disp_q) # NOP
  /\ LET id == Head(disp_q)
     IN  /\ sche_q' = Append(sche_q, CreateEntry(id))
         /\ rob' = Append(rob, [inst |-> id, finished |-> FALSE])
         /\ mat' = ClaimMat(id)
         /\ rf' = ClaimRf(id)
  /\ tag' = tag + 2
  /\ disp_q' = Tail(disp_q)
  /\ normal_dispatch' = normal_dispatch + 1
  /\ UNCHANGED <<traceVars, driverVars, stage, cycleVars, i, nop_dispatch,
                 fetch_count, fuVars, complete_vec>>

DispatchNop ==
  /\ stage = "dispatch" /\ CanDispatch /\ Head(disp_q) = NOP
  /\ disp_q' = Tail(disp_q)
  /\ nop_dispatch' = nop_dispatch + 1
  /\ UNCHANGED <<traceVars, driverVars, stage, cycleVars, i, normal_dispatch,
                 fetch_count, sche_q, rob, renameVars, fuVars, complete_vec>>

DispatchDone ==
  /\ stage = "dispatch" /\ ~CanDispatch
  /\ stage' = "fetch" /\ fetch_count' = 0
  /\ UNCHANGED <<traceVars, driverVars, cycleVars, i, normal_dispatch,
                 nop_dispatch, disp_q, sche_q, rob, renameVars, fuVars,
                 complete_vec>>

-----------------------------------------------------------------------------
(* Fetch: procsim::fetch calling procsim_driver_read_inst *)

CanOverfetch ==                                                 \* mutated form
  fetch_count < FETCH_WIDTH /\ Len(disp_q) <= DISPQ_ENTRIES
CanFetch == fetch_count < FETCH_WIDTH /\ Len(disp_q) < DISPQ_ENTRIES

(* The driver's answer, in the order of its tests. *)
ReadBlocked    == in_mispred
ReadMissing    == ~in_mispred /\ in_icache_miss
ReadEndOfTrace == ~in_mispred /\ ~in_icache_miss /\ fetch_inst_idx >= N
ReadPastMispredict == ~in_icache_miss /\ fetch_inst_idx < N     \* mutated form
ReadAvailable  == ~in_mispred /\ ~in_icache_miss /\ fetch_inst_idx < N

next_inst == fetch_inst_idx + 1
IcacheMiss(id) == insts[id].icache # "L1_HIT"

(* MISPRED or END_OF_TRACE: the slot is spent, nothing enters the queue. *)
FetchNothing ==
  /\ stage = "fetch" /\ CanFetch
  /\ ReadBlocked \/ ReadEndOfTrace
  /\ fetch_count' = fetch_count + 1
  /\ UNCHANGED <<traceVars, driverVars, stage, cycleVars, i, normal_dispatch,
                 nop_dispatch, disp_q, sche_q, rob, renameVars, fuVars,
                 complete_vec>>

(* ICACHE_MISS while the miss is served: a NOP enters the queue. *)
FetchNop ==
  /\ stage = "fetch" /\ CanFetch /\ ReadMissing
  /\ disp_q' = Append(disp_q, NOP)
  /\ fetch_count' = fetch_count + 1
  /\ UNCHANGED <<traceVars, driverVars, stage, cycleVars, i, normal_dispatch,
                 nop_dispatch, sche_q, rob, renameVars, fuVars, complete_vec>>

(* The next instruction misses: the counter starts and a NOP enters. *)
FetchMiss ==
  /\ stage = "fetch" /\ CanFetch /\ ReadAvailable
  /\ IcacheMiss(next_inst) /\ ~finished_miss
  /\ in_icache_miss' = TRUE
  /\ icache_miss_ctr' = LatencyCycles(insts[next_inst].icache)
  /\ disp_q' = Append(disp_q, NOP)
  /\ fetch_count' = fetch_count + 1
  /\ UNCHANGED <<traceVars, fetch_inst_idx, retired_inst_idx, in_mispred,
                 finished_miss, cycles_since_last_retire, stage, cycleVars, i,
                 normal_dispatch, nop_dispatch, sche_q, rob, renameVars,
                 fuVars, complete_vec>>

(* An instruction is handed out.  The prediction of a branch is any value  *)
(* here: it is the branch predictor's to choose.                           *)
FetchInst(prediction) ==
  /\ stage = "fetch" /\ CanFetch /\ ReadAvailable
  /\ IcacheMiss(next_inst) => finished_miss
  /\ finished_miss' = (finished_miss /\ ~IcacheMiss(next_inst))
  /\ LET wrong == /\ Op(next_inst) = "BRANCH"
                  /\ prediction # insts[next_inst].br_taken
                  /\ MISSES_ENABLED
     IN  /\ mispredict' = [mispredict EXCEPT ![next_inst] = wrong]
         /\ in_mispred' = wrong
  /\ fetch_inst_idx' = fetch_inst_idx + 1
  /\ disp_q' = Append(disp_q, next_inst)
  /\ fetch_count' = fetch_count + 1
  /\ UNCHANGED <<insts, retired_inst_idx, in_icache_miss, icache_miss_ctr,
                 cycles_since_last_retire, stage, cycleVars, i,
                 normal_dispatch, nop_dispatch, sche_q, rob, renameVars,
                 fuVars, complete_vec>>

FetchDone ==
  /\ stage = "fetch" /\ ~CanFetch
  /\ stage' = "end_cycle"
  /\ UNCHANGED <<traceVars, driverVars, cycleVars, loopVars, disp_q, sche_q,
                 rob, renameVars, fuVars, complete_vec>>

-----------------------------------------------------------------------------
(* End of cycle *)

(* The instruction cache miss is over: its counter reaches 0 this cycle.   *)
CounterAtZero == icache_miss_ctr \in {0, 1}                     \* mutated form
MissServed == in_icache_miss /\ icache_miss_ctr \in {0, 1}

(* Where fetching goes on after a mispredicted branch. *)
StaleRedirectIdx == retired_inst_idx                            \* mutated form
RedirectIdx == Retired

(* The rest of run_procsim's loop body, up to its next test of             *)
(* retired_inst_idx < n_insts.  A watchdog exit ends the program, so what  *)
(* it leaves undone is not told apart.                                     *)
EndCycle ==
  /\ stage = "end_cycle"
  /\ retired_inst_idx' = Retired
  /\ cycles_since_last_retire' =
       IF retire_count > 0 THEN 0 ELSE cycles_since_last_retire + 1
  /\ stage' = IF cycles_since_last_retire' = MAX_CYCLES THEN "deadlock"
              ELSE IF Retired < N THEN "retire" ELSE "finished"
  /\ fetch_inst_idx' =
       IF retired_mispredict THEN RedirectIdx ELSE fetch_inst_idx
  /\ in_mispred' = (in_mispred /\ ~retired_mispredict)
  /\ icache_miss_ctr' = IF icache_miss_ctr # 0 THEN icache_miss_ctr - 1 ELSE 0
  /\ in_icache_miss' = (in_icache_miss /\ ~MissServed)
  /\ finished_miss' = (finished_miss \/ MissServed)
  /\ retire_count' = 0 /\ retired_mispredict' = FALSE
  /\ UNCHANGED <<traceVars, loopVars, disp_q, sche_q, rob, renameVars, fuVars,
                 complete_vec>>

(* run_procsim has returned. *)
Terminated == stage \in {"finished", "deadlock"} /\ UNCHANGED vars

Retire   == RetireEntry \/ RetireDone
Exec     == AluCheck \/ MulCheck \/ LsuCheck \/ ExecDone \/ ResultBus
              \/ ResultBusDone
Schedule == ScheduleFire \/ ScheduleSkip \/ ScheduleDone
Dispatch == DispatchInst \/ DispatchNop \/ DispatchDone
Fetch    == FetchNothing \/ FetchNop \/ FetchMiss
              \/ (\E prediction \in BOOLEAN : FetchInst(prediction))
              \/ FetchDone

Next == Retire \/ Exec \/ Schedule \/ Dispatch \/ Fetch \/ EndCycle
          \/ Terminated

(* The program is one thread that runs until it returns. *)
Spec == Init /\ [][Next]_vars /\ WF_vars(Next)

-----------------------------------------------------------------------------
(* Type *)

Stage == {"retire", "alu", "mul", "lsu", "result_bus", "schedule", "dispatch",
          "fetch", "end_cycle", "finished", "deadlock"}

TraceTypeOK ==
  /\ insts \in [1 .. N -> Inst]
  /\ mispredict \in [1 .. N -> BOOLEAN]

DriverTypeOK ==
  /\ fetch_inst_idx \in Nat /\ retired_inst_idx \in Nat
  /\ in_mispred \in BOOLEAN /\ in_icache_miss \in BOOLEAN
  /\ icache_miss_ctr \in Nat /\ finished_miss \in BOOLEAN
  /\ cycles_since_last_retire \in Nat

LoopTypeOK ==
  /\ stage \in Stage /\ i \in Nat \ {0}
  /\ retire_count \in Nat /\ retired_mispredict \in BOOLEAN
  /\ normal_dispatch \in Nat /\ nop_dispatch \in Nat /\ fetch_count \in Nat

QueueTypeOK ==
  /\ disp_q \in Seq(0 .. N) /\ Len(disp_q) <= DISPQ_ENTRIES
  /\ sche_q \in Seq(SchedEntry) /\ Len(sche_q) <= SCHEDQ_ENTRIES
  /\ rob \in Seq(RobEntry) /\ Len(rob) <= ROB_ENTRIES
  /\ complete_vec \in Seq(FuEntry)

RenameTypeOK ==
  /\ rf \in [Reg -> RegEntry] /\ mat \in [MatReg -> RegEntry] /\ tag \in Nat

UnitTypeOK ==
  /\ alu \in [1 .. ALU_NUM -> FuEntry]
  /\ mul \in [1 .. MUL_NUM -> Seq(FuEntry)]
  /\ lsu \in [1 .. LSU_NUM -> FuEntry]
  /\ alu_current \in Int /\ lsu_current \in Int
  /\ mul_current \in 0 .. MUL_NUM

(* Every variable keeps its type, and the queues their capacities          *)
(* (schedule_queue::push, the loop guards of dispatch and fetch).          *)
TypeOK ==
  /\ TraceTypeOK /\ DriverTypeOK /\ LoopTypeOK
  /\ QueueTypeOK /\ RenameTypeOK /\ UnitTypeOK

-----------------------------------------------------------------------------
(* Program order *)

(* The ROB holds the instructions that follow the retired ones. *)
RobOrder == \A k \in 1 .. Len(rob) : rob[k].inst = Retired + k

(* The dispatch queue, NOPs aside, holds the instructions that follow      *)
(* those, up to the driver's fetch_inst_idx.                               *)
DispQOrder ==
  /\ \A j, k \in 1 .. Len(disp_q) :
       j < k /\ disp_q[j] # NOP /\ disp_q[k] # NOP => disp_q[j] < disp_q[k]
  /\ {disp_q[k] : k \in 1 .. Len(disp_q)} \ {NOP}
       = Dispatched + 1 .. fetch_inst_idx

(* No instruction is lost, duplicated or overtaken on its way from the     *)
(* trace to retirement, through redirects, stalls and cache misses.        *)
ProgramOrder == RobOrder /\ DispQOrder

(* An instruction keeps its reservation station from dispatch until its    *)
(* result has been broadcast (procsim.cpp, stage_schedule's contract), and *)
(* the queue stays in program order although erase takes out its middle.   *)
ReservationStations ==
  /\ \A j, k \in 1 .. Len(sche_q) : j < k => sche_q[j].inst < sche_q[k].inst
  /\ {sche_q[k].inst : k \in 1 .. Len(sche_q)}
       = {rob[k].inst : k \in {j \in 1 .. Len(rob) : ~rob[j].finished}}

-----------------------------------------------------------------------------
(* Branch misprediction and instruction cache misses *)

(* Nothing is fetched past a mispredicted branch until it retires: of the  *)
(* instructions in flight only the youngest may be mispredicted.           *)
NothingPastMispredict ==
  \A id \in Retired + 1 .. fetch_inst_idx - 1 : ~mispredict[id]

(* The code squashes nothing when a mispredicted branch retires: it only   *)
(* skips the other stages and redirects the driver.  That is right because *)
(* the machine is empty then, every register and alias class is ready, and *)
(* the redirect finds fetch_inst_idx where it belongs.                     *)
MispredictDrained ==
  retired_mispredict =>
    /\ rob = <<>> /\ sche_q = <<>> /\ disp_q = <<>> /\ complete_vec = <<>>
    /\ \A u \in 1 .. ALU_NUM : ~Busy(alu[u])
    /\ \A u \in 1 .. MUL_NUM : mul[u] = <<>>
    /\ \A u \in 1 .. LSU_NUM : ~Busy(lsu[u])
    /\ \A r \in Reg : rf[r].ready
    /\ \A m \in MatReg : mat[m].ready
    /\ in_mispred /\ fetch_inst_idx = Retired

(* The flag that lets an instruction through after its miss never outlives *)
(* that instruction: while it is set the next one to be fetched is the one *)
(* that missed, and no other miss is being served.                         *)
FinishedMissFresh ==
  finished_miss =>
    fetch_inst_idx < N /\ IcacheMiss(next_inst) /\ ~in_icache_miss

-----------------------------------------------------------------------------
(* Data dependences *)

Completed(id) ==
  id <= Retired \/ \E k \in 1 .. Len(rob) : rob[k].inst = id /\ rob[k].finished

(* Tomasulo's promise: when an instruction has fired, the instruction that *)
(* last writes each of its source registers before it in program order has *)
(* completed, though tags are reused, overwritten and matched by value.    *)
DataflowOrder ==
  \A k \in 1 .. Len(sche_q) : sche_q[k].scheduled =>
    \A w \in 1 .. sche_q[k].inst - 1 :
      ReadsFrom(sche_q[k].inst, w) => Completed(w)

(* Loads and stores of one alias class run one after the other: when one   *)
(* has fired, every earlier one has completed.                             *)
MemoryOrder ==
  \A k \in 1 .. Len(sche_q) : sche_q[k].scheduled =>
    \A w \in 1 .. sche_q[k].inst - 1 :
      SameClass(w, sche_q[k].inst) => Completed(w)

(* No broadcast is missed and none is heard by mistake: the stations hold  *)
(* an instruction back exactly as long as something it depends on has not  *)
(* completed, whether it entered before or after the result came by.       *)
NoLostWakeup ==
  \A k \in 1 .. Len(sche_q) : InstReady(sche_q[k]) <=>
    \A w \in 1 .. N : DependsOn(sche_q[k].inst, w) => Completed(w)

(* The register file and the alias table are a future file: an entry is    *)
(* ready exactly when the last dispatched instruction that claims it has   *)
(* completed, however many older claimants are still in flight.            *)
FutureFile ==
  /\ \A r \in Reg : rf[r].ready <=>
       \A w \in 1 .. Dispatched : LastWriter(w, Dispatched, r) => Completed(w)
  /\ \A m \in MatReg : mat[m].ready <=>
       \A w \in 1 .. Dispatched :
         IsLoadStore(w) /\ insts[w].ms = m => Completed(w)

-----------------------------------------------------------------------------
(* Function units *)

Occurrences(q, id) == Cardinality({k \in 1 .. Len(q) : q[k].inst = id})

(* How often instruction id is found in the units and among the results.   *)
Places(id) ==
  Occurrences(alu, id) + Occurrences(lsu, id) + Occurrences(complete_vec, id)
    + Cardinality(UNION {{u} \X {k \in 1 .. Len(mul[u]) : mul[u][k].inst = id}
                           : u \in 1 .. MUL_NUM})

(* A fired instruction is executing in exactly one place and an unfired    *)
(* one in none, so push never drops an instruction or overwrites one; the  *)
(* counters fu_has_room trusts agree with the slots.                       *)
FiredOnce ==
  /\ \A k \in 1 .. Len(sche_q) :
       Places(sche_q[k].inst) = IF sche_q[k].scheduled THEN 1 ELSE 0
  /\ \A id \in 1 .. N : Places(id) > 0 => Holds(sche_q, id)
  /\ alu_current = Cardinality({u \in 1 .. ALU_NUM : Busy(alu[u])})
  /\ lsu_current = Cardinality({u \in 1 .. LSU_NUM : Busy(lsu[u])})

(* Completion is tested with ==, so a count that skipped its value would   *)
(* never complete: no waiting entry has reached it, and only the front of  *)
(* a MUL pipeline needs the test because the entries behind it are younger.*)
CountsBelowLatency ==
  /\ \A u \in 1 .. ALU_NUM : Busy(alu[u]) => alu[u].fu_count < 1
  /\ \A u \in 1 .. LSU_NUM :
       Busy(lsu[u]) => lsu[u].fu_count < CyclesNeeded(lsu[u].inst)
  /\ \A u \in 1 .. MUL_NUM : \A k \in 1 .. Len(mul[u]) :
       /\ mul[u][k].fu_count < MUL_STAGES
       /\ k > 1 => mul[u][k].fu_count < mul[u][k - 1].fu_count

SameUnit(a, b) ==
  \/ IsAluOp(a) /\ IsAluOp(b)
  \/ IsMulOp(a) /\ IsMulOp(b)
  \/ IsLoadStore(a) /\ IsLoadStore(b)

(* "When multiple instructions are ready to fire in a given cycle, they    *)
(* must be fired in program order" (procsim.cpp, stage_schedule): when an  *)
(* entry fires, no older entry for the same kind of unit is left waiting   *)
(* although its operands are ready.                                        *)
OldestReadyFirst ==
  [][stage = "schedule" /\ sche_q' # sche_q =>
       \A j \in 1 .. Len(sche_q) :
         /\ sche_q[j].inst < sche_q[i].inst
         /\ SameUnit(sche_q[j].inst, sche_q[i].inst)
         /\ InstReady(sche_q[j])
         => sche_q[j].scheduled]_vars

-----------------------------------------------------------------------------
(* Progress *)

(* "It should never take this many cycles to retire something"             *)
(* (proj2_driver.cpp, run_procsim): the watchdog never ends a run.         *)
WatchdogQuiet == stage # "deadlock"

(* Every trace is simulated to its end. *)
Terminates == <>(stage = "finished")
=============================================================================
