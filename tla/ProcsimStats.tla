---------------------------- MODULE ProcsimStats ----------------------------
(***************************************************************************)
(* The statistics the processor prints (procsim_stats_t).  Each is counted *)
(* where one stage happens to stand: instructions_retired at the end of    *)
(* rob::retire, a misprediction after it, a cycle without a fire at the    *)
(* end of schedule, a full ROB at the end of dispatch, the queue lengths   *)
(* after every stage.  Nothing in the code compares them; here they are    *)
(* compared with one another and with what happened to each instruction.   *)
(***************************************************************************)
EXTENDS Procsim

VARIABLES
  stats,          \* procsim_stats_t
  fire_count,     \* the local variable of procsim::schedule
  dispatched_at, completed_at, retired_at, \* history: cycle, per instruction
  fired_in        \* history: the cycles in which an instruction fired

history   == <<dispatched_at, completed_at, retired_at, fired_in>>
statsVars == <<vars, stats, fire_count, history>>

Counter == {"cycles", "instructions_fetched", "instructions_retired",
            "no_fire_cycles", "rob_no_dispatch_cycles",
            "dispq_max_usage", "schedq_max_usage", "rob_max_usage",
            "dispq_total_usage", "schedq_total_usage", "rob_total_usage",
            "num_branch_instructions", "branch_mispredictions",
            "icache_misses", "dcache_misses", "instructions_in_trace"}

(* What read_entire_trace has counted before the first cycle. *)
MissesOf(cache) == Cardinality({id \in 1 .. N : insts[id][cache] # "L1_HIT"})
CountedByReader(c) ==
  CASE c = "icache_misses" -> MissesOf("icache")
    [] c = "dcache_misses" -> MissesOf("dcache")
    [] OTHER               -> 0

SInit ==
  /\ Init
  /\ stats = [c \in Counter |-> CountedByReader(c)]
  /\ fire_count = 0
  /\ dispatched_at = [id \in 1 .. N |-> 0]
  /\ completed_at = dispatched_at /\ retired_at = dispatched_at
  /\ fired_in = {}

One(condition) == IF condition THEN 1 ELSE 0

-----------------------------------------------------------------------------
(* rob::retire adds its local count when its loop is over, however it ends; *)
(* procsim_do_cycle counts the misprediction that ended it.                *)
RetireUncounted(last) ==                                        \* mutated form
  [stats EXCEPT
     !.num_branch_instructions = @ + One(last # 0 /\ Op(last) = "BRANCH"),
     !.branch_mispredictions = @ + One(retired_mispredict'),
     !.instructions_retired =
        @ + IF stage' = "alu" THEN retire_count' ELSE 0]

RetireCounted(last) ==
  [stats EXCEPT
     !.num_branch_instructions = @ + One(last # 0 /\ Op(last) = "BRANCH"),
     !.branch_mispredictions = @ + One(retired_mispredict'),
     !.instructions_retired =
        @ + IF stage' # "retire" THEN retire_count' ELSE 0]

SRetire ==
  /\ \/ /\ RetireEntry
        /\ stats' = RetireCounted(Head(rob).inst)
        /\ retired_at' = [retired_at EXCEPT ![Head(rob).inst] = stats.cycles]
     \/ /\ RetireDone
        /\ stats' = RetireCounted(0)
        /\ UNCHANGED retired_at
  /\ UNCHANGED <<fire_count, dispatched_at, completed_at, fired_in>>

SExec ==
  /\ \/ /\ AluCheck \/ MulCheck \/ LsuCheck \/ ExecDone
        /\ UNCHANGED <<completed_at, fire_count>>
     \/ /\ ResultBus
        /\ completed_at' =
             [completed_at EXCEPT ![Head(complete_vec).inst] = stats.cycles]
        /\ UNCHANGED fire_count
     \/ ResultBusDone /\ fire_count' = 0 /\ UNCHANGED completed_at
  /\ UNCHANGED <<stats, dispatched_at, retired_at, fired_in>>

SSchedule ==
  /\ \/ /\ ScheduleFire
        /\ fire_count' = fire_count + 1
        /\ fired_in' = fired_in \cup {stats.cycles}
        /\ UNCHANGED stats
     \/ ScheduleSkip /\ UNCHANGED <<fire_count, fired_in, stats>>
     \/ /\ ScheduleDone
        /\ stats' = [stats EXCEPT !.no_fire_cycles = @ + One(fire_count = 0)]
        /\ UNCHANGED <<fire_count, fired_in>>
  /\ UNCHANGED <<dispatched_at, completed_at, retired_at>>

StalledByAnything ==                                            \* mutated form
  normal_dispatch < FETCH_WIDTH /\ nop_dispatch < FETCH_WIDTH /\ disp_q # <<>>

(* dispatch's test for a stall "only due to rob full": every other         *)
(* condition of its loop still holds.                                      *)
StalledByRob ==
  /\ normal_dispatch < FETCH_WIDTH /\ nop_dispatch < FETCH_WIDTH
  /\ disp_q # <<>> /\ Len(sche_q) < SCHEDQ_ENTRIES

SDispatch ==
  /\ \/ /\ DispatchInst
        /\ dispatched_at' =
             [dispatched_at EXCEPT ![Head(disp_q)] = stats.cycles]
        /\ UNCHANGED stats
     \/ DispatchNop /\ UNCHANGED <<stats, dispatched_at>>
     \/ /\ DispatchDone
        /\ stats' = [stats EXCEPT !.rob_no_dispatch_cycles =
                                     @ + One(StalledByRob)]
        /\ UNCHANGED dispatched_at
  /\ UNCHANGED <<fire_count, completed_at, retired_at, fired_in>>

SFetch ==
  /\ \/ (FetchNothing \/ FetchNop \/ FetchMiss \/ FetchDone) /\ UNCHANGED stats
     \/ /\ \E prediction \in BOOLEAN : FetchInst(prediction)
        /\ stats' = [stats EXCEPT !.instructions_fetched = @ + 1]
  /\ UNCHANGED <<fire_count, history>>

MaxOf(a, b) == IF a > b THEN a ELSE b

(* The end of procsim_do_cycle, which a mispredicted retirement does not   *)
(* skip, and what run_procsim adds when its loop is over.                  *)
CycleSkipped ==                                                 \* mutated form
  IF retired_mispredict THEN stats ELSE [stats EXCEPT !.cycles = @ + 1]
UsageOfRobTwice ==                                              \* mutated form
  [stats EXCEPT
     !.cycles = @ + 1,
     !.schedq_total_usage = @ + Len(rob),
     !.rob_total_usage    = @ + Len(rob)]

CycleCounted ==
  [stats EXCEPT
     !.cycles = @ + 1,
     !.dispq_max_usage  = MaxOf(@, Len(disp_q)),
     !.schedq_max_usage = MaxOf(@, Len(sche_q)),
     !.rob_max_usage    = MaxOf(@, Len(rob)),
     !.dispq_total_usage  = @ + Len(disp_q),
     !.schedq_total_usage = @ + Len(sche_q),
     !.rob_total_usage    = @ + Len(rob),
     !.instructions_in_trace = IF stage' = "finished" THEN N ELSE @]

SEndCycle ==
  /\ EndCycle
  /\ stats' = CycleCounted
  /\ UNCHANGED <<fire_count, history>>

SNext ==
  \/ SRetire \/ SExec \/ SSchedule \/ SDispatch \/ SFetch \/ SEndCycle
  \/ Terminated /\ UNCHANGED <<stats, fire_count, history>>

SSpec == SInit /\ [][SNext]_statsVars

-----------------------------------------------------------------------------
(* Between two calls of procsim_do_cycle, where the statistics are read. *)
CycleBoundary ==
  \/ stage = "finished"
  \/ stage = "retire" /\ retire_count = 0

(* The sum of a time over the first n instructions. *)
Total(time, n) ==
  LET sum[k \in 0 .. n] == IF k = 0 THEN 0 ELSE sum[k - 1] + time[k]
  IN  sum[n]

(* The processor's counters and the driver's indices, kept apart by two    *)
(* files, tell one story: every instruction handed out and every one       *)
(* retired is counted once, in a cycle that ends with a misprediction too. *)
StatsMatchDriver ==
  CycleBoundary =>
    /\ stats.instructions_retired = retired_inst_idx
    /\ stats.instructions_fetched = fetch_inst_idx
    /\ stats.num_branch_instructions
         = Cardinality({id \in 1 .. Retired : Op(id) = "BRANCH"})
    /\ stats.branch_mispredictions
         = Cardinality({id \in 1 .. Retired : mispredict[id]})

(* Every cycle is one of three kinds, each seen by a different stage: it   *)
(* retired a misprediction, it fired nothing, or it fired something.       *)
CyclesAccounted ==
  CycleBoundary =>
    stats.cycles = stats.branch_mispredictions + stats.no_fire_cycles
                     + Cardinality(fired_in)

(* The cycles instruction id has spent in the ROB and in a reservation     *)
(* station: up to now, when it is still there.                             *)
Until(over, cycle) == IF over THEN cycle ELSE stats.cycles
TimeInRob ==
  [id \in 1 .. N |-> Until(id <= Retired, retired_at[id]) - dispatched_at[id]]
TimeInSchedQ ==
  [id \in 1 .. N |->
     Until(Completed(id), completed_at[id]) - dispatched_at[id]]

(* Little's law: the sum of the ROB's lengths at the ends of the cycles is *)
(* the sum of the cycles each instruction spent between its dispatch and   *)
(* its retirement, and that of the schedule queue's lengths the sum of the *)
(* cycles between dispatch and result.  The averages are these divided by  *)
(* the cycles.                                                             *)
UsageIsResidence ==
  CycleBoundary =>
    /\ stats.rob_total_usage = Total(TimeInRob, Dispatched)
    /\ stats.schedq_total_usage = Total(TimeInSchedQ, Dispatched)

(* "add cycles which stop only due to rob full" (procsim.hpp, dispatch):   *)
(* although the test that counts a stall does not look at the ROB, a       *)
(* counted stall is a full ROB, which the maximum taken later in the same  *)
(* cycle still sees.                                                       *)
StallMeansFullRob ==
  CycleBoundary /\ stats.rob_no_dispatch_cycles > 0 =>
    stats.rob_max_usage = ROB_ENTRIES
=============================================================================
