------------------------- MODULE ProcsimStatsProofs -------------------------
(***************************************************************************)
(* What is attached to the pipeline, for every trace, predictor and        *)
(* configuration.  The statistics: the counters of procsim_stats_t agree   *)
(* with the driver's indices, every cycle is counted by exactly one stage, *)
(* a counted dispatch stall is a full ROB, and the usage sums are the times*)
(* the instructions spent in the queues.  The branch predictor: what it has*)
(* learned when it is asked.                                               *)
(***************************************************************************)
EXTENDS ProcsimStats, ProcsimBranch, ProcsimUnitProofs

-----------------------------------------------------------------------------
(* Sums *)

(* A recursive definition of Total has a solution ... *)
IsSum(g, time, n) ==
  g = [k \in 0 .. n |-> IF k = 0 THEN 0 ELSE g[k - 1] + time[k]]

LEMMA SumExists ==
  ASSUME NEW time, NEW n \in Nat
  PROVE  \E g : IsSum(g, time, n)
<1> DEFINE S == {m \in Nat : ~ \E g : IsSum(g, time, m)}
<1> SUFFICES ASSUME S # {} PROVE FALSE  OBVIOUS
<1>1. PICK m \in S : \A k \in S : m <= k  BY MinNat
<1>2. CASE m = 0
  <2> DEFINE g == [k \in 0 .. 0 |-> 0]
  <2>1. IsSum(g, time, 0)  BY DEF IsSum
  <2> QED  BY <1>2, <2>1
<1>3. CASE m # 0
  <2>1. m \in Nat /\ m - 1 \in Nat /\ ~(m <= m - 1)  BY <1>3
  <2>2. PICK g : IsSum(g, time, m - 1)  BY <1>1, <2>1
  <2> DEFINE h == [k \in 0 .. m |-> IF k = m THEN g[m - 1] + time[m] ELSE g[k]]
  <2>3. \A k \in 0 .. m - 1 :
          g[k] = IF k = 0 THEN 0 ELSE g[k - 1] + time[k]
    BY <2>1, <2>2 DEF IsSum
  <2>4. \A k \in 0 .. m : h[k] = IF k = 0 THEN 0 ELSE h[k - 1] + time[k]
    <3> SUFFICES ASSUME NEW k \in 0 .. m
                 PROVE  h[k] = IF k = 0 THEN 0 ELSE h[k - 1] + time[k]
      OBVIOUS
    <3>1. CASE k = m
      <4>1. m - 1 \in 0 .. m /\ m - 1 # m /\ m \in 0 .. m  BY <2>1
      <4>2. h[m - 1] = g[m - 1] /\ h[m] = g[m - 1] + time[m]  BY <4>1
      <4> QED  BY <1>3, <3>1, <4>2
    <3>2. CASE k # m
      <4>1. k \in 0 .. m - 1 /\ h[k] = g[k]  BY <2>1, <3>2
      <4>2. k # 0 => k - 1 \in 0 .. m /\ k - 1 # m  BY <4>1, <2>1
      <4>3. k # 0 => h[k - 1] = g[k - 1]  BY <4>2
      <4> QED  BY <2>3, <4>1, <4>3
    <3> QED  BY <3>1, <3>2
  <2>5. h = [k \in 0 .. m |-> h[k]]  OBVIOUS
  <2> HIDE DEF h
  <2>6. IsSum(h, time, m)  BY <2>4, <2>5 DEF IsSum
  <2> QED  BY <1>1, <2>6
<1> QED  BY <1>2, <1>3

(* ... and only one. *)
LEMMA SumsAgree ==
  ASSUME NEW time, NEW n \in Nat, NEW m \in Nat, n <= m, NEW g, NEW h,
         IsSum(g, time, n), IsSum(h, time, m)
  PROVE  g[n] = h[n]
<1> DEFINE S == {k \in 0 .. n : g[k] # h[k]}
<1>1. \A k \in 0 .. n : g[k] = IF k = 0 THEN 0 ELSE g[k - 1] + time[k]
  BY DEF IsSum
<1>2. \A k \in 0 .. m : h[k] = IF k = 0 THEN 0 ELSE h[k - 1] + time[k]
  BY DEF IsSum
<1> SUFFICES ASSUME S # {} PROVE FALSE  OBVIOUS
<1>3. PICK k \in S : \A j \in S : k <= j
  <2>1. S \subseteq Nat  OBVIOUS
  <2> QED  BY <2>1, MinNat
<1>4. k \in 0 .. n /\ k \in 0 .. m /\ g[k] # h[k]  OBVIOUS
<1>5. k # 0  BY <1>1, <1>2, <1>4
<1>6. k - 1 \in 0 .. n /\ ~(k <= k - 1)  BY <1>4, <1>5
<1>7. g[k - 1] = h[k - 1]  BY <1>3, <1>6
<1> QED  BY <1>1, <1>2, <1>4, <1>5, <1>7

(* The equations of Total. *)
LEMMA TotalEquations ==
  ASSUME NEW time
  PROVE  /\ Total(time, 0) = 0
         /\ \A n \in Nat : Total(time, n + 1) = Total(time, n) + time[n + 1]
<1> DEFINE Sum(n) == CHOOSE g : IsSum(g, time, n)
<1>1. \A n : Total(time, n) = Sum(n)[n]  BY DEF Total, IsSum
<1>2. \A n \in Nat : IsSum(Sum(n), time, n)  BY SumExists
<1> HIDE DEF Sum
<1>3. \A n \in Nat : \A k \in 0 .. n :
        Sum(n)[k] = IF k = 0 THEN 0 ELSE Sum(n)[k - 1] + time[k]
  BY <1>2 DEF IsSum
<1>4. Total(time, 0) = 0  BY <1>1, <1>3
<1>5. ASSUME NEW n \in Nat
      PROVE  Total(time, n + 1) = Total(time, n) + time[n + 1]
  <2>1. n + 1 \in Nat /\ n + 1 \in 0 .. n + 1 /\ n + 1 # 0 /\ (n + 1) - 1 = n
        /\ n <= n + 1
    OBVIOUS
  <2>2. Sum(n + 1)[n + 1] = Sum(n + 1)[n] + time[n + 1]  BY <1>3, <2>1
  <2>3. Sum(n)[n] = Sum(n + 1)[n]  BY <1>2, <2>1, SumsAgree
  <2> QED  BY <1>1, <2>2, <2>3
<1> QED  BY <1>4, <1>5

(* Adding 1 to the times of the instructions in U adds their number to the *)
(* sum.                                                                    *)
LEMMA TotalAdded ==
  ASSUME NEW f, NEW g, NEW U, NEW n \in Nat,
         \A k \in 1 .. n : f[k] \in Int,
         \A k \in 1 .. n : g[k] = f[k] + (IF k \in U THEN 1 ELSE 0)
  PROVE  /\ Total(f, n) \in Int
         /\ Total(g, n) = Total(f, n) + Cardinality(U \cap (1 .. n))
<1> DEFINE Good(m) == /\ Total(f, m) \in Int
                      /\ Total(g, m) = Total(f, m)
                                         + Cardinality(U \cap (1 .. m))
           S == {m \in 0 .. n : ~Good(m)}
<1>1. n \in 0 .. n  OBVIOUS
<1>2. SUFFICES ASSUME S # {} PROVE FALSE
  <2>1. CASE S = {}
    <3>1. Good(n)  BY <1>1, <2>1
    <3> QED  BY <3>1
  <2> QED  BY <2>1
<1>3. PICK m \in S : \A k \in S : m <= k
  <2>1. S \subseteq Nat  OBVIOUS
  <2> QED  BY <1>2, <2>1, MinNat
<1>4. CASE m = 0
  <2>1. U \cap (1 .. 0) = {}  OBVIOUS
  <2>2. Good(0)  BY <2>1, TotalEquations, FS_EmptySet
  <2> QED  BY <1>3, <1>4, <2>2
<1>5. CASE m # 0
  <2>1. m \in 1 .. n /\ m - 1 \in Nat /\ m - 1 \in 0 .. n /\ ~(m <= m - 1)
        /\ (m - 1) + 1 = m
    BY <1>5
  <2>2. Good(m - 1)  BY <1>3, <2>1
  <2>3. /\ Total(f, m) = Total(f, m - 1) + f[m]
        /\ Total(g, m) = Total(g, m - 1) + g[m]
    BY <2>1, TotalEquations
  <2> DEFINE V == U \cap (1 .. m - 1)
  <2>4. U \cap (1 .. m) = IF m \in U THEN V \cup {m} ELSE V  BY <2>1
  <2>5. m \notin V  BY <2>1
  <2>6. IsFiniteSet(V)
    <3>1. IsFiniteSet(1 .. m - 1)  BY <2>1, FS_Interval
    <3>2. V \in SUBSET (1 .. m - 1)  OBVIOUS
    <3> QED  BY <3>1, <3>2, FS_Subset
  <2>7. Cardinality(V) \in Nat  BY <2>6, FS_CardinalityType
  <2>8. Cardinality(V \cup {m}) = Cardinality(V) + 1
    BY <2>5, <2>6, FS_AddElement
  <2>9. Total(f, m - 1) \in Int
        /\ Total(g, m - 1) = Total(f, m - 1) + Cardinality(V)
    BY <2>2
  <2>10. f[m] \in Int /\ g[m] = f[m] + (IF m \in U THEN 1 ELSE 0)  BY <2>1
  <2> HIDE DEF V
  <2>11. CASE m \in U
    <3>1. Cardinality(U \cap (1 .. m)) = Cardinality(V) + 1
      BY <2>4, <2>8, <2>11
    <3>2. g[m] = f[m] + 1  BY <2>10, <2>11
    <3>3. Good(m)  BY <2>3, <2>7, <2>9, <2>10, <3>1, <3>2
    <3> QED  BY <1>3, <3>3
  <2>12. CASE m \notin U
    <3>1. Cardinality(U \cap (1 .. m)) = Cardinality(V)  BY <2>4, <2>12
    <3>2. g[m] = f[m]  BY <2>10, <2>12
    <3>3. Good(m)  BY <2>3, <2>7, <2>9, <2>10, <3>1, <3>2
    <3> QED  BY <1>3, <3>3
  <2> QED  BY <2>11, <2>12
<1> QED  BY <1>4, <1>5

LEMMA TotalSame ==
  ASSUME NEW f, NEW g, NEW n \in Nat, \A k \in 1 .. n : f[k] \in Int,
         \A k \in 1 .. n : g[k] = f[k]
  PROVE  Total(f, n) \in Int /\ Total(g, n) = Total(f, n)
<1> DEFINE U == {}
<1>1. \A k \in 1 .. n : g[k] = f[k] + (IF k \in U THEN 1 ELSE 0)  OBVIOUS
<1>2. Cardinality(U \cap (1 .. n)) = 0
  <2>1. U \cap (1 .. n) = {}  OBVIOUS
  <2> QED  BY <2>1, FS_EmptySet
<1> HIDE DEF U
<1>3. /\ Total(f, n) \in Int
      /\ Total(g, n) = Total(f, n) + Cardinality(U \cap (1 .. n))
  BY <1>1, TotalAdded
<1> QED  BY <1>2, <1>3

-----------------------------------------------------------------------------
(* The processor underneath *)

(* The statistics watch the processor and never hold it back or push it:   *)
(* every step is one of Procsim's.                                         *)
LEMMA StatsStep == [SNext]_statsVars => [Next]_vars
BY DEF SNext, SRetire, SExec, SSchedule, SDispatch, SFetch, SEndCycle, Next,
  Retire, Exec, Schedule, Dispatch, Fetch, statsVars

(* Of what is proved of the processor, what the statistics rest on.        *)
Machine == /\ TypeOK /\ OrderInv /\ StationOrder /\ DataInv
           /\ PlacesOK /\ CountersOK

LEMMA MachineHolds == SSpec => []Machine
<1>1. SInit => Machine
  BY InitType, OrderInit, StationOrderInit, DataInit, PlacesInit
     DEF SInit, Machine
<1>2. Machine /\ [SNext]_statsVars => Machine'
  BY StatsStep, StepType, OrderStep, StationOrderStep, DataStep, PlacesStep
     DEF Machine
<1> QED  BY <1>1, <1>2, PTL DEF SSpec

-----------------------------------------------------------------------------
(* Counters *)

HistoryOK ==
  /\ dispatched_at \in [1 .. N -> Nat] /\ completed_at \in [1 .. N -> Nat]
  /\ retired_at \in [1 .. N -> Nat]

StatsTypeOK == /\ stats \in [Counter -> Nat] /\ fire_count \in Nat
               /\ HistoryOK

LEMMA OneType == \A condition : One(condition) \in {0, 1}
BY DEF One

(* What rob::retire and procsim_do_cycle add to the counters. *)
LEMMA RetireCounters ==
  ASSUME stats \in [Counter -> Nat], NEW last, retire_count' \in Nat,
         stats' = RetireCounted(last)
  PROVE  /\ stats' \in [Counter -> Nat]
         /\ stats'.num_branch_instructions
              = stats.num_branch_instructions
                  + One(last # 0 /\ Op(last) = "BRANCH")
         /\ stats'.branch_mispredictions
              = stats.branch_mispredictions + One(retired_mispredict')
         /\ stats'.instructions_retired
              = stats.instructions_retired
                  + IF stage' # "retire" THEN retire_count' ELSE 0
         /\ \A c \in Counter \ {"num_branch_instructions",
                                "branch_mispredictions",
                                "instructions_retired"} : stats'[c] = stats[c]
<1> DEFINE b == One(last # 0 /\ Op(last) = "BRANCH")
           m == One(retired_mispredict')
           r == IF stage' # "retire" THEN retire_count' ELSE 0
<1>1. b \in Nat /\ m \in Nat /\ r \in Nat  BY OneType
<1>2. stats' = [stats EXCEPT !.num_branch_instructions = @ + b,
                             !.branch_mispredictions = @ + m,
                             !.instructions_retired = @ + r]
  BY DEF RetireCounted
<1> HIDE DEF b, m, r
<1>3. stats'.num_branch_instructions = stats.num_branch_instructions + b
  BY <1>1, <1>2 DEF Counter
<1>4. stats'.branch_mispredictions = stats.branch_mispredictions + m
  BY <1>1, <1>2 DEF Counter
<1>5. stats'.instructions_retired = stats.instructions_retired + r
  BY <1>1, <1>2 DEF Counter
<1>6. \A c \in Counter \ {"num_branch_instructions", "branch_mispredictions",
                          "instructions_retired"} : stats'[c] = stats[c]
  BY <1>1, <1>2 DEF Counter
<1>7. \A c \in Counter : stats'[c] \in Nat
  BY <1>1, <1>3, <1>4, <1>5, <1>6 DEF Counter
<1>8. stats' \in [Counter -> Nat]
  <2>1. stats' = [c \in Counter |-> stats'[c]]
    BY <1>2
  <2> QED  BY <1>7, <2>1
<1> QED  BY <1>3, <1>4, <1>5, <1>6, <1>8 DEF b, m, r

LEMMA EndCounters ==
  ASSUME stats \in [Counter -> Nat], stats' = CycleCounted,
         Len(disp_q) \in Nat, Len(sche_q) \in Nat, Len(rob) \in Nat
  PROVE  /\ stats' \in [Counter -> Nat]
         /\ stats'.cycles = stats.cycles + 1
         /\ stats'.rob_max_usage = MaxOf(stats.rob_max_usage, Len(rob))
         /\ stats'.rob_total_usage = stats.rob_total_usage + Len(rob)
         /\ stats'.schedq_total_usage = stats.schedq_total_usage + Len(sche_q)
         /\ \A c \in {"instructions_fetched", "instructions_retired",
                      "no_fire_cycles", "rob_no_dispatch_cycles",
                      "num_branch_instructions", "branch_mispredictions"} :
              stats'[c] = stats[c]
<1> DEFINE d == MaxOf(stats.dispq_max_usage, Len(disp_q))
           q == MaxOf(stats.schedq_max_usage, Len(sche_q))
           r == MaxOf(stats.rob_max_usage, Len(rob))
           t == IF stage' = "finished" THEN N ELSE stats.instructions_in_trace
<1>1. d \in Nat /\ q \in Nat /\ r \in Nat /\ t \in Nat
  BY TraceAssumption DEF MaxOf, Counter
<1>2. stats' = [stats EXCEPT !.cycles = @ + 1,
                             !.dispq_max_usage = d,
                             !.schedq_max_usage = q,
                             !.rob_max_usage = r,
                             !.dispq_total_usage = @ + Len(disp_q),
                             !.schedq_total_usage = @ + Len(sche_q),
                             !.rob_total_usage = @ + Len(rob),
                             !.instructions_in_trace = t]
  BY DEF CycleCounted
<1> HIDE DEF d, q, r, t
<1>3. stats'.cycles = stats.cycles + 1  BY <1>2 DEF Counter
<1>4. stats'.rob_max_usage = r  BY <1>2 DEF Counter
<1>5. stats'.rob_total_usage = stats.rob_total_usage + Len(rob)
  BY <1>2 DEF Counter
<1>6. stats'.schedq_total_usage = stats.schedq_total_usage + Len(sche_q)
  BY <1>2 DEF Counter
<1>7. /\ stats'.dispq_max_usage = d /\ stats'.schedq_max_usage = q
      /\ stats'.dispq_total_usage = stats.dispq_total_usage + Len(disp_q)
  BY <1>2 DEF Counter
<1>8. /\ stats'.instructions_in_trace = t
      /\ stats'.icache_misses = stats.icache_misses
      /\ stats'.dcache_misses = stats.dcache_misses
  BY <1>2 DEF Counter
<1>9. \A c \in {"instructions_fetched", "instructions_retired",
                "no_fire_cycles", "rob_no_dispatch_cycles",
                "num_branch_instructions", "branch_mispredictions"} :
        stats'[c] = stats[c]
  BY <1>2 DEF Counter
<1>10. \A c \in Counter : stats'[c] \in Nat
  <2>1. \A c \in Counter : stats[c] \in Nat  OBVIOUS
  <2>2. /\ stats.cycles \in Nat /\ stats.dispq_total_usage \in Nat
        /\ stats.schedq_total_usage \in Nat /\ stats.rob_total_usage \in Nat
    BY <2>1 DEF Counter
  <2>3. /\ stats'.cycles \in Nat /\ stats'.dispq_total_usage \in Nat
        /\ stats'.schedq_total_usage \in Nat /\ stats'.rob_total_usage \in Nat
    BY <1>3, <1>5, <1>6, <1>7, <2>2
  <2>4. /\ stats'.dispq_max_usage \in Nat /\ stats'.schedq_max_usage \in Nat
        /\ stats'.rob_max_usage \in Nat /\ stats'.instructions_in_trace \in Nat
    BY <1>1, <1>4, <1>7, <1>8
  <2>5. stats'.icache_misses \in Nat /\ stats'.dcache_misses \in Nat
    BY <1>8, <2>1 DEF Counter
  <2> QED  BY <1>9, <2>1, <2>3, <2>4, <2>5 DEF Counter
<1>11. stats' \in [Counter -> Nat]
  <2>1. stats' = [c \in Counter |-> stats'[c]]  BY <1>2
  <2> QED  BY <1>10, <2>1
<1> QED  BY <1>3, <1>4, <1>5, <1>6, <1>9, <1>11 DEF r

LEMMA Incremented ==
  ASSUME NEW s \in [Counter -> Nat], NEW f \in Counter, NEW n \in Nat
  PROVE  /\ [s EXCEPT ![f] = @ + n] \in [Counter -> Nat]
         /\ [s EXCEPT ![f] = @ + n][f] = s[f] + n
         /\ \A c \in Counter \ {f} : [s EXCEPT ![f] = @ + n][c] = s[c]
OBVIOUS

(* The steps of a cycle, told apart by what they count. *)
CountFire ==
  /\ ScheduleDone /\ UNCHANGED <<fire_count, history>>
  /\ stats' = [stats EXCEPT !["no_fire_cycles"] = @ + One(fire_count = 0)]
CountStall ==
  /\ DispatchDone /\ UNCHANGED <<fire_count, history>>
  /\ stats' = [stats EXCEPT !["rob_no_dispatch_cycles"]
                              = @ + One(StalledByRob)]
CountFetch ==
  /\ \E prediction \in BOOLEAN : FetchInst(prediction)
  /\ UNCHANGED <<fire_count, history>>
  /\ stats' = [stats EXCEPT !["instructions_fetched"] = @ + 1]
CountNothing ==
  /\ \/ SExec
     \/ SSchedule /\ (ScheduleFire \/ ScheduleSkip)
     \/ SDispatch /\ (DispatchInst \/ DispatchNop)
     \/ /\ FetchNothing \/ FetchNop \/ FetchMiss \/ FetchDone \/ Terminated
             \/ UNCHANGED vars
        /\ UNCHANGED <<fire_count, history>>
  /\ UNCHANGED stats

LEMMA CountingSteps ==
  ASSUME [SNext]_statsVars
  PROVE  SRetire \/ CountFire \/ CountStall \/ CountFetch \/ SEndCycle
           \/ CountNothing
<1>1. CASE SRetire  BY <1>1
<1>2. CASE SExec
  <2>1. UNCHANGED stats  BY <1>2 DEF SExec
  <2> QED  BY <1>2, <2>1 DEF CountNothing
<1>3. CASE SSchedule
  <2>1. CASE ScheduleDone
    <3>1. ~ScheduleFire /\ ~ScheduleSkip
      BY <2>1 DEF ScheduleDone, ScheduleFire, ScheduleSkip
    <3> QED  BY <1>3, <2>1, <3>1 DEF SSchedule, history, CountFire
  <2>2. CASE ~ScheduleDone
    <3>1. (ScheduleFire \/ ScheduleSkip) /\ UNCHANGED stats
      BY <1>3, <2>2 DEF SSchedule
    <3> QED  BY <1>3, <3>1 DEF CountNothing
  <2> QED  BY <2>1, <2>2
<1>4. CASE SDispatch
  <2>1. CASE DispatchDone
    <3>1. ~DispatchInst /\ ~DispatchNop
      BY <2>1 DEF DispatchDone, DispatchInst, DispatchNop
    <3> QED  BY <1>4, <2>1, <3>1 DEF SDispatch, history, CountStall
  <2>2. CASE ~DispatchDone
    <3>1. (DispatchInst \/ DispatchNop) /\ UNCHANGED stats
      BY <1>4, <2>2 DEF SDispatch
    <3> QED  BY <1>4, <3>1 DEF CountNothing
  <2> QED  BY <2>1, <2>2
<1>5. CASE SFetch  BY <1>5 DEF SFetch, CountFetch, CountNothing
<1>6. CASE SEndCycle  BY <1>6
<1>7. CASE Terminated /\ UNCHANGED <<stats, fire_count, history>>
  BY <1>7 DEF CountNothing
<1>8. CASE UNCHANGED statsVars  BY <1>8 DEF CountNothing, statsVars
<1> QED  BY <1>1, <1>2, <1>3, <1>4, <1>5, <1>6, <1>7, <1>8 DEF SNext

(* Before the first cycle only the misses of the trace have been counted.  *)
LEMMA ReaderCounts ==
  ASSUME SInit
  PROVE  /\ stats \in [Counter -> Nat]
         /\ \A c \in Counter \ {"icache_misses", "dcache_misses"} : stats[c] = 0
<1>1. stats = [c \in Counter |-> CountedByReader(c)]  BY DEF SInit
<1>2. \A cache : MissesOf(cache) \in Nat
  <2> TAKE cache
  <2> DEFINE M == {id \in 1 .. N : insts[id][cache] # "L1_HIT"}
  <2>1. M \subseteq 1 .. N /\ IsFiniteSet(1 .. N)
    BY TraceAssumption, FS_Interval
  <2>2. IsFiniteSet(M)  BY <2>1, FS_Subset
  <2> QED  BY <2>2, FS_CardinalityType DEF MissesOf
<1>3. \A c \in Counter : CountedByReader(c) \in Nat
  BY <1>2 DEF CountedByReader
<1>4. \A c \in Counter \ {"icache_misses", "dcache_misses"} :
        CountedByReader(c) = 0
  BY DEF CountedByReader
<1> QED  BY <1>1, <1>3, <1>4

LEMMA StatsTypeInit == SInit => StatsTypeOK
<1> SUFFICES ASSUME SInit PROVE StatsTypeOK  OBVIOUS
<1>1. stats \in [Counter -> Nat]  BY ReaderCounts
<1> QED  BY <1>1, TraceAssumption DEF SInit, StatsTypeOK, HistoryOK

(* The history keeps its type, whatever the step. *)
LEMMA HistoryStep ==
  ASSUME TypeOK, StatsTypeOK, [SNext]_statsVars
  PROVE  HistoryOK' /\ fire_count' \in Nat
<1>1. stats.cycles \in Nat  BY DEF StatsTypeOK, Counter
<1>2. ASSUME NEW f \in [1 .. N -> Nat], NEW x, NEW n \in Nat
      PROVE  [f EXCEPT ![x] = n] \in [1 .. N -> Nat]
  OBVIOUS
<1>3. dispatched_at' \in [1 .. N -> Nat]
  <2>1. \/ dispatched_at' = dispatched_at
        \/ dispatched_at' =
             [dispatched_at EXCEPT ![Head(disp_q)] = stats.cycles]
    BY DEF SNext, SRetire, SExec, SSchedule, SDispatch, SFetch, SEndCycle,
      statsVars, history
  <2> QED  BY <1>1, <1>2, <2>1 DEF StatsTypeOK, HistoryOK
<1>4. completed_at' \in [1 .. N -> Nat]
  <2>1. \/ completed_at' = completed_at
        \/ completed_at' =
             [completed_at EXCEPT ![Head(complete_vec).inst] = stats.cycles]
    BY DEF SNext, SRetire, SExec, SSchedule, SDispatch, SFetch, SEndCycle,
      statsVars, history
  <2> QED  BY <1>1, <1>2, <2>1 DEF StatsTypeOK, HistoryOK
<1>5. retired_at' \in [1 .. N -> Nat]
  <2>1. \/ retired_at' = retired_at
        \/ retired_at' = [retired_at EXCEPT ![Head(rob).inst] = stats.cycles]
    BY DEF SNext, SRetire, SExec, SSchedule, SDispatch, SFetch, SEndCycle,
      statsVars, history
  <2> QED  BY <1>1, <1>2, <2>1 DEF StatsTypeOK, HistoryOK
<1>6. fire_count' \in Nat
  <2>1. fire_count' \in {fire_count, 0, fire_count + 1}
    BY DEF SNext, SRetire, SExec, SSchedule, SDispatch, SFetch, SEndCycle,
      statsVars
  <2> QED  BY <2>1 DEF StatsTypeOK
<1> QED  BY <1>3, <1>4, <1>5, <1>6 DEF HistoryOK

LEMMA LengthTypes ==
  ASSUME TypeOK
  PROVE  Len(disp_q) \in Nat /\ Len(sche_q) \in Nat /\ Len(rob) \in Nat
BY LenProperties DEF TypeOK, QueueTypeOK

LEMMA FireCounters ==
  ASSUME StatsTypeOK, CountFire
  PROVE  /\ stats' \in [Counter -> Nat]
         /\ stats'.no_fire_cycles = stats.no_fire_cycles + One(fire_count = 0)
         /\ \A c \in Counter \ {"no_fire_cycles"} : stats'[c] = stats[c]
<1> DEFINE n == One(fire_count = 0)
<1>1. n \in Nat  BY OneType
<1>2. stats' = [stats EXCEPT !["no_fire_cycles"] = @ + n]  BY DEF CountFire
<1>3. "no_fire_cycles" \in Counter /\ stats \in [Counter -> Nat]
  BY DEF Counter, StatsTypeOK
<1> HIDE DEF n
<1>4. /\ stats' \in [Counter -> Nat]
      /\ stats'["no_fire_cycles"] = stats["no_fire_cycles"] + n
      /\ \A c \in Counter \ {"no_fire_cycles"} : stats'[c] = stats[c]
  BY <1>1, <1>2, <1>3, Incremented
<1> QED  BY <1>4 DEF n

LEMMA StallCounters ==
  ASSUME StatsTypeOK, CountStall
  PROVE  /\ stats' \in [Counter -> Nat]
         /\ stats'.rob_no_dispatch_cycles = stats.rob_no_dispatch_cycles + One(StalledByRob)
         /\ \A c \in Counter \ {"rob_no_dispatch_cycles"} : stats'[c] = stats[c]
<1> DEFINE n == One(StalledByRob)
<1>1. n \in Nat  BY OneType
<1>2. stats' = [stats EXCEPT !["rob_no_dispatch_cycles"] = @ + n]  BY DEF CountStall
<1>3. "rob_no_dispatch_cycles" \in Counter /\ stats \in [Counter -> Nat]
  BY DEF Counter, StatsTypeOK
<1> HIDE DEF n
<1>4. /\ stats' \in [Counter -> Nat]
      /\ stats'["rob_no_dispatch_cycles"] = stats["rob_no_dispatch_cycles"] + n
      /\ \A c \in Counter \ {"rob_no_dispatch_cycles"} : stats'[c] = stats[c]
  BY <1>1, <1>2, <1>3, Incremented
<1> QED  BY <1>4 DEF n

LEMMA FetchCounters ==
  ASSUME StatsTypeOK, CountFetch
  PROVE  /\ stats' \in [Counter -> Nat]
         /\ stats'.instructions_fetched = stats.instructions_fetched + 1
         /\ \A c \in Counter \ {"instructions_fetched"} : stats'[c] = stats[c]
<1> DEFINE n == 1
<1>1. n \in Nat  BY OneType
<1>2. stats' = [stats EXCEPT !["instructions_fetched"] = @ + n]  BY DEF CountFetch
<1>3. "instructions_fetched" \in Counter /\ stats \in [Counter -> Nat]
  BY DEF Counter, StatsTypeOK
<1> HIDE DEF n
<1>4. /\ stats' \in [Counter -> Nat]
      /\ stats'["instructions_fetched"] = stats["instructions_fetched"] + n
      /\ \A c \in Counter \ {"instructions_fetched"} : stats'[c] = stats[c]
  BY <1>1, <1>2, <1>3, Incremented
<1> QED  BY <1>4 DEF n

LEMMA StatsTypeStep ==
  ASSUME TypeOK, TypeOK', StatsTypeOK, [SNext]_statsVars
  PROVE  StatsTypeOK'
<1>1. stats' \in [Counter -> Nat]
  <2> USE DEF StatsTypeOK
  <2>1. CASE SRetire
    <3>1. retire_count' \in Nat  BY DEF TypeOK, LoopTypeOK
    <3> QED  BY <2>1, <3>1, RetireCounters DEF SRetire
  <2>2. CASE CountFire   BY <2>2, FireCounters
  <2>3. CASE CountStall  BY <2>3, StallCounters
  <2>4. CASE CountFetch  BY <2>4, FetchCounters
  <2>5. CASE SEndCycle  BY <2>5, LengthTypes, EndCounters DEF SEndCycle
  <2>6. CASE CountNothing  BY <2>6 DEF CountNothing
  <2> QED  BY <2>1, <2>2, <2>3, <2>4, <2>5, <2>6, CountingSteps
<1> QED  BY <1>1, HistoryStep DEF StatsTypeOK

-----------------------------------------------------------------------------
(* The processor's counters and the driver's indices *)

Branches(n)     == {id \in 1 .. n : Op(id) = "BRANCH"}
Mispredicted(n) == {id \in 1 .. n : mispredict[id]}

(* StatsMatchDriver in the middle of a cycle: rob::retire adds its local   *)
(* count when its loop is over.  A redirect leaves instructions_fetched    *)
(* right because the index it sets already has that value.                 *)
Uncommitted == {"retire", "finished", "deadlock"}
RetiredCounted ==
  stats.instructions_retired =
    IF stage \in Uncommitted THEN retired_inst_idx ELSE Retired
FetchedCounted  == stats.instructions_fetched = fetch_inst_idx
BranchesCounted ==
  stats.num_branch_instructions = Cardinality(Branches(Retired))
MispredictedCounted ==
  stats.branch_mispredictions = Cardinality(Mispredicted(Retired))
OnlyBranchesMispredict ==
  \A id \in 1 .. N : mispredict[id] => Op(id) = "BRANCH"

DriverCounts ==
  /\ RetiredCounted /\ FetchedCounted /\ BranchesCounted
  /\ MispredictedCounted /\ OnlyBranchesMispredict

(* One more instruction retired. *)
LEMMA PrefixCount ==
  ASSUME NEW S, NEW n \in Nat
  PROVE  /\ Cardinality({id \in 1 .. n : id \in S}) \in Nat
         /\ Cardinality({id \in 1 .. n + 1 : id \in S})
              = Cardinality({id \in 1 .. n : id \in S})
                  + (IF n + 1 \in S THEN 1 ELSE 0)
<1> DEFINE T == {id \in 1 .. n : id \in S}
<1>1. IsFiniteSet(T)
  <2>1. IsFiniteSet(1 .. n) /\ T \in SUBSET (1 .. n)  BY FS_Interval
  <2> QED  BY <2>1, FS_Subset
<1>2. Cardinality(T) \in Nat  BY <1>1, FS_CardinalityType
<1>3. {id \in 1 .. n + 1 : id \in S} = IF n + 1 \in S THEN T \cup {n + 1} ELSE T
  OBVIOUS
<1>4. n + 1 \notin T  OBVIOUS
<1>5. Cardinality(T \cup {n + 1}) = Cardinality(T) + 1
  BY <1>1, <1>4, FS_AddElement
<1> HIDE DEF T
<1>6. CASE n + 1 \in S  BY <1>2, <1>3, <1>5, <1>6 DEF T
<1>7. CASE n + 1 \notin S  BY <1>2, <1>3, <1>7 DEF T
<1> QED  BY <1>6, <1>7

LEMMA BranchCounts ==
  ASSUME NEW n \in Nat
  PROVE  /\ Cardinality(Branches(n)) \in Nat
         /\ Cardinality(Mispredicted(n)) \in Nat
         /\ Cardinality(Branches(n + 1))
              = Cardinality(Branches(n)) + One(Op(n + 1) = "BRANCH")
         /\ Cardinality(Mispredicted(n + 1))
              = Cardinality(Mispredicted(n)) + One(mispredict[n + 1])
<1> DEFINE B == {id \in Nat : Op(id) = "BRANCH"}
           M == {id \in Nat : mispredict[id]}
<1>1. /\ Branches(n) = {id \in 1 .. n : id \in B}
      /\ Branches(n + 1) = {id \in 1 .. n + 1 : id \in B}
      /\ n + 1 \in B <=> Op(n + 1) = "BRANCH"
  BY DEF Branches
<1>2. /\ Mispredicted(n) = {id \in 1 .. n : id \in M}
      /\ Mispredicted(n + 1) = {id \in 1 .. n + 1 : id \in M}
      /\ n + 1 \in M <=> mispredict[n + 1]
  BY DEF Mispredicted
<1> HIDE DEF B, M
<1>3. /\ Cardinality(Branches(n)) \in Nat
      /\ Cardinality(Branches(n + 1))
           = Cardinality(Branches(n)) + (IF n + 1 \in B THEN 1 ELSE 0)
  BY <1>1, PrefixCount
<1>4. /\ Cardinality(Mispredicted(n)) \in Nat
      /\ Cardinality(Mispredicted(n + 1))
           = Cardinality(Mispredicted(n)) + (IF n + 1 \in M THEN 1 ELSE 0)
  BY <1>2, PrefixCount
<1>5. One(Op(n + 1) = "BRANCH") = IF n + 1 \in B THEN 1 ELSE 0
  BY <1>1 DEF One
<1>6. One(mispredict[n + 1]) = IF n + 1 \in M THEN 1 ELSE 0
  BY <1>2 DEF One
<1> QED  BY <1>3, <1>4, <1>5, <1>6

LEMMA DriverCountsInit == SInit => DriverCounts
<1> SUFFICES ASSUME SInit PROVE DriverCounts  OBVIOUS
<1>1. /\ Init
      /\ \A c \in Counter \ {"icache_misses", "dcache_misses"} : stats[c] = 0
  BY ReaderCounts DEF SInit
<1>2. Retired = 0 /\ retired_inst_idx = 0 /\ fetch_inst_idx = 0
  BY <1>1 DEF Init, Retired
<1>3. Branches(0) = {} /\ Mispredicted(0) = {}
  BY DEF Branches, Mispredicted
<1>4. /\ stats.instructions_retired = 0 /\ stats.instructions_fetched = 0
      /\ stats.num_branch_instructions = 0 /\ stats.branch_mispredictions = 0
  BY <1>1 DEF Counter
<1>5. OnlyBranchesMispredict  BY <1>1 DEF Init, OnlyBranchesMispredict
<1> QED
  BY <1>2, <1>3, <1>4, <1>5, FS_EmptySet DEF DriverCounts, RetiredCounted,
    FetchedCounted, BranchesCounted, MispredictedCounted

(* The retired prefix and its branches, when the step retires nothing.     *)
LEMMA PrefixFrame ==
  ASSUME UNCHANGED insts, Retired' = Retired, Retired \in Nat,
         \A id \in 1 .. Retired : mispredict'[id] = mispredict[id]
  PROVE  /\ Branches(Retired)' = Branches(Retired)
         /\ Mispredicted(Retired)' = Mispredicted(Retired)
BY DEF Branches, Mispredicted, Op

LEMMA CountNothingFrame ==
  ASSUME CountNothing
  PROVE  /\ UNCHANGED <<insts, mispredict, stats, retired_inst_idx,
                        retire_count, retired_mispredict>>
         /\ UNCHANGED fetch_inst_idx
         /\ stage' \in Uncommitted <=> stage \in Uncommitted
<1> USE DEF Uncommitted
<1>1. CASE SExec
  BY <1>1 DEF CountNothing, SExec, AluCheck, MulCheck, LsuCheck, ExecDone,
    ResultBus, ResultBusDone, traceVars, driverVars, cycleVars
<1>2. CASE ~SExec
  BY <1>2 DEF CountNothing, ScheduleFire, ScheduleSkip, DispatchInst,
    DispatchNop, FetchNothing, FetchNop, FetchMiss, FetchDone, Terminated,
    vars, traceVars, driverVars, cycleVars
<1> QED  BY <1>1, <1>2

LEMMA RetireEntryHead ==
  ASSUME TypeOK, OrderInv, RetireEntry
  PROVE  /\ Head(rob).inst = Retired + 1 /\ Retired + 1 \in 1 .. N
         /\ Retired + 1 <= fetch_inst_idx
         /\ Retired' = Retired + 1 /\ retire_count' = retire_count + 1
         /\ UNCHANGED <<insts, mispredict, fetch_inst_idx, retired_inst_idx>>
         /\ stage = "retire"
         /\ retired_mispredict' = MispredictAtHead
         /\ stage' = IF MispredictAtHead THEN "end_cycle" ELSE "retire"
<1>1. /\ rob # <<>> /\ retire_count' = retire_count + 1 /\ stage = "retire"
      /\ UNCHANGED <<insts, mispredict, fetch_inst_idx, retired_inst_idx>>
      /\ retired_mispredict' = MispredictAtHead
      /\ stage' = IF MispredictAtHead THEN "end_cycle" ELSE "retire"
  BY DEF RetireEntry, CanRetire, traceVars, driverVars
<1>2. Len(rob) \in Nat \ {0} /\ Head(rob) = rob[1]
  BY <1>1, EmptySeq, LenProperties, HeadTailProperties DEF TypeOK, QueueTypeOK
<1>3. Head(rob).inst = Retired + 1
  BY <1>2, Counts DEF OrderInv, RobOrder
<1>4. Retired + 1 <= fetch_inst_idx /\ Retired + 1 \in 1 .. N
  BY <1>2, Counts DEF OrderInv, FetchAhead, Dispatched
<1>5. Retired' = Retired + 1  BY <1>1, Counts DEF Retired
<1> QED  BY <1>1, <1>3, <1>4, <1>5

LEMMA DriverCountsRetire ==
  ASSUME TypeOK, OrderInv, StatsTypeOK, DriverCounts, SRetire
  PROVE  DriverCounts'
<1>1. Retired \in Nat /\ retired_inst_idx \in Nat /\ retire_count \in Nat
  BY Counts
<1>2. \A c \in Counter : stats[c] \in Nat  BY DEF StatsTypeOK
<1>3. CASE RetireEntry
  <2>1. stats' = RetireCounted(Head(rob).inst)
    BY <1>3 DEF SRetire, RetireDone, RetireEntry
  <2>2. /\ stats'.num_branch_instructions
             = stats.num_branch_instructions
                 + One(Head(rob).inst # 0 /\ Op(Head(rob).inst) = "BRANCH")
        /\ stats'.branch_mispredictions
             = stats.branch_mispredictions + One(retired_mispredict')
        /\ stats'.instructions_retired
             = stats.instructions_retired
                 + IF stage' # "retire" THEN retire_count' ELSE 0
        /\ stats'["instructions_fetched"] = stats["instructions_fetched"]
    <3>1. retire_count' \in Nat  BY <1>3, <1>1, RetireEntryHead
    <3> QED  BY <2>1, <3>1, RetireCounters DEF StatsTypeOK, Counter
  <2>3. RetiredCounted'
    <3>1. stats.instructions_retired = retired_inst_idx
      BY <1>3, RetireEntryHead DEF DriverCounts, RetiredCounted, Uncommitted
    <3>2. CASE stage' = "retire"
      BY <1>3, <1>1, <2>2, <3>1, <3>2, RetireEntryHead
         DEF RetiredCounted, Uncommitted
    <3>3. CASE stage' # "retire"
      BY <1>3, <1>1, <2>2, <3>1, <3>3, RetireEntryHead
         DEF RetiredCounted, Retired, Uncommitted
    <3> QED  BY <3>2, <3>3
  <2>4. FetchedCounted'
    BY <1>3, <2>2, RetireEntryHead DEF DriverCounts, FetchedCounted
  <2>5. BranchesCounted'
    <3>1. One(Head(rob).inst # 0 /\ Op(Head(rob).inst) = "BRANCH")
            = One(Op(Retired + 1) = "BRANCH")
      BY <1>3, <1>1, RetireEntryHead DEF One
    <3>2. stats'.num_branch_instructions = Cardinality(Branches(Retired + 1))
      BY <1>1, <2>2, <3>1, BranchCounts DEF DriverCounts, BranchesCounted
    <3>3. Branches(Retired)' = Branches(Retired + 1)
      BY <1>3, RetireEntryHead DEF Branches, Op
    <3> QED  BY <3>2, <3>3 DEF BranchesCounted
  <2>6. MispredictedCounted'
    <3>1. One(retired_mispredict') = One(mispredict[Retired + 1])
      <4>1. mispredict[Retired + 1] => Op(Retired + 1) = "BRANCH"
        BY <1>3, RetireEntryHead DEF DriverCounts, OnlyBranchesMispredict
      <4>2. retired_mispredict' <=> mispredict[Retired + 1]
        BY <1>3, <4>1, RetireEntryHead DEF MispredictAtHead
      <4> QED  BY <4>2 DEF One
    <3>2. stats'.branch_mispredictions = Cardinality(Mispredicted(Retired + 1))
      BY <1>1, <2>2, <3>1, BranchCounts DEF DriverCounts, MispredictedCounted
    <3>3. Mispredicted(Retired)' = Mispredicted(Retired + 1)
      BY <1>3, RetireEntryHead DEF Mispredicted
    <3> QED  BY <3>2, <3>3 DEF MispredictedCounted
  <2>7. OnlyBranchesMispredict'
    BY <1>3, RetireEntryHead DEF DriverCounts, OnlyBranchesMispredict, Op
  <2> QED  BY <2>3, <2>4, <2>5, <2>6, <2>7 DEF DriverCounts
<1>4. CASE RetireDone
  <2>1. stats' = RetireCounted(0)
    BY <1>4 DEF SRetire, RetireDone, RetireEntry
  <2>2. /\ UNCHANGED <<insts, mispredict, fetch_inst_idx, retired_inst_idx,
                       retire_count, retired_mispredict>>
        /\ stage = "retire" /\ stage' = "alu"
    BY <1>4 DEF RetireDone, traceVars, driverVars, cycleVars
  <2>3. ~retired_mispredict  BY <2>2 DEF OrderInv, RedirectSafe
  <2>4. /\ stats'.num_branch_instructions
             = stats.num_branch_instructions
                 + One(0 # 0 /\ Op(0) = "BRANCH")
        /\ stats'.branch_mispredictions
             = stats.branch_mispredictions + One(retired_mispredict')
        /\ stats'.instructions_retired
             = stats.instructions_retired
                 + IF stage' # "retire" THEN retire_count' ELSE 0
        /\ stats'["instructions_fetched"] = stats["instructions_fetched"]
    BY <1>1, <2>1, <2>2, RetireCounters DEF StatsTypeOK, Counter
  <2>5. One(0 # 0 /\ Op(0) = "BRANCH") = 0 /\ One(retired_mispredict') = 0
    BY <2>2, <2>3 DEF One
  <2>6. /\ stats'.num_branch_instructions = stats.num_branch_instructions
        /\ stats'.branch_mispredictions = stats.branch_mispredictions
    BY <1>2, <2>4, <2>5 DEF Counter
  <2>7. Retired' = Retired  BY <2>2 DEF Retired
  <2>8. RetiredCounted'
    BY <2>2, <2>4, <2>7 DEF DriverCounts, RetiredCounted, Retired, Uncommitted
  <2>9. FetchedCounted'  BY <2>2, <2>4 DEF DriverCounts, FetchedCounted
  <2>10. BranchesCounted' /\ MispredictedCounted'
    BY <1>1, <2>2, <2>6, <2>7, PrefixFrame
       DEF DriverCounts, BranchesCounted, MispredictedCounted
  <2>11. OnlyBranchesMispredict'
    BY <2>2 DEF DriverCounts, OnlyBranchesMispredict, Op
  <2> QED  BY <2>8, <2>9, <2>10, <2>11 DEF DriverCounts
<1> QED  BY <1>3, <1>4 DEF SRetire

LEMMA DriverCountsFetch ==
  ASSUME TypeOK, OrderInv, StatsTypeOK, DriverCounts, CountFetch
  PROVE  DriverCounts'
<1>1. /\ Retired \in Nat /\ fetch_inst_idx \in Nat /\ Retired <= fetch_inst_idx
      /\ N \in Nat
  BY Counts DEF OrderInv, FetchAhead, Dispatched
<1>2. PICK prediction \in BOOLEAN : FetchInst(prediction)  BY DEF CountFetch
<1> DEFINE wrong == /\ Op(next_inst) = "BRANCH"
                    /\ prediction # insts[next_inst].br_taken
                    /\ MISSES_ENABLED
<1>3. /\ UNCHANGED <<insts, retired_inst_idx, retire_count, stage>>
      /\ fetch_inst_idx' = fetch_inst_idx + 1
      /\ mispredict' = [mispredict EXCEPT ![next_inst] = wrong]
  BY <1>2 DEF FetchInst, cycleVars
<1>4. next_inst > Retired  BY <1>1 DEF next_inst
<1>5. Retired' = Retired  BY <1>3 DEF Retired
<1>6. \A id \in 1 .. Retired : mispredict'[id] = mispredict[id]
  <2>1. mispredict \in [1 .. N -> BOOLEAN]  BY DEF TypeOK, TraceTypeOK
  <2>2. \A id \in 1 .. Retired : id \in 1 .. N /\ id # next_inst
    BY <1>1, <1>4 DEF OrderInv, FetchAhead
  <2> QED  BY <1>3, <2>1, <2>2
<1>7. OnlyBranchesMispredict'
  <2> SUFFICES ASSUME NEW id \in 1 .. N, mispredict'[id]
               PROVE  Op(id) = "BRANCH"
    BY <1>3 DEF OnlyBranchesMispredict, Op
  <2>1. mispredict \in [1 .. N -> BOOLEAN]  BY DEF TypeOK, TraceTypeOK
  <2>2. CASE id = next_inst  BY <1>3, <2>1, <2>2
  <2>3. CASE id # next_inst
    <3>1. mispredict[id]  BY <1>3, <2>1, <2>3
    <3> QED  BY <3>1 DEF DriverCounts, OnlyBranchesMispredict
  <2> QED  BY <2>2, <2>3
<1>8. /\ stats'.instructions_fetched = stats.instructions_fetched + 1
      /\ stats'["instructions_retired"] = stats["instructions_retired"]
      /\ stats'["num_branch_instructions"] = stats["num_branch_instructions"]
      /\ stats'["branch_mispredictions"] = stats["branch_mispredictions"]
  BY FetchCounters DEF Counter
<1>9. RetiredCounted' /\ FetchedCounted'
  BY <1>3, <1>5, <1>8 DEF DriverCounts, RetiredCounted, FetchedCounted
<1>10. BranchesCounted' /\ MispredictedCounted'
  BY <1>1, <1>3, <1>5, <1>6, <1>8, PrefixFrame
     DEF DriverCounts, BranchesCounted, MispredictedCounted
<1> QED  BY <1>7, <1>9, <1>10 DEF DriverCounts

(* Steps that change none of the four counters. *)
LEMMA DriverCountsFrame ==
  ASSUME TypeOK, DriverCounts, UNCHANGED <<insts, mispredict, fetch_inst_idx>>,
         Retired' = Retired,
         stats'["instructions_retired"] = stats["instructions_retired"],
         stats'["instructions_fetched"] = stats["instructions_fetched"],
         stats'["num_branch_instructions"] = stats["num_branch_instructions"],
         stats'["branch_mispredictions"] = stats["branch_mispredictions"],
         \/ /\ stage' \in Uncommitted <=> stage \in Uncommitted
            /\ UNCHANGED retired_inst_idx
         \/ stage \notin Uncommitted /\ retired_inst_idx' = Retired
  PROVE  DriverCounts'
<1>1. RetiredCounted' /\ FetchedCounted'
  BY DEF DriverCounts, RetiredCounted, FetchedCounted
<1>2. BranchesCounted' /\ MispredictedCounted'
  BY Counts, PrefixFrame DEF DriverCounts, BranchesCounted, MispredictedCounted
<1>3. OnlyBranchesMispredict'  BY DEF DriverCounts, OnlyBranchesMispredict, Op
<1> QED  BY <1>1, <1>2, <1>3 DEF DriverCounts

LEMMA DriverCountsStep ==
  ASSUME TypeOK, OrderInv, StatsTypeOK, DriverCounts, [SNext]_statsVars
  PROVE  DriverCounts'
<1>1. CASE SRetire  BY <1>1, DriverCountsRetire
<1>2. CASE CountFire
  <2>1. /\ UNCHANGED <<insts, mispredict, fetch_inst_idx, retired_inst_idx,
                       retire_count>>
        /\ stage = "schedule" /\ stage' = "dispatch"
    BY <1>2 DEF CountFire, ScheduleDone, traceVars, driverVars, cycleVars
  <2>2. Retired' = Retired  BY <2>1 DEF Retired
  <2> QED  BY <1>2, <2>1, <2>2, FireCounters, DriverCountsFrame
     DEF Counter, Uncommitted
<1>3. CASE CountStall
  <2>1. /\ UNCHANGED <<insts, mispredict, fetch_inst_idx, retired_inst_idx,
                       retire_count>>
        /\ stage = "dispatch" /\ stage' = "fetch"
    BY <1>3 DEF CountStall, DispatchDone, traceVars, driverVars, cycleVars
  <2>2. Retired' = Retired  BY <2>1 DEF Retired
  <2> QED  BY <1>3, <2>1, <2>2, StallCounters, DriverCountsFrame
     DEF Counter, Uncommitted
<1>4. CASE CountFetch  BY <1>4, DriverCountsFetch
<1>5. CASE SEndCycle
  <2>1. EndCycle /\ stats' = CycleCounted  BY <1>5 DEF SEndCycle
  <2>2. /\ UNCHANGED <<insts, mispredict>>
        /\ retired_inst_idx' = Retired /\ stage = "end_cycle"
        /\ fetch_inst_idx' =
             IF retired_mispredict THEN Retired ELSE fetch_inst_idx
    BY <2>1 DEF EndCycle, RedirectIdx, traceVars
  <2>3. fetch_inst_idx' = fetch_inst_idx
    BY <2>2 DEF OrderInv, RedirectSafe
  <2>4. Retired' = Retired  BY <2>1, EndCycleFrame
  <2>5. /\ stats'["instructions_retired"] = stats["instructions_retired"]
        /\ stats'["instructions_fetched"] = stats["instructions_fetched"]
        /\ stats'["num_branch_instructions"] = stats["num_branch_instructions"]
        /\ stats'["branch_mispredictions"] = stats["branch_mispredictions"]
    BY <2>1, LengthTypes, EndCounters DEF StatsTypeOK
  <2> QED  BY <2>2, <2>3, <2>4, <2>5, DriverCountsFrame DEF Uncommitted
<1>6. CASE CountNothing
  <2>1. Retired' = Retired  BY <1>6, CountNothingFrame DEF Retired
  <2> QED  BY <1>6, <2>1, CountNothingFrame, DriverCountsFrame
<1> QED  BY <1>1, <1>2, <1>3, <1>4, <1>5, <1>6, CountingSteps

(* The processor's counters and the driver's indices tell one story: every *)
(* instruction handed out and every one retired is counted exactly once,   *)
(* every retired branch and every misprediction too, although retire adds  *)
(* its count late and a misprediction cuts the cycle short.                *)
THEOREM StatsMatchDriverHolds == SSpec => []StatsMatchDriver
<1>1. SInit => StatsTypeOK /\ DriverCounts
  BY StatsTypeInit, DriverCountsInit
<1>2. Machine /\ Machine' /\ StatsTypeOK /\ DriverCounts /\ [SNext]_statsVars
        => (StatsTypeOK /\ DriverCounts)'
  BY StatsTypeStep, DriverCountsStep DEF Machine
<1>3. Machine /\ StatsTypeOK /\ DriverCounts => StatsMatchDriver
  <2> SUFFICES ASSUME Machine, DriverCounts, CycleBoundary
               PROVE  /\ stats.instructions_retired = retired_inst_idx
                      /\ stats.instructions_fetched = fetch_inst_idx
                      /\ stats.num_branch_instructions
                           = Cardinality(Branches(Retired))
                      /\ stats.branch_mispredictions
                           = Cardinality(Mispredicted(Retired))
    BY DEF StatsMatchDriver, Branches, Mispredicted
  <2>1. stats.instructions_retired = retired_inst_idx
    BY DEF DriverCounts, RetiredCounted, CycleBoundary, Uncommitted
  <2> QED
    BY <2>1 DEF DriverCounts, FetchedCounted, BranchesCounted,
      MispredictedCounted
<1> QED  BY <1>1, <1>2, <1>3, MachineHolds, PTL DEF SSpec

-----------------------------------------------------------------------------
(* Every cycle is counted once *)

(* Which stage has yet to count the running cycle: none that runs before   *)
(* schedule has, schedule counts it when it ends, every later stage finds  *)
(* it counted, and a mispredicted retirement counts it instead.            *)
BeforeSchedule == {"retire", "alu", "mul", "lsu", "result_bus", "finished",
                   "deadlock"}
AfterSchedule  == {"dispatch", "fetch", "end_cycle"}

Counted == stats.branch_mispredictions + stats.no_fire_cycles

CycleInv ==
  /\ fired_in \subseteq 0 .. stats.cycles
  /\ stage \in BeforeSchedule =>
       /\ stats.cycles \notin fired_in
       /\ stats.cycles = Counted + Cardinality(fired_in)
  /\ stage = "schedule" =>
       /\ fire_count > 0 <=> stats.cycles \in fired_in
       /\ stats.cycles = Counted + Cardinality(fired_in \ {stats.cycles})
  /\ stage \in AfterSchedule =>
       stats.cycles + 1 = Counted + Cardinality(fired_in)

LEMMA CycleInit == SInit => CycleInv
<1> SUFFICES ASSUME SInit PROVE CycleInv  OBVIOUS
<1>1. /\ stage = "retire" /\ fired_in = {}
      /\ \A c \in Counter \ {"icache_misses", "dcache_misses"} : stats[c] = 0
  BY ReaderCounts DEF SInit, Init
<1>2. stats.cycles = 0 /\ Counted = 0
  BY <1>1 DEF Counter, Counted
<1>3. Cardinality(fired_in) = 0  BY <1>1, FS_EmptySet
<1> QED  BY <1>1, <1>2, <1>3 DEF CycleInv, AfterSchedule

LEMMA CycleTypes ==
  ASSUME StatsTypeOK, CycleInv
  PROVE  /\ stats.cycles \in Nat /\ Counted \in Nat
         /\ stats.branch_mispredictions \in Nat /\ stats.no_fire_cycles \in Nat
         /\ IsFiniteSet(fired_in) /\ Cardinality(fired_in) \in Nat
         /\ IsFiniteSet(fired_in \ {stats.cycles})
         /\ Cardinality(fired_in \ {stats.cycles}) \in Nat
<1>1. /\ stats.cycles \in Nat /\ stats.branch_mispredictions \in Nat
      /\ stats.no_fire_cycles \in Nat
  BY DEF StatsTypeOK, Counter
<1>2. IsFiniteSet(fired_in)
  <2>1. IsFiniteSet(0 .. stats.cycles)
    <3>1. \A n \in Nat : IsFiniteSet(0 .. n)  BY FS_Interval
    <3> QED  BY <1>1, <3>1
  <2>2. fired_in \in SUBSET (0 .. stats.cycles)  BY DEF CycleInv
  <2> QED  BY <2>1, <2>2, FS_Subset
<1>3. IsFiniteSet(fired_in \ {stats.cycles})  BY <1>2, FS_RemoveElement
<1> QED  BY <1>1, <1>2, <1>3, FS_CardinalityType DEF Counted

(* Steps that count nothing and stay on one side of schedule. *)
LEMMA CycleFrame ==
  ASSUME CycleInv, UNCHANGED fired_in, stats'.cycles = stats.cycles,
         Counted' = Counted, stage # "schedule", stage' # "schedule",
         stage' \in BeforeSchedule => stage \in BeforeSchedule,
         stage' \in AfterSchedule => stage \in AfterSchedule
  PROVE  CycleInv'
BY DEF CycleInv

LEMMA CycleRetire ==
  ASSUME TypeOK, OrderInv, StatsTypeOK, CycleInv, SRetire
  PROVE  CycleInv'
<1> USE CycleTypes
<1>1. stage = "retire" /\ UNCHANGED fired_in
  BY DEF SRetire, RetireEntry, RetireDone
<1>2. /\ stats.cycles \notin fired_in
      /\ stats.cycles = Counted + Cardinality(fired_in)
  BY <1>1 DEF CycleInv, BeforeSchedule
<1>3. retire_count' \in Nat
  <2>1. CASE RetireEntry  BY <2>1, RetireEntryHead, Counts
  <2>2. CASE RetireDone  BY <2>2, Counts DEF RetireDone, cycleVars
  <2> QED  BY <2>1, <2>2 DEF SRetire
<1>4. /\ stats'.cycles = stats.cycles
      /\ stats'.no_fire_cycles = stats.no_fire_cycles
      /\ stats'.branch_mispredictions
           = stats.branch_mispredictions + One(retired_mispredict')
  <2>1. PICK last : stats' = RetireCounted(last)  BY DEF SRetire
  <2>2. /\ stats'["cycles"] = stats["cycles"]
        /\ stats'["no_fire_cycles"] = stats["no_fire_cycles"]
        /\ stats'.branch_mispredictions
             = stats.branch_mispredictions + One(retired_mispredict')
    BY <1>3, <2>1, RetireCounters DEF StatsTypeOK, Counter
  <2> QED  BY <2>2
<1>5. /\ retired_mispredict' => stage' = "end_cycle"
      /\ ~retired_mispredict' => stage' \in {"retire", "alu"}
  <2>1. CASE RetireEntry  BY <2>1, RetireEntryHead
  <2>2. CASE RetireDone
    BY <2>2 DEF RetireDone, cycleVars, OrderInv, RedirectSafe
  <2> QED  BY <2>1, <2>2 DEF SRetire
<1>6. CASE retired_mispredict'
  <2>1. Counted' = Counted + 1  BY <1>4, <1>6 DEF Counted, One
  <2>2. stats'.cycles + 1 = Counted' + Cardinality(fired_in')
    BY <1>1, <1>2, <1>4, <2>1
  <2> QED
    BY <1>1, <1>4, <1>5, <1>6, <2>2
       DEF CycleInv, BeforeSchedule, AfterSchedule
<1>7. CASE ~retired_mispredict'
  <2>1. Counted' = Counted  BY <1>4, <1>7 DEF Counted, One
  <2>2. stage' \in {"retire", "alu"}  BY <1>5, <1>7
  <2> QED
    BY <1>1, <1>4, <2>1, <2>2, CycleFrame DEF BeforeSchedule, AfterSchedule
<1> QED  BY <1>6, <1>7

LEMMA CycleSchedule ==
  ASSUME TypeOK, StatsTypeOK, CycleInv, CountNothing, SSchedule
  PROVE  CycleInv'
<1> USE CycleTypes
<1>1. UNCHANGED stats  BY DEF CountNothing
<1>2. stage = "schedule"
  BY DEF SSchedule, ScheduleFire, ScheduleSkip, ScheduleDone
<1>3. stage' = "schedule"
  <2>1. ScheduleFire \/ ScheduleSkip
    BY <1>2 DEF CountNothing, SExec, AluCheck, MulCheck, LsuCheck, ExecDone,
      ResultBus, ResultBusDone, DispatchInst, DispatchNop, FetchNothing,
      FetchNop, FetchMiss, FetchDone, Terminated, vars, SSchedule,
      ScheduleDone
  <2> QED  BY <1>2, <2>1 DEF ScheduleFire, ScheduleSkip
<1>4. \/ fired_in' = fired_in \cup {stats.cycles}
         /\ fire_count' = fire_count + 1
      \/ UNCHANGED <<fired_in, fire_count>>
  BY DEF SSchedule
<1>5. /\ stage = "schedule" /\ stage' = "schedule"
      /\ UNCHANGED stats
      /\ \/ fired_in' = fired_in \cup {stats.cycles}
            /\ fire_count' = fire_count + 1
         \/ UNCHANGED <<fired_in, fire_count>>
  BY <1>1, <1>2, <1>3, <1>4
<1>6. Counted' = Counted  BY <1>5 DEF Counted
<1>7. /\ fire_count > 0 <=> stats.cycles \in fired_in
      /\ stats.cycles = Counted + Cardinality(fired_in \ {stats.cycles})
  BY <1>5 DEF CycleInv
<1>8. fired_in' \ {stats.cycles} = fired_in \ {stats.cycles}  BY <1>5
<1>9. fired_in' \subseteq 0 .. stats.cycles
  <2>1. stats.cycles \in 0 .. stats.cycles  OBVIOUS
  <2>2. fired_in \subseteq 0 .. stats.cycles  BY DEF CycleInv
  <2> QED  BY <1>4, <2>1, <2>2
<1>10. fire_count' > 0 <=> stats.cycles \in fired_in'
  BY <1>5, <1>7 DEF StatsTypeOK
<1> QED
  BY <1>5, <1>6, <1>7, <1>8, <1>9, <1>10
     DEF CycleInv, BeforeSchedule, AfterSchedule

LEMMA CycleScheduleDone ==
  ASSUME StatsTypeOK, CycleInv, CountFire
  PROVE  CycleInv'
<1> USE CycleTypes
<1>1. /\ stage = "schedule" /\ stage' = "dispatch" /\ UNCHANGED fired_in
  BY DEF CountFire, ScheduleDone, history
<1>2. /\ stats'.no_fire_cycles = stats.no_fire_cycles + One(fire_count = 0)
      /\ stats'["cycles"] = stats["cycles"]
      /\ stats'["branch_mispredictions"] = stats["branch_mispredictions"]
  BY FireCounters DEF Counter
<1>3. Counted' = Counted + One(fire_count = 0)
  BY <1>2, OneType DEF Counted
<1>4. /\ fire_count > 0 <=> stats.cycles \in fired_in
      /\ stats.cycles = Counted + Cardinality(fired_in \ {stats.cycles})
  BY <1>1 DEF CycleInv
<1>5. Cardinality(fired_in \ {stats.cycles})
        = IF stats.cycles \in fired_in THEN Cardinality(fired_in) - 1
          ELSE Cardinality(fired_in)
  BY FS_RemoveElement
<1>6. stats.cycles + 1 = Counted' + Cardinality(fired_in)
  <2>1. CASE fire_count = 0
    <3>1. Counted' = Counted + 1  BY <1>3, <2>1 DEF One
    <3>2. Cardinality(fired_in \ {stats.cycles}) = Cardinality(fired_in)
      BY <1>4, <1>5, <2>1
    <3> QED  BY <1>4, <3>1, <3>2
  <2>2. CASE fire_count # 0
    <3>1. Counted' = Counted  BY <1>3, <2>2 DEF One
    <3>2. Cardinality(fired_in \ {stats.cycles}) = Cardinality(fired_in) - 1
      BY <1>4, <1>5, <2>2 DEF StatsTypeOK
    <3> QED  BY <1>4, <3>1, <3>2
  <2> QED  BY <2>1, <2>2
<1> QED
  BY <1>1, <1>2, <1>6 DEF CycleInv, BeforeSchedule, AfterSchedule

LEMMA CycleEnd ==
  ASSUME TypeOK, StatsTypeOK, CycleInv, SEndCycle
  PROVE  CycleInv'
<1> USE CycleTypes
<1>1. /\ stage = "end_cycle" /\ stage' \in {"deadlock", "retire", "finished"}
      /\ UNCHANGED fired_in
  BY DEF SEndCycle, EndCycle, history
<1>2. /\ stats'.cycles = stats.cycles + 1
      /\ stats'["no_fire_cycles"] = stats["no_fire_cycles"]
      /\ stats'["branch_mispredictions"] = stats["branch_mispredictions"]
  BY LengthTypes, EndCounters DEF SEndCycle, StatsTypeOK
<1>3. Counted' = Counted  BY <1>2 DEF Counted
<1>4. stats.cycles + 1 = Counted + Cardinality(fired_in)
      /\ fired_in \subseteq 0 .. stats.cycles
  BY <1>1 DEF CycleInv, AfterSchedule
<1>5. stats'.cycles \notin fired_in /\ fired_in \subseteq 0 .. stats'.cycles
  BY <1>2, <1>4
<1> QED
  BY <1>1, <1>2, <1>3, <1>4, <1>5 DEF CycleInv, AfterSchedule

LEMMA CycleStep ==
  ASSUME TypeOK, OrderInv, StatsTypeOK, CycleInv, [SNext]_statsVars
  PROVE  CycleInv'
<1>1. CASE SRetire  BY <1>1, CycleRetire
<1>2. CASE CountFire  BY <1>2, CycleScheduleDone
<1>3. CASE CountStall
  <2>1. /\ stage = "dispatch" /\ stage' = "fetch" /\ UNCHANGED fired_in
    BY <1>3 DEF CountStall, DispatchDone, history
  <2>2. /\ stats'["cycles"] = stats["cycles"]
        /\ stats'["no_fire_cycles"] = stats["no_fire_cycles"]
        /\ stats'["branch_mispredictions"] = stats["branch_mispredictions"]
    BY <1>3, StallCounters DEF Counter
  <2> QED
    BY <2>1, <2>2, CycleFrame DEF Counted, BeforeSchedule, AfterSchedule
<1>4. CASE CountFetch
  <2>1. /\ stage = "fetch" /\ stage' = "fetch" /\ UNCHANGED fired_in
    BY <1>4 DEF CountFetch, FetchInst, history
  <2>2. /\ stats'["cycles"] = stats["cycles"]
        /\ stats'["no_fire_cycles"] = stats["no_fire_cycles"]
        /\ stats'["branch_mispredictions"] = stats["branch_mispredictions"]
    BY <1>4, FetchCounters DEF Counter
  <2> QED
    BY <2>1, <2>2, CycleFrame DEF Counted, BeforeSchedule, AfterSchedule
<1>5. CASE SEndCycle  BY <1>5, CycleEnd
<1>6. CASE CountNothing
  <2>1. UNCHANGED stats /\ Counted' = Counted
    BY <1>6 DEF CountNothing, Counted
  <2>2. CASE SSchedule  BY <1>6, <2>2, CycleSchedule
  <2>3. CASE SExec
    <3>1. UNCHANGED fired_in /\ stage \in BeforeSchedule
      BY <2>3 DEF SExec, AluCheck, MulCheck, LsuCheck, ExecDone, ResultBus,
        ResultBusDone, BeforeSchedule
    <3>2. CASE ResultBusDone
      <4>1. stage' = "schedule" /\ fire_count' = 0
        BY <2>3, <3>2 DEF SExec, AluCheck, MulCheck, LsuCheck, ExecDone,
          ResultBus, ResultBusDone
      <4>2. fired_in \ {stats.cycles} = fired_in  BY <3>1 DEF CycleInv
      <4> QED
        BY <2>1, <3>1, <4>1, <4>2 DEF CycleInv, BeforeSchedule, AfterSchedule
    <3>3. CASE ~ResultBusDone
      <4>1. stage' \in BeforeSchedule
        BY <2>3, <3>3 DEF SExec, AluCheck, MulCheck, LsuCheck, ExecDone,
          ResultBus, BeforeSchedule
      <4> QED
        BY <2>1, <3>1, <4>1, CycleFrame DEF BeforeSchedule, AfterSchedule
    <3> QED  BY <3>2, <3>3
  <2>4. CASE ~SSchedule /\ ~SExec /\ UNCHANGED stage
    <3>1. UNCHANGED <<fired_in, fire_count>>
      BY <1>6, <2>4 DEF CountNothing, SDispatch, history
    <3> QED  BY <2>1, <2>4, <3>1 DEF CycleInv
  <2>5. CASE ~SSchedule /\ ~SExec /\ stage' # stage
    <3>1. FetchDone /\ UNCHANGED fired_in
      BY <1>6, <2>5 DEF CountNothing, DispatchInst, DispatchNop, FetchNothing,
        FetchNop, FetchMiss, Terminated, vars, history
    <3>2. stage = "fetch" /\ stage' = "end_cycle"  BY <3>1 DEF FetchDone
    <3> QED
      BY <2>1, <3>1, <3>2, CycleFrame DEF BeforeSchedule, AfterSchedule
  <2> QED  BY <2>2, <2>3, <2>4, <2>5
<1> QED  BY <1>1, <1>2, <1>3, <1>4, <1>5, <1>6, CountingSteps

(* Every cycle is one of three kinds, each counted by another stage: it    *)
(* retired a misprediction, it fired nothing, or it fired something.       *)
THEOREM CyclesAccountedHolds == SSpec => []CyclesAccounted
<1>1. SInit => StatsTypeOK /\ CycleInv
  BY StatsTypeInit, CycleInit
<1>2. Machine /\ Machine' /\ StatsTypeOK /\ CycleInv /\ [SNext]_statsVars
        => (StatsTypeOK /\ CycleInv)'
  BY StatsTypeStep, CycleStep DEF Machine
<1>3. CycleInv => CyclesAccounted
  BY DEF CycleInv, CyclesAccounted, CycleBoundary, BeforeSchedule, Counted
<1> QED  BY <1>1, <1>2, <1>3, MachineHolds, PTL DEF SSpec

-----------------------------------------------------------------------------
(* Dispatch stalls *)

(* A counted stall is a full ROB, and the rest of the cycle leaves it full *)
(* until the maximum is taken.                                             *)
StallInv ==
  /\ stats.rob_max_usage <= ROB_ENTRIES
  /\ stats.rob_no_dispatch_cycles > 0 =>
       \/ stats.rob_max_usage = ROB_ENTRIES
       \/ stage \in {"fetch", "end_cycle"} /\ Len(rob) = ROB_ENTRIES

LEMMA StallInit == SInit => StallInv
<1> SUFFICES ASSUME SInit PROVE StallInv  OBVIOUS
<1>1. \A c \in Counter \ {"icache_misses", "dcache_misses"} : stats[c] = 0
  BY ReaderCounts
<1>2. stats.rob_max_usage = 0 /\ stats.rob_no_dispatch_cycles = 0
  BY <1>1 DEF Counter
<1> QED  BY <1>2, Sizes DEF StallInv

LEMMA StallFrame ==
  ASSUME StallInv,
         stats'["rob_max_usage"] = stats["rob_max_usage"],
         stats'["rob_no_dispatch_cycles"] = stats["rob_no_dispatch_cycles"],
         stage \in {"fetch", "end_cycle"} =>
           UNCHANGED rob /\ stage' \in {"fetch", "end_cycle"}
  PROVE  StallInv'
BY DEF StallInv

LEMMA StallStep ==
  ASSUME TypeOK, StatsTypeOK, StallInv, [SNext]_statsVars
  PROVE  StallInv'
<1>1. /\ stats.rob_max_usage \in Nat /\ stats.rob_no_dispatch_cycles \in Nat
      /\ Len(rob) \in Nat /\ Len(rob) <= ROB_ENTRIES /\ ROB_ENTRIES \in Nat
  BY LengthTypes, Sizes DEF StatsTypeOK, Counter, TypeOK, QueueTypeOK
<1>2. CASE SRetire
  <2>1. stage = "retire"  BY <1>2 DEF SRetire, RetireEntry, RetireDone
  <2>2. retire_count' \in Nat
    BY <1>2, Counts DEF SRetire, RetireEntry, RetireDone, cycleVars
  <2>3. PICK last : stats' = RetireCounted(last)  BY <1>2 DEF SRetire
  <2>4. /\ stats'["rob_max_usage"] = stats["rob_max_usage"]
        /\ stats'["rob_no_dispatch_cycles"] = stats["rob_no_dispatch_cycles"]
    BY <2>2, <2>3, RetireCounters DEF StatsTypeOK, Counter
  <2> QED  BY <2>1, <2>4, StallFrame
<1>3. CASE CountFire
  <2>1. stage = "schedule"  BY <1>3 DEF CountFire, ScheduleDone
  <2>2. /\ stats'["rob_max_usage"] = stats["rob_max_usage"]
        /\ stats'["rob_no_dispatch_cycles"] = stats["rob_no_dispatch_cycles"]
    BY <1>3, FireCounters DEF Counter
  <2> QED  BY <2>1, <2>2, StallFrame
<1>4. CASE CountStall
  <2>1. /\ stage = "dispatch" /\ stage' = "fetch" /\ ~CanDispatch
        /\ UNCHANGED rob
    BY <1>4 DEF CountStall, DispatchDone
  <2>2. /\ stats'.rob_no_dispatch_cycles
             = stats.rob_no_dispatch_cycles + One(StalledByRob)
        /\ stats'["rob_max_usage"] = stats["rob_max_usage"]
    BY <1>4, StallCounters DEF Counter
  <2>3. CASE StalledByRob
    <3>1. Len(rob) = ROB_ENTRIES
      BY <1>1, <2>1, <2>3 DEF StalledByRob, CanDispatch
    <3> QED  BY <2>1, <2>2, <3>1 DEF StallInv
  <2>4. CASE ~StalledByRob
    <3>1. stats'.rob_no_dispatch_cycles = stats.rob_no_dispatch_cycles
      BY <1>1, <2>2, <2>4 DEF One
    <3> QED  BY <2>1, <2>2, <3>1, StallFrame
  <2> QED  BY <2>3, <2>4
<1>5. CASE CountFetch
  <2>1. UNCHANGED <<rob, stage>>  BY <1>5 DEF CountFetch, FetchInst
  <2>2. /\ stats'["rob_max_usage"] = stats["rob_max_usage"]
        /\ stats'["rob_no_dispatch_cycles"] = stats["rob_no_dispatch_cycles"]
    BY <1>5, FetchCounters DEF Counter
  <2> QED  BY <2>1, <2>2, StallFrame
<1>6. CASE SEndCycle
  <2>1. /\ stats'.rob_max_usage = MaxOf(stats.rob_max_usage, Len(rob))
        /\ stats'["rob_no_dispatch_cycles"] = stats["rob_no_dispatch_cycles"]
    BY <1>6, LengthTypes, EndCounters DEF SEndCycle, StatsTypeOK
  <2> QED  BY <1>1, <2>1 DEF StallInv, MaxOf
<1>7. CASE CountNothing
  <2>1. UNCHANGED stats  BY <1>7 DEF CountNothing
  <2>2. stage \in {"fetch", "end_cycle"} =>
          UNCHANGED rob /\ stage' \in {"fetch", "end_cycle"}
    <3>1. CASE SExec
      BY <3>1 DEF SExec, AluCheck, MulCheck, LsuCheck, ExecDone, ResultBus,
        ResultBusDone
    <3>2. CASE ~SExec
      BY <1>7, <3>2 DEF CountNothing, ScheduleFire, ScheduleSkip,
        DispatchInst, DispatchNop, FetchNothing, FetchNop, FetchMiss,
        FetchDone, Terminated, vars
    <3> QED  BY <3>1, <3>2
  <2> QED  BY <2>1, <2>2, StallFrame
<1> QED  BY <1>2, <1>3, <1>4, <1>5, <1>6, <1>7, CountingSteps

(* A dispatch stall that is counted against the ROB is a full ROB, though  *)
(* the test that counts it does not look at the ROB, and the maximum taken *)
(* later in the same cycle sees it.                                        *)
THEOREM StallMeansFullRobHolds == SSpec => []StallMeansFullRob
<1>1. SInit => StatsTypeOK /\ StallInv
  BY StatsTypeInit, StallInit
<1>2. Machine /\ Machine' /\ StatsTypeOK /\ StallInv /\ [SNext]_statsVars
        => (StatsTypeOK /\ StallInv)'
  BY StatsTypeStep, StallStep DEF Machine
<1>3. StallInv => StallMeansFullRob
  BY DEF StallInv, StallMeansFullRob, CycleBoundary
<1> QED  BY <1>1, <1>2, <1>3, MachineHolds, PTL DEF SSpec

-----------------------------------------------------------------------------
(* Queue lengths and times of residence *)

(* UsageIsResidence in the middle of a cycle too: a retirement or a result *)
(* stops a clock at the time it shows, and the end of the cycle advances   *)
(* as many clocks as there are entries in the queue.                       *)
UsageInv ==
  /\ stats.rob_total_usage = Total(TimeInRob, Dispatched)
  /\ stats.schedq_total_usage = Total(TimeInSchedQ, Dispatched)

LEMMA TimeAt ==
  \A id \in 1 .. N :
    /\ TimeInRob[id] = (IF id <= Retired THEN retired_at[id] ELSE stats.cycles)
                         - dispatched_at[id]
    /\ TimeInSchedQ[id] =
         (IF Completed(id) THEN completed_at[id] ELSE stats.cycles)
           - dispatched_at[id]
BY DEF TimeInRob, TimeInSchedQ, Until

LEMMA TimeAtNext ==
  \A id \in 1 .. N :
    /\ TimeInRob'[id] =
         (IF id <= Retired' THEN retired_at'[id] ELSE stats'.cycles)
           - dispatched_at'[id]
    /\ TimeInSchedQ'[id] =
         (IF Completed(id)' THEN completed_at'[id] ELSE stats'.cycles)
           - dispatched_at'[id]
BY DEF TimeInRob, TimeInSchedQ, Until

LEMMA TimeType ==
  ASSUME TypeOK, OrderInv, StatsTypeOK
  PROVE  /\ Dispatched \in Nat /\ Retired \in Nat /\ stats.cycles \in Nat
         /\ \A id \in 1 .. Dispatched : id \in 1 .. N
         /\ \A id \in 1 .. N : /\ dispatched_at[id] \in Nat
                               /\ completed_at[id] \in Nat
                               /\ retired_at[id] \in Nat
         /\ \A id \in 1 .. Dispatched : /\ TimeInRob[id] \in Int
                                        /\ TimeInSchedQ[id] \in Int
<1>1. /\ Dispatched \in Nat /\ Retired \in Nat
      /\ \A id \in 1 .. Dispatched : id \in 1 .. N
  BY Counts DEF OrderInv, FetchAhead
<1>2. stats.cycles \in Nat  BY DEF StatsTypeOK, Counter
<1>3. \A id \in 1 .. N : /\ dispatched_at[id] \in Nat
                         /\ completed_at[id] \in Nat
                         /\ retired_at[id] \in Nat
  BY DEF StatsTypeOK, HistoryOK
<1>4. \A id \in 1 .. N : TimeInRob[id] \in Int /\ TimeInSchedQ[id] \in Int
  BY <1>2, <1>3, TimeAt
<1> QED  BY <1>1, <1>2, <1>3, <1>4

LEMMA UsageInit == SInit => UsageInv
<1> SUFFICES ASSUME SInit PROVE UsageInv  OBVIOUS
<1>1. /\ Init
      /\ \A c \in Counter \ {"icache_misses", "dcache_misses"} : stats[c] = 0
  BY ReaderCounts DEF SInit
<1>2. Dispatched = 0
  BY <1>1, EmptySeq DEF Init, Dispatched, Retired
<1>3. stats.rob_total_usage = 0 /\ stats.schedq_total_usage = 0
  BY <1>1 DEF Counter
<1> QED  BY <1>2, <1>3, TotalEquations DEF UsageInv

(* Steps that leave every clock at the time it shows. *)
LEMMA UsageFrame ==
  ASSUME TypeOK, OrderInv, StatsTypeOK, UsageInv, Dispatched' = Dispatched,
         stats'["rob_total_usage"] = stats["rob_total_usage"],
         stats'["schedq_total_usage"] = stats["schedq_total_usage"],
         \A id \in 1 .. Dispatched : /\ TimeInRob'[id] = TimeInRob[id]
                                     /\ TimeInSchedQ'[id] = TimeInSchedQ[id]
  PROVE  UsageInv'
<1> DEFINE r == TimeInRob  rn == TimeInRob'  s == TimeInSchedQ
           sn == TimeInSchedQ'  n == Dispatched
<1>1. /\ n \in Nat
      /\ \A k \in 1 .. n : r[k] \in Int /\ rn[k] = r[k]
      /\ \A k \in 1 .. n : s[k] \in Int /\ sn[k] = s[k]
  BY TimeType
<1> HIDE DEF r, rn, s, sn, n
<1>2. Total(rn, n) = Total(r, n) /\ Total(sn, n) = Total(s, n)
  BY <1>1, TotalSame
<1>3. /\ Total(TimeInRob', Dispatched) = Total(TimeInRob, Dispatched)
      /\ Total(TimeInSchedQ', Dispatched) = Total(TimeInSchedQ, Dispatched)
  BY <1>2 DEF r, rn, s, sn, n
<1> QED  BY <1>3 DEF UsageInv, Total

(* Nothing the clocks read has changed. *)
LEMMA UsageStill ==
  ASSUME TypeOK, OrderInv, StatsTypeOK, UsageInv, Dispatched' = Dispatched,
         Retired' = Retired,
         \A id \in Nat : Completed(id)' <=> Completed(id),
         UNCHANGED <<dispatched_at, completed_at, retired_at>>,
         \A c \in {"cycles", "rob_total_usage", "schedq_total_usage"} :
           stats'[c] = stats[c]
  PROVE  UsageInv'
<1>1. stats'.cycles = stats.cycles  OBVIOUS
<1>2. \A id \in 1 .. N : /\ TimeInRob'[id] = TimeInRob[id]
                         /\ TimeInSchedQ'[id] = TimeInSchedQ[id]
  BY <1>1, TimeAt, TimeAtNext
<1> QED  BY <1>2, TimeType, UsageFrame

LEMMA UsageRetire ==
  ASSUME TypeOK, OrderInv, StatsTypeOK, UsageInv, SRetire
  PROVE  UsageInv'
<1>1. retire_count' \in Nat
  BY Counts, RetireEntryHead DEF SRetire, RetireDone, cycleVars
<1>2. \A c \in {"cycles", "rob_total_usage", "schedq_total_usage"} :
        stats'[c] = stats[c]
  <2>1. PICK last : stats' = RetireCounted(last)  BY DEF SRetire
  <2> QED  BY <1>1, <2>1, RetireCounters DEF StatsTypeOK, Counter
<1>3. CASE RetireEntry
  <2>1. /\ Retired' = Retired + 1 /\ Dispatched' = Dispatched
        /\ \A w \in Nat : Completed(w)' <=> Completed(w)
    BY <1>3, RetireEntryHead, CompletedRetire
  <2>2. /\ retired_at' = [retired_at EXCEPT ![Retired + 1] = stats.cycles]
        /\ UNCHANGED <<dispatched_at, completed_at>>
    BY <1>3, RetireEntryHead DEF SRetire, RetireDone, RetireEntry
  <2>3. stats'.cycles = stats.cycles  BY <1>2
  <2>4. \A id \in 1 .. N : TimeInSchedQ'[id] = TimeInSchedQ[id]
    BY <2>1, <2>2, <2>3, TimeAt, TimeAtNext
  <2>5. ASSUME NEW id \in 1 .. N PROVE TimeInRob'[id] = TimeInRob[id]
    <3>1. retired_at \in [1 .. N -> Nat]  BY DEF StatsTypeOK, HistoryOK
    <3>2. CASE id <= Retired
      <4>1. id # Retired + 1 /\ id <= Retired'  BY <2>1, <3>2, Counts
      <4>2. retired_at'[id] = retired_at[id]  BY <2>2, <3>1, <4>1
      <4> QED  BY <2>2, <3>2, <4>1, <4>2, TimeAt, TimeAtNext
    <3>3. CASE id = Retired + 1
      <4>1. ~(id <= Retired) /\ id <= Retired'  BY <2>1, <3>3, Counts
      <4>2. retired_at'[id] = stats.cycles  BY <2>2, <3>1, <3>3
      <4> QED  BY <2>2, <4>1, <4>2, TimeAt, TimeAtNext
    <3>4. CASE ~(id <= Retired) /\ id # Retired + 1
      <4>1. ~(id <= Retired')  BY <2>1, <3>4, Counts
      <4> QED  BY <2>2, <2>3, <3>4, <4>1, TimeAt, TimeAtNext
    <3> QED  BY <3>2, <3>3, <3>4
  <2> QED  BY <1>2, <2>1, <2>4, <2>5, TimeType, UsageFrame
<1>4. CASE RetireDone
  <2>1. UNCHANGED <<rob, retired_inst_idx, retire_count>>
    BY <1>4 DEF RetireDone, driverVars, cycleVars
  <2>2. UNCHANGED <<dispatched_at, completed_at, retired_at>>
    BY <1>4 DEF SRetire, RetireDone, RetireEntry
  <2>3. Retired' = Retired  BY <2>1 DEF Retired
  <2> QED  BY <1>2, <2>1, <2>2, <2>3, CompletedFrame, UsageStill
<1> QED  BY <1>3, <1>4 DEF SRetire

(* A result on the bus is of an instruction that has not completed. *)
LEMMA ResultIsNew ==
  ASSUME Machine, ResultBus
  PROVE  /\ ~Completed(Head(complete_vec).inst)
         /\ Head(complete_vec).inst \in 1 .. Dispatched
<1> USE DEF Machine
<1> DEFINE c == Head(complete_vec)
<1>1. /\ complete_vec # <<>> /\ complete_vec \in Seq(FuEntry)
      /\ Tail(complete_vec) \in Seq(FuEntry)
  BY UnitTypes, HeadTailProperties DEF ResultBus
<1>2. c.inst \in 1 .. Dispatched
  <2>1. Len(complete_vec) \in Nat \ {0} /\ c = complete_vec[1]
    BY <1>1, EmptySeq, LenProperties, HeadTailProperties
  <2> QED  BY <2>1 DEF DataInv, ResultsOK, ResultOK
<1> HIDE DEF c
<1>3. c.inst \in 1 .. N  BY <1>2, Counts DEF OrderInv, FetchAhead
<1>4. Occurrences(complete_vec, c.inst)
        = AsNumber(c.inst = c.inst) + Occurrences(Tail(complete_vec), c.inst)
  BY <1>1, OccTail DEF c
<1>5. Occurrences(Tail(complete_vec), c.inst) \in Nat
  BY <1>1, LenProperties, SpotsFinite
<1>6. AsNumber(c.inst = c.inst) = 1  BY DEF AsNumber
<1>7. Places(c.inst) # 0
  BY <1>4, <1>5, <1>6, PlacesSum
<1>8. HasFired(c.inst)  BY <1>3, <1>7 DEF PlacesOK, AsNumber
<1>9. ~Completed(c.inst)  BY <1>8 DEF HasFired, StationOrder
<1> QED  BY <1>2, <1>9 DEF c

LEMMA UsageResult ==
  ASSUME Machine, StatsTypeOK, UsageInv, SExec, ResultBus
  PROVE  UsageInv'
<1> USE DEF Machine
<1> DEFINE x == Head(complete_vec).inst
<1>1. /\ Dispatched' = Dispatched /\ Retired' = Retired
      /\ \A w : Completed(w)' <=> Completed(w) \/ (w = x /\ Holds(rob, w))
  <2>1. UNCHANGED <<retired_inst_idx, retire_count>>
    BY DEF ResultBus, driverVars, cycleVars
  <2>2. Retired' = Retired  BY <2>1 DEF Retired
  <2> QED  BY <2>2, CompletedResult
<1>2. ~Completed(x) /\ x \in 1 .. Dispatched  BY ResultIsNew
<1>3. /\ completed_at' = [completed_at EXCEPT ![x] = stats.cycles]
      /\ UNCHANGED <<dispatched_at, retired_at, stats>>
  BY DEF SExec, ResultBus, ResultBusDone, AluCheck, MulCheck, LsuCheck, ExecDone
<1> HIDE DEF x
<1>4. \A id \in 1 .. N : TimeInRob'[id] = TimeInRob[id]
  BY <1>1, <1>3, TimeAt, TimeAtNext
<1>5. ASSUME NEW id \in 1 .. N PROVE TimeInSchedQ'[id] = TimeInSchedQ[id]
  <2>1. completed_at \in [1 .. N -> Nat]  BY DEF StatsTypeOK, HistoryOK
  <2>2. CASE id = x
    <3>1. completed_at'[id] = stats.cycles  BY <1>3, <2>1, <2>2
    <3>2. ~Completed(id)  BY <1>2, <2>2
    <3> QED  BY <1>3, <3>1, <3>2, TimeAt, TimeAtNext
  <2>3. CASE id # x
    <3>1. completed_at'[id] = completed_at[id]  BY <1>3, <2>1, <2>3
    <3>2. Completed(id)' <=> Completed(id)  BY <1>1, <2>3
    <3> QED  BY <1>3, <3>1, <3>2, TimeAt, TimeAtNext
  <2> QED  BY <2>2, <2>3
<1> QED  BY <1>1, <1>3, <1>4, <1>5, TimeType, UsageFrame

LEMMA UsageDispatch ==
  ASSUME TypeOK, OrderInv, StatsTypeOK, UsageInv, SDispatch, DispatchInst
  PROVE  UsageInv'
<1> DEFINE d == Dispatched
<1>1. /\ Dispatched' = d + 1 /\ Head(disp_q) = d + 1
      /\ \A w \in Nat : Completed(w)' <=> Completed(w)
  BY CompletedDispatch
<1>2. d + 1 \in 1 .. N
  BY <1>1, DispatchHead, Counts
     DEF DispatchInst, CanDispatch, OrderInv, FetchAhead
<1>3. Retired' = Retired
  BY DEF DispatchInst, driverVars, cycleVars, Retired
<1>4. /\ dispatched_at' = [dispatched_at EXCEPT ![d + 1] = stats.cycles]
      /\ UNCHANGED <<completed_at, retired_at, stats>>
  BY <1>1 DEF SDispatch, DispatchInst, DispatchNop, DispatchDone
<1>5. /\ d \in Nat /\ Retired \in Nat /\ Retired <= d /\ stats.cycles \in Nat
  BY Counts, TimeType DEF Dispatched
<1>6. ~Completed(d + 1)  BY <1>5, CompletedBound
<1>7. dispatched_at \in [1 .. N -> Nat]  BY DEF StatsTypeOK, HistoryOK
<1>8. /\ TimeInRob'[d + 1] = 0 /\ TimeInSchedQ'[d + 1] = 0
  <2>1. PICK x \in 1 .. N : x = d + 1  BY <1>2
  <2>2. dispatched_at'[x] = stats.cycles  BY <1>4, <1>7, <2>1
  <2>3. ~(x <= Retired')  BY <1>3, <1>5, <2>1
  <2>4. ~Completed(x)  BY <1>6, <2>1
  <2>5. ~Completed(x)'  BY <1>1, <2>4
  <2>6. TimeInRob'[x] = stats.cycles - stats.cycles
    BY <1>4, <2>2, <2>3, TimeAtNext
  <2>7. TimeInSchedQ'[x] = stats.cycles - stats.cycles
    BY <1>4, <2>2, <2>5, TimeAtNext
  <2>8. TimeInRob'[x] = 0 /\ TimeInSchedQ'[x] = 0  BY <1>5, <2>6, <2>7
  <2> QED  BY <2>1, <2>8
<1>9. ASSUME NEW id \in 1 .. d
      PROVE  TimeInRob'[id] = TimeInRob[id]
             /\ TimeInSchedQ'[id] = TimeInSchedQ[id]
  <2>1. id \in 1 .. N /\ id # d + 1  BY <1>5, TimeType
  <2>2. dispatched_at'[id] = dispatched_at[id]  BY <1>4, <1>7, <2>1
  <2> QED  BY <1>1, <1>3, <1>4, <2>1, <2>2, TimeAt, TimeAtNext
<1> DEFINE r == TimeInRob  rn == TimeInRob'  s == TimeInSchedQ
           sn == TimeInSchedQ'
<1>10. \A k \in 1 .. d : /\ r[k] \in Int /\ rn[k] = r[k]
                         /\ s[k] \in Int /\ sn[k] = s[k]
  BY <1>9, TimeType
<1>11. rn[d + 1] = 0 /\ sn[d + 1] = 0  BY <1>8
<1>12. stats.rob_total_usage = Total(r, d)
       /\ stats.schedq_total_usage = Total(s, d)
  BY DEF UsageInv
<1> HIDE DEF r, rn, s, sn, d
<1>13. /\ Total(r, d) \in Int /\ Total(rn, d) = Total(r, d)
       /\ Total(s, d) \in Int /\ Total(sn, d) = Total(s, d)
  BY <1>5, <1>10, TotalSame
<1>14. /\ Total(rn, d + 1) = Total(rn, d) + rn[d + 1]
       /\ Total(sn, d + 1) = Total(sn, d) + sn[d + 1]
  BY <1>5, TotalEquations
<1>15. Total(rn, d + 1) = Total(r, d) /\ Total(sn, d + 1) = Total(s, d)
  BY <1>11, <1>13, <1>14
<1>16. /\ stats'.rob_total_usage = Total(rn, Dispatched')
       /\ stats'.schedq_total_usage = Total(sn, Dispatched')
  BY <1>1, <1>4, <1>12, <1>15
<1> QED  BY <1>16 DEF UsageInv, rn, sn, Total

(* The lengths of the queues, as numbers of instructions. *)
LEMMA RobLength ==
  ASSUME TypeOK
  PROVE  Cardinality({id \in 1 .. Dispatched : id > Retired}) = Len(rob)
<1>1. /\ Retired \in Nat /\ Len(rob) \in Nat
      /\ Dispatched = Retired + Len(rob)
  BY Counts DEF Dispatched
<1>2. {id \in 1 .. Dispatched : id > Retired} = Retired + 1 .. Dispatched
  BY <1>1
<1> DEFINE a == Retired + 1  b == Dispatched
<1>3. a \in Int /\ b \in Int /\ b = a - 1 + Len(rob)  BY <1>1
<1>4. Cardinality({id \in 1 .. b : id > Retired}) = Cardinality(a .. b)
  BY <1>2
<1> SUFFICES Cardinality(a .. b) = Len(rob)  BY <1>4
<1> HIDE DEF a, b
<1>5. Cardinality(a .. b) = IF a > b THEN 0 ELSE b - a + 1
  BY <1>3, FS_Interval
<1> QED  BY <1>1, <1>3, <1>5

LEMMA SchedQLength ==
  ASSUME TypeOK, StationOrder
  PROVE  Cardinality({id \in 1 .. Dispatched : ~Completed(id)}) = Len(sche_q)
<1> DEFINE n == Len(sche_q)
           S == {id \in 1 .. Dispatched : ~Completed(id)}
           f == [k \in 1 .. n |-> sche_q[k].inst]
<1>1. n \in Nat  BY LengthTypes
<1>2. /\ \A j, k \in 1 .. n : j < k => sche_q[j].inst < sche_q[k].inst
      /\ \A k \in 1 .. n : sche_q[k].inst \in S
      /\ \A w \in S : \E k \in 1 .. n : sche_q[k].inst = w
  BY DEF StationOrder, Holds
<1>3. S \subseteq Nat  BY Counts
<1>4. \A k \in 1 .. n : f[k] = sche_q[k].inst  OBVIOUS
<1> HIDE DEF S, n
<1>5. f \in [1 .. n -> S]  BY <1>2
<1> HIDE DEF f
<1>6. \A j, k \in 1 .. n : f[j] = f[k] => j = k
  <2> SUFFICES ASSUME NEW j \in 1 .. n, NEW k \in 1 .. n, j # k
               PROVE  f[j] # f[k]
    OBVIOUS
  <2>1. f[j] \in Nat /\ f[k] \in Nat  BY <1>3, <1>5
  <2>2. j < k \/ k < j  BY <1>1
  <2>3. f[j] < f[k] \/ f[k] < f[j]  BY <1>2, <1>4, <2>2
  <2> QED  BY <2>1, <2>3
<1>7. \A w \in S : \E k \in 1 .. n : f[k] = w  BY <1>2, <1>4
<1>8. f \in Bijection(1 .. n, S)
  BY <1>5, <1>6, <1>7 DEF Bijection, Injection, Surjection, IsInjective
<1>9. IsFiniteSet(1 .. n) /\ Cardinality(1 .. n) = n  BY <1>1, FS_Interval
<1>10. ExistsBijection(1 .. n, S)  BY <1>8 DEF ExistsBijection
<1>11. Cardinality(S) = n  BY <1>9, <1>10, FS_Bijection
<1> QED  BY <1>11 DEF S, n

LEMMA UsageEnd ==
  ASSUME TypeOK, OrderInv, StationOrder, StatsTypeOK, UsageInv, SEndCycle
  PROVE  UsageInv'
<1>1. EndCycle /\ UNCHANGED <<dispatched_at, completed_at, retired_at>>
  BY DEF SEndCycle, history
<1>2. /\ Dispatched' = Dispatched /\ Retired' = Retired
      /\ \A w : Completed(w)' <=> Completed(w)
  BY <1>1, EndCycleFrame
<1>3. /\ stats'.cycles = stats.cycles + 1
      /\ stats'.rob_total_usage = stats.rob_total_usage + Len(rob)
      /\ stats'.schedq_total_usage = stats.schedq_total_usage + Len(sche_q)
  BY LengthTypes, EndCounters DEF SEndCycle, StatsTypeOK
<1> DEFINE r == TimeInRob  rn == TimeInRob'  s == TimeInSchedQ
           sn == TimeInSchedQ'  d == Dispatched
           R == {id \in 1 .. d : id > Retired}
           S == {id \in 1 .. d : ~Completed(id)}
<1>4. /\ d \in Nat /\ Retired \in Nat /\ stats.cycles \in Nat
      /\ \A k \in 1 .. d : k \in 1 .. N /\ r[k] \in Int /\ s[k] \in Int
      /\ \A k \in 1 .. N : /\ dispatched_at[k] \in Nat
                           /\ completed_at[k] \in Nat /\ retired_at[k] \in Nat
  BY TimeType
<1>5. ASSUME NEW k \in 1 .. d
      PROVE  rn[k] = r[k] + (IF k \in R THEN 1 ELSE 0)
  <2>1. /\ r[k] = (IF k <= Retired THEN retired_at[k] ELSE stats.cycles)
                    - dispatched_at[k]
        /\ rn[k] = (IF k <= Retired THEN retired_at[k] ELSE stats.cycles + 1)
                     - dispatched_at[k]
    BY <1>1, <1>2, <1>3, <1>4, TimeAt, TimeAtNext
  <2>2. k \in R <=> ~(k <= Retired)  BY <1>4
  <2>3. /\ dispatched_at[k] \in Nat /\ retired_at[k] \in Nat
    BY <1>4
  <2> HIDE DEF r, rn, R
  <2>4. CASE k <= Retired  BY <2>1, <2>2, <2>3, <2>4
  <2>5. CASE ~(k <= Retired)  BY <1>4, <2>1, <2>2, <2>3, <2>5
  <2> QED  BY <2>4, <2>5
<1>6. ASSUME NEW k \in 1 .. d
      PROVE  sn[k] = s[k] + (IF k \in S THEN 1 ELSE 0)
  <2>1. /\ s[k] = (IF Completed(k) THEN completed_at[k] ELSE stats.cycles)
                    - dispatched_at[k]
        /\ sn[k] = (IF Completed(k) THEN completed_at[k]
                    ELSE stats.cycles + 1) - dispatched_at[k]
    BY <1>1, <1>2, <1>3, <1>4, TimeAt, TimeAtNext
  <2>2. k \in S <=> ~Completed(k)  OBVIOUS
  <2>3. /\ dispatched_at[k] \in Nat /\ completed_at[k] \in Nat
    BY <1>4
  <2> HIDE DEF s, sn, S
  <2>4. CASE Completed(k)  BY <2>1, <2>2, <2>3, <2>4
  <2>5. CASE ~Completed(k)  BY <1>4, <2>1, <2>2, <2>3, <2>5
  <2> QED  BY <2>4, <2>5
<1>7. R \cap (1 .. d) = R /\ S \cap (1 .. d) = S  OBVIOUS
<1>8. Cardinality(R) = Len(rob) /\ Cardinality(S) = Len(sche_q)
  BY RobLength, SchedQLength
<1>9. stats.rob_total_usage = Total(r, d)
      /\ stats.schedq_total_usage = Total(s, d)
  BY DEF UsageInv
<1> HIDE DEF r, rn, s, sn, d, R, S
<1>10. /\ Total(rn, d) = Total(r, d) + Len(rob)
       /\ Total(sn, d) = Total(s, d) + Len(sche_q)
  <2>1. d \in Nat  BY <1>4
  <2>2. /\ \A k \in 1 .. d : r[k] \in Int
        /\ \A k \in 1 .. d : s[k] \in Int
    BY <1>4
  <2>3. \A k \in 1 .. d : rn[k] = r[k] + (IF k \in R THEN 1 ELSE 0)
    BY <1>5
  <2>4. \A k \in 1 .. d : sn[k] = s[k] + (IF k \in S THEN 1 ELSE 0)
    BY <1>6
  <2>5. \A f, g, U :
          /\ \A k \in 1 .. d : f[k] \in Int
          /\ \A k \in 1 .. d : g[k] = f[k] + (IF k \in U THEN 1 ELSE 0)
          => Total(g, d) = Total(f, d) + Cardinality(U \cap (1 .. d))
    <3> SUFFICES ASSUME NEW f, NEW g, NEW U,
                        \A k \in 1 .. d : f[k] \in Int,
                        \A k \in 1 .. d :
                          g[k] = f[k] + (IF k \in U THEN 1 ELSE 0)
                 PROVE  Total(g, d) = Total(f, d) + Cardinality(U \cap (1 .. d))
      OBVIOUS
    <3> QED  BY <2>1, TotalAdded
  <2>6. Total(rn, d) = Total(r, d) + Cardinality(R \cap (1 .. d))
    BY <2>2, <2>3, <2>5
  <2>7. Total(sn, d) = Total(s, d) + Cardinality(S \cap (1 .. d))
    BY <2>2, <2>4, <2>5
  <2> QED  BY <1>7, <1>8, <2>6, <2>7
<1>11. /\ stats'.rob_total_usage = Total(rn, Dispatched')
       /\ stats'.schedq_total_usage = Total(sn, Dispatched')
  BY <1>2, <1>3, <1>9, <1>10 DEF d
<1> QED  BY <1>11 DEF UsageInv, rn, sn, Total

LEMMA UsageStep ==
  ASSUME Machine, StatsTypeOK, UsageInv, [SNext]_statsVars
  PROVE  UsageInv'
<1> USE DEF Machine
<1>1. CASE SRetire  BY <1>1, UsageRetire
<1>2. CASE CountFire
  <2>1. UNCHANGED <<rob, retired_inst_idx, retire_count>>
        /\ UNCHANGED <<dispatched_at, completed_at, retired_at>>
    BY <1>2 DEF CountFire, ScheduleDone, driverVars, cycleVars, history
  <2>2. \A c \in {"cycles", "rob_total_usage", "schedq_total_usage"} :
          stats'[c] = stats[c]
    BY <1>2, FireCounters DEF Counter
  <2>3. Retired' = Retired  BY <2>1 DEF Retired
  <2> QED  BY <2>1, <2>2, <2>3, CompletedFrame, UsageStill
<1>3. CASE CountStall
  <2>1. UNCHANGED <<rob, retired_inst_idx, retire_count>>
        /\ UNCHANGED <<dispatched_at, completed_at, retired_at>>
    BY <1>3 DEF CountStall, DispatchDone, driverVars, cycleVars, history
  <2>2. \A c \in {"cycles", "rob_total_usage", "schedq_total_usage"} :
          stats'[c] = stats[c]
    BY <1>3, StallCounters DEF Counter
  <2>3. Retired' = Retired  BY <2>1 DEF Retired
  <2> QED  BY <2>1, <2>2, <2>3, CompletedFrame, UsageStill
<1>4. CASE CountFetch
  <2>1. UNCHANGED <<rob, retired_inst_idx, retire_count>>
        /\ UNCHANGED <<dispatched_at, completed_at, retired_at>>
    BY <1>4 DEF CountFetch, FetchInst, driverVars, cycleVars, history
  <2>2. \A c \in {"cycles", "rob_total_usage", "schedq_total_usage"} :
          stats'[c] = stats[c]
    BY <1>4, FetchCounters DEF Counter
  <2>3. Retired' = Retired  BY <2>1 DEF Retired
  <2> QED  BY <2>1, <2>2, <2>3, CompletedFrame, UsageStill
<1>5. CASE SEndCycle  BY <1>5, UsageEnd
<1>6. CASE CountNothing
  <2>1. CASE SExec /\ ResultBus  BY <2>1, UsageResult
  <2>2. CASE SDispatch /\ DispatchInst  BY <2>2, UsageDispatch
  <2>3. CASE ~ResultBus /\ ~DispatchInst
    <3>1. UNCHANGED <<stats, dispatched_at, completed_at, retired_at>>
      BY <1>6, <2>3 DEF CountNothing, SExec, SSchedule, SDispatch, history
    <3>2. UNCHANGED <<rob, retired_inst_idx, retire_count>>
      <4>1. CASE SExec
        BY <2>3, <4>1 DEF SExec, AluCheck, MulCheck, LsuCheck, ExecDone,
          ResultBusDone, driverVars, cycleVars
      <4>2. CASE ~SExec
        BY <1>6, <2>3, <4>2 DEF CountNothing, ScheduleFire, ScheduleSkip,
          DispatchNop, FetchNothing, FetchNop, FetchMiss, FetchDone,
          Terminated, vars, driverVars, cycleVars
      <4> QED  BY <4>1, <4>2
    <3>3. Retired' = Retired  BY <3>2 DEF Retired
    <3> QED  BY <3>1, <3>2, <3>3, CompletedFrame, UsageStill
  <2>4. ResultBus => stage = "result_bus"  BY DEF ResultBus
  <2>5. DispatchInst => stage = "dispatch"  BY DEF DispatchInst
  <2>6. ResultBus => SExec
    BY <1>6, <2>4 DEF CountNothing, ScheduleFire, ScheduleSkip, DispatchInst,
      DispatchNop, FetchNothing, FetchNop, FetchMiss, FetchDone, Terminated,
      ResultBus, vars
  <2>7. DispatchInst => SDispatch
    BY <1>6, <2>5 DEF CountNothing, SExec, AluCheck, MulCheck, LsuCheck,
      ExecDone, ResultBus, ResultBusDone, ScheduleFire, ScheduleSkip,
      FetchNothing, FetchNop, FetchMiss, FetchDone, Terminated, vars,
      DispatchInst
  <2> QED  BY <2>1, <2>2, <2>3, <2>6, <2>7
<1> QED  BY <1>1, <1>2, <1>3, <1>4, <1>5, <1>6, CountingSteps

(* Little's law, exactly: the sum of the ROB's lengths over the cycles is  *)
(* the sum over the instructions of the cycles between dispatch and        *)
(* retirement, and that of the schedule queue's lengths the sum of the     *)
(* cycles between dispatch and result.                                     *)
THEOREM UsageIsResidenceHolds == SSpec => []UsageIsResidence
<1>1. SInit => StatsTypeOK /\ UsageInv
  BY StatsTypeInit, UsageInit
<1>2. Machine /\ Machine' /\ StatsTypeOK /\ UsageInv /\ [SNext]_statsVars
        => (StatsTypeOK /\ UsageInv)'
  BY StatsTypeStep, UsageStep DEF Machine
<1>3. UsageInv => UsageIsResidence  BY DEF UsageInv, UsageIsResidence
<1> QED  BY <1>1, <1>2, <1>3, MachineHolds, PTL DEF SSpec

-----------------------------------------------------------------------------
(* Predictors *)

(* A record with the fields of a predictor.  What the tables hold does not *)
(* matter here.                                                            *)
IsPredictor(b) ==
  /\ DOMAIN b = {"kind", "history_table", "pattern_table", "GHR", "ctr"}
  /\ b.kind \in PredictorKind

LEMMA InitIsPredictor ==
  ASSUME NEW kind \in PredictorKind
  PROVE  IsPredictor(InitPredictor(kind)) /\ InitPredictor(kind).kind = kind
BY DEF IsPredictor, InitPredictor

LEMMA UpdateIsPredictor ==
  ASSUME NEW b, IsPredictor(b), NEW ip, NEW taken
  PROVE  /\ IsPredictor(UpdatePredictor(b, ip, taken))
         /\ UpdatePredictor(b, ip, taken).kind = b.kind
<1>1. CASE b.kind = "ALWAYS_TAKEN"  BY <1>1 DEF UpdatePredictor
<1>2. CASE b.kind = "TWO_BIT_COUNTER"
  BY <1>2 DEF UpdatePredictor, TwoBitUpdate, IsPredictor
<1>3. CASE b.kind = "YEHPATT"
  BY <1>3 DEF UpdatePredictor, YehPattUpdate, IsPredictor
<1>4. CASE b.kind = "GSHARE"
  BY <1>4 DEF UpdatePredictor, GshareUpdate, IsPredictor
<1> QED  BY <1>1, <1>2, <1>3, <1>4 DEF IsPredictor, PredictorKind

LEMMA PredictBoolean ==
  ASSUME NEW b, IsPredictor(b), NEW ip
  PROVE  Predict(b, ip) \in BOOLEAN
<1>1. CASE b.kind = "ALWAYS_TAKEN"  BY <1>1 DEF Predict
<1>2. CASE b.kind = "TWO_BIT_COUNTER"  BY <1>2 DEF Predict
<1>3. CASE b.kind = "YEHPATT"  BY <1>3 DEF Predict
<1>4. CASE b.kind = "GSHARE"  BY <1>4 DEF Predict
<1> QED  BY <1>1, <1>2, <1>3, <1>4 DEF IsPredictor, PredictorKind

-----------------------------------------------------------------------------
(* Training on a trace *)

Learned(b, n) ==
  IF Op(n) # "BRANCH" THEN b ELSE UpdatePredictor(b, pc[n], insts[n].br_taken)

(* A recursive definition of TrainedOn has a solution ... *)
IsTraining(g, kind, n) ==
  g = [k \in 0 .. n |-> IF k = 0 THEN InitPredictor(kind)
                        ELSE Learned(g[k - 1], k)]

LEMMA TrainingExists ==
  ASSUME NEW kind, NEW n \in Nat
  PROVE  \E g : IsTraining(g, kind, n)
<1> DEFINE S == {m \in Nat : ~ \E g : IsTraining(g, kind, m)}
<1> SUFFICES ASSUME S # {} PROVE FALSE  OBVIOUS
<1>1. PICK m \in S : \A k \in S : m <= k  BY MinNat
<1>2. CASE m = 0
  <2> DEFINE g == [k \in 0 .. 0 |-> InitPredictor(kind)]
  <2>1. IsTraining(g, kind, 0)  BY DEF IsTraining
  <2> QED  BY <1>2, <2>1
<1>3. CASE m # 0
  <2>1. m \in Nat /\ m - 1 \in Nat /\ ~(m <= m - 1)  BY <1>3
  <2>2. PICK g : IsTraining(g, kind, m - 1)  BY <1>1, <2>1
  <2> DEFINE h == [k \in 0 .. m |-> IF k = m THEN Learned(g[m - 1], m)
                                    ELSE g[k]]
  <2>3. \A k \in 0 .. m - 1 :
          g[k] = IF k = 0 THEN InitPredictor(kind) ELSE Learned(g[k - 1], k)
    BY <2>1, <2>2 DEF IsTraining
  <2>4. \A k \in 0 .. m :
          h[k] = IF k = 0 THEN InitPredictor(kind) ELSE Learned(h[k - 1], k)
    <3> SUFFICES ASSUME NEW k \in 0 .. m
                 PROVE  h[k] = IF k = 0 THEN InitPredictor(kind)
                               ELSE Learned(h[k - 1], k)
      OBVIOUS
    <3>1. CASE k = m
      <4>1. m - 1 \in 0 .. m /\ m - 1 # m /\ m \in 0 .. m  BY <2>1
      <4>2. h[m - 1] = g[m - 1] /\ h[m] = Learned(g[m - 1], m)  BY <4>1
      <4> QED  BY <1>3, <3>1, <4>2
    <3>2. CASE k # m
      <4>1. k \in 0 .. m - 1 /\ h[k] = g[k]  BY <2>1, <3>2
      <4>2. k # 0 => k - 1 \in 0 .. m /\ k - 1 # m  BY <4>1, <2>1
      <4>3. k # 0 => h[k - 1] = g[k - 1]  BY <4>2
      <4> QED  BY <2>3, <4>1, <4>3
    <3> QED  BY <3>1, <3>2
  <2>5. h = [k \in 0 .. m |-> h[k]]  OBVIOUS
  <2> HIDE DEF h
  <2>6. IsTraining(h, kind, m)  BY <2>4, <2>5 DEF IsTraining
  <2> QED  BY <1>1, <2>6
<1> QED  BY <1>2, <1>3

(* ... which satisfies its equations. *)
LEMMA TrainedEquations ==
  /\ TrainedOn[0] = InitPredictor(bp.kind)
  /\ \A n \in 1 .. N : TrainedOn[n] = Learned(TrainedOn[n - 1], n)
<1>1. N \in Nat  BY TraceAssumption
<1>2. TrainedOn = CHOOSE g : IsTraining(g, bp.kind, N)
  BY DEF TrainedOn, IsTraining, Learned
<1>3. IsTraining(TrainedOn, bp.kind, N)  BY <1>1, <1>2, TrainingExists
<1>4. \A n \in 0 .. N :
        TrainedOn[n] = IF n = 0 THEN InitPredictor(bp.kind)
                       ELSE Learned(TrainedOn[n - 1], n)
  BY <1>3 DEF IsTraining
<1> QED  BY <1>1, <1>4

(* What is learned depends on the trace and the kind of predictor only. *)
LEMMA TrainedKept ==
  ASSUME UNCHANGED <<insts, pc>>, bp'.kind = bp.kind
  PROVE  TrainedOn' = TrainedOn
BY DEF TrainedOn, Op

(* Instructions that are not branches teach nothing. *)
LEMMA TrainedOverOthers ==
  ASSUME NEW m \in 0 .. N, NEW n \in m .. N,
         \A j \in m + 1 .. n : Op(j) # "BRANCH"
  PROVE  TrainedOn[n] = TrainedOn[m]
<1>1. N \in Nat  BY TraceAssumption
<1> DEFINE S == {j \in m .. n : TrainedOn[j] # TrainedOn[m]}
<1>2. SUFFICES ASSUME S # {} PROVE FALSE
  <2>1. n \in m .. n  BY <1>1
  <2> QED  BY <2>1
<1>3. PICK j \in S : \A k \in S : j <= k
  <2>1. S \subseteq Nat  BY <1>1
  <2> QED  BY <1>2, <2>1, MinNat
<1>4. j # m /\ j \in m .. n  OBVIOUS
<1>5. j \in m + 1 .. n /\ j - 1 \in m .. n /\ ~(j <= j - 1) /\ j \in 1 .. N
  BY <1>1, <1>4
<1>6. TrainedOn[j - 1] = TrainedOn[m]  BY <1>3, <1>5
<1>7. TrainedOn[j] = TrainedOn[j - 1]
  BY <1>5, TrainedEquations DEF Learned
<1> QED  BY <1>6, <1>7

-----------------------------------------------------------------------------
(* The processor underneath *)

(* The predictor chooses among the predictions Procsim allows. *)
LEMMA BranchStep ==
  ASSUME IsPredictor(bp), [BNext]_branchVars
  PROVE  [Next]_vars
<1>1. BFetchInst => Fetch
  <2>1. Predict(bp, pc[next_inst]) \in BOOLEAN  BY PredictBoolean
  <2> QED  BY <2>1 DEF BFetchInst, Fetch
<1> QED
  BY <1>1 DEF BNext, BRetire, BFetch, Next, Retire, Fetch, branchVars

LearnedInv == IsPredictor(bp) /\ TrainedInOrder

LEMMA RetireFrame ==
  ASSUME TypeOK, OrderInv, RetireEntry
  PROVE  /\ Head(rob).inst = Retired + 1 /\ Retired + 1 \in 1 .. N
         /\ Retired' = Retired + 1 /\ Retired \in Nat /\ insts' = insts
<1>1. /\ rob # <<>> /\ retire_count' = retire_count + 1
      /\ insts' = insts /\ retired_inst_idx' = retired_inst_idx
  BY DEF RetireEntry, CanRetire, driverVars, traceVars
<1>2. Head(rob) = rob[1] /\ 1 \in 1 .. Len(rob)
  <2>1. rob \in Seq(RobEntry)  BY DEF TypeOK, QueueTypeOK
  <2> QED  BY <1>1, <2>1, HeadTailProperties, EmptySeq, LenProperties
<1>3. Head(rob).inst = Retired + 1
  BY <1>2, Counts DEF OrderInv, RobOrder
<1>4. Retired' = Retired + 1  BY <1>1, Counts DEF Retired
<1>5. Retired + 1 <= N /\ Retired \in Nat /\ N \in Nat
  BY <1>2, Counts DEF OrderInv, FetchAhead, Dispatched
<1> QED  BY <1>1, <1>3, <1>4, <1>5

(* A step that retires nothing leaves the driver's count alone. *)
LEMMA OtherRetired ==
  ASSUME TypeOK, [Next]_vars, ~RetireEntry
  PROVE  Retired' = Retired /\ insts' = insts
<1>1. CASE EndCycle  BY <1>1, EndCycleFrame
<1>2. CASE ~EndCycle
  <2>1. UNCHANGED <<retired_inst_idx, retire_count, insts>>
    BY <1>2 DEF Next, Retire, RetireDone, Exec, AluCheck, MulCheck, LsuCheck,
      ExecDone, ResultBus, ResultBusDone, Schedule, ScheduleFire,
      ScheduleSkip, ScheduleDone, Dispatch, DispatchInst, DispatchNop,
      DispatchDone, Fetch, FetchNothing, FetchNop, FetchMiss, FetchInst,
      FetchDone, Terminated, vars, traceVars, driverVars, cycleVars
  <2> QED  BY <2>1 DEF Retired
<1> QED  BY <1>1, <1>2

LEMMA LearnedStep ==
  ASSUME TypeOK, OrderInv, LearnedInv, [BNext]_branchVars
  PROVE  LearnedInv'
<1>1. IsPredictor(bp) /\ bp = TrainedOn[Retired]
  BY DEF LearnedInv, TrainedInOrder
<1>2. [Next]_vars  BY <1>1, BranchStep
<1>3. pc' = pc  BY DEF BNext, branchVars
<1>4. CASE RetireEntry
  <2>1. /\ Head(rob).inst = Retired + 1 /\ Retired + 1 \in 1 .. N
        /\ Retired' = Retired + 1 /\ Retired \in Nat /\ insts' = insts
    BY <1>4, RetireFrame
  <2>2. bp' = UpdatedBy(Head(rob).inst)
    <3>1. stage = "retire" /\ CanRetire /\ retire_count' = retire_count + 1
      BY <1>4 DEF RetireEntry
    <3>2. retire_count' # retire_count  BY <3>1, Counts
    <3>3. BNext  BY <3>2 DEF branchVars, vars, cycleVars
    <3>4. ~BFetch
      BY <3>1 DEF BFetch, BFetchInst, FetchNothing, FetchNop, FetchMiss,
        FetchDone
    <3>5. ~Exec /\ ~EndCycle /\ ~Terminated
      BY <3>1 DEF Exec, AluCheck, MulCheck, LsuCheck, ExecDone, ResultBus,
        ResultBusDone, EndCycle, Terminated
    <3>6. ~Schedule /\ ~Dispatch
      BY <3>1 DEF Schedule, ScheduleFire, ScheduleSkip, ScheduleDone,
        Dispatch, DispatchInst, DispatchNop, DispatchDone
    <3>7. ~RetireDone  BY <3>1 DEF RetireDone
    <3> QED  BY <3>3, <3>4, <3>5, <3>6, <3>7 DEF BNext, BRetire
  <2>3. bp' = Learned(bp, Retired + 1)  BY <2>1, <2>2 DEF UpdatedBy, Learned
  <2>4. IsPredictor(bp') /\ bp'.kind = bp.kind
    BY <1>1, <2>3, UpdateIsPredictor DEF Learned
  <2>5. TrainedOn' = TrainedOn  BY <1>3, <2>1, <2>4, TrainedKept
  <2>6. TrainedOn[Retired + 1] = Learned(TrainedOn[Retired], Retired + 1)
    BY <2>1, TrainedEquations
  <2>7. TrainedInOrder'  BY <1>1, <2>1, <2>3, <2>5, <2>6 DEF TrainedInOrder
  <2> QED  BY <2>4, <2>7 DEF LearnedInv
<1>5. CASE ~RetireEntry
  <2>1. bp' = bp
    BY <1>5 DEF BNext, BRetire, BFetch, BFetchInst, branchVars
  <2>2. Retired' = Retired /\ insts' = insts
    BY <1>2, <1>5, OtherRetired
  <2>3. TrainedOn' = TrainedOn  BY <1>3, <2>1, <2>2, TrainedKept
  <2> QED  BY <1>1, <2>1, <2>2, <2>3 DEF LearnedInv, TrainedInOrder
<1> QED  BY <1>4, <1>5

LEMMA LearnedInit == BInit => LearnedInv
<1> SUFFICES ASSUME BInit PROVE LearnedInv  OBVIOUS
<1>1. PICK kind \in KindSet : bp = InitPredictor(kind)  BY DEF BInit
<1>2. kind \in PredictorKind  BY BranchAssumption
<1>3. IsPredictor(bp) /\ bp.kind = kind  BY <1>1, <1>2, InitIsPredictor
<1>4. Retired = 0  BY DEF BInit, Init, Retired
<1>5. TrainedOn[0] = bp  BY <1>1, <1>3, TrainedEquations
<1> QED  BY <1>3, <1>4, <1>5 DEF LearnedInv, TrainedInOrder

(* The pipeline's invariants, and what the predictor has learned, hold of  *)
(* the processor with a real predictor in it (BRetire trains it, BFetch    *)
(* asks it), for every trace, predictor and size of its tables.            *)
THEOREM LearnedInvariant == BSpec => [](TypeOK /\ OrderInv /\ LearnedInv)
<1>1. BInit => TypeOK /\ OrderInv /\ LearnedInv
  BY InitType, OrderInit, LearnedInit DEF BInit
<1>2. TypeOK /\ OrderInv /\ LearnedInv /\ [BNext]_branchVars
        => (TypeOK /\ OrderInv /\ LearnedInv)'
  <2> SUFFICES ASSUME TypeOK, OrderInv, LearnedInv, [BNext]_branchVars
               PROVE  (TypeOK /\ OrderInv /\ LearnedInv)'
    OBVIOUS
  <2>1. [Next]_vars  BY BranchStep DEF LearnedInv
  <2> QED  BY <2>1, StepType, OrderStep, LearnedStep
<1> QED  BY <1>1, <1>2, PTL DEF BSpec

(* The predictor has learned exactly the branches that have retired, each  *)
(* once and in program order, whatever is in flight and in whatever order  *)
(* it executed.                                                            *)
THEOREM TrainedInOrderHolds == BSpec => []TrainedInOrder
<1>1. LearnedInv => TrainedInOrder  BY DEF LearnedInv
<1> QED  BY <1>1, LearnedInvariant, PTL

(* Only the delivery of an instruction moves the driver's index forward;   *)
(* the redirect after a misprediction finds it where it belongs.           *)
LEMMA IndexMoves ==
  ASSUME TypeOK, OrderInv, [Next]_vars, fetch_inst_idx' # fetch_inst_idx
  PROVE  \E prediction \in BOOLEAN : FetchInst(prediction)
<1>1. CASE EndCycle  BY <1>1 DEF EndCycle, RedirectIdx, OrderInv, RedirectSafe
<1>2. CASE ~EndCycle
  <2> SUFFICES ASSUME ~ \E prediction \in BOOLEAN : FetchInst(prediction)
               PROVE  fetch_inst_idx' = fetch_inst_idx
    OBVIOUS
  <2> QED
    BY <1>2 DEF Next, Retire, RetireEntry, RetireDone, Exec, AluCheck,
      MulCheck, LsuCheck, ExecDone, ResultBus, ResultBusDone, Schedule,
      ScheduleFire, ScheduleSkip, ScheduleDone, Dispatch, DispatchInst,
      DispatchNop, DispatchDone, Fetch, FetchNothing, FetchNop, FetchMiss,
      FetchDone, Terminated, vars, driverVars
<1> QED  BY <1>1, <1>2

(* After a misprediction the next branch is predicted with nothing left    *)
(* out: the mispredicted branch and all before it have been learned.       *)
THEOREM FreshAfterMispredictHolds == BSpec => FreshAfterMispredict
<1> DEFINE Fresh(id, k) ==
      /\ fetch_inst_idx = id - 1 /\ fetch_inst_idx' = id /\ Op(id) = "BRANCH"
      /\ mispredict[k] /\ \A j \in k + 1 .. id - 1 : Op(j) # "BRANCH"
      => bp = TrainedOn[id - 1]
<1>1. ASSUME TypeOK, OrderInv, LearnedInv, [BNext]_branchVars,
             NEW id \in 1 .. N, NEW k \in 1 .. id - 1
      PROVE  Fresh(id, k)
  <2> SUFFICES ASSUME fetch_inst_idx = id - 1, fetch_inst_idx' = id,
                      mispredict[k],
                      \A j \in k + 1 .. id - 1 : Op(j) # "BRANCH"
               PROVE  bp = TrainedOn[id - 1]
    OBVIOUS
  <2>1. [Next]_vars  BY <1>1, BranchStep DEF LearnedInv
  <2>2. OrderInv'  BY <1>1, <2>1, OrderStep
  <2>3. /\ Retired \in Nat /\ fetch_inst_idx \in Nat /\ N \in Nat
        /\ Retired <= fetch_inst_idx /\ id \in Nat /\ k \in Nat
        /\ id # id - 1
    BY <1>1, Counts, TraceAssumption DEF OrderInv, FetchAhead, Dispatched
  <2>4. PICK prediction \in BOOLEAN : FetchInst(prediction)
    BY <1>1, <2>1, <2>3, IndexMoves
  <2>5. /\ Retired' = Retired
        /\ \E wrong : mispredict' = [mispredict EXCEPT ![next_inst] = wrong]
    BY <2>4 DEF FetchInst, cycleVars, Retired
  <2>6. k # next_inst /\ k \in 1 .. N  BY <2>3 DEF next_inst
  <2>7. mispredict'[k]
    BY <1>1, <2>5, <2>6 DEF TypeOK, TraceTypeOK
  <2>8. k \notin Retired + 1 .. id - 1
    BY <2>2, <2>5, <2>7 DEF OrderInv, NothingPastMispredict
  <2>9. k <= Retired  BY <2>3, <2>8
  <2>10. Retired \in 0 .. N /\ id - 1 \in Retired .. N  BY <2>3
  <2>11. \A j \in Retired + 1 .. id - 1 : Op(j) # "BRANCH"  BY <2>3, <2>9
  <2>12. TrainedOn[id - 1] = TrainedOn[Retired]
    BY <2>10, <2>11, TrainedOverOthers
  <2> QED  BY <1>1, <2>12 DEF LearnedInv, TrainedInOrder
<1>2. TypeOK /\ OrderInv /\ LearnedInv /\ [BNext]_branchVars
        => [\A id \in 1 .. N : \A k \in 1 .. id - 1 : Fresh(id, k)]_branchVars
  BY <1>1
<1> QED
  BY <1>2, LearnedInvariant, PTL DEF BSpec, FreshAfterMispredict
=============================================================================
