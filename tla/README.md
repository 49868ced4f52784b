# Verification of the ECE6100/CS6290 simulators

The repository holds two simulators written for a course on computer
architecture. `project1` simulates a two-level cache on a memory trace.
`project2` simulates an out-of-order processor on an instruction trace, with a
choice of branch predictors, and can also run the predictors alone. Both are
single-threaded programs that read a trace and print statistics. What makes
them hard is not concurrency in the program but in the machine they simulate:
dozens of instructions in flight, tags that are reused and compared by value,
results that arrive out of order, caches whose replacement state depends on
every access before.

This directory has TLA+ modules for the core of both, TLC configurations that
check them on small instances, and proofs checked by TLAPS for the processor
with its statistics, for the predictors, for the caches and for the word
arithmetic of both programs.

## 1. The system

| Component | Source | State | Operations |
|---|---|---|---|
| Pipeline | `project2/procsim.hpp`, `procsim.cpp` | dispatch queue, schedule queue (reservation stations), ROB, register file and memory alias table, ALU/MUL/LSU units, result list, next tag | per cycle: state update, exec, schedule, dispatch, fetch |
| Driver of the pipeline | `project2/proj2_driver.cpp` | the trace, `fetch_inst_idx`, `in_mispred`, instruction-cache miss counter, `finished_miss`, watchdog | `procsim_driver_read_inst`, end of cycle in `run_procsim` |
| Branch predictors | `branchsim.cpp`, `Counter.cpp`, `branch_predictor_default.cpp` | history table, pattern table, global history, one counter | init, predict, update |
| Branch simulator | `run_branchsim`, `branchsim_update_stats` | a predictor, counts | per branch: predict, count, update |
| Cache set | `project1/cachesim_set_block.cpp` | frames with tag, valid, dirty, time stamp, MRU mark and count | find, insert, LRU and LFU victim, clear MRU |
| Cache hierarchy | `project1/cachesim_cache.cpp`, `cachesim.cpp` | L1 and L2, their clocks, last miss address, statistics | `sim_access` |
| Cache driver | `project1/cachesim_driver.cpp` | configuration | `validate_config`, loop over the trace |

How they interact: the pipeline calls the driver for the next instruction
(`procsim_driver_read_inst`) and gets an instruction, an end of trace, or a
reason to insert a NOP. When it hands a branch out the driver asks the
predictor and remembers whether it was wrong; `rob::retire` calls back
(`procsim_driver_update_predictor`) when the branch leaves the ROB. L1 calls L2
to read on a miss and to write a dirty victim back; L2 prefetches from inside
that read.

What is hard, and what has to be true of it:

* *Renaming.* Every producer gets two tags. A station, a register and an alias
  class become ready by comparing tags, whichever came first, the broadcast or
  the dispatch. Correct when an instruction fires exactly after everything it
  depends on (`DataflowOrder`, `MemoryOrder`, `NoLostWakeup`, `FutureFile`).
* *Out-of-order completion over shared queues.* Entries are erased from the
  middle of vectors, units are tracked by counters as well as slots, and
  completion is tested with `==` (`ReservationStations`, `FiredOnce`,
  `CountsBelowLatency`, `OldestReadyFirst`).
* *Misprediction.* Nothing is squashed: the driver stops handing instructions
  out, the machine has to drain, and the retirement of the branch redirects
  (`ProgramOrder`, `NothingPastMispredict`, `MispredictDrained`), while a miss
  of the instruction cache holds back one instruction and no other
  (`FinishedMissFresh`).
* *Progress.* The loop ends when everything has retired, or when a watchdog
  counts 256 cycles without retirement (`Terminates`, `WatchdogQuiet`).
* *Stale predictors.* A prediction is made with branches still in flight
  (`TrainedInOrder`, `FreshAfterMispredict`); and the order of index, train and
  shift matters (`HistoryRegisters`, `Learns`, `Hysteresis`).
* *Statistics.* They are all the program produces, and each is counted where
  some stage stands, in two files, with early exits between them
  (`StatsMatchDriver`, `CyclesAccounted`, `UsageIsResidence`,
  `StallMeansFullRob`).
* *Words and masks.* Which MUL units are taken is a word compared with a mask
  computed on `int` (`EachFedOnce`, `RoomWhileUnitFree`); the caches split and
  rebuild 64-bit addresses with masks computed on `int` (`SplitExact`,
  `SplitIsDivision`, `WriteBackFindsBlock`, `PrefetchAligned`).
* *Replacement state.* Recency is a time stamp which prefetches take from below
  (`ImplementsRecency`, `LipIsOldest`); LFU picks by counters, a protected
  block and the tag (`ImplementsFrequency`); a victim must exist
  (`VictimFound`, `SetShape`); L2 prefetches in the middle of an L1 miss
  (`PrefetchKeepsDemand`); reads, writes and write-backs have to balance
  (`StatsBalance`).

`PROJECT.json` lists these hazards with the lines where they bite.

## 2. Modules

```
Trace ── Procsim ── ProcsimRefinement ── MCProcsim
  │         │  ├─── ProcsimBranch ── MCProcsimBranch
  │         │  │          │
  │         │  │      Predictor ── BranchSim
  │         │  └─── ProcsimStats ── MCProcsimStats
  └─ Dataflow (abstract, instantiated by ProcsimRefinement)

Word ─┬─ MulUnits ── MCMulUnits
      └─ CacheAddr ── MCCacheAddr

CacheSet ── CacheSim ── CacheRefinement ── MCCacheSim
                              ├─ RecencyCache (abstract, LRU)
                              └─ FrequencyCache (abstract, LFU)
```

The proofs stand apart, each module on top of what it proves about:

```
Procsim ── ProcsimOrderProofs ── ProcsimDataProofs (and ProcsimRefinement)
                                        │
                                 ProcsimUnitProofs
                                        │
                                 ProcsimStatsProofs (and ProcsimStats, ProcsimBranch)

BranchSim ── BranchSimProofs          MulUnits ── MulUnitsProofs

CacheRefinement ── CacheProofs        CacheAddr ── CacheAddrProofs
```

**Trace.** The instruction trace after `read_entire_trace`, reduced to what
guards a step: opcode, registers, alias class, cache outcomes, branch
direction. It also says what a trace prescribes: `LastWriter`, `ReadsFrom`,
`SameClass`, `DependsOn`.

**Procsim.** The pipeline and its driver. The program runs the stages in the
fixed order of `procsim_do_cycle`; the variable `stage` says which one is
running, and one action is one iteration of that stage's loop (`RetireEntry`,
`AluCheck`, `MulCheck`, `LsuCheck`, `ResultBus`, `ScheduleFire`,
`DispatchInst`, `FetchInst`, ...), plus one per way a loop ends. `EndCycle` is
the rest of the body of `run_procsim`'s loop. The variables carry the names of
the code (`rob`, `rf`, `mat`, `sche_q`, `complete_vec`, `in_mispred`, ...). An
instruction is its place in the trace. The prediction of a branch is any value.
What is abstracted: the word of MUL units fed in a cycle (`mul_current`) and the
mask it is compared with are the numbers of their bits. The mask is computed on
`int` and has `MUL_NUM` modulo 32 of them (`MUL_MASK_UNITS`), so 32 units are
never fed in the model either; `MulUnits` is about the words themselves. The
latencies 2, 10 and 100 of the three cache outcomes are the constants
`L1_HIT_CYCLES`, `L2_HIT_CYCLES`, `L2_MISS_CYCLES`; the statistics, which guard
nothing, are in `ProcsimStats`. The literals 32 (registers, ROB entries per
fetch width) and 64 (alias classes) are constants as well.

**Dataflow, ProcsimRefinement.** The abstract machine: an instruction is
unfetched, fetched, executing, completed or retired; fetch and retirement are
in order, nothing is fetched past a mispredicted branch, and execution starts
after every dependence has completed. There are no tags, queues, units or
cycles. The refinement mapping reads the status of an instruction off the ROB,
the stations and `fetch_inst_idx`.

**ProcsimStats.** The pipeline with `procsim_stats_t`: what the reader of the
trace counts before the first cycle (the misses of both caches), every action of
`Procsim` together with what that stage adds to a counter, and a history of the
cycles in which each instruction was dispatched, completed and retired. The
properties compare the counters with the driver's indices, with one another and
with the history, at the points where the program reads them.

**Word, MulUnits.** A word is the set of its 1 bits, so 64-bit words and 32-bit
ints keep their widths. What C++ leaves undefined for `int` (a shift by 32 or
more, a 1 shifted into the sign) is taken as g++ on x86-64 compiles it.
`MulUnits` is `fu_has_room` and `push` for MULs on the real word: `Push` is one
MUL handed to a unit, `NextCycle` the reset at the next call of `schedule`.

**Predictor, BranchSim, ProcsimBranch.** The predictors are operators on one
record with the tables of all four; the kind is fixed by `InitPredictor`, as
`assign_predictor` fixes the function pointers. `BranchSim` is `run_branchsim`;
`ProcsimBranch` is the pipeline with the prediction taken from the predictor
(`BFetchInst`) and the training that `rob::retire` calls (`BRetire`). What
`BranchSim` promises is said of the trace alone: `Outcome(q, T, j, taken)` is
the outcome of the branch with `j` others after it among those at the places
`T`, and the context of a branch is the string of outcomes (and, for GShare, of
address bits) by which the predictor tells its counters apart.

**CacheSet, CacheSim.** One set, and the two levels. One action is one
`sim_access` with all it calls: `L1Hit`, or `L1Miss` with the read of L2, the
prefetch inside it, the insertion, and the write-back of a dirty victim, in
this order. An address is a block number; the configuration is a variable
chosen at the start, so one run covers several. `TS_BITS` is the width of a
time stamp. An insertion that finds no victim indexes `set[-1]`; built with g++
17 at `-O0` and `-O2` the program ends with a segmentation fault there, because
that element overlays the two counters in front of the array and is taken for a
`shared_ptr`. The model marks the cache `lost` and stops.

**RecencyCache, FrequencyCache, CacheRefinement.** The two abstract caches.
Under LRU each set is a list of blocks by recency: demand fills go to the front,
LIP prefetches to the back, and whatever no longer fits falls off. Under LFU
each set counts the uses of its blocks since they came in and protects the last
one used; a full set gives up the unprotected block used least, the lowest
among equals. Both keep the dirty blocks, and the recency cache also the traffic
below L1. The mapping sorts the frames of a set by time stamp, and reads uses
and protection off `counter` and `MRU`; `ImplementsRecency` is about behaviours
that start with an LRU configuration, `ImplementsFrequency` about those that
start with LFU and at least two ways in L1 (`UnderLfu`; L2 has no fewer). With
one way LFU finds no victim and the program does not go on: that is the finding
`cache_lfu_direct`.

**CacheAddr.** The masks of `Cache::Cache`, the tag and index of an access, the
address L1 rebuilds for a victim and the address L2 prefetches, for one block
that is read, and possibly written back. It is also where the sizes are that
the constructor does not build: the behaviour then ends in a null set.

## 3. Runs

| Run | Question | Result |
|---|---|---|
| `depend` | 7776 traces of 5 register-dependent instructions, width 2, two ALUs and MULs: renaming, wakeup, firing order | holds, 1.7 M states |
| `dataflow` | 2401 traces of 4 branches, misses, MULs, loads and stores, two LSUs: memory order, latencies, the refinement with fairness, termination | holds, 0.77 M states |
| `stats` | 7776 traces of 5 branches (predicted either way), instruction-cache misses and long operations, with full queues: control flow, the watchdog and the statistics | holds, 6.1 M states |
| `branch` | the pipeline with each of three predictors: what has been learned when a prediction is made | holds, 6.5 M states |
| `branchsim` | all sequences of up to 7 branches through each predictor: table shapes and counts, registers, learning, hysteresis | holds, 1.6 M states |
| `mul_units` | the word and mask of MUL units for 0 to 31 units | holds, 528 states |
| `cache` | 5 accesses to 4 blocks under 15 configurations: shape of sets, balance, prefetching, and both abstract caches | holds, 0.23 M states |
| `cache_addr` | the address arithmetic at 64 bits, on shapes and addresses at the limits | holds, 2152 states |
| `mul_units_32` | is there room exactly while a MUL unit is free, for any number of units? | violated |
| `cache_lfu_direct` | does LFU always find a victim? | violated |
| `cache_lip_wrap` | does LRU always find a victim under LIP? | violated |
| `cache_size` | can every configuration `validate_config` accepts be simulated? | violated |

Every property of a passing run has a mutant in `PROJECT.json`: a small change
of one definition, of the kind a slip in the code would be, under which the run
reports that property. The mutated forms stand in the modules, marked as such,
in front of the definition they replace; nothing else uses them.

### Bounds, and why they are enough

* *Pipeline.* Five instructions (four in `dataflow`, which checks liveness) and
  a width of 2 fill every queue of the small machines (4 or 6 ROB entries, 3 to
  6 stations, 6 dispatch entries), put three instructions in flight on
  one register, and let a younger writer overtake an older one whose consumer
  still waits. Register 0, which is no destination, is among the registers.
  Latencies such as 2, 3 and 4 keep the order of 2, 10 and 100 and are shorter
  and longer than the three MUL stages. Longer traces and other sizes are what
  the proofs are for.
* *Watchdog.* `MAX_CYCLES` in the `stats` run is 15, one more than the proved
  limit `RETIRE_LIMIT` (section 5) for its sizes, 2 * `L2_MISS_CYCLES` +
  `REG_NUM` + 2 = 14: an instruction-cache miss, then a load that misses, with
  NOPs in front of it. With the code's numbers the limit is 234, below its 256.
  A machine with no unit of some kind, which `parse_arguments` accepts, does run
  into the watchdog; the runs give every kind at least one.
* *MUL units.* The widths are the real ones, and 0 to 31 units are all for which
  the property holds; `mul_units_32` goes on with 32 and 40.
* *Predictors.* P = 2 and H = 1 (the driver asks for at least 9): two bits of
  history, two local histories, addresses that share one and an address that
  does not. Seven branches give each counter time to saturate and to deviate;
  `MAX_LINES` bounds the trace.
* *Caches.* L1 has two blocks and L2 four, in sets of one or two, and of four in
  L2 under LFU. Blocks 0, 2 and 4 conflict in both levels; block 15 is the last of the
  address space, so +1 and strides wrap. Five accesses evict from both levels
  and write dirty victims back. `MAX_ACCESSES` also keeps the stamps of LIP
  blocks above 0 (`ShortTrace` in section 5): for longer traces the `cache_lip_wrap` run shows that the
  properties do fail.
* *Addresses.* One set and 1024 sets, one way and 1024, the smallest and the
  largest blocks; addresses at both ends of 64 bits, around the sign bit of an
  int, around the borders of offset, index and tag, and one of a real trace. A
  mask is computed once per cache, so shapes matter and sequences do not.

### Fairness

The program is one thread that runs until it returns, so the specifications of
the pipeline assume weak fairness of the whole next-state relation and nothing
of its parts: which action is next is determined by `stage`. The only choice
left, the prediction of a branch, is unrestricted. `DataflowSpec` states
fairness per instruction; that the pipeline provides it is checked
(`ImplementsFairDataflow`), not assumed. `CacheSim` has the same fairness; no
property there depends on it. Deadlock is checked for the pipeline, whose final
states stutter explicitly (`Terminated`), and switched off for `BranchSim` and
the caches, where the bound on the trace is the end.

## 4. Findings

* **LFU on a direct-mapped cache** (`cache_lfu_direct`). `LFU_Victim_block`
  never picks the block marked MRU. With `-s 0` that is the only block, no
  victim is found, and the message "No block can victim! Wrong!" is not even
  printed, since the test is `victim_index < 0` on an unsigned number. The
  configuration is accepted by `validate_config` and swept by the
  `valid_grad_*.sh` scripts. The built program crashes at the same access as
  the model.
* **LIP time stamps run out** (`cache_lip_wrap`). Prefetches into a set without
  demand accesses in between take the smallest stamp minus 1. They start from
  2^(c-b+1), so after about that many the subtraction wraps and the prefetched
  block is the youngest instead of the oldest; once a set holds only such
  blocks, no victim is found. A sweep with a stride of two blocks under the +1
  prefetcher does this. On the smallest caches it takes eight accesses, in the
  model and in the built program.

* **32 MUL units** (`mul_units_32`). The mask of all units is computed as
  `(1 << mul_num) - 1` on `int`. For 32 units the compiled program gets 0, no
  MUL ever fires and the run ends with the watchdog's message; 33 units are one,
  40 units eight. `parse_arguments` accepts any number.
* **Caches that are not built** (`cache_size`). `Cache::Cache` returns early when
  a level would have more than 1024 sets, or when `c < b + s` makes the unsigned
  difference large, and its message is commented out. `validate_config` accepts
  both, and the first access to reach the level ends in a null pointer: the
  default configuration with `-C 20` or with `-c 6` does.

## 5. Proofs

Every theorem holds for every value of the constants that the named
assumptions of the modules allow, and TLC evaluates those assumptions in the
runs: `TraceAssumption`, `SizeAssumption` and `LatencyAssumption` for the
processor (every trace, length, width, number of units, registers and alias
classes, every latency), `PredictorAssumption`, `BranchAssumption` and
`BranchSimAssumption` for the predictors (tables and histories of up to 30 bits,
every trace), `StampAssumption` and `CacheAssumption` for the caches (every valid
configuration, every width of the stamps), `MulAssumption` (every number of
MUL units) and `AddrAssumption` (every valid configuration, every 64-bit
address).

### The pipeline

1. **Order** (`ProcsimOrderProofs`). `TypeCorrect` is `TypeOK` with the
   capacities of the three queues, inductive with the bounds on `mul_current`
   and on the loop index that it includes. `ProgramOrderHolds` and
   `NothingPastMispredictHolds` are not inductive: that a redirect changes
   nothing needs that a retiring mispredicted branch is the youngest
   instruction fetched, which needs that fetch stopped at it. `OrderInv` says
   both, together with where each queue begins and ends.
   `ReservationStationsHold` says that stations and unfinished ROB entries are
   the same instructions: the result bus removes a station and finishes a ROB
   entry in one step, from a list whose members have to be stations that fired.
2. **Data** (`ProcsimDataProofs`). `DataflowOrderHolds`, `MemoryOrderHolds`,
   `FutureFileHolds` and `NoLostWakeupHolds` follow from `DataInv`. The
   strengthening says which tag belongs to which instruction: every station,
   table entry and result in flight carries the tags of the instruction it
   stands for, tags of different instructions differ, and a waiting operand's
   tag is that of its last writer. `ProcsimImplementsDataflow` is the
   refinement: every step of the pipeline is a step of the abstract machine
   under the mapping, or a stutter. Fetch, fire, result bus and retire map to
   the four abstract actions; everything else leaves each status as it was.
3. **Units and control** (`ProcsimUnitProofs`). `CountsBelowLatencyHolds` needs
   that whatever is in a MUL unit when the schedule loop feeds it has been
   there for a cycle (`MulAged` in `LatencyInv`), so that no two entries of one
   pipeline are due together. `FiredOnceHolds` is a statement about counting;
   its inductive form (`PlacesOK`, `CountersOK`) follows each instruction over
   the units and the result list with lemmas on the number of occurrences in a
   sequence. `FinishedMissFreshHolds` comes from the flags of an
   instruction-cache miss (`MissInv`), `OldestReadyFirstHolds` from what the
   schedule loop has passed over (`PassedOver`: it left those entries because
   they were not ready or their units were full, and room only shrinks), and
   `MispredictDrainedHolds` from all of the above: the retiring branch is the
   last instruction fetched, so every queue empties when it leaves, and with
   them the units and tables.
   `WatchdogQuietHolds` is about progress, in a form that is safety: the cycles
   gone by since the last retirement and those still to come are `RETIRE_LIMIT`
   at most. Whatever the state, the next instruction to retire is in one of
   nine places (`Due`): finished, in an ALU, a MUL or an LSU, among the results,
   about to fire, waiting for LSUs that younger loads have taken, behind NOPs in
   the dispatch queue, or not fetched yet. Each place bounds the ends of cycles
   to come, and each step either keeps the place or leads to one with a smaller
   bound (`ProgressInv`). Reading the places off an arbitrary state takes all
   the invariants above: the oldest instruction waits for no operand
   (`ReadyExactly`), is looked at first by schedule (`StationOrder`), and a unit
   that is taken is so by an instruction that has been counted correctly
   (`LatencyInv`, `CountersOK`); `ControlInv` adds what a cycle has done so far.
   The hypothesis `Equipped` asks for one unit of each kind that can be fed, and
   for room in the schedule queue and the ROB: a machine without them stops on
   some traces, and the watchdog is right to end it. A number of MUL units that
   32 divides does not meet it, because the mask of the units is then 0 and no
   MUL ever fires (the finding `mul_units_32`). `RETIRE_LIMIT` is twice the longest latency
   (an instruction-cache miss that goes to memory, then a load that does), the
   cycles that `DISPQ_ENTRIES` NOPs take to leave the dispatch queue, and 2: 234
   with the numbers of the code, against the 256 of `MAX_CYCLES`.
4. **Statistics** (`ProcsimStatsProofs`). Every step of `ProcsimStats` is one of
   `Procsim`, so all invariants above hold there. `StatsMatchDriverHolds` needs
   what the counters are in the middle of a cycle, where the stages have run
   ahead of the driver (`DriverCounts`); `CyclesAccountedHolds` the flag by
   which schedule remembers that it fired (`CycleInv`);
   `StallMeansFullRobHolds` that after dispatch stopped, nothing but a full ROB
   can have stopped it (`StallInv`). `UsageIsResidenceHolds` relates sums of
   queue lengths to sums over instructions (`UsageInv`). The sum is a
   recursive function: how it changes when one instruction's time does is shown
   by least counterexample, since the induction theorems of the library cannot
   be used here.

### The predictors

5. **In the pipeline** (`ProcsimStatsProofs`). Every step of `ProcsimBranch` is
   one of `Procsim`. `TrainedInOrderHolds` compares the predictor with
   `TrainedOn`, a recursive function over the retired branches: the proof
   shows, again by least counterexample, that the recursion has a solution, and
   then that retiring a branch moves both by one step and everything else
   neither. `FreshAfterMispredictHolds` follows with
   `NothingPastMispredict`: after a redirect nothing is left unlearned.
6. **By themselves** (`BranchSimProofs`). `BranchTypeCorrect` is the shape of the
   tables and the sum of the counts. `HistoryRegistersHolds` is about bits: the
   module proves that bit j+1 of a shifted and masked register is bit j of the
   register, that one more branch moves every outcome one place back, and so
   that the two stay equal. `LearnsHolds` and `HysteresisHolds` rest on
   `TrainedInContext`: each counter has been moved by exactly the branches met
   in its context. That needs that the index of a branch and its context are
   the same bits (for GShare through the bits of an exclusive or) and that
   numbers with the same P bits are equal, so that training one counter leaves
   all other contexts alone. What remains is how far a saturating counter leans
   after each sequence of outcomes (`Trained`).

### The caches

7. **Shape and balance** (`CacheProofs`). The types and the shape of every set
   (`CacheTypeCorrect`, `SetShapeHolds`) are inductive together (`CachesInv`):
   that the valid frames are a prefix needs that the first invalid frame is the
   one after the counted ones, and that no block is there twice needs that
   whoever inserts has missed before. `StatsBalanceHolds` counts blocks, which
   move between frames and are told apart by division and remainder; what is
   inductive (`Books`) counts frames instead. A store makes one frame of L1
   dirty, a miss cleans the frame it writes back, and each read or prefetch of
   L2 fills one frame; sending a block to the frame it is in is injective, which
   gives the property. These theorems also cover the cases of section 4 in which
   no victim is found or a stamp wraps around.
8. **LFU** (also `CacheProofs`). `CacheImplementsFrequency`: under
   `UnderLfu` every access is a step of `FrequencyCache` under the mapping. The
   abstract cache knows blocks, the program frames; `View` is what the abstract
   cache sees of a level, and each operation on frames is shown to be one on the
   view: a reuse (`Reused`), a block put into a free or a victim's frame
   (`Placed`), a mark that moves (`Marked`). That the frame with the least
   count and tag that is not marked is the victim the abstract cache names
   needs that tags are different within a set, and that one is unmarked, which
   is where two ways are needed (`FrequencyInv`). `LfuFindsVictim` is the
   positive side of the finding `cache_lfu_direct`: with two ways or more LFU
   always finds a victim.
9. **LRU** (also `CacheProofs`). The same for `RecencyCache`, where the view is a
   list: the frames of a set sorted by time stamp. That a demand access goes to
   the front needs that no stamp is above the clock, that a LIP prefetch goes to
   the back that none is below what LIP subtracts from, and that the sort is one
   that stamps differ within a set. One stamp may equal the clock, that of a
   first block inserted by LIP into an empty set (`StampedSet`), because the
   clock is then taken as it is. `RecencyInv` says this of both levels, with
   what `FrequencyInv` says of the blocks.
   It is inductive only as long as the stamps fit (`StampsFit`): below the
   sentinel 2^63 of the search for a victim, and above 0 when LIP subtracts 1.
   `RecencyWhileStampsFit` says that nothing else can go wrong, in traces of
   every length. `CacheImplementsRecency` then needs a bound on the clocks
   (`ClockInv`): they start at twice the number of blocks of their level, an
   access advances L1's once and L2's three times at most (the read, a prefetch,
   a write-back), and a prefetch under LIP lowers the least stamp by one. So
   `ShortTrace`, a bound on `MAX_ACCESSES`, keeps the stamps in range: with 64
   bits the first two of its conditions allow 2^61 accesses, and the third,
   which is for LIP, as many as the clock of L2 starts with (2^10 in the default
   configuration). The third is what the finding `cache_lip_wrap` is about; the
   `cache` run meets all three, with 5 accesses, clocks that start at 4 and 8
   and a sentinel of 128. `LruFindsVictim`,
   `PrefetchKeepsDemandHolds` and `LipIsOldestHolds` come from the same
   invariants. The last is about the runs in which the program goes on (`Works`:
   LRU, or LFU with two ways), since a direct-mapped LFU cache loses its set in
   the middle of an access and never gets to hold what it read.

### Words and masks

10. **MUL units** (`MulUnitsProofs`). The word is a run of 1s from bit 0, as long
   as the number of units fed, and the mask one of length `MUL` modulo 32
   (`FedInv`). Two runs compare as their lengths do, which is why a comparison
   of words can stand for one of counts, and the bit that `push` sets next is
   the one after the run. `EachFedOnceHolds` is for every number of units: at
   32 and above units go unused, but none is fed twice.
   `RoomWhileUnitFreeHolds` has the hypothesis that there are at most 31 units,
   which is exact: `mul_units_32` shows the property violated at 32.
11. **Addresses** (`CacheAddrProofs`). `MaskRuns` says which bits each mask has,
    through the `int` on which it is computed: the tag's reaches bit 63 only
    because its sign bit is set. Tag and index then are the bits of the block
    address, cut at another place in L1 than in L2, and `get_addr` puts them
    together again (`RebuiltBlock`), which gives `SplitExactHolds` and
    `WriteBackFindsBlockHolds`. `PrefetchAlignedHolds` is about addition and
    subtraction with carries: `MinusPlus` shows that subtracting what was added
    gives back the other word, also when both wrap around. In each column the
    three carries (of the sum, of adding the complement, of adding 1) are
    exactly one 1 together (`Column`), by least counterexample over the 64 bits.
    `EverySplitDivides` goes from bits to numbers: a word cut below bit n is
    2^n times the number above the cut plus the number below, which is less than
    2^n (`ValueCut`), so the tag is the quotient and the index the remainder by
    which `CacheSim` computes them. The run can check that
    (`SplitIsDivision`) for addresses below 2^30 only; the theorem is for all.
    The prover knows nothing of powers: `PowerNext` counts subsets.

### Only model-checked

* Liveness (`Terminates`, `ImplementsFairDataflow`): out of the prover's reach.
  They say that every trace is simulated to its end, and that the refinement
  keeps the fairness of the abstract machine. `WatchdogQuietHolds` has the part
  of it that is safety: while anything is left to retire, something does within
  `RETIRE_LIMIT` cycles.
* That the index arithmetic of `CacheSim` stands for the masks is proved between
  the operators of `CacheAddr` and numbers; the two modules are not composed.

All other properties of passing runs are stated by a theorem. The findings are
violations, shown by a run each.

## 6. Not modelled

* Parsing of arguments and traces, printing, the computed ratios and average
  access times: formatting and arithmetic on final counts.
* More than 1024 sets, and c < b + s, in `CacheSim` and below: `ValidConfig`
  excludes them there, `CacheAddr` covers them. More than 1024 ways in either
  (`s` above 10): `Set::Set` returns early without writing the counts of the
  set, and the program goes on with whatever they hold; `ValidConfig` and
  `AddrAssumption` exclude it.
* Predictor tables and histories of more than 30 bits (`PredictorAssumption`):
  sizes and masks are shifts of an `int`. At 31 the size of a table is negative
  and its allocation fails, at 32 a table has one entry and the mask is 0.
* Widths, latencies and table sizes beyond the small ones above, for what is only
  model-checked; `-f 0` and machines without a unit of some kind.
* `project1/save_code.hpp`, which nothing includes; scripts, traces, reports.

## 7. Plan

The order follows the weight of the behaviour: the pipeline first, its abstract
machine and the refinement, then the predictors, the caches, and the arithmetic
and the statistics around them. All of that is modelled and checked, and every
safety property of a passing run, the invariants as well as the properties of
single steps and the three refinements, is proved for all values of the
constants. What is left for TLC is liveness.
