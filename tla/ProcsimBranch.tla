---------------------------- MODULE ProcsimBranch ----------------------------
(***************************************************************************)
(* The processor with a branch predictor: the driver asks it for a         *)
(* prediction when it hands a branch out (procsim_driver_read_inst), and   *)
(* rob::retire trains it with each branch that leaves the ROB              *)
(* (procsim_driver_update_predictor).  In between, predictions are made    *)
(* from tables that know nothing of the branches in flight.                *)
(***************************************************************************)
EXTENDS Procsim, Predictor

CONSTANTS
  IpSet,    \* addresses of instructions
  KindSet   \* predictors the run may be configured with

ASSUME BranchAssumption == IpSet \subseteq Nat /\ KindSet \subseteq PredictorKind

VARIABLES
  pc,  \* inst_t::pc, part of the trace
  bp   \* procsim_predictor

branchVars == <<vars, pc, bp>>

BInit ==
  /\ Init
  /\ pc \in [1 .. N -> IpSet]
  /\ \E kind \in KindSet : bp = InitPredictor(kind)

(* procsim_driver_update_predictor, for the instruction that retires *)
UpdatedMispredicted(id) ==                                      \* mutated form
  IF Op(id) = "BRANCH" /\ mispredict[id]
  THEN UpdatePredictor(bp, pc[id], insts[id].br_taken) ELSE bp

UpdatedBy(id) ==
  IF Op(id) = "BRANCH"
  THEN UpdatePredictor(bp, pc[id], insts[id].br_taken) ELSE bp

BRetire ==
  \/ RetireEntry /\ bp' = UpdatedBy(Head(rob).inst)
  \/ RetireDone /\ UNCHANGED bp

BFetchInst ==
  /\ stage = "fetch" /\ ReadAvailable
  /\ FetchInst(Predict(bp, pc[next_inst]))
  /\ UNCHANGED bp

BFetch ==
  \/ (FetchNothing \/ FetchNop \/ FetchMiss \/ FetchDone) /\ UNCHANGED bp
  \/ BFetchInst

BNext ==
  /\ \/ BRetire
     \/ BFetch
     \/ (Exec \/ Schedule \/ Dispatch \/ EndCycle \/ Terminated) /\ UNCHANGED bp
  /\ UNCHANGED pc

BSpec == BInit /\ [][BNext]_branchVars /\ WF_branchVars(BNext)

-----------------------------------------------------------------------------
(* The predictor after the branches among the first n instructions of the  *)
(* trace, each learned once and in the trace's order.                      *)
TrainedOn ==
  LET t[n \in 0 .. N] ==
        IF n = 0 THEN InitPredictor(bp.kind)
        ELSE IF Op(n) # "BRANCH" THEN t[n - 1]
        ELSE UpdatePredictor(t[n - 1], pc[n], insts[n].br_taken)
  IN  t

(* However the instructions executed, the predictor has learned exactly    *)
(* the branches that have retired, in program order and once each, a       *)
(* mispredicted branch that ends its cycle included.                       *)
TrainedInOrder == bp = TrainedOn[Retired]

(* After a misprediction the next branch is predicted with nothing left    *)
(* out: the mispredicted branch and all before it have been learned.       *)
FreshAfterMispredict ==
  [][\A id \in 1 .. N : \A k \in 1 .. id - 1 :
       /\ fetch_inst_idx = id - 1 /\ fetch_inst_idx' = id /\ Op(id) = "BRANCH"
       /\ mispredict[k] /\ \A j \in k + 1 .. id - 1 : Op(j) # "BRANCH"
       => bp = TrainedOn[id - 1]]_branchVars
=============================================================================
