------------------------------ MODULE BranchSim ------------------------------
(***************************************************************************)
(* run_branchsim of proj2_driver.cpp: the trace is read line by line, and  *)
(* each branch is predicted, counted and then used to train the predictor. *)
(***************************************************************************)
EXTENDS Predictor, Sequences, FiniteSets

CONSTANTS
  IpSet,         \* addresses of the branches of the trace
  KindSet,       \* predictors the run may be configured with
  MAX_BRANCHES,  \* bound on the branches in the trace
  MAX_LINES      \* bound on the lines of the trace

ASSUME BranchSimAssumption ==
  /\ IpSet \subseteq Nat /\ KindSet \subseteq PredictorKind
  /\ MAX_BRANCHES \in Nat /\ MAX_LINES \in Nat

VARIABLES
  bp,         \* the predictor
  sim_stats,  \* branchsim_stats_t
  seen        \* the branches read so far, as the trace has them

vars == <<bp, sim_stats, seen>>

Branch == [ip : IpSet, is_taken : BOOLEAN]

Init ==
  /\ \E kind \in KindSet : bp = InitPredictor(kind)
  /\ sim_stats = [total_instructions |-> 0, num_branch_instructions |-> 0,
                  num_branches_correctly_predicted |-> 0,
                  num_branches_mispredicted |-> 0]
  /\ seen = <<>>

(* The last column of a line of the trace, "1, 2, 3....": its number.      *)
dyncount == sim_stats.total_instructions + 1

CountHitsOnly(prediction, br) ==                                \* mutated form
  IF prediction # br.is_taken THEN sim_stats
  ELSE [sim_stats EXCEPT !.num_branch_instructions = @ + 1,
                         !.num_branches_correctly_predicted = @ + 1]

(* branchsim_update_stats *)
CountBranch(prediction, br) ==
  [sim_stats EXCEPT
     !.num_branch_instructions = @ + 1,
     !.num_branches_correctly_predicted =
        IF prediction = br.is_taken THEN @ + 1 ELSE @,
     !.num_branches_mispredicted =
        IF prediction = br.is_taken THEN @ ELSE @ + 1]

ReadBranch(br) ==
  /\ sim_stats.total_instructions < MAX_LINES /\ Len(seen) < MAX_BRANCHES
  /\ sim_stats' = [CountBranch(Predict(bp, br.ip), br)
                     EXCEPT !.total_instructions = dyncount]
  /\ bp' = UpdatePredictor(bp, br.ip, br.is_taken)
  /\ seen' = Append(seen, br)

ReadOther ==
  /\ sim_stats.total_instructions < MAX_LINES
  /\ sim_stats' = [sim_stats EXCEPT !.total_instructions = dyncount]
  /\ UNCHANGED <<bp, seen>>

Next == ReadOther \/ \E br \in Branch : ReadBranch(br)

Spec == Init /\ [][Next]_vars

-----------------------------------------------------------------------------
(* What the trace alone says *)

(* Of the branches of q at the places T, the one with j others after it    *)
(* had this outcome.                                                       *)
Outcome(q, T, j, taken) ==
  \E k \in T : q[k].is_taken = taken /\ Cardinality({m \in T : m > k}) = j

(* The branches of q whose outcomes go into one history register with      *)
(* those of a branch at ip.                                                *)
Sharing(q, ip) == {k \in 1 .. Len(q) : PcHash(q[k].ip, H) = PcHash(ip, H)}

BitSet(n, j) == (n \div 2 ^ j) % 2 = 1

(* What distinguishes the counters of the predictor, bit by bit, for a     *)
(* branch at ip after the branches of q.                                   *)
Context(q, ip) ==
  [j \in 0 .. P - 1 |->
     CASE bp.kind = "YEHPATT" -> Outcome(q, Sharing(q, ip), j, TRUE)
       [] bp.kind = "GSHARE"  -> Outcome(q, 1 .. Len(q), j, TRUE)
                                   # BitSet(PcHash(ip, P), j)
       [] OTHER               -> TRUE]

(* The branches met in context c. *)
MetIn(c) ==
  {k \in 1 .. Len(seen) : Context(SubSeq(seen, 1, k - 1), seen[k].ip) = c}

-----------------------------------------------------------------------------
(* Each history register holds exactly the last P outcomes of the branches *)
(* that share it (of all branches, for GShare), the latest in bit 0, and   *)
(* nothing beyond its mask: predict indexes the pattern table with it      *)
(* unmasked (branchsim.cpp, yeh_patt_predict).                             *)
HistoryRegisters ==
  /\ bp.kind = "YEHPATT" => \A ip \in IpSet :
       LET register == bp.history_table[PcHash(ip, H)]
       IN  /\ register \in 0 .. HT_MASK
           /\ \A j \in 0 .. P - 1 :
                BitSet(register, j)
                  <=> Outcome(seen, Sharing(seen, ip), j, TRUE)
  /\ bp.kind = "GSHARE" =>
       /\ bp.GHR \in 0 .. HT_MASK
       /\ \A j \in 0 .. P - 1 :
            BitSet(bp.GHR, j) <=> Outcome(seen, 1 .. Len(seen), j, TRUE)

(* Two equal outcomes in a row under one context are learned: the next     *)
(* branch met in that context is predicted to repeat them.  It fails if    *)
(* training goes to another counter than the one that predicted.           *)
Learns ==
  bp.kind # "ALWAYS_TAKEN" =>
    \A ip \in IpSet :
      LET met == MetIn(Context(seen, ip))
      IN  \A taken \in BOOLEAN :
            (\A j \in 0 .. 1 : Outcome(seen, met, j, taken))
              => Predict(bp, ip) = taken

(* One deviation after three equal outcomes does not turn the prediction:  *)
(* the counters saturate two steps away from the other side.               *)
Hysteresis ==
  bp.kind # "ALWAYS_TAKEN" =>
    \A ip \in IpSet :
      LET met == MetIn(Context(seen, ip))
      IN  \A taken \in BOOLEAN :
            /\ Outcome(seen, met, 0, ~taken)
            /\ \A j \in 1 .. 3 : Outcome(seen, met, j, taken)
            => Predict(bp, ip) = taken

(* The predictor's tables keep their shape, and the reported counts add    *)
(* up: every branch is counted once, as right or as wrong.                 *)
TypeOK ==
  /\ bp \in PredictorState
  /\ sim_stats.num_branch_instructions = Len(seen)
  /\ sim_stats.num_branches_correctly_predicted
       + sim_stats.num_branches_mispredicted = Len(seen)
  /\ Len(seen) <= sim_stats.total_instructions
=============================================================================
