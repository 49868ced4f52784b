------------------------------ MODULE Dataflow ------------------------------
(***************************************************************************)
(* What the out-of-order processor promises of a trace, without queues,    *)
(* tags, units or cycles: instructions are fetched in program order, none  *)
(* past a mispredicted branch that has not retired; each starts executing  *)
(* once everything it depends on has completed, in whatever order that     *)
(* allows; and they retire in program order.                               *)
(***************************************************************************)
EXTENDS Trace

VARIABLES
  mispredict,  \* whether a branch was fetched with a wrong prediction
  status       \* how far each instruction has come

dataflowVars == <<insts, mispredict, status>>

Status == {"unfetched", "fetched", "executing", "completed", "retired"}

DataflowInit ==
  /\ TraceInit
  /\ mispredict = [id \in 1 .. N |-> FALSE]
  /\ status = [id \in 1 .. N |-> "unfetched"]

IsCompleted(id) == status[id] \in {"completed", "retired"}

Become(id, s) == status' = [status EXCEPT ![id] = s]

FetchNext(id) ==
  /\ status[id] = "unfetched"
  /\ \A j \in 1 .. id - 1 :
       status[j] # "unfetched" /\ (mispredict[j] => status[j] = "retired")
  /\ Become(id, "fetched")
  /\ \E wrong \in BOOLEAN :
       /\ wrong => Op(id) = "BRANCH" /\ MISSES_ENABLED
       /\ mispredict' = [mispredict EXCEPT ![id] = wrong]
  /\ UNCHANGED insts

Execute(id) ==
  /\ status[id] = "fetched"
  /\ \A w \in 1 .. N : DependsOn(id, w) => IsCompleted(w)
  /\ Become(id, "executing")
  /\ UNCHANGED <<insts, mispredict>>

Complete(id) ==
  /\ status[id] = "executing"
  /\ Become(id, "completed")
  /\ UNCHANGED <<insts, mispredict>>

RetireNext(id) ==
  /\ status[id] = "completed"
  /\ \A j \in 1 .. id - 1 : status[j] = "retired"
  /\ Become(id, "retired")
  /\ UNCHANGED <<insts, mispredict>>

Advance(id) == FetchNext(id) \/ Execute(id) \/ Complete(id) \/ RetireNext(id)

DataflowNext == \E id \in 1 .. N : Advance(id)

(* Every instruction comes as far as it can. *)
DataflowSafe == DataflowInit /\ [][DataflowNext]_dataflowVars
DataflowSpec == DataflowSafe /\ \A id \in 1 .. N : WF_dataflowVars(Advance(id))
=============================================================================
