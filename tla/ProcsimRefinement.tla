------------------------- MODULE ProcsimRefinement -------------------------
(***************************************************************************)
(* The processor of Procsim implements the abstract machine of Dataflow:   *)
(* where an instruction stands is read off the queues.                     *)
(***************************************************************************)
EXTENDS Procsim

(* An instruction has fired when its reservation station says so. *)
HasFired(id) ==
  \E k \in 1 .. Len(sche_q) : sche_q[k].inst = id /\ sche_q[k].scheduled

StatusOf(id) ==
  IF id <= Retired THEN "retired"
  ELSE IF Completed(id) THEN "completed"
  ELSE IF HasFired(id) THEN "executing"
  ELSE IF id <= fetch_inst_idx THEN "fetched" ELSE "unfetched"

Abstract == INSTANCE Dataflow WITH status <- [id \in 1 .. N |-> StatusOf(id)]

(* Every behaviour of the processor, misprediction and cache misses        *)
(* included, is one of the abstract machine.                               *)
ImplementsDataflow == Abstract!DataflowSafe

(* The same with the abstract machine's fairness: no instruction is kept   *)
(* for ever from a step it could take.                                     *)
ImplementsFairDataflow == Abstract!DataflowSpec
=============================================================================
