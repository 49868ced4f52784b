--------------------------- MODULE MCProcsimBranch ---------------------------
(***************************************************************************)
(* Trace lines for model checking ProcsimBranch: branches of both          *)
(* directions, some waiting for a multiplication and some missing the      *)
(* instruction cache, so that several are in flight while others are       *)
(* predicted.                                                              *)
(***************************************************************************)
EXTENDS ProcsimBranch

Line(op, dest, src, taken) ==
  [opcode |-> op, dest |-> dest, src1 |-> src, src2 |-> -1, ms |-> 0,
   icache |-> "L1_HIT", dcache |-> "L1_HIT", br_taken |-> taken]

BranchLines ==
  {Line("BRANCH", -1, 1, TRUE), Line("MUL", 1, 1, FALSE),
   [Line("BRANCH", -1, -1, FALSE) EXCEPT !.icache = "L2_HIT"]}
=============================================================================
