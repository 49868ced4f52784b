--------------------------- MODULE MCProcsimStats ---------------------------
(***************************************************************************)
(* Trace lines for model checking ProcsimStats: branches, a long load that *)
(* fills the ROB behind it, and instruction cache misses whose NOPs reach  *)
(* the head of the dispatch queue.                                         *)
(***************************************************************************)
EXTENDS ProcsimStats

Line(op, dest, src) ==
  [opcode |-> op, dest |-> dest, src1 |-> src, src2 |-> -1, ms |-> 0,
   icache |-> "L1_HIT", dcache |-> "L1_HIT", br_taken |-> FALSE]

Square   == [Line("MUL", 1, 1) EXCEPT !.src2 = 1]
LongLoad == [Line("LOAD", 1, -1) EXCEPT !.dcache = "L2_MISS"]
Missing(x) == [x EXCEPT !.icache = "L2_HIT"]

StatsLines ==
  {Line("BRANCH", -1, 1), Line("ADD", 1, -1), Square, LongLoad,
   Missing(Line("ADD", -1, 1)), Missing(Line("BRANCH", -1, -1))}
=============================================================================
