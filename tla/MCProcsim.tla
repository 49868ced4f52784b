----------------------------- MODULE MCProcsim -----------------------------
(***************************************************************************)
(* Trace lines for model checking Procsim: each run draws every trace of   *)
(* length N from one of these sets.                                        *)
(***************************************************************************)
EXTENDS ProcsimRefinement

Alu(d, a, b) == [opcode |-> "ADD", dest |-> d, src1 |-> a, src2 |-> b, ms |-> 0,
                 icache |-> "L1_HIT", dcache |-> "L1_HIT", br_taken |-> FALSE]
Mul(d, a, b)    == [Alu(d, a, b) EXCEPT !.opcode = "MUL"]
Load(d, a, m, c) == [Alu(d, a, -1) EXCEPT !.opcode = "LOAD", !.ms = m,
                                          !.dcache = c]
Store(a, b, m)  == [Alu(-1, a, b) EXCEPT !.opcode = "STORE", !.ms = m]
Branch(a)       == [Alu(-1, a, -1) EXCEPT !.opcode = "BRANCH",
                                          !.br_taken = TRUE]
Missing(x, c)   == [x EXCEPT !.icache = c]

(* Register dependences through every kind of unit: read after write,      *)
(* write after write and write after read on R1 and R2, and writes to R0.  *)
DependLines == {Alu(1, 2, -1), Alu(2, 1, 1), Mul(1, 2, 0), Mul(2, 1, -1),
                Load(1, 2, 0, "L2_HIT"), Alu(0, 1, 2)}

(* A little of everything, for the temporal properties: a branch, a MUL,   *)
(* an instruction cache miss, and loads and stores of two alias classes    *)
(* with loads of two latencies.                                            *)
MixedLines == {Branch(1), Mul(1, 1, 2), Missing(Alu(1, 2, -1), "L2_HIT"),
               Load(2, -1, 0, "L2_MISS"), Store(1, 2, 0),
               Load(1, 2, 1, "L2_HIT"), Store(2, -1, 1)}
=============================================================================
