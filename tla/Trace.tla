------------------------------- MODULE Trace -------------------------------
(***************************************************************************)
(* The instruction trace of project2 as read_entire_trace leaves it, and   *)
(* the dependences it prescribes.  An instruction is named by its place in *)
(* the trace, 1..N.  Of a line only what guards a step is kept: opcode,    *)
(* register numbers, the alias class of the address, the two cache         *)
(* outcomes, and a branch's direction.                                     *)
(***************************************************************************)
EXTENDS Integers

CONSTANTS
  N,              \* n_insts, the length of the trace
  InstSet,        \* the lines the trace is drawn from
  REG_NUM,        \* architectural registers, 32 in the code
  MAT_REG_NUM,    \* memory alias classes, 64 in the code
  MISSES_ENABLED  \* procsim_misses_enabled

VARIABLE insts    \* the trace, fixed once it has been read

NoReg == -1       \* a negative register number: the operand is absent

Opcode  == {"ADD", "MUL", "LOAD", "STORE", "BRANCH"}
Latency == {"L1_HIT", "L2_HIT", "L2_MISS"}
Reg     == 0 .. REG_NUM - 1
OptReg  == Reg \cup {NoReg}
MatReg  == 0 .. MAT_REG_NUM - 1

Inst == [opcode : Opcode, dest : OptReg, src1 : OptReg, src2 : OptReg,
         ms : MatReg, icache : Latency, dcache : Latency, br_taken : BOOLEAN]

ASSUME TraceAssumption ==
  /\ N \in Nat \ {0}
  /\ REG_NUM \in Nat \ {0} /\ MAT_REG_NUM \in Nat \ {0}
  /\ MISSES_ENABLED \in BOOLEAN
  /\ InstSet \subseteq Inst

(* read_entire_trace: register 0 is no destination, and with misses off    *)
(* every access is an L1 hit.                                              *)
Destination(r) == IF r = 0 THEN NoReg ELSE r
Outcome(level) == IF MISSES_ENABLED THEN level ELSE "L1_HIT"

ReadTraceLine(line) ==
  [line EXCEPT !.dest   = Destination(@),
               !.icache = Outcome(@),
               !.dcache = Outcome(@)]

TraceInit == insts \in [1 .. N -> {ReadTraceLine(line) : line \in InstSet}]

Op(id)          == insts[id].opcode
IsLoadStore(id) == Op(id) \in {"LOAD", "STORE"}
IsAluOp(id)     == Op(id) \in {"ADD", "BRANCH"}
IsMulOp(id)     == Op(id) = "MUL"

-----------------------------------------------------------------------------
(* Dependences *)

(* w is the last of the first n instructions that writes register r. *)
LastWriter(w, n, r) ==
  /\ w \in 1 .. n /\ r # NoReg /\ insts[w].dest = r
  /\ \A k \in w + 1 .. n : insts[k].dest # r

(* Instruction id reads the value that instruction w produces. *)
ReadsFrom(id, w) ==
  \/ LastWriter(w, id - 1, insts[id].src1)
  \/ LastWriter(w, id - 1, insts[id].src2)

(* Both access memory, in the same alias class. *)
SameClass(a, b) ==
  IsLoadStore(a) /\ IsLoadStore(b) /\ insts[a].ms = insts[b].ms

(* What instruction id has to wait for. *)
DependsOn(id, w) == ReadsFrom(id, w) \/ (w < id /\ SameClass(w, id))
=============================================================================
