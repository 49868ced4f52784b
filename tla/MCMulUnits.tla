----------------------------- MODULE MCMulUnits -----------------------------
(***************************************************************************)
(* Numbers of MUL units for model checking: all that the shift of a 32-bit *)
(* 1 has room for, and two that it has not.                                *)
(***************************************************************************)
EXTENDS MulUnits

UpTo31    == 0 .. 31
AnyNumber == {3, 32, 40}
=============================================================================
