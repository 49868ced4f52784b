-------------------------------- MODULE Word --------------------------------
(***************************************************************************)
(* The machine words both simulators compute masks in.  A word is the set  *)
(* of its bits that are 1, bit 0 being the least significant one, so the   *)
(* real widths can be used: 64 for uint64_t, 32 for int.  What C++ leaves  *)
(* undefined for int is taken as the compiled program does it: a shift     *)
(* count counts modulo 32 and an overflow wraps.                           *)
(***************************************************************************)
EXTENDS Integers

WORD_BITS == 64
INT_BITS  == 32

Bits    == 0 .. WORD_BITS - 1
IntBits == 0 .. INT_BITS - 1

Words == SUBSET Bits
Ints  == SUBSET IntBits

(* w << n and w >> n on uint64_t, for n below 64 *)
Shl(w, n) == {k + n : k \in w} \cap Bits
Shr(w, n) == {k - n : k \in {j \in w : j >= n}}

(* w << n on int *)
IntShl(w, n) == {k + (n % INT_BITS) : k \in w} \cap IntBits

(* (1 << n) - 1 on int *)
IntOnes(n) == 0 .. (n % INT_BITS) - 1

(* An int stored into a uint64_t *)
Widen(w) ==
  IF INT_BITS - 1 \in w THEN w \cup (INT_BITS .. WORD_BITS - 1) ELSE w

(* v < w on uint64_t: they differ, and in the highest place they do w has  *)
(* the 1.                                                                  *)
Below(v, w) ==
  \E k \in w \ v : \A j \in Bits : j > k => (j \in v <=> j \in w)

(* v + w on uint64_t.  A carry reaches bit k from a lower bit that both    *)
(* words have, over bits that at least one has.                            *)
Carry(v, w, k) ==
  \E j \in v \cap w : j < k /\ \A m \in j + 1 .. k - 1 : m \in v \cup w
Plus(v, w) ==
  {k \in Bits : (k \in v) # ((k \in w) # Carry(v, w, k))}

Minus(v, w) == Plus(Plus(v, Bits \ w), {0})
=============================================================================
