--------------------------- MODULE MulUnitsProofs ---------------------------
(***************************************************************************)
(* The word of MUL units fed in a cycle, for every number of units: the    *)
(* word is a run of 1s from bit 0, as long as the number of units fed.     *)
(***************************************************************************)
EXTENDS MulUnits, TLAPS

Ones(n) == 0 .. n - 1

(* The mask of n units on int is a run of 1s, as long as n modulo 32. *)
Masked == mul_num % INT_BITS

LEMMA MaskedType ==
  ASSUME mul_num \in Nat
  PROVE  Masked \in 0 .. 31 /\ Masked <= mul_num
         /\ (mul_num \in 0 .. 31 => Masked = mul_num)
BY DEF Masked, INT_BITS

LEMMA MaskIsOnes ==
  ASSUME mul_num \in Nat
  PROVE  mul_mask = Ones(Masked)
<1>1. Masked \in 0 .. 31  BY MaskedType
<1>2. IntOnes(mul_num) = Ones(Masked)  BY DEF IntOnes, Ones, Masked
<1>3. 31 \notin Ones(Masked)  BY <1>1 DEF Ones
<1> QED  BY <1>2, <1>3 DEF mul_mask, Widen, INT_BITS

(* Runs of 1s compare as their lengths do. *)
LEMMA OnesBelow ==
  ASSUME NEW k \in 0 .. 31, NEW m \in 0 .. 31, k <= m
  PROVE  Below(Ones(k), Ones(m)) <=> k < m
<1>1. CASE k < m
  <2>1. m - 1 \in Ones(m) \ Ones(k)  BY <1>1 DEF Ones
  <2>2. \A j \in Bits : j > m - 1 => (j \in Ones(k) <=> j \in Ones(m))
    BY <1>1 DEF Ones, Bits, WORD_BITS
  <2> QED  BY <1>1, <2>1, <2>2 DEF Below
<1>2. CASE k = m
  <2>1. Ones(m) \ Ones(k) = {}  BY <1>2
  <2> QED  BY <1>2, <2>1 DEF Below
<1> QED  BY <1>1, <1>2

LEMMA OnesLength ==
  ASSUME NEW k \in 0 .. 31
  PROVE  BitLength(Ones(k)) = k
<1> DEFINE Fits(n) == (\A i \in Ones(k) : i < n) /\ (n > 0 => n - 1 \in Ones(k))
<1>1. Fits(k) /\ k \in 0 .. WORD_BITS  BY DEF Ones, WORD_BITS
<1>2. ASSUME NEW n \in 0 .. WORD_BITS, Fits(n) PROVE n = k
  <2>1. n \in Nat  BY DEF WORD_BITS
  <2>2. k > 0 => k - 1 < n  BY <1>2 DEF Ones
  <2>3. n > 0 => n - 1 <= k - 1  BY <1>2, <2>1 DEF Ones
  <2> QED  BY <2>1, <2>2, <2>3
<1>3. BitLength(Ones(k)) = CHOOSE n \in 0 .. WORD_BITS : Fits(n)
  BY DEF BitLength
<1> HIDE DEF Fits
<1> QED  BY <1>1, <1>2, <1>3

(* The bit that push sets is the next one. *)
LEMMA OnesGrow ==
  ASSUME NEW k \in 0 .. 30
  PROVE  Ones(k) \cup Widen(IntShl({0}, k)) = Ones(k + 1)
<1>1. k % 32 = k  OBVIOUS
<1>2. IntShl({0}, k) = {k}  BY <1>1 DEF IntShl, INT_BITS, IntBits
<1>3. Widen({k}) = {k}  BY DEF Widen, INT_BITS
<1>4. Ones(k) \cup {k} = Ones(k + 1)  BY DEF Ones
<1> QED  BY <1>2, <1>3, <1>4

-----------------------------------------------------------------------------
(* The units below k have been fed once and the others not at all. *)
FedTo(k) ==
  /\ mul_current = Ones(k)
  /\ fed = [u \in Units |-> IF u < k THEN 1 ELSE 0]

FedInv ==
  /\ mul_num \in MulNumSet /\ mul_num \in Nat
  /\ ~dropped
  /\ \E k \in 0 .. Masked : FedTo(k)

LEMMA FedInit == Init => FedInv
<1> SUFFICES ASSUME Init PROVE FedInv  OBVIOUS
<1>1. mul_num \in Nat /\ Masked \in 0 .. 31
  BY MulAssumption, MaskedType DEF Init
<1>2. \A u \in Units : ~(u < 0)  BY <1>1 DEF Units
<1>3. FedTo(0)  BY <1>2 DEF Init, FedTo, Ones
<1>4. 0 \in 0 .. Masked  BY <1>1
<1> QED  BY <1>1, <1>3, <1>4 DEF FedInv, Init

LEMMA FedStep ==
  ASSUME FedInv, [Next]_vars
  PROVE  FedInv'
<1>1. PICK k \in 0 .. Masked : FedTo(k)  BY DEF FedInv
<1>2. Masked \in 0 .. 31 /\ Masked <= mul_num /\ k \in 0 .. 31 /\ k <= Masked
      /\ mul_num \in Nat
  BY <1>1, MaskedType DEF FedInv
<1>3. CASE Push
  <2>1. mul_num' = mul_num /\ Masked' = Masked /\ Units' = Units
    BY <1>3 DEF Push, Masked, Units
  <2>2. k < Masked /\ k \in 0 .. 30
    <3>1. Below(Ones(k), Ones(Masked))
      BY <1>1, <1>2, <1>3, MaskIsOnes DEF Push, HasRoom, FedTo
    <3>2. k < Masked  BY <1>2, <3>1, OnesBelow
    <3> QED  BY <1>2, <3>2
  <2>3. BitLength(mul_current) = k  BY <1>1, <1>2, OnesLength DEF FedTo
  <2>4. k < mul_num /\ k \in Units  BY <1>2, <2>2 DEF Units
  <2>5. /\ fed' = [fed EXCEPT ![k] = @ + 1]
        /\ mul_current' = mul_current \cup Widen(IntShl({0}, k))
        /\ dropped' = dropped
    BY <1>3, <2>3, <2>4 DEF Push
  <2>6. mul_current' = Ones(k + 1)
    BY <1>1, <2>2, <2>5, OnesGrow DEF FedTo
  <2>7. fed' = [u \in Units |-> IF u < k + 1 THEN 1 ELSE 0]
    <3>1. \A u \in Units : u \in Int  BY DEF Units
    <3>2. fed = [u \in Units |-> IF u < k THEN 1 ELSE 0]
      BY <1>1 DEF FedTo
    <3>3. fed[k] + 1 = 1 /\ \A u \in Units \ {k} : u < k <=> u < k + 1
      BY <1>2, <2>4, <3>1, <3>2
    <3>4. fed' = [u \in Units |-> IF u = k THEN 1 ELSE fed[u]]
      BY <2>5, <3>2, <3>3
    <3>5. \A u \in Units :
            (IF u = k THEN 1 ELSE fed[u]) = IF u < k + 1 THEN 1 ELSE 0
      BY <1>2, <3>1, <3>2, <3>3
    <3> QED  BY <3>4, <3>5
  <2>8. k + 1 \in 0 .. Masked  BY <1>2, <2>2
  <2>9. FedTo(k + 1)'  BY <2>1, <2>6, <2>7 DEF FedTo
  <2> QED  BY <2>1, <2>5, <2>8, <2>9 DEF FedInv
<1>4. CASE NextCycle
  <2>1. mul_num' = mul_num /\ Masked' = Masked /\ Units' = Units
    BY <1>4 DEF NextCycle, Masked, Units
  <2>2. \A u \in Units : ~(u < 0)  BY <1>2 DEF Units
  <2>3. FedTo(0)'  BY <1>4, <2>1, <2>2 DEF NextCycle, FedTo, Ones
  <2>4. 0 \in 0 .. Masked  BY <1>2
  <2> QED  BY <1>4, <2>1, <2>3, <2>4 DEF NextCycle, FedInv
<1>5. CASE UNCHANGED vars
  BY <1>5 DEF vars, FedInv, FedTo, Masked, Units
<1> QED  BY <1>3, <1>4, <1>5 DEF Next

LEMMA FedInvariant == Spec => []FedInv
<1> QED  BY FedInit, FedStep, PTL DEF Spec

LEMMA FedUnitsAre ==
  ASSUME FedInv
  PROVE  \E k \in 0 .. Masked :
           /\ mul_current = Ones(k) /\ FedUnits = Ones(k)
           /\ Ones(k) \subseteq Units
           /\ \A u \in Units : fed[u] <= 1
<1>1. PICK k \in 0 .. Masked : FedTo(k)  BY DEF FedInv
<1>2. Masked \in 0 .. 31 /\ Masked <= mul_num /\ k \in 0 .. 31 /\ k <= Masked
      /\ mul_num \in Nat
  BY <1>1, MaskedType DEF FedInv
<1>3. \A u \in Units : u \in Nat /\ u < mul_num /\ fed[u] =
        IF u < k THEN 1 ELSE 0
  BY <1>1, <1>2 DEF FedTo, Units
<1>4. Ones(k) \subseteq Units  BY <1>2 DEF Ones, Units
<1>5. FedUnits = Ones(k)
  <2>1. \A u \in Units : fed[u] > 0 <=> u \in Ones(k)
    BY <1>2, <1>3 DEF Ones
  <2> QED  BY <1>4, <2>1 DEF FedUnits
<1> QED  BY <1>1, <1>3, <1>4, <1>5 DEF FedTo

(* Whatever the number of units, an instruction for which fu_has_room said *)
(* yes is handed by push to the next unit in order and to no other.        *)
THEOREM EachFedOnceHolds == Spec => []EachFedOnce
<1>1. ASSUME FedInv PROVE EachFedOnce
  <2>1. PICK k \in 0 .. Masked :
          /\ FedUnits = Ones(k)
          /\ \A u \in Units : fed[u] <= 1
    BY <1>1, FedUnitsAre
  <2>2. Masked \in Nat  BY <1>1, MaskedType DEF FedInv
  <2>3. \A u \in Ones(k) : \A v \in 0 .. u : v \in Ones(k)
    BY <2>1, <2>2 DEF Ones
  <2> QED  BY <1>1, <2>1, <2>3 DEF EachFedOnce, FedInv
<1> QED  BY <1>1, FedInvariant, PTL

(* There is room exactly while a unit has not been fed, for up to 31       *)
(* units.  With 32 the mask is 0 and there never is.                       *)
THEOREM RoomWhileUnitFreeHolds ==
  ASSUME MulNumSet \subseteq 0 .. 31
  PROVE  Spec => []RoomWhileUnitFree
<1>1. ASSUME FedInv PROVE RoomWhileUnitFree
  <2>1. mul_num \in 0 .. 31 /\ mul_num \in Nat /\ Masked = mul_num
        /\ Masked \in 0 .. 31
    BY <1>1, MaskedType DEF FedInv
  <2>2. PICK k \in 0 .. Masked : mul_current = Ones(k) /\ FedUnits = Ones(k)
    BY <1>1, FedUnitsAre
  <2>3. k \in 0 .. 31 /\ k <= mul_num  BY <2>1, <2>2
  <2>4. HasRoom <=> k < mul_num
    BY <2>1, <2>2, <2>3, MaskIsOnes, OnesBelow DEF HasRoom
  <2>5. FedUnits # Units <=> k < mul_num
    <3>1. Units = Ones(mul_num)  BY DEF Units, Ones
    <3>2. k < mul_num => mul_num - 1 \in Ones(mul_num)
                         /\ mul_num - 1 \notin Ones(k)
      BY <2>1, <2>3 DEF Ones
    <3> QED  BY <2>2, <2>3, <2>1, <3>1, <3>2
  <2> QED  BY <2>4, <2>5 DEF RoomWhileUnitFree
<1> QED  BY <1>1, FedInvariant, PTL
=============================================================================
