------------------------------ MODULE MulUnits ------------------------------
(***************************************************************************)
(* How the schedule stage of project2 hands instructions to the pipelined  *)
(* MUL units (procsim.hpp, function_unit): a word with one bit per unit    *)
(* that has been fed this cycle, compared with a mask of all units.        *)
(* Module Procsim keeps the number of units fed instead; this module is    *)
(* the reason it may.                                                      *)
(***************************************************************************)
EXTENDS Word, FiniteSets

CONSTANT MulNumSet  \* numbers of MUL units the run may be given

ASSUME MulAssumption == MulNumSet \subseteq Nat

VARIABLES
  mul_num,      \* size of mul_vec
  mul_current,  \* the word of units fed this cycle
  fed,          \* instructions each unit of mul_vec got this cycle
  dropped       \* an instruction was taken for fired and given to no unit

vars == <<mul_num, mul_current, fed, dropped>>

Units == 0 .. mul_num - 1

MaskOneShort == Widen(IntOnes(mul_num - 1))                     \* mutated form
mul_mask == Widen(IntOnes(mul_num))

(* function_unit::fu_has_room for a MUL *)
HasRoom == Below(mul_current, mul_mask)

LowestBit(w) ==                                                 \* mutated form
  IF w = {} THEN 0 ELSE CHOOSE n \in w : \A k \in w : n <= k
(* The loop of push: how often a word can be shifted right before it is 0. *)
BitLength(w) ==
  CHOOSE n \in 0 .. WORD_BITS :
    (\A k \in w : k < n) /\ (n > 0 => n - 1 \in w)

Init ==
  /\ mul_num \in MulNumSet
  /\ mul_current = {}
  /\ fed = [u \in Units |-> 0]
  /\ dropped = FALSE

(* function_unit::push for a MUL, after fu_has_room *)
Push ==
  /\ HasRoom
  /\ LET mul_index == BitLength(mul_current)
     IN  IF mul_index < mul_num
         THEN /\ fed' = [fed EXCEPT ![mul_index] = @ + 1]
              /\ mul_current' = mul_current \cup Widen(IntShl({0}, mul_index))
              /\ UNCHANGED dropped
         ELSE /\ dropped' = TRUE
              /\ UNCHANGED <<fed, mul_current>>
  /\ UNCHANGED mul_num

(* The next call of schedule *)
NextCycle ==
  /\ mul_current' = {}
  /\ fed' = [u \in Units |-> 0]
  /\ UNCHANGED <<mul_num, dropped>>

Next == Push \/ NextCycle

Spec == Init /\ [][Next]_vars

-----------------------------------------------------------------------------
FedUnits == {u \in Units : fed[u] > 0}

(* No instruction is lost between fu_has_room and push, none shares a      *)
(* unit's first stage with another, and the units fill up in order.        *)
EachFedOnce ==
  /\ ~dropped
  /\ \A u \in Units : fed[u] <= 1
  /\ \A u \in FedUnits : \A v \in 0 .. u : v \in FedUnits

(* "0b11111 all 1 for number of mul fus" (procsim.hpp, function_unit):     *)
(* there is room exactly while a unit has not been fed this cycle.         *)
RoomWhileUnitFree == HasRoom <=> FedUnits # Units
=============================================================================
