----------------------------- MODULE MCCacheAddr -----------------------------
(***************************************************************************)
(* Configurations and addresses for model checking CacheAddr.              *)
(***************************************************************************)
EXTENDS CacheAddr

(* Shapes at the limits: one set or 1024, one way or 1024, the smallest    *)
(* and the largest blocks.                                                 *)
BuiltConfigs ==
  {x \in [b : {4, 7}, c1 : {4, 7, 14, 17}, s1 : {0, 10}, c2 : {15, 17, 27},
          s2 : {0, 10}, strided_prefetch_disabled : BOOLEAN] :
     /\ ValidConfig(x)
     /\ Built(Level(x.c1, x.b, x.s1)) /\ Built(Level(x.c2, x.b, x.s2))}

(* The default, and the default with an L2 of 1 MB *)
Default == [b |-> 6, c1 |-> 10, s1 |-> 1, c2 |-> 15, s2 |-> 3,
            strided_prefetch_disabled |-> FALSE]
LargeL2 == {Default, [Default EXCEPT !.c2 = 20]}
Configs == BuiltConfigs \cup LargeL2

(* Both ends of the address space, the int sign bit, patterns around the   *)
(* borders of offset, index and tag, and the address of a real trace,      *)
(* 0x560feb6d7f70.                                                         *)
TestAddrs ==
  {{}, Bits, 0 .. 31, 5 .. 29, {4, 9, 14, 17, 27}, 31 .. 63,
   {4, 5, 6, 8, 9, 10, 11, 12, 13, 14, 16, 18, 19, 21, 22, 24, 25, 27, 29, 30,
    31, 32, 33, 34, 35, 41, 42, 44, 46}}
=============================================================================
