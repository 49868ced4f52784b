------------------------------ MODULE Predictor ------------------------------
(***************************************************************************)
(* The branch predictors of project2 (branchsim.cpp, Counter.cpp and       *)
(* branch_predictor_default.cpp), as operators on the tables they keep.    *)
(* The four predictors share one record: a predictor leaves the fields it  *)
(* does not have as they were initialised.                                 *)
(***************************************************************************)
EXTENDS Integers

CONSTANTS
  P,  \* log2 of the pattern table's height, and the length of a history
  H   \* log2 of the local history table's height (Yeh-Patt)

(* Masks and table sizes are shifts of an int 1 (yeh_patt_init_predictor,  *)
(* gshare_init_predictor), powers of two only up to 30 bits: with 31 the   *)
(* size is negative and the allocation fails, with 32 the mask is 0.       *)
ASSUME PredictorAssumption == P \in 1 .. 30 /\ H \in 0 .. 30

PredictorKind == {"ALWAYS_TAKEN", "TWO_BIT_COUNTER", "YEHPATT", "GSHARE"}

HT_MASK == 2 ^ P - 1      \* HT_mask and GHR_mask
CTR_BITS == 2             \* Counter_init(&_default_counter, 2)
CTR_MAX  == 2 ^ CTR_BITS - 1
WEAKLY_NOT_TAKEN == 1     \* 0b01

PredictorState ==
  [kind : PredictorKind,
   history_table : [0 .. 2 ^ H - 1 -> 0 .. HT_MASK],
   pattern_table : [0 .. HT_MASK -> 0 .. 3],
   GHR : 0 .. HT_MASK,
   ctr : 0 .. CTR_MAX]

(* yeh_patt_init_predictor, gshare_init_predictor, Counter_init *)
FreshHistory == [h \in 0 .. 2 ^ H - 1 |-> 0]
FreshPattern == [p \in 0 .. HT_MASK |-> WEAKLY_NOT_TAKEN]
FreshCounter == 2 ^ (CTR_BITS - 1) - 1

(* assign_predictor, and the init_predictor it assigns *)
InitPredictor(kind) ==
  [kind |-> kind, history_table |-> FreshHistory,
   pattern_table |-> FreshPattern, GHR |-> 0, ctr |-> FreshCounter]

(* (br->ip >> 2) & PC_mask; the mask has H bits for Yeh-Patt, P for GShare. *)
PcHash(ip, bits) == (ip \div 4) % 2 ^ bits

(* x ^ y on words of P bits *)
Xor(x, y) ==
  LET low[n \in 0 .. P] ==
        IF n = 0 THEN 0
        ELSE low[n - 1]
               + 2 ^ (n - 1) * ((x \div 2 ^ (n - 1) + y \div 2 ^ (n - 1)) % 2)
  IN  low[P]

(* The entry of the pattern table that stands for a branch at ip. *)
YehPattIndex(bp, ip) == bp.history_table[PcHash(ip, H)]
GshareIndex(bp, ip)  == Xor(PcHash(ip, P), bp.GHR)

Predict(bp, ip) ==
  CASE bp.kind = "ALWAYS_TAKEN"    -> TRUE
    [] bp.kind = "TWO_BIT_COUNTER" -> bp.ctr >= 2 ^ (CTR_BITS - 1)
    [] bp.kind = "YEHPATT" -> bp.pattern_table[YehPattIndex(bp, ip)] >= 2
    [] bp.kind = "GSHARE"  -> bp.pattern_table[GshareIndex(bp, ip)] >= 2

EagerSwitch(state, taken) ==                                    \* mutated form
  CASE state = 3 -> IF taken THEN 3 ELSE 1
    [] state = 2 -> IF taken THEN 3 ELSE 1
    [] state = 1 -> IF taken THEN 2 ELSE 0
    [] state = 0 -> IF taken THEN 1 ELSE 0

(* state_switch *)
StateSwitch(state, taken) ==
  CASE state = 3 -> IF taken THEN 3 ELSE 2
    [] state = 2 -> IF taken THEN 3 ELSE 1
    [] state = 1 -> IF taken THEN 2 ELSE 0
    [] state = 0 -> IF taken THEN 1 ELSE 0

Counter_update(ctr, taken) ==
  IF ctr # 0 /\ ~taken THEN ctr - 1
  ELSE IF ctr < CTR_MAX /\ taken THEN ctr + 1 ELSE ctr

ShiftUnmasked(register, taken) ==                               \* mutated form
  2 * register + (IF taken THEN 1 ELSE 0)

(* A history register with the outcome shifted in. *)
Shift(register, taken) ==
  (2 * register + (IF taken THEN 1 ELSE 0)) % (HT_MASK + 1)

GshareShiftFirst(bp, ip, taken) ==                              \* mutated form
  LET shifted == [bp EXCEPT !.GHR = Shift(@, taken)]
  IN  [shifted EXCEPT !.pattern_table[GshareIndex(shifted, ip)] =
                         StateSwitch(@, taken)]

(* The counter that made the prediction moves towards the outcome, and the *)
(* history that selected it takes the outcome in.                          *)
YehPattUpdate(bp, ip, taken) ==
  [bp EXCEPT !.pattern_table[YehPattIndex(bp, ip)] = StateSwitch(@, taken),
             !.history_table[PcHash(ip, H)] = Shift(@, taken)]

GshareUpdate(bp, ip, taken) ==
  [bp EXCEPT !.pattern_table[GshareIndex(bp, ip)] = StateSwitch(@, taken),
             !.GHR = Shift(@, taken)]

TwoBitUpdate(bp, taken) == [bp EXCEPT !.ctr = Counter_update(@, taken)]

(* update_predictor *)
UpdatePredictor(bp, ip, taken) ==
  CASE bp.kind = "ALWAYS_TAKEN"    -> bp
    [] bp.kind = "TWO_BIT_COUNTER" -> TwoBitUpdate(bp, taken)
    [] bp.kind = "YEHPATT"         -> YehPattUpdate(bp, ip, taken)
    [] bp.kind = "GSHARE"          -> GshareUpdate(bp, ip, taken)
=============================================================================
