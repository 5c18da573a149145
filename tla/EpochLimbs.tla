----------------------------- MODULE EpochLimbs -----------------------------
(***************************************************************************)
(* Retarget.tla and WorkDivision.tla as the program computes them: an      *)
(* epoch boundary on four limb integers, from the product with the         *)
(* timespan to the bit loop of work_from_target, one iteration per step.   *)
(***************************************************************************)
EXTENDS Difficulty, Limbs

CONSTANTS
  TIMESTAMPS,   \* the header timestamps considered
  ROW_TARGETS   \* the targets the host asks the work of, from rows of its database

ASSUME SameWord == Pow2[BITS] = WordMod

\* The product of calculate_next_target_required: 2^224 * 4838400 in the program.
ASSUME ProductFits == POW_LIMIT * MAX_EPOCH_TIMESPAN < WordMod

ASSUME TimestampAssumption == TIMESTAMPS \subseteq Nat /\ ROW_TARGETS \subseteq Words

VARIABLES
  current_target,
  current_nbits,
  current_work,
  boundary,     \* what the last boundary was computed from
  running,      \* is work_from_target running
  call,         \* what it runs for
  divisor,
  bit,
  remainder,
  quotient

state     == <<current_target, current_nbits, current_work, boundary>>
registers == <<running, call, divisor, bit, remainder, quotient>>
vars      == <<state, registers>>

Boundaries == [old : u256, timespan : MIN_EPOCH_TIMESPAN .. MAX_EPOCH_TIMESPAN]

\* A call at a boundary ends with the state replaced, the other ones do not.
Calls == [target : u256, nbits : CompactTarget, at_boundary : BOOLEAN,
          timespan : MIN_EPOCH_TIMESPAN .. MAX_EPOCH_TIMESPAN]

Idle == [target |-> Zero, nbits |-> target_to_bits(0), at_boundary |-> FALSE,
         timespan |-> EXPECTED_EPOCH_TIMESPAN]

TypeOK ==
  /\ current_target \in u256 /\ current_nbits \in CompactTarget /\ current_work \in u256
  /\ boundary \in Boundaries
  /\ running \in BOOLEAN /\ call \in Calls
  /\ divisor \in u256 /\ bit \in -1 .. BITS /\ remainder \in u256 /\ quotient \in u256

GenesisBoundary == [old |-> FromValue(POW_LIMIT), timespan |-> EXPECTED_EPOCH_TIMESPAN]

Init ==
  /\ current_target = FromValue(POW_LIMIT)
  /\ current_nbits = target_to_bits(POW_LIMIT)
  /\ current_work = FromValue(work_from_target(POW_LIMIT))
  /\ boundary = GenesisBoundary
  /\ running = FALSE /\ call = Idle
  /\ divisor = Zero /\ bit = -1 /\ remainder = Zero /\ quotient = Zero

\* The minimum with GENESIS_TARGET, in the order of u256.
Limited(a) == LET limit == FromValue(POW_LIMIT) IN IF Less(a, limit) THEN a ELSE limit

\* A wrong variant: the target keeps the digits its nbits lost.
next_target_unrounded(old_target, timespan) ==
  LET clamped == Limited(Div(Mul(old_target, timespan), EXPECTED_EPOCH_TIMESPAN))
  IN  [nbits |-> target_to_bits(Value(clamped)), target |-> clamped]

\* A wrong variant: no limit on how easy the target gets.
next_target_unlimited(old_target, timespan) ==
  LET compact == target_to_bits(Value(Div(Mul(old_target, timespan), EXPECTED_EPOCH_TIMESPAN)))
  IN  [nbits |-> compact, target |-> FromValue(target_from_bits(compact))]

next_target(old_target, timespan) ==
  LET compact == target_to_bits(Value(Limited(
                   Div(Mul(old_target, timespan), EXPECTED_EPOCH_TIMESPAN))))
  IN  [nbits |-> compact, target |-> FromValue(target_from_bits(compact))]

\* work_from_target up to its loop; it is an error for a saturated target.
StartDivision(c) ==
  /\ ~running
  /\ ~Saturated(c.target)
  /\ running' = TRUE
  /\ call' = c
  /\ divisor' = increment_target(c.target)
  /\ bit' = BITS
  /\ remainder' = Zero
  /\ quotient' = Zero

(* prepare_new_epoch up to the loop; the product with the timespan, the    *)
(* division and the minimum are done on limbs, the encoding on digits.     *)
prepare_new_epoch(epoch_start, previous) ==
  LET timespan == ClampedTimespan(epoch_start, previous)
      next     == next_target(current_target, timespan)
  IN  /\ StartDivision([target |-> next.target, nbits |-> next.nbits,
                        at_boundary |-> TRUE, timespan |-> timespan])
      /\ UNCHANGED state

(* The host's own calls, for any row; bounded to those made before the     *)
(* first boundary, as nothing of the state is read by them.                *)
RowWork(t) ==
  /\ boundary = GenesisBoundary
  /\ StartDivision([Idle EXCEPT !.target = FromValue(t)])
  /\ UNCHANGED state

\* The shifted remainder, with the leading one of the dividend.
shifted == IF bit = BITS THEN [shl1(remainder) EXCEPT ![0] = WithBit(@, 0)] ELSE shl1(remainder)

\* A wrong variant: the evicted carry ignored.
fits_without_carry == ~Less(shifted, divisor)

fits == shl1_carry(remainder) \/ ~Less(shifted, divisor)

Subtract ==
  /\ running /\ bit >= 0
  /\ fits
  /\ remainder' = sub_assign(shifted, divisor)
  /\ quotient' = IF bit < BITS THEN SetBit(quotient, bit) ELSE quotient
  /\ bit' = bit - 1
  /\ UNCHANGED <<state, running, call, divisor>>

Skip ==
  /\ running /\ bit >= 0
  /\ ~fits
  /\ remainder' = shifted
  /\ bit' = bit - 1
  /\ UNCHANGED <<state, running, call, divisor, quotient>>

\* work_from_target returns: the registers of the call are gone.
Return ==
  /\ running /\ bit = -1
  /\ running' = FALSE /\ call' = Idle
  /\ divisor' = Zero /\ remainder' = Zero /\ quotient' = Zero
  /\ UNCHANGED bit

\* A wrong variant: the state keeps the work of the epoch that ended.
AdoptWithoutWork ==
  /\ call.at_boundary
  /\ current_target' = call.target
  /\ current_nbits' = call.nbits
  /\ boundary' = [old |-> current_target, timespan |-> call.timespan]
  /\ UNCHANGED current_work
  /\ Return

Adopt ==
  /\ call.at_boundary
  /\ current_target' = call.target
  /\ current_nbits' = call.nbits
  /\ current_work' = quotient
  /\ boundary' = [old |-> current_target, timespan |-> call.timespan]
  /\ Return

ReturnRowWork == ~call.at_boundary /\ Return /\ UNCHANGED state

Next ==
  \/ \E epoch_start, previous \in TIMESTAMPS : prepare_new_epoch(epoch_start, previous)
  \/ \E t \in ROW_TARGETS : RowWork(t)
  \/ Subtract \/ Skip \/ Adopt \/ ReturnRowWork

Spec == Init /\ [][Next]_vars

-----------------------------------------------------------------------------
Division == INSTANCE WorkDivision WITH
  target <- Value(call.target), divisor <- Value(divisor), bit <- bit,
  remainder <- Value(remainder), quotient <- Value(quotient)

Epochs == INSTANCE Retarget WITH
  current_target <- Value(current_target), current_work <- Value(current_work),
  boundary <- [old |-> Value(boundary.old), timespan |-> boundary.timespan]

(* The target of the new epoch is the greatest expressible target not      *)
(* above old * timespan / expected computed without any width, and not     *)
(* above the limit: no carry between limbs is lost, the product never      *)
(* wraps at the word, and the round trip through nbits truncates and does  *)
(* nothing else.  The state changes only when no call is running.          *)
RetargetIsExact == ~running => Epochs!RetargetIsExact

(* Whoever rebuilds the target from the nbits of a header (the next guest, *)
(* the host's database) gets the very target the chain is validated with.  *)
NbitsAndTargetAgree == Epochs!NbitsAndTargetAgree

(* The target never exceeds the limit, so the expect in apply_headers on   *)
(* work_from_target cannot fire, and a block at an expressible nonzero     *)
(* target counts at least as much work as a block at the limit.            *)
WorkNeverBelowMinimum == Epochs!WorkNeverBelowMinimum

(* Every boundary computed on limbs, in as many steps as its loop has, is  *)
(* one boundary of the arithmetic without limbs: target, nbits and work    *)
(* are replaced together, by the values Retarget.tla gives them.           *)
RefinesRetarget == Epochs!Spec

(* Each iteration on limbs, with its shifts, borrows and bit positions     *)
(* over limb ends, is one iteration of long division on integers.          *)
LoopDivides == [][running' => IF running THEN Division!Next ELSE Division!Init']_registers

(* When the loop ends, the limbs of the quotient hold                      *)
(* floor(2^256 / (target + 1)), cut to the word, for whatever target.      *)
WorkIsQuotient == running => Division!QuotientIsWork

=============================================================================
