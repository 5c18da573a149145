------------------------------ MODULE Retarget ------------------------------
(***************************************************************************)
(* The trajectory of the difficulty over epoch boundaries: State's         *)
(* current_target, current_nbits and current_work as prepare_new_epoch     *)
(* replaces them, for any pair of epoch timestamps.                        *)
(***************************************************************************)
EXTENDS Difficulty, FiniteSetsExt

CONSTANT
  TIMESTAMPS   \* the header timestamps considered

VARIABLES
  current_target,
  current_nbits,
  current_work,
  boundary     \* what the last boundary was computed from

vars == <<current_target, current_nbits, current_work, boundary>>

TypeOK ==
  /\ current_target \in Words
  /\ current_nbits \in CompactTarget
  /\ current_work \in Words
  /\ boundary \in [old : Words, timespan : MIN_EPOCH_TIMESPAN .. MAX_EPOCH_TIMESPAN]

Init ==
  /\ current_target = POW_LIMIT
  /\ current_nbits = target_to_bits(POW_LIMIT)
  /\ current_work = work_from_target(POW_LIMIT)
  /\ boundary = [old |-> POW_LIMIT, timespan |-> EXPECTED_EPOCH_TIMESPAN]

(* prepare_new_epoch; its error, a target with every bit set, is excluded  *)
(* by the minimum with POW_LIMIT.                                          *)
prepare_new_epoch(epoch_start, previous) ==
  LET next == calculate_next_target_required(current_target, epoch_start, previous)
  IN  /\ current_target' = next.target
      /\ current_nbits' = next.nbits
      /\ current_work' = work_from_target(next.target)
      /\ boundary' = [old |-> current_target,
                      timespan |-> ClampedTimespan(epoch_start, previous)]

Next == \E epoch_start, previous \in TIMESTAMPS : prepare_new_epoch(epoch_start, previous)

Spec == Init /\ [][Next]_vars

-----------------------------------------------------------------------------
(***************************************************************************)
(* Reference definitions, independent of the encoding's algorithm: the     *)
(* targets a compact value can express, and the greatest one below a word. *)
(***************************************************************************)
Expressible ==
  {m \div BytePow[3 - s] : m \in 0 .. SignBit - 1, s \in 0 .. 3}
    \cup {m * BytePow[s - 3] : m \in 0 .. SignBit - 1, s \in 4 .. NBYTES}

RoundedDown(t) == Max({r \in Expressible : r <= t})

(* The target of the new epoch is the greatest expressible target not      *)
(* above old * timespan / expected computed without any width, and not     *)
(* above the limit: the 256-bit product of calculate_next_target_required  *)
(* never wraps, and the round trip through nbits truncates and does        *)
(* nothing else.                                                           *)
RetargetIsExact ==
  current_target =
    RoundedDown(Min({(boundary.old * boundary.timespan) \div EXPECTED_EPOCH_TIMESPAN,
                     POW_LIMIT}))

(* Whoever rebuilds the target from the nbits of a header (the next guest, *)
(* the host's database) gets the very target the chain is validated with,  *)
(* and encoding that target again gives the same nbits.                    *)
NbitsAndTargetAgree ==
  /\ target_from_bits(current_nbits) = current_target
  /\ target_to_bits(current_target) = current_nbits

(* The target never exceeds the limit, so the expect in apply_headers on   *)
(* work_from_target cannot fire, and a block at an expressible nonzero     *)
(* target counts at least as much work as a block at the limit.            *)
WorkNeverBelowMinimum ==
  /\ current_target <= POW_LIMIT
  /\ current_target > 0 => current_work >= work_from_target(POW_LIMIT)

=============================================================================
