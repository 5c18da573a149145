-------------------------------- MODULE Bisect --------------------------------
(***************************************************************************)
(* The check of a simulated batch against the headers table                *)
(* (crates/host/src/pipeline/batch.rs): only the claim at the end is       *)
(* compared, and if it differs a bisection looks for the header where the  *)
(* difference begins, replaying each header at most once.  A state is the  *)
(* number of headers applied; the columns of the table are independent, so *)
(* any set of its rows may differ from the replay.  Indices start at 0.    *)
(***************************************************************************)
EXTENDS Integers, Sequences

CONSTANT MAX_HEADERS   \* bound: headers of a batch

ASSUME BisectAssumption == MAX_HEADERS \in Nat \ {0}

VARIABLES
  agrees,            \* the indices at which replay and table claim the same
  pc, lo, hi,
  replayed_states    \* cache: the states replay went through

vars == <<agrees, pc, lo, hi, replayed_states>>

Init ==
  /\ \E n \in 1..MAX_HEADERS :
       /\ agrees \in [0..n - 1 -> BOOLEAN]
       /\ hi = n - 1
  /\ lo = 0
  /\ replayed_states = <<>>
  /\ pc = "simulated"

-----------------------------------------------------------------------------
(* Further headers are applied to the last state until the one at index is *)
(* in the cache.                                                           *)
replay_states_through(states, index) ==
  states \o [i \in 1..index + 1 - Len(states) |-> Len(states) + i]

\* Whether the state in the cache claims what the table says at index.
ClaimMatches(states, index) ==
  /\ index < Len(states)
  /\ states[index + 1] = index + 1
  /\ agrees[index]

\* simulate_expected_state
AcceptBatch ==
  /\ pc = "simulated" /\ agrees[hi]
  /\ pc' = "accepted"
  /\ UNCHANGED <<agrees, lo, hi, replayed_states>>

StartBisection ==
  /\ pc = "simulated" /\ ~agrees[hi]
  /\ pc' = "bisecting"
  /\ UNCHANGED <<agrees, lo, hi, replayed_states>>

mid == lo + (hi - lo) \div 2

\* A wrong variant: an index that agrees stays in the interval.
NarrowKeepingMid ==
  /\ pc = "bisecting" /\ lo < hi
  /\ replayed_states' = replay_states_through(replayed_states, mid)
  /\ IF ClaimMatches(replayed_states', mid)
     THEN lo' = mid /\ UNCHANGED hi
     ELSE hi' = mid /\ UNCHANGED lo
  /\ UNCHANGED <<agrees, pc>>

\* A wrong variant: an index that differs is left out of the interval.
NarrowDroppingMid ==
  /\ pc = "bisecting" /\ lo < hi
  /\ replayed_states' = replay_states_through(replayed_states, mid)
  /\ IF ClaimMatches(replayed_states', mid)
     THEN lo' = mid + 1 /\ UNCHANGED hi
     ELSE hi' = (IF mid = lo THEN lo ELSE mid - 1) /\ UNCHANGED lo
  /\ UNCHANGED <<agrees, pc>>

Narrow ==
  /\ pc = "bisecting" /\ lo < hi
  /\ replayed_states' = replay_states_through(replayed_states, mid)
  /\ IF ClaimMatches(replayed_states', mid)
     THEN lo' = mid + 1 /\ UNCHANGED hi
     ELSE hi' = mid /\ UNCHANGED lo
  /\ UNCHANGED <<agrees, pc>>

Report ==
  /\ pc = "bisecting" /\ lo >= hi
  /\ replayed_states' = replay_states_through(replayed_states, lo)
  /\ pc' = "reported"
  /\ UNCHANGED <<agrees, lo, hi>>

Next == AcceptBatch \/ StartBisection \/ Narrow \/ Report

\* The search runs in one thread and waits for nothing.
Spec == Init /\ [][Next]_vars /\ WF_vars(Next)

-----------------------------------------------------------------------------
(* While the search runs, the table differs at the upper end and agrees    *)
(* right below the lower one; so what is reported is a header where a      *)
(* difference begins, with the state replay has there: the first one, if   *)
(* claims that began to differ stay different (find_first_diverging_state).*)
DifferenceInside ==
  pc \in {"bisecting", "reported"} =>
    /\ lo <= hi
    /\ ~agrees[hi]
    /\ lo > 0 => agrees[lo - 1]
    /\ pc = "reported" => replayed_states[lo + 1] = lo + 1

(* The search ends (and the batch is accepted or reported).                *)
SearchEnds == <>(pc \in {"accepted", "reported"})

=============================================================================
