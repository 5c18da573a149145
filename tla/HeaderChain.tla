---------------------------- MODULE HeaderChain ----------------------------
(***************************************************************************)
(* State::apply_headers (src/crates/core/src/state.rs), the loop the guest *)
(* and the host both run, over as many batches as a chain is proved in.    *)
(*                                                                         *)
(* A batch starts, each header of it is one step of the loop, and the call *)
(* returns: with the batch applied, with the first invalid header, or by a *)
(* panic on a median hint that is not the median.  The adversary supplies  *)
(* the headers and the hints.  A header is its timestamp and its hash; the *)
(* hash is read as the word the proof-of-work check reads.                 *)
(***************************************************************************)
EXTENDS Difficulty, Sequences, FiniteSets

CONSTANTS
  WINDOW_SIZE,   \* slots of the timestamp ring (11)
  TIMESTAMPS,    \* header timestamps, and hints, considered
  HASHES,        \* header hashes considered
  GENESIS_TIME,  \* timestamp of the genesis header
  GENESIS_WORK,  \* chain work of the genesis record
  MAX_HEIGHT,    \* bound: no batch reaches above this height
  MAX_BATCH      \* bound: headers in one batch

ASSUME ChainAssumption ==
  /\ WINDOW_SIZE \in Nat \ {0}
  /\ TIMESTAMPS \subseteq Nat
  /\ HASHES \subseteq Words /\ HASHES # {}
  /\ GENESIS_TIME \in TIMESTAMPS
  /\ GENESIS_WORK \in Words
  /\ MAX_HEIGHT \in Nat
  /\ MAX_BATCH \in Nat

VARIABLES
  \* State
  height, current_nbits, current_target, current_work, chain_work,
  epoch_start_timestamp,
  timestamps,           \* the ring: slot h % WINDOW_SIZE has block h's
  \* the call in progress
  pc,                   \* "idle", "applying", "failed" or "panicked"
  remaining,            \* headers of the batch still to apply
  pending_run_work,     \* work of the blocks of the open run, or NoRun
  pending_run_count,    \* blocks of the open run
  \* what callers learn
  published,            \* the last claim that became public
  \* history, read by no action
  times, total_work

state   == <<height, current_nbits, current_target, current_work, chain_work,
             epoch_start_timestamp, timestamps>>
call    == <<pc, remaining, pending_run_work, pending_run_count>>
history == <<times, total_work>>
vars    == <<state, call, published, history>>

NoRun == -1
Slots == 0 .. WINDOW_SIZE - 1

Verdict == {"Success", "TimestampTooOld", "PowInsufficient"}

TypeOK ==
  /\ height \in Nat
  /\ current_nbits \in CompactTarget
  /\ current_target \in Words
  /\ current_work \in Words
  /\ chain_work \in Words
  /\ epoch_start_timestamp \in Nat
  /\ timestamps \in [Slots -> Nat]
  /\ pc \in {"idle", "applying", "failed", "panicked"}
  /\ remaining \in Nat
  /\ pending_run_work \in Words \cup {NoRun}
  /\ pending_run_count \in Nat
  /\ published \in [verdict : Verdict, height : Nat, chain_work : Words,
                    failure_height : Nat]
  /\ times \in Seq(Nat)
  /\ total_work \in Words

-----------------------------------------------------------------------------
\* genesis_state_from_record: unused slots of the ring are zero.
Init ==
  /\ height = 0
  /\ current_nbits = target_to_bits(POW_LIMIT)
  /\ current_target = POW_LIMIT
  /\ current_work = work_from_target(POW_LIMIT)
  /\ chain_work = GENESIS_WORK
  /\ epoch_start_timestamp = GENESIS_TIME
  /\ timestamps = [s \in Slots |-> IF s = 0 THEN GENESIS_TIME ELSE 0]
  /\ pc = "idle"
  /\ remaining = 0
  /\ pending_run_work = NoRun
  /\ pending_run_count = 0
  /\ published = [verdict |-> "Success", height |-> 0, chain_work |-> GENESIS_WORK,
                  failure_height |-> 0]
  /\ times = <<GENESIS_TIME>>
  /\ total_work = GENESIS_WORK

\* A wrong variant: the tip's own timestamp is not counted.
timestamp_count_short == IF height < WINDOW_SIZE THEN height ELSE WINDOW_SIZE

timestamp_count == IF height + 1 < WINDOW_SIZE THEN height + 1 ELSE WINDOW_SIZE

current_timestamp_slot == height % WINDOW_SIZE

\* A wrong variant: a value just below the median passes.
median_hint_lax(claimed) ==
  LET live   == 0 .. timestamp_count - 1
      less   == Cardinality({s \in live : timestamps[s] < claimed})
      equal  == Cardinality({s \in live : timestamps[s] = claimed})
      middle == timestamp_count \div 2
  IN  less <= middle /\ less + equal >= middle

(* The rank check of a claimed median.  It looks at the first              *)
(* timestamp_count slots of the ring, in whatever order the blocks are     *)
(* there.                                                                  *)
median_time_past_hinted(claimed) ==
  LET live   == 0 .. timestamp_count - 1
      less   == Cardinality({s \in live : timestamps[s] < claimed})
      equal  == Cardinality({s \in live : timestamps[s] = claimed})
      middle == timestamp_count \div 2
  IN  less <= middle /\ less + equal > middle

\* A wrong variant: a run of any length counts as one block.
apply_one_block_work(work, run_work, run_count) ==
  IF run_work = NoRun \/ run_count = 0 THEN work ELSE WordAdd(work, run_work)

\* The chain work after a run is flushed into it.
apply_chain_work_run(work, run_work, run_count) ==
  IF run_work = NoRun \/ run_count = 0
  THEN work
  ELSE WordAdd(work, WordMul(run_work, run_count))

FlushedWork == apply_chain_work_run(chain_work, pending_run_work, pending_run_count)

candidate_height == height + 1

\* What the guest commits to: the claim of the state the call returns.
public_values(verdict, failure_height) ==
  [verdict |-> verdict, height |-> height, chain_work |-> FlushedWork,
   failure_height |-> failure_height]

\* A wrong variant: epochs that begin one block late.
IsLateBoundary(h) == h % EPOCH_LENGTH = 1

IsBoundary(h) == h % EPOCH_LENGTH = 0

\* A wrong variant: the last block of the epoch is looked up one slot late.
prepare_new_epoch_late_slot ==
  calculate_next_target_required(current_target, epoch_start_timestamp,
                                 timestamps[candidate_height % WINDOW_SIZE])

prepare_new_epoch ==
  calculate_next_target_required(current_target, epoch_start_timestamp,
                                 timestamps[current_timestamp_slot])

\* A wrong variant: the work of the old epoch is kept with the new target.
active_with_stale_work ==
  IF IsBoundary(candidate_height)
  THEN LET next == prepare_new_epoch
       IN  [nbits |-> next.nbits, target |-> next.target, work |-> current_work]
  ELSE [nbits |-> current_nbits, target |-> current_target, work |-> current_work]

\* The difficulty the candidate header is validated with.
active ==
  IF IsBoundary(candidate_height)
  THEN LET next == prepare_new_epoch
       IN  [nbits |-> next.nbits, target |-> next.target,
            work |-> work_from_target(next.target)]
  ELSE [nbits |-> current_nbits, target |-> current_target, work |-> current_work]

-----------------------------------------------------------------------------
\* The call: no run is open, and the batch fits under the bound.
StartBatch ==
  /\ pc = "idle"
  /\ \E n \in 0 .. MAX_BATCH :
       /\ height + n <= MAX_HEIGHT
       /\ remaining' = n
  /\ pc' = "applying"
  /\ pending_run_work' = NoRun
  /\ pending_run_count' = 0
  /\ UNCHANGED <<state, published, history>>

\* A wrong variant: a loop that runs past the end of the batch.
InLoop == pc = "applying"

\* The loop has a header of the batch to look at.
HasHeader == pc = "applying" /\ remaining > 0

\* assert!(median_time_past_hinted): the guest aborts, nothing is published.
RejectHint(claimed) ==
  /\ HasHeader
  /\ ~median_time_past_hinted(claimed)
  /\ pc' = "panicked"
  /\ UNCHANGED <<state, remaining, pending_run_work, pending_run_count, published, history>>

\* A wrong variant: an early return that forgets the open run.
FailUnflushed(verdict) ==
  /\ pending_run_work' = NoRun
  /\ pending_run_count' = 0
  /\ pc' = "failed"
  /\ published' = [verdict |-> verdict, height |-> height, chain_work |-> chain_work,
                   failure_height |-> candidate_height]
  /\ UNCHANGED <<state, remaining, history>>

\* An invalid header ends the call: the open run is flushed first, and the
\* state that remains is the one the last valid header left.
Fail(verdict) ==
  /\ chain_work' = FlushedWork
  /\ pending_run_work' = NoRun
  /\ pending_run_count' = 0
  /\ pc' = "failed"
  /\ published' = public_values(verdict, candidate_height)
  /\ UNCHANGED <<height, current_nbits, current_target, current_work,
                 epoch_start_timestamp, timestamps, remaining, history>>

RejectTimestamp(timestamp, claimed) ==
  /\ HasHeader
  /\ median_time_past_hinted(claimed)
  /\ timestamp <= claimed
  /\ Fail("TimestampTooOld")

RejectPow(timestamp, claimed, hash) ==
  /\ HasHeader
  /\ median_time_past_hinted(claimed)
  /\ timestamp > claimed
  /\ ~check_proof_of_work(hash, active.target)
  /\ Fail("PowInsufficient")

(* A valid header.  A boundary flushes the open run before the new epoch;  *)
(* a change of work flushes it before the block opens a run of its own.    *)
Accept(timestamp, claimed, hash) ==
  /\ HasHeader
  /\ median_time_past_hinted(claimed)
  /\ timestamp > claimed
  /\ check_proof_of_work(hash, active.target)
  /\ IF IsBoundary(candidate_height) \/ pending_run_work # active.work
     THEN /\ chain_work' = FlushedWork
          /\ pending_run_work' = active.work
          /\ pending_run_count' = 1
     ELSE /\ pending_run_count' = pending_run_count + 1
          /\ UNCHANGED <<chain_work, pending_run_work>>
  /\ height' = candidate_height
  /\ timestamps' = [timestamps EXCEPT ![candidate_height % WINDOW_SIZE] = timestamp]
  /\ current_nbits' = active.nbits
  /\ current_target' = active.target
  /\ current_work' = active.work
  /\ epoch_start_timestamp' =
       IF IsBoundary(candidate_height) THEN timestamp ELSE epoch_start_timestamp
  /\ remaining' = remaining - 1
  /\ times' = Append(times, timestamp)
  /\ total_work' = WordAdd(total_work, active.work)
  /\ UNCHANGED <<pc, published>>

\* The loop is done: the last run is flushed and the claim is published.
FinishBatch ==
  /\ pc = "applying" /\ remaining = 0
  /\ chain_work' = FlushedWork
  /\ pending_run_work' = NoRun
  /\ pending_run_count' = 0
  /\ pc' = "idle"
  /\ published' = public_values("Success", 0)
  /\ UNCHANGED <<height, current_nbits, current_target, current_work,
                 epoch_start_timestamp, timestamps, remaining, history>>

Next ==
  \/ StartBatch
  \/ FinishBatch
  \/ \E claimed \in TIMESTAMPS :
       \/ RejectHint(claimed)
       \/ \E timestamp \in TIMESTAMPS :
            \/ RejectTimestamp(timestamp, claimed)
            \/ \E hash \in HASHES : \/ RejectPow(timestamp, claimed, hash)
                                    \/ Accept(timestamp, claimed, hash)

Spec == Init /\ [][Next]_vars

-----------------------------------------------------------------------------
Abstract == INSTANCE ConsensusChain WITH bits <- current_nbits

(* No block's work is lost or counted twice: what is flushed plus what the *)
(* open run holds is the sum, block by block, of the work of the chain.    *)
(* The flushes of apply_headers are at the boundary, at a change of work,  *)
(* before either failure, and after the loop.                              *)
WorkConserved == FlushedWork = total_work

(* The ring holds the timestamps of the last blocks, each in its slot, and *)
(* zeros where there is no block yet: the live slots are the first         *)
(* timestamp_count ones before the first lap and after it, and the         *)
(* continuation digest covers the other ones too.                          *)
RingHoldsWindow ==
  /\ \A k \in 0 .. timestamp_count - 1 :
       timestamps[(height - k) % WINDOW_SIZE] = times[height + 1 - k]
  /\ \A s \in timestamp_count .. WINDOW_SIZE - 1 : timestamps[s] = 0

(* Of all claimed medians exactly the true one passes the rank check, with *)
(* equal timestamps in the window and with an even number of them too.     *)
HintIsMedian ==
  LET median == Abstract!MedianOf(Abstract!Window)
  IN  \A claimed \in TIMESTAMPS :
        median_time_past_hinted(claimed) <=> claimed = median

(* The cached epoch start is the timestamp of the first block of the tip's *)
(* epoch, the boundary block included in the epoch it opens.               *)
EpochStartIsBoundary ==
  epoch_start_timestamp = times[height - (height % EPOCH_LENGTH) + 1]

\* The compact target of the e-th epoch of a chain, retargeted from the genesis
\* block on with nothing but the times of the blocks.
EpochBits(e, chain) ==
  LET of[k \in 0 .. e] ==
        IF k = 0 THEN target_to_bits(POW_LIMIT)
        ELSE calculate_next_target_required(target_from_bits(of[k-1]),
               chain[(k-1) * EPOCH_LENGTH + 1], chain[k * EPOCH_LENGTH]).nbits
  IN  of[e]

\* nbits, target and work of the tip are three forms of one difficulty.
OneDifficulty ==
  /\ current_target = target_from_bits(current_nbits)
  /\ current_work = work_from_target(current_target)
  /\ current_target <= POW_LIMIT

\* The tip's difficulty, and the one the next header is judged with, are those
\* of their epochs.
DifficultyOfEpoch ==
  /\ current_nbits = EpochBits(height \div EPOCH_LENGTH, times)
  /\ active.target = target_from_bits(EpochBits(candidate_height \div EPOCH_LENGTH, times))

(* The three cached forms of the difficulty never drift apart, and both    *)
(* the tip's and the one the next header is validated with, at a boundary  *)
(* before the state has it, are what the whole chain requires: the target  *)
(* of its epoch, recomputed from the genesis block on.                     *)
DifficultyCoherent == OneDifficulty /\ DifficultyOfEpoch

(* Every call of apply_headers does what the consensus rules, evaluated on *)
(* the whole chain, say: it extends the chain by valid headers only,       *)
(* rejects a header for the reason it is invalid at its absolute height,   *)
(* and publishes the work of exactly the blocks applied.                   *)
RefinesConsensus == Abstract!Spec

=============================================================================
