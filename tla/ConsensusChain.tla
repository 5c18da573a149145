--------------------------- MODULE ConsensusChain ---------------------------
(***************************************************************************)
(* What a zkpow proof claims, stated without the program's data layout: a  *)
(* chain grown one valid header at a time from a trusted genesis, its work *)
(* added block by block, and claims published about it.  The rules are     *)
(* computed from the whole chain: no ring buffer, no claimed medians, no   *)
(* cached epoch start, no deferred work.  HeaderChain.tla implements it.   *)
(***************************************************************************)
EXTENDS Difficulty, Sequences

CONSTANTS
  WINDOW_SIZE,   \* blocks of the median-time-past window (11)
  TIMESTAMPS,    \* header timestamps considered
  HASHES,        \* header hashes considered, read as words
  GENESIS_TIME,  \* timestamp of the genesis header
  GENESIS_WORK,  \* chain work of the genesis record
  MAX_HEIGHT     \* bound on the height of the chain

VARIABLES
  times,       \* times[h + 1] is the timestamp of the block at height h
  bits,        \* the compact target the tip was validated with
  total_work,  \* work of the genesis and of every block since, in a word
  published    \* the last claim made public

vars == <<times, bits, total_work, published>>

tip_height == Len(times) - 1

(***************************************************************************)
(* Median time past: the middle element, the upper one of two, of the      *)
(* window put in order.                                                    *)
(***************************************************************************)
Window ==
  LET n == IF Len(times) < WINDOW_SIZE THEN Len(times) ELSE WINDOW_SIZE
  IN  SubSeq(times, Len(times) - n + 1, Len(times))

IsOrder(p, w) ==
  /\ p \in [1..Len(w) -> 1..Len(w)]
  /\ \A i, j \in 1..Len(w) : i # j => p[i] # p[j]
  /\ \A i, j \in 1..Len(w) : i < j => w[p[i]] <= w[p[j]]

MedianOf(w) ==
  LET p == CHOOSE f \in [1..Len(w) -> 1..Len(w)] : IsOrder(f, w)
  IN  w[p[(Len(w) \div 2) + 1]]

TooOld(timestamp) == timestamp <= MedianOf(Window)

(***************************************************************************)
(* The compact target required of the next block: the tip's, except that   *)
(* the first block of an epoch takes it from the first and the last block  *)
(* of the epoch before.                                                    *)
(***************************************************************************)
RequiredBits ==
  IF (tip_height + 1) % EPOCH_LENGTH = 0
  THEN calculate_next_target_required(target_from_bits(bits),
         times[tip_height + 2 - EPOCH_LENGTH], times[tip_height + 1]).nbits
  ELSE bits

Init ==
  /\ times = <<GENESIS_TIME>>
  /\ bits = target_to_bits(POW_LIMIT)
  /\ total_work = GENESIS_WORK
  /\ published = [verdict |-> "Success", height |-> 0, chain_work |-> GENESIS_WORK,
                  failure_height |-> 0]

Open == published.verdict = "Success"

Extend(timestamp, hash) ==
  /\ Open
  /\ times' = Append(times, timestamp)
  /\ ~TooOld(timestamp)
  /\ hash <= target_from_bits(RequiredBits)
  /\ bits' = RequiredBits
  /\ total_work' = WordAdd(total_work, work_from_target(target_from_bits(RequiredBits)))
  /\ UNCHANGED published

Publish(verdict, failure_height) ==
  /\ published' = [verdict |-> verdict, height |-> tip_height,
                   chain_work |-> total_work, failure_height |-> failure_height]
  /\ UNCHANGED <<times, bits, total_work>>

PublishSuccess == Open /\ Publish("Success", 0)

\* A timestamp is judged before the proof of work is.
Reject(timestamp, hash) ==
  /\ Open
  /\ \/ /\ Publish("TimestampTooOld", tip_height + 1)
        /\ TooOld(timestamp)
     \/ /\ Publish("PowInsufficient", tip_height + 1)
        /\ ~TooOld(timestamp)
        /\ hash > target_from_bits(RequiredBits)

Next ==
  \/ \E timestamp \in TIMESTAMPS, hash \in HASHES :
       Extend(timestamp, hash) \/ Reject(timestamp, hash)
  \/ PublishSuccess

Spec == Init /\ [][Next]_vars

=============================================================================
