-------------------------- MODULE HeaderChainProofs --------------------------
(***************************************************************************)
(* Theorems about HeaderChain for every window, epoch, word size and batch *)
(* size, for every chain and every way of cutting it into batches.         *)
(*                                                                         *)
(* TypeOK is inductive.  WorkConserved needs that no run is open between   *)
(* two calls (NoRunBetweenCalls): a call starts by forgetting the open     *)
(* run.  The three facts about the cached state (OneDifficulty,            *)
(* EpochStartIsBoundary, RingHoldsWindow) need that times has a block for  *)
(* each height (TimesComplete).                                            *)
(* DifficultyCoherent then follows from them along the epochs, from the    *)
(* genesis block to the tip.                                               *)
(* HintIsMedian follows from RingHoldsWindow: the ring is a permutation of *)
(* the window, counting does not see the order, and the count settles the  *)
(* element in the middle (RankSettlesElement).  Together they make every   *)
(* step of the loop a step of ConsensusChain, or none of its business.     *)
(*                                                                         *)
(* The last part is about HeaderDb, where every chain is also replayed     *)
(* into a table: the state rebuilt from the rows is the replayed one.      *)
(***************************************************************************)
EXTENDS HeaderDb, DifficultyProofs, SequenceTheorems, FiniteSetTheorems, FunctionTheorems

NoRunBetweenCalls == pc = "idle" => pending_run_work = NoRun
TimesComplete     == Len(times) = height + 1

-----------------------------------------------------------------------------
(* The difficulty a header is validated with is well formed, and coherent  *)
(* when the state's is.                                                    *)
LEMMA ActiveType ==
  ASSUME TypeOK
  PROVE  /\ active.nbits \in CompactTarget
         /\ active.target \in Words
         /\ active.work \in Words
         /\ OneDifficulty => /\ active.target = target_from_bits(active.nbits)
                             /\ active.work = work_from_target(active.target)
                             /\ active.target <= POW_LIMIT
<1>. DEFINE previous == timestamps[current_timestamp_slot]
            next     == calculate_next_target_required(current_target,
                          epoch_start_timestamp, previous)
<1>1. CASE ~IsBoundary(candidate_height)
  BY <1>1 DEF active, TypeOK, OneDifficulty
<1>2. CASE IsBoundary(candidate_height)
  <2>1. current_timestamp_slot \in Slots
    BY ChainAssumption DEF TypeOK, current_timestamp_slot, Slots
  <2>2. previous \in Int /\ epoch_start_timestamp \in Int /\ current_target \in Words
    BY <2>1 DEF TypeOK
  <2>. HIDE DEF previous
  <2>3. next.nbits \in CompactTarget /\ next.target \in Words
        /\ next.target = target_from_bits(next.nbits)
    BY <2>2, NextTargetType
  <2>4. next.target <= POW_LIMIT
    BY <2>2, NextTargetBelowLimit
  <2>5. work_from_target(next.target) \in Words
    BY <2>3, WorkType
  <2>6. active = [nbits |-> next.nbits, target |-> next.target,
                  work |-> work_from_target(next.target)]
    BY <1>2 DEF active, prepare_new_epoch, previous
  <2>. HIDE DEF next
  <2>. QED  BY <2>3, <2>4, <2>5, <2>6
<1>. QED  BY <1>1, <1>2

(* A flush keeps the chain work in the word.                               *)
LEMMA FlushedWorkType ==
  ASSUME TypeOK
  PROVE  FlushedWork \in Words
<1>1. CASE pending_run_work = NoRun \/ pending_run_count = 0
  BY <1>1 DEF TypeOK, FlushedWork, apply_chain_work_run
<1>2. CASE ~(pending_run_work = NoRun \/ pending_run_count = 0)
  <2>1. pending_run_work \in Nat /\ pending_run_count \in Nat /\ chain_work \in Nat
    BY <1>2, WordModType DEF TypeOK
  <2>2. WordMul(pending_run_work, pending_run_count) \in Nat
    BY <2>1, WordOpsType, WordModType
  <2>3. WordAdd(chain_work, WordMul(pending_run_work, pending_run_count)) \in Words
    BY <2>1, <2>2, WordOpsType
  <2>. QED  BY <1>2, <2>3 DEF FlushedWork, apply_chain_work_run
<1>. QED  BY <1>1, <1>2

-----------------------------------------------------------------------------
(* The model keeps its types: every step of the loop leaves a state the    *)
(* next batch can be started from.                                         *)
THEOREM TypeCorrect == Spec => []TypeOK
<1>1. Init => TypeOK
  <2>. SUFFICES ASSUME Init PROVE TypeOK
    OBVIOUS
  <2>1. POW_LIMIT \in Words
    BY ConsensusAssumption, WordAssumption DEF Words, WordMod
  <2>2. target_to_bits(POW_LIMIT) \in CompactTarget
    BY <2>1, ToBitsType
  <2>3. work_from_target(POW_LIMIT) \in Words
    BY <2>1, WorkType
  <2>4. GENESIS_WORK \in Words /\ GENESIS_TIME \in Nat
    BY ChainAssumption
  <2>5. [s \in Slots |-> IF s = 0 THEN GENESIS_TIME ELSE 0] \in [Slots -> Nat]
    BY <2>4
  <2>6. <<GENESIS_TIME>> \in Seq(Nat)
    BY <2>4
  <2>7. published \in [verdict : Verdict, height : Nat, chain_work : Words,
                       failure_height : Nat]
    BY <2>4 DEF Init, Verdict
  <2>. QED  BY <2>1, <2>2, <2>3, <2>4, <2>5, <2>6, <2>7 DEF Init, TypeOK
<1>2. TypeOK /\ [Next]_vars => TypeOK'
  <2>. SUFFICES ASSUME TypeOK, [Next]_vars PROVE TypeOK'
    OBVIOUS
  <2>0. FlushedWork \in Words
    BY FlushedWorkType
  <2>f. ASSUME NEW verdict \in {"TimestampTooOld", "PowInsufficient"}, Fail(verdict)
        PROVE  TypeOK'
    <3>1. published' \in [verdict : Verdict, height : Nat, chain_work : Words,
                          failure_height : Nat]
      BY <2>0, <2>f DEF Fail, public_values, TypeOK, Verdict, candidate_height
    <3>. QED  BY <2>0, <2>f, <3>1 DEF Fail, TypeOK, history
  <2>1. CASE StartBatch
    <3>1. remaining' \in Nat
      BY <2>1 DEF StartBatch
    <3>. QED  BY <2>1, <3>1 DEF StartBatch, TypeOK, state, history
  <2>2. CASE FinishBatch
    <3>1. published' \in [verdict : Verdict, height : Nat, chain_work : Words,
                          failure_height : Nat]
      BY <2>0, <2>2 DEF FinishBatch, public_values, TypeOK, Verdict
    <3>. QED  BY <2>0, <2>2, <3>1 DEF FinishBatch, TypeOK, history
  <2>3. ASSUME NEW claimed \in TIMESTAMPS, RejectHint(claimed) PROVE TypeOK'
    BY <2>3 DEF RejectHint, TypeOK, state, history
  <2>4. ASSUME NEW timestamp \in TIMESTAMPS, NEW claimed \in TIMESTAMPS,
               RejectTimestamp(timestamp, claimed)
        PROVE  TypeOK'
    BY <2>4, <2>f DEF RejectTimestamp
  <2>5. ASSUME NEW timestamp \in TIMESTAMPS, NEW claimed \in TIMESTAMPS, NEW hash \in HASHES,
               RejectPow(timestamp, claimed, hash)
        PROVE  TypeOK'
    BY <2>5, <2>f DEF RejectPow
  <2>6. ASSUME NEW timestamp \in TIMESTAMPS, NEW claimed \in TIMESTAMPS, NEW hash \in HASHES,
               Accept(timestamp, claimed, hash)
        PROVE  TypeOK'
    <3>1. timestamp \in Nat
      BY ChainAssumption
    <3>2. active.nbits \in CompactTarget /\ active.target \in Words /\ active.work \in Words
      BY ActiveType
    <3>3. chain_work' \in Words /\ pending_run_work' \in Words \cup {NoRun}
          /\ pending_run_count' \in Nat
      BY <2>6, <2>0, <3>2 DEF Accept, TypeOK
    <3>4. height' \in Nat /\ remaining' \in Nat /\ epoch_start_timestamp' \in Nat
      BY <2>6, <3>1 DEF Accept, HasHeader, TypeOK, candidate_height
    <3>5. timestamps' \in [Slots -> Nat]
      BY <2>6, <3>1 DEF Accept, TypeOK
    <3>6. times' \in Seq(Nat)
      BY <2>6, <3>1 DEF Accept, TypeOK
    <3>7. total_work' \in Words
      <4>1. total_work \in Nat /\ active.work \in Nat
        BY <3>2, WordModType DEF TypeOK
      <4>2. WordAdd(total_work, active.work) \in Words
        BY <4>1, WordOpsType
      <4>. QED  BY <2>6, <4>2 DEF Accept
    <3>8. /\ current_nbits' \in CompactTarget
          /\ current_target' \in Words
          /\ current_work' \in Words
      BY <2>6, <3>2 DEF Accept
    <3>9. pc' = pc /\ published' = published
      BY <2>6 DEF Accept
    <3>. QED  BY <3>3, <3>4, <3>5, <3>6, <3>7, <3>8, <3>9 DEF TypeOK
  <2>7. CASE UNCHANGED vars
    BY <2>7 DEF TypeOK, vars, state, call, history
  <2>. QED  BY <2>1, <2>2, <2>3, <2>4, <2>5, <2>6, <2>7 DEF Next
<1>. QED  BY <1>1, <1>2, PTL DEF Spec

-----------------------------------------------------------------------------
(***************************************************************************)
(* Conservation of work.                                                   *)
(***************************************************************************)
(* The flush that closes a run leaves nothing to flush.                    *)
LEMMA NothingLeftToFlush ==
  \A work : apply_chain_work_run(work, NoRun, 0) = work
  BY DEF apply_chain_work_run

(* A block appended to the open run, or opening a run after a flush, adds  *)
(* exactly its work.                                                       *)
LEMMA AcceptConserves ==
  ASSUME TypeOK, WorkConserved,
         NEW timestamp \in TIMESTAMPS, NEW claimed \in TIMESTAMPS, NEW hash \in HASHES,
         Accept(timestamp, claimed, hash)
  PROVE  WorkConserved'
<1>. DEFINE w == active.work
<1>0. w \in Words /\ w # NoRun /\ w \in Nat
  <2>1. w \in Words
    BY ActiveType
  <2>. HIDE DEF w
  <2>. QED  BY <2>1, WordModType DEF NoRun
<1>1. total_work' = WordAdd(FlushedWork, w)
  BY DEF Accept, WorkConserved
<1>2. CASE IsBoundary(candidate_height) \/ pending_run_work # w
  <2>1. chain_work' = FlushedWork /\ pending_run_work' = w /\ pending_run_count' = 1
    BY <1>2 DEF Accept
  <2>2. FlushedWork' = WordAdd(FlushedWork, WordMul(w, 1))
    BY <2>1, <1>0 DEF FlushedWork, apply_chain_work_run
  <2>3. WordMul(w, 1) = w
    <3>1. w * 1 = w /\ w < WordMod
      BY <1>0, WordModType DEF Words
    <3>. HIDE DEF w
    <3>. QED  BY <3>1, <1>0, WordModType DEF WordMul
  <2>. QED  BY <2>2, <2>3, <1>1 DEF WorkConserved
<1>3. CASE ~(IsBoundary(candidate_height) \/ pending_run_work # w)
  <2>1. /\ chain_work' = chain_work /\ pending_run_work' = pending_run_work
        /\ pending_run_work = w /\ pending_run_count' = pending_run_count + 1
    BY <1>3 DEF Accept
  <2>2. pending_run_count \in Nat /\ chain_work \in Words
    BY DEF TypeOK
  <2>. HIDE DEF w
  <2>3. FlushedWork' = WordAdd(chain_work, WordMul(w, pending_run_count + 1))
    BY <2>1, <2>2, <1>0 DEF FlushedWork, apply_chain_work_run
  <2>4. WordAdd(WordAdd(chain_work, WordMul(w, pending_run_count)), w)
          = WordAdd(chain_work, WordMul(w, pending_run_count + 1))
    BY <2>2, <1>0, RunExtends
  <2>5. FlushedWork = WordAdd(chain_work, WordMul(w, pending_run_count))
    <3>1. CASE pending_run_count = 0
      <4>1. WordMul(w, 0) = 0 /\ WordAdd(chain_work, 0) = chain_work
        <5>1. w * 0 = 0 /\ chain_work + 0 = chain_work /\ chain_work < WordMod
              /\ chain_work \in Nat
          BY <1>0, <2>2, WordModType DEF Words
        <5>2. 0 % WordMod = 0 /\ chain_work % WordMod = chain_work
          BY <5>1, WordModType
        <5>. QED  BY <5>1, <5>2 DEF WordMul, WordAdd
      <4>. QED  BY <4>1, <3>1 DEF FlushedWork, apply_chain_work_run
    <3>2. CASE pending_run_count # 0
      BY <3>2, <2>1, <1>0 DEF FlushedWork, apply_chain_work_run
    <3>. QED  BY <3>1, <3>2
  <2>. QED  BY <2>3, <2>4, <2>5, <1>1 DEF WorkConserved
<1>. QED  BY <1>2, <1>3

(* The work of every claim is exact: flushed work plus the open run is the *)
(* block by block sum at every step, also where the words wrap.            *)
THEOREM WorkIsConserved == Spec => []WorkConserved
<1>1. Init => NoRunBetweenCalls /\ WorkConserved
  BY DEF Init, NoRunBetweenCalls, WorkConserved, FlushedWork, apply_chain_work_run
<1>2. TypeOK /\ NoRunBetweenCalls /\ WorkConserved /\ [Next]_vars
        => NoRunBetweenCalls' /\ WorkConserved'
  <2>. SUFFICES ASSUME TypeOK, NoRunBetweenCalls, WorkConserved, [Next]_vars
                PROVE  NoRunBetweenCalls' /\ WorkConserved'
    OBVIOUS
  <2>f. ASSUME NEW verdict, Fail(verdict)
        PROVE  NoRunBetweenCalls' /\ WorkConserved'
    BY <2>f, NothingLeftToFlush
       DEF Fail, NoRunBetweenCalls, WorkConserved, FlushedWork, history
  <2>1. CASE StartBatch
    <3>1. pending_run_work = NoRun
      BY <2>1 DEF StartBatch, NoRunBetweenCalls
    <3>2. FlushedWork = chain_work
      BY <3>1 DEF FlushedWork, apply_chain_work_run
    <3>3. FlushedWork' = chain_work' /\ chain_work' = chain_work /\ total_work' = total_work
      BY <2>1 DEF StartBatch, FlushedWork, apply_chain_work_run, state, history
    <3>4. NoRunBetweenCalls'
      BY <2>1 DEF StartBatch, NoRunBetweenCalls
    <3>. QED  BY <3>2, <3>3, <3>4 DEF WorkConserved
  <2>2. CASE FinishBatch
    BY <2>2, NothingLeftToFlush
       DEF FinishBatch, NoRunBetweenCalls, WorkConserved, FlushedWork, history
  <2>3. ASSUME NEW claimed \in TIMESTAMPS, RejectHint(claimed)
        PROVE  NoRunBetweenCalls' /\ WorkConserved'
    BY <2>3 DEF RejectHint, NoRunBetweenCalls, WorkConserved, FlushedWork,
                state, history
  <2>4. ASSUME NEW timestamp \in TIMESTAMPS, NEW claimed \in TIMESTAMPS,
               RejectTimestamp(timestamp, claimed)
        PROVE  NoRunBetweenCalls' /\ WorkConserved'
    BY <2>4, <2>f DEF RejectTimestamp
  <2>5. ASSUME NEW timestamp \in TIMESTAMPS, NEW claimed \in TIMESTAMPS, NEW hash \in HASHES,
               RejectPow(timestamp, claimed, hash)
        PROVE  NoRunBetweenCalls' /\ WorkConserved'
    BY <2>5, <2>f DEF RejectPow
  <2>6. ASSUME NEW timestamp \in TIMESTAMPS, NEW claimed \in TIMESTAMPS, NEW hash \in HASHES,
               Accept(timestamp, claimed, hash)
        PROVE  NoRunBetweenCalls' /\ WorkConserved'
    <3>1. NoRunBetweenCalls'
      BY <2>6 DEF Accept, HasHeader, NoRunBetweenCalls
    <3>. QED  BY <3>1, <2>6, AcceptConserves
  <2>7. CASE UNCHANGED vars
    BY <2>7 DEF NoRunBetweenCalls, WorkConserved, FlushedWork, vars, state, call, history
  <2>. QED  BY <2>1, <2>2, <2>3, <2>4, <2>5, <2>6, <2>7 DEF Next
<1>. QED  BY <1>1, <1>2, TypeCorrect, PTL DEF Spec

-----------------------------------------------------------------------------
(***************************************************************************)
(* The cached parts of the state agree with the chain.                     *)
(***************************************************************************)
CacheInv == TimesComplete /\ OneDifficulty /\ EpochStartIsBoundary /\ RingHoldsWindow

(* Steps that leave the state's cached parts and the chain alone.          *)
KeepsCaches == UNCHANGED <<height, current_nbits, current_target, current_work,
                           epoch_start_timestamp, timestamps, times>>

LEMMA KeepsCachesStep == CacheInv /\ KeepsCaches => CacheInv'
  BY DEF CacheInv, KeepsCaches, TimesComplete, OneDifficulty, EpochStartIsBoundary,
         RingHoldsWindow, timestamp_count

(* Accepting a block keeps the epoch start: a boundary block opens an      *)
(* epoch of its own, any other stays in the epoch of its parent.           *)
LEMMA AcceptKeepsEpochStart ==
  ASSUME TypeOK, TimesComplete, EpochStartIsBoundary,
         NEW timestamp \in TIMESTAMPS, NEW claimed \in TIMESTAMPS, NEW hash \in HASHES,
         Accept(timestamp, claimed, hash)
  PROVE  EpochStartIsBoundary'
<1>1. height' = height + 1 /\ height \in Nat /\ times' = Append(times, timestamp)
  BY DEF Accept, TypeOK, candidate_height
<1>2. times \in Seq(Nat) /\ Len(times) = height + 1
  BY DEF TypeOK, TimesComplete
<1>3. EPOCH_LENGTH \in Nat \ {0} /\ timestamp \in Nat
  BY ConsensusAssumption, ChainAssumption
<1>4. height % EPOCH_LENGTH \in 0 .. EPOCH_LENGTH - 1 /\ height % EPOCH_LENGTH <= height
  <2>1. height \in Int /\ height \in Nat
    BY <1>1
  <2>2. height % EPOCH_LENGTH \in 0 .. EPOCH_LENGTH - 1
    BY <2>1, <1>3, DivMod
  <2>3. height % EPOCH_LENGTH <= height
    BY <2>1, <1>3, RemainderBelow
  <2>. QED  BY <2>2, <2>3
<1>5. CASE (height + 1) % EPOCH_LENGTH = 0
  <2>1. epoch_start_timestamp' = timestamp
    BY <1>5 DEF Accept, IsBoundary, candidate_height
  <2>2. times'[height + 2] = timestamp
    BY <1>1, <1>2, <1>3
  <2>3. height' % EPOCH_LENGTH = 0 /\ height' - 0 + 1 = height + 2
    BY <1>1, <1>5
  <2>. QED  BY <2>1, <2>2, <2>3 DEF EpochStartIsBoundary
<1>6. CASE (height + 1) % EPOCH_LENGTH # 0
  <2>1. epoch_start_timestamp' = epoch_start_timestamp
    BY <1>6 DEF Accept, IsBoundary, candidate_height
  <2>2. (height + 1) % EPOCH_LENGTH = (height % EPOCH_LENGTH) + 1
    BY <1>1, <1>3, <1>6, ModSuccessor
  <2>. DEFINE r == height % EPOCH_LENGTH
  <2>3. r \in Nat /\ r <= height
    BY <1>4
  <2>. HIDE DEF r
  <2>4. height + 1 - (r + 1) + 1 = height - r + 1 /\ height - r + 1 \in 1 .. Len(times)
    BY <2>3, <1>1, <1>2
  <2>5. times'[height - r + 1] = times[height - r + 1]
    BY <2>4, <1>1, <1>2, <1>3
  <2>6. epoch_start_timestamp = times[height - r + 1]
    BY DEF r, EpochStartIsBoundary
  <2>7. (height' % EPOCH_LENGTH) = r + 1
    BY <2>2, <1>1 DEF r
  <2>8. height' - (r + 1) + 1 = height - r + 1
    BY <2>3, <1>1
  <2>. QED  BY <2>1, <2>5, <2>6, <2>7, <2>8 DEF EpochStartIsBoundary
<1>. QED  BY <1>5, <1>6

(* Accepting a block writes the one slot of the ring whose block leaves    *)
(* the window, or the first free one.                                      *)
LEMMA AcceptKeepsRing ==
  ASSUME TypeOK, TimesComplete, RingHoldsWindow,
         NEW timestamp \in TIMESTAMPS, NEW claimed \in TIMESTAMPS, NEW hash \in HASHES,
         Accept(timestamp, claimed, hash)
  PROVE  RingHoldsWindow'
<1>. DEFINE W == WINDOW_SIZE
            h == height
            n == timestamp_count
            slot == (h + 1) % W
<1>1. height' = h + 1 /\ h \in Nat /\ times' = Append(times, timestamp)
  BY DEF Accept, TypeOK, candidate_height
<1>2. times \in Seq(Nat) /\ Len(times) = h + 1 /\ timestamp \in Nat
  BY ChainAssumption DEF TypeOK, TimesComplete
<1>3. W \in Nat \ {0}
  BY ChainAssumption
<1>m. \A i \in Int : i % W \in Slots
  BY <1>3, DivMod DEF Slots
<1>4. slot \in Slots
  BY <1>1, <1>m
<1>5. timestamps \in [Slots -> Nat] /\ timestamps' = [timestamps EXCEPT ![slot] = timestamp]
  BY DEF Accept, TypeOK, candidate_height
<1>6. /\ n = IF h + 1 < W THEN h + 1 ELSE W
      /\ n' = IF h + 2 < W THEN h + 2 ELSE W
  BY <1>1 DEF timestamp_count
<1>. HIDE DEF n
<1>7. ASSUME NEW k \in 0 .. n' - 1
      PROVE  timestamps'[(height' - k) % W] = times'[height' + 1 - k]
  <2>1. CASE k = 0
    <3>1. timestamps'[slot] = timestamp
      BY <1>4, <1>5
    <3>2. times'[h + 2] = timestamp
      BY <1>1, <1>2
    <3>3. height' - k = h + 1 /\ height' + 1 - k = h + 2
      BY <1>1, <2>1
    <3>. QED  BY <3>1, <3>2, <3>3
  <2>2. CASE k > 0
    <3>1. k - 1 \in 0 .. n - 1 /\ k \in 1 .. W - 1 /\ k <= h + 1
      BY <1>1, <1>3, <1>6, <2>2
    <3>2. (h + 1 - k) % W # slot
      <4>1. \A i \in Int, j \in 1 .. W - 1 : i % W # (i - j) % W
        BY <1>3, ModDistinct
      <4>2. h + 1 \in Int
        BY <1>1
      <4>3. k \in 1 .. W - 1
        BY <3>1
      <4>4. ((h + 1) % W) # (((h + 1) - k) % W)
        BY <4>1, <4>2, <4>3, Zenon
      <4>5. (h + 1) - k = h + 1 - k
        BY <1>1
      <4>. QED  BY <4>4, <4>5, Zenon
    <3>3. (h + 1 - k) % W \in Slots
      <4>1. h + 1 - k \in Int
        BY <1>1
      <4>. QED  BY <4>1, <1>m
    <3>4. timestamps'[(h + 1 - k) % W] = timestamps[(h + 1 - k) % W]
      BY <3>2, <3>3, <1>5
    <3>5. h - (k - 1) = h + 1 - k /\ h + 1 - (k - 1) = h + 2 - k
      BY <1>1
    <3>6. timestamps[(h - (k - 1)) % W] = times[h + 1 - (k - 1)]
      BY <3>1 DEF RingHoldsWindow, n
    <3>7. times'[h + 2 - k] = times[h + 2 - k]
      BY <1>1, <1>2, <3>1
    <3>8. height' - k = h + 1 - k /\ height' + 1 - k = h + 2 - k
      BY <1>1
    <3>. QED  BY <3>4, <3>5, <3>6, <3>7, <3>8
  <2>. QED  BY <2>1, <2>2
<1>8. ASSUME NEW s \in n' .. W - 1
      PROVE  timestamps'[s] = 0
  <2>1. h + 2 < W /\ n' = h + 2 /\ n = h + 1
    BY <1>1, <1>3, <1>6, <1>8
  <2>2. slot = h + 1
    BY <2>1, <1>1, <1>3
  <2>3. s \in n .. W - 1 /\ s \in Slots /\ s # slot
    BY <2>1, <2>2, <1>1, <1>3 DEF Slots
  <2>4. timestamps[s] = 0
    BY <2>3 DEF RingHoldsWindow, n
  <2>. QED  BY <2>3, <2>4, <1>5
<1>. QED  BY <1>7, <1>8 DEF RingHoldsWindow, n

(* The cached parts of the state are an invariant together.                *)
LEMMA CacheInvariant == Spec => []CacheInv
<1>1. Init => CacheInv
  <2>. SUFFICES ASSUME Init PROVE CacheInv
    OBVIOUS
  <2>1. GENESIS_TIME \in Nat /\ WINDOW_SIZE \in Nat \ {0} /\ EPOCH_LENGTH \in Nat \ {0}
    BY ChainAssumption, ConsensusAssumption
  <2>2. height = 0 /\ times = <<GENESIS_TIME>> /\ Len(times) = 1 /\ times[1] = GENESIS_TIME
    BY DEF Init
  <2>3. 0 % EPOCH_LENGTH = 0 /\ 0 % WINDOW_SIZE = 0
    BY <2>1
  <2>4. OneDifficulty
    BY LimitExpressible, ConsensusAssumption, WordAssumption
       DEF Init, OneDifficulty, WordMod
  <2>5. EpochStartIsBoundary
    BY <2>2, <2>3 DEF Init, EpochStartIsBoundary
  <2>6. timestamp_count = 1
    BY <2>1, <2>2 DEF timestamp_count
  <2>7. RingHoldsWindow
    <3>1. ASSUME NEW k \in 0 .. 0
          PROVE  timestamps[(height - k) % WINDOW_SIZE] = times[height + 1 - k]
      <4>0. k = 0
        OBVIOUS
      <4>1. k = 0 /\ height - k = 0 /\ height + 1 - k = 1
        BY <4>0, <2>2
      <4>2. 0 \in Slots
        BY <2>1 DEF Slots
      <4>3. timestamps[0] = GENESIS_TIME
        BY <4>2 DEF Init
      <4>. QED  BY <4>1, <4>3, <2>2, <2>3
    <3>2. ASSUME NEW s \in 1 .. WINDOW_SIZE - 1
          PROVE  timestamps[s] = 0
      <4>1. s \in Slots /\ s # 0
        BY <2>1 DEF Slots
      <4>. QED  BY <4>1 DEF Init
    <3>. QED  BY <3>1, <3>2, <2>6 DEF RingHoldsWindow
  <2>. QED  BY <2>2, <2>4, <2>5, <2>7 DEF CacheInv, TimesComplete
<1>2. TypeOK /\ CacheInv /\ [Next]_vars => CacheInv'
  <2>. SUFFICES ASSUME TypeOK, CacheInv, [Next]_vars PROVE CacheInv'
    OBVIOUS
  <2>1. ASSUME NEW timestamp \in TIMESTAMPS, NEW claimed \in TIMESTAMPS, NEW hash \in HASHES,
               Accept(timestamp, claimed, hash)
        PROVE  CacheInv'
    <3>1. TimesComplete'
      <4>1. times \in Seq(Nat) /\ Len(times) = height + 1 /\ timestamp \in Nat
        BY ChainAssumption DEF TypeOK, CacheInv, TimesComplete
      <4>2. times' = Append(times, timestamp) /\ height' = height + 1
        BY <2>1 DEF Accept, candidate_height
      <4>. QED  BY <4>1, <4>2 DEF TimesComplete, TypeOK
    <3>2. OneDifficulty'
      <4>1. /\ active.target = target_from_bits(active.nbits)
            /\ active.work = work_from_target(active.target)
            /\ active.target <= POW_LIMIT
        BY ActiveType DEF CacheInv
      <4>. QED  BY <2>1, <4>1 DEF Accept, OneDifficulty
    <3>3. EpochStartIsBoundary'
      BY <2>1, AcceptKeepsEpochStart DEF CacheInv
    <3>4. RingHoldsWindow'
      BY <2>1, AcceptKeepsRing DEF CacheInv
    <3>. QED  BY <3>1, <3>2, <3>3, <3>4 DEF CacheInv
  <2>2. CASE ~(\E timestamp \in TIMESTAMPS, claimed \in TIMESTAMPS, hash \in HASHES :
                 Accept(timestamp, claimed, hash))
    <3>1. KeepsCaches
      BY <2>2 DEF Next, vars, state, call, history, StartBatch, FinishBatch, RejectHint,
                  RejectTimestamp, RejectPow, Fail, KeepsCaches
    <3>. QED  BY <3>1, KeepsCachesStep
  <2>. QED  BY <2>1, <2>2
<1>. QED  BY <1>1, <1>2, TypeCorrect, PTL DEF Spec

(* The ring holds the times of the last blocks, at every height.           *)
THEOREM CachesAgreeWithChain == Spec => []RingHoldsWindow
<1>1. CacheInv => RingHoldsWindow
  BY DEF CacheInv
<1>. QED  BY <1>1, CacheInvariant, PTL

(* The cached epoch start is the time of the block at the last boundary.   *)
THEOREM EpochStartAgreesWithChain == Spec => []EpochStartIsBoundary
<1>1. CacheInv => EpochStartIsBoundary
  BY DEF CacheInv
<1>. QED  BY <1>1, CacheInvariant, PTL

-----------------------------------------------------------------------------
(* A set is no larger than one it maps into without collision.             *)
LEMMA Embeds ==
  ASSUME NEW S, NEW T, IsFiniteSet(T), NEW f \in [S -> T],
         \A a, b \in S : f[a] = f[b] => a = b
  PROVE  IsFiniteSet(S) /\ Cardinality(S) \in Nat /\ Cardinality(S) <= Cardinality(T)
<1>1. f \in Injection(S, T)
  BY Fun_IsInj
<1>. QED  BY <1>1, FS_Injection, FS_CardinalityType

\* The places of a table whose value is in a set.
Hits(table, places, A) == {s \in places : table[s] \in A}

(* Values along a permutation of indices: how many of them lie in a set    *)
(* does not depend on the order they are stored in.                        *)
LEMMA CountSurvivesPermutation ==
  ASSUME NEW S, NEW T, IsFiniteSet(S), IsFiniteSet(T), Cardinality(S) = Cardinality(T),
         NEW f \in [S -> T], \A a, b \in S : f[a] = f[b] => a = b,
         NEW w, NEW t, \A i \in S : t[f[i]] = w[i],
         NEW A
  PROVE  /\ Cardinality(Hits(t, T, A)) = Cardinality(Hits(w, S, A))
         /\ IsFiniteSet(Hits(w, S, A))
<1>. DEFINE X == {i \in S : w[i] \in A}
            Y == {s \in T : t[s] \in A}
            g == [i \in X |-> f[i]]
<1>1. \A s \in T : \E i \in S : f[i] = s
  <2>1. f \in Injection(S, T)
    BY Fun_IsInj
  <2>2. f \in Surjection(S, T)
    BY <2>1, FS_Injection
  <2>. QED  BY <2>2, Fun_SurjectionProperties
<1>2. IsFiniteSet(X) /\ IsFiniteSet(Y)
  BY FS_Subset
<1>3. g \in [X -> Y] /\ \A a, b \in X : g[a] = g[b] => a = b
  OBVIOUS
<1>4. \A y \in Y : \E i \in X : g[i] = y
  <2>. SUFFICES ASSUME NEW y \in Y PROVE \E i \in X : g[i] = y
    OBVIOUS
  <2>1. PICK i \in S : f[i] = y
    BY <1>1
  <2>2. i \in X
    BY <2>1
  <2>. QED  BY <2>1, <2>2
<1>. HIDE DEF X, Y, g
<1>5. g \in Bijection(X, Y)
  BY <1>3, <1>4, Fun_IsBij
<1>6. Cardinality(Y) = Cardinality(X)
  BY <1>5, <1>2, FS_Bijection, Fun_ExistsBij
<1>. QED  BY <1>6, <1>2 DEF X, Y, Hits

(* Indices can be put in the order of their values: each at the place that *)
(* is the number of values not above its own, equal ones by index.         *)
LEMMA OrderExists ==
  ASSUME NEW w \in Seq(Nat)
  PROVE  \E p : Abstract!IsOrder(p, w)
<1>. DEFINE n         == Len(w)
            I         == 1..n
            Upto(i)   == {j \in I : w[j] < w[i] \/ (w[j] = w[i] /\ j <= i)}
            rank      == [i \in I |-> Cardinality(Upto(i))]
<1>n. n \in Nat /\ \A i \in I : w[i] \in Nat
  OBVIOUS
<1>. HIDE DEF n
<1>1. IsFiniteSet(I) /\ Cardinality(I) = n
  BY <1>n, FS_Interval
<1>2. ASSUME NEW i \in I
      PROVE  IsFiniteSet(Upto(i)) /\ rank[i] = Cardinality(Upto(i)) /\ rank[i] \in I
  <2>1. Upto(i) \in SUBSET I /\ i \in Upto(i)
    BY <1>n
  <2>. HIDE DEF Upto
  <2>2. IsFiniteSet(Upto(i)) /\ Cardinality(Upto(i)) <= n
    BY <2>1, <1>1, FS_Subset
  <2>3. Cardinality(Upto(i)) \in Nat /\ Cardinality(Upto(i)) # 0
    BY <2>1, <2>2, FS_CardinalityType, FS_EmptySet
  <2>. QED  BY <2>2, <2>3
<1>3. ASSUME NEW i \in I, NEW j \in I, w[i] < w[j] \/ (w[i] = w[j] /\ i < j)
      PROVE  rank[i] < rank[j]
  <2>1. w[i] \in Nat /\ w[j] \in Nat
    BY <1>n
  <2>2. Upto(i) \in SUBSET Upto(j)
    <3>1. ASSUME NEW x \in I, w[x] < w[i] \/ (w[x] = w[i] /\ x <= i)
          PROVE  w[x] < w[j] \/ (w[x] = w[j] /\ x <= j)
      <4>1. w[x] \in Nat
        BY <1>n
      <4>2. x \in Nat /\ i \in Nat /\ j \in Nat
        BY <1>n
      <4>. QED  BY <4>1, <4>2, <3>1, <2>1, <1>3
    <3>. QED  BY <3>1
  <2>3. j \in Upto(j) /\ j \notin Upto(i)
    BY <2>1, <1>3
  <2>4. Upto(i) # Upto(j)
    BY <2>3
  <2>. HIDE DEF Upto, rank
  <2>5. Cardinality(Upto(i)) <= Cardinality(Upto(j)) /\ Cardinality(Upto(i)) # Cardinality(Upto(j))
    BY <2>2, <2>4, <1>2, FS_Subset
  <2>. QED  BY <2>5, <1>2
<1>. HIDE DEF rank
<1>4. rank \in [I -> I]
  <2>1. rank = [i \in I |-> rank[i]]
    BY DEF rank
  <2>. QED  BY <2>1, <1>2
<1>5. \A i, j \in I : rank[i] = rank[j] => i = j
  <2>. SUFFICES ASSUME NEW i \in I, NEW j \in I, rank[i] = rank[j], i # j PROVE FALSE
    OBVIOUS
  <2>1. w[i] \in Nat /\ w[j] \in Nat
    BY <1>n
  <2>2. \/ w[i] < w[j] \/ (w[i] = w[j] /\ i < j)
        \/ w[j] < w[i] \/ (w[j] = w[i] /\ j < i)
    BY <2>1
  <2>3. rank[i] < rank[j] \/ rank[j] < rank[i]
    BY <2>2, <1>3
  <2>. QED  BY <2>3, <1>4
<1>6. \A k \in I : \E i \in I : rank[i] = k
  <2>1. rank \in Injection(I, I)
    BY <1>4, <1>5, Fun_IsInj
  <2>2. rank \in Surjection(I, I)
    BY <2>1, <1>1, FS_Injection
  <2>. QED  BY <2>2, Fun_SurjectionProperties
<1>. DEFINE p == [k \in I |-> CHOOSE i \in I : rank[i] = k]
<1>7. ASSUME NEW k \in I
      PROVE  p[k] \in I /\ rank[p[k]] = k
  BY <1>6
<1>. HIDE DEF p
<1>8. p \in [I -> I]
  <2>1. p = [k \in I |-> p[k]]
    BY DEF p
  <2>. QED  BY <2>1, <1>7
<1>9. \A i, j \in I : i # j => p[i] # p[j]
  BY <1>7
<1>10. \A i, j \in I : i < j => w[p[i]] <= w[p[j]]
  <2>. SUFFICES ASSUME NEW i \in I, NEW j \in I, i < j, ~(w[p[i]] <= w[p[j]]) PROVE FALSE
    OBVIOUS
  <2>1. p[i] \in I /\ p[j] \in I /\ rank[p[i]] = i /\ rank[p[j]] = j
    BY <1>7
  <2>2. w[p[i]] \in Nat /\ w[p[j]] \in Nat
    BY <2>1, <1>n
  <2>3. w[p[j]] < w[p[i]]
    BY <2>2
  <2>4. rank[p[j]] < rank[p[i]]
    BY <2>1, <2>3, <1>3
  <2>. QED  BY <2>1, <2>4
<1>. QED  BY <1>8, <1>9, <1>10 DEF Abstract!IsOrder, n

\* Fewer than k values are below c and at least k are not above it.
RanksAt(w, k, c) ==
  /\ Cardinality({i \in 1..Len(w) : w[i] < c}) < k
  /\ Cardinality({i \in 1..Len(w) : w[i] <= c}) >= k

(* The element in place k of the order is the only value with fewer than   *)
(* k values below it and at least k not above it.                          *)
LEMMA RankSettlesElement ==
  ASSUME NEW w \in Seq(Nat), NEW p, Abstract!IsOrder(p, w),
         NEW k \in 1..Len(w), NEW c \in Nat
  PROVE  RanksAt(w, k, c) <=> c = w[p[k]]
<1>. DEFINE n        == Len(w)
            I        == 1..n
            Below(v) == {i \in I : w[i] < v}
            Upto(v)  == {i \in I : w[i] <= v}
<1>w. n \in Nat /\ \A i \in I : w[i] \in Nat
  OBVIOUS
<1>p. p \in [I -> I] /\ \A i \in I : p[i] \in I
  BY DEF Abstract!IsOrder
<1>d. \A i, j \in I : p[i] = p[j] => i = j
  BY DEF Abstract!IsOrder
<1>o. \A i, j \in I : i < j => w[p[i]] <= w[p[j]]
  BY DEF Abstract!IsOrder
<1>k. k \in I /\ k \in Nat
  OBVIOUS
<1>. HIDE DEF n
<1>1. IsFiniteSet(I) /\ Cardinality(I) = n
  BY <1>w, FS_Interval
<1>f. ASSUME NEW v \in Nat
      PROVE  /\ IsFiniteSet(Below(v)) /\ Cardinality(Below(v)) \in Nat
             /\ IsFiniteSet(Upto(v)) /\ Cardinality(Upto(v)) \in Nat
  <2>1. Below(v) \in SUBSET I /\ Upto(v) \in SUBSET I
    OBVIOUS
  <2>. HIDE DEF Below, Upto
  <2>. QED  BY <2>1, <1>1, FS_Subset, FS_CardinalityType
<1>2. \A i \in I : \E j \in I : p[j] = i
  <2>. HIDE DEF I
  <2>1. p \in Injection(I, I)
    BY <1>p, <1>d, Fun_IsInj
  <2>2. p \in Surjection(I, I)
    BY <2>1, <1>1, FS_Injection
  <2>. QED  BY <2>2, Fun_SurjectionProperties
<1>m. w[p[k]] \in Nat
  BY <1>k, <1>p, <1>w
<1>. DEFINE m == w[p[k]]
<1>3. Cardinality(Below(m)) < k
  <2>. DEFINE f == [i \in Below(m) |-> CHOOSE j \in I : p[j] = i]
  <2>1. ASSUME NEW i \in Below(m)
        PROVE  f[i] \in 1 .. k - 1 /\ p[f[i]] = i
    <3>1. i \in I /\ w[i] < m
      OBVIOUS
    <3>2. PICK j \in I : f[i] = j /\ p[j] = i
      BY <3>1, <1>2
    <3>. HIDE DEF f, I
    <3>3. w[i] \in Nat /\ w[p[k]] \in Nat
      BY <3>1, <1>w, <1>m
    <3>4. ~(k < j)
      <4>1. k < j => w[p[k]] <= w[p[j]]
        BY <1>o, <1>k, <3>2
      <4>. QED  BY <4>1, <3>1, <3>2, <3>3
    <3>5. k # j
      <4>1. w[p[j]] # w[p[k]]
        BY <3>1, <3>2, <3>3
      <4>. QED  BY <4>1
    <3>. QED  BY <3>2, <3>4, <3>5 DEF I
  <2>. DEFINE B == Below(m)
  <2>2. f \in [B -> 1 .. k - 1]
    <3>1. f = [i \in B |-> f[i]]
      OBVIOUS
    <3>. HIDE DEF f, B
    <3>2. \A i \in B : f[i] \in 1 .. k - 1
      BY <2>1 DEF B
    <3>. QED  BY <3>1, <3>2
  <2>3. \A a, b \in B : f[a] = f[b] => a = b
    <3>. HIDE DEF f
    <3>. QED  BY <2>1
  <2>4. IsFiniteSet(1 .. k - 1) /\ Cardinality(1 .. k - 1) = k - 1
    BY FS_Interval
  <2>. HIDE DEF f, B
  <2>5. Cardinality(B) \in Nat /\ Cardinality(B) <= Cardinality(1 .. k - 1)
    BY <2>2, <2>3, <2>4, Embeds
  <2>6. Cardinality(B) < k
    BY <2>4, <2>5, <1>k
  <2>. QED  BY <2>6 DEF B
<1>4. Cardinality(Upto(m)) >= k
  <2>. DEFINE f == [j \in 1..k |-> p[j]]
              U == Upto(m)
  <2>1. ASSUME NEW j \in 1..k
        PROVE  f[j] \in U
    <3>1. j \in I /\ f[j] = p[j] /\ (j < k \/ j = k)
      BY <1>w, <1>k
    <3>. HIDE DEF f, I
    <3>2. p[j] \in I /\ w[p[j]] \in Nat /\ w[p[k]] \in Nat
      BY <3>1, <1>p, <1>w, <1>m
    <3>3. w[p[j]] <= w[p[k]]
      <4>1. j < k => w[p[j]] <= w[p[k]]
        BY <1>o, <1>k, <3>1
      <4>. QED  BY <4>1, <3>1, <3>2
    <3>. QED  BY <3>1, <3>2, <3>3
  <2>2. \A a, b \in 1..k : f[a] = f[b] => a = b
    <3>1. 1..k \subseteq I
      BY <1>w, <1>k
    <3>. QED  BY <3>1, <1>d
  <2>3. IsFiniteSet(1..k) /\ Cardinality(1..k) = k
    BY FS_Interval
  <2>4. f \in [1..k -> U]
    BY <2>1
  <2>5. IsFiniteSet(U) /\ Cardinality(U) \in Nat
    BY <1>f, <1>m
  <2>. HIDE DEF f, U
  <2>6. Cardinality(1..k) <= Cardinality(U)
    BY <2>2, <2>4, <2>5, Embeds
  <2>7. Cardinality(U) >= k
    BY <2>3, <2>5, <2>6, <1>k
  <2>. QED  BY <2>7 DEF U
<1>. HIDE DEF m
<1>m2. m \in Nat
  BY <1>m DEF m
<1>6. ASSUME c < m
      PROVE  Cardinality(Upto(c)) < k
  <2>. DEFINE U == Upto(c)
              B == Below(m)
  <2>1. U \in SUBSET B
    <3>1. \A i \in I : w[i] <= c => w[i] < m
      BY <1>w, <1>m2, <1>6
    <3>. QED  BY <3>1
  <2>2. IsFiniteSet(B) /\ Cardinality(U) \in Nat /\ Cardinality(B) \in Nat
    BY <1>f, <1>m2
  <2>3. Cardinality(B) < k
    BY <1>3
  <2>. HIDE DEF U, B
  <2>4. Cardinality(U) <= Cardinality(B)
    BY <2>1, <2>2, FS_Subset
  <2>5. Cardinality(U) < k
    BY <2>2, <2>3, <2>4, <1>k
  <2>. QED  BY <2>5 DEF U
<1>7. ASSUME m < c
      PROVE  ~(Cardinality(Below(c)) < k)
  <2>. DEFINE U == Upto(m)
              B == Below(c)
  <2>1. U \in SUBSET B
    <3>1. \A i \in I : w[i] <= m => w[i] < c
      BY <1>w, <1>m2, <1>7
    <3>. QED  BY <3>1
  <2>2. IsFiniteSet(B) /\ Cardinality(U) \in Nat /\ Cardinality(B) \in Nat
    BY <1>f, <1>m2
  <2>3. Cardinality(U) >= k
    BY <1>4
  <2>. HIDE DEF U, B
  <2>4. Cardinality(U) <= Cardinality(B)
    BY <2>1, <2>2, FS_Subset
  <2>5. ~(Cardinality(B) < k)
    BY <2>2, <2>3, <2>4, <1>k
  <2>. QED  BY <2>5 DEF B
<1>8. c = m \/ c < m \/ m < c
  BY <1>m2
<1>9. (Cardinality(Below(c)) < k /\ Cardinality(Upto(c)) >= k) <=> c = m
  <2>1. Cardinality(Below(c)) \in Nat /\ Cardinality(Upto(c)) \in Nat
    BY <1>f
  <2>2. c < m => ~(Cardinality(Upto(c)) >= k)
    <3>. DEFINE u == Cardinality(Upto(c))
    <3>1. c < m => u < k
      BY <1>6
    <3>2. u \in Nat
      BY <2>1
    <3>. HIDE DEF u
    <3>3. c < m => ~(u >= k)
      BY <3>1, <3>2, <1>k
    <3>. QED  BY <3>3 DEF u
  <2>3. m < c => ~(Cardinality(Below(c)) < k)
    BY <1>7
  <2>4. c = m => Cardinality(Below(c)) < k /\ Cardinality(Upto(c)) >= k
    BY <1>3, <1>4
  <2>. HIDE DEF Below, Upto
  <2>. QED  BY <2>2, <2>3, <2>4, <1>8
<1>. QED  BY <1>9 DEF m, n, RanksAt

(* The window of the whole chain is in the ring, in some order: for any    *)
(* set of values, as many of them are in it.                               *)
LEMMA RingIsWindow ==
  ASSUME TypeOK, TimesComplete, RingHoldsWindow
  PROVE  /\ Abstract!Window \in Seq(Nat) /\ Len(Abstract!Window) = timestamp_count
         /\ timestamp_count \in Nat \ {0}
         /\ \A A : /\ Cardinality(Hits(timestamps, 0 .. timestamp_count - 1, A))
                        = Cardinality(Hits(Abstract!Window, 1 .. timestamp_count, A))
                   /\ IsFiniteSet(Hits(Abstract!Window, 1 .. timestamp_count, A))
<1>. DEFINE W == WINDOW_SIZE
            n == timestamp_count
            w == Abstract!Window
            f == [i \in 1..n |-> (height - (n - i)) % W]
<1>1. /\ height \in Nat /\ W \in Nat \ {0}
      /\ times \in Seq(Nat) /\ Len(times) = height + 1
  BY ChainAssumption DEF TypeOK, TimesComplete
<1>2. /\ n \in Nat \ {0} /\ n <= W /\ n <= height + 1
      /\ n = IF height + 1 < W THEN height + 1 ELSE W
  BY <1>1 DEF timestamp_count
<1>3. w = SubSeq(times, height + 1 - n + 1, height + 1)
  BY <1>1, <1>2 DEF Abstract!Window
<1>. HIDE DEF n
<1>4. /\ w \in Seq(Nat) /\ Len(w) = n
      /\ \A i \in 1..n : w[i] = times[height + 1 - (n - i)]
  <2>1. height + 1 - n + 1 \in 1 .. Len(times) /\ height + 1 \in 1 .. Len(times)
    BY <1>1, <1>2
  <2>. DEFINE a == height + 1 - n + 1
              b == height + 1
  <2>2. a \in Int /\ b \in Int /\ b - a + 1 = n /\ a <= b
    BY <1>1, <1>2
  <2>3. \A i \in 1..n : a + i - 1 = height + 1 - (n - i) /\ a + i - 1 \in 1 .. Len(times)
    BY <1>1, <1>2
  <2>. HIDE DEF a, b
  <2>4. SubSeq(times, a, b) = [i \in 1..n |-> times[a + i - 1]]
    BY <2>2
  <2>5. \A i \in 1..n : times[a + i - 1] \in Nat
    BY <1>1, <2>3
  <2>6. SubSeq(times, a, b) \in Seq(Nat) /\ Len(SubSeq(times, a, b)) = n
    BY <2>4, <2>5, <1>2
  <2>. QED  BY <2>3, <2>4, <2>6, <1>3 DEF a, b
<1>5. ASSUME NEW i \in 1..n
      PROVE  /\ f[i] \in 0 .. n - 1
             /\ f[i] = (height - (n - i)) % W
             /\ timestamps[f[i]] = w[i]
  <2>. DEFINE h == height - (n - i)
  <2>1. h \in Nat /\ n - i \in 0 .. n - 1 /\ f[i] = h % W
    BY <1>1, <1>2
  <2>2. f[i] \in 0 .. n - 1
    <3>1. CASE n = W
      <4>1. h % W \in 0 .. W - 1
        BY <2>1, <1>1
      <4>. QED  BY <4>1, <3>1, <2>1
    <3>2. CASE n # W
      <4>1. h < W /\ n = height + 1 /\ h < n
        BY <3>2, <1>1, <1>2
      <4>2. h % W = h
        BY <4>1, <2>1, <1>1
      <4>. QED  BY <4>1, <4>2, <2>1, <1>2
    <3>. QED  BY <3>1, <3>2
  <2>3. timestamps[h % W] = times[height + 1 - (n - i)]
    BY <2>1 DEF RingHoldsWindow, n
  <2>. QED  BY <2>1, <2>2, <2>3, <1>4
<1>6. \A i, j \in 1..n : f[i] = f[j] => i = j
  <2>1. ASSUME NEW i \in 1..n, NEW j \in 1..n, i < j
        PROVE  f[i] # f[j]
    <3>. DEFINE x == height - (n - j)
                d == j - i
    <3>1. x \in Int /\ d \in 1 .. W - 1 /\ x - d = height - (n - i)
      BY <1>1, <1>2, <2>1
    <3>2. f[j] = x % W /\ f[i] = (x - d) % W
      <4>1. f[j] = (height - (n - j)) % W /\ f[i] = (height - (n - i)) % W
        BY <1>5
      <4>. QED  BY <4>1, <3>1
    <3>. HIDE DEF x, d, f
    <3>3. x % W # (x - d) % W
      BY <3>1, <1>1, ModDistinct
    <3>. QED  BY <3>2, <3>3
  <2>. HIDE DEF f
  <2>2. \A i, j \in 1..n : i < j \/ j < i \/ i = j
    BY <1>2
  <2>. QED  BY <2>1, <2>2
<1>. DEFINE S == 1..n
            T == 0 .. n - 1
<1>7. /\ IsFiniteSet(S) /\ IsFiniteSet(T) /\ Cardinality(S) = Cardinality(T)
  <2>1. IsFiniteSet(S) /\ Cardinality(S) = n
    BY <1>2, FS_Interval
  <2>2. IsFiniteSet(T) /\ Cardinality(T) = n
    <3>1. 0 <= n - 1 /\ 0 \in Int /\ n - 1 \in Int /\ (n - 1) - 0 + 1 = n
      BY <1>2
    <3>. QED  BY <3>1, FS_Interval
  <2>. QED  BY <2>1, <2>2
<1>8. f \in [S -> T]
  BY <1>5
<1>. HIDE DEF f, w
<1>9. ASSUME NEW A
      PROVE  /\ Cardinality(Hits(timestamps, T, A)) = Cardinality(Hits(w, S, A))
             /\ IsFiniteSet(Hits(w, S, A))
  <2>1. \A i \in S : timestamps[f[i]] = w[i]
    BY <1>5
  <2>2. \A i, j \in S : f[i] = f[j] => i = j
    BY <1>6
  <2>. HIDE DEF S, T
  <2>. QED  BY <2>1, <2>2, <1>7, <1>8, CountSurvivesPermutation
<1>. QED  BY <1>2, <1>4, <1>9 DEF n, w

(* The rank test of a hint counts in the ring what the median counts in    *)
(* the window of the chain.                                                *)
LEMMA RankTestFindsMedian ==
  ASSUME TypeOK, TimesComplete, RingHoldsWindow
  PROVE  HintIsMedian
<1>. DEFINE n      == timestamp_count
            w      == Abstract!Window
            middle == n \div 2
            k      == middle + 1
            p      == CHOOSE g \in [1..Len(w) -> 1..Len(w)] : Abstract!IsOrder(g, w)
<1>1. w \in Seq(Nat) /\ Len(w) = n /\ n \in Nat \ {0}
  BY RingIsWindow
<1>2. middle \in Nat /\ k \in 1..n
  <2>. HIDE DEF n
  <2>. QED  BY <1>1
<1>3. Abstract!IsOrder(p, w)
  <2>. HIDE DEF w
  <2>1. PICK g : Abstract!IsOrder(g, w)
    BY <1>1, OrderExists
  <2>2. g \in [1..Len(w) -> 1..Len(w)]
    BY <2>1 DEF Abstract!IsOrder
  <2>. QED  BY <2>1, <2>2
<1>4. Abstract!MedianOf(w) = w[p[k]]
  BY <1>1 DEF Abstract!MedianOf
<1>5. ASSUME NEW claimed \in TIMESTAMPS
      PROVE  median_time_past_hinted(claimed) <=> claimed = w[p[k]]
  <2>. DEFINE live  == 0 .. n - 1
              less  == Cardinality({s \in live : timestamps[s] < claimed})
              equal == Cardinality({s \in live : timestamps[s] = claimed})
              below == {i \in 1..n : w[i] < claimed}
              same  == {i \in 1..n : w[i] = claimed}
              upto  == {i \in 1..n : w[i] <= claimed}
  <2>1. claimed \in Nat
    BY ChainAssumption
  <2>2. \A s \in live : timestamps[s] \in Nat
    <3>1. n <= WINDOW_SIZE
      BY ChainAssumption DEF TypeOK, timestamp_count
    <3>. QED  BY <3>1, <1>1, ChainAssumption DEF TypeOK, Slots
  <2>3. \A i \in 1..n : w[i] \in Nat
    BY <1>1
  <2>. HIDE DEF w, n
  <2>4. less = Cardinality(below) /\ IsFiniteSet(below)
    <3>. DEFINE A == {v \in Nat : v < claimed}
    <3>1. /\ {s \in live : timestamps[s] < claimed} = {s \in live : timestamps[s] \in A}
          /\ below = {i \in 1..n : w[i] \in A}
      BY <2>2, <2>3
    <3>. HIDE DEF A
    <3>2. /\ Cardinality(Hits(timestamps, live, A)) = Cardinality(Hits(w, 1..n, A))
          /\ IsFiniteSet(Hits(w, 1..n, A))
      BY RingIsWindow DEF n, w
    <3>. QED  BY <3>1, <3>2 DEF Hits
  <2>5. equal = Cardinality(same) /\ IsFiniteSet(same)
    <3>1. /\ {s \in live : timestamps[s] = claimed} = {s \in live : timestamps[s] \in {claimed}}
          /\ same = {i \in 1..n : w[i] \in {claimed}}
      OBVIOUS
    <3>2. /\ Cardinality(Hits(timestamps, live, {claimed})) = Cardinality(Hits(w, 1..n, {claimed}))
          /\ IsFiniteSet(Hits(w, 1..n, {claimed}))
      BY RingIsWindow DEF n, w
    <3>. QED  BY <3>1, <3>2 DEF Hits
  <2>6. Cardinality(upto) = Cardinality(below) + Cardinality(same)
    <3>1. upto = below \cup same /\ below \cap same = {}
      BY <2>1, <2>3
    <3>. HIDE DEF upto, below, same
    <3>2. Cardinality(upto) = Cardinality(below) + Cardinality(same) - Cardinality({})
      BY <3>1, <2>4, <2>5, FS_Union
    <3>3. Cardinality(below) \in Nat /\ Cardinality(same) \in Nat
      BY <2>4, <2>5, FS_CardinalityType
    <3>. QED  BY <3>2, <3>3, FS_EmptySet
  <2>7. Cardinality(below) \in Nat /\ Cardinality(same) \in Nat
    <3>. HIDE DEF below, same
    <3>. QED  BY <2>4, <2>5, FS_CardinalityType
  <2>8. (Cardinality(below) < k /\ Cardinality(upto) >= k) <=> claimed = w[p[k]]
    <3>. HIDE DEF p, k, below, upto
    <3>1. RanksAt(w, k, claimed) <=> claimed = w[p[k]]
      BY <1>1, <1>2, <1>3, <2>1, RankSettlesElement
    <3>2. RanksAt(w, k, claimed) <=> Cardinality(below) < k /\ Cardinality(upto) >= k
      BY <1>1 DEF RanksAt, below, upto
    <3>. QED  BY <3>1, <3>2
  <2>9. median_time_past_hinted(claimed) <=> less <= middle /\ less + equal > middle
    BY DEF median_time_past_hinted, n
  <2>. HIDE DEF less, equal, below, same, upto, middle
  <2>. QED  BY <2>4, <2>5, <2>6, <2>7, <2>8, <2>9, <1>2
<1>. HIDE DEF p, k, w
<1>. QED  BY <1>4, <1>5 DEF HintIsMedian, w

(* Of all hints exactly the median passes, at every height of every chain. *)
THEOREM HintsAreMedians == Spec => []HintIsMedian
<1>1. TypeOK /\ CacheInv => HintIsMedian
  BY RankTestFindsMedian DEF CacheInv
<1>. QED  BY <1>1, TypeCorrect, CacheInvariant, PTL

-----------------------------------------------------------------------------
(***************************************************************************)
(* The loop implements the consensus rules.                                *)
(***************************************************************************)
\* A call can only be in progress on a chain nothing has been rejected on.
OpenWhileRunning == pc \in {"idle", "applying"} => published.verdict = "Success"

LEMMA OpenInvariant == Spec => []OpenWhileRunning
<1>1. Init => OpenWhileRunning
  BY DEF Init, OpenWhileRunning
<1>2. TypeOK /\ OpenWhileRunning /\ [Next]_vars => OpenWhileRunning'
  BY DEF TypeOK, OpenWhileRunning, Next, vars, call, StartBatch, FinishBatch, RejectHint,
         RejectTimestamp, RejectPow, Fail, Accept, HasHeader, public_values
<1>. QED  BY <1>1, <1>2, TypeCorrect, PTL DEF Spec

(* The abstract specification computes with the same arithmetic.           *)
LEMMA SameArithmetic ==
  /\ \A t : Abstract!target_to_bits(t) = target_to_bits(t)
  /\ \A b : Abstract!target_from_bits(b) = target_from_bits(b)
  /\ \A t : Abstract!work_from_target(t) = work_from_target(t)
  /\ \A a, b : Abstract!WordAdd(a, b) = WordAdd(a, b)
  /\ \A t, s, p : Abstract!calculate_next_target_required(t, s, p)
                    = calculate_next_target_required(t, s, p)
<1>1. /\ Abstract!EXPECTED_EPOCH_TIMESPAN = EXPECTED_EPOCH_TIMESPAN
      /\ Abstract!WordMod = WordMod /\ Abstract!SignBit = SignBit
  BY DEF Abstract!EXPECTED_EPOCH_TIMESPAN, EXPECTED_EPOCH_TIMESPAN, Abstract!WordMod, WordMod,
         Abstract!SignBit, SignBit
<1>2. \A t, n : Abstract!SignificantBytes(t) = SignificantBytes(t)
              /\ Abstract!LeadingDigits(t, n) = LeadingDigits(t, n)
  <2>1. \A S : Abstract!Cardinality(S) = Cardinality(S)
    BY DEF Abstract!Cardinality, Cardinality
  <2>. QED  BY <2>1 DEF Abstract!SignificantBytes, SignificantBytes,
                        Abstract!LeadingDigits, LeadingDigits
<1>3. \A t : Abstract!target_to_bits(t) = target_to_bits(t)
  BY <1>1, <1>2 DEF Abstract!target_to_bits, target_to_bits
<1>4. /\ \A b : Abstract!target_from_bits(b) = target_from_bits(b)
      /\ \A t : Abstract!work_from_target(t) = work_from_target(t)
      /\ \A a, b : Abstract!WordAdd(a, b) = WordAdd(a, b)
  BY <1>1 DEF Abstract!target_from_bits, target_from_bits, Abstract!work_from_target,
              work_from_target, Abstract!WordAdd, WordAdd
<1>5. \A s, p : Abstract!ClampedTimespan(s, p) = ClampedTimespan(s, p)
  BY <1>1 DEF Abstract!ClampedTimespan, ClampedTimespan, Abstract!Clamp, Clamp,
              Abstract!MIN_EPOCH_TIMESPAN, MIN_EPOCH_TIMESPAN,
              Abstract!MAX_EPOCH_TIMESPAN, MAX_EPOCH_TIMESPAN
<1>6. \A t, n : Abstract!ScaledTarget(t, n) = ScaledTarget(t, n)
  BY <1>1 DEF Abstract!ScaledTarget, ScaledTarget
<1>7. \A t, s, p : Abstract!calculate_next_target_required(t, s, p)
                     = calculate_next_target_required(t, s, p)
  BY <1>3, <1>4, <1>5, <1>6
     DEF Abstract!calculate_next_target_required, calculate_next_target_required
<1>. QED  BY <1>3, <1>4, <1>7

(* Of the whole chain, the rules take what the state has cached: the same  *)
(* height and the same difficulty for the next block.                      *)
LEMMA ActiveIsRequired ==
  ASSUME TypeOK, CacheInv
  PROVE  /\ Abstract!tip_height = height
         /\ active.nbits = Abstract!RequiredBits
         /\ active.target = target_from_bits(Abstract!RequiredBits)
         /\ active.work = work_from_target(target_from_bits(Abstract!RequiredBits))
<1>1. height \in Nat /\ Len(times) = height + 1 /\ EPOCH_LENGTH \in Nat \ {0}
  BY ConsensusAssumption DEF TypeOK, CacheInv, TimesComplete
<1>2. Abstract!tip_height = height
  BY <1>1 DEF Abstract!tip_height
<1>3. active.nbits = Abstract!RequiredBits
  <2>1. CASE (height + 1) % EPOCH_LENGTH # 0
    BY <2>1, <1>2 DEF Abstract!RequiredBits, active, IsBoundary, candidate_height
  <2>2. CASE (height + 1) % EPOCH_LENGTH = 0
    <3>1. height % EPOCH_LENGTH = EPOCH_LENGTH - 1
      <4>1. (height + 1) % EPOCH_LENGTH # (height % EPOCH_LENGTH) + 1
        <5>1. height % EPOCH_LENGTH \in Nat
          BY <1>1
        <5>. QED  BY <5>1, <2>2
      <4>. QED  BY <4>1, <1>1, ModSuccessor
    <3>2. epoch_start_timestamp = times[height + 2 - EPOCH_LENGTH]
      <4>1. height - (EPOCH_LENGTH - 1) + 1 = height + 2 - EPOCH_LENGTH
        BY <1>1
      <4>2. epoch_start_timestamp = times[height - (EPOCH_LENGTH - 1) + 1]
        BY <3>1 DEF CacheInv, EpochStartIsBoundary
      <4>. QED  BY <4>1, <4>2
    <3>3. timestamps[height % WINDOW_SIZE] = times[height + 1]
      <4>1. 0 \in 0 .. timestamp_count - 1
        BY <1>1, ChainAssumption DEF timestamp_count
      <4>2. height - 0 = height /\ height + 1 - 0 = height + 1
        BY <1>1
      <4>3. timestamps[(height - 0) % WINDOW_SIZE] = times[height + 1 - 0]
        BY <4>1 DEF CacheInv, RingHoldsWindow
      <4>. QED  BY <4>2, <4>3
    <3>4. active.nbits = calculate_next_target_required(current_target,
                           epoch_start_timestamp, timestamps[height % WINDOW_SIZE]).nbits
      BY <2>2 DEF active, IsBoundary, candidate_height, prepare_new_epoch, current_timestamp_slot
    <3>5. current_target = target_from_bits(current_nbits)
      BY DEF CacheInv, OneDifficulty
    <3>6. Abstract!RequiredBits = calculate_next_target_required(target_from_bits(current_nbits),
                           times[height + 2 - EPOCH_LENGTH], times[height + 1]).nbits
      BY <2>2, <1>2, SameArithmetic DEF Abstract!RequiredBits
    <3>. QED  BY <3>2, <3>3, <3>4, <3>5, <3>6
  <2>. QED  BY <2>1, <2>2
<1>4. active.target = target_from_bits(active.nbits) /\ active.work = work_from_target(active.target)
  BY ActiveType DEF CacheInv
<1>. QED  BY <1>2, <1>3, <1>4

-----------------------------------------------------------------------------
(***************************************************************************)
(* The difficulty of an epoch, from the genesis block on.                  *)
(***************************************************************************)
\* The rule from one epoch to the next.
EpochStep(b, k, chain) ==
  calculate_next_target_required(target_from_bits(b),
    chain[(k-1) * EPOCH_LENGTH + 1], chain[k * EPOCH_LENGTH]).nbits

IsEpochs(f, e, chain) ==
  f = [k \in 0 .. e |-> IF k = 0 THEN target_to_bits(POW_LIMIT) ELSE EpochStep(f[k-1], k, chain)]

\* Two chains have the same blocks where the first e epochs begin and end.
SameEpochs(e, chain, other) ==
  \A k \in 1 .. e : /\ chain[(k-1) * EPOCH_LENGTH + 1] = other[(k-1) * EPOCH_LENGTH + 1]
                    /\ chain[k * EPOCH_LENGTH] = other[k * EPOCH_LENGTH]

(* There is a difficulty for each epoch of every chain.                    *)
LEMMA EpochsExist ==
  ASSUME NEW chain
  PROVE  \A e \in Nat : \E f : IsEpochs(f, e, chain)
<1>. DEFINE N == {e \in Nat : \E f : IsEpochs(f, e, chain)}
            s == target_to_bits(POW_LIMIT)
            To(b, k) == EpochStep(b, k, chain)
<1>1. 0 \in N
  <2>. DEFINE f == [k \in 0 .. 0 |-> s]
  <2>1. f = [k \in 0 .. 0 |-> IF k = 0 THEN s ELSE To(f[k-1], k)]
    <3>1. \A k \in 0 .. 0 : k = 0
      OBVIOUS
    <3>. HIDE DEF s, To
    <3>. QED  BY <3>1
  <2>2. IsEpochs(f, 0, chain)
    <3>. HIDE DEF f
    <3>. QED  BY <2>1 DEF IsEpochs
  <2>. QED  BY <2>2
<1>2. ASSUME NEW e \in Nat, e \in N PROVE e + 1 \in N
  <2>1. PICK f : IsEpochs(f, e, chain)
    BY <1>2
  <2>2. \A k \in 0 .. e : f[k] = IF k = 0 THEN s ELSE To(f[k-1], k)
    BY <2>1 DEF IsEpochs
  <2>. HIDE DEF To, s
  <2>. DEFINE last == To(f[e], e + 1)
              g == [k \in 0 .. (e + 1) |-> IF k = e + 1 THEN last ELSE f[k]]
              h == [k \in 0 .. (e + 1) |-> IF k = 0 THEN s ELSE To(g[k-1], k)]
  <2>3. DOMAIN g = 0 .. (e + 1) /\ g[e + 1] = last /\ \A k \in 0 .. e : g[k] = f[k]
    <3>1. e + 1 \in 0 .. (e + 1) /\ \A k \in 0 .. e : k \in 0 .. (e + 1) /\ k # e + 1
      OBVIOUS
    <3>. HIDE DEF last
    <3>. QED  BY <3>1
  <2>4. ASSUME NEW k \in 0 .. (e + 1)
        PROVE  g[k] = IF k = 0 THEN s ELSE To(g[k-1], k)
    <3>. HIDE DEF g
    <3>1. CASE k = e + 1
      <4>1. e + 1 # 0 /\ e \in 0 .. e /\ (e + 1) - 1 = e
        OBVIOUS
      <4>. QED  BY <2>3, <3>1, <4>1
    <3>2. CASE k # e + 1
      <4>1. k \in 0 .. e /\ (k # 0 => k - 1 \in 0 .. e)
        BY <3>2
      <4>. QED  BY <2>2, <2>3, <4>1
    <3>. QED  BY <3>1, <3>2
  <2>5. g = h
    <3>1. \A k \in 0 .. (e + 1) : h[k] = IF k = 0 THEN s ELSE To(g[k-1], k)
      OBVIOUS
    <3>2. g = [k \in 0 .. (e + 1) |-> g[k]] /\ h = [k \in 0 .. (e + 1) |-> h[k]]
      OBVIOUS
    <3>. HIDE DEF g, h
    <3>. QED  BY <2>4, <3>1, <3>2
  <2>6. IsEpochs(g, e + 1, chain)
    <3>. HIDE DEF g
    <3>. QED  BY <2>5 DEF IsEpochs, h, s, To
  <2>. HIDE DEF g
  <2>. QED  BY <2>6
<1>. HIDE DEF N
<1>3. Nat \subseteq N
  BY <1>1, <1>2, NaturalInduction
<1>. QED  BY <1>3 DEF N

(* EpochBits is the last of them.                                          *)
LEMMA EpochBitsIs ==
  ASSUME NEW chain, NEW e \in Nat
  PROVE  \E f : IsEpochs(f, e, chain) /\ EpochBits(e, chain) = f[e]
<1>. DEFINE f == CHOOSE g : IsEpochs(g, e, chain)
<1>1. IsEpochs(f, e, chain)
  BY EpochsExist
<1>2. EpochBits(e, chain) = f[e]
  BY DEF EpochBits, IsEpochs, EpochStep
<1>. HIDE DEF f
<1>. QED  BY <1>1, <1>2

(* They are settled by where the epochs before begin and end.              *)
LEMMA EpochsAgree ==
  ASSUME NEW e \in Nat, NEW m \in Nat, e <= m, NEW chain, NEW other, SameEpochs(e, chain, other),
         NEW f, IsEpochs(f, e, chain), NEW g, IsEpochs(g, m, other)
  PROVE  f[e] = g[e]
<1>. DEFINE s == target_to_bits(POW_LIMIT)
            A(b, k) == EpochStep(b, k, chain)
            B(b, k) == EpochStep(b, k, other)
            N == {k \in Nat : k \in 0 .. e => f[k] = g[k]}
<1>1. \A k \in 0 .. e : f[k] = IF k = 0 THEN s ELSE A(f[k-1], k)
  BY DEF IsEpochs
<1>2. \A k \in 0 .. m : g[k] = IF k = 0 THEN s ELSE B(g[k-1], k)
  BY DEF IsEpochs
<1>3. \A k \in 1 .. e : \A b : A(b, k) = B(b, k)
  BY DEF SameEpochs, EpochStep
<1>. HIDE DEF A, B, s
<1>4. 0 \in N
  <2>1. 0 \in 0 .. e /\ 0 \in 0 .. m
    OBVIOUS
  <2>. QED  BY <2>1, <1>1, <1>2
<1>5. ASSUME NEW k \in Nat, k \in N PROVE k + 1 \in N
  <2>. SUFFICES ASSUME k + 1 \in 0 .. e PROVE f[k + 1] = g[k + 1]
    OBVIOUS
  <2>1. k \in 0 .. e /\ k + 1 \in 1 .. e /\ k + 1 \in 0 .. m /\ k + 1 # 0 /\ (k + 1) - 1 = k
    OBVIOUS
  <2>2. f[k] = g[k]
    BY <1>5, <2>1
  <2>3. f[k + 1] = A(f[k], k + 1) /\ g[k + 1] = B(g[k], k + 1)
    BY <1>1, <1>2, <2>1
  <2>. QED  BY <1>3, <2>1, <2>2, <2>3
<1>. HIDE DEF N
<1>6. e \in N
  BY <1>4, <1>5, NaturalInduction
<1>7. e \in 0 .. e
  OBVIOUS
<1>. QED  BY <1>6, <1>7 DEF N

LEMMA EpochBitsAgree ==
  ASSUME NEW e \in Nat, NEW chain, NEW other, SameEpochs(e, chain, other)
  PROVE  EpochBits(e, chain) = EpochBits(e, other)
<1>1. PICK f : IsEpochs(f, e, chain) /\ EpochBits(e, chain) = f[e]
  BY EpochBitsIs
<1>2. PICK g : IsEpochs(g, e, other) /\ EpochBits(e, other) = g[e]
  BY EpochBitsIs
<1>3. e <= e
  OBVIOUS
<1>. QED  BY <1>1, <1>2, <1>3, EpochsAgree

LEMMA EpochBitsFirst == \A chain : EpochBits(0, chain) = target_to_bits(POW_LIMIT)
<1>. SUFFICES ASSUME NEW chain PROVE EpochBits(0, chain) = target_to_bits(POW_LIMIT)
  OBVIOUS
<1>1. PICK f : IsEpochs(f, 0, chain) /\ EpochBits(0, chain) = f[0]
  BY EpochBitsIs
<1>2. 0 \in 0 .. 0
  OBVIOUS
<1>. QED  BY <1>1, <1>2 DEF IsEpochs

LEMMA EpochBitsNext ==
  ASSUME NEW e \in Nat, NEW chain
  PROVE  EpochBits(e + 1, chain) = EpochStep(EpochBits(e, chain), e + 1, chain)
<1>1. PICK f : IsEpochs(f, e, chain) /\ EpochBits(e, chain) = f[e]
  BY EpochBitsIs
<1>2. PICK g : IsEpochs(g, e + 1, chain) /\ EpochBits(e + 1, chain) = g[e + 1]
  BY EpochBitsIs
<1>3. e + 1 \in Nat /\ e <= e + 1 /\ SameEpochs(e, chain, chain)
  BY DEF SameEpochs
<1>4. f[e] = g[e]
  BY <1>1, <1>2, <1>3, EpochsAgree
<1>5. g[e + 1] = EpochStep(g[e], e + 1, chain)
  <2>1. e + 1 \in 0 .. (e + 1) /\ e + 1 # 0 /\ (e + 1) - 1 = e
    OBVIOUS
  <2>. QED  BY <1>2, <2>1 DEF IsEpochs
<1>. QED  BY <1>1, <1>2, <1>4, <1>5

-----------------------------------------------------------------------------
TipOfEpoch == current_nbits = EpochBits(height \div EPOCH_LENGTH, times)

(* Heights and the epochs they are in.                                     *)
LEMMA EpochOfNext ==
  ASSUME NEW h \in Nat, NEW m \in Nat \ {0}
  PROVE  /\ h \div m \in Nat /\ (h \div m) * m <= h
         /\ (h + 1) % m # 0 => (h + 1) \div m = h \div m
         /\ (h + 1) % m = 0 => /\ (h + 1) \div m = (h \div m) + 1
                               /\ ((h \div m) + 1) * m = h + 1
                               /\ (h \div m) * m + 1 = h + 2 - m
<1>. DEFINE q == h \div m
            r == h % m
            p == (h + 1) \div m
            t == (h + 1) % m
<1>1. h = m * q + r /\ r \in 0 .. m - 1 /\ q \in Int
  BY DivMod
<1>2. h + 1 = m * p + t /\ t \in 0 .. m - 1 /\ p \in Int
  <2>1. h + 1 \in Int
    OBVIOUS
  <2>. QED  BY <2>1, DivMod
<1>3. t = IF r = m - 1 THEN 0 ELSE r + 1
  BY ModSuccessor
<1>q. q \in Nat
  OBVIOUS
<1>. HIDE DEF q, r, p, t
<1>4. m * q <= h /\ m * q = q * m
  BY <1>1
<1>5. CASE t # 0
  <2>1. m * p = m * q
    BY <1>1, <1>2, <1>3, <1>5
  <2>2. p = q
    BY <2>1, <1>1, <1>2
  <2>. QED  BY <1>5, <1>q, <1>4, <2>2 DEF q, p, t
<1>6. CASE t = 0
  <2>1. r = m - 1
    BY <1>1, <1>3, <1>6
  <2>2. m * p = m * q + m
    BY <1>1, <1>2, <1>6, <2>1
  <2>3. m * (q + 1) = m * q + m /\ (q + 1) * m = m * (q + 1)
    BY <1>1
  <2>4. p = q + 1
    BY <2>2, <2>3, <1>1, <1>2
  <2>5. (q + 1) * m = h + 1 /\ q * m + 1 = h + 2 - m
    BY <2>1, <2>3, <1>1, <1>4
  <2>. QED  BY <1>6, <1>q, <1>4, <2>4, <2>5 DEF q, p, t
<1>. QED  BY <1>5, <1>6

(* The next header is judged with the difficulty of its epoch.             *)
LEMMA ActiveOfEpoch ==
  ASSUME TypeOK, CacheInv, TipOfEpoch
  PROVE  active.nbits = EpochBits(candidate_height \div EPOCH_LENGTH, times)
<1>. DEFINE L == EPOCH_LENGTH
            e == height \div L
<1>1. height \in Nat /\ L \in Nat \ {0}
  BY ConsensusAssumption DEF TypeOK
<1>2. /\ e \in Nat /\ e * L <= height
      /\ (height + 1) % L # 0 => (height + 1) \div L = e
      /\ (height + 1) % L = 0 => /\ (height + 1) \div L = e + 1 /\ (e + 1) * L = height + 1
                                 /\ e * L + 1 = height + 2 - L
  BY <1>1, EpochOfNext
<1>3. active.nbits = Abstract!RequiredBits /\ Abstract!tip_height = height
  BY ActiveIsRequired
<1>4. current_nbits = EpochBits(e, times)
  BY DEF TipOfEpoch
<1>. HIDE DEF e
<1>5. CASE (height + 1) % L # 0
  BY <1>2, <1>3, <1>4, <1>5 DEF Abstract!RequiredBits, candidate_height
<1>6. CASE (height + 1) % L = 0
  <2>1. Abstract!RequiredBits = calculate_next_target_required(target_from_bits(current_nbits),
                                  times[height + 2 - L], times[height + 1]).nbits
    BY <1>3, <1>6, SameArithmetic DEF Abstract!RequiredBits
  <2>2. (e + 1) - 1 = e
    BY <1>2
  <2>3. EpochStep(current_nbits, e + 1, times) = Abstract!RequiredBits
    BY <1>2, <1>6, <2>1, <2>2 DEF EpochStep
  <2>4. EpochBits(e + 1, times) = EpochStep(EpochBits(e, times), e + 1, times)
    BY <1>2, EpochBitsNext
  <2>. QED  BY <1>2, <1>3, <1>4, <1>6, <2>3, <2>4 DEF candidate_height
<1>. QED  BY <1>5, <1>6

(* A block that joins a chain leaves the epochs up to its own as they are. *)
LEMMA EpochsKept ==
  ASSUME NEW chain \in Seq(Nat), NEW t \in Nat, NEW e \in Nat, e * EPOCH_LENGTH <= Len(chain)
  PROVE  EpochBits(e, Append(chain, t)) = EpochBits(e, chain)
<1>. DEFINE L == EPOCH_LENGTH
<1>1. L \in Nat \ {0} /\ Len(chain) \in Nat
  BY ConsensusAssumption
<1>2. ASSUME NEW k \in 1 .. e
      PROVE  (k-1) * L + 1 \in 1 .. Len(chain) /\ k * L \in 1 .. Len(chain)
  <2>1. (e - k) * L \in Nat /\ (k - 1) * L \in Nat
    <3>1. e - k \in Nat /\ k - 1 \in Nat
      OBVIOUS
    <3>. QED  BY <3>1, <1>1
  <2>2. e * L = k * L + (e - k) * L /\ k * L = (k - 1) * L + L /\ k * L \in Nat /\ e * L \in Nat
    BY <1>1
  <2>. QED  BY <1>1, <2>1, <2>2
<1>3. \A i \in 1 .. Len(chain) : Append(chain, t)[i] = chain[i]
  OBVIOUS
<1>4. SameEpochs(e, Append(chain, t), chain)
  BY <1>2, <1>3 DEF SameEpochs
<1>. QED  BY <1>4, EpochBitsAgree

(* At every height, in and between batches, the cached difficulty is that  *)
(* of the epoch, retargeted from the genesis block on, and so is the one   *)
(* the next header is validated with; the cached bits, target and work are *)
(* three forms of it.                                                      *)
THEOREM DifficultyStaysCoherent == Spec => []DifficultyCoherent
<1>1. Init => TipOfEpoch
  <2>. SUFFICES ASSUME Init PROVE TipOfEpoch
    OBVIOUS
  <2>1. 0 \div EPOCH_LENGTH = 0
    BY ConsensusAssumption
  <2>. QED  BY <2>1, EpochBitsFirst DEF Init, TipOfEpoch
<1>2. TypeOK /\ CacheInv /\ TipOfEpoch /\ [Next]_vars => TipOfEpoch'
  <2>. SUFFICES ASSUME TypeOK, CacheInv, TipOfEpoch, [Next]_vars PROVE TipOfEpoch'
    OBVIOUS
  <2>1. ASSUME NEW timestamp \in TIMESTAMPS, NEW claimed \in TIMESTAMPS, NEW hash \in HASHES,
               Accept(timestamp, claimed, hash)
        PROVE  TipOfEpoch'
    <3>. DEFINE e == candidate_height \div EPOCH_LENGTH
    <3>1. /\ height \in Nat /\ times \in Seq(Nat) /\ Len(times) = height + 1
          /\ timestamp \in Nat /\ EPOCH_LENGTH \in Nat \ {0}
      BY ChainAssumption, ConsensusAssumption DEF TypeOK, CacheInv, TimesComplete
    <3>2. e \in Nat /\ e * EPOCH_LENGTH <= height + 1
      <4>1. height + 1 \in Nat
        BY <3>1
      <4>. QED  BY <3>1, <4>1, EpochOfNext DEF candidate_height
    <3>3. height' = candidate_height /\ times' = Append(times, timestamp)
          /\ current_nbits' = active.nbits
      BY <2>1 DEF Accept
    <3>4. active.nbits = EpochBits(e, times)
      BY ActiveOfEpoch
    <3>. HIDE DEF e
    <3>5. EpochBits(e, Append(times, timestamp)) = EpochBits(e, times)
      BY <3>1, <3>2, EpochsKept
    <3>. QED  BY <3>3, <3>4, <3>5 DEF TipOfEpoch, e
  <2>2. CASE ~(\E timestamp \in TIMESTAMPS, claimed \in TIMESTAMPS, hash \in HASHES :
                 Accept(timestamp, claimed, hash))
    <3>1. KeepsCaches
      BY <2>2 DEF Next, vars, state, call, history, StartBatch, FinishBatch, RejectHint,
                  RejectTimestamp, RejectPow, Fail, KeepsCaches
    <3>. QED  BY <3>1 DEF KeepsCaches, TipOfEpoch
  <2>. QED  BY <2>1, <2>2
<1>3. TypeOK /\ CacheInv /\ TipOfEpoch => DifficultyCoherent
  <2>. SUFFICES ASSUME TypeOK, CacheInv, TipOfEpoch PROVE DifficultyCoherent
    OBVIOUS
  <2>1. active.nbits = EpochBits(candidate_height \div EPOCH_LENGTH, times)
    BY ActiveOfEpoch
  <2>2. active.target = target_from_bits(active.nbits) /\ OneDifficulty
    BY ActiveType DEF CacheInv
  <2>. QED  BY <2>1, <2>2 DEF DifficultyCoherent, DifficultyOfEpoch, TipOfEpoch
<1>. QED  BY <1>1, <1>2, <1>3, TypeCorrect, CacheInvariant, PTL DEF Spec

-----------------------------------------------------------------------------
(* Every step of the loop, with its ring, its hints, its cached difficulty *)
(* and its deferred work, is a step the rules allow on the whole chain, or *)
(* changes nothing of what they speak about.                               *)
THEOREM HeaderChainImplementsConsensus == Spec => RefinesConsensus
<1>. DEFINE Inv == TypeOK /\ CacheInv /\ HintIsMedian /\ WorkConserved /\ OpenWhileRunning
<1>1. Init => Abstract!Init
  BY SameArithmetic DEF Init, Abstract!Init
<1>2. Inv /\ [Next]_vars => [Abstract!Next]_(Abstract!vars)
  <2>. SUFFICES ASSUME Inv, [Next]_vars PROVE Abstract!Next \/ UNCHANGED Abstract!vars
    OBVIOUS
  <2>1. /\ Abstract!tip_height = height
        /\ active.nbits = Abstract!RequiredBits
        /\ active.target = target_from_bits(Abstract!RequiredBits)
        /\ active.work = work_from_target(target_from_bits(Abstract!RequiredBits))
    BY ActiveIsRequired
  <2>2. ASSUME NEW timestamp \in TIMESTAMPS, NEW claimed \in TIMESTAMPS,
               median_time_past_hinted(claimed)
        PROVE  Abstract!TooOld(timestamp) <=> timestamp <= claimed
    BY <2>2 DEF HintIsMedian, Abstract!TooOld
  <2>o. pc = "applying" \/ pc = "idle" => Abstract!Open
    BY DEF OpenWhileRunning, Abstract!Open
  <2>p. ASSUME NEW verdict, Fail(verdict)
        PROVE  Abstract!Publish(verdict, Abstract!tip_height + 1)
    <3>1. /\ published' = [verdict |-> verdict, height |-> height, chain_work |-> total_work,
                           failure_height |-> height + 1]
          /\ times' = times /\ total_work' = total_work /\ current_nbits' = current_nbits
      BY <2>p DEF Fail, public_values, candidate_height, WorkConserved, history
    <3>. QED  BY <3>1, <2>1 DEF Abstract!Publish
  <2>3. CASE StartBatch
    BY <2>3 DEF StartBatch, state, history, Abstract!vars
  <2>4. CASE FinishBatch
    <3>1. /\ published' = [verdict |-> "Success", height |-> height, chain_work |-> total_work,
                           failure_height |-> 0]
          /\ times' = times /\ total_work' = total_work /\ current_nbits' = current_nbits
          /\ pc = "applying"
      BY <2>4 DEF FinishBatch, public_values, WorkConserved, history
    <3>2. Abstract!PublishSuccess
      BY <3>1, <2>1, <2>o DEF Abstract!PublishSuccess, Abstract!Publish
    <3>. QED  BY <3>2 DEF Abstract!Next
  <2>5. ASSUME NEW claimed \in TIMESTAMPS, RejectHint(claimed)
        PROVE  UNCHANGED Abstract!vars
    BY <2>5 DEF RejectHint, state, history, Abstract!vars
  <2>6. ASSUME NEW timestamp \in TIMESTAMPS, NEW claimed \in TIMESTAMPS,
               RejectTimestamp(timestamp, claimed)
        PROVE  Abstract!Next
    <3>1. Abstract!Publish("TimestampTooOld", Abstract!tip_height + 1)
      BY <2>6, <2>p DEF RejectTimestamp
    <3>2. Abstract!Open /\ Abstract!TooOld(timestamp)
      BY <2>6, <2>o, <2>2 DEF RejectTimestamp, HasHeader
    <3>3. PICK hash \in HASHES : TRUE
      BY ChainAssumption
    <3>4. Abstract!Reject(timestamp, hash)
      BY <3>1, <3>2 DEF Abstract!Reject
    <3>. QED  BY <3>4 DEF Abstract!Next
  <2>7. ASSUME NEW timestamp \in TIMESTAMPS, NEW claimed \in TIMESTAMPS, NEW hash \in HASHES,
               RejectPow(timestamp, claimed, hash)
        PROVE  Abstract!Next
    <3>1. Abstract!Publish("PowInsufficient", Abstract!tip_height + 1)
      BY <2>7, <2>p DEF RejectPow
    <3>2. timestamp \in Nat /\ claimed \in Nat
      BY ChainAssumption
    <3>3. Abstract!Open /\ ~Abstract!TooOld(timestamp)
      BY <2>7, <2>o, <2>2, <3>2 DEF RejectPow, HasHeader
    <3>4. hash > Abstract!target_from_bits(Abstract!RequiredBits)
      <4>1. ~(hash <= active.target)
        BY <2>7 DEF RejectPow, check_proof_of_work
      <4>2. hash \in Nat /\ active.target \in Nat
        BY ChainAssumption, WordModType, ActiveType
      <4>3. hash > active.target
        BY <4>1, <4>2
      <4>. QED  BY <4>3, <2>1, SameArithmetic
    <3>5. Abstract!Reject(timestamp, hash)
      BY <3>1, <3>3, <3>4 DEF Abstract!Reject
    <3>. QED  BY <3>5 DEF Abstract!Next
  <2>8. ASSUME NEW timestamp \in TIMESTAMPS, NEW claimed \in TIMESTAMPS, NEW hash \in HASHES,
               Accept(timestamp, claimed, hash)
        PROVE  Abstract!Next
    <3>1. timestamp \in Nat /\ claimed \in Nat
      BY ChainAssumption
    <3>2. Abstract!Open /\ ~Abstract!TooOld(timestamp)
      BY <2>8, <2>o, <2>2, <3>1 DEF Accept, HasHeader
    <3>3. hash <= Abstract!target_from_bits(Abstract!RequiredBits)
      BY <2>8, <2>1, SameArithmetic DEF Accept, check_proof_of_work
    <3>4. /\ times' = Append(times, timestamp) /\ published' = published
          /\ current_nbits' = Abstract!RequiredBits
          /\ total_work' = WordAdd(total_work, active.work)
      BY <2>8, <2>1 DEF Accept
    <3>5. total_work' = Abstract!WordAdd(total_work,
                          Abstract!work_from_target(
                            Abstract!target_from_bits(Abstract!RequiredBits)))
      BY <3>4, <2>1, SameArithmetic
    <3>6. Abstract!Extend(timestamp, hash)
      BY <3>2, <3>3, <3>4, <3>5 DEF Abstract!Extend
    <3>. QED  BY <3>6 DEF Abstract!Next
  <2>9. CASE UNCHANGED vars
    BY <2>9 DEF vars, state, history, Abstract!vars
  <2>. QED  BY <2>3, <2>4, <2>5, <2>6, <2>7, <2>8, <2>9 DEF Next
<1>. QED  BY <1>1, <1>2, TypeCorrect, CacheInvariant, HintsAreMedians, WorkIsConserved,
             OpenInvariant, PTL DEF Spec, RefinesConsensus, Abstract!Spec

-----------------------------------------------------------------------------
(***************************************************************************)
(* The rebuilt state is the replayed one, for every chain, window and      *)
(* epoch.  At the tip it follows from what is shown above of the state;    *)
(* below it, from rows never changing.                                     *)
(***************************************************************************)
Rows   == [timestamp : Nat, n_bits : CompactTarget, chainwork : Words]
States == [height : Nat, chain_work : Words, current_nbits : CompactTarget,
           current_target : Words, current_work : Words,
           epoch_start_timestamp : Nat, timestamps : [Slots -> Nat]]

\* The table has a row for each block, the last one the tip's.
RowsAgree ==
  /\ rows \in Seq(Rows) /\ Len(rows) = height + 1
  /\ \A i \in 1 .. height + 1 : rows[i].timestamp = times[i]
  /\ rows[height + 1].n_bits = current_nbits
  /\ rows[height + 1].chainwork = total_work
  /\ replayed \in Seq(States) /\ Len(replayed) = height + 1

ChainInv == TypeOK /\ WorkConserved /\ CacheInv

DbInv == RowsAgree /\ RebuiltIsReplayed

(* Every slot below the number of live ones belongs to a block of the      *)
(* window, before the first lap and after it.                              *)
LEMMA LiveSlotHasBlock ==
  \A W \in Nat \ {0} : \A h, count \in Nat : \A s \in 0 .. W - 1 :
    count = (IF h + 1 < W THEN h + 1 ELSE W) /\ s < count
      => \E r \in (h + 1) - count .. h : r % W = s
<1>. SUFFICES ASSUME NEW W \in Nat \ {0}, NEW h \in Nat, NEW count \in Nat,
                     NEW s \in 0 .. W - 1,
                     count = (IF h + 1 < W THEN h + 1 ELSE W), s < count
              PROVE  \E r \in (h + 1) - count .. h : r % W = s
  BY Zenon
<1>1. CASE h + 1 < W
  <2>1. s \in (h + 1) - count .. h
    BY <1>1
  <2>2. s % W = s
    <3>1. (W * 0 + s) % W = s
      BY ModUnique
    <3>2. W * 0 + s = s
      OBVIOUS
    <3>. QED  BY <3>1, <3>2
  <2>. QED  BY <2>1, <2>2
<1>2. CASE ~(h + 1 < W)
  <2>. DEFINE k == (h - s) % W
              q == (h - s) \div W
  <2>1. h - s = W * q + k /\ k \in 0 .. W - 1 /\ q \in Int
    <3>1. h - s \in Int
      OBVIOUS
    <3>. QED  BY <3>1, DivMod
  <2>. HIDE DEF k, q
  <2>2. h - k = W * q + s
    <3>1. W * q \in Int
      BY <2>1
    <3>. QED  BY <2>1, <3>1
  <2>3. (W * q + s) % W = s
    BY <2>1, ModUnique
  <2>4. h - k \in (h + 1) - count .. h
    BY <1>2, <2>1
  <2>. QED  BY <2>2, <2>3, <2>4
<1>. QED  BY <1>1, <1>2

(* The ring read from the rows of the window is the ring of the state.     *)
LEMMA RingRebuilt ==
  ASSUME TypeOK, CacheInv, RowsAgree
  PROVE  rebuilt_timestamps(height) = timestamps
<1>. DEFINE W == WINDOW_SIZE
            count == timestamp_count
<1>1. W \in Nat \ {0} /\ height \in Nat /\ timestamps \in [Slots -> Nat]
  BY ChainAssumption DEF TypeOK
<1>2. /\ count \in Nat
      /\ count = IF height + 1 < W THEN height + 1 ELSE W
      /\ window_heights(height) = (height + 1) - count .. height
  BY <1>1 DEF timestamp_count, window_heights
<1>. HIDE DEF count
<1>3. ASSUME NEW r \in window_heights(height)
      PROVE  load_header_record(r).timestamp = timestamps[r % W]
  <2>. DEFINE k == height - r
  <2>1. k \in 0 .. count - 1 /\ r + 1 \in 1 .. height + 1
        /\ height - k = r /\ height + 1 - k = r + 1
    BY <1>1, <1>2
  <2>. HIDE DEF k
  <2>2. timestamps[(height - k) % W] = times[height + 1 - k]
    BY <2>1 DEF CacheInv, RingHoldsWindow, count
  <2>3. rows[r + 1].timestamp = times[r + 1]
    BY <2>1 DEF RowsAgree
  <2>. QED  BY <2>1, <2>2, <2>3 DEF load_header_record
<1>4. ASSUME NEW s \in Slots
      PROVE  rebuilt_timestamps(height)[s] = timestamps[s]
  <2>1. CASE \E r \in window_heights(height) : r % W = s
    <3>. DEFINE c == CHOOSE r \in window_heights(height) : r % W = s
    <3>1. c \in window_heights(height) /\ c % W = s
      BY <2>1
    <3>2. rebuilt_timestamps(height)[s] = load_header_record(c).timestamp
      BY <2>1 DEF rebuilt_timestamps
    <3>. HIDE DEF c
    <3>3. load_header_record(c).timestamp = timestamps[c % W]
      BY <3>1, <1>3
    <3>. QED  BY <3>1, <3>2, <3>3
  <2>2. CASE ~\E r \in window_heights(height) : r % W = s
    <3>1. rebuilt_timestamps(height)[s] = 0
      BY <2>2 DEF rebuilt_timestamps
    <3>2. ~(s < count)
      <4>1. s \in 0 .. W - 1
        BY DEF Slots
      <4>2. s < count => \E r \in (height + 1) - count .. height : r % W = s
        <5>1. \A h, c \in Nat : \A slot \in 0 .. W - 1 :
                c = (IF h + 1 < W THEN h + 1 ELSE W) /\ slot < c
                  => \E r \in (h + 1) - c .. h : r % W = slot
          BY <1>1, LiveSlotHasBlock
        <5>2. \A slot \in 0 .. W - 1 :
                slot < count => \E r \in (height + 1) - count .. height : r % W = slot
          BY <5>1, <1>1, <1>2
        <5>. QED  BY <5>2, <4>1
      <4>. QED  BY <2>2, <4>2, <1>2
    <3>3. s \in count .. W - 1
      BY <3>2, <1>1, <1>2 DEF Slots
    <3>4. timestamps[s] = 0
      BY <3>3 DEF CacheInv, RingHoldsWindow, count
    <3>. QED  BY <3>1, <3>4
  <2>. QED  BY <2>1, <2>2
<1>5. rebuilt_timestamps(height) = [s \in Slots |-> rebuilt_timestamps(height)[s]]
  BY DEF rebuilt_timestamps
<1>6. timestamps = [s \in Slots |-> timestamps[s]]
  BY <1>1
<1>. QED  BY <1>4, <1>5, <1>6

(* The first block of an epoch is where the database is asked for it.      *)
LEMMA EpochStartRebuilt ==
  ASSUME TypeOK, CacheInv, RowsAgree
  PROVE  load_header_record(epoch_start_height(height)).timestamp = epoch_start_timestamp
<1>. DEFINE E == EPOCH_LENGTH
            q == height \div E
            m == height % E
<1>1. E \in Nat \ {0} /\ height \in Nat
  BY ConsensusAssumption DEF TypeOK
<1>2. height = E * q + m /\ m \in 0 .. E - 1 /\ q \in Int
  <2>1. height \in Int
    BY <1>1
  <2>. QED  BY <1>1, <2>1, DivMod
<1>3. m <= height
  <2>1. height \in Nat
    BY <1>1
  <2>. QED  BY <2>1, <1>1, RemainderBelow
<1>4. epoch_start_timestamp = times[height - m + 1]
  BY DEF CacheInv, EpochStartIsBoundary
<1>5. epoch_start_height(height) = q * E
  BY DEF epoch_start_height
<1>. HIDE DEF q, m
<1>6. q * E = E * q /\ E * q \in Int
  BY <1>1, <1>2
<1>7. q * E = height - m
  BY <1>1, <1>2, <1>6
<1>8. height - m + 1 \in 1 .. height + 1 /\ (height - m) + 1 = height - m + 1
  BY <1>1, <1>2, <1>3
<1>9. rows[height - m + 1].timestamp = times[height - m + 1]
  BY <1>8 DEF RowsAgree
<1>. QED  BY <1>4, <1>5, <1>7, <1>8, <1>9 DEF load_header_record

(* Above the genesis block, the state rebuilt at the tip is the tip's.     *)
LEMMA TipRebuilt ==
  ChainInv /\ RowsAgree /\ height > 0 => state_from_db_at_height(height) = ReplayedState
<1>. SUFFICES ASSUME ChainInv, RowsAgree, height > 0
              PROVE  state_from_db_at_height(height) = ReplayedState
  OBVIOUS
<1>1. load_header_record(height).n_bits = current_nbits
  BY DEF RowsAgree, load_header_record
<1>2. load_header_record(height).chainwork = FlushedWork
  BY DEF RowsAgree, load_header_record, ChainInv, WorkConserved
<1>3. /\ target_from_bits(current_nbits) = current_target
      /\ work_from_target(current_target) = current_work
  BY DEF ChainInv, CacheInv, OneDifficulty
<1>4. rebuilt_timestamps(height) = timestamps
  BY RingRebuilt DEF ChainInv
<1>5. load_header_record(epoch_start_height(height)).timestamp = epoch_start_timestamp
  BY EpochStartRebuilt DEF ChainInv
<1>6. height # 0
  BY DEF ChainInv, TypeOK
<1>. QED  BY <1>1, <1>2, <1>3, <1>4, <1>5, <1>6 DEF state_from_db_at_height, ReplayedState

(* Heights a state is rebuilt from lie at or below it.                     *)
LEMMA RebuiltFromBelow ==
  ASSUME NEW h \in Nat
  PROVE  epoch_start_height(h) \in 0 .. h /\ window_heights(h) \subseteq 0 .. h
<1>1. WINDOW_SIZE \in Nat \ {0} /\ EPOCH_LENGTH \in Nat \ {0}
  BY ChainAssumption, ConsensusAssumption
<1>2. window_heights(h) \subseteq 0 .. h
  BY <1>1 DEF window_heights
<1>3. epoch_start_height(h) \in 0 .. h
  <2>. DEFINE E == EPOCH_LENGTH
              q == h \div E
              m == h % E
  <2>1. h = E * q + m /\ m \in 0 .. E - 1 /\ q \in Int
    <3>1. h \in Int
      OBVIOUS
    <3>. QED  BY <1>1, <3>1, DivMod
  <2>2. m <= h
    BY <1>1, RemainderBelow
  <2>3. epoch_start_height(h) = q * E
    BY DEF epoch_start_height
  <2>. HIDE DEF q, m
  <2>4. q * E = E * q /\ E * q \in Int
    BY <1>1, <2>1
  <2>. QED  BY <2>1, <2>2, <2>3, <2>4
<1>. QED  BY <1>2, <1>3

(* What was rebuilt at a height stays so while the table grows above it.   *)
LEMMA OldStateKept ==
  ASSUME height \in Nat, NEW h \in 0 .. height,
         \A i \in 1 .. height + 1 : rows'[i] = rows[i]
  PROVE  state_from_db_at_height(h)' = state_from_db_at_height(h)
<1>1. h \in Nat /\ \A r \in 0 .. h : rows'[r + 1] = rows[r + 1]
  OBVIOUS
<1>2. rows'[h + 1] = rows[h + 1] /\ rows'[0 + 1] = rows[0 + 1]
  BY <1>1
<1>3. rows'[epoch_start_height(h) + 1] = rows[epoch_start_height(h) + 1]
  BY <1>1, RebuiltFromBelow
<1>4. \A r \in window_heights(h) : rows'[r + 1] = rows[r + 1]
  BY <1>1, RebuiltFromBelow
<1>. QED  BY <1>2, <1>3, <1>4
         DEF state_from_db_at_height, genesis_state_from_record, rebuilt_timestamps,
             load_header_record

(* A step leaves the height alone, or adds one block on top.               *)
LEMMA HeightStep ==
  ASSUME TypeOK, [Next]_vars
  PROVE  \/ height' = height /\ UNCHANGED <<times, current_nbits, total_work>>
         \/ /\ height' = height + 1
            /\ \E timestamp \in TIMESTAMPS : times' = Append(times, timestamp)
<1>1. CASE UNCHANGED vars
  BY <1>1 DEF vars, state, history
<1>2. CASE StartBatch
  BY <1>2 DEF StartBatch, state, history
<1>3. CASE FinishBatch
  BY <1>3 DEF FinishBatch, history
<1>4. ASSUME NEW claimed \in TIMESTAMPS, RejectHint(claimed)
      PROVE  height' = height /\ UNCHANGED <<times, current_nbits, total_work>>
  BY <1>4 DEF RejectHint, state, history
<1>5. ASSUME NEW claimed \in TIMESTAMPS, NEW timestamp \in TIMESTAMPS,
             RejectTimestamp(timestamp, claimed)
      PROVE  height' = height /\ UNCHANGED <<times, current_nbits, total_work>>
  BY <1>5 DEF RejectTimestamp, Fail, history
<1>6. ASSUME NEW claimed \in TIMESTAMPS, NEW timestamp \in TIMESTAMPS, NEW hash \in HASHES,
             RejectPow(timestamp, claimed, hash)
      PROVE  height' = height /\ UNCHANGED <<times, current_nbits, total_work>>
  BY <1>6 DEF RejectPow, Fail, history
<1>7. ASSUME NEW claimed \in TIMESTAMPS, NEW timestamp \in TIMESTAMPS, NEW hash \in HASHES,
             Accept(timestamp, claimed, hash)
      PROVE  height' = height + 1 /\ times' = Append(times, timestamp)
  BY <1>7 DEF Accept, candidate_height
<1>. QED  BY <1>1, <1>2, <1>3, <1>4, <1>5, <1>6, <1>7 DEF Next

(* The rows keep up with the chain.                                        *)
LEMMA RowsStep ==
  ASSUME ChainInv, ChainInv', RowsAgree, [DbNext]_db_vars
  PROVE  /\ RowsAgree'
         /\ \A i \in 1 .. height + 1 : rows'[i] = rows[i] /\ replayed'[i] = replayed[i]
         /\ \/ height' = height /\ UNCHANGED <<rows, replayed>>
            \/ height' = height + 1 /\ replayed'[height' + 1] = ReplayedState'
<1>1. TypeOK /\ [Next]_vars
  BY DEF ChainInv, DbNext, db_vars
<1>2. height \in Nat /\ times \in Seq(Nat) /\ Len(times) = height + 1
  BY DEF ChainInv, TypeOK, CacheInv, TimesComplete
<1>3. CASE height' = height /\ UNCHANGED <<times, current_nbits, total_work>>
  <2>1. UNCHANGED <<rows, replayed>>
    BY <1>3 DEF DbNext, RecordBlock, db_vars
  <2>. QED  BY <1>3, <2>1 DEF RowsAgree
<1>4. ASSUME height' = height + 1,
             NEW timestamp \in TIMESTAMPS, times' = Append(times, timestamp)
      PROVE  /\ RowsAgree'
             /\ \A i \in 1 .. height + 1 : rows'[i] = rows[i] /\ replayed'[i] = replayed[i]
             /\ replayed'[height' + 1] = ReplayedState'
  <2>. DEFINE row == Row(times'[height + 2], current_nbits', total_work')
              now == ReplayedState'
  <2>1. rows' = Append(rows, row) /\ replayed' = Append(replayed, now)
    BY <1>2, <1>4 DEF DbNext, RecordBlock, db_vars, vars, state
  <2>2. times'[height + 2] = timestamp /\ timestamp \in Nat
        /\ \A i \in 1 .. height + 1 : times'[i] = times[i]
    BY <1>2, <1>4, ChainAssumption
  <2>3. row \in Rows
    BY <2>2 DEF Row, Rows, ChainInv, TypeOK
  <2>4. now \in States
    BY DEF ReplayedState, States, ChainInv, TypeOK, WorkConserved
  <2>5. row.timestamp = timestamp /\ row.n_bits = current_nbits' /\ row.chainwork = total_work'
    BY <2>2 DEF Row
  <2>. HIDE DEF row, now
  <2>6. /\ rows \in Seq(Rows) /\ Len(rows) = height + 1
        /\ replayed \in Seq(States) /\ Len(replayed) = height + 1
    BY DEF RowsAgree
  <2>7. /\ rows' \in Seq(Rows) /\ Len(rows') = height + 2 /\ rows'[height + 2] = row
        /\ \A i \in 1 .. height + 1 : rows'[i] = rows[i]
    BY <1>2, <2>1, <2>3, <2>6
  <2>8. /\ replayed' \in Seq(States) /\ Len(replayed') = height + 2
        /\ replayed'[height + 2] = now
        /\ \A i \in 1 .. height + 1 : replayed'[i] = replayed[i]
    BY <1>2, <2>1, <2>4, <2>6
  <2>9. height' + 1 = height + 2
    BY <1>2, <1>4
  <2>10. \A i \in 1 .. height' + 1 : rows'[i].timestamp = times'[i]
    <3>. SUFFICES ASSUME NEW i \in 1 .. height' + 1 PROVE rows'[i].timestamp = times'[i]
      OBVIOUS
    <3>1. CASE i = height + 2
      BY <3>1, <2>2, <2>5, <2>7
    <3>2. CASE i # height + 2
      <4>1. i \in 1 .. height + 1
        BY <3>2, <2>9, <1>2
      <4>. QED  BY <4>1, <2>2, <2>7 DEF RowsAgree
    <3>. QED  BY <3>1, <3>2
  <2>11. RowsAgree'
    BY <2>5, <2>7, <2>8, <2>9, <2>10 DEF RowsAgree
  <2>. QED  BY <2>7, <2>8, <2>9, <2>11 DEF now
<1>. QED  BY <1>1, <1>3, <1>4, HeightStep

(* The table and the history of a chain that has only its genesis block.   *)
LEMMA DbStart == TypeOK /\ DbInit => DbInv
<1>. SUFFICES ASSUME TypeOK, DbInit PROVE DbInv
  OBVIOUS
<1>1. /\ height = 0 /\ times = <<GENESIS_TIME>> /\ total_work = GENESIS_WORK
      /\ current_nbits = target_to_bits(POW_LIMIT)
      /\ rows = <<Row(GENESIS_TIME, target_to_bits(POW_LIMIT), GENESIS_WORK)>>
      /\ replayed = <<ReplayedState>>
  BY DEF DbInit, Init
<1>2. FlushedWork = GENESIS_WORK
  BY DEF DbInit, Init, FlushedWork, apply_chain_work_run
<1>3. Row(GENESIS_TIME, target_to_bits(POW_LIMIT), GENESIS_WORK) \in Rows
  BY <1>1, ChainAssumption DEF Row, Rows, TypeOK
<1>4. ReplayedState \in States
  BY <1>1, <1>2 DEF ReplayedState, States, TypeOK
<1>5. RowsAgree
  BY <1>1, <1>3, <1>4 DEF RowsAgree, Row
<1>6. RebuiltIsReplayed
  BY <1>1, <1>2 DEF RebuiltIsReplayed, state_from_db_at_height, genesis_state_from_record,
     load_header_record, Row, ReplayedState, DbInit, Init
<1>. QED  BY <1>5, <1>6 DEF DbInv

(* A step keeps what was rebuilt below the tip; a new tip is TipRebuilt's. *)
LEMMA DbStep ==
  ASSUME ChainInv, ChainInv', DbInv, [DbNext]_db_vars,
         RowsAgree' => (height' > 0 => state_from_db_at_height(height)' = ReplayedState')
  PROVE  DbInv'
<1>1. height \in Nat /\ RowsAgree
  BY DEF ChainInv, TypeOK, DbInv
<1>2. /\ RowsAgree'
      /\ \A i \in 1 .. height + 1 : rows'[i] = rows[i] /\ replayed'[i] = replayed[i]
      /\ \/ height' = height /\ UNCHANGED <<rows, replayed>>
         \/ height' = height + 1 /\ replayed'[height' + 1] = ReplayedState'
  BY <1>1, RowsStep
<1>3. \A h \in 0 .. height : state_from_db_at_height(h)' = replayed'[h + 1]
  <2>. SUFFICES ASSUME NEW h \in 0 .. height
                PROVE  state_from_db_at_height(h)' = replayed'[h + 1]
    OBVIOUS
  <2>1. state_from_db_at_height(h)' = state_from_db_at_height(h)
    BY <1>1, <1>2, OldStateKept
  <2>2. state_from_db_at_height(h) = replayed[h + 1]
    BY DEF DbInv, RebuiltIsReplayed
  <2>3. h + 1 \in 1 .. height + 1
    BY <1>1
  <2>. QED  BY <1>2, <2>1, <2>2, <2>3
<1>4. RebuiltIsReplayed'
  <2>1. CASE height' = height
    BY <1>3, <2>1 DEF RebuiltIsReplayed
  <2>2. CASE height' = height + 1
    <3>1. state_from_db_at_height(height)' = replayed'[height' + 1]
      BY <1>1, <1>2, <2>2
    <3>2. \A h \in 0 .. height' : h \in 0 .. height \/ h = height'
      BY <1>1, <2>2
    <3>. QED  BY <1>3, <3>1, <3>2 DEF RebuiltIsReplayed
  <2>. QED  BY <1>2, <2>1, <2>2
<1>. QED  BY <1>2, <1>4 DEF DbInv

-----------------------------------------------------------------------------
(* Resuming is sound at every height of every chain: for each window and   *)
(* epoch length, below the tip as at it, across ring laps, epoch           *)
(* boundaries and batches, what state_from_db_at_height reads from the     *)
(* table is the state apply_headers had there.                             *)
THEOREM RebuiltStateMatches == DbSpec => []RebuiltIsReplayed
<1>1. ChainInv /\ RowsAgree /\ height > 0 => state_from_db_at_height(height) = ReplayedState
  BY TipRebuilt
<1>2. DbInit => Init
  BY DEF DbInit
<1>3. [DbNext]_db_vars => [Next]_vars
  BY DEF DbNext, db_vars
<1>4. DbSpec => Spec
  BY <1>2, <1>3, PTL DEF DbSpec, Spec
<1>5. TypeOK /\ WorkConserved /\ CacheInv => ChainInv
  BY DEF ChainInv
<1>6. DbSpec => []ChainInv
  BY <1>4, <1>5, TypeCorrect, WorkIsConserved, CacheInvariant, PTL
<1>7. DbInit /\ ChainInv => DbInv
  BY DbStart DEF ChainInv
<1>8. ChainInv /\ ChainInv' /\ DbInv /\ [DbNext]_db_vars
        /\ (ChainInv /\ RowsAgree /\ height > 0
              => state_from_db_at_height(height) = ReplayedState)'
      => DbInv'
  BY DbStep
<1>9. DbInv => RebuiltIsReplayed
  BY DEF DbInv
<1>. QED  BY <1>1, <1>6, <1>7, <1>8, <1>9, PTL DEF DbSpec

=============================================================================
