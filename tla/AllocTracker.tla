----------------------------- MODULE AllocTracker -----------------------------
(***************************************************************************)
(* TrackingAllocator and its two atomic counters                           *)
(* (crates/memory-usage/src/allocation.rs).  Each call of a thread is the  *)
(* call of the inner allocator followed by one or two atomic operations,   *)
(* between which other threads run.  A block may be freed or resized by    *)
(* any thread, once the call that made it has returned.  The orderings are *)
(* Relaxed, but no thread uses one counter to infer the other, and handing *)
(* over a block orders the operations on it.                               *)
(***************************************************************************)
EXTENDS Integers, FiniteSets, FiniteSetsExt

CONSTANTS
  Threads,
  Blocks,     \* addresses the inner allocator hands out
  Sizes,      \* sizes asked for
  Idle        \* a thread outside the allocator

\* What a thread may have still to do.
Calls == [op : {"live", "peak"}, block : Blocks, n : Int, peak : BOOLEAN]

ASSUME TrackerAssumption ==
  /\ IsFiniteSet(Blocks) /\ IsFiniteSet(Threads) /\ IsFiniteSet(Sizes)
  /\ Sizes \subseteq Nat \ {0}
  /\ Idle \notin Calls

VARIABLES
  live_bytes, peak_bytes,
  used,       \* the bytes of each block of the inner allocator, 0 when free
  busy,       \* blocks a call is working on
  call,       \* what each thread has still to do
  highest     \* history: the highest value of live_bytes

trackerVars == <<live_bytes, peak_bytes, used, busy, call, highest>>

\* The sum of f over S.
SumOver(f, S) ==
  LET sum[T \in SUBSET S] ==
        IF T = {} THEN 0
        ELSE LET x == CHOOSE x \in T : TRUE IN f[x] + sum[T \ {x}]
  IN  sum[S]

UsedBytes == SumOver(used, Blocks)

\* A delta to be added to live_bytes, and whether the peak is to follow; a
\* value peak_bytes is to reach.
Delta(block, delta, peak) ==
  [op |-> "live", block |-> block, n |-> delta, peak |-> peak]
Reach(block, live) == [op |-> "peak", block |-> block, n |-> live, peak |-> FALSE]

TrackerInit ==
  /\ live_bytes = 0 /\ peak_bytes = 0 /\ highest = 0
  /\ used = [b \in Blocks |-> 0]
  /\ busy = {}
  /\ call = [t \in Threads |-> Idle]

-----------------------------------------------------------------------------
\* A wrong variant: the block is out before it is counted.
AllocUncounted(t, b, size) ==
  /\ call[t] = Idle /\ b \notin busy /\ used[b] = 0
  /\ used' = [used EXCEPT ![b] = size]
  /\ call' = [call EXCEPT ![t] = Delta(b, size, TRUE)]
  /\ UNCHANGED <<live_bytes, peak_bytes, busy, highest>>

\* A null pointer changes nothing: no action.
Alloc(t, b, size) ==
  /\ call[t] = Idle /\ b \notin busy /\ used[b] = 0
  /\ used' = [used EXCEPT ![b] = size]
  /\ busy' = busy \cup {b}
  /\ call' = [call EXCEPT ![t] = Delta(b, size, TRUE)]
  /\ UNCHANGED <<live_bytes, peak_bytes, highest>>

\* The block may be handed out again before it is discounted.
Dealloc(t, b) ==
  /\ call[t] = Idle /\ b \notin busy /\ used[b] > 0
  /\ used' = [used EXCEPT ![b] = 0]
  /\ call' = [call EXCEPT ![t] = Delta(b, -used[b], FALSE)]
  /\ UNCHANGED <<live_bytes, peak_bytes, busy, highest>>

\* A wrong variant: the new size is added, the old one not taken off.
ReallocAsAlloc(t, b, size) ==
  /\ call[t] = Idle /\ b \notin busy /\ used[b] > 0
  /\ used' = [used EXCEPT ![b] = size]
  /\ busy' = busy \cup {b}
  /\ call' = [call EXCEPT ![t] = Delta(b, size, TRUE)]
  /\ UNCHANGED <<live_bytes, peak_bytes, highest>>

\* In place: a block that moves is at its new address for the counters.
Realloc(t, b, size) ==
  /\ call[t] = Idle /\ b \notin busy /\ used[b] > 0
  /\ used' = [used EXCEPT ![b] = size]
  /\ busy' = busy \cup {b}
  /\ call' = [call EXCEPT ![t] = Delta(b, size - used[b], TRUE)]
  /\ UNCHANGED <<live_bytes, peak_bytes, highest>>

\* fetch_add, fetch_sub
CountLive(t) ==
  /\ call[t] # Idle /\ call[t].op = "live"
  /\ live_bytes' = live_bytes + call[t].n
  /\ highest' = Max({highest, live_bytes'})
  /\ call' = [call EXCEPT ![t] = IF @.peak THEN Reach(@.block, live_bytes') ELSE Idle]
  /\ UNCHANGED <<peak_bytes, used, busy>>

\* A wrong variant: the value is stored, also over a higher one.
RaisePeakByStore(t) ==
  /\ call[t] # Idle /\ call[t].op = "peak"
  /\ peak_bytes' = call[t].n
  /\ busy' = busy \ {call[t].block}
  /\ call' = [call EXCEPT ![t] = Idle]
  /\ UNCHANGED <<live_bytes, used, highest>>

\* fetch_max, and the call returns
RaisePeak(t) ==
  /\ call[t] # Idle /\ call[t].op = "peak"
  /\ peak_bytes' = Max({peak_bytes, call[t].n})
  /\ busy' = busy \ {call[t].block}
  /\ call' = [call EXCEPT ![t] = Idle]
  /\ UNCHANGED <<live_bytes, used, highest>>

TrackerNext ==
  \E t \in Threads :
    \/ \E b \in Blocks, size \in Sizes : Alloc(t, b, size) \/ Realloc(t, b, size)
    \/ \E b \in Blocks : Dealloc(t, b)
    \/ CountLive(t) \/ RaisePeak(t)

TrackerSpec == TrackerInit /\ [][TrackerNext]_trackerVars

-----------------------------------------------------------------------------
Pending(op) == {t \in Threads : call[t] # Idle /\ call[t].op = op}

\* What each thread has still to add to the live counter.
Uncounted == [t \in Threads |-> IF t \in Pending("live") THEN call[t].n ELSE 0]

(* The live counter is the bytes in use but for the calls in progress: it  *)
(* is exact whenever no thread is inside the allocator, whatever the       *)
(* interleaving was before.                                                *)
LiveIsUsed ==
  live_bytes + SumOver(Uncounted, Threads) = UsedBytes

(* The peak is the highest value the live counter had, but for the calls   *)
(* that have still to raise it (record_alloc, record_realloc).             *)
PeakIsHighest ==
  highest = Max({peak_bytes} \cup {call[t].n : t \in Pending("peak")})

(* The live counter is never negative, so the clamp of live_bytes() hides  *)
(* nothing: a block is freed only after it was counted.                    *)
LiveNeverNegative == live_bytes >= 0

=============================================================================
