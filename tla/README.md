# zkpow in TLA+

zkpow proves, with a recursive SP1 zero-knowledge program, that a chain of Bitcoin
headers is valid and how much work it has. This directory holds TLA+ models of the
code, TLC configurations that check them on small instances, and theorems about them
checked by TLAPS. `PROJECT.json` maps every definition to the lines it models.

## Inventory

| Component | State | Operations | Interacts with |
|---|---|---|---|
| Header validation, `core/src/state.rs` | `State`: tip hash, height, chain work, ring of 11 timestamps, epoch start, three forms of the difficulty; in a call: the open run of work | `apply_headers` (per header: hint check, timestamp rule, retarget, hash, proof of work, assign), `prepare_new_epoch` | called by the guest and, to predict the guest, by the host |
| Difficulty arithmetic, `core/src/lib.rs`, `types.rs` | none (256-bit words in four limbs) | compact encoding and expansion, next target, work of a block, add and multiply | header validation, database, genesis |
| Wire types, `core/src/lib.rs`, `input.rs`, `brand.rs` | none | `Claim`, `ContinuationData`, `MinimalPublicValues`, parsers | between host, guest and verifier |
| Guest, `guest/src/main.rs`, `sha256.rs` | one execution: witness state, prior claim and proof | bind the witness to the claim, verify the prior proof when height > 0, apply headers, commit success or failure | reads what the host writes; its output is the next proof's input |
| Batch preparation, `host/pipeline/batch.rs`, `util/simulate.rs` | the prepared batch | resolve the start state, read headers and hints, simulate, compare with the database, bisect a divergence | database, header validation |
| Header database, `host/util/db.rs` | rows by height (read only) | genesis state, state at a height, claim at a height, batch witness | batch preparation |
| Execution and proofs, `host/pipeline/execution.rs`, `input.rs`, `proof/` | prepared prover (once per process), artifacts | build stdin, execute, check public values, compressed and Groth16 proofs | SP1 SDK |
| Session, `host/pipeline/mod.rs` | batch count, previous proof path or trusted height | batch loop, stop on exhaustion, save proofs | all of the above, the file system |
| Restart loop, `infra/vast/entrypoint.sh` | files in the output directory | restart the host for ever, resuming from a saved proof | session |
| Relay, `contracts/src/BitcoinHeaderRelay.sol` | accepted count, latest tip, ring of recent headers | `submit`, reads by slot and by offset | consumes proofs |
| Allocation tracker, `memory-usage/src/allocation.rs` | two atomic counters | record alloc, dealloc, realloc, from any thread | host, when enabled |
| Diagnostics, `host/pipeline/diagnostics.rs` | phase timings of the running batch (a static) | report of a divergence, phase timings, cycle counts | batch preparation, session |
| CUDA probing, tools, scripts, deployment | none that validation depends on | logging, drivers | - |

What is hard in it, and what makes each part correct:

- **Header validation** defers work: it is added run by run, and a run is flushed at a
  boundary, before either rejection, at a change of work and at the end. Correct means
  that whatever the batches, the claim is the block by block sum. It replaces scans by
  a ring and by a median supplied by the untrusted prover; correct means the verdict
  depends on the chain only. The boundary block is validated with values the state does
  not hold yet.
- **Difficulty** has edges at the sign bit, at the word's width, at negative or
  extreme timespans, and at the ends of limbs. Correct means exact arithmetic, rounded
  down once.
- **Wire types** are written and read at offsets worked out by hand, by two programs with
  two implementations of SHA-256. Correct means that an honest batch arrives as it was
  meant, and that no byte which matters can differ without notice.
- **Guest recursion** receives four separately supplied pieces (state, claim, digest,
  proof) that must be bound together, so that a proof speaks of one chain from its
  anchor on, and failures cannot be extended.
- **Host**: a rebuilt state must equal the replayed one; batches must be contiguous
  across resumes, short reads and mode changes; a crash must not lose finished work; what
  is kept in statics for the whole process must not leak from one batch into the next.
- **Relay**: the ring and the offsets must show the accepted history.
- **Tracker**: counters must be exact when threads are quiet, under any interleaving.

The full list of hazards, each at its line, is in `PROJECT.json`.

## Modules

| Module | What it models |
|---|---|
| `Difficulty` | The arithmetic of `lib.rs` as operators, on words of `NBYTES` digits in base `BYTE` (32 and 256 in the program). A `u32` compact target is a record of its size and mantissa fields. |
| `Powers`, `Limbs` | `u256` as four limbs of `WIDTH` bits, and the operations the program does on them limb by limb: carries, borrows, the shift, the comparison, division by a small number. |
| `Retarget` | `current_target`, `current_nbits`, `current_work` over epoch boundaries with arbitrary timestamps, on integers. `boundary` records what the last retarget was computed from. |
| `WorkDivision` | The loop of `work_from_target`, one iteration a step, on integers one word wide. |
| `EpochLimbs` | Both on limbs: `prepare_new_epoch` with the product, the quotient, the encoding and the division loop it calls, one iteration a step; also the calls for rows of the database. Implements `Retarget` and, iteration by iteration, `WorkDivision`. |
| `ConsensusChain` | Abstract: what a proof claims. A chain of timestamps grows by valid headers; median, retarget and work are computed from the whole chain; claims are published. |
| `HeaderChain` | `State::apply_headers`, one loop iteration a step, over any number of batches, with arbitrary headers, hashes and hints; `published` is what the guest then commits to. Implements `ConsensusChain`. |
| `Guest` | Executions of `guest/src/main.rs` that build on proofs of earlier ones. `proofs` is every proof there is, `state` and `verifier_key` those of the running execution; `lineage` is a history of the states since the anchor. The header rule is a parameter (`Outcome`, `NextCont`). |
| `Sha256` | Bytes, the padding of the standard, and the blocks `guest/src/sha256.rs` builds by hand for messages of 32, 80, 116 and 169 bytes. |
| `Wire` | Every layout of `lib.rs`, `input.rs` and `state.rs`, written and parsed at the offsets of the code. |
| `Exchange` | A batch on the wire: the four buffers the host builds, what the guest parses, binds, hashes and commits, what the host reads back, and the next batch built on it. |
| `HeaderDb` | `HeaderChain` next to the headers table: `rows` grows with the chain, `state_from_db_at_height` reads it, `replayed` is a history of the states replay had. |
| `Relay` | The contract. A transaction is a step; any summary may be submitted with any proof at any time. `accepted` is a history of the tips. |
| `Session` | One process of the host: the batch loop, with the steps of a batch between which it can fail. A proof is the heights it covers; `files` is what is on disk, `proofs` what of it is whole; `prepared` and `phases` are the two statics of the process. |
| `ProverLoop` | `Session` restarted for ever, from the file that sorts last. |
| `Bisect` | The check of a batch against the table, and the bisection for the header to report. |
| `Divergence` | `Bisect` and the report it ends in: the lines of a field, with the differing bytes marked. |
| `AllocTracker` | Calls of threads into the tracking allocator, in atomic steps. |
| `DifficultyProofs`, `WorkDivisionProofs`, `EpochLimbsProofs`, `HeaderChainProofs`, `ClaimProofs` (guest and relay), `ExchangeProofs`, `SessionProofs`, `DiagnosticsProofs` | Lemmas and theorems. |
| `MCHeaderChain`, `MCEpochLimbs`, `MCGuest`, `MCExchange`, `MCRelay`, `MCSession`, `MCProverLoop`, `MCDivergence`, `MCAllocTracker` | Values of the constants for TLC. |

`HeaderChain` extends `Difficulty`; `ConsensusChain` does too, and `HeaderChain`
instantiates it with `bits <- current_nbits`, the other variables by name: `times` and
`total_work` are history variables no action reads. `Retarget` and `HeaderChain` use
`work_from_target` as one exact division; `EpochLimbs` shows that the loop computes it.
`EpochLimbs` instantiates `Retarget` with the integers its limbs stand for (`Value`), and
`WorkDivision` likewise for the registers of the loop. `Exchange` extends `Wire`, which
extends `Sha256`; `Divergence` extends `Bisect`, `ProverLoop` extends `Session`.

How an epoch boundary becomes actions: `prepare_new_epoch` does everything up to the call
of `work_from_target` and stores the arguments of the call, `Subtract` and `Skip` are the
two ways through one iteration of its loop, `Adopt` is the return, with the assignments of
`apply_headers` that follow it. `RowWork` and `ReturnRowWork` are the calls for a row of the
database. Two operands meet limb by limb as in the code; only the encoding is applied to the integer,
since the code reads single digits of it.

How a loop iteration of `apply_headers` becomes an action: the median hint assertion is
`RejectHint` (the guest aborts and publishes nothing), the early return on the timestamp
is `RejectTimestamp`, the one on the hash is `RejectPow`, and everything to the end of
the body is `Accept`. The order of the checks in the code is in the guards: proof of work
is judged only after the timestamp. `active` is the trio of local variables `active_*`.
`StartBatch` is the call, `FinishBatch` the code after the loop with the return to the
guest. In the code the boundary flush comes before the header is hashed; nothing reads
the state in between, so `Accept` and `RejectPow` each contain it.

How an execution of `main` becomes actions: parsing, the witness assertion and
`verify_prior_proof` are `StartFromProof`, or `StartAtAnchor` when the claimed height is 0;
each valid header is `ApplyHeader`; the execution ends in `CommitFailure`, `CommitSuccess`
or `Panic`. The digest of continuation data is the data itself (SHA-256 injective), the
public values digest likewise. A proof verifies under a key exactly if the program of that
key committed the values (`sp1_verifies`); any other program may commit any values
(`ForeignProof`). The verifier key is input to the guest, so only proofs that are committed
by the guest and carry its own key (`Own`) promise anything; that is what a verifier checks.
The header stored in `State` is in neither the claim nor the digest; nothing reads it.

How the table grows: the headers table is filled from a Bitcoin node and is not written by
this program, so `RecordBlock` is external. A row says of a block its timestamp, its
compact target and the chain work a full node gives it, that is the block by block sum. The
program reads rows with one query per height or range; a read is atomic in the model.

How a call of `submit` becomes an action: all of it, as transactions are serial. The
verifier is the set `PROVEN`; decoding keeps the fields the contract compares. A failed
check, of the length of the public values too, is `Reverted`.

How a session becomes actions: `StartBatch` is the head of the loop of `run_batch_session`,
`PrepareProver` the work of `get_prepared_prover` when the process has no such prover yet,
`RunBatch` the start of the batch's own clock,
`PrepareBatch` all of `prepare_batch`, `ExecuteBatch` and `ProveBatch` the calls of the SDK
with the checks on what they return, `SaveCompressed`, `WrapGroth16` and `SaveGroth16` the
rest of `run_with_prover`, `FinishBatch` the rest of the loop body. A save is two steps: the
file is created (by the step before), then it is whole. `Refuse` is where the host or the
guest must stop; `Fail` is any other error, panic or signal, at any step. Each action adds
the labels its code is timed under to the bag `phases`. The headers table
does not change while a process runs. A directory name is the time at which a session
began, so sessions are ordered and one that wrote nothing leaves no trace; `ZKPOW_OUTPUT_DIR`
is not set, as in `entrypoint.sh`.

How the restart loop becomes actions: `HostWork` and `HostFails` are steps of the host,
`Restart` is one turn of the loop after it ended. File names are compared as `sort` does,
by the digits of the heights, with an underscore above every digit.

How the bisection becomes actions: one turn of its loop is `Narrow`; `agrees` says at which
headers the replayed claim is the one in the table. A replay cannot fail there, as the same
headers have just been applied to the same state. `Write` is the report of one field.

How bytes are modelled: a byte has a known value, or it is the n-th byte of a value of which
only the name is known; a layout is a sequence of them. Writers copy fields to their offsets in a
zeroed buffer and readers cut at theirs, so a wrong or overlapping offset shows. Compressing
blocks is injective. `digest` pads as the standard says, as the `sha2` crate and SP1 do on
the host; the guest's four functions build the blocks word by word.

How a batch on the wire becomes actions: `Prepare` is the resume check and `build_stdin`,
`Refuse` the failure of the check, `CommitSuccess`, `CommitFailure` and `Panic` the guest,
`NextBatch` and `Reject` the host's check of what came back. `AlterInput` and `AlterSaved`
are the environment: once, one byte becomes another or a buffer loses or gains some, in the
input of the guest or in the saved proof. `SendUnchecked` is another caller of `build_stdin`, which is public.
What makes a header valid is left open: headers that lead from row to row are, any other may be or not.

How a call of the allocator becomes actions: the inner call (`Alloc`, `Dealloc`, `Realloc`),
then `fetch_add` or `fetch_sub` (`CountLive`), then `fetch_max` (`RaisePeak`). A block
cannot be used before its call returns; a freed one can be handed out at once.

Definitions commented *a wrong variant* are plausible bugs. No specification uses them:
each is substituted for the definition it follows to see that a property notices.

## Runs

| Run | Checks |
|---|---|
| `chain` | `HeaderDb`, which is `HeaderChain` with the headers table, on epochs of 4 blocks, windows of 3, chains of up to 9 blocks, batches of 0 to 3 |
| `retarget` | `EpochLimbs` with limbs of three bits, from seven timestamps, and the work of every target |
| `guest` | `Guest` with up to 3 proofs, chains of 2 headers above one anchor, two programs |
| `wire` | `Exchange` with two batches of two headers, one alteration anywhere |
| `session` | `Session` in all six modes, batches of 2, up to three of them, tables of up to 5 headers |
| `restart` | `ProverLoop` with batches of 1 in sessions of up to 3, tables of up to 5 headers, two failures |
| `bisect` | `Divergence` on batches of 1 to 7 headers, and fields of three bytes and of two halves |
| `tracker` | `AllocTracker` with three threads, two blocks, two sizes |
| `relay` | `Relay` with a ring of 3 and two branches that part above block 3, each block with two proofs |
| `execute_only`, `resume_order`, `resume_torn` | see *Findings* |

**chain**, 16664 states. `WorkConserved`: flushed work plus the open run is the block by
block sum at every step. `RingHoldsWindow`: each slot has the block it should and the
unused ones are zero (the continuation digest covers them). `HintIsMedian`: the rank test
accepts the true median and nothing else. `EpochStartIsBoundary`: the cached start of the epoch
is the chain's. `DifficultyCoherent`: target, bits and work are three forms of one difficulty, and
it is that of the epoch, recomputed from the genesis block on with the times of the chain alone
(`EpochBits`); so is the one the next header is judged with, at a boundary too. `RefinesConsensus`: every behaviour is one of
`ConsensusChain`, so a header is applied only if the whole chain says it is valid,
rejected for the reason and at the height the whole chain says, and the work published
is of exactly the blocks applied. The rows of the table follow from the chain, so they add no behaviours.

`RebuiltIsReplayed`: wherever the host resumes, at the tip or below it, the state it reads
is the replayed one in every field, zeros in unused slots included. Resuming needs exactly
this: the guest accepts the witness only if the continuation digest matches. A chain of
nine blocks has heights before, on and after the first lap and both epoch boundaries.

Bounds. An epoch longer than the window and a chain of two epochs and one block is the
smallest shape in which the ring laps before a boundary, laps again after it, and a
retarget starts from a target that is not the limit. `MAX_BATCH` 3 puts batch ends before,
at and after boundaries, with empty batches. The timestamps give epochs whose timespan is
negative, below a quarter, exact, and above four times the expected one; they repeat
within a window. The hashes are the targets the second and third epoch can get and their
successors. Words of five base-4 digits keep the mantissa, sign bit and shift cases.
`MAX_HEIGHT` and `MAX_BATCH` only bound the batch chosen in `StartBatch`. The state
after a failed or panicked call is final, so deadlock is not checked.

**retarget**, 287730 states. `RetargetIsExact` compares with the exact product, the exact
quotient and the greatest expressible value below it, the last found by enumerating
every compact value. `NbitsAndTargetAgree`: rebuilding the target from the bits and the
bits from the target both give what the state holds. `WorkNeverBelowMinimum`: the limit
holds, so the `expect` in `apply_headers` is dead code, and no block counts less than one
at the limit. `WorkIsQuotient`: when the loop ends its quotient is the exact one, cut to the
word. `RefinesRetarget`: every behaviour on limbs is one of `Retarget`, so no carry is lost
in the product, and no boundary sees part of another. `LoopDivides`: each iteration is one of `WorkDivision`, that is,
the shift, the comparison, the subtraction and the bit position are right at every step and
not only in the end.

A word of four 3-bit limbs is also six base-4 digits, so encoding and arithmetic both keep
their shape. All targets but the word of all ones (which `increment_target` refuses) are
divided, so each pattern of limbs that are all zeros or all ones meets each operation; that
is what carries and borrows across two limbs need. The limit is two full digits under a
clear sign bit with spare bits above it, like 0x1d00ffff in 256 bits; the product with the
longest timespan stays within the word there as it does in the program. The timestamps
give every difference up to 17, beyond four epochs of expected length, and negative ones.

**guest**, 99632 states. `ClaimsHaveLineage`: a claim of the guest's own, and its digest,
are those of a state reached from an anchor by valid headers, over all executions in
between. `FailureBlamesInvalidHeader`: a failure is true of a header after the claimed tip.
`TipDeterminesClaim`: anchor and tip settle height, work and digest, however the chain was
cut. `ResumeIsExact`: the prior-proof check accepts the last state of a successful proof and
no other witness, and no failure. Three proofs are what it takes to start from another
program's values, go on under its key, and then try to continue under the guest's; the
other program commits three untrue sets of values under either key. Continuation data
with two values, of which the first header chooses one, is the least for which a digest
matters. A claim is relative to its anchor: the docs (`docs/diagrams/01_genesis_trusted_anchor.d2`)
make the state of height 0 trusted as supplied, and so does the model.

**wire**, 40298 states. `HonestBatchPasses`: what arrives as it was written passes every
check, in guest and host, and commits what the host predicted, byte for byte. `OnlyHeadersDecide`: above the
anchor, a change of any other byte than those of the headers and hints is refused, or it is in one of the two unread
pieces (the header kept in the state, the padding of the proof) and changes nothing.
`EveryHeaderByteCounts`: with any byte of a header changed, the predicted values are not
committed. `ResumesOnlyFromProof`: proving goes on only from values that were committed,
with all their bytes, as a success.

Every single byte of all four buffers and of the saved proof is altered, to 0, 2 and 255: a
success becomes a failure and the other way round, and a number becomes another. Buffers
lose and gain a byte, a word and a whole header. Two batches are the least in which one
is built on another; a batch of two has a header with a parent in the batch. A
batch that ended or panicked is final, so deadlock is not checked. Sizes are those of the program, not scaled.

**relay**, 145 states. `RelayTypeOK`: what the relay keeps was proven. `RingHoldsRecent`: offset `k` and page `k` show the tips accepted last, newest
first, and unused slots read as zeros. `HistoryIsChain`: the accepted tips are one chain of
growing height and work, so a late, repeated or competing submission is refused. The longer branch laps
the ring more than twice, the ring is read before, at and after its first lap, and beside
the branches there are proven summaries that break each check alone and an unproven one. The
contract accepts direct children of the tip only: a summary that skips blocks is refused, and
after the first tip no other branch can replace it.

**session**, 3312 states. `BatchesContiguous`: no gap, no overlap, and a batch is short only at the
end of the table. `CursorIsLastBatch`: what carries the cursor, in each mode, and that the two
carriers are never set together. `CountIsFinished`: the number returned is right, also after exhaustion. `BreakdownIsOfBatch`:
the phases told of a finished batch are those its mode runs, each once, none left from an earlier batch and
none of the making of the prover, though both are recorded in one static. `SessionEnds`: under weak fairness of the
host's own steps (`Work`), not of failures; a call of the SDK is assumed to return. Five headers in batches of two end with a
short batch, and with a batch that has none; three batches are stopped by the count as well.
It starts from nothing, from a proof at an even or an odd height, from a Groth16 file, from a
file that holds nothing usable. A session that ended takes no step, so deadlock is not checked.

**restart**, 12732 states. A session may end anywhere, with a file half written too.
`ResumeNeverFallsBack`: a session never resumes below the point where an earlier one did, though
the order of names is not the order of heights: all that a session writes is above where it
resumed, and a later directory sorts after an earlier one. `ProofsHavePast`: every whole proof rests on one that is on disk, down to the genesis block, whatever failed.
`TipIsProven`: the table is proven to its end, unless a compressed proof was left
half written (see *Findings*). Fairness of `Restart` and `HostWork`: the loop sleeps 60 seconds
and runs the host again, for ever; at most two sessions fail (`MAX_FAULTS`).
Heights are written in base three, so that they gain a digit at height 3: within the table, as they do
at 10000 in the program. `SESSIONS` has more timestamps than any behaviour uses, or a deadlock would be reported.

**bisect**, 76135 states. `DifferenceInside`: the interval always ends at a header that
differs and starts after one that agrees, and the cache has the state of the header looked up.
That is the first one if claims that began to differ
stay different, as when a wrong amount of work is carried on; if rows differ one by one the header
reported as "first bad" (`pipeline/batch.rs:181`) may have a bad one before it.
`ReportShowsDifference`: read back, a report is the actual value, under it the expected one where
they differ, with the marks around the differing bytes and no others, all closed on their line. `SearchEnds`: weak
fairness of the one thread (`Search`), which waits for nothing. All sets of differing rows are tried, and all pairs of
values of three bytes, or of halves of two bytes, over a zero and another byte: runs of differences and of leading zeros meet in every
way at either end. A search that ended takes no step, so deadlock is not checked.

**tracker**, 9974 states (with symmetry). `LiveIsUsed`: the live counter is off by what calls in progress have still to
add or take off, so it is exact when all are done. `PeakIsHighest`: no interleaving of the
additions and the maxima loses a peak. `LiveNeverNegative`: the clamp in `live_bytes()` hides nothing.
Three threads are one to raise the live count, one to raise the peak late, one to free in between.
`peak_bytes` is the highest value of the counter, not of the memory: a block
that is freed and counted down while another is handed out but not counted is missed.

The other runs assume no fairness. The loop of `apply_headers` counts `remaining` down
and the division counts `bit` down, so both end.

## Findings

Three runs end in a counterexample, each to something the repository says of itself.

- `execute_only`, `NextBatchIsAccepted`: an execute-only session on the CUDA backend fails
  at its second batch. It drops the previous proof (`pipeline/mod.rs:179`), and `build_proof` then gives a
  default digest (`pipeline/input.rs:219`), which the guest refuses above height 0. On the mock backend
  `execute_batch_without_proof` makes up a fitting digest.
- `resume_order`, `LosesOnlyThatBatch`: after a session that passes height 10000, `sort | tail -1`
  (`entrypoint.sh:77`) picks a proof below the highest, and finished batches are proven again.
- `resume_torn`, `ResumesFromWritten`: a file left half written by a crash sorts last; every
  later session fails to load it, until somebody removes it.

## Theorems

They hold for every value of the constants that meets the named assumptions
(`WordAssumption`, `BytePowAssumption`, `BytePowGrows`, `ConsensusAssumption`,
`LimitExpressible`, `ChainAssumption`, `Pow2Assumption`, `PowersMultiply`,
`WidthAssumption`, `SameWord`, `TimestampAssumption`, `GuestAssumption`, `RelayAssumption`,
`SessionAssumption`, `LoopAssumption`, `ProductFits`, `TrackerAssumption`, `BisectAssumption`,
`ReportAssumption`, `ExchangeAssumption`; TLC evaluates each in a run).
Powers (`BytePow`, `Pow2`, `RadixPow`) are constants given by a
table, because the provers have no exponentiation. `ProductFits` is what keeps the product in
`next_target` from wrapping: the limit times the longest timespan is below 2^256, as it is in
the program (2^224 times 2^23). Where a theorem needs more than the assumptions it says so: `TipSettlesClaim`,
`LoopKeepsPast` and `ResumesNeverFallBack` have a hypothesis.

- `TypeCorrect`: `TypeOK` is inductive. The lemmas it rests on give the range of every
  operator of `Difficulty` (`ToBitsType`, `FromBitsType`, `WorkType`, `NextTargetType`).
- `WorkIsConserved`: `[]WorkConserved`. Not inductive alone: a call starts by forgetting
  the open run, so there must be none (`NoRunBetweenCalls`). A block joining a run is
  `RunExtends`: `chain + w*n + w = chain + w*(n+1)` modulo the word, so it holds when
  words wrap as well.
- `CachesAgreeWithChain`, `EpochStartAgreesWithChain`: ring and epoch start agree with the chain,
  and the three forms of the difficulty with one another (`CacheInv`). Needs
  that there is a timestamp for each height (`TimesComplete`). The ring argument is that
  among `WINDOW_SIZE` consecutive heights no two share a slot (`ModDistinct`); the epoch
  start argument is that the height within the epoch grows by one (`ModSuccessor`); the
  bound of the target is `NextTargetBelowLimit`.
- `RoundTripRoundsDown`, `NextTargetBelowLimit`: encoding and expanding never raises a
  target, so a retarget never exceeds the limit.
- `TargetIsExact`, `NbitsDetermineTarget`: the round trip does nothing but cut digits off.
  The digits kept are the leading two or three (`RoundTripCuts`, `CutExponent`), the result
  expands and encodes to itself (`EncodingIsCanonical`), and no expressible number lies between it and
  the target (`RoundTripIsGreatest`). The state then holds such a target after every
  boundary (`ExactInv`), computed from a product that fits the word.
- `RegistersFit`, `LoopComputesWork`, `LoopConverges`: the invariant of long division
  (`Division`): dividend = quotient * divisor + remainder * weight of the last bit. For
  target 0 the quotient has a bit the register cannot hold; `Dropped` stands for it. The
  run on limbs checks what comes out and each step; that no register overflows and that
  the quotient converges are theorems only.
- `HintsAreMedians`: `[]HintIsMedian`. The ring is the window of the whole chain in
  another order (`RingIsWindow`), counting ranks does not depend on the order
  (`CountSurvivesPermutation`), every window can be sorted (`OrderExists`), and in a sorted
  one the two counts single out the element at the rank, whatever repeats
  (`RankSettlesElement`).
- `HeaderChainImplementsConsensus`: `RefinesConsensus`. Every step of the loop is a step of
  `ConsensusChain` or leaves its variables alone. It needs all the invariants above it
  together: types, caches, hints, conserved work, and that a run of work is open only inside
  a call (`OpenWhileRunning`). `ActiveIsRequired` says that the difficulty a header is judged
  with, which at a boundary the state does not hold yet, is the one the chain requires.
- `DifficultyStaysCoherent`: `[]DifficultyCoherent`, of the target, not only of its three forms. That the
  bits of the tip are those of its epoch (`TipOfEpoch`) is inductive with the caches: a boundary takes `EpochBits` one epoch on
  (`EpochBitsNext`), for which `ActiveIsRequired` supplies the two times, and a block that joins
  leaves the epochs up to its own as they are (`EpochsKept`).
- `WorkOnLimbs`, `LimbsImplementLoop`, `LimbsImplementRetarget`, `LimbsStayBelowLimit`: the
  arithmetic on limbs, for every width of a limb. Each operation relates the column of one limb
  to the value of the columns above it, and the relation is carried from the top limb down
  (`HornerBound`, `HornerLess`); the registers of the loop satisfy the invariant of
  `WorkDivision`, cited from its proofs. That a boundary is one step of `Retarget` is shown
  at `Adopt`, from what the call was started with.
- `RebuiltStateMatches`: `[]RebuiltIsReplayed`. At the tip it follows from the three theorems on
  `HeaderChain`, which hold here because every behaviour of `HeaderDb` is one of
  `HeaderChain` (`TipRebuilt`): the rows of the window are the ring (`RingRebuilt`, where
  `LiveSlotHasBlock` says that each slot below the number of live ones belongs to a height of
  the window), the row of the first height of the epoch is the cached start
  (`EpochStartRebuilt`), the stored work is the conserved sum. Below the tip what is
  read is at or below that height (`RebuiltFromBelow`), and such rows never change
  (`OldStateKept`).
- `OffsetsReachLastTips`, `AcceptedTipsAreChain`: for every capacity and every set of
  submissions. `RelayTypeOK`, `RingHoldsRecent` and `HistoryIsChain` are inductive together (`RelayIInv`); the
  argument that a new tip overwrites only the oldest is `ModDistinct`, and that it is above
  every earlier tip, not just the last one, follows from the order of the ones before it.
- `ClaimsAreReached`, `FailuresAreTrue`, `ResumeIsUnique`: from `Reachability`, whose
  invariant `IInv` adds to the claims of proofs the state of the running execution: if it was
  given the key of the guest, it is in the last state of its lineage. The step that needs
  the digest is `StartFromProof`: claim and continuation data leave no choice of state
  (`ClaimAndDigestSettleState`), and a failure is never the reconstructed success
  (`AcceptedProof`). The header rule is arbitrary, so this holds of the real one.
- `TipSettlesClaim`: `[]TipDeterminesClaim`, if SHA-256 does what it is
  relied on for (`NoCollision`): blocks of one hash have one parent and one header, and no block
  built on another has the hash of an anchor. Lineages from one anchor that meet in a block
  are then the same up to it (`LineagesAgree`).
- `BatchesFollow`, `CursorFollows`, `CountIsTrue`: from one invariant (`SInv`), which follows
  the cursor: between batches it stands at the end of the last one (`CursorInv`), during a
  batch the batch starts there and rests on a whole proof (`BatchInv`), and no file of this
  session is past it (`FilesInv`). None of the three is inductive alone, as the cursor is in
  one of two variables and, for a while, only in the batch.
- `LoopKeepsPast`: `[]ProofsHavePast` over all restarts, if the proof the first session was
  given (if any) goes back to the first block. A file being created is never one that is
  there already (`FilesInv`, and a session is later than all it finds), so no failure can
  destroy what other proofs rest on.
- `ResumesNeverFallBack`: `[]ResumeNeverFallsBack` over all restarts, radixes and numbers of
  failures. `ResumeInv` follows the file that sorts last: while a session has written nothing it is the
  file the session started from, and else one the session wrote, above where it resumed; and
  a session is later than all whose files it finds. That one file sorts last takes the
  names apart: the order is total and strict on names (`SortTotal`), and different
  heights have different digits (`DigitsDiffer`). The first session is given no Groth16 file (the
  hypothesis): the loop finds only names without `groth16`, and a session refuses that form.
- `LiveCounterIsExact`, `PeakIsNeverLost`, `LiveNeverWraps`: any number of threads and
  blocks. The counters are sums over tables, and all that is needed of sums is that one entry changed
  changes the sum by as much (`SumOfChanged`). `LiveIsUsed` is then inductive. For the peak,
  `PeakInv` names who holds the highest value: the counter or a call that has still to raise it.
  For the sign, `Counted` splits the live counter into what was counted of each block and of each
  block freed and not yet discounted; none is negative, because a block is not
  freed or resized by a second call before the first has counted it (`BusyInv`).
- `DifferenceStaysInside`: batches of any length, any set of differing rows. The cache
  is the replay from the first header on without a gap (`CacheInv`), however far it reached before
  (`ReplayExtends`), and the interval shrinks from both ends around a difference (`SearchInv`).
- `ReportsShowDifferences`: fields of any width, over any bytes, in either mode. What a line reads as
  is followed token by token (`ReadsAs`): after each byte the flags of the loop say which mark
  both lines are under (`MarkedTo`, `MarkedStep`), so that a run is opened and closed in turn and what is
  left open is closed at the end. No mark is a byte (`ReportAssumption`). The loop and the
  reading are recursive functions; that each has exactly one value is shown once, for any step (`RecursionExists`,
  `RecursionUnique`).
- `TypeCorrect` of `ClaimProofs` and `OnlyProvenIsKept`: the type invariants of guest and
  relay. The guest's needs that heights count the lineage (`HeightInv`), which is true of its own
  key only, and that no step makes more proofs than one (`CountInv`).
- `BreakdownIsExact`: `[]BreakdownIsOfBatch`. `PhasesInv` says at each step what has been told; the
  groups of phases have no label in common (`PhasesApart`), so bags of them stay sets.

- `PaddingIsStandard`, `LayoutsAreRead`: of all messages and all values of the fields. What is
  compressed is compared byte by byte, with the place of each byte in its word and block. A layout
  is read back because its pieces lie next to one another (`IsPart`, `IsJoined`) and each is cut
  where it was put.
- `TipSettles`: a digest settles what was digested (`DigestInjective`) and a header can be
  read back from its bytes (`HeaderRead`), so the hash of a header settles it and the
  hash of its parent (`HashSettles`), and so on down to the first.
- `HonestBatchesPass`, `WitnessDecidesNothing`, `HeaderBytesCount`, `ContinuesWhatWasProven`: the four
  properties of `wire`, for every size and number of batches and every value that a byte, or length
  that a buffer, can change to. `BuffersAreBuiltOrAltered` (`IInv`) is inductive: each buffer is the one built
  but for one change (`SentInv`), the values to resume from are proven and of this height, or failed before, or are changed
  (`SavedInv`), and what is committed is what a walk over the buffers ends in, once all checks passed (`CommittedInv`). None of the four is inductive, as each speaks of the end of a
  batch and what decides it is the buffers. Three arguments then
  do the work. The guest digests the claim it has assembled, so a changed byte of it would have to be
  in the digest as well; but bytes of a digest have no known value and the altered byte has one
  (`DigestUntouched`), so the values the guest resumes from are the ones proven (`PriorValuesAre`). The digest of the continuation
  settles all of a state but the header kept in it (`ContinuationInjective`), so the guest is in the
  state of the table (`ResumesTable`) and walks along its rows (`WalkAlong`). A header changed in
  any byte leads to another tip (`TipSettles`). The theorems rest on
  what the model says of SHA-256: compressing is injective, and a changed byte does not happen to be the right one
  of a digest. They rest on SP1 being sound too: a proof verifies for the values proven only. Tables have at least two batches: with one, nothing is resumed.

All invariants and step properties of the runs that pass are thus proved, and so are the three refinements
(`RefinesConsensus`, `RefinesRetarget`, `LoopDivides`).
Only model-checked: `SessionEnds`, `TipIsProven` and `SearchEnds`, as liveness and ENABLED are out of the
provers' reach. The library's induction theorems take a
predicate as a parameter, which the provers cannot instantiate; what these proofs need of
induction is stated with a set in the place of the predicate (`SetInduction`,
`NaturalInduction`, `SubsetInduction`, `LeastNumber`) and follows from the well-foundedness of
the subset ordering.

## Not modelled, and abstractions

- SHA-256 and SP1: in `HeaderChain` a header's hash is an arbitrary word and its other
  fields do not matter; in `Exchange` the compression function is an injective stand-in for
  the rounds of `sha256.rs`, which run in SP1's precompile.
- The wording of errors, serde, and the alignment check of the zero-copy casts
  (`lib.rs:231`): their outcome is that a slice of the wrong length is refused, which is modelled. `Branded` wraps one integer.
  `height` is an integer in all modules but `Exchange` (a chain would have to be 2^32 blocks long).
- The SP1 SDK: proving and wrapping take a step, and succeed or fail. That a call returns is assumed.
- Of diagnostics: the tree of cycle counts, tables of memory samples (`stages.rs`), logging
  and the probing of CUDA devices (`cuda_env.rs`). They format what they read, and nothing
  reads their state. Tools and deployment drive the components above.
- `Session` and `Guest` meet only in what they say of proofs: that a batch validates is in
  `Guest` and `HeaderChain`, that its bytes arrive in `Exchange`.
- The link from guest to relay: the relay decodes 228 bytes (`BitcoinHeaderRelay.sol:160`), the
  guest commits another layout, and `contracts/README.md` calls the relay a scaffold. So
  `PROVEN` is any set, and nothing ties it to the claims of `Guest`.
- That each batch of a proving session ends with a wrapped proof: if wrapping fails the next
  session resumes after the compressed one. Nothing in the repository promises it.

## Plan

In the order of what matters most.

1. `Difficulty`, `Retarget`, `WorkDivision`, `ConsensusChain`, `HeaderChain`: modelled,
   checked, and proved to the refinement.
2. `Guest`, `HeaderDb`, `Relay` and their theorems: done.
3. `Limbs`, `EpochLimbs` and their refinement theorems: done.
4. `Session`, `ProverLoop`: done; the restart loop's safety is proved, that it reaches the tip is checked.
5. `Bisect`, `Divergence`, `AllocTracker`: done. `Sha256`, `Wire`, `Exchange`: modelled, checked and proved.
6. All safety properties and refinements the runs check: proved.
