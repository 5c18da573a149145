------------------------------ MODULE ProverLoop ------------------------------
(***************************************************************************)
(* The restart loop around the host (infra/vast/entrypoint.sh): whenever a *)
(* session ends, well or badly, the next one resumes from the proof whose  *)
(* file sorts last.  A session may fail or be killed at any step, so a     *)
(* file may be left half written.                                          *)
(***************************************************************************)
EXTENDS Session, FiniteSets

CONSTANTS
  RADIX,        \* base of the heights in file names (10)
  RadixPow,     \* RadixPow[k] = RADIX^k, a table up to MAX_HEIGHT
  MAX_FAULTS    \* bound: sessions that fail or are killed

ASSUME LoopAssumption ==
  /\ RADIX \in Nat \ {0, 1}
  /\ RadixPow[0] = 1
  /\ \A k \in 1..MAX_HEIGHT : RadixPow[k] = RADIX * RadixPow[k - 1]
  /\ MAX_FAULTS \in Nat

VARIABLES
  faults,       \* sessions that failed so far
  resumed       \* history: the heights sessions resumed from, 0 for genesis

loop_vars == <<vars, faults, resumed>>

-----------------------------------------------------------------------------
(* The digits of the heights in a name; the underscore after them sorts    *)
(* above digits, and a Groth16 file has one where the other name ends.     *)
Width(n) ==
  CHOOSE k \in 1..MAX_HEIGHT : n < RadixPow[k] /\ (k = 1 \/ n >= RadixPow[k - 1])
Digits(n) == [i \in 1..Width(n) |-> (n \div RadixPow[Width(n) - i]) % RADIX]
Name(path) == Digits(path.first) \o <<RADIX>> \o Digits(path.end)
                \o (IF path.groth16 THEN <<RADIX>> ELSE <<>>)

SortsBefore(a, b) ==
  \/ \E i \in 1..Len(a) :
       /\ i <= Len(b) /\ a[i] < b[i]
       /\ \A j \in 1..i - 1 : a[j] = b[j]
  \/ Len(a) < Len(b) /\ \A j \in 1..Len(a) : a[j] = b[j]

\* sort: by directory, that is by session, then by name.
PathBefore(p, q) ==
  \/ p.session < q.session
  \/ p.session = q.session /\ SortsBefore(Name(p), Name(q))

CompressedFiles == {p \in files : ~p.groth16}

\* A wrong variant: a session that failed is not followed up.
LATEST_AFTER_SUCCESS ==
  IF CompressedFiles = {} \/ pc = "failed"
  THEN NoProof
  ELSE CHOOSE p \in CompressedFiles : \A q \in CompressedFiles \ {p} : PathBefore(q, p)

\* A wrong variant: Groth16 files are not left out.
LATEST_OF_ALL ==
  IF files = {} THEN NoProof
  ELSE CHOOSE p \in files : \A q \in files \ {p} : PathBefore(q, p)

LATEST ==
  IF CompressedFiles = {}
  THEN NoProof
  ELSE CHOOSE p \in CompressedFiles : \A q \in CompressedFiles \ {p} : PathBefore(q, p)

\* A session that wrote nothing leaves no trace: its timestamp is used again.
NextSession ==
  IF \E p \in files : p.session = session THEN session + 1 ELSE session

Height(path) == IF path = NoProof THEN 0 ELSE path.end

-----------------------------------------------------------------------------
LoopInit ==
  /\ Init
  /\ faults = 0
  /\ resumed = <<Height(current_prev_proof)>>

Restart ==
  /\ pc \in {"done", "failed"}
  /\ NextSession \in SESSIONS
  /\ session' = NextSession
  /\ current_prev_proof' = LATEST
  /\ trusted_start_height' = NoHeight
  /\ batch_count' = 0
  /\ prepared' = NoProver /\ phases' = EmptyBag
  /\ batch' = NoBatch
  /\ batches' = <<>>
  /\ pc' = "loop"
  /\ resumed' = IF NextSession = session THEN resumed
                ELSE Append(resumed, Height(LATEST))
  /\ UNCHANGED <<mode, db_tip, disk, faults>>

HostWork == Work /\ UNCHANGED <<faults, resumed>>

HostFails ==
  /\ Fail
  /\ faults < MAX_FAULTS
  /\ faults' = faults + 1
  /\ UNCHANGED resumed

LoopNext == Restart \/ HostWork \/ HostFails

(* The loop restarts the host for ever, and the host runs.                 *)
LoopSpec ==
  LoopInit /\ [][LoopNext]_loop_vars /\ WF_loop_vars(Restart) /\ WF_loop_vars(HostWork)

-----------------------------------------------------------------------------
(* Later sessions never resume below the point an earlier one resumed      *)
(* from, although the order of the names is not the order of the heights.  *)
ResumeNeverFallsBack ==
  \A i \in 1..Len(resumed) - 1 : resumed[i] <= resumed[i + 1]

(* Whatever fails, the whole table is proven in the end, unless a failure  *)
(* cuts the save of a compressed proof short (entrypoint.sh, the loop).    *)
TipIsProven ==
  <>(\/ db_tip = 0
     \/ \E p \in proofs : ~p.groth16 /\ p.end = db_tip
     \/ \E p \in files \ proofs : ~p.groth16 /\ pc = "failed")

(* A crash loses only the batch in progress: a session resumes from the    *)
(* highest proof there is (entrypoint.sh, "a crash mid-batch loses only    *)
(* that batch, not all prior work").                                       *)
LosesOnlyThatBatch ==
  pc = "loop" /\ batch_count = 0 =>
    \A p \in proofs : ~p.groth16 => p.end <= Height(current_prev_proof)

(* A session resumes from a proof that was successfully written.           *)
ResumesFromWritten ==
  pc = "loop" /\ batch_count = 0 /\ current_prev_proof # NoProof =>
    current_prev_proof \in proofs

=============================================================================
