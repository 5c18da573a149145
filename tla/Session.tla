------------------------------- MODULE Session -------------------------------
(***************************************************************************)
(* One process of the host (run_batch_session, crates/host/src/pipeline):  *)
(* batches are prepared, executed, proved and saved until the configured   *)
(* count or the end of the headers table.  The steps of a batch are those  *)
(* between which the process can fail or die; a file being saved exists    *)
(* before it is complete.  What a proof says is in Guest, what a batch     *)
(* validates in HeaderChain: here a proof is the heights it covers.        *)
(***************************************************************************)
EXTENDS Integers, Sequences, Bags

CONSTANTS
  NUM_HEADERS,  \* headers of a batch (ZKPOW_BATCH_SIZE)
  BATCH_COUNT,  \* batches of a session (ZKPOW_BATCH_COUNT)
  MODES,        \* the pipeline modes and backends considered
  MAX_HEIGHT,   \* bound: last height the headers table may have
  SESSIONS,     \* timestamps of sessions: their output directories, in order
  GIVEN,        \* what ZKPOW_PREV_PROOF may name at first
  NoProof, NoHeight, NoProver

Paths == [session : SESSIONS, first : 1..MAX_HEIGHT, end : 1..MAX_HEIGHT,
          groth16 : BOOLEAN]

\* config_from_source: no Groth16 without proving, no CPU backend without it.
Modes == {m \in [execute_only : BOOLEAN, generate_groth16 : BOOLEAN,
                 prover_backend : {"mock", "cpu", "cuda"}] :
            /\ m.execute_only => ~m.generate_groth16
            /\ m.prover_backend = "mock" => m.execute_only
            /\ m.prover_backend = "cpu" => ~m.execute_only}

ASSUME SessionAssumption ==
  /\ NUM_HEADERS \in Nat /\ BATCH_COUNT \in Nat /\ MAX_HEIGHT \in Nat
  /\ MODES \subseteq Modes
  /\ SESSIONS \subseteq Nat
  /\ GIVEN \subseteq Paths \cup {NoProof}
  /\ NoProof \notin Paths /\ NoHeight \notin Nat

VARIABLES
  mode, db_tip,           \* the configuration and the headers table
  session,                \* timestamp of the process
  files,                  \* the proof files on disk
  proofs,                 \* those that hold a whole proof, of success, of this chain
  pc,
  current_prev_proof, trusted_start_height, batch_count,
  prepared,               \* the prover the process keeps, by its backend
  phases,                 \* the timed phases, with how often each was run
  batch,                  \* the prepared batch
  batches                 \* history: the batches this process finished

environment == <<mode, db_tip, session>>
cursor      == <<current_prev_proof, trusted_start_height>>
disk        == <<files, proofs>>
statics     == <<prepared, phases>>
vars        == <<environment, cursor, disk, statics, pc, batch_count, batch, batches>>

NoBatch == [previous_proof |-> NoProof, height |-> 0, first_new_height |-> 0, end_height |-> 0]

Path(groth16) == [session |-> session, first |-> batch.first_new_height,
                  end |-> batch.end_height, groth16 |-> groth16]

Init ==
  /\ mode \in MODES
  /\ db_tip \in 0..MAX_HEIGHT
  /\ current_prev_proof \in GIVEN
  /\ files = {current_prev_proof} \ {NoProof}
  /\ proofs \in SUBSET files
  /\ session \in SESSIONS
  /\ \A s \in SESSIONS : s < session <=> \E p \in files : p.session = s
  /\ trusted_start_height = NoHeight
  /\ pc = "loop"
  /\ batch_count = 0
  /\ prepared = NoProver /\ phases = EmptyBag
  /\ batch = NoBatch
  /\ batches = <<>>

-----------------------------------------------------------------------------
StopAtCount ==
  /\ pc = "loop" /\ batch_count >= BATCH_COUNT
  /\ pc' = "done"
  /\ UNCHANGED <<environment, cursor, disk, statics, batch_count, batch, batches>>

StartBatch ==
  /\ pc = "loop" /\ batch_count < BATCH_COUNT
  /\ batch_count' = batch_count + 1
  /\ pc' = "setup"
  /\ UNCHANGED <<environment, cursor, disk, statics, batch, batches>>

-----------------------------------------------------------------------------
\* timed_sync, timed_async.
Timed(labels) == phases' = phases (+) SetToBag(labels)

\* Whether the batch runs without a key and a proof (execute_without_setup).
WithoutSetup ==
  mode.execute_only /\ mode.prover_backend = "mock" /\ current_prev_proof = NoProof

SetupPhases ==
  [mock |-> {"build_mock_prover", "setup_vkey"},
   cpu  |-> {"build_cpu_prover", "setup_vkey"},
   cuda |-> {"cuda_preflight", "build_cuda_prover", "setup_vkey"}]

\* get_prepared_prover, when it is not the one the process has.
PrepareProver ==
  /\ pc = "setup" /\ ~WithoutSetup
  /\ prepared # mode.prover_backend
  /\ prepared' = mode.prover_backend
  /\ Timed(SetupPhases[mode.prover_backend])
  /\ UNCHANGED <<environment, cursor, disk, pc, batch_count, batch, batches>>

\* A wrong variant: what was timed before is kept.
RunBatchOnOldPhases ==
  /\ pc = "setup"
  /\ WithoutSetup \/ prepared = mode.prover_backend
  /\ pc' = "preparing"
  /\ UNCHANGED <<environment, cursor, disk, statics, batch_count, batch, batches>>

\* The batch starts: so does its total, and phases before it do not count.
RunBatch ==
  /\ pc = "setup"
  /\ WithoutSetup \/ prepared = mode.prover_backend
  /\ phases' = EmptyBag
  /\ pc' = "preparing"
  /\ UNCHANGED <<environment, cursor, disk, prepared, batch_count, batch, batches>>

\* A wrong variant: whatever the file holds is extended.
CanResumeFromAny == current_prev_proof # NoProof => current_prev_proof.end <= db_tip

(* Whether the previous proof loads, is one of success and of this chain,  *)
(* and says what the table says at its height.                             *)
CanResume ==
  current_prev_proof # NoProof => /\ current_prev_proof \in proofs
                                  /\ current_prev_proof.end <= db_tip

\* resolve_current_state.
start_height ==
  IF current_prev_proof # NoProof THEN current_prev_proof.end
  ELSE IF trusted_start_height # NoHeight THEN trusted_start_height
  ELSE 0

\* The rows of the batch: fewer than asked for at the end of the table.
loaded_count ==
  IF db_tip - start_height < NUM_HEADERS THEN db_tip - start_height ELSE NUM_HEADERS

StartPhases      == {"load_optional_proof", "resolve_current_state", "load_header_witness"}
SimulationPhases == {"simulate_expected_state", "load_db_end_claim"}

\* A wrong variant: a short batch is cut as if it were full.
PrepareFullBatch ==
  /\ pc = "preparing" /\ CanResume /\ loaded_count > 0
  /\ start_height + NUM_HEADERS <= MAX_HEIGHT
  /\ batch' = [previous_proof |-> current_prev_proof, height |-> start_height,
               first_new_height |-> start_height + 1,
               end_height |-> start_height + NUM_HEADERS]
  /\ pc' = "executing"
  /\ Timed(StartPhases \cup SimulationPhases)
  /\ UNCHANGED <<environment, cursor, disk, prepared, batch_count, batches>>

PrepareBatch ==
  /\ pc = "preparing" /\ CanResume /\ loaded_count > 0
  /\ batch' = [previous_proof |-> current_prev_proof, height |-> start_height,
               first_new_height |-> start_height + 1,
               end_height |-> start_height + loaded_count]
  /\ pc' = "executing"
  /\ Timed(StartPhases \cup SimulationPhases)
  /\ UNCHANGED <<environment, cursor, disk, prepared, batch_count, batches>>

\* A wrong variant: the batch that was not run stays counted.
NoHeadersCounted ==
  /\ pc = "preparing" /\ CanResume /\ loaded_count = 0
  /\ pc' = "done"
  /\ UNCHANGED <<environment, cursor, disk, statics, batch_count, batch, batches>>

\* A wrong variant: the session waits for headers in place.
NoHeadersRetried ==
  /\ pc = "preparing" /\ CanResume /\ loaded_count = 0
  /\ batch_count' = batch_count - 1
  /\ pc' = "loop"
  /\ UNCHANGED <<environment, cursor, disk, statics, batch, batches>>

\* is_header_exhaustion_error: a good end.
NoHeadersRemaining ==
  /\ pc = "preparing" /\ CanResume /\ loaded_count = 0
  /\ batch_count' = batch_count - 1
  /\ pc' = "done"
  /\ Timed(StartPhases)
  /\ UNCHANGED <<environment, cursor, disk, prepared, batch, batches>>

(* Above the genesis block the guest wants the digest of a prior proof: of *)
(* the one it extends, or one made up to fit.  build_stdin takes           *)
(* compressed proofs only.                                                 *)
GuestAccepts ==
  \/ WithoutSetup
  \/ batch.previous_proof = NoProof /\ batch.height = 0
  \/ batch.previous_proof # NoProof /\ ~batch.previous_proof.groth16

ExecutionPhases ==
  {"serialize_input", "execute_program"} \cup
    (IF WithoutSetup THEN {"build_mock_executor"}
     ELSE {"build_proof", "verify_execution_public_values"})

ExecuteBatch ==
  /\ pc = "executing" /\ GuestAccepts
  /\ pc' = IF mode.execute_only THEN "finishing" ELSE "proving"
  /\ Timed(ExecutionPhases)
  /\ UNCHANGED <<environment, cursor, disk, prepared, batch_count, batch, batches>>

\* A proof being saved: its file is created empty, then written.
Create(path) == files' = files \cup {path} /\ proofs' = proofs \ {path}
Write(path)  == proofs' = proofs \cup {path} /\ UNCHANGED files

\* The proof is made and verified, and its file is created.
ProveBatch ==
  /\ pc = "proving"
  /\ Create(Path(FALSE))
  /\ pc' = "saving"
  /\ Timed({"prove_compressed", "verify_compressed_public_values", "verify_compressed_proof"})
  /\ UNCHANGED <<environment, cursor, prepared, batch_count, batch, batches>>

SaveCompressed ==
  /\ pc = "saving"
  /\ Write(Path(FALSE))
  /\ pc' = IF mode.generate_groth16 THEN "wrapping" ELSE "finishing"
  /\ Timed({"save_compressed_proof"})
  /\ UNCHANGED <<environment, cursor, prepared, batch_count, batch, batches>>

WrapGroth16 ==
  /\ pc = "wrapping"
  /\ Create(Path(TRUE))
  /\ pc' = "saving_groth16"
  /\ Timed({"build_local_node", "shrink_wrap", "build_groth16_artifacts",
          "build_groth16_witness", "prove_groth16"})
  /\ UNCHANGED <<environment, cursor, prepared, batch_count, batch, batches>>

SaveGroth16 ==
  /\ pc = "saving_groth16"
  /\ Write(Path(TRUE))
  /\ pc' = "finishing"
  /\ Timed({"save_groth16_proof"})
  /\ UNCHANGED <<environment, cursor, prepared, batch_count, batch, batches>>

\* A wrong variant: the cursor of an execute-only session is the batch's start.
FinishAtFirst ==
  /\ pc = "finishing"
  /\ current_prev_proof' = IF mode.execute_only THEN NoProof ELSE Path(FALSE)
  /\ trusted_start_height' =
       IF mode.execute_only THEN batch.first_new_height ELSE NoHeight
  /\ batches' = Append(batches, batch)
  /\ pc' = "loop"
  /\ UNCHANGED <<environment, disk, statics, batch_count, batch>>

\* A wrong variant: the next batch extends the proof that was saved last.
FinishOnLastSaved ==
  /\ pc = "finishing"
  /\ current_prev_proof' =
       IF mode.execute_only THEN NoProof ELSE Path(mode.generate_groth16)
  /\ trusted_start_height' = IF mode.execute_only THEN batch.end_height ELSE NoHeight
  /\ batches' = Append(batches, batch)
  /\ pc' = "loop"
  /\ UNCHANGED <<environment, disk, statics, batch_count, batch>>

\* The next batch goes on from this one: from its proof if there is one.
FinishBatch ==
  /\ pc = "finishing"
  /\ current_prev_proof' = IF mode.execute_only THEN NoProof ELSE Path(FALSE)
  /\ trusted_start_height' = IF mode.execute_only THEN batch.end_height ELSE NoHeight
  /\ batches' = Append(batches, batch)
  /\ pc' = "loop"
  /\ UNCHANGED <<environment, disk, statics, batch_count, batch>>

Stop ==
  /\ pc' = "failed"
  /\ UNCHANGED <<environment, cursor, disk, statics, batch_count, batch, batches>>

\* The batch cannot be run: the session ends with an error.
Refuse ==
  /\ \/ pc = "preparing" /\ ~CanResume
     \/ pc = "executing" /\ ~GuestAccepts
  /\ Stop

(* Any call may fail or panic, the process may be killed: a batch that     *)
(* diverges from the table, an error of SP1, no disk space.                *)
Fail == pc \notin {"done", "failed"} /\ Stop

Work ==
  \/ StopAtCount \/ StartBatch \/ PrepareProver \/ RunBatch
  \/ PrepareBatch \/ NoHeadersRemaining \/ Refuse
  \/ ExecuteBatch \/ ProveBatch \/ SaveCompressed \/ WrapGroth16 \/ SaveGroth16
  \/ FinishBatch

Next == Work \/ Fail

\* The process runs: no call of a batch waits for ever.
Spec == Init /\ [][Next]_vars /\ WF_vars(Work)

-----------------------------------------------------------------------------
LastBatch == batches[Len(batches)]

(* The batches of a session follow one another without a gap or overlap,   *)
(* each as long as asked for or up to the end of the table, in every mode: *)
(* execute-only and proving sessions carry the cursor in different         *)
(* variables (run_batch_session, prepare_batch).                           *)
BatchesContiguous ==
  /\ \A i \in 1..Len(batches) - 1 :
       batches[i + 1].first_new_height = batches[i].end_height + 1
  /\ \A i \in 1..Len(batches) :
       /\ batches[i].first_new_height <= batches[i].end_height
       /\ batches[i].end_height <= db_tip
       /\ batches[i].end_height - batches[i].height < NUM_HEADERS
            => batches[i].end_height = db_tip

(* Between two batches the cursor is the end of the last one: a complete   *)
(* compressed proof of this session, or the trusted height, never both,    *)
(* which resolve_current_state would refuse.                               *)
CursorIsLastBatch ==
  pc = "loop" /\ batches # <<>> =>
    IF mode.execute_only
    THEN current_prev_proof = NoProof /\ trusted_start_height = LastBatch.end_height
    ELSE /\ trusted_start_height = NoHeight
         /\ current_prev_proof \in proofs
         /\ ~current_prev_proof.groth16
         /\ current_prev_proof.session = session
         /\ current_prev_proof.end = LastBatch.end_height

(* The number the session returns is the number of batches it finished,    *)
(* also when the table is exhausted first.                                 *)
CountIsFinished == pc = "done" => batch_count = Len(batches)

(* The time of a batch is told phase by phase, next to a total: the phases *)
(* are those of this batch, once each, neither what an earlier batch of    *)
(* the process left in the table nor the making of the prover, which only  *)
(* the first batch waits for and which is not in the total (run_with_      *)
(* prover, log_batch_completion).                                          *)
BreakdownIsOfBatch ==
  pc = "finishing" =>
    /\ \A label \in BagToSet(phases) : phases[label] = 1
    /\ \A backend \in DOMAIN SetupPhases : SetupPhases[backend] \cap BagToSet(phases) = {}
    /\ "execute_program" \in BagToSet(phases)
    /\ "prove_compressed" \in BagToSet(phases) <=> ~mode.execute_only
    /\ "prove_groth16" \in BagToSet(phases) <=> mode.generate_groth16

(* Every complete proof rests on another complete one that is on disk,     *)
(* down to the genesis block: none starts from a height taken on trust     *)
(* (execute_batch_with_prover, verify_prior_proof).                        *)
ProofsHavePast ==
  \A p \in proofs :
    p.first > 1 => \E q \in proofs : ~q.groth16 /\ q.end = p.first - 1

(* A session ends: by count, by exhaustion, or with an error.              *)
SessionEnds == <>(pc \in {"done", "failed"})

(* An execute-only session runs as many batches as it is told to, whatever *)
(* the backend: the guest never refuses a batch that starts where the last *)
(* one ended (main.rs: "Run multiple batches in one process").             *)
NextBatchIsAccepted ==
  pc = "executing" /\ batches # <<>> => GuestAccepts

=============================================================================
