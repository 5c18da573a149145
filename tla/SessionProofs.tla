---------------------------- MODULE SessionProofs ----------------------------
(***************************************************************************)
(* A session, alone and under the restart loop, for every batch size and   *)
(* count, every table, every mode and any number of failures and restarts. *)
(*                                                                         *)
(* The invariant follows the cursor from batch to batch: between batches   *)
(* it stands at the end of the last one (CursorInv), during a batch the    *)
(* batch starts there (BatchInv), and no file of this session is past it   *)
(* (FilesInv), so that a file being created never replaces a proof another *)
(* one rests on.                                                           *)
(*                                                                         *)
(* Between processes, ResumeInv follows the file that sorts last.  That    *)
(* there is one takes the names apart: sorting is a strict total order of  *)
(* names, and the digits in a name determine its heights.                  *)
(***************************************************************************)
EXTENDS ProverLoop, FiniteSetTheorems, WellFoundedInduction, TLAPS

Waiting == {"loop", "setup", "preparing"}
Saving  == {"proving", "saving", "wrapping", "saving_groth16"}
Running == Saving \cup {"executing", "finishing"}

\* The height this process has reached.
Reached == IF batches = <<>> THEN 0 ELSE LastBatch.end_height

CursorAtEnd ==
  IF mode.execute_only
  THEN current_prev_proof = NoProof /\ trusted_start_height = LastBatch.end_height
  ELSE /\ trusted_start_height = NoHeight
       /\ current_prev_proof \in proofs
       /\ ~current_prev_proof.groth16
       /\ current_prev_proof.session = session
       /\ current_prev_proof.end = LastBatch.end_height

Batches == [previous_proof : Paths \cup {NoProof}, height : Nat,
            first_new_height : Nat, end_height : Nat]

TypeInv ==
  /\ mode \in Modes /\ db_tip \in 0..MAX_HEIGHT /\ session \in Nat
  /\ files \subseteq Paths /\ proofs \subseteq files
  /\ pc \in Waiting \cup Running \cup {"done", "failed"}
  /\ batches \in Seq(Batches)
  /\ \A i \in 1..Len(batches) : batches[i].end_height \in 1..db_tip

CursorInv == pc \in Waiting =>
  IF batches = <<>> THEN trusted_start_height = NoHeight ELSE CursorAtEnd

\* What the batch extends: nothing at the genesis block, else a proof on disk.
RestsOnProof ==
  IF batch.previous_proof = NoProof
  THEN batch.height = 0
  ELSE /\ batch.previous_proof \in proofs
       /\ batch.previous_proof.end = batch.height
       /\ pc # "executing" => ~batch.previous_proof.groth16

BatchInv == pc \in Running =>
  /\ batch \in Batches /\ batch.first_new_height = batch.height + 1
  /\ batch.end_height \in batch.height + 1 .. db_tip
  /\ batch.end_height - batch.height < NUM_HEADERS => batch.end_height = db_tip
  /\ batches # <<>> => batch.height = Reached
  /\ ~mode.execute_only => RestsOnProof
  /\ pc \in Saving => ~mode.execute_only
  /\ pc \in {"wrapping", "saving_groth16", "finishing"} /\ ~mode.execute_only
       => Path(FALSE) \in proofs
  /\ pc = "saving" => Path(FALSE) \in files
  /\ pc = "saving_groth16" => Path(TRUE) \in files

CountInv ==
  /\ batch_count \in Nat
  /\ pc \in {"loop", "done"} => batch_count = Len(batches)
  /\ pc \in (Waiting \ {"loop"}) \cup Running => batch_count = Len(batches) + 1

\* How far the compressed proofs of this session go.
Covered ==
  IF pc \in {"saving", "wrapping", "saving_groth16", "finishing"}
  THEN batch.end_height ELSE Reached

FilesInv ==
  /\ \A p \in files : p.session <= session
  /\ pc \in Waiting \cup Running =>
       \A p \in files : p.session = session /\ ~p.groth16 => p.end <= Covered

SInv == TypeInv /\ CursorInv /\ BatchInv /\ CountInv /\ FilesInv /\ BatchesContiguous

-----------------------------------------------------------------------------
(* The last batch of a history with one more batch is that batch.          *)
LEMMA LastOfAppend ==
  ASSUME NEW hist \in Seq(Batches), NEW b \in Batches
  PROVE  /\ Append(hist, b) \in Seq(Batches) /\ Append(hist, b) # <<>>
         /\ Len(Append(hist, b)) = Len(hist) + 1
         /\ Append(hist, b)[Len(hist) + 1] = b
         /\ \A i \in 1..Len(hist) : Append(hist, b)[i] = hist[i]
  OBVIOUS

(* The two files of a batch are told apart by their form.                  *)
LEMMA PathForm == Path(TRUE).groth16 /\ ~Path(FALSE).groth16
  BY DEF Path

(* How far a process has got is a height of the table.                     *)
LEMMA ReachedType ==
  ASSUME TypeInv
  PROVE  /\ Reached \in 0..db_tip
         /\ batches # <<>> => /\ LastBatch.end_height \in 1..db_tip
                              /\ Reached = LastBatch.end_height
<1>1. db_tip \in Nat /\ batches \in Seq(Batches)
  BY SessionAssumption DEF TypeInv
<1>2. CASE batches = <<>>
  BY <1>1, <1>2 DEF Reached
<1>3. CASE batches # <<>>
  <2>1. Len(batches) \in 1..Len(batches)
    BY <1>1, <1>3
  <2>. QED  BY <2>1, <1>1, <1>3 DEF TypeInv, Reached, LastBatch
<1>. QED  BY <1>2, <1>3

(* A batch covers heights of the table, past those the process has reached. *)
LEMMA BatchIsPastReached ==
  ASSUME TypeInv, BatchInv, pc \in Running
  PROVE  /\ Reached \in Nat /\ batch.height \in Nat /\ Reached < batch.end_height
         /\ batch.first_new_height = batch.height + 1
         /\ batch.end_height \in 1..MAX_HEIGHT /\ batch.first_new_height \in 1..MAX_HEIGHT
<1>1. /\ batch.height \in Nat /\ batch.first_new_height = batch.height + 1
      /\ batch.end_height \in batch.height + 1 .. db_tip
      /\ batches # <<>> => batch.height = Reached
  BY DEF BatchInv, Batches
<1>2. db_tip \in 0..MAX_HEIGHT /\ MAX_HEIGHT \in Nat
  BY SessionAssumption DEF TypeInv
<1>3. Reached \in 0..db_tip /\ (batches = <<>> => Reached = 0)
  BY ReachedType DEF Reached
<1>. HIDE DEF Reached
<1>4. batch.first_new_height \in 1..MAX_HEIGHT /\ batch.end_height \in 1..MAX_HEIGHT
  BY <1>1, <1>2
<1>5. Reached \in Nat /\ Reached <= batch.height
  BY <1>1, <1>2, <1>3
<1>6. batch.height < batch.end_height
  BY <1>1, <1>2
<1>. QED  BY <1>1, <1>2, <1>4, <1>5, <1>6

(* A path that the process can form is one that a file can have.           *)
LEMMA PathType ==
  ASSUME TypeInv, BatchInv, pc \in Running, session \in SESSIONS, NEW groth16 \in BOOLEAN
  PROVE  /\ Path(groth16) \in Paths /\ Path(groth16) # NoProof
         /\ Path(groth16).session = session
         /\ Path(groth16).end = batch.end_height
         /\ Path(groth16).first = batch.height + 1
<1>1. batch.end_height \in 1..MAX_HEIGHT /\ batch.first_new_height \in 1..MAX_HEIGHT
  BY BatchIsPastReached
<1>2. Path(groth16) \in Paths
  BY <1>1 DEF Path, Paths
<1>. QED  BY <1>2, SessionAssumption, BatchIsPastReached DEF Path

(* A batch starts where the last one ended, and the first one of a session *)
(* at its proof or at the genesis block.                                   *)
LEMMA StartOfBatch ==
  ASSUME TypeInv, CursorInv, pc = "preparing", CanResume
  PROVE  /\ start_height \in 0..db_tip
         /\ batches # <<>> => start_height = Reached
         /\ current_prev_proof # NoProof => /\ current_prev_proof \in proofs
                                            /\ current_prev_proof \in Paths
                                            /\ start_height = current_prev_proof.end
         /\ current_prev_proof = NoProof /\ ~mode.execute_only => start_height = 0
<1>. DEFINE L == LastBatch.end_height
<1>1. db_tip \in Nat /\ NoHeight \notin Nat /\ NoProof \notin Paths
  BY SessionAssumption DEF TypeInv
<1>2. current_prev_proof # NoProof => /\ current_prev_proof \in proofs
                                      /\ current_prev_proof \in Paths
                                      /\ current_prev_proof.end \in 1..db_tip
                                      /\ start_height = current_prev_proof.end
  <2>. SUFFICES ASSUME current_prev_proof # NoProof
                PROVE  /\ current_prev_proof \in proofs
                       /\ current_prev_proof \in Paths
                       /\ current_prev_proof.end \in 1..db_tip
                       /\ start_height = current_prev_proof.end
    OBVIOUS
  <2>1. current_prev_proof \in proofs /\ current_prev_proof.end <= db_tip
    BY DEF CanResume
  <2>2. current_prev_proof \in Paths
    BY <2>1 DEF TypeInv
  <2>3. current_prev_proof.end \in 1..MAX_HEIGHT
    BY <2>2 DEF Paths
  <2>. QED  BY <2>1, <2>2, <2>3, <1>1 DEF start_height
<1>3. CASE batches = <<>>
  <2>1. trusted_start_height = NoHeight
    BY <1>3 DEF CursorInv, Waiting
  <2>2. current_prev_proof = NoProof => start_height = 0
    BY <2>1 DEF start_height
  <2>. QED  BY <1>1, <1>2, <1>3, <2>2
<1>4. CASE batches # <<>>
  <2>1. CursorAtEnd
    BY <1>4 DEF CursorInv, Waiting
  <2>2. L \in 1..db_tip /\ Reached = L
    BY <1>4, ReachedType
  <2>3. L # NoHeight
    BY <2>2, <1>1
  <2>. HIDE DEF L
  <2>4. CASE mode.execute_only
    <3>1. current_prev_proof = NoProof /\ trusted_start_height = L
      BY <2>1, <2>4 DEF CursorAtEnd, L
    <3>2. start_height = L
      BY <3>1, <2>3 DEF start_height
    <3>. QED  BY <3>1, <3>2, <2>2, <2>4, <1>1
  <2>5. CASE ~mode.execute_only
    <3>1. current_prev_proof \in proofs /\ current_prev_proof.end = L
      BY <2>1, <2>5 DEF CursorAtEnd, L
    <3>2. current_prev_proof # NoProof
      BY <3>1, <1>1 DEF TypeInv
    <3>. QED  BY <3>1, <3>2, <1>2, <2>2, <1>1
  <2>. QED  BY <2>4, <2>5
<1>. QED  BY <1>3, <1>4

-----------------------------------------------------------------------------
(* A process starts with nothing behind it.                                *)
LEMMA InitSInv == Init => SInv /\ session \in SESSIONS
<1>. SUFFICES ASSUME Init PROVE SInv /\ session \in SESSIONS
  OBVIOUS
<1>1. /\ batches = <<>> /\ pc = "loop" /\ batch_count = 0 /\ trusted_start_height = NoHeight
      /\ session \in SESSIONS /\ session \in Nat /\ mode \in Modes /\ db_tip \in 0..MAX_HEIGHT
      /\ files = {current_prev_proof} \ {NoProof} /\ proofs \subseteq files
      /\ current_prev_proof \in Paths \cup {NoProof}
  BY SessionAssumption DEF Init
<1>2. files \subseteq Paths
  BY <1>1
<1>3. batches \in Seq(Batches) /\ Len(batches) = 0
  BY <1>1
<1>4. TypeInv
  BY <1>1, <1>2, <1>3 DEF TypeInv, Waiting
<1>5. ASSUME NEW p \in files PROVE p.session < session
  BY <1>5, <1>2 DEF Init, Paths
<1>6. FilesInv
  <2>1. \A p \in files : p.session \in Nat
    BY <1>2, SessionAssumption DEF Paths
  <2>. QED  BY <1>1, <1>5, <2>1 DEF FilesInv
<1>7. CursorInv /\ BatchInv /\ CountInv /\ BatchesContiguous
  BY <1>1, <1>3 DEF CursorInv, BatchInv, CountInv, BatchesContiguous, Waiting, Running, Saving
<1>. QED  BY <1>1, <1>4, <1>6, <1>7 DEF SInv

(* A step that changes neither the cursor, the disk nor the batches leaves *)
(* a process between two batches there, or ends it.                        *)
LEMMA WaitingStep ==
  ASSUME SInv, pc \in Waiting \/ pc' \in {"done", "failed"},
         UNCHANGED <<environment, cursor, disk, batch, batches>>,
         pc' \in Waiting \cup {"done", "failed"}, CountInv'
  PROVE  SInv'
<1>1. TypeInv'
  BY DEF SInv, TypeInv, environment, disk
<1>2. CursorInv'
  BY DEF SInv, CursorInv, CursorAtEnd, LastBatch, environment, cursor, disk, Waiting
<1>3. BatchInv' /\ BatchesContiguous'
  BY DEF SInv, BatchInv, BatchesContiguous, environment, Waiting, Running, Saving
<1>4. FilesInv'
  BY DEF SInv, FilesInv, Covered, Reached, LastBatch, environment, disk, Waiting, Running, Saving
<1>. QED  BY <1>1, <1>2, <1>3, <1>4 DEF SInv

(* The batch prepared starts at the cursor.                                *)
LEMMA PrepareSInv ==
  ASSUME SInv, session \in SESSIONS, PrepareBatch
  PROVE  SInv'
<1>1. /\ pc = "preparing" /\ pc' = "executing" /\ CanResume /\ loaded_count > 0
      /\ UNCHANGED <<environment, cursor, disk, batch_count, batches>>
  BY DEF PrepareBatch
<1>2. /\ batch'.previous_proof = current_prev_proof /\ batch'.height = start_height
      /\ batch'.first_new_height = start_height + 1
      /\ batch'.end_height = start_height + loaded_count
  BY DEF PrepareBatch
<1>3. /\ start_height \in 0..db_tip
      /\ batches # <<>> => start_height = Reached
      /\ current_prev_proof # NoProof => /\ current_prev_proof \in proofs
                                         /\ current_prev_proof \in Paths
                                         /\ start_height = current_prev_proof.end
      /\ current_prev_proof = NoProof /\ ~mode.execute_only => start_height = 0
  BY <1>1, StartOfBatch DEF SInv
<1>4. db_tip \in Nat /\ NUM_HEADERS \in Nat
  BY SessionAssumption DEF SInv, TypeInv
<1>5. /\ start_height + loaded_count \in start_height + 1 .. db_tip
      /\ loaded_count < NUM_HEADERS => start_height + loaded_count = db_tip
      /\ (start_height + loaded_count) - start_height = loaded_count
  BY <1>1, <1>3, <1>4 DEF loaded_count
<1>6. batch' \in Batches
  BY <1>3, <1>4, <1>5 DEF PrepareBatch, Batches
<1>7. TypeInv'
  BY <1>1 DEF SInv, TypeInv, environment, disk, Running
<1>8. BatchInv'
  <2>1. ~mode.execute_only => RestsOnProof'
    BY <1>1, <1>2, <1>3 DEF RestsOnProof, disk
  <2>2. Reached' = Reached /\ mode' = mode /\ db_tip' = db_tip
    BY <1>1 DEF Reached, LastBatch, environment
  <2>. QED  BY <1>1, <1>2, <1>3, <1>4, <1>5, <1>6, <2>1, <2>2 DEF BatchInv, Saving
<1>9. CursorInv' /\ CountInv' /\ BatchesContiguous'
  BY <1>1 DEF SInv, CursorInv, CountInv, BatchesContiguous, environment, Waiting, Running
<1>10. FilesInv'
  BY <1>1 DEF SInv, FilesInv, Covered, Reached, LastBatch, environment, disk, Waiting, Running
<1>. QED  BY <1>7, <1>8, <1>9, <1>10 DEF SInv

(* What is executed rests on a compressed proof, where it rests on one.    *)
LEMMA ExecuteSInv ==
  ASSUME SInv, ExecuteBatch
  PROVE  SInv'
<1>1. /\ pc = "executing" /\ GuestAccepts
      /\ pc' = IF mode.execute_only THEN "finishing" ELSE "proving"
      /\ UNCHANGED <<environment, cursor, disk, batch_count, batch, batches>>
  BY DEF ExecuteBatch
<1>2. ~mode.execute_only => batch.previous_proof = NoProof \/ ~batch.previous_proof.groth16
  BY <1>1 DEF GuestAccepts, WithoutSetup
<1>3. mode.execute_only \in BOOLEAN
  BY DEF SInv, TypeInv, Modes
<1>4. TypeInv' /\ CursorInv' /\ CountInv' /\ BatchesContiguous'
  BY <1>1 DEF SInv, TypeInv, CursorInv, CountInv, BatchesContiguous, environment, disk,
              Waiting, Running, Saving
<1>5. BatchInv'
  <2>1. ~mode.execute_only => RestsOnProof'
    BY <1>1, <1>2 DEF SInv, BatchInv, RestsOnProof, disk, Running
  <2>2. Reached' = Reached /\ mode' = mode /\ db_tip' = db_tip /\ batch' = batch
        /\ (batches # <<>>) = (batches # <<>>)'
    BY <1>1 DEF Reached, LastBatch, environment
  <2>. QED  BY <1>1, <1>3, <2>1, <2>2 DEF SInv, BatchInv, Running, Saving
<1>6. FilesInv'
  <2>1. Reached \in Nat /\ batch.end_height \in Nat /\ Reached <= batch.end_height
    <3>1. Reached \in Nat /\ batch.end_height \in 1..MAX_HEIGHT /\ Reached < batch.end_height
      BY <1>1, BatchIsPastReached DEF SInv, Running
    <3>. QED  BY <3>1, SessionAssumption
  <2>2. Covered = Reached /\ Covered' \in {Reached, batch.end_height}
    BY <1>1 DEF Covered, Reached, LastBatch
  <2>3. \A p \in files : p.end \in Nat
    BY SessionAssumption DEF SInv, TypeInv, Paths
  <2>4. files' = files /\ session' = session
    BY <1>1 DEF environment, disk
  <2>5. /\ \A p \in files : p.session <= session
        /\ \A p \in files : p.session = session /\ ~p.groth16 => p.end <= Reached
    BY <1>1, <2>2 DEF SInv, FilesInv, Running
  <2>. QED  BY <2>1, <2>2, <2>3, <2>4, <2>5 DEF FilesInv
<1>. QED  BY <1>4, <1>5, <1>6 DEF SInv

(* The file of a compressed proof is new: no file of the session reaches   *)
(* the end of the batch.  What the batch rests on stays.                   *)
LEMMA CreateSInv ==
  ASSUME SInv, session \in SESSIONS, ProveBatch
  PROVE  SInv' /\ proofs' = proofs
<1>1. /\ pc = "proving" /\ pc' = "saving"
      /\ files' = files \cup {Path(FALSE)} /\ proofs' = proofs \ {Path(FALSE)}
      /\ UNCHANGED <<environment, cursor, batch_count, batch, batches>>
  BY DEF ProveBatch, Create
<1>2. /\ Path(FALSE) \in Paths /\ Path(FALSE).session = session
      /\ ~Path(FALSE).groth16 /\ Path(FALSE).end = batch.end_height
  BY <1>1, PathType, PathForm DEF SInv, Running, Saving
<1>3. Reached \in Nat /\ batch.end_height \in Nat /\ Reached < batch.end_height
  <2>1. Reached \in Nat /\ batch.end_height \in 1..MAX_HEIGHT /\ Reached < batch.end_height
    BY <1>1, BatchIsPastReached DEF SInv, Running, Saving
  <2>. QED  BY <2>1, SessionAssumption
<1>4. \A p \in files : p.session = session /\ ~p.groth16 => p.end <= Reached
  <2>1. Covered = Reached
    BY <1>1 DEF Covered
  <2>2. FilesInv /\ pc \in Waiting \cup Running
    BY <1>1 DEF SInv, Running, Saving
  <2>. QED  BY <2>1, <2>2 DEF FilesInv
<1>5. Path(FALSE) \notin files
  <2>1. Path(FALSE) \in files => Path(FALSE).end <= Reached
    BY <1>2, <1>4
  <2>2. ~(batch.end_height <= Reached)
    BY <1>3
  <2>. QED  BY <1>2, <2>1, <2>2
<1>6. proofs' = proofs
  BY <1>1, <1>5 DEF SInv, TypeInv
<1>7. TypeInv'
  BY <1>1, <1>2, <1>6 DEF SInv, TypeInv, environment, Running, Saving
<1>8. CursorInv' /\ CountInv' /\ BatchesContiguous'
  BY <1>1 DEF SInv, CursorInv, CountInv, BatchesContiguous, environment,
              Waiting, Running, Saving
<1>9. BatchInv'
  <2>1. ~mode.execute_only => RestsOnProof'
    BY <1>1, <1>6 DEF SInv, BatchInv, RestsOnProof, Running, Saving
  <2>2. Reached' = Reached /\ mode' = mode /\ db_tip' = db_tip /\ batch' = batch
        /\ (batches # <<>>) = (batches # <<>>)'
    BY <1>1 DEF Reached, LastBatch, environment
  <2>3. Path(FALSE)' = Path(FALSE)
    BY <1>1 DEF Path, environment
  <2>. QED  BY <1>1, <2>1, <2>2, <2>3 DEF SInv, BatchInv, Running, Saving
<1>10. FilesInv'
  <2>1. Covered' = batch.end_height /\ session' = session
    BY <1>1 DEF Covered, environment
  <2>2. \A p \in files : p.end \in Nat
    BY SessionAssumption DEF SInv, TypeInv, Paths
  <2>3. \A p \in files : p.session <= session
    BY DEF SInv, FilesInv
  <2>4. session \in Nat
    BY DEF SInv, TypeInv
  <2>. DEFINE new == Path(FALSE)
              e   == batch.end_height
  <2>5. files' = files \cup {new} /\ new.session = session /\ new.end = e
    BY <1>1, <1>2
  <2>6. \A p \in files : p.session = session /\ ~p.groth16 => p.end <= e
    BY <1>3, <1>4, <2>2
  <2>. HIDE DEF new
  <2>7. \A p \in files' : p.session <= session
    BY <2>3, <2>4, <2>5
  <2>8. \A p \in files' : p.session = session /\ ~p.groth16 => p.end <= e
    BY <2>5, <2>6, <1>3
  <2>. QED  BY <2>1, <2>7, <2>8 DEF FilesInv
<1>. QED  BY <1>6, <1>7, <1>8, <1>9, <1>10 DEF SInv

(* The later steps of a batch write its own two files and take away no     *)
(* compressed proof.                                                       *)
LEMMA SaveSInv ==
  ASSUME SInv, session \in SESSIONS, SaveCompressed \/ WrapGroth16 \/ SaveGroth16
  PROVE  /\ SInv'
         /\ \A p \in proofs : ~p.groth16 => p \in proofs'
         /\ proofs' \subseteq proofs \cup {Path(FALSE), Path(TRUE)}
<1>1. /\ pc \in {"saving", "wrapping", "saving_groth16"}
      /\ pc' \in {"wrapping", "saving_groth16", "finishing"}
      /\ UNCHANGED <<environment, cursor, batch_count, batch, batches>>
  BY DEF SaveCompressed, WrapGroth16, SaveGroth16
<1>2. /\ Path(FALSE) \in Paths /\ ~Path(FALSE).groth16
      /\ Path(FALSE).session = session /\ Path(FALSE).end = batch.end_height
      /\ Path(TRUE) \in Paths /\ Path(TRUE).groth16 /\ Path(TRUE).session = session
  BY <1>1, PathType, PathForm DEF SInv, Running, Saving
<1>. HIDE DEF Path
<1>3. /\ files' \subseteq files \cup {Path(TRUE)} /\ files \subseteq files'
      /\ \A p \in proofs : ~p.groth16 => p \in proofs'
      /\ proofs' \subseteq proofs \cup {Path(FALSE), Path(TRUE)}
      /\ Path(FALSE) \in proofs'
      /\ pc' = "saving_groth16" => Path(TRUE) \in files'
  <2>1. CASE SaveCompressed
    BY <2>1 DEF SaveCompressed, Write
  <2>2. CASE WrapGroth16
    <3>1. Path(FALSE) \in proofs
      BY <2>2 DEF WrapGroth16, SInv, BatchInv, Running, Saving
    <3>. QED  BY <2>2, <3>1, <1>2 DEF WrapGroth16, Create
  <2>3. CASE SaveGroth16
    <3>1. Path(FALSE) \in proofs
      BY <2>3 DEF SaveGroth16, SInv, BatchInv, Running, Saving
    <3>. QED  BY <2>3, <3>1 DEF SaveGroth16, Write
  <2>. QED  BY <2>1, <2>2, <2>3
<1>4. proofs' \subseteq files'
  <2>1. proofs \subseteq files
    BY DEF SInv, TypeInv
  <2>2. CASE SaveCompressed
    <3>1. Path(FALSE) \in files
      BY <2>2 DEF SaveCompressed, SInv, BatchInv, Running, Saving
    <3>. QED  BY <2>1, <2>2, <3>1 DEF SaveCompressed, Write
  <2>3. CASE WrapGroth16
    BY <2>1, <2>3 DEF WrapGroth16, Create
  <2>4. CASE SaveGroth16
    <3>1. Path(TRUE) \in files
      BY <2>4 DEF SaveGroth16, SInv, BatchInv, Running, Saving
    <3>. QED  BY <2>1, <2>4, <3>1 DEF SaveGroth16, Write
  <2>. QED  BY <2>2, <2>3, <2>4
<1>5. files' \subseteq Paths
  BY <1>2, <1>3 DEF SInv, TypeInv
<1>6. Path(FALSE)' = Path(FALSE) /\ Path(TRUE)' = Path(TRUE)
  BY <1>1 DEF Path, environment
<1>7. TypeInv' /\ CursorInv' /\ CountInv' /\ BatchesContiguous'
  BY <1>1, <1>4, <1>5 DEF SInv, TypeInv, CursorInv, CountInv, BatchesContiguous, environment,
                          Waiting, Running, Saving
<1>8. BatchInv'
  <2>1. ~mode.execute_only => RestsOnProof'
    <3>1. ~mode.execute_only => RestsOnProof
      BY <1>1 DEF SInv, BatchInv, Running, Saving
    <3>. QED  BY <1>1, <1>3, <3>1 DEF RestsOnProof
  <2>2. Reached' = Reached /\ mode' = mode /\ db_tip' = db_tip /\ batch' = batch
        /\ (batches # <<>>) = (batches # <<>>)'
    BY <1>1 DEF Reached, LastBatch, environment
  <2>3. ~mode.execute_only
    BY <1>1 DEF SInv, BatchInv, Running, Saving
  <2>. QED  BY <1>1, <1>3, <1>6, <2>1, <2>2, <2>3 DEF SInv, BatchInv, Running, Saving
<1>9. FilesInv'
  <2>1. Covered' = batch.end_height /\ Covered = batch.end_height /\ session' = session
    BY <1>1 DEF Covered, environment
  <2>2. FilesInv /\ pc \in Waiting \cup Running /\ session \in Nat
    BY <1>1 DEF SInv, TypeInv, Running, Saving
  <2>3. \A p \in files' : p \in files \/ p = Path(TRUE)
    BY <1>3
  <2>4. \A p \in files' : p.session <= session
    <3>1. \A p \in files : p.session <= session
      BY <2>2 DEF FilesInv
    <3>2. Path(TRUE).session <= session
      <4>1. session <= session
        BY <2>2
      <4>2. Path(TRUE).session = session
        BY <1>2
      <4>. QED  BY <4>1, <4>2, Zenon
    <3>. QED  BY <2>3, <3>1, <3>2
  <2>5. \A p \in files' : p.session = session /\ ~p.groth16 => p.end <= batch.end_height
    BY <2>1, <2>2, <2>3, <1>2 DEF FilesInv
  <2>. QED  BY <2>1, <2>4, <2>5 DEF FilesInv
<1>. QED  BY <1>3, <1>7, <1>8, <1>9 DEF SInv

(* A finished batch goes on the history right after the one before, and    *)
(* the cursor to its end.                                                  *)
LEMMA FinishSInv ==
  ASSUME SInv, session \in SESSIONS, FinishBatch
  PROVE  SInv'
<1>1. /\ pc = "finishing" /\ pc' = "loop" /\ batches' = Append(batches, batch)
      /\ current_prev_proof' = IF mode.execute_only THEN NoProof ELSE Path(FALSE)
      /\ trusted_start_height' = IF mode.execute_only THEN batch.end_height ELSE NoHeight
      /\ UNCHANGED <<environment, disk, batch_count, batch>>
  BY DEF FinishBatch
<1>. DEFINE n == Len(batches)
<1>2. /\ batch \in Batches /\ batches \in Seq(Batches) /\ n \in Nat
      /\ batch.height \in Nat /\ batch.first_new_height = batch.height + 1
      /\ batch.end_height \in batch.height + 1 .. db_tip /\ db_tip \in Nat
      /\ batch.end_height - batch.height < NUM_HEADERS => batch.end_height = db_tip
      /\ batches # <<>> => batch.height = LastBatch.end_height
  <2>1. batch \in Batches
    BY <1>1 DEF SInv, BatchInv, Running
  <2>2. batch.height \in Nat
    BY <2>1 DEF Batches
  <2>3. db_tip \in Nat /\ batches \in Seq(Batches)
    BY SessionAssumption DEF SInv, TypeInv
  <2>. QED  BY <1>1, <2>1, <2>2, <2>3 DEF SInv, BatchInv, Running, Reached
<1>3. /\ batches' \in Seq(Batches) /\ Len(batches') = n + 1 /\ batches' # <<>>
      /\ batches'[n + 1] = batch /\ \A i \in 1..n : batches'[i] = batches[i]
  BY <1>1, <1>2, LastOfAppend
<1>4. LastBatch' = batch
  BY <1>3 DEF LastBatch
<1>5. TypeInv'
  <2>1. \A i \in 1..n + 1 : batches'[i].end_height \in 1..db_tip
    <3>1. \A i \in 1..n : batches[i].end_height \in 1..db_tip
      BY DEF SInv, TypeInv
    <3>2. batch.end_height \in 1..db_tip
      BY <1>2
    <3>. HIDE DEF n
    <3>. QED  BY <1>2, <1>3, <3>1, <3>2
  <2>. QED  BY <1>1, <1>3, <2>1 DEF SInv, TypeInv, environment, disk, Waiting
<1>6. CursorInv'
  <2>1. CASE mode.execute_only
    BY <1>1, <1>3, <1>4, <2>1 DEF CursorInv, CursorAtEnd, environment
  <2>2. CASE ~mode.execute_only
    <3>1. Path(FALSE) \in proofs
      BY <1>1, <2>2 DEF SInv, BatchInv, Running
    <3>2. Path(FALSE).session = session /\ ~Path(FALSE).groth16
          /\ Path(FALSE).end = batch.end_height
      BY PathForm DEF Path
    <3>. HIDE DEF Path
    <3>. QED  BY <1>1, <1>3, <1>4, <2>2, <3>1, <3>2
              DEF CursorInv, CursorAtEnd, environment, disk
  <2>. QED  BY <2>1, <2>2
<1>7. BatchInv' /\ CountInv'
  BY <1>1, <1>3 DEF SInv, BatchInv, CountInv, Waiting, Running, Saving
<1>8. FilesInv'
  <2>1. Covered' = batch.end_height
    BY <1>1, <1>3, <1>4 DEF Covered, Reached
  <2>2. Covered = batch.end_height /\ pc \in Waiting \cup Running /\ FilesInv
    BY <1>1 DEF Covered, Running, SInv
  <2>. QED  BY <1>1, <2>1, <2>2 DEF FilesInv, environment, disk
<1>9. BatchesContiguous'
  <2>1. BatchesContiguous /\ db_tip' = db_tip
    BY <1>1 DEF SInv, environment
  <2>2. batches # <<>> => n \in 1..n /\ batch.height = batches[n].end_height
    BY <1>2 DEF LastBatch
  <2>. HIDE DEF n
  <2>3. ASSUME NEW i \in 1..n PROVE batches'[i + 1].first_new_height = batches'[i].end_height + 1
    <3>1. CASE i = n
      <4>1. batches # <<>>
        BY <1>2, <3>1 DEF n
      <4>. QED  BY <1>2, <1>3, <2>2, <3>1, <4>1
    <3>2. CASE i # n
      <4>1. i \in 1..n - 1 /\ i + 1 \in 1..n
        BY <1>2, <3>2
      <4>2. batches[i + 1].first_new_height = batches[i].end_height + 1
        BY <2>1, <4>1 DEF BatchesContiguous, n
      <4>. QED  BY <1>3, <4>1, <4>2
    <3>. QED  BY <3>1, <3>2
  <2>4. ASSUME NEW i \in 1..n + 1
        PROVE  /\ batches'[i].first_new_height <= batches'[i].end_height
               /\ batches'[i].end_height <= db_tip
               /\ batches'[i].end_height - batches'[i].height < NUM_HEADERS
                    => batches'[i].end_height = db_tip
    <3>1. CASE i = n + 1
      <4>1. batch.first_new_height <= batch.end_height /\ batch.end_height <= db_tip
        BY <1>2
      <4>. QED  BY <4>1, <1>2, <1>3, <3>1
    <3>2. CASE i # n + 1
      <4>1. i \in 1..n
        BY <1>2, <3>2
      <4>2. batches'[i] = batches[i]
        BY <1>3, <4>1
      <4>. QED  BY <2>1, <4>1, <4>2 DEF BatchesContiguous, n
    <3>. QED  BY <3>1, <3>2
  <2>5. Len(batches') = n + 1 /\ Len(batches') - 1 = n
    BY <1>2, <1>3
  <2>6. \A i \in 1..Len(batches') - 1 :
          batches'[i + 1].first_new_height = batches'[i].end_height + 1
    BY <2>3, <2>5
  <2>7. \A i \in 1..Len(batches') :
          /\ batches'[i].first_new_height <= batches'[i].end_height
          /\ batches'[i].end_height <= db_tip'
          /\ batches'[i].end_height - batches'[i].height < NUM_HEADERS
               => batches'[i].end_height = db_tip'
    BY <2>1, <2>4, <2>5
  <2>. QED  BY <2>6, <2>7 DEF BatchesContiguous
<1>. QED  BY <1>5, <1>6, <1>7, <1>8, <1>9 DEF SInv

(* Every step of a session keeps the invariant.                            *)
LEMMA NextSInv ==
  ASSUME SInv, session \in SESSIONS, [Next]_vars
  PROVE  SInv' /\ session' = session
<1>1. CASE StopAtCount
  <2>1. CountInv'
    BY <1>1 DEF StopAtCount, SInv, CountInv, Waiting, Running, Saving
  <2>. QED  BY <1>1, <2>1, WaitingStep DEF StopAtCount, Waiting, environment
<1>2. CASE StartBatch
  <2>1. CountInv'
    BY <1>2 DEF StartBatch, SInv, CountInv, Waiting, Running, Saving
  <2>. QED  BY <1>2, <2>1, WaitingStep DEF StartBatch, Waiting, environment
<1>3. CASE PrepareProver
  <2>1. CountInv'
    BY <1>3 DEF PrepareProver, SInv, CountInv, Waiting, Running, Saving
  <2>. QED  BY <1>3, <2>1, WaitingStep DEF PrepareProver, Waiting, environment
<1>4. CASE RunBatch
  <2>1. CountInv'
    BY <1>4 DEF RunBatch, SInv, CountInv, Waiting, Running, Saving
  <2>. QED  BY <1>4, <2>1, WaitingStep DEF RunBatch, Waiting, environment
<1>5. CASE PrepareBatch
  BY <1>5, PrepareSInv DEF PrepareBatch, environment
<1>6. CASE NoHeadersRemaining
  <2>1. CountInv'
    <3>1. Len(batches) \in Nat
      BY DEF SInv, TypeInv
    <3>2. batch_count = Len(batches) + 1
      BY <1>6 DEF NoHeadersRemaining, SInv, CountInv, Waiting
    <3>. QED  BY <1>6, <3>1, <3>2 DEF NoHeadersRemaining, CountInv, Waiting, Running, Saving
  <2>. QED  BY <1>6, <2>1, WaitingStep DEF NoHeadersRemaining, Waiting, environment
<1>7. CASE Stop
  <2>1. CountInv'
    BY <1>7 DEF Stop, SInv, CountInv, Waiting, Running, Saving
  <2>. QED  BY <1>7, <2>1, WaitingStep DEF Stop, environment
<1>8. CASE ExecuteBatch
  BY <1>8, ExecuteSInv DEF ExecuteBatch, environment
<1>9. CASE ProveBatch
  BY <1>9, CreateSInv DEF ProveBatch, environment
<1>10. CASE SaveCompressed \/ WrapGroth16 \/ SaveGroth16
  BY <1>10, SaveSInv DEF SaveCompressed, WrapGroth16, SaveGroth16, environment
<1>11. CASE FinishBatch
  BY <1>11, FinishSInv DEF FinishBatch, environment
<1>12. CASE UNCHANGED vars
  <2>1. UNCHANGED <<mode, db_tip, session, files, proofs, pc, current_prev_proof,
                    trusted_start_height, batch_count, batch, batches>>
    BY <1>12 DEF vars, environment, cursor, disk
  <2>. QED  BY <2>1 DEF SInv, TypeInv, CursorInv, CursorAtEnd, LastBatch, BatchInv, RestsOnProof,
                        Reached, Path, CountInv, FilesInv, Covered, BatchesContiguous
<1>. QED  BY <1>1, <1>2, <1>3, <1>4, <1>5, <1>6, <1>7, <1>8, <1>9, <1>10, <1>11, <1>12
          DEF Next, Work, Refuse, Fail

(* The invariant holds of every session.                                   *)
LEMMA SessionInvariant == Spec => [](SInv /\ session \in SESSIONS)
<1>1. SInv /\ session \in SESSIONS /\ [Next]_vars => (SInv /\ session \in SESSIONS)'
  BY NextSInv
<1>. QED  BY <1>1, InitSInv, PTL DEF Spec

(* In every mode, for every table and wherever it starts, the batches of a *)
(* session cover the heights one after the other, none twice, none left    *)
(* out, each full unless the table ends.                                   *)
THEOREM BatchesFollow == Spec => []BatchesContiguous
<1>1. SInv => BatchesContiguous
  BY DEF SInv
<1>. QED  BY <1>1, SessionInvariant, PTL

(* Between two batches the cursor stands at the end of the last one: in a  *)
(* compressed proof of this session that is complete, or in the height.    *)
THEOREM CursorFollows == Spec => []CursorIsLastBatch
<1>1. SInv => CursorIsLastBatch
  BY DEF SInv, CursorInv, CursorAtEnd, CursorIsLastBatch, Waiting
<1>. QED  BY <1>1, SessionInvariant, PTL

(* What a session returns is how many batches it finished.                 *)
THEOREM CountIsTrue == Spec => []CountIsFinished
<1>1. SInv => CountIsFinished
  BY DEF SInv, CountInv, CountIsFinished
<1>. QED  BY <1>1, SessionInvariant, PTL

-----------------------------------------------------------------------------
(***************************************************************************)
(* The phases told of a batch.                                             *)
(***************************************************************************)
Executed   == (StartPhases \cup SimulationPhases) \cup ExecutionPhases
Proved     == Executed \cup
                {"prove_compressed", "verify_compressed_public_values", "verify_compressed_proof"}
Compressed == Proved \cup {"save_compressed_proof"}
Wrapped    == Compressed \cup {"build_local_node", "shrink_wrap", "build_groth16_artifacts",
                               "build_groth16_witness", "prove_groth16"}

Told ==
  CASE pc = "preparing"      -> {}
    [] pc = "executing"      -> StartPhases \cup SimulationPhases
    [] pc = "proving"        -> Executed
    [] pc = "saving"         -> Proved
    [] pc = "wrapping"       -> Compressed
    [] pc = "saving_groth16" -> Wrapped
    [] pc = "finishing"      -> IF mode.execute_only THEN Executed
                                ELSE IF mode.generate_groth16
                                     THEN Wrapped \cup {"save_groth16_proof"}
                                     ELSE Compressed

PhasesInv ==
  /\ mode \in Modes
  /\ pc \in Saving => ~mode.execute_only
  /\ pc \in {"wrapping", "saving_groth16"} => mode.generate_groth16
  /\ pc \in Running \cup {"preparing"} => phases = SetToBag(Told)

(* Phases not told before add to what is told, once each.                  *)
LEMMA ToldOnce ==
  ASSUME NEW S, NEW T, S \cap T = {}
  PROVE  SetToBag(S) (+) SetToBag(T) = SetToBag(S \cup T)
BY DEF SetToBag, (+)

(* The groups of phases have no label in common.                           *)
LEMMA PhasesApart ==
  /\ {} \cap (StartPhases \cup SimulationPhases) = {}
  /\ (StartPhases \cup SimulationPhases) \cap ExecutionPhases = {}
  /\ Executed \cap {"prove_compressed", "verify_compressed_public_values",
                    "verify_compressed_proof"} = {}
  /\ Proved \cap {"save_compressed_proof"} = {}
  /\ Compressed \cap {"build_local_node", "shrink_wrap", "build_groth16_artifacts",
                      "build_groth16_witness", "prove_groth16"} = {}
  /\ Wrapped \cap {"save_groth16_proof"} = {}
BY DEF StartPhases, SimulationPhases, ExecutionPhases, Executed, Proved, Compressed, Wrapped

(* Every step of a batch tells its own phases.                             *)
LEMMA NextPhases ==
  ASSUME PhasesInv, [Next]_vars
  PROVE  PhasesInv'
<1>m. mode.execute_only \in BOOLEAN /\ mode.generate_groth16 \in BOOLEAN
      /\ (mode.execute_only => ~mode.generate_groth16)
  BY DEF PhasesInv, Modes
<1>1. CASE RunBatch
  <2>1. phases' = EmptyBag /\ pc' = "preparing" /\ mode' = mode
    BY <1>1 DEF RunBatch, environment
  <2>2. Told' = {}
    BY <2>1 DEF Told
  <2>. QED  BY <2>1, <2>2 DEF PhasesInv, EmptyBag, Running, Saving
<1>2. CASE PrepareBatch
  <2>1. /\ pc = "preparing" /\ pc' = "executing" /\ mode' = mode
        /\ phases' = phases (+) SetToBag(StartPhases \cup SimulationPhases)
    BY <1>2 DEF PrepareBatch, Timed, environment
  <2>2. Told = {} /\ Told' = StartPhases \cup SimulationPhases
    BY <2>1 DEF Told, StartPhases, SimulationPhases
  <2>3. phases = SetToBag({})
    BY <2>1, <2>2 DEF PhasesInv
  <2>4. phases' = SetToBag({} \cup (StartPhases \cup SimulationPhases))
    BY <2>1, <2>3, ToldOnce, PhasesApart
  <2>. QED  BY <2>1, <2>2, <2>4 DEF PhasesInv, Running, Saving
<1>3. CASE ExecuteBatch
  <2>1. /\ pc = "executing" /\ mode' = mode /\ current_prev_proof' = current_prev_proof
        /\ pc' = IF mode.execute_only THEN "finishing" ELSE "proving"
        /\ phases' = phases (+) SetToBag(ExecutionPhases)
    BY <1>3 DEF ExecuteBatch, Timed, environment, cursor
  <2>2. Told = StartPhases \cup SimulationPhases
    BY <2>1 DEF Told
  <2>3. Executed' = Executed
    BY <2>1 DEF Executed, StartPhases, SimulationPhases, ExecutionPhases, WithoutSetup
  <2>4. Told' = Executed
    BY <2>1, <2>3, <1>m DEF Told
  <2>5. phases' = SetToBag(Executed)
    BY <2>1, <2>2, ToldOnce, PhasesApart DEF PhasesInv, Executed, Running
  <2>. QED  BY <2>1, <2>4, <2>5 DEF PhasesInv, Running, Saving
<1>4. CASE ProveBatch \/ SaveCompressed \/ WrapGroth16 \/ SaveGroth16
  <2>1. mode' = mode /\ current_prev_proof' = current_prev_proof /\ pc \in Saving
    BY <1>4 DEF ProveBatch, SaveCompressed, WrapGroth16, SaveGroth16, environment, cursor, Saving
  <2>2. /\ Executed' = Executed /\ Proved' = Proved /\ Compressed' = Compressed
        /\ Wrapped' = Wrapped
    BY <2>1 DEF Executed, Proved, Compressed, Wrapped, StartPhases, SimulationPhases,
                ExecutionPhases, WithoutSetup
  <2>3. phases = SetToBag(Told) /\ ~mode.execute_only
    BY <2>1 DEF PhasesInv, Running
  <2>4. CASE ProveBatch
    <3>1. /\ pc = "proving" /\ pc' = "saving"
          /\ phases' = phases (+) SetToBag({"prove_compressed",
                         "verify_compressed_public_values", "verify_compressed_proof"})
      BY <2>4 DEF ProveBatch, Timed
    <3>2. Told = Executed /\ Told' = Proved
      BY <3>1, <2>2 DEF Told
    <3>3. phases' = SetToBag(Proved)
      BY <3>1, <3>2, <2>3, ToldOnce, PhasesApart DEF Proved
    <3>. QED  BY <3>1, <3>2, <3>3, <2>1, <2>3 DEF PhasesInv, Running, Saving
  <2>5. CASE SaveCompressed
    <3>1. /\ pc = "saving"
          /\ pc' = IF mode.generate_groth16 THEN "wrapping" ELSE "finishing"
          /\ phases' = phases (+) SetToBag({"save_compressed_proof"})
      BY <2>5 DEF SaveCompressed, Timed
    <3>2. Told = Proved /\ Told' = Compressed
      BY <3>1, <2>1, <2>2, <2>3, <1>m DEF Told
    <3>3. phases' = SetToBag(Compressed)
      BY <3>1, <3>2, <2>3, ToldOnce, PhasesApart DEF Compressed
    <3>. QED  BY <3>1, <3>2, <3>3, <2>1, <2>3 DEF PhasesInv, Running, Saving
  <2>6. CASE WrapGroth16
    <3>1. /\ pc = "wrapping" /\ pc' = "saving_groth16"
          /\ phases' = phases (+) SetToBag({"build_local_node", "shrink_wrap",
                         "build_groth16_artifacts", "build_groth16_witness", "prove_groth16"})
      BY <2>6 DEF WrapGroth16, Timed
    <3>2. Told = Compressed /\ Told' = Wrapped
      BY <3>1, <2>2 DEF Told
    <3>3. phases' = SetToBag(Wrapped)
      BY <3>1, <3>2, <2>3, ToldOnce, PhasesApart DEF Wrapped
    <3>. QED  BY <3>1, <3>2, <3>3, <2>1, <2>3 DEF PhasesInv, Running, Saving
  <2>7. CASE SaveGroth16
    <3>1. /\ pc = "saving_groth16" /\ pc' = "finishing"
          /\ phases' = phases (+) SetToBag({"save_groth16_proof"})
      BY <2>7 DEF SaveGroth16, Timed
    <3>2. mode.generate_groth16
      BY <3>1 DEF PhasesInv
    <3>3. Told = Wrapped /\ Told' = Wrapped \cup {"save_groth16_proof"}
      BY <3>1, <3>2, <2>1, <2>2, <2>3 DEF Told
    <3>4. phases' = SetToBag(Wrapped \cup {"save_groth16_proof"})
      BY <3>1, <3>3, <2>3, ToldOnce, PhasesApart
    <3>. QED  BY <3>1, <3>3, <3>4, <2>1, <2>3 DEF PhasesInv, Running, Saving
  <2>. QED  BY <1>4, <2>4, <2>5, <2>6, <2>7
<1>5. CASE StopAtCount \/ StartBatch \/ PrepareProver \/ NoHeadersRemaining \/ FinishBatch \/ Stop
  <2>1. mode' = mode
    BY <1>5 DEF StopAtCount, StartBatch, PrepareProver, NoHeadersRemaining, FinishBatch, Stop,
                environment
  <2>2. pc' \in {"loop", "setup", "done", "failed"}
    BY <1>5 DEF StopAtCount, StartBatch, PrepareProver, NoHeadersRemaining, FinishBatch, Stop
  <2>3. pc' \notin Running \cup {"preparing"}
    BY <2>2 DEF Running, Saving
  <2>4. pc' \notin Saving /\ pc' \notin {"wrapping", "saving_groth16"}
    BY <2>2 DEF Saving
  <2>5. mode \in Modes
    BY DEF PhasesInv
  <2>6. mode' \in Modes
    BY <2>1, <2>5
  <2>7. (pc \in Running \cup {"preparing"} => phases = SetToBag(Told))'
    BY <2>3
  <2>8. (pc \in {"wrapping", "saving_groth16"} => mode.generate_groth16)'
    BY <2>4
  <2>9. (pc \in Saving => ~mode.execute_only)'
    BY <2>4 DEF Saving
  <2>. QED  BY <2>6, <2>7, <2>8, <2>9 DEF PhasesInv
<1>6. CASE UNCHANGED vars
  <2>1. /\ mode' = mode /\ pc' = pc /\ phases' = phases
        /\ current_prev_proof' = current_prev_proof
    BY <1>6 DEF vars, environment, cursor, statics
  <2>2. Executed' = Executed
    BY <2>1 DEF Executed, StartPhases, SimulationPhases, ExecutionPhases, WithoutSetup
  <2>3. Proved' = Proved /\ Compressed' = Compressed /\ Wrapped' = Wrapped
    BY <2>2 DEF Proved, Compressed, Wrapped
  <2>4. (StartPhases \cup SimulationPhases)' = StartPhases \cup SimulationPhases
    BY DEF StartPhases, SimulationPhases
  <2>5. Told' = Told
    BY <2>1, <2>2, <2>3, <2>4 DEF Told
  <2>. QED  BY <2>1, <2>5 DEF PhasesInv
<1>. QED  BY <1>1, <1>2, <1>3, <1>4, <1>5, <1>6 DEF Next, Work, Refuse, Fail

(* The times told of a batch are its own: each of its phases once, none of *)
(* the batches before it and none of the making of the prover.             *)
THEOREM BreakdownIsExact == Spec => []BreakdownIsOfBatch
<1>1. Init => PhasesInv
  BY SessionAssumption DEF Init, PhasesInv, Running, Saving
<1>2. PhasesInv => BreakdownIsOfBatch
  <2>. SUFFICES ASSUME PhasesInv, pc = "finishing" PROVE BreakdownIsOfBatch
    BY DEF BreakdownIsOfBatch
  <2>m. mode.execute_only \in BOOLEAN /\ mode.generate_groth16 \in BOOLEAN
        /\ (mode.execute_only => ~mode.generate_groth16)
    BY DEF PhasesInv, Modes
  <2>1. phases = SetToBag(Told)
    BY DEF PhasesInv, Running
  <2>2. BagToSet(phases) = Told /\ \A label \in Told : phases[label] = 1
    BY <2>1 DEF BagToSet, SetToBag
  <2>3. Told = IF mode.execute_only THEN Executed
               ELSE IF mode.generate_groth16 THEN Wrapped \cup {"save_groth16_proof"}
                    ELSE Compressed
    BY DEF Told
  <2>4. ASSUME NEW backend \in DOMAIN SetupPhases
        PROVE  SetupPhases[backend] \cap Told = {}
    <3>1. SetupPhases[backend] \subseteq {"build_mock_prover", "setup_vkey", "build_cpu_prover",
                                          "cuda_preflight", "build_cuda_prover"}
      BY DEF SetupPhases
    <3>. QED  BY <3>1, <2>3 DEF Executed, Proved, Compressed, Wrapped, StartPhases,
                                SimulationPhases, ExecutionPhases
  <2>5. /\ "execute_program" \in Told
        /\ "prove_compressed" \in Told <=> ~mode.execute_only
        /\ "prove_groth16" \in Told <=> mode.generate_groth16
    BY <2>3, <2>m DEF Executed, Proved, Compressed, Wrapped, StartPhases,
                      SimulationPhases, ExecutionPhases
  <2>. QED  BY <2>2, <2>4, <2>5 DEF BreakdownIsOfBatch
<1>. QED  BY <1>1, <1>2, NextPhases, PTL DEF Spec

-----------------------------------------------------------------------------
(***************************************************************************)
(* The restart loop.                                                       *)
(***************************************************************************)
(* A restarted process takes a timestamp no file has, and nothing behind   *)
(* it.                                                                     *)
LEMMA RestartSInv ==
  ASSUME SInv, Restart
  PROVE  SInv' /\ session' \in SESSIONS /\ proofs' = proofs
<1>1. /\ pc' = "loop" /\ batches' = <<>> /\ batch_count' = 0
      /\ trusted_start_height' = NoHeight /\ session' = NextSession /\ session' \in SESSIONS
      /\ UNCHANGED <<mode, db_tip, files, proofs>>
  BY DEF Restart, disk
<1>2. batches' \in Seq(Batches) /\ Len(batches') = 0
  BY <1>1
<1>3. session' \in Nat
  BY <1>1, SessionAssumption
<1>4. TypeInv'
  BY <1>1, <1>2, <1>3 DEF SInv, TypeInv, Waiting
<1>5. CursorInv' /\ BatchInv' /\ CountInv' /\ BatchesContiguous'
  BY <1>1, <1>2 DEF CursorInv, BatchInv, CountInv, BatchesContiguous, Waiting, Running, Saving
<1>6. \A p \in files : p.session < session'
  <2>1. session \in Nat /\ \A p \in files : p.session \in Nat /\ p.session <= session
    BY SessionAssumption DEF SInv, TypeInv, FilesInv, Paths
  <2>2. CASE \E p \in files : p.session = session
    <3>1. session' = session + 1
      BY <1>1, <2>2 DEF NextSession
    <3>. QED  BY <2>1, <3>1
  <2>3. CASE ~ \E p \in files : p.session = session
    <3>1. session' = session
      BY <1>1, <2>3 DEF NextSession
    <3>. QED  BY <2>1, <2>3, <3>1
  <2>. QED  BY <2>2, <2>3
<1>7. FilesInv'
  <2>1. \A p \in files : p.session \in Nat
    BY SessionAssumption DEF SInv, TypeInv, Paths
  <2>2. \A p \in files' : p.session <= session' /\ p.session # session'
    BY <1>1, <1>3, <1>6, <2>1
  <2>. QED  BY <2>2 DEF FilesInv
<1>. QED  BY <1>1, <1>4, <1>5, <1>7 DEF SInv

(* A step of a session keeps the past of every proof: a compressed proof   *)
(* that is complete is neither removed nor written over, and a new one     *)
(* rests on the one its batch extends.                                     *)
LEMMA NextKeepsPast ==
  ASSUME SInv, session \in SESSIONS, ProofsHavePast, [Next]_vars
  PROVE  ProofsHavePast'
<1>1. CASE proofs' = proofs
  BY <1>1 DEF ProofsHavePast
<1>2. CASE ProveBatch
  BY <1>1, <1>2, CreateSInv
<1>3. CASE SaveCompressed \/ WrapGroth16 \/ SaveGroth16
  <2>1. /\ \A p \in proofs : ~p.groth16 => p \in proofs'
        /\ proofs' \subseteq proofs \cup {Path(FALSE), Path(TRUE)}
    BY <1>3, SaveSInv
  <2>2. /\ pc \in Saving /\ ~mode.execute_only /\ RestsOnProof
    BY <1>3 DEF SaveCompressed, WrapGroth16, SaveGroth16, SInv, BatchInv, Running, Saving
  <2>3. /\ Path(FALSE).first = batch.height + 1 /\ Path(TRUE).first = batch.height + 1
        /\ batch.height \in Nat
    BY <2>2, PathType, BatchIsPastReached DEF SInv, Running
  <2>4. ASSUME batch.height + 1 > 1
        PROVE  \E q \in proofs' : ~q.groth16 /\ q.end = (batch.height + 1) - 1
    <3>1. batch.height # 0 /\ (batch.height + 1) - 1 = batch.height
      BY <2>3, <2>4
    <3>2. /\ batch.previous_proof \in proofs /\ batch.previous_proof.end = batch.height
          /\ ~batch.previous_proof.groth16
      BY <2>2, <3>1 DEF RestsOnProof, Saving
    <3>. QED  BY <2>1, <3>1, <3>2
  <2>5. ASSUME NEW p \in proofs', p.first > 1
        PROVE  \E q \in proofs' : ~q.groth16 /\ q.end = p.first - 1
    <3>1. CASE p \in proofs
      <4>1. PICK q \in proofs : ~q.groth16 /\ q.end = p.first - 1
        BY <2>5, <3>1 DEF ProofsHavePast
      <4>. QED  BY <4>1, <2>1
    <3>2. CASE p = Path(FALSE) \/ p = Path(TRUE)
      <4>1. p.first = batch.height + 1
        BY <2>3, <3>2
      <4>. QED  BY <4>1, <2>4, <2>5
    <3>. QED  BY <2>1, <3>1, <3>2
  <2>. QED  BY <2>5 DEF ProofsHavePast
<1>4. CASE ~(ProveBatch \/ SaveCompressed \/ WrapGroth16 \/ SaveGroth16)
  <2>1. proofs' = proofs
    BY <1>4 DEF Next, Work, Refuse, Fail, Stop, StopAtCount, StartBatch, PrepareProver, RunBatch,
                PrepareBatch, NoHeadersRemaining, ExecuteBatch, FinishBatch, vars, disk
  <2>. QED  BY <2>1, <1>1
<1>. QED  BY <1>2, <1>3, <1>4

(* However often the host fails, is killed or restarted, and wherever, no  *)
(* complete proof on disk ever loses the one it rests on: the chain of     *)
(* proofs goes back to the genesis block, if the first one does.           *)
THEOREM LoopKeepsPast ==
  ASSUME \A p \in GIVEN \ {NoProof} : p.first = 1
  PROVE  LoopSpec => []ProofsHavePast
<1>. DEFINE Inv == SInv /\ session \in SESSIONS /\ ProofsHavePast
<1>1. LoopInit => Inv
  <2>. SUFFICES ASSUME Init PROVE ProofsHavePast
    BY InitSInv DEF LoopInit
  <2>1. \A p \in proofs : p.first = 1
    BY DEF Init
  <2>. QED  BY <2>1 DEF ProofsHavePast
<1>2. Inv /\ [LoopNext]_loop_vars => Inv'
  <2>. SUFFICES ASSUME Inv, [LoopNext]_loop_vars PROVE Inv'
    OBVIOUS
  <2>1. CASE Restart
    BY <2>1, RestartSInv DEF ProofsHavePast
  <2>2. CASE [Next]_vars
    BY <2>2, NextSInv, NextKeepsPast
  <2>. QED  BY <2>1, <2>2 DEF LoopNext, HostWork, HostFails, Next, loop_vars
<1>. QED  BY <1>1, <1>2, PTL DEF LoopSpec

-----------------------------------------------------------------------------
(***************************************************************************)
(* Names.  The files of a session are ordered by name, and one of them is  *)
(* the last: an order that is strict and total on a finite set has a last  *)
(* element, and names are told apart by the heights in them.               *)
(***************************************************************************)
(* A strict order on a finite set, here the pairs of a set, has an element *)
(* with none after it: what comes after an element shrinks along the order. *)
LEMMA LastInOrder ==
  ASSUME NEW T, IsFiniteSet(T), T # {}, NEW R,
         \A p \in T : <<p, p>> \notin R,
         \A p, q, r \in T : <<p, q>> \in R /\ <<q, r>> \in R => <<p, r>> \in R
  PROVE  \E p \in T : \A q \in T : <<p, q>> \notin R
<1>. DEFINE After(p) == {q \in T : <<p, q>> \in R}
            F == {After(p) : p \in T}
<1>1. F \subseteq FiniteSubsetsOf(T) /\ F # {}
  <2>1. ASSUME NEW p \in T PROVE After(p) \subseteq T /\ IsFiniteSet(After(p))
    <3>1. After(p) \subseteq T
      OBVIOUS
    <3>. HIDE DEF After
    <3>. QED  BY <3>1, FS_Subset
  <2>2. \A p \in T : After(p) \in FiniteSubsetsOf(T)
    <3>. HIDE DEF After
    <3>. QED  BY <2>1 DEF FiniteSubsetsOf
  <2>3. F \subseteq FiniteSubsetsOf(T)
    <3>. HIDE DEF After
    <3>. QED  BY <2>2
  <2>4. F # {}
    <3>. HIDE DEF After
    <3>. QED  OBVIOUS
  <2>. QED  BY <2>3, <2>4
<1>2. PICK X \in F : \A Y \in F : ~(<<Y, X>> \in StrictSubsetOrdering(T))
  BY <1>1, FS_StrictSubsetOrderingWellFounded, WFMin
<1>3. PICK p \in T : X = After(p)
  BY <1>2
<1>4. ASSUME NEW q \in T, <<p, q>> \in R PROVE FALSE
  <2>1. After(q) \subseteq After(p) /\ q \in After(p) /\ q \notin After(q)
        /\ After(q) \subseteq T /\ After(p) \subseteq T
    BY <1>4
  <2>2. <<After(q), After(p)>> \in StrictSubsetOrdering(T)
    <3>. HIDE DEF After
    <3>. QED  BY <2>1 DEF StrictSubsetOrdering
  <2>. QED  BY <1>2, <1>3, <2>2
<1>. QED  BY <1>4

(* A set of numbers that has one has a least one.                          *)
LEMMA LeastNumber ==
  ASSUME NEW S \in SUBSET Nat, NEW n \in S
  PROVE  \E k \in S : \A j \in S : k <= j
<1>. DEFINE T == {k \in S : k <= n}
            R == {x \in T \X T : x[1] > x[2]}
<1>1. IsFiniteSet(T) /\ n \in T
  <2>1. T \subseteq 0..n /\ n \in T
    <3>1. n \in Nat /\ \A k \in S : k \in Nat
      OBVIOUS
    <3>2. n \in T
      BY <3>1
    <3>3. \A k \in T : k \in 0..n
      BY <3>1
    <3>. HIDE DEF T
    <3>. QED  BY <3>2, <3>3
  <2>2. 0 \in Int /\ n \in Int
    OBVIOUS
  <2>3. IsFiniteSet(0..n)
    BY <2>2, FS_Interval
  <2>. HIDE DEF T
  <2>. QED  BY <2>1, <2>3, FS_Subset
<1>2. /\ \A j \in T : <<j, j>> \notin R
      /\ \A i, j, k \in T : <<i, j>> \in R /\ <<j, k>> \in R => <<i, k>> \in R
  OBVIOUS
<1>3. PICK k \in T : \A j \in T : <<k, j>> \notin R
  <2>. HIDE DEF T, R
  <2>. QED  BY <1>1, <1>2, LastInOrder
<1>4. ASSUME NEW j \in S PROVE k <= j
  <2>1. CASE j \in T
    <3>1. <<k, j>> \notin R
      BY <1>3, <2>1
    <3>. QED  BY <2>1, <3>1
  <2>2. CASE j \notin T
    BY <2>2
  <2>. QED  BY <2>1, <2>2
<1>5. k \in S
  OBVIOUS
<1>. HIDE DEF T, R
<1>. QED  BY <1>4, <1>5

(* Induction, with a set in place of a predicate.                          *)
LEMMA SetInduction ==
  ASSUME NEW S, 0 \in S, \A n \in Nat : n \in S => n + 1 \in S
  PROVE  Nat \subseteq S
<1>. SUFFICES ASSUME NEW m \in Nat \ S PROVE FALSE
  OBVIOUS
<1>1. PICK n \in Nat \ S : \A k \in Nat \ S : n <= k
  <2>1. Nat \ S \in SUBSET Nat
    OBVIOUS
  <2>. QED  BY <2>1, LeastNumber
<1>2. n - 1 \in Nat /\ ~(n <= n - 1) /\ (n - 1) + 1 = n
  BY <1>1
<1>. QED  BY <1>1, <1>2

(* The quotient of a division with remainder.                             *)
LEMMA QuotientOf ==
  ASSUME NEW c \in Nat \ {0}, NEW q \in Int, NEW s \in 0 .. c - 1
  PROVE  (c * q + s) \div c = q
  OBVIOUS

(* A digit taken off a quotient leaves the quotient by the next power.     *)
LEMMA NextQuotient ==
  ASSUME NEW n \in Nat, NEW a \in Nat \ {0}, NEW b \in Nat \ {0}
  PROVE  n \div a = b * (n \div (b * a)) + ((n \div a) % b)
<1>. DEFINE x == n \div a
            r == n % a
            y == x \div b
            d == x % b
<1>1. n = a * x + r /\ r \in 0 .. a - 1 /\ x \in Nat
  OBVIOUS
<1>2. x = b * y + d /\ d \in 0 .. b - 1 /\ y \in Nat
  <2>. HIDE DEF x
  <2>. QED  BY <1>1
<1>. HIDE DEF x, r, y, d
<1>. DEFINE ba == b * a
            rest == a * d + r
<1>3. ba \in Nat \ {0} /\ rest \in 0 .. ba - 1
  <2>1. a * d <= a * (b - 1) /\ a * d \in Nat /\ ba \in Nat \ {0}
    BY <1>2
  <2>2. a * (b - 1) = ba - a
    BY SMTT(20)
  <2>3. ba - a \in Int
    BY <2>1
  <2>. DEFINE ad == a * d
  <2>4. ad <= ba - a /\ ad \in Nat
    BY <2>1, <2>2
  <2>. HIDE DEF ad, ba
  <2>5. ad + r \in 0 .. ba - 1
    BY <2>1, <2>4, <1>1
  <2>. QED  BY <2>1, <2>5 DEF ad
<1>4. n = ba * y + rest
  <2>1. a * x = ba * y + a * d
    BY <1>2
  <2>2. ba * y \in Nat /\ a * d \in Nat
    BY <1>2
  <2>. DEFINE ax == a * x
              bay == ba * y
              ad == a * d
  <2>3. ax = bay + ad /\ n = ax + r
    BY <1>1, <2>1
  <2>4. bay \in Nat /\ ad \in Nat
    BY <2>2
  <2>. HIDE DEF ax, bay, ad, rest, ba
  <2>5. n = bay + (ad + r)
    BY <2>3, <2>4, <1>1
  <2>. QED  BY <2>5 DEF bay, ad, rest
<1>5. n \div ba = y
  <2>. HIDE DEF ba, rest
  <2>. QED  BY <1>2, <1>3, <1>4, QuotientOf
<1>. QED  BY <1>2, <1>5 DEF x, d, ba

(* The powers of the radix are positive and pass every height.             *)
LEMMA RadixPowers ==
  \A k \in 0..MAX_HEIGHT : RadixPow[k] \in Nat \ {0} /\ k < RadixPow[k]
<1>. DEFINE S == {k \in Nat : k <= MAX_HEIGHT => RadixPow[k] \in Nat \ {0} /\ k < RadixPow[k]}
<1>1. 0 \in S
  BY LoopAssumption
<1>2. ASSUME NEW k \in Nat, k \in S PROVE k + 1 \in S
  <2>. SUFFICES ASSUME k + 1 <= MAX_HEIGHT
                PROVE  RadixPow[k + 1] \in Nat \ {0} /\ k + 1 < RadixPow[k + 1]
    OBVIOUS
  <2>1. k + 1 \in 1..MAX_HEIGHT /\ (k + 1) - 1 = k /\ k <= MAX_HEIGHT
    BY SessionAssumption
  <2>2. RadixPow[k + 1] = RADIX * RadixPow[k]
    BY <2>1, LoopAssumption
  <2>3. RadixPow[k] \in Nat \ {0} /\ k < RadixPow[k]
    BY <1>2, <2>1
  <2>. DEFINE p == RadixPow[k]
              q == RadixPow[k + 1]
  <2>4. p \in Nat \ {0} /\ k < p /\ q = RADIX * p
    BY <2>2, <2>3
  <2>. HIDE DEF p, q
  <2>5. RADIX \in Nat /\ RADIX >= 2
    BY LoopAssumption
  <2>6. RADIX * p >= 2 * p /\ RADIX * p \in Nat
    BY <2>4, <2>5
  <2>7. q \in Nat \ {0} /\ k + 1 < q
    BY <2>4, <2>6
  <2>. QED  BY <2>7 DEF q
<1>3. Nat \subseteq S
  <2>. HIDE DEF S
  <2>. QED  BY <1>1, <1>2, SetInduction
<1>. QED  BY <1>3, SessionAssumption

(* Every height has a width.                                               *)
LEMMA WidthType ==
  ASSUME NEW n \in 1..MAX_HEIGHT
  PROVE  Width(n) \in 1..MAX_HEIGHT /\ n < RadixPow[Width(n)]
<1>. DEFINE S == {k \in 1..MAX_HEIGHT : n < RadixPow[k]}
<1>1. n \in S /\ S \in SUBSET Nat
  BY RadixPowers, SessionAssumption
<1>2. PICK k \in S : \A j \in S : k <= j
  <2>. HIDE DEF S
  <2>. QED  BY <1>1, LeastNumber
<1>3. k = 1 \/ n >= RadixPow[k - 1]
  <2>. SUFFICES ASSUME k # 1 PROVE n >= RadixPow[k - 1]
    OBVIOUS
  <2>1. k - 1 \in 1..MAX_HEIGHT /\ ~(k <= k - 1)
    BY <1>2, SessionAssumption
  <2>2. ~(n < RadixPow[k - 1])
    BY <1>2, <2>1
  <2>3. RadixPow[k - 1] \in Nat
    BY <2>1, RadixPowers, SessionAssumption
  <2>. QED  BY <2>2, <2>3, SessionAssumption
<1>4. \E w \in 1..MAX_HEIGHT : n < RadixPow[w] /\ (w = 1 \/ n >= RadixPow[w - 1])
  BY <1>2, <1>3
<1>. QED  BY <1>4 DEF Width

(* Digits are numbers below the radix.                                     *)
LEMMA DigitsType ==
  ASSUME NEW n \in 1..MAX_HEIGHT
  PROVE  /\ Digits(n) \in Seq(0 .. RADIX - 1) /\ Digits(n) \in Seq(Nat)
         /\ Len(Digits(n)) = Width(n)
         /\ \A i \in 1..Width(n) :
              Digits(n)[i] = (n \div RadixPow[Width(n) - i]) % RADIX
<1>1. Width(n) \in 1..MAX_HEIGHT /\ MAX_HEIGHT \in Nat
  BY WidthType, SessionAssumption
<1>2. ASSUME NEW i \in 1..Width(n)
      PROVE  (n \div RadixPow[Width(n) - i]) % RADIX \in 0 .. RADIX - 1
  <2>1. Width(n) - i \in 0..MAX_HEIGHT
    BY <1>1
  <2>2. RadixPow[Width(n) - i] \in Nat \ {0}
    BY <2>1, RadixPowers
  <2>. DEFINE p == RadixPow[Width(n) - i]
  <2>3. p \in Nat \ {0} /\ n \in Nat
    BY <2>2, <1>1
  <2>. HIDE DEF p
  <2>4. n \div p \in Int /\ RADIX \in Nat \ {0}
    BY <2>3, LoopAssumption
  <2>5. (n \div p) % RADIX \in 0 .. RADIX - 1
    BY <2>4
  <2>. QED  BY <2>5 DEF p
<1>3. \A i \in 1..Width(n) : (n \div RadixPow[Width(n) - i]) % RADIX \in Nat
  <2>1. \A x \in 0 .. RADIX - 1 : x \in Nat
    BY LoopAssumption
  <2>. QED  BY <1>2, <2>1
<1>. DEFINE w == Width(n)
            d(i) == (n \div RadixPow[w - i]) % RADIX
<1>4. /\ Digits(n) = [i \in 1..w |-> d(i)] /\ w \in Nat
      /\ \A i \in 1..w : d(i) \in 0 .. RADIX - 1 /\ d(i) \in Nat
  BY <1>1, <1>2, <1>3 DEF Digits
<1>. HIDE DEF w, d
<1>5. /\ Digits(n) \in Seq(0 .. RADIX - 1) /\ Digits(n) \in Seq(Nat) /\ Len(Digits(n)) = w
      /\ \A i \in 1..w : Digits(n)[i] = d(i)
  BY <1>4
<1>. QED  BY <1>5 DEF w, d

(* The digits determine the height: from the first digit on, they give the *)
(* quotient by the power of the place.                                     *)
LEMMA DigitsDiffer ==
  ASSUME NEW m \in 1..MAX_HEIGHT, NEW n \in 1..MAX_HEIGHT, Digits(m) = Digits(n)
  PROVE  m = n
<1>. DEFINE w == Width(n)
            Q(x, k) == x \div RadixPow[w - k]
            S == {k \in Nat : k <= w => Q(m, k) = Q(n, k)}
<1>1. Width(m) = w
  BY DigitsType
<1>2. w \in 1..MAX_HEIGHT /\ m < RadixPow[w] /\ n < RadixPow[w] /\ MAX_HEIGHT \in Nat
  BY <1>1, WidthType, SessionAssumption
<1>3. m \in Nat /\ n \in Nat
  BY SessionAssumption
<1>4. 0 \in S
  <2>1. RadixPow[w] \in Nat \ {0} /\ w - 0 = w
    BY <1>2, RadixPowers
  <2>. DEFINE p == RadixPow[w]
  <2>2. p \in Nat \ {0} /\ m < p /\ n < p
    BY <2>1, <1>2
  <2>. HIDE DEF p
  <2>3. \A x \in 0 .. p - 1 : x \div p = 0
    <3>1. ASSUME NEW x \in 0 .. p - 1 PROVE x \div p = 0
      <4>1. p * 0 + x = x
        BY <2>2
      <4>. QED  BY <2>2, <4>1, QuotientOf
    <3>. QED  BY <3>1
  <2>4. m \div p = 0 /\ n \div p = 0
    BY <2>2, <2>3, <1>3
  <2>. QED  BY <2>1, <2>4 DEF p
<1>5. ASSUME NEW k \in Nat, k \in S PROVE k + 1 \in S
  <2>. SUFFICES ASSUME k + 1 <= w PROVE Q(m, k + 1) = Q(n, k + 1)
    OBVIOUS
  <2>1. Q(m, k) = Q(n, k)
    BY <1>2, <1>5
  <2>2. k + 1 \in 1..w /\ w - (k + 1) \in 0..MAX_HEIGHT
        /\ w - k \in 1..MAX_HEIGHT /\ (w - k) - 1 = w - (k + 1)
    BY <1>2
  <2>3. RadixPow[w - k] = RADIX * RadixPow[w - (k + 1)]
        /\ RadixPow[w - (k + 1)] \in Nat \ {0}
    BY <2>2, RadixPowers, LoopAssumption
  <2>4. Q(m, k + 1) % RADIX = Q(n, k + 1) % RADIX
    BY <1>1, <2>2, DigitsType
  <2>5. \A x \in Nat : Q(x, k + 1) = RADIX * Q(x, k) + (Q(x, k + 1) % RADIX)
    <3>1. RADIX \in Nat \ {0}
      BY LoopAssumption
    <3>. DEFINE a == RadixPow[w - (k + 1)]
                b == RadixPow[w - k]
    <3>2. a \in Nat \ {0} /\ b = RADIX * a
      BY <2>3
    <3>. HIDE DEF a, b
    <3>3. \A x \in Nat : x \div a = RADIX * (x \div b) + ((x \div a) % RADIX)
      BY <3>1, <3>2, NextQuotient
    <3>. QED  BY <3>3 DEF a, b
  <2>. HIDE DEF Q
  <2>. QED  BY <1>3, <2>1, <2>4, <2>5
<1>6. w \in S
  <2>1. Nat \subseteq S
    <3>. HIDE DEF S
    <3>. QED  BY <1>4, <1>5, SetInduction
  <2>2. w \in Nat
    BY <1>2
  <2>. QED  BY <2>1, <2>2
<1>7. w - w = 0 /\ RadixPow[0] = 1
  BY <1>2, LoopAssumption
<1>8. m \div 1 = n \div 1
  BY <1>2, <1>6, <1>7
<1>. QED  BY <1>3, <1>8

(* Names sort as words do: none before itself.                             *)
LEMMA SortIrreflexive ==
  ASSUME NEW a \in Seq(Nat)
  PROVE  ~SortsBefore(a, a)
<1>1. Len(a) \in Nat /\ \A i \in 1..Len(a) : a[i] \in Nat
  OBVIOUS
<1>. QED  BY <1>1 DEF SortsBefore

(* What sorts before a name sorts before all after it.                     *)
LEMMA SortTransitive ==
  ASSUME NEW a \in Seq(Nat), NEW b \in Seq(Nat), NEW c \in Seq(Nat),
         SortsBefore(a, b), SortsBefore(b, c)
  PROVE  SortsBefore(a, c)
<1>1. /\ Len(a) \in Nat /\ Len(b) \in Nat /\ Len(c) \in Nat
      /\ \A i \in 1..Len(a) : a[i] \in Nat
      /\ \A i \in 1..Len(b) : b[i] \in Nat
      /\ \A i \in 1..Len(c) : c[i] \in Nat
  OBVIOUS
<1>. DEFINE Prefix(x, y) == Len(x) < Len(y) /\ \A j \in 1..Len(x) : x[j] = y[j]
            Diff(x, y, i) == /\ i <= Len(y) /\ x[i] < y[i]
                             /\ \A j \in 1..i - 1 : x[j] = y[j]
<1>2. CASE Prefix(a, b) /\ Prefix(b, c)
  <2>1. Prefix(a, c)
    BY <1>1, <1>2
  <2>. QED  BY <2>1 DEF SortsBefore
<1>3. ASSUME Prefix(a, b), NEW k \in 1..Len(b), Diff(b, c, k) PROVE SortsBefore(a, c)
  <2>1. CASE k <= Len(a)
    <3>1. k \in 1..Len(a) /\ k <= Len(c) /\ a[k] < c[k]
      BY <1>1, <1>3, <2>1
    <3>2. \A j \in 1..k - 1 : a[j] = c[j]
      BY <1>1, <1>3, <2>1
    <3>. QED  BY <3>1, <3>2 DEF SortsBefore
  <2>2. CASE k > Len(a)
    <3>1. Len(a) < Len(c)
      BY <1>1, <1>3, <2>2
    <3>2. \A j \in 1..Len(a) : a[j] = c[j]
      BY <1>1, <1>3, <2>2
    <3>. QED  BY <3>1, <3>2 DEF SortsBefore
  <2>. QED  BY <1>1, <2>1, <2>2
<1>4. ASSUME NEW i \in 1..Len(a), Diff(a, b, i), Prefix(b, c) PROVE SortsBefore(a, c)
  <2>1. i \in 1..Len(b) /\ i <= Len(c) /\ a[i] < c[i]
    BY <1>1, <1>4
  <2>2. \A j \in 1..i - 1 : a[j] = c[j]
    BY <1>1, <1>4, <2>1
  <2>. QED  BY <2>1, <2>2 DEF SortsBefore
<1>5. ASSUME NEW i \in 1..Len(a), Diff(a, b, i), NEW k \in 1..Len(b), Diff(b, c, k)
      PROVE  SortsBefore(a, c)
  <2>1. i \in 1..Len(b) /\ k \in 1..Len(c) /\ i \in Nat /\ k \in Nat
    BY <1>1, <1>5
  <2>2. CASE i < k
    <3>1. i <= Len(c) /\ b[i] = c[i]
      BY <1>1, <1>5, <2>1, <2>2
    <3>2. a[i] < c[i]
      BY <1>5, <3>1
    <3>3. \A j \in 1..i - 1 : a[j] = c[j]
      BY <1>5, <2>1, <2>2
    <3>. QED  BY <3>1, <3>2, <3>3 DEF SortsBefore
  <2>3. CASE k < i
    <3>1. k \in 1..Len(a) /\ k <= Len(c) /\ a[k] = b[k]
      BY <1>1, <1>5, <2>1, <2>3
    <3>2. a[k] < c[k]
      BY <1>5, <3>1
    <3>3. \A j \in 1..k - 1 : a[j] = c[j]
      BY <1>5, <2>1, <2>3
    <3>. QED  BY <3>1, <3>2, <3>3 DEF SortsBefore
  <2>4. CASE i = k
    <3>1. i <= Len(c) /\ a[i] < c[i]
      BY <1>1, <1>5, <2>1, <2>4
    <3>2. \A j \in 1..i - 1 : a[j] = c[j]
      BY <1>5, <2>4
    <3>. QED  BY <3>1, <3>2 DEF SortsBefore
  <2>. QED  BY <2>1, <2>2, <2>3, <2>4
<1>. QED  BY <1>2, <1>3, <1>4, <1>5 DEF SortsBefore

(* Of two different names, one sorts first.                                *)
LEMMA SortTotal ==
  ASSUME NEW a \in Seq(Nat), NEW b \in Seq(Nat), a # b
  PROVE  SortsBefore(a, b) \/ SortsBefore(b, a)
<1>1. /\ Len(a) \in Nat /\ Len(b) \in Nat
      /\ \A i \in 1..Len(a) : a[i] \in Nat
      /\ \A i \in 1..Len(b) : b[i] \in Nat
  OBVIOUS
<1>. DEFINE S == {i \in 1..Len(a) : i <= Len(b) /\ a[i] # b[i]}
<1>2. CASE S = {}
  <2>1. \A j \in 1..Len(a) : j <= Len(b) => a[j] = b[j]
    BY <1>2
  <2>2. Len(a) # Len(b)
    <3>. SUFFICES ASSUME Len(a) = Len(b) PROVE FALSE
      OBVIOUS
    <3>1. \A j \in 1..Len(a) : a[j] = b[j]
      BY <1>1, <2>1
    <3>. QED  BY <3>1
  <2>3. CASE Len(a) < Len(b)
    <3>1. \A j \in 1..Len(a) : a[j] = b[j]
      BY <1>1, <2>1, <2>3
    <3>. QED  BY <2>3, <3>1 DEF SortsBefore
  <2>4. CASE Len(b) < Len(a)
    <3>1. \A j \in 1..Len(b) : b[j] = a[j]
      BY <1>1, <2>1, <2>4
    <3>. QED  BY <2>4, <3>1 DEF SortsBefore
  <2>. QED  BY <1>1, <2>2, <2>3, <2>4
<1>3. CASE S # {}
  <2>1. PICK i \in S : \A j \in S : i <= j
    <3>1. S \in SUBSET Nat
      BY <1>1
    <3>. HIDE DEF S
    <3>. QED  BY <1>3, <3>1, LeastNumber
  <2>2. /\ i \in 1..Len(a) /\ i \in 1..Len(b) /\ i \in Nat /\ a[i] # b[i]
        /\ i <= Len(a) /\ i <= Len(b)
    BY <1>1
  <2>3. ASSUME NEW j \in 1..i - 1 PROVE a[j] = b[j]
    <3>1. j \in 1..Len(a) /\ j <= Len(b) /\ ~(i <= j)
      BY <1>1, <2>2
    <3>. QED  BY <2>1, <3>1
  <2>4. a[i] < b[i] \/ b[i] < a[i]
    BY <1>1, <2>2
  <2>. HIDE DEF S
  <2>. QED  BY <2>2, <2>3, <2>4 DEF SortsBefore
<1>. QED  BY <1>2, <1>3

(* The parts of a name: the digits of the two heights, with a mark, past   *)
(* all digits, between them.                                               *)
LEMMA NameParts ==
  ASSUME NEW p \in Paths, ~p.groth16
  PROVE  /\ Name(p) \in Seq(Nat)
         /\ Len(Name(p)) = Width(p.first) + 1 + Width(p.end)
         /\ \A i \in 1..Width(p.first) : Name(p)[i] = Digits(p.first)[i]
         /\ Name(p)[Width(p.first) + 1] = RADIX
         /\ \A i \in 1..Width(p.end) :
              Name(p)[Width(p.first) + 1 + i] = Digits(p.end)[i]
<1>. DEFINE D == Digits(p.first)
            E == Digits(p.end)
<1>1. /\ D \in Seq(Nat) /\ Len(D) = Width(p.first)
      /\ E \in Seq(Nat) /\ Len(E) = Width(p.end)
  <2>1. p.first \in 1..MAX_HEIGHT /\ p.end \in 1..MAX_HEIGHT
    BY DEF Paths
  <2>. QED  BY <2>1, DigitsType
<1>2. Name(p) = ((D \o <<RADIX>>) \o E) \o <<>>
  BY DEF Name
<1>3. RADIX \in Nat
  BY LoopAssumption
<1>. HIDE DEF D, E
<1>. DEFINE F == D \o <<RADIX>>
            G == F \o E
<1>4. /\ F \in Seq(Nat) /\ Len(F) = Len(D) + 1
      /\ \A i \in 1..Len(D) : F[i] = D[i]
      /\ F[Len(D) + 1] = RADIX
  BY <1>1, <1>3
<1>. HIDE DEF F
<1>5. /\ G \in Seq(Nat) /\ Len(G) = Len(F) + Len(E)
      /\ \A i \in 1..Len(F) : G[i] = F[i]
      /\ \A i \in 1..Len(E) : G[Len(F) + i] = E[i]
  <2>1. E \in Seq(Nat) /\ F \in Seq(Nat)
    BY <1>1, <1>4
  <2>2. G \in Seq(Nat) /\ Len(G) = Len(F) + Len(E)
    BY <2>1
  <2>3. \A i \in 1..Len(F) : G[i] = F[i]
    BY <2>1
  <2>4. \A i \in 1..Len(E) : G[Len(F) + i] = E[i]
    BY <2>1
  <2>. QED  BY <2>2, <2>3, <2>4
<1>6. G \o <<>> = G
  <2>. HIDE DEF G
  <2>. QED  BY <1>5
<1>7. Name(p) = G
  BY <1>2, <1>6 DEF F
<1>. HIDE DEF G
<1>8. Len(D) \in Nat /\ Len(E) \in Nat
  BY <1>1
<1>9. \A i \in 1..Len(D) : i \in 1..Len(F)
  BY <1>4, <1>8
<1>10. Len(D) + 1 \in 1..Len(F)
  BY <1>4, <1>8
<1>. QED  BY <1>1, <1>4, <1>5, <1>7, <1>8, <1>9, <1>10 DEF D, E

(* Two compressed files of a session have different names.                 *)
LEMMA NamesDiffer ==
  ASSUME NEW p \in Paths, NEW q \in Paths, ~p.groth16, ~q.groth16,
         p.session = q.session, Name(p) = Name(q)
  PROVE  p = q
<1>. DEFINE W(x) == Width(x.first)
            V(x) == Width(x.end)
<1>1. \A x \in Paths : x.first \in 1..MAX_HEIGHT /\ x.end \in 1..MAX_HEIGHT
  BY DEF Paths
<1>2. \A x \in Paths : W(x) \in Nat /\ W(x) >= 1 /\ V(x) \in Nat /\ V(x) >= 1
  BY <1>1, WidthType, SessionAssumption
<1>3. \A x \in Paths : \A i \in 1..W(x) : Digits(x.first)[i] # RADIX
  <2>1. ASSUME NEW x \in Paths, NEW i \in 1..W(x) PROVE Digits(x.first)[i] # RADIX
    <3>1. Digits(x.first) \in Seq(0 .. RADIX - 1) /\ Len(Digits(x.first)) = W(x)
      BY <1>1, DigitsType
    <3>. DEFINE s == Digits(x.first)
                D == 0 .. RADIX - 1
    <3>2. s \in Seq(D) /\ i \in 1..Len(s)
      BY <3>1
    <3>3. s[i] \in D
      <4>. HIDE DEF s, D
      <4>. QED  BY <3>2
    <3>4. s[i] \in 0 .. RADIX - 1
      BY <3>3
    <3>. QED  BY <3>4, LoopAssumption
  <2>. QED  BY <2>1
<1>4. ASSUME NEW x \in Paths, NEW y \in Paths, ~x.groth16, ~y.groth16, Name(x) = Name(y),
             W(x) < W(y)
      PROVE  FALSE
  <2>1. Name(x)[W(x) + 1] = RADIX
    BY <1>4, NameParts
  <2>2. W(x) + 1 \in 1..W(y)
    BY <1>2, <1>4
  <2>3. Name(y)[W(x) + 1] = Digits(y.first)[W(x) + 1]
    BY <1>4, <2>2, NameParts
  <2>. QED  BY <1>3, <1>4, <2>1, <2>2, <2>3
<1>5. W(p) = W(q)
  <2>1. ~(W(p) < W(q)) /\ ~(W(q) < W(p))
    BY <1>4
  <2>. HIDE DEF W
  <2>. QED  BY <1>2, <2>1
<1>6. p.first = q.first
  <2>1. /\ \A i \in 1..W(p) : Digits(p.first)[i] = Digits(q.first)[i]
    BY <1>5, NameParts
  <2>2. /\ Digits(p.first) \in Seq(Nat) /\ Len(Digits(p.first)) = W(p)
        /\ Digits(q.first) \in Seq(Nat) /\ Len(Digits(q.first)) = W(p)
    BY <1>1, <1>5, DigitsType
  <2>3. Digits(p.first) = Digits(q.first)
    BY <2>1, <2>2
  <2>. QED  BY <1>1, <2>3, DigitsDiffer
<1>7. p.end = q.end
  <2>1. V(p) = V(q)
    <3>1. W(p) + 1 + V(p) = W(q) + 1 + V(q)
      BY NameParts
    <3>. HIDE DEF W, V
    <3>. QED  BY <1>2, <1>5, <3>1
  <2>2. \A i \in 1..V(p) : Digits(p.end)[i] = Digits(q.end)[i]
    BY <1>5, <2>1, NameParts
  <2>3. /\ Digits(p.end) \in Seq(Nat) /\ Len(Digits(p.end)) = V(p)
        /\ Digits(q.end) \in Seq(Nat) /\ Len(Digits(q.end)) = V(p)
    BY <1>1, <2>1, DigitsType
  <2>4. Digits(p.end) = Digits(q.end)
    BY <2>2, <2>3
  <2>. QED  BY <1>1, <2>4, DigitsDiffer
<1>8. p.groth16 \in BOOLEAN /\ q.groth16 \in BOOLEAN
  BY DEF Paths
<1>. QED  BY <1>6, <1>7, <1>8 DEF Paths

(* Whatever an earlier session left behind, the file that sorts last is of *)
(* the last session that has a compressed proof.                           *)
LEMMA LatestIsOfSession ==
  ASSUME files \subseteq Paths, NEW s \in SESSIONS,
         \A p \in files : p.session <= s,
         \E p \in CompressedFiles : p.session = s
  PROVE  LATEST \in CompressedFiles /\ LATEST.session = s
<1>. DEFINE T == {p \in CompressedFiles : p.session = s}
            R == {x \in T \X T : PathBefore(x[1], x[2])}
            H == (1..MAX_HEIGHT) \X (1..MAX_HEIGHT)
            f == [p \in T |-> <<p.first, p.end>>]
<1>1. /\ CompressedFiles \subseteq Paths /\ \A p \in CompressedFiles : ~p.groth16
      /\ \A p \in CompressedFiles : p.session \in Nat /\ p.session <= s
      /\ s \in Nat
  BY SessionAssumption DEF CompressedFiles, Paths
<1>2. \A p \in CompressedFiles : Name(p) \in Seq(Nat)
  BY <1>1, NameParts
<1>3. IsFiniteSet(T)
  <2>1. IsFiniteSet(1..MAX_HEIGHT)
    BY SessionAssumption, FS_Interval
  <2>2. IsFiniteSet(H)
    BY <2>1, FS_Product
  <2>3. f \in [T -> H]
    BY <1>1 DEF Paths
  <2>4. ASSUME NEW p \in T, NEW q \in T, f[p] = f[q] PROVE p = q
    <3>1. p \in Paths /\ q \in Paths /\ ~p.groth16 /\ ~q.groth16 /\ p.session = q.session
      BY <1>1
    <3>2. p.first = q.first /\ p.end = q.end
      BY <2>4
    <3>. QED  BY <3>1, <3>2 DEF Paths
  <2>. HIDE DEF H, f, T
  <2>5. f \in Injection(T, H)
    BY <2>3, <2>4 DEF Injection, IsInjective
  <2>. QED  BY <2>2, <2>5, FS_Injection
<1>4. T # {}
  OBVIOUS
<1>5. /\ \A p \in T : <<p, p>> \notin R
      /\ \A p, q, r \in T : <<p, q>> \in R /\ <<q, r>> \in R => <<p, r>> \in R
  <2>1. \A p \in T : p \in CompressedFiles /\ p.session = s
    OBVIOUS
  <2>2. \A p, q \in T : PathBefore(p, q) <=> SortsBefore(Name(p), Name(q))
    BY <1>1, <2>1 DEF PathBefore
  <2>3. \A p, q \in T : <<p, q>> \in R <=> SortsBefore(Name(p), Name(q))
    BY <2>2
  <2>4. \A p \in T : Name(p) \in Seq(Nat)
    BY <1>2, <2>1
  <2>. HIDE DEF T, R
  <2>5. \A p \in T : ~SortsBefore(Name(p), Name(p))
    BY <2>4, SortIrreflexive
  <2>6. \A p, q, r \in T : SortsBefore(Name(p), Name(q)) /\ SortsBefore(Name(q), Name(r))
                             => SortsBefore(Name(p), Name(r))
    BY <2>4, SortTransitive
  <2>. QED  BY <2>3, <2>5, <2>6
<1>6. PICK l \in T : \A q \in T : <<l, q>> \notin R
  <2>. HIDE DEF T, R
  <2>. QED  BY <1>3, <1>4, <1>5, LastInOrder
<1>7. l \in CompressedFiles /\ l.session = s
  OBVIOUS
<1>8. ASSUME NEW q \in CompressedFiles \ {l} PROVE PathBefore(q, l)
  <2>1. CASE q.session = s
    <3>1. q \in T
      BY <2>1
    <3>2. ~PathBefore(l, q)
      BY <1>6, <3>1
    <3>3. ~SortsBefore(Name(l), Name(q))
      BY <1>7, <2>1, <3>2 DEF PathBefore
    <3>4. Name(l) # Name(q)
      BY <1>1, <1>7, <2>1, NamesDiffer
    <3>5. SortsBefore(Name(q), Name(l))
      BY <1>2, <1>7, <3>3, <3>4, SortTotal
    <3>. QED  BY <1>7, <2>1, <3>5 DEF PathBefore
  <2>2. CASE q.session # s
    <3>1. q.session < s
      BY <1>1, <2>2
    <3>. QED  BY <1>7, <3>1 DEF PathBefore
  <2>. QED  BY <2>1, <2>2
<1>9. LATEST \in CompressedFiles /\ \A q \in CompressedFiles \ {LATEST} : PathBefore(q, LATEST)
  BY <1>7, <1>8 DEF LATEST
<1>10. LATEST.session = s
  <2>. DEFINE L == LATEST
  <2>. HIDE DEF L
  <2>1. CASE l = L
    BY <1>7, <2>1 DEF L
  <2>2. CASE l # L
    <3>1. PathBefore(l, L)
      BY <1>7, <1>9, <2>2 DEF L
    <3>2. s < L.session \/ s = L.session
      BY <1>7, <3>1 DEF PathBefore
    <3>3. L.session \in Nat /\ L.session <= s
      BY <1>1, <1>9 DEF L
    <3>4. L.session = s
      BY <1>1, <3>2, <3>3
    <3>. QED  BY <3>4 DEF L
  <2>. QED  BY <2>1, <2>2
<1>. QED  BY <1>9, <1>10

-----------------------------------------------------------------------------
(* The height the last session with files resumed from, and where all that *)
(* comes after it stands: the files of this session end past it, and while *)
(* there are none, the file that sorts last is still the one it resumed    *)
(* from.                                                                   *)
LastResumed == resumed[Len(resumed)]

ResumeInv ==
  /\ resumed \in Seq(Nat) /\ resumed # <<>>
  /\ ResumeNeverFallsBack
  /\ \A p \in files : p.session = session /\ ~p.groth16 => LastResumed <= p.end
  /\ (\E p \in files : p.session = session) => \E p \in CompressedFiles : p.session = session
  /\ (\A p \in files : p.session # session) => Height(LATEST) = LastResumed
  /\ pc \in Waiting =>
       IF batches = <<>> THEN Height(current_prev_proof) = LastResumed
       ELSE LastResumed <= Reached
  /\ pc \in Running => LastResumed <= batch.height

(* The file that sorts last depends on the files alone.                    *)
LEMMA LatestUnchanged ==
  ASSUME UNCHANGED files
  PROVE  LATEST' = LATEST /\ CompressedFiles' = CompressedFiles
<1>1. CompressedFiles' = CompressedFiles
  BY DEF CompressedFiles
<1>. QED  BY <1>1 DEF LATEST, PathBefore, SortsBefore, Name, Digits, Width

(* A batch is prepared at the cursor, which is not below.                  *)
LEMMA PrepareAbove ==
  ASSUME SInv, ResumeInv, PrepareBatch
  PROVE  LastResumed <= start_height
<1>1. pc = "preparing" /\ CanResume
  BY DEF PrepareBatch
<1>2. /\ start_height \in 0..db_tip
      /\ batches # <<>> => start_height = Reached
      /\ current_prev_proof # NoProof => start_height = current_prev_proof.end
  BY <1>1, StartOfBatch DEF SInv
<1>3. LastResumed \in Nat /\ db_tip \in Nat
  BY SessionAssumption DEF SInv, TypeInv, ResumeInv, LastResumed
<1>. HIDE DEF LastResumed
<1>4. CASE batches # <<>>
  BY <1>1, <1>2, <1>4 DEF ResumeInv, Waiting
<1>5. CASE batches = <<>>
  <2>1. Height(current_prev_proof) = LastResumed
    BY <1>1, <1>5 DEF ResumeInv, Waiting
  <2>. QED  BY <1>2, <1>3, <2>1 DEF Height
<1>. QED  BY <1>4, <1>5

(* No step of a session loses ground.                                      *)
LEMMA NextResume ==
  ASSUME SInv, session \in SESSIONS, ResumeInv, [Next]_vars, resumed' = resumed
  PROVE  ResumeInv'
<1>1. /\ resumed' \in Seq(Nat) /\ resumed' # <<>> /\ ResumeNeverFallsBack'
      /\ LastResumed' = LastResumed /\ LastResumed \in Nat
  BY DEF ResumeInv, ResumeNeverFallsBack, LastResumed
<1>. HIDE DEF LastResumed
<1>2. session' = session
  BY NextSInv
<1>3. ASSUME UNCHANGED files
      PROVE  /\ \A p \in files' : p.session = session' /\ ~p.groth16 => LastResumed' <= p.end
             /\ (\E p \in files' : p.session = session')
                  => \E p \in CompressedFiles' : p.session = session'
             /\ (\A p \in files' : p.session # session') => Height(LATEST)' = LastResumed'
  <2>1. LATEST' = LATEST /\ CompressedFiles' = CompressedFiles
    BY <1>3, LatestUnchanged
  <2>2. Height(LATEST)' = Height(LATEST)
    BY <2>1 DEF Height
  <2>. QED  BY <1>1, <1>2, <1>3, <2>1, <2>2 DEF ResumeInv
<1>4. CASE PrepareBatch
  <2>1. pc' = "executing" /\ files' = files /\ batch'.height = start_height
    BY <1>4 DEF PrepareBatch, disk
  <2>2. LastResumed <= start_height
    BY <1>4, PrepareAbove
  <2>. QED  BY <1>1, <1>3, <2>1, <2>2 DEF ResumeInv, Waiting
<1>5. CASE FinishBatch
  <2>1. /\ pc = "finishing" /\ pc' = "loop" /\ files' = files
        /\ batches' = Append(batches, batch)
    BY <1>5 DEF FinishBatch, disk
  <2>2. batches \in Seq(Batches) /\ batch \in Batches
    BY <2>1 DEF SInv, TypeInv, BatchInv, Running
  <2>3. batches' # <<>> /\ Reached' = batch.end_height
    BY <2>1, <2>2, LastOfAppend DEF Reached, LastBatch
  <2>4. LastResumed <= batch.height
    BY <2>1 DEF ResumeInv, Running
  <2>5. batch.height \in Nat /\ batch.end_height \in Nat /\ batch.height < batch.end_height
    <3>1. db_tip \in Nat
      BY SessionAssumption DEF SInv, TypeInv
    <3>2. batch.height \in Nat /\ batch.end_height \in batch.height + 1 .. db_tip
      BY <2>1 DEF SInv, BatchInv, Batches, Running
    <3>. QED  BY <3>1, <3>2
  <2>6. LastResumed <= batch.end_height
    BY <1>1, <2>4, <2>5
  <2>. QED  BY <1>1, <1>3, <2>1, <2>3, <2>6 DEF ResumeInv, Waiting, Running, Saving
<1>6. CASE ProveBatch \/ WrapGroth16
  <2>1. /\ pc \in Running /\ pc' \in Running \ Waiting
        /\ UNCHANGED <<batch, batches>>
        /\ ProveBatch => files' = files \cup {Path(FALSE)}
        /\ WrapGroth16 => files' = files \cup {Path(TRUE)} /\ Path(FALSE) \in files
    <3>1. CASE ProveBatch
      <4>1. ~WrapGroth16
        BY <3>1 DEF ProveBatch, WrapGroth16
      <4>. QED  BY <3>1, <4>1 DEF ProveBatch, Create, Running, Saving, Waiting
    <3>2. CASE WrapGroth16
      <4>1. ~ProveBatch
        BY <3>2 DEF ProveBatch, WrapGroth16
      <4>2. Path(FALSE) \in files
        BY <3>2 DEF WrapGroth16, SInv, TypeInv, BatchInv, Running, Saving
      <4>. QED  BY <3>2, <4>1, <4>2 DEF WrapGroth16, Create, Running, Saving, Waiting
    <3>. QED  BY <1>6, <3>1, <3>2
  <2>2. /\ Path(FALSE).session = session /\ Path(TRUE).session = session
        /\ Path(FALSE).end = batch.end_height
        /\ ~Path(FALSE).groth16 /\ Path(TRUE).groth16
    BY <2>1, PathType, PathForm DEF SInv
  <2>3. LastResumed <= batch.end_height
    <3>1. LastResumed <= batch.height
      BY <2>1 DEF ResumeInv
    <3>2. batch.height \in Nat /\ batch.end_height \in batch.height + 1 .. db_tip /\ db_tip \in Nat
      BY <2>1, SessionAssumption DEF SInv, TypeInv, BatchInv, Batches
    <3>. QED  BY <1>1, <3>1, <3>2
  <2>. DEFINE compressed == Path(FALSE)
              groth      == Path(TRUE)
  <2>4. /\ files' = files \cup {compressed} \/ files' = files \cup {groth}
        /\ compressed \in files'
    BY <1>6, <2>1
  <2>5. /\ compressed.session = session /\ groth.session = session
        /\ compressed.end = batch.end_height /\ ~compressed.groth16 /\ groth.groth16
    BY <2>2
  <2>. HIDE DEF compressed, groth
  <2>6. \A p \in files' : p.session = session' /\ ~p.groth16 => LastResumed' <= p.end
    <3>1. \A p \in files : p.session = session /\ ~p.groth16 => LastResumed <= p.end
      BY DEF ResumeInv
    <3>. QED  BY <1>1, <1>2, <2>3, <2>4, <2>5, <3>1
  <2>7. compressed \in CompressedFiles' /\ compressed.session = session'
    BY <1>2, <2>4, <2>5 DEF CompressedFiles
  <2>8. LastResumed' <= batch'.height
    BY <1>1, <2>1 DEF ResumeInv
  <2>. QED  BY <1>1, <2>1, <2>4, <2>6, <2>7, <2>8 DEF ResumeInv
<1>7. CASE ~(PrepareBatch \/ FinishBatch \/ ProveBatch \/ WrapGroth16)
  <2>1. UNCHANGED files
    BY <1>7 DEF Next, Work, Refuse, Fail, Stop, StopAtCount, StartBatch, PrepareProver, RunBatch,
                NoHeadersRemaining, ExecuteBatch, SaveCompressed, SaveGroth16, Write, vars, disk
  <2>2. /\ UNCHANGED <<current_prev_proof, batch, batches>> 
        /\ pc' \in Waiting => pc \in Waiting
        /\ pc' \in Running => pc \in Running
    BY <1>7 DEF Next, Work, Refuse, Fail, Stop, StopAtCount, StartBatch, PrepareProver, RunBatch,
                NoHeadersRemaining, ExecuteBatch, SaveCompressed, SaveGroth16, vars, cursor,
                Waiting, Running, Saving
  <2>3. Reached' = Reached /\ Height(current_prev_proof)' = Height(current_prev_proof)
    BY <2>2 DEF Reached, LastBatch, Height
  <2>. QED  BY <1>1, <1>3, <2>1, <2>2, <2>3 DEF ResumeInv
<1>. QED  BY <1>4, <1>5, <1>6, <1>7

(* A process started after one that wrote files resumes from a file of     *)
(* that one; started after one that wrote none, from where that one did.   *)
LEMMA RestartResume ==
  ASSUME SInv, session \in SESSIONS, ResumeInv, Restart
  PROVE  ResumeInv'
<1>1. /\ pc' = "loop" /\ batches' = <<>> /\ current_prev_proof' = LATEST
      /\ session' = NextSession /\ UNCHANGED files
      /\ resumed' = IF NextSession = session THEN resumed ELSE Append(resumed, Height(LATEST))
  BY DEF Restart, disk
<1>2. LATEST' = LATEST /\ CompressedFiles' = CompressedFiles
  BY <1>1, LatestUnchanged
<1>3. Height(LATEST)' = Height(LATEST) /\ Height(current_prev_proof)' = Height(LATEST)
  BY <1>1, <1>2 DEF Height
<1>4. pc' \in Waiting /\ pc' \notin Running
  BY <1>1 DEF Waiting, Running, Saving
<1>5. session \in Nat /\ \A p \in files : p.session \in Nat /\ p.session <= session
  BY SessionAssumption DEF SInv, TypeInv, FilesInv, Paths
<1>6. CASE \E p \in files : p.session = session
  <2>1. session' = session + 1
    BY <1>1, <1>6 DEF NextSession
  <2>2. \E p \in CompressedFiles : p.session = session
    BY <1>6 DEF ResumeInv
  <2>3. LATEST \in CompressedFiles /\ LATEST.session = session
    BY <1>5, <2>2, LatestIsOfSession DEF SInv, TypeInv
  <2>4. LATEST \in files /\ ~LATEST.groth16 /\ LATEST \in Paths
    BY <2>3 DEF CompressedFiles, SInv, TypeInv
  <2>. DEFINE h == Height(LATEST)
  <2>5. h = LATEST.end /\ h \in Nat
    BY <2>4, SessionAssumption DEF Height, Paths
  <2>6. LastResumed <= h
    BY <2>3, <2>4, <2>5 DEF ResumeInv
  <2>7. resumed' = Append(resumed, h) /\ resumed \in Seq(Nat) /\ resumed # <<>>
    BY <1>1, <1>5, <2>1 DEF ResumeInv
  <2>. HIDE DEF h
  <2>. DEFINE n == Len(resumed)
  <2>8. /\ resumed' \in Seq(Nat) /\ resumed' # <<>> /\ Len(resumed') = n + 1 /\ n \in Nat
        /\ resumed'[n + 1] = h /\ \A i \in 1..n : resumed'[i] = resumed[i]
    BY <2>5, <2>7
  <2>9. LastResumed' = h
    BY <2>8 DEF LastResumed
  <2>10. ResumeNeverFallsBack'
    <3>1. \A i \in 1..n - 1 : resumed[i] <= resumed[i + 1]
      BY DEF ResumeInv, ResumeNeverFallsBack
    <3>2. resumed[n] <= h
      BY <2>6 DEF LastResumed
    <3>. HIDE DEF n
    <3>3. ASSUME NEW i \in 1..n PROVE resumed'[i] <= resumed'[i + 1]
      <4>1. CASE i = n
        BY <2>8, <3>2, <4>1
      <4>2. CASE i # n
        <5>1. i \in 1..n - 1 /\ i + 1 \in 1..n
          BY <2>8, <4>2
        <5>. QED  BY <2>8, <3>1, <5>1
      <4>. QED  BY <4>1, <4>2
    <3>. QED  BY <2>8, <3>3 DEF ResumeNeverFallsBack
  <2>11. \A p \in files' : p.session # session'
    BY <1>1, <1>5, <2>1
  <2>12. Height(LATEST)' = LastResumed' /\ Height(current_prev_proof)' = LastResumed'
    BY <1>3, <2>9 DEF h
  <2>. QED  BY <1>1, <1>4, <2>8, <2>10, <2>11, <2>12 DEF ResumeInv
<1>7. CASE ~ \E p \in files : p.session = session
  <2>1. session' = session /\ resumed' = resumed
    BY <1>1, <1>7 DEF NextSession
  <2>2. LastResumed' = LastResumed /\ ResumeNeverFallsBack'
    BY <2>1 DEF LastResumed, ResumeInv, ResumeNeverFallsBack
  <2>3. Height(LATEST) = LastResumed
    BY <1>7 DEF ResumeInv
  <2>. QED  BY <1>1, <1>3, <1>4, <1>7, <2>1, <2>2, <2>3 DEF ResumeInv
<1>. QED  BY <1>6, <1>7

(* However often the host fails, is killed or restarted, and wherever, no  *)
(* session that wrote a file is followed by one that resumes below it:     *)
(* taking the file that sorts last never loses ground, although names do   *)
(* not sort as heights do.  The loop only ever takes compressed proofs,    *)
(* so what it starts from is one, if anything.                             *)
THEOREM ResumesNeverFallBack ==
  ASSUME \A p \in GIVEN \ {NoProof} : ~p.groth16
  PROVE  LoopSpec => []ResumeNeverFallsBack
<1>. DEFINE Inv == SInv /\ session \in SESSIONS /\ ResumeInv
<1>1. LoopInit => Inv
  <2>. SUFFICES ASSUME LoopInit PROVE ResumeInv
    BY InitSInv DEF LoopInit
  <2>1. /\ current_prev_proof \in GIVEN /\ files = {current_prev_proof} \ {NoProof}
        /\ pc = "loop" /\ batches = <<>>
        /\ resumed = <<Height(current_prev_proof)>>
    BY DEF LoopInit, Init
  <2>2. SInv
    BY InitSInv DEF LoopInit
  <2>3. \A p \in files : p.session # session
    BY <2>2, SessionAssumption DEF LoopInit, Init, SInv, TypeInv, Paths
  <2>4. Height(current_prev_proof) \in Nat
    BY <2>1, SessionAssumption DEF Height, Paths
  <2>5. LATEST = current_prev_proof
    <3>1. CASE current_prev_proof = NoProof
      BY <2>1, <3>1 DEF LATEST, CompressedFiles
    <3>2. CASE current_prev_proof # NoProof
      <4>1. CompressedFiles = {current_prev_proof}
        BY <2>1, <3>2 DEF CompressedFiles
      <4>. QED  BY <4>1 DEF LATEST
    <3>. QED  BY <3>1, <3>2
  <2>6. /\ resumed \in Seq(Nat) /\ resumed # <<>> /\ Len(resumed) = 1
        /\ LastResumed = Height(current_prev_proof)
    BY <2>1, <2>4 DEF LastResumed
  <2>7. ResumeNeverFallsBack
    BY <2>6 DEF ResumeNeverFallsBack
  <2>. QED  BY <2>1, <2>3, <2>5, <2>6, <2>7 DEF ResumeInv, Running, Saving
<1>2. Inv /\ [LoopNext]_loop_vars => Inv'
  <2>. SUFFICES ASSUME Inv, [LoopNext]_loop_vars PROVE Inv'
    OBVIOUS
  <2>1. CASE Restart
    BY <2>1, RestartSInv, RestartResume
  <2>2. CASE [Next]_vars /\ resumed' = resumed
    BY <2>2, NextSInv, NextResume
  <2>. QED  BY <2>1, <2>2 DEF LoopNext, HostWork, HostFails, Next, loop_vars
<1>3. Inv => ResumeNeverFallsBack
  BY DEF ResumeInv
<1>. QED  BY <1>1, <1>2, <1>3, PTL DEF LoopSpec

=============================================================================
