------------------------------ MODULE Exchange ------------------------------
(***************************************************************************)
(* A batch on the wire: the host builds the four buffers of the guest's    *)
(* input (src/crates/host/src/pipeline/execution.rs, input.rs), the guest  *)
(* parses and binds them, hashes and commits bytes                         *)
(* (src/crates/guest/src/main.rs), the host reads those back and a later   *)
(* batch is built on them.  On the way one buffer, or the saved proof, can *)
(* become other bytes than the ones written: nothing the guest is given is *)
(* trusted.                                                                *)
(*                                                                         *)
(* What makes a header valid is HeaderChain's subject; here the rows are   *)
(* valid, and of other headers nothing is known.  No batch has an epoch    *)
(* boundary.                                                               *)
(***************************************************************************)
EXTENDS Wire

CONSTANTS
  BATCH,        \* headers per batch
  BATCHES,      \* batches, bounds the rows
  OTHER_BYTES,  \* the values a byte can turn into
  RESIZED       \* the bytes by which a buffer can be too long or too short

ASSUME ExchangeAssumption ==
  /\ BATCH \in Nat \ {0} /\ BATCHES \in Nat \ {0, 1}
  /\ OTHER_BYTES \subseteq 0..255
  /\ RESIZED \subseteq Int \ {0}

VARIABLES
  mode,       \* does the host prove, or execute only
  phase,
  height,     \* where the batch starts
  saved,      \* public values of the proof to resume from; none at first
  stdin,      \* the buffers
  altered,    \* where, and in which batch, bytes are not the ones written
  committed,  \* public values of the batch
  proven      \* public values there is a proof for, under the guest's key

vars == <<mode, phase, height, saved, stdin, altered, committed, proven>>

None      == <<>>
Buffers   == {"pcs", "state", "headers", "hints"}
Unaltered == [buffer |-> "none", at |-> 0, in |-> 0]

-----------------------------------------------------------------------------
(* The rows of the headers table, and the states apply_headers goes        *)
(* through over them.                                                      *)
Row(h) == [version |-> Value("version", <<h>>, 4), merkle_root |-> Value("merkle_root", <<h>>, 32),
           timestamp |-> Value("timestamp", <<h>>, 4), nonce |-> Value("nonce", <<h>>, 4)]

Median(h) == Value("median", <<h>>, 4)

Height(bytes) == bytes[1][1][2][1] + 256 * bytes[2][1][2][1]

HeightBytes(h) == Bytes(h % 256, h \div 256, 0, 0)

host_hash_header(header) == digest(digest(Header_to_bytes(header)))

hash_header(header) == sha256d_80bytes(Header_to_bytes(header))

\* apply_headers is given the hash of the side that runs it.
HashOn(side, header) == IF side = "host" THEN host_hash_header(header) ELSE hash_header(header)

ApplyHeader(s, new, side) ==
  LET header == into_header(new, s.block_hash, s.current_nbits)
      next   == Height(s.height) + 1
  IN  [s EXCEPT !.header = header,
                !.block_hash = HashOn(side, header),
                !.height = HeightBytes(next),
                !.chain_work = Value("sum", Condensed(s.chain_work \o s.current_work), 32),
                !.timestamps = [@ EXCEPT ![(next % WINDOW_SIZE) + 1] = new.timestamp]]

apply_headers(s, headers, side) ==
  LET after[n \in 0 .. Len(headers)] ==
        IF n = 0 THEN s ELSE ApplyHeader(after[n-1], headers[n], side)
  IN  after[Len(headers)]

GenesisHeader == into_header(Row(0), Zeros(32), Value("current_nbits", <<0>>, 4))

Genesis ==
  [header |-> GenesisHeader,
   block_hash |-> host_hash_header(GenesisHeader), genesis_hash |-> host_hash_header(GenesisHeader),
   current_nbits |-> Value("current_nbits", <<0>>, 4), height |-> HeightBytes(0),
   chain_work |-> Value("current_work", <<0>>, 32), current_work |-> Value("current_work", <<0>>, 32),
   current_target |-> Value("current_target", <<0>>, 32),
   epoch_start_timestamp |-> Value("timestamp", <<0>>, 4),
   timestamps |-> [i \in 1..WINDOW_SIZE |-> IF i = 1 THEN Value("timestamp", <<0>>, 4) ELSE Zeros(4)]]

DbStates ==
  [h \in 0 .. BATCH * BATCHES |->
    apply_headers(Genesis, [i \in 1..h |-> Row(i)], "host")]

NewHeaders(h)  == [i \in 1..BATCH |-> Row(h + i)]
MedianHints(h) == [i \in 1..BATCH |-> Median(h + i)]

-----------------------------------------------------------------------------
\* The guest's key; an execution without a proof has the default one.
VerifierKey == IF mode = "prove" THEN Value("vk", <<>>, 32) ELSE Zeros(32)

HostSuccess(state) ==
  MinimalPublicValues_to_bytes(
    success(public_claim(state), digest(continuation_bytes(state)), VerifierKey))

expected_pv == HostSuccess(DbStates[height + BATCH])

\* A failed proof has its error as exit code.
build_proof ==
  LET values == IF mode = "prove" THEN saved ELSE HostSuccess(DbStates[height])
  IN  [public_values_digest |-> IF values = None THEN Zeros(32) ELSE digest(values),
       exit_code |-> IF values = None THEN Byte(0)
                     ELSE MinimalPublicValues_parse(values).return_code[1],
       _pad |-> Zeros(3)]

build_stdin(state) ==
  [pcs |-> ProofCarryingState_to_bytes(
             [claim |-> public_claim(state), verifier_key |-> VerifierKey, proof |-> build_proof]),
   state |-> State_to_bytes(state),
   headers |-> serialize_new_headers(NewHeaders(height)),
   hints |-> serialize_median_hints(MedianHints(height))]

\* Public values of a batch from the last row back that failed.
FailedEarlier ==
  {MinimalPublicValues_to_bytes(
     failure(public_claim(DbStates[BATCH]), code, HeightBytes(BATCH + 1),
             digest(continuation_bytes(DbStates[BATCH])), Value("vk", <<>>, 32))) : code \in {2, 3}}

Init ==
  /\ mode \in {"prove", "execute"}
  /\ phase = "prepare"
  /\ \/ height = 0 /\ saved = None /\ proven = {}
     \/ /\ mode = "prove" /\ height = BATCH
        /\ saved \in FailedEarlier /\ proven = {saved}
  /\ stdin = None /\ committed = None
  /\ altered = Unaltered

\* resolve_current_state takes the saved proof for a proof of what the rows say.
Resumable ==
  saved # None =>
    /\ Outcome(saved) = "success"
    /\ Claim_parse(Slice(saved, 0, CLAIM_SIZE)) = public_claim(DbStates[height])

Prepare ==
  /\ phase = "prepare" /\ Resumable
  /\ stdin' = build_stdin(DbStates[height])
  /\ phase' = "sent"
  /\ UNCHANGED <<mode, height, saved, altered, committed, proven>>

Refuse ==
  /\ phase = "prepare" /\ ~Resumable
  /\ phase' = "refused"
  /\ UNCHANGED <<mode, height, saved, stdin, altered, committed, proven>>

(* Another program that calls build_proof and build_stdin, which are       *)
(* public, without the checks of prepare_batch; build_proof itself refuses *)
(* values it cannot parse.                                                 *)
SendUnchecked ==
  /\ phase = "prepare" /\ ~Resumable
  /\ Outcome(saved) # "malformed"
  /\ stdin' = build_stdin(DbStates[height])
  /\ phase' = "sent"
  /\ UNCHANGED <<mode, height, saved, altered, committed, proven>>

-----------------------------------------------------------------------------
\* One byte becomes another, or the end of a buffer is lost or has a tail.
Others(bytes, p) == {[bytes EXCEPT ![p] = Byte(v)] : v \in OTHER_BYTES} \ {bytes}

Resize(bytes, n) == IF n > 0 THEN bytes \o Zeros(n) ELSE Slice(bytes, 0, Len(bytes) + n)

AlterInput ==
  /\ phase = "sent" /\ altered = Unaltered
  /\ \E b \in Buffers :
       \/ \E p \in DOMAIN stdin[b] :
            /\ altered' = [buffer |-> b, at |-> p, in |-> height]
            /\ \E other \in Others(stdin[b], p) : stdin' = [stdin EXCEPT ![b] = other]
       \/ \E n \in RESIZED :
            /\ Len(stdin[b]) + n >= 0
            /\ altered' = [buffer |-> b, at |-> 0, in |-> height]
            /\ stdin' = [stdin EXCEPT ![b] = Resize(stdin[b], n)]
  /\ UNCHANGED <<mode, phase, height, saved, committed, proven>>

AlterSaved ==
  /\ phase = "prepare" /\ saved # None /\ altered = Unaltered
  /\ \/ \E p \in DOMAIN saved :
          altered' = [buffer |-> "saved", at |-> p, in |-> height] /\ saved' \in Others(saved, p)
     \/ \E n \in RESIZED :
          /\ Len(saved) + n >= 0
          /\ altered' = [buffer |-> "saved", at |-> 0, in |-> height] /\ saved' = Resize(saved, n)
  /\ UNCHANGED <<mode, phase, height, stdin, committed, proven>>

-----------------------------------------------------------------------------
pcs   == ProofCarryingState_parse(stdin.pcs)
state == State_parse(stdin.state)

InputParses ==
  /\ Len(stdin.pcs) = CLAIM_SIZE + VK_WIRE_SIZE + PROOF_SIZE
  /\ Len(stdin.state) = STATE_SIZE
  /\ Len(stdin.headers) % NEW_HEADER_SIZE = 0
  /\ Len(stdin.hints) = 4 * (Len(stdin.headers) \div NEW_HEADER_SIZE)

\* A wrong variant: the work of the witness is not compared.
witness_matches_but_work ==
  [public_claim(state) EXCEPT !.chain_work = pcs.claim.chain_work] = pcs.claim

witness_matches == public_claim(state) = pcs.claim

\* Executing does not check the proof, proving does: there must be one of such values.
sp1_verifies(key, values_digest) ==
  mode = "prove" => key = VerifierKey /\ \E values \in proven : digest(values) = values_digest

\* A wrong variant: the proof is checked, and not what it is a proof of.
verify_prior_proof_unbound ==
  /\ pcs.proof.exit_code = Byte(0)
  /\ sp1_verifies(pcs.verifier_key, pcs.proof.public_values_digest)

verify_prior_proof ==
  LET prior == success(pcs.claim, sha256_116bytes(continuation_bytes(state)), pcs.verifier_key)
  IN  /\ pcs.proof.exit_code = Byte(0)
      /\ sha256_169bytes(MinimalPublicValues_to_bytes(prior)) = pcs.proof.public_values_digest
      /\ sp1_verifies(pcs.verifier_key, pcs.proof.public_values_digest)

InputBound ==
  /\ InputParses
  /\ witness_matches
  /\ pcs.claim.height # Zeros(4) => verify_prior_proof

commit(pv) == committed' = MinimalPublicValues_to_bytes(pv)

new_headers == parse_new_headers(stdin.headers)

\* The state after n headers; nothing reads the header kept in it.
After(n) == apply_headers(state, SubSeq(new_headers, 1, n), "guest")

OnTable(s) == \E h \in DOMAIN DbStates : [s EXCEPT !.header = DbStates[h].header] = DbStates[h]

CommitSuccess ==
  /\ phase = "sent" /\ InputBound
  /\ LET end == After(Len(new_headers))
     IN  commit(success(public_claim(end), sha256_116bytes(continuation_bytes(end)),
                        pcs.verifier_key))
  /\ phase' = "committed"
  /\ UNCHANGED <<mode, height, saved, stdin, altered, proven>>

\* Headers that lead from row to row are valid; of others nothing is known.
CommitFailure ==
  /\ phase = "sent" /\ InputBound
  /\ \E valid \in 0 .. Len(new_headers) - 1, code \in {2, 3} :
       /\ ~OnTable(After(valid + 1))
       /\ LET last == After(valid)
          IN  commit(failure(public_claim(last), code, HeightBytes(Height(last.height) + 1),
                             sha256_116bytes(continuation_bytes(last)), pcs.verifier_key))
  /\ phase' = "committed"
  /\ UNCHANGED <<mode, height, saved, stdin, altered, proven>>

\* The hint of a row may be wrong for another state, and another hint for the row.
HintRefused ==
  \/ stdin.hints # serialize_median_hints(MedianHints(height))
  \/ \E n \in 0 .. Len(new_headers) - 1 : ~OnTable(After(n))

Panic ==
  /\ phase = "sent"
  /\ InputBound => HintRefused
  /\ phase' = "panicked"
  /\ UNCHANGED <<mode, height, saved, stdin, altered, committed, proven>>

-----------------------------------------------------------------------------
verify_public_values == Outcome(committed) = "success" /\ committed = expected_pv

\* The next batch resumes from the proof, or from the height without one.
NextBatch ==
  /\ phase = "committed" /\ verify_public_values
  /\ height + 2 * BATCH <= BATCH * BATCHES
  /\ phase' = "prepare"
  /\ height' = height + BATCH
  /\ IF mode = "prove"
       THEN saved' = committed /\ proven' = proven \cup {committed}
       ELSE UNCHANGED <<saved, proven>>
  /\ stdin' = None /\ committed' = None
  /\ UNCHANGED <<mode, altered>>

Reject ==
  /\ phase = "committed" /\ ~verify_public_values
  /\ phase' = "rejected"
  /\ UNCHANGED <<mode, height, saved, stdin, altered, committed, proven>>

Next ==
  \/ Prepare \/ Refuse \/ SendUnchecked
  \/ AlterInput \/ AlterSaved
  \/ CommitSuccess \/ CommitFailure \/ Panic
  \/ NextBatch \/ Reject

Spec == Init /\ [][Next]_vars

-----------------------------------------------------------------------------
Done == phase \in {"committed", "rejected"}

(* An input that arrives as it was written is executed to the values the   *)
(* host predicted, byte for byte: host and guest agree on every layout and *)
(* on every digest, though each has its own SHA-256, and so the proof of a *)
(* batch is one the next batch can be built on.                            *)
HonestBatchPasses ==
  altered = Unaltered =>
    /\ phase = "sent" /\ Resumable => InputBound
    /\ phase = "panicked" => ~Resumable
    /\ Done => committed = expected_pv

(* The bytes of the input no check reads: the header kept in the state and *)
(* the padding of the proof.                                               *)
Unread ==
  \/ altered.buffer = "state" /\ altered.at \in 1..BLOCK_HEADER_SIZE
  \/ altered.buffer = "pcs" /\ altered.at \in 166..168

(* Above the anchor nothing but headers and hints decides what the guest   *)
(* commits: change any other byte of the input and it panics, or the byte  *)
(* is one of the two unread pieces and the values are the predicted ones.  *)
OnlyHeadersDecide ==
  Done /\ height > 0 /\ altered.in = height /\ altered.buffer \in {"pcs", "state"} =>
    Unread /\ committed = expected_pv

(* Change any byte of a header, its nonce or version as well, and no       *)
(* committed success says what the host predicted: each byte is parsed     *)
(* back to its place and is under the hash of the tip.                     *)
EveryHeaderByteCounts ==
  Done /\ altered.in = height /\ altered.buffer = "headers" => committed # expected_pv

(* In a proof above the anchor the guest goes on only from values that     *)
(* were committed, with all their bytes, as a success: neither a saved     *)
(* proof with one byte changed nor a failure whose exit code got lost on   *)
(* the way to the guest is ever continued.                                 *)
ResumesOnlyFromProof ==
  Done /\ mode = "prove" /\ height > 0 =>
    /\ saved \in proven
    /\ Outcome(saved) = "success"

=============================================================================
