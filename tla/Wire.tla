-------------------------------- MODULE Wire --------------------------------
(***************************************************************************)
(* The byte layouts of zkpow-core (src/crates/core/src/lib.rs, input.rs,   *)
(* state.rs): what host, guest and the readers of a proof write to one     *)
(* another, and how each reads it back.  Offsets are the ones in the code. *)
(* A repr(C) struct is the bytes of its fields in order: none of the four  *)
(* has padding of its own.                                                 *)
(***************************************************************************)
EXTENDS Sha256

CLAIM_SIZE             == 32 + 32 + 32 + 4
VK_WIRE_SIZE           == 32
PROOF_SIZE             == 32 + 1 + 3
WINDOW_SIZE            == 11
CONTINUATION_DATA_SIZE == 4 + 32 + 32 + 4 + 4 * WINDOW_SIZE
MINIMAL_PV_SIZE        == 32 + 32 + 32 + 4 + 1 + 4 + 32 + 32
BLOCK_HEADER_SIZE      == 80
NEW_HEADER_SIZE        == 44
STATE_SIZE             == BLOCK_HEADER_SIZE + 32 + 32 + 4 + 4 + 32 + 32 + 32 + 4 + 4 * WINDOW_SIZE

\* bytes[from..to]
Slice(bytes, from, to) == SubSeq(bytes, from + 1, to)

\* A zeroed buffer into which fields are copied, each at its offset.
Written(size, copies) ==
  [p \in 1..size |->
    LET over == {k \in DOMAIN copies : p - copies[k][1] \in DOMAIN copies[k][2]}
    IN  IF over = {} THEN Byte(0)
        ELSE LET last == copies[Max(over)] IN last[2][p - last[1]]]

-----------------------------------------------------------------------------
Claim_to_bytes(claim) ==
  Written(CLAIM_SIZE, << <<0, claim.genesis_hash>>, <<32, claim.tip_hash>>,
                         <<64, claim.chain_work>>, <<96, claim.height>> >>)

Claim_parse(bytes) ==
  [genesis_hash |-> Slice(bytes, 0, 32), tip_hash |-> Slice(bytes, 32, 64),
   chain_work |-> Slice(bytes, 64, 96), height |-> Slice(bytes, 96, 100)]

public_claim(state) ==
  [genesis_hash |-> state.genesis_hash, tip_hash |-> state.block_hash,
   chain_work |-> state.chain_work, height |-> state.height]

continuation_bytes(state) ==
  Written(CONTINUATION_DATA_SIZE,
    << <<0, state.current_nbits>>, <<4, state.current_work>>, <<36, state.current_target>>,
       <<68, state.epoch_start_timestamp>> >>
    \o [i \in 1..WINDOW_SIZE |-> <<72 + (i - 1) * 4, state.timestamps[i]>>])

-----------------------------------------------------------------------------
MinimalPublicValues(claim, return_code, failure_height, continuation_digest, verifier_key) ==
  [genesis_hash |-> claim.genesis_hash, tip_hash |-> claim.tip_hash,
   chain_work |-> claim.chain_work, height |-> claim.height,
   return_code |-> return_code, failure_height |-> failure_height,
   continuation_digest |-> continuation_digest, verifier_key |-> verifier_key]

success(claim, continuation_digest, verifier_key) ==
  MinimalPublicValues(claim, <<Byte(0)>>, Zeros(4), continuation_digest, verifier_key)

failure(claim, error_code, failure_height, continuation_digest, verifier_key) ==
  MinimalPublicValues(claim, <<Byte(error_code)>>, failure_height, continuation_digest,
                      verifier_key)

MinimalPublicValues_to_bytes(pv) ==
  Written(MINIMAL_PV_SIZE,
    << <<0, pv.genesis_hash>>, <<32, pv.tip_hash>>, <<64, pv.chain_work>>, <<96, pv.height>>,
       <<100, pv.return_code>>, <<101, pv.failure_height>>,
       <<105, pv.continuation_digest>>, <<137, pv.verifier_key>> >>)

MinimalPublicValues_parse(bytes) ==
  MinimalPublicValues(Claim_parse(Slice(bytes, 0, 100)), Slice(bytes, 100, 101),
                      Slice(bytes, 101, 105), Slice(bytes, 105, 137), Slice(bytes, 137, 169))

ErrorCodes == 1..4

\* What a reader makes of public values: a claim with an outcome, or an error.
Outcome(bytes) ==
  LET code == MinimalPublicValues_parse(bytes).return_code
  IN  IF Len(bytes) # MINIMAL_PV_SIZE THEN "malformed"
      ELSE IF code = <<Byte(0)>> THEN "success"
      ELSE IF \E e \in ErrorCodes : code = <<Byte(e)>> THEN "failure"
      ELSE "malformed"

-----------------------------------------------------------------------------
Header_to_bytes(h) ==
  h.version \o h.prev_blockhash \o h.merkle_root \o h.timestamp \o h.compact_target \o h.nonce

Header_parse(bytes) ==
  [version |-> Slice(bytes, 0, 4), prev_blockhash |-> Slice(bytes, 4, 36),
   merkle_root |-> Slice(bytes, 36, 68), timestamp |-> Slice(bytes, 68, 72),
   compact_target |-> Slice(bytes, 72, 76), nonce |-> Slice(bytes, 76, 80)]

NewHeader_to_bytes(h) == h.version \o h.merkle_root \o h.timestamp \o h.nonce

NewHeader_parse(bytes) ==
  [version |-> Slice(bytes, 0, 4), merkle_root |-> Slice(bytes, 4, 36),
   timestamp |-> Slice(bytes, 36, 40), nonce |-> Slice(bytes, 40, 44)]

\* A wrong variant: the header is hashed without the nonce.
into_header_without_nonce(new, prev_blockhash, compact_target) ==
  [version |-> new.version, prev_blockhash |-> prev_blockhash, merkle_root |-> new.merkle_root,
   timestamp |-> new.timestamp, compact_target |-> compact_target, nonce |-> Zeros(4)]

into_header(new, prev_blockhash, compact_target) ==
  [version |-> new.version, prev_blockhash |-> prev_blockhash, merkle_root |-> new.merkle_root,
   timestamp |-> new.timestamp, compact_target |-> compact_target, nonce |-> new.nonce]

serialize_new_headers(headers) == FlattenSeq([i \in DOMAIN headers |-> NewHeader_to_bytes(headers[i])])

parse_new_headers(bytes) ==
  [i \in 1 .. Len(bytes) \div NEW_HEADER_SIZE |->
    NewHeader_parse(Slice(bytes, (i - 1) * NEW_HEADER_SIZE, i * NEW_HEADER_SIZE))]

serialize_median_hints(medians) == FlattenSeq(medians)

-----------------------------------------------------------------------------
State_to_bytes(s) ==
  Header_to_bytes(s.header) \o s.block_hash \o s.genesis_hash \o s.current_nbits \o s.height
    \o s.chain_work \o s.current_work \o s.current_target \o s.epoch_start_timestamp
    \o FlattenSeq(s.timestamps)

State_parse(bytes) ==
  [header |-> Header_parse(Slice(bytes, 0, 80)),
   block_hash |-> Slice(bytes, 80, 112), genesis_hash |-> Slice(bytes, 112, 144),
   current_nbits |-> Slice(bytes, 144, 148), height |-> Slice(bytes, 148, 152),
   chain_work |-> Slice(bytes, 152, 184), current_work |-> Slice(bytes, 184, 216),
   current_target |-> Slice(bytes, 216, 248), epoch_start_timestamp |-> Slice(bytes, 248, 252),
   timestamps |-> [i \in 1..WINDOW_SIZE |-> Slice(bytes, 252 + (i - 1) * 4, 252 + i * 4)]]

Proof_to_bytes(proof) == proof.public_values_digest \o <<proof.exit_code>> \o proof._pad

Proof_parse(bytes) ==
  [public_values_digest |-> Slice(bytes, 0, 32), exit_code |-> bytes[33], _pad |-> Slice(bytes, 33, 36)]

ProofCarryingState_to_bytes(pcs) ==
  Claim_to_bytes(pcs.claim) \o pcs.verifier_key \o Proof_to_bytes(pcs.proof)

ProofCarryingState_parse(bytes) ==
  [claim |-> Claim_parse(Slice(bytes, 0, CLAIM_SIZE)),
   verifier_key |-> Slice(bytes, CLAIM_SIZE, CLAIM_SIZE + VK_WIRE_SIZE),
   proof |-> Proof_parse(Slice(bytes, CLAIM_SIZE + VK_WIRE_SIZE, Len(bytes)))]

=============================================================================
