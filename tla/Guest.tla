-------------------------------- MODULE Guest --------------------------------
(***************************************************************************)
(* The guest program (src/crates/guest/src/main.rs) as it is chained with  *)
(* itself: an execution takes a state, a claim and the proof of an earlier *)
(* execution, all supplied by an untrusted host, applies headers and       *)
(* commits public values, which the next execution can build on.           *)
(*                                                                         *)
(* The header rule is a parameter: what apply_headers decides about one    *)
(* header, given the height and the continuation data (HeaderChain.tla     *)
(* models the rule itself).  SHA-256 is injective, so a digest is written  *)
(* as what it is the digest of.  SP1 is sound: a proof verifies only if    *)
(* the program with that key committed those public values.  The block     *)
(* header kept in State is left out: nothing reads it, and it is neither   *)
(* in the claim nor in the continuation data.                              *)
(***************************************************************************)
EXTENDS Integers, Sequences, FiniteSets

CONSTANTS
  KEYS,        \* verifier key digests
  SELF,        \* the key of the guest program itself
  ANCHORS,     \* states of height 0 an execution may be started with
  HEADERS,     \* new headers considered
  CONTS,       \* continuation data: difficulty, epoch start and timestamps
  FOREIGN,     \* public values programs other than the guest may commit
  Outcome(_, _, _),   \* verdict on a header, given height and continuation
  NextCont(_, _, _),  \* continuation data after a valid header
  HashOf(_, _, _),    \* hash of a header, given its parent and the nbits
  BlockWork(_),       \* the work of a block, from its continuation data
  MAX_HEIGHT,  \* bound on the height of a state
  MAX_PROOFS   \* bound on the number of proofs

ErrorCodes == {"TimestampTooOld", "PowInsufficient"}

IsState(s) ==
  s = [genesis_hash |-> s.genesis_hash, block_hash |-> s.block_hash,
       height |-> s.height, chain_work |-> s.chain_work, cont |-> s.cont]

ASSUME GuestAssumption ==
  /\ SELF \in KEYS
  /\ \A s \in ANCHORS : IsState(s) /\ s.height = 0 /\ s.cont \in CONTS
  /\ MAX_HEIGHT \in Nat /\ MAX_PROOFS \in Nat

VARIABLES
  proofs,        \* every proof there is: program, public values and lineage
  pc,            \* "idle", or "applying" headers
  verifier_key,  \* the key of the ProofCarryingState the execution was given
  state,         \* the State the execution has reached
  lineage        \* history: the states from the anchor up to this one

vars == <<proofs, pc, verifier_key, state, lineage>>

NoState == <<>>

-----------------------------------------------------------------------------
(* What of a state is public, and the public values committed by a proof.  *)
public_claim(s) ==
  [genesis_hash |-> s.genesis_hash, tip_hash |-> s.block_hash,
   chain_work |-> s.chain_work, height |-> s.height]

Success(claim, digest, key) ==
  [claim |-> claim, return_code |-> "Success", failure_height |-> 0,
   continuation_digest |-> digest, verifier_key |-> key]

\* A wrong variant: the height after the failed header.
FailureTooHigh(claim, error_code, failure_height, digest, key) ==
  [claim |-> claim, return_code |-> error_code, failure_height |-> failure_height + 1,
   continuation_digest |-> digest, verifier_key |-> key]

Failure(claim, error_code, failure_height, digest, key) ==
  [claim |-> claim, return_code |-> error_code, failure_height |-> failure_height,
   continuation_digest |-> digest, verifier_key |-> key]

\* The state after a valid header.
Extended(s, header) ==
  LET cont == NextCont(s.height, s.cont, header)
  IN  [genesis_hash |-> s.genesis_hash,
       block_hash   |-> HashOf(s.block_hash, cont, header),
       height       |-> s.height + 1,
       chain_work   |-> s.chain_work + BlockWork(cont),
       cont         |-> cont]

IsValid(s, header) == Outcome(s.height, s.cont, header) = "Success"

\* verify_sp1_proof, by the soundness of SP1.
sp1_verifies(key, pv) == \E p \in proofs : p.program = key /\ p.pv = pv

\* A wrong variant: the work of the witness is not compared.
witness_matches_but_work(s, claim) ==
  [public_claim(s) EXCEPT !.chain_work = claim.chain_work] = claim

\* The witness must be the state the claim is about.
witness_matches(s, claim) == public_claim(s) = claim

\* A wrong variant: the digest in the earlier public values is not compared.
verify_without_digest(pv, exit_code, key, claim, digest) ==
  /\ exit_code = 0
  /\ pv = Success(claim, pv.continuation_digest, key)
  /\ sp1_verifies(key, pv)

\* A wrong variant: a failed proof may be continued.
verify_failures_too(pv, exit_code, key, claim, digest) ==
  /\ exit_code = 0
  /\ pv.claim = claim /\ pv.continuation_digest = digest /\ pv.verifier_key = key
  /\ sp1_verifies(key, pv)

verify_prior_proof(pv, exit_code, key, claim, digest) ==
  /\ exit_code = 0
  /\ pv = Success(claim, digest, key)
  /\ sp1_verifies(key, pv)

-----------------------------------------------------------------------------
Init ==
  /\ proofs = {}
  /\ pc = "idle"
  /\ verifier_key = SELF
  /\ state = NoState
  /\ lineage = <<>>

\* The claim is the witness's, of height 0: the trusted anchor, no proof is asked for.
StartAtAnchor(witness, key) ==
  /\ pc = "idle"
  /\ pc' = "applying"
  /\ verifier_key' = key
  /\ state' = witness
  /\ lineage' = <<witness>>
  /\ UNCHANGED proofs

(* claim.height > 0: an earlier proof vouches for the claim and, through   *)
(* the digest, for the part of the state that is not in the claim.         *)
StartFromProof(witness, claim, key, pv, exit_code) ==
  /\ pc = "idle"
  /\ claim.height > 0
  /\ witness_matches(witness, claim)
  /\ verify_prior_proof(pv, exit_code, key, claim, witness.cont)
  /\ pc' = "applying"
  /\ verifier_key' = key
  /\ state' = witness
  /\ \E p \in proofs : p.program = key /\ p.pv = pv /\ lineage' = p.lineage
  /\ UNCHANGED proofs

ApplyHeader(header) ==
  /\ pc = "applying" /\ state.height < MAX_HEIGHT
  /\ IsValid(state, header)
  /\ state' = Extended(state, header)
  /\ lineage' = Append(lineage, state')
  /\ UNCHANGED <<proofs, pc, verifier_key>>

End ==
  /\ pc' = "idle"
  /\ verifier_key' = SELF
  /\ state' = NoState
  /\ lineage' = <<>>

\* commit_minimal_pv: the execution ends, and can be proved.
Commit(pv) ==
  /\ proofs' = proofs \cup {[program |-> SELF, pv |-> pv, lineage |-> lineage]}
  /\ Cardinality(proofs') <= MAX_PROOFS
  /\ End

\* A wrong variant: the key the guest commits is its own, not the one it used.
CommitSuccessAsOwn ==
  /\ pc = "applying"
  /\ Commit(Success(public_claim(state), state.cont, SELF))

CommitSuccess ==
  /\ pc = "applying"
  /\ Commit(Success(public_claim(state), state.cont, verifier_key))

\* A wrong variant: the failure is blamed on the last valid header.
CommitFailureAtTip(header) ==
  /\ pc = "applying"
  /\ ~IsValid(state, header)
  /\ Commit(Failure(public_claim(state), Outcome(state.height, state.cont, header),
                    state.height, state.cont, verifier_key))

CommitFailure(header) ==
  /\ pc = "applying"
  /\ ~IsValid(state, header)
  /\ Commit(Failure(public_claim(state), Outcome(state.height, state.cont, header),
                    state.height + 1, state.cont, verifier_key))

\* A wrong median hint, or the host gives up: nothing is committed.
Panic == pc = "applying" /\ End /\ UNCHANGED proofs

\* Some other program is proved to commit public values of the same form.
ForeignProof(key, pv) ==
  /\ key # SELF
  /\ proofs' = proofs \cup {[program |-> key, pv |-> pv, lineage |-> <<>>]}
  /\ Cardinality(proofs') <= MAX_PROOFS
  /\ UNCHANGED <<pc, verifier_key, state, lineage>>

(* Only claims some proof makes can pass verify_prior_proof, so these are  *)
(* the ones to try, with every continuation.                               *)
Claims    == {p.pv.claim : p \in proofs}
Witnesses ==
  {[genesis_hash |-> c.genesis_hash, block_hash |-> c.tip_hash, height |-> c.height,
    chain_work |-> c.chain_work, cont |-> cont] : c \in Claims, cont \in CONTS}

Next ==
  \/ \E key \in KEYS :
       \/ \E witness \in ANCHORS : StartAtAnchor(witness, key)
       \/ \E witness \in Witnesses, claim \in Claims, p \in proofs, exit_code \in {0, 1} :
            StartFromProof(witness, claim, key, p.pv, exit_code)
       \/ \E pv \in FOREIGN : ForeignProof(key, pv)
  \/ \E header \in HEADERS : ApplyHeader(header) \/ CommitFailure(header)
  \/ CommitSuccess
  \/ Panic

Spec == Init /\ [][Next]_vars

-----------------------------------------------------------------------------
(* A proof is one of the guest's own when the guest committed it, under    *)
(* its own key: what a verifier who knows SELF accepts.                    *)
Own(p) == p.program = SELF /\ p.pv.verifier_key = SELF

Last(l) == l[Len(l)]

\* A chain of states from a trusted anchor, each step a valid header.
IsLineage(l) ==
  /\ Len(l) > 0 /\ l[1] \in ANCHORS
  /\ \A i \in 2..Len(l) : \E header \in HEADERS :
       IsValid(l[i-1], header) /\ l[i] = Extended(l[i-1], header)

Continues(s, p) == public_claim(s) = p.pv.claim /\ s.cont = p.pv.continuation_digest

(* Proofs number at most MAX_PROOFS, an execution runs exactly when it has *)
(* a state, and the height of a failure is 0 exactly on success.           *)
TypeOK ==
  /\ IsFiniteSet(proofs) /\ Cardinality(proofs) <= MAX_PROOFS
  /\ pc \in {"idle", "applying"}
  /\ verifier_key \in KEYS
  /\ (pc = "idle") <=> (state = NoState)
  /\ pc = "applying" /\ verifier_key = SELF => state.height = Len(lineage) - 1
  /\ \A p \in proofs : Own(p) =>
       (p.pv.failure_height = 0) <=> (p.pv.return_code = "Success")

(* Whatever the host supplied on the way, a proof of the guest's own says  *)
(* the truth: its claim and its digest are those of a state reached from   *)
(* an anchor through valid headers only, over all the executions it was    *)
(* chained from (main.rs, verify_prior_proof and the witness check).       *)
ClaimsHaveLineage ==
  \A p \in proofs : Own(p) => IsLineage(p.lineage) /\ Continues(Last(p.lineage), p)

(* A failure names a header the rules do reject right after the claimed    *)
(* tip, with the code and at the height they reject it (main.rs, the       *)
(* failure branch): a failure cannot be had of a valid chain.              *)
FailureBlamesInvalidHeader ==
  \A p \in proofs : Own(p) /\ p.pv.return_code # "Success" =>
    LET s == Last(p.lineage)
    IN  /\ p.pv.failure_height = s.height + 1
        /\ \E header \in HEADERS :
             Outcome(s.height, s.cont, header) = p.pv.return_code

(* The tip settles the claim: two proofs from one anchor that end at the   *)
(* same block agree on its height, its work and the digest, however the    *)
(* chain was cut into executions (main.rs, the witness check).             *)
TipDeterminesClaim ==
  \A p, q \in proofs :
    Own(p) /\ Own(q) /\ p.lineage[1] = q.lineage[1]
      /\ p.pv.claim.tip_hash = q.pv.claim.tip_hash
    => /\ p.pv.claim = q.pv.claim
       /\ p.pv.continuation_digest = q.pv.continuation_digest

(* A successful proof can be continued, from the state it ended in and     *)
(* from no other; a failed one from none.                                  *)
ResumeIsExact ==
  \A p \in proofs, w \in Witnesses, claim \in Claims : Own(p) =>
    (witness_matches(w, claim) /\ verify_prior_proof(p.pv, 0, SELF, claim, w.cont))
    <=> (/\ p.pv.return_code = "Success" /\ claim = p.pv.claim
         /\ w = Last(p.lineage))

=============================================================================
