----------------------------- MODULE ClaimProofs -----------------------------
(***************************************************************************)
(* What a proof of the guest's own says, and what the contract keeps of    *)
(* it.                                                                     *)
(*                                                                         *)
(* The guest, for every header rule, every set of anchors and every number *)
(* of executions.  The invariant follows the state of an execution with    *)
(* its lineage: an execution that was given the key SELF is in the last    *)
(* state of a lineage, and so is what it commits.                          *)
(*                                                                         *)
(* The relay, for every capacity and every set of provable summaries, with *)
(* nothing assumed of what is proven: the contract's own checks make the   *)
(* history a chain.  The three invariants are inductive together.          *)
(***************************************************************************)
EXTENDS Guest, Relay, FiniteSetTheorems, TLAPS

\* A lineage is a sequence, of whatever states.
IsSeq(l) == \E S : l \in Seq(S)

\* s is reached from an anchor by the chain of states l.
Reached(l, s) ==
  /\ IsSeq(l) /\ IsLineage(l)
  /\ Last(l) = s /\ IsState(s)

ExecutionReached ==
  pc = "applying" /\ verifier_key = SELF => Reached(lineage, state)

\* A proof tells of the last state of its lineage: that it is valid so far,
\* or also which verdict the next header got.
TellsOf(p, s) ==
  \/ p.pv = Success(public_claim(s), s.cont, SELF)
  \/ \E header \in HEADERS :
       /\ Outcome(s.height, s.cont, header) # "Success"
       /\ p.pv = Failure(public_claim(s), Outcome(s.height, s.cont, header),
                         s.height + 1, s.cont, SELF)

ProofsReached ==
  \A p \in proofs : Own(p) =>
    Reached(p.lineage, Last(p.lineage)) /\ TellsOf(p, Last(p.lineage))

IInv == ExecutionReached /\ ProofsReached

-----------------------------------------------------------------------------
(* An anchor on its own is a lineage.                                      *)
LEMMA AnchorReached ==
  ASSUME NEW s \in ANCHORS
  PROVE  Reached(<<s>>, s)
<1>1. <<s>> \in Seq({s}) /\ Len(<<s>>) = 1 /\ <<s>>[1] = s
  OBVIOUS
<1>2. IsSeq(<<s>>)
  BY <1>1 DEF IsSeq
<1>3. IsLineage(<<s>>)
  BY <1>1 DEF IsLineage
<1>4. Last(<<s>>) = s
  BY <1>1 DEF Last
<1> QED
  BY <1>2, <1>3, <1>4, GuestAssumption DEF Reached

(* A valid header makes a lineage one state longer.                        *)
LEMMA ExtendedReached ==
  ASSUME NEW l, NEW s, Reached(l, s), NEW header \in HEADERS, IsValid(s, header)
  PROVE  Reached(Append(l, Extended(s, header)), Extended(s, header))
<1> DEFINE t == Extended(s, header)
           m == Append(l, t)
<1> PICK S : l \in Seq(S)
  BY DEF Reached, IsSeq
<1>1. Len(l) \in Nat /\ Len(l) > 0
  BY DEF Reached, IsLineage
<1>2. l \in Seq(S \cup {t})
  OBVIOUS
<1>3. /\ m \in Seq(S \cup {t}) /\ Len(m) = Len(l) + 1
      /\ m[Len(l) + 1] = t
      /\ \A i \in 1..Len(l) : m[i] = l[i]
  BY <1>2
<1>4. IsSeq(m)
  BY <1>3 DEF IsSeq
<1>5. l[Len(l)] = s
  BY DEF Reached, Last
<1>6. m[1] \in ANCHORS
  BY <1>1, <1>3 DEF Reached, IsLineage
<1>7. ASSUME NEW i \in 2..Len(m)
      PROVE  \E h \in HEADERS : IsValid(m[i-1], h) /\ m[i] = Extended(m[i-1], h)
  <2>1. CASE i = Len(m)
    <3>1. i = Len(l) + 1 /\ i - 1 = Len(l)
      BY <2>1, <1>1, <1>3
    <3>2. m[Len(l)] = l[Len(l)]
      BY <1>1, <1>3
    <3>3. m[i-1] = s /\ m[i] = t
      <4> HIDE DEF m
      <4> QED
        BY <3>1, <3>2, <1>3, <1>5
    <3> QED
      BY <3>3
  <2>2. CASE i # Len(m)
    <3>1. i \in 2..Len(l) /\ i - 1 \in 1..Len(l)
      BY <2>2, <1>1, <1>3
    <3>2. m[i-1] = l[i-1] /\ m[i] = l[i]
      BY <3>1, <1>3
    <3>3. \E h \in HEADERS : IsValid(l[i-1], h) /\ l[i] = Extended(l[i-1], h)
      BY <3>1 DEF Reached, IsLineage
    <3> QED
      BY <3>2, <3>3
  <2> QED
    BY <2>1, <2>2
<1>8. IsLineage(m)
  <2>1. Len(m) > 0
    BY <1>1, <1>3
  <2>2. \A i \in 2..Len(m) : \E h \in HEADERS : IsValid(m[i-1], h) /\ m[i] = Extended(m[i-1], h)
    BY <1>7
  <2> HIDE DEF m
  <2> QED
    BY <1>6, <2>1, <2>2 DEF IsLineage
<1>9. Last(m) = t
  BY <1>1, <1>3 DEF Last
<1>10. IsState(t)
  BY DEF Extended, IsState
<1> QED
  BY <1>4, <1>8, <1>9, <1>10 DEF Reached

(* A state is nothing but its claim and its continuation data: the claim   *)
(* and the digest together leave no choice of witness.                     *)
LEMMA ClaimAndDigestSettleState ==
  ASSUME NEW s, NEW w, IsState(s), IsState(w),
         public_claim(s) = public_claim(w), s.cont = w.cont
  PROVE  s = w
<1>1. /\ s.genesis_hash = w.genesis_hash /\ s.block_hash = w.block_hash
      /\ s.height = w.height /\ s.chain_work = w.chain_work
  <2>1. /\ public_claim(s).genesis_hash = public_claim(w).genesis_hash
        /\ public_claim(s).tip_hash = public_claim(w).tip_hash
        /\ public_claim(s).height = public_claim(w).height
        /\ public_claim(s).chain_work = public_claim(w).chain_work
    OBVIOUS
  <2> QED
    BY <2>1 DEF public_claim
<1> QED
  BY <1>1 DEF IsState

(* The fields of the public values of a proof that tells of a state.       *)
LEMMA WhatIsTold ==
  ASSUME NEW p, NEW s, TellsOf(p, s)
  PROVE  /\ p.pv.claim = public_claim(s) /\ p.pv.continuation_digest = s.cont
         /\ \/ p.pv.return_code = "Success" /\ p.pv = Success(public_claim(s), s.cont, SELF)
            \/ /\ p.pv.return_code # "Success"
               /\ p.pv.failure_height = s.height + 1
               /\ \E header \in HEADERS :
                    Outcome(s.height, s.cont, header) = p.pv.return_code
<1>1. CASE p.pv = Success(public_claim(s), s.cont, SELF)
  BY <1>1 DEF Success
<1>2. ASSUME NEW header \in HEADERS,
             Outcome(s.height, s.cont, header) # "Success",
             p.pv = Failure(public_claim(s), Outcome(s.height, s.cont, header),
                            s.height + 1, s.cont, SELF)
      PROVE  /\ p.pv.claim = public_claim(s) /\ p.pv.continuation_digest = s.cont
             /\ p.pv.return_code # "Success"
             /\ p.pv.failure_height = s.height + 1
             /\ Outcome(s.height, s.cont, header) = p.pv.return_code
  BY <1>2 DEF Failure
<1> QED
  BY <1>1, <1>2 DEF TellsOf

(* A proof that passes verify_prior_proof tells of a valid state, so it is *)
(* the success of that state, and its claim and digest are the given ones. *)
LEMMA AcceptedProof ==
  ASSUME NEW p, NEW s, NEW claim, NEW digest,
         TellsOf(p, s), p.pv = Success(claim, digest, SELF)
  PROVE  claim = public_claim(s) /\ digest = s.cont
<1>1. p.pv.claim = claim /\ p.pv.continuation_digest = digest
  BY DEF Success
<1> QED
  BY <1>1, WhatIsTold

-----------------------------------------------------------------------------
(* Initially nothing is proved and nothing runs.                           *)
LEMMA InitIInv == Init => IInv
  BY DEF Init, IInv, ExecutionReached, ProofsReached

(* An own execution that commits what TellsOf says adds a proof that is    *)
(* reached; one given another key adds none of the guest's own.            *)
LEMMA CommitIInv ==
  ASSUME IInv, pc = "applying", NEW pv, Commit(pv),
         pv.verifier_key = verifier_key,
         verifier_key = SELF => TellsOf([program |-> SELF, pv |-> pv, lineage |-> lineage],
                                        state)
  PROVE  IInv'
<1> DEFINE new == [program |-> SELF, pv |-> pv, lineage |-> lineage]
<1>1. proofs' = proofs \cup {new} /\ pc' = "idle"
  BY DEF Commit, End
<1>2. ExecutionReached'
  BY <1>1 DEF ExecutionReached
<1>3. ASSUME NEW p \in proofs', Own(p)
      PROVE  Reached(p.lineage, Last(p.lineage)) /\ TellsOf(p, Last(p.lineage))
  <2>1. CASE p \in proofs
    BY <2>1, <1>3 DEF IInv, ProofsReached
  <2>2. CASE p = new
    <3>1. p.pv = pv /\ p.lineage = lineage
      BY <2>2
    <3>2. verifier_key = SELF
      BY <3>1, <1>3 DEF Own
    <3>3. Reached(lineage, state)
      BY <3>2 DEF IInv, ExecutionReached
    <3>4. Last(lineage) = state
      BY <3>3 DEF Reached
    <3> QED
      BY <2>2, <3>1, <3>2, <3>3, <3>4
  <2> QED
    BY <1>1, <2>1, <2>2
<1>4. ProofsReached'
  BY <1>3 DEF ProofsReached
<1> QED
  BY <1>2, <1>4 DEF IInv

(* Every step preserves the invariant.                                     *)
LEMMA NextIInv == IInv /\ [Next]_vars => IInv'
<1> SUFFICES ASSUME IInv, [Next]_vars
             PROVE  IInv'
  OBVIOUS
<1> USE DEF IInv
<1>1. ASSUME NEW key \in KEYS, NEW witness \in ANCHORS, StartAtAnchor(witness, key)
      PROVE  IInv'
  <2>1. Reached(<<witness>>, witness)
    BY AnchorReached
  <2>2. ExecutionReached'
    BY <1>1, <2>1 DEF StartAtAnchor, ExecutionReached
  <2>3. ProofsReached'
    BY <1>1 DEF StartAtAnchor, ProofsReached
  <2> QED
    BY <2>2, <2>3
<1>2. ASSUME NEW key \in KEYS, NEW witness \in Witnesses, NEW claim \in Claims,
             NEW q \in proofs, NEW exit_code \in {0, 1},
             StartFromProof(witness, claim, key, q.pv, exit_code)
      PROVE  IInv'
  <2>1. PICK p \in proofs : p.program = key /\ p.pv = q.pv /\ lineage' = p.lineage
    BY <1>2 DEF StartFromProof
  <2>2. /\ q.pv = Success(claim, witness.cont, key)
        /\ public_claim(witness) = claim
        /\ verifier_key' = key /\ state' = witness
    BY <1>2 DEF StartFromProof, verify_prior_proof, witness_matches
  <2>3. ASSUME key = SELF
        PROVE  Reached(lineage', witness)
    <3>1. p.pv = Success(claim, witness.cont, SELF)
      BY <2>1, <2>2, <2>3
    <3>2. p.pv.verifier_key = SELF
      BY <3>1 DEF Success
    <3>3. Own(p)
      BY <2>1, <2>3, <3>2 DEF Own
    <3> DEFINE s == Last(p.lineage)
    <3>4. Reached(p.lineage, s) /\ TellsOf(p, s)
      BY <3>3 DEF ProofsReached
    <3> HIDE DEF s
    <3>5. claim = public_claim(s) /\ witness.cont = s.cont
      BY <3>1, <3>4, AcceptedProof
    <3>6. IsState(witness)
      BY DEF Witnesses, IsState
    <3>7. s = witness
      BY <3>4, <3>5, <3>6, <2>2, ClaimAndDigestSettleState DEF Reached
    <3> QED
      BY <2>1, <3>4, <3>7
  <2>4. ExecutionReached'
    BY <2>2, <2>3 DEF ExecutionReached
  <2>5. ProofsReached'
    BY <1>2 DEF StartFromProof, ProofsReached
  <2> QED
    BY <2>4, <2>5
<1>3. ASSUME NEW key \in KEYS, NEW pv \in FOREIGN, ForeignProof(key, pv)
      PROVE  IInv'
  <2>1. ExecutionReached'
    BY <1>3 DEF ForeignProof, ExecutionReached
  <2>2. ASSUME NEW p \in proofs', Own(p)
        PROVE  p \in proofs
    BY <1>3, <2>2 DEF ForeignProof, Own
  <2>3. ProofsReached'
    BY <2>2 DEF ProofsReached
  <2> QED
    BY <2>1, <2>3
<1>4. ASSUME NEW header \in HEADERS, ApplyHeader(header)
      PROVE  IInv'
  <2>1. /\ pc = "applying" /\ IsValid(state, header)
        /\ state' = Extended(state, header)
        /\ lineage' = Append(lineage, Extended(state, header))
        /\ verifier_key' = verifier_key /\ proofs' = proofs
    BY <1>4 DEF ApplyHeader
  <2>2. ExecutionReached'
    <3> SUFFICES ASSUME verifier_key = SELF
                 PROVE  Reached(lineage', state')
      BY <2>1 DEF ExecutionReached
    <3>1. Reached(lineage, state)
      BY <2>1 DEF ExecutionReached
    <3>2. Reached(Append(lineage, Extended(state, header)), Extended(state, header))
      BY <2>1, <3>1, ExtendedReached
    <3> QED
      BY <2>1, <3>2
  <2>3. ProofsReached'
    BY <2>1 DEF ProofsReached
  <2> QED
    BY <2>2, <2>3
<1>5. ASSUME NEW header \in HEADERS, CommitFailure(header)
      PROVE  IInv'
  <2> DEFINE pv == Failure(public_claim(state), Outcome(state.height, state.cont, header),
                           state.height + 1, state.cont, verifier_key)
  <2>1. pc = "applying" /\ Commit(pv)
    BY <1>5 DEF CommitFailure
  <2>2. Outcome(state.height, state.cont, header) # "Success"
    BY <1>5 DEF CommitFailure, IsValid
  <2>3. pv.verifier_key = verifier_key
    BY DEF Failure
  <2>4. ASSUME verifier_key = SELF
        PROVE  TellsOf([program |-> SELF, pv |-> pv, lineage |-> lineage], state)
    BY <2>2, <2>4 DEF TellsOf
  <2> HIDE DEF pv
  <2> QED
    BY <2>1, <2>3, <2>4, CommitIInv
<1>6. ASSUME CommitSuccess
      PROVE  IInv'
  <2> DEFINE pv == Success(public_claim(state), state.cont, verifier_key)
  <2>1. pc = "applying" /\ Commit(pv)
    BY <1>6 DEF CommitSuccess
  <2>2. pv.verifier_key = verifier_key
    BY DEF Success
  <2>3. ASSUME verifier_key = SELF
        PROVE  TellsOf([program |-> SELF, pv |-> pv, lineage |-> lineage], state)
    BY <2>3 DEF TellsOf
  <2> HIDE DEF pv
  <2> QED
    BY <2>1, <2>2, <2>3, CommitIInv
<1>7. ASSUME Panic
      PROVE  IInv'
  BY <1>7 DEF Panic, End, ExecutionReached, ProofsReached
<1>8. ASSUME UNCHANGED vars
      PROVE  IInv'
  BY <1>8 DEF vars, ExecutionReached, ProofsReached
<1> QED
  BY <1>1, <1>2, <1>3, <1>4, <1>5, <1>6, <1>7, <1>8 DEF Next

(* The inductive invariant holds of every execution.                       *)
THEOREM Reachability == Spec => []IInv
  BY InitIInv, NextIInv, PTL DEF Spec

-----------------------------------------------------------------------------
(* What the guest's own proofs claim was reached from an anchor through    *)
(* valid headers only: prior proofs, witness and claim come from the host, *)
(* and none of them can make a proof say otherwise.                        *)
THEOREM ClaimsAreReached == Spec => []ClaimsHaveLineage
<1>1. IInv => ClaimsHaveLineage
  <2> SUFFICES ASSUME IInv, NEW p \in proofs, Own(p)
               PROVE  IsLineage(p.lineage) /\ Continues(Last(p.lineage), p)
    BY DEF ClaimsHaveLineage
  <2> DEFINE s == Last(p.lineage)
  <2>1. Reached(p.lineage, s) /\ TellsOf(p, s)
    BY DEF IInv, ProofsReached
  <2> HIDE DEF s
  <2>2. p.pv.claim = public_claim(s) /\ p.pv.continuation_digest = s.cont
    BY <2>1, WhatIsTold
  <2> QED
    BY <2>1, <2>2 DEF Reached, Continues, s
<1> QED
  BY <1>1, Reachability, PTL

(* A failure of the guest's own names a header that the rules reject after *)
(* the claimed tip, with the code and at the height they reject it.        *)
THEOREM FailuresAreTrue == Spec => []FailureBlamesInvalidHeader
<1>1. IInv => FailureBlamesInvalidHeader
  <2> SUFFICES ASSUME IInv, NEW p \in proofs, Own(p), p.pv.return_code # "Success"
               PROVE  LET s == Last(p.lineage)
                      IN  /\ p.pv.failure_height = s.height + 1
                          /\ \E header \in HEADERS :
                               Outcome(s.height, s.cont, header) = p.pv.return_code
    BY DEF FailureBlamesInvalidHeader
  <2> DEFINE s == Last(p.lineage)
  <2>1. TellsOf(p, s)
    BY DEF IInv, ProofsReached
  <2> HIDE DEF s
  <2>2. /\ p.pv.failure_height = s.height + 1
        /\ \E header \in HEADERS : Outcome(s.height, s.cont, header) = p.pv.return_code
    BY <2>1, WhatIsTold
  <2> QED
    BY <2>2 DEF s
<1> QED
  BY <1>1, Reachability, PTL

(* A successful proof of the guest's own is continued from the state it    *)
(* ended in and from no other witness, a failed one from none.             *)
THEOREM ResumeIsUnique == Spec => []ResumeIsExact
<1>1. IInv => ResumeIsExact
  <2> SUFFICES ASSUME IInv, NEW p \in proofs, NEW w \in Witnesses, NEW claim \in Claims,
                      Own(p)
               PROVE  (witness_matches(w, claim)
                         /\ verify_prior_proof(p.pv, 0, SELF, claim, w.cont))
                      <=> (/\ p.pv.return_code = "Success" /\ claim = p.pv.claim
                           /\ w = Last(p.lineage))
    BY DEF ResumeIsExact
  <2> DEFINE s == Last(p.lineage)
  <2>1. Reached(p.lineage, s) /\ TellsOf(p, s)
    BY DEF IInv, ProofsReached
  <2> HIDE DEF s
  <2>2. IsState(w)
    BY DEF Witnesses, IsState
  <2>3. ASSUME witness_matches(w, claim), verify_prior_proof(p.pv, 0, SELF, claim, w.cont)
        PROVE  p.pv.return_code = "Success" /\ claim = p.pv.claim /\ w = s
    <3>1. p.pv = Success(claim, w.cont, SELF) /\ public_claim(w) = claim
      BY <2>3 DEF witness_matches, verify_prior_proof
    <3>2. p.pv.return_code = "Success" /\ p.pv.claim = claim
      BY <3>1 DEF Success
    <3>3. claim = public_claim(s) /\ w.cont = s.cont
      BY <2>1, <3>1, AcceptedProof
    <3>4. w = s
      BY <2>1, <2>2, <3>1, <3>3, ClaimAndDigestSettleState DEF Reached
    <3> QED
      BY <3>2, <3>4
  <2>4. ASSUME p.pv.return_code = "Success", claim = p.pv.claim, w = s
        PROVE  witness_matches(w, claim) /\ verify_prior_proof(p.pv, 0, SELF, claim, w.cont)
    <3>1. p.pv = Success(public_claim(s), s.cont, SELF)
      BY <2>1, <2>4, WhatIsTold
    <3>2. claim = public_claim(s)
      BY <2>4, <3>1 DEF Success
    <3>3. sp1_verifies(SELF, p.pv)
      BY DEF sp1_verifies, Own
    <3> QED
      BY <2>4, <3>1, <3>2, <3>3 DEF witness_matches, verify_prior_proof
  <2> QED
    BY <2>3, <2>4 DEF s
<1> QED
  BY <1>1, Reachability, PTL

-----------------------------------------------------------------------------
(***************************************************************************)
(* The tip settles the claim.  A hash names the header and the block it    *)
(* was computed from, so two lineages of one anchor that meet in a block   *)
(* are the same up to it.                                                  *)
(***************************************************************************)
(* SHA-256 as it is relied on: blocks of one hash have one parent and one  *)
(* header, and no block built on another has the hash of an anchor.        *)
NoCollision ==
  /\ \A a, b, c, d, h, g : HashOf(a, c, h) = HashOf(b, d, g) => a = b /\ h = g
  /\ \A s \in ANCHORS : \A a, c, h : HashOf(a, c, h) # s.block_hash

\* The lineages the guest's own proofs and its own execution can build on.
OwnLineages ==
  {p.lineage : p \in {q \in proofs : Own(q)}}
    \cup {l \in {lineage} : pc = "applying" /\ verifier_key = SELF}

Agree(l, m) ==
  l[1] = m[1] =>
    \A i \in 1..Len(l), j \in 1..Len(m) :
      l[i].block_hash = m[j].block_hash => l[i] = m[j]

LineagesAgree == \A l, m \in OwnLineages : Agree(l, m)

(* Agreement does not depend on the side.                                  *)
LEMMA AgreeIsSymmetric == \A l, m : Agree(l, m) => Agree(m, l)
  BY DEF Agree

(* A block of a lineage is the anchor or a valid header of the one before. *)
LEMMA BlockOfLineage ==
  ASSUME NEW m, IsSeq(m), IsLineage(m), NEW j \in 1..Len(m)
  PROVE  \/ j = 1 /\ m[j] \in ANCHORS
         \/ /\ j - 1 \in 1..Len(m)
            /\ \E h \in HEADERS : m[j] = Extended(m[j-1], h)
<1>1. Len(m) \in Nat
  BY DEF IsSeq
<1>2. CASE j = 1
  BY <1>2 DEF IsLineage
<1>3. CASE j # 1
  <2>1. j \in 2..Len(m) /\ j - 1 \in 1..Len(m)
    BY <1>1, <1>3
  <2>. QED  BY <2>1 DEF IsLineage
<1>. QED  BY <1>2, <1>3

(* An anchor agrees with every lineage: no later block has its hash.       *)
LEMMA AnchorAgrees ==
  ASSUME NoCollision, NEW s \in ANCHORS, NEW m, IsSeq(m), IsLineage(m)
  PROVE  Agree(<<s>>, m)
<1>. SUFFICES ASSUME s = m[1], NEW j \in 1..Len(m), s.block_hash = m[j].block_hash
              PROVE  s = m[j]
  BY DEF Agree
<1>1. ASSUME NEW h \in HEADERS, m[j] = Extended(m[j-1], h) PROVE FALSE
  <2>1. m[j].block_hash = HashOf(m[j-1].block_hash, NextCont(m[j-1].height, m[j-1].cont, h), h)
    BY <1>1 DEF Extended
  <2>. QED  BY <2>1 DEF NoCollision
<1>. QED  BY <1>1, BlockOfLineage

(* A lineage one state longer still agrees with the ones it agreed with.   *)
LEMMA ExtendedAgrees ==
  ASSUME NoCollision, NEW l, NEW s, Reached(l, s), NEW header \in HEADERS,
         NEW m, IsSeq(m), IsLineage(m), Agree(l, m)
  PROVE  Agree(Append(l, Extended(s, header)), m)
<1>. DEFINE t == Extended(s, header)
            n == Append(l, t)
<1>1. PICK S : l \in Seq(S)
  BY DEF Reached, IsSeq
<1>2. Len(l) \in Nat /\ Len(l) > 0 /\ l[Len(l)] = s
  BY <1>1 DEF Reached, IsLineage, Last
<1>3. /\ Len(n) = Len(l) + 1 /\ n[Len(l) + 1] = t
      /\ \A i \in 1..Len(l) : n[i] = l[i]
  BY <1>1
<1>. HIDE DEF n
<1>4. SUFFICES ASSUME n[1] = m[1], NEW i \in 1..Len(n), NEW j \in 1..Len(m),
                      n[i].block_hash = m[j].block_hash
               PROVE  n[i] = m[j]
  BY DEF Agree, n
<1>5. l[1] = m[1]
  BY <1>2, <1>3, <1>4
<1>6. CASE i \in 1..Len(l)
  BY <1>3, <1>4, <1>5, <1>6 DEF Agree
<1>7. CASE i = Len(l) + 1
  <2>1. n[i] = t
    BY <1>3, <1>7
  <2>2. t.block_hash = HashOf(s.block_hash, NextCont(s.height, s.cont, header), header)
    BY DEF Extended
  <2>3. ~(j = 1 /\ m[j] \in ANCHORS)
    BY <2>1, <2>2, <1>4 DEF NoCollision
  <2>4. PICK h \in HEADERS : j - 1 \in 1..Len(m) /\ m[j] = Extended(m[j-1], h)
    BY <2>3, BlockOfLineage
  <2>5. m[j].block_hash = HashOf(m[j-1].block_hash, NextCont(m[j-1].height, m[j-1].cont, h), h)
    BY <2>4 DEF Extended
  <2>6. s.block_hash = m[j-1].block_hash /\ header = h
    BY <2>1, <2>2, <2>5, <1>4 DEF NoCollision
  <2>7. s = m[j-1]
    <3>1. Len(l) \in 1..Len(l)
      BY <1>2
    <3>. QED  BY <3>1, <2>4, <2>6, <1>2, <1>5 DEF Agree
  <2>. QED  BY <2>1, <2>4, <2>6, <2>7
<1>. QED  BY <1>2, <1>3, <1>6, <1>7

(* The lineages of the guest's own are lineages, and stay so.              *)
LEMMA OwnIsReached ==
  ASSUME IInv, NEW l \in OwnLineages
  PROVE  IsSeq(l) /\ IsLineage(l)
BY DEF IInv, OwnLineages, ExecutionReached, ProofsReached, Reached

(* Every step keeps the lineages in agreement: only a start at an anchor   *)
(* and a valid header bring a new one.                                     *)
LEMMA NextAgrees ==
  ASSUME NoCollision, IInv, LineagesAgree, [Next]_vars
  PROVE  LineagesAgree'
<1>n. ASSUME OwnLineages' \subseteq OwnLineages
      PROVE  LineagesAgree'
  BY <1>n DEF LineagesAgree, Agree
<1>a. ASSUME NEW n, OwnLineages' \subseteq OwnLineages \cup {n}, Agree(n, n),
             \A m \in OwnLineages : Agree(n, m)
      PROVE  LineagesAgree'
  <2>1. \A l, m \in OwnLineages' : Agree(l, m)
    BY <1>a, AgreeIsSymmetric DEF LineagesAgree
  <2>. QED  BY <2>1 DEF LineagesAgree, Agree
<1>1. ASSUME NEW key \in KEYS, NEW witness \in ANCHORS, StartAtAnchor(witness, key)
      PROVE  LineagesAgree'
  <2>1. OwnLineages' \subseteq OwnLineages \cup {<<witness>>}
    BY <1>1 DEF StartAtAnchor, OwnLineages
  <2>2. IsSeq(<<witness>>) /\ IsLineage(<<witness>>)
    BY AnchorReached DEF Reached
  <2>3. Agree(<<witness>>, <<witness>>) /\ \A m \in OwnLineages : Agree(<<witness>>, m)
    BY <2>2, AnchorAgrees, OwnIsReached
  <2>. QED  BY <2>1, <2>3, <1>a
<1>2. ASSUME NEW key \in KEYS, NEW witness \in Witnesses, NEW claim \in Claims,
             NEW q \in proofs, NEW exit_code \in {0, 1},
             StartFromProof(witness, claim, key, q.pv, exit_code)
      PROVE  LineagesAgree'
  <2>1. PICK p \in proofs : p.program = key /\ p.pv = q.pv /\ lineage' = p.lineage
    BY <1>2 DEF StartFromProof
  <2>2. q.pv.verifier_key = key /\ verifier_key' = key /\ proofs' = proofs
    BY <1>2 DEF StartFromProof, verify_prior_proof, Success
  <2>3. key = SELF => lineage' \in OwnLineages
    BY <2>1, <2>2 DEF OwnLineages, Own
  <2>4. OwnLineages' \subseteq OwnLineages
    BY <2>2, <2>3 DEF OwnLineages
  <2>. QED  BY <2>4, <1>n
<1>3. ASSUME NEW key \in KEYS, NEW pv \in FOREIGN, ForeignProof(key, pv)
      PROVE  LineagesAgree'
  <2>1. OwnLineages' \subseteq OwnLineages
    BY <1>3 DEF ForeignProof, OwnLineages, Own
  <2>. QED  BY <2>1, <1>n
<1>4. ASSUME NEW header \in HEADERS, ApplyHeader(header)
      PROVE  LineagesAgree'
  <2>. DEFINE n == Append(lineage, Extended(state, header))
  <2>1. /\ pc = "applying" /\ IsValid(state, header) /\ lineage' = n
        /\ verifier_key' = verifier_key /\ proofs' = proofs
    BY <1>4 DEF ApplyHeader
  <2>2. CASE verifier_key # SELF
    <3>1. OwnLineages' \subseteq OwnLineages
      BY <2>1, <2>2 DEF OwnLineages
    <3>. QED  BY <3>1, <1>n
  <2>3. CASE verifier_key = SELF
    <3>1. Reached(lineage, state) /\ lineage \in OwnLineages
      BY <2>1, <2>3 DEF IInv, ExecutionReached, OwnLineages
    <3>2. IsSeq(n) /\ IsLineage(n)
      BY <2>1, <3>1, ExtendedReached DEF Reached
    <3>3. ASSUME NEW m, IsSeq(m), IsLineage(m), Agree(lineage, m)
          PROVE  Agree(n, m)
      BY <3>1, <3>3, ExtendedAgrees
    <3>4. OwnLineages' \subseteq OwnLineages \cup {n}
      BY <2>1 DEF OwnLineages
    <3>. HIDE DEF n
    <3>5. \A m \in OwnLineages : Agree(n, m)
      BY <3>1, <3>3, OwnIsReached DEF LineagesAgree
    <3>6. Agree(lineage, n)
      BY <3>1, <3>5, AgreeIsSymmetric
    <3>7. Agree(n, n)
      BY <3>2, <3>3, <3>6
    <3>. QED  BY <3>4, <3>5, <3>7, <1>a
  <2>. QED  BY <2>2, <2>3
<1>5. ASSUME NEW pv, pc = "applying", Commit(pv), pv.verifier_key = verifier_key
      PROVE  LineagesAgree'
  <2>1. OwnLineages' \subseteq OwnLineages
    BY <1>5 DEF Commit, End, OwnLineages, Own
  <2>. QED  BY <2>1, <1>n
<1>6. ASSUME NEW header \in HEADERS, CommitFailure(header)
      PROVE  LineagesAgree'
  BY <1>5, <1>6 DEF CommitFailure, Failure
<1>7. ASSUME CommitSuccess
      PROVE  LineagesAgree'
  BY <1>5, <1>7 DEF CommitSuccess, Success
<1>8. ASSUME Panic
      PROVE  LineagesAgree'
  <2>1. OwnLineages' \subseteq OwnLineages
    BY <1>8 DEF Panic, End, OwnLineages, Own
  <2>. QED  BY <2>1, <1>n
<1>9. ASSUME UNCHANGED vars
      PROVE  LineagesAgree'
  BY <1>9 DEF vars, LineagesAgree, Agree, OwnLineages, Own
<1>. QED  BY <1>1, <1>2, <1>3, <1>4, <1>6, <1>7, <1>8, <1>9 DEF Next

(* With no collision of hashes, two of the guest's own proofs from one     *)
(* anchor that end at the same block agree on height, work and digest,     *)
(* however many executions, and of whatever length, they were chained from.*)
THEOREM TipSettlesClaim ==
  ASSUME NoCollision
  PROVE  Spec => []TipDeterminesClaim
<1>1. Init => LineagesAgree
  BY DEF Init, LineagesAgree, OwnLineages
<1>2. IInv /\ LineagesAgree /\ [Next]_vars => LineagesAgree'
  BY NextAgrees
<1>3. IInv /\ LineagesAgree => TipDeterminesClaim
  <2>. SUFFICES ASSUME IInv, LineagesAgree, NEW p \in proofs, NEW q \in proofs,
                       Own(p), Own(q), p.lineage[1] = q.lineage[1],
                       p.pv.claim.tip_hash = q.pv.claim.tip_hash
                PROVE  /\ p.pv.claim = q.pv.claim
                       /\ p.pv.continuation_digest = q.pv.continuation_digest
    BY DEF TipDeterminesClaim
  <2>. DEFINE s == Last(p.lineage)
              w == Last(q.lineage)
  <2>1. /\ Reached(p.lineage, s) /\ TellsOf(p, s)
        /\ Reached(q.lineage, w) /\ TellsOf(q, w)
    BY DEF IInv, ProofsReached
  <2>2. /\ Len(p.lineage) \in 1..Len(p.lineage) /\ s = p.lineage[Len(p.lineage)]
        /\ Len(q.lineage) \in 1..Len(q.lineage) /\ w = q.lineage[Len(q.lineage)]
    BY <2>1 DEF Reached, IsSeq, IsLineage, Last
  <2>3. Agree(p.lineage, q.lineage)
    BY DEF LineagesAgree, OwnLineages
  <2>. HIDE DEF s, w
  <2>4. /\ p.pv.claim = public_claim(s) /\ p.pv.continuation_digest = s.cont
        /\ q.pv.claim = public_claim(w) /\ q.pv.continuation_digest = w.cont
    BY <2>1, WhatIsTold
  <2>5. s.block_hash = w.block_hash
    BY <2>4 DEF public_claim
  <2>6. s = w
    BY <2>2, <2>3, <2>5 DEF Agree
  <2>. QED  BY <2>4, <2>6
<1>. QED  BY <1>1, <1>2, <1>3, Reachability, PTL DEF Spec

-----------------------------------------------------------------------------
(***************************************************************************)
(* Types.  The height of a state is the length of its lineage: an own      *)
(* execution starts at height 0 or in the last state of an earlier own     *)
(* proof, and each header adds one to both.                                *)
(***************************************************************************)
HeightInv ==
  /\ pc = "applying" /\ verifier_key = SELF => state.height = Len(lineage) - 1
  /\ \A p \in proofs : Own(p) => Last(p.lineage).height = Len(p.lineage) - 1

StateInv ==
  /\ pc \in {"idle", "applying"}
  /\ verifier_key \in KEYS
  /\ (pc = "idle") <=> (state = NoState)

CountInv == IsFiniteSet(proofs) /\ Cardinality(proofs) <= MAX_PROOFS

(* A state is not the absence of one.                                      *)
LEMMA StateIsSome ==
  ASSUME NEW s, IsState(s)
  PROVE  s # NoState
<1>1. DOMAIN s = {"genesis_hash", "block_hash", "height", "chain_work", "cont"}
  BY DEF IsState
<1>2. DOMAIN NoState = {}
  BY DEF NoState
<1>. QED  BY <1>1, <1>2

(* A step adds a proof within the bound, or none.                          *)
LEMMA NextCount ==
  ASSUME CountInv, [Next]_vars
  PROVE  CountInv'
<1>1. ASSUME NEW p, proofs' = proofs \cup {p}, Cardinality(proofs') <= MAX_PROOFS
      PROVE  CountInv'
  BY <1>1, FS_AddElement DEF CountInv
<1>2. ASSUME NEW pv, Commit(pv) PROVE CountInv'
  BY <1>1, <1>2 DEF Commit
<1>3. ASSUME NEW key \in KEYS, NEW pv \in FOREIGN, ForeignProof(key, pv) PROVE CountInv'
  BY <1>1, <1>3 DEF ForeignProof
<1>4. ASSUME NEW header \in HEADERS, CommitFailure(header) PROVE CountInv'
  BY <1>2, <1>4 DEF CommitFailure
<1>5. CASE CommitSuccess
  BY <1>2, <1>5 DEF CommitSuccess
<1>6. CASE UNCHANGED proofs
  BY <1>6 DEF CountInv
<1>. QED  BY <1>3, <1>4, <1>5, <1>6 DEF Next, StartAtAnchor, StartFromProof, ApplyHeader, Panic, vars

(* A process between two executions has no state, one in an execution does. *)
LEMMA NextState ==
  ASSUME StateInv, [Next]_vars
  PROVE  StateInv'
<1>1. ASSUME NEW s, IsState(s), NEW key \in KEYS,
             pc' = "applying", state' = s, verifier_key' = key
      PROVE  StateInv'
  BY <1>1, StateIsSome DEF StateInv
<1>2. CASE End
  BY <1>2, GuestAssumption DEF End, StateInv
<1>3. ASSUME NEW key \in KEYS, NEW witness \in ANCHORS, StartAtAnchor(witness, key)
      PROVE  StateInv'
  BY <1>1, <1>3, GuestAssumption DEF StartAtAnchor
<1>4. ASSUME NEW key \in KEYS, NEW witness \in Witnesses, NEW claim \in Claims,
             NEW q \in proofs, NEW exit_code \in {0, 1},
             StartFromProof(witness, claim, key, q.pv, exit_code)
      PROVE  StateInv'
  <2>1. IsState(witness)
    BY DEF Witnesses, IsState
  <2>. QED  BY <1>1, <1>4, <2>1 DEF StartFromProof
<1>5. ASSUME NEW header \in HEADERS, ApplyHeader(header) PROVE StateInv'
  <2>1. IsState(Extended(state, header))
    BY DEF Extended, IsState
  <2>2. verifier_key \in KEYS
    BY DEF StateInv
  <2>. QED  BY <1>1, <1>5, <2>1, <2>2 DEF ApplyHeader
<1>6. CASE UNCHANGED <<pc, verifier_key, state>>
  BY <1>6 DEF StateInv
<1>. QED  BY <1>2, <1>3, <1>4, <1>5, <1>6
          DEF Next, CommitSuccess, CommitFailure, Commit, Panic, ForeignProof, vars

(* Every step keeps heights and lengths together.                          *)
LEMMA NextHeight ==
  ASSUME IInv, HeightInv, [Next]_vars
  PROVE  HeightInv'
<1>0. IInv'
  BY NextIInv
<1>1. ASSUME NEW key \in KEYS, NEW witness \in ANCHORS, StartAtAnchor(witness, key)
      PROVE  HeightInv'
  <2>1. state' = witness /\ lineage' = <<witness>> /\ proofs' = proofs
    BY <1>1 DEF StartAtAnchor
  <2>2. witness.height = 0 /\ Len(<<witness>>) = 1
    BY GuestAssumption
  <2>. QED  BY <2>1, <2>2 DEF HeightInv
<1>2. ASSUME NEW key \in KEYS, NEW witness \in Witnesses, NEW claim \in Claims,
             NEW q \in proofs, NEW exit_code \in {0, 1},
             StartFromProof(witness, claim, key, q.pv, exit_code)
      PROVE  HeightInv'
  <2>1. PICK p \in proofs : p.program = key /\ p.pv = q.pv /\ lineage' = p.lineage
    BY <1>2 DEF StartFromProof
  <2>2. /\ q.pv.verifier_key = key /\ verifier_key' = key /\ proofs' = proofs
        /\ pc' = "applying"
    BY <1>2 DEF StartFromProof, verify_prior_proof, Success
  <2>3. ASSUME key = SELF PROVE state'.height = Len(lineage') - 1
    <3>1. Own(p)
      BY <2>1, <2>2, <2>3 DEF Own
    <3>2. Last(p.lineage).height = Len(p.lineage) - 1
      BY <3>1 DEF HeightInv
    <3>3. Last(lineage') = state'
      BY <1>0, <2>2, <2>3 DEF IInv, ExecutionReached, Reached
    <3>. QED  BY <2>1, <3>2, <3>3
  <2>. QED  BY <2>2, <2>3 DEF HeightInv
<1>3. ASSUME NEW key \in KEYS, NEW pv \in FOREIGN, ForeignProof(key, pv)
      PROVE  HeightInv'
  <2>1. ASSUME NEW p \in proofs', Own(p) PROVE p \in proofs
    BY <1>3, <2>1 DEF ForeignProof, Own
  <2>. QED  BY <1>3, <2>1 DEF ForeignProof, HeightInv
<1>4. ASSUME NEW header \in HEADERS, ApplyHeader(header)
      PROVE  HeightInv'
  <2>1. /\ pc = "applying" /\ verifier_key' = verifier_key /\ proofs' = proofs
        /\ state' = Extended(state, header) /\ lineage' = Append(lineage, state')
    BY <1>4 DEF ApplyHeader
  <2>2. ASSUME verifier_key = SELF PROVE state'.height = Len(lineage') - 1
    <3>1. IsSeq(lineage) /\ state.height = Len(lineage) - 1
      BY <2>1, <2>2 DEF IInv, ExecutionReached, Reached, HeightInv
    <3>2. state'.height = state.height + 1
      BY <2>1 DEF Extended
    <3>3. PICK S : lineage \in Seq(S)
      BY <3>1 DEF IsSeq
    <3>4. Len(lineage) \in Nat /\ Len(lineage') = Len(lineage) + 1
      BY <2>1, <3>3
    <3>. QED  BY <3>1, <3>2, <3>4
  <2>. QED  BY <2>1, <2>2 DEF HeightInv
<1>5. ASSUME NEW pv, pc = "applying", Commit(pv), pv.verifier_key = verifier_key
      PROVE  HeightInv'
  <2>. DEFINE new == [program |-> SELF, pv |-> pv, lineage |-> lineage]
  <2>1. proofs' = proofs \cup {new} /\ pc' = "idle"
    BY <1>5 DEF Commit, End
  <2>2. ASSUME Own(new) PROVE Last(new.lineage).height = Len(new.lineage) - 1
    <3>1. verifier_key = SELF
      BY <1>5, <2>2 DEF Own
    <3>. QED  BY <1>5, <3>1 DEF IInv, ExecutionReached, Reached, HeightInv
  <2>. HIDE DEF new
  <2>. QED  BY <2>1, <2>2 DEF HeightInv
<1>6. ASSUME NEW header \in HEADERS, CommitFailure(header) PROVE HeightInv'
  BY <1>5, <1>6 DEF CommitFailure, Failure
<1>7. CASE CommitSuccess
  BY <1>5, <1>7 DEF CommitSuccess, Success
<1>8. CASE Panic
  BY <1>8 DEF Panic, End, HeightInv
<1>9. CASE UNCHANGED vars
  BY <1>9 DEF vars, HeightInv
<1>. QED  BY <1>1, <1>2, <1>3, <1>4, <1>6, <1>7, <1>8, <1>9 DEF Next

(* Proofs stay within their number, the process has a state exactly in an  *)
(* execution, the height of a state counts the headers of its lineage, and *)
(* the height of a failure tells it from a success.                        *)
THEOREM TypeCorrect == Spec => []TypeOK
<1>1. Init => CountInv /\ StateInv /\ HeightInv
  BY FS_EmptySet, GuestAssumption DEF Init, CountInv, StateInv, HeightInv
<1>2. IInv /\ CountInv /\ StateInv /\ HeightInv => TypeOK
  <2>. SUFFICES ASSUME IInv, HeightInv, NEW p \in proofs, Own(p)
                PROVE  (p.pv.failure_height = 0) <=> (p.pv.return_code = "Success")
    BY DEF TypeOK, CountInv, StateInv, HeightInv
  <2>. DEFINE s == Last(p.lineage)
  <2>1. Reached(p.lineage, s) /\ TellsOf(p, s) /\ s.height = Len(p.lineage) - 1
    BY DEF IInv, ProofsReached, HeightInv
  <2>2. Len(p.lineage) \in Nat /\ Len(p.lineage) > 0
    BY <2>1 DEF Reached, IsSeq, IsLineage
  <2>. HIDE DEF s
  <2>3. CASE p.pv.return_code = "Success"
    <3>1. p.pv = Success(public_claim(s), s.cont, SELF)
      BY <2>1, <2>3, WhatIsTold
    <3>. QED  BY <2>3, <3>1 DEF Success
  <2>4. CASE p.pv.return_code # "Success"
    <3>1. p.pv.failure_height = s.height + 1
      BY <2>1, <2>4, WhatIsTold
    <3>. QED  BY <2>1, <2>2, <2>4, <3>1
  <2>. QED  BY <2>3, <2>4
<1>. QED  BY <1>1, <1>2, NextCount, NextState, NextHeight, Reachability, PTL DEF Spec

-----------------------------------------------------------------------------
(***************************************************************************)
(* The relay.                                                              *)
(***************************************************************************)
RelayIInv == RelayTypeOK /\ RingHoldsRecent /\ HistoryIsChain

(* Division with remainder.                                               *)
LEMMA DivMod ==
  ASSUME NEW x \in Int, NEW m \in Nat \ {0}
  PROVE  x = m * (x \div m) + (x % m) /\ x % m \in 0 .. m - 1 /\ x \div m \in Int
  OBVIOUS

(* Quotient and remainder are unique.                                      *)
LEMMA ModUnique ==
  ASSUME NEW m \in Nat \ {0}, NEW q \in Int, NEW r \in 0 .. m - 1
  PROVE  (m * q + r) % m = r
  OBVIOUS

(* Two numbers less than a modulus apart have different remainders.        *)
LEMMA ModDistinct ==
  ASSUME NEW m \in Nat \ {0}, NEW i \in Int, NEW k \in 1 .. m - 1
  PROVE  i % m # (i - k) % m
<1>1. SUFFICES ASSUME i % m = (i - k) % m PROVE FALSE
  OBVIOUS
<1>. DEFINE a == i \div m
            b == (i - k) \div m
<1>2. i = m * a + (i % m) /\ a \in Int /\ i % m \in Int
  BY DivMod
<1>3. i - k = m * b + ((i - k) % m) /\ b \in Int
  <2>1. i - k \in Int
    OBVIOUS
  <2>. QED  BY <2>1, DivMod
<1>. HIDE DEF a, b
<1>4. k = m * (a - b)
  BY <1>1, <1>2, <1>3
<1>5. a - b \in Int /\ (a - b <= 0 \/ a - b >= 1)
  BY <1>2, <1>3
<1>6. CASE a - b <= 0
  <2>. DEFINE c == a - b
  <2>1. c \in Int /\ c <= 0 /\ k = m * c
    BY <1>4, <1>5, <1>6
  <2>. HIDE DEF c
  <2>2. m * c <= 0
    BY <2>1
  <2>. QED  BY <2>1, <2>2
<1>7. CASE a - b >= 1
  <2>. DEFINE c == a - b
  <2>1. c \in Int /\ c >= 1 /\ k = m * c
    BY <1>4, <1>5, <1>7
  <2>. HIDE DEF c
  <2>2. m * c >= m
    BY <2>1
  <2>. QED  BY <2>1, <2>2
<1>. QED  BY <1>5, <1>6, <1>7

(* A number below the modulus is its own remainder.                        *)
LEMMA ModSmall ==
  ASSUME NEW m \in Nat \ {0}, NEW n \in 0..m - 1
  PROVE  n % m = n
<1>1. (m * 0 + n) % m = n
  BY ModUnique
<1>2. m * 0 + n = n
  OBVIOUS
<1> QED
  BY <1>1, <1>2

(* Nothing is accepted yet, and every slot is zero.                        *)
LEMMA RelayInitIInv == RelayInit => RelayIInv
<1> SUFFICES ASSUME RelayInit PROVE RelayIInv
  OBVIOUS
<1>1. Len(accepted) = 0 /\ acceptedCount = 0 /\ accepted = <<>> /\ available = 0
  BY RelayAssumption DEF RelayInit, available
<1>2. RelayTypeOK
  BY <1>1 DEF RelayInit, RelayTypeOK
<1>3. RingHoldsRecent
  <2>1. 0..available - 1 = {} /\ 0..available = {0}
    BY <1>1
  <2>2. getRecentHeaders(0) = [i \in 1..0 |-> accepted[Len(accepted) + 1 - i]]
    BY DEF getRecentHeaders
  <2>3. \A slot \in Slots : recentHeaders[slot] = NO_RECORD
    BY DEF RelayInit
  <2> QED
    BY <1>1, <2>1, <2>2, <2>3 DEF RingHoldsRecent
<1>4. HistoryIsChain
  BY <1>1 DEF HistoryIsChain
<1> QED
  BY <1>2, <1>3, <1>4 DEF RelayIInv

(* Accepting a summary writes the slot of the oldest record and no other.  *)
LEMMA SubmitRelayIInv ==
  ASSUME RelayIInv, NEW submission \in SUBMISSIONS, submit(submission[1], submission[2])
  PROVE  RelayIInv'
<1> DEFINE s == submission[1]
           n == Len(accepted)
           C == RECENT_HEADER_CAPACITY
<1>1. /\ C \in Nat \ {0} /\ n \in Nat /\ acceptedCount = n
      /\ accepted \in Seq(ProvenSummaries)
      /\ recentHeaders \in [Slots -> ProvenSummaries \cup {NO_RECORD}]
  BY RelayAssumption DEF RelayIInv, RelayTypeOK, RingHoldsRecent
<1>2. s \in ProvenSummaries /\ s \in Summaries
  BY RelayAssumption DEF submit, verifyProof, ProvenSummaries, Summaries
<1>3. /\ recentHeaders' = [recentHeaders EXCEPT ![n % C] = s]
      /\ latestTip' = s /\ hasTip' = TRUE
      /\ acceptedCount' = n + 1 /\ accepted' = Append(accepted, s)
  BY <1>1 DEF submit, Store
<1>4. /\ Len(accepted') = n + 1 /\ accepted'[n + 1] = s
      /\ \A i \in 1..n : accepted'[i] = accepted[i]
      /\ accepted' \in Seq(ProvenSummaries) /\ accepted' # <<>>
  BY <1>1, <1>2, <1>3
<1> HIDE DEF s, n
<1>5. \A k \in Int : k % C \in Slots
  BY <1>1, DivMod DEF Slots
<1>6. RelayTypeOK'
  <2>1. recentHeaders' \in [Slots -> ProvenSummaries \cup {NO_RECORD}]
    BY <1>1, <1>2, <1>3
  <2>2. acceptedCount' \in Nat
    BY <1>1, <1>3
  <2> QED
    BY <1>2, <1>3, <1>4, <2>1, <2>2 DEF RelayTypeOK, ProvenSummaries
<1>7. RingHoldsRecent'
  <2> DEFINE a == available'
  <2>1. a \in Nat /\ a <= n + 1 /\ a <= C /\ (a = C \/ a = n + 1)
    BY <1>1, <1>3 DEF available
  <2> HIDE DEF a
  <2>2. ASSUME NEW offset \in 0..a - 1
        PROVE  recentHeaders'[(acceptedCount' - 1 - offset) % C] = accepted'[n + 1 - offset]
    <3>1. acceptedCount' - 1 - offset = n - offset
      BY <1>1, <1>3, <2>1
    <3>2. CASE offset = 0
      <4>1. n - offset = n /\ n + 1 - offset = n + 1
        BY <3>2, <1>1
      <4>2. n % C \in Slots
        <5>1. n \in Int
          BY <1>1
        <5> QED
          BY <5>1, <1>5, Zenon
      <4>3. recentHeaders'[n % C] = s
        BY <4>2, <1>1, <1>3
      <4>4. recentHeaders'[(n - offset) % C] = s /\ accepted'[n + 1 - offset] = s
        BY <4>1, <4>3, <1>4
      <4> QED
        BY <4>4, <3>1
    <3>3. CASE offset # 0
      <4>1. offset \in 1..C - 1 /\ n \in Int
        BY <3>3, <1>1, <2>1
      <4>2. (n - offset) % C # n % C
        BY <4>1, <1>1, ModDistinct
      <4>3. (n - offset) % C \in Slots
        BY <4>1, <1>5
      <4>4. recentHeaders'[(n - offset) % C] = recentHeaders[(n - offset) % C]
        BY <4>2, <4>3, <1>1, <1>3
      <4>5. offset - 1 \in 0..available - 1
        <5>1. offset - 1 < n /\ offset - 1 < C /\ offset - 1 \in Nat
          BY <4>1, <1>1, <2>1
        <5> QED
          BY <5>1, <1>1 DEF available
      <4>6. getHeaderByOffset(offset - 1) = accepted[n - (offset - 1)]
        BY <4>5 DEF RelayIInv, RingHoldsRecent, n
      <4>7. acceptedCount - 1 - (offset - 1) = n - offset
        BY <4>1, <1>1
      <4>8. getHeaderByOffset(offset - 1) = recentHeaders[(n - offset) % C]
        BY <4>7 DEF getHeaderByOffset
      <4>9. n - (offset - 1) = n + 1 - offset /\ n + 1 - offset \in 1..n
        BY <4>1, <1>1, <2>1
      <4> QED
        BY <3>1, <4>4, <4>6, <4>8, <4>9, <1>4
    <3> QED
      BY <3>2, <3>3
  <2>3. ASSUME NEW count \in 0..a
        PROVE  getRecentHeaders(count)' = [i \in 1..count |-> accepted'[n + 2 - i]]
    <3>1. count \in Nat
      BY <2>1
    <3>2. ASSUME NEW i \in 1..count
          PROVE  recentHeaders'[(acceptedCount' - i) % C] = accepted'[n + 2 - i]
      <4>1. i - 1 \in 0..a - 1
        BY <2>1, <3>1
      <4>2. recentHeaders'[(acceptedCount' - 1 - (i - 1)) % C] = accepted'[n + 1 - (i - 1)]
        BY <2>2, <4>1
      <4>3. /\ acceptedCount' - 1 - (i - 1) = acceptedCount' - i
            /\ n + 1 - (i - 1) = n + 2 - i
        BY <1>1, <1>3, <3>1
      <4> QED
        BY <4>2, <4>3
    <3> QED
      BY <3>2 DEF getRecentHeaders
  <2>4. ASSUME NEW slot \in Slots, slot >= n + 1
        PROVE  recentHeaders'[slot] = NO_RECORD
    <3>1. n \in 0..C - 1 /\ slot \in Nat
      BY <1>1, <2>4 DEF Slots
    <3>2. n % C = n
      BY <3>1, <1>1, ModSmall
    <3>3. slot # n /\ slot >= n
      BY <3>1, <2>4
    <3>4. recentHeaders[slot] = NO_RECORD
      BY <3>3 DEF RelayIInv, RingHoldsRecent, n
    <3> QED
      BY <3>2, <3>3, <3>4, <1>1, <1>3
  <2>5. ASSUME NEW count \in 0..a
        PROVE  getRecentHeaders(count)' = [i \in 1..count |-> accepted'[(n + 1) + 1 - i]]
    <3>1. \A i \in Int : (n + 1) + 1 - i = n + 2 - i
      BY <1>1
    <3> QED
      BY <2>3, <3>1
  <2>6. acceptedCount' = Len(accepted') /\ (Len(accepted') > 0 => latestTip' = accepted'[Len(accepted')])
    BY <1>3, <1>4
  <2>7. ASSUME NEW offset \in 0..a - 1
        PROVE  recentHeaders'[(acceptedCount' - 1 - offset) % C] = accepted'[Len(accepted') - offset]
    <3>1. recentHeaders'[(acceptedCount' - 1 - offset) % C] = accepted'[n + 1 - offset]
      BY <2>2
    <3>2. Len(accepted') - offset = n + 1 - offset
      <4>1. Len(accepted') = n + 1 /\ n \in Nat /\ offset \in Int
        BY <1>1, <1>4, <2>1
      <4> QED
        BY <4>1
    <3> QED
      BY <3>1, <3>2
  <2>8. \A count \in 0..a :
          getRecentHeaders(count)' = [i \in 1..count |-> accepted'[Len(accepted') + 1 - i]]
    BY <2>5, <1>4
  <2>9. \A slot \in Slots : slot >= Len(accepted') => recentHeaders'[slot] = NO_RECORD
    BY <2>4, <1>4
  <2> QED
    BY <2>6, <2>7, <2>8, <2>9 DEF RingHoldsRecent, getHeaderByOffset, a
<1>8. HistoryIsChain'
  <2>1. /\ s.schemaVersion = 1 /\ s.genesisBlockHash = GENESIS_BLOCK_HASH
        /\ hasTip => /\ s.height > latestTip.height
                     /\ s.cumulativeChainWork > latestTip.cumulativeChainWork
                     /\ s.prevBlockHash = latestTip.currentBlockHash
    BY DEF submit, validateSummary, s
  <2>2. \A i \in 1..n : /\ accepted[i].height \in Nat
                        /\ accepted[i].cumulativeChainWork \in Nat
    <3>1. \A i \in 1..n : accepted[i] \in ProvenSummaries
      BY <1>1 DEF n
    <3>2. ProvenSummaries \subseteq Summaries
      BY RelayAssumption DEF ProvenSummaries, Summaries
    <3> QED
      BY <3>1, <3>2, RelayAssumption
  <2>3. s.height \in Nat /\ s.cumulativeChainWork \in Nat
    BY <1>2, RelayAssumption
  <2>4. ASSUME NEW i \in 1..n
        PROVE  /\ accepted[i].height < s.height
               /\ accepted[i].cumulativeChainWork < s.cumulativeChainWork
               /\ i = n => s.prevBlockHash = accepted[i].currentBlockHash
    <3>1. n > 0 /\ n \in 1..n /\ hasTip
      BY <1>1, <2>4 DEF RelayIInv, RelayTypeOK, n
    <3>2. latestTip = accepted[n]
      BY <3>1 DEF RelayIInv, RingHoldsRecent, n
    <3>3. i = n \/ i < n
      BY <1>1, <2>4
    <3>4. i < n => /\ accepted[i].height < accepted[n].height
                   /\ accepted[i].cumulativeChainWork < accepted[n].cumulativeChainWork
      BY <3>1, <2>4 DEF RelayIInv, HistoryIsChain, n
    <3> QED
      BY <2>1, <2>2, <2>3, <3>1, <3>2, <3>3, <3>4
  <2>5. ASSUME NEW i \in 1..n + 1
        PROVE  /\ accepted'[i].schemaVersion = 1
               /\ accepted'[i].genesisBlockHash = GENESIS_BLOCK_HASH
    <3>1. i \in 1..n \/ i = n + 1
      BY <1>1, <2>5
    <3> QED
      BY <3>1, <2>1, <1>4 DEF RelayIInv, HistoryIsChain, n
  <2>6. ASSUME NEW i \in 1..n + 1, NEW j \in 1..n + 1, i < j
        PROVE  /\ accepted'[i].height < accepted'[j].height
               /\ accepted'[i].cumulativeChainWork < accepted'[j].cumulativeChainWork
               /\ j = i + 1 => accepted'[j].prevBlockHash = accepted'[i].currentBlockHash
    <3>1. i \in 1..n /\ accepted'[i] = accepted[i]
      BY <1>1, <1>4, <2>6
    <3>2. CASE j = n + 1
      <4>1. accepted'[j] = s /\ (j = i + 1 => i = n)
        BY <3>2, <3>1, <1>1, <1>4
      <4> QED
        BY <4>1, <3>1, <2>4
    <3>3. CASE j # n + 1
      <4>1. j \in 1..n /\ accepted'[j] = accepted[j]
        BY <3>3, <1>1, <1>4
      <4> QED
        BY <4>1, <3>1, <2>6 DEF RelayIInv, HistoryIsChain, n
    <3> QED
      BY <3>2, <3>3
  <2> QED
    BY <1>4, <2>5, <2>6 DEF HistoryIsChain
<1> QED
  BY <1>6, <1>7, <1>8 DEF RelayIInv

(* A reverted transaction changes nothing.                                 *)
LEMMA RelayNextIInv == RelayIInv /\ [RelayNext]_relayVars => RelayIInv'
<1> SUFFICES ASSUME RelayIInv, [RelayNext]_relayVars PROVE RelayIInv'
  OBVIOUS
<1>1. ASSUME NEW submission \in SUBMISSIONS, submit(submission[1], submission[2])
      PROVE  RelayIInv'
  BY <1>1, SubmitRelayIInv
<1>2. ASSUME UNCHANGED relayVars
      PROVE  RelayIInv'
  BY <1>2 DEF relayVars, RelayIInv, RelayTypeOK, RingHoldsRecent, HistoryIsChain, available,
              getHeaderByOffset, getRecentHeaders
<1> QED
  BY <1>1, <1>2 DEF RelayNext, Reverted

(* The inductive invariant holds of every execution.                       *)
LEMMA RelayInvariant == RelaySpec => []RelayIInv
  BY RelayInitIInv, RelayNextIInv, PTL DEF RelaySpec

(* All the contract keeps was proven, whatever is submitted.               *)
THEOREM OnlyProvenIsKept == RelaySpec => []RelayTypeOK
<1>1. RelayIInv => RelayTypeOK
  BY DEF RelayIInv
<1> QED
  BY <1>1, RelayInvariant, PTL

(* Whatever the capacity, offsets and pages show the end of the history.   *)
THEOREM OffsetsReachLastTips == RelaySpec => []RingHoldsRecent
<1>1. RelayIInv => RingHoldsRecent
  BY DEF RelayIInv
<1> QED
  BY <1>1, RelayInvariant, PTL

(* Whatever is proven and submitted, the accepted tips are one chain.      *)
THEOREM AcceptedTipsAreChain == RelaySpec => []HistoryIsChain
<1>1. RelayIInv => HistoryIsChain
  BY DEF RelayIInv
<1> QED
  BY <1>1, RelayInvariant, PTL

=============================================================================
