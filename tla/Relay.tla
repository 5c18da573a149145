-------------------------------- MODULE Relay --------------------------------
(***************************************************************************)
(* The on-chain relay (contracts/src/BitcoinHeaderRelay.sol): accepts the  *)
(* next proven tip and keeps the last RECENT_HEADER_CAPACITY of them in a  *)
(* ring.  A transaction is one step; anyone may submit anything at any     *)
(* time, so submitters race, repeat themselves and are late.  A summary is *)
(* reduced to the fields the contract compares; the others are only copied.*)
(***************************************************************************)
EXTENDS Integers, Sequences

CONSTANTS
  SUBMISSIONS,            \* pairs of a summary and the bytes of a proof
  PROVEN,                 \* the pairs the verifier accepts for PROGRAM_V_KEY
  GENESIS_BLOCK_HASH,
  RECENT_HEADER_CAPACITY,
  NO_RECORD,              \* a HeaderRecord of zeros
  NO_PROOF                \* latestProofHash before the first tip

Summaries == {submission[1] : submission \in SUBMISSIONS}

ASSUME RelayAssumption ==
  /\ RECENT_HEADER_CAPACITY \in Nat \ {0}
  /\ PROVEN \subseteq SUBMISSIONS
  /\ \A s \in Summaries : s.height \in Nat /\ s.cumulativeChainWork \in Nat

VARIABLES
  acceptedCount, hasTip, latestProofHash,
  latestTip,      \* _latestTip
  recentHeaders,  \* _recentHeaders, at the slots that can be read
  accepted        \* history: every summary accepted, oldest first

relayVars == <<acceptedCount, hasTip, latestProofHash, latestTip, recentHeaders, accepted>>

Slots == 0..RECENT_HEADER_CAPACITY - 1

-----------------------------------------------------------------------------
\* VERIFIER.verifyProof; keccak256 is injective, a proof is its own hash.
verifyProof(summary, proof) == <<summary, proof>> \in PROVEN

\* A wrong variant: the parent is not compared.
validateWithoutParent(summary) ==
  /\ summary.schemaVersion = 1
  /\ summary.genesisBlockHash = GENESIS_BLOCK_HASH
  /\ hasTip => /\ summary.height > latestTip.height
               /\ summary.cumulativeChainWork > latestTip.cumulativeChainWork

\* A wrong variant: a height that stays the same is let through.
validateHeightLax(summary) ==
  /\ summary.schemaVersion = 1
  /\ summary.genesisBlockHash = GENESIS_BLOCK_HASH
  /\ hasTip => /\ summary.height >= latestTip.height
               /\ summary.cumulativeChainWork > latestTip.cumulativeChainWork
               /\ summary.prevBlockHash = latestTip.currentBlockHash

validateSummary(summary) ==
  /\ summary.schemaVersion = 1
  /\ summary.genesisBlockHash = GENESIS_BLOCK_HASH
  /\ hasTip => /\ summary.height > latestTip.height
               /\ summary.cumulativeChainWork > latestTip.cumulativeChainWork
               /\ summary.prevBlockHash = latestTip.currentBlockHash

\* The reads, where they do not revert.
available ==
  IF acceptedCount < RECENT_HEADER_CAPACITY THEN acceptedCount ELSE RECENT_HEADER_CAPACITY

\* A wrong variant: the slot to be written next.
getNextHeaderByOffset(offset) ==
  recentHeaders[(acceptedCount - offset) % RECENT_HEADER_CAPACITY]

getHeaderByOffset(offset) ==
  recentHeaders[(acceptedCount - 1 - offset) % RECENT_HEADER_CAPACITY]

getRecentHeaders(count) ==
  [i \in 1..count |-> recentHeaders[(acceptedCount - i) % RECENT_HEADER_CAPACITY]]

-----------------------------------------------------------------------------
RelayInit ==
  /\ acceptedCount = 0
  /\ hasTip = FALSE
  /\ latestProofHash = NO_PROOF
  /\ latestTip = NO_RECORD
  /\ recentHeaders = [slot \in Slots |-> NO_RECORD]
  /\ accepted = <<>>

Store(summary, proof) ==
  /\ recentHeaders' =
       [recentHeaders EXCEPT ![acceptedCount % RECENT_HEADER_CAPACITY] = summary]
  /\ latestTip' = summary
  /\ latestProofHash' = proof
  /\ hasTip' = TRUE
  /\ acceptedCount' = acceptedCount + 1
  /\ accepted' = Append(accepted, summary)

\* A wrong variant: the proof is not verified.
submitUnverified(summary, proof) ==
  /\ validateSummary(summary)
  /\ Store(summary, proof)

submit(summary, proof) ==
  /\ verifyProof(summary, proof)
  /\ validateSummary(summary)
  /\ Store(summary, proof)

\* Any failed check undoes the transaction.
Reverted(summary, proof) ==
  /\ ~(verifyProof(summary, proof) /\ validateSummary(summary))
  /\ UNCHANGED relayVars

RelayNext ==
  \E submission \in SUBMISSIONS :
    \/ submit(submission[1], submission[2])
    \/ Reverted(submission[1], submission[2])

RelaySpec == RelayInit /\ [][RelayNext]_relayVars

-----------------------------------------------------------------------------
ProvenSummaries == {submission[1] : submission \in PROVEN}

(* All that the contract keeps was proven, and the flag that lets the      *)
(* first tip skip the comparison is down exactly until there is one.       *)
RelayTypeOK ==
  /\ acceptedCount \in Nat
  /\ accepted \in Seq(ProvenSummaries)
  /\ hasTip <=> accepted # <<>>
  /\ hasTip => latestTip \in ProvenSummaries
  /\ recentHeaders \in [Slots -> ProvenSummaries \cup {NO_RECORD}]

(* The ring is the end of the history: offsets and pages reach exactly the *)
(* last tips, newest first, and slots not yet used are zero (submit,       *)
(* getHeaderByOffset, getRecentHeaders, getHeader).                        *)
RingHoldsRecent ==
  LET n == Len(accepted)
  IN  /\ acceptedCount = n
      /\ n > 0 => latestTip = accepted[n]
      /\ \A offset \in 0..available - 1 : getHeaderByOffset(offset) = accepted[n - offset]
      /\ \A count \in 0..available :
           getRecentHeaders(count) = [i \in 1..count |-> accepted[n + 1 - i]]
      /\ \A slot \in Slots : slot >= n => recentHeaders[slot] = NO_RECORD

(* However submissions race, are repeated or come late, the accepted tips  *)
(* are one chain of blocks from the deployment's genesis: each is built on *)
(* the one before, higher and with more work, so none is accepted twice    *)
(* (_validateSummary).                                                     *)
HistoryIsChain ==
  /\ \A i \in 1..Len(accepted) :
       accepted[i].schemaVersion = 1 /\ accepted[i].genesisBlockHash = GENESIS_BLOCK_HASH
  /\ \A i, j \in 1..Len(accepted) : i < j =>
       /\ accepted[i].height < accepted[j].height
       /\ accepted[i].cumulativeChainWork < accepted[j].cumulativeChainWork
       /\ j = i + 1 => accepted[j].prevBlockHash = accepted[i].currentBlockHash

=============================================================================
