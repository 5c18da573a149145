------------------------------- MODULE HeaderDb -------------------------------
(***************************************************************************)
(* The state the host rebuilds from its header database when it resumes at *)
(* a height (state_from_db_at_height, src/crates/host/src/util/db.rs),     *)
(* next to the state apply_headers reaches there by replaying the chain.   *)
(* The guest compares the continuation digest of the two, so every field   *)
(* must agree, unused slots of the ring included.                          *)
(***************************************************************************)
EXTENDS HeaderChain

VARIABLES
  rows,      \* the headers table: rows[h + 1] describes the block at height h
  replayed   \* history: replayed[h + 1] is the state replay had at height h

db_vars == <<vars, rows, replayed>>

\* A block's row: what its header says, and the work a full node gives it.
Row(timestamp, n_bits, chainwork) ==
  [timestamp |-> timestamp, n_bits |-> n_bits, chainwork |-> chainwork]

\* The state a batch that ended at the tip would return.
ReplayedState ==
  [height |-> height, chain_work |-> FlushedWork, current_nbits |-> current_nbits,
   current_target |-> current_target, current_work |-> current_work,
   epoch_start_timestamp |-> epoch_start_timestamp, timestamps |-> timestamps]

-----------------------------------------------------------------------------
load_header_record(h) == rows[h + 1]

\* A wrong variant: the boundary block is put in the epoch before it.
epoch_start_late(h) == IF h = 0 THEN 0 ELSE ((h - 1) \div EPOCH_LENGTH) * EPOCH_LENGTH

epoch_start_height(h) == (h \div EPOCH_LENGTH) * EPOCH_LENGTH

\* The heights of the window of h.
window_heights(h) ==
  LET window_count == IF h + 1 < WINDOW_SIZE THEN h + 1 ELSE WINDOW_SIZE
  IN  (h + 1) - window_count .. h

\* A wrong variant: the slots are filled from the first one on.
rebuilt_in_order(h) ==
  [s \in Slots |->
     IF \E r \in window_heights(h) : r - ((h + 1) - Cardinality(window_heights(h))) = s
     THEN load_header_record(s + ((h + 1) - Cardinality(window_heights(h)))).timestamp
     ELSE 0]

rebuilt_timestamps(h) ==
  [s \in Slots |->
     IF \E r \in window_heights(h) : r % WINDOW_SIZE = s
     THEN load_header_record(CHOOSE r \in window_heights(h) : r % WINDOW_SIZE = s).timestamp
     ELSE 0]

genesis_state_from_record ==
  LET genesis == load_header_record(0)
  IN  [height |-> 0, chain_work |-> genesis.chainwork,
       current_nbits |-> genesis.n_bits, current_target |-> POW_LIMIT,
       current_work |-> work_from_target(POW_LIMIT),
       epoch_start_timestamp |-> genesis.timestamp,
       timestamps |-> [s \in Slots |-> IF s = 0 THEN genesis.timestamp ELSE 0]]

state_from_db_at_height(h) ==
  IF h = 0
  THEN genesis_state_from_record
  ELSE LET current == load_header_record(h)
           target  == target_from_bits(current.n_bits)
       IN  [height |-> h, chain_work |-> current.chainwork,
            current_nbits |-> current.n_bits, current_target |-> target,
            current_work |-> work_from_target(target),
            epoch_start_timestamp |-> load_header_record(epoch_start_height(h)).timestamp,
            timestamps |-> rebuilt_timestamps(h)]

-----------------------------------------------------------------------------
DbInit ==
  /\ Init
  /\ rows = <<Row(GENESIS_TIME, target_to_bits(POW_LIMIT), GENESIS_WORK)>>
  /\ replayed = <<ReplayedState>>

\* A block of the chain is in the table, and stays what it is.
RecordBlock ==
  IF height' = height
  THEN UNCHANGED <<rows, replayed>>
  ELSE /\ rows' = Append(rows, Row(times'[height + 2], current_nbits', total_work'))
       /\ replayed' = Append(replayed, ReplayedState')

DbNext == Next /\ RecordBlock

DbSpec == DbInit /\ [][DbNext]_db_vars

-----------------------------------------------------------------------------
(* Wherever the host resumes, below the tip or at it, the state it reads   *)
(* from the database is in every field the one a replay reached there, so  *)
(* the guest finds the digest of the proof it resumes from.                *)
RebuiltIsReplayed ==
  \A h \in 0 .. height : state_from_db_at_height(h) = replayed[h + 1]

=============================================================================
