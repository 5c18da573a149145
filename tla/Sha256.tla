------------------------------- MODULE Sha256 -------------------------------
(***************************************************************************)
(* Bytes, and SHA-256 as the guest calls it                                *)
(* (src/crates/guest/src/sha256.rs): the blocks it hands to the precompile *)
(* for messages of 32, 80, 116 and 169 bytes, padding and length written   *)
(* out by hand, next to the padding of the standard, which the sha2 crate  *)
(* and SP1 follow on the host.                                             *)
(*                                                                         *)
(* A byte is <<source, place>>: a byte of known value, or the place-th     *)
(* byte of a value nothing is known of but its name.  An integer is its    *)
(* little-endian bytes.  Compressing blocks is injective: the digest is    *)
(* named by the blocks it comes from.                                      *)
(***************************************************************************)
EXTENDS Integers, SequencesExt

Byte(v) == <<<<"byte", <<v>>>>, 0>>

Bytes(a, b, c, d) == <<Byte(a), Byte(b), Byte(c), Byte(d)>>

Zeros(n) == [i \in 1..n |-> Byte(0)]

\* The n bytes of an unknown value.
Value(name, of, n) == [i \in 1..n |-> <<<<name, of>>, i>>]

\* A message without the bytes that merely go on where the one before stopped.
Condensed(msg) ==
  LET After(b) == IF b[1][1] = "byte" THEN b ELSE <<b[1], b[2] + 1>>
      jumps    == {p \in 1..Len(msg) : p = 1 \/ msg[p] # After(msg[p-1])}
  IN  <<Len(msg), [p \in jumps |-> msg[p]]>>

compress(blocks) == Value("sha256", Condensed(blocks), 32)

-----------------------------------------------------------------------------
(* The standard: 0x80, zeros, and the length in bits, up to a multiple of  *)
(* 64 bytes.                                                               *)
Padded(msg) ==
  LET bits == 8 * Len(msg)
  IN  msg \o <<Byte(128)>> \o Zeros((55 - Len(msg)) % 64)
          \o Zeros(6) \o <<Byte(bits \div 256), Byte(bits % 256)>>

digest(msg) == compress(Padded(msg))

-----------------------------------------------------------------------------
(* A block is sixteen words of four bytes: n of the message, from its k-th *)
(* on, then zeros, over which some words are assigned.                     *)
be_words(data, k, n) == [i \in 1..64 |-> IF i <= 4 * n THEN data[4 * k + i] ELSE Byte(0)]

Assign(block, k, word) ==
  [i \in 1..64 |-> IF (i - 1) \div 4 = k THEN word[i - 4 * k] ELSE block[i]]

\* A block with the end mark and the length of the message.
End(block, k, mark, length) == Assign(Assign(block, k, mark), 15, length)

sha256_80bytes(data) ==
  compress(be_words(data, 0, 16)
        \o End(be_words(data, 16, 4), 4, Bytes(128, 0, 0, 0), Bytes(0, 0, 2, 128)))

sha256_32bytes(data) ==
  compress(End(be_words(data, 0, 8), 8, Bytes(128, 0, 0, 0), Bytes(0, 0, 1, 0)))

sha256d_80bytes(data) == sha256_32bytes(sha256_80bytes(data))

sha256_116bytes(data) ==
  compress(be_words(data, 0, 16)
        \o End(be_words(data, 16, 13), 13, Bytes(128, 0, 0, 0), Bytes(0, 0, 3, 160)))

\* The last word has one byte of the message and the end mark.
LastOf169(data) == <<data[169], Byte(128), Byte(0), Byte(0)>>

\* A wrong variant: the words of the second block are still there in the third.
sha256_169bytes_stale(data) ==
  LET stale == [i \in 1..64 |-> IF i <= 40 THEN data[128 + i] ELSE data[64 + i]]
  IN  compress(be_words(data, 0, 16)
            \o be_words(data, 16, 16)
            \o End(stale, 10, LastOf169(data), Bytes(0, 0, 5, 72)))

sha256_169bytes(data) ==
  compress(be_words(data, 0, 16)
        \o be_words(data, 16, 16)
        \o End(be_words(data, 32, 10), 10, LastOf169(data), Bytes(0, 0, 5, 72)))

=============================================================================
