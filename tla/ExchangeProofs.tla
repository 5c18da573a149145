--------------------------- MODULE ExchangeProofs ---------------------------
(***************************************************************************)
(* The wire for every size of a batch, number of batches, and value a byte *)
(* or a length can change to.                                              *)
(*                                                                         *)
(* First what is true of the bytes, for all of them: the padding written   *)
(* by hand is the standard's, each layout is read back as written, equal   *)
(* digests are digests of equal bytes.  Then the walk over headers: along  *)
(* the rows the guest reaches the states of the table, and a tip settles   *)
(* the headers under it.  The inductive invariant says that every buffer   *)
(* is the one built but for one change; what can have changed without      *)
(* notice is what the guest's checks say nothing of.                       *)
(***************************************************************************)
EXTENDS Exchange, FiniteSetTheorems, WellFoundedInduction, TLAPS

-----------------------------------------------------------------------------
(***************************************************************************)
(* Byte strings.  Nothing is said of what a byte is: a digest names the    *)
(* blocks it comes from, bytes that name others, and so on, so there is no *)
(* set of all bytes to take the sequences of.                              *)
(***************************************************************************)
IsBytes(s, n) == n \in Nat /\ s = [i \in 1..n |-> s[i]]

(* Induction, with a set in place of a predicate: the numbers up to the    *)
(* first one outside it are a finite set, and smaller than any other such. *)
LEMMA SetInduction ==
  ASSUME NEW S, 0 \in S, \A n \in Nat : n \in S => n + 1 \in S
  PROVE  Nat \subseteq S
<1>. SUFFICES ASSUME NEW m \in Nat \ S PROVE FALSE
  OBVIOUS
<1>. DEFINE F == {0..n : n \in Nat \ S}
<1>1. F \subseteq FiniteSubsetsOf(Nat) /\ F # {}
  <2>1. \A n \in Nat : IsFiniteSet(0..n) /\ 0..n \subseteq Nat
    BY FS_Interval
  <2>. QED  BY <2>1 DEF FiniteSubsetsOf
<1>2. PICK X \in F : \A Y \in F : ~(<<Y, X>> \in StrictSubsetOrdering(Nat))
  BY <1>1, FS_StrictSubsetOrderingWellFounded, WFMin
<1>3. PICK n \in Nat \ S : X = 0..n
  BY <1>2
<1>4. n - 1 \in Nat \ S
  BY <1>3
<1>5. 0..(n - 1) \subseteq 0..n /\ n \in 0..n /\ ~(n \in 0..(n - 1)) /\ 0..n \subseteq Nat
  BY <1>3
<1>6. <<0..(n - 1), 0..n>> \in StrictSubsetOrdering(Nat)
  BY <1>5 DEF StrictSubsetOrdering
<1>. QED  BY <1>2, <1>3, <1>4, <1>6

(* Two byte strings are sequences over the bytes that occur in them.       *)
LEMMA AreSeqs ==
  ASSUME NEW s, NEW m, IsBytes(s, m), NEW t, NEW n, IsBytes(t, n)
  PROVE  \E S : s \in Seq(S) /\ t \in Seq(S) /\ Len(s) = m /\ Len(t) = n
<1>. DEFINE S == {s[i] : i \in 1..m} \cup {t[i] : i \in 1..n}
<1>1. s \in [1..m -> S] /\ t \in [1..n -> S]
  BY DEF IsBytes
<1>. HIDE DEF S
<1>2. s \in Seq(S) /\ t \in Seq(S) /\ Len(s) = m /\ Len(t) = n
  BY <1>1 DEF IsBytes
<1>. QED  BY <1>2

(* A byte string is a function on the places up to its length.             *)
LEMMA BytesLength ==
  ASSUME NEW s, NEW n, IsBytes(s, n)
  PROVE  Len(s) = n /\ DOMAIN s = 1..n /\ n \in Nat
BY AreSeqs DEF IsBytes

(* Strings of one length with the same bytes are one string.               *)
LEMMA SameBytes ==
  ASSUME NEW s, NEW t, NEW n, IsBytes(s, n), IsBytes(t, n), \A i \in 1..n : s[i] = t[i]
  PROVE  s = t
BY DEF IsBytes

\* c is s, of m bytes, and behind it t, of n.
IsJoined(c, s, m, t, n) ==
  /\ IsBytes(c, m + n)
  /\ \A i \in 1..m : c[i] = s[i]
  /\ \A i \in 1..n : c[m + i] = t[i]

(* What two strings one after the other are.                               *)
LEMMA Concat ==
  ASSUME NEW s, NEW m, IsBytes(s, m), NEW t, NEW n, IsBytes(t, n)
  PROVE  IsJoined(s \o t, s, m, t, n)
<1>1. PICK S : s \in Seq(S) /\ t \in Seq(S) /\ Len(s) = m /\ Len(t) = n
  BY AreSeqs
<1>. QED  BY <1>1 DEF IsBytes, IsJoined

(* What a slice is, byte by byte.                                          *)
LEMMA Sliced ==
  ASSUME NEW s, NEW m, IsBytes(s, m), NEW a \in 0..m, NEW z \in a..m
  PROVE  /\ IsBytes(Slice(s, a, z), z - a)
         /\ \A i \in 1..(z - a) : Slice(s, a, z)[i] = s[a + i]
<1>1. PICK S : s \in Seq(S) /\ Len(s) = m
  BY AreSeqs
<1>. QED  BY <1>1 DEF IsBytes, Slice

(* What is appended is the slice at the end, and the slices before it are  *)
(* what they were.                                                         *)
LEMMA Appended ==
  ASSUME NEW s, NEW m, IsBytes(s, m), NEW t, NEW n, IsBytes(t, n)
  PROVE  /\ IsBytes(s \o t, m + n)
         /\ Slice(s \o t, m, m + n) = t
         /\ Slice(s \o t, 0, m) = s
         /\ \A a \in 0..m, z \in 0..m : a <= z => Slice(s \o t, a, z) = Slice(s, a, z)
<1>. DEFINE c == s \o t
<1>0. IsJoined(c, s, m, t, n)
  BY Concat
<1>. HIDE DEF c
<1>1. /\ IsBytes(c, m + n)
      /\ \A i \in 1..m : c[i] = s[i]
      /\ \A i \in 1..n : c[m + i] = t[i]
  BY <1>0 DEF IsJoined
<1>2. m \in Nat /\ n \in Nat
  BY DEF IsBytes
<1>3. Slice(c, m, m + n) = t
  <2>1. m \in 0..(m + n) /\ m + n \in m..(m + n) /\ (m + n) - m = n
    BY <1>2
  <2>2. IsBytes(Slice(c, m, m + n), n) /\ \A i \in 1..n : Slice(c, m, m + n)[i] = c[m + i]
    BY <1>1, <2>1, Sliced
  <2>. QED  BY <1>1, <2>2, SameBytes
<1>4. ASSUME NEW a \in 0..m, NEW z \in 0..m, a <= z
      PROVE  Slice(c, a, z) = Slice(s, a, z)
  <2>1. a \in 0..(m + n) /\ z \in a..(m + n) /\ z \in a..m
    BY <1>2, <1>4
  <2>2. IsBytes(Slice(c, a, z), z - a) /\ \A i \in 1..(z - a) : Slice(c, a, z)[i] = c[a + i]
    BY <1>1, <2>1, Sliced
  <2>3. IsBytes(Slice(s, a, z), z - a) /\ \A i \in 1..(z - a) : Slice(s, a, z)[i] = s[a + i]
    BY <2>1, Sliced
  <2>4. \A i \in 1..(z - a) : a + i \in 1..m
    BY <1>2, <2>1
  <2>. QED  BY <1>1, <2>2, <2>3, <2>4, SameBytes
<1>5. Slice(c, 0, m) = s
  <2>1. 0 \in 0..m /\ m \in 0..m /\ m - 0 = m
    BY <1>2
  <2>2. IsBytes(Slice(s, 0, m), m) /\ \A i \in 1..m : Slice(s, 0, m)[i] = s[0 + i]
    BY <2>1, Sliced
  <2>3. Slice(s, 0, m) = s
    BY <1>2, <2>2, SameBytes
  <2>. QED  BY <1>2, <1>4, <2>1, <2>3
<1>. QED  BY <1>1, <1>3, <1>4, <1>5 DEF c

(* A slice of a slice is a slice, at the sum of the offsets.               *)
LEMMA SliceOfSlice ==
  ASSUME NEW s, NEW m, IsBytes(s, m), NEW a \in 0..m, NEW z \in a..m,
         NEW b \in 0..(z - a), NEW y \in b..(z - a)
  PROVE  Slice(Slice(s, a, z), b, y) = Slice(s, a + b, a + y)
<1>. DEFINE t == Slice(s, a, z)
<1>1. m \in Nat
  BY DEF IsBytes
<1>2. IsBytes(t, z - a) /\ \A i \in 1..(z - a) : t[i] = s[a + i]
  BY Sliced
<1>. HIDE DEF t
<1>3. IsBytes(Slice(t, b, y), y - b) /\ \A i \in 1..(y - b) : Slice(t, b, y)[i] = t[b + i]
  BY <1>2, Sliced
<1>4. a + b \in 0..m /\ a + y \in (a + b)..m /\ (a + y) - (a + b) = y - b
  BY <1>1
<1>5. /\ IsBytes(Slice(s, a + b, a + y), y - b)
      /\ \A i \in 1..(y - b) : Slice(s, a + b, a + y)[i] = s[(a + b) + i]
  BY <1>4, Sliced
<1>6. \A i \in 1..(y - b) : b + i \in 1..(z - a) /\ a + (b + i) = (a + b) + i
  OBVIOUS
<1>. QED  BY <1>2, <1>3, <1>5, <1>6, SameBytes DEF t

(* A byte is settled by any slice it is in.                                *)
LEMMA ByteInSlice ==
  ASSUME NEW s, NEW t, NEW m, IsBytes(s, m), IsBytes(t, m),
         NEW a \in 0..m, NEW z \in a..m, Slice(s, a, z) = Slice(t, a, z),
         NEW p \in (a + 1)..z
  PROVE  s[p] = t[p]
<1>1. p - a \in 1..(z - a) /\ a + (p - a) = p
  BY DEF IsBytes
<1>2. Slice(s, a, z)[p - a] = s[a + (p - a)] /\ Slice(t, a, z)[p - a] = t[a + (p - a)]
  BY <1>1, Sliced
<1>. QED  BY <1>1, <1>2

(* Bytes of known value differ by it, and none is one of a digest.         *)
LEMMA ByteDistinct ==
  /\ \A u, v : Byte(u) = Byte(v) => u = v
  /\ \A u, c, i : Byte(u) # <<<<"sha256", c>>, i>>
<1>1. ASSUME NEW u, NEW v, Byte(u) = Byte(v) PROVE u = v
  <2>1. Byte(u)[1][2][1] = u /\ Byte(v)[1][2][1] = v
    BY DEF Byte
  <2>. QED  BY <1>1, <2>1
<1>2. ASSUME NEW u, NEW c, NEW i PROVE Byte(u) # <<<<"sha256", c>>, i>>
  <2>1. Byte(u)[1][1] = "byte" /\ <<<<"sha256", c>>, i>>[1][1] = "sha256"
    BY DEF Byte
  <2>. QED  BY <2>1
<1>. QED  BY <1>1, <1>2

(* The strings the model writes down are strings of their length.          *)
LEMMA SmallBytes ==
  /\ \A n \in Nat : IsBytes(Zeros(n), n)
  /\ \A u : IsBytes(<<u>>, 1)
  /\ \A u, v : IsBytes(<<u, v>>, 2)
  /\ \A a, b, c, d : IsBytes(<<a, b, c, d>>, 4) /\ IsBytes(Bytes(a, b, c, d), 4)
  /\ \A name, of : \A n \in Nat : IsBytes(Value(name, of, n), n)
<1>1. \A u : IsBytes(<<u>>, 1)
  BY DEF IsBytes
<1>2. \A u, v : IsBytes(<<u, v>>, 2)
  BY DEF IsBytes
<1>3. \A a, b, c, d : IsBytes(<<a, b, c, d>>, 4) /\ IsBytes(Bytes(a, b, c, d), 4)
  BY DEF IsBytes, Bytes
<1>. QED  BY <1>1, <1>2, <1>3 DEF IsBytes, Zeros, Value

-----------------------------------------------------------------------------
(***************************************************************************)
(* Digests.                                                                *)
(***************************************************************************)
\* Condensed, with a name for the parts of it.
GoesOn(b) == IF b[1][1] = "byte" THEN b ELSE <<b[1], b[2] + 1>>
Jumps(msg) == {p \in 1..Len(msg) : p = 1 \/ msg[p] # GoesOn(msg[p-1])}

(* Condensing loses nothing: from one jump to the next the bytes go on.    *)
LEMMA CondensedInjective ==
  ASSUME NEW s, NEW m, IsBytes(s, m), NEW t, NEW n, IsBytes(t, n),
         Condensed(s) = Condensed(t)
  PROVE  m = n /\ s = t
<1>1. Len(s) = m /\ Len(t) = n /\ m \in Nat
  BY BytesLength
<1>. DEFINE f == [p \in Jumps(s) |-> s[p]]
            g == [p \in Jumps(t) |-> t[p]]
<1>2. Condensed(s) = <<Len(s), f>> /\ Condensed(t) = <<Len(t), g>>
  BY DEF Condensed, Jumps, GoesOn
<1>21. /\ DOMAIN f = Jumps(s) /\ \A p \in Jumps(s) : f[p] = s[p]
      /\ DOMAIN g = Jumps(t) /\ \A p \in Jumps(t) : g[p] = t[p]
  OBVIOUS
<1>. HIDE DEF f, g
<1>3. m = n /\ f = g
  <2>1. <<Len(s), f>> = <<Len(t), g>>
    BY <1>2
  <2>. QED  BY <1>1, <2>1
<1>4. Jumps(s) = Jumps(t) /\ \A p \in Jumps(s) : s[p] = t[p]
  BY <1>21, <1>3
<1>. DEFINE N == {p \in Nat : p \in 1..m => s[p] = t[p]}
<1>5. 0 \in N
  OBVIOUS
<1>6. ASSUME NEW p \in Nat, p \in N PROVE p + 1 \in N
  <2>. SUFFICES ASSUME p + 1 \in 1..m PROVE s[p + 1] = t[p + 1]
    OBVIOUS
  <2>1. CASE p + 1 \in Jumps(s)
    BY <1>4, <2>1
  <2>2. CASE p + 1 \notin Jumps(s)
    <3>1. (p + 1) - 1 = p
      OBVIOUS
    <3>2. p + 1 # 1 /\ s[p + 1] = GoesOn(s[p])
      BY <1>1, <2>2, <3>1 DEF Jumps
    <3>3. t[p + 1] = GoesOn(t[p])
      BY <1>1, <1>3, <1>4, <2>2, <3>1 DEF Jumps
    <3>4. s[p] = t[p]
      <4>1. p \in 1..m
        BY <1>1, <3>2
      <4>. QED  BY <1>6, <4>1
    <3>. QED  BY <3>2, <3>3, <3>4
  <2>. QED  BY <2>1, <2>2
<1>7. Nat \subseteq N
  <2>. HIDE DEF N
  <2>. QED  BY <1>5, <1>6, SetInduction
<1>8. \A p \in 1..m : s[p] = t[p]
  BY <1>7
<1>. QED  BY <1>3, <1>8, SameBytes

Zeroed(n) == (55 - n) % 64

\* p is the message of n bytes, padded.
IsPadded(p, msg, n) ==
  LET z == Zeroed(n)
  IN  /\ IsBytes(p, n + z + 9)
      /\ \A i \in 1..n : p[i] = msg[i]
      /\ p[n + 1] = Byte(128)
      /\ \A i \in (n + 2)..(n + z + 7) : p[i] = Byte(0)
      /\ p[n + z + 8] = Byte((8 * n) \div 256)
      /\ p[n + z + 9] = Byte((8 * n) % 256)

(* Where message, mark, zeros and length are in a padded message.          *)
LEMMA PaddedIs ==
  ASSUME NEW msg, NEW n, IsBytes(msg, n)
  PROVE  IsPadded(Padded(msg), msg, n)
<1>. DEFINE z == Zeroed(n)
            b == <<Byte(128)>>
            l == <<Byte((8 * n) \div 256), Byte((8 * n) % 256)>>
            p1 == msg \o b
            p2 == p1 \o Zeros(z)
            p3 == p2 \o Zeros(6)
            p4 == p3 \o l
<1>1. n \in Nat /\ z \in Nat /\ Len(msg) = n
  BY BytesLength DEF Zeroed
<1>2. IsBytes(b, 1) /\ b[1] = Byte(128)
  BY SmallBytes
<1>3. IsBytes(l, 2) /\ l[1] = Byte((8 * n) \div 256) /\ l[2] = Byte((8 * n) % 256)
  BY SmallBytes
<1>4. Padded(msg) = p4
  BY <1>1 DEF Padded, Zeroed
<1>5. IsBytes(Zeros(z), z) /\ IsBytes(Zeros(6), 6)
  BY <1>1, SmallBytes
<1>6. (\A i \in 1..z : Zeros(z)[i] = Byte(0)) /\ (\A i \in 1..6 : Zeros(6)[i] = Byte(0))
  BY DEF Zeros
<1>. HIDE DEF b, l, z
<1>7. IsJoined(p1, msg, n, b, 1)
  BY <1>2, Concat
<1>. HIDE DEF p1
<1>8. IsJoined(p2, p1, n + 1, Zeros(z), z)
  <2>1. IsBytes(p1, n + 1)
    BY <1>7 DEF IsJoined
  <2>. QED  BY <1>5, <2>1, Concat
<1>. HIDE DEF p2
<1>9. IsJoined(p3, p2, n + 1 + z, Zeros(6), 6)
  <2>1. IsBytes(p2, n + 1 + z)
    BY <1>8 DEF IsJoined
  <2>. QED  BY <1>5, <2>1, Concat
<1>. HIDE DEF p3
<1>10. IsJoined(p4, p3, n + 1 + z + 6, l, 2)
  <2>1. IsBytes(p3, n + 1 + z + 6)
    BY <1>9 DEF IsJoined
  <2>. QED  BY <1>3, <2>1, Concat
<1>. HIDE DEF p4
<1>11. n + 1 + z + 6 + 2 = n + z + 9
  BY <1>1
<1>12. IsBytes(p4, n + z + 9)
  BY <1>10, <1>11 DEF IsJoined
<1>13. \A i \in 1..(n + 1 + z) : p4[i] = p2[i]
  <2>1. \A i \in 1..(n + 1 + z) : i \in 1..(n + 1 + z + 6)
    BY <1>1
  <2>. QED  BY <1>9, <1>10, <2>1 DEF IsJoined
<1>14. \A i \in 1..(n + 1) : p4[i] = p1[i]
  <2>1. \A i \in 1..(n + 1) : i \in 1..(n + 1 + z)
    BY <1>1
  <2>. QED  BY <1>8, <1>13, <2>1 DEF IsJoined
<1>15. \A i \in 1..n : p4[i] = msg[i]
  <2>1. \A i \in 1..n : i \in 1..(n + 1)
    BY <1>1
  <2>. QED  BY <1>7, <1>14, <2>1 DEF IsJoined
<1>16. p4[n + 1] = Byte(128)
  <2>1. n + 1 \in 1..(n + 1)
    BY <1>1
  <2>. QED  BY <1>2, <1>7, <1>14, <2>1 DEF IsJoined
<1>17. ASSUME NEW i \in (n + 2)..(n + z + 7) PROVE p4[i] = Byte(0)
  <2>1. CASE i <= n + 1 + z
    <3>. DEFINE k == i - (n + 1)
    <3>1. k \in 1..z /\ (n + 1) + k = i /\ i \in 1..(n + 1 + z)
      BY <1>1, <2>1
    <3>. HIDE DEF k
    <3>2. p2[(n + 1) + k] = Zeros(z)[k]
      BY <1>8, <3>1 DEF IsJoined
    <3>. QED  BY <1>6, <1>13, <3>1, <3>2
  <2>2. CASE ~(i <= n + 1 + z)
    <3>. DEFINE k == i - (n + 1 + z)
    <3>1. k \in 1..6 /\ (n + 1 + z) + k = i /\ i \in 1..(n + 1 + z + 6)
      BY <1>1, <2>2
    <3>. HIDE DEF k
    <3>2. p3[(n + 1 + z) + k] = Zeros(6)[k]
      BY <1>9, <3>1 DEF IsJoined
    <3>3. p4[i] = p3[i]
      BY <1>10, <3>1 DEF IsJoined
    <3>. QED  BY <1>6, <3>1, <3>2, <3>3
  <2>. QED  BY <2>1, <2>2
<1>18. p4[n + z + 8] = l[1] /\ p4[n + z + 9] = l[2]
  <2>1. (n + 1 + z + 6) + 1 = n + z + 8 /\ (n + 1 + z + 6) + 2 = n + z + 9
    BY <1>1
  <2>2. p4[(n + 1 + z + 6) + 1] = l[1] /\ p4[(n + 1 + z + 6) + 2] = l[2]
    BY <1>10 DEF IsJoined
  <2>. QED  BY <2>1, <2>2
<1>. QED  BY <1>3, <1>4, <1>12, <1>15, <1>16, <1>17, <1>18 DEF IsPadded, z

(* A digest has 32 bytes.                                                  *)
LEMMA DigestIsBytes ==
  \A blocks : IsBytes(compress(blocks), 32) /\ IsBytes(digest(blocks), 32)
BY SmallBytes DEF compress, digest

(* No two messages have one digest.                                        *)
LEMMA DigestInjective ==
  ASSUME NEW s, NEW m, IsBytes(s, m), NEW t, NEW n, IsBytes(t, n), digest(s) = digest(t)
  PROVE  m = n /\ s = t
<1>. DEFINE a == Padded(s)
            b == Padded(t)
            y == Zeroed(m)
            z == Zeroed(n)
<1>1. m \in Nat /\ n \in Nat /\ y \in Nat /\ z \in Nat
  BY BytesLength DEF Zeroed
<1>2. /\ IsBytes(a, m + y + 9) /\ \A i \in 1..m : a[i] = s[i]
      /\ a[m + y + 8] = Byte((8 * m) \div 256) /\ a[m + y + 9] = Byte((8 * m) % 256)
  <2>1. IsPadded(a, s, m)
    BY PaddedIs
  <2>. HIDE DEF a
  <2>. QED  BY <2>1 DEF IsPadded
<1>3. /\ IsBytes(b, n + z + 9) /\ \A i \in 1..n : b[i] = t[i]
      /\ b[n + z + 8] = Byte((8 * n) \div 256) /\ b[n + z + 9] = Byte((8 * n) % 256)
  <2>1. IsPadded(b, t, n)
    BY PaddedIs
  <2>. HIDE DEF b
  <2>. QED  BY <2>1 DEF IsPadded
<1>4. Condensed(a) = Condensed(b)
  <2>1. digest(s)[1] = <<<<"sha256", Condensed(a)>>, 1>>
    BY DEF digest, compress, Value
  <2>2. digest(t)[1] = <<<<"sha256", Condensed(b)>>, 1>>
    BY DEF digest, compress, Value
  <2>. HIDE DEF a, b
  <2>3. <<<<"sha256", Condensed(a)>>, 1>> = <<<<"sha256", Condensed(b)>>, 1>>
    BY <2>1, <2>2
  <2>. QED  BY <2>3
<1>. HIDE DEF a, b, y, z
<1>5. m + y + 9 = n + z + 9 /\ a = b
  BY <1>2, <1>3, <1>4, CondensedInjective
<1>6. (8 * m) \div 256 = (8 * n) \div 256 /\ (8 * m) % 256 = (8 * n) % 256
  <2>1. m + y + 8 = n + z + 8
    BY <1>1, <1>5
  <2>2. /\ Byte((8 * m) \div 256) = Byte((8 * n) \div 256)
        /\ Byte((8 * m) % 256) = Byte((8 * n) % 256)
    BY <1>2, <1>3, <1>5, <2>1
  <2>. QED  BY <2>2, ByteDistinct
<1>7. m = n
  BY <1>1, <1>6
<1>. QED  BY <1>2, <1>3, <1>5, <1>7, SameBytes

(* The words of a block, byte by byte.                                     *)
LEMMA WordsAre ==
  ASSUME NEW data, NEW k \in Nat, NEW n \in 0..16
  PROVE  /\ IsBytes(be_words(data, k, n), 64)
         /\ \A i \in 1..64 :
              be_words(data, k, n)[i] = IF i <= 4 * n THEN data[4 * k + i] ELSE Byte(0)
BY DEF IsBytes, be_words

\* e is the block with its k-th word replaced by the mark, its last by the length.
IsEnd(e, block, k, mark, length) ==
  /\ IsBytes(e, 64)
  /\ \A i \in 1..60 : i \notin (4 * k + 1)..(4 * k + 4) => e[i] = block[i]
  /\ \A i \in (4 * k + 1)..(4 * k + 4) : e[i] = mark[i - 4 * k]
  /\ \A i \in 61..64 : e[i] = length[i - 60]

(* What the end of a block, written over its words, is.                    *)
LEMMA EndIs ==
  ASSUME NEW block, IsBytes(block, 64), NEW k \in 0..14,
         NEW mark, IsBytes(mark, 4), NEW length, IsBytes(length, 4)
  PROVE  IsEnd(End(block, k, mark, length), block, k, mark, length)
<1>. DEFINE e == End(block, k, mark, length)
<1>1. e = [i \in 1..64 |-> IF (i - 1) \div 4 = 15 THEN length[i - 60]
                           ELSE IF (i - 1) \div 4 = k THEN mark[i - 4 * k] ELSE block[i]]
  BY DEF End, Assign
<1>. HIDE DEF e
<1>2. \A i \in 1..60 : (i - 1) \div 4 # 15
  OBVIOUS
<1>3. \A i \in 61..64 : (i - 1) \div 4 = 15
  OBVIOUS
<1>4. \A i \in 1..60 : (i - 1) \div 4 = k <=> i \in (4 * k + 1)..(4 * k + 4)
  OBVIOUS
<1>5. IsBytes(e, 64)
  BY <1>1 DEF IsBytes
<1>6. \A i \in 1..60 : i \notin (4 * k + 1)..(4 * k + 4) => e[i] = block[i]
  BY <1>1, <1>2, <1>4
<1>7. \A i \in (4 * k + 1)..(4 * k + 4) : i \in 1..60
  OBVIOUS
<1>8. \A i \in (4 * k + 1)..(4 * k + 4) : e[i] = mark[i - 4 * k]
  BY <1>1, <1>2, <1>4, <1>7
<1>9. \A i \in 61..64 : e[i] = length[i - 60]
  BY <1>1, <1>3
<1>. QED  BY <1>5, <1>6, <1>8, <1>9 DEF IsEnd, e

(* Division with remainder is unique.                                      *)
LEMMA RemainderIs ==
  ASSUME NEW q \in Int, NEW r \in 0..63
  PROVE  (64 * q + r) % 64 = r
OBVIOUS

\* A block is 64 bytes of the padded message.
IsPart(block, data, q) ==
  IsBytes(block, 64) /\ \A i \in 1..64 : block[i] = Padded(data)[64 * q + i]

(* A block but the last.                                                   *)
LEMMA FullBlock ==
  ASSUME NEW data, NEW n, IsBytes(data, n), NEW q \in Nat, 64 * q + 64 <= n
  PROVE  IsPart(be_words(data, 16 * q, 16), data, q)
<1>. DEFINE block == be_words(data, 16 * q, 16)
            p == Padded(data)
<1>1. /\ IsBytes(block, 64)
      /\ \A i \in 1..64 : block[i] = IF i <= 4 * 16 THEN data[4 * (16 * q) + i] ELSE Byte(0)
  BY WordsAre
<1>2. n \in Nat /\ \A i \in 1..n : p[i] = data[i]
  <2>1. IsPadded(p, data, n)
    BY PaddedIs
  <2>. HIDE DEF p
  <2>. QED  BY <2>1 DEF IsPadded, IsBytes
<1>3. \A i \in 1..64 : i <= 4 * 16 /\ 4 * (16 * q) + i = 64 * q + i /\ 64 * q + i \in 1..n
  BY <1>2
<1>. HIDE DEF block, p
<1>4. \A i \in 1..64 : block[i] = p[64 * q + i]
  BY <1>1, <1>2, <1>3
<1>. QED  BY <1>1, <1>4 DEF block, p, IsPart

(* The last block: k words, then one that begins with r more bytes of the  *)
(* message and has the end mark.                                           *)
LEMMA LastBlock ==
  ASSUME NEW data, NEW n, IsBytes(data, n), NEW q \in Nat, NEW k \in 0..13, NEW r \in {0, 1},
         n = 64 * q + 4 * k + r,
         NEW mark, IsBytes(mark, 4),
         \A i \in 1..4 : mark[i] = IF i <= r THEN data[64 * q + 4 * k + i]
                                   ELSE IF i = r + 1 THEN Byte(128) ELSE Byte(0),
         NEW length, IsBytes(length, 4), length[1] = Byte(0), length[2] = Byte(0),
         length[3] = Byte((8 * n) \div 256), length[4] = Byte((8 * n) % 256)
  PROVE  /\ IsPart(End(be_words(data, 16 * q, k), k, mark, length), data, q)
         /\ IsBytes(Padded(data), 64 * q + 64)
<1>. DEFINE w == be_words(data, 16 * q, k)
            b == End(w, k, mark, length)
            p == Padded(data)
<1>1. /\ IsBytes(w, 64)
      /\ \A i \in 1..64 : w[i] = IF i <= 4 * k THEN data[4 * (16 * q) + i] ELSE Byte(0)
  BY WordsAre
<1>. HIDE DEF w
<1>2. /\ IsBytes(b, 64)
      /\ \A i \in 1..60 : i \notin (4 * k + 1)..(4 * k + 4) => b[i] = w[i]
      /\ \A i \in (4 * k + 1)..(4 * k + 4) : b[i] = mark[i - 4 * k]
      /\ \A i \in 61..64 : b[i] = length[i - 60]
  <2>1. k \in 0..14
    OBVIOUS
  <2>2. IsEnd(b, w, k, mark, length)
    BY <1>1, <2>1, EndIs
  <2>. HIDE DEF b
  <2>. QED  BY <2>2 DEF IsEnd
<1>. HIDE DEF b
<1>3. Zeroed(n) = 55 - (4 * k + r)
  <2>1. 55 - n = 64 * (-q) + (55 - (4 * k + r)) /\ 55 - (4 * k + r) \in 0..63 /\ -q \in Int
    OBVIOUS
  <2>. QED  BY <2>1, RemainderIs DEF Zeroed
<1>4. /\ IsBytes(p, 64 * q + 64)
      /\ \A i \in 1..n : p[i] = data[i]
      /\ p[n + 1] = Byte(128)
      /\ \A i \in (n + 2)..(64 * q + 62) : p[i] = Byte(0)
      /\ p[64 * q + 63] = Byte((8 * n) \div 256)
      /\ p[64 * q + 64] = Byte((8 * n) % 256)
  <2>. DEFINE z == Zeroed(n)
  <2>1. /\ IsBytes(p, n + z + 9)
        /\ \A i \in 1..n : p[i] = data[i]
        /\ p[n + 1] = Byte(128)
        /\ \A i \in (n + 2)..(n + z + 7) : p[i] = Byte(0)
        /\ p[n + z + 8] = Byte((8 * n) \div 256)
        /\ p[n + z + 9] = Byte((8 * n) % 256)
    <3>1. IsPadded(p, data, n)
      BY PaddedIs
    <3>. HIDE DEF p
    <3>. QED  BY <3>1 DEF IsPadded
  <2>2. n + z + 9 = 64 * q + 64 /\ n + z + 8 = 64 * q + 63 /\ n + z + 7 = 64 * q + 62
    BY <1>3
  <2>. HIDE DEF z, p
  <2>. QED  BY <2>1, <2>2
<1>. HIDE DEF p
<1>5. ASSUME NEW i \in 1..64 PROVE b[i] = p[64 * q + i]
  <2>1. CASE i <= 4 * k
    <3>1. /\ i \in 1..60 /\ i \notin (4 * k + 1)..(4 * k + 4)
          /\ 4 * (16 * q) + i = 64 * q + i /\ 64 * q + i \in 1..n
      BY <2>1
    <3>. QED  BY <1>1, <1>2, <1>4, <2>1, <3>1
  <2>2. CASE i \in (4 * k + 1)..(4 * k + 4)
    <3>. DEFINE j == i - 4 * k
    <3>1. j \in 1..4 /\ 64 * q + 4 * k + j = 64 * q + i
      BY <2>2
    <3>2. b[i] = mark[j]
      BY <1>2, <2>2
    <3>. HIDE DEF j
    <3>3. CASE j <= r
      <4>1. 64 * q + i \in 1..n
        BY <3>1, <3>3
      <4>. QED  BY <1>4, <3>1, <3>2, <3>3, <4>1
    <3>4. CASE j = r + 1
      <4>1. 64 * q + i = n + 1 /\ ~(j <= r)
        BY <3>1, <3>4
      <4>. QED  BY <1>4, <3>1, <3>2, <3>4, <4>1
    <3>5. CASE j > r + 1
      <4>1. 64 * q + i \in (n + 2)..(64 * q + 62) /\ ~(j <= r) /\ j # r + 1
        BY <3>1, <3>5
      <4>. QED  BY <1>4, <3>1, <3>2, <4>1
    <3>. QED  BY <3>1, <3>3, <3>4, <3>5
  <2>3. CASE i > 4 * k + 4 /\ i <= 60
    <3>1. /\ i \in 1..60 /\ i \notin (4 * k + 1)..(4 * k + 4) /\ ~(i <= 4 * k)
          /\ 64 * q + i \in (n + 2)..(64 * q + 62)
      BY <2>3
    <3>. QED  BY <1>1, <1>2, <1>4, <3>1
  <2>4. CASE i \in 61..62
    <3>1. 64 * q + i \in (n + 2)..(64 * q + 62) /\ i \in 61..64 /\ i - 60 \in {1, 2}
      BY <2>4
    <3>. QED  BY <1>2, <1>4, <3>1
  <2>5. CASE i = 63
    <3>1. 63 - 60 = 3 /\ 63 \in 61..64
      OBVIOUS
    <3>. QED  BY <1>2, <1>4, <2>5, <3>1
  <2>6. CASE i = 64
    <3>1. 64 - 60 = 4 /\ 64 \in 61..64
      OBVIOUS
    <3>. QED  BY <1>2, <1>4, <2>6, <3>1
  <2>. QED  BY <2>1, <2>2, <2>3, <2>4, <2>5, <2>6
<1>. QED  BY <1>2, <1>4, <1>5 DEF IsPart, w, b, p

(* The end mark, as a word.                                                *)
LEMMA MarkIs ==
  LET mark == Bytes(128, 0, 0, 0)
  IN  /\ IsBytes(mark, 4)
      /\ \A i \in 1..4 : mark[i] = IF i = 1 THEN Byte(128) ELSE Byte(0)
BY DEF Bytes, IsBytes

(* The length, as a word.                                                  *)
LEMMA LengthIs ==
  ASSUME NEW hi, NEW low
  PROVE  LET length == Bytes(0, 0, hi, low)
         IN  /\ IsBytes(length, 4) /\ length[1] = Byte(0) /\ length[2] = Byte(0)
             /\ length[3] = Byte(hi) /\ length[4] = Byte(low)
BY DEF Bytes, IsBytes

(* Blocks that are the two parts of a padded message are all of it.        *)
LEMMA TwoParts ==
  ASSUME NEW data, NEW a, IsPart(a, data, 0), NEW b, IsPart(b, data, 1),
         IsBytes(Padded(data), 128)
  PROVE  a \o b = Padded(data)
<1>. DEFINE c == a \o b
            p == Padded(data)
<1>1. IsJoined(c, a, 64, b, 64)
  BY Concat DEF IsPart
<1>2. /\ \A i \in 1..64 : a[i] = p[64 * 0 + i]
      /\ \A i \in 1..64 : b[i] = p[64 * 1 + i]
  BY DEF IsPart
<1>. HIDE DEF c, p
<1>3. ASSUME NEW i \in 1..128 PROVE c[i] = p[i]
  <2>1. CASE i \in 1..64
    BY <1>1, <1>2, <2>1 DEF IsJoined
  <2>2. CASE i \in 65..128
    <3>1. i - 64 \in 1..64 /\ 64 + (i - 64) = i /\ 64 * 1 + (i - 64) = i
      BY <2>2
    <3>2. c[64 + (i - 64)] = b[i - 64] /\ b[i - 64] = p[64 * 1 + (i - 64)]
      BY <1>1, <1>2, <3>1 DEF IsJoined
    <3>. QED  BY <3>1, <3>2
  <2>. QED  BY <2>1, <2>2
<1>4. IsBytes(c, 128)
  BY <1>1 DEF IsJoined
<1>5. c = p
  <2>1. IsBytes(p, 128)
    BY DEF p
  <2>. QED  BY <1>3, <1>4, <2>1, SameBytes
<1>. QED  BY <1>5 DEF c, p

(* The padding written by hand for 32 bytes is the one of the standard.    *)
LEMMA Padded32 ==
  ASSUME NEW data, IsBytes(data, 32)
  PROVE  sha256_32bytes(data) = digest(data)
<1>. DEFINE mark == Bytes(128, 0, 0, 0)
            length == Bytes(0, 0, 1, 0)
            b == End(be_words(data, 0, 8), 8, mark, length)
<1>1. IsBytes(mark, 4) /\ \A i \in 1..4 : mark[i] = IF i = 1 THEN Byte(128) ELSE Byte(0)
  BY MarkIs
<1>2. /\ IsBytes(length, 4) /\ length[1] = Byte(0) /\ length[2] = Byte(0)
      /\ length[3] = Byte((8 * 32) \div 256) /\ length[4] = Byte((8 * 32) % 256)
  <2>1. (8 * 32) \div 256 = 1 /\ (8 * 32) % 256 = 0
    OBVIOUS
  <2>. QED  BY <2>1, LengthIs
<1>. HIDE DEF mark, length
<1>3. IsPart(b, data, 0) /\ IsBytes(Padded(data), 64)
  <2>1. \A i \in 1..4 : mark[i] = IF i <= 0 THEN data[64 * 0 + 4 * 8 + i]
                                  ELSE IF i = 0 + 1 THEN Byte(128) ELSE Byte(0)
    BY <1>1
  <2>2. /\ 0 \in Nat /\ 8 \in 0..13 /\ 0 \in {0, 1} /\ 32 = 64 * 0 + 4 * 8 + 0
        /\ 16 * 0 = 0 /\ 64 * 0 + 64 = 64
    OBVIOUS
  <2>3. /\ IsPart(End(be_words(data, 16 * 0, 8), 8, mark, length), data, 0)
        /\ IsBytes(Padded(data), 64 * 0 + 64)
    BY <1>1, <1>2, <2>1, <2>2, LastBlock
  <2>. QED  BY <2>2, <2>3
<1>. HIDE DEF b
<1>4. b = Padded(data)
  <2>1. \A i \in 1..64 : 64 * 0 + i = i
    OBVIOUS
  <2>. QED  BY <1>3, <2>1, SameBytes DEF IsPart
<1>5. sha256_32bytes(data) = compress(b)
  BY DEF sha256_32bytes, b, mark, length
<1>. QED  BY <1>4, <1>5 DEF digest

(* The same for 80 bytes, a header.                                        *)
LEMMA Padded80 ==
  ASSUME NEW data, IsBytes(data, 80)
  PROVE  sha256_80bytes(data) = digest(data)
<1>. DEFINE mark == Bytes(128, 0, 0, 0)
            length == Bytes(0, 0, 2, 128)
            b == End(be_words(data, 16, 4), 4, mark, length)
<1>1. IsBytes(mark, 4) /\ \A i \in 1..4 : mark[i] = IF i = 1 THEN Byte(128) ELSE Byte(0)
  BY MarkIs
<1>2. /\ IsBytes(length, 4) /\ length[1] = Byte(0) /\ length[2] = Byte(0)
      /\ length[3] = Byte((8 * 80) \div 256) /\ length[4] = Byte((8 * 80) % 256)
  <2>1. (8 * 80) \div 256 = 2 /\ (8 * 80) % 256 = 128
    OBVIOUS
  <2>. QED  BY <2>1, LengthIs
<1>. HIDE DEF mark, length
<1>3. IsPart(b, data, 1) /\ IsBytes(Padded(data), 128)
  <2>1. \A i \in 1..4 : mark[i] = IF i <= 0 THEN data[64 * 1 + 4 * 4 + i]
                                  ELSE IF i = 0 + 1 THEN Byte(128) ELSE Byte(0)
    BY <1>1
  <2>2. /\ 1 \in Nat /\ 4 \in 0..13 /\ 0 \in {0, 1} /\ 80 = 64 * 1 + 4 * 4 + 0
        /\ 16 * 1 = 16 /\ 64 * 1 + 64 = 128
    OBVIOUS
  <2>3. /\ IsPart(End(be_words(data, 16 * 1, 4), 4, mark, length), data, 1)
        /\ IsBytes(Padded(data), 64 * 1 + 64)
    BY <1>1, <1>2, <2>1, <2>2, LastBlock
  <2>. QED  BY <2>2, <2>3
<1>. HIDE DEF b
<1>4. IsPart(be_words(data, 0, 16), data, 0)
  <2>1. 0 \in Nat /\ 64 * 0 + 64 <= 80 /\ 16 * 0 = 0
    OBVIOUS
  <2>2. IsPart(be_words(data, 16 * 0, 16), data, 0)
    BY <2>1, FullBlock
  <2>. QED  BY <2>1, <2>2
<1>5. be_words(data, 0, 16) \o b = Padded(data)
  BY <1>3, <1>4, TwoParts
<1>6. sha256_80bytes(data) = compress(be_words(data, 0, 16) \o b)
  BY DEF sha256_80bytes, b, mark, length
<1>. QED  BY <1>5, <1>6 DEF digest

(* The same for 116 bytes, the continuation data.                          *)
LEMMA Padded116 ==
  ASSUME NEW data, IsBytes(data, 116)
  PROVE  sha256_116bytes(data) = digest(data)
<1>. DEFINE mark == Bytes(128, 0, 0, 0)
            length == Bytes(0, 0, 3, 160)
            b == End(be_words(data, 16, 13), 13, mark, length)
<1>1. IsBytes(mark, 4) /\ \A i \in 1..4 : mark[i] = IF i = 1 THEN Byte(128) ELSE Byte(0)
  BY MarkIs
<1>2. /\ IsBytes(length, 4) /\ length[1] = Byte(0) /\ length[2] = Byte(0)
      /\ length[3] = Byte((8 * 116) \div 256) /\ length[4] = Byte((8 * 116) % 256)
  <2>1. (8 * 116) \div 256 = 3 /\ (8 * 116) % 256 = 160
    OBVIOUS
  <2>. QED  BY <2>1, LengthIs
<1>. HIDE DEF mark, length
<1>3. IsPart(b, data, 1) /\ IsBytes(Padded(data), 128)
  <2>1. \A i \in 1..4 : mark[i] = IF i <= 0 THEN data[64 * 1 + 4 * 13 + i]
                                  ELSE IF i = 0 + 1 THEN Byte(128) ELSE Byte(0)
    BY <1>1
  <2>2. /\ 1 \in Nat /\ 13 \in 0..13 /\ 0 \in {0, 1} /\ 116 = 64 * 1 + 4 * 13 + 0
        /\ 16 * 1 = 16 /\ 64 * 1 + 64 = 128
    OBVIOUS
  <2>3. /\ IsPart(End(be_words(data, 16 * 1, 13), 13, mark, length), data, 1)
        /\ IsBytes(Padded(data), 64 * 1 + 64)
    BY <1>1, <1>2, <2>1, <2>2, LastBlock
  <2>. QED  BY <2>2, <2>3
<1>. HIDE DEF b
<1>4. IsPart(be_words(data, 0, 16), data, 0)
  <2>1. 0 \in Nat /\ 64 * 0 + 64 <= 116 /\ 16 * 0 = 0
    OBVIOUS
  <2>2. IsPart(be_words(data, 16 * 0, 16), data, 0)
    BY <2>1, FullBlock
  <2>. QED  BY <2>1, <2>2
<1>5. be_words(data, 0, 16) \o b = Padded(data)
  BY <1>3, <1>4, TwoParts
<1>6. sha256_116bytes(data) = compress(be_words(data, 0, 16) \o b)
  BY DEF sha256_116bytes, b, mark, length
<1>. QED  BY <1>5, <1>6 DEF digest

(* The same for 169 bytes, public values: the last word holds the end mark. *)
LEMMA Padded169 ==
  ASSUME NEW data, IsBytes(data, 169)
  PROVE  sha256_169bytes(data) = digest(data)
<1>. DEFINE mark == LastOf169(data)
            length == Bytes(0, 0, 5, 72)
            b == End(be_words(data, 32, 10), 10, mark, length)
<1>1. /\ IsBytes(mark, 4) /\ mark[1] = data[169]
      /\ mark[2] = Byte(128) /\ mark[3] = Byte(0) /\ mark[4] = Byte(0)
  BY SmallBytes DEF LastOf169
<1>2. /\ IsBytes(length, 4) /\ length[1] = Byte(0) /\ length[2] = Byte(0)
      /\ length[3] = Byte((8 * 169) \div 256) /\ length[4] = Byte((8 * 169) % 256)
  <2>1. (8 * 169) \div 256 = 5 /\ (8 * 169) % 256 = 72
    OBVIOUS
  <2>. QED  BY <2>1, LengthIs
<1>. HIDE DEF mark, length
<1>3. IsPart(b, data, 2) /\ IsBytes(Padded(data), 192)
  <2>1. \A i \in 1..4 : mark[i] = IF i <= 1 THEN data[64 * 2 + 4 * 10 + i]
                                  ELSE IF i = 1 + 1 THEN Byte(128) ELSE Byte(0)
    BY <1>1
  <2>2. /\ 2 \in Nat /\ 10 \in 0..13 /\ 1 \in {0, 1} /\ 169 = 64 * 2 + 4 * 10 + 1
        /\ 16 * 2 = 32 /\ 64 * 2 + 64 = 192
    OBVIOUS
  <2>3. /\ IsPart(End(be_words(data, 16 * 2, 10), 10, mark, length), data, 2)
        /\ IsBytes(Padded(data), 64 * 2 + 64)
    BY <1>1, <1>2, <2>1, <2>2, LastBlock
  <2>. QED  BY <2>2, <2>3
<1>. HIDE DEF b
<1>. DEFINE a == be_words(data, 0, 16)
            m == be_words(data, 16, 16)
            c == (a \o m) \o b
            p == Padded(data)
<1>4. IsPart(a, data, 0) /\ IsPart(m, data, 1)
  <2>1. /\ 0 \in Nat /\ 64 * 0 + 64 <= 169 /\ 16 * 0 = 0
        /\ 1 \in Nat /\ 64 * 1 + 64 <= 169 /\ 16 * 1 = 16
    OBVIOUS
  <2>2. IsPart(be_words(data, 16 * 0, 16), data, 0) /\ IsPart(be_words(data, 16 * 1, 16), data, 1)
    BY <2>1, FullBlock
  <2>. QED  BY <2>1, <2>2
<1>5. sha256_169bytes(data) = compress(c)
  BY DEF sha256_169bytes, b, mark, length
<1>. HIDE DEF a, m
<1>6. IsJoined(a \o m, a, 64, m, 64)
  BY <1>4, Concat DEF IsPart
<1>. DEFINE d == a \o m
<1>7. IsJoined(d, a, 64, m, 64)
  BY <1>6
<1>. HIDE DEF d
<1>8. IsJoined(c, d, 128, b, 64)
  <2>1. IsBytes(d, 128)
    BY <1>7 DEF IsJoined
  <2>2. IsJoined(d \o b, d, 128, b, 64)
    BY <1>3, <2>1, Concat DEF IsPart
  <2>. QED  BY <2>2 DEF d
<1>. HIDE DEF c
<1>9. /\ IsBytes(p, 192)
      /\ \A i \in 1..64 : a[i] = p[64 * 0 + i]
      /\ \A i \in 1..64 : m[i] = p[64 * 1 + i]
      /\ \A i \in 1..64 : b[i] = p[64 * 2 + i]
  BY <1>3, <1>4 DEF IsPart
<1>. HIDE DEF p
<1>10. ASSUME NEW i \in 1..192 PROVE c[i] = p[i]
  <2>1. CASE i \in 1..64
    BY <1>7, <1>8, <1>9, <2>1 DEF IsJoined
  <2>2. CASE i \in 65..128
    <3>1. i - 64 \in 1..64 /\ 64 + (i - 64) = i /\ 64 * 1 + (i - 64) = i /\ i \in 1..128
      BY <2>2
    <3>2. d[64 + (i - 64)] = m[i - 64] /\ m[i - 64] = p[64 * 1 + (i - 64)] /\ c[i] = d[i]
      BY <1>7, <1>8, <1>9, <3>1 DEF IsJoined
    <3>. QED  BY <3>1, <3>2
  <2>3. CASE i \in 129..192
    <3>1. i - 128 \in 1..64 /\ 128 + (i - 128) = i /\ 64 * 2 + (i - 128) = i
      BY <2>3
    <3>2. c[128 + (i - 128)] = b[i - 128] /\ b[i - 128] = p[64 * 2 + (i - 128)]
      BY <1>8, <1>9, <3>1 DEF IsJoined
    <3>. QED  BY <3>1, <3>2
  <2>. QED  BY <2>1, <2>2, <2>3
<1>11. IsBytes(c, 192)
  BY <1>8 DEF IsJoined
<1>12. c = p
  BY <1>9, <1>10, <1>11, SameBytes
<1>. QED  BY <1>5, <1>12 DEF digest, p

(* The four messages the guest digests are padded as the standard has it,  *)
(* so host and guest digest the same bytes alike (sha256.rs).              *)
THEOREM PaddingIsStandard ==
  /\ \A data : IsBytes(data, 32)  => sha256_32bytes(data) = digest(data)
  /\ \A data : IsBytes(data, 80)  => sha256d_80bytes(data) = digest(digest(data))
  /\ \A data : IsBytes(data, 116) => sha256_116bytes(data) = digest(data)
  /\ \A data : IsBytes(data, 169) => sha256_169bytes(data) = digest(data)
<1>1. ASSUME NEW data, IsBytes(data, 80)
      PROVE  sha256d_80bytes(data) = digest(digest(data))
  <2>1. sha256_80bytes(data) = digest(data) /\ IsBytes(digest(data), 32)
    BY <1>1, Padded80, DigestIsBytes
  <2>. QED  BY <2>1, Padded32 DEF sha256d_80bytes
<1>. QED  BY <1>1, Padded32, Padded116, Padded169

-----------------------------------------------------------------------------
(***************************************************************************)
(* Layouts.                                                                *)
(***************************************************************************)
\* The bytes are n items, the j-th from start[j] on.
IsLayout(bytes, start, items, n) ==
  /\ n \in Nat /\ start[1] = 0
  /\ \A j \in 1..(n + 1) : start[j] \in Nat
  /\ \A i, j \in 1..(n + 1) : i <= j => start[i] <= start[j]
  /\ IsBytes(bytes, start[n + 1])
  /\ \A j \in 1..n : Slice(bytes, start[j], start[j + 1]) = items[j]

\* They are copied one behind the other.
AreCopies(copies, start, items, n, size) ==
  /\ n \in Nat /\ start[1] = 0 /\ start[n + 1] = size
  /\ \A j \in 1..(n + 1) : start[j] \in Nat
  /\ \A i, j \in 1..(n + 1) : i <= j => start[i] <= start[j]
  /\ DOMAIN copies = 1..n
  /\ \A j \in 1..n : /\ copies[j][1] = start[j] /\ copies[j][2] = items[j]
                     /\ IsBytes(items[j], start[j + 1] - start[j])

(* Copies that leave no gap and do not overlap.                            *)
LEMMA WrittenLayout ==
  ASSUME NEW copies, NEW start, NEW items, NEW n, NEW size,
         AreCopies(copies, start, items, n, size)
  PROVE  IsLayout(Written(size, copies), start, items, n)
<1>0. /\ n \in Nat /\ start[1] = 0 /\ start[n + 1] = size
      /\ \A j \in 1..(n + 1) : start[j] \in Nat
      /\ \A i, j \in 1..(n + 1) : i <= j => start[i] <= start[j]
      /\ DOMAIN copies = 1..n
      /\ \A j \in 1..n : /\ copies[j][1] = start[j] /\ copies[j][2] = items[j]
                         /\ IsBytes(items[j], start[j + 1] - start[j])
  BY DEF AreCopies
<1>. USE <1>0
<1>. DEFINE w == Written(size, copies)
            Over(p) == {k \in DOMAIN copies : p - copies[k][1] \in DOMAIN copies[k][2]}
<1>1. n + 1 \in 1..(n + 1) /\ size \in Nat
  OBVIOUS
<1>2. IsBytes(w, size)
  BY <1>1 DEF IsBytes, Written
<1>3. ASSUME NEW j \in 1..n PROVE Slice(w, start[j], start[j + 1]) = copies[j][2]
  <2>. DEFINE a == start[j]
              z == start[j + 1]
              item == copies[j][2]
  <2>1. /\ j \in 1..(n + 1) /\ j + 1 \in 1..(n + 1) /\ j <= j + 1 /\ j + 1 <= n + 1
        /\ a \in 0..size /\ z \in a..size /\ IsBytes(item, z - a)
    <3>1. j \in 1..(n + 1) /\ j + 1 \in 1..(n + 1) /\ j <= j + 1 /\ j + 1 <= n + 1
      OBVIOUS
    <3>. QED  BY <1>1, <3>1
  <2>2. ASSUME NEW i \in 1..(z - a) PROVE w[a + i] = item[i]
    <3>. DEFINE p == a + i
    <3>1. p \in 1..size /\ p - a = i
      BY <1>1, <2>1
    <3>2. ASSUME NEW k \in 1..n PROVE p - copies[k][1] \in DOMAIN copies[k][2] <=> k = j
      <4>1. /\ DOMAIN copies[k][2] = 1..(start[k + 1] - start[k]) /\ copies[k][1] = start[k]
            /\ k \in 1..(n + 1) /\ k + 1 \in 1..(n + 1)
        <5>1. k \in 1..(n + 1) /\ k + 1 \in 1..(n + 1)
          OBVIOUS
        <5>2. IsBytes(copies[k][2], start[k + 1] - start[k]) /\ copies[k][1] = start[k]
          OBVIOUS
        <5>. QED  BY <5>1, <5>2, BytesLength
      <4>2. k < j => k + 1 <= j
        OBVIOUS
      <4>3. CASE k < j
        <5>1. start[k + 1] <= a /\ start[k] \in Nat /\ start[k + 1] \in Nat /\ a \in Nat
          BY <2>1, <4>1, <4>2, <4>3
        <5>2. p > a /\ p \in Nat /\ p \in Int
          BY <1>1, <2>1
        <5>. HIDE DEF a, z, p
        <5>. QED  BY <4>1, <4>3, <5>1, <5>2
      <4>4. CASE k > j
        <5>1. z <= start[k] /\ start[k] \in Nat
          BY <2>1, <4>1, <4>4
        <5>. HIDE DEF a, z
        <5>. QED  BY <1>1, <2>1, <4>1, <4>4, <5>1
      <4>5. CASE k = j
        BY <3>1, <4>1, <4>5
      <4>. QED  BY <4>3, <4>4, <4>5
    <3>. HIDE DEF p
    <3>3. Over(p) = {j}
      BY <3>2
    <3>4. Max({j}) = j
      BY DEF Max
    <3>. HIDE DEF Over
    <3>5. w[p] = IF Over(p) = {} THEN Byte(0)
                 ELSE copies[Max(Over(p))][2][p - copies[Max(Over(p))][1]]
      BY <3>1 DEF Written, Over
    <3>. QED  BY <3>1, <3>3, <3>4, <3>5 DEF p
  <2>. HIDE DEF w, item, a, z
  <2>3. IsBytes(Slice(w, a, z), z - a) /\ \A i \in 1..(z - a) : Slice(w, a, z)[i] = w[a + i]
    BY <1>2, <2>1, Sliced
  <2>4. Slice(w, a, z) = item
    BY <2>1, <2>2, <2>3, SameBytes
  <2>. QED  BY <2>4 DEF a, z, item
<1>. QED  BY <1>1, <1>2, <1>3 DEF IsLayout

\* The k-th item is x, and follows the n there are.
IsNext(x, start, items, n, k) ==
  /\ k = n + 1 /\ items[k] = x
  /\ \E size \in Nat : IsBytes(x, size) /\ start[k + 1] = start[k] + size

(* One more item.                                                          *)
LEMMA LayoutAppend ==
  ASSUME NEW bytes, NEW start, NEW items, NEW n, IsLayout(bytes, start, items, n),
         NEW x, NEW k, IsNext(x, start, items, n, k)
  PROVE  IsLayout(bytes \o x, start, items, k)
<1>0. PICK size \in Nat : IsBytes(x, size) /\ start[n + 2] = start[n + 1] + size
  <2>1. n \in Nat /\ (n + 1) + 1 = n + 2
    BY DEF IsLayout
  <2>. QED  BY <2>1 DEF IsNext
<1>00. items[n + 1] = x /\ k = n + 1
  BY DEF IsNext
<1>. USE <1>0
<1>. DEFINE m == start[n + 1]
            z == start[n + 2]
            c == bytes \o x
<1>1. /\ n \in Nat /\ start[1] = 0 /\ IsBytes(bytes, m)
      /\ \A j \in 1..(n + 1) : start[j] \in Nat
      /\ \A i, j \in 1..(n + 1) : i <= j => start[i] <= start[j]
      /\ \A j \in 1..n : Slice(bytes, start[j], start[j + 1]) = items[j]
  BY DEF IsLayout
<1>2. /\ n + 1 \in 1..(n + 1) /\ (n + 1) + 1 = n + 2
      /\ m \in Nat /\ z = m + size
  BY <1>1
<1>3. /\ IsBytes(c, z) /\ Slice(c, m, z) = x
      /\ \A a \in 0..m, b \in 0..m : a <= b => Slice(c, a, b) = Slice(bytes, a, b)
  BY <1>1, <1>2, Appended
<1>. HIDE DEF c
<1>4. ASSUME NEW j \in 1..(n + 2) PROVE start[j] \in Nat /\ start[j] <= z /\ (j <= n + 1 => start[j] <= m)
  <2>1. CASE j = n + 2
    BY <1>1, <1>2, <2>1
  <2>2. CASE j <= n + 1
    <3>1. j \in 1..(n + 1)
      BY <1>1, <2>2
    <3>. QED  BY <1>1, <1>2, <3>1
  <2>. QED  BY <1>1, <2>1, <2>2
<1>5. ASSUME NEW i \in 1..(n + 2), NEW j \in 1..(n + 2), i <= j PROVE start[i] <= start[j]
  <2>1. CASE j = n + 2
    BY <1>4, <2>1
  <2>2. CASE j # n + 2
    <3>1. i \in 1..(n + 1) /\ j \in 1..(n + 1)
      BY <1>1, <1>5, <2>2
    <3>. QED  BY <1>1, <1>5, <3>1
  <2>. QED  BY <2>1, <2>2
<1>6. ASSUME NEW j \in 1..(n + 1) PROVE Slice(c, start[j], start[j + 1]) = items[j]
  <2>1. CASE j = n + 1
    BY <1>00, <1>2, <1>3, <2>1
  <2>2. CASE j # n + 1
    <3>1. j \in 1..n /\ j \in 1..(n + 1) /\ j + 1 \in 1..(n + 1) /\ j <= j + 1
      BY <1>1, <2>2
    <3>2. j \in 1..(n + 2) /\ j + 1 \in 1..(n + 2) /\ j <= n + 1 /\ j + 1 <= n + 1
      BY <1>1, <3>1
    <3>3. start[j] \in 0..m /\ start[j + 1] \in 0..m /\ start[j] <= start[j + 1]
      BY <1>1, <1>2, <1>4, <3>1, <3>2
    <3>. QED  BY <1>1, <1>3, <3>1, <3>3
  <2>. QED  BY <2>1, <2>2
<1>. QED  BY <1>00, <1>1, <1>2, <1>3, <1>4, <1>5, <1>6 DEF IsLayout, c

(* A single item.                                                          *)
LEMMA LayoutOne ==
  ASSUME NEW x, NEW start, NEW items, items[1] = x, start[1] = 0, start[2] \in Nat,
         IsBytes(x, start[2])
  PROVE  IsLayout(x, start, items, 1)
<1>1. /\ IsBytes(Slice(x, 0, start[2]), start[2])
      /\ \A i \in 1..start[2] : Slice(x, 0, start[2])[i] = x[i]
  <2>1. /\ 0 \in 0..start[2] /\ start[2] \in 0..start[2] /\ start[2] - 0 = start[2]
        /\ \A i \in 1..start[2] : 0 + i = i
    OBVIOUS
  <2>2. /\ IsBytes(Slice(x, 0, start[2]), start[2] - 0)
        /\ \A i \in 1..(start[2] - 0) : Slice(x, 0, start[2])[i] = x[0 + i]
    BY <2>1, Sliced
  <2>. QED  BY <2>1, <2>2
<1>2. Slice(x, start[1], start[2]) = x
  BY <1>1, SameBytes
<1>3. 1..1 = {1} /\ 1..(1 + 1) = {1, 2}
  OBVIOUS
<1>. QED  BY <1>2, <1>3 DEF IsLayout

\* What the fields are when they are what the code gives them room for.
IsClaim(c) ==
  /\ c = [genesis_hash |-> c.genesis_hash, tip_hash |-> c.tip_hash,
          chain_work |-> c.chain_work, height |-> c.height]
  /\ IsBytes(c.genesis_hash, 32) /\ IsBytes(c.tip_hash, 32)
  /\ IsBytes(c.chain_work, 32) /\ IsBytes(c.height, 4)

ClaimStart == <<0, 32, 64, 96, 100>>
ValuesStart == <<0, 32, 64, 96, 100, 101, 105, 137, 169>>
ClaimItems(c) == <<c.genesis_hash, c.tip_hash, c.chain_work, c.height>>

(* A claim is written without gaps.                                        *)
LEMMA ClaimLayout ==
  ASSUME NEW c, IsClaim(c)
  PROVE  IsLayout(Claim_to_bytes(c), ClaimStart, ClaimItems(c), 4)
<1>. DEFINE copies == << <<0, c.genesis_hash>>, <<32, c.tip_hash>>,
                         <<64, c.chain_work>>, <<96, c.height>> >>
            s == ClaimStart
            items == ClaimItems(c)
<1>1. (\A j \in 1..(4 + 1) : j \in {1, 2, 3, 4, 5}) /\ (\A j \in 1..4 : j \in {1, 2, 3, 4})
  OBVIOUS
<1>2. s[1] = 0 /\ s[2] = 32 /\ s[3] = 64 /\ s[4] = 96 /\ s[5] = 100
  BY DEF ClaimStart
<1>3. /\ copies[1] = <<0, items[1]>> /\ copies[2] = <<32, items[2]>>
      /\ copies[3] = <<64, items[3]>> /\ copies[4] = <<96, items[4]>>
      /\ DOMAIN copies = 1..4
  BY DEF ClaimItems
<1>4. Claim_to_bytes(c) = Written(100, copies)
  BY DEF Claim_to_bytes, CLAIM_SIZE
<1>5. /\ IsBytes(items[1], 32) /\ IsBytes(items[2], 32)
      /\ IsBytes(items[3], 32) /\ IsBytes(items[4], 4)
  BY DEF ClaimItems, IsClaim
<1>. HIDE DEF copies, s, items
<1>6. \A j \in 1..(4 + 1) : s[j] \in Nat
  BY <1>1, <1>2
<1>7. \A i, j \in 1..(4 + 1) : i <= j => s[i] <= s[j]
  BY <1>1, <1>2
<1>8. \A j \in 1..4 : /\ copies[j][1] = s[j] /\ copies[j][2] = items[j]
                      /\ IsBytes(items[j], s[j + 1] - s[j])
  BY <1>1, <1>2, <1>3, <1>5
<1>9. AreCopies(copies, s, items, 4, 100)
  BY <1>1, <1>2, <1>3, <1>6, <1>7, <1>8 DEF AreCopies
<1>. QED
  <2>1. IsLayout(Written(100, copies), s, items, 4)
    BY <1>9, WrittenLayout
  <2>. QED  BY <1>4, <2>1 DEF s, items

IsValues(pv) ==
  /\ pv = [genesis_hash |-> pv.genesis_hash, tip_hash |-> pv.tip_hash,
           chain_work |-> pv.chain_work, height |-> pv.height,
           return_code |-> pv.return_code, failure_height |-> pv.failure_height,
           continuation_digest |-> pv.continuation_digest, verifier_key |-> pv.verifier_key]
  /\ IsBytes(pv.genesis_hash, 32) /\ IsBytes(pv.tip_hash, 32)
  /\ IsBytes(pv.chain_work, 32) /\ IsBytes(pv.height, 4)
  /\ IsBytes(pv.return_code, 1) /\ IsBytes(pv.failure_height, 4)
  /\ IsBytes(pv.continuation_digest, 32) /\ IsBytes(pv.verifier_key, 32)

ValuesItems(pv) ==
  <<pv.genesis_hash, pv.tip_hash, pv.chain_work, pv.height, pv.return_code, pv.failure_height,
    pv.continuation_digest, pv.verifier_key>>

(* So are public values.                                                   *)
LEMMA ValuesLayout ==
  ASSUME NEW pv, IsValues(pv)
  PROVE  IsLayout(MinimalPublicValues_to_bytes(pv), ValuesStart, ValuesItems(pv), 8)
<1>. DEFINE copies == << <<0, pv.genesis_hash>>, <<32, pv.tip_hash>>, <<64, pv.chain_work>>,
                         <<96, pv.height>>, <<100, pv.return_code>>, <<101, pv.failure_height>>,
                         <<105, pv.continuation_digest>>, <<137, pv.verifier_key>> >>
            s == ValuesStart
            items == ValuesItems(pv)
<1>1. /\ \A j \in 1..(8 + 1) : j \in {1, 2, 3, 4, 5, 6, 7, 8, 9}
      /\ \A j \in 1..8 : j \in {1, 2, 3, 4, 5, 6, 7, 8}
  OBVIOUS
<1>2. /\ s[1] = 0 /\ s[2] = 32 /\ s[3] = 64 /\ s[4] = 96 /\ s[5] = 100
      /\ s[6] = 101 /\ s[7] = 105 /\ s[8] = 137 /\ s[9] = 169
  BY DEF ValuesStart
<1>3. /\ copies[1] = <<0, items[1]>> /\ copies[2] = <<32, items[2]>>
      /\ copies[3] = <<64, items[3]>> /\ copies[4] = <<96, items[4]>>
      /\ copies[5] = <<100, items[5]>> /\ copies[6] = <<101, items[6]>>
      /\ copies[7] = <<105, items[7]>> /\ copies[8] = <<137, items[8]>>
      /\ DOMAIN copies = 1..8
  BY DEF ValuesItems
<1>4. MinimalPublicValues_to_bytes(pv) = Written(169, copies)
  BY DEF MinimalPublicValues_to_bytes, MINIMAL_PV_SIZE
<1>5. /\ IsBytes(items[1], 32) /\ IsBytes(items[2], 32) /\ IsBytes(items[3], 32)
      /\ IsBytes(items[4], 4) /\ IsBytes(items[5], 1) /\ IsBytes(items[6], 4)
      /\ IsBytes(items[7], 32) /\ IsBytes(items[8], 32)
  BY DEF ValuesItems, IsValues
<1>. HIDE DEF copies, s, items
<1>6. \A j \in 1..(8 + 1) : s[j] \in Nat
  BY <1>1, <1>2
<1>7. \A i, j \in 1..(8 + 1) : i <= j => s[i] <= s[j]
  BY <1>1, <1>2
<1>8. \A j \in 1..8 : /\ copies[j][1] = s[j] /\ copies[j][2] = items[j]
                      /\ IsBytes(items[j], s[j + 1] - s[j])
  BY <1>1, <1>2, <1>3, <1>5
<1>9. AreCopies(copies, s, items, 8, 169)
  BY <1>1, <1>2, <1>3, <1>6, <1>7, <1>8 DEF AreCopies
<1>. QED
  <2>1. IsLayout(Written(169, copies), s, items, 8)
    BY <1>9, WrittenLayout
  <2>. QED  BY <1>4, <2>1 DEF s, items

\* The words the difficulty goes on with, and the window.
IsContinuation(s) ==
  /\ IsBytes(s.current_nbits, 4) /\ IsBytes(s.current_work, 32)
  /\ IsBytes(s.current_target, 32) /\ IsBytes(s.epoch_start_timestamp, 4)
  /\ IsBytes(s.timestamps, 11) /\ \A i \in 1..11 : IsBytes(s.timestamps[i], 4)

ContinuationStart ==
  [j \in 1..16 |-> IF j = 1 THEN 0 ELSE IF j = 2 THEN 4 ELSE IF j = 3 THEN 36 ELSE 68 + 4 * (j - 4)]

ContinuationItems(s) ==
  [j \in 1..15 |-> IF j = 1 THEN s.current_nbits ELSE IF j = 2 THEN s.current_work
                   ELSE IF j = 3 THEN s.current_target ELSE IF j = 4 THEN s.epoch_start_timestamp
                   ELSE s.timestamps[j - 4]]

(* So is the continuation data, with the timestamps at its end.            *)
LEMMA ContinuationLayout ==
  ASSUME NEW s, IsContinuation(s)
  PROVE  IsLayout(continuation_bytes(s), ContinuationStart, ContinuationItems(s), 15)
<1>. DEFINE four == << <<0, s.current_nbits>>, <<4, s.current_work>>,
                       <<36, s.current_target>>, <<68, s.epoch_start_timestamp>> >>
            eleven == [i \in 1..11 |-> <<72 + (i - 1) * 4, s.timestamps[i]>>]
            copies == four \o eleven
            start == ContinuationStart
            items == ContinuationItems(s)
<1>1. IsBytes(four, 4) /\ IsBytes(eleven, 11)
  BY SmallBytes DEF IsBytes
<1>2. /\ four[1] = <<0, items[1]>> /\ four[2] = <<4, items[2]>>
      /\ four[3] = <<36, items[3]>> /\ four[4] = <<68, items[4]>>
  BY DEF ContinuationItems
<1>3. \A i \in 1..11 : eleven[i] = <<72 + (i - 1) * 4, items[4 + i]>>
  <2>1. \A i \in 1..11 : 4 + i \in 5..15 /\ (4 + i) - 4 = i
    OBVIOUS
  <2>2. \A i \in 1..11 : items[4 + i] = s.timestamps[i]
    BY <2>1 DEF ContinuationItems
  <2>. HIDE DEF items
  <2>. QED  BY <2>2
<1>4. continuation_bytes(s) = Written(116, copies)
  BY DEF continuation_bytes, CONTINUATION_DATA_SIZE, WINDOW_SIZE
<1>5. /\ IsBytes(items[1], 4) /\ IsBytes(items[2], 32) /\ IsBytes(items[3], 32)
      /\ IsBytes(items[4], 4) /\ \A j \in 5..15 : IsBytes(items[j], 4)
  <2>1. \A j \in 5..15 : j - 4 \in 1..11 /\ j \in 1..15 /\ j # 1 /\ j # 2 /\ j # 3 /\ j # 4
    OBVIOUS
  <2>. QED  BY <2>1 DEF ContinuationItems, IsContinuation
<1>6. /\ start[1] = 0 /\ start[2] = 4 /\ start[3] = 36
      /\ \A j \in 4..16 : start[j] = 68 + 4 * (j - 4)
  BY DEF ContinuationStart
<1>. HIDE DEF four, eleven, start, items
<1>7. IsJoined(copies, four, 4, eleven, 11)
  BY <1>1, Concat
<1>. HIDE DEF copies
<1>8. /\ DOMAIN copies = 1..15
      /\ \A j \in 1..4 : copies[j] = four[j]
      /\ \A j \in 5..15 : copies[j] = <<72 + ((j - 4) - 1) * 4, items[j]>>
  <2>1. IsBytes(copies, 15)
    BY <1>7 DEF IsJoined
  <2>2. \A j \in 5..15 : j - 4 \in 1..11 /\ 4 + (j - 4) = j
    OBVIOUS
  <2>3. \A j \in 5..15 : copies[4 + (j - 4)] = eleven[j - 4]
    BY <1>7, <2>2 DEF IsJoined
  <2>. QED  BY <1>3, <1>7, <2>1, <2>2, <2>3, BytesLength DEF IsJoined
<1>9. \A j \in 1..(15 + 1) : j \in {1, 2, 3} \/ j \in 4..16
  OBVIOUS
<1>10. \A j \in 1..(15 + 1) : start[j] \in Nat
  BY <1>6, <1>9
<1>11. \A i, j \in 1..(15 + 1) : i <= j => start[i] <= start[j]
  BY <1>6, <1>9
<1>12. ASSUME NEW j \in 1..15
       PROVE  /\ copies[j][1] = start[j] /\ copies[j][2] = items[j]
              /\ IsBytes(items[j], start[j + 1] - start[j])
  <2>1. CASE j \in {1, 2, 3, 4}
    <3>1. 68 + 4 * (4 - 4) = 68 /\ 68 + 4 * (5 - 4) = 72
      OBVIOUS
    <3>. QED  BY <1>2, <1>5, <1>6, <1>8, <2>1, <3>1
  <2>2. CASE j \in 5..15
    <3>1. /\ copies[j] = <<72 + ((j - 4) - 1) * 4, items[j]>> /\ IsBytes(items[j], 4)
          /\ start[j] = 68 + 4 * (j - 4) /\ start[j + 1] = 68 + 4 * ((j + 1) - 4)
      BY <1>5, <1>6, <1>8, <2>2
    <3>2. 72 + ((j - 4) - 1) * 4 = start[j] /\ start[j + 1] - start[j] = 4
      BY <2>2, <3>1
    <3>. QED  BY <3>1, <3>2
  <2>. QED  BY <2>1, <2>2
<1>13. AreCopies(copies, start, items, 15, 116)
  <2>1. start[15 + 1] = 116
    BY <1>6
  <2>. QED  BY <1>6, <1>8, <1>10, <1>11, <1>12, <2>1 DEF AreCopies
<1>. QED
  <2>1. IsLayout(Written(116, copies), start, items, 15)
    BY <1>13, WrittenLayout
  <2>. QED  BY <1>4, <2>1 DEF start, items

IsHeader(h) ==
  /\ h = [version |-> h.version, prev_blockhash |-> h.prev_blockhash,
          merkle_root |-> h.merkle_root, timestamp |-> h.timestamp,
          compact_target |-> h.compact_target, nonce |-> h.nonce]
  /\ IsBytes(h.version, 4) /\ IsBytes(h.prev_blockhash, 32) /\ IsBytes(h.merkle_root, 32)
  /\ IsBytes(h.timestamp, 4) /\ IsBytes(h.compact_target, 4) /\ IsBytes(h.nonce, 4)

HeaderStart == <<0, 4, 36, 68, 72, 76, 80>>

HeaderItems(h) ==
  <<h.version, h.prev_blockhash, h.merkle_root, h.timestamp, h.compact_target, h.nonce>>

(* So is a header.                                                         *)
LEMMA HeaderLayout ==
  ASSUME NEW h, IsHeader(h)
  PROVE  IsLayout(Header_to_bytes(h), HeaderStart, HeaderItems(h), 6)
<1>. DEFINE s == HeaderStart
            items == HeaderItems(h)
            b1 == items[1]
            b2 == b1 \o items[2]
            b3 == b2 \o items[3]
            b4 == b3 \o items[4]
            b5 == b4 \o items[5]
            b6 == b5 \o items[6]
<1>1. /\ s[1] = 0 /\ s[2] = 4 /\ s[3] = 36 /\ s[4] = 68 /\ s[5] = 72
      /\ s[6] = 76 /\ s[7] = 80
  BY DEF HeaderStart
<1>2. /\ IsBytes(items[1], 4) /\ IsBytes(items[2], 32) /\ IsBytes(items[3], 32)
      /\ IsBytes(items[4], 4) /\ IsBytes(items[5], 4) /\ IsBytes(items[6], 4)
  BY DEF HeaderItems, IsHeader
<1>3. Header_to_bytes(h) = b6
  BY DEF HeaderItems, Header_to_bytes
<1>. HIDE DEF s, items
<1>4. /\ IsNext(items[2], s, items, 1, 2)
      /\ IsNext(items[3], s, items, 2, 3)
      /\ IsNext(items[4], s, items, 3, 4)
      /\ IsNext(items[5], s, items, 4, 5)
      /\ IsNext(items[6], s, items, 5, 6)
  BY <1>1, <1>2 DEF IsNext
<1>5. IsLayout(b1, s, items, 1)
  BY <1>1, <1>2, LayoutOne
<1>. HIDE DEF b1
<1>6. IsLayout(b2, s, items, 2)
  BY <1>4, <1>5, LayoutAppend
<1>. HIDE DEF b2
<1>7. IsLayout(b3, s, items, 3)
  BY <1>4, <1>6, LayoutAppend
<1>. HIDE DEF b3
<1>8. IsLayout(b4, s, items, 4)
  BY <1>4, <1>7, LayoutAppend
<1>. HIDE DEF b4
<1>9. IsLayout(b5, s, items, 5)
  BY <1>4, <1>8, LayoutAppend
<1>. HIDE DEF b5
<1>10. IsLayout(b6, s, items, 6)
  BY <1>4, <1>9, LayoutAppend
<1>. QED  BY <1>3, <1>10 DEF s, items

IsNewHeader(h) ==
  /\ h = [version |-> h.version, merkle_root |-> h.merkle_root,
          timestamp |-> h.timestamp, nonce |-> h.nonce]
  /\ IsBytes(h.version, 4) /\ IsBytes(h.merkle_root, 32)
  /\ IsBytes(h.timestamp, 4) /\ IsBytes(h.nonce, 4)

NewHeaderStart == <<0, 4, 36, 40, 44>>

NewHeaderItems(h) ==
  <<h.version, h.merkle_root, h.timestamp, h.nonce>>

(* So is a new header.                                                     *)
LEMMA NewHeaderLayout ==
  ASSUME NEW h, IsNewHeader(h)
  PROVE  IsLayout(NewHeader_to_bytes(h), NewHeaderStart, NewHeaderItems(h), 4)
<1>. DEFINE s == NewHeaderStart
            items == NewHeaderItems(h)
            b1 == items[1]
            b2 == b1 \o items[2]
            b3 == b2 \o items[3]
            b4 == b3 \o items[4]
<1>1. /\ s[1] = 0 /\ s[2] = 4 /\ s[3] = 36 /\ s[4] = 40 /\ s[5] = 44
  BY DEF NewHeaderStart
<1>2. /\ IsBytes(items[1], 4) /\ IsBytes(items[2], 32) /\ IsBytes(items[3], 4)
      /\ IsBytes(items[4], 4)
  BY DEF NewHeaderItems, IsNewHeader
<1>3. NewHeader_to_bytes(h) = b4
  BY DEF NewHeaderItems, NewHeader_to_bytes
<1>. HIDE DEF s, items
<1>4. /\ IsNext(items[2], s, items, 1, 2)
      /\ IsNext(items[3], s, items, 2, 3)
      /\ IsNext(items[4], s, items, 3, 4)
  BY <1>1, <1>2 DEF IsNext
<1>5. IsLayout(b1, s, items, 1)
  BY <1>1, <1>2, LayoutOne
<1>. HIDE DEF b1
<1>6. IsLayout(b2, s, items, 2)
  BY <1>4, <1>5, LayoutAppend
<1>. HIDE DEF b2
<1>7. IsLayout(b3, s, items, 3)
  BY <1>4, <1>6, LayoutAppend
<1>. HIDE DEF b3
<1>8. IsLayout(b4, s, items, 4)
  BY <1>4, <1>7, LayoutAppend
<1>. QED  BY <1>3, <1>8 DEF s, items

IsProof(proof) ==
  /\ proof = [public_values_digest |-> proof.public_values_digest,
              exit_code |-> proof.exit_code, _pad |-> proof._pad]
  /\ IsBytes(proof.public_values_digest, 32) /\ IsBytes(proof._pad, 3)

ProofStart == <<0, 32, 33, 36>>

ProofItems(proof) ==
  <<proof.public_values_digest, <<proof.exit_code>>, proof._pad>>

(* So is a proof.                                                          *)
LEMMA ProofLayout ==
  ASSUME NEW proof, IsProof(proof)
  PROVE  IsLayout(Proof_to_bytes(proof), ProofStart, ProofItems(proof), 3)
<1>. DEFINE s == ProofStart
            items == ProofItems(proof)
            b1 == items[1]
            b2 == b1 \o items[2]
            b3 == b2 \o items[3]
<1>1. /\ s[1] = 0 /\ s[2] = 32 /\ s[3] = 33 /\ s[4] = 36
  BY DEF ProofStart
<1>2. /\ IsBytes(items[1], 32) /\ IsBytes(items[2], 1) /\ IsBytes(items[3], 3)
  BY SmallBytes DEF ProofItems, IsProof
<1>3. Proof_to_bytes(proof) = b3
  BY DEF ProofItems, Proof_to_bytes
<1>. HIDE DEF s, items
<1>4. /\ IsNext(items[2], s, items, 1, 2)
      /\ IsNext(items[3], s, items, 2, 3)
  BY <1>1, <1>2 DEF IsNext
<1>5. IsLayout(b1, s, items, 1)
  BY <1>1, <1>2, LayoutOne
<1>. HIDE DEF b1
<1>6. IsLayout(b2, s, items, 2)
  BY <1>4, <1>5, LayoutAppend
<1>. HIDE DEF b2
<1>7. IsLayout(b3, s, items, 3)
  BY <1>4, <1>6, LayoutAppend
<1>. QED  BY <1>3, <1>7 DEF s, items

\* n items of one size.
AreParts(items, start, n, size) ==
  /\ n \in Nat \ {0} /\ size \in Nat /\ start[1] = 0
  /\ \A j \in 1..n : start[j + 1] = start[j] + size
  /\ IsBytes(items, n)
  /\ \A i \in 1..n : IsBytes(items[i], size)

\* f flattens the first n items.
IsFlat(f, items, n) ==
  f = [i \in 1..n |-> IF i = 1 THEN items[i] ELSE f[i-1] \o items[i]]

(* The strings that flattening goes through.                               *)
LEMMA FlattenExists ==
  ASSUME NEW items
  PROVE  \A n \in Nat : \E f : IsFlat(f, items, n)
<1>. DEFINE N == {n \in Nat : \E f : IsFlat(f, items, n)}
<1>1. 0 \in N
  <2>. DEFINE f == [i \in 1..0 |-> items[i]]
  <2>1. IsFlat(f, items, 0)
    BY DEF IsFlat
  <2>. QED  BY <2>1
<1>2. ASSUME NEW n \in Nat, n \in N PROVE n + 1 \in N
  <2>1. PICK f : IsFlat(f, items, n)
    BY <1>2
  <2>. DEFINE last == IF n + 1 = 1 THEN items[n + 1] ELSE f[n] \o items[n + 1]
              g == [i \in 1..(n + 1) |-> IF i = n + 1 THEN last ELSE f[i]]
              h == [i \in 1..(n + 1) |-> IF i = 1 THEN items[i] ELSE g[i-1] \o items[i]]
  <2>2. DOMAIN g = 1..(n + 1) /\ g[n + 1] = last /\ \A i \in 1..n : g[i] = f[i]
    <3>1. n + 1 \in 1..(n + 1) /\ \A i \in 1..n : i \in 1..(n + 1) /\ i # n + 1
      OBVIOUS
    <3>. HIDE DEF last
    <3>. QED  BY <3>1
  <2>3. \A i \in 1..n : f[i] = IF i = 1 THEN items[i] ELSE f[i-1] \o items[i]
    BY <2>1 DEF IsFlat
  <2>4. ASSUME NEW i \in 1..(n + 1)
        PROVE  g[i] = IF i = 1 THEN items[i] ELSE g[i-1] \o items[i]
    <3>. HIDE DEF g
    <3>1. CASE i = n + 1
      <4>1. n + 1 # 1 => n \in 1..n /\ (n + 1) - 1 = n
        OBVIOUS
      <4>. QED  BY <2>2, <3>1, <4>1
    <3>2. CASE i # n + 1
      <4>1. i \in 1..n /\ (i # 1 => i - 1 \in 1..n)
        BY <3>2
      <4>. QED  BY <2>2, <2>3, <4>1
    <3>. QED  BY <3>1, <3>2
  <2>5. g = h
    <3>1. \A i \in 1..(n + 1) : h[i] = IF i = 1 THEN items[i] ELSE g[i-1] \o items[i]
      OBVIOUS
    <3>2. g = [i \in 1..(n + 1) |-> g[i]] /\ h = [i \in 1..(n + 1) |-> h[i]]
      OBVIOUS
    <3>. HIDE DEF g, h
    <3>. QED  BY <2>4, <3>1, <3>2
  <2>6. IsFlat(g, items, n + 1)
    <3>. HIDE DEF g
    <3>. QED  BY <2>5 DEF IsFlat, h
  <2>. HIDE DEF g
  <2>. QED  BY <2>6
<1>. HIDE DEF N
<1>3. Nat \subseteq N
  BY <1>1, <1>2, SetInduction
<1>. QED  BY <1>3 DEF N

(* Flattening items of one size lays them out without gaps.                *)
LEMMA FlattenLayout ==
  ASSUME NEW items, NEW start, NEW n, NEW size, AreParts(items, start, n, size)
  PROVE  IsLayout(FlattenSeq(items), start, items, n)
<1>1. /\ n \in Nat \ {0} /\ size \in Nat /\ start[1] = 0
      /\ \A j \in 1..n : start[j + 1] = start[j] + size
      /\ IsBytes(items, n)
      /\ \A i \in 1..n : IsBytes(items[i], size)
  BY DEF AreParts
<1>2. Len(items) = n
  BY <1>1, BytesLength
<1>. DEFINE flat == CHOOSE f : IsFlat(f, items, n)
<1>3. IsFlat(flat, items, n)
  BY <1>1, FlattenExists
<1>4. FlattenSeq(items) = flat[n]
  BY <1>1, <1>2 DEF FlattenSeq, IsFlat
<1>. HIDE DEF flat
<1>5. \A i \in 1..n : flat[i] = IF i = 1 THEN items[i] ELSE flat[i-1] \o items[i]
  BY <1>3 DEF IsFlat
<1>. DEFINE N == {k \in Nat : k \in 1..n => IsLayout(flat[k], start, items, k)}
<1>6. 0 \in N
  OBVIOUS
<1>7. ASSUME NEW k \in Nat, k \in N PROVE k + 1 \in N
  <2>. SUFFICES ASSUME k + 1 \in 1..n PROVE IsLayout(flat[k + 1], start, items, k + 1)
    OBVIOUS
  <2>1. CASE k = 0
    <3>1. 1 \in 1..n /\ flat[1] = items[1] /\ IsBytes(items[1], size) /\ start[1 + 1] = start[1] + size
      BY <1>1, <1>5, <2>1
    <3>2. start[2] = size
      BY <1>1, <3>1
    <3>3. IsLayout(items[1], start, items, 1)
      BY <1>1, <3>1, <3>2, LayoutOne
    <3>. QED  BY <2>1, <3>1, <3>3
  <2>2. CASE k # 0
    <3>1. k \in 1..n /\ k + 1 # 1 /\ (k + 1) - 1 = k
      <4>1. n \in Nat
        BY <1>1
      <4>. QED  BY <2>2, <4>1
    <3>2. flat[k + 1] = flat[k] \o items[k + 1]
      BY <1>5, <3>1
    <3>3. IsLayout(flat[k], start, items, k)
      BY <1>7, <3>1
    <3>4. IsNext(items[k + 1], start, items, k, k + 1)
      <4>. DEFINE j == k + 1
      <4>1. j \in 1..n
        OBVIOUS
      <4>. HIDE DEF j
      <4>2. size \in Nat /\ IsBytes(items[j], size) /\ start[j + 1] = start[j] + size
        BY <1>1, <4>1
      <4>3. IsNext(items[j], start, items, k, j)
        <5>1. j = k + 1
          BY DEF j
        <5>. QED  BY <4>2, <5>1 DEF IsNext
      <4>. QED  BY <4>3 DEF j
    <3>. QED  BY <3>2, <3>3, <3>4, LayoutAppend
  <2>. QED  BY <2>1, <2>2
<1>8. Nat \subseteq N
  <2>. HIDE DEF N
  <2>. QED  BY <1>6, <1>7, SetInduction
<1>9. IsLayout(flat[n], start, items, n)
  BY <1>1, <1>8
<1>. QED  BY <1>4, <1>9

(* A header is read as written.                                            *)
LEMMA HeaderRead ==
  ASSUME NEW h, IsHeader(h)
  PROVE  IsBytes(Header_to_bytes(h), 80) /\ Header_parse(Header_to_bytes(h)) = h
<1>. DEFINE b == Header_to_bytes(h)
            s == HeaderStart
            items == HeaderItems(h)
<1>1. IsLayout(b, s, items, 6)
  BY HeaderLayout
<1>2. /\ s[1] = 0 /\ s[2] = 4 /\ s[3] = 36 /\ s[4] = 68 /\ s[5] = 72
      /\ s[6] = 76 /\ s[7] = 80
  BY DEF HeaderStart
<1>3. /\ items[1] = h.version /\ items[2] = h.prev_blockhash
      /\ items[3] = h.merkle_root /\ items[4] = h.timestamp
      /\ items[5] = h.compact_target /\ items[6] = h.nonce
  BY DEF HeaderItems
<1>. HIDE DEF b, s, items
<1>4. IsBytes(b, 80)
  BY <1>1, <1>2 DEF IsLayout
<1>5. /\ Slice(b, 0, 4) = h.version
      /\ Slice(b, 4, 36) = h.prev_blockhash
      /\ Slice(b, 36, 68) = h.merkle_root
      /\ Slice(b, 68, 72) = h.timestamp
      /\ Slice(b, 72, 76) = h.compact_target
      /\ Slice(b, 76, 80) = h.nonce
  BY <1>1, <1>2, <1>3 DEF IsLayout
<1>6. Header_parse(b) = h
  BY <1>5 DEF Header_parse, IsHeader
<1>. QED  BY <1>4, <1>6 DEF b

(* A new header is read as written.                                        *)
LEMMA NewHeaderRead ==
  ASSUME NEW h, IsNewHeader(h)
  PROVE  IsBytes(NewHeader_to_bytes(h), 44) /\ NewHeader_parse(NewHeader_to_bytes(h)) = h
<1>. DEFINE b == NewHeader_to_bytes(h)
            s == NewHeaderStart
            items == NewHeaderItems(h)
<1>1. IsLayout(b, s, items, 4)
  BY NewHeaderLayout
<1>2. /\ s[1] = 0 /\ s[2] = 4 /\ s[3] = 36 /\ s[4] = 40 /\ s[5] = 44
  BY DEF NewHeaderStart
<1>3. /\ items[1] = h.version /\ items[2] = h.merkle_root
      /\ items[3] = h.timestamp /\ items[4] = h.nonce
  BY DEF NewHeaderItems
<1>. HIDE DEF b, s, items
<1>4. IsBytes(b, 44)
  BY <1>1, <1>2 DEF IsLayout
<1>5. /\ Slice(b, 0, 4) = h.version
      /\ Slice(b, 4, 36) = h.merkle_root
      /\ Slice(b, 36, 40) = h.timestamp
      /\ Slice(b, 40, 44) = h.nonce
  BY <1>1, <1>2, <1>3 DEF IsLayout
<1>6. NewHeader_parse(b) = h
  BY <1>5 DEF NewHeader_parse, IsNewHeader
<1>. QED  BY <1>4, <1>6 DEF b

(* A claim is read as written.                                             *)
LEMMA ClaimRead ==
  ASSUME NEW c, IsClaim(c)
  PROVE  IsBytes(Claim_to_bytes(c), 100) /\ Claim_parse(Claim_to_bytes(c)) = c
<1>. DEFINE b == Claim_to_bytes(c)
            s == ClaimStart
            items == ClaimItems(c)
<1>1. IsLayout(b, s, items, 4)
  BY ClaimLayout
<1>2. /\ s[1] = 0 /\ s[2] = 32 /\ s[3] = 64 /\ s[4] = 96 /\ s[5] = 100
  BY DEF ClaimStart
<1>3. /\ items[1] = c.genesis_hash /\ items[2] = c.tip_hash
      /\ items[3] = c.chain_work /\ items[4] = c.height
  BY DEF ClaimItems
<1>. HIDE DEF b, s, items
<1>4. IsBytes(b, 100)
  BY <1>1, <1>2 DEF IsLayout
<1>5. /\ Slice(b, 0, 32) = c.genesis_hash
      /\ Slice(b, 32, 64) = c.tip_hash
      /\ Slice(b, 64, 96) = c.chain_work
      /\ Slice(b, 96, 100) = c.height
  BY <1>1, <1>2, <1>3 DEF IsLayout
<1>6. Claim_parse(b) = c
  BY <1>5 DEF Claim_parse, IsClaim
<1>. QED  BY <1>4, <1>6 DEF b

(* A proof is read as written.                                             *)
LEMMA ProofRead ==
  ASSUME NEW proof, IsProof(proof)
  PROVE  IsBytes(Proof_to_bytes(proof), 36) /\ Proof_parse(Proof_to_bytes(proof)) = proof
<1>. DEFINE b == Proof_to_bytes(proof)
            s == ProofStart
            items == ProofItems(proof)
<1>1. IsLayout(b, s, items, 3)
  BY ProofLayout
<1>2. /\ s[1] = 0 /\ s[2] = 32 /\ s[3] = 33 /\ s[4] = 36
  BY DEF ProofStart
<1>3. /\ items[1] = proof.public_values_digest /\ items[2] = <<proof.exit_code>>
      /\ items[3] = proof._pad
  BY DEF ProofItems
<1>. HIDE DEF b, s, items
<1>4. IsBytes(b, 36)
  BY <1>1, <1>2 DEF IsLayout
<1>5. /\ Slice(b, 0, 32) = proof.public_values_digest
      /\ Slice(b, 32, 33) = <<proof.exit_code>>
      /\ Slice(b, 33, 36) = proof._pad
  BY <1>1, <1>2, <1>3 DEF IsLayout
<1>6. b[33] = proof.exit_code
  <2>1. 32 \in 0..36 /\ 33 \in 32..36 /\ 1 \in 1..(33 - 32) /\ 32 + 1 = 33
    OBVIOUS
  <2>2. Slice(b, 32, 33)[1] = b[32 + 1]
    BY <1>4, <2>1, Sliced
  <2>. QED  BY <1>5, <2>1, <2>2
<1>7. Proof_parse(b) = proof
  BY <1>5, <1>6 DEF Proof_parse, IsProof
<1>. QED  BY <1>4, <1>7 DEF b

(* Public values are read as written.                                      *)
LEMMA ValuesRead ==
  ASSUME NEW pv, IsValues(pv)
  PROVE  /\ IsBytes(MinimalPublicValues_to_bytes(pv), 169)
         /\ MinimalPublicValues_parse(MinimalPublicValues_to_bytes(pv)) = pv
<1>. DEFINE b == MinimalPublicValues_to_bytes(pv)
            s == ValuesStart
            items == ValuesItems(pv)
<1>1. IsLayout(b, s, items, 8)
  BY ValuesLayout
<1>2. /\ s[1] = 0 /\ s[2] = 32 /\ s[3] = 64 /\ s[4] = 96 /\ s[5] = 100
      /\ s[6] = 101 /\ s[7] = 105 /\ s[8] = 137 /\ s[9] = 169
  BY DEF ValuesStart
<1>3. /\ items[1] = pv.genesis_hash /\ items[2] = pv.tip_hash
      /\ items[3] = pv.chain_work /\ items[4] = pv.height
      /\ items[5] = pv.return_code /\ items[6] = pv.failure_height
      /\ items[7] = pv.continuation_digest /\ items[8] = pv.verifier_key
  BY DEF ValuesItems
<1>. HIDE DEF b, s, items
<1>4. IsBytes(b, 169)
  BY <1>1, <1>2 DEF IsLayout
<1>5. /\ Slice(b, 0, 32) = pv.genesis_hash
      /\ Slice(b, 32, 64) = pv.tip_hash
      /\ Slice(b, 64, 96) = pv.chain_work
      /\ Slice(b, 96, 100) = pv.height
      /\ Slice(b, 100, 101) = pv.return_code
      /\ Slice(b, 101, 105) = pv.failure_height
      /\ Slice(b, 105, 137) = pv.continuation_digest
      /\ Slice(b, 137, 169) = pv.verifier_key
  BY <1>1, <1>2, <1>3 DEF IsLayout
<1>6. /\ Slice(Slice(b, 0, 100), 0, 32) = pv.genesis_hash
      /\ Slice(Slice(b, 0, 100), 32, 64) = pv.tip_hash
      /\ Slice(Slice(b, 0, 100), 64, 96) = pv.chain_work
      /\ Slice(Slice(b, 0, 100), 96, 100) = pv.height
  <2>1. \A x \in 0..100, y \in 0..100 : x <= y => Slice(Slice(b, 0, 100), x, y) = Slice(b, x, y)
    <3>1. 0 \in 0..169 /\ 100 \in 0..169 /\ 100 - 0 = 100
      OBVIOUS
    <3>2. \A x \in 0..100, y \in 0..100 : x <= y => y \in x..100 /\ 0 + x = x /\ 0 + y = y
      OBVIOUS
    <3>. QED  BY <1>4, <3>1, <3>2, SliceOfSlice
  <2>. QED  BY <1>5, <2>1
<1>7. MinimalPublicValues_parse(b) = pv
  BY <1>5, <1>6 DEF MinimalPublicValues_parse, MinimalPublicValues, Claim_parse, IsValues
<1>. QED  BY <1>4, <1>7 DEF b

IsPcs(p) ==
  /\ p = [claim |-> p.claim, verifier_key |-> p.verifier_key, proof |-> p.proof]
  /\ IsClaim(p.claim) /\ IsBytes(p.verifier_key, 32) /\ IsProof(p.proof)

PcsStart == <<0, 100, 132, 168>>

PcsItems(p) ==
  <<Claim_to_bytes(p.claim), p.verifier_key, Proof_to_bytes(p.proof)>>

(* A proof carrying state is written without gaps.                         *)
LEMMA PcsLayout ==
  ASSUME NEW p, IsPcs(p)
  PROVE  IsLayout(ProofCarryingState_to_bytes(p), PcsStart, PcsItems(p), 3)
<1>. DEFINE s == PcsStart
            items == PcsItems(p)
            b1 == items[1]
            b2 == b1 \o items[2]
            b3 == b2 \o items[3]
<1>1. /\ s[1] = 0 /\ s[2] = 100 /\ s[3] = 132 /\ s[4] = 168
  BY DEF PcsStart
<1>2. /\ IsBytes(items[1], 100) /\ IsBytes(items[2], 32) /\ IsBytes(items[3], 36)
  BY ClaimRead, ProofRead DEF PcsItems, IsPcs
<1>3. ProofCarryingState_to_bytes(p) = b3
  BY DEF PcsItems, ProofCarryingState_to_bytes
<1>. HIDE DEF s, items
<1>4. /\ IsNext(items[2], s, items, 1, 2)
      /\ IsNext(items[3], s, items, 2, 3)
  BY <1>1, <1>2 DEF IsNext
<1>5. IsLayout(b1, s, items, 1)
  BY <1>1, <1>2, LayoutOne
<1>. HIDE DEF b1
<1>6. IsLayout(b2, s, items, 2)
  BY <1>4, <1>5, LayoutAppend
<1>. HIDE DEF b2
<1>7. IsLayout(b3, s, items, 3)
  BY <1>4, <1>6, LayoutAppend
<1>. QED  BY <1>3, <1>7 DEF s, items

(* A proof carrying state is read as written.                              *)
LEMMA PcsRead ==
  ASSUME NEW p, IsPcs(p)
  PROVE  /\ IsBytes(ProofCarryingState_to_bytes(p), 168)
         /\ ProofCarryingState_parse(ProofCarryingState_to_bytes(p)) = p
<1>. DEFINE b == ProofCarryingState_to_bytes(p)
            s == PcsStart
            items == PcsItems(p)
<1>1. IsLayout(b, s, items, 3)
  BY PcsLayout
<1>2. /\ s[1] = 0 /\ s[2] = 100 /\ s[3] = 132 /\ s[4] = 168
  BY DEF PcsStart
<1>3. /\ items[1] = Claim_to_bytes(p.claim) /\ items[2] = p.verifier_key
      /\ items[3] = Proof_to_bytes(p.proof)
  BY DEF PcsItems
<1>. HIDE DEF b, s, items
<1>4. IsBytes(b, 168)
  BY <1>1, <1>2 DEF IsLayout
<1>5. /\ Slice(b, 0, 100) = Claim_to_bytes(p.claim)
      /\ Slice(b, 100, 132) = p.verifier_key
      /\ Slice(b, 132, 168) = Proof_to_bytes(p.proof)
  BY <1>1, <1>2, <1>3 DEF IsLayout
<1>6. Len(b) = 168
  BY <1>4, BytesLength
<1>7. ProofCarryingState_parse(b) = p
  BY <1>5, <1>6, ClaimRead, ProofRead
     DEF ProofCarryingState_parse, IsPcs, CLAIM_SIZE, VK_WIRE_SIZE
<1>. QED  BY <1>4, <1>7 DEF b

IsState(s) ==
  /\ s = [header |-> s.header, block_hash |-> s.block_hash, genesis_hash |-> s.genesis_hash,
          current_nbits |-> s.current_nbits, height |-> s.height, chain_work |-> s.chain_work,
          current_work |-> s.current_work, current_target |-> s.current_target,
          epoch_start_timestamp |-> s.epoch_start_timestamp, timestamps |-> s.timestamps]
  /\ IsHeader(s.header)
  /\ IsBytes(s.block_hash, 32) /\ IsBytes(s.genesis_hash, 32)
  /\ IsBytes(s.height, 4) /\ IsBytes(s.chain_work, 32)
  /\ IsContinuation(s)

WindowStart == <<0, 4, 8, 12, 16, 20, 24, 28, 32, 36, 40, 44>>

(* The window of timestamps, four bytes each.                              *)
LEMMA WindowLayout ==
  ASSUME NEW s, IsContinuation(s)
  PROVE  IsLayout(FlattenSeq(s.timestamps), WindowStart, s.timestamps, 11)
<1>. DEFINE start == WindowStart
<1>1. \A j \in 1..11 : j \in {1, 2, 3, 4, 5, 6, 7, 8, 9, 10, 11}
  OBVIOUS
<1>2. /\ start[1] = 0 /\ start[2] = 4 /\ start[3] = 8 /\ start[4] = 12
      /\ start[5] = 16 /\ start[6] = 20 /\ start[7] = 24 /\ start[8] = 28
      /\ start[9] = 32 /\ start[10] = 36 /\ start[11] = 40 /\ start[12] = 44
  BY DEF WindowStart
<1>. HIDE DEF start
<1>3. \A j \in 1..11 : start[j + 1] = start[j] + 4
  BY <1>1, <1>2
<1>4. AreParts(s.timestamps, start, 11, 4)
  BY <1>2, <1>3 DEF AreParts, IsContinuation
<1>. QED  BY <1>4, FlattenLayout DEF start

(* Each timestamp is where it is looked for.                               *)
LEMMA WindowBytes ==
  ASSUME NEW s, IsContinuation(s)
  PROVE  /\ IsBytes(FlattenSeq(s.timestamps), 44)
         /\ \A i \in 1..11 : Slice(FlattenSeq(s.timestamps), (i - 1) * 4, i * 4) = s.timestamps[i]
<1>. DEFINE start == WindowStart
<1>1. \A j \in 1..11 : j \in {1, 2, 3, 4, 5, 6, 7, 8, 9, 10, 11}
  OBVIOUS
<1>2. /\ start[1] = 0 /\ start[2] = 4 /\ start[3] = 8 /\ start[4] = 12
      /\ start[5] = 16 /\ start[6] = 20 /\ start[7] = 24 /\ start[8] = 28
      /\ start[9] = 32 /\ start[10] = 36 /\ start[11] = 40 /\ start[12] = 44
  BY DEF WindowStart
<1>. HIDE DEF start
<1>3. \A j \in 1..11 : start[j] = (j - 1) * 4 /\ start[j + 1] = j * 4
  BY <1>1, <1>2
<1>4. IsLayout(FlattenSeq(s.timestamps), start, s.timestamps, 11)
  BY WindowLayout DEF start
<1>. QED  BY <1>2, <1>3, <1>4 DEF IsLayout

StateStart == <<0, 80, 112, 144, 148, 152, 184, 216, 248, 252, 296>>

StateItems(s) ==
  <<Header_to_bytes(s.header), s.block_hash, s.genesis_hash, s.current_nbits, s.height,
    s.chain_work, s.current_work, s.current_target, s.epoch_start_timestamp,
    FlattenSeq(s.timestamps)>>

(* A state is written without gaps.                                        *)
LEMMA StateLayout ==
  ASSUME NEW s, IsState(s)
  PROVE  IsLayout(State_to_bytes(s), StateStart, StateItems(s), 10)
<1>. DEFINE start == StateStart
            items == StateItems(s)
            b1 == items[1]
            b2 == b1 \o items[2]
            b3 == b2 \o items[3]
            b4 == b3 \o items[4]
            b5 == b4 \o items[5]
            b6 == b5 \o items[6]
            b7 == b6 \o items[7]
            b8 == b7 \o items[8]
            b9 == b8 \o items[9]
            b10 == b9 \o items[10]
<1>1. /\ start[1] = 0 /\ start[2] = 80 /\ start[3] = 112 /\ start[4] = 144 /\ start[5] = 148
      /\ start[6] = 152 /\ start[7] = 184 /\ start[8] = 216 /\ start[9] = 248 /\ start[10] = 252
      /\ start[11] = 296
  BY DEF StateStart
<1>2. /\ IsBytes(items[1], 80) /\ IsBytes(items[2], 32) /\ IsBytes(items[3], 32)
      /\ IsBytes(items[4], 4) /\ IsBytes(items[5], 4) /\ IsBytes(items[6], 32)
      /\ IsBytes(items[7], 32) /\ IsBytes(items[8], 32) /\ IsBytes(items[9], 4)
      /\ IsBytes(items[10], 44)
  BY HeaderRead, WindowBytes DEF StateItems, IsState, IsContinuation
<1>3. State_to_bytes(s) = b10
  BY DEF StateItems, State_to_bytes
<1>. HIDE DEF start, items
<1>4. /\ IsNext(items[2], start, items, 1, 2)
      /\ IsNext(items[3], start, items, 2, 3)
      /\ IsNext(items[4], start, items, 3, 4)
      /\ IsNext(items[5], start, items, 4, 5)
      /\ IsNext(items[6], start, items, 5, 6)
      /\ IsNext(items[7], start, items, 6, 7)
      /\ IsNext(items[8], start, items, 7, 8)
      /\ IsNext(items[9], start, items, 8, 9)
      /\ IsNext(items[10], start, items, 9, 10)
  BY <1>1, <1>2 DEF IsNext
<1>5. IsLayout(b1, start, items, 1)
  BY <1>1, <1>2, LayoutOne
<1>. HIDE DEF b1
<1>6. IsLayout(b2, start, items, 2)
  BY <1>4, <1>5, LayoutAppend
<1>. HIDE DEF b2
<1>7. IsLayout(b3, start, items, 3)
  BY <1>4, <1>6, LayoutAppend
<1>. HIDE DEF b3
<1>8. IsLayout(b4, start, items, 4)
  BY <1>4, <1>7, LayoutAppend
<1>. HIDE DEF b4
<1>9. IsLayout(b5, start, items, 5)
  BY <1>4, <1>8, LayoutAppend
<1>. HIDE DEF b5
<1>10. IsLayout(b6, start, items, 6)
  BY <1>4, <1>9, LayoutAppend
<1>. HIDE DEF b6
<1>11. IsLayout(b7, start, items, 7)
  BY <1>4, <1>10, LayoutAppend
<1>. HIDE DEF b7
<1>12. IsLayout(b8, start, items, 8)
  BY <1>4, <1>11, LayoutAppend
<1>. HIDE DEF b8
<1>13. IsLayout(b9, start, items, 9)
  BY <1>4, <1>12, LayoutAppend
<1>. HIDE DEF b9
<1>14. IsLayout(b10, start, items, 10)
  BY <1>4, <1>13, LayoutAppend
<1>. QED  BY <1>3, <1>14 DEF start, items

(* A state is read as written.                                             *)
LEMMA StateRead ==
  ASSUME NEW s, IsState(s)
  PROVE  IsBytes(State_to_bytes(s), 296) /\ State_parse(State_to_bytes(s)) = s
<1>. DEFINE b == State_to_bytes(s)
            start == StateStart
            items == StateItems(s)
<1>1. IsLayout(b, start, items, 10)
  BY StateLayout
<1>2. /\ start[1] = 0 /\ start[2] = 80 /\ start[3] = 112 /\ start[4] = 144 /\ start[5] = 148
      /\ start[6] = 152 /\ start[7] = 184 /\ start[8] = 216 /\ start[9] = 248 /\ start[10] = 252
      /\ start[11] = 296
  BY DEF StateStart
<1>3. /\ items[1] = Header_to_bytes(s.header) /\ items[2] = s.block_hash
      /\ items[3] = s.genesis_hash /\ items[4] = s.current_nbits
      /\ items[5] = s.height /\ items[6] = s.chain_work
      /\ items[7] = s.current_work /\ items[8] = s.current_target
      /\ items[9] = s.epoch_start_timestamp /\ items[10] = FlattenSeq(s.timestamps)
  BY DEF StateItems
<1>. HIDE DEF b, start, items
<1>4. IsBytes(b, 296)
  BY <1>1, <1>2 DEF IsLayout
<1>5. /\ Slice(b, 0, 80) = Header_to_bytes(s.header)
      /\ Slice(b, 80, 112) = s.block_hash
      /\ Slice(b, 112, 144) = s.genesis_hash
      /\ Slice(b, 144, 148) = s.current_nbits
      /\ Slice(b, 148, 152) = s.height
      /\ Slice(b, 152, 184) = s.chain_work
      /\ Slice(b, 184, 216) = s.current_work
      /\ Slice(b, 216, 248) = s.current_target
      /\ Slice(b, 248, 252) = s.epoch_start_timestamp
      /\ Slice(b, 252, 296) = FlattenSeq(s.timestamps)
  BY <1>1, <1>2, <1>3 DEF IsLayout
<1>6. \A i \in 1..WINDOW_SIZE :
        Slice(b, 252 + (i - 1) * 4, 252 + i * 4) = s.timestamps[i]
  <2>1. \A i \in 1..11 : /\ 0 <= (i - 1) * 4 /\ (i - 1) * 4 <= i * 4 /\ i * 4 <= 44
                         /\ (i - 1) * 4 \in Int /\ i * 4 \in Int
    OBVIOUS
  <2>2. 252 \in 0..296 /\ 296 \in 252..296 /\ 296 - 252 = 44
    OBVIOUS
  <2>3. \A x \in 0..44, y \in 0..44 : x <= y =>
          Slice(Slice(b, 252, 296), x, y) = Slice(b, 252 + x, 252 + y)
    <3>1. \A x \in 0..44, y \in 0..44 : x <= y => y \in x..44
      OBVIOUS
    <3>. QED  BY <1>4, <2>2, <3>1, SliceOfSlice
  <2>4. \A i \in 1..11 : Slice(Slice(b, 252, 296), (i - 1) * 4, i * 4) = s.timestamps[i]
    <3>1. IsContinuation(s)
      BY DEF IsState
    <3>. QED  BY <1>5, <3>1, WindowBytes
  <2>5. ASSUME NEW i \in 1..11
        PROVE  Slice(b, 252 + (i - 1) * 4, 252 + i * 4) = s.timestamps[i]
    <3>. DEFINE x == (i - 1) * 4
                y == i * 4
    <3>1. x \in 0..44 /\ y \in 0..44 /\ x <= y
      BY <2>1
    <3>2. Slice(Slice(b, 252, 296), x, y) = s.timestamps[i]
      BY <2>4
    <3>. HIDE DEF x, y
    <3>3. Slice(b, 252 + x, 252 + y) = s.timestamps[i]
      BY <2>3, <3>1, <3>2
    <3>. QED  BY <3>3 DEF x, y
  <2>. QED  BY <2>5 DEF WINDOW_SIZE
<1>7. Header_parse(Slice(b, 0, 80)) = s.header
  BY <1>5, HeaderRead DEF IsState
<1>8. State_parse(b).timestamps = s.timestamps
  <2>. DEFINE t == [i \in 1..WINDOW_SIZE |-> Slice(b, 252 + (i - 1) * 4, 252 + i * 4)]
  <2>1. State_parse(b).timestamps = t
    BY DEF State_parse
  <2>2. IsBytes(t, 11)
    BY DEF IsBytes, WINDOW_SIZE
  <2>3. \A i \in 1..11 : t[i] = s.timestamps[i]
    BY <1>6 DEF WINDOW_SIZE
  <2>. HIDE DEF t
  <2>4. t = s.timestamps
    BY <2>2, <2>3, SameBytes DEF IsState, IsContinuation
  <2>. QED  BY <2>1, <2>4
<1>9. State_parse(b) = s
  <2>. DEFINE r == State_parse(b)
  <2>1. r = [header |-> r.header, block_hash |-> r.block_hash, genesis_hash |-> r.genesis_hash,
             current_nbits |-> r.current_nbits, height |-> r.height, chain_work |-> r.chain_work,
             current_work |-> r.current_work, current_target |-> r.current_target,
             epoch_start_timestamp |-> r.epoch_start_timestamp, timestamps |-> r.timestamps]
    BY DEF State_parse
  <2>2. /\ r.header = s.header /\ r.block_hash = s.block_hash /\ r.genesis_hash = s.genesis_hash
        /\ r.current_nbits = s.current_nbits /\ r.height = s.height
        /\ r.chain_work = s.chain_work /\ r.current_work = s.current_work
        /\ r.current_target = s.current_target
        /\ r.epoch_start_timestamp = s.epoch_start_timestamp
    BY <1>5, <1>7 DEF State_parse
  <2>3. r.timestamps = s.timestamps
    BY <1>8
  <2>. HIDE DEF r
  <2>. QED  BY <2>1, <2>2, <2>3 DEF IsState, r
<1>. QED  BY <1>4, <1>9 DEF b

(* Every layout is read back as it was written, by offsets or by fields,   *)
(* from buffers of the sizes in the code (lib.rs, input.rs, state.rs).     *)
THEOREM LayoutsAreRead ==
  /\ \A c : IsClaim(c) => Claim_parse(Claim_to_bytes(c)) = c
  /\ \A pv : IsValues(pv) =>
       MinimalPublicValues_parse(MinimalPublicValues_to_bytes(pv)) = pv
  /\ \A h : IsNewHeader(h) => NewHeader_parse(NewHeader_to_bytes(h)) = h
  /\ \A s : IsState(s) => State_parse(State_to_bytes(s)) = s
  /\ \A p : IsPcs(p) => ProofCarryingState_parse(ProofCarryingState_to_bytes(p)) = p
BY ClaimRead, ValuesRead, NewHeaderRead, StateRead, PcsRead

(* What goes on from a state is settled by its continuation.               *)
LEMMA ContinuationInjective ==
  ASSUME NEW s, NEW t, IsContinuation(s), IsContinuation(t),
         continuation_bytes(s) = continuation_bytes(t)
  PROVE  /\ s.current_nbits = t.current_nbits /\ s.current_work = t.current_work
         /\ s.current_target = t.current_target
         /\ s.epoch_start_timestamp = t.epoch_start_timestamp /\ s.timestamps = t.timestamps
<1>. DEFINE x == ContinuationItems(s)
            y == ContinuationItems(t)
<1>1. \A j \in 1..15 : x[j] = y[j]
  <2>. HIDE DEF x, y
  <2>1. /\ IsLayout(continuation_bytes(s), ContinuationStart, x, 15)
        /\ IsLayout(continuation_bytes(t), ContinuationStart, y, 15)
    BY ContinuationLayout DEF x, y
  <2>. QED  BY <2>1 DEF IsLayout
<1>2. /\ x[1] = s.current_nbits /\ x[2] = s.current_work /\ x[3] = s.current_target
      /\ x[4] = s.epoch_start_timestamp /\ \A i \in 1..11 : x[i + 4] = s.timestamps[i]
      /\ y[1] = t.current_nbits /\ y[2] = t.current_work /\ y[3] = t.current_target
      /\ y[4] = t.epoch_start_timestamp /\ \A i \in 1..11 : y[i + 4] = t.timestamps[i]
  <2>1. \A i \in 1..11 : i + 4 \in 5..15 /\ (i + 4) - 4 = i
    OBVIOUS
  <2>. QED  BY <2>1 DEF ContinuationItems
<1>. HIDE DEF x, y
<1>3. \A i \in 1..11 : s.timestamps[i] = t.timestamps[i]
  <2>1. \A i \in 1..11 : i + 4 \in 1..15
    OBVIOUS
  <2>. QED  BY <1>1, <1>2, <2>1
<1>4. s.timestamps = t.timestamps
  BY <1>3, SameBytes DEF IsContinuation
<1>. QED  BY <1>1, <1>2, <1>4

(* The continuation data has the size that is digested.                    *)
LEMMA ContinuationIsBytes ==
  ASSUME NEW s, IsContinuation(s)
  PROVE  IsBytes(continuation_bytes(s), 116)
<1>1. IsLayout(continuation_bytes(s), ContinuationStart, ContinuationItems(s), 15)
  BY ContinuationLayout
<1>2. ContinuationStart[15 + 1] = 116
  BY DEF ContinuationStart
<1>. QED  BY <1>1, <1>2 DEF IsLayout

(* The size of a slice.                                                    *)
LEMMA SlicedBytes ==
  ASSUME NEW s, NEW m, IsBytes(s, m), NEW a \in 0..m, NEW z \in a..m, NEW n, n = z - a
  PROVE  IsBytes(Slice(s, a, z), n)
BY Sliced

(* Whatever the bytes, they are parsed to fields of the right sizes.       *)
LEMMA NewHeaderParsed ==
  ASSUME NEW b, IsBytes(b, 44)
  PROVE  IsNewHeader(NewHeader_parse(b))
<1>2. /\ IsBytes(Slice(b, 0, 4), 4) /\ IsBytes(Slice(b, 4, 36), 32)
      /\ IsBytes(Slice(b, 36, 40), 4) /\ IsBytes(Slice(b, 40, 44), 4)
  BY SlicedBytes
<1>. QED  BY <1>2 DEF IsNewHeader, NewHeader_parse

(* The same for the header of a state.                                     *)
LEMMA HeaderParsed ==
  ASSUME NEW b, IsBytes(b, 80)
  PROVE  IsHeader(Header_parse(b))
<1>2. /\ IsBytes(Slice(b, 0, 4), 4) /\ IsBytes(Slice(b, 4, 36), 32) /\ IsBytes(Slice(b, 36, 68), 32)
      /\ IsBytes(Slice(b, 68, 72), 4) /\ IsBytes(Slice(b, 72, 76), 4) /\ IsBytes(Slice(b, 76, 80), 4)
  BY SlicedBytes
<1>. QED  BY <1>2 DEF IsHeader, Header_parse

(* The same for a claim.                                                   *)
LEMMA ClaimParsed ==
  ASSUME NEW b, IsBytes(b, 100)
  PROVE  IsClaim(Claim_parse(b))
<1>2. /\ IsBytes(Slice(b, 0, 32), 32) /\ IsBytes(Slice(b, 32, 64), 32)
      /\ IsBytes(Slice(b, 64, 96), 32) /\ IsBytes(Slice(b, 96, 100), 4)
  BY SlicedBytes
<1>. QED  BY <1>2 DEF IsClaim, Claim_parse

(* The same for a state.                                                   *)
LEMMA StateParsed ==
  ASSUME NEW b, IsBytes(b, 296)
  PROVE  IsState(State_parse(b))
<1>. DEFINE r == State_parse(b)
            t == [i \in 1..WINDOW_SIZE |-> Slice(b, 252 + (i - 1) * 4, 252 + i * 4)]
<1>2. /\ IsBytes(Slice(b, 0, 80), 80) /\ IsBytes(Slice(b, 80, 112), 32)
      /\ IsBytes(Slice(b, 112, 144), 32) /\ IsBytes(Slice(b, 144, 148), 4)
      /\ IsBytes(Slice(b, 148, 152), 4) /\ IsBytes(Slice(b, 152, 184), 32)
      /\ IsBytes(Slice(b, 184, 216), 32) /\ IsBytes(Slice(b, 216, 248), 32)
      /\ IsBytes(Slice(b, 248, 252), 4)
  BY SlicedBytes
<1>3. IsHeader(Header_parse(Slice(b, 0, 80)))
  BY <1>2, HeaderParsed
<1>4. IsBytes(t, 11) /\ \A i \in 1..11 : IsBytes(t[i], 4)
  <2>1. IsBytes(t, 11) /\ \A i \in 1..11 : t[i] = Slice(b, 252 + (i - 1) * 4, 252 + i * 4)
    BY DEF IsBytes, WINDOW_SIZE
  <2>2. ASSUME NEW i \in 1..11 PROVE IsBytes(Slice(b, 252 + (i - 1) * 4, 252 + i * 4), 4)
    <3>. DEFINE x == 252 + (i - 1) * 4
                y == 252 + i * 4
    <3>1. x \in 0..296 /\ y \in x..296 /\ 4 = y - x
      OBVIOUS
    <3>. HIDE DEF x, y
    <3>2. IsBytes(Slice(b, x, y), 4)
      BY <3>1, SlicedBytes
    <3>. QED  BY <3>2 DEF x, y
  <2>. HIDE DEF t
  <2>. QED  BY <2>1, <2>2
<1>5. /\ r = [header |-> r.header, block_hash |-> r.block_hash, genesis_hash |-> r.genesis_hash,
              current_nbits |-> r.current_nbits, height |-> r.height, chain_work |-> r.chain_work,
              current_work |-> r.current_work, current_target |-> r.current_target,
              epoch_start_timestamp |-> r.epoch_start_timestamp, timestamps |-> r.timestamps]
      /\ r.header = Header_parse(Slice(b, 0, 80)) /\ r.block_hash = Slice(b, 80, 112)
      /\ r.genesis_hash = Slice(b, 112, 144) /\ r.current_nbits = Slice(b, 144, 148)
      /\ r.height = Slice(b, 148, 152) /\ r.chain_work = Slice(b, 152, 184)
      /\ r.current_work = Slice(b, 184, 216) /\ r.current_target = Slice(b, 216, 248)
      /\ r.epoch_start_timestamp = Slice(b, 248, 252) /\ r.timestamps = t
  BY DEF State_parse
<1>. HIDE DEF r, t
<1>6. IsContinuation(r)
  BY <1>2, <1>4, <1>5 DEF IsContinuation
<1>7. IsState(r)
  BY <1>2, <1>3, <1>5, <1>6 DEF IsState
<1>. QED  BY <1>7 DEF r

-----------------------------------------------------------------------------
\* n headers of a batch.
AreHeaders(hs, n) == IsBytes(hs, n) /\ \A i \in 1..n : IsNewHeader(hs[i])

(* The same for the new headers, 44 bytes each.                            *)
LEMMA HeadersParsed ==
  ASSUME NEW n \in Nat, NEW b, IsBytes(b, 44 * n)
  PROVE  AreHeaders(parse_new_headers(b), n)
<1>. DEFINE hs == parse_new_headers(b)
<1>1. Len(b) \div 44 = n
  BY BytesLength
<1>2. IsBytes(hs, n) /\ \A i \in 1..n : hs[i] = NewHeader_parse(Slice(b, (i - 1) * 44, i * 44))
  BY <1>1 DEF parse_new_headers, NEW_HEADER_SIZE, IsBytes
<1>3. ASSUME NEW i \in 1..n PROVE IsBytes(Slice(b, (i - 1) * 44, i * 44), 44)
  <2>. DEFINE x == (i - 1) * 44
              y == i * 44
  <2>1. x \in 0..(44 * n) /\ y \in x..(44 * n) /\ 44 = y - x
    OBVIOUS
  <2>. HIDE DEF x, y
  <2>2. IsBytes(Slice(b, x, y), 44)
    BY <2>1, SlicedBytes
  <2>. QED  BY <2>2 DEF x, y
<1>. HIDE DEF hs
<1>4. \A i \in 1..n : IsNewHeader(hs[i])
  BY <1>2, <1>3, NewHeaderParsed
<1>. QED  BY <1>2, <1>4 DEF AreHeaders, hs

(* New headers are read as written.                                        *)
LEMMA HeadersRead ==
  ASSUME NEW n \in Nat \ {0}, NEW hs, AreHeaders(hs, n)
  PROVE  /\ IsBytes(serialize_new_headers(hs), 44 * n)
         /\ parse_new_headers(serialize_new_headers(hs)) = hs
<1>. DEFINE items == [i \in DOMAIN hs |-> NewHeader_to_bytes(hs[i])]
            start == [j \in 1..(n + 1) |-> (j - 1) * 44]
            b == FlattenSeq(items)
            ps == parse_new_headers(b)
<1>1. DOMAIN hs = 1..n
  BY BytesLength DEF AreHeaders
<1>2. IsBytes(items, n) /\ \A i \in 1..n : items[i] = NewHeader_to_bytes(hs[i])
  BY <1>1 DEF IsBytes
<1>. HIDE DEF items
<1>3. \A i \in 1..n : IsBytes(items[i], 44) /\ NewHeader_parse(items[i]) = hs[i]
  BY <1>2, NewHeaderRead DEF AreHeaders
<1>4. \A j \in 1..(n + 1) : start[j] = (j - 1) * 44
  OBVIOUS
<1>. HIDE DEF start
<1>5. start[1] = 0 /\ (\A j \in 1..n : start[j + 1] = start[j] + 44) /\ start[n + 1] = 44 * n
  <2>1. /\ 1 \in 1..(n + 1) /\ n + 1 \in 1..(n + 1)
        /\ \A j \in 1..n : j \in 1..(n + 1) /\ j + 1 \in 1..(n + 1)
    OBVIOUS
  <2>. QED  BY <1>4, <2>1
<1>6. AreParts(items, start, n, 44)
  BY <1>2, <1>3, <1>5 DEF AreParts
<1>7. IsLayout(b, start, items, n)
  BY <1>6, FlattenLayout
<1>. HIDE DEF b
<1>8. IsBytes(b, 44 * n) /\ \A i \in 1..n : Slice(b, start[i], start[i + 1]) = items[i]
  BY <1>5, <1>7 DEF IsLayout
<1>9. \A i \in 1..n : Slice(b, (i - 1) * 44, i * 44) = items[i]
  <2>1. \A i \in 1..n : start[i] = (i - 1) * 44 /\ start[i + 1] = i * 44
    BY <1>4
  <2>. QED  BY <1>8, <2>1
<1>10. IsBytes(ps, n) /\ \A i \in 1..n : ps[i] = NewHeader_parse(Slice(b, (i - 1) * 44, i * 44))
  <2>1. Len(b) \div 44 = n
    BY <1>8, BytesLength
  <2>. QED  BY <2>1 DEF parse_new_headers, NEW_HEADER_SIZE, IsBytes
<1>. HIDE DEF ps
<1>11. \A i \in 1..n : ps[i] = hs[i]
  BY <1>3, <1>9, <1>10
<1>12. ps = hs
  BY <1>10, <1>11, SameBytes DEF AreHeaders
<1>13. b = serialize_new_headers(hs)
  BY DEF b, items, serialize_new_headers
<1>. QED  BY <1>8, <1>12, <1>13 DEF ps

(* All 44 bytes of a header are under it.                                  *)
LEMMA NewHeaderInjective ==
  ASSUME NEW b, IsBytes(b, 44), NEW c, IsBytes(c, 44), NewHeader_parse(b) = NewHeader_parse(c)
  PROVE  b = c
<1>1. /\ Slice(b, 0, 4) = Slice(c, 0, 4) /\ Slice(b, 4, 36) = Slice(c, 4, 36)
      /\ Slice(b, 36, 40) = Slice(c, 36, 40) /\ Slice(b, 40, 44) = Slice(c, 40, 44)
  BY DEF NewHeader_parse
<1>2. ASSUME NEW x \in 0..44, NEW y \in x..44, Slice(b, x, y) = Slice(c, x, y),
             NEW p \in (x + 1)..y
      PROVE  b[p] = c[p]
  BY <1>2, ByteInSlice
<1>3. ASSUME NEW p \in 1..44 PROVE b[p] = c[p]
  <2>1. \/ p \in (0 + 1)..4 \/ p \in (4 + 1)..36 \/ p \in (36 + 1)..40 \/ p \in (40 + 1)..44
    OBVIOUS
  <2>2. /\ 0 \in 0..44 /\ 4 \in 0..44 /\ 36 \in 0..44 /\ 40 \in 0..44
        /\ 4 \in 0..44 /\ 36 \in 4..44 /\ 40 \in 36..44 /\ 44 \in 40..44
    OBVIOUS
  <2>3. CASE p \in (0 + 1)..4
    BY <1>1, <1>2, <2>2, <2>3
  <2>4. CASE p \in (4 + 1)..36
    BY <1>1, <1>2, <2>2, <2>4
  <2>5. CASE p \in (36 + 1)..40
    BY <1>1, <1>2, <2>2, <2>5
  <2>6. CASE p \in (40 + 1)..44
    BY <1>1, <1>2, <2>2, <2>6
  <2>. QED  BY <2>1, <2>3, <2>4, <2>5, <2>6
<1>. QED  BY <1>3, SameBytes

(* And so all bytes of all headers are under them.                         *)
LEMMA HeadersInjective ==
  ASSUME NEW n \in Nat, NEW b, IsBytes(b, 44 * n), NEW c, IsBytes(c, 44 * n),
         parse_new_headers(b) = parse_new_headers(c)
  PROVE  b = c
<1>1. ASSUME NEW p \in 1..(44 * n) PROVE b[p] = c[p]
  <2>. DEFINE i == (p - 1) \div 44 + 1
              x == (i - 1) * 44
              y == i * 44
  <2>1. /\ i \in 1..n /\ x \in 0..(44 * n) /\ y \in x..(44 * n) /\ 44 = y - x
        /\ p \in (x + 1)..y
    OBVIOUS
  <2>2. Len(b) \div 44 = n /\ Len(c) \div 44 = n
    BY BytesLength
  <2>3. /\ parse_new_headers(b)[i] = NewHeader_parse(Slice(b, x, y))
        /\ parse_new_headers(c)[i] = NewHeader_parse(Slice(c, x, y))
    BY <2>1, <2>2 DEF parse_new_headers, NEW_HEADER_SIZE
  <2>. HIDE DEF i, x, y
  <2>4. NewHeader_parse(Slice(b, x, y)) = NewHeader_parse(Slice(c, x, y))
    BY <2>3
  <2>5. IsBytes(Slice(b, x, y), 44) /\ IsBytes(Slice(c, x, y), 44)
    BY <2>1, SlicedBytes
  <2>6. Slice(b, x, y) = Slice(c, x, y)
    BY <2>4, <2>5, NewHeaderInjective
  <2>. QED  BY <2>1, <2>6, ByteInSlice
<1>. QED  BY <1>1, SameBytes

-----------------------------------------------------------------------------
(***************************************************************************)
(* Going through headers.                                                  *)
(***************************************************************************)
\* f is the states gone through on the way over n headers.
IsRun(f, s, headers, n, side) ==
  f = [k \in 0..n |-> IF k = 0 THEN s ELSE ApplyHeader(f[k-1], headers[k], side)]

(* The states apply_headers goes through.                                  *)
LEMMA RunExists ==
  ASSUME NEW s, NEW headers, NEW side
  PROVE  \A n \in Nat : \E f : IsRun(f, s, headers, n, side)
<1>. DEFINE N == {n \in Nat : \E f : IsRun(f, s, headers, n, side)}
            To(x, y) == ApplyHeader(x, y, side)
<1>1. 0 \in N
  <2>. DEFINE f == [k \in 0..0 |-> s]
  <2>1. f = [k \in 0..0 |-> IF k = 0 THEN s ELSE ApplyHeader(f[k-1], headers[k], side)]
    <3>1. \A k \in 0..0 : k = 0
      OBVIOUS
    <3>. QED  BY <3>1
  <2>2. IsRun(f, s, headers, 0, side)
    <3>. HIDE DEF f
    <3>. QED  BY <2>1 DEF IsRun
  <2>. QED  BY <2>2
<1>2. ASSUME NEW n \in Nat, n \in N PROVE n + 1 \in N
  <2>1. PICK f : IsRun(f, s, headers, n, side)
    BY <1>2
  <2>. DEFINE last == To(f[n], headers[n + 1])
              g == [k \in 0..(n + 1) |-> IF k = n + 1 THEN last ELSE f[k]]
              h == [k \in 0..(n + 1) |-> IF k = 0 THEN s ELSE To(g[k-1], headers[k])]
  <2>. HIDE DEF To
  <2>2. DOMAIN g = 0..(n + 1) /\ g[n + 1] = last /\ \A k \in 0..n : g[k] = f[k]
    <3>1. n + 1 \in 0..(n + 1) /\ \A k \in 0..n : k \in 0..(n + 1) /\ k # n + 1
      OBVIOUS
    <3>. HIDE DEF last
    <3>. QED  BY <3>1
  <2>3. \A k \in 0..n : f[k] = IF k = 0 THEN s ELSE To(f[k-1], headers[k])
    BY <2>1 DEF IsRun, To
  <2>4. ASSUME NEW k \in 0..(n + 1)
        PROVE  g[k] = IF k = 0 THEN s ELSE To(g[k-1], headers[k])
    <3>. HIDE DEF g
    <3>1. CASE k = n + 1
      <4>1. n + 1 # 0 /\ n \in 0..n /\ (n + 1) - 1 = n
        OBVIOUS
      <4>. QED  BY <2>2, <3>1, <4>1
    <3>2. CASE k # n + 1
      <4>1. k \in 0..n /\ (k # 0 => k - 1 \in 0..n)
        BY <3>2
      <4>. QED  BY <2>2, <2>3, <4>1
    <3>. QED  BY <3>1, <3>2
  <2>5. g = h
    <3>1. \A k \in 0..(n + 1) : h[k] = IF k = 0 THEN s ELSE To(g[k-1], headers[k])
      OBVIOUS
    <3>2. g = [k \in 0..(n + 1) |-> g[k]] /\ h = [k \in 0..(n + 1) |-> h[k]]
      OBVIOUS
    <3>. HIDE DEF g, h
    <3>. QED  BY <2>4, <3>1, <3>2
  <2>6. IsRun(g, s, headers, n + 1, side)
    <3>. HIDE DEF g
    <3>. QED  BY <2>5 DEF IsRun, h, To
  <2>. HIDE DEF g
  <2>. QED  BY <2>6
<1>. HIDE DEF N
<1>3. Nat \subseteq N
  BY <1>1, <1>2, SetInduction
<1>. QED  BY <1>3 DEF N

(* apply_headers ends where the run does.                                  *)
LEMMA ApplyRun ==
  ASSUME NEW s, NEW side, NEW n, NEW headers, IsBytes(headers, n)
  PROVE  \E f : IsRun(f, s, headers, n, side) /\ apply_headers(s, headers, side) = f[n]
<1>1. n \in Nat /\ Len(headers) = n
  BY BytesLength
<1>. DEFINE f == CHOOSE x : IsRun(x, s, headers, n, side)
<1>2. IsRun(f, s, headers, n, side)
  BY <1>1, RunExists
<1>3. apply_headers(s, headers, side) = f[n]
  BY <1>1 DEF apply_headers, IsRun
<1>. HIDE DEF f
<1>. QED  BY <1>2, <1>3

(* No headers, no step.                                                    *)
LEMMA ApplyNone ==
  ASSUME NEW s, NEW side, NEW headers, IsBytes(headers, 0)
  PROVE  apply_headers(s, headers, side) = s
<1>1. PICK f : IsRun(f, s, headers, 0, side) /\ apply_headers(s, headers, side) = f[0]
  BY ApplyRun
<1>2. f[0] = s
  <2>1. 0 \in 0..0
    OBVIOUS
  <2>. QED  BY <1>1, <2>1 DEF IsRun
<1>. QED  BY <1>1, <1>2

(* One header more is one step more.                                       *)
LEMMA ApplyLast ==
  ASSUME NEW s, NEW side, NEW n \in Nat, NEW hs, IsBytes(hs, n + 1), NEW gs, IsBytes(gs, n),
         \A i \in 1..n : gs[i] = hs[i]
  PROVE  apply_headers(s, hs, side) = ApplyHeader(apply_headers(s, gs, side), hs[n + 1], side)
<1>. DEFINE To(x, y) == ApplyHeader(x, y, side)
<1>1. PICK f : IsRun(f, s, hs, n + 1, side) /\ apply_headers(s, hs, side) = f[n + 1]
  BY ApplyRun
<1>2. PICK g : IsRun(g, s, gs, n, side) /\ apply_headers(s, gs, side) = g[n]
  BY ApplyRun
<1>3. \A k \in 0..(n + 1) : f[k] = IF k = 0 THEN s ELSE To(f[k-1], hs[k])
  BY <1>1 DEF IsRun
<1>4. \A k \in 0..n : g[k] = IF k = 0 THEN s ELSE To(g[k-1], gs[k])
  BY <1>2 DEF IsRun
<1>. HIDE DEF To
<1>. DEFINE N == {k \in Nat : k \in 0..n => f[k] = g[k]}
<1>5. 0 \in N
  <2>1. 0 \in 0..n /\ 0 \in 0..(n + 1)
    OBVIOUS
  <2>. QED  BY <1>3, <1>4, <2>1
<1>6. ASSUME NEW k \in Nat, k \in N PROVE k + 1 \in N
  <2>. SUFFICES ASSUME k + 1 \in 0..n PROVE f[k + 1] = g[k + 1]
    OBVIOUS
  <2>1. k \in 0..n /\ k + 1 \in 0..(n + 1) /\ k + 1 \in 1..n /\ k + 1 # 0 /\ (k + 1) - 1 = k
    OBVIOUS
  <2>2. f[k + 1] = To(f[k], hs[k + 1]) /\ g[k + 1] = To(g[k], gs[k + 1])
    BY <1>3, <1>4, <2>1
  <2>3. f[k] = g[k]
    BY <1>6, <2>1
  <2>. QED  BY <2>1, <2>2, <2>3
<1>7. Nat \subseteq N
  <2>. HIDE DEF N
  <2>. QED  BY <1>5, <1>6, SetInduction
<1>8. f[n] = g[n]
  <2>1. n \in 0..n
    OBVIOUS
  <2>. QED  BY <1>7, <2>1
<1>9. f[n + 1] = To(f[n], hs[n + 1])
  <2>1. n + 1 \in 0..(n + 1) /\ n + 1 # 0 /\ (n + 1) - 1 = n
    OBVIOUS
  <2>. QED  BY <1>3, <2>1
<1>. QED  BY <1>1, <1>2, <1>8, <1>9 DEF To

(* The height is read as written.                                          *)
LEMMA HeightRead ==
  ASSUME NEW h \in Nat
  PROVE  Height(HeightBytes(h)) = h
<1>. DEFINE b == HeightBytes(h)
<1>1. b[1] = Byte(h % 256) /\ b[2] = Byte(h \div 256)
  BY DEF HeightBytes, Bytes
<1>2. \A v : Byte(v)[1][2][1] = v
  BY DEF Byte
<1>. HIDE DEF b
<1>3. Height(b) = (h % 256) + 256 * (h \div 256)
  BY <1>1, <1>2 DEF Height
<1>4. (h % 256) + 256 * (h \div 256) = h
  OBVIOUS
<1>. QED  BY <1>3, <1>4 DEF b

(* The bytes of a height are zero at height 0 only.                        *)
LEMMA HeightZero ==
  ASSUME NEW h \in Nat, HeightBytes(h) = Zeros(4)
  PROVE  h = 0
<1>1. HeightBytes(h)[1] = Byte(h % 256) /\ HeightBytes(h)[2] = Byte(h \div 256)
  BY DEF HeightBytes, Bytes
<1>2. Zeros(4)[1] = Byte(0) /\ Zeros(4)[2] = Byte(0)
  BY DEF Zeros
<1>3. h % 256 = 0 /\ h \div 256 = 0
  BY <1>1, <1>2, ByteDistinct
<1>. QED  BY <1>3

-----------------------------------------------------------------------------

(* A new header becomes a header.                                          *)
LEMMA IntoHeader ==
  ASSUME NEW s, IsState(s), NEW new, IsNewHeader(new)
  PROVE  IsHeader(into_header(new, s.block_hash, s.current_nbits))
BY DEF IsHeader, into_header, IsState, IsContinuation, IsNewHeader

(* Both sides have one hash of a header.                                   *)
LEMMA HashesAgree ==
  ASSUME NEW h, IsHeader(h), NEW side
  PROVE  HashOn(side, h) = digest(digest(Header_to_bytes(h)))
<1>1. IsBytes(Header_to_bytes(h), 80)
  BY HeaderRead
<1>2. sha256_80bytes(Header_to_bytes(h)) = digest(Header_to_bytes(h))
  BY <1>1, Padded80
<1>3. sha256_32bytes(digest(Header_to_bytes(h))) = digest(digest(Header_to_bytes(h)))
  BY DigestIsBytes, Padded32
<1>. QED  BY <1>2, <1>3 DEF HashOn, host_hash_header, hash_header, sha256d_80bytes

Window(s, new) == [s.timestamps EXCEPT ![((Height(s.height) + 1) % WINDOW_SIZE) + 1] = new.timestamp]

(* What one header makes of a state, the same on both sides.               *)
LEMMA ApplyIs ==
  ASSUME NEW s, IsState(s), NEW new, IsNewHeader(new), NEW side
  PROVE  LET header == into_header(new, s.block_hash, s.current_nbits)
         IN  ApplyHeader(s, new, side) =
               [header |-> header, block_hash |-> digest(digest(Header_to_bytes(header))),
                genesis_hash |-> s.genesis_hash, current_nbits |-> s.current_nbits,
                height |-> HeightBytes(Height(s.height) + 1),
                chain_work |-> Value("sum", Condensed(s.chain_work \o s.current_work), 32),
                current_work |-> s.current_work, current_target |-> s.current_target,
                epoch_start_timestamp |-> s.epoch_start_timestamp, timestamps |-> Window(s, new)]
<1>. DEFINE header == into_header(new, s.block_hash, s.current_nbits)
            hash == HashOn(side, header)
            up == HeightBytes(Height(s.height) + 1)
            work == Value("sum", Condensed(s.chain_work \o s.current_work), 32)
            window == Window(s, new)
<1>1. hash = digest(digest(Header_to_bytes(header)))
  BY IntoHeader, HashesAgree
<1>2. ApplyHeader(s, new, side) =
        [s EXCEPT !.header = header, !.block_hash = hash, !.height = up, !.chain_work = work,
                  !.timestamps = window]
  BY DEF ApplyHeader, Window
<1>. HIDE DEF header, hash, up, work, window
<1>3. [s EXCEPT !.header = header, !.block_hash = hash, !.height = up, !.chain_work = work,
                !.timestamps = window]
        = [header |-> header, block_hash |-> hash, genesis_hash |-> s.genesis_hash,
           current_nbits |-> s.current_nbits, height |-> up, chain_work |-> work,
           current_work |-> s.current_work, current_target |-> s.current_target,
           epoch_start_timestamp |-> s.epoch_start_timestamp, timestamps |-> window]
  <2>. DEFINE a1 == s.header  a2 == s.block_hash  a3 == s.genesis_hash  a4 == s.current_nbits
              a5 == s.height  a6 == s.chain_work  a7 == s.current_work  a8 == s.current_target
              a9 == s.epoch_start_timestamp  a10 == s.timestamps
  <2>1. s = [header |-> a1, block_hash |-> a2, genesis_hash |-> a3, current_nbits |-> a4,
             height |-> a5, chain_work |-> a6, current_work |-> a7, current_target |-> a8,
             epoch_start_timestamp |-> a9, timestamps |-> a10]
    BY DEF IsState
  <2>. HIDE DEF a1, a2, a3, a4, a5, a6, a7, a8, a9, a10
  <2>. DEFINE r == [s EXCEPT !.header = header, !.block_hash = hash, !.height = up,
                             !.chain_work = work, !.timestamps = window]
  <2>2. r = [s EXCEPT !.header = header, !.block_hash = hash, !.height = up,
                      !.chain_work = work, !.timestamps = window]
    OBVIOUS
  <2>. HIDE DEF r
  <2>3. /\ r.header = header /\ r.block_hash = hash /\ r.genesis_hash = a3
        /\ r.current_nbits = a4 /\ r.height = up /\ r.chain_work = work
        /\ r.current_work = a7 /\ r.current_target = a8
        /\ r.epoch_start_timestamp = a9 /\ r.timestamps = window
    BY <2>1, <2>2
  <2>4. r = [header |-> r.header, block_hash |-> r.block_hash, genesis_hash |-> r.genesis_hash,
             current_nbits |-> r.current_nbits, height |-> r.height, chain_work |-> r.chain_work,
             current_work |-> r.current_work, current_target |-> r.current_target,
             epoch_start_timestamp |-> r.epoch_start_timestamp, timestamps |-> r.timestamps]
    BY <2>1, <2>2
  <2>. QED  BY <2>3, <2>4 DEF r, a3, a4, a7, a8, a9
<1>. QED  BY <1>1, <1>2, <1>3 DEF header, hash, up, work, window

(* It is a state.                                                          *)
LEMMA ApplyState ==
  ASSUME NEW s, IsState(s), NEW new, IsNewHeader(new), NEW side
  PROVE  IsState(ApplyHeader(s, new, side))
<1>. DEFINE r == ApplyHeader(s, new, side)
            header == into_header(new, s.block_hash, s.current_nbits)
            w == Window(s, new)
<1>1. /\ r = [header |-> r.header, block_hash |-> r.block_hash, genesis_hash |-> r.genesis_hash,
              current_nbits |-> r.current_nbits, height |-> r.height, chain_work |-> r.chain_work,
              current_work |-> r.current_work, current_target |-> r.current_target,
              epoch_start_timestamp |-> r.epoch_start_timestamp, timestamps |-> r.timestamps]
      /\ r.header = header /\ r.block_hash = digest(digest(Header_to_bytes(header)))
      /\ r.genesis_hash = s.genesis_hash /\ r.current_nbits = s.current_nbits
      /\ r.height = HeightBytes(Height(s.height) + 1)
      /\ r.chain_work = Value("sum", Condensed(s.chain_work \o s.current_work), 32)
      /\ r.current_work = s.current_work /\ r.current_target = s.current_target
      /\ r.epoch_start_timestamp = s.epoch_start_timestamp /\ r.timestamps = w
  <2>. HIDE DEF w, header
  <2>. QED  BY ApplyIs DEF w, header
<1>. HIDE DEF r
<1>2. IsHeader(header)
  BY IntoHeader
<1>3. IsBytes(w, 11) /\ \A i \in 1..11 : IsBytes(w[i], 4)
  <2>. DEFINE e == ((Height(s.height) + 1) % WINDOW_SIZE) + 1
              ts == s.timestamps
  <2>1. w = [ts EXCEPT ![e] = new.timestamp]
    BY DEF Window
  <2>2. IsBytes(ts, 11) /\ \A i \in 1..11 : IsBytes(ts[i], 4)
    BY DEF IsState, IsContinuation
  <2>3. IsBytes(new.timestamp, 4)
    BY DEF IsNewHeader
  <2>. HIDE DEF e, ts, w
  <2>4. DOMAIN ts = 1..11
    BY <2>2, BytesLength
  <2>5. w = [i \in 1..11 |-> IF i = e THEN new.timestamp ELSE ts[i]]
    BY <2>1, <2>4
  <2>6. \A i \in 1..11 : w[i] = IF i = e THEN new.timestamp ELSE ts[i]
    BY <2>5
  <2>7. IsBytes(w, 11)
    BY <2>5, <2>6 DEF IsBytes
  <2>. QED  BY <2>2, <2>3, <2>6, <2>7
<1>4. IsBytes(r.block_hash, 32)
  BY <1>1, DigestIsBytes
<1>5. IsBytes(r.chain_work, 32) /\ IsBytes(r.height, 4)
  <2>1. \A x : IsBytes(HeightBytes(x), 4)
    BY SmallBytes DEF HeightBytes
  <2>2. \A x : IsBytes(Value("sum", x, 32), 32)
    BY SmallBytes
  <2>. QED  BY <1>1, <2>1, <2>2
<1>. HIDE DEF w, header
<1>6. IsContinuation(r)
  BY <1>1, <1>3 DEF IsState, IsContinuation
<1>7. IsState(r)
  <2>1. IsHeader(r.header)
    BY <1>1, <1>2
  <2>2. IsBytes(r.genesis_hash, 32)
    BY <1>1 DEF IsState
  <2>. QED  BY <1>1, <1>4, <1>5, <1>6, <2>1, <2>2 DEF IsState
<1>. QED  BY <1>7 DEF r

\* Two states, but for the header kept in them.
SameState(s, t) ==
  /\ s.block_hash = t.block_hash /\ s.genesis_hash = t.genesis_hash
  /\ s.current_nbits = t.current_nbits /\ s.height = t.height
  /\ s.chain_work = t.chain_work /\ s.current_work = t.current_work
  /\ s.current_target = t.current_target
  /\ s.epoch_start_timestamp = t.epoch_start_timestamp /\ s.timestamps = t.timestamps

(* Nothing is made of the header, nor of the side.                         *)
LEMMA ApplySame ==
  ASSUME NEW s, IsState(s), NEW t, IsState(t), SameState(s, t), NEW new, IsNewHeader(new),
         NEW here, NEW there
  PROVE  ApplyHeader(s, new, here) = ApplyHeader(t, new, there)
<1>. DEFINE header == into_header(new, s.block_hash, s.current_nbits)
            other == into_header(new, t.block_hash, t.current_nbits)
            x == [header |-> header, block_hash |-> digest(digest(Header_to_bytes(header))),
                  genesis_hash |-> s.genesis_hash, current_nbits |-> s.current_nbits,
                  height |-> HeightBytes(Height(s.height) + 1),
                  chain_work |-> Value("sum", Condensed(s.chain_work \o s.current_work), 32),
                  current_work |-> s.current_work, current_target |-> s.current_target,
                  epoch_start_timestamp |-> s.epoch_start_timestamp, timestamps |-> Window(s, new)]
            y == [header |-> other, block_hash |-> digest(digest(Header_to_bytes(other))),
                  genesis_hash |-> t.genesis_hash, current_nbits |-> t.current_nbits,
                  height |-> HeightBytes(Height(t.height) + 1),
                  chain_work |-> Value("sum", Condensed(t.chain_work \o t.current_work), 32),
                  current_work |-> t.current_work, current_target |-> t.current_target,
                  epoch_start_timestamp |-> t.epoch_start_timestamp, timestamps |-> Window(t, new)]
<1>1. ApplyHeader(s, new, here) = x
  BY ApplyIs
<1>2. ApplyHeader(t, new, there) = y
  BY ApplyIs
<1>3. header = other /\ Window(s, new) = Window(t, new)
  BY DEF SameState, Window
<1>. HIDE DEF header, other
<1>4. x = y
  BY <1>3 DEF SameState
<1>. QED  BY <1>1, <1>2, <1>4

-----------------------------------------------------------------------------
(* The walk over the headers of a batch.                                   *)
Walk(s, headers, k) == apply_headers(s, SubSeq(headers, 1, k), "guest")

(* The first headers of a batch.                                           *)
LEMMA FirstOnes ==
  ASSUME NEW headers, NEW m, IsBytes(headers, m), NEW k \in 0..m
  PROVE  /\ IsBytes(SubSeq(headers, 1, k), k)
         /\ \A i \in 1..k : SubSeq(headers, 1, k)[i] = headers[i]
<1>1. Slice(headers, 0, k) = SubSeq(headers, 1, k)
  <2>1. 0 + 1 = 1
    OBVIOUS
  <2>. QED  BY <2>1 DEF Slice
<1>2. 0 \in 0..m /\ k \in 0..m /\ k - 0 = k /\ \A i \in 1..k : 0 + i = i
  BY DEF IsBytes
<1>3. /\ IsBytes(Slice(headers, 0, k), k - 0)
      /\ \A i \in 1..(k - 0) : Slice(headers, 0, k)[i] = headers[0 + i]
  BY <1>2, Sliced
<1>. QED  BY <1>1, <1>2, <1>3

(* The walk begins at the state.                                           *)
LEMMA WalkNone ==
  ASSUME NEW s, NEW headers, NEW m, IsBytes(headers, m)
  PROVE  Walk(s, headers, 0) = s
<1>1. m \in Nat
  BY DEF IsBytes
<1>2. IsBytes(SubSeq(headers, 1, 0), 0)
  BY <1>1, FirstOnes
<1>. QED  BY <1>2, ApplyNone DEF Walk

(* Each header is a step of the walk.                                      *)
LEMMA WalkStep ==
  ASSUME NEW s, NEW headers, NEW m, IsBytes(headers, m), NEW k \in 0..(m - 1)
  PROVE  Walk(s, headers, k + 1) = ApplyHeader(Walk(s, headers, k), headers[k + 1], "guest")
<1>. DEFINE hs == SubSeq(headers, 1, k + 1)
            gs == SubSeq(headers, 1, k)
<1>1. k \in 0..m /\ k + 1 \in 0..m /\ k \in Nat /\ k + 1 \in 1..(k + 1)
  BY DEF IsBytes
<1>2. IsBytes(gs, k) /\ \A i \in 1..k : gs[i] = headers[i]
  BY <1>1, FirstOnes
<1>3. IsBytes(hs, k + 1) /\ \A i \in 1..(k + 1) : hs[i] = headers[i]
  BY <1>1, FirstOnes
<1>. HIDE DEF hs, gs
<1>4. \A i \in 1..k : gs[i] = hs[i]
  <2>1. \A i \in 1..k : i \in 1..(k + 1)
    BY <1>1
  <2>. QED  BY <1>2, <1>3, <2>1
<1>5. apply_headers(s, hs, "guest") = ApplyHeader(apply_headers(s, gs, "guest"), hs[k + 1], "guest")
  BY <1>1, <1>2, <1>3, <1>4, ApplyLast
<1>. QED  BY <1>1, <1>3, <1>5 DEF Walk, hs, gs

(* The walk goes through states.                                           *)
LEMMA WalkState ==
  ASSUME NEW s, IsState(s), NEW headers, NEW m, AreHeaders(headers, m)
  PROVE  \A k \in 0..m : IsState(Walk(s, headers, k))
<1>1. m \in Nat /\ IsBytes(headers, m) /\ \A i \in 1..m : IsNewHeader(headers[i])
  BY DEF AreHeaders, IsBytes
<1>. DEFINE N == {k \in Nat : k \in 0..m => IsState(Walk(s, headers, k))}
<1>2. 0 \in N
  BY <1>1, WalkNone
<1>3. ASSUME NEW k \in Nat, k \in N PROVE k + 1 \in N
  <2>. SUFFICES ASSUME k + 1 \in 0..m PROVE IsState(Walk(s, headers, k + 1))
    OBVIOUS
  <2>1. k \in 0..(m - 1) /\ k \in 0..m /\ k + 1 \in 1..m
    BY <1>1
  <2>2. Walk(s, headers, k + 1) = ApplyHeader(Walk(s, headers, k), headers[k + 1], "guest")
    BY <1>1, <2>1, WalkStep
  <2>3. IsState(Walk(s, headers, k)) /\ IsNewHeader(headers[k + 1])
    BY <1>1, <1>3, <2>1
  <2>4. IsState(ApplyHeader(Walk(s, headers, k), headers[k + 1], "guest"))
    BY <2>3, ApplyState
  <2>. QED  BY <2>2, <2>4
<1>4. Nat \subseteq N
  <2>. HIDE DEF N
  <2>. QED  BY <1>2, <1>3, SetInduction
<1>. QED  BY <1>1, <1>4

-----------------------------------------------------------------------------
(* The table.                                                              *)
Rows(h)  == [i \in 1..h |-> Row(i)]
Table(h) == apply_headers(Genesis, Rows(h), "host")

(* Rows are headers.                                                       *)
LEMMA RowsAre ==
  /\ \A h : IsNewHeader(Row(h))
  /\ \A h \in Nat : AreHeaders(Rows(h), h) /\ \A i \in 1..h : Rows(h)[i] = Row(i)
<1>1. \A h : IsNewHeader(Row(h))
  <2>1. \A name, of : IsBytes(Value(name, of, 4), 4) /\ IsBytes(Value(name, of, 32), 32)
    BY SmallBytes
  <2>. QED  BY <2>1 DEF IsNewHeader, Row
<1>2. ASSUME NEW h \in Nat
      PROVE  AreHeaders(Rows(h), h) /\ \A i \in 1..h : Rows(h)[i] = Row(i)
  <2>1. DOMAIN Rows(h) = 1..h /\ \A i \in 1..h : Rows(h)[i] = Row(i)
    BY DEF Rows
  <2>2. IsBytes(Rows(h), h)
    BY DEF Rows, IsBytes
  <2>. QED  BY <1>1, <2>1, <2>2 DEF AreHeaders
<1>. QED  BY <1>1, <1>2

(* The table goes from row to row.                                         *)
LEMMA TableStep ==
  /\ Table(0) = Genesis
  /\ \A h \in Nat : Table(h + 1) = ApplyHeader(Table(h), Row(h + 1), "host")
<1>1. Table(0) = Genesis
  BY RowsAre, ApplyNone DEF Table, AreHeaders
<1>2. ASSUME NEW h \in Nat PROVE Table(h + 1) = ApplyHeader(Table(h), Row(h + 1), "host")
  <2>1. /\ IsBytes(Rows(h), h) /\ IsBytes(Rows(h + 1), h + 1)
        /\ \A i \in 1..h : Rows(h)[i] = Rows(h + 1)[i]
        /\ Rows(h + 1)[h + 1] = Row(h + 1)
    <3>1. h + 1 \in Nat /\ h + 1 \in 1..(h + 1) /\ \A i \in 1..h : i \in 1..(h + 1)
      OBVIOUS
    <3>. QED  BY <3>1, RowsAre DEF AreHeaders
  <2>2. Table(h + 1) = ApplyHeader(Table(h), Rows(h + 1)[h + 1], "host")
    BY <2>1, ApplyLast DEF Table
  <2>. QED  BY <2>1, <2>2
<1>. QED  BY <1>1, <1>2

(* The table begins with a state of height 0.                              *)
LEMMA GenesisIsState ==
  IsState(Genesis) /\ Genesis.height = HeightBytes(0)
<1>. DEFINE g == Genesis
            ts == [i \in 1..WINDOW_SIZE |-> IF i = 1 THEN Value("timestamp", <<0>>, 4) ELSE Zeros(4)]
            hash == host_hash_header(GenesisHeader)
<1>1. /\ \A name, of : IsBytes(Value(name, of, 4), 4) /\ IsBytes(Value(name, of, 32), 32)
      /\ IsBytes(Zeros(4), 4) /\ IsBytes(Zeros(32), 32) /\ \A h : IsBytes(HeightBytes(h), 4)
  BY SmallBytes DEF HeightBytes
<1>2. IsBytes(ts, 11) /\ \A i \in 1..11 : IsBytes(ts[i], 4)
  <2>1. \A i \in 1..11 : ts[i] = IF i = 1 THEN Value("timestamp", <<0>>, 4) ELSE Zeros(4)
    BY DEF WINDOW_SIZE
  <2>2. IsBytes(ts, 11)
    BY DEF IsBytes, WINDOW_SIZE
  <2>. QED  BY <1>1, <2>1, <2>2
<1>3. IsBytes(hash, 32)
  BY DigestIsBytes DEF host_hash_header
<1>4. IsHeader(GenesisHeader)
  BY <1>1, RowsAre DEF GenesisHeader, into_header, IsHeader, IsNewHeader
<1>. HIDE DEF ts, hash
<1>5. g = [header |-> GenesisHeader, block_hash |-> hash, genesis_hash |-> hash,
           current_nbits |-> Value("current_nbits", <<0>>, 4), height |-> HeightBytes(0),
           chain_work |-> Value("current_work", <<0>>, 32),
           current_work |-> Value("current_work", <<0>>, 32),
           current_target |-> Value("current_target", <<0>>, 32),
           epoch_start_timestamp |-> Value("timestamp", <<0>>, 4), timestamps |-> ts]
  BY DEF Genesis, ts, hash
<1>. HIDE DEF g
<1>6. /\ g.header = GenesisHeader /\ g.block_hash = hash /\ g.genesis_hash = hash
      /\ g.current_nbits = Value("current_nbits", <<0>>, 4) /\ g.height = HeightBytes(0)
      /\ g.chain_work = Value("current_work", <<0>>, 32)
      /\ g.current_work = Value("current_work", <<0>>, 32)
      /\ g.current_target = Value("current_target", <<0>>, 32)
      /\ g.epoch_start_timestamp = Value("timestamp", <<0>>, 4) /\ g.timestamps = ts
  BY <1>5
<1>7. g = [header |-> g.header, block_hash |-> g.block_hash, genesis_hash |-> g.genesis_hash,
           current_nbits |-> g.current_nbits, height |-> g.height, chain_work |-> g.chain_work,
           current_work |-> g.current_work, current_target |-> g.current_target,
           epoch_start_timestamp |-> g.epoch_start_timestamp, timestamps |-> g.timestamps]
  BY <1>5, <1>6
<1>8. IsContinuation(g)
  BY <1>1, <1>2, <1>6 DEF IsContinuation
<1>9. IsState(g)
  BY <1>1, <1>3, <1>4, <1>6, <1>7, <1>8 DEF IsState
<1>. QED  BY <1>6, <1>9 DEF g

(* Its states have the heights of their rows.                              *)
LEMMA TableState ==
  \A h \in Nat : IsState(Table(h)) /\ Table(h).height = HeightBytes(h)
<1>. DEFINE N == {h \in Nat : IsState(Table(h)) /\ Table(h).height = HeightBytes(h)}
<1>1. 0 \in N
  BY TableStep, GenesisIsState
<1>2. ASSUME NEW h \in Nat, h \in N PROVE h + 1 \in N
  <2>1. IsState(Table(h)) /\ Table(h).height = HeightBytes(h)
    BY <1>2
  <2>2. Table(h + 1) = ApplyHeader(Table(h), Row(h + 1), "host")
    BY TableStep
  <2>3. IsNewHeader(Row(h + 1))
    BY RowsAre
  <2>4. IsState(Table(h + 1))
    BY <2>1, <2>2, <2>3, ApplyState
  <2>5. Table(h + 1).height = HeightBytes(Height(Table(h).height) + 1)
    <3>1. ApplyHeader(Table(h), Row(h + 1), "host").height = HeightBytes(Height(Table(h).height) + 1)
      BY <2>1, <2>3, ApplyIs
    <3>. QED  BY <2>2, <3>1
  <2>6. Height(Table(h).height) + 1 = h + 1
    BY <2>1, HeightRead
  <2>. QED  BY <2>4, <2>5, <2>6
<1>. HIDE DEF N
<1>3. Nat \subseteq N
  BY <1>1, <1>2, SetInduction
<1>. QED  BY <1>3 DEF N

(* Along the rows the guest goes from row to row, from whatever header.    *)
LEMMA WalkAlong ==
  ASSUME NEW h \in Nat, NEW s, IsState(s), SameState(s, Table(h)),
         NEW headers, NEW m, IsBytes(headers, m), \A i \in 1..m : headers[i] = Row(h + i)
  PROVE  \A k \in 0..m : /\ IsState(Walk(s, headers, k)) /\ SameState(Walk(s, headers, k), Table(h + k))
                         /\ k > 0 => Walk(s, headers, k) = Table(h + k)
<1>1. m \in Nat /\ AreHeaders(headers, m)
  BY RowsAre DEF AreHeaders, IsBytes
<1>. DEFINE Good(k) == SameState(Walk(s, headers, k), Table(h + k))
                       /\ (k > 0 => Walk(s, headers, k) = Table(h + k))
            N == {k \in Nat : k \in 0..m => Good(k)}
<1>2. 0 \in N
  <2>1. h + 0 = h
    OBVIOUS
  <2>. QED  BY <2>1, WalkNone
<1>3. ASSUME NEW k \in Nat, k \in N PROVE k + 1 \in N
  <2>. SUFFICES ASSUME k + 1 \in 0..m PROVE Good(k + 1)
    OBVIOUS
  <2>1. k \in 0..(m - 1) /\ k \in 0..m /\ k + 1 \in 1..m /\ h + (k + 1) = (h + k) + 1 /\ h + k \in Nat
    BY <1>1
  <2>2. Walk(s, headers, k + 1) = ApplyHeader(Walk(s, headers, k), Row(h + (k + 1)), "guest")
    <3>1. headers[k + 1] = Row(h + (k + 1))
      BY <2>1
    <3>2. Walk(s, headers, k + 1) = ApplyHeader(Walk(s, headers, k), headers[k + 1], "guest")
      BY <2>1, WalkStep
    <3>. QED  BY <3>1, <3>2
  <2>3. IsState(Walk(s, headers, k)) /\ SameState(Walk(s, headers, k), Table(h + k))
    BY <1>1, <1>3, <2>1, WalkState
  <2>4. Table(h + (k + 1)) = ApplyHeader(Table(h + k), Row(h + (k + 1)), "host")
    BY <2>1, TableStep
  <2>5. Walk(s, headers, k + 1) = Table(h + (k + 1))
    BY <2>1, <2>2, <2>3, <2>4, TableState, RowsAre, ApplySame
  <2>6. SameState(Walk(s, headers, k + 1), Table(h + (k + 1)))
    BY <2>5 DEF SameState
  <2>. QED  BY <2>5, <2>6
<1>4. Nat \subseteq N
  <2>. HIDE DEF N
  <2>. QED  BY <1>2, <1>3, SetInduction
<1>. QED  BY <1>1, <1>4, WalkState

(* The hash of a block settles its header and the hash of the one before.  *)
LEMMA HashSettles ==
  ASSUME NEW s, IsState(s), NEW x, IsNewHeader(x), NEW t, IsState(t), NEW y, IsNewHeader(y),
         NEW side, ApplyHeader(s, x, side).block_hash = ApplyHeader(t, y, side).block_hash
  PROVE  x = y /\ s.block_hash = t.block_hash
<1>. DEFINE h == into_header(x, s.block_hash, s.current_nbits)
            g == into_header(y, t.block_hash, t.current_nbits)
            a == Header_to_bytes(h)
            b == Header_to_bytes(g)
<1>1. IsHeader(h) /\ IsHeader(g)
  BY IntoHeader
<1>2. ApplyHeader(s, x, side).block_hash = digest(digest(a))
  BY ApplyIs
<1>3. ApplyHeader(t, y, side).block_hash = digest(digest(b))
  BY ApplyIs
<1>4. IsBytes(a, 80) /\ Header_parse(a) = h /\ IsBytes(b, 80) /\ Header_parse(b) = g
  <2>. HIDE DEF h, g
  <2>. QED  BY <1>1, HeaderRead
<1>. HIDE DEF a, b
<1>5. digest(digest(a)) = digest(digest(b))
  BY <1>2, <1>3
<1>6. IsBytes(digest(a), 32) /\ IsBytes(digest(b), 32)
  BY DigestIsBytes
<1>7. digest(a) = digest(b)
  BY <1>5, <1>6, DigestInjective
<1>8. a = b
  BY <1>4, <1>7, DigestInjective
<1>9. h = g
  BY <1>4, <1>8
<1>10. /\ h.version = x.version /\ h.merkle_root = x.merkle_root /\ h.timestamp = x.timestamp
       /\ h.nonce = x.nonce /\ h.prev_blockhash = s.block_hash
       /\ g.version = y.version /\ g.merkle_root = y.merkle_root /\ g.timestamp = y.timestamp
       /\ g.nonce = y.nonce /\ g.prev_blockhash = t.block_hash
  BY DEF into_header
<1>. HIDE DEF h, g
<1>. QED  BY <1>9, <1>10 DEF IsNewHeader

(* So the hash of the tip settles every header under it.                   *)
THEOREM TipSettles ==
  ASSUME NEW s, IsState(s), NEW m, NEW xs, AreHeaders(xs, m), NEW ys, AreHeaders(ys, m),
         Walk(s, xs, m).block_hash = Walk(s, ys, m).block_hash
  PROVE  xs = ys
<1>1. /\ m \in Nat /\ IsBytes(xs, m) /\ IsBytes(ys, m)
      /\ \A i \in 1..m : IsNewHeader(xs[i]) /\ IsNewHeader(ys[i])
  BY DEF AreHeaders, IsBytes
<1>. DEFINE Tip(hs, k) == Walk(s, hs, k).block_hash
            N == {k \in Nat : k \in 0..m => Tip(xs, m - k) = Tip(ys, m - k)}
<1>2. ASSUME NEW k \in 0..(m - 1), Tip(xs, k + 1) = Tip(ys, k + 1)
      PROVE  xs[k + 1] = ys[k + 1] /\ Tip(xs, k) = Tip(ys, k)
  <2>1. k \in 0..m /\ k + 1 \in 1..m
    BY <1>1
  <2>2. Walk(s, xs, k + 1) = ApplyHeader(Walk(s, xs, k), xs[k + 1], "guest")
    BY <1>1, WalkStep
  <2>3. Walk(s, ys, k + 1) = ApplyHeader(Walk(s, ys, k), ys[k + 1], "guest")
    BY <1>1, WalkStep
  <2>4. IsState(Walk(s, xs, k)) /\ IsState(Walk(s, ys, k))
    BY <2>1, WalkState
  <2>5. IsNewHeader(xs[k + 1]) /\ IsNewHeader(ys[k + 1])
    BY <1>1, <2>1
  <2>6. ApplyHeader(Walk(s, xs, k), xs[k + 1], "guest").block_hash
          = ApplyHeader(Walk(s, ys, k), ys[k + 1], "guest").block_hash
    BY <1>2, <2>2, <2>3
  <2>. QED  BY <2>4, <2>5, <2>6, HashSettles
<1>3. 0 \in N
  <2>1. m - 0 = m
    BY <1>1
  <2>. QED  BY <2>1
<1>4. ASSUME NEW k \in Nat, k \in N PROVE k + 1 \in N
  <2>. SUFFICES ASSUME k + 1 \in 0..m PROVE Tip(xs, m - (k + 1)) = Tip(ys, m - (k + 1))
    OBVIOUS
  <2>. DEFINE j == m - (k + 1)
  <2>1. k \in 0..m /\ j \in 0..(m - 1) /\ m - k = j + 1
    BY <1>1
  <2>2. Tip(xs, j + 1) = Tip(ys, j + 1)
    BY <1>4, <2>1
  <2>. HIDE DEF Tip, j
  <2>3. Tip(xs, j) = Tip(ys, j)
    BY <1>2, <2>1, <2>2
  <2>. QED  BY <2>3 DEF Tip, j
<1>5. Nat \subseteq N
  <2>. HIDE DEF N
  <2>. QED  BY <1>3, <1>4, SetInduction
<1>6. ASSUME NEW i \in 1..m PROVE xs[i] = ys[i]
  <2>. DEFINE j == i - 1
              k == m - i
  <2>1. k \in Nat /\ k \in 0..m /\ m - k = i /\ j \in 0..(m - 1) /\ j + 1 = i
    BY <1>1
  <2>2. Tip(xs, i) = Tip(ys, i)
    BY <1>5, <2>1
  <2>. HIDE DEF Tip, j, k
  <2>3. xs[j + 1] = ys[j + 1]
    BY <1>2, <2>1, <2>2
  <2>. QED  BY <2>1, <2>3
<1>. QED  BY <1>1, <1>6, SameBytes

(* A state of the table, whatever its header.                              *)
LEMMA IsOnTable ==
  ASSUME NEW h \in 0..(BATCH * BATCHES), NEW s, IsState(s), SameState(s, Table(h))
  PROVE  OnTable(s)
<1>. DEFINE t == Table(h)
<1>1. h \in Nat /\ DbStates[h] = t /\ h \in DOMAIN DbStates
  <2>1. BATCH * BATCHES \in Nat
    BY ExchangeAssumption
  <2>. QED  BY <2>1 DEF DbStates, Table, Rows
<1>2. IsState(t)
  BY <1>1, TableState
<1>. HIDE DEF t
<1>3. [s EXCEPT !.header = t.header] = t
  <2>. DEFINE a1 == s.header  a2 == s.block_hash  a3 == s.genesis_hash  a4 == s.current_nbits
              a5 == s.height  a6 == s.chain_work  a7 == s.current_work  a8 == s.current_target
              a9 == s.epoch_start_timestamp  a10 == s.timestamps
              r == [s EXCEPT !.header = t.header]
  <2>1. s = [header |-> a1, block_hash |-> a2, genesis_hash |-> a3, current_nbits |-> a4,
             height |-> a5, chain_work |-> a6, current_work |-> a7, current_target |-> a8,
             epoch_start_timestamp |-> a9, timestamps |-> a10]
    BY DEF IsState
  <2>2. r = [s EXCEPT !.header = t.header]
    OBVIOUS
  <2>3. /\ a2 = t.block_hash /\ a3 = t.genesis_hash /\ a4 = t.current_nbits /\ a5 = t.height
        /\ a6 = t.chain_work /\ a7 = t.current_work /\ a8 = t.current_target
        /\ a9 = t.epoch_start_timestamp /\ a10 = t.timestamps
    BY DEF SameState, t
  <2>. HIDE DEF a1, a2, a3, a4, a5, a6, a7, a8, a9, a10, r
  <2>4. /\ r.header = t.header /\ r.block_hash = a2 /\ r.genesis_hash = a3 /\ r.current_nbits = a4
        /\ r.height = a5 /\ r.chain_work = a6 /\ r.current_work = a7 /\ r.current_target = a8
        /\ r.epoch_start_timestamp = a9 /\ r.timestamps = a10
    BY <2>1, <2>2
  <2>5. r = [header |-> r.header, block_hash |-> r.block_hash, genesis_hash |-> r.genesis_hash,
             current_nbits |-> r.current_nbits, height |-> r.height, chain_work |-> r.chain_work,
             current_work |-> r.current_work, current_target |-> r.current_target,
             epoch_start_timestamp |-> r.epoch_start_timestamp, timestamps |-> r.timestamps]
    BY <2>1, <2>2
  <2>6. r = t
    BY <1>2, <2>3, <2>4, <2>5 DEF IsState
  <2>. QED  BY <2>6 DEF r
<1>. QED  BY <1>1, <1>3 DEF OnTable

-----------------------------------------------------------------------------
(***************************************************************************)
(* The inductive invariant.                                                *)
(***************************************************************************)
\* Is it this buffer, in this batch, that is not what was written?
Here(b) == altered.buffer = b /\ altered.in = height

Changed(now, was) ==
  \/ altered.at \in DOMAIN was /\ now \in Others(was, altered.at)
  \/ altered.at = 0 /\ \E n \in RESIZED : Len(was) + n >= 0 /\ now = Resize(was, n)

TypeInv ==
  /\ mode \in {"prove", "execute"}
  /\ phase \in {"prepare", "refused", "sent", "committed", "rejected", "panicked"}
  /\ height \in Nat /\ height + BATCH <= BATCH * BATCHES
  /\ \/ altered = Unaltered
     \/ /\ altered.buffer \in Buffers \cup {"saved"}
        /\ altered.in \in Nat /\ altered.in <= height
        /\ altered.buffer \in Buffers /\ phase = "prepare" => altered.in < height

\* What the host resumes from is of this height, or a failure it should not have.
SavedInv ==
  /\ \A values \in proven : IsBytes(values, 169)
  /\ mode = "execute" \/ height = 0 => saved = None
  /\ mode = "prove" /\ height > 0 =>
       /\ IsBytes(saved, Len(saved))
       /\ ~Here("saved") => /\ saved \in proven
                            /\ saved = HostSuccess(Table(height)) \/ saved \in FailedEarlier

\* Every buffer is what was built, or the one that was altered.
SentInv ==
  phase \notin {"prepare", "refused"} =>
    /\ DOMAIN stdin = Buffers
    /\ \A b \in Buffers :
         LET was == build_stdin(Table(height))[b]
         IN  IF Here(b) THEN Changed(stdin[b], was) ELSE stdin[b] = was

\* The values of a walk over all headers, and of one that stops.
SuccessValues ==
  LET end == After(Len(new_headers))
  IN  MinimalPublicValues_to_bytes(
        success(public_claim(end), sha256_116bytes(continuation_bytes(end)), pcs.verifier_key))

FailureValues(valid, code) ==
  LET last == After(valid)
  IN  MinimalPublicValues_to_bytes(
        failure(public_claim(last), code, HeightBytes(Height(last.height) + 1),
                sha256_116bytes(continuation_bytes(last)), pcs.verifier_key))

CommittedInv ==
  Done =>
    /\ InputBound
    /\ \/ committed = SuccessValues
       \/ \E valid \in 0 .. Len(new_headers) - 1, code \in {2, 3} :
            ~OnTable(After(valid + 1)) /\ committed = FailureValues(valid, code)

PanickedInv == phase = "panicked" /\ InputBound => HintRefused

IInv == TypeInv /\ SavedInv /\ SentInv /\ CommittedInv /\ PanickedInv

-----------------------------------------------------------------------------

(* There is room for two batches.                                          *)
LEMMA Rooms ==
  BATCH * BATCHES \in Nat /\ BATCH + BATCH <= BATCH * BATCHES
<1>1. BATCH \in Nat /\ BATCHES \in Nat /\ BATCHES >= 2
  BY ExchangeAssumption
<1>2. PICK m \in Nat : BATCHES = m + 2
  <2>1. BATCHES - 2 \in Nat /\ BATCHES = (BATCHES - 2) + 2
    BY <1>1
  <2>. QED  BY <2>1
<1>3. BATCH * BATCHES = BATCH * m + (BATCH + BATCH) /\ BATCH * m \in Nat
  BY <1>1, <1>2
<1>. QED  BY <1>1, <1>3

(* DbStates is the table, as far as it goes.                               *)
LEMMA TableIs ==
  ASSUME NEW h \in 0..(BATCH * BATCHES)
  PROVE  DbStates[h] = Table(h) /\ IsState(Table(h)) /\ Table(h).height = HeightBytes(h)
<1>1. h \in Nat
  BY Rooms
<1>2. DbStates[h] = Table(h)
  BY DEF DbStates, Table, Rows
<1>. QED  BY <1>1, <1>2, TableState

(* The keys have 32 bytes.                                                 *)
LEMMA KeyIsBytes ==
  IsBytes(VerifierKey, 32) /\ IsBytes(Value("vk", <<>>, 32), 32)
BY SmallBytes DEF VerifierKey

(* The claim of a state is one.                                            *)
LEMMA ClaimIs ==
  ASSUME NEW s, IsState(s)
  PROVE  IsClaim(public_claim(s))
BY DEF IsState, IsClaim, public_claim

(* Values put together from fields of the right sizes.                     *)
LEMMA ValuesAre ==
  ASSUME NEW claim, IsClaim(claim), NEW code, IsBytes(code, 1), NEW at, IsBytes(at, 4),
         NEW rest, IsBytes(rest, 32), NEW key, IsBytes(key, 32)
  PROVE  IsValues(MinimalPublicValues(claim, code, at, rest, key))
BY DEF IsValues, IsClaim, MinimalPublicValues

(* What the values of a success or a failure are read back to.             *)
LEMMA SuccessRead ==
  ASSUME NEW claim, IsClaim(claim), NEW rest, IsBytes(rest, 32), NEW key, IsBytes(key, 32)
  PROVE  LET pv == success(claim, rest, key)
         IN  /\ IsBytes(MinimalPublicValues_to_bytes(pv), 169)
             /\ MinimalPublicValues_parse(MinimalPublicValues_to_bytes(pv)) = pv
             /\ pv.return_code = <<Byte(0)>> /\ pv.verifier_key = key
             /\ pv.continuation_digest = rest /\ pv.tip_hash = claim.tip_hash
<1>. DEFINE pv == success(claim, rest, key)
<1>1. IsBytes(<<Byte(0)>>, 1) /\ IsBytes(Zeros(4), 4)
  BY SmallBytes
<1>2. IsValues(pv)
  BY <1>1, ValuesAre DEF success
<1>3. /\ pv.return_code = <<Byte(0)>> /\ pv.verifier_key = key
      /\ pv.continuation_digest = rest /\ pv.tip_hash = claim.tip_hash
  BY DEF success, MinimalPublicValues
<1>. HIDE DEF pv
<1>4. /\ IsBytes(MinimalPublicValues_to_bytes(pv), 169)
      /\ MinimalPublicValues_parse(MinimalPublicValues_to_bytes(pv)) = pv
  BY <1>2, ValuesRead
<1>. QED  BY <1>3, <1>4 DEF pv

(* The same for a failure.                                                 *)
LEMMA FailureRead ==
  ASSUME NEW claim, IsClaim(claim), NEW code, NEW at, IsBytes(at, 4),
         NEW rest, IsBytes(rest, 32), NEW key, IsBytes(key, 32)
  PROVE  LET pv == failure(claim, code, at, rest, key)
         IN  /\ IsBytes(MinimalPublicValues_to_bytes(pv), 169)
             /\ MinimalPublicValues_parse(MinimalPublicValues_to_bytes(pv)) = pv
             /\ pv.return_code = <<Byte(code)>>
<1>. DEFINE pv == failure(claim, code, at, rest, key)
<1>1. IsBytes(<<Byte(code)>>, 1)
  BY SmallBytes
<1>2. IsValues(pv)
  BY <1>1, ValuesAre DEF failure
<1>3. pv.return_code = <<Byte(code)>>
  BY DEF failure, MinimalPublicValues
<1>. HIDE DEF pv
<1>4. /\ IsBytes(MinimalPublicValues_to_bytes(pv), 169)
      /\ MinimalPublicValues_parse(MinimalPublicValues_to_bytes(pv)) = pv
  BY <1>2, ValuesRead
<1>. QED  BY <1>3, <1>4 DEF pv

(* The same for the values the host predicts.                              *)
LEMMA HostSuccessRead ==
  ASSUME NEW s, IsState(s)
  PROVE  /\ IsBytes(HostSuccess(s), 169)
         /\ MinimalPublicValues_parse(HostSuccess(s))
              = success(public_claim(s), digest(continuation_bytes(s)), VerifierKey)
         /\ MinimalPublicValues_parse(HostSuccess(s)).return_code = <<Byte(0)>>
<1>1. IsClaim(public_claim(s))
  BY ClaimIs
<1>2. IsBytes(digest(continuation_bytes(s)), 32)
  BY DigestIsBytes
<1>. QED  BY <1>1, <1>2, KeyIsBytes, SuccessRead DEF HostSuccess

(* The values of a failed batch have an exit code other than 0.            *)
LEMMA FailedRead ==
  ASSUME NEW values \in FailedEarlier
  PROVE  /\ IsBytes(values, 169)
         /\ \E code \in {2, 3} : MinimalPublicValues_parse(values).return_code = <<Byte(code)>>
<1>. DEFINE t == Table(BATCH)
            at == HeightBytes(BATCH + 1)
            rest == digest(continuation_bytes(t))
            key == Value("vk", <<>>, 32)
<1>1. DbStates[BATCH] = t /\ IsState(t)
  <2>1. BATCH \in 0..(BATCH * BATCHES)
    BY Rooms, ExchangeAssumption
  <2>. QED  BY <2>1, TableIs
<1>2. PICK code \in {2, 3} :
        values = MinimalPublicValues_to_bytes(failure(public_claim(t), code, at, rest, key))
  BY <1>1 DEF FailedEarlier
<1>3. IsClaim(public_claim(t))
  BY <1>1, ClaimIs
<1>4. IsBytes(at, 4) /\ IsBytes(rest, 32) /\ IsBytes(key, 32)
  BY SmallBytes, DigestIsBytes DEF HeightBytes
<1>. HIDE DEF t, at, rest, key
<1>. QED  BY <1>2, <1>3, <1>4, FailureRead

(* One byte is another.                                                    *)
LEMMA OthersAre ==
  ASSUME NEW s, NEW n, IsBytes(s, n), NEW p \in 1..n, NEW t \in Others(s, p)
  PROVE  /\ IsBytes(t, n) /\ t[p] # s[p] /\ \A i \in 1..n : i # p => t[i] = s[i]
         /\ \E v : t[p] = Byte(v)
<1>1. PICK v : t = [s EXCEPT ![p] = Byte(v)] /\ t # s
  BY DEF Others
<1>2. DOMAIN s = 1..n /\ n \in Nat
  BY BytesLength
<1>3. t = [i \in 1..n |-> IF i = p THEN Byte(v) ELSE s[i]]
  BY <1>1, <1>2
<1>4. t[p] = Byte(v) /\ \A i \in 1..n : i # p => t[i] = s[i]
  BY <1>3
<1>5. IsBytes(t, n)
  BY <1>2, <1>3, <1>4 DEF IsBytes
<1>6. t[p] # s[p]
  <2>. SUFFICES ASSUME t[p] = s[p] PROVE FALSE
    OBVIOUS
  <2>1. \A i \in 1..n : t[i] = s[i]
    BY <1>4
  <2>2. t = s
    BY <1>5, <2>1, SameBytes
  <2>. QED  BY <1>1, <2>2
<1>. QED  BY <1>4, <1>5, <1>6

(* A buffer that is cut or has a tail has another length.                  *)
LEMMA ResizedIs ==
  ASSUME NEW s, NEW n, IsBytes(s, n), NEW k \in Int, n + k >= 0
  PROVE  IsBytes(Resize(s, k), n + k)
<1>1. n \in Nat /\ Len(s) = n
  BY BytesLength
<1>2. CASE k > 0
  <2>1. IsBytes(Zeros(k), k)
    BY <1>2, SmallBytes
  <2>2. IsBytes(s \o Zeros(k), n + k)
    BY <2>1, Concat DEF IsJoined
  <2>. QED  BY <1>2, <2>2 DEF Resize
<1>3. CASE ~(k > 0)
  <2>1. 0 \in 0..n /\ n + k \in 0..n /\ n + k = (n + k) - 0
    BY <1>1, <1>3
  <2>2. IsBytes(Slice(s, 0, n + k), n + k)
    BY <2>1, SlicedBytes
  <2>. QED  BY <1>1, <1>3, <2>2 DEF Resize
<1>. QED  BY <1>2, <1>3

(* Nothing is sent at first; what is saved is nothing, or a proven failure. *)
LEMMA InitIInv ==
  Init => IInv
<1>. SUFFICES ASSUME Init PROVE IInv
  OBVIOUS
<1>1. phase = "prepare" /\ altered = Unaltered /\ Unaltered.buffer = "none"
  BY DEF Init, Unaltered
<1>2. TypeInv
  <2>1. BATCH \in Nat /\ height \in {0, BATCH} /\ height + BATCH <= BATCH * BATCHES
    BY Rooms, ExchangeAssumption DEF Init
  <2>2. mode \in {"prove", "execute"}
    BY DEF Init
  <2>. QED  BY <1>1, <2>1, <2>2 DEF TypeInv
<1>3. SavedInv
  <2>1. CASE height = 0 /\ saved = None /\ proven = {}
    BY <2>1 DEF SavedInv
  <2>2. CASE mode = "prove" /\ height = BATCH /\ saved \in FailedEarlier /\ proven = {saved}
    <3>1. IsBytes(saved, 169)
      BY <2>2, FailedRead
    <3>2. Len(saved) = 169
      BY <3>1, BytesLength
    <3>3. height # 0
      BY <2>2, ExchangeAssumption
    <3>. QED  BY <2>2, <3>1, <3>2, <3>3 DEF SavedInv
  <2>. QED  BY <2>1, <2>2 DEF Init
<1>. QED  BY <1>1, <1>2, <1>3 DEF IInv, SentInv, CommittedInv, PanickedInv, Done

(* What a step that leaves the input alone cannot change.                  *)
LEMMA SameInput ==
  ASSUME UNCHANGED <<mode, height, saved, stdin, altered, proven>>
  PROVE  /\ InputBound' <=> InputBound
         /\ HintRefused' <=> HintRefused
         /\ SuccessValues' = SuccessValues
         /\ new_headers' = new_headers
         /\ \A n : After(n)' = After(n)
         /\ \A valid, code : FailureValues(valid, code)' = FailureValues(valid, code)
<1>1. pcs' = pcs /\ state' = state /\ new_headers' = new_headers
  BY DEF pcs, state, new_headers
<1>2. VerifierKey' = VerifierKey
  BY DEF VerifierKey
<1>3. InputParses' <=> InputParses
  BY DEF InputParses
<1>4. \A k, d : sp1_verifies(k, d)' <=> sp1_verifies(k, d)
  BY <1>2 DEF sp1_verifies
<1>5. verify_prior_proof' <=> verify_prior_proof
  BY <1>1, <1>2 DEF verify_prior_proof, sp1_verifies
<1>6. InputBound' <=> InputBound
  BY <1>1, <1>3, <1>5 DEF InputBound, witness_matches
<1>7. \A n : After(n)' = After(n)
  BY <1>1 DEF After
<1>8. HintRefused' <=> HintRefused
  BY <1>1 DEF HintRefused, After
<1>9. SuccessValues' = SuccessValues
  BY <1>1 DEF SuccessValues, After
<1>10. \A valid, code : FailureValues(valid, code)' = FailureValues(valid, code)
  BY <1>1 DEF FailureValues, After
<1>. QED  BY <1>1, <1>6, <1>7, <1>8, <1>9, <1>10

(* A step that leaves alone what is saved.                                 *)
LEMMA SameSaved ==
  ASSUME UNCHANGED <<mode, height, saved, altered, proven>>, SavedInv
  PROVE  SavedInv'
<1>1. \A s : HostSuccess(s)' = HostSuccess(s)
  BY DEF HostSuccess, VerifierKey
<1>2. Here("saved")' <=> Here("saved")
  BY DEF Here
<1>. QED  BY <1>1, <1>2 DEF SavedInv

(* A step that leaves alone what is sent.                                  *)
LEMMA SameSent ==
  ASSUME UNCHANGED <<mode, height, saved, stdin, altered, proven>>, SentInv,
         phase' \notin {"prepare", "refused"} => phase \notin {"prepare", "refused"}
  PROVE  SentInv'
<1>1. build_stdin(Table(height))' = build_stdin(Table(height))
  BY DEF build_stdin, build_proof, HostSuccess, VerifierKey
<1>2. /\ \A b : Here(b)' <=> Here(b)
      /\ \A now, was : Changed(now, was)' <=> Changed(now, was)
  BY DEF Here, Changed
<1>. QED  BY <1>1, <1>2 DEF SentInv

HeightIn == height \in 0..(BATCH * BATCHES)

(* Both ends of a batch are in the table.                                  *)
LEMMA HeightIsIn ==
  TypeInv => /\ HeightIn /\ height + BATCH \in 0..(BATCH * BATCHES)
             /\ DbStates[height] = Table(height)
             /\ DbStates[height + BATCH] = Table(height + BATCH)
<1>. SUFFICES ASSUME TypeInv
              PROVE  /\ HeightIn /\ height + BATCH \in 0..(BATCH * BATCHES)
                     /\ DbStates[height] = Table(height)
                     /\ DbStates[height + BATCH] = Table(height + BATCH)
  OBVIOUS
<1>1. height \in 0..(BATCH * BATCHES) /\ height + BATCH \in 0..(BATCH * BATCHES)
  BY Rooms, ExchangeAssumption DEF TypeInv
<1>. QED  BY <1>1, TableIs DEF HeightIn

(* Sending, with the checks or without: the buffers are the ones built.    *)
LEMMA SentStep ==
  ASSUME IInv, phase = "prepare", stdin' = build_stdin(DbStates[height]), phase' = "sent",
         UNCHANGED <<mode, height, saved, altered, committed, proven>>
  PROVE  IInv'
<1>1. TypeInv'
  BY DEF IInv, TypeInv
<1>2. SavedInv'
  BY SameSaved DEF IInv
<1>3. SentInv'
  <2>. DEFINE built == build_stdin(Table(height))
  <2>1. stdin' = built
    BY HeightIsIn DEF IInv
  <2>2. built' = built
    BY DEF build_stdin, build_proof, HostSuccess, VerifierKey
  <2>3. DOMAIN built = Buffers
    BY DEF build_stdin, Buffers
  <2>4. \A b \in Buffers : ~Here(b)'
    <3>1. Unaltered.buffer = "none"
      BY DEF Unaltered
    <3>. QED  BY <3>1 DEF IInv, TypeInv, Here, Buffers
  <2>. HIDE DEF built
  <2>5. DOMAIN stdin' = Buffers /\ \A b \in Buffers : ~Here(b)' /\ stdin'[b] = built'[b]
    BY <2>1, <2>2, <2>3, <2>4
  <2>. QED  BY <2>5 DEF SentInv, built
<1>4. CommittedInv' /\ PanickedInv'
  BY DEF CommittedInv, PanickedInv, Done
<1>. QED  BY <1>1, <1>2, <1>3, <1>4 DEF IInv

(* Altering a buffer, once.                                                *)
LEMMA AlterInputStep ==
  ASSUME IInv, AlterInput
  PROVE  IInv'
<1>1. /\ phase = "sent" /\ altered = Unaltered
      /\ UNCHANGED <<mode, phase, height, saved, committed, proven>>
  BY DEF AlterInput
<1>2. PICK b \in Buffers :
        \/ \E p \in DOMAIN stdin[b] :
             /\ altered' = [buffer |-> b, at |-> p, in |-> height]
             /\ \E other \in Others(stdin[b], p) : stdin' = [stdin EXCEPT ![b] = other]
        \/ \E n \in RESIZED :
             /\ Len(stdin[b]) + n >= 0
             /\ altered' = [buffer |-> b, at |-> 0, in |-> height]
             /\ stdin' = [stdin EXCEPT ![b] = Resize(stdin[b], n)]
  BY DEF AlterInput
<1>3. altered'.buffer = b /\ altered'.in = height
  BY <1>2
<1>4. TypeInv'
  BY <1>1, <1>3 DEF IInv, TypeInv
<1>5. SavedInv'
  <2>1. \A s : HostSuccess(s)' = HostSuccess(s)
    BY <1>1 DEF HostSuccess, VerifierKey
  <2>2. ~Here("saved")
    BY <1>1 DEF Here, Unaltered
  <2>. QED  BY <1>1, <2>1, <2>2 DEF SavedInv, IInv
<1>6. SentInv'
  <2>. DEFINE built == build_stdin(Table(height))
  <2>1. \A c \in Buffers : ~Here(c)
    BY <1>1 DEF Here, Unaltered, Buffers
  <2>2. DOMAIN stdin = Buffers /\ \A c \in Buffers : stdin[c] = built[c]
    BY <1>1, <2>1 DEF SentInv, IInv
  <2>3. built' = built
    BY <1>1 DEF build_stdin, build_proof, HostSuccess, VerifierKey
  <2>. HIDE DEF built
  <2>4. \A c \in Buffers : Here(c)' <=> c = b
    BY <1>1, <1>3 DEF Here
  <2>5. DOMAIN stdin' = Buffers /\ \A c \in Buffers : c # b => stdin'[c] = built[c]
    BY <1>2, <2>2
  <2>6. ASSUME NEW now, now = stdin'[b], NEW was, was = built[b] PROVE Changed(now, was)'
    <3>1. CASE \E p \in DOMAIN stdin[b] :
                 /\ altered' = [buffer |-> b, at |-> p, in |-> height]
                 /\ \E other \in Others(stdin[b], p) : stdin' = [stdin EXCEPT ![b] = other]
      <4>1. PICK p \in DOMAIN stdin[b] :
                 /\ altered' = [buffer |-> b, at |-> p, in |-> height]
                 /\ \E other \in Others(stdin[b], p) : stdin' = [stdin EXCEPT ![b] = other]
        BY <3>1
      <4>2. altered'.at = p /\ now \in Others(was, p) /\ p \in DOMAIN was
        BY <2>2, <2>6, <4>1
      <4>. QED  BY <4>2 DEF Changed
    <3>2. CASE \E n \in RESIZED :
                 /\ Len(stdin[b]) + n >= 0
                 /\ altered' = [buffer |-> b, at |-> 0, in |-> height]
                 /\ stdin' = [stdin EXCEPT ![b] = Resize(stdin[b], n)]
      <4>1. PICK n \in RESIZED :
                 /\ Len(stdin[b]) + n >= 0
                 /\ altered' = [buffer |-> b, at |-> 0, in |-> height]
                 /\ stdin' = [stdin EXCEPT ![b] = Resize(stdin[b], n)]
        BY <3>2
      <4>2. altered'.at = 0 /\ now = Resize(was, n) /\ Len(was) + n >= 0
        BY <2>2, <2>6, <4>1
      <4>. QED  BY <4>2 DEF Changed
    <3>. QED  BY <1>2, <3>1, <3>2
  <2>. QED  BY <2>3, <2>4, <2>5, <2>6 DEF SentInv, built
<1>7. CommittedInv' /\ PanickedInv'
  BY <1>1 DEF CommittedInv, PanickedInv, Done
<1>. QED  BY <1>4, <1>5, <1>6, <1>7 DEF IInv

(* Altering the saved proof, once, before anything is sent.                *)
LEMMA AlterSavedStep ==
  ASSUME IInv, AlterSaved
  PROVE  IInv'
<1>1. /\ phase = "prepare" /\ saved # None /\ altered = Unaltered
      /\ UNCHANGED <<mode, phase, height, stdin, committed, proven>>
  BY DEF AlterSaved
<1>2. altered'.buffer = "saved" /\ altered'.in = height
  BY DEF AlterSaved
<1>3. TypeInv'
  BY <1>1, <1>2 DEF IInv, TypeInv, Buffers
<1>4. mode = "prove" /\ height > 0 /\ IsBytes(saved, Len(saved))
  BY <1>1 DEF IInv, TypeInv, SavedInv
<1>5. IsBytes(saved', Len(saved'))
  <2>. DEFINE n == Len(saved)
  <2>1. CASE \E p \in DOMAIN saved : saved' \in Others(saved, p)
    <3>1. PICK p \in DOMAIN saved : saved' \in Others(saved, p)
      BY <2>1
    <3>2. IsBytes(saved', n)
      BY <1>4, <3>1, BytesLength, OthersAre
    <3>. QED  BY <3>2, BytesLength
  <2>2. CASE \E k \in RESIZED : Len(saved) + k >= 0 /\ saved' = Resize(saved, k)
    <3>1. PICK k \in RESIZED : n + k >= 0 /\ saved' = Resize(saved, k)
      BY <2>2
    <3>2. k \in Int
      BY <3>1, ExchangeAssumption
    <3>3. IsBytes(saved', n + k)
      BY <1>4, <3>1, <3>2, ResizedIs
    <3>. QED  BY <3>3, BytesLength
  <2>. QED  BY <2>1, <2>2 DEF AlterSaved
<1>6. SavedInv'
  BY <1>1, <1>2, <1>4, <1>5 DEF SavedInv, IInv, TypeInv, Here
<1>7. SentInv' /\ CommittedInv' /\ PanickedInv'
  BY <1>1 DEF SentInv, CommittedInv, PanickedInv, Done
<1>. QED  BY <1>3, <1>6, <1>7 DEF IInv

(* The guest commits or panics, the host rejects: the input stays.         *)
LEMMA EndStep ==
  ASSUME IInv, UNCHANGED <<mode, height, saved, stdin, altered, proven>>,
         phase \notin {"prepare", "refused"},
         phase' \in {"committed", "rejected", "panicked"}, CommittedInv', PanickedInv'
  PROVE  IInv'
<1>1. TypeInv'
  BY DEF IInv, TypeInv
<1>2. SavedInv'
  BY SameSaved DEF IInv
<1>3. SentInv'
  BY SameSent DEF IInv
<1>. QED  BY <1>1, <1>2, <1>3 DEF IInv

(* Only the predicted values are kept, as those of the next height.        *)
LEMMA NextBatchStep ==
  ASSUME IInv, NextBatch
  PROVE  IInv'
<1>1. /\ phase' = "prepare" /\ height' = height + BATCH
      /\ height + 2 * BATCH <= BATCH * BATCHES /\ committed = expected_pv
      /\ UNCHANGED <<mode, altered>>
  BY DEF NextBatch, verify_public_values
<1>2. height \in Nat /\ BATCH \in Nat /\ BATCH > 0 /\ BATCH * BATCHES \in Nat
  BY Rooms, ExchangeAssumption DEF IInv, TypeInv
<1>3. height' \in Nat /\ height' + BATCH <= BATCH * BATCHES /\ height' > height
  BY <1>1, <1>2
<1>4. altered.buffer \in Buffers \cup {"saved"} => altered.in < height' /\ altered.in <= height'
  <2>1. Unaltered.buffer = "none"
    BY DEF Unaltered
  <2>2. altered.buffer \in Buffers \cup {"saved"} => altered.in \in Nat /\ altered.in <= height
    BY <2>1 DEF IInv, TypeInv, Buffers
  <2>. QED  BY <1>2, <1>3, <2>2
<1>5. TypeInv'
  BY <1>1, <1>3, <1>4 DEF IInv, TypeInv
<1>6. SavedInv'
  <2>1. committed = HostSuccess(Table(height')) /\ IsBytes(committed, 169)
    <3>1. DbStates[height + BATCH] = Table(height + BATCH)
      BY HeightIsIn DEF IInv
    <3>2. height' \in Nat
      BY <1>3
    <3>3. IsState(Table(height'))
      BY <3>2, TableState
    <3>4. committed = HostSuccess(Table(height'))
      BY <1>1, <3>1 DEF expected_pv
    <3>. QED  BY <3>3, <3>4, HostSuccessRead
  <2>2. HostSuccess(Table(height))' = HostSuccess(Table(height'))
    BY <1>1 DEF HostSuccess, VerifierKey
  <2>3. Len(committed) = 169
    BY <2>1, BytesLength
  <2>4. mode \in {"prove", "execute"} /\ (\A v \in proven : IsBytes(v, 169))
        /\ (mode = "execute" => saved = None)
    BY DEF IInv, TypeInv, SavedInv
  <2>5. CASE mode = "prove"
    <3>1. saved' = committed /\ proven' = proven \cup {committed}
      BY <2>5 DEF NextBatch
    <3>2. \A values \in proven' : IsBytes(values, 169)
      BY <2>1, <2>4, <3>1
    <3>3. /\ IsBytes(saved', Len(saved')) /\ saved' \in proven'
          /\ saved' = HostSuccess(Table(height))'
      BY <2>1, <2>2, <2>3, <3>1
    <3>4. mode' # "execute" /\ height' # 0
      BY <1>1, <1>2, <1>3, <2>5
    <3>. QED  BY <3>2, <3>3, <3>4 DEF SavedInv
  <2>6. CASE mode = "execute"
    <3>1. saved' = saved /\ proven' = proven
      BY <2>6 DEF NextBatch
    <3>. QED  BY <1>1, <1>2, <1>3, <2>4, <2>6, <3>1 DEF SavedInv
  <2>. QED  BY <2>4, <2>5, <2>6
<1>7. SentInv' /\ CommittedInv' /\ PanickedInv'
  BY <1>1 DEF SentInv, CommittedInv, PanickedInv, Done
<1>. QED  BY <1>5, <1>6, <1>7 DEF IInv

(* Each action keeps the invariant.                                        *)
LEMMA NextIInv ==
  IInv /\ [Next]_vars => IInv'
<1>. SUFFICES ASSUME IInv, [Next]_vars PROVE IInv'
  OBVIOUS
<1>1. CASE Prepare
  BY <1>1, SentStep DEF Prepare
<1>2. CASE Refuse
  <2>1. phase' = "refused" /\ UNCHANGED <<mode, height, saved, stdin, altered, committed, proven>>
    BY <1>2 DEF Refuse
  <2>2. TypeInv'
    BY <2>1 DEF IInv, TypeInv
  <2>3. SavedInv'
    BY <2>1, SameSaved DEF IInv
  <2>. QED  BY <2>1, <2>2, <2>3 DEF IInv, SentInv, CommittedInv, PanickedInv, Done
<1>3. CASE SendUnchecked
  BY <1>3, SentStep DEF SendUnchecked
<1>4. CASE AlterInput
  BY <1>4, AlterInputStep
<1>5. CASE AlterSaved
  BY <1>5, AlterSavedStep
<1>6. CASE CommitSuccess
  <2>1. /\ phase = "sent" /\ phase' = "committed" /\ InputBound /\ committed' = SuccessValues
        /\ UNCHANGED <<mode, height, saved, stdin, altered, proven>>
    BY <1>6 DEF CommitSuccess, commit, SuccessValues
  <2>2. CommittedInv' /\ PanickedInv'
    BY <2>1, SameInput DEF CommittedInv, PanickedInv
  <2>. QED  BY <2>1, <2>2, EndStep
<1>7. CASE CommitFailure
  <2>1. /\ phase = "sent" /\ phase' = "committed" /\ InputBound
        /\ UNCHANGED <<mode, height, saved, stdin, altered, proven>>
        /\ \E valid \in 0 .. Len(new_headers) - 1, code \in {2, 3} :
             ~OnTable(After(valid + 1)) /\ committed' = FailureValues(valid, code)
    BY <1>7 DEF CommitFailure, commit, FailureValues
  <2>2. PICK valid \in 0 .. Len(new_headers) - 1, code \in {2, 3} :
             ~OnTable(After(valid + 1)) /\ committed' = FailureValues(valid, code)
    BY <2>1
  <2>3. ~OnTable(After(valid + 1))' /\ committed' = FailureValues(valid, code)'
    BY <2>1, <2>2, SameInput DEF OnTable
  <2>4. InputBound' /\ new_headers' = new_headers
    BY <2>1, SameInput
  <2>5. CommittedInv'
    BY <2>2, <2>3, <2>4 DEF CommittedInv
  <2>6. PanickedInv'
    BY <2>1 DEF PanickedInv
  <2>. QED  BY <2>1, <2>5, <2>6, EndStep
<1>8. CASE Panic
  <2>1. /\ phase = "sent" /\ phase' = "panicked" /\ (InputBound => HintRefused)
        /\ UNCHANGED <<mode, height, saved, stdin, altered, committed, proven>>
    BY <1>8 DEF Panic
  <2>2. CommittedInv' /\ PanickedInv'
    BY <2>1, SameInput DEF CommittedInv, PanickedInv, Done
  <2>. QED  BY <2>1, <2>2, EndStep
<1>9. CASE NextBatch
  BY <1>9, NextBatchStep
<1>10. CASE Reject
  <2>1. /\ phase = "committed" /\ phase' = "rejected"
        /\ UNCHANGED <<mode, height, saved, stdin, altered, committed, proven>>
    BY <1>10 DEF Reject
  <2>2. CommittedInv' /\ PanickedInv'
    <3>1. /\ InputBound
          /\ \/ committed = SuccessValues
             \/ \E valid \in 0 .. Len(new_headers) - 1, code \in {2, 3} :
                  ~OnTable(After(valid + 1)) /\ committed = FailureValues(valid, code)
      BY <2>1 DEF IInv, CommittedInv, Done
    <3>2. \A n : OnTable(After(n))' <=> OnTable(After(n))
      BY <2>1, SameInput DEF OnTable
    <3>. QED  BY <2>1, <3>1, <3>2, SameInput DEF CommittedInv, PanickedInv
  <2>. QED  BY <2>1, <2>2, EndStep
<1>11. CASE UNCHANGED vars
  <2>1. /\ phase' = phase /\ committed' = committed
        /\ UNCHANGED <<mode, height, saved, stdin, altered, proven>>
    BY <1>11 DEF vars
  <2>2. TypeInv'
    BY <2>1 DEF IInv, TypeInv
  <2>3. SavedInv'
    BY <2>1, SameSaved DEF IInv
  <2>4. SentInv'
    BY <2>1, SameSent DEF IInv
  <2>5. CommittedInv' /\ PanickedInv'
    <3>1. \A n : OnTable(After(n))' <=> OnTable(After(n))
      BY <2>1, SameInput DEF OnTable
    <3>. QED  BY <2>1, <3>1, SameInput DEF IInv, CommittedInv, PanickedInv, Done
  <2>. QED  BY <2>2, <2>3, <2>4, <2>5 DEF IInv
<1>. QED  BY <1>1, <1>2, <1>3, <1>4, <1>5, <1>6, <1>7, <1>8, <1>9, <1>10, <1>11 DEF Next

(* Whatever is altered and however many batches there are, each buffer is  *)
(* the one that was built but for one change, and what is committed is what *)
(* the guest made of the buffers.                                          *)
THEOREM BuffersAreBuiltOrAltered ==
  Spec => []IInv
BY InitIInv, NextIInv, PTL DEF Spec

-----------------------------------------------------------------------------
(***************************************************************************)
(* What is sent.                                                           *)
(***************************************************************************)
Built == build_stdin(Table(height))

Sent == phase \notin {"prepare", "refused"}

PriorValues == IF mode = "prove" THEN saved ELSE HostSuccess(DbStates[height])

(* The headers of a batch are the rows after its start.                    *)
LEMMA TheRows ==
  ASSUME NEW h \in Nat
  PROVE  /\ AreHeaders(NewHeaders(h), BATCH)
         /\ \A i \in 1..BATCH : NewHeaders(h)[i] = Row(h + i)
<1>1. BATCH \in Nat
  BY ExchangeAssumption
<1>2. DOMAIN NewHeaders(h) = 1..BATCH /\ \A i \in 1..BATCH : NewHeaders(h)[i] = Row(h + i)
  BY DEF NewHeaders
<1>3. IsBytes(NewHeaders(h), BATCH)
  BY <1>1 DEF NewHeaders, IsBytes
<1>. QED  BY <1>2, <1>3, RowsAre DEF AreHeaders

(* The hints of a batch have four bytes each.                              *)
LEMMA TheHints ==
  ASSUME NEW h \in Nat
  PROVE  IsBytes(serialize_median_hints(MedianHints(h)), 4 * BATCH)
<1>. DEFINE items == MedianHints(h)
            start == [j \in 1..(BATCH + 1) |-> (j - 1) * 4]
<1>1. BATCH \in Nat \ {0}
  BY ExchangeAssumption
<1>2. IsBytes(items, BATCH) /\ \A i \in 1..BATCH : IsBytes(items[i], 4)
  <2>1. \A i \in 1..BATCH : items[i] = Median(h + i)
    BY DEF MedianHints
  <2>2. \A i : IsBytes(Median(i), 4)
    BY SmallBytes DEF Median
  <2>3. IsBytes(items, BATCH)
    BY <1>1 DEF MedianHints, IsBytes
  <2>. HIDE DEF items
  <2>. QED  BY <2>1, <2>2, <2>3
<1>3. \A j \in 1..(BATCH + 1) : start[j] = (j - 1) * 4
  OBVIOUS
<1>. HIDE DEF items, start
<1>4. start[1] = 0 /\ (\A j \in 1..BATCH : start[j + 1] = start[j] + 4) /\ start[BATCH + 1] = 4 * BATCH
  <2>1. /\ 1 \in 1..(BATCH + 1) /\ BATCH + 1 \in 1..(BATCH + 1)
        /\ \A j \in 1..BATCH : j \in 1..(BATCH + 1) /\ j + 1 \in 1..(BATCH + 1)
    BY <1>1
  <2>. QED  BY <1>1, <1>3, <2>1
<1>5. AreParts(items, start, BATCH, 4)
  BY <1>1, <1>2, <1>4 DEF AreParts
<1>6. IsLayout(FlattenSeq(items), start, items, BATCH)
  BY <1>5, FlattenLayout
<1>7. IsBytes(FlattenSeq(items), 4 * BATCH)
  BY <1>4, <1>6 DEF IsLayout
<1>. QED  BY <1>7 DEF serialize_median_hints, items

(* The proof build_proof makes is of the values it starts from.            *)
LEMMA TheProof ==
  /\ IsProof(build_proof)
  /\ build_proof.public_values_digest
       = IF PriorValues = None THEN Zeros(32) ELSE digest(PriorValues)
  /\ build_proof.exit_code
       = IF PriorValues = None THEN Byte(0) ELSE MinimalPublicValues_parse(PriorValues).return_code[1]
<1>. DEFINE values == PriorValues
            d == IF values = None THEN Zeros(32) ELSE digest(values)
            e == IF values = None THEN Byte(0) ELSE MinimalPublicValues_parse(values).return_code[1]
<1>1. build_proof = [public_values_digest |-> d, exit_code |-> e, _pad |-> Zeros(3)]
  BY DEF build_proof, PriorValues
<1>2. IsBytes(d, 32) /\ IsBytes(Zeros(3), 3)
  BY SmallBytes, DigestIsBytes
<1>. HIDE DEF d, e
<1>3. IsProof(build_proof) /\ build_proof.public_values_digest = d /\ build_proof.exit_code = e
  BY <1>1, <1>2 DEF IsProof
<1>. QED  BY <1>3 DEF d, e

(* What the proof carrying state was built from is what it is read to.     *)
LEMMA ThePcs ==
  ASSUME IInv
  PROVE  /\ IsBytes(Built.pcs, 168)
         /\ ProofCarryingState_parse(Built.pcs)
              = [claim |-> public_claim(Table(height)), verifier_key |-> VerifierKey,
                 proof |-> build_proof]
<1>. DEFINE p == [claim |-> public_claim(Table(height)), verifier_key |-> VerifierKey,
                  proof |-> build_proof]
<1>1. height \in Nat
  BY DEF IInv, TypeInv
<1>2. IsClaim(public_claim(Table(height)))
  BY <1>1, TableState, ClaimIs
<1>3. IsPcs(p)
  BY <1>2, TheProof, KeyIsBytes DEF IsPcs
<1>4. Built.pcs = ProofCarryingState_to_bytes(p)
  BY DEF Built, build_stdin
<1>. HIDE DEF p
<1>5. IsBytes(Built.pcs, 168) /\ ProofCarryingState_parse(Built.pcs) = p
  BY <1>3, <1>4, PcsRead
<1>. QED  BY <1>5 DEF p

(* The same for state, headers and hints.                                  *)
LEMMA TheRest ==
  ASSUME IInv
  PROVE  /\ IsBytes(Built.state, 296) /\ State_parse(Built.state) = Table(height)
         /\ IsBytes(Built.headers, 44 * BATCH)
         /\ parse_new_headers(Built.headers) = NewHeaders(height)
         /\ IsBytes(Built.hints, 4 * BATCH)
         /\ Built.hints = serialize_median_hints(MedianHints(height))
<1>1. height \in Nat /\ BATCH \in Nat \ {0}
  BY ExchangeAssumption DEF IInv, TypeInv
<1>2. /\ Built.state = State_to_bytes(Table(height))
      /\ Built.headers = serialize_new_headers(NewHeaders(height))
      /\ Built.hints = serialize_median_hints(MedianHints(height))
  BY DEF Built, build_stdin
<1>3. IsState(Table(height))
  BY <1>1, TableState
<1>4. IsBytes(Built.state, 296) /\ State_parse(Built.state) = Table(height)
  BY <1>2, <1>3, StateRead
<1>5. IsBytes(Built.headers, 44 * BATCH) /\ parse_new_headers(Built.headers) = NewHeaders(height)
  BY <1>1, <1>2, TheRows, HeadersRead
<1>6. IsBytes(Built.hints, 4 * BATCH)
  BY <1>1, <1>2, TheHints
<1>. QED  BY <1>2, <1>4, <1>5, <1>6

OneByte(now, was, n) ==
  /\ altered.at \in 1..n /\ IsBytes(now, n)
  /\ now[altered.at] # was[altered.at]
  /\ \A i \in 1..n : i # altered.at => now[i] = was[i]
  /\ \E v : now[altered.at] = Byte(v)

(* A buffer that is not the altered one is as built; the altered one has   *)
(* one byte changed, or another length.                                    *)
LEMMA TheBuffer ==
  ASSUME IInv, Sent, NEW b \in Buffers, NEW n, IsBytes(Built[b], n)
  PROVE  /\ ~Here(b) => stdin[b] = Built[b]
         /\ Here(b) =>
              \/ OneByte(stdin[b], Built[b], n)
              \/ \E k \in Int \ {0} : IsBytes(stdin[b], n + k)
<1>1. IF Here(b) THEN Changed(stdin[b], Built[b]) ELSE stdin[b] = Built[b]
  BY DEF IInv, SentInv, Sent, Built
<1>2. ASSUME Here(b)
      PROVE  \/ OneByte(stdin[b], Built[b], n)
             \/ \E k \in Int \ {0} : IsBytes(stdin[b], n + k)
  <2>1. Len(Built[b]) = n /\ DOMAIN Built[b] = 1..n
    BY BytesLength
  <2>2. CASE altered.at \in DOMAIN Built[b] /\ stdin[b] \in Others(Built[b], altered.at)
    <3>. DEFINE p == altered.at
                was == Built[b]
                now == stdin[b]
    <3>1. IsBytes(was, n) /\ p \in 1..n /\ now \in Others(was, p)
      BY <2>1, <2>2
    <3>. HIDE DEF p, was, now
    <3>2. /\ IsBytes(now, n) /\ now[p] # was[p] /\ \A i \in 1..n : i # p => now[i] = was[i]
          /\ \E v : now[p] = Byte(v)
      BY <3>1, OthersAre
    <3>. QED  BY <3>1, <3>2 DEF OneByte, p, was, now
  <2>3. CASE \E k \in RESIZED : Len(Built[b]) + k >= 0 /\ stdin[b] = Resize(Built[b], k)
    <3>1. PICK k \in RESIZED : n + k >= 0 /\ stdin[b] = Resize(Built[b], k)
      BY <2>1, <2>3
    <3>2. k \in Int \ {0}
      BY <3>1, ExchangeAssumption
    <3>3. IsBytes(stdin[b], n + k)
      BY <3>1, <3>2, ResizedIs
    <3>. QED  BY <3>2, <3>3
  <2>. QED  BY <1>1, <1>2, <2>2, <2>3 DEF Changed
<1>. QED  BY <1>1, <1>2

-----------------------------------------------------------------------------
(***************************************************************************)
(* What the guest has bound.                                               *)
(***************************************************************************)
AsSent(now, was, b, n) ==
  IsBytes(now, n) /\ IF Here(b) THEN OneByte(now, was, n) ELSE now = was

(* A buffer of the length that was built has at most one other byte.       *)
LEMMA OfLength ==
  ASSUME IInv, Sent, NEW b \in Buffers, NEW n, IsBytes(Built[b], n), Len(stdin[b]) = n
  PROVE  AsSent(stdin[b], Built[b], b, n)
<1>1. /\ ~Here(b) => stdin[b] = Built[b]
      /\ Here(b) => OneByte(stdin[b], Built[b], n) \/ \E k \in Int \ {0} : IsBytes(stdin[b], n + k)
  BY TheBuffer
<1>2. ASSUME NEW k \in Int \ {0}, IsBytes(stdin[b], n + k) PROVE FALSE
  <2>1. Len(stdin[b]) = n + k
    BY <1>2, BytesLength
  <2>2. n \in Nat
    BY BytesLength
  <2>. QED  BY <2>1, <2>2
<1>3. Here(b) => OneByte(stdin[b], Built[b], n)
  BY <1>1, <1>2
<1>4. OneByte(stdin[b], Built[b], n) => IsBytes(stdin[b], n)
  BY DEF OneByte
<1>. QED  BY <1>1, <1>3, <1>4 DEF AsSent

(* At most one buffer is altered.                                          *)
LEMMA OneAltered ==
  ASSUME NEW b, NEW c, Here(b), Here(c)
  PROVE  b = c
BY DEF Here

(* The buffers by name.                                                    *)
LEMMA StdinParts ==
  /\ stdin["pcs"] = stdin.pcs /\ stdin["state"] = stdin.state
  /\ stdin["headers"] = stdin.headers /\ stdin["hints"] = stdin.hints
  /\ Built["pcs"] = Built.pcs /\ Built["state"] = Built.state
  /\ Built["headers"] = Built.headers /\ Built["hints"] = Built.hints
OBVIOUS

(* What of the proof carrying state the guest can rely on.                 *)
LEMMA ThePcsSent ==
  ASSUME IInv, Sent, InputParses
  PROVE  /\ AsSent(stdin.pcs, Built.pcs, "pcs", 168)
         /\ IsClaim(pcs.claim) /\ IsBytes(pcs.verifier_key, 32)
<1>1. Len(stdin["pcs"]) = 168
  BY StdinParts DEF InputParses, CLAIM_SIZE, VK_WIRE_SIZE, PROOF_SIZE
<1>2. IsBytes(Built["pcs"], 168)
  BY ThePcs, StdinParts
<1>3. AsSent(stdin["pcs"], Built["pcs"], "pcs", 168)
  BY <1>1, <1>2, OfLength DEF Buffers
<1>4. IsBytes(stdin.pcs, 168)
  BY <1>3, StdinParts DEF AsSent
<1>5. pcs.claim = Claim_parse(Slice(stdin.pcs, 0, 100)) /\ pcs.verifier_key = Slice(stdin.pcs, 100, 132)
  BY DEF pcs, ProofCarryingState_parse, CLAIM_SIZE, VK_WIRE_SIZE
<1>6. IsBytes(Slice(stdin.pcs, 0, 100), 100) /\ IsBytes(Slice(stdin.pcs, 100, 132), 32)
  BY <1>4, SlicedBytes
<1>7. IsClaim(pcs.claim)
  BY <1>5, <1>6, ClaimParsed
<1>. QED  BY <1>3, <1>5, <1>6, <1>7, StdinParts

(* What of the state the guest can rely on.                                *)
LEMMA TheStateSent ==
  ASSUME IInv, Sent, InputParses
  PROVE  /\ AsSent(stdin.state, Built.state, "state", 296)
         /\ IsState(state)
         /\ ~Here("state") => state = Table(height)
<1>1. Len(stdin["state"]) = 296
  BY StdinParts DEF InputParses, STATE_SIZE, BLOCK_HEADER_SIZE, WINDOW_SIZE
<1>2. IsBytes(Built["state"], 296) /\ State_parse(Built["state"]) = Table(height)
  BY TheRest, StdinParts
<1>3. AsSent(stdin["state"], Built["state"], "state", 296)
  BY <1>1, <1>2, OfLength DEF Buffers
<1>4. state = State_parse(stdin["state"])
  BY StdinParts DEF state
<1>5. IsState(state)
  BY <1>3, <1>4, StateParsed DEF AsSent
<1>6. ~Here("state") => state = Table(height)
  BY <1>2, <1>3, <1>4 DEF AsSent
<1>. QED  BY <1>3, <1>5, <1>6, StdinParts

(* As many whole headers as there are hints.                               *)
LEMMA HeadersLength ==
  ASSUME NEW len \in Nat, NEW n \in Nat, len % 44 = 0, 4 * n = 4 * (len \div 44)
  PROVE  len = 44 * n
<1>. DEFINE q == len \div 44
<1>1. q \in Nat /\ len = (44 * q) + (len % 44)
  OBVIOUS
<1>2. 4 * n = 4 * q
  OBVIOUS
<1>. HIDE DEF q
<1>3. q = n
  BY <1>1, <1>2
<1>. QED  BY <1>1, <1>3

(* The hints settle how many headers there are, and a changed byte is in   *)
(* one.                                                                    *)
LEMMA TheHeadersSent ==
  ASSUME IInv, Sent, InputParses
  PROVE  /\ AreHeaders(new_headers, BATCH)
         /\ ~Here("headers") => new_headers = NewHeaders(height)
         /\ Here("headers") => new_headers # NewHeaders(height)
<1>. DEFINE now == stdin["headers"]
            was == Built["headers"]
<1>1. BATCH \in Nat
  BY ExchangeAssumption
<1>2. IsBytes(was, 44 * BATCH) /\ parse_new_headers(was) = NewHeaders(height)
  BY TheRest, StdinParts
<1>3. new_headers = parse_new_headers(now)
  BY StdinParts DEF new_headers
<1>4. CASE ~Here("headers")
  <2>1. now = was
    BY <1>2, <1>4, TheBuffer DEF Buffers
  <2>2. AreHeaders(NewHeaders(height), BATCH)
    BY <1>1, <1>2, HeadersParsed
  <2>. QED  BY <1>2, <1>3, <1>4, <2>1, <2>2
<1>5. CASE Here("headers")
  <2>1. IsBytes(Built["hints"], 4 * BATCH) /\ ~Here("hints")
    BY <1>5, TheRest, StdinParts, OneAltered
  <2>2. stdin["hints"] = Built["hints"]
    BY <2>1, TheBuffer DEF Buffers
  <2>3. Len(stdin["hints"]) = 4 * BATCH
    BY <2>1, <2>2, BytesLength
  <2>4. Len(now) % 44 = 0 /\ 4 * BATCH = 4 * (Len(now) \div 44)
    BY <2>3, StdinParts DEF InputParses, NEW_HEADER_SIZE
  <2>5. Len(now) \in Nat
    <3>1. \E n : IsBytes(now, n)
      BY <1>2, <1>5, TheBuffer DEF Buffers, OneByte
    <3>. QED  BY <3>1, BytesLength
  <2>. HIDE DEF now, was
  <2>6. Len(now) = 44 * BATCH
    BY <1>1, <2>4, <2>5, HeadersLength
  <2>7. OneByte(now, was, 44 * BATCH)
    BY <1>2, <1>5, <2>6, OfLength DEF Buffers, AsSent, now, was
  <2>8. IsBytes(now, 44 * BATCH) /\ now # was
    BY <2>7 DEF OneByte
  <2>9. AreHeaders(new_headers, BATCH)
    BY <1>1, <1>3, <2>8, HeadersParsed
  <2>10. new_headers # NewHeaders(height)
    BY <1>1, <1>2, <1>3, <2>8, HeadersInjective
  <2>. QED  BY <1>5, <2>9, <2>10
<1>. QED  BY <1>4, <1>5

-----------------------------------------------------------------------------
(***************************************************************************)
(* What the proof is a proof of.                                           *)
(***************************************************************************)
Bound == IInv /\ Sent /\ InputBound

\* The values the guest asks for a proof of.
PriorBytes ==
  MinimalPublicValues_to_bytes(
    success(pcs.claim, digest(continuation_bytes(state)), pcs.verifier_key))

(* The claim has the height of the batch: the anchor is not taken for      *)
(* another.                                                                *)
LEMMA TheClaim ==
  ASSUME Bound
  PROVE  pcs.claim = public_claim(state) /\ pcs.claim.height = HeightBytes(height)
<1>1. pcs.claim = public_claim(state) /\ InputParses /\ IInv /\ Sent
  BY DEF Bound, InputBound, witness_matches
<1>2. Table(height).height = HeightBytes(height)
  <2>1. height \in Nat
    BY <1>1 DEF IInv, TypeInv
  <2>. QED  BY <2>1, TableState
<1>3. CASE Here("state")
  <2>1. ~Here("pcs")
    BY <1>3, OneAltered
  <2>2. stdin.pcs = Built.pcs
    BY <1>1, <2>1, ThePcsSent DEF AsSent
  <2>3. pcs.claim = public_claim(Table(height))
    BY <1>1, <2>2, ThePcs DEF pcs
  <2>. QED  BY <1>1, <1>2, <2>3 DEF public_claim
<1>4. CASE ~Here("state")
  <2>1. state = Table(height)
    BY <1>1, <1>4, TheStateSent
  <2>. QED  BY <1>1, <1>2, <2>1 DEF public_claim
<1>. QED  BY <1>3, <1>4

(* The values asked for are a success, and read as written.                *)
LEMMA PriorIs ==
  ASSUME Bound
  PROVE  /\ IsBytes(PriorBytes, 169)
         /\ MinimalPublicValues_parse(PriorBytes)
              = success(pcs.claim, digest(continuation_bytes(state)), pcs.verifier_key)
         /\ MinimalPublicValues_parse(PriorBytes).return_code = <<Byte(0)>>
<1>1. IsClaim(pcs.claim) /\ IsBytes(pcs.verifier_key, 32)
  BY ThePcsSent DEF Bound, InputBound
<1>2. IsBytes(digest(continuation_bytes(state)), 32)
  BY DigestIsBytes
<1>. QED  BY <1>1, <1>2, SuccessRead DEF PriorBytes

(* Above the anchor the guest has checked the proof.                       *)
LEMMA Verified ==
  ASSUME Bound, height > 0
  PROVE  /\ pcs.proof.exit_code = Byte(0)
         /\ pcs.proof.public_values_digest = digest(PriorBytes)
         /\ sp1_verifies(pcs.verifier_key, pcs.proof.public_values_digest)
<1>1. height \in Nat
  BY DEF Bound, IInv, TypeInv
<1>2. pcs.claim.height # Zeros(4)
  BY <1>1, TheClaim, HeightZero
<1>3. verify_prior_proof
  BY <1>2 DEF Bound, InputBound
<1>4. sha256_116bytes(continuation_bytes(state)) = digest(continuation_bytes(state))
  <2>1. IsBytes(continuation_bytes(state), 116)
    BY TheStateSent, ContinuationIsBytes DEF Bound, InputBound, IsState
  <2>. QED  BY <2>1, Padded116
<1>5. sha256_169bytes(PriorBytes) = digest(PriorBytes)
  BY PriorIs, Padded169
<1>. QED  BY <1>3, <1>4, <1>5 DEF verify_prior_proof, PriorBytes

(* No byte of a digest is one of known value.                              *)
LEMMA DigestByte ==
  ASSUME NEW msg, NEW i \in 1..32, NEW v
  PROVE  digest(msg)[i] # Byte(v)
<1>1. digest(msg)[i] = <<<<"sha256", Condensed(Padded(msg))>>, i>>
  BY DEF digest, compress, Value
<1>. QED  BY <1>1, ByteDistinct

\* Where the proof is in the bytes.
LEMMA ProofPlaces ==
  ASSUME NEW bytes, IsBytes(bytes, 168)
  PROVE  LET proof == ProofCarryingState_parse(bytes).proof
         IN  /\ proof.public_values_digest = Slice(bytes, 132, 164)
             /\ proof.exit_code = bytes[165]
<1>. DEFINE proof == ProofCarryingState_parse(bytes).proof
            tail  == Slice(bytes, 132, 168)
<1>1. Len(bytes) = 168
  BY BytesLength
<1>2. proof = Proof_parse(tail)
  BY <1>1 DEF ProofCarryingState_parse, CLAIM_SIZE, VK_WIRE_SIZE
<1>3. proof.public_values_digest = Slice(tail, 0, 32) /\ proof.exit_code = tail[33]
  BY <1>2 DEF Proof_parse
<1>4. Slice(tail, 0, 32) = Slice(bytes, 132, 164)
  <2>1. 132 \in 0..168 /\ 168 \in 132..168 /\ 0 \in 0..(168 - 132) /\ 32 \in 0..(168 - 132)
        /\ 132 + 0 = 132 /\ 132 + 32 = 164
    OBVIOUS
  <2>. QED  BY <2>1, SliceOfSlice
<1>5. tail[33] = bytes[165]
  <2>1. 132 \in 0..168 /\ 168 \in 132..168 /\ 33 \in 1..(168 - 132) /\ 132 + 33 = 165
    OBVIOUS
  <2>. QED  BY <2>1, Sliced
<1>. QED  BY <1>3, <1>4, <1>5

Agree(s, t, a, z) == \A i \in 1..(z - a) : s[a + i] = t[a + i]

(* Strings that agree from a to z have one slice there.                    *)
LEMMA SameSlice ==
  ASSUME NEW s, NEW t, NEW m, IsBytes(s, m), IsBytes(t, m), NEW a \in 0..m, NEW z \in a..m,
         Agree(s, t, a, z)
  PROVE  Slice(s, a, z) = Slice(t, a, z)
<1>1. /\ IsBytes(Slice(s, a, z), z - a)
      /\ \A i \in 1..(z - a) : Slice(s, a, z)[i] = s[a + i]
  BY Sliced
<1>2. /\ IsBytes(Slice(t, a, z), z - a)
      /\ \A i \in 1..(z - a) : Slice(t, a, z)[i] = t[a + i]
  BY Sliced
<1>3. \A i \in 1..(z - a) : Slice(s, a, z)[i] = Slice(t, a, z)[i]
  BY <1>1, <1>2 DEF Agree
<1>. QED  BY <1>1, <1>2, <1>3, SameBytes

(* A changed byte cannot be one of the digest, as no digest has a byte of  *)
(* known value.                                                            *)
LEMMA DigestUntouched ==
  ASSUME Bound, NEW msg, pcs.proof.public_values_digest = digest(msg)
  PROVE  pcs.proof.public_values_digest = build_proof.public_values_digest
<1>. DEFINE now == stdin.pcs
            was == Built.pcs
<1>1. AsSent(now, was, "pcs", 168) /\ IsBytes(was, 168)
  BY ThePcsSent, ThePcs DEF Bound, InputBound
<1>2. IsBytes(now, 168)
  BY <1>1 DEF AsSent
<1>3. pcs.proof.public_values_digest = Slice(now, 132, 164)
  BY <1>2, ProofPlaces DEF pcs
<1>4. build_proof.public_values_digest = Slice(was, 132, 164)
  <2>1. ProofCarryingState_parse(was).proof = build_proof
    BY ThePcs DEF Bound
  <2>. QED  BY <1>1, <2>1, ProofPlaces
<1>. HIDE DEF now, was
<1>5. \A i \in 1..32 : now[132 + i] = was[132 + i]
  <2>. SUFFICES ASSUME NEW i \in 1..32, now[132 + i] # was[132 + i]
                PROVE  FALSE
    OBVIOUS
  <2>1. OneByte(now, was, 168)
    BY <1>1 DEF AsSent
  <2>2. 132 + i \in 1..168
    OBVIOUS
  <2>3. 132 + i = altered.at
    BY <2>1, <2>2 DEF OneByte
  <2>4. PICK v : now[132 + i] = Byte(v)
    BY <2>1, <2>3 DEF OneByte
  <2>5. Slice(now, 132, 164)[i] = now[132 + i]
    <3>1. 132 \in 0..168 /\ 164 \in 132..168 /\ i \in 1..(164 - 132)
      OBVIOUS
    <3>. QED  BY <1>2, <3>1, Sliced
  <2>6. digest(msg)[i] = Byte(v)
    BY <1>3, <2>4, <2>5
  <2>. QED  BY <2>6, DigestByte
<1>6. Slice(now, 132, 164) = Slice(was, 132, 164)
  <2>1. 132 \in 0..168 /\ 164 \in 132..168 /\ 164 - 132 = 32
    OBVIOUS
  <2>2. Agree(now, was, 132, 164)
    BY <1>5, <2>1 DEF Agree
  <2>. QED  BY <1>1, <1>2, <2>1, <2>2, SameSlice
<1>. QED  BY <1>3, <1>4, <1>6

(* The values build_proof starts from are the ones the guest asks for.     *)
LEMMA PriorValuesAre ==
  ASSUME Bound, height > 0
  PROVE  PriorValues = PriorBytes
<1>1. digest(PriorBytes) = build_proof.public_values_digest
  BY Verified, DigestUntouched
<1>2. CASE PriorValues = None
  <2>1. digest(PriorBytes) = Zeros(32)
    BY <1>1, <1>2, TheProof
  <2>2. Zeros(32)[1] = Byte(0)
    BY DEF Zeros
  <2>. QED  BY <2>1, <2>2, DigestByte
<1>3. CASE PriorValues # None
  <2>1. digest(PriorBytes) = digest(PriorValues)
    BY <1>1, <1>3, TheProof
  <2>2. \E n : IsBytes(PriorValues, n)
    <3>1. CASE mode = "prove"
      BY <3>1 DEF Bound, IInv, SavedInv, PriorValues
    <3>2. CASE mode # "prove"
      <4>1. DbStates[height] = Table(height) /\ IsState(Table(height))
        BY HeightIsIn, TableIs DEF Bound, IInv, HeightIn
      <4>2. IsBytes(HostSuccess(Table(height)), 169)
        BY <4>1, HostSuccessRead
      <4>. QED  BY <3>2, <4>1, <4>2 DEF PriorValues
    <3>. QED  BY <3>1, <3>2
  <2>3. PICK n : IsBytes(PriorValues, n)
    BY <2>2
  <2>. QED  BY <2>1, <2>3, PriorIs, DigestInjective
<1>. QED  BY <1>2, <1>3

-----------------------------------------------------------------------------
(***************************************************************************)
(* The four properties.                                                    *)
(***************************************************************************)
LEMMA DoneIsBound ==
  IInv /\ Done => Bound
BY DEF IInv, CommittedInv, Done, Bound, Sent

(* A reader takes the values asked for as a success.                       *)
LEMMA PriorSucceeds ==
  ASSUME Bound
  PROVE  Outcome(PriorBytes) = "success"
<1>1. Len(PriorBytes) = 169
  BY PriorIs, BytesLength
<1>2. MinimalPublicValues_parse(PriorBytes).return_code = <<Byte(0)>>
  BY PriorIs
<1>. QED  BY <1>1, <1>2 DEF Outcome, MINIMAL_PV_SIZE

(* The digest settles the values: those saved, asked for and proven are the *)
(* same.                                                                   *)
LEMMA ResumesFromInvariant ==
  IInv => ResumesOnlyFromProof
<1>. SUFFICES ASSUME IInv, Done, mode = "prove", height > 0
              PROVE  saved \in proven /\ Outcome(saved) = "success"
  BY DEF ResumesOnlyFromProof
<1>1. Bound
  BY DoneIsBound
<1>2. saved = PriorBytes
  BY <1>1, PriorValuesAre DEF PriorValues
<1>3. PICK values \in proven : digest(values) = digest(PriorBytes)
  BY <1>1, Verified DEF sp1_verifies
<1>4. IsBytes(values, 169)
  BY <1>3 DEF IInv, SavedInv
<1>5. values = PriorBytes
  BY <1>1, <1>3, <1>4, PriorIs, DigestInjective
<1>. QED  BY <1>1, <1>2, <1>3, <1>5, PriorSucceeds

(* With the saved proof not altered, the state that is continued is the    *)
(* one of the rows, in all the guest reads of it.                          *)
LEMMA ResumesTable ==
  ASSUME Bound, height > 0, ~Here("saved")
  PROVE  /\ PriorValues = HostSuccess(Table(height))
         /\ pcs.claim = public_claim(Table(height)) /\ pcs.verifier_key = VerifierKey
         /\ SameState(state, Table(height))
<1>. DEFINE t == Table(height)
<1>1. DbStates[height] = t /\ IsState(t)
  BY HeightIsIn, TableIs DEF Bound, IInv, HeightIn
<1>2. PriorValues = PriorBytes
  BY PriorValuesAre
<1>3. PriorValues = HostSuccess(t)
  <2>1. CASE mode = "prove"
    <3>1. PriorValues = HostSuccess(t) \/ PriorValues \in FailedEarlier
      BY <2>1 DEF Bound, IInv, SavedInv, PriorValues
    <3>2. ASSUME PriorValues \in FailedEarlier PROVE FALSE
      <4>1. PICK code \in {2, 3} :
              MinimalPublicValues_parse(PriorValues).return_code = <<Byte(code)>>
        BY <3>2, FailedRead
      <4>2. <<Byte(code)>> = <<Byte(0)>>
        BY <1>2, <4>1, PriorIs
      <4>3. Byte(code) = Byte(0)
        BY <4>2
      <4>4. code = 0
        BY <4>3, ByteDistinct
      <4>. QED  BY <4>4
    <3>. QED  BY <3>1, <3>2
  <2>2. CASE mode # "prove"
    BY <1>1, <2>2 DEF PriorValues
  <2>. QED  BY <2>1, <2>2
<1>. DEFINE here  == success(pcs.claim, digest(continuation_bytes(state)), pcs.verifier_key)
            there == success(public_claim(t), digest(continuation_bytes(t)), VerifierKey)
<1>4. here = there
  BY <1>1, <1>2, <1>3, PriorIs, HostSuccessRead
<1>5. /\ pcs.claim.genesis_hash = public_claim(t).genesis_hash
      /\ pcs.claim.tip_hash = public_claim(t).tip_hash
      /\ pcs.claim.chain_work = public_claim(t).chain_work
      /\ pcs.claim.height = public_claim(t).height
      /\ digest(continuation_bytes(state)) = digest(continuation_bytes(t))
      /\ pcs.verifier_key = VerifierKey
  BY <1>4 DEF success, MinimalPublicValues
<1>6. IsClaim(pcs.claim) /\ IsState(state) /\ pcs.claim = public_claim(state)
  BY ThePcsSent, TheStateSent, TheClaim DEF Bound, InputBound
<1>7. pcs.claim = public_claim(t)
  <2>1. IsClaim(public_claim(t))
    BY <1>1, ClaimIs
  <2>. HIDE DEF t
  <2>. QED  BY <1>5, <1>6, <2>1 DEF IsClaim
<1>8. IsContinuation(state) /\ IsContinuation(t)
  BY <1>1, <1>6 DEF IsState
<1>9. continuation_bytes(state) = continuation_bytes(t)
  BY <1>5, <1>8, ContinuationIsBytes, DigestInjective
<1>10. SameState(state, t)
  <2>1. /\ state.current_nbits = t.current_nbits /\ state.current_work = t.current_work
        /\ state.current_target = t.current_target
        /\ state.epoch_start_timestamp = t.epoch_start_timestamp
        /\ state.timestamps = t.timestamps
    BY <1>8, <1>9, ContinuationInjective
  <2>2. /\ state.genesis_hash = t.genesis_hash /\ state.block_hash = t.block_hash
        /\ state.chain_work = t.chain_work /\ state.height = t.height
    BY <1>6, <1>7 DEF public_claim
  <2>. QED  BY <2>1, <2>2 DEF SameState
<1>. QED  BY <1>3, <1>5, <1>7, <1>10

(* From the state of the rows, along the rows.                             *)
LEMMA Along ==
  ASSUME IInv, IsState(state), SameState(state, Table(height)),
         new_headers = NewHeaders(height)
  PROVE  /\ Len(new_headers) = BATCH
         /\ \A n \in 0..BATCH : OnTable(After(n))
         /\ SameState(After(BATCH), Table(height + BATCH)) /\ IsState(After(BATCH))
<1>1. height \in Nat /\ height + BATCH <= BATCH * BATCHES /\ BATCH \in Nat \ {0}
  BY ExchangeAssumption DEF IInv, TypeInv
<1>2. /\ IsBytes(new_headers, BATCH)
      /\ \A i \in 1..BATCH : new_headers[i] = Row(height + i)
  BY <1>1, TheRows DEF AreHeaders
<1>3. \A n : After(n) = Walk(state, new_headers, n)
  BY DEF After, Walk
<1>4. \A n \in 0..BATCH : IsState(After(n)) /\ SameState(After(n), Table(height + n))
  BY <1>1, <1>2, <1>3, WalkAlong
<1>5. ASSUME NEW n \in 0..BATCH
      PROVE  OnTable(After(n))
  <2>1. height + n \in 0..(BATCH * BATCHES)
    BY <1>1, Rooms
  <2>. QED  BY <1>4, <2>1, IsOnTable
<1>6. Len(new_headers) = BATCH
  BY <1>2, BytesLength
<1>. QED  BY <1>1, <1>4, <1>5, <1>6

(* From the state of the rows, along the rows, to the values predicted.    *)
LEMMA PredictedAlong ==
  ASSUME IInv, Done, IsState(state), SameState(state, Table(height)),
         new_headers = NewHeaders(height), pcs.verifier_key = VerifierKey
  PROVE  committed = expected_pv
<1>. DEFINE end == After(BATCH)
            t   == Table(height + BATCH)
<1>1. BATCH \in Nat \ {0} /\ height \in Nat
  BY ExchangeAssumption DEF IInv, TypeInv
<1>2. committed = SuccessValues
  <2>1. \/ committed = SuccessValues
        \/ \E valid \in 0 .. Len(new_headers) - 1 : ~OnTable(After(valid + 1))
    BY DEF IInv, CommittedInv
  <2>2. \A valid \in 0 .. BATCH - 1 : OnTable(After(valid + 1))
    <3>1. \A valid \in 0 .. BATCH - 1 : valid + 1 \in 0..BATCH
      BY <1>1
    <3>. QED  BY <3>1, Along
  <2>. QED  BY <2>1, <2>2, Along
<1>3. IsState(end) /\ SameState(end, t)
  BY Along
<1>4. IsState(t) /\ DbStates[height + BATCH] = t
  <2>1. height + BATCH \in Nat
    BY <1>1
  <2>2. DbStates[height + BATCH] = t
    BY HeightIsIn DEF IInv
  <2>. QED  BY <2>1, <2>2, TableState
<1>5. public_claim(end) = public_claim(t)
  BY <1>3 DEF SameState, public_claim
<1>6. continuation_bytes(end) = continuation_bytes(t)
  BY <1>3 DEF SameState, continuation_bytes
<1>7. sha256_116bytes(continuation_bytes(end)) = digest(continuation_bytes(end))
  <2>1. IsBytes(continuation_bytes(end), 116)
    BY <1>3, ContinuationIsBytes DEF IsState
  <2>. QED  BY <2>1, Padded116
<1>8. SuccessValues
        = MinimalPublicValues_to_bytes(
            success(public_claim(end), sha256_116bytes(continuation_bytes(end)), pcs.verifier_key))
  BY Along DEF SuccessValues
<1>9. expected_pv
        = MinimalPublicValues_to_bytes(
            success(public_claim(t), digest(continuation_bytes(t)), VerifierKey))
  BY <1>4 DEF expected_pv, HostSuccess
<1>. HIDE DEF end, t
<1>. QED  BY <1>2, <1>5, <1>6, <1>7, <1>8, <1>9

(* A string with bytes is not None.                                        *)
LEMMA NotNone ==
  ASSUME NEW s, NEW n \in Nat \ {0}, IsBytes(s, n)
  PROVE  s # None
<1>1. 1 \in DOMAIN s
  <2>1. DOMAIN s = 1..n
    BY BytesLength
  <2>. QED  BY <2>1
<1>2. DOMAIN None = {}
  BY DEF None
<1>. QED  BY <1>1, <1>2

(* An input that is not altered is read as what was built.                 *)
LEMMA HonestInput ==
  ASSUME IInv, Sent, altered = Unaltered
  PROVE  /\ InputParses /\ state = Table(height) /\ new_headers = NewHeaders(height)
         /\ pcs = [claim |-> public_claim(Table(height)), verifier_key |-> VerifierKey,
                   proof |-> build_proof]
         /\ stdin.hints = serialize_median_hints(MedianHints(height))
<1>1. \A b \in Buffers : ~Here(b)
  BY DEF Buffers, Here, Unaltered
<1>2. /\ IsBytes(Built["pcs"], 168) /\ IsBytes(Built["state"], 296)
      /\ IsBytes(Built["headers"], 44 * BATCH) /\ IsBytes(Built["hints"], 4 * BATCH)
  BY ThePcs, TheRest, StdinParts
<1>3. /\ stdin["pcs"] = Built["pcs"] /\ stdin["state"] = Built["state"]
      /\ stdin["headers"] = Built["headers"] /\ stdin["hints"] = Built["hints"]
  <2>1. "pcs" \in Buffers /\ "state" \in Buffers /\ "headers" \in Buffers /\ "hints" \in Buffers
    BY DEF Buffers
  <2>. QED  BY <1>1, <1>2, <2>1, TheBuffer
<1>4. /\ stdin.pcs = Built.pcs /\ stdin.state = Built.state
      /\ stdin.headers = Built.headers /\ stdin.hints = Built.hints
  BY <1>3, StdinParts
<1>5. InputParses
  <2>1. /\ Len(stdin.pcs) = 168 /\ Len(stdin.state) = 296
        /\ Len(stdin.headers) = 44 * BATCH /\ Len(stdin.hints) = 4 * BATCH
    <3>1. /\ Len(Built["pcs"]) = 168 /\ Len(Built["state"]) = 296
          /\ Len(Built["headers"]) = 44 * BATCH /\ Len(Built["hints"]) = 4 * BATCH
      <4>1. Len(Built["pcs"]) = 168
        <5>1. IsBytes(Built["pcs"], 168)
          BY <1>2
        <5>. QED  BY <5>1, BytesLength
      <4>2. Len(Built["state"]) = 296
        <5>1. IsBytes(Built["state"], 296)
          BY <1>2
        <5>. QED  BY <5>1, BytesLength
      <4>3. Len(Built["headers"]) = 44 * BATCH
        BY <1>2, BytesLength
      <4>4. Len(Built["hints"]) = 4 * BATCH
        BY <1>2, BytesLength
      <4>. QED  BY <4>1, <4>2, <4>3, <4>4
    <3>. QED  BY <1>3, <3>1, StdinParts
  <2>2. BATCH \in Nat
    BY ExchangeAssumption
  <2>3. (44 * BATCH) % 44 = 0 /\ (44 * BATCH) \div 44 = BATCH
    BY <2>2
  <2>. QED  BY <2>1, <2>3 DEF InputParses, CLAIM_SIZE, VK_WIRE_SIZE, PROOF_SIZE, STATE_SIZE,
                              BLOCK_HEADER_SIZE, WINDOW_SIZE, NEW_HEADER_SIZE
<1>6. state = Table(height) /\ new_headers = NewHeaders(height)
  BY <1>4, TheRest DEF state, new_headers
<1>7. pcs = [claim |-> public_claim(Table(height)), verifier_key |-> VerifierKey,
             proof |-> build_proof]
  BY <1>4, ThePcs DEF pcs
<1>. QED  BY <1>4, <1>5, <1>6, <1>7, TheRest

(* What a host resumes from without alterations is the proof of its rows.  *)
LEMMA HonestPrior ==
  ASSUME IInv, altered = Unaltered, Resumable, height > 0
  PROVE  /\ PriorValues = HostSuccess(Table(height))
         /\ mode = "prove" => PriorValues \in proven
<1>1. ~Here("saved")
  BY DEF Here, Unaltered
<1>2. DbStates[height] = Table(height)
  BY HeightIsIn DEF IInv
<1>3. CASE mode = "prove"
  <2>1. saved \in proven /\ (saved = HostSuccess(Table(height)) \/ saved \in FailedEarlier)
    BY <1>1, <1>3 DEF IInv, SavedInv
  <2>2. ASSUME saved \in FailedEarlier PROVE FALSE
    <3>1. PICK code \in {2, 3} :
            IsBytes(saved, 169) /\ MinimalPublicValues_parse(saved).return_code = <<Byte(code)>>
      BY <2>2, FailedRead
    <3>2. saved # None
      BY <3>1, NotNone
    <3>3. Outcome(saved) = "success"
      BY <3>2 DEF Resumable
    <3>4. MinimalPublicValues_parse(saved).return_code = <<Byte(0)>>
      BY <3>3 DEF Outcome
    <3>5. Byte(code) = Byte(0)
      <4>1. <<Byte(code)>> = <<Byte(0)>>
        BY <3>1, <3>4
      <4>. QED  BY <4>1
    <3>6. code = 0
      BY <3>5, ByteDistinct
    <3>. QED  BY <3>6
  <2>. QED  BY <1>3, <2>1, <2>2 DEF PriorValues
<1>4. CASE mode # "prove"
  BY <1>2, <1>4 DEF PriorValues
<1>. QED  BY <1>3, <1>4

(* Height 0 is four zeros.                                                 *)
LEMMA ZeroHeight ==
  HeightBytes(0) = Zeros(4)
<1>1. 0 % 256 = 0 /\ 0 \div 256 = 0
  OBVIOUS
<1>2. HeightBytes(0) = <<Byte(0), Byte(0), Byte(0), Byte(0)>>
  BY <1>1 DEF HeightBytes, Bytes
<1>3. IsBytes(HeightBytes(0), 4) /\ IsBytes(Zeros(4), 4)
  BY <1>2, SmallBytes
<1>4. \A i \in 1..4 : HeightBytes(0)[i] = Byte(0)
  BY <1>2
<1>5. \A i \in 1..4 : Zeros(4)[i] = Byte(0)
  BY DEF Zeros
<1>. QED  BY <1>3, <1>4, <1>5, SameBytes

(* An input that is not altered passes every check of the guest.           *)
LEMMA HonestIsBound ==
  ASSUME IInv, Sent, altered = Unaltered, Resumable
  PROVE  InputBound
<1>. DEFINE t == Table(height)
<1>1. InputParses /\ state = t
  BY HonestInput
<1>2. pcs.claim = public_claim(t) /\ pcs.verifier_key = VerifierKey /\ pcs.proof = build_proof
  BY HonestInput
<1>3. height \in Nat /\ IsState(t) /\ t.height = HeightBytes(height)
  BY TableState DEF IInv, TypeInv
<1>4. witness_matches
  BY <1>1, <1>2 DEF witness_matches
<1>5. ASSUME pcs.claim.height # Zeros(4)
      PROVE  verify_prior_proof
  <2>1. height > 0
    <3>1. height # 0
      <4>1. HeightBytes(0) = Zeros(4)
        BY ZeroHeight
      <4>2. pcs.claim.height = HeightBytes(height)
        BY <1>2, <1>3 DEF public_claim
      <4>. QED  BY <1>5, <4>1, <4>2
    <3>. QED  BY <1>3, <3>1
  <2>2. PriorValues = HostSuccess(t) /\ (mode = "prove" => PriorValues \in proven)
    BY <2>1, HonestPrior
  <2>3. PriorValues # None /\ MinimalPublicValues_parse(PriorValues).return_code = <<Byte(0)>>
    <3>1. IsBytes(PriorValues, 169)
      BY <1>3, <2>2, HostSuccessRead
    <3>3. PriorValues # None
      BY <3>1, NotNone
    <3>. QED  BY <1>3, <2>2, <3>3, HostSuccessRead
  <2>4. build_proof.exit_code = Byte(0) /\ build_proof.public_values_digest = digest(PriorValues)
    <3>1. MinimalPublicValues_parse(PriorValues).return_code[1] = Byte(0)
      BY <2>3
    <3>. QED  BY <2>3, <3>1, TheProof
  <2>5. sha256_116bytes(continuation_bytes(state)) = digest(continuation_bytes(t))
    <3>1. IsBytes(continuation_bytes(t), 116)
      BY <1>3, ContinuationIsBytes DEF IsState
    <3>. QED  BY <1>1, <3>1, Padded116
  <2>6. sha256_169bytes(
          MinimalPublicValues_to_bytes(
            success(pcs.claim, sha256_116bytes(continuation_bytes(state)), pcs.verifier_key)))
          = digest(PriorValues)
    <3>1. PriorValues = MinimalPublicValues_to_bytes(
                          success(pcs.claim, sha256_116bytes(continuation_bytes(state)),
                                  pcs.verifier_key))
      BY <1>2, <2>2, <2>5 DEF HostSuccess
    <3>2. IsBytes(PriorValues, 169)
      BY <1>3, <2>2, HostSuccessRead
    <3>. QED  BY <3>1, <3>2, Padded169
  <2>7. sp1_verifies(pcs.verifier_key, pcs.proof.public_values_digest)
    BY <1>2, <2>2, <2>4 DEF sp1_verifies
  <2>. QED  BY <1>2, <2>4, <2>6, <2>7 DEF verify_prior_proof
<1>. QED  BY <1>1, <1>4, <1>5 DEF InputBound

(* A state is the same as itself.                                          *)
LEMMA SameAsItself ==
  \A s : SameState(s, s)
BY DEF SameState

(* So it ends in the predicted values, and no check panics.                *)
LEMMA HonestFromInvariant ==
  IInv => HonestBatchPasses
<1>. SUFFICES ASSUME IInv, altered = Unaltered
              PROVE  /\ phase = "sent" /\ Resumable => InputBound
                     /\ phase = "panicked" => ~Resumable
                     /\ Done => committed = expected_pv
  BY DEF HonestBatchPasses
<1>1. phase = "sent" /\ Resumable => InputBound
  BY HonestIsBound DEF Sent
<1>2. ASSUME Sent
      PROVE  /\ IsState(state) /\ SameState(state, Table(height))
             /\ new_headers = NewHeaders(height) /\ pcs.verifier_key = VerifierKey
  <2>1. IsState(Table(height))
    BY TableState DEF IInv, TypeInv
  <2>. QED  BY <1>2, <2>1, HonestInput, SameAsItself
<1>3. ASSUME phase = "panicked", Resumable PROVE FALSE
  <2>1. Sent
    BY <1>3 DEF Sent
  <2>2. InputBound /\ HintRefused
    BY <1>3, <2>1, HonestIsBound DEF IInv, PanickedInv
  <2>3. PICK n \in 0 .. Len(new_headers) - 1 : ~OnTable(After(n))
    BY <2>1, <2>2, HonestInput DEF HintRefused
  <2>4. Len(new_headers) = BATCH /\ \A k \in 0..BATCH : OnTable(After(k))
    BY <1>2, <2>1, Along
  <2>5. n \in 0..BATCH
    BY <2>3, <2>4, ExchangeAssumption
  <2>. QED  BY <2>3, <2>4, <2>5
<1>4. Done => committed = expected_pv
  BY <1>2, PredictedAlong DEF Done, Sent
<1>. QED  BY <1>1, <1>3, <1>4

(* Another tip, or a failure: not the values predicted.                    *)
LEMMA HeaderFromInvariant ==
  IInv => EveryHeaderByteCounts
<1>. SUFFICES ASSUME IInv, Done, Here("headers"), committed = expected_pv
              PROVE  FALSE
  BY DEF EveryHeaderByteCounts, Here
<1>. DEFINE t   == Table(height)
            end == Table(height + BATCH)
<1>1. Bound /\ InputParses /\ Sent
  BY DoneIsBound DEF Bound, InputBound
<1>2. height \in Nat /\ BATCH \in Nat \ {0}
  BY ExchangeAssumption DEF IInv, TypeInv
<1>3. IsState(state) /\ state = t
  <2>1. ~Here("state")
    BY OneAltered
  <2>. QED  BY <1>1, <2>1, TheStateSent
<1>4. AreHeaders(new_headers, BATCH) /\ new_headers # NewHeaders(height)
  BY <1>1, TheHeadersSent
<1>5. Len(new_headers) = BATCH
  BY <1>4, BytesLength DEF AreHeaders
<1>6. \A n : After(n) = Walk(state, new_headers, n)
  BY DEF After, Walk
<1>7. \A n \in 0..BATCH : IsState(After(n))
  BY <1>3, <1>4, <1>6, WalkState
<1>8. IsState(end) /\ expected_pv = HostSuccess(end)
  <2>1. height + BATCH \in Nat
    BY <1>2
  <2>2. DbStates[height + BATCH] = end
    BY HeightIsIn DEF IInv
  <2>. QED  BY <2>1, <2>2, TableState DEF expected_pv
<1>9. /\ MinimalPublicValues_parse(committed).tip_hash = end.block_hash
      /\ MinimalPublicValues_parse(committed).return_code = <<Byte(0)>>
  BY <1>8, HostSuccessRead DEF success, MinimalPublicValues, public_claim
<1>. HIDE DEF t, end
<1>10. CASE committed = SuccessValues
  <2>. DEFINE last == After(BATCH)
  <2>1. IsState(last)
    BY <1>2, <1>7
  <2>2. committed = MinimalPublicValues_to_bytes(
                      success(public_claim(last), sha256_116bytes(continuation_bytes(last)),
                              pcs.verifier_key))
    BY <1>5, <1>10 DEF SuccessValues
  <2>3. IsClaim(public_claim(last)) /\ IsBytes(pcs.verifier_key, 32)
    BY <1>1, <2>1, ClaimIs, ThePcsSent
  <2>4. IsBytes(sha256_116bytes(continuation_bytes(last)), 32)
    BY DigestIsBytes DEF sha256_116bytes
  <2>. HIDE DEF last
  <2>5. MinimalPublicValues_parse(committed).tip_hash = public_claim(last).tip_hash
    BY <2>2, <2>3, <2>4, SuccessRead
  <2>6. last.block_hash = end.block_hash
    BY <1>9, <2>5 DEF public_claim
  <2>7. /\ AreHeaders(NewHeaders(height), BATCH)
        /\ \A i \in 1..BATCH : NewHeaders(height)[i] = Row(height + i)
    BY <1>2, TheRows
  <2>8. Walk(t, NewHeaders(height), BATCH) = end
    <3>1. IsBytes(NewHeaders(height), BATCH)
      BY <2>7 DEF AreHeaders
    <3>2. SameState(t, Table(height)) /\ IsState(t)
      BY <1>3, SameAsItself DEF t
    <3>3. BATCH \in 0..BATCH /\ BATCH > 0
      BY <1>2
    <3>. QED  BY <1>2, <2>7, <3>1, <3>2, <3>3, WalkAlong DEF end
  <2>9. Walk(t, new_headers, BATCH).block_hash = Walk(t, NewHeaders(height), BATCH).block_hash
    BY <1>3, <1>6, <2>6, <2>8 DEF last
  <2>10. new_headers = NewHeaders(height)
    BY <1>3, <1>4, <2>7, <2>9, TipSettles
  <2>. QED  BY <1>4, <2>10
<1>11. CASE \E valid \in 0 .. Len(new_headers) - 1, code \in {2, 3} :
              committed = FailureValues(valid, code)
  <2>1. PICK valid \in 0 .. BATCH - 1, code \in {2, 3} : committed = FailureValues(valid, code)
    BY <1>5, <1>11
  <2>. DEFINE last == After(valid)
              at   == HeightBytes(Height(last.height) + 1)
  <2>2. IsState(last)
    <3>1. valid \in 0..BATCH
      BY <1>2
    <3>. QED  BY <1>7, <3>1
  <2>3. committed = MinimalPublicValues_to_bytes(
                      failure(public_claim(last), code, at, sha256_116bytes(continuation_bytes(last)),
                              pcs.verifier_key))
    BY <2>1 DEF FailureValues
  <2>4. IsClaim(public_claim(last)) /\ IsBytes(pcs.verifier_key, 32)
    BY <1>1, <2>2, ClaimIs, ThePcsSent
  <2>5. IsBytes(sha256_116bytes(continuation_bytes(last)), 32) /\ IsBytes(at, 4)
    BY DigestIsBytes, SmallBytes DEF sha256_116bytes, HeightBytes
  <2>. HIDE DEF last, at
  <2>6. MinimalPublicValues_parse(committed).return_code = <<Byte(code)>>
    BY <2>3, <2>4, <2>5, FailureRead
  <2>7. Byte(code) = Byte(0)
    <3>1. <<Byte(code)>> = <<Byte(0)>>
      BY <1>9, <2>6
    <3>. QED  BY <3>1
  <2>8. code = 0
    BY <2>7, ByteDistinct
  <2>. QED  BY <2>8
<1>. QED  BY <1>10, <1>11 DEF IInv, CommittedInv

(* Equal slices, and so the changed byte is in none of them.               *)
LEMMA NotInSlice ==
  ASSUME NEW now, NEW was, NEW n, OneByte(now, was, n), IsBytes(was, n),
         NEW a \in 0..n, NEW z \in a..n, Slice(now, a, z) = Slice(was, a, z)
  PROVE  altered.at \notin (a + 1)..z
<1>. DEFINE p == altered.at
<1>1. IsBytes(now, n) /\ now[p] # was[p]
  BY DEF OneByte
<1>. HIDE DEF p
<1>2. p \in (a + 1)..z => now[p] = was[p]
  BY <1>1, ByteInSlice
<1>. QED  BY <1>1, <1>2 DEF p

(* All of a state but its header is read back alike: then all of its bytes *)
(* but the first 80 are alike.                                             *)
LEMMA StateByte ==
  ASSUME NEW now, NEW was, OneByte(now, was, 296), IsBytes(was, 296),
         SameState(State_parse(now), State_parse(was))
  PROVE  altered.at \in 1..80
<1>. DEFINE p == altered.at
<1>1. p \in 1..296
  BY DEF OneByte
<1>2. /\ Slice(now, 80, 112) = Slice(was, 80, 112) /\ Slice(now, 112, 144) = Slice(was, 112, 144)
      /\ Slice(now, 144, 148) = Slice(was, 144, 148) /\ Slice(now, 148, 152) = Slice(was, 148, 152)
      /\ Slice(now, 152, 184) = Slice(was, 152, 184) /\ Slice(now, 184, 216) = Slice(was, 184, 216)
      /\ Slice(now, 216, 248) = Slice(was, 216, 248) /\ Slice(now, 248, 252) = Slice(was, 248, 252)
  BY DEF SameState, State_parse
<1>3. \A i \in 1..11 : Slice(now, 252 + (i - 1) * 4, 252 + i * 4)
                         = Slice(was, 252 + (i - 1) * 4, 252 + i * 4)
  <2>1. \A s : \A i \in 1..11 :
          State_parse(s).timestamps[i] = Slice(s, 252 + (i - 1) * 4, 252 + i * 4)
    BY DEF State_parse, WINDOW_SIZE
  <2>2. State_parse(now).timestamps = State_parse(was).timestamps
    BY DEF SameState
  <2>. QED  BY <2>1, <2>2
<1>4. \A i \in 1..11 : p \notin (252 + (i - 1) * 4 + 1)..(252 + i * 4)
  <2>. TAKE i \in 1..11
  <2>. DEFINE a == 252 + (i - 1) * 4
              z == 252 + i * 4
  <2>1. a \in 0..296 /\ z \in a..296
    OBVIOUS
  <2>2. Slice(now, a, z) = Slice(was, a, z)
    BY <1>3
  <2>. HIDE DEF a, z
  <2>3. p \notin (a + 1)..z
    BY <2>1, <2>2, NotInSlice
  <2>. QED  BY <2>3 DEF a, z
<1>5. /\ p \notin 81..112
      /\ p \notin 113..144
  <2>1. 80 \in 0..296 /\ 112 \in 80..296
        /\ 112 \in 0..296 /\ 144 \in 112..296 /\ 80 + 1 = 81 /\ 112 + 1 = 113
    OBVIOUS
  <2>. QED  BY <1>2, <2>1, NotInSlice
<1>6. /\ p \notin 145..148
      /\ p \notin 149..152
  <2>1. 144 \in 0..296 /\ 148 \in 144..296
        /\ 148 \in 0..296 /\ 152 \in 148..296 /\ 144 + 1 = 145 /\ 148 + 1 = 149
    OBVIOUS
  <2>. QED  BY <1>2, <2>1, NotInSlice
<1>7. /\ p \notin 153..184
      /\ p \notin 185..216
  <2>1. 152 \in 0..296 /\ 184 \in 152..296
        /\ 184 \in 0..296 /\ 216 \in 184..296 /\ 152 + 1 = 153 /\ 184 + 1 = 185
    OBVIOUS
  <2>. QED  BY <1>2, <2>1, NotInSlice
<1>8. /\ p \notin 217..248
      /\ p \notin 249..252
  <2>1. 216 \in 0..296 /\ 248 \in 216..296
        /\ 248 \in 0..296 /\ 252 \in 248..296 /\ 216 + 1 = 217 /\ 248 + 1 = 249
    OBVIOUS
  <2>. QED  BY <1>2, <2>1, NotInSlice
<1>. HIDE DEF p
<1>9. p \notin 253..296
  <2>1. /\ p \notin 253..256 /\ p \notin 257..260 /\ p \notin 261..264 /\ p \notin 265..268
        /\ p \notin 269..272 /\ p \notin 273..276 /\ p \notin 277..280 /\ p \notin 281..284
        /\ p \notin 285..288 /\ p \notin 289..292 /\ p \notin 293..296
    BY <1>4
  <2>. QED  BY <1>1, <2>1
<1>. QED  BY <1>1, <1>5, <1>6, <1>7, <1>8, <1>9 DEF p

(* All of a proof carrying state but the padding is read back alike: then  *)
(* all of its bytes but the last three are alike.                          *)
LEMMA PcsByte ==
  ASSUME NEW now, NEW was, OneByte(now, was, 168), IsBytes(was, 168),
         ProofCarryingState_parse(now).claim = ProofCarryingState_parse(was).claim,
         ProofCarryingState_parse(now).verifier_key = ProofCarryingState_parse(was).verifier_key,
         ProofCarryingState_parse(now).proof.public_values_digest
           = ProofCarryingState_parse(was).proof.public_values_digest,
         ProofCarryingState_parse(now).proof.exit_code = ProofCarryingState_parse(was).proof.exit_code
  PROVE  altered.at \in 166..168
<1>. DEFINE p == altered.at
<1>1. p \in 1..168 /\ IsBytes(now, 168) /\ now[p] # was[p]
  BY DEF OneByte
<1>2. \A s : /\ ProofCarryingState_parse(s).claim = Claim_parse(Slice(s, 0, 100))
             /\ ProofCarryingState_parse(s).verifier_key = Slice(s, 100, 132)
  BY DEF ProofCarryingState_parse, CLAIM_SIZE, VK_WIRE_SIZE
<1>3. Slice(now, 100, 132) = Slice(was, 100, 132)
  BY <1>2
<1>4. Slice(now, 132, 164) = Slice(was, 132, 164) /\ now[165] = was[165]
  BY <1>1, ProofPlaces
<1>5. ASSUME NEW s, IsBytes(s, 168)
      PROVE  /\ Claim_parse(Slice(s, 0, 100)).genesis_hash = Slice(s, 0, 32)
             /\ Claim_parse(Slice(s, 0, 100)).tip_hash = Slice(s, 32, 64)
             /\ Claim_parse(Slice(s, 0, 100)).chain_work = Slice(s, 64, 96)
             /\ Claim_parse(Slice(s, 0, 100)).height = Slice(s, 96, 100)
  <2>1. /\ 0 \in 0..168 /\ 100 \in 0..168 /\ 0 \in 0..(100 - 0)
        /\ 32 \in 0..(100 - 0) /\ 64 \in 32..(100 - 0) /\ 32 \in 0..(100 - 0)
        /\ 64 \in 0..(100 - 0) /\ 96 \in 64..(100 - 0)
        /\ 96 \in 0..(100 - 0) /\ 100 \in 96..(100 - 0)
        /\ 0 + 0 = 0 /\ 0 + 32 = 32 /\ 0 + 64 = 64 /\ 0 + 96 = 96 /\ 0 + 100 = 100
    OBVIOUS
  <2>2. Slice(Slice(s, 0, 100), 0, 32) = Slice(s, 0, 32)
    BY <1>5, <2>1, SliceOfSlice
  <2>3. Slice(Slice(s, 0, 100), 32, 64) = Slice(s, 32, 64)
    BY <1>5, <2>1, SliceOfSlice
  <2>4. Slice(Slice(s, 0, 100), 64, 96) = Slice(s, 64, 96)
    BY <1>5, <2>1, SliceOfSlice
  <2>5. Slice(Slice(s, 0, 100), 96, 100) = Slice(s, 96, 100)
    BY <1>5, <2>1, SliceOfSlice
  <2>. QED  BY <2>2, <2>3, <2>4, <2>5 DEF Claim_parse
<1>6. /\ Slice(now, 0, 32) = Slice(was, 0, 32) /\ Slice(now, 32, 64) = Slice(was, 32, 64)
      /\ Slice(now, 64, 96) = Slice(was, 64, 96) /\ Slice(now, 96, 100) = Slice(was, 96, 100)
  <2>1. Claim_parse(Slice(now, 0, 100)) = Claim_parse(Slice(was, 0, 100))
    BY <1>2
  <2>. QED  BY <1>1, <1>5, <2>1
<1>7. p \notin 1..32 /\ p \notin 33..64
  <2>1. 0 \in 0..168 /\ 32 \in 0..168
        /\ 32 \in 0..168 /\ 64 \in 32..168 /\ 0 + 1 = 1 /\ 32 + 1 = 33
    OBVIOUS
  <2>. QED  BY <1>6, <2>1, NotInSlice
<1>8. p \notin 65..96 /\ p \notin 97..100
  <2>1. 64 \in 0..168 /\ 96 \in 64..168
        /\ 96 \in 0..168 /\ 100 \in 96..168 /\ 64 + 1 = 65 /\ 96 + 1 = 97
    OBVIOUS
  <2>. QED  BY <1>6, <2>1, NotInSlice
<1>9. p \notin 101..132 /\ p \notin 133..164
  <2>1. 100 \in 0..168 /\ 132 \in 100..168
        /\ 132 \in 0..168 /\ 164 \in 132..168 /\ 100 + 1 = 101 /\ 132 + 1 = 133
    OBVIOUS
  <2>. QED  BY <1>3, <1>4, <2>1, NotInSlice
<1>10. p # 165
  BY <1>1, <1>4
<1>. HIDE DEF p
<1>. QED  BY <1>1, <1>7, <1>8, <1>9, <1>10 DEF p

(* The saved proof is not altered then, and settles all that is read of the *)
(* input.                                                                  *)
LEMMA OnlyHeadersFromInvariant ==
  IInv => OnlyHeadersDecide
<1>. SUFFICES ASSUME IInv, Done, height > 0, NEW b \in {"pcs", "state"}, Here(b)
              PROVE  Unread /\ committed = expected_pv
  BY DEF OnlyHeadersDecide, Here
<1>1. Bound /\ IInv /\ Sent /\ InputParses
  BY DoneIsBound DEF Bound, InputBound
<1>2. ~Here("saved") /\ ~Here("headers")
  BY OneAltered
<1>3. /\ PriorValues = HostSuccess(Table(height))
      /\ pcs.claim = public_claim(Table(height)) /\ pcs.verifier_key = VerifierKey
      /\ SameState(state, Table(height))
  BY <1>1, <1>2, ResumesTable
<1>4. IsState(state) /\ new_headers = NewHeaders(height)
  BY <1>1, <1>2, TheStateSent, TheHeadersSent
<1>5. committed = expected_pv
  BY <1>3, <1>4, PredictedAlong
<1>6. CASE b = "state"
  <2>1. OneByte(stdin.state, Built.state, 296)
    BY <1>1, <1>6, TheStateSent DEF AsSent
  <2>2. IsBytes(Built.state, 296) /\ State_parse(Built.state) = Table(height)
    BY TheRest
  <2>3. altered.at \in 1..80
    BY <1>3, <2>1, <2>2, StateByte DEF state
  <2>. QED  BY <1>5, <1>6, <2>3 DEF Unread, Here, BLOCK_HEADER_SIZE
<1>7. CASE b = "pcs"
  <2>1. OneByte(stdin.pcs, Built.pcs, 168)
    BY <1>1, <1>7, ThePcsSent DEF AsSent
  <2>2. IsBytes(Built.pcs, 168)
    BY ThePcs
  <2>3. /\ ProofCarryingState_parse(Built.pcs).claim = public_claim(Table(height))
        /\ ProofCarryingState_parse(Built.pcs).verifier_key = VerifierKey
        /\ ProofCarryingState_parse(Built.pcs).proof = build_proof
    BY ThePcs
  <2>4. pcs.proof.public_values_digest = build_proof.public_values_digest
    BY <1>1, Verified, DigestUntouched
  <2>5. pcs.proof.exit_code = build_proof.exit_code
    <3>1. IsState(Table(height))
      BY TableState DEF IInv, TypeInv
    <3>2. IsBytes(PriorValues, 169) /\ MinimalPublicValues_parse(PriorValues).return_code = <<Byte(0)>>
      BY <1>3, <3>1, HostSuccessRead
    <3>3. PriorValues # None /\ MinimalPublicValues_parse(PriorValues).return_code[1] = Byte(0)
      BY <3>2, NotNone
    <3>4. build_proof.exit_code = Byte(0)
      BY <3>3, TheProof
    <3>. QED  BY <1>1, <3>4, Verified
  <2>6. altered.at \in 166..168
    BY <1>3, <2>1, <2>2, <2>3, <2>4, <2>5, PcsByte DEF pcs
  <2>. QED  BY <1>5, <1>7, <2>6 DEF Unread, Here
<1>. QED  BY <1>6, <1>7

-----------------------------------------------------------------------------
(* Every byte of an unaltered batch ends in the values the host predicted, *)
(* for every batch size, every number of batches, every byte a byte can    *)
(* turn into.                                                              *)
THEOREM HonestBatchesPass ==
  Spec => []HonestBatchPasses
BY BuffersAreBuiltOrAltered, HonestFromInvariant, PTL

(* Above the anchor, changing a byte of the state or of what carries the   *)
(* proof changes nothing the guest commits, or it commits nothing.         *)
THEOREM WitnessDecidesNothing ==
  Spec => []OnlyHeadersDecide
BY BuffersAreBuiltOrAltered, OnlyHeadersFromInvariant, PTL

(* No header with one byte changed is committed under the values predicted *)
(* for the header that was written.                                        *)
THEOREM HeaderBytesCount ==
  Spec => []EveryHeaderByteCounts
BY BuffersAreBuiltOrAltered, HeaderFromInvariant, PTL

(* Above the anchor, a proof only ever goes on from values that were       *)
(* proven, as a success, byte for byte.                                    *)
THEOREM ContinuesWhatWasProven ==
  Spec => []ResumesOnlyFromProof
BY BuffersAreBuiltOrAltered, ResumesFromInvariant, PTL

=============================================================================
