-------------------------- MODULE DiagnosticsProofs --------------------------
(***************************************************************************)
(* What the program tells of itself: the counters of the allocator, for    *)
(* any number of threads and blocks, and the search for the header at      *)
(* which a batch leaves the table, for batches of any length, with the     *)
(* report of it, for fields of any width.                                  *)
(*                                                                         *)
(* The counters are sums over tables, so the first part is about sums: one *)
(* entry changed changes the sum by as much.  With it LiveIsUsed is        *)
(* inductive as it stands.  That the counter is never negative needs to be *)
(* told of what it is the sum: of each block, what was counted of it       *)
(* (Counted), and a block in use is one call's or is counted (BusyInv).    *)
(*                                                                         *)
(* The report is read as it was written, byte by byte: the flags of the    *)
(* loop are the mark the line is under (MarkedTo).                         *)
(***************************************************************************)
EXTENDS AllocTracker, Divergence, FiniteSetTheorems, WellFoundedInduction, TLAPS

-----------------------------------------------------------------------------
(***************************************************************************)
(* Sums of tables.  The sum is a recursive function on the subsets of the  *)
(* index set: that there is such a function is shown by induction on their *)
(* size, what it computes by induction on the subsets themselves.          *)
(***************************************************************************)
(* Induction, with a set in place of a predicate: the numbers up to the    *)
(* first one outside it are a finite set, and smaller than any other such. *)
LEMMA SetInduction ==
  ASSUME NEW S, 0 \in S, \A n \in Nat : n \in S => n + 1 \in S
  PROVE  Nat \subseteq S
<1>. SUFFICES ASSUME NEW m \in Nat \ S PROVE FALSE
  OBVIOUS
<1>. DEFINE F == {0..n : n \in Nat \ S}
<1>1. F \subseteq FiniteSubsetsOf(Nat) /\ F # {}
  <2>1. \A n \in Nat : IsFiniteSet(0..n) /\ 0..n \subseteq Nat
    BY FS_Interval
  <2>. QED  BY <2>1 DEF FiniteSubsetsOf
<1>2. PICK X \in F : \A Y \in F : ~(<<Y, X>> \in StrictSubsetOrdering(Nat))
  BY <1>1, FS_StrictSubsetOrderingWellFounded, WFMin
<1>3. PICK n \in Nat \ S : X = 0..n
  BY <1>2
<1>4. n - 1 \in Nat \ S
  BY <1>3
<1>5. 0..(n - 1) \subseteq 0..n /\ n \in 0..n /\ ~(n \in 0..(n - 1)) /\ 0..n \subseteq Nat
  BY <1>3
<1>6. <<0..(n - 1), 0..n>> \in StrictSubsetOrdering(Nat)
  BY <1>5 DEF StrictSubsetOrdering
<1>. QED  BY <1>2, <1>3, <1>4, <1>6

\* The element a sum takes first.
First(T) == CHOOSE x \in T : TRUE

(* Induction on the subsets of a finite set, an element at a time.         *)
LEMMA SubsetInduction ==
  ASSUME NEW S, IsFiniteSet(S), NEW C, {} \in C,
         \A T \in SUBSET S : T # {} /\ T \ {First(T)} \in C => T \in C
  PROVE  SUBSET S \subseteq C
<1>. SUFFICES ASSUME NEW U \in SUBSET S, U \notin C PROVE FALSE
  OBVIOUS
<1>. DEFINE F == {T \in SUBSET S : T \notin C}
<1>1. F \subseteq FiniteSubsetsOf(S) /\ F # {}
  <2>1. \A T \in SUBSET S : IsFiniteSet(T)
    BY FS_Subset
  <2>. QED  BY <2>1 DEF FiniteSubsetsOf
<1>2. PICK T \in F : \A Y \in F : ~(<<Y, T>> \in StrictSubsetOrdering(S))
  <2>. HIDE DEF F
  <2>. QED  BY <1>1, FS_StrictSubsetOrderingWellFounded, WFMin
<1>3. T # {} /\ First(T) \in T
  BY DEF First
<1>4. T \ {First(T)} \in F
  BY <1>3
<1>5. <<T \ {First(T)}, T>> \in StrictSubsetOrdering(S)
  BY <1>3 DEF StrictSubsetOrdering
<1>. QED  BY <1>2, <1>4, <1>5

\* The sums of all subsets, as one function.
IsSums(g, f, S) ==
  g = [T \in SUBSET S |-> IF T = {} THEN 0 ELSE f[First(T)] + g[T \ {First(T)}]]

Sums(f, S) == CHOOSE g : IsSums(g, f, S)

(* There is such a function.                                               *)
LEMMA SumsExist ==
  ASSUME NEW S, IsFiniteSet(S), NEW f
  PROVE  IsSums(Sums(f, S), f, S)
<1>. DEFINE L(n) == {T \in SUBSET S : Cardinality(T) <= n}
            Step(g, T) == IF T = {} THEN 0 ELSE f[First(T)] + g[T \ {First(T)}]
            Good(g, n) == g = [T \in L(n) |-> Step(g, T)]
            N == {n \in Nat : \E g : Good(g, n)}
<1>1. \A T \in SUBSET S : /\ Cardinality(T) \in Nat /\ Cardinality(T) <= Cardinality(S)
                          /\ Cardinality(S) \in Nat
                          /\ T = {} <=> Cardinality(T) = 0
                          /\ T # {} => Cardinality(T \ {First(T)}) = Cardinality(T) - 1
  <2>1. ASSUME NEW T \in SUBSET S
        PROVE  /\ Cardinality(T) \in Nat /\ Cardinality(T) <= Cardinality(S)
               /\ Cardinality(S) \in Nat /\ IsFiniteSet(T)
    BY FS_Subset, FS_CardinalityType
  <2>2. ASSUME NEW T \in SUBSET S PROVE T = {} <=> Cardinality(T) = 0
    BY <2>1, FS_EmptySet
  <2>3. ASSUME NEW T \in SUBSET S, T # {}
        PROVE  Cardinality(T \ {First(T)}) = Cardinality(T) - 1
    <3>1. First(T) \in T
      BY <2>3 DEF First
    <3>. QED  BY <2>1, <3>1, FS_RemoveElement
  <2>. QED  BY <2>1, <2>2, <2>3
<1>2. 0 \in N
  <2>1. \A T \in L(0) : T = {}
    <3>1. ASSUME NEW T \in SUBSET S, Cardinality(T) <= 0 PROVE T = {}
      <4>1. Cardinality(T) \in Nat
        BY <1>1
      <4>2. Cardinality(T) = 0
        BY <3>1, <4>1
      <4>. QED  BY <1>1, <4>2
    <3>. QED  BY <3>1
  <2>2. Good([T \in L(0) |-> 0], 0)
    <3>. HIDE DEF L
    <3>. QED  BY <2>1
  <2>. QED  BY <2>2
<1>3. ASSUME NEW n \in Nat, n \in N PROVE n + 1 \in N
  <2>1. PICK g : Good(g, n)
    BY <1>3
  <2>. DEFINE h == [T \in L(n + 1) |-> IF T \in L(n) THEN g[T] ELSE Step(g, T)]
  <2>2. \A T \in L(n + 1) : T # {} => T \ {First(T)} \in L(n) /\ T \ {First(T)} \in L(n + 1)
    <3>1. ASSUME NEW T \in SUBSET S, Cardinality(T) <= n + 1, T # {}
          PROVE  /\ T \ {First(T)} \in SUBSET S
                 /\ Cardinality(T \ {First(T)}) <= n
                 /\ Cardinality(T \ {First(T)}) <= n + 1
      <4>. DEFINE c == Cardinality(T)
                  d == Cardinality(T \ {First(T)})
      <4>1. c \in Nat /\ d = c - 1
        BY <1>1, <3>1
      <4>2. c <= n + 1
        BY <3>1
      <4>. HIDE DEF c, d
      <4>3. d <= n /\ d <= n + 1
        BY <4>1, <4>2
      <4>. QED  BY <4>3 DEF d
    <3>. HIDE DEF First
    <3>. QED  BY <3>1
  <2>3. \A T \in L(n) : T \in L(n + 1)
    <3>1. \A c \in Nat : c <= n => c <= n + 1
      OBVIOUS
    <3>2. \A T \in SUBSET S : Cardinality(T) \in Nat
      BY <1>1
    <3>. QED  BY <3>1, <3>2
  <2>. HIDE DEF L
  <2>4. \A T \in L(n) : h[T] = g[T] /\ g[T] = Step(g, T)
    <3>1. \A T \in L(n) : h[T] = g[T]
      BY <2>3
    <3>. HIDE DEF Step, h
    <3>. QED  BY <2>1, <3>1
  <2>5. ASSUME NEW T \in L(n + 1) PROVE h[T] = Step(h, T)
    <3>1. h[T] = Step(g, T)
      <4>1. h[T] = IF T \in L(n) THEN g[T] ELSE Step(g, T)
        BY <2>5
      <4>. HIDE DEF Step, h
      <4>. QED  BY <4>1, <2>4
    <3>2. T # {} => h[T \ {First(T)}] = g[T \ {First(T)}]
      <4>. HIDE DEF h, Step
      <4>. QED  BY <2>2, <2>4
    <3>3. Step(h, T) = Step(g, T)
      <4>. HIDE DEF h
      <4>. QED  BY <3>2
    <3>. HIDE DEF h, Step
    <3>. QED  BY <3>1, <3>3
  <2>6. h = [T \in L(n + 1) |-> Step(h, T)]
    <3>1. h = [T \in L(n + 1) |-> h[T]]
      OBVIOUS
    <3>. HIDE DEF h, Step
    <3>. QED  BY <3>1, <2>5
  <2>7. Good(h, n + 1)
    <3>. HIDE DEF h, Step
    <3>. QED  BY <2>6
  <2>8. \E k : Good(k, n + 1)
    <3>. HIDE DEF h, Good
    <3>. QED  BY <2>7
  <2>. HIDE DEF Good
  <2>. QED  BY <2>8
<1>4. Cardinality(S) \in N
  <2>1. Nat \subseteq N
    <3>. HIDE DEF N
    <3>. QED  BY <1>2, <1>3, SetInduction
  <2>. QED  BY <2>1, <1>1
<1>5. L(Cardinality(S)) = SUBSET S
  BY <1>1
<1>6. \E g : g = [T \in SUBSET S |-> Step(g, T)]
  <2>1. PICK g : Good(g, Cardinality(S))
    BY <1>4
  <2>2. g = [T \in SUBSET S |-> Step(g, T)]
    <3>. HIDE DEF L, Step
    <3>. QED  BY <2>1, <1>5
  <2>. HIDE DEF Step
  <2>. QED  BY <2>2
<1>7. \E g : IsSums(g, f, S)
  BY <1>6 DEF IsSums
<1>. QED  BY <1>7 DEF Sums

(* What a sum is, and its step.                                            *)
LEMMA SumIs ==
  ASSUME NEW S, IsFiniteSet(S), NEW f
  PROVE  /\ SumOver(f, S) = Sums(f, S)[S]
         /\ Sums(f, S)[{}] = 0
         /\ \A T \in SUBSET S : T # {} =>
              Sums(f, S)[T] = f[First(T)] + Sums(f, S)[T \ {First(T)}]
<1>1. SumOver(f, S) = Sums(f, S)[S]
  BY DEF SumOver, Sums, IsSums, First
<1>. DEFINE g == Sums(f, S)
<1>2. g = [T \in SUBSET S |-> IF T = {} THEN 0 ELSE f[First(T)] + g[T \ {First(T)}]]
  BY SumsExist DEF IsSums
<1>. HIDE DEF g
<1>3. g[{}] = 0
  BY <1>2
<1>4. ASSUME NEW T \in SUBSET S, T # {} PROVE g[T] = f[First(T)] + g[T \ {First(T)}]
  BY <1>2, <1>4
<1>. QED  BY <1>1, <1>3, <1>4 DEF g

(* The sum of a table of integers is one, of numbers not negative, and of  *)
(* zeros zero.                                                             *)
LEMMA SumType ==
  ASSUME NEW S, IsFiniteSet(S), NEW f \in [S -> Int]
  PROVE  /\ SumOver(f, S) \in Int
         /\ (\A x \in S : f[x] >= 0) => SumOver(f, S) >= 0
         /\ (\A x \in S : f[x] = 0) => SumOver(f, S) = 0
<1>. DEFINE g == Sums(f, S)
            C == {T \in SUBSET S : /\ g[T] \in Int
                                   /\ (\A x \in S : f[x] >= 0) => g[T] >= 0
                                   /\ (\A x \in S : f[x] = 0) => g[T] = 0}
<1>1. /\ SumOver(f, S) = g[S] /\ g[{}] = 0
      /\ \A T \in SUBSET S : T # {} => g[T] = f[First(T)] + g[T \ {First(T)}]
  BY SumIs
<1>. HIDE DEF g
<1>2. {} \in C
  BY <1>1
<1>3. ASSUME NEW T \in SUBSET S, T # {}, T \ {First(T)} \in C PROVE T \in C
  <2>1. First(T) \in S
    BY <1>3 DEF First
  <2>. DEFINE a == f[First(T)]
              b == g[T \ {First(T)}]
  <2>2. g[T] = a + b /\ a \in Int /\ b \in Int
    BY <1>1, <1>3, <2>1
  <2>3. ASSUME \A x \in S : f[x] >= 0 PROVE a >= 0 /\ b >= 0
    BY <1>3, <2>1, <2>3
  <2>4. ASSUME \A x \in S : f[x] = 0 PROVE a = 0 /\ b = 0
    BY <1>3, <2>1, <2>4
  <2>. HIDE DEF a, b
  <2>. QED  BY <2>2, <2>3, <2>4
<1>4. S \in C
  <2>. HIDE DEF C
  <2>1. SUBSET S \subseteq C
    BY <1>2, <1>3, SubsetInduction
  <2>. QED  BY <2>1
<1>. QED  BY <1>1, <1>4

(* One entry changed changes the sum by as much.                           *)
LEMMA SumOfChanged ==
  ASSUME NEW S, IsFiniteSet(S), NEW f \in [S -> Int], NEW k \in [S -> Int], NEW j \in S,
         \A x \in S \ {j} : k[x] = f[x]
  PROVE  SumOver(k, S) = SumOver(f, S) + (k[j] - f[j])
<1>. DEFINE v == k[j]
            g == Sums(f, S)
            h == Sums(k, S)
            C == {T \in SUBSET S : /\ g[T] \in Int /\ h[T] \in Int
                                   /\ h[T] = IF j \in T THEN g[T] + (v - f[j]) ELSE g[T]}
<1>1. /\ SumOver(f, S) = g[S] /\ g[{}] = 0
      /\ \A T \in SUBSET S : T # {} => g[T] = f[First(T)] + g[T \ {First(T)}]
  BY SumIs
<1>2. /\ SumOver(k, S) = h[S] /\ h[{}] = 0
      /\ \A T \in SUBSET S : T # {} => h[T] = k[First(T)] + h[T \ {First(T)}]
  BY SumIs
<1>3. k[j] = v /\ v \in Int /\ \A x \in S : x # j => k[x] = f[x]
  OBVIOUS
<1>. HIDE DEF g, h, v
<1>4. {} \in C
  BY <1>1, <1>2
<1>5. ASSUME NEW T \in SUBSET S, T # {}, T \ {First(T)} \in C PROVE T \in C
  <2>1. First(T) \in S /\ First(T) \in T
    BY <1>5 DEF First
  <2>. DEFINE x == First(T)
              a == f[x]
              b == g[T \ {x}]
              c == h[T \ {x}]
              d == v - f[j]
  <2>2. g[T] = a + b /\ a \in Int /\ b \in Int /\ h[T] = k[x] + c /\ c \in Int /\ d \in Int
    <3>1. f[j] \in Int /\ a \in Int /\ d \in Int
      BY <1>3, <2>1
    <3>. HIDE DEF d
    <3>. QED  BY <1>1, <1>2, <1>5, <2>1, <3>1
  <2>3. CASE x = j
    <3>1. c = b /\ k[x] = v /\ a = f[j]
      BY <1>3, <1>5, <2>1, <2>3
    <3>2. h[T] = g[T] + d /\ g[T] \in Int /\ h[T] \in Int
      <4>1. v \in Int /\ a \in Int
        BY <1>3, <2>2
      <4>2. h[T] = v + b /\ d = v - a
        BY <2>2, <3>1
      <4>. HIDE DEF a, b, c, d
      <4>. QED  BY <2>2, <4>1, <4>2
    <3>3. j \in T
      BY <2>1, <2>3
    <3>. QED  BY <3>2, <3>3
  <2>4. CASE x # j
    <3>1. k[x] = a
      BY <1>3, <2>1, <2>4
    <3>2. c = IF j \in T THEN b + d ELSE b
      BY <1>5, <2>1, <2>4
    <3>3. h[T] = IF j \in T THEN g[T] + d ELSE g[T]
      <4>. HIDE DEF a, b, c, d, x
      <4>. QED  BY <2>2, <3>1, <3>2
    <3>4. g[T] \in Int /\ h[T] \in Int
      <4>. HIDE DEF a, b, c, d, x
      <4>. QED  BY <2>2, <3>1
    <3>. QED  BY <3>3, <3>4
  <2>. QED  BY <2>3, <2>4
<1>6. S \in C
  <2>. HIDE DEF C
  <2>1. SUBSET S \subseteq C
    BY <1>4, <1>5, SubsetInduction
  <2>. QED  BY <2>1
<1>7. h[S] = g[S] + (v - f[j])
  BY <1>6
<1>. QED  BY <1>1, <1>2, <1>7 DEF v

-----------------------------------------------------------------------------
(***************************************************************************)
(* The tracker.                                                            *)
(***************************************************************************)
TypeInv ==
  /\ live_bytes \in Int /\ peak_bytes \in Int /\ highest \in Int
  /\ used \in [Blocks -> Nat]
  /\ call \in [Threads -> Calls \cup {Idle}]
  \* a call that does not raise the peak is a release
  /\ \A t \in Threads : call[t] # Idle /\ call[t].op = "live" /\ ~call[t].peak => call[t].n <= 0

(* What a thread is left with after each step of a call.                   *)
LEMMA CallsAre ==
  /\ \A b \in Blocks, n \in Int, p \in BOOLEAN :
       /\ Delta(b, n, p) \in Calls /\ Delta(b, n, p) # Idle
       /\ Delta(b, n, p).op = "live" /\ Delta(b, n, p).block = b
       /\ Delta(b, n, p).n = n /\ Delta(b, n, p).peak = p
  /\ \A b \in Blocks, n \in Int :
       /\ Reach(b, n) \in Calls /\ Reach(b, n) # Idle
       /\ Reach(b, n).op = "peak" /\ Reach(b, n).block = b /\ Reach(b, n).n = n
  /\ \A c \in Calls : /\ c.op \in {"live", "peak"} /\ c.block \in Blocks
                      /\ c.n \in Int /\ c.peak \in BOOLEAN
<1>1. ASSUME NEW b \in Blocks, NEW n \in Int, NEW p \in BOOLEAN
      PROVE  /\ Delta(b, n, p) \in Calls /\ Delta(b, n, p) # Idle
             /\ Delta(b, n, p).op = "live" /\ Delta(b, n, p).block = b
             /\ Delta(b, n, p).n = n /\ Delta(b, n, p).peak = p
  <2>1. Delta(b, n, p) \in Calls
    BY DEF Delta, Calls
  <2>2. Delta(b, n, p) # Idle
    BY <2>1, TrackerAssumption
  <2>. QED  BY <2>1, <2>2 DEF Delta
<1>2. ASSUME NEW b \in Blocks, NEW n \in Int
      PROVE  /\ Reach(b, n) \in Calls /\ Reach(b, n) # Idle
             /\ Reach(b, n).op = "peak" /\ Reach(b, n).block = b /\ Reach(b, n).n = n
  <2>1. Reach(b, n) \in Calls
    BY DEF Reach, Calls
  <2>2. Reach(b, n) # Idle
    BY <2>1, TrackerAssumption
  <2>. QED  BY <2>1, <2>2 DEF Reach
<1>3. \A c \in Calls : /\ c.op \in {"live", "peak"} /\ c.block \in Blocks
                        /\ c.n \in Int /\ c.peak \in BOOLEAN
  BY DEF Calls
<1>. QED  BY <1>1, <1>2, <1>3

(* The larger of two numbers.                                              *)
LEMMA MaxOfTwo ==
  ASSUME NEW a \in Int, NEW b \in Int
  PROVE  /\ Max({a, b}) \in {a, b} /\ Max({a, b}) \in Int
         /\ a <= Max({a, b}) /\ b <= Max({a, b})
<1>1. \E x \in {a, b} : \A y \in {a, b} : x >= y
  BY a <= b \/ b <= a
<1>2. Max({a, b}) \in {a, b} /\ \A y \in {a, b} : Max({a, b}) >= y
  BY <1>1 DEF Max
<1>3. Max({a, b}) \in Int
  BY <1>2
<1>. QED  BY <1>2, <1>3

(* A call of the allocator that leaves a thread with a delta to count: the *)
(* step of all three.                                                      *)
Entered(t, b, size, peak) ==
  /\ call[t] = Idle /\ b \notin busy
  /\ used' = [used EXCEPT ![b] = size]
  /\ busy' = IF peak THEN busy \cup {b} ELSE busy
  /\ call' = [call EXCEPT ![t] = Delta(b, size - used[b], peak)]
  /\ UNCHANGED <<live_bytes, peak_bytes, highest>>

LEMMA StepsAre ==
  ASSUME TypeInv, [TrackerNext]_trackerVars
  PROVE  \/ \E t \in Threads, b \in Blocks, size \in Nat, peak \in BOOLEAN :
              Entered(t, b, size, peak) /\ (~peak => size = 0)
         \/ \E t \in Threads : CountLive(t) \/ RaisePeak(t)
         \/ UNCHANGED trackerVars
<1>1. ASSUME NEW t \in Threads, NEW b \in Blocks, NEW size \in Sizes, Alloc(t, b, size)
      PROVE  Entered(t, b, size, TRUE) /\ size \in Nat
  <2>1. size \in Nat /\ size - used[b] = size
    BY <1>1, TrackerAssumption DEF Alloc
  <2>. QED  BY <1>1, <2>1 DEF Alloc, Entered
<1>2. ASSUME NEW t \in Threads, NEW b \in Blocks, NEW size \in Sizes, Realloc(t, b, size)
      PROVE  Entered(t, b, size, TRUE) /\ size \in Nat
  BY <1>2, TrackerAssumption DEF Realloc, Entered
<1>3. ASSUME NEW t \in Threads, NEW b \in Blocks, Dealloc(t, b)
      PROVE  Entered(t, b, 0, FALSE)
  <2>1. 0 - used[b] = -used[b]
    BY DEF TypeInv
  <2>. QED  BY <1>3, <2>1 DEF Dealloc, Entered
<1>. QED  BY <1>1, <1>2, <1>3 DEF TrackerNext

(* Every step keeps the types.                                             *)
LEMMA NextType ==
  ASSUME TypeInv, [TrackerNext]_trackerVars
  PROVE  TypeInv'
<1>1. ASSUME NEW t \in Threads, NEW b \in Blocks, NEW size \in Nat, NEW peak \in BOOLEAN,
             Entered(t, b, size, peak), ~peak => size = 0
      PROVE  TypeInv'
  <2>. DEFINE n == size - used[b]
              c == Delta(b, n, peak)
  <2>1. n \in Int /\ (size = 0 => n <= 0)
    BY DEF TypeInv
  <2>. HIDE DEF n
  <2>2. /\ c \in Calls /\ c # Idle /\ c.n = n /\ c.peak = peak
    BY <2>1, CallsAre
  <2>3. call' = [call EXCEPT ![t] = c] /\ used' = [used EXCEPT ![b] = size]
        /\ UNCHANGED <<live_bytes, peak_bytes, highest>>
    BY <1>1 DEF Entered, n
  <2>. HIDE DEF c
  <2>4. used' \in [Blocks -> Nat] /\ call' \in [Threads -> Calls \cup {Idle}]
    BY <2>2, <2>3 DEF TypeInv
  <2>5. ASSUME NEW u \in Threads, call'[u] # Idle, call'[u].op = "live", ~call'[u].peak
        PROVE  call'[u].n <= 0
    <3>1. CASE u = t
      <4>1. call'[u] = c
        BY <2>3, <3>1 DEF TypeInv
      <4>. QED  BY <1>1, <2>1, <2>2, <2>5, <4>1
    <3>2. CASE u # t
      <4>1. call'[u] = call[u]
        BY <2>3, <3>2 DEF TypeInv
      <4>. QED  BY <2>5, <4>1 DEF TypeInv
    <3>. QED  BY <3>1, <3>2
  <2>. QED  BY <2>3, <2>4, <2>5 DEF TypeInv
<1>2. ASSUME NEW t \in Threads, CountLive(t) PROVE TypeInv'
  <2>. DEFINE m == live_bytes + call[t].n
              c == IF call[t].peak THEN Reach(call[t].block, m) ELSE Idle
  <2>1. call[t] \in Calls /\ live_bytes' = m /\ highest' = Max({highest, m})
        /\ call' = [call EXCEPT ![t] = c] /\ UNCHANGED <<peak_bytes, used>>
    BY <1>2 DEF CountLive, TypeInv
  <2>2. m \in Int /\ call[t].block \in Blocks
    BY <2>1, CallsAre DEF TypeInv
  <2>. HIDE DEF m
  <2>3. c \in Calls \cup {Idle} /\ (c # Idle => c.op = "peak")
    BY <2>2, CallsAre
  <2>. HIDE DEF c
  <2>4. highest' \in Int
    BY <2>1, <2>2, MaxOfTwo DEF TypeInv
  <2>5. call' \in [Threads -> Calls \cup {Idle}]
    BY <2>1, <2>3 DEF TypeInv
  <2>6. ASSUME NEW u \in Threads, call'[u] # Idle, call'[u].op = "live", ~call'[u].peak
        PROVE  call'[u].n <= 0
    <3>1. u # t
      BY <2>1, <2>3, <2>6 DEF TypeInv
    <3>2. call'[u] = call[u]
      BY <2>1, <3>1 DEF TypeInv
    <3>. QED  BY <2>6, <3>2 DEF TypeInv
  <2>. QED  BY <2>1, <2>2, <2>4, <2>5, <2>6 DEF TypeInv
<1>3. ASSUME NEW t \in Threads, RaisePeak(t) PROVE TypeInv'
  <2>1. /\ call[t] \in Calls /\ peak_bytes' = Max({peak_bytes, call[t].n})
        /\ call' = [call EXCEPT ![t] = Idle] /\ UNCHANGED <<live_bytes, used, highest>>
    BY <1>3 DEF RaisePeak, TypeInv
  <2>2. peak_bytes' \in Int
    BY <2>1, CallsAre, MaxOfTwo DEF TypeInv
  <2>3. call' \in [Threads -> Calls \cup {Idle}]
    BY <2>1 DEF TypeInv
  <2>4. \A u \in Threads : call'[u] # Idle => call'[u] = call[u]
    BY <2>1 DEF TypeInv
  <2>. QED  BY <2>1, <2>2, <2>3, <2>4 DEF TypeInv
<1>4. CASE UNCHANGED trackerVars
  BY <1>4 DEF trackerVars, TypeInv
<1>. QED  BY <1>1, <1>2, <1>3, <1>4, StepsAre

(* What threads have still to count, after a call's first step and after   *)
(* each of the others.                                                     *)
LEMMA UncountedStep ==
  ASSUME TypeInv, NEW t \in Threads, NEW c \in Calls \cup {Idle},
         call' = [call EXCEPT ![t] = c]
  PROVE  /\ Uncounted \in [Threads -> Int]
         /\ Uncounted' = [Uncounted EXCEPT ![t] =
                            IF c # Idle /\ c.op = "live" THEN c.n ELSE 0]
<1>1. \A u \in Threads : call[u] \in Calls \cup {Idle}
  BY DEF TypeInv
<1>2. \A d \in Calls : d.n \in Int
  BY CallsAre
<1>3. Uncounted \in [Threads -> Int]
  BY <1>1, <1>2 DEF Uncounted, Pending
<1>4. \A u \in Threads : call'[u] = IF u = t THEN c ELSE call[u]
  BY DEF TypeInv
<1>5. Uncounted' = [u \in Threads |-> IF u = t THEN IF c # Idle /\ c.op = "live" THEN c.n ELSE 0
                                      ELSE Uncounted[u]]
  BY <1>4 DEF Uncounted, Pending
<1>. QED  BY <1>3, <1>5

-----------------------------------------------------------------------------
(* Before the first call every sum is over zeros.                          *)
LEMMA InitType ==
  ASSUME TrackerInit
  PROVE  /\ TypeInv
         /\ SumOver(Uncounted, Threads) = 0
         /\ UsedBytes = 0
<1>1. TypeInv
  BY DEF TrackerInit, TypeInv
<1>2. Uncounted \in [Threads -> Int] /\ \A t \in Threads : Uncounted[t] = 0
  BY DEF TrackerInit, Uncounted, Pending
<1>3. used \in [Blocks -> Int] /\ \A b \in Blocks : used[b] = 0
  BY DEF TrackerInit
<1>. QED  BY <1>1, <1>2, <1>3, SumType, TrackerAssumption DEF UsedBytes

(* The state a step leaves behind for its thread, with the facts about the *)
(* counters the sums need.                                                 *)
LEMMA NextLive ==
  ASSUME TypeInv, LiveIsUsed, [TrackerNext]_trackerVars
  PROVE  LiveIsUsed'
<1>. DEFINE S == SumOver(Uncounted, Threads)
<1>1. S \in Int /\ UsedBytes \in Int /\ live_bytes \in Int
  <2>1. Uncounted \in [Threads -> Int]
    <3>1. \A t \in Threads : call[t] \in Calls \cup {Idle}
      BY DEF TypeInv
    <3>. QED  BY <3>1, CallsAre DEF Uncounted, Pending
  <2>2. used \in [Blocks -> Int]
    BY DEF TypeInv
  <2>. QED  BY <2>1, <2>2, SumType, TrackerAssumption DEF UsedBytes, TypeInv
<1>2. live_bytes + S = UsedBytes
  BY DEF LiveIsUsed
<1>3. ASSUME NEW t \in Threads, NEW b \in Blocks, NEW size \in Nat, NEW peak \in BOOLEAN,
             Entered(t, b, size, peak)
      PROVE  LiveIsUsed'
  <2>. DEFINE n == size - used[b]
              c == Delta(b, n, peak)
  <2>1. n \in Int /\ used \in [Blocks -> Int]
    BY DEF TypeInv
  <2>2. UsedBytes' = UsedBytes + n
    <3>1. /\ used' \in [Blocks -> Int] /\ used'[b] = size
          /\ \A x \in Blocks \ {b} : used'[x] = used[x]
      BY <2>1, <1>3 DEF Entered
    <3>2. SumOver(used', Blocks) = SumOver(used, Blocks) + (used'[b] - used[b])
      BY <2>1, <3>1, SumOfChanged, TrackerAssumption
    <3>. QED  BY <3>1, <3>2 DEF UsedBytes
  <2>3. call' = [call EXCEPT ![t] = c] /\ live_bytes' = live_bytes /\ call[t] = Idle
    BY <1>3 DEF Entered
  <2>. HIDE DEF n
  <2>4. c \in Calls /\ c # Idle /\ c.op = "live" /\ c.n = n
    BY <2>1, CallsAre
  <2>. HIDE DEF c
  <2>5. Uncounted \in [Threads -> Int] /\ Uncounted' = [Uncounted EXCEPT ![t] = n]
    BY <2>3, <2>4, UncountedStep
  <2>6. Uncounted[t] = 0
    BY <2>3 DEF Uncounted, Pending
  <2>7. SumOver(Uncounted, Threads)' = S + (n - 0)
    <3>1. /\ Uncounted' \in [Threads -> Int] /\ Uncounted'[t] = n
          /\ \A u \in Threads \ {t} : Uncounted'[u] = Uncounted[u]
      BY <2>1, <2>5
    <3>2. SumOver(Uncounted', Threads) = S + (Uncounted'[t] - Uncounted[t])
      <4>. DEFINE f == Uncounted
                  k == Uncounted'
      <4>1. f \in [Threads -> Int] /\ k \in [Threads -> Int]
            /\ \A u \in Threads \ {t} : k[u] = f[u]
        BY <2>5, <3>1
      <4>. HIDE DEF f, k
      <4>2. SumOver(k, Threads) = SumOver(f, Threads) + (k[t] - f[t])
        BY <4>1, SumOfChanged, TrackerAssumption
      <4>. QED  BY <4>2 DEF f, k
    <3>. QED  BY <2>6, <3>1, <3>2
  <2>. HIDE DEF S
  <2>8. live_bytes + (S + (n - 0)) = UsedBytes + n
    BY <1>1, <1>2, <2>1
  <2>. QED  BY <2>2, <2>3, <2>7, <2>8 DEF LiveIsUsed
<1>4. ASSUME NEW t \in Threads, CountLive(t) PROVE LiveIsUsed'
  <2>. DEFINE m == live_bytes + call[t].n
              n == call[t].n
              c == IF call[t].peak THEN Reach(call[t].block, m) ELSE Idle
  <2>1. /\ call[t] \in Calls /\ call[t] # Idle /\ call[t].op = "live" /\ live_bytes' = m
        /\ call' = [call EXCEPT ![t] = c] /\ used' = used
    BY <1>4 DEF CountLive, TypeInv
  <2>2. m \in Int /\ n \in Int /\ call[t].block \in Blocks
    BY <2>1, CallsAre DEF TypeInv
  <2>3. m = live_bytes + n
    OBVIOUS
  <2>. HIDE DEF m
  <2>4. c \in Calls \cup {Idle} /\ ~(c # Idle /\ c.op = "live")
    BY <2>2, CallsAre
  <2>. HIDE DEF c
  <2>5. Uncounted \in [Threads -> Int] /\ Uncounted' = [Uncounted EXCEPT ![t] = 0]
    BY <2>1, <2>4, UncountedStep
  <2>6. Uncounted[t] = n
    BY <2>1 DEF Uncounted, Pending
  <2>7. SumOver(Uncounted, Threads)' = S + (0 - n)
    <3>1. /\ Uncounted' \in [Threads -> Int] /\ Uncounted'[t] = 0
          /\ \A u \in Threads \ {t} : Uncounted'[u] = Uncounted[u]
      BY <2>5
    <3>2. SumOver(Uncounted', Threads) = S + (Uncounted'[t] - Uncounted[t])
      <4>. DEFINE f == Uncounted
                  k == Uncounted'
      <4>1. f \in [Threads -> Int] /\ k \in [Threads -> Int]
            /\ \A u \in Threads \ {t} : k[u] = f[u]
        BY <2>5, <3>1
      <4>. HIDE DEF f, k
      <4>2. SumOver(k, Threads) = SumOver(f, Threads) + (k[t] - f[t])
        BY <4>1, SumOfChanged, TrackerAssumption
      <4>. QED  BY <4>2 DEF f, k
    <3>. QED  BY <2>6, <3>1, <3>2
  <2>8. UsedBytes' = UsedBytes
    BY <2>1 DEF UsedBytes
  <2>. HIDE DEF S, n
  <2>9. m + (S + (0 - n)) = UsedBytes
    BY <1>1, <1>2, <2>2, <2>3
  <2>. QED  BY <2>1, <2>7, <2>8, <2>9 DEF LiveIsUsed
<1>5. ASSUME NEW t \in Threads, RaisePeak(t) PROVE LiveIsUsed'
  <2>1. /\ call[t].op = "peak" /\ call' = [call EXCEPT ![t] = Idle]
        /\ live_bytes' = live_bytes /\ used' = used
    BY <1>5 DEF RaisePeak
  <2>2. Uncounted \in [Threads -> Int] /\ Uncounted' = [Uncounted EXCEPT ![t] = 0]
    BY <2>1, UncountedStep
  <2>3. Uncounted[t] = 0
    BY <2>1 DEF Uncounted, Pending
  <2>4. Uncounted' = Uncounted
    BY <2>2, <2>3
  <2>. QED  BY <2>1, <2>4 DEF LiveIsUsed, UsedBytes
<1>6. CASE UNCHANGED trackerVars
  BY <1>6 DEF trackerVars, LiveIsUsed, UsedBytes, Uncounted, Pending
<1>. QED  BY <1>3, <1>4, <1>5, <1>6, StepsAre

(* Whatever the interleaving, the live counter differs from the bytes in   *)
(* use by what the calls in progress have still to count (record_alloc,    *)
(* record_dealloc, record_realloc): any number of threads and blocks.      *)
THEOREM LiveCounterIsExact == TrackerSpec => []LiveIsUsed
<1>1. TrackerInit => TypeInv /\ LiveIsUsed
  BY InitType DEF TrackerInit, LiveIsUsed
<1>2. TypeInv /\ LiveIsUsed /\ [TrackerNext]_trackerVars => (TypeInv /\ LiveIsUsed)'
  BY NextType, NextLive
<1>. QED  BY <1>1, <1>2, PTL DEF TrackerSpec

-----------------------------------------------------------------------------
(* The highest value is reached by the peak or by a call that has still to *)
(* raise it, and nothing is above it.                                      *)
PeakInv ==
  /\ live_bytes <= highest /\ peak_bytes <= highest
  /\ \A t \in Pending("peak") : call[t].n <= highest
  /\ highest = peak_bytes \/ \E t \in Pending("peak") : call[t].n = highest

LEMMA NextPeak ==
  ASSUME TypeInv, PeakInv, [TrackerNext]_trackerVars
  PROVE  PeakInv'
<1>1. ASSUME NEW t \in Threads, NEW b \in Blocks, NEW size \in Nat, NEW peak \in BOOLEAN,
             Entered(t, b, size, peak)
      PROVE  PeakInv'
  <2>. DEFINE c == Delta(b, size - used[b], peak)
  <2>1. c.op = "live"
    BY DEF Delta
  <2>2. /\ call[t] = Idle /\ call' = [call EXCEPT ![t] = c]
        /\ UNCHANGED <<live_bytes, peak_bytes, highest>>
    BY <1>1 DEF Entered
  <2>. HIDE DEF c
  <2>3. \A u \in Threads : u # t => call'[u] = call[u]
    BY <2>2 DEF TypeInv
  <2>4. call'[t] = c
    BY <2>2 DEF TypeInv
  <2>5. /\ Pending("peak")' = Pending("peak")
        /\ \A u \in Pending("peak") : call'[u] = call[u]
    BY <2>1, <2>2, <2>3, <2>4 DEF Pending
  <2>. QED  BY <2>2, <2>5 DEF PeakInv
<1>2. ASSUME NEW t \in Threads, CountLive(t) PROVE PeakInv'
  <2>. DEFINE m == live_bytes + call[t].n
              c == IF call[t].peak THEN Reach(call[t].block, m) ELSE Idle
  <2>1. /\ call[t] \in Calls /\ call[t] # Idle /\ call[t].op = "live"
        /\ live_bytes' = m /\ highest' = Max({highest, m}) /\ peak_bytes' = peak_bytes
        /\ call' = [call EXCEPT ![t] = c]
    BY <1>2 DEF CountLive, TypeInv
  <2>2. call[t].n \in Int /\ call[t].block \in Blocks /\ call[t].peak \in BOOLEAN
    BY <2>1, CallsAre
  <2>3. m \in Int /\ (~call[t].peak => m <= live_bytes)
    BY <2>1, <2>2 DEF TypeInv
  <2>. HIDE DEF m
  <2>4. highest' \in {highest, m} /\ highest <= highest' /\ m <= highest' /\ highest' \in Int
    BY <2>1, <2>3, MaxOfTwo DEF TypeInv
  <2>5. \A u \in Threads : u # t => call'[u] = call[u]
    BY <2>1 DEF TypeInv
  <2>6. call'[t] = c
    BY <2>1 DEF TypeInv
  <2>7. \A u \in Pending("peak") : u # t /\ u \in Pending("peak")' /\ call'[u] = call[u]
                                   /\ call[u].n \in Int
    <3>1. \A u \in Pending("peak") : call[u] \in Calls
      BY DEF Pending, TypeInv
    <3>2. \A u \in Pending("peak") : u # t
      BY <2>1 DEF Pending
    <3>. QED  BY <3>1, <3>2, <2>5, CallsAre DEF Pending
  <2>8. live_bytes' <= highest' /\ peak_bytes' <= highest'
    BY <2>1, <2>3, <2>4 DEF PeakInv, TypeInv
  <2>9. CASE call[t].peak
    <3>1. c # Idle /\ c.op = "peak" /\ c.n = m
      BY <2>2, <2>3, <2>9, CallsAre
    <3>. HIDE DEF c
    <3>2. t \in Pending("peak")' /\ call'[t].n = m
      BY <2>6, <3>1 DEF Pending
    <3>3. Pending("peak")' = Pending("peak") \cup {t}
      BY <3>2, <2>5, <2>7 DEF Pending
    <3>4. \A u \in Pending("peak")' : call'[u].n <= highest'
      BY <3>2, <3>3, <2>4, <2>7 DEF PeakInv, TypeInv
    <3>5. highest' = peak_bytes' \/ \E u \in Pending("peak")' : call'[u].n = highest'
      BY <3>2, <2>1, <2>4, <2>7 DEF PeakInv
    <3>. QED  BY <2>8, <3>4, <3>5 DEF PeakInv
  <2>10. CASE ~call[t].peak
    <3>1. c = Idle
      BY <2>10
    <3>2. Pending("peak")' = Pending("peak")
      BY <3>1, <2>5, <2>6, <2>7 DEF Pending
    <3>3. m <= highest
      BY <2>3, <2>10 DEF PeakInv, TypeInv
    <3>4. highest' = highest
      BY <2>3, <2>4, <3>3 DEF TypeInv
    <3>. QED  BY <2>1, <2>8, <2>7, <3>2, <3>4 DEF PeakInv
  <2>. QED  BY <2>9, <2>10
<1>3. ASSUME NEW t \in Threads, RaisePeak(t) PROVE PeakInv'
  <2>1. /\ call[t] \in Calls /\ call[t] # Idle /\ call[t].op = "peak"
        /\ peak_bytes' = Max({peak_bytes, call[t].n})
        /\ call' = [call EXCEPT ![t] = Idle] /\ UNCHANGED <<live_bytes, highest>>
    BY <1>3 DEF RaisePeak, TypeInv
  <2>2. call[t].n \in Int
    BY <2>1, CallsAre
  <2>3. /\ peak_bytes' \in {peak_bytes, call[t].n}
        /\ peak_bytes <= peak_bytes' /\ call[t].n <= peak_bytes'
    BY <2>1, <2>2, MaxOfTwo DEF TypeInv
  <2>4. t \in Pending("peak")
    BY <2>1 DEF Pending
  <2>5. \A u \in Threads : call'[u] = IF u = t THEN Idle ELSE call[u]
    BY <2>1 DEF TypeInv
  <2>6. /\ Pending("peak")' = Pending("peak") \ {t}
        /\ \A u \in Pending("peak") \ {t} : call'[u] = call[u]
    BY <2>5 DEF Pending
  <2>7. peak_bytes' <= highest
    BY <2>3, <2>4 DEF PeakInv
  <2>8. highest = peak_bytes' \/ \E u \in Pending("peak") \ {t} : call[u].n = highest
    <3>1. CASE highest = peak_bytes \/ call[t].n = highest
      <4>1. highest <= peak_bytes'
        BY <2>3, <3>1
      <4>2. peak_bytes' \in Int
        BY <2>2, <2>3 DEF TypeInv
      <4>. QED  BY <2>7, <4>1, <4>2 DEF TypeInv
    <3>2. CASE ~(highest = peak_bytes \/ call[t].n = highest)
      BY <3>2 DEF PeakInv
    <3>. QED  BY <3>1, <3>2
  <2>. QED  BY <2>1, <2>6, <2>7, <2>8 DEF PeakInv
<1>4. CASE UNCHANGED trackerVars
  BY <1>4 DEF trackerVars, PeakInv, Pending
<1>. QED  BY <1>1, <1>2, <1>3, <1>4, StepsAre

(* peak_bytes is the highest value live_bytes ever had, as soon as the     *)
(* calls that reached it have returned: fetch_max loses no value, in       *)
(* whatever order the threads come to it.                                  *)
THEOREM PeakIsNeverLost == TrackerSpec => []PeakIsHighest
<1>1. TrackerInit => TypeInv /\ PeakInv
  <2>1. TrackerInit => highest = 0 /\ peak_bytes = 0 /\ live_bytes = 0 /\ Pending("peak") = {}
    BY DEF TrackerInit, Pending
  <2>. QED  BY <2>1, InitType DEF PeakInv
<1>2. TypeInv /\ PeakInv /\ [TrackerNext]_trackerVars => (TypeInv /\ PeakInv)'
  BY NextType, NextPeak
<1>3. TypeInv /\ PeakInv => PeakIsHighest
  <2>. SUFFICES ASSUME TypeInv, PeakInv PROVE PeakIsHighest
    OBVIOUS
  <2>. DEFINE V == {peak_bytes} \cup {call[t].n : t \in Pending("peak")}
  <2>1. highest \in V /\ \A x \in V : highest >= x
    BY DEF PeakInv, TypeInv
  <2>2. V \subseteq Int
    <3>1. \A t \in Pending("peak") : call[t] \in Calls
      BY DEF Pending, TypeInv
    <3>. QED  BY <3>1, CallsAre DEF TypeInv
  <2>. HIDE DEF V
  <2>3. Max(V) \in V /\ \A x \in V : Max(V) >= x
    BY <2>1 DEF Max
  <2>4. highest = Max(V)
    <3>1. \A x, y \in Int : x >= y /\ y >= x => x = y
      OBVIOUS
    <3>2. highest \in Int /\ Max(V) \in Int
      BY <2>1, <2>2, <2>3
    <3>. QED  BY <2>1, <2>3, <3>1, <3>2
  <2>. QED  BY <2>4 DEF PeakIsHighest, V
<1>. QED  BY <1>1, <1>2, <1>3, PTL DEF TrackerSpec

-----------------------------------------------------------------------------
(* What the counter holds of each block, and of each block freed and not   *)
(* yet discounted: a sum of parts none of which is negative.  A block is   *)
(* held by the one call that works on it, whose delta is what is missing.  *)
Holding(t) == call[t] # Idle /\ (call[t].op = "peak" \/ call[t].peak)

Missing(t) == IF call[t].op = "live" THEN call[t].n ELSE 0

Freed ==
  [t \in Threads |-> IF t \in Pending("live") /\ ~call[t].peak THEN -call[t].n ELSE 0]

BusyInv ==
  /\ \A t \in Threads : Holding(t) => call[t].block \in busy
  /\ \A t, u \in Threads : Holding(t) /\ Holding(u) /\ t # u => call[t].block # call[u].block

Counted(counted) ==
  /\ live_bytes = SumOver(counted, Blocks) + SumOver(Freed, Threads)
  /\ \A b \in Blocks \ busy : counted[b] = used[b]
  /\ \A t \in Threads : Holding(t) =>
       counted[call[t].block] = used[call[t].block] - Missing(t)

CountedInv == \E counted \in [Blocks -> Nat] : Counted(counted)

(* A step of one thread changes what that thread has freed.                *)
LEMMA FreedStep ==
  ASSUME TypeInv, NEW t \in Threads, NEW c \in Calls \cup {Idle},
         call' = [call EXCEPT ![t] = c]
  PROVE  /\ Freed \in [Threads -> Int] /\ Freed' \in [Threads -> Int]
         /\ Freed'[t] = IF c # Idle /\ c.op = "live" /\ ~c.peak THEN -c.n ELSE 0
         /\ \A u \in Threads \ {t} : Freed'[u] = Freed[u]
<1>1. \A u \in Threads : call[u] \in Calls \cup {Idle}
  BY DEF TypeInv
<1>2. \A d \in Calls : d.n \in Int /\ -d.n \in Int
  BY CallsAre
<1>3. Freed \in [Threads -> Int]
  BY <1>1, <1>2 DEF Freed, Pending
<1>4. \A u \in Threads : call'[u] = IF u = t THEN c ELSE call[u]
  BY DEF TypeInv
<1>5. \A u \in Threads : Freed'[u] = IF u = t
                           THEN IF c # Idle /\ c.op = "live" /\ ~c.peak THEN -c.n ELSE 0
                           ELSE Freed[u]
  BY <1>4 DEF Freed, Pending
<1>6. Freed' \in [Threads -> Int]
  <2>1. Freed' = [u \in Threads |-> Freed'[u]]
    BY DEF Freed
  <2>2. \A u \in Threads : Freed'[u] \in Int
    BY <1>2, <1>3, <1>5
  <2>. DEFINE k == Freed'
  <2>. HIDE DEF k
  <2>3. k = [u \in Threads |-> k[u]] /\ \A u \in Threads : k[u] \in Int
    BY <2>1, <2>2 DEF k
  <2>4. k \in [Threads -> Int]
    BY <2>3
  <2>. QED  BY <2>4 DEF k
<1>. QED  BY <1>3, <1>5, <1>6

(* What the sum of the freed blocks becomes.                               *)
LEMMA FreedSum ==
  ASSUME TypeInv, NEW t \in Threads, NEW c \in Calls \cup {Idle},
         call' = [call EXCEPT ![t] = c]
  PROVE  /\ SumOver(Freed, Threads) \in Int
         /\ SumOver(Freed, Threads)' = SumOver(Freed, Threads) + (Freed'[t] - Freed[t])
<1>. DEFINE f == Freed
            k == Freed'
<1>1. f \in [Threads -> Int] /\ k \in [Threads -> Int] /\ \A u \in Threads \ {t} : k[u] = f[u]
  BY FreedStep
<1>. HIDE DEF f, k
<1>2. SumOver(f, Threads) \in Int /\ SumOver(k, Threads) = SumOver(f, Threads) + (k[t] - f[t])
  BY <1>1, SumOfChanged, SumType, TrackerAssumption
<1>. QED  BY <1>2 DEF f, k

(* The blocks of the calls in progress stay apart.                         *)
LEMMA NextBusy ==
  ASSUME TypeInv, BusyInv, [TrackerNext]_trackerVars
  PROVE  BusyInv'
<1>1. ASSUME NEW t \in Threads, NEW b \in Blocks, NEW size \in Nat, NEW peak \in BOOLEAN,
             Entered(t, b, size, peak)
      PROVE  BusyInv'
  <2>. DEFINE c == Delta(b, size - used[b], peak)
  <2>1. c.op = "live" /\ c.block = b /\ c.peak = peak
    BY DEF Delta
  <2>2. /\ b \notin busy /\ busy' = IF peak THEN busy \cup {b} ELSE busy
        /\ call' = [call EXCEPT ![t] = c]
    BY <1>1 DEF Entered
  <2>. HIDE DEF c
  <2>3. \A u \in Threads : call'[u] = IF u = t THEN c ELSE call[u]
    BY <2>2 DEF TypeInv
  <2>4. \A u \in Threads \ {t} : Holding(u)' = Holding(u) /\ call'[u] = call[u]
    BY <2>3 DEF Holding
  <2>5. call'[t] = c /\ (Holding(t)' => peak)
    BY <2>1, <2>3 DEF Holding
  <2>6. \A u \in Threads : Holding(u)' => call'[u].block \in busy'
    BY <2>1, <2>2, <2>4, <2>5 DEF BusyInv
  <2>7. \A u \in Threads \ {t} : Holding(u)' => call'[u].block # b
    BY <2>2, <2>4 DEF BusyInv
  <2>8. ASSUME NEW u \in Threads, NEW w \in Threads, Holding(u)', Holding(w)', u # w
        PROVE  call'[u].block # call'[w].block
    BY <2>1, <2>4, <2>5, <2>7, <2>8 DEF BusyInv
  <2>. QED  BY <2>6, <2>8 DEF BusyInv
<1>2. ASSUME NEW t \in Threads, CountLive(t) PROVE BusyInv'
  <2>. DEFINE m == live_bytes'
              c == IF call[t].peak THEN Reach(call[t].block, m) ELSE Idle
  <2>1. /\ call[t] \in Calls /\ call[t] # Idle
        /\ call' = [call EXCEPT ![t] = c] /\ busy' = busy
    BY <1>2 DEF CountLive, TypeInv
  <2>2. call[t].peak => c.block = call[t].block
    BY DEF Reach
  <2>3. ~call[t].peak => c = Idle
    OBVIOUS
  <2>. HIDE DEF c
  <2>4. \A u \in Threads : call'[u] = IF u = t THEN c ELSE call[u]
    BY <2>1 DEF TypeInv
  <2>5. \A u \in Threads \ {t} : Holding(u)' = Holding(u) /\ call'[u] = call[u]
    BY <2>4 DEF Holding
  <2>6. call'[t] = c
    BY <2>4
  <2>7. Holding(t)' => Holding(t) /\ call'[t].block = call[t].block
    BY <2>1, <2>2, <2>3, <2>6 DEF Holding
  <2>8. \A u \in Threads : Holding(u)' => Holding(u) /\ call'[u].block = call[u].block
    BY <2>5, <2>7
  <2>. QED  BY <2>1, <2>8 DEF BusyInv
<1>3. ASSUME NEW t \in Threads, RaisePeak(t) PROVE BusyInv'
  <2>1. /\ call[t] # Idle /\ call[t].op = "peak" /\ busy' = busy \ {call[t].block}
        /\ call' = [call EXCEPT ![t] = Idle]
    BY <1>3 DEF RaisePeak
  <2>2. \A u \in Threads : call'[u] = IF u = t THEN Idle ELSE call[u]
    BY <2>1 DEF TypeInv
  <2>3. Holding(t)
    BY <2>1 DEF Holding
  <2>4. \A u \in Threads : Holding(u)' => u # t /\ Holding(u) /\ call'[u] = call[u]
    BY <2>2 DEF Holding
  <2>. QED  BY <2>1, <2>3, <2>4 DEF BusyInv
<1>4. CASE UNCHANGED trackerVars
  BY <1>4 DEF trackerVars, BusyInv, Holding
<1>. QED  BY <1>1, <1>2, <1>3, <1>4, StepsAre

-----------------------------------------------------------------------------
(* A call that works on its block leaves the other calls' parts alone.     *)
LEMMA NextCounted ==
  ASSUME TypeInv, BusyInv, CountedInv, [TrackerNext]_trackerVars
  PROVE  CountedInv'
<1>. DEFINE F == SumOver(Freed, Threads)
<1>1. PICK counted \in [Blocks -> Nat] : Counted(counted)
  BY DEF CountedInv
<1>. DEFINE C == SumOver(counted, Blocks)
<1>2. C \in Int /\ live_bytes = C + F
  <2>1. counted \in [Blocks -> Int]
    OBVIOUS
  <2>. QED  BY <1>1, <2>1, SumType, TrackerAssumption DEF Counted
<1>3. ASSUME NEW t \in Threads, NEW b \in Blocks, NEW size \in Nat, NEW peak \in BOOLEAN,
             Entered(t, b, size, peak), ~peak => size = 0
      PROVE  CountedInv'
  <2>. DEFINE n == size - used[b]
              c == Delta(b, n, peak)
  <2>1. n \in Int /\ used[b] \in Nat
    BY DEF TypeInv
  <2>2. size - n = used[b] /\ (size = 0 => -n = used[b])
    BY <2>1
  <2>3. /\ call[t] = Idle /\ b \notin busy /\ call' = [call EXCEPT ![t] = c]
        /\ busy' = IF peak THEN busy \cup {b} ELSE busy
        /\ live_bytes' = live_bytes
    BY <1>3 DEF Entered
  <2>4. \A x \in Blocks : used'[x] = IF x = b THEN size ELSE used[x]
    <3>1. used' = [used EXCEPT ![b] = size] /\ used \in [Blocks -> Nat]
      BY <1>3 DEF Entered, TypeInv
    <3>. QED  BY <3>1
  <2>. HIDE DEF n
  <2>5. c \in Calls /\ c # Idle /\ c.op = "live" /\ c.block = b /\ c.n = n /\ c.peak = peak
    <3>1. c \in Calls /\ c # Idle
      BY <2>1, CallsAre
    <3>2. c.op = "live" /\ c.block = b /\ c.n = n /\ c.peak = peak
      BY DEF Delta
    <3>. QED  BY <3>1, <3>2
  <2>. HIDE DEF c
  <2>6. \A u \in Threads : call'[u] = IF u = t THEN c ELSE call[u]
    BY <2>3 DEF TypeInv
  <2>7. Freed[t] = 0
    BY <2>3 DEF Freed, Pending
  <2>8. counted[b] = used[b]
    BY <1>1, <2>3 DEF Counted
  <2>9. \A u \in Threads \ {t} : Holding(u)' => /\ Holding(u) /\ call'[u] = call[u]
                                               /\ call[u].block \in busy
                                               /\ call[u].block # b
                                               /\ call[u].block \in Blocks
    <3>1. \A u \in Threads \ {t} : Holding(u)' => Holding(u) /\ call'[u] = call[u]
      BY <2>6 DEF Holding
    <3>2. \A u \in Threads : Holding(u) => call[u].block \in busy /\ call[u].block \in Blocks
      <4>1. \A u \in Threads : Holding(u) => call[u] \in Calls
        BY DEF Holding, TypeInv
      <4>. QED  BY <4>1, CallsAre DEF BusyInv
    <3>. QED  BY <2>3, <3>1, <3>2
  <2>10. CASE peak
    <3>1. Freed'[t] = 0
      BY <2>3, <2>5, <2>10, FreedStep
    <3>2. SumOver(Freed, Threads)' = F
      <4>1. F \in Int /\ SumOver(Freed, Threads)' = F + (0 - 0)
        BY <2>3, <2>5, <2>7, <3>1, FreedSum
      <4>. HIDE DEF F
      <4>. QED  BY <4>1
    <3>3. live_bytes' = C + SumOver(Freed, Threads)'
      BY <1>2, <2>3, <3>2
    <3>4. \A x \in Blocks \ busy' : counted[x] = used'[x]
      BY <1>1, <2>3, <2>4, <2>10 DEF Counted
    <3>5. ASSUME NEW u \in Threads, Holding(u)'
          PROVE  counted[call'[u].block] = used'[call'[u].block] - Missing(u)'
      <4>1. CASE u = t
        <5>1. call'[u].block = b /\ Missing(u)' = n
          BY <2>5, <2>6, <4>1 DEF Missing
        <5>. QED  BY <2>2, <2>4, <2>8, <5>1
      <4>2. CASE u # t
        <5>1. /\ Holding(u) /\ call'[u] = call[u] /\ Missing(u)' = Missing(u)
              /\ used'[call[u].block] = used[call[u].block]
          BY <2>4, <2>9, <3>5, <4>2 DEF Missing
        <5>. QED  BY <1>1, <5>1 DEF Counted
      <4>. QED  BY <4>1, <4>2
    <3>6. Counted(counted)'
      BY <3>3, <3>4, <3>5 DEF Counted
    <3>. QED  BY <3>6 DEF CountedInv
  <2>11. CASE ~peak
    <3>. DEFINE k == [counted EXCEPT ![b] = 0]
    <3>1. k \in [Blocks -> Nat] /\ k[b] = 0 /\ \A x \in Blocks \ {b} : k[x] = counted[x]
      OBVIOUS
    <3>. HIDE DEF k
    <3>2. SumOver(k, Blocks) = C + (0 - used[b])
      <4>1. counted \in [Blocks -> Int] /\ k \in [Blocks -> Int]
        BY <3>1
      <4>2. SumOver(k, Blocks) = C + (k[b] - counted[b])
        BY <3>1, <4>1, SumOfChanged, TrackerAssumption
      <4>. QED  BY <2>8, <3>1, <4>2
    <3>3. Freed'[t] = used[b]
      <4>1. Freed'[t] = -n
        BY <2>3, <2>5, <2>11, FreedStep
      <4>. QED  BY <1>3, <2>2, <2>11, <4>1
    <3>4. F \in Int /\ SumOver(Freed, Threads)' = F + (used[b] - 0)
      BY <2>3, <2>5, <2>7, <3>3, FreedSum
    <3>5. live_bytes' = SumOver(k, Blocks) + SumOver(Freed, Threads)'
      <4>. DEFINE v == used[b]
      <4>. HIDE DEF F, C, v
      <4>1. v \in Int
        BY <2>1 DEF v
      <4>2. (C + (0 - v)) + (F + (v - 0)) = C + F
        BY <1>2, <3>4, <4>1
      <4>. QED  BY <1>2, <2>3, <3>2, <3>4, <4>2 DEF v
    <3>6. \A x \in Blocks \ busy' : k[x] = used'[x]
      BY <1>1, <1>3, <2>3, <2>4, <2>11, <3>1 DEF Counted
    <3>7. ASSUME NEW u \in Threads, Holding(u)'
          PROVE  k[call'[u].block] = used'[call'[u].block] - Missing(u)'
      <4>1. u # t
        BY <2>5, <2>6, <2>11, <3>7 DEF Holding
      <4>2. /\ Holding(u) /\ call'[u] = call[u] /\ Missing(u)' = Missing(u)
            /\ used'[call[u].block] = used[call[u].block]
            /\ k[call[u].block] = counted[call[u].block]
        BY <2>4, <2>9, <3>1, <3>7, <4>1 DEF Missing
      <4>. QED  BY <1>1, <4>2 DEF Counted
    <3>8. Counted(k)'
      BY <3>5, <3>6, <3>7 DEF Counted
    <3>. QED  BY <3>1, <3>8 DEF CountedInv
  <2>. QED  BY <2>10, <2>11
<1>4. ASSUME NEW t \in Threads, CountLive(t) PROVE CountedInv'
  <2>. DEFINE m == live_bytes + call[t].n
              n == call[t].n
              b == call[t].block
              c == IF call[t].peak THEN Reach(b, m) ELSE Idle
  <2>1. /\ call[t] \in Calls /\ call[t] # Idle /\ call[t].op = "live" /\ live_bytes' = m
        /\ call' = [call EXCEPT ![t] = c] /\ used' = used /\ busy' = busy
    BY <1>4 DEF CountLive, TypeInv
  <2>2. m \in Int /\ n \in Int /\ b \in Blocks /\ call[t].peak \in BOOLEAN
    BY <2>1, CallsAre DEF TypeInv
  <2>3. m = live_bytes + n
    OBVIOUS
  <2>. HIDE DEF m
  <2>4. /\ c \in Calls \cup {Idle} /\ ~(c # Idle /\ c.op = "live")
        /\ call[t].peak => c # Idle /\ c.op = "peak" /\ c.block = b
        /\ ~call[t].peak => c = Idle
    BY <2>2, CallsAre
  <2>. HIDE DEF c
  <2>5. \A u \in Threads : call'[u] = IF u = t THEN c ELSE call[u]
    BY <2>1 DEF TypeInv
  <2>6. Freed'[t] = 0 /\ F \in Int /\ SumOver(Freed, Threads)' = F + (0 - Freed[t])
    <3>1. Freed'[t] = 0
      BY <2>1, <2>4, FreedStep
    <3>. QED  BY <2>1, <2>4, <3>1, FreedSum
  <2>7. \A u \in Threads \ {t} : Holding(u)' => Holding(u) /\ call'[u] = call[u]
                                               /\ call[u].block \in Blocks
    <3>1. \A u \in Threads \ {t} : Holding(u)' => Holding(u) /\ call'[u] = call[u]
      BY <2>5 DEF Holding
    <3>2. \A u \in Threads : Holding(u) => call[u] \in Calls
      BY DEF Holding, TypeInv
    <3>. QED  BY <3>1, <3>2, CallsAre
  <2>8. CASE call[t].peak
    <3>1. PICK k \in [Blocks -> Nat] : /\ k[b] = used[b]
                                      /\ \A x \in Blocks \ {b} : k[x] = counted[x]
      <4>. DEFINE k == [counted EXCEPT ![b] = used[b]]
      <4>1. k \in [Blocks -> Nat] /\ k[b] = used[b] /\ \A x \in Blocks \ {b} : k[x] = counted[x]
        BY <2>2 DEF TypeInv
      <4>. HIDE DEF k
      <4>. QED  BY <4>1
    <3>2. Holding(t) /\ counted[b] = used[b] - n /\ b \in busy
      <4>1. Holding(t) /\ Missing(t) = n
        BY <2>1, <2>8 DEF Holding, Missing
      <4>. QED  BY <1>1, <4>1 DEF Counted, BusyInv
    <3>3. SumOver(k, Blocks) = C + n
      <4>1. counted \in [Blocks -> Int] /\ k \in [Blocks -> Int]
        BY <3>1
      <4>2. SumOver(k, Blocks) = C + (k[b] - counted[b])
        BY <2>2, <3>1, <4>1, SumOfChanged, TrackerAssumption
      <4>3. used[b] \in Int
        BY <2>2 DEF TypeInv
      <4>4. \A v \in Int : v - (v - n) = n
        BY <2>2
      <4>. QED  BY <3>1, <3>2, <4>2, <4>3, <4>4
    <3>4. Freed[t] = 0
      BY <2>8 DEF Freed
    <3>5. live_bytes' = SumOver(k, Blocks) + SumOver(Freed, Threads)'
      <4>. HIDE DEF F, C, n, b
      <4>. QED  BY <1>2, <2>1, <2>2, <2>3, <2>6, <3>3, <3>4
    <3>6. \A x \in Blocks \ busy' : k[x] = used'[x]
      BY <1>1, <2>1, <3>1, <3>2 DEF Counted
    <3>7. ASSUME NEW u \in Threads, Holding(u)'
          PROVE  k[call'[u].block] = used'[call'[u].block] - Missing(u)'
      <4>1. CASE u = t
        <5>1. call'[u].block = b /\ Missing(u)' = 0
          BY <2>4, <2>5, <2>8, <4>1 DEF Missing
        <5>2. used[b] \in Int
          BY <2>2 DEF TypeInv
        <5>3. \A v \in Int : v = v - 0
          OBVIOUS
        <5>. QED  BY <2>1, <3>1, <5>1, <5>2, <5>3
      <4>2. CASE u # t
        <5>1. Holding(u) /\ call'[u] = call[u] /\ Missing(u)' = Missing(u)
          BY <2>7, <3>7, <4>2 DEF Missing
        <5>2. call[u].block # b /\ call[u].block \in Blocks
          BY <2>7, <3>2, <3>7, <4>2, <5>1 DEF BusyInv
        <5>3. k[call[u].block] = counted[call[u].block]
          BY <3>1, <5>2
        <5>. QED  BY <1>1, <2>1, <5>1, <5>3 DEF Counted
      <4>. QED  BY <4>1, <4>2
    <3>8. Counted(k)'
      BY <3>5, <3>6, <3>7 DEF Counted
    <3>. QED  BY <3>1, <3>8 DEF CountedInv
  <2>9. CASE ~call[t].peak
    <3>1. Freed[t] = -n
      BY <2>1, <2>9 DEF Freed, Pending
    <3>2. live_bytes' = C + SumOver(Freed, Threads)'
      <4>. HIDE DEF F, C, n
      <4>. QED  BY <1>2, <2>1, <2>2, <2>3, <2>6, <3>1
    <3>3. \A u \in Threads : Holding(u)' => /\ Holding(u) /\ call'[u] = call[u]
                                            /\ Missing(u)' = Missing(u)
      BY <2>4, <2>5, <2>7, <2>9 DEF Holding, Missing
    <3>4. Counted(counted)'
      BY <1>1, <2>1, <3>2, <3>3 DEF Counted
    <3>. QED  BY <3>4 DEF CountedInv
  <2>. QED  BY <2>8, <2>9
<1>5. ASSUME NEW t \in Threads, RaisePeak(t) PROVE CountedInv'
  <2>. DEFINE b == call[t].block
  <2>1. /\ call[t] \in Calls /\ call[t] # Idle /\ call[t].op = "peak" /\ used' = used
        /\ busy' = busy \ {b} /\ call' = [call EXCEPT ![t] = Idle] /\ live_bytes' = live_bytes
    BY <1>5 DEF RaisePeak, TypeInv
  <2>2. \A u \in Threads : call'[u] = IF u = t THEN Idle ELSE call[u]
    BY <2>1 DEF TypeInv
  <2>3. Freed' = Freed
    BY <2>1, <2>2 DEF Freed, Pending
  <2>4. b \in Blocks /\ counted[b] = used[b]
    <3>1. b \in Blocks
      BY <2>1, CallsAre
    <3>2. counted[b] = used[b] - 0
      BY <1>1, <2>1 DEF Counted, Holding, Missing
    <3>3. used[b] \in Int
      BY <3>1 DEF TypeInv
    <3>. QED  BY <3>1, <3>2, <3>3
  <2>5. \A u \in Threads : Holding(u)' => /\ Holding(u) /\ call'[u] = call[u]
                                          /\ Missing(u)' = Missing(u)
    BY <2>2 DEF Holding, Missing
  <2>6. \A x \in Blocks \ busy' : counted[x] = used'[x]
    BY <1>1, <2>1, <2>4 DEF Counted
  <2>7. Counted(counted)'
    BY <1>1, <2>1, <2>3, <2>5, <2>6 DEF Counted
  <2>. QED  BY <2>7 DEF CountedInv
<1>6. CASE UNCHANGED trackerVars
  BY <1>6 DEF trackerVars, CountedInv, Counted, Holding, Missing, Freed, Pending
<1>. QED  BY <1>3, <1>4, <1>5, <1>6, StepsAre

(* The live counter is never negative, however late a thread discounts     *)
(* what it freed: a block can be freed only after the call that made it    *)
(* has counted it, so the clamp of live_bytes() hides nothing.             *)
THEOREM LiveNeverWraps == TrackerSpec => []LiveNeverNegative
<1>1. TrackerInit => TypeInv /\ BusyInv /\ CountedInv
  <2>. SUFFICES ASSUME TrackerInit PROVE TypeInv /\ BusyInv /\ CountedInv
    OBVIOUS
  <2>1. /\ live_bytes = 0 /\ used \in [Blocks -> Nat]
        /\ \A t \in Threads : ~Holding(t)
    BY DEF TrackerInit, Holding
  <2>2. used \in [Blocks -> Int] /\ \A b \in Blocks : used[b] = 0
    BY DEF TrackerInit
  <2>3. Freed \in [Threads -> Int] /\ \A t \in Threads : Freed[t] = 0
    BY DEF TrackerInit, Freed, Pending
  <2>4. SumOver(used, Blocks) = 0 /\ SumOver(Freed, Threads) = 0
    BY <2>2, <2>3, SumType, TrackerAssumption
  <2>5. Counted(used)
    BY <2>1, <2>4 DEF Counted
  <2>. QED  BY <2>1, <2>5, InitType DEF BusyInv, CountedInv
<1>2. TypeInv /\ BusyInv /\ CountedInv /\ [TrackerNext]_trackerVars
        => (TypeInv /\ BusyInv /\ CountedInv)'
  BY NextType, NextBusy, NextCounted
<1>3. TypeInv /\ CountedInv => LiveNeverNegative
  <2>. SUFFICES ASSUME TypeInv, CountedInv PROVE live_bytes >= 0
    BY DEF LiveNeverNegative
  <2>1. PICK counted \in [Blocks -> Nat] : Counted(counted)
    BY DEF CountedInv
  <2>2. counted \in [Blocks -> Int] /\ \A b \in Blocks : counted[b] >= 0
    OBVIOUS
  <2>3. Freed \in [Threads -> Int] /\ \A t \in Threads : Freed[t] >= 0
    <3>1. \A t \in Threads : call[t] \in Calls \cup {Idle}
      BY DEF TypeInv
    <3>2. \A t \in Threads : IF t \in Pending("live") /\ ~call[t].peak
                             THEN call[t].n \in Int /\ call[t].n <= 0 ELSE TRUE
      BY <3>1, CallsAre DEF TypeInv, Pending
    <3>3. \A n \in Int : n <= 0 => -n \in Int /\ -n >= 0
      OBVIOUS
    <3>. QED  BY <3>2, <3>3 DEF Freed
  <2>. DEFINE c == SumOver(counted, Blocks)
              f == SumOver(Freed, Threads)
  <2>4. c \in Int /\ f \in Int /\ c >= 0 /\ f >= 0
    BY <2>2, <2>3, SumType, TrackerAssumption
  <2>5. live_bytes = c + f
    BY <2>1 DEF Counted
  <2>. HIDE DEF c, f
  <2>. QED  BY <2>4, <2>5
<1>. QED  BY <1>1, <1>2, <1>3, PTL DEF TrackerSpec

-----------------------------------------------------------------------------
(***************************************************************************)
(* The search.                                                             *)
(***************************************************************************)
\* The cache holds the states replay goes through, from the first on.
CacheInv ==
  /\ replayed_states \in Seq(Nat)
  /\ \A i \in 1..Len(replayed_states) : replayed_states[i] = i

SearchInv ==
  /\ CacheInv
  /\ \E n \in 1..MAX_HEADERS : agrees \in [0..n - 1 -> BOOLEAN] /\ hi \in 0..n - 1
  /\ lo \in 0..hi
  /\ pc = "simulated" => lo = 0
  /\ DifferenceInside

(* Replaying further extends the cache up to the header asked for.         *)
LEMMA ReplayExtends ==
  ASSUME CacheInv, NEW index \in Nat,
         replayed_states' = replay_states_through(replayed_states, index)
  PROVE  CacheInv' /\ index < Len(replayed_states') /\ replayed_states'[index + 1] = index + 1
<1>. DEFINE n == Len(replayed_states)
            k == (index + 1) - n
            m == IF k > 0 THEN k ELSE 0
            more == [i \in 1..k |-> n + i]
<1>1. n \in Nat /\ replayed_states \in Seq(Nat) /\ m \in Nat
  BY DEF CacheInv
<1>2. 1..k = 1..m
  BY <1>1
<1>3. more \in Seq(Nat) /\ Len(more) = m /\ \A i \in 1..m : more[i] = n + i
  <2>1. more = [i \in 1..m |-> n + i]
    BY <1>2
  <2>. HIDE DEF n, m, more
  <2>. QED  BY <1>1, <2>1
<1>. HIDE DEF m, more
<1>4. replayed_states' = replayed_states \o more
  <2>1. index + 1 - n = k
    BY <1>1
  <2>. QED  BY <2>1 DEF replay_states_through, more
<1>5. replayed_states' \in Seq(Nat) /\ Len(replayed_states') = n + m
  BY <1>1, <1>3, <1>4
<1>6. ASSUME NEW i \in 1..n + m PROVE replayed_states'[i] = i
  <2>1. i \in Nat /\ (i \in 1..n \/ i - n \in 1..m)
    BY <1>1
  <2>2. CASE i \in 1..n
    <3>1. replayed_states'[i] = replayed_states[i]
      BY <1>1, <1>3, <1>4, <2>2
    <3>. QED  BY <2>2, <3>1 DEF CacheInv
  <2>3. CASE i - n \in 1..m
    <3>1. replayed_states'[i] = more[i - n]
      BY <1>1, <1>3, <1>4, <2>1, <2>3
    <3>. QED  BY <1>1, <1>3, <2>1, <2>3, <3>1
  <2>. QED  BY <2>1, <2>2, <2>3
<1>7. index + 1 \in 1..n + m /\ index < n + m
  BY <1>1 DEF m
<1>. QED  BY <1>5, <1>6, <1>7 DEF CacheInv

(* The bisection ends at a header where a difference begins, whatever the  *)
(* table holds.                                                            *)
THEOREM DifferenceStaysInside == ReportSpec => []DifferenceInside
<1>. USE DEF SearchInv, DifferenceInside
<1>1. ReportInit => SearchInv
  <2>. SUFFICES ASSUME ReportInit PROVE SearchInv
    OBVIOUS
  <2>1. replayed_states = <<>> /\ lo = 0 /\ pc = "simulated"
    BY DEF ReportInit, Init
  <2>2. PICK n \in 1..MAX_HEADERS : agrees \in [0..n - 1 -> BOOLEAN] /\ hi = n - 1
    BY DEF ReportInit, Init
  <2>3. CacheInv
    BY <2>1 DEF CacheInv
  <2>. QED  BY <2>1, <2>2, <2>3
<1>2. SearchInv /\ [ReportNext]_reportVars => SearchInv'
  <2>. SUFFICES ASSUME SearchInv, [ReportNext]_reportVars PROVE SearchInv'
    OBVIOUS
  <2>0. PICK n \in 1..MAX_HEADERS : agrees \in [0..n - 1 -> BOOLEAN] /\ hi \in 0..n - 1
    OBVIOUS
  <2>1. CASE AcceptBatch
    BY <2>1 DEF AcceptBatch, CacheInv
  <2>2. CASE StartBisection
    BY <2>2 DEF StartBisection, CacheInv
  <2>3. CASE Narrow
    <3>1. /\ pc = "bisecting" /\ lo < hi /\ pc' = pc /\ agrees' = agrees
          /\ replayed_states' = replay_states_through(replayed_states, mid)
          /\ IF ClaimMatches(replayed_states', mid)
             THEN lo' = mid + 1 /\ hi' = hi
             ELSE hi' = mid /\ lo' = lo
      BY <2>3 DEF Narrow
    <3>2. mid \in lo..hi - 1 /\ mid \in Nat
      BY <2>0, <3>1 DEF mid
    <3>3. CacheInv' /\ mid < Len(replayed_states') /\ replayed_states'[mid + 1] = mid + 1
      BY <3>1, <3>2, ReplayExtends
    <3>4. ClaimMatches(replayed_states', mid) <=> agrees[mid]
      BY <3>3 DEF ClaimMatches
    <3>5. CASE agrees[mid]
      <4>1. lo' = mid + 1 /\ hi' = hi /\ (mid + 1) - 1 = mid
        BY <3>1, <3>2, <3>4, <3>5
      <4>2. lo' \in 0..hi' /\ ~agrees'[hi'] /\ agrees'[lo' - 1]
        BY <2>0, <3>1, <3>2, <3>5, <4>1
      <4>. QED  BY <2>0, <3>1, <3>3, <4>1, <4>2
    <3>6. CASE ~agrees[mid]
      <4>1. hi' = mid /\ lo' = lo
        BY <3>1, <3>4, <3>6
      <4>. QED  BY <2>0, <3>1, <3>2, <3>3, <3>6, <4>1
    <3>. QED  BY <3>5, <3>6
  <2>4. CASE Report
    <3>1. /\ pc = "bisecting" /\ pc' = "reported" /\ agrees' = agrees /\ lo' = lo /\ hi' = hi
          /\ replayed_states' = replay_states_through(replayed_states, lo)
      BY <2>4 DEF Report
    <3>2. CacheInv' /\ replayed_states'[lo + 1] = lo + 1
      BY <2>0, <3>1, ReplayExtends
    <3>. QED  BY <2>0, <3>1, <3>2
  <2>5. CASE Write
    <3>1. pc' = "written" /\ replayed_states' = <<>> /\ UNCHANGED <<agrees, lo, hi>>
      BY <2>5 DEF Write
    <3>2. CacheInv'
      BY <3>1 DEF CacheInv
    <3>. QED  BY <2>0, <3>1, <3>2
  <2>6. CASE UNCHANGED reportVars
    BY <2>6 DEF reportVars, vars, CacheInv
  <2>. QED  BY <2>1, <2>2, <2>3, <2>4, <2>5, <2>6 DEF ReportNext, Search, Next
<1>3. SearchInv => DifferenceInside
  OBVIOUS
<1>. QED  BY <1>1, <1>2, <1>3, PTL DEF ReportSpec

-----------------------------------------------------------------------------
(***************************************************************************)
(* The report.                                                             *)
(***************************************************************************)
\* f starts at s and takes step k with G[k].
Recurs(f, n, X, s, G) ==
  f \in [0..n -> X] /\ f[0] = s /\ \A k \in 1..n : f[k] = G[k][f[k - 1]]

(* Recursion on the numbers up to n, with a function for the step.         *)
LEMMA RecursionExists ==
  ASSUME NEW n \in Nat, NEW X, NEW s \in X, NEW G \in [1..n -> [X -> X]]
  PROVE  \E f : Recurs(f, n, X, s, G)
<1>. DEFINE Good(f, m) == /\ f \in [0..m -> X] /\ f[0] = s
                          /\ \A k \in 1..m : f[k] = G[k][f[k - 1]]
            N == {m \in Nat : m <= n => \E f : Good(f, m)}
<1>1. 0 \in N
  <2>. DEFINE f == [k \in 0..0 |-> s]
  <2>1. Good(f, 0)
    OBVIOUS
  <2>2. \E g : Good(g, 0)
    <3>. HIDE DEF f, Good
    <3>. QED  BY <2>1
  <2>. QED  BY <2>2
<1>2. ASSUME NEW m \in Nat, m \in N PROVE m + 1 \in N
  <2>. SUFFICES ASSUME m + 1 <= n PROVE \E f : Good(f, m + 1)
    OBVIOUS
  <2>1. PICK f : Good(f, m)
    BY <1>2
  <2>. DEFINE x == G[m + 1][f[m]]
              h == [k \in 0..(m + 1) |-> IF k = m + 1 THEN x ELSE f[k]]
  <2>2. x \in X
    <3>1. m + 1 \in 1..n /\ m \in 0..m
      OBVIOUS
    <3>. QED  BY <2>1, <3>1
  <2>3. h \in [0..(m + 1) -> X] /\ h[m + 1] = x /\ \A k \in 0..m : h[k] = f[k]
    <3>. HIDE DEF x
    <3>. QED  BY <2>1, <2>2
  <2>. HIDE DEF h
  <2>4. h[0] = s
    BY <2>1, <2>3
  <2>5. ASSUME NEW k \in 1..(m + 1) PROVE h[k] = G[k][h[k - 1]]
    <3>1. CASE k = m + 1
      <4>1. k - 1 = m /\ m \in 0..m
        BY <3>1
      <4>. QED  BY <2>3, <3>1, <4>1
    <3>2. CASE k # m + 1
      <4>1. k \in 1..m /\ k \in 0..m /\ k - 1 \in 0..m
        BY <3>2
      <4>. QED  BY <2>1, <2>3, <4>1
    <3>. QED  BY <3>1, <3>2
  <2>6. Good(h, m + 1)
    BY <2>3, <2>4, <2>5
  <2>. HIDE DEF Good
  <2>. QED  BY <2>6
<1>3. Nat \subseteq N
  <2>. HIDE DEF N
  <2>. QED  BY <1>1, <1>2, SetInduction
<1>4. \E f : Good(f, n)
  <2>1. n \in N
    BY <1>3
  <2>. HIDE DEF Good
  <2>. QED  BY <2>1
<1>. QED  BY <1>4 DEF Recurs

(* Two functions with one start and one step agree.                        *)
LEMMA RecursionUnique ==
  ASSUME NEW n \in Nat, NEW f, NEW g, f[0] = g[0],
         \A k \in 1..n : f[k - 1] = g[k - 1] => f[k] = g[k]
  PROVE  f[n] = g[n]
<1>. DEFINE N == {m \in Nat : m <= n => f[m] = g[m]}
<1>1. 0 \in N
  OBVIOUS
<1>2. ASSUME NEW m \in Nat, m \in N PROVE m + 1 \in N
  <2>. SUFFICES ASSUME m + 1 <= n PROVE f[m + 1] = g[m + 1]
    OBVIOUS
  <2>1. m + 1 \in 1..n /\ (m + 1) - 1 = m /\ f[m] = g[m]
    BY <1>2
  <2>. QED  BY <2>1
<1>3. Nat \subseteq N
  <2>. HIDE DEF N
  <2>. QED  BY <1>1, <1>2, SetInduction
<1>. QED  BY <1>3

-----------------------------------------------------------------------------
(***************************************************************************)
(* Reading a line.                                                         *)
(***************************************************************************)
Marks  == {"red", "green", "plain", "white", "[", "]"}
Bytes  == HEX \cup {"  "}
Tokens == Bytes \cup Marks
Seens  == [mark : Marks, bytes : Seq(Bytes \X Marks), paired : BOOLEAN]

Blank(mode) == [mark |-> end(mode), bytes |-> <<>>, paired |-> TRUE]

IsReading(f, line, mode) ==
  f = [k \in 0..Len(line) |-> IF k = 0 THEN Blank(mode) ELSE Read(f[k - 1], line[k], mode)]

Reading(line, mode) == CHOOSE f : IsReading(f, line, mode)

LEMMA ReadType ==
  ASSUME NEW mode \in Modes, NEW seen \in Seens, NEW token \in Tokens
  PROVE  Read(seen, token, mode) \in Seens
<1>1. CASE IsByte(token)
  <2>1. <<token, seen.mark>> \in Bytes \X Marks
    BY <1>1 DEF IsByte, Bytes, Seens
  <2>2. Append(seen.bytes, <<token, seen.mark>>) \in Seq(Bytes \X Marks)
    BY <2>1 DEF Seens
  <2>. QED  BY <1>1, <2>2 DEF Read, Seens
<1>2. CASE ~IsByte(token)
  <2>1. token \in Marks
    BY <1>2 DEF IsByte, Tokens, Bytes
  <2>2. Read(seen, token, mode) =
          [seen EXCEPT !.mark = token,
                       !.paired = IF token = end(mode) <=> seen.mark = end(mode) THEN FALSE ELSE @]
    BY <1>2 DEF Read
  <2>. QED  BY <2>1, <2>2 DEF Seens
<1>. QED  BY <1>1, <1>2

LEMMA BlankType ==
  ASSUME NEW mode \in Modes
  PROVE  Blank(mode) \in Seens /\ end(mode) \in Marks
BY DEF Blank, Seens, Marks, end, Modes

(* A line can be read.                                                     *)
LEMMA ReadingIs ==
  ASSUME NEW line \in Seq(Tokens), NEW mode \in Modes
  PROVE  /\ ReadLine(line, mode) = Reading(line, mode)[Len(line)]
         /\ Reading(line, mode) \in [0..Len(line) -> Seens]
         /\ Reading(line, mode)[0] = Blank(mode)
         /\ \A k \in 1..Len(line) :
              Reading(line, mode)[k] = Read(Reading(line, mode)[k - 1], line[k], mode)
<1>. DEFINE n == Len(line)
            G == [k \in 1..n |-> [x \in Seens |-> Read(x, line[k], mode)]]
<1>1. n \in Nat /\ \A k \in 1..n : line[k] \in Tokens
  OBVIOUS
<1>2. G \in [1..n -> [Seens -> Seens]]
  BY <1>1, ReadType
<1>3. Blank(mode) \in Seens
  BY BlankType
<1>4. PICK f \in [0..n -> Seens] : f[0] = Blank(mode) /\ \A k \in 1..n : f[k] = G[k][f[k - 1]]
  <2>. HIDE DEF n, G
  <2>1. n \in Nat
    BY <1>1
  <2>2. \E f : Recurs(f, n, Seens, Blank(mode), G)
    BY <1>2, <1>3, <2>1, RecursionExists
  <2>. QED  BY <2>2 DEF Recurs
<1>5. \A k \in 1..n : k - 1 \in 0..n
  BY <1>1
<1>6. \A k \in 1..n : f[k] = Read(f[k - 1], line[k], mode)
  BY <1>4, <1>5
<1>7. IsReading(f, line, mode)
  <2>1. \A k \in 0..n : k = 0 \/ k \in 1..n
    BY <1>1
  <2>2. \A k \in 0..n : f[k] = IF k = 0 THEN Blank(mode) ELSE Read(f[k - 1], line[k], mode)
    BY <1>4, <1>6, <2>1
  <2>. QED  BY <1>4, <2>2 DEF IsReading
<1>8. IsReading(Reading(line, mode), line, mode)
  BY <1>7 DEF Reading
<1>. DEFINE g == Reading(line, mode)
<1>9. g = [k \in 0..n |-> IF k = 0 THEN Blank(mode) ELSE Read(g[k - 1], line[k], mode)]
  BY <1>8 DEF IsReading
<1>10. ReadLine(line, mode) = g[n]
  BY DEF ReadLine, Reading, IsReading, Blank
<1>. HIDE DEF g
<1>11. g[0] = Blank(mode) /\ \A k \in 1..n : g[k] = Read(g[k - 1], line[k], mode)
  <2>. HIDE DEF n
  <2>. QED  BY <1>1, <1>9
<1>12. \A k \in 0..n : g[k] = f[k]
  <2>. SUFFICES ASSUME NEW k \in 0..n PROVE g[k] = f[k]
    OBVIOUS
  <2>1. k \in Nat /\ g[0] = f[0]
    BY <1>1, <1>4, <1>11
  <2>2. \A j \in 1..k : j \in 1..n
    BY <1>1
  <2>3. \A j \in 1..k : g[j - 1] = f[j - 1] => g[j] = f[j]
    BY <1>6, <1>11, <2>2
  <2>. QED  BY <2>1, <2>3, RecursionUnique
<1>13. g \in [0..n -> Seens]
  <2>. HIDE DEF n
  <2>1. \A k \in 0..n : g[k] \in Seens
    BY <1>4, <1>12
  <2>2. g = [k \in 0..n |-> g[k]]
    BY <1>9
  <2>. QED  BY <2>1, <2>2
<1>. QED  BY <1>10, <1>11, <1>13 DEF g

(* Reading on by a token.                                                  *)
LEMMA ReadOn ==
  ASSUME NEW line \in Seq(Tokens), NEW token \in Tokens, NEW mode \in Modes
  PROVE  /\ line \o <<token>> \in Seq(Tokens)
         /\ ReadLine(line, mode) \in Seens
         /\ ReadLine(line \o <<token>>, mode) = Read(ReadLine(line, mode), token, mode)
<1>. DEFINE more == line \o <<token>>
            n == Len(line)
            f == Reading(line, mode)
            g == Reading(more, mode)
<1>1. /\ more \in Seq(Tokens) /\ n \in Nat /\ Len(more) = n + 1 /\ more[n + 1] = token
      /\ \A k \in 1..n : more[k] = line[k]
  OBVIOUS
<1>. HIDE DEF more, n
<1>2. /\ ReadLine(line, mode) = f[n] /\ f \in [0..n -> Seens] /\ f[0] = Blank(mode)
      /\ \A k \in 1..n : f[k] = Read(f[k - 1], line[k], mode)
  BY ReadingIs DEF n
<1>3. /\ ReadLine(more, mode) = g[n + 1] /\ g[0] = Blank(mode)
      /\ \A k \in 1..n + 1 : g[k] = Read(g[k - 1], more[k], mode)
  BY <1>1, ReadingIs
<1>. HIDE DEF f, g
<1>4. g[n] = f[n]
  <2>1. \A k \in 1..n : k \in 1..n + 1
    BY <1>1
  <2>2. \A k \in 1..n : g[k - 1] = f[k - 1] => g[k] = f[k]
    BY <1>1, <1>2, <1>3, <2>1
  <2>3. n \in Nat /\ g[0] = f[0]
    BY <1>1, <1>2, <1>3
  <2>. QED  BY <2>2, <2>3, RecursionUnique
<1>5. n + 1 \in 1..n + 1 /\ (n + 1) - 1 = n /\ n \in 0..n
  BY <1>1
<1>. QED  BY <1>1, <1>2, <1>3, <1>4, <1>5 DEF more

-----------------------------------------------------------------------------
(* A line with all its marks in turn, the mark it is under at its end, and *)
(* the bytes it shows.                                                     *)
ReadsAs(line, mode, mark, bytes) ==
  /\ line \in Seq(Tokens) /\ mark \in Marks /\ bytes \in Seq(Bytes \X Marks)
  /\ ReadLine(line, mode) = [mark |-> mark, bytes |-> bytes, paired |-> TRUE]

LEMMA EmptyReadsAs ==
  ASSUME NEW mode \in Modes
  PROVE  ReadsAs(<<>>, mode, end(mode), <<>>)
<1>1. <<>> \in Seq(Tokens) /\ Len(<<>>) = 0 /\ <<>> \in Seq(Bytes \X Marks)
  OBVIOUS
<1>2. ReadLine(<<>>, mode) = Blank(mode)
  BY <1>1, ReadingIs
<1>. QED  BY <1>1, <1>2, BlankType DEF ReadsAs, Blank

LEMMA ByteReadsAs ==
  ASSUME NEW mode \in Modes, NEW line, NEW mark, NEW bytes, ReadsAs(line, mode, mark, bytes),
         NEW token \in Bytes
  PROVE  ReadsAs(line \o <<token>>, mode, mark, Append(bytes, <<token, mark>>))
<1>. DEFINE seen == ReadLine(line, mode)
<1>1. /\ line \in Seq(Tokens) /\ mark \in Marks /\ bytes \in Seq(Bytes \X Marks)
      /\ seen = [mark |-> mark, bytes |-> bytes, paired |-> TRUE]
  BY DEF ReadsAs
<1>2. token \in Tokens /\ IsByte(token)
  BY DEF Tokens, Bytes, IsByte
<1>3. /\ line \o <<token>> \in Seq(Tokens)
      /\ ReadLine(line \o <<token>>, mode) = Read(seen, token, mode)
  BY <1>1, <1>2, ReadOn
<1>. HIDE DEF seen
<1>4. Read(seen, token, mode) =
        [mark |-> mark, bytes |-> Append(bytes, <<token, mark>>), paired |-> TRUE]
  BY <1>1, <1>2 DEF Read
<1>5. Append(bytes, <<token, mark>>) \in Seq(Bytes \X Marks)
  <2>1. <<token, mark>> \in Bytes \X Marks
    BY <1>1
  <2>. QED  BY <1>1, <2>1
<1>. QED  BY <1>1, <1>3, <1>4, <1>5 DEF ReadsAs

LEMMA MarkReadsAs ==
  ASSUME NEW mode \in Modes, NEW line, NEW mark, NEW bytes, ReadsAs(line, mode, mark, bytes),
         NEW condition \in BOOLEAN, NEW token \in Marks,
         condition => (token = end(mode) <=> mark # end(mode))
  PROVE  ReadsAs(line \o If(condition, token), mode, IF condition THEN token ELSE mark, bytes)
<1>. DEFINE seen == ReadLine(line, mode)
<1>1. /\ line \in Seq(Tokens) /\ mark \in Marks /\ bytes \in Seq(Bytes \X Marks)
      /\ seen = [mark |-> mark, bytes |-> bytes, paired |-> TRUE]
  BY DEF ReadsAs
<1>2. CASE condition
  <2>1. token \in Tokens /\ ~IsByte(token)
    BY ReportAssumption DEF Tokens, Bytes, IsByte, Marks
  <2>2. /\ line \o <<token>> \in Seq(Tokens)
        /\ ReadLine(line \o <<token>>, mode) = Read(seen, token, mode)
    BY <1>1, <2>1, ReadOn
  <2>. HIDE DEF seen
  <2>3. Read(seen, token, mode) = [mark |-> token, bytes |-> bytes, paired |-> TRUE]
    BY <1>1, <1>2, <2>1 DEF Read
  <2>. QED  BY <1>1, <1>2, <2>2, <2>3 DEF ReadsAs, If
<1>3. CASE ~condition
  <2>1. line \o <<>> = line
    BY <1>1
  <2>. QED  BY <1>3, <2>1 DEF If
<1>. QED  BY <1>2, <1>3

-----------------------------------------------------------------------------
(***************************************************************************)
(* Marking a field.                                                        *)
(***************************************************************************)
Accs == [actual_out : Seq(Tokens), expected_out : Seq(Tokens), in_mismatch_run : BOOLEAN,
         in_leading_zero_run : BOOLEAN, still_leading_zeros : BOOLEAN]

Unmarked(zeros) ==
  [actual_out |-> <<>>, expected_out |-> <<>>, in_mismatch_run |-> FALSE,
   in_leading_zero_run |-> FALSE, still_leading_zeros |-> zeros]

MarkByte(acc, act, exp, mode) ==
  IF exp = act THEN Same(acc, act, mode) ELSE Differ(acc, act, exp, mode)

IsMarking(f, expected, actual, mode, zeros) ==
  f = [i \in 0..Len(actual) |-> IF i = 0 THEN Unmarked(zeros)
                                ELSE MarkByte(f[i - 1], actual[i], expected[i], mode)]

Marking(expected, actual, mode, zeros) ==
  CHOOSE f : IsMarking(f, expected, actual, mode, zeros)

LEMMA StartsAre ==
  ASSUME NEW mode \in Modes
  PROVE  /\ actual_start(mode) \in Marks /\ expected_start(mode) \in Marks /\ end(mode) \in Marks
         /\ actual_start(mode) # end(mode) /\ expected_start(mode) # end(mode)
         /\ ZeroStart \in Marks /\ "plain" \in Marks
         /\ mode = "Ansi" => end(mode) = "plain" /\ ZeroStart # end(mode)
BY DEF Modes, actual_start, expected_start, end, ZeroStart, Marks

LEMMA IfType ==
  ASSUME NEW condition \in BOOLEAN, NEW mark \in Marks
  PROVE  If(condition, mark) \in Seq(Tokens)
<1>1. mark \in Tokens
  BY DEF Tokens
<1>2. <<mark>> \in Seq(Tokens) /\ <<>> \in Seq(Tokens)
  BY <1>1
<1>. QED  BY <1>2 DEF If

LEMMA MarkType ==
  ASSUME NEW acc \in Accs, NEW act \in HEX, NEW exp \in HEX, NEW mode \in Modes
  PROVE  MarkByte(acc, act, exp, mode) \in Accs
<1>1. /\ acc.actual_out \in Seq(Tokens) /\ acc.expected_out \in Seq(Tokens)
      /\ acc.in_mismatch_run \in BOOLEAN /\ acc.in_leading_zero_run \in BOOLEAN
      /\ acc.still_leading_zeros \in BOOLEAN
  BY DEF Accs
<1>2. <<act>> \in Seq(Tokens) /\ <<exp>> \in Seq(Tokens) /\ <<"  ">> \in Seq(Tokens)
  <2>1. act \in Tokens /\ exp \in Tokens /\ "  " \in Tokens
    BY DEF Tokens, Bytes
  <2>2. \A x \in Tokens : <<x>> \in Seq(Tokens)
    OBVIOUS
  <2>. QED  BY <2>1, <2>2
<1>3. \A s, t \in Seq(Tokens) : s \o t \in Seq(Tokens)
  OBVIOUS
<1>4. \A c \in BOOLEAN : /\ If(c, end(mode)) \in Seq(Tokens) /\ If(c, ZeroStart) \in Seq(Tokens)
                         /\ If(c, "plain") \in Seq(Tokens)
                         /\ If(c, actual_start(mode)) \in Seq(Tokens)
                         /\ If(c, expected_start(mode)) \in Seq(Tokens)
  BY IfType, StartsAre
<1>5. Same(acc, act, mode) \in Accs
  <2>. DEFINE zero == acc.still_leading_zeros /\ act = "00" /\ mode = "Ansi"
              a == acc.actual_out
                     \o If(acc.in_mismatch_run, end(mode))
                     \o If(zero /\ ~acc.in_leading_zero_run, ZeroStart)
                     \o If(~zero /\ acc.in_leading_zero_run, "plain")
                     \o <<act>>
              e == acc.expected_out \o If(acc.in_mismatch_run, end(mode)) \o <<"  ">>
  <2>1. zero \in BOOLEAN
    OBVIOUS
  <2>2. Same(acc, act, mode) = [actual_out |-> a, expected_out |-> e, in_mismatch_run |-> FALSE,
                                in_leading_zero_run |-> zero, still_leading_zeros |-> zero]
    BY DEF Same
  <2>. HIDE DEF zero
  <2>3. /\ If(zero /\ ~acc.in_leading_zero_run, ZeroStart) \in Seq(Tokens)
        /\ If(~zero /\ acc.in_leading_zero_run, "plain") \in Seq(Tokens)
        /\ If(acc.in_mismatch_run, end(mode)) \in Seq(Tokens)
    BY <1>1, <1>4
  <2>4. a \in Seq(Tokens) /\ e \in Seq(Tokens)
    BY <1>1, <1>2, <1>3, <2>3
  <2>. HIDE DEF a, e
  <2>. QED  BY <2>1, <2>2, <2>4 DEF Accs
<1>6. Differ(acc, act, exp, mode) \in Accs
  <2>. DEFINE a == acc.actual_out
                     \o If(acc.in_leading_zero_run, "plain")
                     \o If(~acc.in_mismatch_run, actual_start(mode))
                     \o <<act>>
              e == acc.expected_out \o If(~acc.in_mismatch_run, expected_start(mode)) \o <<exp>>
  <2>1. a \in Seq(Tokens) /\ e \in Seq(Tokens)
    <3>1. /\ If(acc.in_leading_zero_run, "plain") \in Seq(Tokens)
          /\ If(~acc.in_mismatch_run, actual_start(mode)) \in Seq(Tokens)
          /\ If(~acc.in_mismatch_run, expected_start(mode)) \in Seq(Tokens)
      BY <1>1, <1>4
    <3>. QED  BY <1>1, <1>2, <1>3, <3>1
  <2>2. Differ(acc, act, exp, mode) =
          [actual_out |-> a, expected_out |-> e, in_mismatch_run |-> TRUE,
           in_leading_zero_run |-> FALSE, still_leading_zeros |-> FALSE]
    BY DEF Differ
  <2>. HIDE DEF a, e
  <2>. QED  BY <2>1, <2>2 DEF Accs
<1>. QED  BY <1>5, <1>6 DEF MarkByte

(* The loop over the bytes of a field.                                     *)
LEMMA MarkingIs ==
  ASSUME NEW n \in Nat, NEW actual \in [1..n -> HEX], NEW expected \in [1..n -> HEX],
         NEW mode \in Modes, NEW zeros \in BOOLEAN
  PROVE  LET g == Marking(expected, actual, mode, zeros)
         IN  /\ highlight_with_expected_mode(expected, actual, mode, zeros) =
                  [actual |-> g[n].actual_out \o If(g[n].in_leading_zero_run, "plain")
                                              \o If(g[n].in_mismatch_run, end(mode)),
                   expected |-> g[n].expected_out \o If(g[n].in_mismatch_run, end(mode))]
             /\ g[0] = Unmarked(zeros)
             /\ \A i \in 1..n : g[i] = MarkByte(g[i - 1], actual[i], expected[i], mode)
<1>. DEFINE G == [k \in 1..n |-> [x \in Accs |-> MarkByte(x, actual[k], expected[k], mode)]]
            g == Marking(expected, actual, mode, zeros)
<1>1. Len(actual) = n /\ \A k \in 1..n : actual[k] \in HEX /\ expected[k] \in HEX
  OBVIOUS
<1>2. G \in [1..n -> [Accs -> Accs]]
  BY <1>1, MarkType
<1>3. Unmarked(zeros) \in Accs
  BY DEF Unmarked, Accs
<1>4. PICK f \in [0..n -> Accs] : f[0] = Unmarked(zeros) /\ \A k \in 1..n : f[k] = G[k][f[k - 1]]
  <2>. HIDE DEF G
  <2>2. \E f : Recurs(f, n, Accs, Unmarked(zeros), G)
    BY <1>2, <1>3, RecursionExists
  <2>. QED  BY <2>2 DEF Recurs
<1>5. \A k \in 1..n : k - 1 \in 0..n
  OBVIOUS
<1>6. \A k \in 1..n : f[k] = MarkByte(f[k - 1], actual[k], expected[k], mode)
  BY <1>4, <1>5
<1>7. IsMarking(f, expected, actual, mode, zeros)
  <2>1. \A k \in 0..n : k = 0 \/ k \in 1..n
    OBVIOUS
  <2>2. \A k \in 0..n : f[k] = IF k = 0 THEN Unmarked(zeros)
                               ELSE MarkByte(f[k - 1], actual[k], expected[k], mode)
    BY <1>4, <1>6, <2>1
  <2>. QED  BY <1>1, <1>4, <2>2 DEF IsMarking
<1>8. IsMarking(g, expected, actual, mode, zeros)
  BY <1>7 DEF Marking
<1>9. g = [i \in 0..n |-> IF i = 0 THEN Unmarked(zeros)
                          ELSE MarkByte(g[i - 1], actual[i], expected[i], mode)]
  BY <1>1, <1>8 DEF IsMarking
<1>10. highlight_with_expected_mode(expected, actual, mode, zeros) =
         LET last == g[Len(actual)]
         IN  [actual |-> last.actual_out \o If(last.in_leading_zero_run, "plain")
                                         \o If(last.in_mismatch_run, end(mode)),
              expected |-> last.expected_out \o If(last.in_mismatch_run, end(mode))]
  BY DEF highlight_with_expected_mode, Marking, IsMarking, Unmarked, MarkByte
<1>. HIDE DEF g
<1>11. /\ g[0] = Unmarked(zeros)
       /\ \A i \in 1..n : g[i] = MarkByte(g[i - 1], actual[i], expected[i], mode)
  BY <1>9
<1>. QED  BY <1>1, <1>10, <1>11 DEF g

-----------------------------------------------------------------------------
\* What is to be seen of byte i, as Shows says it.
LeadingZero(actual, expected, mode, zeros, i) ==
  zeros /\ mode = "Ansi" /\ \A j \in 1..i : actual[j] = "00" /\ expected[j] = "00"

ActualSeen(actual, expected, mode, zeros, i) ==
  <<actual[i], IF actual[i] # expected[i] THEN actual_start(mode)
               ELSE IF LeadingZero(actual, expected, mode, zeros, i) THEN ZeroStart ELSE end(mode)>>

ExpectedSeen(actual, expected, mode, i) ==
  IF actual[i] # expected[i] THEN <<expected[i], expected_start(mode)>> ELSE <<"  ", end(mode)>>

(* Both lines after i bytes: what they show, and the mark they are under,  *)
(* which is what the two flags of the loop say.                            *)
MarkedTo(acc, actual, expected, mode, zeros, i) ==
  /\ acc.in_mismatch_run \in BOOLEAN /\ acc.in_leading_zero_run \in BOOLEAN
  /\ acc.still_leading_zeros \in BOOLEAN
  /\ ~(acc.in_mismatch_run /\ acc.still_leading_zeros)
  /\ acc.in_leading_zero_run <=> (i > 0 /\ acc.still_leading_zeros)
  /\ i = 0 => acc.still_leading_zeros = zeros
  /\ i > 0 => (acc.still_leading_zeros <=> LeadingZero(actual, expected, mode, zeros, i))
  /\ ReadsAs(acc.actual_out, mode,
             IF acc.in_mismatch_run THEN actual_start(mode)
             ELSE IF acc.in_leading_zero_run THEN ZeroStart ELSE end(mode),
             [j \in 1..i |-> ActualSeen(actual, expected, mode, zeros, j)])
  /\ ReadsAs(acc.expected_out, mode,
             IF acc.in_mismatch_run THEN expected_start(mode) ELSE end(mode),
             [j \in 1..i |-> ExpectedSeen(actual, expected, mode, j)])

\* A table extended by one entry.
LEMMA TableExtended ==
  ASSUME NEW i \in Nat, NEW f, NEW x, f = [j \in 1..(i + 1) |-> f[j]], x = f[i + 1]
  PROVE  Append([j \in 1..i |-> f[j]], x) = f
<1>. DEFINE a == [j \in 1..i |-> f[j]]
            S == {f[j] : j \in 1..(i + 1)}
<1>1. a \in Seq(S) /\ Len(a) = i /\ x \in S
  <2>1. \A j \in 1..i : f[j] \in S
    <3>1. \A j \in 1..i : j \in 1..(i + 1)
      OBVIOUS
    <3>. QED  BY <3>1
  <2>2. x \in S
    <3>1. i + 1 \in 1..(i + 1)
      OBVIOUS
    <3>. QED  BY <3>1
  <2>. HIDE DEF S
  <2>3. a \in [1..i -> S]
    BY <2>1
  <2>. HIDE DEF a
  <2>. QED  BY <2>2, <2>3
<1>2. \A j \in 1..i : a[j] = f[j]
  OBVIOUS
<1>. HIDE DEF a, S
<1>3. /\ Append(a, x) = [j \in 1..(i + 1) |-> Append(a, x)[j]]
      /\ Append(a, x)[i + 1] = x
      /\ \A j \in 1..i : Append(a, x)[j] = a[j]
  BY <1>1
<1>4. \A j \in 1..(i + 1) : j = i + 1 \/ j \in 1..i
  OBVIOUS
<1>5. \A j \in 1..(i + 1) : Append(a, x)[j] = f[j]
  BY <1>2, <1>3, <1>4
<1>6. Append(a, x) = f
  BY <1>3, <1>5
<1>. QED  BY <1>6 DEF a

(* A byte more.                                                            *)
LEMMA MarkedStep ==
  ASSUME NEW n \in Nat, NEW actual \in [1..n -> HEX], NEW expected \in [1..n -> HEX],
         NEW mode \in Modes, NEW zeros \in BOOLEAN, NEW i \in 0..(n - 1), NEW acc,
         MarkedTo(acc, actual, expected, mode, zeros, i)
  PROVE  MarkedTo(MarkByte(acc, actual[i + 1], expected[i + 1], mode),
                  actual, expected, mode, zeros, i + 1)
<1>. DEFINE r == acc.in_mismatch_run
            z == acc.in_leading_zero_run
            s == acc.still_leading_zeros
            act == actual[i + 1]
            exp == expected[i + 1]
            A(j) == ActualSeen(actual, expected, mode, zeros, j)
            E(j) == ExpectedSeen(actual, expected, mode, j)
            m == IF r THEN actual_start(mode) ELSE IF z THEN ZeroStart ELSE end(mode)
            x == IF r THEN expected_start(mode) ELSE end(mode)
<1>0. /\ i \in Nat /\ i + 1 \in 1..n /\ i + 1 > 0 /\ i + 1 # 0 /\ i + 1 \in 1..(i + 1)
      /\ \A j \in 1..(i + 1) : j = i + 1 \/ j \in 1..i
      /\ \A j \in 1..i : j \in 1..(i + 1)
  OBVIOUS
<1>1. /\ i \in Nat /\ i + 1 \in 1..n /\ act \in HEX /\ exp \in HEX /\ i + 1 > 0
      /\ act \in Bytes /\ exp \in Bytes /\ "  " \in Bytes /\ i + 1 # 0
  BY <1>0 DEF Bytes
<1>2. /\ r \in BOOLEAN /\ z \in BOOLEAN /\ s \in BOOLEAN /\ ~(r /\ s) /\ (z <=> (i > 0 /\ s))
      /\ i = 0 => s = zeros
      /\ i > 0 => (s <=> LeadingZero(actual, expected, mode, zeros, i))
      /\ ReadsAs(acc.actual_out, mode, m, [j \in 1..i |-> A(j)])
      /\ ReadsAs(acc.expected_out, mode, x, [j \in 1..i |-> E(j)])
  BY DEF MarkedTo
<1>3. z => mode = "Ansi" /\ ~r
  BY <1>2 DEF LeadingZero
<1>4. LeadingZero(actual, expected, mode, zeros, i + 1) <=>
        (s /\ act = "00" /\ exp = "00" /\ mode = "Ansi")
  <2>. DEFINE Zero(j) == actual[j] = "00" /\ expected[j] = "00"
  <2>1. Zero(i + 1) <=> (act = "00" /\ exp = "00")
    OBVIOUS
  <2>. HIDE DEF Zero, s, act, exp
  <2>2. (\A j \in 1..(i + 1) : Zero(j)) <=> ((\A j \in 1..i : Zero(j)) /\ Zero(i + 1))
    BY <1>0
  <2>3. (zeros /\ (i > 0 => mode = "Ansi" /\ \A j \in 1..i : Zero(j))) <=> s
    <3>1. CASE i = 0
      BY <1>2, <3>1
    <3>2. CASE i > 0
      <4>1. s <=> (zeros /\ mode = "Ansi" /\ \A j \in 1..i : Zero(j))
        BY <1>2, <3>2 DEF LeadingZero, Zero
      <4>. QED  BY <3>2, <4>1
    <3>. QED  BY <1>0, <3>1, <3>2
  <2>4. i = 0 => \A j \in 1..i : Zero(j)
    OBVIOUS
  <2>5. LeadingZero(actual, expected, mode, zeros, i + 1) <=>
          (zeros /\ mode = "Ansi" /\ \A j \in 1..(i + 1) : Zero(j))
    BY DEF LeadingZero, Zero
  <2>6. i = 0 \/ i > 0
    BY <1>0
  <2>. QED  BY <2>1, <2>2, <2>3, <2>4, <2>5, <2>6
<1>5. /\ Append([j \in 1..i |-> A(j)], A(i + 1)) = [j \in 1..(i + 1) |-> A(j)]
      /\ Append([j \in 1..i |-> E(j)], E(i + 1)) = [j \in 1..(i + 1) |-> E(j)]
  <2>. DEFINE f == [j \in 1..(i + 1) |-> A(j)]
              g == [j \in 1..(i + 1) |-> E(j)]
  <2>. HIDE DEF A, E
  <2>1. /\ f = [j \in 1..(i + 1) |-> f[j]] /\ f[i + 1] = A(i + 1)
        /\ g = [j \in 1..(i + 1) |-> g[j]] /\ g[i + 1] = E(i + 1)
    BY <1>0
  <2>2. /\ [j \in 1..i |-> f[j]] = [j \in 1..i |-> A(j)]
        /\ [j \in 1..i |-> g[j]] = [j \in 1..i |-> E(j)]
    BY <1>0
  <2>. HIDE DEF f, g
  <2>3. /\ Append([j \in 1..i |-> f[j]], A(i + 1)) = f
        /\ Append([j \in 1..i |-> g[j]], E(i + 1)) = g
    BY <1>0, <2>1, TableExtended
  <2>. QED  BY <2>2, <2>3 DEF f, g
<1>. HIDE DEF m, x, A, E
<1>6. CASE exp = act
  <2>. DEFINE zero == s /\ act = "00" /\ mode = "Ansi"
              a1 == acc.actual_out \o If(r, end(mode))
              m1 == IF r THEN end(mode) ELSE m
              a2 == a1 \o If(zero /\ ~z, ZeroStart)
              m2 == IF zero /\ ~z THEN ZeroStart ELSE m1
              a3 == a2 \o If(~zero /\ z, "plain")
              m3 == IF ~zero /\ z THEN "plain" ELSE m2
              e1 == acc.expected_out \o If(r, end(mode))
              x1 == IF r THEN end(mode) ELSE x
              a == a3 \o <<act>>
              e == e1 \o <<"  ">>
  <2>0. zero \in BOOLEAN /\ (zero <=> LeadingZero(actual, expected, mode, zeros, i + 1))
        /\ (zero => mode = "Ansi" /\ s /\ ~r)
    BY <1>2, <1>4, <1>6
  <2>. HIDE DEF zero
  <2>1. m1 = (IF z THEN ZeroStart ELSE end(mode)) /\ x1 = end(mode)
    BY <1>3 DEF m, x
  <2>2. ReadsAs(a1, mode, m1, [j \in 1..i |-> A(j)]) /\ ReadsAs(e1, mode, x1, [j \in 1..i |-> E(j)])
    <3>1. r => end(mode) = end(mode) /\ m # end(mode) /\ x # end(mode)
      BY StartsAre DEF m, x
    <3>. HIDE DEF a1, m1, e1, x1
    <3>2. r => /\ end(mode) = end(mode) <=> m # end(mode)
               /\ end(mode) = end(mode) <=> x # end(mode)
      BY <3>1
    <3>3. end(mode) \in Marks
      BY StartsAre
    <3>4. ReadsAs(acc.actual_out \o If(r, end(mode)), mode, IF r THEN end(mode) ELSE m,
                  [j \in 1..i |-> A(j)])
      BY <1>2, <3>2, <3>3, MarkReadsAs
    <3>5. ReadsAs(acc.expected_out \o If(r, end(mode)), mode, IF r THEN end(mode) ELSE x,
                  [j \in 1..i |-> E(j)])
      BY <1>2, <3>2, <3>3, MarkReadsAs
    <3>. QED  BY <3>4, <3>5 DEF a1, m1, e1, x1
  <2>. HIDE DEF a1, m1, e1, x1
  <2>3. ReadsAs(a2, mode, m2, [j \in 1..i |-> A(j)])
    <3>1. (zero /\ ~z) => (ZeroStart = end(mode) <=> m1 # end(mode))
      BY <2>0, <2>1, StartsAre
    <3>2. (zero /\ ~z) \in BOOLEAN /\ ZeroStart \in Marks
      BY StartsAre
    <3>. HIDE DEF a2, m2
    <3>3. ReadsAs(a1 \o If(zero /\ ~z, ZeroStart), mode, IF zero /\ ~z THEN ZeroStart ELSE m1,
                  [j \in 1..i |-> A(j)])
      BY <2>2, <3>1, <3>2, MarkReadsAs
    <3>. QED  BY <3>3 DEF a2, m2
  <2>4. m2 = IF zero \/ z THEN ZeroStart ELSE end(mode)
    BY <2>1
  <2>. HIDE DEF a2, m2
  <2>5. ReadsAs(a3, mode, m3, [j \in 1..i |-> A(j)])
    <3>1. (~zero /\ z) => ("plain" = end(mode) <=> m2 # end(mode))
      BY <1>3, <2>4, StartsAre
    <3>2. (~zero /\ z) \in BOOLEAN /\ "plain" \in Marks
      BY StartsAre
    <3>. HIDE DEF a3, m3
    <3>3. ReadsAs(a2 \o If(~zero /\ z, "plain"), mode, IF ~zero /\ z THEN "plain" ELSE m2,
                  [j \in 1..i |-> A(j)])
      BY <2>3, <3>1, <3>2, MarkReadsAs
    <3>. QED  BY <3>3 DEF a3, m3
  <2>6. m3 = IF zero THEN ZeroStart ELSE end(mode)
    BY <1>3, <2>4, StartsAre
  <2>. HIDE DEF a3, m3
  <2>7. A(i + 1) = <<act, m3>> /\ E(i + 1) = <<"  ", x1>>
    BY <1>6, <2>0, <2>1, <2>6 DEF A, E, ActualSeen, ExpectedSeen
  <2>8. /\ ReadsAs(a, mode, m3, [j \in 1..(i + 1) |-> A(j)])
        /\ ReadsAs(e, mode, x1, [j \in 1..(i + 1) |-> E(j)])
    <3>. HIDE DEF act
    <3>1. ReadsAs(a3 \o <<act>>, mode, m3, Append([j \in 1..i |-> A(j)], <<act, m3>>))
      BY <1>1, <2>5, ByteReadsAs
    <3>2. ReadsAs(e1 \o <<"  ">>, mode, x1, Append([j \in 1..i |-> E(j)], <<"  ", x1>>))
      BY <1>1, <2>2, ByteReadsAs
    <3>. QED  BY <1>5, <2>7, <3>1, <3>2
  <2>9. MarkByte(acc, act, exp, mode) =
          [actual_out |-> a, expected_out |-> e, in_mismatch_run |-> FALSE,
           in_leading_zero_run |-> zero, still_leading_zeros |-> zero]
    BY <1>6 DEF MarkByte, Same, zero, a1, a2, a3, e1
  <2>. HIDE DEF a, e
  <2>. DEFINE new == MarkByte(acc, act, exp, mode)
  <2>10. /\ new.actual_out = a /\ new.expected_out = e /\ new.in_mismatch_run = FALSE
         /\ new.in_leading_zero_run = zero /\ new.still_leading_zeros = zero
    BY <2>9
  <2>. HIDE DEF new
  <2>11. MarkedTo(new, actual, expected, mode, zeros, i + 1)
    BY <1>1, <2>0, <2>1, <2>6, <2>8, <2>10 DEF MarkedTo, A, E
  <2>. QED  BY <2>11 DEF new
<1>7. CASE exp # act
  <2>. DEFINE a1 == acc.actual_out \o If(z, "plain")
              m1 == IF z THEN "plain" ELSE m
              a2 == a1 \o If(~r, actual_start(mode))
              m2 == IF ~r THEN actual_start(mode) ELSE m1
              e1 == acc.expected_out \o If(~r, expected_start(mode))
              x1 == IF ~r THEN expected_start(mode) ELSE x
              a == a2 \o <<act>>
              e == e1 \o <<exp>>
  <2>1. ReadsAs(a1, mode, m1, [j \in 1..i |-> A(j)])
    <3>1. z => ("plain" = end(mode) <=> m # end(mode))
      BY <1>3, StartsAre DEF m
    <3>2. z \in BOOLEAN /\ "plain" \in Marks
      BY <1>2, StartsAre
    <3>. HIDE DEF a1, m1
    <3>3. ReadsAs(acc.actual_out \o If(z, "plain"), mode, IF z THEN "plain" ELSE m,
                  [j \in 1..i |-> A(j)])
      BY <1>2, <3>1, <3>2, MarkReadsAs
    <3>. QED  BY <3>3 DEF a1, m1
  <2>2. m1 = IF r THEN actual_start(mode) ELSE end(mode)
    BY <1>3, StartsAre DEF m
  <2>. HIDE DEF a1, m1
  <2>3. ReadsAs(a2, mode, m2, [j \in 1..i |-> A(j)]) /\ ReadsAs(e1, mode, x1, [j \in 1..i |-> E(j)])
    <3>1. /\ ~r => (actual_start(mode) = end(mode) <=> m1 # end(mode))
          /\ ~r => (expected_start(mode) = end(mode) <=> x # end(mode))
      BY <2>2, StartsAre DEF x
    <3>2. (~r) \in BOOLEAN /\ actual_start(mode) \in Marks /\ expected_start(mode) \in Marks
      BY <1>2, StartsAre
    <3>. HIDE DEF a2, m2, e1, x1
    <3>3. ReadsAs(a1 \o If(~r, actual_start(mode)), mode, IF ~r THEN actual_start(mode) ELSE m1,
                  [j \in 1..i |-> A(j)])
      BY <2>1, <3>1, <3>2, MarkReadsAs
    <3>4. ReadsAs(acc.expected_out \o If(~r, expected_start(mode)), mode,
                  IF ~r THEN expected_start(mode) ELSE x, [j \in 1..i |-> E(j)])
      BY <1>2, <3>1, <3>2, MarkReadsAs
    <3>. QED  BY <3>3, <3>4 DEF a2, m2, e1, x1
  <2>4. m2 = actual_start(mode) /\ x1 = expected_start(mode)
    BY <2>2 DEF x
  <2>. HIDE DEF a2, m2, e1, x1
  <2>5. A(i + 1) = <<act, m2>> /\ E(i + 1) = <<exp, x1>>
    BY <1>7, <2>4 DEF A, E, ActualSeen, ExpectedSeen
  <2>6. /\ ReadsAs(a, mode, m2, [j \in 1..(i + 1) |-> A(j)])
        /\ ReadsAs(e, mode, x1, [j \in 1..(i + 1) |-> E(j)])
    <3>. HIDE DEF act, exp
    <3>1. ReadsAs(a2 \o <<act>>, mode, m2, Append([j \in 1..i |-> A(j)], <<act, m2>>))
      BY <1>1, <2>3, ByteReadsAs
    <3>2. ReadsAs(e1 \o <<exp>>, mode, x1, Append([j \in 1..i |-> E(j)], <<exp, x1>>))
      BY <1>1, <2>3, ByteReadsAs
    <3>. QED  BY <1>5, <2>5, <3>1, <3>2
  <2>7. MarkByte(acc, act, exp, mode) =
          [actual_out |-> a, expected_out |-> e, in_mismatch_run |-> TRUE,
           in_leading_zero_run |-> FALSE, still_leading_zeros |-> FALSE]
    BY <1>7 DEF MarkByte, Differ, a1, a2, e1
  <2>8. ~LeadingZero(actual, expected, mode, zeros, i + 1)
    BY <1>4, <1>7
  <2>. HIDE DEF a, e
  <2>. DEFINE new == MarkByte(acc, act, exp, mode)
  <2>9. /\ new.actual_out = a /\ new.expected_out = e /\ new.in_mismatch_run = TRUE
        /\ new.in_leading_zero_run = FALSE /\ new.still_leading_zeros = FALSE
    BY <2>7
  <2>. HIDE DEF new
  <2>10. MarkedTo(new, actual, expected, mode, zeros, i + 1)
    BY <1>1, <2>4, <2>6, <2>8, <2>9 DEF MarkedTo, A, E
  <2>. QED  BY <2>10 DEF new
<1>. QED  BY <1>6, <1>7

-----------------------------------------------------------------------------
(* A whole field, with the marks closed after its last byte.               *)
LEMMA LinesShow ==
  ASSUME NEW n \in Nat, NEW actual \in [1..n -> HEX], NEW expected \in [1..n -> HEX],
         NEW mode \in Modes, NEW zeros \in BOOLEAN
  PROVE  Shows(Lines(actual, expected, mode, zeros), actual, expected, mode, zeros)
<1>. DEFINE f == Marking(expected, actual, mode, zeros)
            A == [j \in 1..n |-> ActualSeen(actual, expected, mode, zeros, j)]
            E == [j \in 1..n |-> ExpectedSeen(actual, expected, mode, j)]
            N == {i \in Nat : i <= n => MarkedTo(f[i], actual, expected, mode, zeros, i)}
            marked == highlight_with_expected_mode(expected, actual, mode, zeros)
            r == f[n].in_mismatch_run
            z == f[n].in_leading_zero_run
            a1 == f[n].actual_out \o If(z, "plain")
<1>1. /\ marked = [actual |-> f[n].actual_out \o If(z, "plain") \o If(r, end(mode)),
                   expected |-> f[n].expected_out \o If(r, end(mode))]
      /\ f[0] = Unmarked(zeros)
      /\ \A i \in 1..n : f[i] = MarkByte(f[i - 1], actual[i], expected[i], mode)
  BY MarkingIs
<1>. HIDE DEF f, marked
<1>2. 0 \in N
  <2>1. /\ f[0].actual_out = <<>> /\ f[0].expected_out = <<>> /\ f[0].in_mismatch_run = FALSE
        /\ f[0].in_leading_zero_run = FALSE /\ f[0].still_leading_zeros = zeros
    BY <1>1 DEF Unmarked
  <2>2. /\ [j \in 1..0 |-> ActualSeen(actual, expected, mode, zeros, j)] = <<>>
        /\ [j \in 1..0 |-> ExpectedSeen(actual, expected, mode, j)] = <<>>
    OBVIOUS
  <2>3. MarkedTo(f[0], actual, expected, mode, zeros, 0)
    <3>1. /\ ReadsAs(f[0].actual_out, mode, end(mode),
                     [j \in 1..0 |-> ActualSeen(actual, expected, mode, zeros, j)])
          /\ ReadsAs(f[0].expected_out, mode, end(mode),
                     [j \in 1..0 |-> ExpectedSeen(actual, expected, mode, j)])
      BY <2>1, <2>2, EmptyReadsAs
    <3>2. ~(0 > 0)
      OBVIOUS
    <3>. QED  BY <2>1, <3>1, <3>2 DEF MarkedTo
  <2>. QED  BY <2>3
<1>3. ASSUME NEW i \in Nat, i \in N PROVE i + 1 \in N
  <2>. SUFFICES ASSUME i + 1 <= n PROVE MarkedTo(f[i + 1], actual, expected, mode, zeros, i + 1)
    OBVIOUS
  <2>1. i \in 0..(n - 1) /\ i + 1 \in 1..n /\ (i + 1) - 1 = i /\ i <= n
    OBVIOUS
  <2>2. f[i + 1] = MarkByte(f[i], actual[i + 1], expected[i + 1], mode)
    BY <1>1, <2>1
  <2>3. MarkedTo(f[i], actual, expected, mode, zeros, i)
    BY <1>3, <2>1
  <2>. QED  BY <2>1, <2>2, <2>3, MarkedStep
<1>4. MarkedTo(f[n], actual, expected, mode, zeros, n)
  <2>1. Nat \subseteq N
    <3>. HIDE DEF N
    <3>. QED  BY <1>2, <1>3, SetInduction
  <2>. QED  BY <2>1
<1>5. r \in BOOLEAN /\ z \in BOOLEAN /\ ~(r /\ z) /\ (z => mode = "Ansi")
  BY <1>4 DEF MarkedTo, LeadingZero
<1>6. ReadsAs(marked.actual, mode, end(mode), A)
  <2>. DEFINE m == IF r THEN actual_start(mode) ELSE IF z THEN ZeroStart ELSE end(mode)
              m1 == IF z THEN "plain" ELSE m
  <2>1. ReadsAs(f[n].actual_out, mode, m, A)
    BY <1>4 DEF MarkedTo
  <2>2. z => ("plain" = end(mode) <=> m # end(mode))
    BY <1>5, StartsAre
  <2>3. "plain" \in Marks /\ end(mode) \in Marks
    BY StartsAre
  <2>. HIDE DEF m, A
  <2>4. ReadsAs(a1, mode, m1, A)
    BY <1>5, <2>1, <2>2, <2>3, MarkReadsAs
  <2>5. m1 = IF r THEN actual_start(mode) ELSE end(mode)
    BY <1>5, StartsAre DEF m
  <2>6. r => (end(mode) = end(mode) <=> m1 # end(mode))
    BY <2>5, StartsAre
  <2>. HIDE DEF a1, m1
  <2>7. ReadsAs(a1 \o If(r, end(mode)), mode, IF r THEN end(mode) ELSE m1, A)
    BY <1>5, <2>3, <2>4, <2>6, MarkReadsAs
  <2>8. (IF r THEN end(mode) ELSE m1) = end(mode)
    BY <2>5
  <2>9. marked.actual = a1 \o If(r, end(mode))
    BY <1>1 DEF a1
  <2>. QED  BY <2>7, <2>8, <2>9
<1>7. ReadsAs(marked.expected, mode, end(mode), E)
  <2>. DEFINE m == IF r THEN expected_start(mode) ELSE end(mode)
  <2>1. ReadsAs(f[n].expected_out, mode, m, E)
    BY <1>4 DEF MarkedTo
  <2>2. r => (end(mode) = end(mode) <=> m # end(mode))
    BY StartsAre
  <2>3. end(mode) \in Marks
    BY StartsAre
  <2>. HIDE DEF m, E
  <2>4. ReadsAs(f[n].expected_out \o If(r, end(mode)), mode, IF r THEN end(mode) ELSE m, E)
    BY <1>5, <2>1, <2>2, <2>3, MarkReadsAs
  <2>5. (IF r THEN end(mode) ELSE m) = end(mode)
    BY DEF m
  <2>6. marked.expected = f[n].expected_out \o If(r, end(mode))
    BY <1>1
  <2>. QED  BY <2>4, <2>5, <2>6
<1>8. ASSUME NEW line, NEW bytes, ReadsAs(line, mode, end(mode), bytes)
      PROVE  Closed(line, mode) /\ Seen(line, mode) = bytes
  BY <1>8 DEF ReadsAs, Closed, Seen
<1>9. DOMAIN actual = 1..n
  OBVIOUS
<1>10. ReadsAs(IF actual # expected THEN marked.expected ELSE <<>>, mode, end(mode),
               IF actual = expected THEN <<>> ELSE E)
  BY <1>7, EmptyReadsAs
<1>. DEFINE lines == Lines(actual, expected, mode, zeros)
<1>11. /\ lines.actual = marked.actual
       /\ lines.expected = IF actual # expected THEN marked.expected ELSE <<>>
  BY DEF Lines, marked
<1>. HIDE DEF lines
<1>12. /\ Closed(lines.actual, mode) /\ Seen(lines.actual, mode) = A
       /\ Closed(lines.expected, mode)
       /\ Seen(lines.expected, mode) = IF actual = expected THEN <<>> ELSE E
  BY <1>6, <1>8, <1>10, <1>11
<1>13. Shows(lines, actual, expected, mode, zeros)
  BY <1>9, <1>12 DEF Shows, ActualSeen, ExpectedSeen, LeadingZero
<1>. QED  BY <1>13 DEF lines

(* What was written, and of what.                                          *)
WrittenInv ==
  pc = "written" =>
    /\ report.mode \in Modes
    /\ \E bytes \in {2 * WIDE, NARROW} : report.actual \in [1..bytes -> HEX]
                                        /\ report.expected \in [1..bytes -> HEX]
    /\ report.lines = push_claim_mismatch_field(report.actual, report.expected, report.mode)

(* For fields of any width over any bytes, in either mode: what is printed *)
(* can be read back, and its marks are where the values differ, whatever   *)
(* differs (highlight_with_expected_mode, push_claim_mismatch_field).      *)
THEOREM ReportsShowDifferences == ReportSpec => []ReportShowsDifference
<1>1. ReportInit => WrittenInv
  BY DEF ReportInit, Init, WrittenInv
<1>2. WrittenInv /\ [ReportNext]_reportVars => WrittenInv'
  <2>. SUFFICES ASSUME WrittenInv, [ReportNext]_reportVars PROVE WrittenInv'
    OBVIOUS
  <2>1. CASE Search
    <3>1. pc' # "written"
      BY <2>1 DEF Search, Next, AcceptBatch, StartBisection, Narrow, Report
    <3>. QED  BY <3>1 DEF WrittenInv
  <2>2. CASE Write
    BY <2>2 DEF Write, WrittenInv
  <2>3. CASE UNCHANGED reportVars
    BY <2>3 DEF reportVars, vars, WrittenInv
  <2>. QED  BY <2>1, <2>2, <2>3 DEF ReportNext
<1>3. WrittenInv => ReportShowsDifference
  <2>. SUFFICES ASSUME WrittenInv, pc = "written" PROVE ReportShowsDifference
    BY DEF ReportShowsDifference
  <2>. DEFINE actual == report.actual
              expected == report.expected
              mode == report.mode
  <2>1. PICK bytes \in {2 * WIDE, NARROW} :
          actual \in [1..bytes -> HEX] /\ expected \in [1..bytes -> HEX]
    BY DEF WrittenInv
  <2>2. mode \in Modes /\ report.lines = push_claim_mismatch_field(actual, expected, mode)
    BY DEF WrittenInv
  <2>. HIDE DEF actual, expected, mode
  <2>3. WIDE \in Nat /\ NARROW \in Nat /\ bytes \in Nat /\ Len(actual) = bytes
    <3>1. WIDE \in Nat /\ NARROW \in Nat
      BY ReportAssumption
    <3>2. bytes \in Nat
      BY <3>1
    <3>. QED  BY <2>1, <3>1, <3>2
  <2>4. CASE bytes = 2 * WIDE
    <3>1. ASSUME NEW half \in 1..2
          PROVE  LET from == (half - 1) * WIDE + 1
                     to   == half * WIDE
                 IN  Shows(report.lines[half], SubSeq(actual, from, to),
                           SubSeq(expected, from, to), mode, FALSE)
      <4>. DEFINE from == (half - 1) * WIDE + 1
                  to == half * WIDE
                  a == SubSeq(actual, from, to)
                  e == SubSeq(expected, from, to)
      <4>1. /\ from \in 1..(bytes + 1) /\ to \in 0..bytes /\ to = (from + WIDE) - 1
        <5>1. CASE half = 1
          BY <2>3, <2>4, <5>1
        <5>2. CASE half = 2
          BY <2>3, <2>4, <5>2
        <5>. QED  BY <5>1, <5>2
      <4>2. report.lines[half] = Lines(a, e, mode, FALSE)
        BY <2>2, <2>3, <2>4 DEF push_claim_mismatch_field
      <4>. HIDE DEF from, to
      <4>3. \A s \in [1..bytes -> HEX] : SubSeq(s, from, to) \in [1..WIDE -> HEX]
        <5>. SUFFICES ASSUME NEW s \in [1..bytes -> HEX]
                      PROVE  SubSeq(s, from, to) \in [1..WIDE -> HEX]
          OBVIOUS
        <5>1. s \in Seq(HEX) /\ Len(s) = bytes
          BY <2>3
        <5>2. \A k \in 1..WIDE : (from + k) - 1 \in 1..bytes
          BY <2>3, <4>1
        <5>3. (to - from) + 1 = WIDE
          BY <2>3, <4>1
        <5>4. SubSeq(s, from, to) = [k \in 1..WIDE |-> s[(from + k) - 1]]
          BY <2>3, <4>1, <5>1, <5>3
        <5>5. \A k \in 1..WIDE : s[(from + k) - 1] \in HEX
          BY <5>2
        <5>. QED  BY <5>4, <5>5
      <4>4. a \in [1..WIDE -> HEX] /\ e \in [1..WIDE -> HEX]
        BY <2>1, <4>3
      <4>. HIDE DEF a, e
      <4>5. Shows(Lines(a, e, mode, FALSE), a, e, mode, FALSE)
        BY <2>2, <2>3, <4>4, LinesShow
      <4>. QED  BY <4>2, <4>5 DEF from, to, a, e
    <3>. QED  BY <2>3, <2>4, <3>1 DEF ReportShowsDifference, actual, expected, mode
  <2>5. CASE bytes # 2 * WIDE
    <3>1. bytes = NARROW
      BY <2>5
    <3>2. report.lines[1] = Lines(actual, expected, mode, TRUE)
      <4>. DEFINE zeros == Len(actual) = NARROW
      <4>1. report.lines = <<Lines(actual, expected, mode, zeros)>>
        BY <2>2, <2>3, <2>5 DEF push_claim_mismatch_field
      <4>2. zeros = TRUE
        BY <2>3, <3>1
      <4>. HIDE DEF zeros
      <4>. QED  BY <4>1, <4>2
    <3>3. Shows(Lines(actual, expected, mode, TRUE), actual, expected, mode, TRUE)
      BY <2>1, <2>2, <2>3, LinesShow
    <3>. QED  BY <2>3, <2>5, <3>2, <3>3 DEF ReportShowsDifference, actual, expected, mode
  <2>. QED  BY <2>4, <2>5
<1>. QED  BY <1>1, <1>2, <1>3, PTL DEF ReportSpec

=============================================================================
