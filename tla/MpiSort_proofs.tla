--------------------------- MODULE MpiSort_proofs ---------------------------
(***************************************************************************)
(* Proofs about the MPI baseline, for every job that meets the assumption  *)
(* of MpiSort: any number of ranks, keys, buckets, iterations and test     *)
(* keys.                                                                   *)
(***************************************************************************)
EXTENDS MpiSortInv, FiniteSetTheorems, WellFoundedInduction, TLAPS

-----------------------------------------------------------------------------
(* Numbers, sums and counts.                                               *)

(* A quotient and the remainder that goes with it.                         *)
LEMMA Quotients ==
  ASSUME NEW n \in Nat, NEW d \in Nat \ {0}
  PROVE  /\ n \div d \in Nat
         /\ n - d * (n \div d) \in 0 .. d - 1
         /\ n % d = n - d * (n \div d)
  BY SMT

LEMMA LessThan ==
  \E R : IsWellFoundedOn(R, Nat) /\ \A x, y \in Nat : y < x => <<y, x>> \in R
<1>1. \A x, y \in Nat : y < x => <<y, x>> \in OpToRel(<, Nat)
  BY DEF OpToRel
<1>. QED  BY <1>1, NatLessThanWellFounded, Zenon

LEMMA LeastElement ==
  ASSUME NEW S \in SUBSET Nat, S # {}
  PROVE  \E n \in S : \A m \in S : n <= m
<1>1. PICK R : IsWellFoundedOn(R, Nat) /\ \A x, y \in Nat : y < x => <<y, x>> \in R
  BY LessThan
<1>2. PICK n \in S : \A y \in S : ~ (<<y, n>> \in R)
  BY <1>1, WFMin
<1>3. \A m \in S : ~ (m < n)
  BY <1>1, <1>2
<1>4. \A m \in S : n <= m
  BY <1>3
<1>. QED  BY <1>4

(* What SumOver() goes through, one element after the other.               *)
Adds(iter, values, S) ==
  iter = [s \in SUBSET S |->
            IF s = {} THEN 0
            ELSE values[CHOOSE x \in s : TRUE] + iter[s \ {CHOOSE x \in s : TRUE}]]

LEMMA SumOverIs ==
  ASSUME NEW values, NEW S
  PROVE  SumOver(values, S) = (CHOOSE iter : Adds(iter, values, S))[S]
BY DEF SumOver, MapThenSumSet, MapThenFoldSet, Adds

(* A function that adds the elements in any order has the sum.             *)
Sums(g, values, S) ==
  /\ g = [s \in SUBSET S |-> g[s]]
  /\ g[{}] = 0
  /\ \A s \in SUBSET S : \A x \in s : g[s] = values[x] + g[s \ {x}]

LEMMA SumIs ==
  ASSUME NEW S, IsFiniteSet(S), NEW values, NEW g, Sums(g, values, S)
  PROVE  SumOver(values, S) = g[S]
<1>. USE DEF Sums
<1>1. Adds(g, values, S)
  <2>1. ASSUME NEW s \in SUBSET S
        PROVE  g[s] = IF s = {} THEN 0
                 ELSE values[CHOOSE x \in s : TRUE] + g[s \ {CHOOSE x \in s : TRUE}]
    <3>1. CASE s = {}  BY <3>1
    <3>2. CASE s # {}
      <4>1. (CHOOSE x \in s : TRUE) \in s  BY <3>2
      <4>. QED  BY <3>2, <4>1
    <3>. QED  BY <3>1, <3>2
  <2>2. g = [s \in SUBSET S |->
              IF s = {} THEN 0
              ELSE values[CHOOSE x \in s : TRUE] + g[s \ {CHOOSE x \in s : TRUE}]]
    BY <2>1
  <2>. QED  BY <2>2 DEF Adds
<1>2. PICK iter : iter = CHOOSE f : Adds(f, values, S)
  OBVIOUS
<1>3. Adds(iter, values, S)
  BY <1>1, <1>2
<1>4. ASSUME NEW s \in SUBSET S, iter[s] # g[s]
      PROVE  \E t \in SUBSET S : iter[t] # g[t] /\ Cardinality(t) < Cardinality(s)
  <2>1. s # {}
    BY <1>3, <1>4 DEF Adds
  <2>2. PICK x \in s : /\ iter[s] = values[x] + iter[s \ {x}]
    <3>1. (CHOOSE x \in s : TRUE) \in s  BY <2>1
    <3>. QED  BY <1>3, <2>1, <3>1 DEF Adds
  <2>3. iter[s \ {x}] # g[s \ {x}]
    <3>1. g[s] = values[x] + g[s \ {x}]  OBVIOUS
    <3>. QED  BY <1>4, <2>2, <3>1
  <2>4. IsFiniteSet(s)  BY FS_Subset
  <2>5. Cardinality(s \ {x}) = Cardinality(s) - 1 /\ Cardinality(s) \in Nat
    BY <2>4, FS_RemoveElement, FS_CardinalityType
  <2>. QED  BY <2>3, <2>5
<1>5. \A s \in SUBSET S : iter[s] = g[s]
  <2>. SUFFICES ASSUME NEW s \in SUBSET S, iter[s] # g[s]  PROVE FALSE
    OBVIOUS
  <2>. DEFINE Wrong == {Cardinality(t) : t \in {u \in SUBSET S : iter[u] # g[u]}}
  <2>1. Wrong \in SUBSET Nat
    <3>1. \A u \in SUBSET S : IsFiniteSet(u)  BY FS_Subset
    <3>2. \A u \in SUBSET S : Cardinality(u) \in Nat  BY <3>1, FS_CardinalityType
    <3>. QED  BY <3>2
  <2>2. Cardinality(s) \in Wrong  OBVIOUS
  <2>3. PICK n \in Wrong : \A m \in Wrong : n <= m
    <3>. HIDE DEF Wrong
    <3>1. Wrong # {}  BY <2>2
    <3>. QED  BY <2>1, <3>1, LeastElement
  <2>4. PICK t \in SUBSET S : iter[t] # g[t] /\ Cardinality(t) = n
    BY <2>3
  <2>5. PICK u \in SUBSET S : iter[u] # g[u] /\ Cardinality(u) < n
    BY <1>4, <2>4
  <2>6. Cardinality(u) \in Wrong  BY <2>5
  <2>7. n \in Nat /\ Cardinality(u) \in Nat
    <3>. HIDE DEF Wrong
    <3>. QED  BY <2>1, <2>3, <2>6
  <2>8. n <= Cardinality(u)
    <3>. HIDE DEF Wrong
    <3>. QED  BY <2>3, <2>6
  <2>. QED  BY <2>5, <2>7, <2>8
<1>. QED  BY <1>2, <1>5, SumOverIs

(* The elements of a finite set, counted class by class.                   *)
Class(A, h, x) == {i \in A : h[i] = x}
Within(A, h, S) == {i \in A : h[i] \in S}

LEMMA SumOfClasses ==
  ASSUME NEW S, IsFiniteSet(S), NEW A, IsFiniteSet(A), NEW h, NEW values,
         \A x \in S : values[x] = Cardinality(Class(A, h, x))
  PROVE  SumOver(values, S) = Cardinality(Within(A, h, S))
<1>. USE DEF Class, Within
<1>. DEFINE g == [s \in SUBSET S |-> Cardinality({i \in A : h[i] \in s})]
<1>1. g[{}] = 0
  <2>1. {i \in A : h[i] \in {}} = {}  OBVIOUS
  <2>. QED  BY <2>1, FS_EmptySet
<1>2. ASSUME NEW s \in SUBSET S, NEW x \in s
      PROVE  g[s] = values[x] + g[s \ {x}]
  <2>. DEFINE C == {i \in A : h[i] = x}
              D == {i \in A : h[i] \in s \ {x}}
  <2>1. {i \in A : h[i] \in s} = C \cup D /\ C \cap D = {}
    OBVIOUS
  <2>2. IsFiniteSet(C) /\ IsFiniteSet(D)
    <3>1. C \in SUBSET A /\ D \in SUBSET A  OBVIOUS
    <3>. QED  BY <3>1, FS_Subset
  <2>3. Cardinality(C \cup D) = Cardinality(C) + Cardinality(D)
    <3>. HIDE DEF C, D
    <3>1. Cardinality(C \cap D) = 0  BY <2>1, FS_EmptySet
    <3>2. Cardinality(C) \in Nat /\ Cardinality(D) \in Nat  BY <2>2, FS_CardinalityType
    <3>3. Cardinality(C \cup D) = Cardinality(C) + Cardinality(D) - Cardinality(C \cap D)
      BY <2>2, FS_Union
    <3>. QED  BY <3>1, <3>2, <3>3
  <2>4. values[x] = Cardinality(C)  OBVIOUS
  <2>5. g[s] = Cardinality(C \cup D) /\ g[s \ {x}] = Cardinality(D)
    BY <2>1
  <2>. QED  BY <2>3, <2>4, <2>5
<1>3. g = [s \in SUBSET S |-> g[s]]  OBVIOUS
<1>4. g[S] = Cardinality({i \in A : h[i] \in S})  OBVIOUS
<1>5. Sums(g, values, S)
  <2>1. \A s \in SUBSET S : \A x \in s : g[s] = values[x] + g[s \ {x}]
    BY <1>2
  <2>. HIDE DEF g
  <2>. QED  BY <1>1, <1>3, <2>1 DEF Sums
<1>. HIDE DEF g
<1>6. SumOver(values, S) = g[S]
  BY <1>5, SumIs
<1>. QED  BY <1>4, <1>6

-----------------------------------------------------------------------------
(* greatest_power_of_two_at_most() gives a number of ranks the job has.    *)
Doubles(count, n) == count = [c \in Nat |-> IF c < n THEN count[c * 2] ELSE c]

LEMMA DoublesExists ==
  ASSUME NEW n \in Nat \ {0}
  PROVE  \E count : Doubles(count, n)
<1>. DEFINE From(b, f) ==
       /\ f = [c \in Nat |-> f[c]]
       /\ \A c \in Nat : c >= b => f[c] = IF c < n THEN f[c * 2] ELSE c
     Good == {b \in Nat : b >= 1 /\ \E f : From(b, f)}
<1>1. n \in Good
  <2>1. From(n, [c \in Nat |-> c])  OBVIOUS
  <2>. HIDE DEF From
  <2>. QED  BY <2>1
<1>2. PICK b \in Good : \A a \in Good : b <= a
  <2>1. Good \in SUBSET Nat /\ Good # {}  BY <1>1
  <2>. HIDE DEF Good
  <2>. QED  BY <2>1, LeastElement
<1>3. PICK f : From(b, f)
  BY <1>2
<1>4. CASE b = 1
  <2>1. f = [c \in Nat |-> f[c]]
    BY <1>3
  <2>2. ASSUME NEW c \in Nat  PROVE f[c] = IF c < n THEN f[c * 2] ELSE c
    <3>1. CASE c = 0
      <4>1. c * 2 = c /\ c < n  BY <3>1
      <4>. QED  BY <4>1
    <3>2. CASE c >= 1  BY <1>3, <1>4, <3>2
    <3>. QED  BY <3>1, <3>2
  <2>3. f = [c \in Nat |-> IF c < n THEN f[c * 2] ELSE c]
    BY <2>1, <2>2
  <2>. QED  BY <2>3 DEF Doubles
<1>5. CASE b # 1
  <2>. DEFINE g == [c \in Nat |-> IF c = b - 1 THEN IF c < n THEN f[c * 2] ELSE c ELSE f[c]]
  <2>1. b - 1 \in Nat /\ b - 1 >= 1 /\ b \in Nat
    BY <1>2, <1>5
  <2>2. ASSUME NEW c \in Nat, c >= b - 1
        PROVE  g[c] = IF c < n THEN g[c * 2] ELSE c
    <3>1. c * 2 \in Nat /\ c * 2 # b - 1
      BY <2>1, <2>2
    <3>2. CASE c = b - 1  BY <3>1, <3>2
    <3>3. CASE c # b - 1
      <4>1. c >= b  BY <2>1, <2>2, <3>3
      <4>2. f[c] = IF c < n THEN f[c * 2] ELSE c  BY <1>3, <4>1
      <4>. QED  BY <3>1, <3>3, <4>2
    <3>. QED  BY <3>2, <3>3
  <2>3. From(b - 1, g)
    <3>1. g = [c \in Nat |-> g[c]]  OBVIOUS
    <3>. HIDE DEF g
    <3>. QED  BY <2>2, <3>1
  <2>4. b - 1 \in Good
    <3>. HIDE DEF From, g
    <3>. QED  BY <2>1, <2>3
  <2>. HIDE DEF Good
  <2>. QED  BY <1>2, <2>1, <2>4
<1>. QED  BY <1>4, <1>5

LEMMA DoublesValue ==
  ASSUME NEW n \in Nat \ {0}, NEW count, Doubles(count, n)
  PROVE  \A c \in 1 .. n - 1 : \E h \in 1 .. n - 1 : count[c] = 2 * h
<1>. DEFINE Is(c) == \E h \in 1 .. n - 1 : count[c] = 2 * h
            Wrong == {n - c : c \in {d \in 1 .. n - 1 : ~ Is(d)}}
<1>1. ASSUME NEW c \in 1 .. n - 1, ~ Is(c)
      PROVE  \E d \in 1 .. n - 1 : ~ Is(d) /\ d > c
  <2>1. count[c] = count[2 * c]
    BY DEF Doubles
  <2>2. CASE 2 * c < n
    <3>1. 2 * c \in 1 .. n - 1 /\ 2 * c > c  BY <2>2
    <3>2. ~ Is(2 * c)  BY <1>1, <2>1
    <3>. HIDE DEF Is
    <3>. QED  BY <3>1, <3>2
  <2>3. CASE 2 * c >= n
    <3>1. count[2 * c] = 2 * c  BY <2>3 DEF Doubles
    <3>. QED  BY <1>1, <2>1, <3>1
  <2>. QED  BY <2>2, <2>3
<1>. SUFFICES ASSUME NEW c \in 1 .. n - 1, ~ Is(c)  PROVE FALSE
  OBVIOUS
<1>2. Wrong \in SUBSET Nat /\ Wrong # {}  OBVIOUS
<1>3. PICK m \in Wrong : \A k \in Wrong : m <= k
  <2>. HIDE DEF Wrong
  <2>. QED  BY <1>2, LeastElement
<1>. HIDE DEF Is
<1>4. PICK d \in 1 .. n - 1 : ~ Is(d) /\ m = n - d
  BY <1>3
<1>5. PICK e \in 1 .. n - 1 : ~ Is(e) /\ e > d
  BY <1>1, <1>4
<1>6. n - e \in Wrong  BY <1>5
<1>. HIDE DEF Wrong
<1>. QED  BY <1>3, <1>4, <1>5, <1>6

LEMMA ActiveRanks ==
  ASSUME NEW n \in Nat \ {0}
  PROVE  GreatestPowerOfTwo(n) \in 1 .. n
<1>1. PICK count : count = CHOOSE f : Doubles(f, n)
  OBVIOUS
<1>2. Doubles(count, n)
  BY <1>1, DoublesExists
<1>3. Doubled(n) = count[1]
  BY <1>1 DEF Doubled, Doubles
<1>4. CASE n = 1
  <2>1. count[1] = 1  BY <1>2, <1>4 DEF Doubles
  <2>. QED  BY <1>3, <1>4, <2>1 DEF GreatestPowerOfTwo
<1>5. CASE n # 1
  <2>1. PICK h \in 1 .. n - 1 : count[1] = 2 * h
    BY <1>2, <1>5, DoublesValue
  <2>. QED  BY <1>3, <2>1 DEF GreatestPowerOfTwo
<1>. QED  BY <1>4, <1>5

-----------------------------------------------------------------------------
(* The division of the buckets, on counts g of keys with buckets h, of     *)
(* which there are as many as the ranks have.                              *)
LEMMA Constants ==
  /\ MAX_ITERATIONS \in Nat \ {0} /\ KeysPerBucket \in Nat \ {0}
  /\ MAX_KEY \in Nat \ {0} /\ NUM_BUCKETS \in Nat \ {0}
  /\ NUM_BUCKETS * KeysPerBucket = MAX_KEY
  /\ MAX_ITERATIONS < MAX_KEY
  /\ size_of_buffers \in Nat
  /\ TOTAL_KEYS * MIN_PROCS \in Nat \ {0}
<1>1. NUM_BUCKETS \in Nat
  BY SortAssumption DEF NUM_BUCKETS
<1>2. NUM_BUCKETS # 0
  <2>. SUFFICES ASSUME NUM_BUCKETS = 0  PROVE FALSE
    OBVIOUS
  <2>1. NUM_BUCKETS * KeysPerBucket = 0  BY SortAssumption
  <2>. QED  BY <2>1, SortAssumption
<1>3. TOTAL_KEYS * MIN_PROCS \in Nat \ {0}
  BY SortAssumption
<1>. QED  BY <1>1, <1>2, <1>3, SortAssumption

LEMMA KeysFinite ==
  /\ IsFiniteSet(AllKeys) /\ Cardinality(AllKeys) = TOTAL_KEYS * MIN_PROCS
  /\ IsFiniteSet(Bucket) /\ IsFiniteSet(KeyValue)
<1>. DEFINE n == TOTAL_KEYS * MIN_PROCS
<1>1. ASSUME NEW m \in Nat
      PROVE  IsFiniteSet(0 .. m - 1) /\ Cardinality(0 .. m - 1) = m
  <2>1. IsFiniteSet(0 .. m - 1) /\ Cardinality(0 .. m - 1) =
          IF 0 > m - 1 THEN 0 ELSE (m - 1) - 0 + 1
    BY FS_Interval
  <2>. QED  BY <2>1
<1>2. IsFiniteSet(AllKeys) /\ Cardinality(AllKeys) = n
  <2>1. n \in Nat /\ AllKeys = 0 .. n - 1  BY Constants DEF AllKeys
  <2>. HIDE DEF n
  <2>. QED  BY <1>1, <2>1
<1>3. IsFiniteSet(Bucket)  BY <1>1, Constants DEF Bucket
<1>4. IsFiniteSet(KeyValue)  BY <1>1, Constants DEF KeyValue
<1>. QED  BY <1>2, <1>3, <1>4

(* A recursion over an interval defines a function.                        *)
Recursion(f, n, a, F) == f = [b \in 0 .. n |-> IF b = 0 THEN a ELSE F[<<b, f[b - 1]>>]]

LEMMA RecursionExists ==
  ASSUME NEW n \in Nat, NEW T, NEW a \in T, NEW F \in [(1 .. n) \X T -> T]
  PROVE  \E f \in [0 .. n -> T] : Recursion(f, n, a, F)
<1>. DEFINE Up(m) == \E f \in [0 .. n -> T] :
              f[0] = a /\ \A b \in 1 .. m : f[b] = F[<<b, f[b - 1]>>]
            Wrong == {m \in 0 .. n : ~ Up(m)}
<1>1. Up(0)
  <2>1. PICK f : f = [b \in 0 .. n |-> a]  OBVIOUS
  <2>2. f \in [0 .. n -> T] /\ f[0] = a  BY <2>1
  <2>. QED  BY <2>2
<1>2. ASSUME NEW m \in 0 .. n, m > 0, Up(m - 1)  PROVE Up(m)
  <2>1. PICK f \in [0 .. n -> T] : f[0] = a /\ \A b \in 1 .. m - 1 : f[b] = F[<<b, f[b - 1]>>]
    BY <1>2
  <2>. DEFINE g == [f EXCEPT ![m] = F[<<m, f[m - 1]>>]]
  <2>2. F[<<m, f[m - 1]>>] \in T
    <3>1. m - 1 \in 0 .. n /\ m \in 1 .. n  BY <1>2
    <3>2. <<m, f[m - 1]>> \in (1 .. n) \X T  BY <3>1
    <3>. QED  BY <3>2
  <2>3. g \in [0 .. n -> T]  BY <2>2
  <2>4. g[0] = a  BY <1>2, <2>1
  <2>5. ASSUME NEW b \in 1 .. m  PROVE g[b] = F[<<b, g[b - 1]>>]
    <3>1. b - 1 \in 0 .. n /\ b - 1 # m /\ g[b - 1] = f[b - 1]  BY <1>2
    <3>2. CASE b = m  BY <3>1, <3>2
    <3>3. CASE b # m
      <4>1. b \in 1 .. m - 1 /\ g[b] = f[b]  BY <3>3
      <4>. QED  BY <2>1, <3>1, <4>1
    <3>. QED  BY <3>2, <3>3
  <2>. HIDE DEF g
  <2>. QED  BY <2>3, <2>4, <2>5
<1>3. Up(n)
  <2>. SUFFICES ASSUME ~ Up(n)  PROVE FALSE
    OBVIOUS
  <2>. HIDE DEF Up
  <2>1. n \in Wrong /\ Wrong \in SUBSET Nat  OBVIOUS
  <2>2. PICK m \in Wrong : \A k \in Wrong : m <= k
    <3>1. Wrong # {}  BY <2>1
    <3>. HIDE DEF Wrong
    <3>. QED  BY <2>1, <3>1, LeastElement
  <2>3. m \in 0 .. n /\ m # 0 /\ ~ Up(m)  BY <1>1, <2>2
  <2>4. m - 1 \notin Wrong  BY <2>2, <2>3
  <2>5. Up(m - 1)  BY <2>3, <2>4
  <2>. QED  BY <1>2, <2>3, <2>5
<1>4. PICK f \in [0 .. n -> T] : f[0] = a /\ \A b \in 1 .. n : f[b] = F[<<b, f[b - 1]>>]
  BY <1>3
<1>5. \A b \in 0 .. n : f[b] = IF b = 0 THEN a ELSE F[<<b, f[b - 1]>>]
  BY <1>4
<1>6. f = [b \in 0 .. n |-> IF b = 0 THEN a ELSE F[<<b, f[b - 1]>>]]
  BY <1>4, <1>5
<1>. QED  BY <1>4, <1>6 DEF Recursion

(* Induction over an interval, for a set of numbers.                       *)
LEMMA UpTo ==
  ASSUME NEW n \in Nat, NEW P, 0 \in P, \A m \in 0 .. n - 1 : m \in P => m + 1 \in P
  PROVE  \A m \in 0 .. n : m \in P
<1>. DEFINE Wrong == {m \in 0 .. n : m \notin P}
<1>. SUFFICES ASSUME NEW k \in 0 .. n, k \notin P  PROVE FALSE
  OBVIOUS
<1>1. Wrong \in SUBSET Nat /\ Wrong # {}  OBVIOUS
<1>2. PICK m \in Wrong : \A j \in Wrong : m <= j
  <2>. HIDE DEF Wrong
  <2>. QED  BY <1>1, LeastElement
<1>3. m \in 0 .. n /\ m # 0 /\ m \notin P  BY <1>2
<1>4. m - 1 \in 0 .. n - 1 /\ m - 1 \notin Wrong  BY <1>2, <1>3
<1>5. m - 1 \in P  BY <1>4
<1>. QED  BY <1>3, <1>4, <1>5

(* g counts the keys of each bucket, h being the bucket of each key.       *)
Counts(g, h) ==
  /\ h \in [AllKeys -> Bucket]
  /\ \A b \in Bucket : g[b] = Cardinality({i \in AllKeys : h[i] = b})

KeysBelow(h, b) == {i \in AllKeys : h[i] < b}

IsBelow(f, g) ==
  f = [b \in 0 .. NUM_BUCKETS |-> IF b = 0 THEN 0 ELSE f[b - 1] + g[b - 1]]

LEMMA KeysBelowStep ==
  ASSUME NEW h, NEW g, Counts(g, h), NEW b \in Bucket
  PROVE  /\ Cardinality(KeysBelow(h, b)) \in Nat
         /\ Cardinality(KeysBelow(h, b + 1)) = Cardinality(KeysBelow(h, b)) + g[b]
<1>. DEFINE C == {i \in AllKeys : h[i] = b}
            D == KeysBelow(h, b)
<1>0. \A i \in AllKeys : h[i] \in Int /\ b \in Int
  BY Constants DEF Counts, Bucket
<1>1. KeysBelow(h, b + 1) = C \cup D /\ C \cap D = {}
  BY <1>0 DEF KeysBelow
<1>2. IsFiniteSet(C) /\ IsFiniteSet(D)
  <2>1. C \in SUBSET AllKeys /\ D \in SUBSET AllKeys  BY DEF KeysBelow
  <2>. HIDE DEF C, D
  <2>. QED  BY <2>1, FS_Subset, KeysFinite
<1>3. Cardinality(C) \in Nat /\ Cardinality(D) \in Nat
  <2>. HIDE DEF C, D
  <2>. QED  BY <1>2, FS_CardinalityType
<1>4. Cardinality(C \cup D) = Cardinality(C) + Cardinality(D)
  <2>. HIDE DEF C, D
  <2>1. Cardinality(C \cup D) = Cardinality(C) + Cardinality(D) - Cardinality(C \cap D)
    BY <1>2, FS_Union
  <2>2. Cardinality(C \cap D) = 0  BY <1>1, FS_EmptySet
  <2>. QED  BY <1>3, <2>1, <2>2
<1>5. g[b] = Cardinality(C)  BY DEF Counts
<1>6. Cardinality(KeysBelow(h, b + 1)) = Cardinality(C \cup D)
  BY <1>1
<1>7. Cardinality(KeysBelow(h, b)) = Cardinality(D)
  OBVIOUS
<1>. HIDE DEF C, D
<1>. QED  BY <1>3, <1>4, <1>5, <1>6, <1>7

LEMMA BelowIs ==
  ASSUME NEW h, NEW g, Counts(g, h), NEW b \in 0 .. NUM_BUCKETS
  PROVE  Below(g)[b] = Cardinality(KeysBelow(h, b))
<1>. DEFINE f == [k \in 0 .. NUM_BUCKETS |-> Cardinality(KeysBelow(h, k))]
<1>1. Cardinality(KeysBelow(h, 0)) = 0
  <2>1. KeysBelow(h, 0) = {}
    BY Constants DEF KeysBelow, Counts, Bucket
  <2>. QED  BY <2>1, FS_EmptySet
<1>2. ASSUME NEW k \in 0 .. NUM_BUCKETS, k # 0
      PROVE  k - 1 \in Bucket /\ f[k] = f[k - 1] + g[k - 1]
  <2>1. k - 1 \in Bucket /\ k = (k - 1) + 1 /\ k - 1 \in 0 .. NUM_BUCKETS
    BY <1>2, Constants DEF Bucket
  <2>2. Cardinality(KeysBelow(h, (k - 1) + 1)) = Cardinality(KeysBelow(h, k - 1)) + g[k - 1]
    BY <2>1, KeysBelowStep
  <2>. QED  BY <2>1, <2>2
<1>3. IsBelow(f, g)
  <2>1. \A k \in 0 .. NUM_BUCKETS : f[k] = IF k = 0 THEN 0 ELSE f[k - 1] + g[k - 1]
    BY <1>1, <1>2
  <2>2. f = [k \in 0 .. NUM_BUCKETS |-> f[k]]  OBVIOUS
  <2>. HIDE DEF f
  <2>. QED  BY <2>1, <2>2 DEF IsBelow
<1>4. PICK e : e = Below(g) /\ IsBelow(e, g)
  <2>1. PICK e : e = CHOOSE x : IsBelow(x, g)  OBVIOUS
  <2>2. IsBelow(e, g)
    <3>. HIDE DEF f
    <3>. QED  BY <1>3, <2>1
  <2>3. e = Below(g)  BY <2>1 DEF Below, IsBelow
  <2>. QED  BY <2>2, <2>3
<1>. DEFINE P == {k \in 0 .. NUM_BUCKETS : e[k] = f[k]}
<1>5. \A k \in 0 .. NUM_BUCKETS : e[k] = IF k = 0 THEN 0 ELSE e[k - 1] + g[k - 1]
  BY <1>4 DEF IsBelow
<1>6. 0 \in P
  BY <1>1, <1>5, Constants
<1>7. \A m \in 0 .. NUM_BUCKETS - 1 : m \in P => m + 1 \in P
  <2>. SUFFICES ASSUME NEW m \in 0 .. NUM_BUCKETS - 1, m \in P  PROVE m + 1 \in P
    OBVIOUS
  <2>1. m + 1 \in 0 .. NUM_BUCKETS /\ m + 1 # 0 /\ (m + 1) - 1 = m  BY Constants
  <2>2. f[m + 1] = f[m] + g[m]  BY <1>2, <2>1
  <2>3. e[m + 1] = e[m] + g[m]  BY <1>5, <2>1
  <2>4. e[m] = f[m]  OBVIOUS
  <2>. HIDE DEF f
  <2>. QED  BY <2>1, <2>2, <2>3, <2>4
<1>8. b \in P
  <2>. HIDE DEF P
  <2>. QED  BY <1>6, <1>7, UpTo, Constants
<1>. QED  BY <1>4, <1>8

IsDivision(f, g) ==
  f = [b \in 0 .. NUM_BUCKETS |->
         IF b = 0 THEN 0
         ELSE f[b - 1] + IF Below(g)[b] >= (f[b - 1] + 1) * num_keys THEN 1 ELSE 0]

LEMMA DivisionExists ==
  ASSUME NEW g, num_keys \in Nat
  PROVE  \E f : IsDivision(f, g)
<1>. DEFINE Step(b, o) == o + IF Below(g)[b] >= (o + 1) * num_keys THEN 1 ELSE 0
            F == [x \in (1 .. NUM_BUCKETS) \X Nat |-> Step(x[1], x[2])]
<1>1. \A b \in 1 .. NUM_BUCKETS, o \in Nat : Step(b, o) \in Nat
  OBVIOUS
<1>2. F \in [(1 .. NUM_BUCKETS) \X Nat -> Nat]
  <2>. HIDE DEF Step
  <2>1. \A x \in (1 .. NUM_BUCKETS) \X Nat : x[1] \in 1 .. NUM_BUCKETS /\ x[2] \in Nat
    OBVIOUS
  <2>. QED  BY <1>1, <2>1
<1>3. \A b \in 1 .. NUM_BUCKETS, o \in Nat : F[<<b, o>>] = Step(b, o)
  <2>. HIDE DEF Step
  <2>. QED  OBVIOUS
<1>. HIDE DEF F
<1>4. PICK f \in [0 .. NUM_BUCKETS -> Nat] : Recursion(f, NUM_BUCKETS, 0, F)
  BY <1>2, RecursionExists, Constants
<1>5. ASSUME NEW b \in 0 .. NUM_BUCKETS
      PROVE  f[b] = IF b = 0 THEN 0 ELSE Step(b, f[b - 1])
  <2>1. f[b] = IF b = 0 THEN 0 ELSE F[<<b, f[b - 1]>>]  BY <1>4 DEF Recursion
  <2>2. CASE b = 0  BY <2>1, <2>2
  <2>3. CASE b # 0
    <3>1. b \in 1 .. NUM_BUCKETS /\ b - 1 \in 0 .. NUM_BUCKETS  BY <2>3, Constants
    <3>2. F[<<b, f[b - 1]>>] = Step(b, f[b - 1])  BY <1>3, <3>1
    <3>. QED  BY <2>1, <2>3, <3>2
  <2>. QED  BY <2>2, <2>3
<1>6. f = [b \in 0 .. NUM_BUCKETS |-> IF b = 0 THEN 0 ELSE Step(b, f[b - 1])]
  <2>. HIDE DEF Step
  <2>. QED  BY <1>4, <1>5
<1>. QED  BY <1>6 DEF IsDivision

(* A bucket has the j of the bucket before, or the next one if the keys    *)
(* below it are the quota of that.                                         *)
LEMMA DivisionIs ==
  ASSUME NEW h, NEW g, Counts(g, h), num_keys \in Nat
  PROVE  LET j == Division(g)
         IN  /\ j[0] = 0 /\ \A b \in 0 .. NUM_BUCKETS : j[b] \in Nat
             /\ \A b \in Bucket :
                  j[b + 1] =
                    j[b] + IF Cardinality(KeysBelow(h, b + 1)) >= (j[b] + 1) * num_keys
                               THEN 1 ELSE 0
<1>1. PICK f : f = CHOOSE x : IsDivision(x, g)
  OBVIOUS
<1>2. IsDivision(f, g)
  BY <1>1, DivisionExists
<1>3. f = Division(g)
  BY <1>1 DEF Division, IsDivision
<1>4. f[0] = 0
  BY <1>2, Constants DEF IsDivision
<1>5. ASSUME NEW b \in Bucket
      PROVE  f[b + 1] = f[b] + IF Cardinality(KeysBelow(h, b + 1)) >= (f[b] + 1) * num_keys
                               THEN 1 ELSE 0
  <2>1. b + 1 \in 0 .. NUM_BUCKETS /\ b + 1 # 0 /\ (b + 1) - 1 = b
    BY Constants DEF Bucket
  <2>2. f[b + 1] = f[b] + IF Below(g)[b + 1] >= (f[b] + 1) * num_keys THEN 1 ELSE 0
    BY <1>2, <2>1 DEF IsDivision
  <2>. QED  BY <2>1, <2>2, BelowIs
<1>. DEFINE P == {b \in 0 .. NUM_BUCKETS : f[b] \in Nat}
<1>6. 0 \in P  BY <1>4, Constants
<1>7. \A m \in 0 .. NUM_BUCKETS - 1 : m \in P => m + 1 \in P
  <2>. SUFFICES ASSUME NEW m \in 0 .. NUM_BUCKETS - 1, m \in P  PROVE m + 1 \in P
    OBVIOUS
  <2>1. m \in Bucket /\ m + 1 \in 0 .. NUM_BUCKETS  BY Constants DEF Bucket
  <2>2. f[m + 1] \in {f[m], f[m] + 1}  BY <1>5, <2>1
  <2>3. f[m] \in Nat  OBVIOUS
  <2>. QED  BY <2>1, <2>2, <2>3
<1>8. \A b \in 0 .. NUM_BUCKETS : f[b] \in Nat
  <2>1. \A b \in 0 .. NUM_BUCKETS : b \in P
    <3>. HIDE DEF P
    <3>. QED  BY <1>6, <1>7, UpTo, Constants
  <2>. QED  BY <2>1
<1>. QED  BY <1>3, <1>4, <1>5, <1>8

(* A division goes up by one or stays.                                     *)
Ascends(j) ==
  /\ j[0] = 0
  /\ \A b \in 0 .. NUM_BUCKETS : j[b] \in Nat
  /\ \A b \in Bucket : j[b + 1] \in {j[b], j[b] + 1}

LEMMA Ascent ==
  ASSUME NEW j, Ascends(j), NEW b \in 0 .. NUM_BUCKETS, NEW c \in 0 .. NUM_BUCKETS, b <= c
  PROVE  j[b] <= j[c]
<1>. DEFINE P == {m \in 0 .. NUM_BUCKETS : b <= m => j[b] <= j[m]}
<1>1. 0 \in P
  <2>1. b <= 0 => b = 0  OBVIOUS
  <2>2. j[b] \in Nat  BY DEF Ascends
  <2>. QED  BY <2>1, <2>2, Constants
<1>2. \A m \in 0 .. NUM_BUCKETS - 1 : m \in P => m + 1 \in P
  <2>. SUFFICES ASSUME NEW m \in 0 .. NUM_BUCKETS - 1, m \in P  PROVE m + 1 \in P
    OBVIOUS
  <2>1. m \in Bucket /\ m + 1 \in 0 .. NUM_BUCKETS /\ m \in 0 .. NUM_BUCKETS
    BY Constants DEF Bucket
  <2>2. j[m + 1] \in {j[m], j[m] + 1}  BY <2>1 DEF Ascends
  <2>3. j[b] \in Nat /\ j[m] \in Nat /\ j[m + 1] \in Nat  BY <2>1 DEF Ascends
  <2>4. b <= m => j[b] <= j[m]  OBVIOUS
  <2>5. b <= m + 1 => b <= m \/ b = m + 1  BY <2>1
  <2>6. b <= m + 1 => j[b] <= j[m + 1]
    BY <2>2, <2>3, <2>4, <2>5
  <2>. QED  BY <2>1, <2>6
<1>3. c \in P
  <2>. HIDE DEF P
  <2>. QED  BY <1>1, <1>2, UpTo, Constants
<1>. QED  BY <1>3

LEMMA AscentReaches ==
  ASSUME NEW j, Ascends(j), NEW r \in Nat, r < j[NUM_BUCKETS]
  PROVE  \E b \in Bucket : j[b] = r /\ j[b + 1] = r + 1
<1>. DEFINE Closed == \E b \in Bucket : j[b] = r /\ j[b + 1] = r + 1
            P == {m \in 0 .. NUM_BUCKETS : j[m] > r => Closed}
<1>1. 0 \in P
  BY Constants DEF Ascends
<1>2. \A m \in 0 .. NUM_BUCKETS - 1 : m \in P => m + 1 \in P
  <2>. SUFFICES ASSUME NEW m \in 0 .. NUM_BUCKETS - 1, m \in P, j[m + 1] > r, ~ Closed
                PROVE  FALSE
    BY Constants
  <2>1. m \in Bucket /\ m + 1 \in 0 .. NUM_BUCKETS /\ m \in 0 .. NUM_BUCKETS
    BY Constants DEF Bucket
  <2>2. j[m + 1] \in {j[m], j[m] + 1}  BY <2>1 DEF Ascends
  <2>3. j[m] \in Nat /\ j[m + 1] \in Nat  BY <2>1 DEF Ascends
  <2>4. ~ (j[m] > r)
    <3>. HIDE DEF Closed
    <3>. QED  OBVIOUS
  <2>5. j[m] = r /\ j[m + 1] = r + 1
    <3>. HIDE DEF P, Closed
    <3>. QED  BY <2>2, <2>3, <2>4
  <2>. QED  BY <2>1, <2>5
<1>3. NUM_BUCKETS \in P
  <2>1. NUM_BUCKETS \in 0 .. NUM_BUCKETS  BY Constants
  <2>. HIDE DEF P
  <2>. QED  BY <1>1, <1>2, <2>1, UpTo, Constants
<1>4. j[NUM_BUCKETS] > r
  <2>1. j[NUM_BUCKETS] \in Nat  BY Constants DEF Ascends
  <2>. QED  BY <2>1
<1>. QED  BY <1>3, <1>4

(* The interval of a rank that has buckets has all of them.                *)
LEMMA Intervals ==
  ASSUME NEW j, Ascends(j), NEW r \in Nat, r < j[NUM_BUCKETS]
  PROVE  /\ FirstBucket(j, r) .. LastBucket(j, r) = {b \in Bucket : j[b] = r}
         /\ FirstBucket(j, r) \in Bucket /\ LastBucket(j, r) \in Bucket
         /\ FirstBucket(j, r) <= LastBucket(j, r)
<1>. DEFINE L == LastBucket(j, r)
            F == FirstBucket(j, r)
<1>0. /\ 0 \in Bucket /\ NUM_BUCKETS \in 0 .. NUM_BUCKETS
      /\ \A b \in Bucket : b \in 0 .. NUM_BUCKETS /\ b + 1 \in 0 .. NUM_BUCKETS
      /\ NUM_BUCKETS \in Nat
  BY Constants DEF Bucket
<1>1. \A b \in 0 .. NUM_BUCKETS : j[b] \in Nat
  BY DEF Ascends
<1>2. L \in Bucket /\ j[L] = r /\ j[L + 1] = r + 1
  <2>1. \E b \in Bucket : j[b] = r /\ j[b + 1] = r + 1  BY AscentReaches
  <2>. QED  BY <2>1 DEF LastBucket
<1>3. /\ F \in Bucket /\ j[F] = r
      /\ \A b \in Bucket : b < F => j[b] < r
  <2>1. CASE r = 0
    <3>1. F = 0  BY <2>1 DEF FirstBucket
    <3>. QED  BY <1>0, <2>1, <3>1 DEF Ascends, Bucket
  <2>2. CASE r # 0
    <3>. DEFINE c == LastBucket(j, r - 1)
    <3>1. r - 1 \in Nat /\ r - 1 < j[NUM_BUCKETS]
      BY <1>0, <1>1, <2>2
    <3>2. c \in Bucket /\ j[c] = r - 1 /\ j[c + 1] = r
      <4>1. \E b \in Bucket : j[b] = r - 1 /\ j[b + 1] = (r - 1) + 1
        BY <3>1, AscentReaches
      <4>2. (r - 1) + 1 = r  OBVIOUS
      <4>. QED  BY <4>1, <4>2 DEF LastBucket
    <3>3. F = c + 1  BY <2>2 DEF FirstBucket
    <3>. HIDE DEF c, F, L
    <3>4. c + 1 # NUM_BUCKETS  BY <1>1, <1>0, <3>2
    <3>5. F \in Bucket /\ j[F] = r
      BY <1>0, <3>2, <3>3, <3>4 DEF Bucket
    <3>6. ASSUME NEW b \in Bucket, b < F  PROVE j[b] < r
      <4>1. b <= c /\ b \in 0 .. NUM_BUCKETS /\ c \in 0 .. NUM_BUCKETS
        BY <1>0, <3>2, <3>3, <3>6 DEF Bucket
      <4>2. j[b] <= j[c]  BY <4>1, Ascent
      <4>3. j[b] \in Nat  BY <1>1, <4>1
      <4>. QED  BY <3>2, <4>2, <4>3
    <3>. QED  BY <3>5, <3>6
  <2>. QED  BY <2>1, <2>2
<1>. HIDE DEF F, L
<1>4. F \in Int /\ L \in Int /\ F >= 0 /\ L <= NUM_BUCKETS - 1
  BY <1>2, <1>3, <1>0 DEF Bucket
<1>5. ASSUME NEW b \in F .. L  PROVE b \in Bucket /\ j[b] = r
  <2>1. b \in Bucket  BY <1>4, <1>0 DEF Bucket
  <2>2. j[F] <= j[b] /\ j[b] <= j[L]
    BY <1>0, <1>2, <1>3, <1>4, <2>1, Ascent
  <2>3. j[b] \in Nat  BY <1>0, <1>1, <2>1
  <2>. QED  BY <1>2, <1>3, <2>1, <2>2, <2>3
<1>6. ASSUME NEW b \in Bucket, j[b] = r  PROVE b \in F .. L
  <2>1. ~ (b < F)  BY <1>3, <1>6
  <2>2. ~ (L < b)
    <3>1. SUFFICES ASSUME L < b  PROVE FALSE
      OBVIOUS
    <3>2. L + 1 <= b  BY <1>4, <3>1 DEF Bucket
    <3>3. j[L + 1] <= j[b]  BY <1>0, <1>2, <3>2, Ascent
    <3>. QED  BY <1>2, <1>6, <3>3
  <2>. QED  BY <1>4, <2>1, <2>2 DEF Bucket
<1>7. F \in F .. L
  BY <1>3, <1>6
<1>. QED  BY <1>2, <1>3, <1>4, <1>5, <1>6, <1>7 DEF F, L

(* No bucket has a j that is not below that of the last, when the bucket   *)
(* that reaches the last key completes a quota.                            *)
LEMMA NoInterval ==
  ASSUME NEW j, Ascends(j), NEW n \in Nat,
         j[NUM_BUCKETS - 1] < n => j[NUM_BUCKETS] = j[NUM_BUCKETS - 1] + 1,
         NEW r \in 0 .. n - 1, ~ (r < j[NUM_BUCKETS]), NEW b \in Bucket
  PROVE  j[b] # r
<1>1. /\ NUM_BUCKETS - 1 \in Bucket /\ NUM_BUCKETS - 1 \in 0 .. NUM_BUCKETS
      /\ NUM_BUCKETS \in 0 .. NUM_BUCKETS /\ b \in 0 .. NUM_BUCKETS /\ b <= NUM_BUCKETS - 1
  BY Constants DEF Bucket
<1>2. /\ j[NUM_BUCKETS - 1] \in Nat /\ j[NUM_BUCKETS] \in Nat /\ j[b] \in Nat
      /\ j[NUM_BUCKETS - 1] <= j[NUM_BUCKETS] /\ j[b] <= j[NUM_BUCKETS - 1]
  BY <1>1, Ascent, Constants DEF Ascends
<1>. QED  BY <1>2

-----------------------------------------------------------------------------
(* The keys of a rank are a block of all the keys.                         *)
(* The quotient is the number of the block of d that n is in.              *)
LEMMA Blocks ==
  ASSUME NEW n \in Nat, NEW d \in Nat \ {0}, NEW a \in Nat
  PROVE  /\ a <= n \div d <=> a * d <= n
         /\ n \div d <= a <=> n <= (a + 1) * d - 1
<1>1. /\ n \div d \in Nat /\ d * (n \div d) <= n /\ n <= d * (n \div d) + (d - 1)
  BY Quotients
<1>2. PICK q \in Nat : q = n \div d
  BY <1>1
<1>3. ASSUME NEW x \in Nat, NEW y \in Nat, x <= y  PROVE x * d <= y * d
  BY <1>3
<1>4. /\ q * d <= n /\ n < (q + 1) * d
  BY <1>1, <1>2
<1>5. a <= q => a * d <= n
  <2>. SUFFICES ASSUME a <= q  PROVE a * d <= n
    OBVIOUS
  <2>1. a * d <= q * d  BY <1>3
  <2>. QED  BY <1>4, <2>1
<1>6. a * d <= n => a <= q
  <2>. SUFFICES ASSUME q + 1 <= a  PROVE n < a * d
    BY <1>2
  <2>1. (q + 1) * d <= a * d  BY <1>3
  <2>. QED  BY <1>4, <2>1
<1>7. q <= a => n <= (a + 1) * d - 1
  <2>. SUFFICES ASSUME q + 1 <= a + 1  PROVE n < (a + 1) * d
    OBVIOUS
  <2>1. (q + 1) * d <= (a + 1) * d  BY <1>3
  <2>. QED  BY <1>4, <2>1
<1>8. n <= (a + 1) * d - 1 => q <= a
  <2>. SUFFICES ASSUME a + 1 <= q  PROVE (a + 1) * d <= n
    BY <1>2
  <2>1. (a + 1) * d <= q * d  BY <1>3
  <2>. QED  BY <1>4, <2>1
<1>. QED  BY <1>2, <1>5, <1>6, <1>7, <1>8

LEMMA Position ==
  ASSUME NEW d \in Nat \ {0}, NEW q \in Nat, NEW i \in 0 .. d - 1
  PROVE  /\ q * d + i \in Nat
         /\ (q * d + i) \div d = q
         /\ (q * d + i) % d = i
<1>1. PICK n \in Nat : n = q * d + i
  OBVIOUS
<1>2. q * d <= n /\ n <= (q + 1) * d - 1
  BY <1>1
<1>3. n \div d \in Nat /\ n % d = n - d * (n \div d)
  BY Quotients
<1>4. n \div d = q
  BY <1>2, <1>3, Blocks
<1>5. n % d = i
  BY <1>1, <1>3, <1>4
<1>. QED  BY <1>1, <1>4, <1>5

(* The rank of a process and the keys of a job.                            *)
LEMMA JobFacts ==
  ASSUME job \in Jobs
  PROVE  /\ job \in JobType
         /\ job.ranks \in Nat \ {0} /\ comm_size \in 1 .. job.ranks
         /\ ActiveRank \subseteq Rank /\ 0 \in ActiveRank
         /\ ActiveRank \subseteq Nat /\ Rank \subseteq Nat
         /\ job.generated \in [AllKeys -> KeyValue]
<1>1. job \in JobType
  BY SortAssumption
<1>2. job.ranks \in Nat \ {0} /\ job.generated \in [AllKeys -> KeyValue]
  BY <1>1 DEF JobType
<1>3. comm_size \in 1 .. job.ranks
  BY <1>2, ActiveRanks DEF comm_size
<1>. QED  BY <1>1, <1>2, <1>3 DEF ActiveRank, Rank

(* A job with a permitted size.                                            *)
Runs == job \in Jobs /\ InRange

LEMMA Shares ==
  ASSUME Runs
  PROVE  /\ num_keys \in Nat \ {0}
         /\ 2 * MAX_ITERATIONS < num_keys /\ num_keys <= size_of_buffers
         /\ comm_size * num_keys = TOTAL_KEYS * MIN_PROCS
         /\ comm_size \in Nat \ {0}
<1>1. /\ KeysOfRank(comm_size) * comm_size = TOTAL_KEYS * MIN_PROCS
      /\ KeysOfRank(comm_size) \in 2 * MAX_ITERATIONS + 1 .. size_of_buffers
  BY SortAssumption DEF Runs, InRange, comm_size
<1>2. comm_size \in Nat \ {0}
  BY JobFacts DEF Runs
<1>3. MAX_ITERATIONS \in Nat \ {0} /\ size_of_buffers \in Nat
  BY Constants
<1>4. PICK n : n = num_keys
  OBVIOUS
<1>5. n * comm_size = TOTAL_KEYS * MIN_PROCS /\ n \in 2 * MAX_ITERATIONS + 1 .. size_of_buffers
  BY <1>1, <1>4 DEF num_keys
<1>6. n \in Nat \ {0} /\ 2 * MAX_ITERATIONS < n /\ n <= size_of_buffers
  BY <1>3, <1>5
<1>7. comm_size * n = n * comm_size
  BY <1>2, <1>6
<1>. QED  BY <1>2, <1>4, <1>5, <1>6, <1>7

LEMMA Slices ==
  ASSUME Runs
  PROVE  /\ \A r \in ActiveRank, i \in LocalIndex :
              /\ r * num_keys + i \in AllKeys
              /\ (r * num_keys + i) \div num_keys = r
              /\ (r * num_keys + i) % num_keys = i
         /\ \A x \in AllKeys :
              /\ x \div num_keys \in ActiveRank
              /\ x % num_keys \in LocalIndex
              /\ x = (x \div num_keys) * num_keys + (x % num_keys)
<1>. DEFINE L == num_keys
            n == comm_size
<1>1. L \in Nat \ {0} /\ n \in Nat \ {0} /\ AllKeys = 0 .. n * L - 1
  BY Shares DEF AllKeys
<1>. HIDE DEF L, n
<1>2. ASSUME NEW r \in 0 .. n - 1, NEW i \in 0 .. L - 1
      PROVE  r * L + i \in AllKeys /\ (r * L + i) \div L = r /\ (r * L + i) % L = i
  <2>1. r \in Nat /\ n - 1 \in Nat /\ r <= n - 1  BY <1>1
  <2>2. r * L <= (n - 1) * L  BY <1>1, <2>1
  <2>3. r * L + i \in Nat /\ (r * L + i) \div L = r /\ (r * L + i) % L = i
    BY <1>1, <2>1, Position
  <2>4. (n - 1) * L = n * L - L  BY <1>1
  <2>5. r * L \in Nat /\ n * L \in Nat  BY <1>1, <2>1
  <2>. QED  BY <1>1, <2>2, <2>3, <2>4, <2>5
<1>3. ASSUME NEW x \in AllKeys
      PROVE  x \div L \in 0 .. n - 1 /\ x % L \in 0 .. L - 1 /\ x = (x \div L) * L + (x % L)
  <2>1. x \in Nat /\ x <= ((n - 1) + 1) * L - 1 /\ n - 1 \in Nat
    <3>1. (n - 1) + 1 = n /\ n * L \in Nat  BY <1>1
    <3>. QED  BY <1>1, <3>1
  <2>2. x \div L <= n - 1  BY <1>1, <2>1, Blocks
  <2>3. x \div L \in Nat /\ x - L * (x \div L) \in 0 .. L - 1 /\ x % L = x - L * (x \div L)
    BY <1>1, <2>1, Quotients
  <2>4. L * (x \div L) = (x \div L) * L  BY <1>1, <2>3
  <2>. QED  BY <1>1, <2>1, <2>2, <2>3, <2>4
<1>. QED  BY <1>2, <1>3 DEF L, n, ActiveRank, LocalIndex

Slice(r) == {x \in AllKeys : x \div num_keys = r}

LEMMA SliceCount ==
  ASSUME Runs, NEW r \in ActiveRank, NEW P \in SUBSET AllKeys
  PROVE  Cardinality({i \in LocalIndex : r * num_keys + i \in P})
           = Cardinality(P \cap Slice(r))
<1>. DEFINE A == {i \in LocalIndex : r * num_keys + i \in P}
            B == P \cap Slice(r)
            f == [i \in A |-> r * num_keys + i]
<1>1. \A i \in A : f[i] \in B
  BY Slices DEF Slice
<1>2. \A i, j \in A : f[i] = f[j] => i = j
  <2>. SUFFICES ASSUME NEW i \in A, NEW j \in A, f[i] = f[j]  PROVE i = j
    OBVIOUS
  <2>1. f[i] % num_keys = i /\ f[j] % num_keys = j
    BY Slices
  <2>. HIDE DEF f
  <2>. QED  BY <2>1
<1>3. ASSUME NEW x \in B  PROVE \E i \in A : f[i] = x
  <2>1. x \in AllKeys /\ x \div num_keys = r  BY DEF Slice
  <2>2. x % num_keys \in LocalIndex /\ x = r * num_keys + (x % num_keys)
    BY <2>1, Slices
  <2>3. x % num_keys \in A  BY <2>2
  <2>. QED  BY <2>2, <2>3
<1>4. f \in Bijection(A, B)
  <2>1. f \in [A -> B]  BY <1>1
  <2>. HIDE DEF f, A, B
  <2>2. f \in Injection(A, B)  BY <1>2, <2>1 DEF Injection, IsInjective
  <2>3. f \in Surjection(A, B)  BY <1>3, <2>1 DEF Surjection
  <2>. QED  BY <2>2, <2>3 DEF Bijection
<1>5. IsFiniteSet(A)
  <2>1. IsFiniteSet(LocalIndex)  BY Shares, FS_Interval DEF LocalIndex
  <2>2. A \in SUBSET LocalIndex  OBVIOUS
  <2>. HIDE DEF A
  <2>. QED  BY <2>1, <2>2, FS_Subset
<1>. HIDE DEF f, A, B
<1>6. Cardinality(A) = Cardinality(B)
  <2>1. ExistsBijection(A, B)  BY <1>4 DEF ExistsBijection
  <2>. QED  BY <1>5, <2>1, FS_Bijection
<1>. QED  BY <1>6 DEF A, B

LEMMA KeysAre ==
  ASSUME Runs, NEW it \in 0 .. MAX_ITERATIONS
  PROVE  /\ TrueKeys(it) \in [AllKeys -> KeyValue]
         /\ \A i \in AllKeys : BucketOf(TrueKeys(it)[i]) \in Bucket
<1>1. job.generated \in [AllKeys -> KeyValue]
  BY JobFacts DEF Runs
<1>2. ASSUME NEW i \in AllKeys  PROVE TrueKeys(it)[i] \in KeyValue
  <2>0. /\ i \in Nat /\ it \in Nat /\ it <= MAX_ITERATIONS /\ MAX_ITERATIONS < MAX_KEY
        /\ MAX_ITERATIONS \in Nat /\ MAX_KEY \in Nat
    BY Constants DEF AllKeys
  <2>1. CASE i \in 1 .. it
    BY <2>0, <2>1 DEF TrueKeys, KeyValue
  <2>2. CASE i \notin 1 .. it /\ i - MAX_ITERATIONS \in 1 .. it
    <3>1. TrueKeys(it)[i] = MAX_KEY - (i - MAX_ITERATIONS)  BY <2>2 DEF TrueKeys
    <3>2. PICK d : d = i - MAX_ITERATIONS  OBVIOUS
    <3>3. d \in 1 .. it  BY <2>2, <3>2
    <3>. QED  BY <2>0, <3>1, <3>2, <3>3 DEF KeyValue
  <2>3. CASE i \notin 1 .. it /\ i - MAX_ITERATIONS \notin 1 .. it
    <3>1. TrueKeys(it)[i] = job.generated[i]  BY <2>3 DEF TrueKeys
    <3>. QED  BY <1>1, <3>1
  <2>. QED  BY <2>1, <2>2, <2>3
<1>3. TrueKeys(it) \in [AllKeys -> KeyValue]
  <2>1. TrueKeys(it) = [i \in AllKeys |-> TrueKeys(it)[i]]  BY DEF TrueKeys
  <2>. QED  BY <1>2, <2>1
<1>4. ASSUME NEW k \in KeyValue  PROVE BucketOf(k) \in Bucket
  <2>1. /\ k \in Nat /\ KeysPerBucket \in Nat \ {0}
        /\ NUM_BUCKETS \in Nat \ {0} /\ NUM_BUCKETS - 1 \in Nat
        /\ k <= NUM_BUCKETS * KeysPerBucket - 1
    BY Constants DEF KeyValue
  <2>2. k <= ((NUM_BUCKETS - 1) + 1) * KeysPerBucket - 1  
    <3>1. (NUM_BUCKETS - 1) + 1 = NUM_BUCKETS  BY <2>1
    <3>. QED  BY <2>1, <3>1
  <2>3. k \div KeysPerBucket <= NUM_BUCKETS - 1  BY <2>1, <2>2, Blocks
  <2>4. k \div KeysPerBucket \in Nat  BY <2>1, Quotients
  <2>. QED  BY <2>1, <2>3, <2>4 DEF BucketOf, Bucket
<1>. QED  BY <1>3, <1>4

(* The bucket of every key in an iteration.                                *)
BucketsIn(it) == [i \in AllKeys |-> BucketOf(TrueKeys(it)[i])]

LEMMA Finite ==
  ASSUME Runs
  PROVE  /\ IsFiniteSet(ActiveRank) /\ IsFiniteSet(LocalIndex)
         /\ Cardinality(LocalIndex) = num_keys
<1>1. IsFiniteSet(ActiveRank)
  BY JobFacts, FS_Interval DEF Runs, ActiveRank
<1>2. PICK n : n = num_keys
  OBVIOUS
<1>3. n \in Nat \ {0} /\ LocalIndex = 0 .. n - 1
  BY <1>2, Shares DEF LocalIndex
<1>4. IsFiniteSet(0 .. n - 1) /\ Cardinality(0 .. n - 1) = IF 0 > n - 1 THEN 0 ELSE (n - 1) - 0 + 1
  BY <1>3, FS_Interval
<1>. QED  BY <1>1, <1>2, <1>3, <1>4

LEMMA SliceKeys ==
  ASSUME Runs, NEW it \in 0 .. MAX_ITERATIONS, NEW r \in ActiveRank, NEW i \in LocalIndex
  PROVE  /\ r * num_keys + i \in AllKeys
         /\ SliceOf(r, it)[i] = TrueKeys(it)[r * num_keys + i]
         /\ SliceOf(r, it)[i] \in KeyValue /\ BucketOf(SliceOf(r, it)[i]) \in Bucket
         /\ BucketOf(SliceOf(r, it)[i]) = BucketsIn(it)[r * num_keys + i]
<1>1. r * num_keys + i \in AllKeys
  BY Slices
<1>2. SliceOf(r, it)[i] = TrueKeys(it)[r * num_keys + i]
  BY DEF SliceOf
<1>. QED  BY <1>1, <1>2, KeysAre DEF BucketsIn

LEMMA BucketsCount ==
  CountIndex # {} /\ Bucket \subseteq CountIndex
<1>1. Cardinality(Test) \in Nat
  BY SortAssumption, FS_CardinalityType
<1>. QED  BY <1>1, Constants DEF Bucket, CountIndex

LEMMA TotalsCount ==
  ASSUME Runs, NEW it \in 0 .. MAX_ITERATIONS
  PROVE  Counts(Totals(it), BucketsIn(it))
<1>1. BucketsIn(it) \in [AllKeys -> Bucket]
  BY KeysAre DEF BucketsIn
<1>2. ASSUME NEW x \in Bucket
      PROVE  Totals(it)[x] = Cardinality({i \in AllKeys : BucketsIn(it)[i] = x})
  <2>. DEFINE P == {i \in AllKeys : BucketsIn(it)[i] = x}
              values == [s \in ActiveRank |-> BucketSizes(s, SliceOf(s, it))[x]]
              h == [i \in AllKeys |-> i \div num_keys]
  <2>1. x \in CountIndex
    BY BucketsCount
  <2>2. Totals(it)[x] = SumOver(values, ActiveRank)
    BY <2>1 DEF Totals
  <2>3. ASSUME NEW s \in ActiveRank  PROVE values[s] = Cardinality({i \in P : h[i] = s})
    <3>1. P \in SUBSET AllKeys  OBVIOUS
    <3>2. BucketSizes(s, SliceOf(s, it))[x]
            = Cardinality({i \in LocalIndex : BucketOf(SliceOf(s, it)[i]) = x})
      BY <2>1 DEF BucketSizes
    <3>3. \A i \in LocalIndex :
            BucketOf(SliceOf(s, it)[i]) = x <=> s * num_keys + i \in P
      BY SliceKeys
    <3>4. {i \in LocalIndex : BucketOf(SliceOf(s, it)[i]) = x}
            = {i \in LocalIndex : s * num_keys + i \in P}
      BY <3>3
    <3>5. Cardinality({i \in LocalIndex : s * num_keys + i \in P}) = Cardinality(P \cap Slice(s))
      <4>. HIDE DEF P
      <4>. QED  BY <3>1, SliceCount
    <3>6. P \cap Slice(s) = {i \in P : h[i] = s}  BY DEF Slice
    <3>. HIDE DEF P, h
    <3>. QED  BY <3>2, <3>4, <3>5, <3>6
  <2>4. IsFiniteSet(P)
    <3>1. P \in SUBSET AllKeys  OBVIOUS
    <3>. HIDE DEF P
    <3>. QED  BY <3>1, KeysFinite, FS_Subset
  <2>5. SumOver(values, ActiveRank) = Cardinality({i \in P : h[i] \in ActiveRank})
    <3>. HIDE DEF values, h, P
    <3>1. \A s \in ActiveRank : values[s] = Cardinality(Class(P, h, s))  BY <2>3 DEF Class
    <3>2. SumOver(values, ActiveRank) = Cardinality(Within(P, h, ActiveRank))
      BY <2>4, <3>1, Finite, SumOfClasses
    <3>. QED  BY <3>2 DEF Within
  <2>6. {i \in P : h[i] \in ActiveRank} = P
    BY Slices
  <2>. HIDE DEF h, values
  <2>. QED  BY <2>2, <2>5, <2>6
<1>. QED  BY <1>1, <1>2 DEF Counts

(* A rank that is not the first has buckets when those before it have      *)
(* their quota of keys.                                                    *)
LEMMA QuotaBelow ==
  ASSUME NEW h, NEW g, Counts(g, h), num_keys \in Nat, NEW b \in 0 .. NUM_BUCKETS
  PROVE  Division(g)[b] * num_keys <= Cardinality(KeysBelow(h, b))
<1>. DEFINE j == Division(g)
            P == {m \in 0 .. NUM_BUCKETS : j[m] * num_keys <= Cardinality(KeysBelow(h, m))}
<1>1. j[0] = 0 /\ \A m \in 0 .. NUM_BUCKETS : j[m] \in Nat
  BY DivisionIs
<1>2. \A m \in Bucket : /\ Cardinality(KeysBelow(h, m)) \in Nat
                        /\ Cardinality(KeysBelow(h, m + 1)) \in Nat
                        /\ Cardinality(KeysBelow(h, m + 1)) >= Cardinality(KeysBelow(h, m))
  <2>. SUFFICES ASSUME NEW m \in Bucket
                PROVE  /\ Cardinality(KeysBelow(h, m)) \in Nat
                       /\ Cardinality(KeysBelow(h, m + 1)) \in Nat
                       /\ Cardinality(KeysBelow(h, m + 1)) >= Cardinality(KeysBelow(h, m))
    OBVIOUS
  <2>1. /\ Cardinality(KeysBelow(h, m)) \in Nat
        /\ Cardinality(KeysBelow(h, m + 1)) = Cardinality(KeysBelow(h, m)) + g[m]
    BY KeysBelowStep
  <2>2. g[m] \in Nat
    <3>1. {i \in AllKeys : h[i] = m} \in SUBSET AllKeys  OBVIOUS
    <3>2. IsFiniteSet({i \in AllKeys : h[i] = m})  BY <3>1, KeysFinite, FS_Subset
    <3>. QED  BY <3>2, FS_CardinalityType DEF Counts
  <2>. QED  BY <2>1, <2>2
<1>3. 0 \in P
  <2>1. 0 \in Bucket  BY Constants DEF Bucket
  <2>. QED  BY <1>1, <1>2, <2>1, Constants
<1>4. \A m \in 0 .. NUM_BUCKETS - 1 : m \in P => m + 1 \in P
  <2>. SUFFICES ASSUME NEW m \in 0 .. NUM_BUCKETS - 1, m \in P  PROVE m + 1 \in P
    OBVIOUS
  <2>1. m \in Bucket /\ m \in 0 .. NUM_BUCKETS /\ m + 1 \in 0 .. NUM_BUCKETS
    BY Constants DEF Bucket
  <2>2. j[m + 1] = j[m] + IF Cardinality(KeysBelow(h, m + 1)) >= (j[m] + 1) * num_keys
                                  THEN 1 ELSE 0
    BY <2>1, DivisionIs
  <2>3. j[m] * num_keys <= Cardinality(KeysBelow(h, m))  OBVIOUS
  <2>4. j[m] \in Nat /\ j[m] * num_keys \in Nat  BY <1>1, <2>1
  <2>. HIDE DEF j
  <2>5. j[m + 1] * num_keys <= Cardinality(KeysBelow(h, m + 1))
    <3>1. CASE Cardinality(KeysBelow(h, m + 1)) >= (j[m] + 1) * num_keys
      <4>1. j[m + 1] = j[m] + 1  BY <2>2, <3>1
      <4>. QED  BY <1>2, <2>1, <2>4, <3>1, <4>1
    <3>2. CASE ~ (Cardinality(KeysBelow(h, m + 1)) >= (j[m] + 1) * num_keys)
      <4>1. j[m + 1] = j[m]  BY <2>2, <2>4, <3>2
      <4>. QED  BY <1>2, <2>1, <2>3, <2>4, <4>1
    <3>. QED  BY <3>1, <3>2
  <2>. QED  BY <2>1, <2>5
<1>5. b \in P
  <2>. HIDE DEF P
  <2>. QED  BY <1>3, <1>4, UpTo, Constants
<1>. QED  BY <1>5

LEMMA Routes ==
  ASSUME Runs, NEW it \in 0 .. MAX_ITERATIONS
  PROVE  /\ Ascends(Route(it))
         /\ Route(it)[NUM_BUCKETS - 1] < comm_size =>
              Route(it)[NUM_BUCKETS] = Route(it)[NUM_BUCKETS - 1] + 1
         /\ \A i \in AllKeys : Route(it)[BucketsIn(it)[i]] \in ActiveRank
<1>. DEFINE n == comm_size
            g == Totals(it)
            h == BucketsIn(it)
            j == Division(g)
<1>1. Counts(g, h)  BY TotalsCount
<1>2. num_keys \in Nat \ {0} /\ n \in Nat \ {0} /\ Cardinality(AllKeys) = n * num_keys
  BY Shares, KeysFinite
<1>3. j = Route(it)  BY DEF Route
<1>4. ActiveRank = 0 .. n - 1  BY DEF ActiveRank
<1>. HIDE DEF n, g, h
<1>5. /\ j[0] = 0 /\ \A b \in 0 .. NUM_BUCKETS : j[b] \in Nat
      /\ \A b \in Bucket :
           j[b + 1] = j[b] + IF Cardinality(KeysBelow(h, b + 1)) >= (j[b] + 1) * num_keys
                                     THEN 1 ELSE 0
  BY <1>1, <1>2, DivisionIs
<1>6. Ascends(j)
  <2>. HIDE DEF j
  <2>1. \A b \in Bucket : b \in 0 .. NUM_BUCKETS  BY Constants DEF Bucket
  <2>2. \A b \in Bucket : j[b + 1] \in {j[b], j[b] + 1}
    BY <1>5, <2>1
  <2>. QED  BY <1>5, <2>2 DEF Ascends
<1>7. j[NUM_BUCKETS - 1] < n => j[NUM_BUCKETS] = j[NUM_BUCKETS - 1] + 1
  <2>. SUFFICES ASSUME j[NUM_BUCKETS - 1] < n
                PROVE  j[NUM_BUCKETS] = j[NUM_BUCKETS - 1] + 1
    OBVIOUS
  <2>. HIDE DEF j
  <2>1. /\ NUM_BUCKETS - 1 \in Bucket /\ NUM_BUCKETS - 1 \in 0 .. NUM_BUCKETS
        /\ (NUM_BUCKETS - 1) + 1 = NUM_BUCKETS
    BY Constants DEF Bucket
  <2>2. KeysBelow(h, NUM_BUCKETS) = AllKeys
    BY <1>1, Constants DEF KeysBelow, Counts, Bucket
  <2>3. j[NUM_BUCKETS - 1] \in Nat  BY <1>5, <2>1
  <2>4. (j[NUM_BUCKETS - 1] + 1) * num_keys <= n * num_keys  BY <1>2, <2>3
  <2>. QED  BY <1>2, <1>5, <2>1, <2>2, <2>4
<1>8. ASSUME NEW i \in AllKeys  PROVE j[h[i]] \in ActiveRank
  <2>1. h[i] \in Bucket  BY <1>1 DEF Counts
  <2>2. h[i] \in 0 .. NUM_BUCKETS  BY <2>1, Constants DEF Bucket
  <2>3. j[h[i]] * num_keys <= Cardinality(KeysBelow(h, h[i]))
    BY <1>1, <1>2, <2>2, QuotaBelow
  <2>4. Cardinality(KeysBelow(h, h[i])) \in Nat /\ Cardinality(KeysBelow(h, h[i])) < n * num_keys
    <3>1. KeysBelow(h, h[i]) \in SUBSET AllKeys /\ KeysBelow(h, h[i]) # AllKeys
      BY <2>2 DEF KeysBelow
    <3>2. /\ IsFiniteSet(KeysBelow(h, h[i]))
          /\ Cardinality(KeysBelow(h, h[i])) <= Cardinality(AllKeys)
          /\ Cardinality(KeysBelow(h, h[i])) # Cardinality(AllKeys)
      BY <3>1, KeysFinite, FS_Subset
    <3>3. Cardinality(KeysBelow(h, h[i])) \in Nat  BY <3>2, FS_CardinalityType
    <3>4. n * num_keys \in Nat  BY <1>2
    <3>. QED  BY <1>2, <3>2, <3>3, <3>4
  <2>5. PICK r \in Nat : r = j[h[i]]
    BY <1>5, <2>2
  <2>6. r * num_keys < n * num_keys
    <3>1. r * num_keys \in Nat /\ n * num_keys \in Nat  BY <1>2
    <3>. QED  BY <2>3, <2>4, <2>5, <3>1
  <2>7. r < n
    <3>1. SUFFICES ASSUME n <= r  PROVE n * num_keys <= r * num_keys
      BY <1>2, <2>6
    <3>. QED  BY <1>2, <3>1
  <2>. QED  BY <1>2, <1>4, <2>5, <2>7
<1>. QED  BY <1>3, <1>6, <1>7, <1>8 DEF h, n
-----------------------------------------------------------------------------
(* What the ranks make of their counts.                                    *)
LEMMA SpanIs ==
  ASSUME Runs, NEW it \in 0 .. MAX_ITERATIONS, NEW d \in ActiveRank
  PROVE  /\ Spans(it)[d].first .. Spans(it)[d].last = {b \in Bucket : Route(it)[b] = d}
         /\ Spans(it)[d].first \in Nat /\ Spans(it)[d].last \in Bucket
<1>. DEFINE j == Route(it)
<1>1. /\ Ascends(j)
      /\ j[NUM_BUCKETS - 1] < comm_size => j[NUM_BUCKETS] = j[NUM_BUCKETS - 1] + 1
  BY Routes
<1>2. comm_size \in Nat /\ d \in 0 .. comm_size - 1 /\ d \in Nat
  BY Shares DEF ActiveRank
<1>3. 0 \in Bucket /\ \A b \in Bucket : b \in Nat
  BY Constants DEF Bucket
<1>4. Spans(it)[d] = IF d < j[NUM_BUCKETS]
                     THEN [first |-> FirstBucket(j, d), last |-> LastBucket(j, d)]
                     ELSE [first |-> 1, last |-> 0]
  BY DEF Spans
<1>. HIDE DEF j
<1>5. CASE d < j[NUM_BUCKETS]
  <2>1. Spans(it)[d].first = FirstBucket(j, d) /\ Spans(it)[d].last = LastBucket(j, d)
    BY <1>4, <1>5
  <2>2. /\ FirstBucket(j, d) .. LastBucket(j, d) = {b \in Bucket : j[b] = d}
        /\ FirstBucket(j, d) \in Bucket /\ LastBucket(j, d) \in Bucket
    BY <1>1, <1>2, <1>5, Intervals
  <2>. QED  BY <1>3, <2>1, <2>2 DEF j
<1>6. CASE ~ (d < j[NUM_BUCKETS])
  <2>1. Spans(it)[d].first = 1 /\ Spans(it)[d].last = 0
    BY <1>4, <1>6
  <2>2. \A b \in Bucket : j[b] # d
    BY <1>1, <1>2, <1>6, NoInterval
  <2>3. Spans(it)[d].first .. Spans(it)[d].last = {}
    BY <2>1
  <2>. QED  BY <1>3, <2>1, <2>2, <2>3 DEF j
<1>. QED  BY <1>5, <1>6

LEMMA DestinationIs ==
  ASSUME Runs, NEW it \in 0 .. MAX_ITERATIONS
  PROVE  /\ \A i \in AllKeys : Destination(TrueKeys(it)[i], it) \in ActiveRank
         /\ \A r \in ActiveRank, i \in LocalIndex :
              /\ Destination(SliceOf(r, it)[i], it) \in ActiveRank
              /\ Destination(SliceOf(r, it)[i], it)
                   = Destination(TrueKeys(it)[r * num_keys + i], it)
<1>1. ASSUME NEW i \in AllKeys  PROVE Destination(TrueKeys(it)[i], it) \in ActiveRank
  <2>1. Route(it)[BucketsIn(it)[i]] \in ActiveRank
    BY Routes
  <2>2. BucketsIn(it)[i] = BucketOf(TrueKeys(it)[i])
    BY DEF BucketsIn
  <2>. QED  BY <2>1, <2>2 DEF Destination
<1>2. ASSUME NEW r \in ActiveRank, NEW i \in LocalIndex
      PROVE  /\ Destination(SliceOf(r, it)[i], it) \in ActiveRank
             /\ Destination(SliceOf(r, it)[i], it)
                  = Destination(TrueKeys(it)[r * num_keys + i], it)
  <2>1. /\ r * num_keys + i \in AllKeys
        /\ SliceOf(r, it)[i] = TrueKeys(it)[r * num_keys + i]
    BY SliceKeys
  <2>. QED  BY <1>1, <2>1
<1>. QED  BY <1>1, <1>2

LEMMA ForFinite ==
  ASSUME Runs, NEW it \in 0 .. MAX_ITERATIONS, NEW r \in ActiveRank, NEW d \in ActiveRank
  PROVE  /\ IsFiniteSet(For(r, d, it)) /\ Cardinality(For(r, d, it)) \in Nat
         /\ IsFiniteSet(Ahead(r, d, it)) /\ Cardinality(Ahead(r, d, it)) \in Nat
         /\ IsFiniteSet(ForRank(d, it)) /\ Cardinality(ForRank(d, it)) \in Nat
         /\ IsFiniteSet(Earlier(r, d, it)) /\ Cardinality(Earlier(r, d, it)) \in Nat
<1>1. /\ For(r, d, it) \in SUBSET LocalIndex /\ Ahead(r, d, it) \in SUBSET LocalIndex
      /\ ForRank(d, it) \in SUBSET AllKeys /\ Earlier(r, d, it) \in SUBSET AllKeys
  BY DEF For, Ahead, ForRank, Earlier
<1>2. /\ IsFiniteSet(For(r, d, it)) /\ IsFiniteSet(Ahead(r, d, it))
      /\ IsFiniteSet(ForRank(d, it)) /\ IsFiniteSet(Earlier(r, d, it))
  BY <1>1, Finite, KeysFinite, FS_Subset
<1>. QED  BY <1>2, FS_CardinalityType

(* The counts of the buckets of rank d among a rank's keys.                *)
LEMMA CountsAre ==
  ASSUME Runs, NEW it \in 0 .. MAX_ITERATIONS, NEW r \in ActiveRank, NEW d \in ActiveRank,
         NEW g, g = BucketSizes(r, SliceOf(r, it))
  PROVE  SumOver(g, Spans(it)[d].first .. Spans(it)[d].last) = Cardinality(For(r, d, it))
<1>. DEFINE h == [i \in LocalIndex |-> BucketOf(SliceOf(r, it)[i])]
            S == Spans(it)[d].first .. Spans(it)[d].last
<1>1. S = {b \in Bucket : Route(it)[b] = d}
  BY SpanIs
<1>2. IsFiniteSet(S)
  <2>1. S \in SUBSET Bucket  BY <1>1
  <2>. HIDE DEF S
  <2>. QED  BY <2>1, KeysFinite, FS_Subset
<1>3. ASSUME NEW b \in S  PROVE g[b] = Cardinality(Class(LocalIndex, h, b))
  <2>1. b \in Bucket /\ b \in CountIndex  BY <1>1, BucketsCount
  <2>2. g[b] = Cardinality({i \in LocalIndex : BucketOf(SliceOf(r, it)[i]) = b})
    BY <2>1 DEF BucketSizes
  <2>3. Class(LocalIndex, h, b) = {i \in LocalIndex : BucketOf(SliceOf(r, it)[i]) = b}
    BY DEF Class
  <2>. QED  BY <2>2, <2>3
<1>4. Within(LocalIndex, h, S) = For(r, d, it)
  <2>1. \A i \in LocalIndex : h[i] \in Bucket /\ h[i] = BucketOf(SliceOf(r, it)[i])
    BY SliceKeys
  <2>. HIDE DEF h, S
  <2>2. \A i \in LocalIndex : h[i] \in S <=> Route(it)[h[i]] = d
    BY <1>1, <2>1
  <2>. QED  BY <2>1, <2>2 DEF Within, For, Destination
<1>5. SumOver(g, S) = Cardinality(Within(LocalIndex, h, S))
  <2>. HIDE DEF h, S
  <2>. QED  BY <1>2, <1>3, Finite, SumOfClasses
<1>. QED  BY <1>4, <1>5

LEMMA ExpectedIs ==
  ASSUME Runs, NEW it \in 0 .. MAX_ITERATIONS, NEW d \in ActiveRank
  PROVE  SumOver(Totals(it), Spans(it)[d].first .. Spans(it)[d].last)
           = Cardinality(ForRank(d, it))
<1>. DEFINE h == BucketsIn(it)
            S == Spans(it)[d].first .. Spans(it)[d].last
            g == Totals(it)
<1>1. S = {b \in Bucket : Route(it)[b] = d}
  BY SpanIs
<1>2. IsFiniteSet(S)
  <2>1. S \in SUBSET Bucket  BY <1>1
  <2>. HIDE DEF S
  <2>. QED  BY <2>1, KeysFinite, FS_Subset
<1>3. Counts(g, h)
  BY TotalsCount
<1>. HIDE DEF S, g
<1>4. \A b \in S : g[b] = Cardinality(Class(AllKeys, h, b))
  BY <1>1, <1>3 DEF Counts, Class
<1>5. Within(AllKeys, h, S) = ForRank(d, it)
  <2>1. \A i \in AllKeys : h[i] \in Bucket /\ h[i] = BucketOf(TrueKeys(it)[i])
    BY KeysAre DEF BucketsIn
  <2>. HIDE DEF h
  <2>2. \A i \in AllKeys : h[i] \in S <=> Route(it)[h[i]] = d
    BY <1>1, <2>1
  <2>. QED  BY <2>1, <2>2 DEF Within, ForRank, Destination
<1>6. SumOver(g, S) = Cardinality(Within(AllKeys, h, S))
  <2>. HIDE DEF h
  <2>. QED  BY <1>2, <1>4, KeysFinite, SumOfClasses
<1>. QED  BY <1>5, <1>6 DEF S, g

(* The places of the keys a rank sends: behind those for lesser ranks.     *)
LEMMA AheadIs ==
  ASSUME Runs, NEW it \in 0 .. MAX_ITERATIONS, NEW r \in ActiveRank, NEW d \in ActiveRank,
         NEW counts, \A s \in ActiveRank : counts[s] = Cardinality(For(r, s, it))
  PROVE  Displacement(counts, d) = Cardinality(Ahead(r, d, it))
<1>. DEFINE h == [i \in LocalIndex |-> Destination(SliceOf(r, it)[i], it)]
            S == 0 .. d - 1
<1>1. d \in Nat /\ S \subseteq ActiveRank /\ ActiveRank \subseteq Nat
  BY Shares DEF ActiveRank
<1>2. IsFiniteSet(S)
  <2>1. S \in SUBSET ActiveRank  BY <1>1
  <2>. HIDE DEF S
  <2>. QED  BY <2>1, Finite, FS_Subset
<1>3. \A s \in S : counts[s] = Cardinality(Class(LocalIndex, h, s))
  <2>1. \A s \in S : Class(LocalIndex, h, s) = For(r, s, it)
    BY DEF Class, For
  <2>. HIDE DEF h, S
  <2>. QED  BY <1>1, <2>1
<1>4. Within(LocalIndex, h, S) = Ahead(r, d, it)
  <2>1. \A i \in LocalIndex : h[i] \in Nat /\ h[i] = Destination(SliceOf(r, it)[i], it)
    BY <1>1, DestinationIs
  <2>. HIDE DEF h
  <2>2. \A i \in LocalIndex : h[i] \in S <=> h[i] < d
    BY <1>1, <2>1
  <2>. HIDE DEF S
  <2>. QED  BY <2>1, <2>2 DEF Within, Ahead
<1>5. SumOver(counts, S) = Cardinality(Within(LocalIndex, h, S))
  <2>. HIDE DEF h, S
  <2>. QED  BY <1>2, <1>3, Finite, SumOfClasses
<1>. QED  BY <1>4, <1>5 DEF Displacement

(* A rank's part of the keys that rank d gets.                             *)
LEMMA PartIs ==
  ASSUME Runs, NEW it \in 0 .. MAX_ITERATIONS, NEW s \in ActiveRank, NEW d \in ActiveRank
  PROVE  /\ Cardinality(For(s, d, it))
              = Cardinality({i \in ForRank(d, it) : i \div num_keys = s})
         /\ \A i \in LocalIndex : i \in For(s, d, it) <=> s * num_keys + i \in ForRank(d, it)
<1>1. ForRank(d, it) \in SUBSET AllKeys
  BY DEF ForRank
<1>2. \A i \in LocalIndex : i \in For(s, d, it) <=> s * num_keys + i \in ForRank(d, it)
  <2>1. \A i \in LocalIndex : s * num_keys + i \in AllKeys
    BY Slices
  <2>2. \A i \in LocalIndex :
          Destination(SliceOf(s, it)[i], it) = Destination(TrueKeys(it)[s * num_keys + i], it)
    BY DestinationIs
  <2>. QED  BY <2>1, <2>2 DEF For, ForRank
<1>3. For(s, d, it) = {i \in LocalIndex : s * num_keys + i \in ForRank(d, it)}
  BY <1>2 DEF For
<1>4. Cardinality({i \in LocalIndex : s * num_keys + i \in ForRank(d, it)})
        = Cardinality(ForRank(d, it) \cap Slice(s))
  BY <1>1, SliceCount
<1>5. ForRank(d, it) \cap Slice(s) = {i \in ForRank(d, it) : i \div num_keys = s}
  BY <1>1 DEF Slice
<1>. QED  BY <1>2, <1>3, <1>4, <1>5

(* The places of the keys a rank receives: behind those of lesser ranks.   *)
LEMMA EarlierIs ==
  ASSUME Runs, NEW it \in 0 .. MAX_ITERATIONS, NEW s \in ActiveRank, NEW d \in ActiveRank,
         NEW counts, \A t \in ActiveRank : counts[t] = Cardinality(For(t, d, it))
  PROVE  Displacement(counts, s) = Cardinality(Earlier(s, d, it))
<1>. DEFINE A == ForRank(d, it)
            h == [i \in AllKeys |-> i \div num_keys]
            S == 0 .. s - 1
<1>1. s \in Nat /\ S \subseteq ActiveRank /\ ActiveRank \subseteq Nat /\ A \subseteq AllKeys
  BY Shares DEF ActiveRank, ForRank
<1>2. IsFiniteSet(S) /\ IsFiniteSet(A)
  <2>1. S \in SUBSET ActiveRank  BY <1>1
  <2>. HIDE DEF S, A
  <2>. QED  BY <1>1, <2>1, Finite, KeysFinite, FS_Subset
<1>3. \A t \in S : counts[t] = Cardinality(Class(A, h, t))
  <2>1. \A t \in S : Class(A, h, t) = {i \in A : i \div num_keys = t}
    <3>. HIDE DEF A, S
    <3>. QED  BY <1>1 DEF Class
  <2>2. \A t \in S : Cardinality(For(t, d, it)) = Cardinality({i \in A : i \div num_keys = t})
    BY <1>1, PartIs
  <2>. HIDE DEF h, S, A
  <2>. QED  BY <1>1, <2>1, <2>2
<1>4. Within(A, h, S) = Earlier(s, d, it)
  <2>1. \A i \in A : h[i] \in Nat /\ h[i] = i \div num_keys
    BY <1>1, Slices
  <2>. HIDE DEF h
  <2>2. \A i \in A : h[i] \in S <=> h[i] < s
    BY <1>1, <2>1
  <2>. HIDE DEF S
  <2>. QED  BY <2>1, <2>2 DEF Within, Earlier
<1>5. SumOver(counts, S) = Cardinality(Within(A, h, S))
  <2>. HIDE DEF h, S, A
  <2>. QED  BY <1>2, <1>3, SumOfClasses
<1>. QED  BY <1>4, <1>5 DEF Displacement

-----------------------------------------------------------------------------
(* The order of the buckets: each key has a place of its own in key_buff1, *)
(* and the keys for a rank are in its piece.                               *)
Behind(ks, i) ==
  {j \in LocalIndex : \/ BucketOf(ks[j]) < BucketOf(ks[i])
                      \/ BucketOf(ks[j]) = BucketOf(ks[i]) /\ j < i}

LEMMA ProperSubset ==
  ASSUME NEW T, IsFiniteSet(T), NEW S \in SUBSET T, NEW x \in T, x \notin S
  PROVE  /\ IsFiniteSet(S) /\ Cardinality(S) \in Nat /\ Cardinality(T) \in Nat
         /\ Cardinality(S) < Cardinality(T)
<1>1. /\ IsFiniteSet(S) /\ Cardinality(S) <= Cardinality(T)
      /\ Cardinality(T) = Cardinality(S) => T = S
  BY FS_Subset
<1>2. Cardinality(S) \in Nat /\ Cardinality(T) \in Nat
  BY <1>1, FS_CardinalityType
<1>3. Cardinality(T) # Cardinality(S)
  BY <1>1
<1>. QED  BY <1>1, <1>2, <1>3

LEMMA SortedPlaces ==
  ASSUME Runs, NEW ks, \A i \in LocalIndex : BucketOf(ks[i]) \in Bucket
  PROVE  /\ \A i \in LocalIndex : SortedPlace(ks, i) \in LocalIndex
         /\ \A i, j \in LocalIndex : SortedPlace(ks, i) = SortedPlace(ks, j) => i = j
<1>. DEFINE b == [i \in LocalIndex |-> BucketOf(ks[i])]
<1>1. \A i \in LocalIndex : b[i] \in Nat /\ i \in Nat
  BY Constants DEF Bucket, LocalIndex
<1>2. /\ \A i \in LocalIndex : SortedPlace(ks, i) = Cardinality(Behind(ks, i))
      /\ \A i, j \in LocalIndex : j \in Behind(ks, i) <=> (b[j] < b[i] \/ (b[j] = b[i] /\ j < i))
      /\ \A i \in LocalIndex : Behind(ks, i) \subseteq LocalIndex
  BY DEF SortedPlace, Behind
<1>. HIDE DEF b
<1>3. ASSUME NEW i \in LocalIndex  PROVE SortedPlace(ks, i) \in LocalIndex
  <2>1. Behind(ks, i) \in SUBSET LocalIndex /\ i \notin Behind(ks, i)
    BY <1>1, <1>2
  <2>2. /\ Cardinality(Behind(ks, i)) \in Nat
        /\ Cardinality(Behind(ks, i)) < Cardinality(LocalIndex)
    BY <2>1, Finite, ProperSubset
  <2>3. Cardinality(LocalIndex) = num_keys /\ num_keys \in Nat
    BY Finite, Shares
  <2>4. PICK n : n = num_keys  OBVIOUS
  <2>. QED  BY <1>2, <2>2, <2>3, <2>4 DEF LocalIndex
<1>4. ASSUME NEW i \in LocalIndex, NEW j \in LocalIndex, j \in Behind(ks, i)
      PROVE  SortedPlace(ks, i) # SortedPlace(ks, j)
  <2>1. \A x \in LocalIndex : x \in Behind(ks, j) => x \in Behind(ks, i)
    <3>1. b[j] < b[i] \/ (b[j] = b[i] /\ j < i)  BY <1>2, <1>4
    <3>. SUFFICES ASSUME NEW x \in LocalIndex, b[x] < b[j] \/ (b[x] = b[j] /\ x < j)
                  PROVE  b[x] < b[i] \/ (b[x] = b[i] /\ x < i)
      BY <1>2
    <3>. QED  BY <1>1, <3>1
  <2>2. Behind(ks, j) \in SUBSET Behind(ks, i) /\ j \notin Behind(ks, j)
    BY <1>1, <1>2, <2>1
  <2>3. IsFiniteSet(Behind(ks, i))
    BY <1>2, Finite, FS_Subset
  <2>4. /\ Cardinality(Behind(ks, j)) \in Nat /\ Cardinality(Behind(ks, i)) \in Nat
        /\ Cardinality(Behind(ks, j)) < Cardinality(Behind(ks, i))
    BY <1>4, <2>2, <2>3, ProperSubset
  <2>. QED  BY <1>2, <2>4
<1>5. ASSUME NEW i \in LocalIndex, NEW j \in LocalIndex, i # j
      PROVE  SortedPlace(ks, i) # SortedPlace(ks, j)
  <2>1. i \in Behind(ks, j) \/ j \in Behind(ks, i)
    BY <1>1, <1>2, <1>5
  <2>. QED  BY <1>4, <2>1
<1>. QED  BY <1>3, <1>5

LEMMA SliceSorted ==
  ASSUME Runs, NEW it \in 0 .. MAX_ITERATIONS, NEW r \in ActiveRank
  PROVE  /\ \A i \in LocalIndex : SortedPlace(SliceOf(r, it), i) \in LocalIndex
         /\ \A i, j \in LocalIndex :
              SortedPlace(SliceOf(r, it), i) = SortedPlace(SliceOf(r, it), j) => i = j
<1>1. \A i \in LocalIndex : BucketOf(SliceOf(r, it)[i]) \in Bucket
  BY SliceKeys
<1>. QED  BY <1>1, SortedPlaces

LEMMA Sorted ==
  ASSUME Runs, NEW it \in 0 .. MAX_ITERATIONS, NEW r \in ActiveRank, NEW ks,
         \A i \in LocalIndex : ks[i] = SliceOf(r, it)[i]
  PROVE  \A i \in LocalIndex :
           InBucketOrder(r, ks)[SortedPlace(SliceOf(r, it), i)] = SliceOf(r, it)[i]
<1>. SUFFICES ASSUME NEW i \in LocalIndex
              PROVE  InBucketOrder(r, ks)[SortedPlace(SliceOf(r, it), i)] = SliceOf(r, it)[i]
  OBVIOUS
<1>1. \A l \in LocalIndex : SortedPlace(ks, l) = SortedPlace(SliceOf(r, it), l)
  BY DEF SortedPlace
<1>2. PICK x : x = SortedPlace(SliceOf(r, it), i)
  OBVIOUS
<1>3. x \in LocalIndex
  BY <1>2, SliceSorted
<1>4. x \in Place
  <2>1. PICK n : n = num_keys  OBVIOUS
  <2>2. n \in Nat /\ n <= size_of_buffers /\ size_of_buffers \in Nat
    BY <2>1, Shares, Constants
  <2>. QED  BY <1>3, <2>1, <2>2 DEF Place, LocalIndex
<1>5. \A l \in LocalIndex : SortedPlace(ks, l) = x => l = i
  BY <1>1, <1>2, SliceSorted
<1>6. (CHOOSE l \in LocalIndex : SortedPlace(ks, l) = x) = i
  <2>1. PICK c : c = CHOOSE l \in LocalIndex : SortedPlace(ks, l) = x
    OBVIOUS
  <2>2. \E l \in LocalIndex : SortedPlace(ks, l) = x
    BY <1>1, <1>2
  <2>3. c \in LocalIndex /\ SortedPlace(ks, c) = x
    BY <2>1, <2>2
  <2>. QED  BY <1>5, <2>1, <2>3
<1>7. InBucketOrder(r, ks)[x] = ks[CHOOSE l \in LocalIndex : SortedPlace(ks, l) = x]
  BY <1>3, <1>4 DEF InBucketOrder
<1>. QED  BY <1>2, <1>6, <1>7

(* The piece of rank d in a rank's key_buff1.                              *)
LEMMA PieceIs ==
  ASSUME Runs, NEW it \in 0 .. MAX_ITERATIONS, NEW s \in ActiveRank, NEW d \in ActiveRank,
         NEW l \in For(s, d, it)
  PROVE  /\ l \in LocalIndex
         /\ Cardinality(Ahead(s, d, it)) <= SortedPlace(SliceOf(s, it), l)
         /\ SortedPlace(SliceOf(s, it), l)
              < Cardinality(Ahead(s, d, it)) + Cardinality(For(s, d, it))
<1>. DEFINE ks == SliceOf(s, it)
            b == [i \in LocalIndex |-> BucketOf(ks[i])]
            to == [i \in LocalIndex |-> Destination(ks[i], it)]
            A == Ahead(s, d, it)
            F == For(s, d, it)
            B == Behind(ks, l)
<1>0. l \in LocalIndex /\ d \in Nat
  BY Shares DEF For, ActiveRank
<1>1. /\ \A i \in LocalIndex : b[i] \in Bucket /\ b[i] \in Nat /\ i \in Nat
      /\ \A i \in LocalIndex : to[i] \in Nat /\ to[i] = Route(it)[b[i]]
  <2>1. \A i \in LocalIndex : b[i] \in Bucket
    BY SliceKeys
  <2>2. \A i \in LocalIndex : to[i] \in ActiveRank
    BY DestinationIs
  <2>3. \A i \in LocalIndex : to[i] = Route(it)[b[i]]
    BY DEF Destination
  <2>4. Bucket \subseteq Nat /\ ActiveRank \subseteq Nat /\ LocalIndex \subseteq Nat
    BY DEF Bucket, ActiveRank, LocalIndex
  <2>. QED  BY <2>1, <2>2, <2>3, <2>4
<1>2. /\ A = {i \in LocalIndex : to[i] < d} /\ F = {i \in LocalIndex : to[i] = d}
      /\ B = {i \in LocalIndex : b[i] < b[l] \/ (b[i] = b[l] /\ i < l)}
      /\ SortedPlace(ks, l) = Cardinality(B)
  BY <1>0 DEF Ahead, For, Behind, SortedPlace
<1>3. \A i, j \in LocalIndex : b[i] <= b[j] => to[i] <= to[j]
  <2>1. Ascends(Route(it))  BY Routes
  <2>2. \A i \in LocalIndex : b[i] \in 0 .. NUM_BUCKETS
    BY <1>1, Constants DEF Bucket
  <2>. HIDE DEF b, to
  <2>. QED  BY <1>1, <2>1, <2>2, Ascent
<1>. HIDE DEF ks, b, to, A, F, B
<1>4. to[l] = d /\ l \in F
  BY <1>2 DEF F
<1>5. A \in SUBSET B
  <2>. SUFFICES ASSUME NEW i \in LocalIndex, to[i] < d  PROVE b[i] < b[l]
    BY <1>2
  <2>. QED  BY <1>0, <1>1, <1>3, <1>4
<1>6. B \in SUBSET (A \cup F)
  <2>. SUFFICES ASSUME NEW i \in LocalIndex, b[i] <= b[l]  PROVE to[i] < d \/ to[i] = d
    BY <1>0, <1>1, <1>2
  <2>1. to[i] <= d  BY <1>0, <1>3, <1>4
  <2>. QED  BY <1>0, <1>1, <2>1
<1>7. l \in A \cup F /\ l \notin B
  BY <1>0, <1>1, <1>2, <1>4
<1>8. IsFiniteSet(A) /\ IsFiniteSet(F) /\ Cardinality(A) \in Nat /\ Cardinality(F) \in Nat
  BY ForFinite DEF A, F
<1>9. IsFiniteSet(A \cup F) /\ Cardinality(A \cup F) = Cardinality(A) + Cardinality(F)
  <2>1. A \cap F = {}  BY <1>0, <1>1, <1>2
  <2>2. Cardinality(A \cap F) = 0  BY <2>1, FS_EmptySet
  <2>3. /\ IsFiniteSet(A \cup F)
        /\ Cardinality(A \cup F) = Cardinality(A) + Cardinality(F) - Cardinality(A \cap F)
    BY <1>8, FS_Union
  <2>. QED  BY <1>8, <2>2, <2>3
<1>10. /\ IsFiniteSet(B) /\ Cardinality(B) \in Nat
       /\ Cardinality(B) < Cardinality(A) + Cardinality(F)
  BY <1>6, <1>7, <1>9, ProperSubset
<1>11. Cardinality(A) <= Cardinality(B)
  BY <1>5, <1>10, FS_Subset
<1>. QED  BY <1>0, <1>2, <1>10, <1>11 DEF ks, A, F

-----------------------------------------------------------------------------
(* The pieces a rank receives.                                             *)
LEMMA PiecesApart ==
  ASSUME Runs, NEW it \in 0 .. MAX_ITERATIONS, NEW s \in ActiveRank, NEW d \in ActiveRank
  PROVE  /\ Cardinality(Earlier(s, d, it)) + Cardinality(For(s, d, it))
              <= Cardinality(ForRank(d, it))
         /\ \A t \in ActiveRank : s < t =>
              Cardinality(Earlier(s, d, it)) + Cardinality(For(s, d, it))
                <= Cardinality(Earlier(t, d, it))
<1>. DEFINE E == Earlier(s, d, it)
            U == {i \in ForRank(d, it) : i \div num_keys = s}
<1>1. /\ IsFiniteSet(E) /\ Cardinality(E) \in Nat
      /\ IsFiniteSet(ForRank(d, it)) /\ Cardinality(For(s, d, it)) \in Nat
  BY ForFinite
<1>2. IsFiniteSet(U) /\ Cardinality(U) = Cardinality(For(s, d, it))
  <2>1. U \in SUBSET ForRank(d, it)  OBVIOUS
  <2>2. IsFiniteSet(U)
    <3>. HIDE DEF U
    <3>. QED  BY <1>1, <2>1, FS_Subset
  <2>. QED  BY <2>2, PartIs
<1>3. \A i \in ForRank(d, it) : i \div num_keys \in Nat
  <2>1. \A i \in ForRank(d, it) : i \div num_keys \in ActiveRank
    BY Slices DEF ForRank
  <2>. QED  BY <2>1 DEF ActiveRank
<1>4. s \in Nat /\ \A t \in ActiveRank : t \in Nat
  BY DEF ActiveRank
<1>5. E = {i \in ForRank(d, it) : i \div num_keys < s}
  BY DEF Earlier
<1>6. E \cap U = {}
  BY <1>3, <1>4, <1>5
<1>7. E \cup U \in SUBSET ForRank(d, it)
  BY <1>5
<1>8. \A t \in ActiveRank : s < t => E \cup U \in SUBSET Earlier(t, d, it)
  BY <1>3, <1>4, <1>5 DEF Earlier
<1>. HIDE DEF E, U
<1>9. Cardinality(E \cup U) = Cardinality(E) + Cardinality(For(s, d, it))
  <2>1. Cardinality(E \cap U) = 0  BY <1>6, FS_EmptySet
  <2>2. Cardinality(E \cup U) = Cardinality(E) + Cardinality(U) - Cardinality(E \cap U)
    BY <1>1, <1>2, FS_Union
  <2>. QED  BY <1>1, <1>2, <2>1, <2>2
<1>10. Cardinality(E \cup U) <= Cardinality(ForRank(d, it))
  BY <1>1, <1>7, FS_Subset
<1>11. ASSUME NEW t \in ActiveRank, s < t
       PROVE  Cardinality(E \cup U) <= Cardinality(Earlier(t, d, it))
  <2>1. IsFiniteSet(Earlier(t, d, it))  BY ForFinite
  <2>. QED  BY <1>8, <1>11, <2>1, FS_Subset
<1>. QED  BY <1>9, <1>10, <1>11 DEF E

(* Where a key arrives: in its sender's piece, as far from the beginning   *)
(* as it was in the sender's piece for this rank.                          *)
Target(i, d, it) ==
  LET s == i \div num_keys
  IN  Cardinality(Earlier(s, d, it))
        + (SortedPlace(SliceOf(s, it), i % num_keys) - Cardinality(Ahead(s, d, it)))

LEMMA TargetIs ==
  ASSUME Runs, NEW it \in 0 .. MAX_ITERATIONS, NEW d \in ActiveRank, NEW i \in ForRank(d, it)
  PROVE  LET s == i \div num_keys
             x == Target(i, d, it)
         IN  /\ s \in ActiveRank /\ i % num_keys \in For(s, d, it)
             /\ x \in 0 .. Cardinality(ForRank(d, it)) - 1
             /\ x - Cardinality(Earlier(s, d, it)) \in 0 .. Cardinality(For(s, d, it)) - 1
             /\ Cardinality(Ahead(s, d, it)) + x - Cardinality(Earlier(s, d, it))
                  = SortedPlace(SliceOf(s, it), i % num_keys)
             /\ \A t \in ActiveRank :
                  x - Cardinality(Earlier(t, d, it)) \in 0 .. Cardinality(For(t, d, it)) - 1
                    => t = s
<1>. DEFINE s == i \div num_keys
            l == i % num_keys
            x == Target(i, d, it)
            E(t) == Cardinality(Earlier(t, d, it))
            F(t) == Cardinality(For(t, d, it))
            N == Cardinality(ForRank(d, it))
            A == Cardinality(Ahead(s, d, it))
            p == SortedPlace(SliceOf(s, it), l)
<1>1. s \in ActiveRank /\ l \in LocalIndex /\ i = s * num_keys + l
  BY Slices DEF ForRank
<1>2. l \in For(s, d, it)
  BY <1>1, PartIs
<1>3. A <= p /\ p < A + F(s) /\ p \in Nat
  <2>1. A <= p /\ p < A + F(s)
    <3>. HIDE DEF s, l
    <3>. QED  BY <1>1, <1>2, PieceIs
  <2>2. p \in LocalIndex
    <3>. HIDE DEF s, l
    <3>. QED  BY <1>1, SliceSorted
  <2>. QED  BY <2>1, <2>2 DEF LocalIndex
<1>4. x = E(s) + (p - A)
  BY DEF Target
<1>5. /\ \A t \in ActiveRank : E(t) \in Nat /\ F(t) \in Nat /\ E(t) + F(t) <= N
      /\ \A t, u \in ActiveRank : t < u => E(t) + F(t) <= E(u)
  BY ForFinite, PiecesApart
<1>6. A \in Nat /\ N \in Nat
  <2>. HIDE DEF s
  <2>. QED  BY <1>1, ForFinite
<1>7. \A t \in ActiveRank : t \in Nat
  BY DEF ActiveRank
<1>. HIDE DEF s, l, x, E, F, N, A, p
<1>8. /\ E(s) \in Nat /\ F(s) \in Nat /\ E(s) + F(s) <= N
      /\ x \in Int /\ E(s) <= x /\ x < E(s) + F(s)
  BY <1>1, <1>3, <1>4, <1>5, <1>6
<1>9. x \in 0 .. N - 1 /\ x - E(s) \in 0 .. F(s) - 1 /\ A + x - E(s) = p
  BY <1>3, <1>4, <1>6, <1>8
<1>10. ASSUME NEW t \in ActiveRank, x - E(t) \in 0 .. F(t) - 1  PROVE t = s
  <2>1. E(t) \in Nat /\ F(t) \in Nat /\ E(t) <= x /\ x < E(t) + F(t)
    BY <1>5, <1>8, <1>10
  <2>2. ~ (t < s)
    <3>1. t < s => E(t) + F(t) <= E(s)  BY <1>1, <1>5
    <3>. QED  BY <1>8, <2>1, <3>1
  <2>3. ~ (s < t)
    <3>1. s < t => E(s) + F(s) <= E(t)  BY <1>1, <1>5
    <3>. QED  BY <1>8, <2>1, <3>1
  <2>. QED  BY <1>1, <1>7, <2>2, <2>3
<1>. QED  BY <1>1, <1>2, <1>9, <1>10 DEF s, l, x, E, F, N, A, p

LEMMA TargetsDiffer ==
  ASSUME Runs, NEW it \in 0 .. MAX_ITERATIONS, NEW d \in ActiveRank,
         NEW i \in ForRank(d, it), NEW j \in ForRank(d, it), Target(i, d, it) = Target(j, d, it)
  PROVE  i = j
<1>. DEFINE s == i \div num_keys
            x == Target(i, d, it)
<1>1. /\ s \in ActiveRank /\ j \div num_keys \in ActiveRank
      /\ x - Cardinality(Earlier(s, d, it)) \in 0 .. Cardinality(For(s, d, it)) - 1
  BY TargetIs
<1>2. j \div num_keys = s
  <2>1. \A t \in ActiveRank :
          Target(j, d, it) - Cardinality(Earlier(t, d, it)) \in 0 .. Cardinality(For(t, d, it)) - 1
            => t = j \div num_keys
    BY TargetIs
  <2>. HIDE DEF s
  <2>. QED  BY <1>1, <2>1
<1>3. SortedPlace(SliceOf(s, it), i % num_keys) = SortedPlace(SliceOf(s, it), j % num_keys)
  <2>1. Cardinality(Ahead(s, d, it)) + x - Cardinality(Earlier(s, d, it))
          = SortedPlace(SliceOf(s, it), i % num_keys)
    BY TargetIs
  <2>2. Cardinality(Ahead(j \div num_keys, d, it)) + Target(j, d, it)
            - Cardinality(Earlier(j \div num_keys, d, it))
          = SortedPlace(SliceOf(j \div num_keys, it), j % num_keys)
    BY TargetIs
  <2>. HIDE DEF s
  <2>. QED  BY <1>2, <2>1, <2>2
<1>4. /\ i = s * num_keys + (i % num_keys) /\ i % num_keys \in LocalIndex
      /\ j = (j \div num_keys) * num_keys + (j % num_keys) /\ j % num_keys \in LocalIndex
  BY Slices DEF ForRank
<1>5. i % num_keys = j % num_keys
  <2>. HIDE DEF s
  <2>. QED  BY <1>1, <1>3, <1>4, SliceSorted
<1>. QED  BY <1>2, <1>4, <1>5

(* So they fill the beginning of key_buff2, and every key is there.        *)
Delivers(received, d, it) ==
  \A i \in ForRank(d, it) : received[Target(i, d, it)] = TrueKeys(it)[i]
Owns(d, k, it) == \A i \in AllKeys : TrueKeys(it)[i] = k => i \in ForRank(d, it)
Found(received, n, k) == {x \in 0 .. n - 1 : received[x] = k}
Equal(k, it) == {i \in AllKeys : TrueKeys(it)[i] = k}

LEMMA AllArrive ==
  ASSUME Runs, NEW it \in 0 .. MAX_ITERATIONS, NEW d \in ActiveRank, NEW received, NEW k,
         Delivers(received, d, it), Owns(d, k, it)
  PROVE  Cardinality(Found(received, Cardinality(ForRank(d, it)), k))
           = Cardinality(Equal(k, it))
<1>. DEFINE S == ForRank(d, it)
            N == Cardinality(S)
            T == 0 .. N - 1
            f == [i \in S |-> Target(i, d, it)]
            K == Equal(k, it)
            P == {x \in T : received[x] = k}
            g == [i \in K |-> Target(i, d, it)]
<1>1. IsFiniteSet(S) /\ N \in Nat
  BY ForFinite, JobFacts DEF Runs
<1>2. IsFiniteSet(T) /\ Cardinality(T) = N
  <2>. HIDE DEF N
  <2>1. IsFiniteSet(T) /\ Cardinality(T) = IF 0 > N - 1 THEN 0 ELSE (N - 1) - 0 + 1
    BY <1>1, FS_Interval
  <2>. QED  BY <1>1, <2>1
<1>3. \A i \in S : Target(i, d, it) \in T
  BY TargetIs
<1>4. \A i, j \in S : Target(i, d, it) = Target(j, d, it) => i = j
  BY TargetsDiffer
<1>5. K \subseteq S /\ K \subseteq AllKeys /\ S \subseteq AllKeys
  BY DEF ForRank, Equal, Owns
<1>6. \A i \in K : TrueKeys(it)[i] = k
  BY DEF Equal
<1>7. \A i \in S : received[Target(i, d, it)] = TrueKeys(it)[i]
  BY DEF Delivers
<1>8. \A i \in S : TrueKeys(it)[i] = k => i \in K
  BY <1>5 DEF Equal
<1>. HIDE DEF S, N, T, K
<1>9. \A x \in T : \E i \in S : Target(i, d, it) = x
  <2>1. f \in [S -> T]  BY <1>3
  <2>2. \A i, j \in S : f[i] = f[j] => i = j  BY <1>4
  <2>3. \A i \in S : f[i] = Target(i, d, it)  OBVIOUS
  <2>. HIDE DEF f
  <2>4. f \in Injection(S, T)  BY <2>1, <2>2 DEF Injection, IsInjective
  <2>5. f \in Surjection(S, T)
    <3>1. Cardinality(S) = Cardinality(T)  BY <1>2 DEF N
    <3>. QED  BY <1>2, <2>4, <3>1, FS_Injection
  <2>6. \A x \in T : \E i \in S : f[i] = x  BY <2>5 DEF Surjection
  <2>. QED  BY <2>3, <2>6
<1>10. g \in Bijection(K, P)
  <2>1. \A i \in K : Target(i, d, it) \in P
    BY <1>3, <1>5, <1>6, <1>7
  <2>2. \A x \in P : \E i \in K : Target(i, d, it) = x
    <3>. SUFFICES ASSUME NEW x \in P  PROVE \E i \in K : Target(i, d, it) = x
      OBVIOUS
    <3>1. x \in T /\ received[x] = k  OBVIOUS
    <3>2. PICK i \in S : Target(i, d, it) = x  BY <1>9, <3>1
    <3>3. i \in K  BY <1>7, <1>8, <3>1, <3>2
    <3>. QED  BY <3>2, <3>3
  <2>3. \A i, j \in K : Target(i, d, it) = Target(j, d, it) => i = j
    BY <1>4, <1>5
  <2>4. \A i \in K : g[i] = Target(i, d, it)  OBVIOUS
  <2>5. g \in [K -> P]
    <3>. HIDE DEF P
    <3>. QED  BY <2>1
  <2>. HIDE DEF g, P
  <2>6. g \in Injection(K, P)  BY <2>3, <2>4, <2>5 DEF Injection, IsInjective
  <2>7. g \in Surjection(K, P)  BY <2>2, <2>4, <2>5 DEF Surjection
  <2>. QED  BY <2>6, <2>7 DEF Bijection
<1>11. IsFiniteSet(K)
  BY <1>1, <1>5, FS_Subset
<1>. HIDE DEF g, P
<1>12. Cardinality(P) = Cardinality(K)
  <2>1. ExistsBijection(K, P)  BY <1>10 DEF ExistsBijection
  <2>. QED  BY <1>11, <2>1, FS_Bijection
<1>. QED  BY <1>12 DEF P, T, N, S, K, Found

-----------------------------------------------------------------------------
(* Steps: what depends on the job alone stays, and a rank leaves to the    *)
(* others what is theirs.                                                  *)
LEMMA SameJob ==
  ASSUME job' = job
  PROVE  /\ Rank' = Rank /\ ActiveRank' = ActiveRank /\ LocalIndex' = LocalIndex
         /\ num_keys' = num_keys /\ comm_size' = comm_size
         /\ (InRange' <=> InRange) /\ (Runs' <=> Runs)
         /\ \A it : /\ TrueKeys(it)' = TrueKeys(it) /\ Totals(it)' = Totals(it)
                    /\ Spans(it)' = Spans(it)
         /\ \A r, it : /\ SliceOf(r, it)' = SliceOf(r, it) /\ ForRank(r, it)' = ForRank(r, it)
                       /\ (Fits(r, it)' <=> Fits(r, it))
         /\ \A r, d, it : /\ For(r, d, it)' = For(r, d, it) /\ Ahead(r, d, it)' = Ahead(r, d, it)
                          /\ Earlier(r, d, it)' = Earlier(r, d, it)
         /\ \A r, ks : BucketSizes(r, ks)' = BucketSizes(r, ks)
         /\ \A ks, i : SortedPlace(ks, i)' = SortedPlace(ks, i)
         /\ \A r, it : BucketSizes(r, SliceOf(r, it))' = BucketSizes(r, SliceOf(r, it))
         /\ \A r, it, i : SortedPlace(SliceOf(r, it), i)' = SortedPlace(SliceOf(r, it), i)
<1>1. Rank' = Rank  BY DEF Rank
<1>2. comm_size' = comm_size  BY DEF comm_size
<1>3. num_keys' = num_keys  BY <1>2 DEF num_keys
<1>4. ActiveRank' = ActiveRank /\ LocalIndex' = LocalIndex
  BY <1>2, <1>3 DEF ActiveRank, LocalIndex
<1>5. (InRange' <=> InRange) /\ (Runs' <=> Runs)
  BY DEF InRange, Runs
<1>6. ASSUME NEW it  PROVE TrueKeys(it)' = TrueKeys(it)
  BY DEF TrueKeys
<1>7. ASSUME NEW r, NEW it  PROVE SliceOf(r, it)' = SliceOf(r, it)
  BY <1>3, <1>4, <1>6 DEF SliceOf
<1>8. ASSUME NEW r, NEW ks  PROVE BucketSizes(r, ks)' = BucketSizes(r, ks)
  BY <1>3, <1>4 DEF BucketSizes, HiddenKey
<1>9. ASSUME NEW s, NEW it  PROVE BucketSizes(s, SliceOf(s, it))' = BucketSizes(s, SliceOf(s, it))
  BY <1>3, <1>4, <1>7 DEF BucketSizes, HiddenKey
<1>10. ASSUME NEW it  PROVE Totals(it)' = Totals(it)
  BY <1>4, <1>9 DEF Totals
<1>11. ASSUME NEW it  PROVE Route(it)' = Route(it)
  BY <1>3, <1>10 DEF Route, Division
<1>12. ASSUME NEW it  PROVE Spans(it)' = Spans(it)
  BY <1>4, <1>11 DEF Spans
<1>13. ASSUME NEW r, NEW it
       PROVE  ForRank(r, it)' = ForRank(r, it) /\ (Fits(r, it)' <=> Fits(r, it))
  BY <1>6, <1>11 DEF ForRank, Destination, Fits
<1>14. ASSUME NEW r, NEW d, NEW it
       PROVE  /\ For(r, d, it)' = For(r, d, it) /\ Ahead(r, d, it)' = Ahead(r, d, it)
              /\ Earlier(r, d, it)' = Earlier(r, d, it)
  BY <1>3, <1>4, <1>7, <1>11, <1>13 DEF For, Ahead, Earlier, Destination
<1>15. ASSUME NEW ks, NEW i  PROVE SortedPlace(ks, i)' = SortedPlace(ks, i)
  BY <1>4 DEF SortedPlace
<1>16. ASSUME NEW r, NEW it, NEW i
       PROVE  SortedPlace(SliceOf(r, it), i)' = SortedPlace(SliceOf(r, it), i)
  BY <1>4, <1>7 DEF SortedPlace
<1>. QED  BY <1>1, <1>2, <1>3, <1>4, <1>5, <1>6, <1>7, <1>8, <1>9, <1>10, <1>12, <1>13, <1>14,
             <1>15, <1>16

Keeps(s) ==
  /\ pc'[s] = pc[s] /\ iteration'[s] = iteration[s] /\ timed'[s] = timed[s]
  /\ key_array'[s] = key_array[s]
  /\ key_buff1'[s] = key_buff1[s] /\ key_buff2'[s] = key_buff2[s]
  /\ bucket_size'[s] = bucket_size[s] /\ bucket_size_totals'[s] = bucket_size_totals[s]
  /\ distrib'[s] = distrib[s]
  /\ send_count'[s] = send_count[s] /\ send_displ'[s] = send_displ[s]
  /\ recv_count'[s] = recv_count[s] /\ recv_displ'[s] = recv_displ[s]

(* Only rank r moves.                                                      *)
Alone(r) == job' = job /\ Shapes' /\ \A s \in Rank : s # r => Keeps(s)

LEMMA RankAlone ==
  ASSUME TypeOK, NEW r \in Rank, RankStep(r)
  PROVE  Alone(r)
<1>. USE DEF Alone, Keeps, TypeOK, Shapes, OfRanks, Set, Give, Exit, Rank, keyArrays, sizes, pieces,
             results
<1>1. CASE StartOutOfRange(r)  BY <1>1 DEF StartOutOfRange
<1>2. CASE Start(r)  BY <1>2 DEF Start
<1>3. CASE Permitted(r)  BY <1>3 DEF Permitted
<1>4. CASE CreateSeq(r)  BY <1>4 DEF CreateSeq
<1>5. CASE SortIntoBuckets(r)  BY <1>5 DEF SortIntoBuckets
<1>6. CASE PlanRedistribution(r)  BY <1>6 DEF PlanRedistribution
<1>7. CASE RankKeys(r)  BY <1>7 DEF RankKeys
<1>8. CASE SortKeys(r)  BY <1>8 DEF SortKeys
<1>9. CASE SendKey(r)  BY <1>9 DEF SendKey
<1>10. CASE FullVerify(r)  BY <1>10 DEF FullVerify
<1>11. CASE PrintResults(r)  BY <1>11 DEF PrintResults
<1>12. CASE Summary(r)  BY <1>12 DEF Summary
<1>. QED  BY <1>1, <1>2, <1>3, <1>4, <1>5, <1>6, <1>7, <1>8, <1>9, <1>10, <1>11, <1>12
          DEF RankStep

LEMMA DataKept ==
  ASSUME job' = job, NEW s \in ActiveRank, Keeps(s), DataOf(s)
  PROVE  DataOf(s)'
<1>. USE DEF Keeps
<1>1. ASSUME NEW it  PROVE Holds(s, it)' <=> Holds(s, it)
  BY SameJob DEF Holds
<1>2. ASSUME NEW it  PROVE Counted(s, it)' <=> Counted(s, it)
  <2>1. BucketSizes(s, SliceOf(s, it))' = BucketSizes(s, SliceOf(s, it))
    BY SameJob
  <2>. QED  BY <2>1, SameJob DEF Counted
<1>3. ASSUME NEW it  PROVE Ordered(s, it)' <=> Ordered(s, it)
  <2>1. ASSUME NEW i  PROVE SortedPlace(SliceOf(s, it), i)' = SortedPlace(SliceOf(s, it), i)
    BY SameJob
  <2>. QED  BY <2>1, SameJob DEF Ordered
<1>4. ASSUME NEW it
      PROVE  (Summed(s, it)' <=> Summed(s, it)) /\ (Divided(s, it)' <=> Divided(s, it))
  BY SameJob DEF Summed, Divided
<1>5. ASSUME NEW it
      PROVE  (Sends(s, it)' <=> Sends(s, it)) /\ (Receives(s, it)' <=> Receives(s, it))
  BY SameJob DEF Sends, Receives
<1>6. ASSUME NEW it  PROVE Has(s, it)' <=> Has(s, it)
  <2>1. min_key_val(s)' = min_key_val(s) /\ max_key_val(s)' = max_key_val(s)
    BY DEF min_key_val, max_key_val
  <2>2. total_local_keys(s)' = total_local_keys(s)
    BY DEF total_local_keys, KeysOf
  <2>3. ASSUME NEW k  PROVE Population(s, k)' = Population(s, k)
    BY <2>2 DEF Population
  <2>. QED  BY <2>1, <2>3, SameJob DEF Has
<1>7. ASSUME NEW it  PROVE DataIn(s, it)' <=> DataIn(s, it)
  BY <1>1, <1>2, <1>3, <1>4, <1>5, <1>6, SameJob DEF DataIn
<1>8. IterationBefore(s)' = IterationBefore(s)
  BY DEF IterationBefore
<1>. QED  BY <1>1, <1>7, <1>8 DEF DataOf

LEMMA ReductionsKept ==
  ASSUME NEW s, Keeps(s)
  PROVE  Reductions(s)' = Reductions(s)
BY DEF Keeps, Reductions, PassOf

(* A step of rank r alone keeps the invariant if it keeps what is said of  *)
(* r, and r remains in its iteration.                                      *)
LEMMA StepOf ==
  ASSUME IInv, NEW r \in Rank, Alone(r), TypeOf(r)', ControlOf(r)',
         pc'[r] \in Starting \cup Sorting =>
           pc[r] \in Starting \cup Sorting /\ Reductions(r)' = Reductions(r),
         r \in ActiveRank => DataOf(r)'
  PROVE  IInv'
<1>. USE DEF Alone
<1>1. /\ job' = job /\ job \in Jobs /\ Rank' = Rank /\ ActiveRank' = ActiveRank
      /\ ActiveRank \subseteq Rank
      /\ \A s \in Rank : TypeOf(s) /\ ControlOf(s)
      /\ Together /\ \A s \in ActiveRank : DataOf(s)
  BY SameJob, JobFacts DEF IInv, Control, TypeOK
<1>2. ASSUME NEW s \in Rank, s # r  PROVE TypeOf(s)' /\ ControlOf(s)'
  <2>1. Keeps(s)  BY <1>2
  <2>2. TypeOf(s)'
    BY <1>1, <2>1 DEF TypeOf, Keeps, OfPlaces
  <2>3. ControlOf(s)'
    BY <1>1, <2>1, SameJob DEF ControlOf, Keeps
  <2>. QED  BY <2>2, <2>3
<1>3. TypeOK'
  BY <1>1, <1>2 DEF TypeOK
<1>4. \A s \in Rank : ControlOf(s)'
  BY <1>2
<1>5. Together'
  <2>1. \A s \in ActiveRank : pc'[s] \in Starting \cup Sorting =>
          pc[s] \in Starting \cup Sorting /\ Reductions(s)' = Reductions(s)
    <3>. SUFFICES ASSUME NEW s \in ActiveRank, pc'[s] \in Starting \cup Sorting
                  PROVE  pc[s] \in Starting \cup Sorting /\ Reductions(s)' = Reductions(s)
      OBVIOUS
    <3>1. CASE s = r  BY <3>1
    <3>2. CASE s # r
      <4>1. Keeps(s)  BY <1>1, <3>2
      <4>. QED  BY <4>1, ReductionsKept DEF Keeps
    <3>. QED  BY <3>1, <3>2
  <2>. QED  BY <1>1, <2>1 DEF Together
<1>6. \A s \in ActiveRank : DataOf(s)'
  <2>. SUFFICES ASSUME NEW s \in ActiveRank, s # r  PROVE DataOf(s)'
    OBVIOUS
  <2>. QED  BY <1>1, DataKept
<1>. QED  BY <1>1, <1>3, <1>4, <1>5, <1>6 DEF IInv, Control

-----------------------------------------------------------------------------
(* What the data becomes, operation by operation.                          *)

(* rank() changes the keys of one iteration into those of the next, and    *)
(* those of the first, after the warm-up, into themselves.                 *)
LEMMA ChangedAre ==
  ASSUME Runs, NEW r \in ActiveRank, NEW it \in Iteration, it = iteration[r],
         NEW b \in 0 .. MAX_ITERATIONS, b \in {it - 1, it}, Holds(r, b), OfPlaces(key_array[r])
  PROVE  /\ OfPlaces(ChangedKeys(r))
         /\ \A i \in LocalIndex : ChangedKeys(r)[i] = SliceOf(r, it)[i]
<1>1. /\ it \in Nat /\ it >= 1 /\ it <= MAX_ITERATIONS /\ MAX_ITERATIONS \in Nat
      /\ num_keys \in Nat /\ 2 * MAX_ITERATIONS < num_keys /\ num_keys <= size_of_buffers
      /\ size_of_buffers \in Nat /\ it \in 0 .. MAX_ITERATIONS
  BY Constants, Shares DEF Iteration
<1>2. ChangedKeys(r) = IF r # 0 THEN key_array[r]
        ELSE [key_array[r] EXCEPT ![it] = it, ![it + MAX_ITERATIONS] = MAX_KEY - it]
  BY DEF ChangedKeys
<1>3. LocalIndex \subseteq Place /\ it \in LocalIndex /\ it + MAX_ITERATIONS \in LocalIndex
  BY <1>1 DEF LocalIndex, Place
<1>4. OfPlaces(ChangedKeys(r))
  BY <1>2 DEF OfPlaces
<1>5. ASSUME NEW i \in LocalIndex  PROVE ChangedKeys(r)[i] = SliceOf(r, it)[i]
  <2>1. /\ SliceOf(r, it)[i] = TrueKeys(it)[r * num_keys + i]
        /\ key_array[r][i] = TrueKeys(b)[r * num_keys + i]
        /\ r * num_keys + i \in AllKeys
    BY <1>1, SliceKeys DEF Holds
  <2>2. PICK x : x = r * num_keys + i
    OBVIOUS
  <2>3. x \in AllKeys /\ x \in Nat /\ i \in Nat
    BY <2>1, <2>2 DEF AllKeys, LocalIndex
  <2>4. /\ TrueKeys(it)[x] = IF x \in 1 .. it THEN x
             ELSE IF x - MAX_ITERATIONS \in 1 .. it THEN MAX_KEY - (x - MAX_ITERATIONS)
             ELSE job.generated[x]
        /\ TrueKeys(b)[x] = IF x \in 1 .. b THEN x
             ELSE IF x - MAX_ITERATIONS \in 1 .. b THEN MAX_KEY - (x - MAX_ITERATIONS)
             ELSE job.generated[x]
    BY <2>3 DEF TrueKeys
  <2>5. CASE r # 0
    <3>1. x > 2 * MAX_ITERATIONS
      <4>1. r \in Nat /\ r >= 1  BY <2>5, Shares DEF ActiveRank
      <4>2. r * num_keys >= num_keys  BY <1>1, <4>1
      <4>. QED  BY <1>1, <2>2, <2>3, <4>1, <4>2
    <3>2. TrueKeys(it)[x] = job.generated[x] /\ TrueKeys(b)[x] = job.generated[x]
      BY <1>1, <2>3, <2>4, <3>1
    <3>. QED  BY <1>2, <2>1, <2>2, <2>5, <3>2
  <2>6. CASE r = 0
    <3>1. x = i
      BY <1>1, <2>2, <2>3, <2>6
    <3>2. ChangedKeys(r)[i] = IF i = it + MAX_ITERATIONS THEN MAX_KEY - it
                              ELSE IF i = it THEN it ELSE TrueKeys(b)[i]
      BY <1>1, <1>2, <1>3, <2>1, <2>2, <2>6, <3>1 DEF OfPlaces
    <3>3. ~ (it + MAX_ITERATIONS \in 1 .. it) /\ (it + MAX_ITERATIONS) - MAX_ITERATIONS = it
      BY <1>1
    <3>4. CASE i = it + MAX_ITERATIONS
      BY <1>1, <2>1, <2>2, <2>4, <3>1, <3>2, <3>3, <3>4
    <3>5. CASE i = it
      BY <1>1, <2>1, <2>2, <2>4, <3>1, <3>2, <3>5
    <3>6. CASE i # it + MAX_ITERATIONS /\ i # it
      <4>1. /\ i \in 1 .. it <=> i \in 1 .. b
            /\ i - MAX_ITERATIONS \in 1 .. it <=> i - MAX_ITERATIONS \in 1 .. b
        BY <1>1, <2>3, <3>6
      <4>. QED  BY <2>1, <2>2, <2>4, <3>1, <3>2, <3>6, <4>1
    <3>. QED  BY <3>4, <3>5, <3>6
  <2>. QED  BY <2>5, <2>6
<1>. QED  BY <1>4, <1>5

LEMMA CountedAre ==
  ASSUME Runs, NEW r \in ActiveRank, NEW it \in 0 .. MAX_ITERATIONS, NEW ks,
         \A i \in LocalIndex : ks[i] = SliceOf(r, it)[i]
  PROVE  BucketSizes(r, ks) = BucketSizes(r, SliceOf(r, it))
<1>1. ASSUME NEW x \in CountIndex, x \notin Bucket
      PROVE  test_index_array[x - NUM_BUCKETS] % num_keys \in LocalIndex
  <2>1. x - NUM_BUCKETS \in Test
    <3>1. Test = 0 .. Cardinality(Test) - 1 /\ Cardinality(Test) \in Nat
      BY SortAssumption, FS_CardinalityType
    <3>2. PICK n \in Nat : n = Cardinality(Test)
      BY <3>1
    <3>3. x \in 0 .. NUM_BUCKETS + n - 1 /\ x \notin 0 .. NUM_BUCKETS - 1
      BY <1>1, <3>2 DEF CountIndex, Bucket
    <3>4. x - NUM_BUCKETS \in 0 .. n - 1
      BY <3>2, <3>3, Constants
    <3>. QED  BY <3>1, <3>2, <3>4
  <2>2. test_index_array[x - NUM_BUCKETS] \in AllKeys
    BY <2>1, SortAssumption
  <2>. QED  BY <2>2, Slices
<1>2. \A b : {i \in LocalIndex : BucketOf(ks[i]) = b}
               = {i \in LocalIndex : BucketOf(SliceOf(r, it)[i]) = b}
  OBVIOUS
<1>3. \A x \in CountIndex \ Bucket :
        HiddenKey(r, ks, test_index_array[x - NUM_BUCKETS])
          = HiddenKey(r, SliceOf(r, it), test_index_array[x - NUM_BUCKETS])
  BY <1>1 DEF HiddenKey
<1>. QED  BY <1>2, <1>3 DEF BucketSizes

(* The division of the buckets, and what a rank sends of its keys.         *)
LEMMA DividedAre ==
  ASSUME Runs, NEW r \in ActiveRank, NEW it \in Iteration, Counted(r, it), Summed(r, it)
  PROVE  Interval(r) = Spans(it)
BY DEF Interval, Spans, Counted, Summed, Route

LEMMA SentAre ==
  ASSUME Runs, NEW r \in ActiveRank, NEW it \in 0 .. MAX_ITERATIONS,
         bucket_size[r] = BucketSizes(r, SliceOf(r, it)), NEW d \in ActiveRank,
         NEW counts, counts = CountsFor(r, Spans(it))
  PROVE  /\ counts[d] = Cardinality(For(r, d, it))
         /\ Displacement(counts, d) = Cardinality(Ahead(r, d, it))
         /\ For(r, d, it) # {} => Spans(it)[d].first <= Spans(it)[d].last
<1>1. ASSUME NEW s \in ActiveRank  PROVE counts[s] = Cardinality(For(r, s, it))
  <2>1. counts[s] = SumOver(bucket_size[r], Spans(it)[s].first .. Spans(it)[s].last)
    BY DEF CountsFor
  <2>. QED  BY <2>1, CountsAre
<1>2. Displacement(counts, d) = Cardinality(Ahead(r, d, it))
  BY <1>1, AheadIs
<1>3. For(r, d, it) # {} => Spans(it)[d].first <= Spans(it)[d].last
  <2>. SUFFICES ASSUME NEW i \in For(r, d, it)  PROVE Spans(it)[d].first <= Spans(it)[d].last
    OBVIOUS
  <2>1. i \in LocalIndex /\ Route(it)[BucketOf(SliceOf(r, it)[i])] = d
    BY DEF For, Destination
  <2>2. BucketOf(SliceOf(r, it)[i]) \in Bucket
    BY <2>1, SliceKeys
  <2>3. BucketOf(SliceOf(r, it)[i]) \in Spans(it)[d].first .. Spans(it)[d].last
    BY <2>1, <2>2, SpanIs
  <2>4. \A m \in Nat, n \in Nat : m .. n # {} => m <= n
    OBVIOUS
  <2>5. Spans(it)[d].last \in Nat
    BY SpanIs, Constants DEF Bucket
  <2>. QED  BY <2>3, <2>4, <2>5, SpanIs
<1>. QED  BY <1>1, <1>2, <1>3

(* The keys that arrive, as Alltoallv takes them.                          *)
PieceAt(d, x) ==
  {s \in ActiveRank : x - recv_displ[d][s] \in 0 .. recv_count[d][s] - 1}
KeyAt(d, x) ==
  LET s == CHOOSE s \in PieceAt(d, x) : TRUE
  IN  key_buff1[s][send_displ[s][d] + x - recv_displ[d][s]]

LEMMA KeyArrives ==
  ASSUME Runs, NEW it \in 0 .. MAX_ITERATIONS, NEW d \in ActiveRank, Receives(d, it), Fits(d, it),
         \A s \in ActiveRank : Ordered(s, it) /\ Sends(s, it), NEW i \in ForRank(d, it)
  PROVE  /\ Target(i, d, it) \in Place /\ PieceAt(d, Target(i, d, it)) # {}
         /\ KeyAt(d, Target(i, d, it)) = TrueKeys(it)[i]
<1>. DEFINE s == i \div num_keys
            l == i % num_keys
<1>1. PICK x : x = Target(i, d, it)
  OBVIOUS
<1>2. /\ s \in ActiveRank /\ l \in For(s, d, it)
      /\ x \in 0 .. Cardinality(ForRank(d, it)) - 1
      /\ x - Cardinality(Earlier(s, d, it)) \in 0 .. Cardinality(For(s, d, it)) - 1
      /\ Cardinality(Ahead(s, d, it)) + x - Cardinality(Earlier(s, d, it))
           = SortedPlace(SliceOf(s, it), l)
      /\ \A t \in ActiveRank :
           x - Cardinality(Earlier(t, d, it)) \in 0 .. Cardinality(For(t, d, it)) - 1 => t = s
  BY <1>1, TargetIs
<1>3. /\ i \in AllKeys /\ l \in LocalIndex
      /\ SliceOf(s, it)[l] = TrueKeys(it)[s * num_keys + l] /\ i = s * num_keys + l
  <2>1. i \in AllKeys /\ l \in LocalIndex  BY <1>2 DEF ForRank, For
  <2>2. i = s * num_keys + l  BY <2>1, Slices
  <2>. HIDE DEF s, l
  <2>. QED  BY <1>2, <2>1, <2>2, SliceKeys
<1>. HIDE DEF s, l
<1>4. x \in Place
  <2>1. Cardinality(ForRank(d, it)) \in Nat /\ Cardinality(ForRank(d, it)) <= size_of_buffers
    BY <1>2, ForFinite DEF Fits
  <2>. QED  BY <1>2, <2>1, Constants DEF Place
<1>5. PieceAt(d, x) = {s}
  BY <1>2 DEF PieceAt, Receives
<1>6. KeyAt(d, x) = key_buff1[s][send_displ[s][d] + x - recv_displ[d][s]]
  BY <1>5 DEF KeyAt
<1>7. send_displ[s][d] = Cardinality(Ahead(s, d, it))
  BY <1>2 DEF Sends
<1>8. recv_displ[d][s] = Cardinality(Earlier(s, d, it))
  BY <1>2 DEF Receives
<1>9. KeyAt(d, x) = key_buff1[s][SortedPlace(SliceOf(s, it), l)]
  BY <1>2, <1>6, <1>7, <1>8
<1>10. KeyAt(d, x) = TrueKeys(it)[i]
  BY <1>2, <1>3, <1>9 DEF Ordered
<1>. QED  BY <1>1, <1>4, <1>5, <1>10

(* The keys of a rank's range are those of its buckets.                    *)
LEMMA RangeIs ==
  ASSUME Runs, NEW it \in 0 .. MAX_ITERATIONS, NEW d \in ActiveRank, Summed(d, it), Divided(d, it)
  PROVE  /\ total_local_keys(d) = Cardinality(ForRank(d, it))
         /\ \A k \in min_key_val(d) .. max_key_val(d) : Owns(d, k, it)
<1>1. total_local_keys(d) = Cardinality(ForRank(d, it))
  BY ExpectedIs DEF total_local_keys, KeysOf, Summed, Divided
<1>2. ASSUME NEW k \in min_key_val(d) .. max_key_val(d), NEW i \in AllKeys, TrueKeys(it)[i] = k
      PROVE  i \in ForRank(d, it)
  <2>1. PICK first, last : first = Spans(it)[d].first /\ last = Spans(it)[d].last
    OBVIOUS
  <2>2. first \in Nat /\ last \in Nat /\ first .. last = {b \in Bucket : Route(it)[b] = d}
    BY <2>1, SpanIs, Constants DEF Bucket
  <2>3. k \in first * KeysPerBucket .. (last + 1) * KeysPerBucket - 1
    BY <1>2, <2>1 DEF min_key_val, max_key_val, Divided
  <2>4. k \in Nat /\ first * KeysPerBucket <= k /\ k <= (last + 1) * KeysPerBucket - 1
    BY <2>2, <2>3, Constants
  <2>5. first <= BucketOf(k) /\ BucketOf(k) <= last /\ BucketOf(k) \in Nat
    BY <2>2, <2>4, Blocks, Quotients, Constants DEF BucketOf
  <2>6. Route(it)[BucketOf(k)] = d
    BY <2>2, <2>5
  <2>. QED  BY <1>2, <2>6 DEF ForRank, Destination
<1>. QED  BY <1>1, <1>2 DEF Owns

LEMMA Arrival ==
  ASSUME Runs, NEW it \in 0 .. MAX_ITERATIONS, NEW d \in ActiveRank, Receives(d, it), Fits(d, it),
         \A s \in ActiveRank : Ordered(s, it) /\ Sends(s, it), Summed(d, it), Divided(d, it),
         \A x \in Place : PieceAt(d, x) # {} => key_buff2'[d][x] = KeyAt(d, x),
         UNCHANGED <<job, bucket_size_totals, distrib>>
  PROVE  Has(d, it)'
<1>1. PICK received : received = key_buff2'[d]
  OBVIOUS
<1>2. Delivers(received, d, it)
  BY <1>1, KeyArrives DEF Delivers
<1>3. ASSUME NEW k \in min_key_val(d) .. max_key_val(d)
      PROVE  Population(d, k)' = Cardinality(Equal(k, it))
  <2>1. Cardinality(Found(received, Cardinality(ForRank(d, it)), k)) = Cardinality(Equal(k, it))
    <3>1. Owns(d, k, it)  BY <1>3, RangeIs
    <3>. QED  BY <1>2, <3>1, AllArrive
  <2>2. total_local_keys(d)' = total_local_keys(d)
    BY DEF total_local_keys, KeysOf
  <2>3. Population(d, k)' = Cardinality(Found(received, total_local_keys(d), k))
    BY <1>1, <2>2 DEF Population, Found
  <2>. QED  BY <2>1, <2>3, RangeIs
<1>4. min_key_val(d)' = min_key_val(d) /\ max_key_val(d)' = max_key_val(d)
  BY DEF min_key_val, max_key_val
<1>. QED  BY <1>3, <1>4, SameJob DEF Has, Equal

-----------------------------------------------------------------------------
(* The steps of one rank.                                                  *)
LEMMA Facts ==
  ASSUME IInv, NEW r \in Rank
  PROVE  /\ TypeOK /\ job \in Jobs /\ ActiveRank \subseteq Rank
         /\ TypeOf(r) /\ ControlOf(r)
         /\ pc[r] \notin {"start", "done"} => Runs
         /\ pc[r] \notin {"start", "strict", "split", "done"} => r \in ActiveRank
         /\ r \in ActiveRank => DataOf(r)
<1>1. TypeOK /\ job \in Jobs /\ TypeOf(r) /\ ControlOf(r) /\ (r \in ActiveRank => DataOf(r))
  BY DEF IInv, Control, TypeOK
<1>. QED  BY <1>1, JobFacts DEF ControlOf, Runs

(* Before and after the iterations nothing is said of a rank's data.       *)
LEMMA IdleStep ==
  ASSUME IInv, NEW r \in Rank, Alone(r), pc'[r] \in Starting \cup Ending,
         pc'[r] \in Starting => pc[r] \in Starting,
         UNCHANGED <<iteration, timed>>, OfPlaces(key_array[r])', ControlOf(r)'
  PROVE  IInv'
<1>1. TypeOf(r)'
  BY Facts DEF TypeOf
<1>2. pc'[r] \notin Sorting /\ (pc'[r] \in Starting \cup Sorting => pc'[r] \in Starting)
  BY DEF Starting, Sorting, Ending
<1>3. pc'[r] \in Starting \cup Sorting =>
        pc[r] \in Starting \cup Sorting /\ Reductions(r)' = Reductions(r)
  <2>1. pc[r] \in Starting => Reductions(r) = 0
    BY DEF Reductions, Starting
  <2>2. pc'[r] \in Starting => Reductions(r)' = 0
    BY DEF Reductions, Starting
  <2>. QED  BY <1>2, <2>1, <2>2
<1>4. DataOf(r)'
  BY <1>2 DEF DataOf, DataIn, Sorting
<1>. QED  BY <1>1, <1>3, <1>4, StepOf

LEMMA StartStep ==
  ASSUME IInv, NEW r \in Rank, RankStep(r),
         StartOutOfRange(r) \/ Start(r) \/ Permitted(r)
  PROVE  IInv'
<1>. USE DEF Starting, Ending, ControlOf, OfPlaces, TypeOf, Set, Exit, keyArrays
<1>1. /\ Alone(r) /\ TypeOf(r) /\ ControlOf(r)
      /\ pc = [s \in Rank |-> pc[s]] /\ job \in Jobs
  BY Facts, RankAlone DEF TypeOK, Shapes, OfRanks
<1>2. CASE StartOutOfRange(r)
  <2>1. pc'[r] = "done" /\ UNCHANGED <<job, iteration, timed, key_array>>
    BY <1>1, <1>2 DEF StartOutOfRange
  <2>. QED  BY <1>1, <2>1, IdleStep
<1>3. CASE Start(r)
  <2>1. /\ pc[r] = "start" /\ pc'[r] \in {"split", "strict"} /\ InRange'
        /\ UNCHANGED <<job, iteration, timed, key_array>>
    BY <1>1, <1>3 DEF Start, InRange
  <2>. QED  BY <1>1, <2>1, IdleStep
<1>4. CASE Permitted(r)
  <2>1. /\ pc[r] = "strict" /\ pc'[r] = "split" /\ InRange'
        /\ UNCHANGED <<job, iteration, timed, key_array>>
    BY <1>1, <1>4 DEF Permitted, InRange
  <2>. QED  BY <1>1, <2>1, IdleStep
<1>. QED  BY <1>2, <1>3, <1>4

LEMMA EndStep ==
  ASSUME IInv, NEW r \in Rank, RankStep(r),
         SortKeys(r) \/ SendKey(r) \/ FullVerify(r) \/ PrintResults(r) \/ Summary(r)
  PROVE  IInv'
<1>. USE DEF Starting, Ending, OfPlaces, Set, Exit, Give, keyArrays
<1>1. /\ Alone(r) /\ TypeOf(r) /\ ControlOf(r)
      /\ pc = [s \in Rank |-> pc[s]] /\ key_array = [s \in Rank |-> key_array[s]]
  BY Facts, RankAlone DEF TypeOK, Shapes, OfRanks
<1>2. /\ pc[r] \in Ending \ {"done"} /\ pc'[r] \in Ending
      /\ UNCHANGED <<job, iteration, timed>> /\ OfPlaces(key_array[r])'
  <2>1. CASE SortKeys(r)
    BY <1>1, <2>1 DEF SortKeys, SortedKeys, Reduce
  <2>2. CASE SendKey(r)
    BY <1>1, <2>2 DEF SendKey, TypeOf
  <2>3. CASE FullVerify(r)
    BY <1>1, <2>3 DEF FullVerify, TypeOf
  <2>4. CASE PrintResults(r)
    BY <1>1, <2>4 DEF PrintResults, Reduce, TypeOf
  <2>5. CASE Summary(r)
    BY <1>1, <2>5 DEF Summary, Reduce, TypeOf
  <2>. QED  BY <2>1, <2>2, <2>3, <2>4, <2>5
<1>3. ControlOf(r)'
  <2>1. pc[r] \notin {"start", "strict", "split", "done"} /\ pc'[r] \notin Starting
    BY <1>2
  <2>2. (InRange' <=> InRange) /\ ActiveRank' = ActiveRank
    BY <1>2, SameJob
  <2>. QED  BY <1>1, <1>2, <2>1, <2>2 DEF ControlOf
<1>. QED  BY <1>1, <1>2, <1>3, IdleStep

(* The iteration in which a rank has its data.                             *)
LEMMA InIteration ==
  ASSUME IInv, NEW r \in Rank, pc[r] \in Sorting
  PROVE  /\ Runs /\ r \in ActiveRank /\ iteration[r] \in Iteration
         /\ \A it \in Iteration : it \in 0 .. MAX_ITERATIONS
         /\ \A it \in Iteration : it = iteration[r] => DataIn(r, it)
         /\ pc[r] = "rank" =>
              \A it \in 0 .. MAX_ITERATIONS : it = IterationBefore(r) => Holds(r, it)
<1>1. Runs /\ r \in ActiveRank /\ DataOf(r) /\ TypeOf(r)
  BY Facts DEF Sorting
<1>2. \A it \in Iteration : it \in 0 .. MAX_ITERATIONS
  BY Constants DEF Iteration
<1>. QED  BY <1>1, <1>2 DEF DataOf, TypeOf

LEMMA CreateSeqStep ==
  ASSUME IInv, NEW r \in Rank, RankStep(r), CreateSeq(r)
  PROVE  IInv'
<1>1. /\ Alone(r) /\ TypeOf(r) /\ ControlOf(r) /\ TypeOK
      /\ pc[r] = "timeron" /\ Runs /\ r \in ActiveRank
      /\ UNCHANGED <<job, iteration, timed>>
  BY Facts, RankAlone DEF CreateSeq
<1>2. /\ pc'[r] = "rank"
      /\ key_array'[r] = [x \in Place |->
            IF x \in LocalIndex THEN job.generated[r * num_keys + x] ELSE key_array[r][x]]
  BY <1>1 DEF CreateSeq, Set, TypeOK, Shapes, OfRanks
<1>3. TypeOf(r)'
  BY <1>1, <1>2 DEF TypeOf, OfPlaces, Sorting
<1>4. ~ timed[r] /\ ControlOf(r)'
  <2>1. (InRange' <=> InRange) /\ ActiveRank' = ActiveRank /\ InRange
    BY <1>1, SameJob DEF Runs
  <2>. QED  BY <1>1, <1>2, <2>1 DEF ControlOf, Starting
<1>5. pc[r] \in Starting \cup Sorting /\ Reductions(r)' = Reductions(r)
  BY <1>1, <1>2, <1>4 DEF Reductions, PassOf, Starting, Sorting
<1>6. Holds(r, 0)'
  <2>1. ASSUME NEW i \in LocalIndex  PROVE key_array'[r][i] = SliceOf(r, 0)[i]
    <3>1. i \in Place /\ r * num_keys + i \in AllKeys
      BY <1>1, Shares, Slices, Constants DEF LocalIndex, Place
    <3>2. key_array'[r][i] = job.generated[r * num_keys + i]
      BY <1>2, <3>1
    <3>3. SliceOf(r, 0)[i] = TrueKeys(0)[r * num_keys + i]
      BY DEF SliceOf
    <3>4. \A x \in AllKeys : TrueKeys(0)[x] = job.generated[x]
      BY DEF TrueKeys
    <3>. QED  BY <3>1, <3>2, <3>3, <3>4
  <2>. QED  BY <1>1, <2>1, SameJob DEF Holds
<1>7. DataOf(r)'
  <2>1. IterationBefore(r)' = 0
    BY <1>1, <1>4 DEF IterationBefore
  <2>2. \A it : DataIn(r, it)'
    BY <1>2 DEF DataIn, Sorting
  <2>. QED  BY <1>6, <2>1, <2>2 DEF DataOf
<1>. QED  BY <1>1, <1>3, <1>4, <1>5, <1>7, StepOf

LEMMA SortIntoBucketsStep ==
  ASSUME IInv, NEW r \in Rank, RankStep(r), SortIntoBuckets(r)
  PROVE  IInv'
<1>1. /\ Alone(r) /\ TypeOf(r) /\ ControlOf(r) /\ TypeOK
      /\ pc[r] = "rank" /\ pc[r] \in Sorting
      /\ UNCHANGED <<job, iteration, timed>>
  BY Facts, RankAlone DEF SortIntoBuckets, Sorting
<1>2. PICK it : it = iteration[r]
  OBVIOUS
<1>3. PICK b : b = IterationBefore(r)
  OBVIOUS
<1>4. /\ Runs /\ r \in ActiveRank /\ it \in Iteration /\ it \in 0 .. MAX_ITERATIONS
  BY <1>1, <1>2, InIteration
<1>5. b \in 0 .. MAX_ITERATIONS /\ b \in {it - 1, it}
  BY <1>1, <1>2, <1>3, <1>4, Constants DEF IterationBefore, ControlOf, TypeOf, Iteration
<1>6. Holds(r, b)
  BY <1>1, <1>3, <1>5, InIteration
<1>7. PICK ks : ks = ChangedKeys(r)
  OBVIOUS
<1>8. OfPlaces(ks) /\ \A i \in LocalIndex : ks[i] = SliceOf(r, it)[i]
  BY <1>1, <1>2, <1>4, <1>5, <1>6, <1>7, ChangedAre DEF TypeOf
<1>9. /\ pc'[r] = "allreduce" /\ key_array'[r] = ks
      /\ bucket_size'[r] = BucketSizes(r, ks)
      /\ distrib'[r] = [s \in ActiveRank |-> [first |-> 0, last |-> 0]]
      /\ key_buff1'[r] = InBucketOrder(r, ks)
  BY <1>1, <1>7 DEF SortIntoBuckets, Set, TypeOK, Shapes, OfRanks
<1>10. TypeOf(r)'
  BY <1>1, <1>8, <1>9 DEF TypeOf, OfPlaces, Sorting
<1>11. ControlOf(r)'
  <2>1. (InRange' <=> InRange) /\ ActiveRank' = ActiveRank /\ InRange
    BY <1>1, <1>4, SameJob DEF Runs
  <2>. QED  BY <1>1, <1>4, <1>9, <2>1 DEF ControlOf, Starting
<1>12. pc[r] \in Starting \cup Sorting /\ Reductions(r)' = Reductions(r)
  BY <1>1, <1>9 DEF Reductions, PassOf, Starting, Sorting
<1>13. Holds(r, it)'
  BY <1>1, <1>8, <1>9, SameJob DEF Holds
<1>14. Counted(r, it)'
  BY <1>1, <1>4, <1>8, <1>9, SameJob, CountedAre DEF Counted
<1>15. Ordered(r, it)'
  BY <1>1, <1>4, <1>8, <1>9, SameJob, Sorted DEF Ordered
<1>16. DataOf(r)'
  <2>1. DataIn(r, it)'
    BY <1>9, <1>13, <1>14, <1>15 DEF DataIn, Sorting
  <2>. QED  BY <1>1, <1>2, <1>9, <2>1 DEF DataOf
<1>. QED  BY <1>1, <1>10, <1>11, <1>12, <1>16, StepOf

LEMMA PlanStep ==
  ASSUME IInv, NEW r \in Rank, RankStep(r), PlanRedistribution(r)
  PROVE  IInv'
<1>1. /\ Alone(r) /\ TypeOf(r) /\ ControlOf(r) /\ TypeOK
      /\ pc[r] = "plan" /\ pc[r] \in Sorting
      /\ UNCHANGED <<job, iteration, timed, key_array, key_buff1, bucket_size,
                     bucket_size_totals>>
  BY Facts, RankAlone DEF PlanRedistribution, Sorting, keyArrays, sizes
<1>2. PICK it : it = iteration[r]
  OBVIOUS
<1>3. /\ Runs /\ r \in ActiveRank /\ it \in Iteration /\ it \in 0 .. MAX_ITERATIONS
      /\ Holds(r, it) /\ Counted(r, it) /\ Ordered(r, it) /\ Summed(r, it)
  BY <1>1, <1>2, InIteration DEF DataIn, Sorting
<1>4. Interval(r) = Spans(it)
  BY <1>3, DividedAre
<1>5. PICK counts : counts = CountsFor(r, Spans(it))
  OBVIOUS
<1>6. /\ pc'[r] = "alltoall" /\ distrib'[r] = Spans(it) /\ send_count'[r] = counts
      /\ \A d \in ActiveRank : Spans(it)[d].first <= Spans(it)[d].last =>
                                 send_displ'[r][d] = Displacement(counts, d)
  BY <1>1, <1>4, <1>5 DEF PlanRedistribution, Set, TypeOK, Shapes, OfRanks
<1>7. TypeOf(r)'
  BY <1>1, <1>6 DEF TypeOf, OfPlaces, Sorting
<1>8. ControlOf(r)'
  <2>1. (InRange' <=> InRange) /\ ActiveRank' = ActiveRank /\ InRange
    BY <1>1, <1>3, SameJob DEF Runs
  <2>. QED  BY <1>1, <1>3, <1>6, <2>1 DEF ControlOf, Starting
<1>9. pc[r] \in Starting \cup Sorting /\ Reductions(r)' = Reductions(r)
  BY <1>1, <1>6 DEF Reductions, PassOf, Starting, Sorting
<1>10. Holds(r, it)' /\ Ordered(r, it)' /\ Summed(r, it)'
  BY <1>1, <1>3, SameJob DEF Holds, Ordered, Summed
<1>11. Divided(r, it)'
  BY <1>1, <1>6, SameJob DEF Divided
<1>12. Sends(r, it)'
  <2>1. ASSUME NEW d \in ActiveRank
        PROVE  /\ send_count'[r][d] = Cardinality(For(r, d, it))
               /\ For(r, d, it) # {} => send_displ'[r][d] = Cardinality(Ahead(r, d, it))
    <3>1. bucket_size[r] = BucketSizes(r, SliceOf(r, it))
      BY <1>3 DEF Counted
    <3>2. /\ counts[d] = Cardinality(For(r, d, it))
          /\ Displacement(counts, d) = Cardinality(Ahead(r, d, it))
          /\ For(r, d, it) # {} => Spans(it)[d].first <= Spans(it)[d].last
      BY <1>3, <1>5, <3>1, SentAre
    <3>. QED  BY <1>6, <3>2
  <2>. QED  BY <1>1, <2>1, SameJob DEF Sends
<1>13. DataOf(r)'
  <2>1. DataIn(r, it)'
    BY <1>6, <1>10, <1>11, <1>12 DEF DataIn, Sorting
  <2>. QED  BY <1>1, <1>2, <1>6, <2>1 DEF DataOf
<1>. QED  BY <1>1, <1>7, <1>8, <1>9, <1>13, StepOf

(* The warm-up leaves the keys of iteration 1, in which it is followed by  *)
(* iteration 1 itself.                                                     *)
LEMMA RankKeysStep ==
  ASSUME IInv, NEW r \in Rank, RankStep(r), RankKeys(r)
  PROVE  IInv'
<1>1. /\ Alone(r) /\ TypeOf(r) /\ ControlOf(r) /\ TypeOK
      /\ pc[r] = "ranking" /\ pc[r] \in Sorting
      /\ UNCHANGED <<job, key_array>>
  BY Facts, RankAlone DEF RankKeys, Sorting
<1>2. PICK it : it = iteration[r]
  OBVIOUS
<1>3. /\ Runs /\ r \in ActiveRank /\ it \in Iteration /\ it \in 0 .. MAX_ITERATIONS
      /\ Holds(r, it) /\ timed[r] \in BOOLEAN
  BY <1>1, <1>2, InIteration DEF DataIn, Sorting, TypeOf
<1>4. /\ timed'[r] = TRUE
      /\ iteration'[r] = IF ~ timed[r] THEN 1
                         ELSE IF it = MAX_ITERATIONS THEN it ELSE it + 1
      /\ pc'[r] = IF timed[r] /\ it = MAX_ITERATIONS THEN "time" ELSE "rank"
  BY <1>1, <1>2, <1>3 DEF RankKeys, Set, TypeOK, Shapes, OfRanks
<1>5. it \in Nat /\ it >= 1 /\ it <= MAX_ITERATIONS /\ MAX_ITERATIONS \in Nat
  BY <1>3, Constants DEF Iteration
<1>6. iteration'[r] \in Iteration
  BY <1>4, <1>5 DEF Iteration
<1>7. TypeOf(r)'
  BY <1>1, <1>4, <1>6 DEF TypeOf, OfPlaces, Sorting, Ending
<1>8. ControlOf(r)'
  <2>1. (InRange' <=> InRange) /\ ActiveRank' = ActiveRank /\ InRange
    BY <1>1, <1>3, SameJob DEF Runs
  <2>. QED  BY <1>3, <1>4, <2>1 DEF ControlOf, Starting
<1>9. ~ timed[r] => it = 1
  BY <1>1, <1>2 DEF ControlOf
<1>10. pc'[r] \in Starting \cup Sorting =>
         pc[r] \in Starting \cup Sorting /\ Reductions(r)' = Reductions(r)
  <2>1. pc'[r] \in Starting \cup Sorting => pc'[r] = "rank" /\ ~ (timed[r] /\ it = MAX_ITERATIONS)
    BY <1>4 DEF Starting, Sorting
  <2>2. Reductions(r) = (IF timed[r] THEN it ELSE 0) + 1
    BY <1>1, <1>2 DEF Reductions, PassOf, Starting
  <2>3. pc'[r] = "rank" => Reductions(r)' = iteration'[r]
    BY <1>4 DEF Reductions, PassOf, Starting
  <2>4. pc'[r] \in Starting \cup Sorting =>
          iteration'[r] = (IF timed[r] THEN it ELSE 0) + 1
    BY <1>4, <1>5, <2>1
  <2>. QED  BY <1>1, <2>1, <2>2, <2>3, <2>4
<1>11. DataOf(r)'
  <2>1. Holds(r, it)'
    BY <1>1, <1>3, SameJob DEF Holds
  <2>2. \A i : DataIn(r, i)'
    BY <1>4 DEF DataIn, Sorting
  <2>3. pc'[r] = "rank" => IterationBefore(r)' = it
    <3>1. IterationBefore(r)' = IF iteration'[r] = 1 THEN 1 ELSE iteration'[r] - 1
      BY <1>4 DEF IterationBefore
    <3>. QED  BY <1>3, <1>4, <1>5, <1>9, <3>1
  <2>. QED  BY <2>1, <2>2, <2>3 DEF DataOf
<1>. QED  BY <1>1, <1>7, <1>8, <1>10, <1>11, StepOf

LEMMA RankPreserves ==
  ASSUME IInv, NEW r \in Rank, RankStep(r)
  PROVE  IInv'
<1>1. CASE StartOutOfRange(r) \/ Start(r) \/ Permitted(r)  BY <1>1, StartStep
<1>2. CASE CreateSeq(r)  BY <1>2, CreateSeqStep
<1>3. CASE SortIntoBuckets(r)  BY <1>3, SortIntoBucketsStep
<1>4. CASE PlanRedistribution(r)  BY <1>4, PlanStep
<1>5. CASE RankKeys(r)  BY <1>5, RankKeysStep
<1>6. CASE SortKeys(r) \/ SendKey(r) \/ FullVerify(r) \/ PrintResults(r) \/ Summary(r)
  BY <1>6, EndStep
<1>. QED  BY <1>1, <1>2, <1>3, <1>4, <1>5, <1>6 DEF RankStep

-----------------------------------------------------------------------------
(* The steps of all the ranks.  Those that meet in a collective of rank()  *)
(* are in the same iteration.                                              *)
LEMMA Meeting ==
  ASSUME IInv, NEW c \in Sorting \ {"rank"}, \A s \in ActiveRank : pc[s] = c
  PROVE  \E it \in Iteration, was \in BOOLEAN :
           \A s \in ActiveRank : iteration[s] = it /\ timed[s] = was /\ DataIn(s, it)
<1>1. /\ 0 \in ActiveRank /\ ActiveRank \subseteq Rank /\ Together
      /\ \A s \in Rank : TypeOf(s) /\ ControlOf(s)
  BY JobFacts DEF IInv, Control, TypeOK
<1>2. \A s \in ActiveRank : /\ iteration[s] \in Iteration /\ timed[s] \in BOOLEAN
                            /\ ~ timed[s] => iteration[s] = 1
  BY <1>1 DEF TypeOf, ControlOf
<1>3. \A s \in ActiveRank : PassOf(s) \in Nat
  BY <1>2, Constants DEF PassOf, Iteration
<1>4. ASSUME NEW s \in ActiveRank  PROVE PassOf(s) = PassOf(0)
  <2>1. Reductions(s) = Reductions(0)
    <3>1. pc[s] \in Sorting /\ pc[0] \in Sorting  BY <1>1
    <3>. QED  BY <1>1, <3>1 DEF Together
  <2>2. \/ Reductions(s) = PassOf(s) /\ Reductions(0) = PassOf(0)
        \/ Reductions(s) = PassOf(s) + 1 /\ Reductions(0) = PassOf(0) + 1
    <3>1. pc[s] = c /\ pc[0] = c /\ c \notin Starting
      BY <1>1 DEF Sorting, Starting
    <3>. QED  BY <3>1 DEF Reductions
  <2>. QED  BY <1>1, <1>3, <2>1, <2>2
<1>5. ASSUME NEW s \in ActiveRank  PROVE iteration[s] = iteration[0] /\ timed[s] = timed[0]
  <2>1. /\ iteration[s] >= 1 /\ iteration[0] >= 1 /\ iteration[s] \in Nat /\ iteration[0] \in Nat
    BY <1>1, <1>2, Constants DEF Iteration
  <2>2. /\ timed[s] => PassOf(s) = iteration[s]
        /\ ~ timed[s] => PassOf(s) = 0
        /\ timed[0] => PassOf(0) = iteration[0]
        /\ ~ timed[0] => PassOf(0) = 0
    BY DEF PassOf
  <2>3. timed[s] <=> timed[0]
    BY <1>4, <2>1, <2>2
  <2>4. timed[s] = timed[0]
    BY <1>1, <1>2, <2>3
  <2>5. iteration[s] = iteration[0]
    BY <1>1, <1>2, <1>4, <2>2, <2>3
  <2>. QED  BY <2>4, <2>5
<1>6. PICK it : it = iteration[0]
  OBVIOUS
<1>7. ASSUME NEW s \in ActiveRank  PROVE DataIn(s, it)
  BY <1>1, <1>2, <1>5, <1>6, InIteration
<1>. QED  BY <1>1, <1>2, <1>5, <1>6, <1>7

(* A collective of rank() keeps the invariant if it makes of the data what *)
(* is said of it after the call.                                           *)
LEMMA CollectiveStep ==
  ASSUME IInv, NEW c \in Sorting \ {"rank"}, NEW n \in {"plan", "alltoallv", "ranking"},
         All(c, n), Shapes', UNCHANGED <<job, iteration, timed, key_array>>,
         NEW it \in Iteration, NEW was \in BOOLEAN,
         \A s \in ActiveRank : iteration[s] = it /\ timed[s] = was,
         \A s \in ActiveRank : DataIn(s, it)'
  PROVE  IInv'
<1>1. /\ job \in Jobs /\ Rank' = Rank /\ ActiveRank' = ActiveRank /\ ActiveRank \subseteq Rank
      /\ (InRange' <=> InRange) /\ 0 \in ActiveRank
      /\ \A s \in Rank : TypeOf(s) /\ ControlOf(s)
  BY SameJob, JobFacts DEF IInv, Control, TypeOK
<1>2. /\ \A s \in ActiveRank : pc[s] = c /\ pc'[s] = n
      /\ \A s \in Rank : s \notin ActiveRank => pc'[s] = pc[s]
  BY <1>1 DEF All, comm_work
<1>3. n \in Sorting \ {"rank", "allreduce"} /\ n \notin Starting
  BY DEF Sorting, Starting
<1>4. ASSUME NEW s \in Rank  PROVE TypeOf(s)' /\ ControlOf(s)'
  <2>1. TypeOf(s) /\ ControlOf(s)  BY <1>1
  <2>2. pc'[s] \in Starting \cup Sorting \cup Ending
    <3>1. CASE s \in ActiveRank  BY <1>2, <1>3, <3>1
    <3>2. CASE s \notin ActiveRank  BY <1>2, <2>1, <3>2 DEF TypeOf
    <3>. QED  BY <3>1, <3>2
  <2>3. TypeOf(s)'
    BY <2>1, <2>2 DEF TypeOf, OfPlaces
  <2>4. CASE s \in ActiveRank
    <3>1. InRange  BY <1>2, <2>1, <2>4 DEF ControlOf, Sorting
    <3>. QED  BY <1>1, <1>2, <1>3, <2>1, <2>3, <2>4, <3>1 DEF ControlOf
  <2>5. CASE s \notin ActiveRank
    <3>1. pc'[s] = pc[s]  BY <1>2, <2>5
    <3>. QED  BY <1>1, <2>1, <2>3, <2>5, <3>1 DEF ControlOf
  <2>. QED  BY <2>4, <2>5
<1>5. TypeOK'
  BY <1>1, <1>4 DEF TypeOK
<1>6. Together'
  <2>1. ASSUME NEW s \in ActiveRank  PROVE Reductions(s)' = (IF was THEN it ELSE 0) + 1
    <3>1. pc'[s] = n /\ iteration'[s] = it /\ timed'[s] = was
      BY <1>1, <1>2
    <3>2. pc'[s] \notin Starting /\ pc'[s] \notin {"rank", "allreduce"}
      BY <1>3, <3>1
    <3>. QED  BY <3>1, <3>2 DEF Reductions, PassOf
  <2>. QED  BY <1>1, <2>1 DEF Together
<1>7. \A s \in ActiveRank : DataOf(s)'
  <2>. SUFFICES ASSUME NEW s \in ActiveRank  PROVE DataOf(s)'
    OBVIOUS
  <2>1. pc'[s] # "rank" /\ iteration'[s] = it
    BY <1>1, <1>2, <1>3
  <2>. QED  BY <2>1 DEF DataOf
<1>. QED  BY <1>1, <1>4, <1>5, <1>6, <1>7 DEF IInv, Control

LEMMA AllreduceStep ==
  ASSUME IInv, Allreduce
  PROVE  IInv'
<1>1. /\ All("allreduce", "plan")
      /\ UNCHANGED <<job, iteration, timed, key_array, key_buff1, key_buff2, bucket_size,
                     distrib, send_count, send_displ>>
  BY DEF Allreduce, keyArrays, pieces
<1>2. \A s \in ActiveRank : pc[s] = "allreduce" /\ pc'[s] = "plan"
  BY <1>1, JobFacts DEF All, comm_work, IInv, Control, TypeOK
<1>3. PICK it \in Iteration, was \in BOOLEAN :
        \A s \in ActiveRank : iteration[s] = it /\ timed[s] = was /\ DataIn(s, it)
  BY <1>2, Meeting DEF Sorting
<1>4. \A s \in ActiveRank : Holds(s, it) /\ Counted(s, it) /\ Ordered(s, it)
  BY <1>2, <1>3 DEF DataIn, Sorting
<1>5. Shapes'
  BY <1>1 DEF IInv, Control, TypeOK, Shapes, OfRanks, All, Allreduce, Rank
<1>6. ASSUME NEW x \in CountIndex
      PROVE  SumOver([s \in ActiveRank |-> bucket_size[s][x]], ActiveRank) = Totals(it)[x]
  <2>1. [s \in ActiveRank |-> bucket_size[s][x]]
          = [s \in ActiveRank |-> BucketSizes(s, SliceOf(s, it))[x]]
    BY <1>4 DEF Counted
  <2>. QED  BY <2>1 DEF Totals
<1>7. \A s \in ActiveRank : bucket_size_totals'[s] = Totals(it)
  <2>1. [x \in CountIndex |-> SumOver([s \in ActiveRank |-> bucket_size[s][x]], ActiveRank)]
          = Totals(it)
    <3>1. Totals(it) = [x \in CountIndex |-> Totals(it)[x]]
      BY DEF Totals
    <3>. QED  BY <1>6, <3>1
  <2>2. ActiveRank \subseteq Rank
    BY JobFacts DEF IInv, Control, TypeOK
  <2>. QED  BY <2>1, <2>2 DEF Allreduce
<1>8. ASSUME NEW s \in ActiveRank  PROVE DataIn(s, it)'
  <2>1. Holds(s, it)' /\ Counted(s, it)' /\ Ordered(s, it)'
    BY <1>1, <1>4, SameJob DEF Holds, Counted, Ordered
  <2>2. Summed(s, it)'
    BY <1>1, <1>7, SameJob DEF Summed
  <2>. QED  BY <1>2, <2>1, <2>2 DEF DataIn, Sorting
<1>. QED  BY <1>1, <1>3, <1>5, <1>8, CollectiveStep DEF Sorting

LEMMA AlltoallStep ==
  ASSUME IInv, Alltoall
  PROVE  IInv'
<1>1. /\ All("alltoall", "alltoallv")
      /\ UNCHANGED <<job, iteration, timed, key_array, key_buff1, key_buff2, bucket_size,
                     bucket_size_totals, distrib, send_count, send_displ>>
  BY DEF Alltoall, keyArrays, sizes
<1>0. job \in Jobs /\ ActiveRank \subseteq Rank /\ 0 \in ActiveRank
  BY JobFacts DEF IInv, Control, TypeOK
<1>2. \A s \in ActiveRank : pc[s] = "alltoall" /\ pc'[s] = "alltoallv"
  BY <1>0, <1>1 DEF All, comm_work
<1>3. PICK it \in Iteration, was \in BOOLEAN :
        \A s \in ActiveRank : iteration[s] = it /\ timed[s] = was /\ DataIn(s, it)
  BY <1>2, Meeting DEF Sorting
<1>4. \A s \in ActiveRank :
        Holds(s, it) /\ Ordered(s, it) /\ Summed(s, it) /\ Divided(s, it) /\ Sends(s, it)
  BY <1>2, <1>3 DEF DataIn, Sorting
<1>5. Shapes'
  BY <1>1 DEF IInv, Control, TypeOK, Shapes, OfRanks, All, Rank
<1>6. Runs /\ it \in 0 .. MAX_ITERATIONS
  BY <1>0, <1>2, InIteration DEF Sorting
<1>7. ASSUME NEW d \in ActiveRank, NEW s \in ActiveRank
      PROVE  /\ recv_count'[d][s] = Cardinality(For(s, d, it))
             /\ recv_displ'[d][s] = Cardinality(Earlier(s, d, it))
  <2>1. PICK counts : counts = recv_count'[d]
    OBVIOUS
  <2>2. \A t \in ActiveRank : counts[t] = Cardinality(For(t, d, it))
    BY <1>0, <1>4, <2>1 DEF Alltoall, Sends
  <2>3. recv_displ'[d][s] = Displacement(counts, s)
    BY <1>0, <2>1 DEF Alltoall
  <2>. QED  BY <1>6, <2>1, <2>2, <2>3, EarlierIs
<1>8. ASSUME NEW s \in ActiveRank  PROVE DataIn(s, it)'
  <2>1. Holds(s, it)' /\ Ordered(s, it)' /\ Summed(s, it)' /\ Divided(s, it)'
    BY <1>1, <1>4, SameJob DEF Holds, Ordered, Summed, Divided
  <2>2. Sends(s, it)'
    BY <1>1, <1>4, SameJob DEF Sends
  <2>3. Receives(s, it)'
    BY <1>1, <1>7, SameJob DEF Receives
  <2>. QED  BY <1>2, <2>1, <2>2, <2>3 DEF DataIn, Sorting
<1>. QED  BY <1>1, <1>3, <1>5, <1>8, CollectiveStep DEF Sorting

LEMMA AlltoallvStep ==
  ASSUME IInv, Alltoallv
  PROVE  IInv'
<1>0. job \in Jobs /\ ActiveRank \subseteq Rank /\ 0 \in ActiveRank
  BY JobFacts DEF IInv, Control, TypeOK
<1>1. /\ All("alltoallv", "ranking")
      /\ UNCHANGED <<job, iteration, timed, key_array, key_buff1, bucket_size,
                     bucket_size_totals, distrib, send_count, send_displ>>
  BY DEF Alltoallv, sizes, pieces
<1>2. \A s \in ActiveRank : pc[s] = "alltoallv" /\ pc'[s] = "ranking"
  BY <1>0, <1>1 DEF All, comm_work
<1>3. PICK it \in Iteration, was \in BOOLEAN :
        \A s \in ActiveRank : iteration[s] = it /\ timed[s] = was /\ DataIn(s, it)
  BY <1>2, Meeting DEF Sorting
<1>4. \A s \in ActiveRank : /\ Holds(s, it) /\ Ordered(s, it) /\ Summed(s, it) /\ Divided(s, it)
                            /\ Sends(s, it) /\ Receives(s, it)
  BY <1>2, <1>3 DEF DataIn, Sorting
<1>5. key_buff2' = [r \in Rank |-> [x \in Place |->
        IF r \in ActiveRank /\ PieceAt(r, x) # {} THEN KeyAt(r, x) ELSE key_buff2[r][x]]]
  BY DEF Alltoallv, PieceAt, KeyAt
<1>6. Shapes'
  BY <1>1, <1>5 DEF IInv, Control, TypeOK, Shapes, OfRanks, All, Rank
<1>7. Runs /\ it \in 0 .. MAX_ITERATIONS
  BY <1>0, <1>2, InIteration DEF Sorting
<1>8. ASSUME NEW s \in ActiveRank  PROVE DataIn(s, it)'
  <2>1. Holds(s, it)' /\ Summed(s, it)' /\ Divided(s, it)'
    BY <1>1, <1>4, SameJob DEF Holds, Summed, Divided
  <2>2. \A x \in Place : PieceAt(s, x) # {} => key_buff2'[s][x] = KeyAt(s, x)
    BY <1>0, <1>5
  <2>3. Fits(s, it)' => Has(s, it)'
    <3>. SUFFICES ASSUME Fits(s, it)'  PROVE Has(s, it)'
      OBVIOUS
    <3>1. Fits(s, it)  BY <1>1, SameJob
    <3>. QED  BY <1>1, <1>4, <1>7, <2>2, <3>1, Arrival
  <2>. QED  BY <1>2, <2>1, <2>3 DEF DataIn, Sorting
<1>. QED  BY <1>1, <1>3, <1>6, <1>8, CollectiveStep DEF Sorting

LEMMA AbortStep ==
  ASSUME IInv, Abort
  PROVE  IInv'
<1>1. /\ pc' = [r \in Rank |-> "done"]
      /\ UNCHANGED <<job, iteration, timed, key_array, key_buff1, key_buff2, bucket_size,
                     bucket_size_totals, distrib, send_count, send_displ>>
  BY DEF Abort, keyArrays, sizes, pieces
<1>2. /\ job \in Jobs /\ Rank' = Rank /\ ActiveRank' = ActiveRank /\ ActiveRank \subseteq Rank
      /\ \A s \in Rank : TypeOf(s) /\ ControlOf(s) /\ pc'[s] = "done"
  BY <1>1, SameJob, JobFacts DEF IInv, Control, TypeOK
<1>3. Shapes'
  BY <1>1 DEF IInv, Control, TypeOK, Shapes, OfRanks, Rank
<1>4. TypeOK'
  BY <1>1, <1>2, <1>3 DEF TypeOK, TypeOf, OfPlaces, Ending
<1>5. \A s \in Rank : ControlOf(s)'
  BY <1>1, <1>2 DEF ControlOf, Starting
<1>6. Together'
  BY <1>2 DEF Together, Starting, Sorting
<1>7. \A s \in ActiveRank : DataOf(s)'
  BY <1>2 DEF DataOf, DataIn, Sorting
<1>. QED  BY <1>2, <1>4, <1>5, <1>6, <1>7 DEF IInv, Control

LEMMA SplitStep ==
  ASSUME IInv, Split
  PROVE  IInv'
<1>1. /\ pc' = [r \in Rank |-> IF r \in ActiveRank THEN "timeron" ELSE "done"]
      /\ \A r \in Rank : pc[r] = "split"
      /\ UNCHANGED <<job, iteration, timed, key_array, key_buff1, key_buff2, bucket_size,
                     bucket_size_totals, distrib, send_count, send_displ>>
  BY DEF Split, keyArrays, sizes, pieces
<1>2. /\ job \in Jobs /\ Rank' = Rank /\ ActiveRank' = ActiveRank /\ ActiveRank \subseteq Rank
      /\ (InRange' <=> InRange)
      /\ \A s \in Rank : TypeOf(s) /\ ControlOf(s) /\ pc'[s] \in {"timeron", "done"}
      /\ \A s \in Rank : pc'[s] = "timeron" <=> s \in ActiveRank
  BY <1>1, SameJob, JobFacts DEF IInv, Control, TypeOK
<1>3. Shapes'
  BY <1>1 DEF IInv, Control, TypeOK, Shapes, OfRanks, Rank
<1>4. TypeOK'
  BY <1>1, <1>2, <1>3 DEF TypeOK, TypeOf, OfPlaces, Starting, Ending
<1>5. \A s \in Rank : ControlOf(s)'
  BY <1>1, <1>2 DEF ControlOf, Starting
<1>6. Together'
  <2>1. \A s \in ActiveRank : Reductions(s)' = 0
    BY <1>2 DEF Reductions, Starting
  <2>. QED  BY <1>2, <2>1 DEF Together
<1>7. \A s \in ActiveRank : DataOf(s)'
  BY <1>2 DEF DataOf, DataIn, Sorting
<1>. QED  BY <1>2, <1>4, <1>5, <1>6, <1>7 DEF IInv, Control

-----------------------------------------------------------------------------
LEMMA Initially ==
  ASSUME Init
  PROVE  IInv
<1>1. /\ job \in Jobs /\ \A r \in Rank : /\ pc[r] = "start" /\ iteration[r] = 1
                                         /\ timed[r] = FALSE /\ OfPlaces(key_array[r])
      /\ ActiveRank \subseteq Rank
  BY JobFacts DEF Init, OfPlaces
<1>2. Shapes
  BY DEF Init, Shapes, OfRanks
<1>3. TypeOK
  <2>1. 1 \in Iteration
    BY Constants DEF Iteration
  <2>2. ASSUME NEW r \in Rank  PROVE TypeOf(r)
    <3>1. pc[r] \in Starting /\ timed[r] \in BOOLEAN
      BY <1>1 DEF Starting
    <3>. QED  BY <1>1, <2>1, <3>1 DEF TypeOf
  <2>. QED  BY <1>1, <1>2, <2>2 DEF TypeOK
<1>4. \A r \in Rank : ControlOf(r)
  BY <1>1 DEF ControlOf
<1>5. Together
  <2>1. \A r \in ActiveRank : Reductions(r) = 0
    BY <1>1 DEF Reductions, Starting
  <2>. QED  BY <2>1 DEF Together
<1>6. \A r \in ActiveRank : DataOf(r)
  BY <1>1 DEF DataOf, DataIn, Sorting
<1>. QED  BY <1>3, <1>4, <1>5, <1>6 DEF IInv, Control

LEMMA Stutter ==
  ASSUME IInv, UNCHANGED vars
  PROVE  IInv'
<1>1. \A s : Keeps(s)
  BY DEF vars, keyArrays, sizes, pieces, Keeps
<1>2. job' = job /\ Rank' = Rank /\ ActiveRank' = ActiveRank /\ (InRange' <=> InRange)
  BY SameJob DEF vars
<1>3. Shapes'
  BY <1>2 DEF IInv, Control, TypeOK, Shapes, OfRanks, vars, keyArrays, sizes, pieces
<1>4. \A s \in Rank : TypeOf(s)' /\ ControlOf(s)'
  BY <1>1, <1>2 DEF IInv, Control, TypeOK, TypeOf, ControlOf, OfPlaces, Keeps
<1>5. Together'
  <2>1. \A s : pc'[s] = pc[s] /\ Reductions(s)' = Reductions(s)
    BY <1>1, ReductionsKept DEF Keeps
  <2>. QED  BY <1>2, <2>1 DEF IInv, Control, Together
<1>6. \A s \in ActiveRank : DataOf(s)'
  BY <1>1, <1>2, DataKept DEF IInv
<1>. QED  BY <1>2, <1>3, <1>4, <1>5, <1>6 DEF IInv, Control, TypeOK

LEMMA Preserves ==
  ASSUME IInv, [Next]_vars
  PROVE  IInv'
<1>1. CASE Collective
  BY <1>1, AbortStep, SplitStep, AllreduceStep, AlltoallStep, AlltoallvStep DEF Collective
<1>2. ASSUME NEW r \in Rank, RankStep(r)  PROVE IInv'
  BY <1>2, RankPreserves
<1>3. CASE UNCHANGED vars
  BY <1>3, Stutter
<1>. QED  BY <1>1, <1>2, <1>3 DEF Next

(* The invariant of MpiSortInv holds in every state of every job: what a   *)
(* rank has at each call of rank() is what the keys of its iteration, as   *)
(* all the ranks together have them, determine.                            *)
THEOREM Inductive == Spec => []IInv
<1>1. Init => IInv
  BY Initially
<1>2. IInv /\ [Next]_vars => IInv'
  BY Preserves
<1>. QED  BY <1>1, <1>2, PTL DEF Spec

(* KeysArrive holds in every state in which the ranks' buckets fit into    *)
(* the buffers they are received in (KeysFit), however the keys are        *)
(* spread, whatever the buffers hold of earlier iterations and in whatever *)
(* order the ranks get on.  (rank(), from the bucket pointers to           *)
(* MPI_Alltoallv().)                                                       *)
THEOREM Arrives == Spec => [](KeysFit => KeysArrive)
<1>1. IInv => (KeysFit => KeysArrive)
  <2>. SUFFICES ASSUME IInv, KeysFit, NEW r \in Rank, pc[r] = "ranking"
                PROVE  \A k \in min_key_val(r) .. max_key_val(r) :
                         Population(r, k)
                           = Cardinality({i \in AllKeys : TrueKeys(iteration[r])[i] = k})
    BY DEF KeysArrive
  <2>1. PICK it : it = iteration[r]
    OBVIOUS
  <2>2. Runs /\ r \in ActiveRank /\ it \in Iteration /\ DataIn(r, it)
    BY <2>1, InIteration DEF Sorting
  <2>3. Fits(r, it)
    BY <2>2 DEF KeysFit, Runs
  <2>4. Has(r, it)
    BY <2>2, <2>3 DEF DataIn
  <2>. QED  BY <2>1, <2>4 DEF Has
<1>. QED  BY <1>1, Inductive, PTL
=============================================================================
