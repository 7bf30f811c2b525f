---------------------------- MODULE NasRun_proofs ----------------------------
(***************************************************************************)
(* Proofs about a run of the benchmark, for every job that meets the       *)
(* assumptions of NasRun: any number of ranks, keys, buckets, iterations   *)
(* and test keys; and about the generation of its keys (KeyGeneration).    *)
(*                                                                         *)
(* IInv (NasRunInv) is inductive in two layers.  Control, which is proved  *)
(* first, says how many collectives a rank has entered, and which: it is   *)
(* about the ranks' ways through the program only, and CollectivesMatch    *)
(* follows.  ValueInv and DataInv, on top of it, say what the ranks have   *)
(* given to the collectives they have entered and what they have got: the  *)
(* plans of all the ranks are those of the same counts.  With it, what     *)
(* one rank posts is what another counts and waits for (ExchangeInv).      *)
(* A second invariant, VerifyInv, is inductive given IInv: it follows what *)
(* the ranks verify, from the exact histograms to what is reported.        *)
(***************************************************************************)
EXTENDS NasRunInv, KeyGeneration, FiniteSetTheorems, WellFoundedInduction, TLAPS

-----------------------------------------------------------------------------
(* The generation of the keys: what randlc() computes from the halves of   *)
(* its arguments is the product modulo 2^46, every intermediate value fits *)
(* its type, and every key is below max_key.  t23 may be any positive      *)
(* number here.                                                            *)
Number == 0 .. t46 - 1

(* A quotient and the remainder that goes with it.                         *)
LEMMA Division ==
  ASSUME NEW n \in Nat, NEW d \in Nat \ {0}
  PROVE  /\ n \div d \in Nat
         /\ n - d * (n \div d) \in 0 .. d - 1
         /\ n % d = n - d * (n \div d)
  BY SMT

LEMMA Modulus ==
  ASSUME t23 \in Nat \ {0}
  PROVE  t46 \in Nat \ {0}
  BY SMT DEF t46

(* Upper and lower half.                                                   *)
LEMMA Halves ==
  ASSUME t23 \in Nat \ {0}, NEW x \in Nat
  PROVE  /\ Upper(x) \in Nat
         /\ Lower(x) \in 0 .. t23 - 1
         /\ x = t23 * Upper(x) + Lower(x)
<1>1. Upper(x) \in Nat /\ Lower(x) \in 0 .. t23 - 1
  BY Division DEF Upper, Lower
<1>2. x = t23 * Upper(x) + (x - t23 * Upper(x))
  BY <1>1
<1> QED
  BY <1>1, <1>2 DEF Lower

LEMMA UpperBound ==
  ASSUME t23 \in Nat \ {0}, NEW k \in Nat \ {0}, NEW x \in 0 .. k * t46 - 1
  PROVE  Upper(x) \in 0 .. k * t23 - 1
<1>1. /\ x \in Nat /\ Upper(x) \in Nat /\ t23 * Upper(x) <= x
  BY Modulus, Halves
<1>2. SUFFICES ASSUME Upper(x) >= k * t23 PROVE FALSE
  BY <1>1
<1>3. t23 * Upper(x) >= t23 * (k * t23)
  BY <1>1, <1>2
<1>4. t23 * (k * t23) = k * t46
  BY SMT DEF t46
<1> QED
  BY <1>1, <1>3, <1>4, Modulus

-----------------------------------------------------------------------------
LEMMA Quotient ==
  ASSUME NEW d \in Nat \ {0}, NEW q \in Nat, NEW r \in 0 .. d - 1
  PROVE  (d * q + r) % d = r
<1> DEFINE n == d * q + r
           p == n \div d
<1>1. /\ n \in Nat /\ p \in Nat
      /\ n - d * p \in 0 .. d - 1
      /\ n % d = n - d * p
  <2>1. n \in Nat
    BY SMT
  <2> QED
    BY <2>1, Division
<1>2. ~(p < q)
  <2>1. SUFFICES ASSUME p <= q - 1 PROVE FALSE
    BY <1>1
  <2>2. d * p <= d * (q - 1)
    BY <1>1, <2>1
  <2> QED
    BY <1>1, <2>2
<1>3. ~(q < p)
  <2>1. SUFFICES ASSUME q <= p - 1 PROVE FALSE
    BY <1>1
  <2>2. d * q <= d * (p - 1)
    BY <1>1, <2>1
  <2> QED
    BY <1>1, <2>2
<1>4. p = q
  BY <1>1, <1>2, <1>3
<1> QED
  BY <1>1, <1>4

LEMMA Shift ==
  ASSUME NEW d \in Nat \ {0}, NEW k \in Nat, NEW n \in Nat
  PROVE  (d * k + n) % d = n % d
<1> DEFINE r == n - d * (n \div d)
<1>1. n \div d \in Nat /\ r \in 0 .. d - 1 /\ n % d = r
  BY Division
<1>2. d * k + n = d * (k + n \div d) + r
  BY <1>1
<1> HIDE DEF r
<1>3. k + n \div d \in Nat
  BY <1>1
<1>4. (d * (k + n \div d) + r) % d = r
  BY <1>1, <1>3, Quotient
<1> QED
  BY <1>1, <1>2, <1>4

LEMMA MiddleNat ==
  ASSUME t23 \in Nat \ {0}, NEW seed \in Nat, NEW multiplier \in Nat
  PROVE  Middle(seed, multiplier) \in Nat
<1>1. /\ Upper(multiplier) \in Nat /\ Lower(multiplier) \in Nat
      /\ Upper(seed) \in Nat /\ Lower(seed) \in Nat
  BY Halves
<1>2. /\ Upper(multiplier) * Lower(seed) \in Nat
      /\ Lower(multiplier) * Upper(seed) \in Nat
  BY <1>1, SMT
<1> QED
  BY <1>2 DEF Middle

(* The product, without the multiples of t46 that randlc() leaves out.     *)
LEMMA Product ==
  ASSUME t23 \in Nat \ {0}, NEW seed \in Nat, NEW multiplier \in Nat
  PROVE  /\ SumOfProducts(seed, multiplier) \in Nat
         /\ \E k \in Nat : seed * multiplier = t46 * k + SumOfProducts(seed, multiplier)
<1> DEFINE a1 == Upper(multiplier)
           a2 == Lower(multiplier)
           x1 == Upper(seed)
           x2 == Lower(seed)
           middle == Middle(seed, multiplier)
           q == Upper(middle)
           z == Lower(middle)
<1>1. /\ a1 \in Nat /\ a2 \in Nat /\ multiplier = t23 * a1 + a2
      /\ x1 \in Nat /\ x2 \in Nat /\ seed = t23 * x1 + x2
  BY Halves
<1>2. middle \in Nat /\ q \in Nat /\ z \in Nat /\ middle = t23 * q + z
  BY Halves, MiddleNat
<1>3. middle = a1 * x2 + a2 * x1
  BY DEF Middle
<1>4. SumOfProducts(seed, multiplier) = t23 * z + a2 * x2
  BY DEF SumOfProducts
<1> HIDE DEF a1, a2, x1, x2, middle, q, z
<1>5. (t23 * x1 + x2) * (t23 * a1 + a2)
        = t23 * t23 * (a1 * x1) + t23 * (a1 * x2 + a2 * x1) + a2 * x2
  BY <1>1, SMT
<1>6. t23 * (t23 * q + z) = t23 * t23 * q + t23 * z
  BY <1>2, SMT
<1>7. seed * multiplier = t46 * (a1 * x1 + q) + (t23 * z + a2 * x2)
  <2>1. seed * multiplier = t23 * t23 * (a1 * x1) + (t23 * t23 * q + t23 * z) + a2 * x2
    BY <1>1, <1>2, <1>3, <1>5, <1>6
  <2>2. t23 * t23 * (a1 * x1 + q) = t23 * t23 * (a1 * x1) + t23 * t23 * q
    BY <1>1, <1>2, SMT
  <2> QED
    BY <1>1, <1>2, <2>1, <2>2, SMT DEF t46
<1>8. a1 * x1 + q \in Nat /\ t23 * z + a2 * x2 \in Nat
  BY <1>1, <1>2, SMT
<1> QED
  BY <1>4, <1>7, <1>8

(* One step of the generator multiplies modulo 2^46: the halves, and the   *)
(* upper product that is left out, make no difference.  (randlc().)        *)
THEOREM RandlcIsProduct ==
  ASSUME t23 \in Nat \ {0}, NEW seed \in Nat, NEW multiplier \in Nat
  PROVE  /\ randlc(seed, multiplier) = (seed * multiplier) % t46
         /\ randlc(seed, multiplier) \in Number
<1>1. t46 \in Nat \ {0}
  BY Modulus
<1>2. PICK k \in Nat : seed * multiplier = t46 * k + SumOfProducts(seed, multiplier)
  BY Product
<1>3. SumOfProducts(seed, multiplier) \in Nat
  BY Product
<1>4. (t46 * k + SumOfProducts(seed, multiplier)) % t46 = SumOfProducts(seed, multiplier) % t46
  BY <1>1, <1>3, Shift
<1>5. /\ SumOfProducts(seed, multiplier) % t46 = randlc(seed, multiplier)
      /\ randlc(seed, multiplier) \in Number
  BY <1>1, <1>3, Division DEF randlc, Number
<1> QED
  BY <1>2, <1>4, <1>5

-----------------------------------------------------------------------------
LEMMA ProductOfHalves ==
  ASSUME t23 \in Nat \ {0}, NEW a \in 0 .. t23 - 1, NEW b \in 0 .. t23 - 1
  PROVE  /\ a * b \in Nat
         /\ a * b <= t23 * (t23 - 1)
<1>1. a * b \in Nat /\ a * b <= t23 * b
  BY SMT
<1>2. t23 * b <= t23 * (t23 - 1)
  BY SMT
<1> QED
  BY <1>1, <1>2

LEMMA HalvesOfNumber ==
  ASSUME t23 \in Nat \ {0}, NEW x \in Number
  PROVE  Upper(x) \in 0 .. t23 - 1 /\ Lower(x) \in 0 .. t23 - 1
<1>1. x \in Nat /\ x \in 0 .. 1 * t46 - 1
  BY Modulus DEF Number
<1>2. Upper(x) \in 0 .. 1 * t23 - 1
  BY <1>1, UpperBound
<1> QED
  BY <1>1, <1>2, Halves

(* Every value randlc() takes an int of, and every sum it makes, stays     *)
(* below twice the modulus: with t23 = 2^23 the sums are integers below    *)
(* 2^47, exact in a double, and the three ints are below 2^24.             *)
THEOREM RandlcFits ==
  ASSUME t23 \in Nat \ {0}, NEW seed \in Number, NEW multiplier \in Number
  PROVE  /\ Upper(seed) \in 0 .. t23 - 1
         /\ Middle(seed, multiplier) \in 0 .. 2 * t46 - 1
         /\ Upper(Middle(seed, multiplier)) \in 0 .. 2 * t23 - 1
         /\ SumOfProducts(seed, multiplier) \in 0 .. 2 * t46 - 1
         /\ SumOfProducts(seed, multiplier) \div t46 \in 0 .. 1
<1> DEFINE a1 == Upper(multiplier)
           a2 == Lower(multiplier)
           x1 == Upper(seed)
           x2 == Lower(seed)
           middle == Middle(seed, multiplier)
           z == Lower(middle)
<1>1. /\ a1 \in 0 .. t23 - 1 /\ a2 \in 0 .. t23 - 1
      /\ x1 \in 0 .. t23 - 1 /\ x2 \in 0 .. t23 - 1
  BY HalvesOfNumber
<1>2. t46 \in Nat \ {0} /\ t23 * (t23 - 1) = t46 - t23
  BY Modulus DEF t46
<1>3. middle \in 0 .. 2 * t46 - 1
  <2>1. middle = a1 * x2 + a2 * x1
    BY DEF Middle
  <2>2. /\ a1 * x2 \in Nat /\ a1 * x2 <= t23 * (t23 - 1)
        /\ a2 * x1 \in Nat /\ a2 * x1 <= t23 * (t23 - 1)
    BY <1>1, ProductOfHalves
  <2> QED
    BY <1>2, <2>1, <2>2
<1>4. Upper(middle) \in 0 .. 2 * t23 - 1
  BY <1>3, UpperBound
<1>5. z \in 0 .. t23 - 1
  BY <1>3, Halves
<1>6. SumOfProducts(seed, multiplier) \in 0 .. 2 * t46 - 1
  <2>1. SumOfProducts(seed, multiplier) = t23 * z + a2 * x2
    BY DEF SumOfProducts
  <2>2. a2 * x2 \in Nat /\ a2 * x2 <= t23 * (t23 - 1)
    BY <1>1, ProductOfHalves
  <2>3. t23 * z \in Nat /\ t23 * z <= t23 * (t23 - 1)
    BY <1>5, SMT
  <2> QED
    BY <1>2, <2>1, <2>2, <2>3
<1>7. SumOfProducts(seed, multiplier) \div t46 \in 0 .. 1
  BY <1>2, <1>6, SMT
<1> QED
  BY <1>1, <1>3, <1>4, <1>6, <1>7

(* Four numbers make a key below max_key: every key has a bucket, and      *)
(* counting it stays inside the array of the buckets.  (generate_keys().)  *)
THEOREM KeyInRange ==
  ASSUME t23 \in Nat \ {0}, NEW max_key \in Nat \ {0},
         NEW a \in Number, NEW b \in Number, NEW c \in Number, NEW d \in Number
  PROVE  KeyOf(a, b, c, d, max_key) \in 0 .. max_key - 1
<1> DEFINE scale == max_key \div 4
           x == a + b + c + d
           key == (scale * x) \div t46
<1>1. t46 \in Nat \ {0}
  BY Modulus
<1>2. scale \in Nat /\ 4 * scale <= max_key
  BY SMT
<1>3. x \in Nat /\ x <= 4 * (t46 - 1)
  BY <1>1 DEF Number
<1> HIDE DEF scale, x
<1>4. scale * x \in Nat /\ scale * x <= scale * (4 * (t46 - 1))
  BY <1>1, <1>2, <1>3, SMT
<1>5. scale * (4 * (t46 - 1)) <= max_key * (t46 - 1)
  <2>1. scale * (4 * (t46 - 1)) = (4 * scale) * (t46 - 1)
    BY <1>1, <1>2, SMT
  <2>2. (4 * scale) * (t46 - 1) <= max_key * (t46 - 1)
    BY <1>1, <1>2, SMT
  <2> QED
    BY <2>1, <2>2
<1>6. scale * x < max_key * t46
  <2>1. /\ max_key * (t46 - 1) = max_key * t46 - max_key
        /\ max_key * t46 \in Nat
    BY <1>1, SMT
  <2>2. scale * (4 * (t46 - 1)) \in Nat
    BY <1>1, <1>2, SMT
  <2> QED
    BY <1>4, <1>5, <2>1, <2>2
<1>7. key \in Nat /\ t46 * key <= scale * x
  <2>1. key \in Nat /\ scale * x - t46 * key \in 0 .. t46 - 1
    BY <1>1, <1>4, Division
  <2> QED
    BY <1>1, <1>4, <2>1
<1>8. ~(key >= max_key)
  <2>1. SUFFICES ASSUME key >= max_key PROVE FALSE
    OBVIOUS
  <2>2. t46 * key >= t46 * max_key
    BY <1>1, <1>7, <2>1, SMT
  <2> QED
    BY <1>1, <1>4, <1>6, <1>7, <2>2, SMT
<1> QED
  BY <1>7, <1>8 DEF KeyOf, scale, x

-----------------------------------------------------------------------------
(* Induction without an operator as a parameter: a set of numbers has a    *)
(* least one.                                                              *)
LEMMA LessThan ==
  \E R : IsWellFoundedOn(R, Nat) /\ \A x, y \in Nat : y < x => <<y, x>> \in R
<1>1. \A x, y \in Nat : y < x => <<y, x>> \in OpToRel(<, Nat)
  BY DEF OpToRel
<1>. QED  BY <1>1, NatLessThanWellFounded, Zenon

LEMMA LeastElement ==
  ASSUME NEW S \in SUBSET Nat, S # {}
  PROVE  \E n \in S : \A m \in S : n <= m
<1>1. PICK R : IsWellFoundedOn(R, Nat) /\ \A x, y \in Nat : y < x => <<y, x>> \in R
  BY LessThan
<1>2. PICK n \in S : \A y \in S : ~ (<<y, n>> \in R)
  BY <1>1, WFMin
<1>3. \A m \in S : ~ (m < n)
  BY <1>1, <1>2
<1>4. \A m \in S : n <= m
  BY <1>3
<1>. QED  BY <1>4

-----------------------------------------------------------------------------
(* Sums over finite sets.                                                  *)

(* What SumOver() goes through, one element after the other.               *)
Adds(iter, values, S) ==
  iter = [s \in SUBSET S |->
            IF s = {} THEN 0
            ELSE values[CHOOSE x \in s : TRUE] + iter[s \ {CHOOSE x \in s : TRUE}]]

LEMMA SumOverIs ==
  ASSUME NEW values, NEW S
  PROVE  SumOver(values, S) = (CHOOSE iter : Adds(iter, values, S))[S]
BY DEF SumOver, MapThenSumSet, MapThenFoldSet, Adds

(* A function that adds the elements in any order has the sum.             *)
Sums(g, values, S) ==
  /\ g = [s \in SUBSET S |-> g[s]]
  /\ g[{}] = 0
  /\ \A s \in SUBSET S : \A x \in s : g[s] = values[x] + g[s \ {x}]

LEMMA SumIs ==
  ASSUME NEW S, IsFiniteSet(S), NEW values, NEW g, Sums(g, values, S)
  PROVE  SumOver(values, S) = g[S]
<1>. USE DEF Sums
<1>1. Adds(g, values, S)
  <2>1. ASSUME NEW s \in SUBSET S
        PROVE  g[s] = IF s = {} THEN 0
                 ELSE values[CHOOSE x \in s : TRUE] + g[s \ {CHOOSE x \in s : TRUE}]
    <3>1. CASE s = {}  BY <3>1
    <3>2. CASE s # {}
      <4>1. (CHOOSE x \in s : TRUE) \in s  BY <3>2
      <4>. QED  BY <3>2, <4>1
    <3>. QED  BY <3>1, <3>2
  <2>2. g = [s \in SUBSET S |->
              IF s = {} THEN 0
              ELSE values[CHOOSE x \in s : TRUE] + g[s \ {CHOOSE x \in s : TRUE}]]
    BY <2>1
  <2>. QED  BY <2>2 DEF Adds
<1>2. PICK iter : iter = CHOOSE f : Adds(f, values, S)
  OBVIOUS
<1>3. Adds(iter, values, S)
  BY <1>1, <1>2
<1>4. ASSUME NEW s \in SUBSET S, iter[s] # g[s]
      PROVE  \E t \in SUBSET S : iter[t] # g[t] /\ Cardinality(t) < Cardinality(s)
  <2>1. s # {}
    BY <1>3, <1>4 DEF Adds
  <2>2. PICK x \in s : /\ iter[s] = values[x] + iter[s \ {x}]
    <3>1. (CHOOSE x \in s : TRUE) \in s  BY <2>1
    <3>. QED  BY <1>3, <2>1, <3>1 DEF Adds
  <2>3. iter[s \ {x}] # g[s \ {x}]
    <3>1. g[s] = values[x] + g[s \ {x}]  OBVIOUS
    <3>. QED  BY <1>4, <2>2, <3>1
  <2>4. IsFiniteSet(s)  BY FS_Subset
  <2>5. Cardinality(s \ {x}) = Cardinality(s) - 1 /\ Cardinality(s) \in Nat
    BY <2>4, FS_RemoveElement, FS_CardinalityType
  <2>. QED  BY <2>3, <2>5
<1>5. \A s \in SUBSET S : iter[s] = g[s]
  <2>. SUFFICES ASSUME NEW s \in SUBSET S, iter[s] # g[s]  PROVE FALSE
    OBVIOUS
  <2>. DEFINE Wrong == {Cardinality(t) : t \in {u \in SUBSET S : iter[u] # g[u]}}
  <2>1. Wrong \in SUBSET Nat
    <3>1. \A u \in SUBSET S : IsFiniteSet(u)  BY FS_Subset
    <3>2. \A u \in SUBSET S : Cardinality(u) \in Nat  BY <3>1, FS_CardinalityType
    <3>. QED  BY <3>2
  <2>2. Cardinality(s) \in Wrong  OBVIOUS
  <2>3. PICK n \in Wrong : \A m \in Wrong : n <= m
    <3>. HIDE DEF Wrong
    <3>1. Wrong # {}  BY <2>2
    <3>. QED  BY <2>1, <3>1, LeastElement
  <2>4. PICK t \in SUBSET S : iter[t] # g[t] /\ Cardinality(t) = n
    BY <2>3
  <2>5. PICK u \in SUBSET S : iter[u] # g[u] /\ Cardinality(u) < n
    BY <1>4, <2>4
  <2>6. Cardinality(u) \in Wrong  BY <2>5
  <2>7. n \in Nat /\ Cardinality(u) \in Nat
    <3>. HIDE DEF Wrong
    <3>. QED  BY <2>1, <2>3, <2>6
  <2>8. n <= Cardinality(u)
    <3>. HIDE DEF Wrong
    <3>. QED  BY <2>3, <2>6
  <2>. QED  BY <2>5, <2>7, <2>8
<1>. QED  BY <1>2, <1>5, SumOverIs

(* The elements of a finite set, counted class by class.                   *)
Class(A, h, x) == {i \in A : h[i] = x}
Within(A, h, S) == {i \in A : h[i] \in S}

LEMMA SumOfClasses ==
  ASSUME NEW S, IsFiniteSet(S), NEW A, IsFiniteSet(A), NEW h, NEW values,
         \A x \in S : values[x] = Cardinality(Class(A, h, x))
  PROVE  SumOver(values, S) = Cardinality(Within(A, h, S))
<1>. USE DEF Class, Within
<1>. DEFINE g == [s \in SUBSET S |-> Cardinality({i \in A : h[i] \in s})]
<1>1. g[{}] = 0
  <2>1. {i \in A : h[i] \in {}} = {}  OBVIOUS
  <2>. QED  BY <2>1, FS_EmptySet
<1>2. ASSUME NEW s \in SUBSET S, NEW x \in s
      PROVE  g[s] = values[x] + g[s \ {x}]
  <2>. DEFINE C == {i \in A : h[i] = x}
              D == {i \in A : h[i] \in s \ {x}}
  <2>1. {i \in A : h[i] \in s} = C \cup D /\ C \cap D = {}
    OBVIOUS
  <2>2. IsFiniteSet(C) /\ IsFiniteSet(D)
    <3>1. C \in SUBSET A /\ D \in SUBSET A  OBVIOUS
    <3>. QED  BY <3>1, FS_Subset
  <2>3. Cardinality(C \cup D) = Cardinality(C) + Cardinality(D)
    <3>. HIDE DEF C, D
    <3>1. Cardinality(C \cap D) = 0  BY <2>1, FS_EmptySet
    <3>2. Cardinality(C) \in Nat /\ Cardinality(D) \in Nat  BY <2>2, FS_CardinalityType
    <3>3. Cardinality(C \cup D) = Cardinality(C) + Cardinality(D) - Cardinality(C \cap D)
      BY <2>2, FS_Union
    <3>. QED  BY <3>1, <3>2, <3>3
  <2>4. values[x] = Cardinality(C)  OBVIOUS
  <2>5. g[s] = Cardinality(C \cup D) /\ g[s \ {x}] = Cardinality(D)
    BY <2>1
  <2>. QED  BY <2>3, <2>4, <2>5
<1>3. g = [s \in SUBSET S |-> g[s]]  OBVIOUS
<1>4. g[S] = Cardinality({i \in A : h[i] \in S})  OBVIOUS
<1>5. Sums(g, values, S)
  <2>1. \A s \in SUBSET S : \A x \in s : g[s] = values[x] + g[s \ {x}]
    BY <1>2
  <2>. HIDE DEF g
  <2>. QED  BY <1>1, <1>3, <2>1 DEF Sums
<1>. HIDE DEF g
<1>6. SumOver(values, S) = g[S]
  BY <1>5, SumIs
<1>. QED  BY <1>4, <1>6

-----------------------------------------------------------------------------
(* greatest_power_of_two_at_most() gives a number of ranks the job has.    *)
Doubles(count, n) == count = [c \in Nat |-> IF c < n THEN count[c * 2] ELSE c]

LEMMA DoublesExists ==
  ASSUME NEW n \in Nat \ {0}
  PROVE  \E count : Doubles(count, n)
<1>. DEFINE From(b, f) ==
       /\ f = [c \in Nat |-> f[c]]
       /\ \A c \in Nat : c >= b => f[c] = IF c < n THEN f[c * 2] ELSE c
     Good == {b \in Nat : b >= 1 /\ \E f : From(b, f)}
<1>1. n \in Good
  <2>1. From(n, [c \in Nat |-> c])  OBVIOUS
  <2>. HIDE DEF From
  <2>. QED  BY <2>1
<1>2. PICK b \in Good : \A a \in Good : b <= a
  <2>1. Good \in SUBSET Nat /\ Good # {}  BY <1>1
  <2>. HIDE DEF Good
  <2>. QED  BY <2>1, LeastElement
<1>3. PICK f : From(b, f)
  BY <1>2
<1>4. CASE b = 1
  <2>1. f = [c \in Nat |-> f[c]]
    BY <1>3
  <2>2. ASSUME NEW c \in Nat  PROVE f[c] = IF c < n THEN f[c * 2] ELSE c
    <3>1. CASE c = 0
      <4>1. c * 2 = c /\ c < n  BY <3>1
      <4>. QED  BY <4>1
    <3>2. CASE c >= 1  BY <1>3, <1>4, <3>2
    <3>. QED  BY <3>1, <3>2
  <2>3. f = [c \in Nat |-> IF c < n THEN f[c * 2] ELSE c]
    BY <2>1, <2>2
  <2>. QED  BY <2>3 DEF Doubles
<1>5. CASE b # 1
  <2>. DEFINE g == [c \in Nat |-> IF c = b - 1 THEN IF c < n THEN f[c * 2] ELSE c ELSE f[c]]
  <2>1. b - 1 \in Nat /\ b - 1 >= 1 /\ b \in Nat
    BY <1>2, <1>5
  <2>2. ASSUME NEW c \in Nat, c >= b - 1
        PROVE  g[c] = IF c < n THEN g[c * 2] ELSE c
    <3>1. c * 2 \in Nat /\ c * 2 # b - 1
      BY <2>1, <2>2
    <3>2. CASE c = b - 1  BY <3>1, <3>2
    <3>3. CASE c # b - 1
      <4>1. c >= b  BY <2>1, <2>2, <3>3
      <4>2. f[c] = IF c < n THEN f[c * 2] ELSE c  BY <1>3, <4>1
      <4>. QED  BY <3>1, <3>3, <4>2
    <3>. QED  BY <3>2, <3>3
  <2>3. From(b - 1, g)
    <3>1. g = [c \in Nat |-> g[c]]  OBVIOUS
    <3>. HIDE DEF g
    <3>. QED  BY <2>2, <3>1
  <2>4. b - 1 \in Good
    <3>. HIDE DEF From, g
    <3>. QED  BY <2>1, <2>3
  <2>. HIDE DEF Good
  <2>. QED  BY <1>2, <2>1, <2>4
<1>. QED  BY <1>4, <1>5

LEMMA DoublesValue ==
  ASSUME NEW n \in Nat \ {0}, NEW count, Doubles(count, n)
  PROVE  \A c \in 1 .. n - 1 : \E h \in 1 .. n - 1 : count[c] = 2 * h
<1>. DEFINE Is(c) == \E h \in 1 .. n - 1 : count[c] = 2 * h
            Wrong == {n - c : c \in {d \in 1 .. n - 1 : ~ Is(d)}}
<1>1. ASSUME NEW c \in 1 .. n - 1, ~ Is(c)
      PROVE  \E d \in 1 .. n - 1 : ~ Is(d) /\ d > c
  <2>1. count[c] = count[2 * c]
    BY DEF Doubles
  <2>2. CASE 2 * c < n
    <3>1. 2 * c \in 1 .. n - 1 /\ 2 * c > c  BY <2>2
    <3>2. ~ Is(2 * c)  BY <1>1, <2>1
    <3>. HIDE DEF Is
    <3>. QED  BY <3>1, <3>2
  <2>3. CASE 2 * c >= n
    <3>1. count[2 * c] = 2 * c  BY <2>3 DEF Doubles
    <3>. QED  BY <1>1, <2>1, <3>1
  <2>. QED  BY <2>2, <2>3
<1>. SUFFICES ASSUME NEW c \in 1 .. n - 1, ~ Is(c)  PROVE FALSE
  OBVIOUS
<1>2. Wrong \in SUBSET Nat /\ Wrong # {}  OBVIOUS
<1>3. PICK m \in Wrong : \A k \in Wrong : m <= k
  <2>. HIDE DEF Wrong
  <2>. QED  BY <1>2, LeastElement
<1>. HIDE DEF Is
<1>4. PICK d \in 1 .. n - 1 : ~ Is(d) /\ m = n - d
  BY <1>3
<1>5. PICK e \in 1 .. n - 1 : ~ Is(e) /\ e > d
  BY <1>1, <1>4
<1>6. n - e \in Wrong  BY <1>5
<1>. HIDE DEF Wrong
<1>. QED  BY <1>3, <1>4, <1>5, <1>6

LEMMA ActiveRanks ==
  ASSUME NEW n \in Nat \ {0}
  PROVE  GreatestPowerOfTwo(n) \in 1 .. n
<1>1. PICK count : count = CHOOSE f : Doubles(f, n)
  OBVIOUS
<1>2. Doubles(count, n)
  BY <1>1, DoublesExists
<1>3. Doubled(n) = count[1]
  BY <1>1 DEF Doubled, Doubles
<1>4. CASE n = 1
  <2>1. count[1] = 1  BY <1>2, <1>4 DEF Doubles
  <2>. QED  BY <1>3, <1>4, <2>1 DEF GreatestPowerOfTwo
<1>5. CASE n # 1
  <2>1. PICK h \in 1 .. n - 1 : count[1] = 2 * h
    BY <1>2, <1>5, DoublesValue
  <2>. QED  BY <1>3, <2>1 DEF GreatestPowerOfTwo
<1>. QED  BY <1>4, <1>5

-----------------------------------------------------------------------------
(* The bucket plan, on counts g of keys with buckets h, of which there are *)
(* as many as n ranks have.                                                *)
LEMMA Constants ==
  /\ MAX_ITERATIONS \in Nat \ {0} /\ KeysPerBucket \in Nat \ {0}
  /\ MAX_KEY \in Nat \ {0} /\ NumBuckets \in Nat \ {0}
  /\ NumBuckets * KeysPerBucket = MAX_KEY
  /\ MAX_ITERATIONS < MAX_KEY
  /\ WorkBufferSize \in Nat
  /\ TOTAL_KEYS * MIN_PROCS \in Nat \ {0}
<1>1. NumBuckets \in Nat
  BY RunAssumption DEF NumBuckets
<1>2. NumBuckets # 0
  <2>. SUFFICES ASSUME NumBuckets = 0  PROVE FALSE
    OBVIOUS
  <2>1. NumBuckets * KeysPerBucket = 0  BY RunAssumption
  <2>. QED  BY <2>1, RunAssumption
<1>3. TOTAL_KEYS * MIN_PROCS \in Nat \ {0}
  BY RunAssumption
<1>. QED  BY <1>1, <1>2, <1>3, RunAssumption

LEMMA KeysFinite ==
  /\ IsFiniteSet(AllKeys) /\ Cardinality(AllKeys) = TOTAL_KEYS * MIN_PROCS
  /\ IsFiniteSet(Bucket) /\ IsFiniteSet(KeyValue)
<1>. DEFINE n == TOTAL_KEYS * MIN_PROCS
<1>1. ASSUME NEW m \in Nat
      PROVE  IsFiniteSet(0 .. m - 1) /\ Cardinality(0 .. m - 1) = m
  <2>1. IsFiniteSet(0 .. m - 1) /\ Cardinality(0 .. m - 1) =
          IF 0 > m - 1 THEN 0 ELSE (m - 1) - 0 + 1
    BY FS_Interval
  <2>. QED  BY <2>1
<1>2. IsFiniteSet(AllKeys) /\ Cardinality(AllKeys) = n
  <2>1. n \in Nat /\ AllKeys = 0 .. n - 1  BY Constants DEF AllKeys
  <2>. HIDE DEF n
  <2>. QED  BY <1>1, <2>1
<1>3. IsFiniteSet(Bucket)  BY <1>1, Constants DEF Bucket
<1>4. IsFiniteSet(KeyValue)  BY <1>1, Constants DEF KeyValue
<1>. QED  BY <1>2, <1>3, <1>4

(* A recursion over an interval defines a function.                        *)
Recursion(f, n, a, F) == f = [b \in 0 .. n |-> IF b = 0 THEN a ELSE F[<<b, f[b - 1]>>]]

LEMMA RecursionExists ==
  ASSUME NEW n \in Nat, NEW T, NEW a \in T, NEW F \in [(1 .. n) \X T -> T]
  PROVE  \E f \in [0 .. n -> T] : Recursion(f, n, a, F)
<1>. DEFINE Up(m) == \E f \in [0 .. n -> T] :
              f[0] = a /\ \A b \in 1 .. m : f[b] = F[<<b, f[b - 1]>>]
            Wrong == {m \in 0 .. n : ~ Up(m)}
<1>1. Up(0)
  <2>1. PICK f : f = [b \in 0 .. n |-> a]  OBVIOUS
  <2>2. f \in [0 .. n -> T] /\ f[0] = a  BY <2>1
  <2>. QED  BY <2>2
<1>2. ASSUME NEW m \in 0 .. n, m > 0, Up(m - 1)  PROVE Up(m)
  <2>1. PICK f \in [0 .. n -> T] : f[0] = a /\ \A b \in 1 .. m - 1 : f[b] = F[<<b, f[b - 1]>>]
    BY <1>2
  <2>. DEFINE g == [f EXCEPT ![m] = F[<<m, f[m - 1]>>]]
  <2>2. F[<<m, f[m - 1]>>] \in T
    <3>1. m - 1 \in 0 .. n /\ m \in 1 .. n  BY <1>2
    <3>2. <<m, f[m - 1]>> \in (1 .. n) \X T  BY <3>1
    <3>. QED  BY <3>2
  <2>3. g \in [0 .. n -> T]  BY <2>2
  <2>4. g[0] = a  BY <1>2, <2>1
  <2>5. ASSUME NEW b \in 1 .. m  PROVE g[b] = F[<<b, g[b - 1]>>]
    <3>1. b - 1 \in 0 .. n /\ b - 1 # m /\ g[b - 1] = f[b - 1]  BY <1>2
    <3>2. CASE b = m  BY <3>1, <3>2
    <3>3. CASE b # m
      <4>1. b \in 1 .. m - 1 /\ g[b] = f[b]  BY <3>3
      <4>. QED  BY <2>1, <3>1, <4>1
    <3>. QED  BY <3>2, <3>3
  <2>. HIDE DEF g
  <2>. QED  BY <2>3, <2>4, <2>5
<1>3. Up(n)
  <2>. SUFFICES ASSUME ~ Up(n)  PROVE FALSE
    OBVIOUS
  <2>. HIDE DEF Up
  <2>1. n \in Wrong /\ Wrong \in SUBSET Nat  OBVIOUS
  <2>2. PICK m \in Wrong : \A k \in Wrong : m <= k
    <3>1. Wrong # {}  BY <2>1
    <3>. HIDE DEF Wrong
    <3>. QED  BY <2>1, <3>1, LeastElement
  <2>3. m \in 0 .. n /\ m # 0 /\ ~ Up(m)  BY <1>1, <2>2
  <2>4. m - 1 \notin Wrong  BY <2>2, <2>3
  <2>5. Up(m - 1)  BY <2>3, <2>4
  <2>. QED  BY <1>2, <2>3, <2>5
<1>4. PICK f \in [0 .. n -> T] : f[0] = a /\ \A b \in 1 .. n : f[b] = F[<<b, f[b - 1]>>]
  BY <1>3
<1>5. \A b \in 0 .. n : f[b] = IF b = 0 THEN a ELSE F[<<b, f[b - 1]>>]
  BY <1>4
<1>6. f = [b \in 0 .. n |-> IF b = 0 THEN a ELSE F[<<b, f[b - 1]>>]]
  BY <1>4, <1>5
<1>. QED  BY <1>4, <1>6 DEF Recursion

(* Induction over an interval, for a set of numbers.                       *)
LEMMA UpTo ==
  ASSUME NEW n \in Nat, NEW P, 0 \in P, \A m \in 0 .. n - 1 : m \in P => m + 1 \in P
  PROVE  \A m \in 0 .. n : m \in P
<1>. DEFINE Wrong == {m \in 0 .. n : m \notin P}
<1>. SUFFICES ASSUME NEW k \in 0 .. n, k \notin P  PROVE FALSE
  OBVIOUS
<1>1. Wrong \in SUBSET Nat /\ Wrong # {}  OBVIOUS
<1>2. PICK m \in Wrong : \A j \in Wrong : m <= j
  <2>. HIDE DEF Wrong
  <2>. QED  BY <1>1, LeastElement
<1>3. m \in 0 .. n /\ m # 0 /\ m \notin P  BY <1>2
<1>4. m - 1 \in 0 .. n - 1 /\ m - 1 \notin Wrong  BY <1>2, <1>3
<1>5. m - 1 \in P  BY <1>4
<1>. QED  BY <1>3, <1>4, <1>5

(* g counts the keys of each bucket, h being the bucket of each key.       *)
Counts(g, h) ==
  /\ h \in [AllKeys -> Bucket]
  /\ \A b \in Bucket : g[b] = Cardinality({i \in AllKeys : h[i] = b})

KeysBelow(h, b) == {i \in AllKeys : h[i] < b}

IsBelow(f, g) ==
  f = [b \in 0 .. NumBuckets |-> IF b = 0 THEN 0 ELSE f[b - 1] + g[b - 1]]

LEMMA KeysBelowStep ==
  ASSUME NEW h, NEW g, Counts(g, h), NEW b \in Bucket
  PROVE  /\ Cardinality(KeysBelow(h, b)) \in Nat
         /\ Cardinality(KeysBelow(h, b + 1)) = Cardinality(KeysBelow(h, b)) + g[b]
<1>. DEFINE C == {i \in AllKeys : h[i] = b}
            D == KeysBelow(h, b)
<1>0. \A i \in AllKeys : h[i] \in Int /\ b \in Int
  BY Constants DEF Counts, Bucket
<1>1. KeysBelow(h, b + 1) = C \cup D /\ C \cap D = {}
  BY <1>0 DEF KeysBelow
<1>2. IsFiniteSet(C) /\ IsFiniteSet(D)
  <2>1. C \in SUBSET AllKeys /\ D \in SUBSET AllKeys  BY DEF KeysBelow
  <2>. HIDE DEF C, D
  <2>. QED  BY <2>1, FS_Subset, KeysFinite
<1>3. Cardinality(C) \in Nat /\ Cardinality(D) \in Nat
  <2>. HIDE DEF C, D
  <2>. QED  BY <1>2, FS_CardinalityType
<1>4. Cardinality(C \cup D) = Cardinality(C) + Cardinality(D)
  <2>. HIDE DEF C, D
  <2>1. Cardinality(C \cup D) = Cardinality(C) + Cardinality(D) - Cardinality(C \cap D)
    BY <1>2, FS_Union
  <2>2. Cardinality(C \cap D) = 0  BY <1>1, FS_EmptySet
  <2>. QED  BY <1>3, <2>1, <2>2
<1>5. g[b] = Cardinality(C)  BY DEF Counts
<1>6. Cardinality(KeysBelow(h, b + 1)) = Cardinality(C \cup D)
  BY <1>1
<1>7. Cardinality(KeysBelow(h, b)) = Cardinality(D)
  OBVIOUS
<1>. HIDE DEF C, D
<1>. QED  BY <1>3, <1>4, <1>5, <1>6, <1>7

LEMMA BelowIs ==
  ASSUME NEW h, NEW g, Counts(g, h), NEW b \in 0 .. NumBuckets
  PROVE  Below(g)[b] = Cardinality(KeysBelow(h, b))
<1>. DEFINE f == [k \in 0 .. NumBuckets |-> Cardinality(KeysBelow(h, k))]
<1>1. Cardinality(KeysBelow(h, 0)) = 0
  <2>1. KeysBelow(h, 0) = {}
    BY Constants DEF KeysBelow, Counts, Bucket
  <2>. QED  BY <2>1, FS_EmptySet
<1>2. ASSUME NEW k \in 0 .. NumBuckets, k # 0
      PROVE  k - 1 \in Bucket /\ f[k] = f[k - 1] + g[k - 1]
  <2>1. k - 1 \in Bucket /\ k = (k - 1) + 1 /\ k - 1 \in 0 .. NumBuckets
    BY <1>2, Constants DEF Bucket
  <2>2. Cardinality(KeysBelow(h, (k - 1) + 1)) = Cardinality(KeysBelow(h, k - 1)) + g[k - 1]
    BY <2>1, KeysBelowStep
  <2>. QED  BY <2>1, <2>2
<1>3. IsBelow(f, g)
  <2>1. \A k \in 0 .. NumBuckets : f[k] = IF k = 0 THEN 0 ELSE f[k - 1] + g[k - 1]
    BY <1>1, <1>2
  <2>2. f = [k \in 0 .. NumBuckets |-> f[k]]  OBVIOUS
  <2>. HIDE DEF f
  <2>. QED  BY <2>1, <2>2 DEF IsBelow
<1>4. PICK e : e = Below(g) /\ IsBelow(e, g)
  <2>1. PICK e : e = CHOOSE x : IsBelow(x, g)  OBVIOUS
  <2>2. IsBelow(e, g)
    <3>. HIDE DEF f
    <3>. QED  BY <1>3, <2>1
  <2>3. e = Below(g)  BY <2>1 DEF Below, IsBelow
  <2>. QED  BY <2>2, <2>3
<1>. DEFINE P == {k \in 0 .. NumBuckets : e[k] = f[k]}
<1>5. \A k \in 0 .. NumBuckets : e[k] = IF k = 0 THEN 0 ELSE e[k - 1] + g[k - 1]
  BY <1>4 DEF IsBelow
<1>6. 0 \in P
  BY <1>1, <1>5, Constants
<1>7. \A m \in 0 .. NumBuckets - 1 : m \in P => m + 1 \in P
  <2>. SUFFICES ASSUME NEW m \in 0 .. NumBuckets - 1, m \in P  PROVE m + 1 \in P
    OBVIOUS
  <2>1. m + 1 \in 0 .. NumBuckets /\ m + 1 # 0 /\ (m + 1) - 1 = m  BY Constants
  <2>2. f[m + 1] = f[m] + g[m]  BY <1>2, <2>1
  <2>3. e[m + 1] = e[m] + g[m]  BY <1>5, <2>1
  <2>4. e[m] = f[m]  OBVIOUS
  <2>. HIDE DEF f
  <2>. QED  BY <2>1, <2>2, <2>3, <2>4
<1>8. b \in P
  <2>. HIDE DEF P
  <2>. QED  BY <1>6, <1>7, UpTo, Constants
<1>. QED  BY <1>4, <1>8

IsOwner(f, g, average) ==
  f = [b \in 0 .. NumBuckets |->
         IF b = 0 THEN 0
         ELSE f[b - 1] + IF Below(g)[b] >= (f[b - 1] + 1) * average THEN 1 ELSE 0]

LEMMA OwnerExists ==
  ASSUME NEW g, NEW average \in Nat
  PROVE  \E f : IsOwner(f, g, average)
<1>. DEFINE Step(b, o) == o + IF Below(g)[b] >= (o + 1) * average THEN 1 ELSE 0
            F == [x \in (1 .. NumBuckets) \X Nat |-> Step(x[1], x[2])]
<1>1. \A b \in 1 .. NumBuckets, o \in Nat : Step(b, o) \in Nat
  OBVIOUS
<1>2. F \in [(1 .. NumBuckets) \X Nat -> Nat]
  <2>. HIDE DEF Step
  <2>1. \A x \in (1 .. NumBuckets) \X Nat : x[1] \in 1 .. NumBuckets /\ x[2] \in Nat
    OBVIOUS
  <2>. QED  BY <1>1, <2>1
<1>3. \A b \in 1 .. NumBuckets, o \in Nat : F[<<b, o>>] = Step(b, o)
  <2>. HIDE DEF Step
  <2>. QED  OBVIOUS
<1>. HIDE DEF F
<1>4. PICK f \in [0 .. NumBuckets -> Nat] : Recursion(f, NumBuckets, 0, F)
  BY <1>2, RecursionExists, Constants
<1>5. ASSUME NEW b \in 0 .. NumBuckets
      PROVE  f[b] = IF b = 0 THEN 0 ELSE Step(b, f[b - 1])
  <2>1. f[b] = IF b = 0 THEN 0 ELSE F[<<b, f[b - 1]>>]  BY <1>4 DEF Recursion
  <2>2. CASE b = 0  BY <2>1, <2>2
  <2>3. CASE b # 0
    <3>1. b \in 1 .. NumBuckets /\ b - 1 \in 0 .. NumBuckets  BY <2>3, Constants
    <3>2. F[<<b, f[b - 1]>>] = Step(b, f[b - 1])  BY <1>3, <3>1
    <3>. QED  BY <2>1, <2>3, <3>2
  <2>. QED  BY <2>2, <2>3
<1>6. f = [b \in 0 .. NumBuckets |-> IF b = 0 THEN 0 ELSE Step(b, f[b - 1])]
  <2>. HIDE DEF Step
  <2>. QED  BY <1>4, <1>5
<1>. QED  BY <1>6 DEF IsOwner

(* The owner of a bucket is that of the bucket before, or the next one if  *)
(* that has its quota.                                                     *)
LEMMA OwnerIs ==
  ASSUME NEW h, NEW g, Counts(g, h), NEW average \in Nat
  PROVE  LET owner == Owner(g, average)
         IN  /\ owner[0] = 0 /\ \A b \in 0 .. NumBuckets : owner[b] \in Nat
             /\ \A b \in Bucket :
                  owner[b + 1] =
                    owner[b] + IF Cardinality(KeysBelow(h, b + 1)) >= (owner[b] + 1) * average
                               THEN 1 ELSE 0
<1>1. PICK f : f = CHOOSE x : IsOwner(x, g, average)
  OBVIOUS
<1>2. IsOwner(f, g, average)
  BY <1>1, OwnerExists
<1>3. f = Owner(g, average)
  BY <1>1 DEF Owner, IsOwner
<1>4. f[0] = 0
  BY <1>2, Constants DEF IsOwner
<1>5. ASSUME NEW b \in Bucket
      PROVE  f[b + 1] = f[b] + IF Cardinality(KeysBelow(h, b + 1)) >= (f[b] + 1) * average
                               THEN 1 ELSE 0
  <2>1. b + 1 \in 0 .. NumBuckets /\ b + 1 # 0 /\ (b + 1) - 1 = b
    BY Constants DEF Bucket
  <2>2. f[b + 1] = f[b] + IF Below(g)[b + 1] >= (f[b] + 1) * average THEN 1 ELSE 0
    BY <1>2, <2>1 DEF IsOwner
  <2>. QED  BY <2>1, <2>2, BelowIs
<1>. DEFINE P == {b \in 0 .. NumBuckets : f[b] \in Nat}
<1>6. 0 \in P  BY <1>4, Constants
<1>7. \A m \in 0 .. NumBuckets - 1 : m \in P => m + 1 \in P
  <2>. SUFFICES ASSUME NEW m \in 0 .. NumBuckets - 1, m \in P  PROVE m + 1 \in P
    OBVIOUS
  <2>1. m \in Bucket /\ m + 1 \in 0 .. NumBuckets  BY Constants DEF Bucket
  <2>2. f[m + 1] \in {f[m], f[m] + 1}  BY <1>5, <2>1
  <2>3. f[m] \in Nat  OBVIOUS
  <2>. QED  BY <2>1, <2>2, <2>3
<1>8. \A b \in 0 .. NumBuckets : f[b] \in Nat
  <2>1. \A b \in 0 .. NumBuckets : b \in P
    <3>. HIDE DEF P
    <3>. QED  BY <1>6, <1>7, UpTo, Constants
  <2>. QED  BY <2>1
<1>. QED  BY <1>3, <1>4, <1>5, <1>8

(* An owner function goes up by one or stays.                              *)
Ascends(owner) ==
  /\ owner[0] = 0
  /\ \A b \in 0 .. NumBuckets : owner[b] \in Nat
  /\ \A b \in Bucket : owner[b + 1] \in {owner[b], owner[b] + 1}

LEMMA Ascent ==
  ASSUME NEW owner, Ascends(owner), NEW b \in 0 .. NumBuckets, NEW c \in 0 .. NumBuckets, b <= c
  PROVE  owner[b] <= owner[c]
<1>. DEFINE P == {m \in 0 .. NumBuckets : b <= m => owner[b] <= owner[m]}
<1>1. 0 \in P
  <2>1. b <= 0 => b = 0  OBVIOUS
  <2>2. owner[b] \in Nat  BY DEF Ascends
  <2>. QED  BY <2>1, <2>2, Constants
<1>2. \A m \in 0 .. NumBuckets - 1 : m \in P => m + 1 \in P
  <2>. SUFFICES ASSUME NEW m \in 0 .. NumBuckets - 1, m \in P  PROVE m + 1 \in P
    OBVIOUS
  <2>1. m \in Bucket /\ m + 1 \in 0 .. NumBuckets /\ m \in 0 .. NumBuckets
    BY Constants DEF Bucket
  <2>2. owner[m + 1] \in {owner[m], owner[m] + 1}  BY <2>1 DEF Ascends
  <2>3. owner[b] \in Nat /\ owner[m] \in Nat /\ owner[m + 1] \in Nat  BY <2>1 DEF Ascends
  <2>4. b <= m => owner[b] <= owner[m]  OBVIOUS
  <2>5. b <= m + 1 => b <= m \/ b = m + 1  BY <2>1
  <2>6. b <= m + 1 => owner[b] <= owner[m + 1]
    BY <2>2, <2>3, <2>4, <2>5
  <2>. QED  BY <2>1, <2>6
<1>3. c \in P
  <2>. HIDE DEF P
  <2>. QED  BY <1>1, <1>2, UpTo, Constants
<1>. QED  BY <1>3

LEMMA AscentReaches ==
  ASSUME NEW owner, Ascends(owner), NEW r \in Nat, r < owner[NumBuckets]
  PROVE  \E b \in Bucket : owner[b] = r /\ owner[b + 1] = r + 1
<1>. DEFINE Closed == \E b \in Bucket : owner[b] = r /\ owner[b + 1] = r + 1
            P == {m \in 0 .. NumBuckets : owner[m] > r => Closed}
<1>1. 0 \in P
  BY Constants DEF Ascends
<1>2. \A m \in 0 .. NumBuckets - 1 : m \in P => m + 1 \in P
  <2>. SUFFICES ASSUME NEW m \in 0 .. NumBuckets - 1, m \in P, owner[m + 1] > r, ~ Closed
                PROVE  FALSE
    BY Constants
  <2>1. m \in Bucket /\ m + 1 \in 0 .. NumBuckets /\ m \in 0 .. NumBuckets
    BY Constants DEF Bucket
  <2>2. owner[m + 1] \in {owner[m], owner[m] + 1}  BY <2>1 DEF Ascends
  <2>3. owner[m] \in Nat /\ owner[m + 1] \in Nat  BY <2>1 DEF Ascends
  <2>4. ~ (owner[m] > r)
    <3>. HIDE DEF Closed
    <3>. QED  OBVIOUS
  <2>5. owner[m] = r /\ owner[m + 1] = r + 1
    <3>. HIDE DEF P, Closed
    <3>. QED  BY <2>2, <2>3, <2>4
  <2>. QED  BY <2>1, <2>5
<1>3. NumBuckets \in P
  <2>1. NumBuckets \in 0 .. NumBuckets  BY Constants
  <2>. HIDE DEF P
  <2>. QED  BY <1>1, <1>2, <2>1, UpTo, Constants
<1>4. owner[NumBuckets] > r
  <2>1. owner[NumBuckets] \in Nat  BY Constants DEF Ascends
  <2>. QED  BY <2>1
<1>. QED  BY <1>3, <1>4

(* Each rank below n has the interval of its buckets, when the bucket      *)
(* that reaches the last key completes a quota.                            *)
LEMMA Intervals ==
  ASSUME NEW owner, Ascends(owner), NEW n \in Nat \ {0},
         owner[NumBuckets - 1] < n => owner[NumBuckets] = owner[NumBuckets - 1] + 1,
         NEW r \in 0 .. n - 1
  PROVE  /\ Interval(owner, r) = {b \in Bucket : owner[b] = r}
         /\ FirstBucket(owner, r) \in Nat /\ LastBucket(owner, r) \in Bucket
<1>. DEFINE L == LastBucket(owner, r)
            F == FirstBucket(owner, r)
<1>0. /\ NumBuckets - 1 \in Bucket /\ 0 \in Bucket
      /\ NumBuckets \in 0 .. NumBuckets /\ NumBuckets - 1 \in 0 .. NumBuckets
      /\ \A b \in Bucket : b \in 0 .. NumBuckets /\ b + 1 \in 0 .. NumBuckets
      /\ NumBuckets \in Nat
  BY Constants DEF Bucket
<1>1. \A b \in 0 .. NumBuckets : owner[b] \in Nat
  BY DEF Ascends
<1>2. CASE r < owner[NumBuckets]
  <2>1. L \in Bucket /\ owner[L] = r /\ owner[L + 1] = r + 1
    <3>1. \E b \in Bucket : owner[b] = r /\ owner[b + 1] = r + 1  BY <1>2, AscentReaches
    <3>. QED  BY <1>2, <3>1 DEF LastBucket
  <2>2. /\ F \in Bucket /\ owner[F] = r
        /\ \A b \in Bucket : b < F => owner[b] < r
    <3>1. CASE r = 0
      <4>1. F = 0  BY <3>1 DEF FirstBucket
      <4>. QED  BY <1>0, <3>1, <4>1 DEF Ascends, Bucket
    <3>2. CASE r # 0
      <4>. DEFINE c == LastBucket(owner, r - 1)
      <4>1. r - 1 \in Nat /\ r - 1 < owner[NumBuckets]
        BY <1>0, <1>1, <1>2, <3>2
      <4>2. c \in Bucket /\ owner[c] = r - 1 /\ owner[c + 1] = r
        <5>1. \E b \in Bucket : owner[b] = r - 1 /\ owner[b + 1] = (r - 1) + 1
          BY <4>1, AscentReaches
        <5>2. (r - 1) + 1 = r  OBVIOUS
        <5>. QED  BY <4>1, <5>1, <5>2 DEF LastBucket
      <4>3. F = c + 1  BY <1>2, <3>2 DEF FirstBucket
      <4>. HIDE DEF c, F, L
      <4>4. c + 1 # NumBuckets  BY <1>2, <4>2, <1>1, <1>0
      <4>5. F \in Bucket /\ owner[F] = r
        BY <1>0, <4>2, <4>3, <4>4 DEF Bucket
      <4>6. ASSUME NEW b \in Bucket, b < F  PROVE owner[b] < r
        <5>1. b <= c /\ b \in 0 .. NumBuckets /\ c \in 0 .. NumBuckets
          BY <1>0, <4>2, <4>3, <4>6 DEF Bucket
        <5>2. owner[b] <= owner[c]  BY <5>1, Ascent
        <5>3. owner[b] \in Nat  BY <1>1, <5>1
        <5>. QED  BY <4>2, <5>2, <5>3
      <4>. QED  BY <4>5, <4>6
    <3>. QED  BY <3>1, <3>2
  <2>. HIDE DEF F, L
  <2>3. F \in Int /\ L \in Int /\ F >= 0 /\ L <= NumBuckets - 1
    BY <2>1, <2>2, <1>0 DEF Bucket
  <2>4. ASSUME NEW b \in F .. L  PROVE b \in Bucket /\ owner[b] = r
    <3>1. b \in Bucket  BY <2>3, <1>0 DEF Bucket
    <3>2. owner[F] <= owner[b] /\ owner[b] <= owner[L]
      BY <1>0, <2>1, <2>2, <3>1, Ascent
    <3>3. owner[b] \in Nat  BY <1>0, <1>1, <3>1
    <3>. QED  BY <2>1, <2>2, <3>1, <3>2, <3>3
  <2>5. ASSUME NEW b \in Bucket, owner[b] = r  PROVE b \in F .. L
    <3>1. ~ (b < F)  BY <2>2, <2>5
    <3>2. ~ (L < b)
      <4>1. SUFFICES ASSUME L < b  PROVE FALSE
        OBVIOUS
      <4>2. L + 1 <= b  BY <2>3, <4>1 DEF Bucket
      <4>3. owner[L + 1] <= owner[b]  BY <1>0, <2>1, <4>2, Ascent
      <4>. QED  BY <2>1, <2>5, <4>3
    <3>. QED  BY <2>3, <3>1, <3>2 DEF Bucket
  <2>6. Interval(owner, r) = F .. L  BY DEF Interval, F, L
  <2>. QED  BY <2>1, <2>2, <2>4, <2>5, <2>6, <1>0 DEF F, L, Bucket
<1>3. CASE ~ (r < owner[NumBuckets])
  <2>1. owner[NumBuckets - 1] \in Nat /\ owner[NumBuckets] \in Nat
        /\ owner[NumBuckets - 1] <= owner[NumBuckets]
    BY <1>0, <1>1, Ascent
  <2>2. owner[NumBuckets - 1] < r
    BY <1>3, <2>1
  <2>3. r # 0
    BY <2>1, <2>2
  <2>4. L = 0 /\ F = 1
    BY <1>3, <2>3 DEF LastBucket, FirstBucket
  <2>5. ASSUME NEW b \in Bucket  PROVE owner[b] # r
    <3>1. b <= NumBuckets - 1 /\ b \in 0 .. NumBuckets  BY <1>0 DEF Bucket
    <3>2. owner[b] <= owner[NumBuckets - 1]  BY <1>0, <3>1, Ascent
    <3>3. owner[b] \in Nat  BY <1>1, <3>1
    <3>. QED  BY <2>1, <2>2, <3>2, <3>3
  <2>6. Interval(owner, r) = {}
    BY <2>4 DEF Interval
  <2>. QED  BY <1>0, <2>4, <2>5, <2>6
<1>. QED  BY <1>2, <1>3

-----------------------------------------------------------------------------
(* The control: the ways of the ranks through the program, and the calls   *)
(* they have entered.                                                      *)
LEMMA JobFacts ==
  JobInv => /\ rank_count \in Nat \ {0} /\ active_rank_count \in 1 .. rank_count
            /\ Offset \in {0, 1}
            /\ 0 \in ActiveRank /\ ActiveRank \subseteq Rank
            /\ generated \in [AllKeys -> KeyValue]
<1>. SUFFICES ASSUME JobInv  PROVE JobFacts!2
  OBVIOUS
<1>1. PICK j \in Jobs : rank_count = j.ranks /\ generated = j.generated
  BY DEF JobInv
<1>2. j \in JobType  BY RunAssumption
<1>3. rank_count \in Nat \ {0} /\ generated \in [AllKeys -> KeyValue]
  BY <1>1, <1>2 DEF JobType
<1>4. active_rank_count \in 1 .. rank_count
  BY <1>3, ActiveRanks DEF active_rank_count
<1>5. 0 \in ActiveRank /\ ActiveRank \subseteq Rank
  BY <1>3, <1>4 DEF ActiveRank, Rank
<1>. QED  BY <1>3, <1>4, <1>5 DEF Offset

LEMMA JobStays ==
  ASSUME UNCHANGED job
  PROVE  /\ JobInv => JobInv'
         /\ Rank' = Rank /\ ActiveRank' = ActiveRank /\ Offset' = Offset
         /\ InRange' = InRange
         /\ \A k : Script(k)' = Script(k)
         /\ \A point, p : CallNumber(point, p)' = CallNumber(point, p)
<1>. USE DEF job
<1>1. Rank' = Rank  BY DEF Rank
<1>2. active_rank_count' = active_rank_count  BY DEF active_rank_count
<1>3. ActiveRank' = ActiveRank  BY <1>2 DEF ActiveRank
<1>4. Offset' = Offset  BY <1>2 DEF Offset
<1>5. InRange' = InRange  BY DEF InRange
<1>6. JobInv => JobInv'  BY DEF JobInv
<1>7. ASSUME NEW k  PROVE Script(k)' = Script(k)
  BY <1>4 DEF Script
<1>8. ASSUME NEW point, NEW p  PROVE CallNumber(point, p)' = CallNumber(point, p)
  BY <1>4 DEF CallNumber, Place
<1>. QED  BY <1>1, <1>3, <1>4, <1>5, <1>6, <1>7, <1>8

(* Sequence t is s with x behind.                                          *)
Extends(t, s, x) ==
  /\ IsSequence(t) /\ Len(t) = Len(s) + 1
  /\ t[Len(s) + 1] = x
  /\ \A k \in 1 .. Len(s) : t[k] = s[k]

LEMMA AppendIs ==
  ASSUME NEW s, IsSequence(s), NEW x
  PROVE  Extends(Append(s, x), s, x)
<1>. DEFINE S == {s[k] : k \in 1 .. Len(s)} \cup {x}
<1>1. s \in Seq(S)
  <2>1. s \in [1 .. Len(s) -> S] /\ Len(s) \in Nat
    BY DEF IsSequence
  <2>. HIDE DEF S
  <2>. QED  BY <2>1
<1>2. x \in S  OBVIOUS
<1>. HIDE DEF S
<1>3. Append(s, x) \in Seq(S) /\ Len(Append(s, x)) = Len(s) + 1
  BY <1>1, <1>2
<1>4. IsSequence(Append(s, x))
  <2>1. \A t \in Seq(S) : Len(t) \in Nat /\ t = [k \in 1 .. Len(t) |-> t[k]]
    OBVIOUS
  <2>. QED  BY <1>3, <2>1, Zenon DEF IsSequence
<1>5. Append(s, x)[Len(s) + 1] = x /\ \A k \in 1 .. Len(s) : Append(s, x)[k] = s[k]
  BY <1>1, <1>2
<1>. QED  BY <1>3, <1>4, <1>5 DEF Extends

(* Rank q has entered one more call.                                       *)
Longer(q, call, value) ==
  /\ calls' = [r \in Rank |-> calls'[r]]
  /\ \A r \in Rank : IsSequence(calls'[r])
  /\ \A r \in Rank \ {q} : calls'[r] = calls[r]
  /\ Len(calls'[q]) = Len(calls[q]) + 1
  /\ \A k \in 1 .. Len(calls[q]) : calls'[q][k] = calls[q][k]
  /\ calls'[q][Len(calls[q]) + 1] = [call |-> call, value |-> value]

LEMMA Entering ==
  ASSUME TypeOK, NEW q \in Rank, NEW call, NEW value, Enter(q, call, value)
  PROVE  Longer(q, call, value) /\ pc' = [pc EXCEPT ![q] = call]
<1>. DEFINE rec == [call |-> call, value |-> value]
<1>1. calls = [r \in Rank |-> calls[r]] /\ \A r \in Rank : IsSequence(calls[r])
  BY DEF TypeOK, OfRanks
<1>2. calls' = [calls EXCEPT ![q] = Append(calls[q], rec)] /\ pc' = [pc EXCEPT ![q] = call]
  BY DEF Enter, Set
<1>3. PICK t : t = Append(calls[q], rec)
  OBVIOUS
<1>4. /\ IsSequence(t) /\ Len(t) = Len(calls[q]) + 1 /\ t[Len(calls[q]) + 1] = rec
      /\ \A k \in 1 .. Len(calls[q]) : t[k] = calls[q][k]
  <2>. HIDE DEF rec
  <2>1. IsSequence(calls[q])  BY <1>1
  <2>2. Extends(Append(calls[q], rec), calls[q], rec)  BY ONLY <2>1, AppendIs, Zenon
  <2>3. Extends(t, calls[q], rec)  BY ONLY <1>3, <2>2, Zenon
  <2>. QED  BY ONLY <2>3, Zenon DEF Extends
<1>5. calls' = [calls EXCEPT ![q] = t]  BY <1>2, <1>3
<1>6. calls' = [r \in Rank |-> calls'[r]]  BY <1>1, <1>5
<1>7. calls'[q] = t /\ \A r \in Rank \ {q} : calls'[r] = calls[r]
  BY <1>1, <1>5
<1>8. \A r \in Rank : IsSequence(calls'[r])  BY <1>1, <1>4, <1>7
<1>. HIDE DEF rec
<1>9. /\ Len(calls'[q]) = Len(calls[q]) + 1
      /\ \A k \in 1 .. Len(calls[q]) : calls'[q][k] = calls[q][k]
      /\ calls'[q][Len(calls[q]) + 1] = rec
  <2>1. calls'[q] = t  BY ONLY <1>7
  <2>. QED  BY ONLY <1>4, <2>1, Zenon
<1>. USE DEF rec
<1>. QED  BY <1>2, <1>6, <1>7, <1>8, <1>9, Zenon DEF Longer

(* Where a rank is, in the script.                                         *)
LEMMA ScriptAt ==
  ASSUME JobInv
  PROVE  /\ Offset = 1 => Script(1) = "strict"
         /\ Script(CallNumber("use_upacket", 0)) = "use_upacket"
         /\ Script(CallNumber("use_loopback", 0)) = "use_loopback"
         /\ Script(CallNumber("timeron", 0)) = "timeron"
         /\ Script(CallNumber("generated", 0)) = "generated"
         /\ \A p \in Iteration : Script(CallNumber("begin", p)) = "begin"
         /\ \A p \in Pass : /\ Script(CallNumber("sizes", p)) = "sizes"
                            /\ Script(CallNumber("totals", p)) = "totals"
                            /\ Script(CallNumber("handler", p)) = "handler"
                            /\ Script(CallNumber("exchange", p)) = "handler"
         /\ Script(CallNumber("time", MAX_ITERATIONS)) = "time"
         /\ Script(CallNumber("chain", MAX_ITERATIONS)) = "time"
         /\ Script(CallNumber("passed", MAX_ITERATIONS)) = "passed"
         /\ Script(CallNumber("tmin", MAX_ITERATIONS)) = "tmin"
         /\ Script(CallNumber("tsum", MAX_ITERATIONS)) = "tsum"
         /\ Script(CallNumber("tmax", MAX_ITERATIONS)) = "tmax"
<1>1. Offset \in {0, 1}  BY JobFacts
<1>2. MAX_ITERATIONS \in Nat \ {0}  BY Constants
<1>. USE DEF CallNumber, Place, Script, Receiving
<1>3. Offset = 1 => Script(1) = "strict"  BY <1>2
<1>4. /\ Script(CallNumber("use_upacket", 0)) = "use_upacket"
      /\ Script(CallNumber("use_loopback", 0)) = "use_loopback"
      /\ Script(CallNumber("timeron", 0)) = "timeron"
      /\ Script(CallNumber("generated", 0)) = "generated"
  BY <1>1, <1>2
<1>5. ASSUME NEW p \in Iteration  PROVE Script(CallNumber("begin", p)) = "begin"
  BY <1>1, <1>2 DEF Iteration
<1>6. ASSUME NEW p \in Pass
      PROVE  /\ Script(CallNumber("sizes", p)) = "sizes"
             /\ Script(CallNumber("totals", p)) = "totals"
             /\ Script(CallNumber("handler", p)) = "handler"
             /\ Script(CallNumber("exchange", p)) = "handler"
  <2>1. p \in Nat /\ p <= MAX_ITERATIONS  BY <1>2 DEF Pass
  <2>2. Script(CallNumber("sizes", p)) = "sizes"  BY <1>1, <1>2, <2>1
  <2>3. Script(CallNumber("totals", p)) = "totals"  BY <1>1, <1>2, <2>1
  <2>4. Script(CallNumber("handler", p)) = "handler"  BY <1>1, <1>2, <2>1
  <2>5. CallNumber("exchange", p) = CallNumber("handler", p)  OBVIOUS
  <2>. HIDE DEF CallNumber, Script
  <2>. QED  BY <2>2, <2>3, <2>4, <2>5
<1>7. /\ Script(CallNumber("time", MAX_ITERATIONS)) = "time"
      /\ Script(CallNumber("chain", MAX_ITERATIONS)) = "time"
      /\ Script(CallNumber("passed", MAX_ITERATIONS)) = "passed"
      /\ Script(CallNumber("tmin", MAX_ITERATIONS)) = "tmin"
      /\ Script(CallNumber("tsum", MAX_ITERATIONS)) = "tsum"
      /\ Script(CallNumber("tmax", MAX_ITERATIONS)) = "tmax"
  BY <1>1, <1>2
<1>. QED  BY <1>3, <1>4, <1>5, <1>6, <1>7

(* What the step of rank q does not touch.                                 *)
Alone(q) ==
  \A r \in Rank \ {q} :
    /\ pc'[r] = pc[r] /\ calls'[r] = calls[r]
    /\ timed'[r] = timed[r] /\ current_iteration'[r] = current_iteration[r]

TypeControl ==
  /\ pc \in [Rank -> Points]
  /\ timed \in [Rank -> BOOLEAN]
  /\ current_iteration \in [Rank -> 0 .. MAX_ITERATIONS]
  /\ OfRanks(calls) /\ \A r \in Rank : IsSequence(calls[r])

TypeData ==
  /\ active \in [Rank -> BOOLEAN]
  /\ OfRanks(keys) /\ OfRanks(global) /\ OfRanks(plan)
  /\ OfRanks(frequency) /\ OfRanks(phase) /\ OfRanks(recv_count)
  /\ \A r \in Rank : /\ keys[r] = [i \in Slot |-> keys[r][i]]
                     /\ frequency[r] = [i \in Slot |-> frequency[r][i]]

LEMMA TypeParts == TypeOK <=> TypeControl /\ TypeData
BY DEF TypeOK, TypeControl, TypeData

LEMMA RankStepJob ==
  ASSUME NEW q \in Rank, RankStep(q)
  PROVE  UNCHANGED job
BY DEF RankStep, StartOutOfRange, Start, LeaveStrict, LeaveOption, LeaveTimeron,
       LeaveGenerated, LeaveBegin, LeaveSizes, LeaveTotals, LeaveHandler, FinishIteration,
       LeaveTime, FullVerify, LeavePassed, LeaveSummary

LEMMA DataTypes ==
  ASSUME TypeOK, NEW q \in Rank, RankStep(q)
  PROVE  TypeData'
<1>0. UNCHANGED job /\ Rank' = Rank  BY RankStepJob, JobStays
<1>1. TypeData  BY TypeParts
<1>2. ASSUME UNCHANGED <<keys, counts, exchange>>  PROVE TypeData'
  BY <1>0, <1>1, <1>2 DEF TypeData, OfRanks, counts, exchange
<1>3. CASE LeaveTimeron(q)
  BY <1>0, <1>1, <1>3 DEF TypeData, OfRanks, counts, exchange, LeaveTimeron, GenerateKeys
<1>4. ASSUME NEW it, OrganizeKeys(q, it), UNCHANGED <<plan, exchange>>
      PROVE  TypeData'
  <2>1. ChangedKeys(q, it) = [i \in Slot |-> ChangedKeys(q, it)[i]]
    BY <1>1 DEF TypeData, ChangedKeys
  <2>. QED
    BY <1>0, <1>1, <1>4, <2>1 DEF TypeData, OfRanks, exchange, OrganizeKeys, Set
<1>5. CASE LeaveSizes(q)
  BY <1>0, <1>1, <1>5 DEF TypeData, OfRanks, exchange, LeaveSizes, Set
<1>6. CASE LeaveTotals(q)
  <2>. DEFINE p == Plan(Value(0, q), q)
  <2>1. ClearFrequencyRange(q, p) = [i \in Slot |-> ClearFrequencyRange(q, p)[i]]
    BY DEF ClearFrequencyRange
  <2>2. PICK f, x, g : /\ f = ClearFrequencyRange(q, p) /\ x = p /\ g = Value(0, q)
    OBVIOUS
  <2>3. /\ global' = [global EXCEPT ![q] = g] /\ plan' = [plan EXCEPT ![q] = x]
        /\ frequency' = [frequency EXCEPT ![q] = f]
        /\ active' = [active EXCEPT ![q] = TRUE] /\ phase' = [phase EXCEPT ![q] = @ + 1]
        /\ recv_count' = [recv_count EXCEPT ![q] = 0] /\ UNCHANGED keys
    BY <1>6, <2>2 DEF LeaveTotals, Set
  <2>4. f = [i \in Slot |-> f[i]]  BY <2>1, <2>2
  <2>. QED  BY <1>0, <1>1, <2>3, <2>4 DEF TypeData, OfRanks
<1>7. CASE LeaveHandler(q)
  BY <1>0, <1>1, <1>7 DEF TypeData, OfRanks, counts, LeaveHandler
<1>8. CASE FinishIteration(q)
  BY <1>0, <1>1, <1>8 DEF TypeData, OfRanks, counts, FinishIteration, Set
<1>9. CASE LeaveTime(q)
  <2>1. PICK f : f = SortedKeys(q)  OBVIOUS
  <2>2. f = [i \in Slot |-> f[i]]  BY <2>1 DEF SortedKeys, SortedUpTo
  <2>3. keys' = [keys EXCEPT ![q] = f] /\ UNCHANGED <<counts, exchange>>
    BY <1>9, <2>1 DEF LeaveTime, Set
  <2>. QED  BY <1>0, <1>1, <2>2, <2>3 DEF TypeData, OfRanks, counts, exchange
<1>. QED
  BY <1>2, <1>3, <1>4, <1>5, <1>6, <1>7, <1>8, <1>9
  DEF RankStep, StartOutOfRange, Start, LeaveStrict, LeaveOption,
       LeaveGenerated, LeaveBegin, FullVerify, LeavePassed, LeaveSummary

Barriers == {"generated", "begin", "handler"}

StepOf(q) ==
  /\ TypeControl' /\ Alone(q) /\ ControlOf(q)'
  /\ \/ UNCHANGED calls
     \/ /\ \E call, value : Longer(q, call, value)
        /\ Len(calls[q]) > 0 /\ Script(Len(calls[q])) \in Barriers =>
             \A s \in Rank : Joined(s, q)
  /\ pc'[q] = "exchange" => \A s \in Rank : Len(calls'[s]) >= Len(calls'[q])

(* A step of rank q into a call.                                           *)
LEMMA StepIn ==
  ASSUME Control, UNCHANGED job, NEW q \in Rank, NEW to \in Points, NEW value,
         Enter(q, to, value), NEW t \in BOOLEAN, NEW c \in 0 .. MAX_ITERATIONS,
         timed' = [timed EXCEPT ![q] = t],
         current_iteration' = [current_iteration EXCEPT ![q] = c],
         Len(calls[q]) > 0 /\ Script(Len(calls[q])) \in Barriers =>
           \A s \in Rank : Joined(s, q),
         to \notin {"start", "exchange", "done", "chain"},
         to = Script(Len(calls[q]) + 1),
         InRange,
         to = "strict" => Offset = 1 /\ Len(calls[q]) = 0,
         to # "strict" => /\ q \in ActiveRank
                          /\ Len(calls[q]) + 1 = CallNumber(to, IF t THEN c ELSE 0),
         to \in {"strict"} \cup Setup => ~ t,
         to \in Iterating \cup {"begin"} => c \in Iteration,
         to \in Iterating /\ ~ t => c = 1,
         to \in Ending \cup {"begin"} => t,
         to \in Ending => c = MAX_ITERATIONS
  PROVE  StepOf(q)
<1>0. Rank' = Rank /\ ActiveRank' = ActiveRank /\ Offset' = Offset /\ InRange' = InRange
      /\ \A k : Script(k)' = Script(k)
      /\ \A point, p : CallNumber(point, p)' = CallNumber(point, p)
  BY JobStays, Zenon
<1>1. TypeControl /\ ControlOf(q)
  BY TypeParts DEF Control, ControlInv
<1>2. Longer(q, to, value) /\ pc' = [pc EXCEPT ![q] = to]
  BY Entering DEF Control
<1>3. TypeControl'
  <2>1. /\ (pc \in [Rank -> Points])' /\ (timed \in [Rank -> BOOLEAN])'
        /\ (current_iteration \in [Rank -> 0 .. MAX_ITERATIONS])'
    BY <1>0, <1>1, <1>2 DEF TypeControl
  <2>2. (OfRanks(calls) /\ \A r \in Rank : IsSequence(calls[r]))'
    BY <1>0, <1>2 DEF Longer, OfRanks, IsSequence
  <2>. QED  BY <2>1, <2>2, Zenon DEF TypeControl
<1>4. Alone(q)
  <2>1. \A r \in Rank \ {q} : calls'[r] = calls[r]  BY <1>2 DEF Longer
  <2>. QED  BY <1>1, <1>2, <2>1 DEF TypeControl, Alone
<1>5. pc'[q] = to /\ timed'[q] = t /\ current_iteration'[q] = c
  BY <1>1, <1>2 DEF TypeControl
<1>6. /\ Len(calls[q]) \in Nat /\ Len(calls'[q]) = Len(calls[q]) + 1
      /\ \A k \in 1 .. Len(calls[q]) : calls'[q][k] = calls[q][k]
      /\ calls'[q][Len(calls[q]) + 1].call = to
  BY <1>1, <1>2 DEF Longer, TypeControl, IsSequence
<1>7. ControlOf(q)'
  <2>1. \A k \in 1 .. Len(calls'[q]) : calls'[q][k].call = Script(k)'
    <3>. SUFFICES ASSUME NEW k \in 1 .. Len(calls'[q])
                  PROVE  calls'[q][k].call = Script(k)
      BY <1>0
    <3>1. CASE k = Len(calls[q]) + 1  BY <1>6, <3>1
    <3>2. CASE k # Len(calls[q]) + 1
      <4>1. k \in 1 .. Len(calls[q])  BY <1>6, <3>2
      <4>. QED  BY <1>1, <1>6, <4>1 DEF ControlOf
    <3>. QED  BY <3>1, <3>2
  <2>2. PassOf(q)' = IF t THEN c ELSE 0
    BY <1>5 DEF PassOf
  <2>3. /\ (pc[q] = "start" => calls[q] = << >>)'
        /\ (pc[q] = "strict" => Offset = 1 /\ Len(calls[q]) = 1)'
        /\ (pc[q] = "done" => Len(calls[q]) <= 1 \/ Len(calls[q]) >= CallNumber("passed", MAX_ITERATIONS))'
        /\ (Len(calls[q]) > 0 => InRange)'
        /\ (Len(calls[q]) > 1 => q \in ActiveRank)'
    BY <1>0, <1>5, <1>6
  <2>4. (pc[q] \notin {"start", "strict", "done"} =>
            q \in ActiveRank /\ Len(calls[q]) = CallNumber(pc[q], PassOf(q)))'
    <3>. SUFFICES ASSUME to # "strict"
                  PROVE  q \in ActiveRank' /\ Len(calls'[q]) = CallNumber(to, PassOf(q))'
      BY <1>5
    <3>. QED  BY <1>0, <1>6, <2>2
  <2>5. /\ (pc[q] \in {"start", "strict"} \cup Setup => ~timed[q])'
        /\ (pc[q] \in Iterating \cup {"begin"} => current_iteration[q] \in Iteration)'
        /\ (pc[q] \in Iterating /\ ~timed[q] => current_iteration[q] = 1)'
        /\ (pc[q] \in Ending \cup {"begin"} => timed[q])'
        /\ (pc[q] \in Ending => current_iteration[q] = MAX_ITERATIONS)'
    BY <1>5
  <2>. QED  BY <2>1, <2>3, <2>4, <2>5 DEF ControlOf
<1>. QED  BY <1>2, <1>3, <1>4, <1>5, <1>7, Zenon DEF StepOf

(* A step of rank q into the work after a call, or its end.                *)
LEMMA StepOut ==
  ASSUME Control, UNCHANGED job, NEW q \in Rank, NEW to \in {"exchange", "chain", "done"},
         pc' = [pc EXCEPT ![q] = to], UNCHANGED <<calls, timed, current_iteration>>,
         to = "exchange" => pc[q] = "handler" /\ \A s \in Rank : Joined(s, q),
         to = "chain" => pc[q] = "time",
         to = "done" => Len(calls[q]) <= 1 \/ Len(calls[q]) >= CallNumber("passed", MAX_ITERATIONS)
  PROVE  StepOf(q)
<1>0. Rank' = Rank /\ ActiveRank' = ActiveRank /\ Offset' = Offset /\ InRange' = InRange
      /\ \A k : Script(k)' = Script(k)
      /\ \A point, p : CallNumber(point, p)' = CallNumber(point, p)
  BY JobStays, Zenon
<1>1. TypeControl /\ ControlOf(q)
  BY TypeParts DEF Control, ControlInv
<1>2. TypeControl'
  BY <1>0, <1>1 DEF TypeControl, OfRanks, IsSequence, Points, Iterating, Ending
<1>3. Alone(q)
  BY <1>1 DEF TypeControl, Alone
<1>4. pc'[q] = to
  BY <1>1 DEF TypeControl
<1>5. PassOf(q)' = PassOf(q)
  BY DEF PassOf
<1>6. to # "done" => /\ q \in ActiveRank
                     /\ Len(calls[q]) = CallNumber(to, PassOf(q))
  <2>1. to = "exchange" => CallNumber(to, PassOf(q)) = CallNumber(pc[q], PassOf(q))
    BY DEF CallNumber, Place, Receiving
  <2>2. to = "chain" => CallNumber(to, PassOf(q)) = CallNumber(pc[q], PassOf(q))
    BY DEF CallNumber, Place, Receiving
  <2>3. to # "done" => /\ q \in ActiveRank
                       /\ Len(calls[q]) = CallNumber(pc[q], PassOf(q))
    BY <1>1 DEF ControlOf
  <2>. QED  BY <2>1, <2>2, <2>3
<1>7. ControlOf(q)'
  <2>1. \A k \in 1 .. Len(calls'[q]) : calls'[q][k].call = Script(k)'
    BY <1>0, <1>1 DEF ControlOf
  <2>2. /\ (pc[q] = "start" => calls[q] = << >>)'
        /\ (pc[q] = "strict" => Offset = 1 /\ Len(calls[q]) = 1)'
        /\ (pc[q] = "done" => Len(calls[q]) <= 1 \/ Len(calls[q]) >= CallNumber("passed", MAX_ITERATIONS))'
        /\ (Len(calls[q]) > 0 => InRange)'
        /\ (Len(calls[q]) > 1 => q \in ActiveRank)'
    BY <1>0, <1>1, <1>4 DEF ControlOf
  <2>3. (pc[q] \notin {"start", "strict", "done"} =>
            q \in ActiveRank /\ Len(calls[q]) = CallNumber(pc[q], PassOf(q)))'
    <3>. SUFFICES ASSUME to # "done"
                  PROVE  q \in ActiveRank' /\ Len(calls'[q]) = CallNumber(to, PassOf(q))'
      BY <1>4
    <3>. QED  BY <1>0, <1>5, <1>6
  <2>4. to = "exchange" => current_iteration[q] \in Iteration /\ (~ timed[q] => current_iteration[q] = 1)
    BY <1>1 DEF ControlOf, Iterating
  <2>5. to = "chain" => current_iteration[q] = MAX_ITERATIONS /\ timed[q]
    BY <1>1 DEF ControlOf, Ending
  <2>6. /\ (pc[q] \in {"start", "strict"} \cup Setup => ~timed[q])'
        /\ (pc[q] \in Iterating \cup {"begin"} => current_iteration[q] \in Iteration)'
        /\ (pc[q] \in Iterating /\ ~timed[q] => current_iteration[q] = 1)'
        /\ (pc[q] \in Ending \cup {"begin"} => timed[q])'
        /\ (pc[q] \in Ending => current_iteration[q] = MAX_ITERATIONS)'
    BY <1>4, <2>4, <2>5 DEF Setup, Iterating, Ending
  <2>. QED  BY <2>1, <2>2, <2>3, <2>6 DEF ControlOf
<1>8. pc'[q] = "exchange" => \A s \in Rank : Len(calls'[s]) >= Len(calls'[q])
  BY <1>4 DEF Joined
<1>. QED  BY <1>2, <1>3, <1>7, <1>8, Zenon DEF StepOf

LEMMA Numbers ==
  ASSUME JobInv, NEW p \in Nat
  PROVE  /\ CallNumber("use_upacket", 0) = Offset + 1 /\ CallNumber("use_loopback", 0) = Offset + 2
         /\ CallNumber("timeron", 0) = Offset + 3 /\ CallNumber("generated", 0) = Offset + 4
         /\ CallNumber("begin", p) = Offset + 4 + 4 * p /\ CallNumber("sizes", p) = Offset + 5 + 4 * p
         /\ CallNumber("totals", p) = Offset + 6 + 4 * p /\ CallNumber("handler", p) = Offset + 7 + 4 * p
         /\ CallNumber("exchange", p) = Offset + 7 + 4 * p /\ CallNumber("time", p) = Offset + 8 + 4 * p
         /\ CallNumber("chain", p) = Offset + 8 + 4 * p /\ CallNumber("passed", p) = Offset + 9 + 4 * p
         /\ CallNumber("tmin", p) = Offset + 10 + 4 * p /\ CallNumber("tsum", p) = Offset + 11 + 4 * p
         /\ CallNumber("tmax", p) = Offset + 12 + 4 * p
<1>1. Offset \in Int  BY JobFacts
<1>. QED  BY <1>1 DEF CallNumber, Place, Receiving

(* Where rank q is.                                                        *)
LEMMA Here ==
  ASSUME Control, NEW q \in Rank, pc[q] \notin {"start", "strict", "done"}
  PROVE  /\ q \in ActiveRank /\ Len(calls[q]) = CallNumber(pc[q], PassOf(q))
         /\ InRange /\ PassOf(q) \in Pass /\ PassOf(q) \in Nat /\ Len(calls[q]) \in Nat /\ Len(calls[q]) > 0
         /\ (pc[q] \in Setup => PassOf(q) = 0 /\ ~ timed[q])
         /\ (pc[q] \in Ending => PassOf(q) = MAX_ITERATIONS /\ timed[q] /\ current_iteration[q] = MAX_ITERATIONS)
         /\ (pc[q] \in Iterating \cup {"begin"} => current_iteration[q] \in Iteration)
         /\ (pc[q] = "begin" => timed[q] /\ PassOf(q) \in Iteration)
         /\ (pc[q] \in Iterating /\ ~ timed[q] => PassOf(q) = 0 /\ current_iteration[q] = 1)
<1>0. ControlOf(q) /\ JobInv /\ TypeControl
  BY TypeParts DEF Control, ControlInv
<1>1. q \in ActiveRank /\ Len(calls[q]) = CallNumber(pc[q], PassOf(q))
  BY <1>0 DEF ControlOf
<1>2. PassOf(q) \in Pass /\ PassOf(q) \in Nat
  BY <1>0, Constants DEF PassOf, Pass, TypeControl
<1>3. CallNumber(pc[q], PassOf(q)) > 0 /\ Len(calls[q]) \in Nat
  <2>1. pc[q] \in Points  BY <1>0 DEF TypeControl
  <2>2. Offset \in Nat  BY <1>0, JobFacts
  <2>3. Place(pc[q]) \in Nat \ {0}
    BY <2>1 DEF Points, Setup, Iterating, Ending, Place, Receiving
  <2>4. CallNumber(pc[q], PassOf(q)) > 0  BY <1>2, <2>2, <2>3 DEF CallNumber
  <2>5. Len(calls[q]) \in Nat  BY <1>0 DEF TypeControl, IsSequence
  <2>. QED  BY <2>4, <2>5
<1>4. InRange  BY <1>0, <1>1, <1>3 DEF ControlOf
<1>5. /\ (pc[q] \in Setup => PassOf(q) = 0 /\ ~ timed[q])
      /\ (pc[q] \in Ending => PassOf(q) = MAX_ITERATIONS /\ timed[q] /\ current_iteration[q] = MAX_ITERATIONS)
      /\ (pc[q] \in Iterating \cup {"begin"} => current_iteration[q] \in Iteration)
      /\ (pc[q] = "begin" => timed[q] /\ PassOf(q) \in Iteration)
      /\ (pc[q] \in Iterating /\ ~ timed[q] => PassOf(q) = 0 /\ current_iteration[q] = 1)
  BY <1>0, Zenon DEF ControlOf, PassOf
<1>. QED  BY <1>1, <1>2, <1>3, <1>4, <1>5

LEMMA StartSteps ==
  ASSUME Control, NEW q \in Rank, StartOutOfRange(q) \/ Start(q) \/ LeaveStrict(q)
  PROVE  StepOf(q)
<1>0. JobInv /\ TypeControl /\ TypeOK /\ ControlOf(q) /\ UNCHANGED job
  <2>1. RankStep(q)  BY DEF RankStep
  <2>. QED  BY <2>1, RankStepJob, TypeParts DEF Control, ControlInv
<1>1. CASE StartOutOfRange(q)
  <2>1. pc' = [pc EXCEPT ![q] = "done"] /\ UNCHANGED <<calls, timed, current_iteration>>
    BY <1>1 DEF StartOutOfRange, Exit, Set
  <2>2. Len(calls[q]) = 0
    BY <1>0, <1>1 DEF ControlOf, StartOutOfRange
  <2>3. Len(calls[q]) <= 1  BY <2>2
  <2>. QED  BY <1>0, <2>1, <2>3, StepOut
<1>. DEFINE t == timed[q]
            c == current_iteration[q]
<1>2. t \in BOOLEAN /\ c \in 0 .. MAX_ITERATIONS
  BY <1>0 DEF TypeControl
<1>3. ASSUME UNCHANGED <<timed, current_iteration>>
      PROVE  timed' = [timed EXCEPT ![q] = t] /\ current_iteration' = [current_iteration EXCEPT ![q] = c]
  BY <1>0, <1>3 DEF TypeControl
<1>4. CASE Start(q)
  <2>1. pc[q] = "start" /\ InRange /\ UNCHANGED <<timed, current_iteration>>
    BY <1>4 DEF Start
  <2>2. Len(calls[q]) = 0 /\ ~ t
    BY <1>0, <2>1 DEF ControlOf
  <2>3. CASE active_rank_count # rank_count
    <3>1. Enter(q, "strict", strict) /\ Offset = 1 /\ Script(1) = "strict"
      BY <1>0, <1>4, <2>3, ScriptAt DEF Start, Offset
    <3>. HIDE DEF t, c
    <3>. QED  BY <1>0, <1>2, <1>3, <2>1, <2>2, <3>1, StepIn DEF Points, Setup, Iterating, Ending
  <2>4. CASE active_rank_count = rank_count
    <3>1. Enter(q, "use_upacket", 0) /\ Offset = 0
      BY <1>4, <2>4 DEF Start, Offset
    <3>2. CallNumber("use_upacket", 0) = 1 /\ Script(1) = "use_upacket"
      BY <1>0, <3>1, ScriptAt, Numbers
    <3>3. q \in ActiveRank  BY <2>4 DEF ActiveRank, Rank
    <3>. HIDE DEF t, c
    <3>. QED  BY <1>0, <1>2, <1>3, <2>1, <2>2, <3>1, <3>2, <3>3, StepIn
              DEF Points, Setup, Iterating, Ending
  <2>. QED  BY <2>3, <2>4
<1>5. CASE LeaveStrict(q)
  <2>1. pc[q] = "strict" /\ UNCHANGED <<timed, current_iteration>>
    BY <1>5 DEF LeaveStrict, Broadcast
  <2>2. Len(calls[q]) = 1 /\ ~ t /\ Offset = 1 /\ InRange
    BY <1>0, <2>1 DEF ControlOf
  <2>3. CASE Refused(q) \/ Surplus(q)
    <3>1. pc' = [pc EXCEPT ![q] = "done"] /\ UNCHANGED calls
      BY <1>5, <2>3 DEF LeaveStrict, Exit, Set
    <3>2. Len(calls[q]) <= 1  BY <2>2
    <3>. QED  BY <1>0, <2>1, <3>1, <3>2, StepOut
  <2>4. CASE ~ (Refused(q) \/ Surplus(q))
    <3>1. Enter(q, "use_upacket", 0)
      BY <1>5, <2>4 DEF LeaveStrict
    <3>2. CallNumber("use_upacket", 0) = 2 /\ Script(2) = "use_upacket" /\ Script(1) = "strict"
      BY <1>0, <2>2, ScriptAt, Numbers
    <3>3. q \in ActiveRank
      BY <1>0, <2>4, JobFacts DEF ActiveRank, Rank, Surplus
    <3>4. Script(Len(calls[q])) \notin Barriers /\ Script(Len(calls[q]) + 1) = "use_upacket"
          /\ Len(calls[q]) + 1 = CallNumber("use_upacket", 0)
      BY <2>2, <3>2 DEF Barriers
    <3>. HIDE DEF t, c
    <3>. QED  BY <1>0, <1>2, <1>3, <2>1, <2>2, <3>1, <3>3, <3>4, StepIn
              DEF Points, Setup, Iterating, Ending
  <2>. QED  BY <2>3, <2>4
<1>. QED  BY <1>1, <1>4, <1>5

LEMMA SetupSteps ==
  ASSUME Control, NEW q \in Rank,
         LeaveOption(q) \/ LeaveTimeron(q) \/ LeaveGenerated(q) \/ LeaveBegin(q)
           \/ LeaveSizes(q) \/ LeaveTotals(q)
  PROVE  StepOf(q)
<1>0. JobInv /\ TypeControl /\ TypeOK /\ ControlOf(q) /\ UNCHANGED job
  <2>1. RankStep(q)  BY DEF RankStep
  <2>. QED  BY <2>1, RankStepJob, TypeParts DEF Control, ControlInv
<1>. DEFINE t == timed[q]
            c == current_iteration[q]
<1>2. t \in BOOLEAN /\ c \in 0 .. MAX_ITERATIONS
  BY <1>0 DEF TypeControl
<1>3. timed' = timed => timed' = [timed EXCEPT ![q] = t]
  BY <1>0 DEF TypeControl
<1>4. current_iteration' = current_iteration =>
        current_iteration' = [current_iteration EXCEPT ![q] = c]
  BY <1>0 DEF TypeControl
<1>5. Offset \in {0, 1}  BY <1>0, JobFacts
<1>6. CASE LeaveOption(q)
  <2>1. PICK from, to, v :
          /\ pc[q] = from /\ Enter(q, to, v) /\ UNCHANGED <<timed, current_iteration>>
          /\ <<from, to>> \in {<<"use_upacket", "use_loopback">>, <<"use_loopback", "timeron">>}
    BY <1>6 DEF LeaveOption, Broadcast
  <2>2. /\ q \in ActiveRank /\ Len(calls[q]) = CallNumber(from, 0) /\ ~ t /\ InRange
    BY <2>1, Here DEF Setup
  <2>3. CallNumber(to, 0) = CallNumber(from, 0) + 1 /\ Script(CallNumber(to, 0)) = to
        /\ Script(CallNumber(from, 0)) \notin Barriers
    <3>1. CallNumber(to, 0) = CallNumber(from, 0) + 1
      BY <1>0, <1>5, <2>1, Numbers
    <3>2. Script(CallNumber(to, 0)) = to /\ Script(CallNumber(from, 0)) = from
      BY <1>0, <2>1, ScriptAt
    <3>. QED  BY <2>1, <3>1, <3>2 DEF Barriers
  <2>4. to \in Setup \ Barriers  BY <2>1 DEF Setup, Barriers
  <2>. HIDE DEF t, c
  <2>. QED  BY <1>0, <1>2, <1>3, <1>4, <2>1, <2>2, <2>3, <2>4, StepIn
            DEF Points, Setup, Iterating, Ending, Barriers
<1>7. CASE LeaveTimeron(q)
  <2>1. pc[q] = "timeron" /\ Enter(q, "generated", 0) /\ UNCHANGED <<timed, current_iteration>>
    BY <1>7 DEF LeaveTimeron, Broadcast
  <2>2. /\ q \in ActiveRank /\ Len(calls[q]) = CallNumber("timeron", 0) /\ ~ t /\ InRange
    BY <2>1, Here DEF Setup
  <2>3. CallNumber("generated", 0) = CallNumber("timeron", 0) + 1
        /\ Script(CallNumber("generated", 0)) = "generated"
        /\ Script(CallNumber("timeron", 0)) = "timeron"
    BY <1>0, <1>5, ScriptAt, Numbers
  <2>. HIDE DEF t, c
  <2>. QED  BY <1>0, <1>2, <1>3, <1>4, <2>1, <2>2, <2>3, StepIn
            DEF Points, Setup, Iterating, Ending, Barriers
<1>8. CASE LeaveGenerated(q)
  <2>1. PICK v : /\ pc[q] = "generated" /\ Enter(q, "sizes", v) /\ UNCHANGED timed
                 /\ current_iteration' = [current_iteration EXCEPT ![q] = 1]
                 /\ \A s \in Rank : Joined(s, q)
    BY <1>8 DEF LeaveGenerated, Barrier, OrganizeKeys, Set
  <2>2. /\ q \in ActiveRank /\ Len(calls[q]) = CallNumber("generated", 0) /\ ~ t /\ InRange
    BY <2>1, Here DEF Setup
  <2>3. CallNumber("sizes", 0) = CallNumber("generated", 0) + 1
        /\ Script(CallNumber("sizes", 0)) = "sizes"
    BY <1>0, <1>5, ScriptAt, Numbers, Constants DEF Pass
  <2>4. 1 \in 0 .. MAX_ITERATIONS /\ 1 \in Iteration  BY Constants DEF Iteration
  <2>. HIDE DEF t, c
  <2>. QED  BY <1>0, <1>2, <1>3, <2>1, <2>2, <2>3, <2>4, StepIn
            DEF Points, Setup, Iterating, Ending, Barriers
<1>9. CASE LeaveBegin(q)
  <2>1. PICK v : /\ pc[q] = "begin" /\ Enter(q, "sizes", v) /\ UNCHANGED timed
                 /\ current_iteration' = [current_iteration EXCEPT ![q] = c]
                 /\ \A s \in Rank : Joined(s, q)
    BY <1>9 DEF LeaveBegin, Barrier, OrganizeKeys, Set
  <2>2. /\ q \in ActiveRank /\ Len(calls[q]) = CallNumber("begin", c) /\ t /\ InRange
        /\ c \in Iteration /\ c \in Pass /\ c \in Nat
    <3>1. PassOf(q) = c  BY <2>1, Here DEF PassOf
    <3>. QED  BY <2>1, <3>1, Here
  <2>3. CallNumber("sizes", c) = CallNumber("begin", c) + 1
        /\ Script(CallNumber("sizes", c)) = "sizes"
    <3>. HIDE DEF c
    <3>1. CallNumber("sizes", c) = CallNumber("begin", c) + 1
      BY <1>0, <1>5, <2>2, Numbers
    <3>2. Script(CallNumber("sizes", c)) = "sizes"
      BY <1>0, <2>2, ScriptAt
    <3>. QED  BY <3>1, <3>2
  <2>. HIDE DEF t, c
  <2>. QED  BY <1>0, <1>2, <1>3, <2>1, <2>2, <2>3, StepIn
            DEF Points, Setup, Iterating, Ending, Barriers
<1>10. CASE LeaveSizes(q) \/ LeaveTotals(q)
  <2>1. PICK from, to, v :
          /\ pc[q] = from /\ Enter(q, to, v) /\ UNCHANGED <<timed, current_iteration>>
          /\ <<from, to>> \in {<<"sizes", "totals">>, <<"totals", "handler">>}
    BY <1>10 DEF LeaveSizes, LeaveTotals, Broadcast, Reduce
  <2>. DEFINE p == IF t THEN c ELSE 0
  <2>2. /\ q \in ActiveRank /\ Len(calls[q]) = CallNumber(from, p) /\ InRange
        /\ p \in Pass /\ p \in Nat /\ c \in Iteration /\ (~ t => c = 1)
    <3>1. PassOf(q) = p  BY DEF PassOf
    <3>2. pc[q] \in Iterating  BY <2>1 DEF Iterating
    <3>. HIDE DEF p, c, t
    <3>. QED  BY <2>1, <3>1, <3>2, Here DEF t, c, Iterating
  <2>3. CallNumber(to, p) = CallNumber(from, p) + 1 /\ Script(CallNumber(to, p)) = to
        /\ Script(CallNumber(from, p)) \notin Barriers
    <3>. HIDE DEF p
    <3>1. CallNumber(to, p) = CallNumber(from, p) + 1
      <4>. HIDE DEF t, c
      <4>1. /\ CallNumber("sizes", p) = Offset + 5 + 4 * p
            /\ CallNumber("totals", p) = Offset + 6 + 4 * p
            /\ CallNumber("handler", p) = Offset + 7 + 4 * p
        BY <1>0, <2>2, Numbers
      <4>. QED  BY <1>5, <2>1, <2>2, <4>1
    <3>2. Script(CallNumber(to, p)) = to /\ Script(CallNumber(from, p)) = from
      BY <1>0, <2>1, <2>2, ScriptAt
    <3>. QED  BY <2>1, <3>1, <3>2 DEF Barriers
  <2>4. to \in {"totals", "handler"}  BY <2>1
  <2>5. Len(calls[q]) + 1 = CallNumber(to, IF t THEN c ELSE 0) /\ to = Script(Len(calls[q]) + 1)
    BY <2>2, <2>3
  <2>. HIDE DEF t, c, p
  <2>. QED  BY <1>0, <1>2, <1>3, <1>4, <2>1, <2>2, <2>3, <2>4, <2>5, StepIn
            DEF Points, Setup, Iterating, Ending, Barriers
<1>. QED  BY <1>6, <1>7, <1>8, <1>9, <1>10

LEMMA EndSteps ==
  ASSUME Control, NEW q \in Rank,
         LeaveHandler(q) \/ FinishIteration(q) \/ LeaveTime(q) \/ FullVerify(q)
           \/ LeavePassed(q) \/ LeaveSummary(q)
  PROVE  StepOf(q)
<1>0. JobInv /\ TypeControl /\ TypeOK /\ ControlOf(q) /\ UNCHANGED job
  <2>1. RankStep(q)  BY DEF RankStep
  <2>. QED  BY <2>1, RankStepJob, TypeParts DEF Control, ControlInv
<1>. DEFINE t == timed[q]
            c == current_iteration[q]
<1>2. t \in BOOLEAN /\ c \in 0 .. MAX_ITERATIONS
  BY <1>0 DEF TypeControl
<1>3. timed' = timed => timed' = [timed EXCEPT ![q] = t]
  BY <1>0 DEF TypeControl
<1>4. current_iteration' = current_iteration =>
        current_iteration' = [current_iteration EXCEPT ![q] = c]
  BY <1>0 DEF TypeControl
<1>5. Offset \in {0, 1} /\ MAX_ITERATIONS \in Nat \ {0}  BY <1>0, JobFacts, Constants
<1>6. CASE LeaveHandler(q)
  <2>1. /\ pc[q] = "handler" /\ pc' = [pc EXCEPT ![q] = "exchange"]
        /\ UNCHANGED <<calls, timed, current_iteration>> /\ \A s \in Rank : Joined(s, q)
    BY <1>6 DEF LeaveHandler, Barrier, Set
  <2>. QED  BY <1>0, <2>1, StepOut
<1>7. CASE LeaveTime(q)
  <2>1. /\ pc[q] = "time" /\ pc' = [pc EXCEPT ![q] = "chain"]
        /\ UNCHANGED <<calls, timed, current_iteration>>
    BY <1>7 DEF LeaveTime, Reduce, Set
  <2>. QED  BY <1>0, <2>1, StepOut
<1>8. CASE FinishIteration(q)
  <2>. DEFINE last == t /\ c = MAX_ITERATIONS
              to == IF last THEN "time" ELSE "begin"
              it == IF ~ t THEN 1 ELSE IF last THEN c ELSE c + 1
              p == PassOf(q)
  <2>1. /\ pc[q] = "exchange" /\ Enter(q, to, 0) /\ timed' = [timed EXCEPT ![q] = TRUE]
        /\ current_iteration' = [current_iteration EXCEPT ![q] = it]
    BY <1>8 DEF FinishIteration, NextCall, Set
  <2>2. /\ q \in ActiveRank /\ Len(calls[q]) = CallNumber("exchange", p) /\ InRange
        /\ p \in Pass /\ p \in Nat /\ c \in Iteration /\ p = IF t THEN c ELSE 0
    <3>1. pc[q] \in Iterating  BY <2>1 DEF Iterating
    <3>. QED  BY <2>1, <3>1, Here DEF PassOf
  <2>3. to \in Points /\ to \in {"time", "begin"} /\ it \in Iteration /\ (to = "time" => it = MAX_ITERATIONS)
    BY <1>5, <2>2 DEF Points, Ending, Iteration
  <2>4. CallNumber(to, it) = CallNumber("exchange", p) + 1 /\ Script(CallNumber(to, it)) = to
    <3>. HIDE DEF p, c, t, last, it, to
    <3>1. CASE last
      <4>1. p = MAX_ITERATIONS /\ it = MAX_ITERATIONS /\ to = "time"
        BY <2>2, <3>1 DEF last, it, to
      <4>2. Script(CallNumber("time", MAX_ITERATIONS)) = "time"
        BY <1>0, ScriptAt
      <4>3. CallNumber("time", MAX_ITERATIONS) = Offset + 8 + 4 * MAX_ITERATIONS
            /\ CallNumber("exchange", MAX_ITERATIONS) = Offset + 7 + 4 * MAX_ITERATIONS
        BY <1>0, <1>5, Numbers
      <4>. QED  BY <1>5, <4>1, <4>2, <4>3
    <3>2. CASE ~ last
      <4>1. it = p + 1 /\ to = "begin"
        BY <2>2, <3>2 DEF last, it, to
      <4>2. Script(CallNumber("begin", it)) = "begin"
        BY <1>0, <2>3, ScriptAt
      <4>3. CallNumber("begin", it) = Offset + 4 + 4 * it
        <5>1. it \in Nat  BY <2>2, <4>1
        <5>. QED  BY <1>0, <5>1, Numbers
      <4>4. CallNumber("exchange", p) = Offset + 7 + 4 * p
        BY <1>0, <2>2, Numbers
      <4>. QED  BY <1>5, <2>2, <4>1, <4>2, <4>3, <4>4
    <3>. QED  BY <3>1, <3>2
  <2>5. \A s \in Rank : Joined(s, q)
    BY <2>1 DEF Control, BarrierInv, Joined
  <2>6. Len(calls[q]) + 1 = CallNumber(to, IF TRUE THEN it ELSE 0) /\ to = Script(Len(calls[q]) + 1)
    <3>. HIDE DEF p, to, it
    <3>. QED  BY <2>2, <2>4
  <2>7. it \in 0 .. MAX_ITERATIONS  BY <1>5, <2>3 DEF Iteration
  <2>8. to \notin {"strict"} \cup Setup \cup Iterating  BY DEF Setup, Iterating
  <2>9. to \notin {"start", "exchange", "done", "chain", "strict"}  OBVIOUS
  <2>. HIDE DEF p, c, t, last, it, to
  <2>10. to \in Ending => it = MAX_ITERATIONS  BY <2>3 DEF Ending
  <2>. QED  BY <1>0, <2>1, <2>2, <2>3, <2>5, <2>6, <2>7, <2>8, <2>9, <2>10, StepIn
<1>9. CASE FullVerify(q) \/ LeavePassed(q) \/ LeaveSummary(q)
  <2>1. UNCHANGED <<timed, current_iteration>>
    BY <1>9 DEF FullVerify, LeavePassed, LeaveSummary
  <2>2. CASE pc' = [pc EXCEPT ![q] = "done"] /\ UNCHANGED calls
    <3>1. pc[q] \in {"passed", "tmax"}
      <4>1. q \in DOMAIN pc /\ Len(calls[q]) \in Nat  BY <1>0 DEF TypeControl, IsSequence
      <4>2. \A call, v : ~ Enter(q, call, v)
        <5>. SUFFICES ASSUME NEW call, NEW v, Enter(q, call, v)  PROVE FALSE
          OBVIOUS
        <5>1. Longer(q, call, v)  BY <1>0, Entering
        <5>. QED  BY <2>2, <4>1, <5>1 DEF Longer
      <4>. QED  BY <1>9, <4>2 DEF FullVerify, Verified, LeavePassed, LeaveSummary, Reduce
    <3>2. Len(calls[q]) >= CallNumber("passed", MAX_ITERATIONS)
      <4>1. Len(calls[q]) = CallNumber(pc[q], MAX_ITERATIONS)  BY <3>1, Here DEF Ending
      <4>2. /\ CallNumber("passed", MAX_ITERATIONS) = Offset + 9 + 4 * MAX_ITERATIONS
            /\ CallNumber("tmax", MAX_ITERATIONS) = Offset + 12 + 4 * MAX_ITERATIONS
        BY <1>0, <1>5, Numbers
      <4>. QED  BY <1>5, <3>1, <4>1, <4>2
    <3>. QED  BY <1>0, <2>1, <2>2, <3>2, StepOut
  <2>3. CASE ~ (pc' = [pc EXCEPT ![q] = "done"] /\ UNCHANGED calls)
    <3>1. PICK from, to, v :
            /\ pc[q] = from /\ Enter(q, to, v)
            /\ <<from, to>> \in {<<"chain", "passed">>, <<"passed", "tmin">>, <<"tmin", "tsum">>,
                                 <<"tsum", "tmax">>}
      BY <1>9, <2>3 DEF FullVerify, Verified, LeavePassed, LeaveSummary, Reduce, Exit, Set
    <3>2. from \in Ending /\ to \in Ending
          /\ to \notin {"strict", "start", "exchange", "done", "chain", "begin"} \cup Setup \cup Iterating
      BY <3>1 DEF Ending, Setup, Iterating
    <3>3. /\ q \in ActiveRank /\ Len(calls[q]) = CallNumber(from, MAX_ITERATIONS) /\ t
          /\ InRange /\ c = MAX_ITERATIONS
      BY <3>1, <3>2, Here DEF Ending
    <3>4. CallNumber(to, MAX_ITERATIONS) = CallNumber(from, MAX_ITERATIONS) + 1
      <4>. HIDE DEF t, c
      <4>1. /\ CallNumber("chain", MAX_ITERATIONS) = Offset + 8 + 4 * MAX_ITERATIONS
            /\ CallNumber("passed", MAX_ITERATIONS) = Offset + 9 + 4 * MAX_ITERATIONS
            /\ CallNumber("tmin", MAX_ITERATIONS) = Offset + 10 + 4 * MAX_ITERATIONS
            /\ CallNumber("tsum", MAX_ITERATIONS) = Offset + 11 + 4 * MAX_ITERATIONS
            /\ CallNumber("tmax", MAX_ITERATIONS) = Offset + 12 + 4 * MAX_ITERATIONS
        BY <1>0, <1>5, Numbers
      <4>. QED  BY <1>5, <3>1, <4>1
    <3>5. Script(CallNumber(to, MAX_ITERATIONS)) = to /\ Script(CallNumber(from, MAX_ITERATIONS)) \notin Barriers
      BY <1>0, <3>1, ScriptAt DEF Barriers
    <3>6. Len(calls[q]) + 1 = CallNumber(to, IF t THEN c ELSE 0) /\ to = Script(Len(calls[q]) + 1)
          /\ Script(Len(calls[q])) \notin Barriers
      <4>. HIDE DEF t, c
      <4>. QED  BY <3>3, <3>4, <3>5
    <3>7. to \in Points  BY <3>2 DEF Points
    <3>. HIDE DEF t, c
    <3>. QED  BY <1>0, <1>2, <1>3, <1>4, <2>1, <3>1, <3>2, <3>3, <3>6, <3>7, StepIn
  <2>. QED  BY <2>2, <2>3
<1>. QED  BY <1>6, <1>7, <1>8, <1>9

LEMMA EveryStep ==
  ASSUME Control, NEW q \in Rank, RankStep(q)
  PROVE  StepOf(q)
BY StartSteps, SetupSteps, EndSteps DEF RankStep

(* No step takes back a call.                                              *)
Grows ==
  \A r \in Rank : /\ Len(calls[r]) \in Nat /\ Len(calls'[r]) \in Nat
                  /\ Len(calls'[r]) >= Len(calls[r])
                  /\ \A k \in 1 .. Len(calls[r]) : calls'[r][k] = calls[r][k]

LEMMA StepGrows ==
  ASSUME TypeControl, NEW q \in Rank, StepOf(q)
  PROVE  Grows
<1>1. \A r \in Rank : Len(calls[r]) \in Nat
  BY DEF TypeControl, IsSequence
<1>2. CASE UNCHANGED calls  BY <1>1, <1>2 DEF Grows
<1>3. CASE \E call, value : Longer(q, call, value)
  BY <1>1, <1>3 DEF Grows, Longer
<1>. QED  BY <1>2, <1>3 DEF StepOf

LEMMA ControlStep ==
  ASSUME Control, UNCHANGED job, NEW q \in Rank, StepOf(q)
  PROVE  ControlInv' /\ BarrierInv'
<1>0. /\ Rank' = Rank /\ ActiveRank' = ActiveRank /\ Offset' = Offset /\ InRange' = InRange
      /\ \A k : Script(k)' = Script(k)
      /\ \A point, p : CallNumber(point, p)' = CallNumber(point, p)
  BY JobStays, Zenon
<1>1. TypeControl /\ Grows /\ Alone(q)
  BY TypeParts, StepGrows DEF Control, StepOf
<1>2. ASSUME NEW r \in Rank \ {q}  PROVE ControlOf(r)'
  <2>1. ControlOf(r)  BY DEF Control, ControlInv
  <2>2. /\ pc'[r] = pc[r] /\ calls'[r] = calls[r]
        /\ timed'[r] = timed[r] /\ current_iteration'[r] = current_iteration[r]
    BY <1>1 DEF Alone
  <2>3. PassOf(r)' = PassOf(r)  BY <2>2 DEF PassOf
  <2>. QED  BY <1>0, <2>1, <2>2, <2>3 DEF ControlOf
<1>3. ControlInv'
  <2>1. ControlOf(q)'  BY DEF StepOf
  <2>2. \A r \in Rank : ControlOf(r)'  BY <1>2, <2>1
  <2>. QED  BY <1>0, <2>2 DEF ControlInv
<1>4. ASSUME NEW r \in Rank, NEW s \in Rank, NEW k \in 1 .. Len(calls'[r]) - 1, Script(k) \in Barriers
      PROVE  Len(calls'[s]) >= k
  <2>0. Len(calls'[s]) >= Len(calls[s]) /\ Len(calls[s]) \in Nat /\ Len(calls'[s]) \in Nat
        /\ Len(calls[r]) \in Nat /\ Len(calls'[r]) \in Nat
    BY <1>1 DEF Grows
  <2>1. CASE k \in 1 .. Len(calls[r]) - 1
    <3>1. Len(calls[s]) >= k  BY <1>4, <2>1 DEF Control, BarrierInv, Barriers
    <3>. QED  BY <2>0, <3>1
  <2>2. CASE k \notin 1 .. Len(calls[r]) - 1
    <3>1. Len(calls'[r]) > Len(calls[r])  BY <2>0, <2>2
    <3>2. r = q /\ ~ UNCHANGED calls
      <4>1. r = q  BY <1>1, <2>0, <3>1 DEF Alone
      <4>2. ~ UNCHANGED calls  BY <2>0, <3>1
      <4>. QED  BY <4>1, <4>2
    <3>3. /\ \E call, value : Longer(q, call, value)
          /\ Len(calls[q]) > 0 /\ Script(Len(calls[q])) \in Barriers =>
               \A x \in Rank : Joined(x, q)
      BY <3>2 DEF StepOf
    <3>4. Len(calls'[q]) = Len(calls[q]) + 1  BY <3>3 DEF Longer
    <3>5. k = Len(calls[q]) /\ k > 0  BY <2>0, <2>2, <3>2, <3>4
    <3>6. Joined(s, q)  BY <1>4, <3>3, <3>5
    <3>. QED  BY <2>0, <3>5, <3>6 DEF Joined
  <2>. QED  BY <2>1, <2>2
<1>5. ASSUME NEW r \in Rank, NEW s \in Rank, pc'[r] = "exchange"
      PROVE  Len(calls'[s]) >= Len(calls'[r])
  <2>0. Len(calls'[s]) >= Len(calls[s]) /\ Len(calls[s]) \in Nat /\ Len(calls'[s]) \in Nat
    BY <1>1 DEF Grows
  <2>1. CASE r = q  BY <1>5, <2>1 DEF StepOf
  <2>2. CASE r # q
    <3>1. pc[r] = "exchange" /\ calls'[r] = calls[r]  BY <1>1, <1>5, <2>2 DEF Alone
    <3>2. Len(calls[s]) >= Len(calls[r])  BY <3>1 DEF Control, BarrierInv
    <3>3. Len(calls[r]) \in Nat  BY <1>1 DEF Grows
    <3>. QED  BY <2>0, <3>1, <3>2, <3>3
  <2>. QED  BY <2>1, <2>2
<1>6. BarrierInv'
  BY <1>0, <1>4, <1>5 DEF BarrierInv, Barriers
<1>. QED  BY <1>3, <1>6

LEMMA ReceiveTypes ==
  ASSUME TypeOK, NEW m, Receive(m)
  PROVE  TypeOK' /\ UNCHANGED <<job, pc, calls, timed, current_iteration>>
<1>1. UNCHANGED <<job, timeron, pc, calls, current_iteration, timed, keys, counts, phase, active>>
  BY DEF Receive
<1>2. PICK base, n, f : /\ base = plan[m.dst].min_key_value /\ n = Size(m)
                        /\ f = [i \in Slot |-> frequency[m.dst][i] + IF base + i \in KeyValue THEN m.keys[base + i] ELSE 0]
  OBVIOUS
<1>3. frequency' = [frequency EXCEPT ![m.dst] = f]
      /\ recv_count' = [recv_count EXCEPT ![m.dst] = @ + n]
  BY <1>2 DEF Receive
<1>4. f = [i \in Slot |-> f[i]]  BY <1>2
<1>5. Rank' = Rank  BY <1>1, JobStays
<1>. HIDE DEF Receive
<1>. QED  BY <1>1, <1>3, <1>4, <1>5 DEF TypeOK, OfRanks, IsSequence, counts

LEMMA ControlFromInit ==
  Init => Control
<1>. SUFFICES ASSUME Init  PROVE Control
  OBVIOUS
<1>1. JobInv  BY DEF Init, JobInv
<1>2. TypeOK
  <2>1. << >> = [k \in 1 .. 0 |-> << >>[k]] /\ Len(<< >>) = 0  OBVIOUS
  <2>2. IsSequence(<< >>)  BY <2>1 DEF IsSequence
  <2>3. 0 \in 0 .. MAX_ITERATIONS  BY Constants
  <2>. QED  BY <2>2, <2>3 DEF Init, TypeOK, OfRanks, Points
<1>3. \A r \in Rank : calls[r] = << >> /\ Len(calls[r]) = 0 /\ pc[r] = "start" /\ timed[r] = FALSE
  BY DEF Init
<1>4. ControlInv
  BY <1>3 DEF ControlInv, ControlOf, Setup, Iterating, Ending
<1>5. BarrierInv
  BY <1>3 DEF BarrierInv
<1>. QED  BY <1>1, <1>2, <1>4, <1>5 DEF Control

LEMMA ControlNext ==
  Control /\ [Next]_vars => Control'
<1>. SUFFICES ASSUME Control, [Next]_vars  PROVE Control'
  OBVIOUS
<1>1. ASSUME NEW q \in Rank, RankStep(q)  PROVE Control'
  <2>1. StepOf(q) /\ UNCHANGED job  BY <1>1, EveryStep, RankStepJob
  <2>2. ControlInv' /\ BarrierInv'  BY <2>1, ControlStep
  <2>3. JobInv'  BY <2>1, JobStays DEF Control
  <2>4. TypeControl'  BY <2>1 DEF StepOf
  <2>5. TypeData'  BY <1>1, DataTypes DEF Control
  <2>6. TypeOK'  BY <2>4, <2>5 DEF TypeOK, TypeControl, TypeData
  <2>. QED  BY <2>2, <2>3, <2>6 DEF Control
<1>2. ASSUME UNCHANGED <<job, pc, calls, timed, current_iteration>>, TypeOK'
      PROVE  Control'
  <2>0. /\ Rank' = Rank /\ ActiveRank' = ActiveRank /\ Offset' = Offset /\ InRange' = InRange
        /\ \A k : Script(k)' = Script(k)
        /\ \A point, p : CallNumber(point, p)' = CallNumber(point, p)
    BY <1>2, JobStays, Zenon
  <2>1. JobInv'  BY <1>2, JobStays DEF Control
  <2>2. ASSUME NEW r \in Rank  PROVE ControlOf(r)'
    <3>1. ControlOf(r)  BY DEF Control, ControlInv
    <3>2. PassOf(r)' = PassOf(r)  BY <1>2 DEF PassOf
    <3>. QED  BY <1>2, <2>0, <3>1, <3>2 DEF ControlOf
  <2>3. ControlInv'  BY <2>0, <2>2 DEF ControlInv
  <2>4. BarrierInv'  BY <1>2, <2>0 DEF Control, BarrierInv
  <2>. QED  BY <1>2, <2>1, <2>3, <2>4 DEF Control
<1>3. ASSUME NEW m \in net, Receive(m)  PROVE Control'
  BY <1>2, <1>3, ReceiveTypes DEF Control
<1>4. CASE UNCHANGED vars
  <2>1. TypeOK'
    BY <1>4, JobStays DEF Control, TypeOK, OfRanks, IsSequence, vars, counts, exchange
  <2>. QED  BY <1>2, <1>4, <2>1 DEF vars
<1>. QED  BY <1>1, <1>3, <1>4 DEF Next

(* The control part of the invariant holds of every behaviour.             *)
(* The inductive invariant of the control holds: a rank has entered the    *)
(* collectives that lead to where it is, in the order of the program.      *)
THEOREM ControlHolds == Spec => []Control
BY ControlFromInit, ControlNext, PTL DEF Spec

(* The collectives have no tag: the k-th call a rank enters is the k-th    *)
(* call of the program, whichever rank it is, so that the calls that meet  *)
(* in the runtime are the same call (the calls of                          *)
(* nas_integer_sort_run.cpp, and the barrier of set_am_handler()).         *)
THEOREM CallsMatch == Spec => []CollectivesMatch
<1>1. Control => CollectivesMatch
  <2>. SUFFICES ASSUME Control, NEW r \in Rank, NEW s \in Rank, NEW k \in 1 .. Len(calls[r]),
                       k <= Len(calls[s])
                PROVE  calls[r][k].call = calls[s][k].call
    BY DEF CollectivesMatch
  <2>1. ControlOf(r) /\ ControlOf(s)  BY DEF Control, ControlInv
  <2>2. k \in 1 .. Len(calls[s])
    <3>1. Len(calls[r]) \in Nat /\ Len(calls[s]) \in Nat
      BY DEF Control, TypeOK, IsSequence
    <3>. QED  BY <3>1
  <2>. QED  BY <2>1, <2>2 DEF ControlOf
<1>. QED  BY <1>1, ControlHolds, PTL

-----------------------------------------------------------------------------
(* The data of one iteration: slices, counts, the plan, and what a rank    *)
(* posts.  First the arithmetic of blocks.                                 *)
(* The quotient is the number of the block of d that n is in.              *)
LEMMA Blocks ==
  ASSUME NEW n \in Nat, NEW d \in Nat \ {0}, NEW a \in Nat
  PROVE  /\ a <= n \div d <=> a * d <= n
         /\ n \div d <= a <=> n <= (a + 1) * d - 1
<1>1. /\ n \div d \in Nat /\ d * (n \div d) <= n /\ n <= d * (n \div d) + (d - 1)
  BY Division
<1>2. PICK q \in Nat : q = n \div d
  BY <1>1
<1>3. ASSUME NEW x \in Nat, NEW y \in Nat, x <= y  PROVE x * d <= y * d
  BY <1>3
<1>4. /\ q * d <= n /\ n < (q + 1) * d
  BY <1>1, <1>2
<1>5. a <= q => a * d <= n
  <2>. SUFFICES ASSUME a <= q  PROVE a * d <= n
    OBVIOUS
  <2>1. a * d <= q * d  BY <1>3
  <2>. QED  BY <1>4, <2>1
<1>6. a * d <= n => a <= q
  <2>. SUFFICES ASSUME q + 1 <= a  PROVE n < a * d
    BY <1>2
  <2>1. (q + 1) * d <= a * d  BY <1>3
  <2>. QED  BY <1>4, <2>1
<1>7. q <= a => n <= (a + 1) * d - 1
  <2>. SUFFICES ASSUME q + 1 <= a + 1  PROVE n < (a + 1) * d
    OBVIOUS
  <2>1. (q + 1) * d <= (a + 1) * d  BY <1>3
  <2>. QED  BY <1>4, <2>1
<1>8. n <= (a + 1) * d - 1 => q <= a
  <2>. SUFFICES ASSUME a + 1 <= q  PROVE (a + 1) * d <= n
    BY <1>2
  <2>1. (a + 1) * d <= q * d  BY <1>3
  <2>. QED  BY <1>4, <2>1
<1>. QED  BY <1>2, <1>5, <1>6, <1>7, <1>8

LEMMA Position ==
  ASSUME NEW d \in Nat \ {0}, NEW q \in Nat, NEW i \in 0 .. d - 1
  PROVE  /\ q * d + i \in Nat
         /\ (q * d + i) \div d = q
         /\ (q * d + i) % d = i
<1>1. PICK n \in Nat : n = q * d + i
  OBVIOUS
<1>2. q * d <= n /\ n <= (q + 1) * d - 1
  BY <1>1
<1>3. n \div d \in Nat /\ n % d = n - d * (n \div d)
  BY Division
<1>4. n \div d = q
  BY <1>2, <1>3, Blocks
<1>5. n % d = i
  BY <1>1, <1>3, <1>4
<1>. QED  BY <1>1, <1>4, <1>5

-----------------------------------------------------------------------------
(* A job with a permitted size.                                            *)
Runs == JobInv /\ InRange

LEMMA Shares ==
  ASSUME Runs
  PROVE  /\ local_key_count \in Nat \ {0}
         /\ 2 * MAX_ITERATIONS < local_key_count /\ local_key_count <= WorkBufferSize
         /\ active_rank_count * local_key_count = TOTAL_KEYS * MIN_PROCS
         /\ active_rank_count \in Nat \ {0}
<1>1. PICK j \in Jobs : rank_count = j.ranks
  BY DEF Runs, JobInv
<1>2. j.ranks \in MIN_PROCS .. MAX_PROCS
  BY <1>1 DEF Runs, InRange
<1>3. active_rank_count = GreatestPowerOfTwo(j.ranks)
  BY <1>1 DEF active_rank_count
<1>4. 2 * MAX_ITERATIONS < local_key_count
  BY <1>2, <1>3, KeyAssumption DEF local_key_count
<1>5. /\ local_key_count * active_rank_count = TOTAL_KEYS * MIN_PROCS
      /\ local_key_count <= WorkBufferSize
  BY <1>2, <1>3, ShareAssumption DEF local_key_count
<1>6. active_rank_count \in Nat \ {0}
  BY JobFacts DEF Runs
<1>7. local_key_count \in Nat
  <2>1. TOTAL_KEYS \div active_rank_count \in Nat
    BY <1>6, Division, RunAssumption
  <2>2. MIN_PROCS \in Nat  BY RunAssumption
  <2>. QED  BY <2>1, <2>2 DEF local_key_count, LocalKeyCount
<1>8. MAX_ITERATIONS \in Nat \ {0}  BY Constants
<1>9. active_rank_count * local_key_count = local_key_count * active_rank_count
  BY <1>6, <1>7
<1>. QED  BY <1>4, <1>5, <1>6, <1>7, <1>8, <1>9

LocalIndex == 0 .. local_key_count - 1

LEMMA Slices ==
  ASSUME Runs
  PROVE  /\ \A r \in ActiveRank, i \in LocalIndex :
              /\ r * local_key_count + i \in AllKeys
              /\ (r * local_key_count + i) \div local_key_count = r
              /\ (r * local_key_count + i) % local_key_count = i
         /\ \A x \in AllKeys :
              /\ x \div local_key_count \in ActiveRank
              /\ x % local_key_count \in LocalIndex
              /\ x = (x \div local_key_count) * local_key_count + (x % local_key_count)
<1>. DEFINE L == local_key_count
            n == active_rank_count
<1>1. L \in Nat \ {0} /\ n \in Nat \ {0} /\ AllKeys = 0 .. n * L - 1
  BY Shares DEF AllKeys
<1>. HIDE DEF L, n
<1>2. ASSUME NEW r \in 0 .. n - 1, NEW i \in 0 .. L - 1
      PROVE  r * L + i \in AllKeys /\ (r * L + i) \div L = r /\ (r * L + i) % L = i
  <2>1. r \in Nat /\ n - 1 \in Nat /\ r <= n - 1  BY <1>1
  <2>2. r * L <= (n - 1) * L  BY <1>1, <2>1
  <2>3. r * L + i \in Nat /\ (r * L + i) \div L = r /\ (r * L + i) % L = i
    BY <1>1, <2>1, Position
  <2>4. (n - 1) * L = n * L - L  BY <1>1
  <2>5. r * L \in Nat /\ n * L \in Nat  BY <1>1, <2>1
  <2>. QED  BY <1>1, <2>2, <2>3, <2>4, <2>5
<1>3. ASSUME NEW x \in AllKeys
      PROVE  x \div L \in 0 .. n - 1 /\ x % L \in 0 .. L - 1 /\ x = (x \div L) * L + (x % L)
  <2>1. x \in Nat /\ x <= ((n - 1) + 1) * L - 1 /\ n - 1 \in Nat
    <3>1. (n - 1) + 1 = n /\ n * L \in Nat  BY <1>1
    <3>. QED  BY <1>1, <3>1
  <2>2. x \div L <= n - 1  BY <1>1, <2>1, Blocks
  <2>3. x \div L \in Nat /\ x - L * (x \div L) \in 0 .. L - 1 /\ x % L = x - L * (x \div L)
    BY <1>1, <2>1, Division
  <2>4. L * (x \div L) = (x \div L) * L  BY <1>1, <2>3
  <2>. QED  BY <1>1, <2>1, <2>2, <2>3, <2>4
<1>. QED  BY <1>2, <1>3 DEF L, n, ActiveRank, LocalIndex

LEMMA SliceCount ==
  ASSUME Runs, NEW r \in ActiveRank, NEW P \in SUBSET AllKeys
  PROVE  Cardinality({i \in LocalIndex : r * local_key_count + i \in P})
           = Cardinality(P \cap Slice(r))
<1>. DEFINE A == {i \in LocalIndex : r * local_key_count + i \in P}
            B == P \cap Slice(r)
            f == [i \in A |-> r * local_key_count + i]
<1>1. \A i \in A : f[i] \in B
  BY Slices DEF Slice
<1>2. \A i, j \in A : f[i] = f[j] => i = j
  <2>. SUFFICES ASSUME NEW i \in A, NEW j \in A, f[i] = f[j]  PROVE i = j
    OBVIOUS
  <2>1. f[i] % local_key_count = i /\ f[j] % local_key_count = j
    BY Slices
  <2>. HIDE DEF f
  <2>. QED  BY <2>1
<1>3. ASSUME NEW x \in B  PROVE \E i \in A : f[i] = x
  <2>1. x \in AllKeys /\ x \div local_key_count = r  BY DEF Slice
  <2>2. x % local_key_count \in LocalIndex /\ x = r * local_key_count + (x % local_key_count)
    BY <2>1, Slices
  <2>3. x % local_key_count \in A  BY <2>2
  <2>. QED  BY <2>2, <2>3
<1>4. f \in Bijection(A, B)
  <2>1. f \in [A -> B]  BY <1>1
  <2>. HIDE DEF f, A, B
  <2>2. f \in Injection(A, B)  BY <1>2, <2>1 DEF Injection, IsInjective
  <2>3. f \in Surjection(A, B)  BY <1>3, <2>1 DEF Surjection
  <2>. QED  BY <2>2, <2>3 DEF Bijection
<1>5. IsFiniteSet(A)
  <2>1. IsFiniteSet(LocalIndex)  BY Shares, FS_Interval DEF LocalIndex
  <2>2. A \in SUBSET LocalIndex  OBVIOUS
  <2>. HIDE DEF A
  <2>. QED  BY <2>1, <2>2, FS_Subset
<1>. HIDE DEF f, A, B
<1>6. Cardinality(A) = Cardinality(B)
  <2>1. ExistsBijection(A, B)  BY <1>4 DEF ExistsBijection
  <2>. QED  BY <1>5, <2>1, FS_Bijection
<1>. QED  BY <1>6 DEF A, B

LEMMA KeysAre ==
  ASSUME Runs, NEW it \in 0 .. MAX_ITERATIONS
  PROVE  /\ TrueKeys(it) \in [AllKeys -> KeyValue]
         /\ \A i \in AllKeys : BucketOf(TrueKeys(it)[i]) \in Bucket
<1>1. generated \in [AllKeys -> KeyValue]
  BY JobFacts DEF Runs
<1>2. ASSUME NEW i \in AllKeys  PROVE TrueKeys(it)[i] \in KeyValue
  <2>0. /\ i \in Nat /\ it \in Nat /\ it <= MAX_ITERATIONS /\ MAX_ITERATIONS < MAX_KEY
        /\ MAX_ITERATIONS \in Nat /\ MAX_KEY \in Nat
    BY Constants DEF AllKeys
  <2>1. CASE i \in 1 .. it
    BY <2>0, <2>1 DEF TrueKeys, KeyValue
  <2>2. CASE i \notin 1 .. it /\ i - MAX_ITERATIONS \in 1 .. it
    <3>1. TrueKeys(it)[i] = MAX_KEY - (i - MAX_ITERATIONS)  BY <2>2 DEF TrueKeys
    <3>2. PICK d : d = i - MAX_ITERATIONS  OBVIOUS
    <3>3. d \in 1 .. it  BY <2>2, <3>2
    <3>. QED  BY <2>0, <3>1, <3>2, <3>3 DEF KeyValue
  <2>3. CASE i \notin 1 .. it /\ i - MAX_ITERATIONS \notin 1 .. it
    <3>1. TrueKeys(it)[i] = generated[i]  BY <2>3 DEF TrueKeys
    <3>. QED  BY <1>1, <3>1
  <2>. QED  BY <2>1, <2>2, <2>3
<1>3. TrueKeys(it) \in [AllKeys -> KeyValue]
  <2>1. TrueKeys(it) = [i \in AllKeys |-> TrueKeys(it)[i]]  BY DEF TrueKeys
  <2>. QED  BY <1>2, <2>1
<1>4. ASSUME NEW k \in KeyValue  PROVE BucketOf(k) \in Bucket
  <2>1. k \in Nat /\ KeysPerBucket \in Nat \ {0} /\ NumBuckets \in Nat \ {0} /\ NumBuckets - 1 \in Nat
        /\ k <= NumBuckets * KeysPerBucket - 1
    BY Constants DEF KeyValue
  <2>2. k <= ((NumBuckets - 1) + 1) * KeysPerBucket - 1  
    <3>1. (NumBuckets - 1) + 1 = NumBuckets  BY <2>1
    <3>. QED  BY <2>1, <3>1
  <2>3. k \div KeysPerBucket <= NumBuckets - 1  BY <2>1, <2>2, Blocks
  <2>4. k \div KeysPerBucket \in Nat  BY <2>1, Division
  <2>. QED  BY <2>1, <2>3, <2>4 DEF BucketOf, Bucket
<1>. QED  BY <1>3, <1>4

(* The bucket of every key in an iteration.                                *)
BucketsIn(it) == [i \in AllKeys |-> BucketOf(TrueKeys(it)[i])]

LEMMA TotalsCount ==
  ASSUME Runs, Rank = ActiveRank, NEW it \in 0 .. MAX_ITERATIONS
  PROVE  Counts(TotalCounts(it), BucketsIn(it))
<1>1. BucketsIn(it) \in [AllKeys -> Bucket]
  BY KeysAre DEF BucketsIn
<1>2. ASSUME NEW x \in Bucket
      PROVE  TotalCounts(it)[x] = Cardinality({i \in AllKeys : BucketsIn(it)[i] = x})
  <2>. DEFINE P == {i \in AllKeys : BucketsIn(it)[i] = x}
              values == [s \in Rank |-> CountsOf(s, it)[x]]
              h == [i \in AllKeys |-> i \div local_key_count]
  <2>1. x \in CountIndex
    <3>1. IsFiniteSet(Test)  BY RunAssumption
    <3>2. Cardinality(Test) \in Nat  BY <3>1, FS_CardinalityType
    <3>. QED  BY <3>2, Constants DEF Bucket, CountIndex
  <2>2. TotalCounts(it)[x] = SumOver(values, Rank)
    BY <2>1 DEF TotalCounts, Sum
  <2>3. ASSUME NEW s \in Rank  PROVE values[s] = Cardinality({i \in P : h[i] = s})
    <3>1. P \in SUBSET AllKeys  OBVIOUS
    <3>2. CountsOf(s, it)[x] = Cardinality({i \in LocalIndex : BucketOf(KeysOf(s, it)[i]) = x})
      BY <2>1 DEF CountsOf, LocalCounts, LocalIndex
    <3>3. \A i \in LocalIndex : BucketOf(KeysOf(s, it)[i]) = x <=> s * local_key_count + i \in P
      <4>1. \A i \in LocalIndex : s * local_key_count + i \in AllKeys
        BY Slices
      <4>. QED  BY <4>1 DEF KeysOf, BucketsIn, LocalIndex
    <3>4. {i \in LocalIndex : BucketOf(KeysOf(s, it)[i]) = x} = {i \in LocalIndex : s * local_key_count + i \in P}
      BY <3>3
    <3>5. Cardinality({i \in LocalIndex : s * local_key_count + i \in P}) = Cardinality(P \cap Slice(s))
      <4>. HIDE DEF P
      <4>. QED  BY <3>1, SliceCount
    <3>6. P \cap Slice(s) = {i \in P : h[i] = s}  BY DEF Slice
    <3>. HIDE DEF P, h
    <3>. QED  BY <3>2, <3>4, <3>5, <3>6
  <2>4. IsFiniteSet(Rank) /\ IsFiniteSet(P)
    <3>1. IsFiniteSet(Rank)  BY JobFacts, FS_Interval DEF Runs, Rank
    <3>2. P \in SUBSET AllKeys  OBVIOUS
    <3>. HIDE DEF P
    <3>. QED  BY <3>1, <3>2, KeysFinite, FS_Subset
  <2>5. SumOver(values, Rank) = Cardinality({i \in P : h[i] \in Rank})
    <3>. HIDE DEF values, h, P
    <3>1. \A s \in Rank : values[s] = Cardinality(Class(P, h, s))  BY <2>3 DEF Class
    <3>2. SumOver(values, Rank) = Cardinality(Within(P, h, Rank))  BY <2>4, <3>1, SumOfClasses
    <3>. QED  BY <3>2 DEF Within
  <2>6. {i \in P : h[i] \in Rank} = P
    BY Slices
  <2>. HIDE DEF h, values
  <2>. QED  BY <2>2, <2>5, <2>6
<1>. QED  BY <1>1, <1>2 DEF Counts

(* A rank that is not the first has buckets when those before it have      *)
(* their quota of keys.                                                    *)
LEMMA QuotaBelow ==
  ASSUME NEW h, NEW g, Counts(g, h), NEW average \in Nat, NEW b \in 0 .. NumBuckets
  PROVE  Owner(g, average)[b] * average <= Cardinality(KeysBelow(h, b))
<1>. DEFINE owner == Owner(g, average)
            P == {m \in 0 .. NumBuckets : owner[m] * average <= Cardinality(KeysBelow(h, m))}
<1>1. owner[0] = 0 /\ \A m \in 0 .. NumBuckets : owner[m] \in Nat
  BY OwnerIs
<1>2. \A m \in Bucket : /\ Cardinality(KeysBelow(h, m)) \in Nat
                        /\ Cardinality(KeysBelow(h, m + 1)) \in Nat
                        /\ Cardinality(KeysBelow(h, m + 1)) >= Cardinality(KeysBelow(h, m))
  <2>. SUFFICES ASSUME NEW m \in Bucket
                PROVE  /\ Cardinality(KeysBelow(h, m)) \in Nat
                       /\ Cardinality(KeysBelow(h, m + 1)) \in Nat
                       /\ Cardinality(KeysBelow(h, m + 1)) >= Cardinality(KeysBelow(h, m))
    OBVIOUS
  <2>1. /\ Cardinality(KeysBelow(h, m)) \in Nat
        /\ Cardinality(KeysBelow(h, m + 1)) = Cardinality(KeysBelow(h, m)) + g[m]
    BY KeysBelowStep
  <2>2. g[m] \in Nat
    <3>1. {i \in AllKeys : h[i] = m} \in SUBSET AllKeys  OBVIOUS
    <3>2. IsFiniteSet({i \in AllKeys : h[i] = m})  BY <3>1, KeysFinite, FS_Subset
    <3>. QED  BY <3>2, FS_CardinalityType DEF Counts
  <2>. QED  BY <2>1, <2>2
<1>3. 0 \in P
  <2>1. 0 \in Bucket  BY Constants DEF Bucket
  <2>. QED  BY <1>1, <1>2, <2>1, Constants
<1>4. \A m \in 0 .. NumBuckets - 1 : m \in P => m + 1 \in P
  <2>. SUFFICES ASSUME NEW m \in 0 .. NumBuckets - 1, m \in P  PROVE m + 1 \in P
    OBVIOUS
  <2>1. m \in Bucket /\ m \in 0 .. NumBuckets /\ m + 1 \in 0 .. NumBuckets
    BY Constants DEF Bucket
  <2>2. owner[m + 1] = owner[m] + IF Cardinality(KeysBelow(h, m + 1)) >= (owner[m] + 1) * average
                                  THEN 1 ELSE 0
    BY <2>1, OwnerIs
  <2>3. owner[m] * average <= Cardinality(KeysBelow(h, m))  OBVIOUS
  <2>4. owner[m] \in Nat /\ owner[m] * average \in Nat  BY <1>1, <2>1
  <2>. HIDE DEF owner
  <2>5. owner[m + 1] * average <= Cardinality(KeysBelow(h, m + 1))
    <3>1. CASE Cardinality(KeysBelow(h, m + 1)) >= (owner[m] + 1) * average
      <4>1. owner[m + 1] = owner[m] + 1  BY <2>2, <3>1
      <4>. QED  BY <1>2, <2>1, <2>4, <3>1, <4>1
    <3>2. CASE ~ (Cardinality(KeysBelow(h, m + 1)) >= (owner[m] + 1) * average)
      <4>1. owner[m + 1] = owner[m]  BY <2>2, <2>4, <3>2
      <4>. QED  BY <1>2, <2>1, <2>3, <2>4, <4>1
    <3>. QED  BY <3>1, <3>2
  <2>. QED  BY <2>1, <2>5
<1>5. b \in P
  <2>. HIDE DEF P
  <2>. QED  BY <1>3, <1>4, UpTo, Constants
<1>. QED  BY <1>5

LEMMA Routes ==
  ASSUME Runs, Rank = ActiveRank, NEW it \in 0 .. MAX_ITERATIONS
  PROVE  /\ Ascends(Route(it))
         /\ Route(it)[NumBuckets - 1] < active_rank_count =>
              Route(it)[NumBuckets] = Route(it)[NumBuckets - 1] + 1
         /\ \A i \in AllKeys : Route(it)[BucketsIn(it)[i]] \in ActiveRank
<1>. DEFINE L == local_key_count
            n == active_rank_count
            g == TotalCounts(it)
            h == BucketsIn(it)
            owner == Owner(g, L)
<1>1. Counts(g, h)  BY TotalsCount
<1>2. L \in Nat \ {0} /\ n \in Nat \ {0} /\ Cardinality(AllKeys) = n * L
  BY Shares, KeysFinite
<1>3. owner = Route(it)  BY DEF Route
<1>4. ActiveRank = 0 .. n - 1  BY DEF ActiveRank
<1>. HIDE DEF L, n, g, h
<1>5. /\ owner[0] = 0 /\ \A b \in 0 .. NumBuckets : owner[b] \in Nat
      /\ \A b \in Bucket :
           owner[b + 1] = owner[b] + IF Cardinality(KeysBelow(h, b + 1)) >= (owner[b] + 1) * L
                                     THEN 1 ELSE 0
  BY <1>1, <1>2, OwnerIs
<1>6. Ascends(owner)
  <2>. HIDE DEF owner
  <2>1. \A b \in Bucket : b \in 0 .. NumBuckets  BY Constants DEF Bucket
  <2>2. \A b \in Bucket : owner[b + 1] \in {owner[b], owner[b] + 1}
    BY <1>5, <2>1
  <2>. QED  BY <1>5, <2>2 DEF Ascends
<1>7. owner[NumBuckets - 1] < n => owner[NumBuckets] = owner[NumBuckets - 1] + 1
  <2>. SUFFICES ASSUME owner[NumBuckets - 1] < n
                PROVE  owner[NumBuckets] = owner[NumBuckets - 1] + 1
    OBVIOUS
  <2>. HIDE DEF owner
  <2>1. NumBuckets - 1 \in Bucket /\ (NumBuckets - 1) + 1 = NumBuckets /\ NumBuckets - 1 \in 0 .. NumBuckets
    BY Constants DEF Bucket
  <2>2. KeysBelow(h, NumBuckets) = AllKeys
    BY <1>1, Constants DEF KeysBelow, Counts, Bucket
  <2>3. owner[NumBuckets - 1] \in Nat  BY <1>5, <2>1
  <2>4. (owner[NumBuckets - 1] + 1) * L <= n * L  BY <1>2, <2>3
  <2>. QED  BY <1>2, <1>5, <2>1, <2>2, <2>4
<1>8. ASSUME NEW i \in AllKeys  PROVE owner[h[i]] \in ActiveRank
  <2>1. h[i] \in Bucket  BY <1>1 DEF Counts
  <2>2. h[i] \in 0 .. NumBuckets  BY <2>1, Constants DEF Bucket
  <2>3. owner[h[i]] * L <= Cardinality(KeysBelow(h, h[i]))
    BY <1>1, <1>2, <2>2, QuotaBelow
  <2>4. Cardinality(KeysBelow(h, h[i])) \in Nat /\ Cardinality(KeysBelow(h, h[i])) < n * L
    <3>1. KeysBelow(h, h[i]) \in SUBSET AllKeys /\ KeysBelow(h, h[i]) # AllKeys
      BY <2>2 DEF KeysBelow
    <3>2. /\ IsFiniteSet(KeysBelow(h, h[i]))
          /\ Cardinality(KeysBelow(h, h[i])) <= Cardinality(AllKeys)
          /\ Cardinality(KeysBelow(h, h[i])) # Cardinality(AllKeys)
      BY <3>1, KeysFinite, FS_Subset
    <3>3. Cardinality(KeysBelow(h, h[i])) \in Nat  BY <3>2, FS_CardinalityType
    <3>4. n * L \in Nat  BY <1>2
    <3>. QED  BY <1>2, <3>2, <3>3, <3>4
  <2>5. PICK r \in Nat : r = owner[h[i]]
    BY <1>5, <2>2
  <2>6. r * L < n * L
    <3>1. r * L \in Nat /\ n * L \in Nat  BY <1>2
    <3>. QED  BY <2>3, <2>4, <2>5, <3>1
  <2>7. r < n
    <3>1. SUFFICES ASSUME n <= r  PROVE n * L <= r * L
      BY <1>2, <2>6
    <3>. QED  BY <1>2, <3>1
  <2>. QED  BY <1>2, <1>4, <2>5, <2>7
<1>. QED  BY <1>3, <1>6, <1>7, <1>8 DEF h, n

LEMMA PlanIs ==
  ASSUME Runs, Rank = ActiveRank, NEW it \in 0 .. MAX_ITERATIONS, NEW d \in ActiveRank
  PROVE  LET p == Plan(TotalCounts(it), d)
         IN  /\ \A b \in Bucket : p.bucket_to_rank[b] = Route(it)[b]
             /\ p.expected_recv_count = Cardinality(ForRank(d, it))
             /\ p.min_key_value \in Nat /\ p.max_key_value \in Int
             /\ \A k \in p.min_key_value .. p.max_key_value :
                  k \in KeyValue /\ Route(it)[BucketOf(k)] = d
<1>. DEFINE p == Plan(TotalCounts(it), d)
            g == TotalCounts(it)
            h == BucketsIn(it)
            owner == Route(it)
            I == Interval(owner, d)
            F == FirstBucket(owner, d)
            L == LastBucket(owner, d)
<1>1. /\ p.bucket_to_rank = [b \in Bucket |-> owner[b]]
      /\ p.min_key_value = F * KeysPerBucket
      /\ p.max_key_value = (L + 1) * KeysPerBucket - 1
      /\ p.expected_recv_count = SumOver(g, I)
  <2>1. d \in 0 .. d  BY JobFacts DEF Runs, ActiveRank
  <2>. QED  BY <2>1 DEF Plan, Route
<1>2. /\ I = {b \in Bucket : owner[b] = d} /\ F \in Nat /\ L \in Bucket
  <2>1. active_rank_count \in Nat \ {0} /\ d \in 0 .. active_rank_count - 1
    BY Shares DEF ActiveRank
  <2>. QED  BY <2>1, Routes, Intervals
<1>3. Counts(g, h)  BY TotalsCount
<1>. HIDE DEF p, g, I, F, L
<1>4. SumOver(g, I) = Cardinality(ForRank(d, it))
  <2>1. IsFiniteSet(I)
    <3>1. I \in SUBSET Bucket  BY <1>2
    <3>. QED  BY <3>1, KeysFinite, FS_Subset
  <2>2. \A b \in I : g[b] = Cardinality(Class(AllKeys, h, b))
    BY <1>2, <1>3 DEF Counts, Class
  <2>3. SumOver(g, I) = Cardinality(Within(AllKeys, h, I))
    <3>. HIDE DEF h
    <3>. QED  BY <2>1, <2>2, KeysFinite, SumOfClasses
  <2>4. Within(AllKeys, h, I) = ForRank(d, it)
    <3>1. \A i \in AllKeys : h[i] = BucketOf(TrueKeys(it)[i]) /\ h[i] \in Bucket
      BY KeysAre DEF BucketsIn
    <3>. HIDE DEF h, owner
    <3>. QED  BY <1>2, <3>1 DEF Within, ForRank, owner
  <2>. QED  BY <2>3, <2>4
<1>5. ASSUME NEW k \in p.min_key_value .. p.max_key_value
      PROVE  k \in KeyValue /\ owner[BucketOf(k)] = d
  <2>0. KeysPerBucket \in Nat \ {0} /\ NumBuckets \in Nat \ {0} /\ L \in Nat /\ L + 1 <= NumBuckets
        /\ NumBuckets * KeysPerBucket = MAX_KEY
    BY <1>2, Constants DEF Bucket
  <2>1. F * KeysPerBucket \in Nat /\ (L + 1) * KeysPerBucket - 1 \in Int
    BY <1>2, <2>0
  <2>2. k \in Nat /\ F * KeysPerBucket <= k /\ k <= (L + 1) * KeysPerBucket - 1
    BY <1>1, <2>1
  <2>3. F <= k \div KeysPerBucket /\ k \div KeysPerBucket <= L
    BY <1>2, <2>0, <2>2, Blocks
  <2>4. k \div KeysPerBucket \in Nat  BY <2>0, <2>2, Division
  <2>5. (L + 1) * KeysPerBucket <= NumBuckets * KeysPerBucket
    BY <2>0
  <2>6. k \in KeyValue  BY <2>0, <2>2, <2>5 DEF KeyValue
  <2>7. BucketOf(k) \in F .. L
    BY <1>2, <2>0, <2>3, <2>4 DEF BucketOf
  <2>8. BucketOf(k) \in I
    BY <2>7 DEF Interval, I, F, L
  <2>. QED  BY <1>2, <2>6, <2>8
<1>6. p.min_key_value \in Nat /\ p.max_key_value \in Int
  <2>1. KeysPerBucket \in Nat /\ L \in Nat  BY <1>2, Constants DEF Bucket
  <2>. QED  BY <1>1, <1>2, <2>1
<1>7. \A b \in Bucket : p.bucket_to_rank[b] = owner[b]
  BY <1>1
<1>. QED  BY <1>1, <1>4, <1>5, <1>6, <1>7 DEF p, g

-----------------------------------------------------------------------------
(* A rank's part.                                                          *)
LEMMA ChangesAre ==
  ASSUME Runs, NEW r \in ActiveRank, NEW it \in Iteration, NEW prev \in {it - 1, it},
         keys[r] = [i \in Slot |-> keys[r][i]],
         \A i \in LocalIndex : keys[r][i] = KeysOf(r, prev)[i]
  PROVE  \A i \in LocalIndex : ChangedKeys(r, it)[i] = KeysOf(r, it)[i]
<1>0. /\ MAX_ITERATIONS \in Nat \ {0} /\ local_key_count \in Nat
      /\ 2 * MAX_ITERATIONS < local_key_count /\ local_key_count <= WorkBufferSize
      /\ it \in Nat /\ 1 <= it /\ it <= MAX_ITERATIONS /\ WorkBufferSize \in Nat
  BY Shares, Constants DEF Iteration
<1>1. ASSUME NEW k \in Int, NEW i \in LocalIndex
      PROVE  /\ r * local_key_count + i \in AllKeys
             /\ KeysOf(r, k)[i] = TrueKeys(k)[r * local_key_count + i]
  BY Slices DEF KeysOf, LocalIndex
<1>2. prev \in Int /\ it \in Int  BY <1>0
<1>3. CASE r # 0
  <2>. SUFFICES ASSUME NEW i \in LocalIndex  PROVE KeysOf(r, prev)[i] = KeysOf(r, it)[i]
    BY <1>3 DEF ChangedKeys
  <2>1. PICK x : x = r * local_key_count + i  OBVIOUS
  <2>2. x \in AllKeys /\ x >= local_key_count
    <3>1. r \in Nat /\ r >= 1  BY <1>3, Shares DEF ActiveRank
    <3>2. r * local_key_count >= local_key_count  BY <1>0, <3>1
    <3>3. r * local_key_count \in Nat /\ i \in Nat  BY <1>0, <3>1 DEF LocalIndex
    <3>4. x \in AllKeys  BY <1>1, <1>2, <2>1
    <3>. QED  BY <1>0, <2>1, <3>2, <3>3, <3>4
  <2>3. x \in Nat  BY <2>2, Constants DEF AllKeys
  <2>4. \A k \in {prev, it} : x \notin 1 .. k /\ x - MAX_ITERATIONS \notin 1 .. k
    BY <1>0, <2>2, <2>3
  <2>5. TrueKeys(prev)[x] = generated[x] /\ TrueKeys(it)[x] = generated[x]
    BY <2>2, <2>4 DEF TrueKeys
  <2>. QED  BY <1>1, <1>2, <2>1, <2>5
<1>4. CASE r = 0
  <2>. SUFFICES ASSUME NEW i \in LocalIndex  PROVE ChangedKeys(r, it)[i] = KeysOf(r, it)[i]
    OBVIOUS
  <2>1. i \in Nat /\ i < local_key_count /\ i \in Slot /\ r * local_key_count + i = i
    BY <1>0, <1>4 DEF LocalIndex, Slot
  <2>2. i \in AllKeys /\ \A k \in {prev, it} : KeysOf(r, k)[i] = TrueKeys(k)[i]
    BY <1>1, <1>2, <2>1
  <2>3. /\ ChangedKeys(r, it) = [keys[r] EXCEPT ![it] = it, ![it + MAX_ITERATIONS] = MAX_KEY - it]
        /\ it \in Slot /\ it + MAX_ITERATIONS \in Slot /\ it # it + MAX_ITERATIONS
    BY <1>0, <1>4 DEF ChangedKeys, Slot
  <2>4. CASE i = it
    <3>1. ChangedKeys(r, it)[i] = it  BY <2>1, <2>3, <2>4
    <3>2. TrueKeys(it)[i] = it  BY <1>0, <2>2, <2>4 DEF TrueKeys
    <3>. QED  BY <2>2, <3>1, <3>2
  <2>5. CASE i = it + MAX_ITERATIONS
    <3>1. ChangedKeys(r, it)[i] = MAX_KEY - it  BY <2>1, <2>3, <2>5
    <3>2. i \notin 1 .. it /\ i - MAX_ITERATIONS = it /\ i - MAX_ITERATIONS \in 1 .. it
      BY <1>0, <2>5
    <3>3. TrueKeys(it)[i] = MAX_KEY - it  BY <2>2, <3>2 DEF TrueKeys
    <3>. QED  BY <2>2, <3>1, <3>3
  <2>6. CASE i # it /\ i # it + MAX_ITERATIONS
    <3>1. ChangedKeys(r, it)[i] = keys[r][i]  BY <2>1, <2>3, <2>6
    <3>2. (i \in 1 .. prev <=> i \in 1 .. it)
          /\ (i - MAX_ITERATIONS \in 1 .. prev <=> i - MAX_ITERATIONS \in 1 .. it)
      BY <1>0, <2>1, <2>6
    <3>3. TrueKeys(prev)[i] = TrueKeys(it)[i]  BY <2>2, <3>2 DEF TrueKeys
    <3>. QED  BY <2>2, <3>1, <3>3
  <2>. QED  BY <2>4, <2>5, <2>6
<1>. QED  BY <1>3, <1>4

LEMMA SameCounts ==
  ASSUME Runs, NEW r \in ActiveRank, NEW it, NEW ks,
         \A i \in LocalIndex : ks[i] = KeysOf(r, it)[i]
  PROVE  LocalCounts(r, ks) = CountsOf(r, it)
<1>1. ASSUME NEW x \in CountIndex  PROVE LocalCounts(r, ks)[x] = LocalCounts(r, KeysOf(r, it))[x]
  <2>1. CASE x \in Bucket
    <3>1. {i \in LocalIndex : BucketOf(ks[i]) = x} = {i \in LocalIndex : BucketOf(KeysOf(r, it)[i]) = x}
      OBVIOUS
    <3>. QED  BY <2>1, <3>1 DEF LocalCounts, LocalIndex
  <2>2. CASE x \notin Bucket
    <3>1. x - NumBuckets \in Test
      <4>1. IsFiniteSet(Test) /\ Test = 0 .. Cardinality(Test) - 1  BY RunAssumption
      <4>2. Cardinality(Test) \in Nat  BY <4>1, FS_CardinalityType
      <4>. QED  BY <2>2, <4>1, <4>2, Constants DEF CountIndex, Bucket
    <3>2. TestIndex[x - NumBuckets] % local_key_count \in LocalIndex
      BY <3>1, RunAssumption, Slices
    <3>. QED  BY <2>2, <3>2 DEF LocalCounts, HiddenKey
  <2>. QED  BY <2>1, <2>2
<1>. QED  BY <1>1 DEF CountsOf, LocalCounts

LEMMA ForParts ==
  ASSUME Runs
  PROVE  /\ \A s, d, it : For(s, d, it) = ForRank(d, it) \cap Slice(s)
         /\ \A d, it : \A i \in ForRank(d, it) : \E s \in ActiveRank : i \in For(s, d, it)
         /\ \A s, d, it : For(s, d, it) \in SUBSET AllKeys /\ ForRank(d, it) \in SUBSET AllKeys
<1>1. \A s, d, it : For(s, d, it) = ForRank(d, it) \cap Slice(s)
  BY DEF For, ForRank, Slice
<1>2. ASSUME NEW d, NEW it, NEW i \in ForRank(d, it)
      PROVE  \E s \in ActiveRank : i \in For(s, d, it)
  <2>1. i \in AllKeys  BY DEF ForRank
  <2>2. i \div local_key_count \in ActiveRank /\ i \in Slice(i \div local_key_count)
    BY <2>1, Slices DEF Slice
  <2>. QED  BY <1>1, <2>2
<1>3. \A s, d, it : For(s, d, it) \in SUBSET AllKeys /\ ForRank(d, it) \in SUBSET AllKeys
  BY DEF For, ForRank, Slice
<1>. QED  BY <1>1, <1>2, <1>3

(* Rank r holds the keys and the route of iteration it.                    *)
HoldsIteration(r, it) ==
  /\ \A i \in LocalIndex : keys[r][i] = KeysOf(r, it)[i]
  /\ \A b \in Bucket : plan[r].bucket_to_rank[b] = Route(it)[b]

(* The counts of the keys that rank s has for rank d in iteration it.      *)
CountsFor(s, d, it) ==
  [k \in KeyValue |-> Cardinality({i \in For(s, d, it) : TrueKeys(it)[i] = k})]

LEMMA PostedIs ==
  ASSUME Runs, NEW r \in ActiveRank, NEW d, NEW it \in 0 .. MAX_ITERATIONS,
         HoldsIteration(r, it)
  PROVE  Posted(r, d) = CountsFor(r, d, it)
<1>. USE DEF HoldsIteration, CountsFor
<1>1. ASSUME NEW k \in KeyValue
      PROVE  Posted(r, d)[k] = Cardinality({i \in For(r, d, it) : TrueKeys(it)[i] = k})
  <2>. DEFINE P == {i \in ForRank(d, it) : TrueKeys(it)[i] = k}
              mine == {i \in LocalIndex : plan[r].bucket_to_rank[BucketOf(keys[r][i])] = d}
  <2>1. Posted(r, d)[k] = Cardinality({i \in mine : keys[r][i] = k})
    BY DEF Posted, LocalIndex
  <2>2. P \in SUBSET AllKeys  BY DEF ForRank
  <2>3. ASSUME NEW i \in LocalIndex
        PROVE  i \in mine /\ keys[r][i] = k <=> r * local_key_count + i \in P
    <3>1. PICK x : x = r * local_key_count + i  OBVIOUS
    <3>2. x \in AllKeys /\ keys[r][i] = TrueKeys(it)[x]
      BY <3>1, Slices DEF KeysOf, LocalIndex
    <3>3. BucketOf(TrueKeys(it)[x]) \in Bucket  BY <3>2, KeysAre
    <3>. QED  BY <3>1, <3>2, <3>3 DEF ForRank
  <2>4. {i \in mine : keys[r][i] = k} = {i \in LocalIndex : r * local_key_count + i \in P}
    BY <2>3
  <2>5. Cardinality({i \in LocalIndex : r * local_key_count + i \in P}) = Cardinality(P \cap Slice(r))
    <3>. HIDE DEF P
    <3>. QED  BY <2>2, SliceCount
  <2>6. P \cap Slice(r) = {i \in For(r, d, it) : TrueKeys(it)[i] = k}
    BY ForParts
  <2>. HIDE DEF P, mine
  <2>. QED  BY <2>1, <2>4, <2>5, <2>6
<1>2. Posted(r, d) = [k \in KeyValue |-> Posted(r, d)[k]]
  BY DEF Posted
<1>. QED  BY <1>1, <1>2

LEMMA SizeIs ==
  ASSUME Runs, NEW s, NEW d, NEW p \in Pass
  PROVE  Size(MessageIn(p, s, d)) = Cardinality(For(s, d, IterationIn(p)))
<1>. DEFINE it == IterationIn(p)
            A == For(s, d, it)
            h == TrueKeys(it)
            values == MessageIn(p, s, d).keys
<1>0. it \in 0 .. MAX_ITERATIONS
  BY Constants DEF IterationIn, Pass
<1>1. \A k \in KeyValue : values[k] = Cardinality(Class(A, h, k))
  BY DEF MessageIn, Class
<1>2. IsFiniteSet(A)
  BY ForParts, KeysFinite, FS_Subset
<1>3. Within(A, h, KeyValue) = A
  <2>1. \A i \in A : i \in AllKeys  BY ForParts
  <2>. QED  BY <1>0, <2>1, KeysAre DEF Within
<1>4. Size(MessageIn(p, s, d)) = SumOver(values, KeyValue)
  BY DEF Size
<1>5. SumOver(values, KeyValue) = Cardinality(Within(A, h, KeyValue))
  <2>. HIDE DEF A, h, values
  <2>. QED  BY <1>1, <1>2, KeysFinite, SumOfClasses
<1>. HIDE DEF A, h, values
<1>. QED  BY <1>3, <1>4, <1>5 DEF A

-----------------------------------------------------------------------------
(* What the ranks give to the collectives and get from them.               *)
LEMMA DataStays ==
  ASSUME UNCHANGED job
  PROVE  /\ (Runs <=> Runs') /\ local_key_count' = local_key_count /\ LocalIndex' = LocalIndex
         /\ active_rank_count' = active_rank_count
         /\ \A it : TrueKeys(it)' = TrueKeys(it) /\ TotalCounts(it)' = TotalCounts(it)
                    /\ Route(it)' = Route(it)
         /\ \A r, it : KeysOf(r, it)' = KeysOf(r, it) /\ CountsOf(r, it)' = CountsOf(r, it)
                       /\ ForRank(r, it)' = ForRank(r, it)
         /\ \A s, d, it : For(s, d, it)' = For(s, d, it)
         /\ \A p, s, d : MessageIn(p, s, d)' = MessageIn(p, s, d)
         /\ \A g, r : Plan(g, r)' = Plan(g, r)
         /\ \A r, ks : LocalCounts(r, ks)' = LocalCounts(r, ks)
<1>1. generated' = generated /\ rank_count' = rank_count
  BY DEF job
<1>2. active_rank_count' = active_rank_count  BY <1>1 DEF active_rank_count
<1>3. local_key_count' = local_key_count  BY <1>2 DEF local_key_count
<1>4. Rank' = Rank  BY JobStays
<1>5. LocalIndex' = LocalIndex  BY <1>3 DEF LocalIndex
<1>6. ASSUME NEW it  PROVE TrueKeys(it)' = TrueKeys(it)
  BY <1>1 DEF TrueKeys
<1>7. ASSUME NEW r, NEW ks  PROVE LocalCounts(r, ks)' = LocalCounts(r, ks)
  BY <1>3 DEF LocalCounts, HiddenKey
<1>8. ASSUME NEW r, NEW it  PROVE KeysOf(r, it)' = KeysOf(r, it) /\ CountsOf(r, it)' = CountsOf(r, it)
  <2>1. KeysOf(r, it)' = KeysOf(r, it)  BY <1>3, <1>6 DEF KeysOf
  <2>. QED  BY <1>3, <2>1 DEF CountsOf, LocalCounts, HiddenKey
<1>9. ASSUME NEW it  PROVE TotalCounts(it)' = TotalCounts(it)
  BY <1>4, <1>8 DEF TotalCounts, Sum
<1>10. ASSUME NEW it  PROVE Route(it)' = Route(it)
  BY <1>3, <1>9 DEF Route
<1>11. ASSUME NEW s, NEW d, NEW it
       PROVE  For(s, d, it)' = For(s, d, it) /\ ForRank(d, it)' = ForRank(d, it)
  BY <1>3, <1>6, <1>10 DEF For, ForRank, Slice
<1>12. ASSUME NEW p, NEW s, NEW d  PROVE MessageIn(p, s, d)' = MessageIn(p, s, d)
  BY <1>6, <1>11 DEF MessageIn
<1>13. ASSUME NEW g, NEW r  PROVE Plan(g, r)' = Plan(g, r)
  BY <1>3 DEF Plan
<1>14. Runs <=> Runs'
  BY <1>1, JobStays DEF Runs, JobInv, job, InRange
<1>. QED  BY <1>2, <1>3, <1>5, <1>6, <1>7, <1>8, <1>9, <1>10, <1>11, <1>12, <1>13, <1>14

LEMMA AllActive ==
  ASSUME Control, NEW r \in Rank, pc[r] \in Iterating \cup {"begin"} \cup Ending
  PROVE  Runs /\ Rank = ActiveRank
<1>1. JobInv /\ ControlInv /\ BarrierInv  BY DEF Control
<1>2. /\ r \in ActiveRank /\ Len(calls[r]) = CallNumber(pc[r], PassOf(r)) /\ InRange
      /\ PassOf(r) \in Nat /\ (pc[r] = "begin" => PassOf(r) >= 1)
  <2>1. pc[r] \notin {"start", "strict", "done"}  BY DEF Iterating, Ending
  <2>. QED  BY <2>1, Here, Constants DEF Iteration
<1>3. Offset \in {0, 1}  BY <1>1, JobFacts
<1>4. CallNumber("generated", 0) = Offset + 4 /\ Script(CallNumber("generated", 0)) = "generated"
  BY <1>1, Numbers, ScriptAt
<1>5. Len(calls[r]) \in Nat /\ Len(calls[r]) >= Offset + 5
  <2>1. CASE pc[r] = "begin"
    <3>1. Place(pc[r]) = 4  BY <2>1 DEF Place, Receiving
    <3>. QED  BY <1>2, <1>3, <2>1, <3>1 DEF CallNumber
  <2>2. CASE pc[r] \in Iterating
    <3>1. Place(pc[r]) \in {5, 6, 7}  BY <2>2 DEF Iterating, Place, Receiving
    <3>2. PICK y \in 5 .. 7 : y = Place(pc[r])  BY <3>1
    <3>3. PICK p \in Nat, o \in {0, 1} : p = PassOf(r) /\ o = Offset  BY <1>2, <1>3
    <3>4. Len(calls[r]) = o + y + 4 * p  BY <1>2, <3>2, <3>3 DEF CallNumber
    <3>5. o + y + 4 * p \in Nat /\ o + y + 4 * p >= o + 5  BY ONLY <3>2, <3>3
    <3>. QED  BY ONLY <3>3, <3>4, <3>5
  <2>3. CASE pc[r] \in Ending
    <3>1. Place(pc[r]) \in 8 .. 12  BY <2>3 DEF Ending, Place, Receiving
    <3>2. PICK y \in 8 .. 12 : y = Place(pc[r])  BY <3>1
    <3>3. PICK p \in Nat, o \in {0, 1} : p = PassOf(r) /\ o = Offset  BY <1>2, <1>3
    <3>4. Len(calls[r]) = o + y + 4 * p  BY <1>2, <3>2, <3>3 DEF CallNumber
    <3>5. o + y + 4 * p \in Nat /\ o + y + 4 * p >= o + 5  BY ONLY <3>2, <3>3
    <3>. QED  BY ONLY <3>3, <3>4, <3>5
  <2>. QED  BY <2>1, <2>2, <2>3
<1>6. \A s \in Rank : Len(calls[s]) >= CallNumber("generated", 0)
  <2>1. CallNumber("generated", 0) \in 1 .. Len(calls[r]) - 1  BY <1>3, <1>4, <1>5
  <2>. QED  BY <1>1, <1>4, <2>1 DEF BarrierInv
<1>7. ASSUME NEW s \in Rank  PROVE s \in ActiveRank
  <2>1. Len(calls[s]) > 1
    <3>1. Len(calls[s]) \in Nat  BY DEF Control, TypeOK, IsSequence
    <3>. QED  BY <1>3, <1>4, <1>6, <3>1
  <2>. QED  BY <1>1, <2>1 DEF ControlInv, ControlOf
<1>8. Rank = ActiveRank  BY <1>1, <1>7, JobFacts
<1>. QED  BY <1>1, <1>2, <1>8 DEF Runs

LEMMA Whereabouts ==
  ASSUME Control, NEW r \in Rank, NEW p \in Pass, Len(calls[r]) = CallNumber("handler", p)
  PROVE  pc[r] \in Receiving /\ PassOf(r) = p
<1>1. JobInv /\ ControlOf(r) /\ pc[r] \in Points  BY DEF Control, ControlInv, TypeOK
<1>2. Offset \in {0, 1} /\ MAX_ITERATIONS \in Nat \ {0} /\ p \in Nat /\ p <= MAX_ITERATIONS
  BY <1>1, JobFacts, Constants DEF Pass
<1>3. CallNumber("handler", p) = Offset + 7 + 4 * p  BY <1>1, <1>2, Numbers
<1>4. pc[r] \notin {"start", "strict", "done"}
  <2>1. pc[r] # "start"
    <3>1. Len(<< >>) = 0  OBVIOUS
    <3>. QED  BY <1>1, <1>2, <1>3, <3>1 DEF ControlOf
  <2>2. pc[r] # "strict"  BY <1>1, <1>2, <1>3 DEF ControlOf
  <2>3. pc[r] # "done"
    <3>1. CallNumber("passed", MAX_ITERATIONS) = Offset + 9 + 4 * MAX_ITERATIONS
      BY <1>1, <1>2, Numbers
    <3>. QED  BY <1>1, <1>2, <1>3, <3>1 DEF ControlOf
  <2>. QED  BY <2>1, <2>2, <2>3
<1>5. PICK x \in Nat : x = PassOf(r) /\ (pc[r] \in Setup => x = 0) /\ (pc[r] \in Ending => x = MAX_ITERATIONS)
  BY <1>4, Here
<1>6. Len(calls[r]) = CallNumber(pc[r], x)
  BY <1>4, <1>5, Here
<1>7. pc[r] \in Setup \cup {"begin", "sizes", "totals"} \cup Receiving \cup Ending
  BY <1>1, <1>4 DEF Points, Setup, Iterating, Receiving, Ending
<1>8. pc[r] \notin Setup
  <2>. SUFFICES ASSUME pc[r] \in Setup  PROVE FALSE
    OBVIOUS
  <2>1. x = 0  BY <1>5
  <2>2. Place(pc[r]) \in 1 .. 4  BY DEF Setup, Place, Receiving
  <2>3. Len(calls[r]) <= Offset + 4
    BY <1>2, <1>6, <2>1, <2>2 DEF CallNumber
  <2>. QED  BY <1>2, <1>3, <2>3
<1>9. pc[r] \notin Ending
  <2>. SUFFICES ASSUME pc[r] \in Ending  PROVE FALSE
    OBVIOUS
  <2>1. x = MAX_ITERATIONS  BY <1>5
  <2>2. Len(calls[r]) >= Offset + 8 + 4 * MAX_ITERATIONS
    BY <1>2, <1>6, <2>1, SMTT(30) DEF CallNumber, Place, Ending, Receiving
  <2>. QED  BY <1>2, <1>3, <2>2
<1>10. pc[r] \notin {"begin", "sizes", "totals"}
  <2>1. /\ CallNumber("begin", x) = Offset + 4 + 4 * x /\ CallNumber("sizes", x) = Offset + 5 + 4 * x
        /\ CallNumber("totals", x) = Offset + 6 + 4 * x
    BY <1>1, Numbers
  <2>. QED  BY <1>2, <1>3, <1>6, <2>1
<1>11. pc[r] \in Receiving  BY <1>7, <1>8, <1>9, <1>10
<1>12. x = p
  <2>1. CallNumber(pc[r], x) = Offset + 7 + 4 * x
    <3>1. CallNumber("handler", x) = Offset + 7 + 4 * x /\ CallNumber("exchange", x) = Offset + 7 + 4 * x
      BY <1>1, Numbers
    <3>. QED  BY <1>11, <3>1 DEF Receiving
  <2>. QED  BY <1>2, <1>3, <1>6, <2>1
<1>. QED  BY <1>5, <1>11, <1>12

LEMMA ValueKept ==
  ASSUME Control, Control', ValueInv, UNCHANGED job, NEW q \in Rank, NEW call, NEW value,
         Enter(q, call, value),
         call = "sizes" => value = CountsOf(q, IterationIn(PassOf(q)')),
         call = "totals" /\ q = 0 => value = TotalCounts(IterationIn(PassOf(q)'))
  PROVE  ValueInv'
<1>0. /\ Rank' = Rank /\ ActiveRank' = ActiveRank /\ Offset' = Offset
      /\ \A k : Script(k)' = Script(k)
      /\ \A point, p : CallNumber(point, p)' = CallNumber(point, p)
      /\ \A r, it : CountsOf(r, it)' = CountsOf(r, it)
      /\ \A it : TotalCounts(it)' = TotalCounts(it)
  BY JobStays, DataStays, Zenon
<1>1. JobInv /\ TypeOK /\ Offset \in {0, 1} /\ 0 \in Rank /\ ActiveRank \subseteq Rank
  BY JobFacts DEF Control
<1>2. Longer(q, call, value) /\ pc'[q] = call
  BY <1>1, Entering DEF TypeOK
<1>3. \A r \in Rank : Len(calls[r]) \in Nat
  BY <1>1 DEF TypeOK, IsSequence
<1>4. ASSUME NEW point \in {"sizes", "totals"}, NEW p \in Pass, NEW r \in Rank,
             Len(calls'[r]) >= CallNumber(point, p)
      PROVE  \/ /\ Len(calls[r]) >= CallNumber(point, p)
                /\ calls'[r][CallNumber(point, p)] = calls[r][CallNumber(point, p)]
             \/ /\ r = q /\ call = point /\ p = PassOf(q)'
                /\ calls'[r][CallNumber(point, p)].value = value
  <2>1. p \in Nat  BY Constants DEF Pass
  <2>2. CallNumber(point, p) \in Nat /\ CallNumber(point, p) >= 1
    BY <1>1, <2>1 DEF CallNumber, Place, Receiving
  <2>3. CASE Len(calls[r]) >= CallNumber(point, p)
    <3>1. CallNumber(point, p) \in 1 .. Len(calls[r])  BY <1>3, <2>2, <2>3
    <3>2. calls'[r][CallNumber(point, p)] = calls[r][CallNumber(point, p)]
      BY <1>2, <3>1 DEF Longer
    <3>. QED  BY <2>3, <3>2
  <2>4. CASE ~ (Len(calls[r]) >= CallNumber(point, p))
    <3>1. r = q  BY <1>2, <1>4, <2>4 DEF Longer
    <3>2. CallNumber(point, p) = Len(calls[q]) + 1 /\ Len(calls'[q]) = CallNumber(point, p)
      BY <1>2, <1>3, <1>4, <2>2, <2>4, <3>1 DEF Longer
    <3>3. calls'[q][CallNumber(point, p)] = [call |-> call, value |-> value]
      BY <1>2, <3>2 DEF Longer
    <3>4. ControlOf(q)'  BY <1>0 DEF Control, ControlInv
    <3>5. call = Script(CallNumber(point, p))
      <4>1. CallNumber(point, p) \in 1 .. Len(calls'[q])  BY <2>2, <3>2
      <4>2. calls'[q][CallNumber(point, p)].call = Script(CallNumber(point, p))
        BY <1>0, <3>4, <4>1 DEF ControlOf
      <4>. QED  BY <3>3, <4>2
    <3>6. call = point  BY <1>1, <3>5, ScriptAt
    <3>7. Len(calls'[q]) = CallNumber(call, PassOf(q)')
      <4>1. Len(calls'[q]) = CallNumber(pc'[q], PassOf(q)')
        BY <1>0, <1>2, <3>4, <3>6 DEF ControlOf
      <4>. QED  BY <1>2, <4>1
    <3>8. p = PassOf(q)'
      <4>1. PassOf(q)' \in Nat
        <5>1. current_iteration'[q] \in 0 .. MAX_ITERATIONS  BY <1>0 DEF Control, TypeOK
        <5>. QED  BY <5>1, Constants DEF PassOf
      <4>2. PICK x \in Nat : x = PassOf(q)'  BY <4>1
      <4>3. CallNumber(point, p) = CallNumber(point, x)  BY <3>2, <3>6, <3>7, <4>2
      <4>4. Place(point) \in Nat  BY DEF Place, Receiving
      <4>5. Offset + Place(point) + 4 * p = Offset + Place(point) + 4 * x
        BY <4>3 DEF CallNumber
      <4>. QED  BY <1>1, <2>1, <4>2, <4>4, <4>5
    <3>. QED  BY <3>1, <3>3, <3>6, <3>8
  <2>. QED  BY <2>3, <2>4
<1>5. ASSUME NEW p \in Pass, NEW r \in ActiveRank, Len(calls'[r]) >= CallNumber("sizes", p)
      PROVE  calls'[r][CallNumber("sizes", p)].value = CountsOf(r, IterationIn(p))
  <2>1. r \in Rank  BY <1>1
  <2>2. CASE /\ Len(calls[r]) >= CallNumber("sizes", p)
             /\ calls'[r][CallNumber("sizes", p)] = calls[r][CallNumber("sizes", p)]
    BY <2>2 DEF ValueInv
  <2>3. CASE /\ r = q /\ call = "sizes" /\ p = PassOf(q)'
             /\ calls'[r][CallNumber("sizes", p)].value = value
    BY <2>3
  <2>. QED  BY <1>4, <1>5, <2>1, <2>2, <2>3
<1>6. ASSUME NEW p \in Pass, Len(calls'[0]) >= CallNumber("totals", p)
      PROVE  calls'[0][CallNumber("totals", p)].value = TotalCounts(IterationIn(p))
  <2>2. CASE /\ Len(calls[0]) >= CallNumber("totals", p)
             /\ calls'[0][CallNumber("totals", p)] = calls[0][CallNumber("totals", p)]
    BY <2>2 DEF ValueInv
  <2>3. CASE /\ 0 = q /\ call = "totals" /\ p = PassOf(q)'
             /\ calls'[0][CallNumber("totals", p)].value = value
    BY <2>3
  <2>. QED  BY <1>1, <1>4, <1>6, <2>2, <2>3
<1>7. \A p \in Pass : IterationIn(p)' = IterationIn(p)  BY DEF IterationIn
<1>. QED  BY <1>0, <1>5, <1>6 DEF ValueInv, IterationIn

(* What the step of rank q leaves to the other ranks.                      *)
AloneData(q) ==
  \A r \in Rank \ {q} :
    /\ keys'[r] = keys[r] /\ global'[r] = global[r] /\ plan'[r] = plan[r]
    /\ frequency'[r] = frequency[r] /\ phase'[r] = phase[r] /\ active'[r] = active[r]
    /\ recv_count'[r] = recv_count[r]

LEMMA DataAlone ==
  ASSUME TypeOK, NEW q \in Rank, RankStep(q)
  PROVE  AloneData(q)
<1>1. TypeData  BY TypeParts
<1>2. ASSUME UNCHANGED <<keys, counts, exchange>>  PROVE AloneData(q)
  BY <1>2 DEF AloneData, counts, exchange
<1>3. CASE LeaveTimeron(q)
  BY <1>1, <1>3 DEF TypeData, OfRanks, AloneData, counts, exchange, LeaveTimeron, GenerateKeys
<1>4. ASSUME NEW it, OrganizeKeys(q, it), UNCHANGED <<plan, exchange>>
      PROVE  AloneData(q)
  BY <1>1, <1>4 DEF TypeData, OfRanks, AloneData, exchange, OrganizeKeys, Set
<1>5. CASE LeaveSizes(q)
  BY <1>1, <1>5 DEF TypeData, OfRanks, AloneData, exchange, LeaveSizes, Set
<1>6. CASE LeaveTotals(q)
  <2>. DEFINE p == Plan(Value(0, q), q)
  <2>2. PICK f, x, g : f = ClearFrequencyRange(q, p) /\ x = p /\ g = Value(0, q)
    OBVIOUS
  <2>3. /\ global' = [global EXCEPT ![q] = g] /\ plan' = [plan EXCEPT ![q] = x]
        /\ frequency' = [frequency EXCEPT ![q] = f]
        /\ active' = [active EXCEPT ![q] = TRUE] /\ phase' = [phase EXCEPT ![q] = @ + 1]
        /\ recv_count' = [recv_count EXCEPT ![q] = 0] /\ UNCHANGED keys
    BY <1>6, <2>2 DEF LeaveTotals, Set
  <2>. QED  BY <1>1, <2>3 DEF TypeData, OfRanks, AloneData
<1>7. CASE LeaveHandler(q)
  BY <1>7 DEF AloneData, counts, LeaveHandler
<1>8. CASE FinishIteration(q)
  BY <1>1, <1>8 DEF TypeData, OfRanks, AloneData, counts, FinishIteration, Set
<1>9. CASE LeaveTime(q)
  <2>1. PICK f : f = SortedKeys(q)  OBVIOUS
  <2>2. keys' = [keys EXCEPT ![q] = f] /\ UNCHANGED <<counts, exchange>>
    BY <1>9, <2>1 DEF LeaveTime, Set
  <2>. QED  BY <1>1, <2>2 DEF TypeData, OfRanks, AloneData, counts, exchange
<1>. QED
  BY <1>2, <1>3, <1>4, <1>5, <1>6, <1>7, <1>8, <1>9
  DEF RankStep, StartOutOfRange, Start, LeaveStrict, LeaveOption,
      LeaveGenerated, LeaveBegin, FullVerify, LeavePassed, LeaveSummary

LEMMA DataKept ==
  ASSUME Control, DataInv, UNCHANGED job, NEW q \in Rank, Alone(q), AloneData(q), DataOf(q)'
  PROVE  DataInv'
<1>0. /\ ActiveRank' = ActiveRank /\ ActiveRank \subseteq Rank /\ local_key_count' = local_key_count
      /\ \A r, it : KeysOf(r, it)' = KeysOf(r, it)
      /\ \A it : TotalCounts(it)' = TotalCounts(it)
      /\ \A g, r : Plan(g, r)' = Plan(g, r)
  BY JobStays, DataStays, JobFacts, Zenon DEF Control
<1>1. ASSUME NEW r \in ActiveRank, r # q  PROVE DataOf(r)'
  <2>1. DataOf(r)  BY DEF DataInv
  <2>2. /\ pc'[r] = pc[r] /\ current_iteration'[r] = current_iteration[r]
        /\ keys'[r] = keys[r] /\ global'[r] = global[r] /\ plan'[r] = plan[r]
    BY <1>0, <1>1 DEF Alone, AloneData
  <2>3. IterationAt(r)' = IterationAt(r)  BY <2>2 DEF IterationAt, IterationIn
  <2>. QED  BY <1>0, <2>1, <2>2, <2>3 DEF DataOf
<1>. QED  BY <1>0, <1>1 DEF DataInv

(* The iteration of rank q, from the reduction of its counts on.           *)
LEMMA IterationHere ==
  ASSUME Control, NEW q \in Rank, pc[q] \in Iterating
  PROVE  /\ IterationAt(q) = current_iteration[q]
         /\ current_iteration[q] = IterationIn(PassOf(q)) /\ current_iteration[q] \in Iteration
         /\ PassOf(q) \in Pass /\ q \in ActiveRank
         /\ Len(calls[q]) = CallNumber(pc[q], PassOf(q))
<1>1. /\ current_iteration[q] \in Iteration /\ (~ timed[q] => current_iteration[q] = 1)
      /\ PassOf(q) \in Pass /\ q \in ActiveRank
      /\ Len(calls[q]) = CallNumber(pc[q], PassOf(q))
  BY Here DEF Iterating
<1>2. IterationAt(q) = current_iteration[q]  BY DEF IterationAt, Iterating
<1>3. current_iteration[q] = IterationIn(PassOf(q))
  BY <1>1, Constants DEF IterationIn, PassOf, Iteration
<1>. QED  BY <1>1, <1>2, <1>3

LEMMA OrganizeData ==
  ASSUME Control, DataInv, UNCHANGED job, NEW q \in Rank,
         LeaveGenerated(q) \/ LeaveBegin(q)
  PROVE  \E it \in Iteration :
           /\ Enter(q, "sizes", CountsOf(q, it)) /\ it = IterationIn(PassOf(q)')
           /\ DataOf(q)'
<1>0. TypeOK /\ JobInv /\ UNCHANGED timed
  BY DEF Control, LeaveGenerated, LeaveBegin
<1>1. PICK it, prev :
         /\ it \in Iteration /\ OrganizeKeys(q, it) /\ prev \in {it - 1, it} /\ pc[q] \in {"generated", "begin"}
         /\ prev = IterationAt(q) /\ q \in ActiveRank /\ InRange
         /\ it = IterationIn(IF timed[q] THEN it ELSE 0)
  <2>1. CASE LeaveGenerated(q)
    <3>1. OrganizeKeys(q, 1) /\ pc[q] = "generated"  BY <2>1 DEF LeaveGenerated, Barrier
    <3>2. 1 \in Iteration  BY Constants DEF Iteration
    <3>3. q \in ActiveRank /\ InRange /\ ~ timed[q]  BY <3>1, Here DEF Setup
    <3>4. IterationAt(q) = 0 /\ 1 - 1 = 0 /\ IterationIn(0) = 1
      BY <3>1 DEF IterationAt, IterationIn
    <3>. QED  BY <3>1, <3>2, <3>3, <3>4
  <2>2. CASE LeaveBegin(q)
    <3>1. OrganizeKeys(q, current_iteration[q]) /\ pc[q] = "begin"  BY <2>2 DEF LeaveBegin, Barrier
    <3>2. q \in ActiveRank /\ InRange /\ timed[q] /\ current_iteration[q] \in Iteration
      BY <3>1, Here
    <3>3. PICK it \in Iteration : it = current_iteration[q]  BY <3>2
    <3>4. IterationAt(q) = IterationIn(it - 1)  BY <3>1, <3>3 DEF IterationAt
    <3>5. IterationIn(it - 1) \in {it - 1, it} /\ IterationIn(it) = it
      BY Constants DEF IterationIn, Iteration
    <3>. QED  BY <3>1, <3>2, <3>3, <3>4, <3>5
  <2>. QED  BY <2>1, <2>2
<1>2. Runs  BY <1>0, <1>1 DEF Runs
<1>3. PICK ks : ks = ChangedKeys(q, it)  OBVIOUS
<1>4. \A i \in LocalIndex : ks[i] = KeysOf(q, it)[i]
  <2>1. \A i \in LocalIndex : keys[q][i] = KeysOf(q, prev)[i]
    BY <1>1 DEF DataInv, DataOf, LocalIndex
  <2>2. keys[q] = [i \in Slot |-> keys[q][i]]  BY <1>0 DEF TypeOK
  <2>. QED  BY <1>1, <1>2, <1>3, <2>1, <2>2, ChangesAre
<1>5. LocalCounts(q, ks) = CountsOf(q, it)
  BY <1>1, <1>2, <1>4, SameCounts
<1>6. /\ Enter(q, "sizes", CountsOf(q, it)) /\ keys' = [keys EXCEPT ![q] = ks]
      /\ current_iteration' = [current_iteration EXCEPT ![q] = it]
  BY <1>1, <1>3, <1>5 DEF OrganizeKeys, Set
<1>7. pc'[q] = "sizes" /\ keys'[q] = ks /\ current_iteration'[q] = it
  <2>1. pc' = [pc EXCEPT ![q] = "sizes"]  BY <1>0, <1>6, Entering
  <2>. QED  BY <1>0, <1>6, <2>1 DEF TypeOK, OfRanks
<1>8. PassOf(q)' = IF timed[q] THEN it ELSE 0
  BY <1>0, <1>7 DEF PassOf
<1>9. DataOf(q)'
  <2>1. IterationAt(q)' = it  BY <1>7 DEF IterationAt
  <2>2. \A i \in LocalIndex' : keys'[q][i] = (KeysOf(q, IterationAt(q))[i])'
    BY <1>4, <1>7, <2>1, DataStays
  <2>3. pc'[q] \notin {"totals"} \cup Receiving \cup Ending
    BY <1>7 DEF Receiving, Ending
  <2>. QED  BY <2>2, <2>3 DEF DataOf, LocalIndex
<1>. QED  BY <1>1, <1>6, <1>8, <1>9

LEMMA Everything ==
  ASSUME Control, DataInv, ValueInv, NEW q \in Rank, pc[q] \in Iterating
  PROVE  /\ Runs /\ Rank = ActiveRank /\ q \in ActiveRank
         /\ TypeOK /\ JobInv /\ DataOf(q)
BY AllActive, Here DEF Control, DataInv, Iterating

LEMMA SizesData ==
  ASSUME Control, DataInv, ValueInv, UNCHANGED job, NEW q \in Rank, LeaveSizes(q)
  PROVE  /\ \E g : Enter(q, "totals", g) /\ (q = 0 => g = TotalCounts(IterationIn(PassOf(q)')))
         /\ DataOf(q)'
<1>0. /\ pc[q] = "sizes" /\ UNCHANGED <<timed, current_iteration, keys>>
      /\ (q = 0 => \A s \in Rank : Joined(s, q))
  BY DEF LeaveSizes, Reduce
<1>1. /\ Runs /\ Rank = ActiveRank /\ q \in ActiveRank /\ TypeOK /\ DataOf(q) /\ 0 \in Rank
  BY <1>0, Everything, JobFacts DEF Iterating
<1>2. PICK p \in Pass : p = PassOf(q) /\ Len(calls[q]) = CallNumber("sizes", p)
                        /\ current_iteration[q] = IterationIn(p)
  BY <1>0, IterationHere DEF Iterating
<1>3. PassOf(q)' = p  BY <1>0, <1>2 DEF PassOf
<1>4. q = 0 => GlobalCounts(q) = TotalCounts(IterationIn(p))
  <2>. SUFFICES ASSUME q = 0  PROVE GlobalCounts(q) = TotalCounts(IterationIn(p))
    OBVIOUS
  <2>1. ASSUME NEW s \in Rank  PROVE Value(s, q) = CountsOf(s, IterationIn(p))
    <3>1. Len(calls[s]) >= CallNumber("sizes", p)  BY <1>0, <1>2 DEF Joined
    <3>2. calls[s][CallNumber("sizes", p)].value = CountsOf(s, IterationIn(p))
      BY <1>1, <3>1 DEF ValueInv
    <3>. QED  BY <1>2, <3>2 DEF Value
  <2>2. \A x \in CountIndex : [s \in Rank |-> Value(s, q)[x]] = [s \in Rank |-> CountsOf(s, IterationIn(p))[x]]
    BY <2>1
  <2>3. \A x \in CountIndex : Sum([s \in Rank |-> Value(s, q)[x]]) = Sum([s \in Rank |-> CountsOf(s, IterationIn(p))[x]])
    BY <2>2
  <2>. QED  BY <2>3, Zenon DEF GlobalCounts, TotalCounts
<1>5. PICK g : g = IF q = 0 THEN GlobalCounts(q) ELSE global[q]
  OBVIOUS
<1>6. Enter(q, "totals", g) /\ global' = [global EXCEPT ![q] = g]
  BY <1>5 DEF LeaveSizes, Set
<1>7. pc'[q] = "totals" /\ global'[q] = g
  <2>1. pc' = [pc EXCEPT ![q] = "totals"]  BY <1>1, <1>6, Entering
  <2>. QED  BY <1>1, <1>6, <2>1 DEF TypeOK, OfRanks
<1>8. IterationAt(q)' = IterationIn(p) /\ IterationAt(q) = IterationIn(p)
  BY <1>0, <1>2, <1>7 DEF IterationAt
<1>9. DataOf(q)'
  <2>1. \A i \in LocalIndex : keys[q][i] = KeysOf(q, IterationIn(p))[i]
    BY <1>0, <1>1, <1>8 DEF DataOf, Iterating, LocalIndex
  <2>2. \A i \in LocalIndex' : keys'[q][i] = (KeysOf(q, IterationAt(q))[i])'
    BY <1>0, <1>8, <2>1, DataStays
  <2>3. pc'[q] \notin Receiving \cup Ending
    BY <1>7 DEF Receiving, Ending
  <2>4. q = 0 => global'[q] = TotalCounts(IterationAt(q))'
    BY <1>4, <1>5, <1>7, <1>8, DataStays
  <2>. QED  BY <2>2, <2>3, <2>4 DEF DataOf, LocalIndex
<1>. QED  BY <1>3, <1>4, <1>5, <1>6, <1>9

LEMMA TotalsData ==
  ASSUME Control, DataInv, ValueInv, UNCHANGED job, NEW q \in Rank, LeaveTotals(q)
  PROVE  /\ Enter(q, "handler", 0) /\ DataOf(q)'
         /\ Value(0, q) = TotalCounts(current_iteration[q])
         /\ Plan(Value(0, q), q) = Plan(TotalCounts(current_iteration[q]), q)
<1>0. /\ pc[q] = "totals" /\ UNCHANGED <<timed, current_iteration, keys>> /\ Joined(0, q)
      /\ Enter(q, "handler", 0)
  BY DEF LeaveTotals, Broadcast
<1>1. /\ Runs /\ Rank = ActiveRank /\ q \in ActiveRank /\ TypeOK /\ DataOf(q) /\ 0 \in Rank
  BY <1>0, Everything, JobFacts DEF Iterating
<1>2. PICK p \in Pass : p = PassOf(q) /\ Len(calls[q]) = CallNumber("totals", p)
                        /\ current_iteration[q] = IterationIn(p)
  BY <1>0, IterationHere DEF Iterating
<1>3. Value(0, q) = TotalCounts(IterationIn(p))
  <2>1. Len(calls[0]) >= CallNumber("totals", p)  BY <1>0, <1>2 DEF Joined
  <2>. QED  BY <1>2, <2>1 DEF ValueInv, Value
<1>4. PICK x : x = Plan(Value(0, q), q)  OBVIOUS
<1>5. plan' = [plan EXCEPT ![q] = x]
  BY <1>4 DEF LeaveTotals, Set
<1>6. pc'[q] = "handler" /\ plan'[q] = x
  <2>1. pc' = [pc EXCEPT ![q] = "handler"]  BY <1>0, <1>1, Entering
  <2>. QED  BY <1>1, <1>5, <2>1 DEF TypeOK, OfRanks
<1>7. IterationAt(q)' = IterationIn(p) /\ IterationAt(q) = IterationIn(p)
  BY <1>0, <1>2, <1>6 DEF IterationAt
<1>8. x = Plan(TotalCounts(IterationIn(p)), q)  BY <1>3, <1>4
<1>9. DataOf(q)'
  <2>1. \A i \in LocalIndex : keys[q][i] = KeysOf(q, IterationIn(p))[i]
    BY <1>0, <1>1, <1>7 DEF DataOf, Iterating, LocalIndex
  <2>2. \A i \in LocalIndex' : keys'[q][i] = (KeysOf(q, IterationAt(q))[i])'
    BY <1>0, <1>7, <2>1, DataStays
  <2>3. plan'[q] = Plan(TotalCounts(IterationAt(q)), q)'
    BY <1>6, <1>7, <1>8, DataStays
  <2>. QED  BY <1>6, <2>2, <2>3 DEF DataOf, LocalIndex
<1>. QED  BY <1>0, <1>2, <1>3, <1>4, <1>8, <1>9

LEMMA TimeronData ==
  ASSUME Control, DataInv, UNCHANGED job, NEW q \in Rank, LeaveTimeron(q)
  PROVE  Enter(q, "generated", 0) /\ DataOf(q)'
<1>0. pc[q] = "timeron" /\ Enter(q, "generated", 0) /\ GenerateKeys(q)
  BY DEF LeaveTimeron, Broadcast
<1>1. TypeOK /\ JobInv /\ q \in ActiveRank /\ InRange
  BY <1>0, Here DEF Control
<1>2. Runs  BY <1>1 DEF Runs
<1>3. pc'[q] = "generated"
  <2>1. pc' = [pc EXCEPT ![q] = "generated"]  BY <1>0, <1>1, Entering
  <2>. QED  BY <1>1, <2>1 DEF TypeOK, OfRanks
<1>4. IterationAt(q)' = 0  BY <1>3 DEF IterationAt
<1>5. ASSUME NEW i \in LocalIndex  PROVE keys'[q][i] = KeysOf(q, 0)[i]
  <2>1. i \in Slot /\ i < local_key_count  BY <1>2, Shares, Constants DEF LocalIndex, Slot
  <2>2. keys'[q][i] = generated[q * local_key_count + i]
    BY <1>0, <1>1, <2>1 DEF TypeOK, OfRanks, GenerateKeys
  <2>3. q * local_key_count + i \in AllKeys  BY <1>1, <1>2, Slices
  <2>4. PICK x \in AllKeys : x = q * local_key_count + i  BY <2>3
  <2>5. TrueKeys(0)[x] = generated[x]
    <3>1. x \notin 1 .. 0 /\ x - MAX_ITERATIONS \notin 1 .. 0  BY Constants DEF AllKeys
    <3>. QED  BY <3>1 DEF TrueKeys
  <2>. QED  BY <2>2, <2>4, <2>5 DEF KeysOf, LocalIndex
<1>6. \A i \in LocalIndex' : keys'[q][i] = (KeysOf(q, IterationAt(q))[i])'
  BY <1>4, <1>5, DataStays
<1>7. pc'[q] \notin {"totals"} \cup Receiving \cup Ending  BY <1>3 DEF Receiving, Ending
<1>. QED  BY <1>0, <1>6, <1>7 DEF DataOf, LocalIndex

LEMMA FinishData ==
  ASSUME Control, DataInv, ValueInv, UNCHANGED job, NEW q \in Rank, FinishIteration(q)
  PROVE  /\ pc'[q] \in {"begin", "time"} /\ Enter(q, pc'[q], 0)
         /\ DataOf(q)'
<1>0. /\ pc[q] = "exchange" /\ UNCHANGED <<keys, counts>>
      /\ \E to \in {"begin", "time"} : Enter(q, to, 0)
  BY DEF FinishIteration, NextCall
<1>1. /\ Runs /\ Rank = ActiveRank /\ q \in ActiveRank /\ TypeOK /\ DataOf(q)
  BY <1>0, Everything DEF Iterating
<1>2. PICK to \in {"begin", "time"} : Enter(q, to, 0)  BY <1>0
<1>3. pc'[q] = to
  <2>1. pc' = [pc EXCEPT ![q] = to]  BY <1>1, <1>2, Entering
  <2>. QED  BY <1>1, <2>1 DEF TypeOK, OfRanks
<1>4. PICK c \in Iteration : c = current_iteration[q] /\ (~ timed[q] => c = 1)
  BY <1>0, Here DEF Iterating
<1>5. IterationAt(q)' = c /\ IterationAt(q) = c
  <2>1. IterationAt(q) = c  BY <1>0, <1>4 DEF IterationAt
  <2>2. timed'[q] = TRUE /\ current_iteration'[q] =
          IF ~timed[q] THEN 1 ELSE IF timed[q] /\ c = MAX_ITERATIONS THEN c ELSE c + 1
    BY <1>1, <1>4 DEF FinishIteration, TypeOK, OfRanks, Set
  <2>3. to = IF timed[q] /\ c = MAX_ITERATIONS THEN "time" ELSE "begin"
    <3>1. Enter(q, NextCall(q, timed[q] /\ c = MAX_ITERATIONS), 0)
      BY <1>4 DEF FinishIteration
    <3>2. pc' = [pc EXCEPT ![q] = NextCall(q, timed[q] /\ c = MAX_ITERATIONS)]
      BY <1>1, <3>1, Entering
    <3>3. pc'[q] = NextCall(q, timed[q] /\ c = MAX_ITERATIONS)
      BY <1>1, <3>2 DEF TypeOK
    <3>. QED  BY <1>3, <3>3 DEF NextCall
  <2>4. CASE ~ timed[q]
    <3>1. pc'[q] = "begin" /\ current_iteration'[q] = 1 /\ c = 1
      BY <1>3, <1>4, <2>2, <2>3, <2>4
    <3>. QED  BY <2>1, <3>1 DEF IterationAt, IterationIn
  <2>5. CASE timed[q] /\ c = MAX_ITERATIONS
    <3>1. pc'[q] = "time" /\ current_iteration'[q] = c
      BY <1>3, <2>2, <2>3, <2>5
    <3>. QED  BY <2>1, <3>1 DEF IterationAt
  <2>6. CASE timed[q] /\ c # MAX_ITERATIONS
    <3>1. pc'[q] = "begin" /\ current_iteration'[q] = c + 1
      BY <1>3, <2>2, <2>3, <2>6
    <3>2. IterationIn((c + 1) - 1) = c  BY <1>4, Constants DEF IterationIn, Iteration
    <3>. QED  BY <2>1, <3>1, <3>2 DEF IterationAt
  <2>. QED  BY <2>4, <2>5, <2>6
<1>6. DataOf(q)'
  <2>1. \A i \in LocalIndex : keys[q][i] = KeysOf(q, c)[i]
    BY <1>0, <1>1, <1>5 DEF DataOf, Iterating, LocalIndex
  <2>2. \A i \in LocalIndex' : keys'[q][i] = (KeysOf(q, IterationAt(q))[i])'
    BY <1>0, <1>5, <2>1, DataStays
  <2>3. plan'[q] = Plan(TotalCounts(IterationAt(q)), q)'
    <3>1. plan[q] = Plan(TotalCounts(c), q)
      BY <1>0, <1>1, <1>5 DEF DataOf, Receiving
    <3>. QED  BY <1>0, <1>5, <3>1, DataStays DEF counts
  <2>4. pc'[q] # "totals"  BY <1>3
  <2>. QED  BY <2>2, <2>3, <2>4 DEF DataOf, LocalIndex
<1>. QED  BY <1>2, <1>3, <1>6

LEMMA HandlerData ==
  ASSUME Control, DataInv, ValueInv, UNCHANGED job, NEW q \in Rank, LeaveHandler(q)
  PROVE  DataOf(q)'
<1>0. pc[q] = "handler" /\ UNCHANGED <<keys, counts, current_iteration>>
      /\ pc' = [pc EXCEPT ![q] = "exchange"]
  BY DEF LeaveHandler, Barrier, Set
<1>1. DataOf(q) /\ TypeOK  BY <1>0, Everything DEF Iterating
<1>2. pc'[q] = "exchange"  BY <1>0, <1>1 DEF TypeOK
<1>3. IterationAt(q)' = IterationAt(q)  BY <1>0, <1>2 DEF IterationAt
<1>4. \A i \in LocalIndex' : keys'[q][i] = (KeysOf(q, IterationAt(q))[i])'
  BY <1>0, <1>1, <1>3, DataStays DEF DataOf, Iterating, LocalIndex
<1>5. plan'[q] = Plan(TotalCounts(IterationAt(q)), q)'
  BY <1>0, <1>1, <1>3, DataStays DEF DataOf, Receiving, counts
<1>. QED  BY <1>2, <1>4, <1>5 DEF DataOf, LocalIndex

LEMMA EndData ==
  ASSUME Control, DataInv, UNCHANGED job, NEW q \in ActiveRank,
         UNCHANGED <<counts, current_iteration>>, pc'[q] \in (Ending \cup {"done"}) \ {"time"},
         pc[q] \in Ending
  PROVE  DataOf(q)'
<1>1. DataOf(q)  BY DEF DataInv
<1>2. pc'[q] \notin {"totals", "generated", "begin", "time"} \cup Iterating
  BY DEF Ending, Iterating
<1>3. IterationAt(q)' = IterationAt(q)
  BY <1>2 DEF IterationAt, Ending
<1>4. plan'[q] = Plan(TotalCounts(IterationAt(q)), q)'
  BY <1>1, <1>3, DataStays DEF DataOf, counts
<1>. QED  BY <1>2, <1>4 DEF DataOf

LEMMA DataStep ==
  ASSUME Control, Control', ValueInv, DataInv, NEW q \in Rank, RankStep(q)
  PROVE  ValueInv' /\ DataInv'
<1>0. /\ UNCHANGED job /\ TypeOK /\ JobInv /\ Alone(q) /\ AloneData(q)
      /\ ActiveRank \subseteq Rank
  BY RankStepJob, EveryStep, DataAlone, JobFacts DEF StepOf, Control
<1>1. ASSUME UNCHANGED calls  PROVE ValueInv'
  <2>1. /\ Rank' = Rank /\ ActiveRank' = ActiveRank
        /\ \A point, p : CallNumber(point, p)' = CallNumber(point, p)
        /\ \A r, it : CountsOf(r, it)' = CountsOf(r, it)
        /\ \A it : TotalCounts(it)' = TotalCounts(it)
    BY <1>0, JobStays, DataStays, Zenon
  <2>2. ASSUME NEW p \in Pass, NEW r \in ActiveRank, Len(calls'[r]) >= CallNumber("sizes", p)
        PROVE  calls'[r][CallNumber("sizes", p)].value = CountsOf(r, IterationIn(p))
    BY <1>1, <2>2 DEF ValueInv
  <2>3. ASSUME NEW p \in Pass, Len(calls'[0]) >= CallNumber("totals", p)
        PROVE  calls'[0][CallNumber("totals", p)].value = TotalCounts(IterationIn(p))
    BY <1>1, <2>3 DEF ValueInv
  <2>. QED  BY <2>1, <2>2, <2>3 DEF ValueInv, IterationIn
<1>2. ASSUME NEW call, NEW v, Enter(q, call, v), call \notin {"sizes", "totals"}
      PROVE  ValueInv'
  BY <1>0, <1>2, ValueKept
<1>3. ASSUME q \in ActiveRank => DataOf(q)'  PROVE DataInv'
  <2>1. CASE q \in ActiveRank  BY <1>0, <1>3, <2>1, DataKept
  <2>2. CASE q \notin ActiveRank
    <3>1. ASSUME NEW r \in ActiveRank  PROVE DataOf(r)'
      <4>1. DataOf(r) /\ r \in Rank \ {q}  BY <1>0, <2>2 DEF DataInv
      <4>2. /\ pc'[r] = pc[r] /\ current_iteration'[r] = current_iteration[r]
            /\ keys'[r] = keys[r] /\ global'[r] = global[r] /\ plan'[r] = plan[r]
        BY <1>0, <4>1 DEF Alone, AloneData
      <4>3. IterationAt(r)' = IterationAt(r)  BY <4>2 DEF IterationAt, IterationIn
      <4>4. /\ local_key_count' = local_key_count
            /\ \A x, it : KeysOf(x, it)' = KeysOf(x, it)
            /\ \A it : TotalCounts(it)' = TotalCounts(it)
            /\ \A g, x : Plan(g, x)' = Plan(g, x)
        BY <1>0, DataStays, Zenon
      <4>. QED  BY <4>1, <4>2, <4>3, <4>4 DEF DataOf
    <3>. QED  BY <1>0, <3>1, JobStays DEF DataInv
  <2>. QED  BY <2>1, <2>2
<1>4. ASSUME NEW to \in Setup \cup {"strict", "done"}, to # "generated", pc' = [pc EXCEPT ![q] = to]
      PROVE  DataOf(q)'
  <2>1. pc'[q] = to  BY <1>0, <1>4 DEF TypeOK
  <2>2. pc'[q] \notin Iterating \cup {"generated", "begin", "time"} \cup Receiving \cup Ending
    BY <1>4, <2>1 DEF Setup, Iterating, Receiving, Ending
  <2>. QED  BY <2>2 DEF DataOf, Iterating
<1>5. CASE StartOutOfRange(q) \/ Start(q) \/ LeaveStrict(q) \/ LeaveOption(q)
  <2>1. CASE pc' = [pc EXCEPT ![q] = "done"] /\ UNCHANGED calls
    BY <1>1, <1>3, <1>4, <2>1
  <2>2. CASE ~ (pc' = [pc EXCEPT ![q] = "done"] /\ UNCHANGED calls)
    <3>1. PICK to \in {"strict", "use_upacket", "use_loopback", "timeron"}, v \in {0, strict, timeron[q]} :
            Enter(q, to, v)
      BY <1>5, <2>2 DEF StartOutOfRange, Start, LeaveStrict, LeaveOption, Exit, Set
    <3>2. pc' = [pc EXCEPT ![q] = to]  BY <1>0, <3>1, Entering
    <3>3. to \in Setup \cup {"strict", "done"} /\ to # "generated"  BY DEF Setup
    <3>4. DataOf(q)'  BY <1>4, <3>2, <3>3
    <3>. QED  BY <1>2, <1>3, <3>1, <3>4
  <2>. QED  BY <2>1, <2>2
<1>6. CASE LeaveTimeron(q)
  BY <1>0, <1>2, <1>3, <1>6, TimeronData
<1>7. CASE LeaveGenerated(q) \/ LeaveBegin(q)
  <2>1. PICK it \in Iteration : /\ Enter(q, "sizes", CountsOf(q, it)) /\ it = IterationIn(PassOf(q)')
                                /\ DataOf(q)'
    BY <1>0, <1>7, OrganizeData
  <2>2. ValueInv'  BY <1>0, <2>1, ValueKept
  <2>. QED  BY <1>3, <2>1, <2>2
<1>8. CASE LeaveSizes(q)
  <2>1. PICK g : Enter(q, "totals", g) /\ (q = 0 => g = TotalCounts(IterationIn(PassOf(q)')))
    BY <1>0, <1>8, SizesData
  <2>2. DataOf(q)'  BY <1>0, <1>8, SizesData
  <2>3. ValueInv'  BY <1>0, <2>1, ValueKept
  <2>. QED  BY <1>3, <2>2, <2>3
<1>9. CASE LeaveTotals(q)
  BY <1>0, <1>2, <1>3, <1>9, TotalsData
<1>10. CASE LeaveHandler(q)
  <2>1. DataOf(q)'  BY <1>0, <1>10, HandlerData
  <2>2. UNCHANGED calls  BY <1>10 DEF LeaveHandler
  <2>. QED  BY <1>1, <1>3, <2>1, <2>2
<1>11. CASE FinishIteration(q)
  <2>1. pc'[q] \in {"begin", "time"} /\ Enter(q, pc'[q], 0) /\ DataOf(q)'
    BY <1>0, <1>11, FinishData
  <2>2. PICK to \in {"begin", "time"} : Enter(q, to, 0)  BY <2>1
  <2>. QED  BY <1>2, <1>3, <2>1, <2>2
<1>12. CASE LeaveTime(q) \/ FullVerify(q) \/ LeavePassed(q) \/ LeaveSummary(q)
  <2>1. UNCHANGED <<counts, current_iteration>> /\ pc[q] \in Ending
    BY <1>12 DEF LeaveTime, FullVerify, LeavePassed, LeaveSummary, Reduce, Ending
  <2>2. q \in ActiveRank  BY <2>1, Here DEF Ending
  <2>3. CASE UNCHANGED calls /\ pc' \in {[pc EXCEPT ![q] = "done"], [pc EXCEPT ![q] = "chain"]}
    <3>1. pc'[q] \in {"done", "chain"}  BY <1>0, <2>3 DEF TypeOK
    <3>2. pc'[q] \in (Ending \cup {"done"}) \ {"time"}  BY <3>1 DEF Ending
    <3>3. DataOf(q)'  BY <1>0, <2>1, <2>2, <3>2, EndData
    <3>. QED  BY <1>1, <1>3, <2>3, <3>3
  <2>4. CASE ~ (UNCHANGED calls /\ pc' \in {[pc EXCEPT ![q] = "done"], [pc EXCEPT ![q] = "chain"]})
    <3>1. PICK to, v : to \in {"passed", "tmin", "tsum", "tmax"} /\ Enter(q, to, v)
      BY <1>12, <2>4 DEF LeaveTime, FullVerify, Verified, LeavePassed, LeaveSummary, Exit, Set
    <3>2. pc'[q] = to
      <4>1. pc' = [pc EXCEPT ![q] = to]  BY <1>0, <3>1, Entering
      <4>. QED  BY <1>0, <4>1 DEF TypeOK
    <3>3. pc'[q] \in (Ending \cup {"done"}) \ {"time"}  BY <3>1, <3>2 DEF Ending
    <3>4. DataOf(q)'  BY <1>0, <2>1, <2>2, <3>3, EndData
    <3>. QED  BY <1>2, <1>3, <3>1, <3>4
  <2>. QED  BY <2>3, <2>4
<1>. QED
  BY <1>5, <1>6, <1>7, <1>8, <1>9, <1>10, <1>11, <1>12 DEF RankStep

-----------------------------------------------------------------------------
(* The exchange.                                                           *)
(* How far rank q is after a step.                                         *)
LEMMA CallsGrow ==
  ASSUME Control, NEW q \in Rank, RankStep(q)
  PROVE  /\ Grows /\ Len(calls'[q]) \in {Len(calls[q]), Len(calls[q]) + 1}
         /\ \A r \in Rank \ {q} : Len(calls'[r]) = Len(calls[r]) /\ pc'[r] = pc[r]
<1>1. StepOf(q) /\ TypeControl
  BY EveryStep, TypeParts DEF Control
<1>2. Grows  BY <1>1, StepGrows
<1>3. Len(calls'[q]) \in {Len(calls[q]), Len(calls[q]) + 1}
  BY <1>1 DEF StepOf, Longer
<1>4. \A r \in Rank \ {q} : Len(calls'[r]) = Len(calls[r]) /\ pc'[r] = pc[r]
  BY <1>1 DEF StepOf, Alone
<1>. QED  BY <1>2, <1>3, <1>4

(* Which step leaves a rank's call of set_am_handler(), and which the loop *)
(* after it.                                                               *)
LEMMA FromReceiving ==
  ASSUME Control, NEW q \in Rank, RankStep(q)
  PROVE  /\ pc[q] = "handler" => LeaveHandler(q)
         /\ pc[q] = "exchange" => FinishIteration(q)
         /\ pc'[q] = "exchange" => LeaveHandler(q)
<1>1. /\ pc[q] = "handler" => LeaveHandler(q)
      /\ pc[q] = "exchange" => FinishIteration(q)
  BY DEF RankStep, StartOutOfRange, Start, LeaveStrict, LeaveOption, LeaveTimeron,
         LeaveGenerated, LeaveBegin, LeaveSizes, LeaveTotals, LeaveTime, FullVerify,
         LeavePassed, LeaveSummary, Barrier, Broadcast, Reduce, LeaveHandler, FinishIteration
<1>2. q \in DOMAIN pc  BY DEF Control, TypeOK
<1>3. pc'[q] = "exchange" => LeaveHandler(q)
  <2>1. ASSUME ~ LeaveHandler(q)
        PROVE  \E to \in Points \ {"exchange"} : pc' = [pc EXCEPT ![q] = to]
    BY <2>1 DEF RankStep, StartOutOfRange, Start, LeaveStrict, LeaveOption, LeaveTimeron,
         LeaveGenerated, LeaveBegin, LeaveSizes, LeaveTotals, LeaveTime, FullVerify, Verified,
         LeavePassed, LeaveSummary, FinishIteration, NextCall, OrganizeKeys, Enter, Exit, Set,
         Points, Setup, Iterating, Ending
  <2>. QED  BY <1>2, <2>1
<1>. QED  BY <1>1, <1>3

LEMMA SentStep ==
  ASSUME Control, NEW q \in Rank, RankStep(q), NEW s \in Rank, NEW p \in Pass
  PROVE  Sent(s, p)' <=> Sent(s, p) \/ (LeaveHandler(q) /\ s = q /\ p = PassOf(q))
<1>0. /\ UNCHANGED job /\ \A point, x : CallNumber(point, x)' = CallNumber(point, x)
      /\ CallNumber("handler", p) \in Int /\ \A r \in Rank : Len(calls[r]) \in Nat
  <2>1. UNCHANGED job  BY RankStepJob
  <2>2. p \in Nat /\ Offset \in Int  BY Constants, JobFacts DEF Pass, Control
  <2>3. CallNumber("handler", p) \in Int  BY <2>2 DEF CallNumber, Place, Receiving
  <2>. QED  BY <2>1, <2>3, JobStays DEF Control, TypeOK, IsSequence
<1>1. CASE s # q
  <2>1. Len(calls'[s]) = Len(calls[s]) /\ pc'[s] = pc[s]  BY <1>1, CallsGrow
  <2>. QED  BY <1>0, <1>1, <2>1 DEF Sent
<1>2. CASE s = q /\ LeaveHandler(q)
  <2>1. UNCHANGED calls /\ pc[q] = "handler" /\ pc'[q] = "exchange"
    BY <1>2 DEF LeaveHandler, Barrier, Set, Control, TypeOK
  <2>2. PassOf(q) \in Pass /\ Len(calls[q]) = CallNumber("handler", PassOf(q))
    BY <2>1, Here
  <2>3. Len(calls[q]) = CallNumber("handler", p) => p = PassOf(q)
    BY Whereabouts
  <2>. QED  BY <1>0, <1>2, <2>1, <2>2, <2>3 DEF Sent
<1>3. CASE s = q /\ ~ LeaveHandler(q)
  <2>1. Len(calls'[q]) \in {Len(calls[q]), Len(calls[q]) + 1}  BY CallsGrow
  <2>2. pc'[q] # "exchange"  BY <1>3, FromReceiving
  <2>3. Len(calls[q]) = CallNumber("handler", p) => pc[q] = "exchange" /\ FinishIteration(q)
    <3>1. Len(calls[q]) = CallNumber("handler", p) => pc[q] \in Receiving  BY Whereabouts
    <3>. QED  BY <1>3, <3>1, FromReceiving DEF Receiving
  <2>4. FinishIteration(q) => Len(calls'[q]) = Len(calls[q]) + 1
    <3>1. FinishIteration(q) => \E to : Enter(q, to, 0)  BY DEF FinishIteration
    <3>. QED  BY <3>1, Entering DEF Control, Longer
  <2>. QED  BY <1>0, <1>3, <2>1, <2>2, <2>3, <2>4 DEF Sent
<1>. QED  BY <1>1, <1>2, <1>3

LEMMA FinishedStep ==
  ASSUME Control, NEW q \in Rank, RankStep(q), NEW d \in Rank, NEW p \in Pass
  PROVE  Finished(d, p)' <=> Finished(d, p) \/ (FinishIteration(q) /\ d = q /\ p = PassOf(q))
<1>0. /\ UNCHANGED job /\ \A point, x : CallNumber(point, x)' = CallNumber(point, x)
      /\ CallNumber("handler", p) \in Int /\ \A r \in Rank : Len(calls[r]) \in Nat
  <2>1. UNCHANGED job  BY RankStepJob
  <2>2. p \in Nat /\ Offset \in Int  BY Constants, JobFacts DEF Pass, Control
  <2>3. CallNumber("handler", p) \in Int  BY <2>2 DEF CallNumber, Place, Receiving
  <2>. QED  BY <2>1, <2>3, JobStays DEF Control, TypeOK, IsSequence
<1>1. CASE d # q
  <2>1. Len(calls'[d]) = Len(calls[d])  BY <1>1, CallsGrow
  <2>. QED  BY <1>0, <1>1, <2>1 DEF Finished
<1>2. CASE d = q /\ ~ FinishIteration(q)
  <2>1. Len(calls'[q]) \in {Len(calls[q]), Len(calls[q]) + 1}  BY CallsGrow
  <2>2. Len(calls[q]) = CallNumber("handler", p) => UNCHANGED calls
    <3>1. Len(calls[q]) = CallNumber("handler", p) => pc[q] \in Receiving  BY Whereabouts
    <3>2. LeaveHandler(q) => UNCHANGED calls  BY DEF LeaveHandler
    <3>. QED  BY <1>2, <3>1, <3>2, FromReceiving DEF Receiving
  <2>. QED  BY <1>0, <1>2, <2>1, <2>2 DEF Finished
<1>3. CASE d = q /\ FinishIteration(q)
  <2>1. Len(calls'[q]) = Len(calls[q]) + 1
    <3>1. \E to : Enter(q, to, 0)  BY <1>3 DEF FinishIteration
    <3>. QED  BY <3>1, Entering DEF Control, Longer
  <2>2. PassOf(q) \in Pass /\ Len(calls[q]) = CallNumber("exchange", PassOf(q))
    BY <1>3, Here DEF FinishIteration
  <2>3. CallNumber("exchange", PassOf(q)) = CallNumber("handler", PassOf(q))
    BY DEF CallNumber, Place, Receiving
  <2>4. Len(calls[q]) = CallNumber("handler", p) => p = PassOf(q)
    BY Whereabouts
  <2>. QED  BY <1>0, <1>3, <2>1, <2>2, <2>3, <2>4 DEF Finished
<1>. QED  BY <1>1, <1>2, <1>3

(* A step that has nothing to do with the exchange.                        *)
Quiet(q) ==
  /\ UNCHANGED exchange /\ PassOf(q)' = PassOf(q)
  /\ \/ pc[q] \in Setup \cup {"start", "strict"} /\ pc'[q] \in Setup \cup {"strict", "done"}
     \/ pc[q] \in {"generated", "begin", "sizes"} /\ pc'[q] \in {"sizes", "totals"}
     \/ pc[q] \in Ending /\ pc'[q] \in Ending \cup {"done"} /\ UNCHANGED plan

LEMMA QuietStep ==
  ASSUME Control, NEW q \in Rank, RankStep(q)
  PROVE  Quiet(q) \/ LeaveTotals(q) \/ LeaveHandler(q) \/ FinishIteration(q)
<1>0. TypeOK  BY DEF Control
<1>1. ASSUME NEW to, pc' = [pc EXCEPT ![q] = to] \/ \E v : Enter(q, to, v)
      PROVE  pc'[q] = to
  <2>1. pc' = [pc EXCEPT ![q] = to]  BY <1>1 DEF Enter, Set
  <2>. QED  BY <1>0, <2>1 DEF TypeOK
<1>2. UNCHANGED <<timed, current_iteration>> => PassOf(q)' = PassOf(q)
  BY DEF PassOf
<1>3. CASE StartOutOfRange(q) \/ Start(q) \/ LeaveStrict(q) \/ LeaveOption(q) \/ LeaveTimeron(q)
  <2>1. /\ UNCHANGED <<exchange, timed, current_iteration>>
        /\ pc[q] \in {"start", "strict", "use_upacket", "use_loopback", "timeron"}
    BY <1>3 DEF StartOutOfRange, Start, LeaveStrict, LeaveOption, LeaveTimeron, Broadcast
  <2>2. \E to \in {"done", "strict", "use_upacket", "use_loopback", "timeron", "generated"} :
           pc' = [pc EXCEPT ![q] = to]
    BY <1>3 DEF StartOutOfRange, Start, LeaveStrict, LeaveOption, LeaveTimeron, Enter, Exit, Set
  <2>3. pc'[q] \in {"done", "strict", "use_upacket", "use_loopback", "timeron", "generated"}
    BY <1>1, <2>2
  <2>. QED  BY <1>2, <2>1, <2>3 DEF Quiet, Setup
<1>4. CASE LeaveGenerated(q) \/ LeaveBegin(q)
  <2>1. PICK it : /\ OrganizeKeys(q, it) /\ UNCHANGED <<exchange, timed>>
                  /\ \/ pc[q] = "generated"
                     \/ pc[q] = "begin" /\ it = current_iteration[q]
    BY <1>4 DEF LeaveGenerated, LeaveBegin, Barrier
  <2>2. pc'[q] = "sizes"  BY <1>1, <2>1 DEF OrganizeKeys
  <2>3. current_iteration'[q] = it  BY <1>0, <2>1 DEF OrganizeKeys, Set, TypeOK
  <2>4. pc[q] = "generated" => ~ timed[q]  BY Here DEF Setup
  <2>5. PassOf(q)' = PassOf(q)  BY <2>1, <2>3, <2>4 DEF PassOf
  <2>. QED  BY <2>1, <2>2, <2>5 DEF Quiet
<1>5. CASE LeaveSizes(q)
  <2>1. UNCHANGED <<exchange, timed, current_iteration>> /\ pc[q] = "sizes"
    BY <1>5 DEF LeaveSizes, Reduce
  <2>2. \E g : Enter(q, "totals", g)  BY <1>5 DEF LeaveSizes
  <2>3. pc'[q] = "totals"  BY <1>1, <2>2
  <2>. QED  BY <1>2, <2>1, <2>3 DEF Quiet
<1>6. CASE LeaveTime(q) \/ FullVerify(q) \/ LeavePassed(q) \/ LeaveSummary(q)
  <2>1. UNCHANGED <<exchange, timed, current_iteration, plan>> /\ pc[q] \in Ending
    BY <1>6 DEF LeaveTime, FullVerify, LeavePassed, LeaveSummary, Reduce, Ending, counts
  <2>2. \E to \in {"chain", "passed", "tmin", "tsum", "tmax", "done"} :
           pc' = [pc EXCEPT ![q] = to]
    BY <1>6 DEF LeaveTime, FullVerify, Verified, LeavePassed, LeaveSummary, Enter, Exit, Set
  <2>3. pc'[q] \in {"chain", "passed", "tmin", "tsum", "tmax", "done"}  BY <1>1, <2>2
  <2>. QED  BY <1>2, <2>1, <2>3 DEF Quiet, Ending
<1>. QED  BY <1>3, <1>4, <1>5, <1>6 DEF RankStep

(* The steps of the exchange.                                              *)
LEMMA TotalsStep ==
  ASSUME Control, NEW q \in Rank, LeaveTotals(q)
  PROVE  /\ pc[q] = "totals" /\ pc'[q] = "handler" /\ PassOf(q)' = PassOf(q)
         /\ active'[q] = TRUE /\ phase'[q] = phase[q] + 1 /\ recv_count'[q] = 0
         /\ UNCHANGED net
         /\ plan'[q] = Plan(Value(0, q), q)
         /\ frequency'[q] = ClearFrequencyRange(q, Plan(Value(0, q), q))
<1>1. TypeOK  BY DEF Control
<1>2. PICK x, f : x = Plan(Value(0, q), q) /\ f = ClearFrequencyRange(q, Plan(Value(0, q), q))
  OBVIOUS
<1>3. /\ pc' = [pc EXCEPT ![q] = "handler"] /\ plan' = [plan EXCEPT ![q] = x]
      /\ frequency' = [frequency EXCEPT ![q] = f] /\ active' = [active EXCEPT ![q] = TRUE]
      /\ phase' = [phase EXCEPT ![q] = @ + 1] /\ recv_count' = [recv_count EXCEPT ![q] = 0]
      /\ UNCHANGED <<timed, current_iteration, net>> /\ pc[q] = "totals"
  BY <1>2 DEF LeaveTotals, Broadcast, Enter, Set
<1>4. PassOf(q)' = PassOf(q)  BY <1>3 DEF PassOf
<1>. QED  BY <1>1, <1>2, <1>3, <1>4 DEF TypeOK, OfRanks

LEMMA HandlerStep ==
  ASSUME Control, NEW q \in Rank, LeaveHandler(q)
  PROVE  /\ pc[q] = "handler" /\ pc'[q] = "exchange" /\ PassOf(q)' = PassOf(q)
         /\ UNCHANGED <<calls, plan, phase, active, recv_count, frequency>>
         /\ \A s \in Rank : Joined(s, q)
         /\ net' = net \cup {m \in {Message(q, d) : d \in ActiveRank} : Size(m) > 0}
BY DEF LeaveHandler, Barrier, Set, counts, Control, TypeOK, PassOf

LEMMA FinishStep ==
  ASSUME Control, NEW q \in Rank, FinishIteration(q)
  PROVE  /\ pc[q] = "exchange" /\ pc'[q] \in {"begin", "time"} /\ ReceivedAll(q)
         /\ active'[q] = FALSE /\ UNCHANGED <<plan, net, phase, recv_count, frequency>>
         /\ pc'[q] = "begin" => PassOf(q)' = PassOf(q) + 1
         /\ pc'[q] = "time" => PassOf(q)' = PassOf(q)
<1>. DEFINE last == timed[q] /\ current_iteration[q] = MAX_ITERATIONS
<1>1. TypeOK /\ pc[q] = "exchange" /\ ReceivedAll(q)
  BY DEF FinishIteration, Control
<1>2. /\ active' = [active EXCEPT ![q] = FALSE] /\ timed' = [timed EXCEPT ![q] = TRUE]
      /\ current_iteration' = [current_iteration EXCEPT ![q] =
           IF ~timed[q] THEN 1 ELSE IF last THEN @ ELSE @ + 1]
      /\ pc' = [pc EXCEPT ![q] = NextCall(q, last)]
      /\ UNCHANGED <<plan, net, phase, recv_count, frequency>>
  BY DEF FinishIteration, Enter, Set, counts
<1>3. pc'[q] = IF last THEN "time" ELSE "begin"
  BY <1>1, <1>2 DEF TypeOK, NextCall
<1>4. timed'[q] = TRUE /\ active'[q] = FALSE
      /\ current_iteration'[q] = IF ~timed[q] THEN 1 ELSE IF last THEN current_iteration[q]
                                 ELSE current_iteration[q] + 1
  BY <1>1, <1>2 DEF TypeOK, OfRanks
<1>. QED  BY <1>1, <1>2, <1>3, <1>4 DEF PassOf

LEMMA PhaseStep ==
  ASSUME Control, NEW q \in Rank, RankStep(q), \A r \in Rank : PhaseOf(r)
  PROVE  \A r \in Rank : PhaseOf(r)'
<1>0. Alone(q) /\ AloneData(q) /\ TypeOK  BY EveryStep, DataAlone DEF StepOf, Control
<1>1. ASSUME NEW r \in Rank \ {q}  PROVE PhaseOf(r)'
  <2>1. PhaseOf(r)  OBVIOUS
  <2>2. /\ pc'[r] = pc[r] /\ timed'[r] = timed[r] /\ current_iteration'[r] = current_iteration[r]
        /\ phase'[r] = phase[r] /\ active'[r] = active[r]
    BY <1>0, <1>1 DEF Alone, AloneData
  <2>3. PassOf(r)' = PassOf(r)  BY <2>2 DEF PassOf
  <2>. QED  BY <2>1, <2>2, <2>3 DEF PhaseOf
<1>2. PhaseOf(q)'
  <2>0. PhaseOf(q)  OBVIOUS
  <2>1. CASE Quiet(q)
    <3>0. UNCHANGED <<phase, active>> /\ PassOf(q)' = PassOf(q)
      BY <2>1 DEF Quiet, exchange
    <3>1. CASE pc[q] \in Setup \cup {"start", "strict"} /\ pc'[q] \in Setup \cup {"strict", "done"}
      BY <2>0, <3>0, <3>1 DEF PhaseOf, Setup, Receiving
    <3>2. CASE pc[q] \in {"generated", "begin", "sizes"} /\ pc'[q] \in {"sizes", "totals"}
      <4>1. pc[q] = "generated" => PassOf(q) = 0  BY Here DEF Setup
      <4>. QED  BY <2>0, <3>0, <3>2, <4>1 DEF PhaseOf, Setup, Receiving
    <3>3. CASE pc[q] \in Ending /\ pc'[q] \in Ending \cup {"done"}
      BY <2>0, <3>0, <3>3 DEF PhaseOf, Ending, Setup, Receiving
    <3>. QED  BY <2>1, <3>1, <3>2, <3>3 DEF Quiet
  <2>2. CASE LeaveTotals(q)
    BY <2>0, <2>2, TotalsStep DEF PhaseOf, Receiving, Setup
  <2>3. CASE LeaveHandler(q)
    BY <2>0, <2>3, HandlerStep DEF PhaseOf, Receiving, Setup
  <2>4. CASE FinishIteration(q)
    BY <2>0, <2>4, FinishStep DEF PhaseOf, Receiving, Setup
  <2>. QED  BY <2>1, <2>2, <2>3, <2>4, QuietStep
<1>. QED  BY <1>1, <1>2

-----------------------------------------------------------------------------
(* What rank q posts.                                                      *)
LEMMA PostStep ==
  ASSUME Control, DataInv, ValueInv, NEW q \in Rank, PhaseOf(q), LeaveHandler(q)
  PROVE  net' = net \cup {MessageIn(PassOf(q), q, d) :
                            d \in {d \in ActiveRank : For(q, d, IterationIn(PassOf(q))) # {}}}
<1>1. pc[q] = "handler"  BY HandlerStep
<1>2. Runs /\ Rank = ActiveRank /\ q \in ActiveRank /\ DataOf(q)
  BY <1>1, Everything DEF Iterating
<1>3. PICK p \in Pass : /\ p = PassOf(q) /\ current_iteration[q] = IterationIn(p)
                        /\ IterationAt(q) = IterationIn(p)
  BY <1>1, IterationHere DEF Iterating
<1>4. IterationIn(p) \in 0 .. MAX_ITERATIONS  BY Constants DEF IterationIn, Pass
<1>5. \A i \in LocalIndex : keys[q][i] = KeysOf(q, IterationIn(p))[i]
  BY <1>1, <1>2, <1>3 DEF DataOf, Iterating, LocalIndex
<1>6. \A b \in Bucket : plan[q].bucket_to_rank[b] = Route(IterationIn(p))[b]
  <2>1. plan[q] = Plan(TotalCounts(IterationIn(p)), q)
    BY <1>1, <1>2, <1>3 DEF DataOf, Receiving
  <2>. QED  BY <1>2, <1>4, <2>1, PlanIs
<1>7. phase[q] = p + 1  BY <1>1, <1>3 DEF PhaseOf, Receiving
<1>8. ASSUME NEW d \in ActiveRank
      PROVE  /\ Message(q, d) = MessageIn(p, q, d)
             /\ Size(Message(q, d)) > 0 <=> For(q, d, IterationIn(p)) # {}
  <2>1. Posted(q, d) = [k \in KeyValue |-> Cardinality({i \in For(q, d, IterationIn(p)) :
                                                           TrueKeys(IterationIn(p))[i] = k})]
    <3>1. Runs /\ q \in ActiveRank  BY <1>2
    <3>2. HoldsIteration(q, IterationIn(p))  BY ONLY <1>5, <1>6, Zenon DEF HoldsIteration
    <3>3. Posted(q, d) = CountsFor(q, d, IterationIn(p))
      BY ONLY <1>4, <3>1, <3>2, PostedIs, Zenon
    <3>. QED  BY ONLY <3>3, Zenon DEF CountsFor
  <2>2. Message(q, d) = MessageIn(p, q, d)
    BY <1>7, <2>1 DEF Message, MessageIn
  <2>3. Size(Message(q, d)) = Cardinality(For(q, d, IterationIn(p)))
    BY <1>2, <2>2, SizeIs
  <2>4. IsFiniteSet(For(q, d, IterationIn(p)))
    BY <1>2, ForParts, KeysFinite, FS_Subset
  <2>5. Cardinality(For(q, d, IterationIn(p))) \in Nat
        /\ (Cardinality(For(q, d, IterationIn(p))) = 0 <=> For(q, d, IterationIn(p)) = {})
    BY <2>4, FS_CardinalityType, FS_EmptySet
  <2>. QED  BY <2>2, <2>3, <2>5
<1>9. net' = net \cup {m \in {Message(q, d) : d \in ActiveRank} : Size(m) > 0}
  BY HandlerStep
<1>. HIDE DEF Pass
<1>. QED  BY <1>3, <1>8, <1>9

LEMMA MessagesDiffer ==
  ASSUME NEW p \in Pass, NEW s, NEW d, NEW p2 \in Pass, NEW s2, NEW d2,
         MessageIn(p, s, d) = MessageIn(p2, s2, d2)
  PROVE  p = p2 /\ s = s2 /\ d = d2
<1>1. /\ MessageIn(p, s, d).phase = p + 1 /\ MessageIn(p, s, d).src = s /\ MessageIn(p, s, d).dst = d
      /\ MessageIn(p2, s2, d2).phase = p2 + 1 /\ MessageIn(p2, s2, d2).src = s2
      /\ MessageIn(p2, s2, d2).dst = d2
  BY DEF MessageIn
<1>2. p \in Nat /\ p2 \in Nat  BY Constants DEF Pass
<1>. QED  BY <1>1, <1>2

(* No key arrives by the step of a rank.                                   *)
LEMMA ReceivedStays ==
  ASSUME Control, DataInv, ValueInv, NEW q \in Rank, PhaseOf(q), RankStep(q),
         NEW d \in ActiveRank, NEW p \in Pass
  PROVE  ReceivedBy(d, p)' = ReceivedBy(d, p)
<1>0. /\ UNCHANGED job /\ ActiveRank' = ActiveRank /\ ActiveRank \subseteq Rank
      /\ \A s, x, it : For(s, x, it)' = For(s, x, it)
      /\ \A x, s, y : MessageIn(x, s, y)' = MessageIn(x, s, y)
  BY RankStepJob, JobStays, DataStays, JobFacts DEF Control
<1>1. ASSUME NEW s \in ActiveRank, For(s, d, IterationIn(p)) # {}
      PROVE  Arrived(s, d, p)' <=> Arrived(s, d, p)
  <2>0. s \in Rank  BY <1>0
  <2>1. CASE ~ LeaveHandler(q)
    <3>1. net' = net
      BY <2>1, QuietStep, TotalsStep, FinishStep DEF Quiet, exchange
    <3>2. Sent(s, p)' <=> Sent(s, p)  BY <2>0, <2>1, SentStep
    <3>. QED  BY <1>0, <3>1, <3>2 DEF Arrived
  <2>2. CASE LeaveHandler(q)
    <3>. DEFINE new == {MessageIn(PassOf(q), q, x) :
                          x \in {x \in ActiveRank : For(q, x, IterationIn(PassOf(q))) # {}}}
    <3>1. net' = net \cup new  BY <2>2, PostStep
    <3>2. pc[q] = "handler" /\ PassOf(q) \in Pass /\ Len(calls[q]) = CallNumber("handler", PassOf(q))
          /\ Len(calls[q]) \in Nat
      BY <2>2, HandlerStep, Here
    <3>3. CASE s = q /\ p = PassOf(q)
      <4>1. ~ Sent(s, p)  BY <3>2, <3>3 DEF Sent
      <4>2. MessageIn(p, s, d) \in new  BY <1>1, <3>3
      <4>. QED  BY <1>0, <3>1, <4>1, <4>2 DEF Arrived
    <3>4. CASE ~ (s = q /\ p = PassOf(q))
      <4>1. Sent(s, p)' <=> Sent(s, p)  BY <2>0, <3>4, SentStep
      <4>2. MessageIn(p, s, d) \notin new  BY <3>2, <3>4, MessagesDiffer
      <4>. QED  BY <1>0, <3>1, <4>1, <4>2 DEF Arrived
    <3>. QED  BY <3>3, <3>4
  <2>. QED  BY <2>1, <2>2
<1>2. IterationIn(p)' = IterationIn(p)  BY DEF IterationIn
<1>3. ReceivedBy(d, p)' = {i \in AllKeys : \E s \in ActiveRank :
                             i \in For(s, d, IterationIn(p)) /\ Arrived(s, d, p)'}
  BY <1>0 DEF ReceivedBy, IterationIn
<1>4. \A i \in AllKeys :
        (\E s \in ActiveRank : i \in For(s, d, IterationIn(p)) /\ Arrived(s, d, p)')
          <=> (\E s \in ActiveRank : i \in For(s, d, IterationIn(p)) /\ Arrived(s, d, p))
  BY <1>1
<1>. QED  BY <1>3, <1>4 DEF ReceivedBy

(* When recv_count() is what the plan expects, all the keys for the rank   *)
(* have arrived.                                                           *)
LEMMA AllArrived ==
  ASSUME Control, DataInv, ValueInv, NEW d \in Rank, FrequencyOf(d),
         pc[d] = "exchange", ReceivedAll(d), NEW p \in Pass, p = PassOf(d)
  PROVE  /\ ReceivedBy(d, p) = ForRank(d, IterationIn(p))
         /\ \A s \in ActiveRank : For(s, d, IterationIn(p)) # {} => Arrived(s, d, p)
<1>1. Runs /\ Rank = ActiveRank /\ d \in ActiveRank /\ DataOf(d)
  BY Everything DEF Iterating
<1>2. IterationAt(d) = IterationIn(p) /\ IterationIn(p) \in 0 .. MAX_ITERATIONS
  BY IterationHere, Constants DEF Iterating, IterationIn, Pass
<1>3. plan[d].expected_recv_count = Cardinality(ForRank(d, IterationIn(p)))
  <2>1. plan[d] = Plan(TotalCounts(IterationIn(p)), d)
    BY <1>1, <1>2 DEF DataOf, Receiving
  <2>. QED  BY <1>1, <1>2, <2>1, PlanIs
<1>4. recv_count[d] = Cardinality(ReceivedBy(d, p))
  BY DEF FrequencyOf, Receiving
<1>5. ReceivedBy(d, p) \in SUBSET ForRank(d, IterationIn(p))
  BY <1>1, ForParts DEF ReceivedBy
<1>6. IsFiniteSet(ForRank(d, IterationIn(p)))
  BY <1>1, ForParts, KeysFinite, FS_Subset
<1>7. ReceivedBy(d, p) = ForRank(d, IterationIn(p))
  <2>1. /\ IsFiniteSet(ReceivedBy(d, p))
        /\ Cardinality(ReceivedBy(d, p)) <= Cardinality(ForRank(d, IterationIn(p)))
        /\ Cardinality(ForRank(d, IterationIn(p))) = Cardinality(ReceivedBy(d, p)) =>
             ForRank(d, IterationIn(p)) = ReceivedBy(d, p)
    BY <1>5, <1>6, FS_Subset
  <2>2. /\ Cardinality(ReceivedBy(d, p)) \in Nat
        /\ Cardinality(ForRank(d, IterationIn(p))) \in Nat
    BY <1>6, <2>1, FS_CardinalityType
  <2>3. Cardinality(ReceivedBy(d, p)) >= Cardinality(ForRank(d, IterationIn(p)))
    BY <1>3, <1>4 DEF ReceivedAll
  <2>. QED  BY <2>1, <2>2, <2>3
<1>8. ASSUME NEW s \in ActiveRank, For(s, d, IterationIn(p)) # {}
      PROVE  Arrived(s, d, p)
  <2>1. PICK i : i \in For(s, d, IterationIn(p))  BY <1>8
  <2>2. i \in ReceivedBy(d, p)  BY <1>1, <1>7, <2>1, ForParts
  <2>3. PICK s2 \in ActiveRank : i \in For(s2, d, IterationIn(p)) /\ Arrived(s2, d, p)
    BY <2>2 DEF ReceivedBy
  <2>4. s2 = s  BY <2>1, <2>3 DEF For, Slice
  <2>. QED  BY <2>3, <2>4
<1>. QED  BY <1>7, <1>8

-----------------------------------------------------------------------------
(* A rank in its call of set_am_handler() waits for the others to be       *)
(* there: those for which it has keys have not gone past it.               *)
AllSent ==
  \A d \in ActiveRank, p \in Pass : Finished(d, p) =>
    \A s \in ActiveRank : For(s, d, IterationIn(p)) # {} => Sent(s, p)

LEMMA AllSentStep ==
  ASSUME Control, DataInv, ValueInv, NEW q \in Rank, RankStep(q), AllSent,
         q \in ActiveRank => FrequencyOf(q)
  PROVE  AllSent'
<1>0. /\ UNCHANGED job /\ ActiveRank' = ActiveRank /\ ActiveRank \subseteq Rank
      /\ \A s, x, it : For(s, x, it)' = For(s, x, it)
  BY RankStepJob, JobStays, DataStays, JobFacts DEF Control
<1>1. ASSUME NEW d \in ActiveRank, NEW p \in Pass, Finished(d, p)',
             NEW s \in ActiveRank, For(s, d, IterationIn(p)) # {}
      PROVE  Sent(s, p)'
  <2>0. s \in Rank /\ d \in Rank  BY <1>0
  <2>1. Sent(s, p) => Sent(s, p)'  BY <2>0, SentStep
  <2>2. CASE Finished(d, p)
    BY <1>1, <2>1, <2>2 DEF AllSent
  <2>3. CASE FinishIteration(q) /\ d = q /\ p = PassOf(q)
    <3>1. pc[q] = "exchange" /\ ReceivedAll(q)  BY <2>3, FinishStep
    <3>2. FrequencyOf(d)  BY <2>3
    <3>3. Arrived(s, d, p)  BY <1>1, <2>0, <2>3, <3>1, <3>2, AllArrived
    <3>. QED  BY <2>1, <3>3 DEF Arrived
  <2>. QED  BY <1>1, <2>0, <2>2, <2>3, FinishedStep
<1>2. \A p \in Pass : IterationIn(p)' = IterationIn(p)  BY DEF IterationIn
<1>. QED  BY <1>0, <1>1 DEF AllSent, IterationIn

LEMMA NetStep ==
  ASSUME Control, DataInv, ValueInv, NEW q \in Rank, RankStep(q), AllSent, NetInv,
         PhaseOf(q), q \in ActiveRank => FrequencyOf(q)
  PROVE  NetInv'
<1>0. /\ UNCHANGED job /\ ActiveRank' = ActiveRank /\ ActiveRank \subseteq Rank
      /\ \A s, x, it : For(s, x, it)' = For(s, x, it)
      /\ \A x, s, y : MessageIn(x, s, y)' = MessageIn(x, s, y)
  BY RankStepJob, JobStays, DataStays, JobFacts DEF Control
<1>1. Alone(q)  BY EveryStep DEF StepOf
<1>2. ASSUME NEW p \in Pass, NEW s \in ActiveRank, NEW d \in ActiveRank,
             For(s, d, IterationIn(p)) # {}, Sent(s, p)', pc'[d] \in Receiving, PassOf(d)' = p
      PROVE  \E x \in Pass, y, z \in ActiveRank' :
               /\ MessageIn(p, s, d) = MessageIn(x, y, z)'
               /\ (For(y, z, IterationIn(x)) # {})' /\ Sent(y, x)' /\ pc'[z] \in Receiving
               /\ PassOf(z)' = x
  BY <1>0, <1>2 DEF IterationIn
<1>3. ASSUME NEW d \in ActiveRank, d # q  PROVE pc'[d] = pc[d] /\ PassOf(d)' = PassOf(d)
  BY <1>0, <1>1, <1>3 DEF Alone, PassOf
<1>4. ASSUME NEW m \in net
      PROVE  \E p \in Pass, s, d \in ActiveRank :
               /\ m = MessageIn(p, s, d) /\ For(s, d, IterationIn(p)) # {}
               /\ Sent(s, p)' /\ pc'[d] \in Receiving /\ PassOf(d)' = p
  <2>1. PICK p \in Pass, s \in ActiveRank, d \in ActiveRank :
          /\ m = MessageIn(p, s, d) /\ For(s, d, IterationIn(p)) # {}
          /\ Sent(s, p) /\ pc[d] \in Receiving /\ PassOf(d) = p
    BY DEF NetInv
  <2>2. Sent(s, p)'  BY <1>0, <2>1, SentStep
  <2>3. pc'[d] \in Receiving /\ PassOf(d)' = p
    <3>1. CASE d # q  BY <1>3, <2>1, <3>1
    <3>2. CASE d = q /\ pc[d] = "handler"
      <4>1. LeaveHandler(q)  BY <3>2, FromReceiving
      <4>. QED  BY <2>1, <3>2, <4>1, HandlerStep DEF Receiving
    <3>3. CASE d = q /\ pc[d] = "exchange"
      <4>1. FinishIteration(q)  BY <3>3, FromReceiving
      <4>2. ReceivedAll(d) /\ d \in Rank  BY <1>0, <3>3, <4>1, FinishStep
      <4>3. FrequencyOf(d)  BY <3>3
      <4>4. Arrived(s, d, p)  BY <2>1, <3>3, <4>2, <4>3, AllArrived
      <4>. QED  BY <2>1, <4>4 DEF Arrived
    <3>. QED  BY <2>1, <3>1, <3>2, <3>3 DEF Receiving
  <2>. QED  BY <2>1, <2>2, <2>3
<1>5. ASSUME LeaveHandler(q), NEW d \in ActiveRank, NEW p \in Pass, p = PassOf(q),
             For(q, d, IterationIn(p)) # {}
      PROVE  q \in ActiveRank /\ Sent(q, p)' /\ pc'[d] \in Receiving /\ PassOf(d)' = p
  <2>1. /\ pc[q] = "handler" /\ pc'[q] = "exchange" /\ PassOf(q)' = PassOf(q)
        /\ \A s \in Rank : Joined(s, q)
    BY <1>5, HandlerStep
  <2>2. q \in ActiveRank /\ Len(calls[q]) = CallNumber("handler", p) /\ Len(calls[q]) \in Nat
        /\ Len(calls[d]) \in Nat
    BY <1>0, <1>5, <2>1, Here DEF Control, TypeOK, IsSequence
  <2>3. Sent(q, p)'  BY <1>5, SentStep
  <2>4. ~ Sent(q, p)  BY <2>1, <2>2 DEF Sent
  <2>5. ~ Finished(d, p)  BY <1>5, <2>2, <2>4 DEF AllSent
  <2>6. Len(calls[d]) = CallNumber("handler", p)
    <3>1. Len(calls[d]) >= Len(calls[q])  BY <1>0, <2>1 DEF Joined
    <3>. QED  BY <2>2, <2>5, <3>1 DEF Finished
  <2>7. pc[d] \in Receiving /\ PassOf(d) = p  BY <1>0, <2>6, Whereabouts
  <2>8. pc'[d] \in Receiving /\ PassOf(d)' = p
    <3>1. CASE d # q  BY <1>3, <2>7, <3>1
    <3>2. CASE d = q  BY <2>1, <2>7, <3>2 DEF Receiving
    <3>. QED  BY <3>1, <3>2
  <2>. QED  BY <2>2, <2>3, <2>8
<1>6. ASSUME NEW m \in net'
      PROVE  \E p \in Pass, s, d \in ActiveRank :
               /\ m = MessageIn(p, s, d) /\ For(s, d, IterationIn(p)) # {}
               /\ Sent(s, p)' /\ pc'[d] \in Receiving /\ PassOf(d)' = p
  <2>1. CASE m \in net  BY <1>4, <2>1
  <2>2. CASE m \notin net
    <3>1. LeaveHandler(q)
      BY <2>2, QuietStep, TotalsStep, FinishStep DEF Quiet, exchange
    <3>2. PICK d \in ActiveRank : For(q, d, IterationIn(PassOf(q))) # {} /\ m = MessageIn(PassOf(q), q, d)
      BY <2>2, <3>1, PostStep
    <3>3. PassOf(q) \in Pass
      <4>1. pc[q] = "handler"  BY <3>1, HandlerStep
      <4>. QED  BY <4>1, Here
    <3>4. PICK p \in Pass : p = PassOf(q)  BY <3>3
    <3>5. q \in ActiveRank /\ Sent(q, p)' /\ pc'[d] \in Receiving /\ PassOf(d)' = p
      BY <1>5, <3>1, <3>2, <3>4
    <3>. QED  BY <3>2, <3>4, <3>5
  <2>. QED  BY <2>1, <2>2
<1>. QED  BY <1>2, <1>6 DEF NetInv

-----------------------------------------------------------------------------
LEMMA FrequencyKept ==
  ASSUME UNCHANGED job, NEW d \in ActiveRank, FrequencyOf(d),
         \A p \in Pass : ReceivedBy(d, p)' = ReceivedBy(d, p),
         pc'[d] \in Receiving => pc[d] \in Receiving /\ recv_count'[d] = recv_count[d],
         pc'[d] \in Receiving \cup Ending =>
           /\ pc[d] \in Receiving \cup Ending /\ PassOf(d)' = PassOf(d)
           /\ plan'[d] = plan[d] /\ frequency'[d] = frequency[d]
  PROVE  FrequencyOf(d)'
<1>1. \A it : TrueKeys(it)' = TrueKeys(it)  BY DataStays
<1>2. ASSUME NEW p \in Pass, PassOf(d)' = p, pc'[d] \in Receiving \cup Ending
      PROVE  /\ pc'[d] \in Receiving => recv_count'[d] = Cardinality(ReceivedBy(d, p))'
             /\ \A k \in plan'[d].min_key_value .. plan'[d].max_key_value :
                  k - plan'[d].min_key_value \in Slot =>
                    frequency'[d][k - plan'[d].min_key_value] =
                      Cardinality({i \in ReceivedBy(d, p) : TrueKeys(IterationIn(p))[i] = k})'
  <2>1. PICK received : received = ReceivedBy(d, p) /\ received = ReceivedBy(d, p)'
    BY <1>2
  <2>2. /\ pc[d] \in Receiving => recv_count[d] = Cardinality(received)
        /\ \A k \in plan[d].min_key_value .. plan[d].max_key_value :
             k - plan[d].min_key_value \in Slot =>
               frequency[d][k - plan[d].min_key_value] =
                 Cardinality({i \in received : TrueKeys(IterationIn(p))[i] = k})
    BY <1>2, <2>1 DEF FrequencyOf
  <2>. QED  BY <1>1, <1>2, <2>1, <2>2 DEF IterationIn
<1>3. Receiving \subseteq Receiving \cup Ending  OBVIOUS
<1>. QED  BY <1>2, <1>3 DEF FrequencyOf

(* Before the first rank has left the barrier nothing is on its way.       *)
LEMMA NothingYet ==
  ASSUME Control, NEW q \in Rank, pc[q] = "totals", NEW p \in Pass, p = PassOf(q)
  PROVE  ReceivedBy(q, p) = {}
<1>1. /\ JobInv /\ BarrierInv /\ Len(calls[q]) = CallNumber("totals", p)
      /\ p \in Nat /\ Offset \in {0, 1} /\ ActiveRank \subseteq Rank
  BY Here, JobFacts, Constants DEF Control, Pass
<1>2. /\ CallNumber("totals", p) = Offset + 6 + 4 * p /\ CallNumber("handler", p) = Offset + 7 + 4 * p
      /\ Script(CallNumber("handler", p)) = "handler"
  BY <1>1, Numbers, ScriptAt, ZenonT(40)
<1>3. ASSUME NEW s \in ActiveRank  PROVE ~ Sent(s, p)
  <2>0. s \in Rank /\ Len(calls[s]) \in Nat  BY <1>1 DEF Control, TypeOK, IsSequence
  <2>1. ~ (Len(calls[s]) > CallNumber("handler", p))
    <3>. SUFFICES ASSUME Len(calls[s]) > CallNumber("handler", p)  PROVE FALSE
      OBVIOUS
    <3>1. CallNumber("handler", p) \in 1 .. Len(calls[s]) - 1  BY <1>1, <1>2, <2>0, SMTT(30)
    <3>2. Len(calls[q]) >= CallNumber("handler", p)  BY <1>1, <1>2, <2>0, <3>1 DEF BarrierInv
    <3>. QED  BY <1>1, <1>2, <3>2
  <2>2. ~ (Len(calls[s]) = CallNumber("handler", p) /\ pc[s] = "exchange")
    <3>. SUFFICES ASSUME Len(calls[s]) = CallNumber("handler", p), pc[s] = "exchange"  PROVE FALSE
      OBVIOUS
    <3>1. Len(calls[q]) >= Len(calls[s])  BY <1>1, <2>0 DEF BarrierInv
    <3>. QED  BY <1>1, <1>2, <3>1
  <2>. QED  BY <2>1, <2>2 DEF Sent
<1>. QED  BY <1>3 DEF ReceivedBy, Arrived

LEMMA FrequencyStep ==
  ASSUME Control, DataInv, ValueInv, NEW q \in Rank, RankStep(q), PhaseOf(q),
         NEW d \in ActiveRank, FrequencyOf(d)
  PROVE  FrequencyOf(d)'
<1>0. UNCHANGED job /\ Alone(q) /\ AloneData(q) /\ d \in Rank
  BY RankStepJob, EveryStep, DataAlone, JobFacts DEF StepOf, Control
<1>1. \A p \in Pass : ReceivedBy(d, p)' = ReceivedBy(d, p)  BY ReceivedStays
<1>2. CASE d # q
  <2>1. /\ pc'[d] = pc[d] /\ PassOf(d)' = PassOf(d) /\ plan'[d] = plan[d]
        /\ frequency'[d] = frequency[d] /\ recv_count'[d] = recv_count[d]
    BY <1>0, <1>2 DEF Alone, AloneData, PassOf
  <2>. QED  BY <1>0, <1>1, <2>1, FrequencyKept
<1>3. CASE d = q /\ Quiet(q)
  <2>1. /\ frequency' = frequency /\ PassOf(d)' = PassOf(d) /\ pc'[d] \notin Receiving
        /\ pc'[d] \in Ending => pc[d] \in Ending /\ plan'[d] = plan[d]
    BY <1>3 DEF Quiet, exchange, Setup, Receiving, Ending
  <2>. QED  BY <1>0, <1>1, <2>1, FrequencyKept
<1>4. CASE d = q /\ LeaveHandler(q)
  <2>1. /\ pc[d] \in Receiving /\ PassOf(d)' = PassOf(d)
        /\ UNCHANGED <<plan, recv_count, frequency>>
    BY <1>4, HandlerStep DEF Receiving
  <2>. QED  BY <1>0, <1>1, <2>1, FrequencyKept
<1>5. CASE d = q /\ FinishIteration(q)
  <2>1. /\ pc[d] \in Receiving /\ pc'[d] \in {"begin", "time"}
        /\ pc'[d] = "time" => PassOf(d)' = PassOf(d)
        /\ UNCHANGED <<plan, recv_count, frequency>>
    BY <1>5, FinishStep DEF Receiving
  <2>2. pc'[d] \notin Receiving /\ (pc'[d] \in Ending => pc'[d] = "time")
    BY <2>1 DEF Receiving, Ending
  <2>. QED  BY <1>0, <1>1, <2>1, <2>2, FrequencyKept
<1>6. CASE d = q /\ LeaveTotals(q)
  <2>1. /\ pc[d] = "totals" /\ PassOf(d)' = PassOf(d) /\ recv_count'[d] = 0
        /\ plan'[d] = Plan(Value(0, d), d)
        /\ frequency'[d] = ClearFrequencyRange(d, Plan(Value(0, d), d))
    BY <1>6, TotalsStep
  <2>2. PICK x : x = Plan(Value(0, d), d)  OBVIOUS
  <2>3. plan'[d] = x /\ frequency'[d] = ClearFrequencyRange(d, x)  BY <2>1, <2>2
  <2>4. x.min_key_value \in Nat /\ x.max_key_value \in Int
    <3>1. x = Plan(TotalCounts(current_iteration[d]), d)
      BY <1>0, <1>6, <2>2, TotalsData
    <3>2. current_iteration[d] \in 0 .. MAX_ITERATIONS /\ Runs /\ Rank = ActiveRank
      BY <1>0, <2>1, Everything DEF Iterating, TypeOK
    <3>. QED  BY <3>1, <3>2, PlanIs
  <2>5. ASSUME NEW p \in Pass, PassOf(d)' = p
        PROVE  /\ recv_count'[d] = Cardinality(ReceivedBy(d, p))'
               /\ \A k \in plan'[d].min_key_value .. plan'[d].max_key_value :
                    k - plan'[d].min_key_value \in Slot =>
                      frequency'[d][k - plan'[d].min_key_value] =
                        Cardinality({i \in ReceivedBy(d, p) : TrueKeys(IterationIn(p))[i] = k})'
    <3>1. ReceivedBy(d, p)' = {}  BY <1>0, <1>1, <2>1, <2>5, NothingYet
    <3>2. ASSUME NEW k \in x.min_key_value .. x.max_key_value, k - x.min_key_value \in Slot
          PROVE  frequency'[d][k - x.min_key_value] = 0
      <4>1. k - x.min_key_value <= x.max_key_value - x.min_key_value  BY <2>4
      <4>. QED  BY <2>3, <3>2, <4>1 DEF ClearFrequencyRange
    <3>3. \A k : {i \in ReceivedBy(d, p)' : (TrueKeys(IterationIn(p))[i])' = k} = {}  BY <3>1
    <3>4. Cardinality({}) = 0  BY FS_EmptySet
    <3>. QED  BY <2>1, <2>3, <3>1, <3>2, <3>3, <3>4
  <2>. QED  BY <2>5 DEF FrequencyOf
<1>. QED  BY <1>2, <1>3, <1>4, <1>5, <1>6, QuietStep

LEMMA ExchangeStep ==
  ASSUME Control, ValueInv, DataInv, ExchangeInv, NEW q \in Rank, RankStep(q)
  PROVE  ExchangeInv'
<1>0. UNCHANGED job /\ Rank' = Rank /\ ActiveRank' = ActiveRank  BY RankStepJob, JobStays
<1>1. /\ \A r \in Rank : PhaseOf(r)
      /\ NetInv /\ AllSent /\ \A d \in ActiveRank : FrequencyOf(d)
  BY DEF ExchangeInv, AllSent
<1>2. \A r \in Rank : PhaseOf(r)'  BY <1>1, PhaseStep
<1>3. NetInv'  BY <1>1, NetStep
<1>4. AllSent'  BY <1>1, AllSentStep
<1>5. \A d \in ActiveRank : FrequencyOf(d)'  BY <1>1, FrequencyStep
<1>. QED  BY <1>0, <1>2, <1>3, <1>4, <1>5 DEF ExchangeInv, AllSent

LEMMA TwoParts ==
  ASSUME NEW S, NEW T, IsFiniteSet(S), IsFiniteSet(T), S \cap T = {}
  PROVE  Cardinality(S \cup T) = Cardinality(S) + Cardinality(T)
<1>1. Cardinality(S \cup T) = Cardinality(S) + Cardinality(T) - Cardinality(S \cap T)
  BY FS_Union
<1>2. Cardinality(S \cap T) = 0 /\ Cardinality(S) \in Nat /\ Cardinality(T) \in Nat
  BY FS_EmptySet, FS_CardinalityType
<1>. QED  BY <1>1, <1>2

(* The keys of one rank for another are received.                          *)
LEMMA ReceiveStep ==
  ASSUME Control, ExchangeInv, NEW m \in net, Receive(m)
  PROVE  \E p \in Pass, s, d \in ActiveRank :
           /\ m = MessageIn(p, s, d) /\ For(s, d, IterationIn(p)) # {}
           /\ Sent(s, p) /\ pc[d] \in Receiving /\ PassOf(d) = p
           /\ UNCHANGED <<job, pc, calls, timed, current_iteration, keys, counts, phase, active>>
           /\ net' = net \ {m}
           /\ \A r \in Rank \ {d} : frequency'[r] = frequency[r] /\ recv_count'[r] = recv_count[r]
           /\ recv_count'[d] = recv_count[d] + Size(m)
           /\ \A i \in Slot : frequency'[d][i] =
                frequency[d][i] + IF plan[d].min_key_value + i \in KeyValue
                                  THEN m.keys[plan[d].min_key_value + i] ELSE 0
<1>1. PICK p \in Pass, s \in ActiveRank, d \in ActiveRank :
        /\ m = MessageIn(p, s, d) /\ For(s, d, IterationIn(p)) # {}
        /\ Sent(s, p) /\ pc[d] \in Receiving /\ PassOf(d) = p
  BY DEF ExchangeInv, NetInv
<1>2. m.dst = d  BY <1>1 DEF MessageIn
<1>3. /\ UNCHANGED <<job, pc, calls, timed, current_iteration, keys, counts, phase, active>>
      /\ net' = net \ {m}
  BY DEF Receive
<1>4. PICK n, base : n = Size(m) /\ base = plan[d].min_key_value  OBVIOUS
<1>5. PICK f : f = [i \in Slot |-> frequency[d][i] + IF base + i \in KeyValue THEN m.keys[base + i] ELSE 0]
  OBVIOUS
<1>6. /\ frequency' = [frequency EXCEPT ![d] = f]
      /\ recv_count' = [recv_count EXCEPT ![d] = @ + n]
  BY <1>2, <1>4, <1>5 DEF Receive
<1>7. OfRanks(frequency) /\ OfRanks(recv_count) /\ d \in Rank
  BY JobFacts DEF Control, TypeOK
<1>8. /\ \A r \in Rank \ {d} : frequency'[r] = frequency[r] /\ recv_count'[r] = recv_count[r]
      /\ recv_count'[d] = recv_count[d] + n /\ frequency'[d] = f
  BY <1>6, <1>7 DEF OfRanks
<1>9. \A i \in Slot : frequency'[d][i] =
        frequency[d][i] + IF base + i \in KeyValue THEN m.keys[base + i] ELSE 0
  BY <1>5, <1>8
<1>. QED  BY <1>1, <1>3, <1>4, <1>8, <1>9

(* What has arrived then.                                                  *)
LEMMA ReceivedThen ==
  ASSUME UNCHANGED <<job, pc, calls>>,
         NEW p \in Pass, NEW s \in ActiveRank, NEW d \in ActiveRank,
         Sent(s, p), net' = net \ {MessageIn(p, s, d)},
         NEW p2 \in Pass, NEW d2 \in ActiveRank
  PROVE  ReceivedBy(d2, p2)' = IF d2 = d /\ p2 = p
                               THEN ReceivedBy(d, p) \cup For(s, d, IterationIn(p))
                               ELSE ReceivedBy(d2, p2)
<1>0. /\ ActiveRank' = ActiveRank /\ \A x, y : CallNumber(x, y)' = CallNumber(x, y)
      /\ \A r, x, it : For(r, x, it)' = For(r, x, it)
      /\ \A x, r, y : MessageIn(x, r, y)' = MessageIn(x, r, y)
  BY JobStays, DataStays
<1>1. ASSUME NEW r \in ActiveRank
      PROVE  Arrived(r, d2, p2)' <=> Arrived(r, d2, p2) \/ (r = s /\ d2 = d /\ p2 = p)
  <2>1. Sent(r, p2)' <=> Sent(r, p2)  BY <1>0 DEF Sent
  <2>2. MessageIn(p2, r, d2) = MessageIn(p, s, d) <=> (r = s /\ d2 = d /\ p2 = p)
    BY MessagesDiffer
  <2>. QED  BY <1>0, <2>1, <2>2 DEF Arrived
<1>2. ReceivedBy(d2, p2)' = {i \in AllKeys : \E r \in ActiveRank :
                               i \in For(r, d2, IterationIn(p2)) /\ Arrived(r, d2, p2)'}
  BY <1>0 DEF ReceivedBy, IterationIn
<1>3. For(s, d, IterationIn(p)) \subseteq AllKeys  BY DEF For, Slice
<1>4. CASE d2 = d /\ p2 = p
  <2>1. \A i \in AllKeys :
          (\E r \in ActiveRank : i \in For(r, d2, IterationIn(p2)) /\ Arrived(r, d2, p2)')
            <=> \/ \E r \in ActiveRank : i \in For(r, d2, IterationIn(p2)) /\ Arrived(r, d2, p2)
                \/ i \in For(s, d, IterationIn(p))
    BY <1>1, <1>4
  <2>. QED  BY <1>2, <1>3, <1>4, <2>1 DEF ReceivedBy
<1>5. CASE ~ (d2 = d /\ p2 = p)
  <2>1. \A i \in AllKeys :
          (\E r \in ActiveRank : i \in For(r, d2, IterationIn(p2)) /\ Arrived(r, d2, p2)')
            <=> \E r \in ActiveRank : i \in For(r, d2, IterationIn(p2)) /\ Arrived(r, d2, p2)
    BY <1>1, <1>5
  <2>. QED  BY <1>2, <1>5, <2>1 DEF ReceivedBy
<1>. QED  BY <1>4, <1>5

(* All but the receiver's counts, and what is on its way.                  *)
Still == UNCHANGED <<job, pc, calls, timed, current_iteration, keys, counts, phase, active>>

LEMMA StillKeeps ==
  ASSUME Control, ValueInv, DataInv, \A r \in Rank : PhaseOf(r), AllSent, Still
  PROVE  /\ ValueInv' /\ DataInv' /\ \A r \in Rank : PhaseOf(r)' /\ PassOf(r)' = PassOf(r)
         /\ AllSent' /\ \A s, p : Sent(s, p)' = Sent(s, p)
<1>0. /\ UNCHANGED job /\ Rank' = Rank /\ ActiveRank' = ActiveRank
      /\ \A point, p : CallNumber(point, p)' = CallNumber(point, p)
      /\ \A r, it : CountsOf(r, it)' = CountsOf(r, it)
      /\ \A it : TotalCounts(it)' = TotalCounts(it)
      /\ \A s, d, it : For(s, d, it)' = For(s, d, it)
  <2>1. UNCHANGED job  BY DEF Still
  <2>. QED  BY <2>1, JobStays, DataStays, Zenon
<1>1. ValueInv'  BY <1>0 DEF ValueInv, Still, IterationIn
<1>2. ASSUME NEW r \in ActiveRank  PROVE DataOf(r)'
  <2>1. DataOf(r)  BY DEF DataInv
  <2>2. IterationAt(r)' = IterationAt(r)  BY DEF Still, IterationAt, IterationIn
  <2>3. /\ local_key_count' = local_key_count
        /\ \A x, it : KeysOf(x, it)' = KeysOf(x, it)
        /\ \A g, x : Plan(g, x)' = Plan(g, x)
    BY <1>0, DataStays, Zenon
  <2>. QED  BY <1>0, <2>1, <2>2, <2>3 DEF DataOf, Still, counts
<1>3. \A r \in Rank : PassOf(r)' = PassOf(r)  BY DEF Still, PassOf
<1>4. \A r \in Rank : PhaseOf(r)'  BY <1>3 DEF Still, PhaseOf
<1>5. \A s, p : Sent(s, p)' = Sent(s, p) /\ Finished(s, p)' = Finished(s, p)
  BY <1>0 DEF Still, Sent, Finished
<1>6. AllSent'  BY <1>0, <1>5 DEF AllSent, IterationIn
<1>. QED  BY <1>0, <1>1, <1>2, <1>3, <1>4, <1>5, <1>6 DEF DataInv

LEMMA FrequencyReceives ==
  ASSUME Control, ValueInv, DataInv, ExchangeInv, NEW m \in net, Receive(m), NEW d2 \in ActiveRank
  PROVE  FrequencyOf(d2)'
<1>1. PICK p \in Pass, s \in ActiveRank, d \in ActiveRank :
        /\ m = MessageIn(p, s, d) /\ For(s, d, IterationIn(p)) # {}
        /\ Sent(s, p) /\ pc[d] \in Receiving /\ PassOf(d) = p
        /\ UNCHANGED <<job, pc, calls, timed, current_iteration, keys, counts, phase, active>>
        /\ net' = net \ {m}
        /\ \A r \in Rank \ {d} : frequency'[r] = frequency[r] /\ recv_count'[r] = recv_count[r]
        /\ recv_count'[d] = recv_count[d] + Size(m)
        /\ \A i \in Slot : frequency'[d][i] =
             frequency[d][i] + IF plan[d].min_key_value + i \in KeyValue
                               THEN m.keys[plan[d].min_key_value + i] ELSE 0
  BY ReceiveStep
<1>2. UNCHANGED <<job, pc, calls, plan>> /\ PassOf(d2)' = PassOf(d2) /\ ActiveRank \subseteq Rank
  BY <1>1, JobFacts DEF PassOf, counts, Control
<1>3. \A p2 \in Pass : ReceivedBy(d2, p2)' = IF d2 = d /\ p2 = p
                               THEN ReceivedBy(d, p) \cup For(s, d, IterationIn(p))
                               ELSE ReceivedBy(d2, p2)
  BY <1>1, <1>2, ReceivedThen
<1>4. FrequencyOf(d2) /\ FrequencyOf(d)  BY DEF ExchangeInv
<1>5. CASE d2 # d
  BY <1>1, <1>2, <1>3, <1>4, <1>5, FrequencyKept
<1>6. CASE d2 = d
  <2>. DEFINE it == IterationIn(p)
              A == ReceivedBy(d, p)
              B == For(s, d, it)
              h == TrueKeys(it)
              base == plan[d].min_key_value
  <2>1. Runs /\ Rank = ActiveRank /\ DataOf(d) /\ d \in Rank
    BY <1>1, <1>2, Everything DEF Receiving, Iterating
  <2>2. it \in 0 .. MAX_ITERATIONS /\ IterationAt(d) = it
    BY <1>1, <2>1, IterationHere, Constants DEF Receiving, Iterating, IterationIn, Pass
  <2>3. /\ base \in Nat /\ plan[d].max_key_value \in Int
        /\ \A k \in base .. plan[d].max_key_value : k \in KeyValue
    <3>1. plan[d] = Plan(TotalCounts(it), d)  BY <1>1, <2>1, <2>2 DEF DataOf
    <3>. QED  BY <2>1, <2>2, <3>1, PlanIs
  <2>4. IsFiniteSet(A) /\ IsFiniteSet(B)
    <3>1. A \in SUBSET AllKeys /\ B \in SUBSET AllKeys  BY DEF ReceivedBy, For, Slice
    <3>. HIDE DEF A, B
    <3>. QED  BY <3>1, KeysFinite, FS_Subset
  <2>5. A \cap B = {}
    <3>. SUFFICES ASSUME NEW i \in A, i \in B  PROVE FALSE
      OBVIOUS
    <3>1. PICK r \in ActiveRank : i \in For(r, d, it) /\ Arrived(r, d, p)
      BY DEF ReceivedBy
    <3>2. r = s  BY <3>1 DEF For, Slice
    <3>. QED  BY <1>1, <3>1, <3>2 DEF Arrived
  <2>6. /\ recv_count[d] = Cardinality(A)
        /\ \A k \in base .. plan[d].max_key_value : k - base \in Slot =>
             frequency[d][k - base] = Cardinality({i \in A : h[i] = k})
    BY <1>1, <1>4 DEF FrequencyOf
  <2>7. recv_count'[d] = Cardinality(A \cup B)
    <3>1. Size(m) = Cardinality(B)  BY <1>1, <2>1, SizeIs
    <3>2. Cardinality(A \cup B) = Cardinality(A) + Cardinality(B)
      <4>. HIDE DEF A, B
      <4>. QED  BY <2>4, <2>5, TwoParts
    <3>. QED  BY <1>1, <2>6, <3>1, <3>2
  <2>8. ASSUME NEW k \in base .. plan[d].max_key_value, k - base \in Slot
        PROVE  frequency'[d][k - base] = Cardinality({i \in A \cup B : h[i] = k})
    <3>. DEFINE S == {i \in A : h[i] = k}
                T == {i \in B : h[i] = k}
    <3>1. k \in KeyValue /\ base + (k - base) = k  BY <2>3
    <3>2. frequency'[d][k - base] = frequency[d][k - base] + m.keys[k]
      BY <1>1, <2>8, <3>1
    <3>3. m.keys[k] = Cardinality(T)  BY <1>1, <3>1 DEF MessageIn
    <3>4. frequency[d][k - base] = Cardinality(S)  BY <2>6, <2>8
    <3>5. IsFiniteSet(S) /\ IsFiniteSet(T) /\ S \cap T = {}
      <4>1. S \in SUBSET A /\ T \in SUBSET B /\ S \cap T = {}
        <5>. HIDE DEF A, B, h
        <5>. QED  BY <2>5
      <4>. HIDE DEF A, B, S, T
      <4>. QED  BY <2>4, <4>1, FS_Subset
    <3>6. Cardinality(S \cup T) = Cardinality(S) + Cardinality(T)
      <4>. HIDE DEF S, T
      <4>. QED  BY <3>5, TwoParts
    <3>7. S \cup T = {i \in A \cup B : h[i] = k}  OBVIOUS
    <3>. HIDE DEF A, B, S, T, h, base
    <3>. QED  BY <3>2, <3>3, <3>4, <3>6, <3>7
  <2>9. ReceivedBy(d, p)' = A \cup B  BY <1>3, <1>6
  <2>10. \A i : TrueKeys(i)' = TrueKeys(i)  BY <1>2, DataStays
  <2>11. ASSUME NEW p2 \in Pass, PassOf(d)' = p2
         PROVE  /\ recv_count'[d] = Cardinality(ReceivedBy(d, p2))'
                /\ \A k \in plan'[d].min_key_value .. plan'[d].max_key_value :
                     k - plan'[d].min_key_value \in Slot =>
                       frequency'[d][k - plan'[d].min_key_value] =
                         Cardinality({i \in ReceivedBy(d, p2) : TrueKeys(IterationIn(p2))[i] = k})'
    <3>1. p2 = p  BY <1>1, <1>2, <1>6, <2>11
    <3>2. Cardinality(ReceivedBy(d, p2))' = Cardinality(A \cup B)  BY <2>9, <3>1
    <3>3. \A k : Cardinality({i \in ReceivedBy(d, p2) : TrueKeys(IterationIn(p2))[i] = k})'
                   = Cardinality({i \in A \cup B : h[i] = k})
      BY <2>9, <2>10, <3>1 DEF IterationIn
    <3>4. plan' = plan  BY <1>2
    <3>. HIDE DEF A, B, h
    <3>. QED  BY <2>7, <2>8, <3>2, <3>3, <3>4
  <2>. QED  BY <1>6, <2>11 DEF FrequencyOf
<1>. QED  BY <1>5, <1>6

LEMMA NetReceives ==
  ASSUME Control, ExchangeInv, NEW m \in net, Receive(m)
  PROVE  NetInv'
<1>1. net' = net \ {m} /\ UNCHANGED <<job, pc, calls, timed, current_iteration>>
  BY DEF Receive
<1>2. /\ ActiveRank' = ActiveRank /\ \A x, y : CallNumber(x, y)' = CallNumber(x, y)
      /\ \A r, x, it : For(r, x, it)' = For(r, x, it)
      /\ \A x, r, y : MessageIn(x, r, y)' = MessageIn(x, r, y)
  BY <1>1, JobStays, DataStays
<1>3. ASSUME NEW n \in net'
      PROVE  \E p \in Pass, s, d \in ActiveRank :
               /\ n = MessageIn(p, s, d)' /\ For(s, d, IterationIn(p))' # {}
               /\ Sent(s, p)' /\ pc'[d] \in Receiving /\ PassOf(d)' = p
  <2>1. PICK p \in Pass, s \in ActiveRank, d \in ActiveRank :
          /\ n = MessageIn(p, s, d) /\ For(s, d, IterationIn(p)) # {}
          /\ Sent(s, p) /\ pc[d] \in Receiving /\ PassOf(d) = p
    BY <1>1, <1>3 DEF ExchangeInv, NetInv
  <2>2. Sent(s, p)' /\ PassOf(d)' = p /\ pc'[d] \in Receiving
    BY <1>1, <1>2, <2>1 DEF Sent, PassOf
  <2>3. n = MessageIn(p, s, d)' /\ For(s, d, IterationIn(p))' # {}
    BY <1>2, <2>1 DEF IterationIn
  <2>. QED  BY <2>2, <2>3
<1>. QED  BY <1>2, <1>3 DEF NetInv, IterationIn

-----------------------------------------------------------------------------
LEMMA InvFromInit ==
  Init => IInv
<1>. SUFFICES ASSUME Init  PROVE IInv
  OBVIOUS
<1>1. Control /\ JobInv  BY ControlFromInit DEF Control
<1>2. /\ net = {} /\ ActiveRank \subseteq Rank /\ 0 \in Rank
      /\ \A r \in Rank : /\ Len(calls[r]) = 0 /\ pc[r] = "start" /\ active[r] = FALSE
                         /\ phase[r] = 0
  <2>1. \A r \in Rank : calls[r] = << >>  BY DEF Init
  <2>2. Len(<< >>) = 0  OBVIOUS
  <2>. QED  BY <1>1, <2>1, <2>2, JobFacts DEF Init
<1>3. ASSUME NEW p \in Pass, NEW point \in {"sizes", "totals", "handler"}
      PROVE  CallNumber(point, p) > 0 /\ CallNumber(point, p) \in Int
  <2>1. p \in Nat /\ Offset \in {0, 1}  BY <1>1, JobFacts, Constants DEF Pass
  <2>. QED  BY <2>1 DEF CallNumber, Place, Receiving
<1>4. ValueInv  BY <1>2, <1>3 DEF ValueInv
<1>5. DataInv  BY <1>2 DEF DataInv, DataOf, Iterating, Receiving, Ending
<1>6. ExchangeInv
  <2>1. \A r \in Rank : PhaseOf(r)  BY <1>2 DEF PhaseOf, Receiving, Setup
  <2>2. NetInv  BY <1>2 DEF NetInv
  <2>3. \A d \in ActiveRank, p \in Pass : ~ Finished(d, p)  BY <1>2, <1>3 DEF Finished
  <2>4. \A d \in ActiveRank : FrequencyOf(d)  BY <1>2 DEF FrequencyOf, Receiving, Ending
  <2>. QED  BY <2>1, <2>2, <2>3, <2>4 DEF ExchangeInv
<1>. QED  BY <1>1, <1>4, <1>5, <1>6 DEF IInv

LEMMA InvStutters ==
  ASSUME IInv, UNCHANGED vars
  PROVE  ValueInv' /\ DataInv' /\ ExchangeInv'
<1>1. Control /\ ValueInv /\ DataInv /\ ExchangeInv /\ AllSent /\ \A r \in Rank : PhaseOf(r)
  BY DEF IInv, ExchangeInv, AllSent
<1>2. Still /\ UNCHANGED <<job, plan, frequency, recv_count, net, pc>>
  BY DEF vars, Still, counts, exchange
<1>3. /\ Rank' = Rank /\ ActiveRank' = ActiveRank
      /\ \A r, x, it : For(r, x, it)' = For(r, x, it)
      /\ \A x, r, y : MessageIn(x, r, y)' = MessageIn(x, r, y)
  BY <1>2, JobStays, DataStays
<1>4. /\ ValueInv' /\ DataInv' /\ \A r \in Rank : PhaseOf(r)' /\ PassOf(r)' = PassOf(r)
      /\ AllSent' /\ \A s, p : Sent(s, p)' = Sent(s, p)
  BY <1>1, <1>2, StillKeeps
<1>5. ActiveRank \subseteq Rank  BY <1>1, JobFacts DEF Control
<1>6. NetInv'
  <2>1. ASSUME NEW n \in net
        PROVE  \E p \in Pass, s, d \in ActiveRank :
                 /\ n = MessageIn(p, s, d)' /\ For(s, d, IterationIn(p))' # {}
                 /\ Sent(s, p)' /\ pc'[d] \in Receiving /\ PassOf(d)' = p
    BY <1>1, <1>2, <1>3, <1>4, <1>5 DEF ExchangeInv, NetInv, IterationIn
  <2>. QED  BY <1>2, <1>3, <2>1 DEF NetInv, IterationIn
<1>7. ASSUME NEW d \in ActiveRank  PROVE FrequencyOf(d)'
  <2>1. \A p \in Pass : ReceivedBy(d, p)' = ReceivedBy(d, p)
    BY <1>2, <1>3, <1>4 DEF ReceivedBy, Arrived, IterationIn
  <2>2. FrequencyOf(d) /\ PassOf(d)' = PassOf(d)  BY <1>1, <1>4, <1>5 DEF ExchangeInv
  <2>. QED  BY <1>2, <2>1, <2>2, FrequencyKept
<1>. QED  BY <1>3, <1>4, <1>6, <1>7 DEF ExchangeInv, AllSent

LEMMA InvNext ==
  IInv /\ [Next]_vars => IInv'
<1>. SUFFICES ASSUME IInv, [Next]_vars  PROVE IInv'
  OBVIOUS
<1>1. Control /\ ValueInv /\ DataInv /\ ExchangeInv /\ Control'
  BY ControlNext DEF IInv
<1>2. ASSUME NEW q \in Rank, RankStep(q)  PROVE ValueInv' /\ DataInv' /\ ExchangeInv'
  BY <1>1, <1>2, DataStep, ExchangeStep
<1>3. ASSUME NEW m \in net, Receive(m)  PROVE ValueInv' /\ DataInv' /\ ExchangeInv'
  <2>1. Still  BY <1>3 DEF Receive, Still
  <2>2. AllSent /\ \A r \in Rank : PhaseOf(r)  BY <1>1 DEF ExchangeInv, AllSent
  <2>3. ValueInv' /\ DataInv' /\ AllSent' /\ \A r \in Rank : PhaseOf(r)'
    BY <1>1, <2>1, <2>2, StillKeeps
  <2>4. NetInv'  BY <1>1, <1>3, NetReceives
  <2>5. \A d \in ActiveRank : FrequencyOf(d)'  BY <1>1, <1>3, FrequencyReceives
  <2>6. Rank' = Rank /\ ActiveRank' = ActiveRank
    <3>1. UNCHANGED job  BY <2>1 DEF Still
    <3>. QED  BY <3>1, JobStays
  <2>. QED  BY <2>3, <2>4, <2>5, <2>6 DEF ExchangeInv, AllSent
<1>4. ASSUME UNCHANGED vars  PROVE ValueInv' /\ DataInv' /\ ExchangeInv'
  BY <1>4, InvStutters
<1>. QED  BY <1>1, <1>2, <1>3, <1>4 DEF IInv, Next

(* The inductive invariant of the whole run holds.                         *)
THEOREM InvHolds == Spec => []IInv
BY InvFromInit, InvNext, PTL DEF Spec

(* Keys on their way reach a rank in the redistribution they were sent in, *)
(* with its handler registered and its histogram cleared: no rank leaves   *)
(* the barrier of set_am_handler() before all are in it, and none leaves   *)
(* redistribute_keys_with_lci() before all its keys have come.             *)
THEOREM MessagesInTime == Spec => []MessagesMeetTheirPhase
<1>1. IInv => MessagesMeetTheirPhase
  <2>. SUFFICES ASSUME IInv, NEW m \in net
                PROVE  active[m.dst] /\ phase[m.dst] = m.phase
    BY DEF MessagesMeetTheirPhase
  <2>1. PICK p \in Pass, s \in ActiveRank, d \in ActiveRank :
          m = MessageIn(p, s, d) /\ pc[d] \in Receiving /\ PassOf(d) = p
    BY DEF IInv, ExchangeInv, NetInv
  <2>2. m.dst = d /\ m.phase = p + 1  BY <2>1 DEF MessageIn
  <2>3. PhaseOf(d)  BY JobFacts DEF IInv, ExchangeInv, Control
  <2>. QED  BY <2>1, <2>2, <2>3 DEF PhaseOf
<1>. QED  BY <1>1, InvHolds, PTL

(* The key range of a rank fits in its histogram, which has the size of    *)
(* compute_work_buffer_size(): nothing in the code sees to it, it is the   *)
(* keys being spread that makes it so.                                     *)
RangesFit ==
  \A r \in ActiveRank : pc[r] = "exchange" =>
    plan[r].max_key_value - plan[r].min_key_value < WorkBufferSize

(* A rank that leaves redistribute_keys_with_lci() has counted, for every  *)
(* key of its range, all the keys of the ranks that have this value in     *)
(* this iteration: what the plan makes it wait for is what the ranks post, *)
(* and they all have the same plan.                                        *)
THEOREM HistogramCounts == Spec => [](RangesFit => HistogramExact)
<1>1. IInv /\ RangesFit => HistogramExact
  <2>. SUFFICES ASSUME IInv, RangesFit, NEW d \in ActiveRank, pc[d] = "exchange", ReceivedAll(d),
                       NEW k \in plan[d].min_key_value .. plan[d].max_key_value
                PROVE  frequency[d][k - plan[d].min_key_value] =
                         Cardinality({i \in AllKeys : TrueKeys(IterationOf(d))[i] = k})
    BY DEF HistogramExact
  <2>1. Control /\ DataInv /\ ValueInv /\ FrequencyOf(d) /\ d \in Rank
    BY JobFacts DEF IInv, ExchangeInv, Control
  <2>2. PICK p \in Pass : /\ p = PassOf(d) /\ IterationOf(d) = IterationIn(p)
                          /\ IterationAt(d) = IterationIn(p)
    BY <2>1, IterationHere DEF Iterating, IterationOf
  <2>3. Runs /\ Rank = ActiveRank /\ DataOf(d) /\ IterationIn(p) \in 0 .. MAX_ITERATIONS
    BY <2>1, Everything, Constants DEF Iterating, IterationIn, Pass
  <2>4. /\ plan[d].min_key_value \in Nat /\ plan[d].max_key_value \in Int
        /\ k \in KeyValue /\ Route(IterationIn(p))[BucketOf(k)] = d
    <3>1. plan[d] = Plan(TotalCounts(IterationIn(p)), d)  BY <2>2, <2>3 DEF DataOf, Receiving
    <3>. QED  BY <2>3, <3>1, PlanIs
  <2>5. k - plan[d].min_key_value \in Slot
    <3>1. plan[d].max_key_value - plan[d].min_key_value < WorkBufferSize  BY DEF RangesFit
    <3>. QED  BY <2>4, <3>1, Constants DEF Slot
  <2>6. ReceivedBy(d, p) = ForRank(d, IterationIn(p))
    BY <2>1, <2>2, AllArrived
  <2>7. frequency[d][k - plan[d].min_key_value] =
          Cardinality({i \in ForRank(d, IterationIn(p)) : TrueKeys(IterationIn(p))[i] = k})
    BY <2>1, <2>2, <2>5, <2>6 DEF FrequencyOf, Receiving
  <2>8. {i \in ForRank(d, IterationIn(p)) : TrueKeys(IterationIn(p))[i] = k}
          = {i \in AllKeys : TrueKeys(IterationIn(p))[i] = k}
    BY <2>4 DEF ForRank
  <2>. QED  BY <2>2, <2>7, <2>8
<1>. QED  BY <1>1, InvHolds, PTL

-----------------------------------------------------------------------------

(* The end of the run: what the histograms say of the order of the keys.   *)

(* A sum with one term.                                                    *)
LEMMA SumOfOne ==
  ASSUME NEW S, IsFiniteSet(S), NEW o \in S, NEW v \in Int, NEW values,
         \A x \in S : values[x] = IF x = o THEN v ELSE 0
  PROVE  SumOver(values, S) = v
<1>. DEFINE g == [s \in SUBSET S |-> IF o \in s THEN v ELSE 0]
<1>1. \A s \in SUBSET S : \A x \in s : g[s] = values[x] + g[s \ {x}]
  OBVIOUS
<1>2. g[{}] = 0 /\ g = [s \in SUBSET S |-> g[s]] /\ g[S] = v
  OBVIOUS
<1>. HIDE DEF g
<1>3. Sums(g, values, S)  BY <1>1, <1>2 DEF Sums
<1>. QED  BY <1>2, <1>3, SumIs

LEMMA Tests ==
  /\ IsFiniteSet(Test) /\ Cardinality(Test) \in Nat
  /\ \A t \in Test : /\ t \in Nat /\ NumBuckets + t \in CountIndex /\ NumBuckets + t \notin Bucket
                     /\ (NumBuckets + t) - NumBuckets = t /\ TestIndex[t] \in AllKeys
<1>1. IsFiniteSet(Test) /\ Test = 0 .. Cardinality(Test) - 1
      /\ \A t \in Test : TestIndex[t] \in AllKeys
  BY RunAssumption
<1>2. Cardinality(Test) \in Nat  BY <1>1, FS_CardinalityType
<1>3. \A t \in Test : t \in 0 .. Cardinality(Test) - 1  BY <1>1
<1>4. ASSUME NEW t \in Test
      PROVE  /\ t \in Nat /\ NumBuckets + t \in CountIndex /\ NumBuckets + t \notin Bucket
             /\ (NumBuckets + t) - NumBuckets = t
  <2>1. t \in 0 .. Cardinality(Test) - 1  BY <1>3
  <2>2. NumBuckets \in Nat \ {0}  BY Constants
  <2>. QED  BY <1>2, <2>1, <2>2 DEF CountIndex, Bucket
<1>. QED  BY <1>1, <1>2, <1>4

(* The reduction finds each hidden test key on the one rank that has it.   *)
LEMMA HiddenIs ==
  ASSUME Runs, Rank = ActiveRank, NEW it \in 0 .. MAX_ITERATIONS, NEW t \in Test
  PROVE  TotalCounts(it)[NumBuckets + t] = TrueKeys(it)[TestIndex[t]]
<1>. DEFINE x == NumBuckets + t
            n == TestIndex[t]
            o == n \div local_key_count
            v == TrueKeys(it)[n]
            values == [s \in Rank |-> CountsOf(s, it)[x]]
<1>1. x \in CountIndex /\ x \notin Bucket /\ x - NumBuckets = t /\ n \in AllKeys
  BY Tests
<1>2. /\ o \in Rank /\ n % local_key_count \in LocalIndex
      /\ n = o * local_key_count + (n % local_key_count)
  BY <1>1, Slices
<1>3. v \in Int  BY <1>1, KeysAre DEF KeyValue
<1>4. ASSUME NEW s \in Rank  PROVE values[s] = IF s = o THEN v ELSE 0
  <2>1. values[s] = HiddenKey(s, KeysOf(s, it), n)
    BY <1>1 DEF CountsOf, LocalCounts
  <2>2. CASE s = o
    <3>1. values[s] = KeysOf(s, it)[n % local_key_count]  BY <2>1, <2>2 DEF HiddenKey
    <3>2. KeysOf(s, it)[n % local_key_count] = TrueKeys(it)[s * local_key_count + (n % local_key_count)]
      BY <1>2 DEF KeysOf, LocalIndex
    <3>. QED  BY <1>2, <2>2, <3>1, <3>2
  <2>3. CASE s # o  BY <2>1, <2>3 DEF HiddenKey
  <2>. QED  BY <2>2, <2>3
<1>5. TotalCounts(it)[x] = SumOver(values, Rank)
  BY <1>1 DEF TotalCounts, Sum
<1>6. IsFiniteSet(Rank)  BY JobFacts, FS_Interval DEF Runs, Rank
<1>. HIDE DEF values, v, o
<1>7. SumOver(values, Rank) = v  BY <1>2, <1>3, <1>4, <1>6, SumOfOne
<1>. QED  BY <1>5, <1>7 DEF v

(* Greater keys go to greater ranks.                                       *)
LEMMA RouteAscends ==
  ASSUME Runs, Rank = ActiveRank, NEW it \in 0 .. MAX_ITERATIONS,
         NEW x \in KeyValue, NEW y \in KeyValue
  PROVE  /\ Route(it)[BucketOf(x)] \in Nat
         /\ x <= y => Route(it)[BucketOf(x)] <= Route(it)[BucketOf(y)]
<1>1. ASSUME NEW k \in KeyValue  PROVE BucketOf(k) \in Bucket /\ BucketOf(k) \in 0 .. NumBuckets
  <2>1. k \in Nat /\ k <= (NumBuckets - 1 + 1) * KeysPerBucket - 1
        /\ KeysPerBucket \in Nat \ {0} /\ NumBuckets - 1 \in Nat
    BY Constants DEF KeyValue
  <2>2. k \div KeysPerBucket <= NumBuckets - 1  BY <2>1, Blocks
  <2>3. k \div KeysPerBucket \in Nat  BY <2>1, Division
  <2>. QED  BY <2>1, <2>2, <2>3, Constants DEF BucketOf, Bucket
<1>2. Ascends(Route(it))  BY Routes
<1>3. BucketOf(x) \in 0 .. NumBuckets /\ BucketOf(y) \in 0 .. NumBuckets  BY <1>1
<1>4. ASSUME x <= y  PROVE BucketOf(x) <= BucketOf(y)
  <2>1. x \in Nat /\ y \in Nat /\ KeysPerBucket \in Nat \ {0}  BY Constants DEF KeyValue
  <2>2. x \div KeysPerBucket \in Nat /\ y \div KeysPerBucket \in Nat  BY <2>1, Division
  <2>3. (x \div KeysPerBucket) * KeysPerBucket <= x  BY <2>1, <2>2, Blocks
  <2>4. (x \div KeysPerBucket) * KeysPerBucket \in Nat  BY <2>1, <2>2
  <2>5. (x \div KeysPerBucket) * KeysPerBucket <= y  BY <1>4, <2>1, <2>3, <2>4
  <2>. QED  BY <2>1, <2>2, <2>5, Blocks DEF BucketOf
<1>. QED  BY <1>2, <1>3, <1>4, Ascent DEF Ascends

(* The keys that go to the ranks before d.                                 *)
Lesser(d, it) == {i \in AllKeys : Route(it)[BucketOf(TrueKeys(it)[i])] < d}

LEMMA PlanCounts ==
  ASSUME Runs, Rank = ActiveRank, NEW it \in 0 .. MAX_ITERATIONS, NEW d \in ActiveRank
  PROVE  LET p == Plan(TotalCounts(it), d)
         IN  /\ p.local_key_count = Cardinality(ForRank(d, it))
             /\ p.lesser_key_count = Cardinality(Lesser(d, it))
             /\ \A k \in KeyValue : Route(it)[BucketOf(k)] = d => k \in p.min_key_value .. p.max_key_value
<1>. DEFINE g == TotalCounts(it)
            p == Plan(g, d)
            owner == Route(it)
            keys_of == [s \in 0 .. d |-> SumOver(g, Interval(owner, s))]
            F == FirstBucket(owner, d)
            L == LastBucket(owner, d)
<1>1. /\ p.min_key_value = F * KeysPerBucket
      /\ p.max_key_value = (L + 1) * KeysPerBucket - 1
      /\ p.local_key_count = keys_of[d]
      /\ p.lesser_key_count = SumOver(keys_of, 0 .. d - 1)
  BY DEF Plan, Route
<1>2. d \in Nat /\ 0 .. d \subseteq ActiveRank
  BY Shares DEF ActiveRank
<1>3. ASSUME NEW s \in 0 .. d  PROVE keys_of[s] = Cardinality(ForRank(s, it))
  <2>1. s \in 0 .. s /\ s \in ActiveRank  BY <1>2
  <2>2. Plan(g, s).expected_recv_count = SumOver(g, Interval(owner, s))
    BY <2>1 DEF Plan, Route
  <2>3. Plan(g, s).expected_recv_count = Cardinality(ForRank(s, it))
    BY <2>1, PlanIs
  <2>. QED  BY <2>2, <2>3
<1>4. SumOver(keys_of, 0 .. d - 1) = Cardinality(Lesser(d, it))
  <2>. DEFINE h == [i \in AllKeys |-> owner[BucketOf(TrueKeys(it)[i])]]
              S == 0 .. d - 1
  <2>1. \A s \in S : keys_of[s] = Cardinality(Class(AllKeys, h, s))
    <3>1. \A s \in S : Class(AllKeys, h, s) = ForRank(s, it)  BY DEF Class, ForRank
    <3>2. \A s \in S : s \in 0 .. d  BY <1>2
    <3>. HIDE DEF h, keys_of
    <3>. QED  BY <1>3, <3>1, <3>2
  <2>2. IsFiniteSet(S)  BY <1>2, FS_Interval
  <2>3. SumOver(keys_of, S) = Cardinality(Within(AllKeys, h, S))
    <3>. HIDE DEF h, keys_of, S
    <3>. QED  BY <2>1, <2>2, KeysFinite, SumOfClasses
  <2>4. Within(AllKeys, h, S) = Lesser(d, it)
    <3>1. \A i \in AllKeys : h[i] \in Nat
      BY KeysAre, RouteAscends
    <3>. QED  BY <1>2, <3>1 DEF Within, Lesser
  <2>. QED  BY <2>3, <2>4
<1>5. ASSUME NEW k \in KeyValue, owner[BucketOf(k)] = d
      PROVE  k \in F * KeysPerBucket .. (L + 1) * KeysPerBucket - 1
  <2>1. Interval(owner, d) = {b \in Bucket : owner[b] = d} /\ F \in Nat /\ L \in Bucket
    <3>1. active_rank_count \in Nat \ {0} /\ d \in 0 .. active_rank_count - 1
      BY Shares DEF ActiveRank
    <3>. QED  BY <3>1, Routes, Intervals
  <2>2. k \in Nat /\ KeysPerBucket \in Nat \ {0} /\ NumBuckets \in Nat \ {0}
        /\ k <= (NumBuckets - 1 + 1) * KeysPerBucket - 1
    BY Constants DEF KeyValue
  <2>3. k \div KeysPerBucket \in Nat /\ k \div KeysPerBucket <= NumBuckets - 1
    <3>1. NumBuckets - 1 \in Nat  BY <2>2
    <3>. QED  BY <2>2, <3>1, Blocks, Division
  <2>4. BucketOf(k) \in Bucket  BY <2>2, <2>3 DEF BucketOf, Bucket
  <2>5. BucketOf(k) \in F .. L
    <3>1. BucketOf(k) \in Interval(owner, d)  BY <1>5, <2>1, <2>4
    <3>. QED  BY <3>1 DEF Interval
  <2>6. L \in Nat  BY <2>1 DEF Bucket
  <2>. HIDE DEF F, L, owner
  <2>7. F <= k \div KeysPerBucket /\ k \div KeysPerBucket <= L
    BY <2>1, <2>5, <2>6 DEF BucketOf
  <2>8. F * KeysPerBucket <= k /\ k <= (L + 1) * KeysPerBucket - 1
    BY <2>1, <2>2, <2>6, <2>7, Blocks
  <2>9. F * KeysPerBucket \in Int /\ (L + 1) * KeysPerBucket - 1 \in Int
    BY <2>1, <2>2, <2>6
  <2>. QED  BY <2>2, <2>8, <2>9
<1>6. keys_of[d] = Cardinality(ForRank(d, it))
  BY <1>2, <1>3
<1>. HIDE DEF keys_of
<1>. QED  BY <1>1, <1>4, <1>5, <1>6

(* The histogram of rank d has counted all its keys of iteration it, and   *)
(* its plan is that of the iteration.                                      *)
Exact(d, it) ==
  /\ plan[d] = Plan(TotalCounts(it), d)
  /\ \A k \in plan[d].min_key_value .. plan[d].max_key_value : k - plan[d].min_key_value \in Slot =>
       frequency[d][k - plan[d].min_key_value] =
         Cardinality({i \in ForRank(d, it) : TrueKeys(it)[i] = k})

LEMMA ForFinite ==
  ASSUME NEW d, NEW it, NEW k
  PROVE  /\ IsFiniteSet(ForRank(d, it)) /\ Cardinality(ForRank(d, it)) \in Nat
         /\ IsFiniteSet(UpToKey(d, it, k)) /\ Cardinality(UpToKey(d, it, k)) \in Nat
         /\ IsFiniteSet(Lesser(d, it)) /\ Cardinality(Lesser(d, it)) \in Nat
<1>1. ForRank(d, it) \in SUBSET AllKeys /\ UpToKey(d, it, k) \in SUBSET AllKeys
      /\ Lesser(d, it) \in SUBSET AllKeys
  BY DEF ForRank, UpToKey, Lesser
<1>2. IsFiniteSet(ForRank(d, it)) /\ IsFiniteSet(UpToKey(d, it, k)) /\ IsFiniteSet(Lesser(d, it))
  BY <1>1, KeysFinite, FS_Subset
<1>. QED  BY <1>2, FS_CardinalityType

LEMMA CumulativeIs ==
  ASSUME Runs, Rank = ActiveRank, NEW it \in 0 .. MAX_ITERATIONS, NEW d \in ActiveRank,
         Exact(d, it), Fits(d, it), NEW k \in Int, k <= plan[d].max_key_value
  PROVE  Cumulative(d, k) = Cardinality(UpToKey(d, it, k))
<1>. DEFINE base == plan[d].min_key_value
            A == ForRank(d, it)
            h == [i \in A |-> TrueKeys(it)[i] - base]
            S == 0 .. k - base
            values == frequency[d]
<1>1. /\ base \in Nat /\ plan[d].max_key_value \in Int
      /\ \A x \in KeyValue : Route(it)[BucketOf(x)] = d => x \in base .. plan[d].max_key_value
  BY PlanIs, PlanCounts DEF Exact
<1>2. plan[d].max_key_value - base < WorkBufferSize /\ WorkBufferSize \in Nat
  BY Constants DEF Exact, Fits
<1>3. ASSUME NEW i \in A  PROVE TrueKeys(it)[i] \in base .. plan[d].max_key_value
  BY <1>1, KeysAre DEF ForRank
<1>4. ASSUME NEW x \in S  PROVE values[x] = Cardinality(Class(A, h, x))
  <2>1. x + base \in base .. plan[d].max_key_value /\ (x + base) - base = x /\ x \in Slot
    BY <1>1, <1>2 DEF Slot
  <2>2. values[x] = Cardinality({i \in A : TrueKeys(it)[i] = x + base})
    <3>1. \A y \in base .. plan[d].max_key_value : y - base \in Slot =>
            values[y - base] = Cardinality({i \in A : TrueKeys(it)[i] = y})
      BY DEF Exact
    <3>. HIDE DEF values, A, base
    <3>. QED  BY <2>1, <3>1
  <2>3. {i \in A : TrueKeys(it)[i] = x + base} = Class(A, h, x)
    <3>1. \A i \in A : h[i] = TrueKeys(it)[i] - base /\ TrueKeys(it)[i] \in Int  BY <1>1, <1>3
    <3>2. x \in Int /\ base \in Int  BY <1>1
    <3>3. \A i \in A : TrueKeys(it)[i] = x + base <=> h[i] = x
      <4>. HIDE DEF h, A, base
      <4>. QED  BY <3>1, <3>2
    <3>. HIDE DEF h
    <3>. QED  BY <3>3 DEF Class
  <2>. QED  BY <2>2, <2>3
<1>5. SumOver(values, S) = Cardinality(Within(A, h, S))
  <2>1. IsFiniteSet(A) /\ IsFiniteSet(S)
    <3>1. IsFiniteSet(A)  BY ForFinite
    <3>2. k - base \in Int  BY <1>1
    <3>. QED  BY <3>1, <3>2, FS_Interval
  <2>. HIDE DEF A, h, S, values
  <2>. QED  BY <1>4, <2>1, SumOfClasses
<1>6. Within(A, h, S) = UpToKey(d, it, k)
  <2>1. \A i \in A : h[i] = TrueKeys(it)[i] - base /\ TrueKeys(it)[i] \in Int /\ base <= TrueKeys(it)[i]
    BY <1>1, <1>3
  <2>2. \A i \in A : h[i] \in S <=> TrueKeys(it)[i] <= k
    <3>1. base \in Nat  BY <1>1
    <3>. HIDE DEF h, A, base
    <3>. QED  BY <2>1, <3>1
  <2>. HIDE DEF h, S
  <2>. QED  BY <2>2 DEF Within, UpToKey
<1>. QED  BY <1>5, <1>6 DEF Cumulative

(* Where a key of a rank is among all the keys.                            *)
LEMMA PlaceIs ==
  ASSUME Runs, Rank = ActiveRank, NEW it \in 0 .. MAX_ITERATIONS, NEW d \in ActiveRank,
         NEW key \in KeyValue, Route(it)[BucketOf(key)] = d
  PROVE  /\ Cardinality({i \in AllKeys : TrueKeys(it)[i] < key})
              = Cardinality(Lesser(d, it)) + Cardinality(UpToKey(d, it, key - 1))
         /\ Cardinality({i \in AllKeys : TrueKeys(it)[i] <= key})
              = Cardinality(Lesser(d, it)) + Cardinality(UpToKey(d, it, key))
<1>. DEFINE route(i) == Route(it)[BucketOf(TrueKeys(it)[i])]
<1>1. \A i \in AllKeys : TrueKeys(it)[i] \in KeyValue /\ TrueKeys(it)[i] \in Nat
  BY KeysAre DEF KeyValue
<1>2. key \in Nat  BY DEF KeyValue
<1>3. d \in Nat  BY Shares DEF ActiveRank
<1>4. ASSUME NEW i \in AllKeys
      PROVE  /\ route(i) \in Nat
             /\ TrueKeys(it)[i] <= key => route(i) <= d
             /\ key <= TrueKeys(it)[i] => d <= route(i)
  BY <1>1, RouteAscends
<1>5. {i \in AllKeys : TrueKeys(it)[i] < key} = Lesser(d, it) \cup UpToKey(d, it, key - 1)
  <2>1. ASSUME NEW i \in AllKeys
        PROVE  TrueKeys(it)[i] < key <=> route(i) < d \/ (route(i) = d /\ TrueKeys(it)[i] <= key - 1)
    <3>1. TrueKeys(it)[i] \in Nat  BY <1>1
    <3>. HIDE DEF route
    <3>. QED  BY <1>2, <1>3, <1>4, <3>1
  <2>. QED  BY <2>1 DEF Lesser, UpToKey, ForRank
<1>6. {i \in AllKeys : TrueKeys(it)[i] <= key} = Lesser(d, it) \cup UpToKey(d, it, key)
  <2>1. ASSUME NEW i \in AllKeys
        PROVE  TrueKeys(it)[i] <= key <=> route(i) < d \/ (route(i) = d /\ TrueKeys(it)[i] <= key)
    <3>1. TrueKeys(it)[i] \in Nat  BY <1>1
    <3>. HIDE DEF route
    <3>. QED  BY <1>2, <1>3, <1>4, <3>1
  <2>. QED  BY <2>1 DEF Lesser, UpToKey, ForRank
<1>7. \A k : Lesser(d, it) \cap UpToKey(d, it, k) = {}
  BY <1>3 DEF Lesser, UpToKey, ForRank
<1>. QED  BY <1>5, <1>6, <1>7, ForFinite, TwoParts

(* A rank that has all its keys, or is past the last iteration.            *)
LEMMA ExactThen ==
  ASSUME IInv, NEW d \in Rank, (pc[d] = "exchange" /\ ReceivedAll(d)) \/ pc[d] \in Ending
  PROVE  /\ Runs /\ Rank = ActiveRank /\ TypeOK /\ d \in ActiveRank
         /\ current_iteration[d] \in Iteration /\ Exact(d, current_iteration[d])
         /\ plan[d] = Plan(TotalCounts(current_iteration[d]), d)
<1>. DEFINE p == PassOf(d)
            it == current_iteration[d]
<1>1. Control /\ DataInv /\ ValueInv /\ ExchangeInv  BY DEF IInv
<1>2. Runs /\ Rank = ActiveRank /\ d \in ActiveRank  BY <1>1, AllActive DEF Iterating
<1>3. DataOf(d) /\ FrequencyOf(d) /\ TypeOK  BY <1>1, <1>2 DEF DataInv, ExchangeInv, Control
<1>4. it \in Iteration /\ it = IterationIn(p) /\ p \in Pass /\ IterationAt(d) = it
  <2>1. CASE pc[d] = "exchange"  BY <1>1, <2>1, IterationHere DEF Iterating
  <2>2. CASE pc[d] \in Ending
    <3>1. PassOf(d) = MAX_ITERATIONS /\ current_iteration[d] = MAX_ITERATIONS
      BY <1>1, <2>2, Here DEF Ending
    <3>. QED  BY <2>2, <3>1, Constants DEF IterationIn, IterationAt, Pass, Iteration, Ending
  <2>. QED  BY <2>1, <2>2
<1>5. plan[d] = Plan(TotalCounts(it), d)
  BY <1>3, <1>4 DEF DataOf, Receiving
<1>6. ReceivedBy(d, p) = ForRank(d, it)
  <2>1. CASE pc[d] = "exchange"  BY <1>1, <1>3, <1>4, <2>1, AllArrived DEF Ending
  <2>2. CASE pc[d] \in Ending
    <3>1. Finished(d, p)
      <4>1. Len(calls[d]) = CallNumber(pc[d], p) /\ p \in Nat  BY <1>1, <2>2, Here DEF Ending
      <4>2. CallNumber(pc[d], p) > CallNumber("handler", p)
        <5>1. JobInv /\ Offset \in Nat  BY <1>1, JobFacts DEF Control
        <5>2. /\ CallNumber("handler", p) = Offset + 7 + 4 * p /\ CallNumber("time", p) = Offset + 8 + 4 * p
              /\ CallNumber("chain", p) = Offset + 8 + 4 * p /\ CallNumber("passed", p) = Offset + 9 + 4 * p
              /\ CallNumber("tmin", p) = Offset + 10 + 4 * p /\ CallNumber("tsum", p) = Offset + 11 + 4 * p
              /\ CallNumber("tmax", p) = Offset + 12 + 4 * p
          BY <4>1, <5>1, Numbers
        <5>. HIDE DEF p
        <5>. QED  BY <2>2, <4>1, <5>1, <5>2 DEF Ending
      <4>. QED  BY <4>1, <4>2 DEF Finished
    <3>2. \A s \in ActiveRank : For(s, d, it) # {} => Sent(s, p)
      BY <1>1, <1>2, <1>4, <3>1 DEF ExchangeInv
    <3>3. \A s \in ActiveRank : MessageIn(p, s, d) \notin net
      <4>. SUFFICES ASSUME NEW s \in ActiveRank, MessageIn(p, s, d) \in net  PROVE FALSE
        OBVIOUS
      <4>1. PICK p2 \in Pass, s2 \in ActiveRank, d2 \in ActiveRank :
              MessageIn(p, s, d) = MessageIn(p2, s2, d2) /\ pc[d2] \in Receiving
        BY <1>1 DEF ExchangeInv, NetInv
      <4>2. d2 = d  BY <1>4, <4>1, MessagesDiffer
      <4>. QED  BY <2>2, <4>1, <4>2 DEF Receiving, Ending
    <3>4. \A s \in ActiveRank : For(s, d, it) # {} => Arrived(s, d, p)
      BY <3>2, <3>3 DEF Arrived
    <3>5. \A i \in ForRank(d, it) : \E s \in ActiveRank : i \in For(s, d, it)
      BY <1>2, ForParts
    <3>6. \A s : For(s, d, it) = ForRank(d, it) \cap Slice(s)  BY <1>2, ForParts
    <3>7. ForRank(d, it) \in SUBSET AllKeys  BY <1>2, ForParts
    <3>8. ReceivedBy(d, p) = {i \in AllKeys : \E s \in ActiveRank : i \in For(s, d, it) /\ Arrived(s, d, p)}
      BY <1>4 DEF ReceivedBy
    <3>. QED  BY <3>4, <3>5, <3>6, <3>7, <3>8
  <2>. QED  BY <2>1, <2>2
<1>7. \A k \in plan[d].min_key_value .. plan[d].max_key_value : k - plan[d].min_key_value \in Slot =>
        frequency[d][k - plan[d].min_key_value] =
          Cardinality({i \in ForRank(d, it) : TrueKeys(it)[i] = k})
  <2>1. PassOf(d) = p /\ p \in Pass /\ pc[d] \in Receiving \cup Ending /\ IterationIn(p) = it
    BY <1>4 DEF Receiving
  <2>2. \A k \in plan[d].min_key_value .. plan[d].max_key_value : k - plan[d].min_key_value \in Slot =>
          frequency[d][k - plan[d].min_key_value] =
            Cardinality({i \in ReceivedBy(d, p) : TrueKeys(IterationIn(p))[i] = k})
    <3>. HIDE DEF p, it
    <3>. QED  BY <1>3, <2>1 DEF FrequencyOf
  <2>. HIDE DEF p, it
  <2>. QED  BY ONLY <1>6, <2>1, <2>2
<1>. QED  BY <1>2, <1>3, <1>4, <1>5, <1>7 DEF Exact

(* The tests a rank makes in iteration it and that succeed.                *)
PassedIn(r, it) ==
  {t \in Test : <<it, t>> \notin wrong /\ Route(it)[BucketOf(TrueKeys(it)[TestIndex[t]])] = r}

LEMMA Verifies ==
  ASSUME IInv, NEW q \in Rank, pc[q] = "exchange", ReceivedAll(q), KeysFit,
         global[q] = TotalCounts(current_iteration[q])
  PROVE  PartialVerification(q) = Cardinality(PassedIn(q, current_iteration[q]))
<1>. DEFINE it == current_iteration[q]
            lesser == Cardinality(Lesser(q, it))
<1>1. /\ Runs /\ Rank = ActiveRank /\ q \in ActiveRank /\ it \in Iteration
      /\ Exact(q, it) /\ plan[q] = Plan(TotalCounts(it), q)
  BY ExactThen
<1>2. it \in 0 .. MAX_ITERATIONS  BY <1>1, Constants DEF Iteration
<1>3. Fits(q, it)
  <2>1. Sorts  BY <1>1, JobFacts DEF Sorts, Runs, Rank, ActiveRank
  <2>. QED  BY <1>1, <2>1 DEF KeysFit
<1>4. ASSUME NEW t \in Test  PROVE Passes(q, t) <=> t \in PassedIn(q, it)
  <2>. DEFINE key == TrueKeys(it)[TestIndex[t]]
              less == Cardinality({i \in AllKeys : TrueKeys(it)[i] < key})
  <2>1. TestKey(q, t) = key  BY <1>1, <1>2, HiddenIs DEF TestKey
  <2>2. key \in KeyValue /\ key \in Nat  BY <1>1, <1>2, Tests, KeysAre DEF KeyValue
  <2>3. plan[q].min_key_value \in Nat /\ plan[q].max_key_value \in Int
    BY <1>1, <1>2, PlanIs
  <2>4. key >= plan[q].min_key_value /\ key <= plan[q].max_key_value
          <=> Route(it)[BucketOf(key)] = q
    <3>1. key \in plan[q].min_key_value .. plan[q].max_key_value => Route(it)[BucketOf(key)] = q
      BY <1>1, <1>2, PlanIs
    <3>2. Route(it)[BucketOf(key)] = q => key \in plan[q].min_key_value .. plan[q].max_key_value
      BY <1>1, <1>2, <2>2, PlanCounts
    <3>. HIDE DEF key
    <3>. QED  BY <2>2, <2>3, <3>1, <3>2
  <2>5. ASSUME Route(it)[BucketOf(key)] = q
        PROVE  Cumulative(q, key - 1) + plan[q].lesser_key_count = test_rank(it, t) <=> <<it, t>> \notin wrong
    <3>1. Cumulative(q, key - 1) = Cardinality(UpToKey(q, it, key - 1))
      <4>1. key - 1 \in Int /\ key - 1 <= plan[q].max_key_value
        <5>. HIDE DEF key
        <5>. QED  BY <2>2, <2>3, <2>4, <2>5
      <4>. HIDE DEF key
      <4>. QED  BY <1>1, <1>2, <1>3, <4>1, CumulativeIs
    <3>2. plan[q].lesser_key_count = lesser  BY <1>1, <1>2, PlanCounts
    <3>3. less = lesser + Cardinality(UpToKey(q, it, key - 1))
      <4>. HIDE DEF key
      <4>. QED  BY <1>1, <1>2, <2>2, <2>5, PlaceIs
    <3>4. lesser \in Nat /\ Cardinality(UpToKey(q, it, key - 1)) \in Nat
      BY ForFinite
    <3>5. test_rank(it, t) = less + IF <<it, t>> \in wrong THEN 1 ELSE 0
      BY DEF test_rank
    <3>. HIDE DEF less, lesser, key
    <3>. QED  BY <3>1, <3>2, <3>3, <3>4, <3>5
  <2>. HIDE DEF key
  <2>6. Passes(q, t) <=> Route(it)[BucketOf(key)] = q /\ <<it, t>> \notin wrong
    BY <2>1, <2>4, <2>5 DEF Passes
  <2>. QED  BY <2>6 DEF PassedIn, key
<1>5. {t \in Test : Passes(q, t)} = PassedIn(q, it)
  BY <1>4 DEF PassedIn
<1>. QED  BY <1>5 DEF PartialVerification

LEMMA PassedStep ==
  ASSUME NEW r, NEW it \in Iteration
  PROVE  /\ Cardinality(Passed(r, it)) = Cardinality(Passed(r, it - 1)) + Cardinality(PassedIn(r, it))
         /\ Cardinality(Passed(r, 0)) = 0
         /\ Cardinality(Passed(r, it - 1)) \in Nat /\ Cardinality(PassedIn(r, it)) \in Nat
<1>. DEFINE N == {<<it, t>> : t \in PassedIn(r, it)}
<1>1. it \in Nat \ {0} /\ it - 1 \in Nat  BY Constants DEF Iteration
<1>2. Passed(r, it) = Passed(r, it - 1) \cup N
  <2>1. 1 .. it = (1 .. it - 1) \cup {it}  BY <1>1
  <2>2. ASSUME NEW x \in (1 .. it) \X Test
        PROVE  x \in Passed(r, it) <=> x \in Passed(r, it - 1) \/ x \in N
    <3>1. PICK n \in 1 .. it, t \in Test : x = <<n, t>>  OBVIOUS
    <3>2. CASE n = it
      <4>1. x \in N <=> t \in PassedIn(r, it)  BY <3>1, <3>2
      <4>2. x \notin Passed(r, it - 1)  BY <1>1, <3>1, <3>2 DEF Passed
      <4>. QED  BY <3>1, <3>2, <4>1, <4>2 DEF Passed, PassedIn
    <3>3. CASE n # it
      <4>1. n \in 1 .. it - 1  BY <1>1, <3>3
      <4>2. x \notin N  BY <3>1, <3>3
      <4>. QED  BY <3>1, <4>1, <4>2 DEF Passed
    <3>. QED  BY <3>2, <3>3
  <2>3. Passed(r, it) \subseteq (1 .. it) \X Test  BY DEF Passed
  <2>4. Passed(r, it - 1) \subseteq (1 .. it) \X Test  BY <2>1 DEF Passed
  <2>5. N \subseteq (1 .. it) \X Test
    <3>1. it \in 1 .. it  BY <1>1
    <3>2. PassedIn(r, it) \subseteq Test  BY DEF PassedIn
    <3>. QED  BY <3>1, <3>2
  <2>. QED  BY <2>2, <2>3, <2>4, <2>5
<1>3. Passed(r, it - 1) \cap N = {}
  BY <1>1 DEF Passed
<1>4. IsFiniteSet(PassedIn(r, it))
  <2>1. PassedIn(r, it) \in SUBSET Test  BY DEF PassedIn
  <2>. QED  BY <2>1, Tests, FS_Subset
<1>5. IsFiniteSet(Passed(r, it - 1))
  <2>1. IsFiniteSet(1 .. it - 1)  BY <1>1, FS_Interval
  <2>2. IsFiniteSet((1 .. it - 1) \X Test)  BY <2>1, Tests, FS_Product
  <2>3. Passed(r, it - 1) \in SUBSET ((1 .. it - 1) \X Test)  BY DEF Passed
  <2>. QED  BY <2>2, <2>3, FS_Subset
<1>6. IsFiniteSet(N) /\ Cardinality(N) = Cardinality(PassedIn(r, it))
  <2>. DEFINE f == [t \in PassedIn(r, it) |-> <<it, t>>]
  <2>1. f \in Bijection(PassedIn(r, it), N)
    BY DEF Bijection, Injection, Surjection, IsInjective
  <2>2. ExistsBijection(PassedIn(r, it), N)  BY <2>1 DEF ExistsBijection
  <2>. HIDE DEF f, N
  <2>. QED  BY <1>4, <2>2, FS_Bijection
<1>7. Passed(r, 0) = {}  BY DEF Passed
<1>. HIDE DEF N
<1>8. Cardinality(Passed(r, it - 1) \cup N) = Cardinality(Passed(r, it - 1)) + Cardinality(N)
  BY <1>3, <1>5, <1>6, TwoParts
<1>. QED  BY <1>2, <1>4, <1>5, <1>6, <1>7, <1>8, FS_EmptySet, FS_CardinalityType

(* Where full_verify() puts the keys.                                      *)
LEMMA AtEnd ==
  ASSUME IInv, NEW q \in Rank, pc[q] \in {"time", "chain"}, KeysFit
  PROVE  /\ Runs /\ Rank = ActiveRank /\ q \in ActiveRank /\ TypeOK
         /\ Fits(q, MAX_ITERATIONS) /\ Exact(q, MAX_ITERATIONS)
         /\ MAX_ITERATIONS \in Iteration /\ MAX_ITERATIONS \in 0 .. MAX_ITERATIONS
         /\ plan[q] = Plan(TotalCounts(MAX_ITERATIONS), q)
         /\ plan[q].min_key_value \in Nat /\ plan[q].max_key_value \in Int
         /\ plan[q].local_key_count = Cardinality(ForRank(q, MAX_ITERATIONS))
         /\ \A k \in Int : k <= plan[q].max_key_value =>
              Cumulative(q, k) = Cardinality(UpToKey(q, MAX_ITERATIONS, k))
         /\ \A i \in ForRank(q, MAX_ITERATIONS) :
              TrueKeys(MAX_ITERATIONS)[i] \in plan[q].min_key_value .. plan[q].max_key_value
<1>1. pc[q] \in Ending  BY DEF Ending
<1>2. current_iteration[q] = MAX_ITERATIONS  BY <1>1, Here DEF IInv, Ending
<1>3. /\ Runs /\ Rank = ActiveRank /\ q \in ActiveRank /\ TypeOK /\ Exact(q, MAX_ITERATIONS)
      /\ MAX_ITERATIONS \in Iteration /\ plan[q] = Plan(TotalCounts(MAX_ITERATIONS), q)
  BY <1>1, <1>2, ExactThen
<1>4. MAX_ITERATIONS \in 0 .. MAX_ITERATIONS  BY Constants
<1>5. Fits(q, MAX_ITERATIONS)
  <2>1. Sorts  BY <1>3, JobFacts DEF Sorts, Runs, Rank, ActiveRank
  <2>. QED  BY <1>3, <2>1 DEF KeysFit
<1>6. /\ plan[q].min_key_value \in Nat /\ plan[q].max_key_value \in Int
  BY <1>3, <1>4, PlanIs
<1>7. /\ plan[q].local_key_count = Cardinality(ForRank(q, MAX_ITERATIONS))
      /\ \A k \in KeyValue : Route(MAX_ITERATIONS)[BucketOf(k)] = q =>
           k \in plan[q].min_key_value .. plan[q].max_key_value
  BY <1>3, <1>4, PlanCounts
<1>8. \A i \in ForRank(q, MAX_ITERATIONS) :
        TrueKeys(MAX_ITERATIONS)[i] \in plan[q].min_key_value .. plan[q].max_key_value
  BY <1>3, <1>4, <1>7, KeysAre DEF ForRank
<1>9. \A k \in Int : k <= plan[q].max_key_value =>
        Cumulative(q, k) = Cardinality(UpToKey(q, MAX_ITERATIONS, k))
  BY <1>3, <1>4, <1>5, CumulativeIs
<1>. QED  BY <1>3, <1>4, <1>5, <1>6, <1>7, <1>8, <1>9

(* The number of keys up to k, at the ends of the range and between.       *)
LEMMA UpToEnds ==
  ASSUME IInv, NEW q \in Rank, pc[q] \in {"time", "chain"}, KeysFit
  PROVE  /\ Cardinality(UpToKey(q, MAX_ITERATIONS, plan[q].max_key_value))
              = Cardinality(ForRank(q, MAX_ITERATIONS))
         /\ Cardinality(UpToKey(q, MAX_ITERATIONS, plan[q].min_key_value - 1)) = 0
         /\ Cardinality(ForRank(q, MAX_ITERATIONS)) > 0 =>
              plan[q].min_key_value <= plan[q].max_key_value
<1>. DEFINE it == MAX_ITERATIONS
            min == plan[q].min_key_value
            max == plan[q].max_key_value
<1>1. min \in Nat /\ max \in Int /\ \A i \in ForRank(q, it) : TrueKeys(it)[i] \in min .. max
  BY AtEnd
<1>. HIDE DEF min, max, it
<1>2. \A i \in ForRank(q, it) : TrueKeys(it)[i] <= max /\ ~ (TrueKeys(it)[i] <= min - 1)
  BY <1>1
<1>3. UpToKey(q, it, max) = ForRank(q, it) /\ UpToKey(q, it, min - 1) = {}
  BY <1>2 DEF UpToKey
<1>4. Cardinality(ForRank(q, it)) > 0 => min <= max
  <2>1. ForRank(q, it) = {} => Cardinality(ForRank(q, it)) = 0  BY FS_EmptySet
  <2>. QED  BY <1>1, <2>1
<1>. QED  BY <1>3, <1>4, FS_EmptySet DEF it, min, max

LEMMA Sorting ==
  ASSUME IInv, NEW q \in Rank, pc[q] = "time", KeysFit,
         NEW i \in 0 .. Cardinality(ForRank(q, MAX_ITERATIONS)) - 1
  PROVE  LET k == SortedKeys(q)[i]
         IN  /\ k \in KeyValue /\ Route(MAX_ITERATIONS)[BucketOf(k)] = q
             /\ Cardinality(UpToKey(q, MAX_ITERATIONS, k - 1)) <= i
             /\ i < Cardinality(UpToKey(q, MAX_ITERATIONS, k))
<1>. DEFINE it == MAX_ITERATIONS
            min == plan[q].min_key_value
            max == plan[q].max_key_value
            C(k) == Cardinality(UpToKey(q, it, k))
            At(k) == Cumulative(q, k - 1) <= i /\ i < Cumulative(q, k)
<1>1. /\ min \in Nat /\ max \in Int /\ plan[q].local_key_count = Cardinality(ForRank(q, it))
      /\ \A k \in Int : k <= max => Cumulative(q, k) = C(k)
      /\ Runs /\ Rank = ActiveRank /\ q \in ActiveRank /\ it \in 0 .. MAX_ITERATIONS
      /\ plan[q] = Plan(TotalCounts(it), q) /\ Fits(q, it)
  BY AtEnd
<1>2. C(max) = Cardinality(ForRank(q, it)) /\ C(min - 1) = 0
      /\ (Cardinality(ForRank(q, it)) > 0 => min <= max)
  BY UpToEnds
<1>3. Cardinality(ForRank(q, it)) \in Nat /\ \A k : C(k) \in Nat
  BY ForFinite
<1>4. i \in Nat /\ i < Cardinality(ForRank(q, it)) /\ min <= max
  <2>. HIDE DEF it, min, max
  <2>. QED  BY <1>2, <1>3 DEF it
<1>5. i \in Slot
  <2>1. Cardinality(ForRank(q, it)) <= WorkBufferSize
    BY <1>1 DEF Fits
  <2>. HIDE DEF it
  <2>. QED  BY <1>3, <1>4, <2>1, Constants DEF Slot
<1>6. \E k \in min .. max : At(k)
  <2>. DEFINE S == {k \in min .. max : i < C(k)}
  <2>1. max \in S
    <3>. HIDE DEF C, min, max, it
    <3>. QED  BY <1>1, <1>2, <1>4
  <2>2. S \in SUBSET Nat
    <3>. HIDE DEF C, min, max
    <3>. QED  BY <1>1
  <2>3. PICK n \in S : \A m \in S : n <= m
    <3>1. S # {}  BY <2>1
    <3>. HIDE DEF S
    <3>. QED  BY <2>2, <3>1, LeastElement
  <2>4. n \in min .. max /\ i < C(n) /\ n \in Nat  BY <2>2, <2>3
  <2>5. C(n - 1) <= i
    <3>1. CASE n = min  BY <1>2, <1>4, <3>1
    <3>2. CASE n # min
      <4>1. n - 1 \in min .. max /\ n - 1 < n
        <5>. HIDE DEF C, min, max, S
        <5>. QED  BY <1>1, <2>4, <3>2
      <4>2. n - 1 \notin S
        <5>. SUFFICES ASSUME n - 1 \in S  PROVE FALSE
          OBVIOUS
        <5>1. n <= n - 1  BY <2>3
        <5>. HIDE DEF S
        <5>. QED  BY <2>4, <5>1
      <4>3. ~ (i < C(n - 1))  BY <4>1, <4>2
      <4>. HIDE DEF C
      <4>. QED  BY <1>3, <1>4, <4>3
    <3>. QED  BY <3>1, <3>2
  <2>6. Cumulative(q, n - 1) = C(n - 1) /\ Cumulative(q, n) = C(n)
    <3>1. n \in Int /\ n - 1 \in Int /\ n <= max /\ n - 1 <= max
      <4>. HIDE DEF C, min, max, S
      <4>. QED  BY <1>1, <2>4
    <3>. QED  BY <1>1, <3>1
  <2>. QED  BY <2>4, <2>5, <2>6
<1>7. SortedKeys(q)[i] = CHOOSE k \in min .. max : At(k)
  BY <1>5, <1>6 DEF SortedKeys, SortedUpTo
<1>8. PICK k \in min .. max : k = SortedKeys(q)[i] /\ At(k)
  <2>. HIDE DEF At, min, max
  <2>. QED  BY <1>6, <1>7
<1>9. C(k - 1) <= i /\ i < C(k)
  <2>1. k \in Int /\ k - 1 \in Int /\ k <= max /\ k - 1 <= max
    <3>. HIDE DEF min, max
    <3>. QED  BY <1>1, <1>8
  <2>. QED  BY <1>1, <1>8, <2>1
<1>10. k \in KeyValue /\ Route(it)[BucketOf(k)] = q
  BY <1>1, <1>8, PlanIs
<1>. QED  BY <1>8, <1>9, <1>10

(* The key it sends is its greatest.                                       *)
LEMMA LastKey ==
  ASSUME IInv, NEW q \in Rank, pc[q] = "time", KeysFit, ForRank(q, MAX_ITERATIONS) # {}
  PROVE  /\ SortedKeys(q)[last_local_key(q)] \in KeyValue
         /\ Route(MAX_ITERATIONS)[BucketOf(SortedKeys(q)[last_local_key(q)])] = q
<1>. DEFINE N == Cardinality(ForRank(q, MAX_ITERATIONS))
<1>1. N \in Nat /\ N # 0
  <2>1. IsFiniteSet(ForRank(q, MAX_ITERATIONS))  BY ForFinite
  <2>. QED  BY <2>1, FS_EmptySet, FS_CardinalityType
<1>2. Written(q) = N
  <2>1. plan[q].max_key_value \in Int
        /\ \A k \in Int : k <= plan[q].max_key_value =>
             Cumulative(q, k) = Cardinality(UpToKey(q, MAX_ITERATIONS, k))
    BY AtEnd
  <2>2. Cumulative(q, plan[q].max_key_value)
          = Cardinality(UpToKey(q, MAX_ITERATIONS, plan[q].max_key_value))
    BY <2>1
  <2>. QED  BY <2>2, UpToEnds DEF Written
<1>. HIDE DEF N
<1>3. last_local_key(q) = N - 1 /\ N - 1 \in 0 .. N - 1
  BY <1>1, <1>2 DEF last_local_key
<1>. QED  BY <1>3, Sorting DEF N

(* full_verify() finds the keys of a rank in order.                        *)
LEMMA FindsOrder ==
  ASSUME IInv, NEW q \in Rank, pc[q] = "chain", KeysFit, SortedOf(q), NEW previous,
         ForRank(q, MAX_ITERATIONS) # {} =>
           \/ q = 0 /\ previous = 0
           \/ q > 0 /\ previous \in KeyValue /\ Route(MAX_ITERATIONS)[BucketOf(previous)] = q - 1
  PROVE  InOrder(q, previous)
<1>. DEFINE it == MAX_ITERATIONS
            N == Cardinality(ForRank(q, it))
            C(k) == Cardinality(UpToKey(q, it, k))
<1>1. /\ plan[q].local_key_count = N /\ Runs /\ Rank = ActiveRank /\ it \in 0 .. MAX_ITERATIONS
  BY AtEnd
<1>2. N \in Nat /\ \A k : C(k) \in Nat  BY ForFinite
<1>3. \A i \in 0 .. N - 1 : /\ keys[q][i] \in KeyValue /\ Route(it)[BucketOf(keys[q][i])] = q
                            /\ C(keys[q][i] - 1) <= i /\ i < C(keys[q][i])
  BY DEF SortedOf
<1>4. q \in Nat  BY Shares, <1>1 DEF ActiveRank
<1>5. ASSUME N > 0  PROVE previous <= keys[q][0]
  <2>1. 0 \in 0 .. N - 1  BY <1>2, <1>5
  <2>2. keys[q][0] \in KeyValue /\ Route(it)[BucketOf(keys[q][0])] = q  BY <1>3, <2>1
  <2>3. ForRank(q, it) # {}
    <3>1. ForRank(q, it) = {} => N = 0  BY FS_EmptySet
    <3>. QED  BY <1>5, <3>1
  <2>4. CASE q = 0 /\ previous = 0
    <3>1. keys[q][0] \in Nat  BY <2>2 DEF KeyValue
    <3>. QED  BY <2>4, <3>1
  <2>5. CASE q > 0 /\ previous \in KeyValue /\ Route(it)[BucketOf(previous)] = q - 1
    <3>1. keys[q][0] <= previous => q <= q - 1
      BY <1>1, <2>2, <2>5, RouteAscends
    <3>2. keys[q][0] \in Nat /\ previous \in Nat  BY <2>2, <2>5 DEF KeyValue
    <3>. QED  BY <1>4, <3>1, <3>2
  <2>. QED  BY <2>3, <2>4, <2>5
<1>6. ASSUME NEW i \in 1 .. N - 1  PROVE keys[q][i - 1] <= keys[q][i]
  <2>. DEFINE a == keys[q][i - 1]
              b == keys[q][i]
  <2>1. i \in 0 .. N - 1 /\ i - 1 \in 0 .. N - 1 /\ i \in Nat  BY <1>2
  <2>2. a \in KeyValue /\ b \in KeyValue /\ C(a - 1) <= i - 1 /\ i < C(b)
    BY <1>3, <2>1
  <2>3. a \in Nat /\ b \in Nat  BY <2>2 DEF KeyValue
  <2>. SUFFICES ASSUME ~ (a <= b)  PROVE FALSE
    OBVIOUS
  <2>4. UpToKey(q, it, b) \subseteq UpToKey(q, it, a - 1)
    <3>1. b <= a - 1
      <4>. HIDE DEF a, b
      <4>. QED  BY <2>3
    <3>2. \A j \in AllKeys : TrueKeys(it)[j] \in Nat  BY <1>1, KeysAre DEF KeyValue
    <3>3. \A j \in AllKeys : TrueKeys(it)[j] <= b => TrueKeys(it)[j] <= a - 1
      <4>. HIDE DEF a, b, it
      <4>. QED  BY <2>3, <3>1, <3>2
    <3>. HIDE DEF a, b, it
    <3>. QED  BY <3>3 DEF UpToKey, ForRank
  <2>5. C(b) <= C(a - 1)
    <3>1. IsFiniteSet(UpToKey(q, it, a - 1))  BY ForFinite
    <3>. HIDE DEF a, b, it
    <3>. QED  BY <2>4, <3>1, FS_Subset
  <2>6. C(b) \in Nat /\ C(a - 1) \in Nat  BY <1>2
  <2>. HIDE DEF C, a, b
  <2>. QED  BY <2>1, <2>2, <2>5, <2>6
<1>. HIDE DEF N
<1>. QED  BY <1>1, <1>5, <1>6 DEF InOrder

(* What comes together on rank 0: a success for every test of a timed      *)
(* iteration whose tabulated rank is right, and one for each rank.         *)
RightTests == {x \in Iteration \X Test : x \notin wrong}

LEMMA TestsFinite ==
  ASSUME Runs
  PROVE  /\ IsFiniteSet(RightTests) /\ Cardinality(RightTests) \in Nat
         /\ Cardinality(RightTests) = Cardinality(Test) * MAX_ITERATIONS <=> wrong = {}
<1>. DEFINE All == Iteration \X Test
<1>1. IsFiniteSet(All) /\ Cardinality(All) = Cardinality(Test) * MAX_ITERATIONS
  <2>1. IsFiniteSet(Iteration) /\ Cardinality(Iteration) = MAX_ITERATIONS
    BY Constants, FS_Interval, SMTT(30) DEF Iteration
  <2>2. Cardinality(All) = Cardinality(Iteration) * Cardinality(Test) /\ IsFiniteSet(All)
    BY <2>1, Tests, FS_Product
  <2>3. Cardinality(Iteration) * Cardinality(Test) = Cardinality(Test) * Cardinality(Iteration)
    BY <2>1, Tests, Constants
  <2>. QED  BY <2>1, <2>2, <2>3
<1>2. wrong \in SUBSET All
  <2>1. PICK j \in Jobs : wrong = j.wrong  BY DEF Runs, JobInv
  <2>2. j \in JobType  BY <2>1, RunAssumption
  <2>. QED  BY <2>1, <2>2 DEF JobType
<1>3. RightTests = All \ wrong /\ RightTests \in SUBSET All  BY DEF RightTests
<1>. HIDE DEF All
<1>4. IsFiniteSet(RightTests) /\ Cardinality(RightTests) \in Nat
  BY <1>1, <1>3, FS_Subset, FS_CardinalityType
<1>5. wrong = {} => RightTests = All  BY <1>3
<1>6. ASSUME wrong # {}  PROVE Cardinality(RightTests) # Cardinality(All)
  <2>1. RightTests # All  BY <1>2, <1>3, <1>6
  <2>. QED  BY <1>1, <1>3, <2>1, FS_Subset
<1>. QED  BY <1>1, <1>4, <1>5, <1>6

LEMMA Together ==
  ASSUME Runs, Rank = ActiveRank, NEW values,
         \A r \in Rank : values[r] = Cardinality(Passed(r, MAX_ITERATIONS)) + 1
  PROVE  SumOver(values, Rank) = Cardinality(RightTests) + active_rank_count
<1>. DEFINE it(x) == x[1]
            h == [x \in RightTests |-> Route(x[1])[BucketOf(TrueKeys(x[1])[TestIndex[x[2]]])]]
            P(s) == {x \in RightTests : h[x] \in s}
            g == [s \in SUBSET Rank |-> Cardinality(P(s)) + Cardinality(s)]
<1>1. IsFiniteSet(Rank) /\ Cardinality(Rank) = active_rank_count
  <2>1. active_rank_count \in Nat \ {0} /\ Rank = 0 .. active_rank_count - 1
    BY Shares DEF ActiveRank
  <2>. QED  BY <2>1, FS_Interval
<1>2. \A s \in SUBSET Rank : /\ IsFiniteSet(s) /\ Cardinality(s) \in Nat
                             /\ IsFiniteSet(P(s)) /\ Cardinality(P(s)) \in Nat
  <2>. SUFFICES ASSUME NEW s \in SUBSET Rank
                PROVE  /\ IsFiniteSet(s) /\ Cardinality(s) \in Nat
                       /\ IsFiniteSet(P(s)) /\ Cardinality(P(s)) \in Nat
    OBVIOUS
  <2>1. P(s) \in SUBSET RightTests  OBVIOUS
  <2>2. IsFiniteSet(s)  BY <1>1, FS_Subset
  <2>3. IsFiniteSet(P(s))
    <3>. HIDE DEF P
    <3>. QED  BY <2>1, TestsFinite, FS_Subset
  <2>. HIDE DEF P
  <2>. QED  BY <2>2, <2>3, FS_CardinalityType
<1>3. \A r \in Rank : {x \in RightTests : h[x] = r} = Passed(r, MAX_ITERATIONS)
  BY DEF RightTests, Passed, Iteration
<1>4. ASSUME NEW s \in SUBSET Rank, NEW r \in s  PROVE g[s] = values[r] + g[s \ {r}]
  <2>. DEFINE A == {x \in RightTests : h[x] = r}
  <2>1. P(s) = P(s \ {r}) \cup A /\ P(s \ {r}) \cap A = {}  OBVIOUS
  <2>2. s \ {r} \in SUBSET Rank  OBVIOUS
  <2>3. IsFiniteSet(A) /\ Cardinality(A) \in Nat
    <3>1. A \in SUBSET RightTests  OBVIOUS
    <3>2. IsFiniteSet(A)
      <4>. HIDE DEF A
      <4>. QED  BY <3>1, TestsFinite, FS_Subset
    <3>. HIDE DEF A
    <3>. QED  BY <3>2, FS_CardinalityType
  <2>4. values[r] = Cardinality(A) + 1  BY <1>3, ZenonT(40)
  <2>5. g[s] = Cardinality(P(s)) + Cardinality(s)
        /\ g[s \ {r}] = Cardinality(P(s \ {r})) + Cardinality(s \ {r})
    BY <2>2
  <2>. HIDE DEF g, P, A
  <2>6. Cardinality(P(s)) = Cardinality(P(s \ {r})) + Cardinality(A)
    BY <1>2, <2>1, <2>2, <2>3, TwoParts
  <2>7. Cardinality(s \ {r}) = Cardinality(s) - 1
    BY <1>2, FS_RemoveElement
  <2>8. Cardinality(s) \in Nat /\ Cardinality(P(s \ {r})) \in Nat  BY <1>2, <2>2
  <2>. QED  BY <2>3, <2>4, <2>5, <2>6, <2>7, <2>8
<1>5. g[{}] = 0
  <2>1. P({}) = {}  OBVIOUS
  <2>2. g[{}] = Cardinality(P({})) + Cardinality({})  OBVIOUS
  <2>3. Cardinality({}) = 0  BY FS_EmptySet
  <2>. HIDE DEF g, P
  <2>. QED  BY <2>1, <2>2, <2>3
<1>6. g[Rank] = Cardinality(RightTests) + active_rank_count
  <2>1. P(Rank) = RightTests
    <3>1. ASSUME NEW x \in RightTests  PROVE h[x] \in Rank
      <4>1. x[1] \in 0 .. MAX_ITERATIONS /\ TestIndex[x[2]] \in AllKeys
        BY Tests, Constants DEF RightTests, Iteration
      <4>2. Route(x[1])[BucketsIn(x[1])[TestIndex[x[2]]]] \in ActiveRank
        BY <4>1, Routes
      <4>. QED  BY <4>1, <4>2 DEF BucketsIn
    <3>. QED  BY <3>1
  <2>2. g[Rank] = Cardinality(P(Rank)) + Cardinality(Rank)  OBVIOUS
  <2>. HIDE DEF g, P
  <2>. QED  BY <1>1, <2>1, <2>2
<1>7. g = [s \in SUBSET Rank |-> g[s]]  OBVIOUS
<1>. HIDE DEF g
<1>8. Sums(g, values, Rank)  BY <1>4, <1>5, <1>7 DEF Sums
<1>. QED  BY <1>1, <1>6, <1>8, SumIs

LEMMA VerdictIs ==
  ASSUME Runs, NEW passed, passed = Cardinality(RightTests) + active_rank_count
  PROVE  FinalStatus(passed) # 0 <=> wrong = {}
<1>1. Cardinality(RightTests) \in Nat /\ active_rank_count \in Nat \ {0}
      /\ (Cardinality(RightTests) = Cardinality(Test) * MAX_ITERATIONS <=> wrong = {})
  BY TestsFinite, Shares
<1>2. Cardinality(Test) * MAX_ITERATIONS \in Nat  BY Tests, Constants
<1>. QED  BY <1>1, <1>2 DEF FinalStatus, expected_verification_count

(* What only depends on the job.                                           *)
LEMMA VerifyStays ==
  ASSUME UNCHANGED job
  PROVE  /\ ActiveRank' = ActiveRank /\ Rank' = Rank
         /\ (KeysFit' <=> KeysFit) /\ (NeighboursHaveKeys' <=> NeighboursHaveKeys)
         /\ \A r, n : Passed(r, n)' = Passed(r, n)
         /\ \A r, it, k : UpToKey(r, it, k)' = UpToKey(r, it, k)
<1>1. /\ active_rank_count' = active_rank_count
      /\ \A it : TrueKeys(it)' = TrueKeys(it) /\ TotalCounts(it)' = TotalCounts(it)
                 /\ Route(it)' = Route(it)
      /\ \A r, it : ForRank(r, it)' = ForRank(r, it)
      /\ \A g, r : Plan(g, r)' = Plan(g, r)
  BY DataStays
<1>2. ActiveRank' = ActiveRank /\ Rank' = Rank /\ InRange' = InRange  BY JobStays
<1>3. wrong' = wrong /\ rank_count' = rank_count  BY DEF job
<1>4. Sorts' = Sorts  BY <1>1, <1>2, <1>3 DEF Sorts
<1>5. \A r, it : Fits(r, it)' = Fits(r, it)  BY <1>1 DEF Fits
<1>6. KeysFit' <=> KeysFit  BY <1>2, <1>4, <1>5 DEF KeysFit
<1>7. NeighboursHaveKeys' <=> NeighboursHaveKeys  BY <1>1, <1>2, <1>4 DEF NeighboursHaveKeys
<1>8. \A r, n : Passed(r, n)' = Passed(r, n)  BY <1>1, <1>3 DEF Passed
<1>9. \A r, it, k : UpToKey(r, it, k)' = UpToKey(r, it, k)  BY <1>1 DEF UpToKey
<1>. QED  BY <1>2, <1>6, <1>7, <1>8, <1>9

(* The step of rank q leaves to the other ranks what they have verified.   *)
PassedAlone(q) ==
  /\ OfRanks(passed_verification)'
  /\ \A r \in Rank \ {q} : passed_verification'[r] = passed_verification[r]

LEMMA PassedLeft ==
  ASSUME OfRanks(passed_verification), NEW q \in Rank, RankStep(q)
  PROVE  PassedAlone(q)
<1>1. Rank' = Rank
  BY RankStepJob, JobStays
<1>2. CASE UNCHANGED passed_verification
  BY <1>1, <1>2 DEF PassedAlone, OfRanks
<1>3. ASSUME NEW v, passed_verification' = [passed_verification EXCEPT ![q] = v]
      PROVE  PassedAlone(q)
  <2>1. DOMAIN passed_verification = Rank  BY DEF OfRanks
  <2>. QED  BY <1>1, <1>3, <2>1 DEF PassedAlone, OfRanks
<1>4. CASE ~ UNCHANGED passed_verification
  <2>1. FinishIteration(q) \/ FullVerify(q) \/ LeavePassed(q)
    BY <1>4 DEF RankStep, StartOutOfRange, Start, LeaveStrict, LeaveOption, LeaveTimeron,
         LeaveGenerated, LeaveBegin, LeaveSizes, LeaveTotals, LeaveHandler, LeaveTime, LeaveSummary
  <2>2. \E v : passed_verification' = [passed_verification EXCEPT ![q] = v]
    BY <1>4, <2>1 DEF FinishIteration, FullVerify, Verified, LeavePassed, Set
  <2>. QED  BY <1>3, <2>2
<1>. QED  BY <1>2, <1>4

LEMMA OthersVerify ==
  ASSUME UNCHANGED job, NEW q, Alone(q), AloneData(q), PassedAlone(q), NEW r \in Rank \ {q}
  PROVE  /\ GlobalOf(r) => GlobalOf(r)'
         /\ VerifyOf(r) => VerifyOf(r)'
         /\ CountedOf(r) => CountedOf(r)'
<1>1. /\ pc'[r] = pc[r] /\ calls'[r] = calls[r] /\ timed'[r] = timed[r]
      /\ current_iteration'[r] = current_iteration[r]
      /\ keys'[r] = keys[r] /\ global'[r] = global[r]
      /\ passed_verification'[r] = passed_verification[r]
  BY DEF Alone, AloneData, PassedAlone
<1>2. IterationAt(r)' = IterationAt(r) /\ IterationsVerified(r)' = IterationsVerified(r)
  BY <1>1 DEF IterationAt, IterationIn, IterationsVerified
<1>3. \A it : TotalCounts(it)' = TotalCounts(it) /\ Route(it)' = Route(it)
  BY DataStays
<1>4. \A x, it : ForRank(x, it)' = ForRank(x, it)  BY DataStays
<1>5. /\ \A x, n : Passed(x, n)' = Passed(x, n)
      /\ \A x, it, k : UpToKey(x, it, k)' = UpToKey(x, it, k)
  BY VerifyStays
<1>6. GlobalOf(r) => GlobalOf(r)'  BY <1>1, <1>2, <1>3 DEF GlobalOf
<1>7. SortedOf(r) => SortedOf(r)'  BY <1>1, <1>3, <1>4, <1>5 DEF SortedOf
<1>8. VerifyOf(r) => VerifyOf(r)'  BY <1>1, <1>2, <1>5, <1>7 DEF VerifyOf
<1>9. CallNumber("passed", MAX_ITERATIONS)' = CallNumber("passed", MAX_ITERATIONS)
  BY JobStays
<1>10. CountedOf(r) => CountedOf(r)'  BY <1>1, <1>5, <1>9 DEF CountedOf
<1>. QED  BY <1>6, <1>8, <1>10

(* What the step of rank q has to show.                                    *)
LEMMA VerifyFrom ==
  ASSUME IInv, VerifyInv, NEW q \in Rank, RankStep(q),
         q \in ActiveRank => GlobalOf(q)',
         KeysFit => ChainInv',
         KeysFit /\ q \in ActiveRank => VerifyOf(q)',
         KeysFit /\ NeighboursHaveKeys /\ q \in ActiveRank => CountedOf(q)',
         KeysFit /\ NeighboursHaveKeys => VerdictRight'
  PROVE  VerifyInv'
<1>1. UNCHANGED job /\ Alone(q) /\ AloneData(q) /\ PassedAlone(q) /\ ActiveRank \subseteq Rank
  BY RankStepJob, EveryStep, DataAlone, PassedLeft, JobFacts DEF IInv, Control, VerifyInv, StepOf
<1>2. /\ ActiveRank' = ActiveRank
      /\ (KeysFit' <=> KeysFit) /\ (NeighboursHaveKeys' <=> NeighboursHaveKeys)
  BY <1>1, VerifyStays
<1>3. ASSUME NEW r \in ActiveRank
      PROVE  /\ GlobalOf(r)'
             /\ KeysFit => VerifyOf(r)'
             /\ KeysFit /\ NeighboursHaveKeys => CountedOf(r)'
  <2>1. CASE r = q  BY <2>1
  <2>2. CASE r # q
    <3>1. r \in Rank \ {q}  BY <1>1, <2>2
    <3>2. /\ GlobalOf(r) /\ (KeysFit => VerifyOf(r))
          /\ (KeysFit /\ NeighboursHaveKeys => CountedOf(r))
      BY DEF VerifyInv
    <3>. QED  BY <1>1, <3>1, <3>2, OthersVerify
  <2>. QED  BY <2>1, <2>2
<1>4. OfRanks(passed_verification)'  BY <1>1 DEF PassedAlone
<1>. QED  BY <1>2, <1>3, <1>4 DEF VerifyInv

LEMMA GlobalStep ==
  ASSUME IInv, NEW q \in Rank, RankStep(q), GlobalOf(q)
  PROVE  GlobalOf(q)'
<1>1. Control /\ DataInv /\ ValueInv /\ TypeOK /\ UNCHANGED job
  BY RankStepJob DEF IInv, Control
<1>2. CASE LeaveTotals(q)
  <2>1. /\ pc[q] = "totals" /\ Value(0, q) = TotalCounts(current_iteration[q])
        /\ UNCHANGED current_iteration /\ pc'[q] = "handler"
    BY <1>1, <1>2, TotalsData, TotalsStep DEF LeaveTotals
  <2>2. PICK g : g = Value(0, q)  OBVIOUS
  <2>3. global' = [global EXCEPT ![q] = g]  BY <1>2, <2>2 DEF LeaveTotals, Set
  <2>4. global'[q] = g  BY <1>1, <2>3 DEF TypeOK, OfRanks
  <2>5. IterationAt(q)' = current_iteration[q]  BY <2>1 DEF IterationAt
  <2>6. \A it : TotalCounts(it)' = TotalCounts(it)  BY <1>1, DataStays
  <2>. QED  BY <2>1, <2>2, <2>4, <2>5, <2>6 DEF GlobalOf
<1>3. CASE LeaveHandler(q)
  <2>1. /\ pc[q] = "handler" /\ UNCHANGED <<global, current_iteration>> /\ pc'[q] = "exchange"
    BY <1>1, <1>3, HandlerStep DEF LeaveHandler, counts
  <2>2. IterationAt(q)' = IterationAt(q)  BY <2>1 DEF IterationAt
  <2>3. \A it : TotalCounts(it)' = TotalCounts(it)  BY <1>1, DataStays
  <2>. QED  BY <2>1, <2>2, <2>3 DEF GlobalOf, Receiving
<1>4. CASE Quiet(q) \/ FinishIteration(q)
  <2>1. pc'[q] \notin Receiving
    BY <1>1, <1>4, FinishStep DEF Quiet, Setup, Receiving, Ending
  <2>. QED  BY <2>1 DEF GlobalOf
<1>. QED  BY <1>1, <1>2, <1>3, <1>4, QuietStep

Early(q) ==
  \/ StartOutOfRange(q) \/ Start(q) \/ LeaveStrict(q) \/ LeaveOption(q) \/ LeaveTimeron(q)
  \/ LeaveGenerated(q) \/ LeaveBegin(q) \/ LeaveSizes(q) \/ LeaveTotals(q) \/ LeaveHandler(q)

LEMMA EarlySteps ==
  ASSUME Control, NEW q \in Rank, Early(q)
  PROVE  /\ UNCHANGED <<passed_verification, chain, verdict>> /\ timed'[q] = timed[q]
         /\ pc[q] \notin Ending /\ pc'[q] \notin Ending
         /\ timed[q] /\ pc'[q] \in Iterating \cup {"begin"} =>
              pc[q] \in Iterating \cup {"begin"} /\ current_iteration'[q] = current_iteration[q]
<1>0. TypeOK  BY DEF Control
<1>1. UNCHANGED <<passed_verification, chain, verdict, timed>>
  BY DEF Early, StartOutOfRange, Start, LeaveStrict, LeaveOption, LeaveTimeron, LeaveGenerated,
         LeaveBegin, LeaveSizes, LeaveTotals, LeaveHandler
<1>2. pc[q] \notin Ending
  BY DEF Early, StartOutOfRange, Start, LeaveStrict, LeaveOption, LeaveTimeron, LeaveGenerated,
         LeaveBegin, LeaveSizes, LeaveTotals, LeaveHandler, Barrier, Broadcast, Reduce, Ending
<1>3. ASSUME NEW to, pc' = [pc EXCEPT ![q] = to] \/ \E v : Enter(q, to, v)
      PROVE  pc'[q] = to
  <2>1. pc' = [pc EXCEPT ![q] = to]  BY <1>3 DEF Enter, Set
  <2>. QED  BY <1>0, <2>1 DEF TypeOK
<1>4. CASE StartOutOfRange(q) \/ Start(q) \/ LeaveStrict(q) \/ LeaveOption(q) \/ LeaveTimeron(q)
  <2>1. \E to \in {"done", "strict", "use_upacket", "use_loopback", "timeron", "generated"} :
           pc' = [pc EXCEPT ![q] = to]
    BY <1>4 DEF StartOutOfRange, Start, LeaveStrict, LeaveOption, LeaveTimeron, Enter, Exit, Set
  <2>2. pc'[q] \in {"done", "strict", "use_upacket", "use_loopback", "timeron", "generated"}
    BY <1>3, <2>1
  <2>. QED  BY <1>1, <1>2, <2>2 DEF Ending, Iterating
<1>5. CASE LeaveGenerated(q)
  <2>1. pc[q] = "generated" /\ \E v : Enter(q, "sizes", v)
    BY <1>5 DEF LeaveGenerated, Barrier, OrganizeKeys
  <2>2. ~ timed[q]  BY <2>1, Here DEF Setup
  <2>. QED  BY <1>1, <1>2, <1>3, <2>1, <2>2 DEF Ending
<1>6. CASE LeaveBegin(q)
  <2>1. pc[q] = "begin" /\ \E v : Enter(q, "sizes", v)
        /\ current_iteration' = [current_iteration EXCEPT ![q] = current_iteration[q]]
    BY <1>6 DEF LeaveBegin, Barrier, OrganizeKeys, Set
  <2>2. current_iteration'[q] = current_iteration[q]  BY <1>0, <2>1 DEF TypeOK
  <2>. QED  BY <1>1, <1>2, <1>3, <2>1, <2>2 DEF Ending
<1>7. CASE LeaveSizes(q) \/ LeaveTotals(q) \/ LeaveHandler(q)
  <2>1. /\ UNCHANGED current_iteration /\ pc[q] \in Iterating
        /\ \E to \in {"totals", "handler", "exchange"} : pc' = [pc EXCEPT ![q] = to]
    BY <1>7 DEF LeaveSizes, LeaveTotals, LeaveHandler, Reduce, Broadcast, Barrier, Iterating,
                Enter, Set
  <2>2. pc'[q] \in {"totals", "handler", "exchange"}  BY <1>3, <2>1
  <2>. QED  BY <1>1, <1>2, <2>1, <2>2 DEF Ending
<1>. QED  BY <1>4, <1>5, <1>6, <1>7 DEF Early

LEMMA LateSteps ==
  ASSUME Control, NEW q \in Rank, FullVerify(q) \/ LeavePassed(q) \/ LeaveSummary(q)
  PROVE  /\ UNCHANGED <<keys, timed, current_iteration>> /\ pc[q] \in Verifying
         /\ pc'[q] \in {"passed", "tmin", "tsum", "tmax", "done"}
<1>0. TypeOK  BY DEF Control
<1>1. UNCHANGED <<keys, timed, current_iteration>> /\ pc[q] \in Verifying
  BY DEF FullVerify, LeavePassed, LeaveSummary, Reduce, Verifying
<1>2. \E to \in {"passed", "tmin", "tsum", "tmax", "done"} : pc' = [pc EXCEPT ![q] = to]
  BY DEF FullVerify, Verified, LeavePassed, LeaveSummary, Enter, Exit, Set
<1>3. pc'[q] \in {"passed", "tmin", "tsum", "tmax", "done"}  BY <1>0, <1>2 DEF TypeOK
<1>. QED  BY <1>1, <1>3

LEMMA SortedStays ==
  ASSUME UNCHANGED job, NEW q, keys'[q] = keys[q], SortedOf(q)
  PROVE  SortedOf(q)'
<1>1. \A it : Route(it)' = Route(it)  BY DataStays
<1>2. \A x, it : ForRank(x, it)' = ForRank(x, it)  BY DataStays
<1>3. \A x, it, k : UpToKey(x, it, k)' = UpToKey(x, it, k)  BY VerifyStays
<1>. QED  BY <1>1, <1>2, <1>3 DEF SortedOf

(* An iteration adds the successes of its tests, the warm-up none.         *)
LEMMA FinishVerified ==
  ASSUME IInv, VerifyInv, KeysFit, NEW q \in ActiveRank, q \in Rank, FinishIteration(q)
  PROVE  VerifyOf(q)'
<1>. DEFINE it == current_iteration[q]
            last == timed[q] /\ it = MAX_ITERATIONS
<1>1. TypeOK /\ Control /\ pc[q] = "exchange" /\ ReceivedAll(q) /\ UNCHANGED job
      /\ OfRanks(passed_verification)
  BY DEF FinishIteration, Control, IInv, VerifyInv
<1>2. /\ timed' = [timed EXCEPT ![q] = TRUE]
      /\ current_iteration' = [current_iteration EXCEPT ![q] =
           IF ~timed[q] THEN 1 ELSE IF last THEN @ ELSE @ + 1]
      /\ pc' = [pc EXCEPT ![q] = NextCall(q, last)]
      /\ passed_verification' = [passed_verification EXCEPT ![q] =
           IF timed[q] THEN passed_verification[q] + PartialVerification(q) ELSE 0]
  BY DEF FinishIteration, Enter, Set, StartTimedRegion
<1>3. /\ pc'[q] = IF last THEN "time" ELSE "begin"
      /\ current_iteration'[q] = IF ~timed[q] THEN 1 ELSE IF last THEN it ELSE it + 1
      /\ passed_verification'[q] =
           IF timed[q] THEN passed_verification[q] + PartialVerification(q) ELSE 0
  BY <1>1, <1>2 DEF TypeOK, OfRanks, NextCall
<1>4. it \in Iteration /\ it \in Nat /\ IterationAt(q) = it
  BY <1>1, IterationHere, Constants DEF Iterating, Iteration
<1>5. \A x, n : Passed(x, n)' = Passed(x, n)  BY <1>1, VerifyStays
<1>6. pc'[q] \notin Verifying  BY <1>3 DEF Verifying
<1>7. /\ Cardinality(Passed(q, it)) = Cardinality(Passed(q, it - 1)) + Cardinality(PassedIn(q, it))
      /\ Cardinality(Passed(q, 0)) = 0
  BY <1>4, PassedStep
<1>8. passed_verification'[q] = Cardinality(Passed(q, IterationsVerified(q)'))
  <2>1. CASE ~ timed[q]
    <3>1. pc'[q] = "begin" /\ current_iteration'[q] = 1 /\ passed_verification'[q] = 0
      BY <1>3, <2>1
    <3>2. IterationsVerified(q)' = 0  BY <3>1 DEF IterationsVerified
    <3>. QED  BY <1>7, <3>1, <3>2
  <2>2. CASE timed[q]
    <3>1. passed_verification[q] = Cardinality(Passed(q, it - 1))
      BY <1>1, <2>2 DEF VerifyInv, VerifyOf, IterationsVerified, Iterating
    <3>2. PartialVerification(q) = Cardinality(PassedIn(q, it))
      <4>1. global[q] = TotalCounts(it)  BY <1>1, <1>4 DEF VerifyInv, GlobalOf, Receiving
      <4>. QED  BY <1>1, <4>1, Verifies
    <3>3. IterationsVerified(q)' = it
      <4>1. CASE last  BY <1>3, <4>1 DEF IterationsVerified
      <4>2. CASE ~ last
        <5>1. pc'[q] = "begin" /\ current_iteration'[q] = it + 1  BY <1>3, <2>2, <4>2
        <5>2. IterationsVerified(q)' = current_iteration'[q] - 1  BY <5>1 DEF IterationsVerified
        <5>. HIDE DEF it
        <5>. QED  BY <1>4, <5>1, <5>2
      <4>. QED  BY <4>1, <4>2
    <3>. QED  BY <1>3, <1>7, <2>2, <3>1, <3>2, <3>3
  <2>. QED  BY <2>1, <2>2
<1>. QED  BY <1>5, <1>6, <1>8 DEF VerifyOf

LEMMA TimeVerified ==
  ASSUME IInv, VerifyInv, KeysFit, NEW q \in ActiveRank, q \in Rank, LeaveTime(q)
  PROVE  VerifyOf(q)'
<1>1. TypeOK /\ Control /\ pc[q] = "time" /\ UNCHANGED <<job, timed, passed_verification>>
  BY DEF LeaveTime, Control, IInv, Reduce
<1>2. PICK s : s = SortedKeys(q)  OBVIOUS
<1>3. keys' = [keys EXCEPT ![q] = s] /\ pc' = [pc EXCEPT ![q] = "chain"]
  BY <1>2 DEF LeaveTime, Set
<1>4. keys'[q] = s /\ pc'[q] = "chain"
  BY <1>1, <1>3 DEF TypeOK, OfRanks
<1>5. \A i \in 0 .. Cardinality(ForRank(q, MAX_ITERATIONS)) - 1 :
        /\ s[i] \in KeyValue /\ Route(MAX_ITERATIONS)[BucketOf(s[i])] = q
        /\ Cardinality(UpToKey(q, MAX_ITERATIONS, s[i] - 1)) <= i
        /\ i < Cardinality(UpToKey(q, MAX_ITERATIONS, s[i]))
  BY <1>1, <1>2, Sorting
<1>6. SortedOf(q)'
  <2>1. \A it : Route(it)' = Route(it)  BY <1>1, DataStays
  <2>2. \A x, it : ForRank(x, it)' = ForRank(x, it)  BY <1>1, DataStays
  <2>3. \A x, it, k : UpToKey(x, it, k)' = UpToKey(x, it, k)  BY <1>1, VerifyStays
  <2>. QED  BY <1>4, <1>5, <2>1, <2>2, <2>3 DEF SortedOf
<1>7. timed[q] => passed_verification'[q] = Cardinality(Passed(q, IterationsVerified(q)'))
  <2>1. timed[q] => passed_verification[q] = Cardinality(Passed(q, MAX_ITERATIONS))
    BY <1>1 DEF VerifyInv, VerifyOf, IterationsVerified
  <2>2. IterationsVerified(q)' = MAX_ITERATIONS  BY <1>4 DEF IterationsVerified
  <2>. QED  BY <1>1, <2>1, <2>2
<1>8. \A x, n : Passed(x, n)' = Passed(x, n)  BY <1>1, VerifyStays
<1>. QED  BY <1>1, <1>6, <1>7, <1>8 DEF VerifyOf

LEMMA VerifyStep ==
  ASSUME IInv, VerifyInv, KeysFit, NEW q \in ActiveRank, q \in Rank, RankStep(q)
  PROVE  VerifyOf(q)'
<1>1. Control /\ UNCHANGED job  BY RankStepJob DEF IInv
<1>2. CASE Early(q)
  <2>1. /\ UNCHANGED passed_verification /\ timed'[q] = timed[q]
        /\ pc[q] \notin Ending /\ pc'[q] \notin Ending
        /\ timed[q] /\ pc'[q] \in Iterating \cup {"begin"} =>
             pc[q] \in Iterating \cup {"begin"} /\ current_iteration'[q] = current_iteration[q]
    BY <1>1, <1>2, EarlySteps
  <2>2. pc'[q] \notin Verifying \cup {"time", "chain"}  BY <2>1 DEF Ending, Verifying
  <2>3. ASSUME timed'[q], pc'[q] \in Iterating \cup {"begin"}
        PROVE  passed_verification'[q] = Cardinality(Passed(q, IterationsVerified(q)'))
    <3>1. IterationsVerified(q)' = IterationsVerified(q)
      BY <2>1, <2>2, <2>3 DEF IterationsVerified, Ending
    <3>2. passed_verification[q] = Cardinality(Passed(q, IterationsVerified(q)))
      BY <2>1, <2>3 DEF VerifyInv, VerifyOf
    <3>. QED  BY <2>1, <3>1, <3>2
  <2>4. \A x, n : Passed(x, n)' = Passed(x, n)  BY <1>1, VerifyStays
  <2>. QED  BY <2>2, <2>3, <2>4 DEF VerifyOf
<1>3. CASE FullVerify(q) \/ LeavePassed(q) \/ LeaveSummary(q)
  <2>1. /\ UNCHANGED keys /\ pc[q] \in Verifying
        /\ pc'[q] \in {"passed", "tmin", "tsum", "tmax", "done"}
    BY <1>1, <1>3, LateSteps
  <2>2. SortedOf(q)'  BY <1>1, <2>1, SortedStays DEF VerifyInv, VerifyOf
  <2>3. pc'[q] \notin Iterating \cup {"begin", "time", "chain"}  BY <2>1 DEF Iterating
  <2>. QED  BY <2>2, <2>3 DEF VerifyOf
<1>. QED  BY <1>2, <1>3, FinishVerified, TimeVerified DEF RankStep, Early

(* What is sent to the next rank.                                          *)
LEMMA ChainStep ==
  ASSUME IInv, VerifyInv, KeysFit, NEW q \in Rank, RankStep(q)
  PROVE  ChainInv'
<1>1. Control /\ UNCHANGED job /\ ChainInv  BY RankStepJob DEF IInv, VerifyInv
<1>2. /\ ActiveRank' = ActiveRank
      /\ \A it : Route(it)' = Route(it)
      /\ \A r, it : ForRank(r, it)' = ForRank(r, it)
  <2>1. ActiveRank' = ActiveRank  BY <1>1, VerifyStays
  <2>2. \A it : Route(it)' = Route(it)  BY <1>1, DataStays
  <2>3. \A r, it : ForRank(r, it)' = ForRank(r, it)  BY <1>1, DataStays
  <2>. QED  BY <2>1, <2>2, <2>3
<1>3. CASE chain' \subseteq chain
  BY <1>1, <1>2, <1>3 DEF ChainInv
<1>4. CASE LeaveTime(q)
  <2>1. pc[q] = "time"  BY <1>4 DEF LeaveTime, Reduce
  <2>2. q \in ActiveRank /\ q \in Int /\ (q + 1) - 1 = q
    <3>1. q \in ActiveRank  BY <1>1, <2>1, Here
    <3>2. q \in Int  BY DEF Rank
    <3>. QED  BY <3>1, <3>2
  <2>3. PICK k : k = SortedKeys(q)[last_local_key(q)]  OBVIOUS
  <2>4. ForRank(q, MAX_ITERATIONS) # {} => k \in KeyValue /\ Route(MAX_ITERATIONS)[BucketOf(k)] = q
    BY <2>1, <2>3, LastKey
  <2>5. chain' = chain \cup {[dst |-> d, key |-> k] : d \in {q + 1} \cap ActiveRank}
    BY <1>4, <2>3 DEF LeaveTime
  <2>6. ASSUME NEW m \in chain', m \notin chain  PROVE m.dst - 1 = q /\ m.key = k
    BY <2>2, <2>5, <2>6
  <2>. QED  BY <1>1, <1>2, <2>2, <2>4, <2>6 DEF ChainInv
<1>5. CASE FullVerify(q)
  <2>1. chain' \subseteq chain  BY <1>5 DEF FullVerify
  <2>. QED  BY <1>3, <2>1
<1>6. CASE ~ LeaveTime(q) /\ ~ FullVerify(q)
  <2>1. chain' = chain
    BY <1>6 DEF RankStep, StartOutOfRange, Start, LeaveStrict, LeaveOption, LeaveTimeron,
         LeaveGenerated, LeaveBegin, LeaveSizes, LeaveTotals, LeaveHandler, FinishIteration,
         LeavePassed, LeaveSummary
  <2>. QED  BY <1>3, <2>1
<1>. QED  BY <1>4, <1>5, <1>6

(* A rank gives the number of its successes when it leaves full_verify().  *)
LEMMA PassedEntered ==
  ASSUME Control, NEW q \in Rank, RankStep(q),
         Len(calls[q]) < CallNumber("passed", MAX_ITERATIONS),
         Len(calls'[q]) >= CallNumber("passed", MAX_ITERATIONS)
  PROVE  FullVerify(q) /\ Len(calls[q]) + 1 = CallNumber("passed", MAX_ITERATIONS)
<1>1. JobInv /\ TypeOK /\ ControlOf(q)  BY DEF Control, ControlInv
<1>2. /\ Len(calls[q]) \in Nat /\ Len(calls'[q]) \in {Len(calls[q]), Len(calls[q]) + 1}
  BY CallsGrow DEF Grows
<1>3. Offset \in {0, 1} /\ MAX_ITERATIONS \in Nat \ {0}  BY <1>1, JobFacts, Constants
<1>4. CallNumber("passed", MAX_ITERATIONS) = Offset + 9 + 4 * MAX_ITERATIONS
  BY <1>1, <1>3, Numbers
<1>5. Len(calls[q]) = Offset + 8 + 4 * MAX_ITERATIONS /\ Len(calls'[q]) = Len(calls[q]) + 1
  BY <1>2, <1>3, <1>4
<1>6. pc[q] \notin {"start", "strict", "done"}
  <2>1. pc[q] # "start"
    <3>1. Len(<< >>) = 0  OBVIOUS
    <3>. QED  BY <1>1, <1>3, <1>5, <3>1 DEF ControlOf
  <2>2. pc[q] # "strict"  BY <1>1, <1>3, <1>5 DEF ControlOf
  <2>3. pc[q] # "done"
    BY <1>1, <1>3, <1>4, <1>5 DEF ControlOf
  <2>. QED  BY <2>1, <2>2, <2>3
<1>7. PICK x \in Nat : /\ x = PassOf(q) /\ Len(calls[q]) = CallNumber(pc[q], x)
                       /\ (pc[q] \in Setup => x = 0) /\ (pc[q] \in Ending => x = MAX_ITERATIONS)
                       /\ x <= MAX_ITERATIONS
  BY <1>1, <1>3, <1>6, Here DEF Pass
<1>8. pc[q] \in {"time", "chain"}
  <2>1. pc[q] \in Setup \cup {"begin"} \cup Iterating \cup Ending
    BY <1>1, <1>6 DEF Points, TypeOK
  <2>2. PICK y : y = Place(pc[q])  OBVIOUS
  <2>3. Len(calls[q]) = Offset + y + 4 * x  BY <1>7, <2>2 DEF CallNumber
  <2>4. pc[q] \in Ending
    <3>. SUFFICES ASSUME pc[q] \in Setup \cup {"begin"} \cup Iterating  PROVE FALSE
      BY <2>1
    <3>1. y \in 1 .. 7  BY <2>2 DEF Setup, Iterating, Place, Receiving
    <3>. QED  BY <1>3, <1>5, <1>7, <2>3, <3>1
  <2>5. ~ (pc[q] \in Ending \ {"time", "chain"})
    <3>. SUFFICES ASSUME pc[q] \in Ending \ {"time", "chain"}  PROVE FALSE
      OBVIOUS
    <3>1. y \in 9 .. 12  BY <2>2 DEF Ending, Place, Receiving
    <3>. QED  BY <1>3, <1>5, <1>7, <2>3, <3>1
  <2>. QED  BY <2>4, <2>5
<1>9. ~ LeaveTime(q)  BY <1>2, <1>5 DEF LeaveTime
<1>10. FullVerify(q)
  BY <1>8, <1>9 DEF RankStep, StartOutOfRange, Start, LeaveStrict, LeaveOption, LeaveTimeron,
         LeaveGenerated, LeaveBegin, LeaveSizes, LeaveTotals, LeaveHandler, FinishIteration,
         LeavePassed, LeaveSummary, Barrier, Broadcast, Reduce
<1>. QED  BY <1>3, <1>4, <1>5, <1>10

LEMMA CountedStep ==
  ASSUME IInv, VerifyInv, KeysFit, NeighboursHaveKeys, NEW q \in ActiveRank, q \in Rank, RankStep(q)
  PROVE  CountedOf(q)'
<1>. DEFINE last == CallNumber("passed", MAX_ITERATIONS)
            N == Cardinality(Passed(q, MAX_ITERATIONS))
<1>1. Control /\ UNCHANGED job /\ TypeOK /\ JobInv /\ ChainInv /\ VerifyOf(q) /\ CountedOf(q)
      /\ OfRanks(passed_verification)
  BY RankStepJob DEF IInv, VerifyInv, Control
<1>2. /\ CallNumber("passed", MAX_ITERATIONS)' = last
      /\ Passed(q, MAX_ITERATIONS)' = Passed(q, MAX_ITERATIONS)
  BY <1>1, JobStays, VerifyStays
<1>3. last \in Nat \ {0}
  <2>1. Offset \in {0, 1} /\ MAX_ITERATIONS \in Nat \ {0}  BY <1>1, JobFacts, Constants
  <2>2. last = Offset + 9 + 4 * MAX_ITERATIONS  BY <1>1, <2>1, Numbers
  <2>. QED  BY <2>1, <2>2
<1>4. /\ Len(calls[q]) \in Nat /\ Len(calls'[q]) \in Nat
      /\ \A k \in 1 .. Len(calls[q]) : calls'[q][k] = calls[q][k]
  BY <1>1, CallsGrow DEF Grows
<1>. HIDE DEF last
<1>5. CASE Len(calls[q]) >= last
  <2>1. last \in 1 .. Len(calls[q])  BY <1>3, <1>4, <1>5
  <2>2. calls[q][last].value = N + 1  BY <1>1, <1>5 DEF CountedOf, last
  <2>3. calls'[q][last].value = N + 1  BY <1>4, <2>1, <2>2
  <2>. QED  BY <1>2, <2>3 DEF CountedOf
<1>6. CASE Len(calls'[q]) >= last /\ ~ (Len(calls[q]) >= last)
  <2>1. FullVerify(q) /\ Len(calls[q]) + 1 = last
    <3>1. Len(calls[q]) < last  BY <1>3, <1>4, <1>6
    <3>. QED  BY <1>1, <1>6, <3>1, PassedEntered DEF last
  <2>2. pc[q] = "chain"  BY <2>1 DEF FullVerify
  <2>3. PICK previous : /\ Verified(q, previous)
                        /\ \/ q = 0 /\ previous = 0
                           \/ \E m \in chain : m.dst = q /\ previous = m.key
    BY <2>1 DEF FullVerify
  <2>4. Rank = ActiveRank /\ InRange /\ timed[q] /\ q \in Nat /\ active_rank_count \in Nat
    <3>1. pc[q] \in Ending  BY <2>2 DEF Ending
    <3>2. Runs /\ Rank = ActiveRank  BY <1>1, <3>1, AllActive
    <3>3. InRange /\ timed[q]  BY <1>1, <3>1, Here DEF Ending
    <3>4. active_rank_count \in Nat  BY <3>2, Shares
    <3>. QED  BY <3>2, <3>3, <3>4 DEF ActiveRank
  <2>5. Sorts
    <3>1. rank_count \in Nat \ {0} /\ active_rank_count \in 1 .. rank_count  BY <1>1, JobFacts
    <3>. QED  BY <2>4, <3>1 DEF Sorts, Rank, ActiveRank
  <2>6. ForRank(q, MAX_ITERATIONS) # {} =>
          \/ q = 0 /\ previous = 0
          \/ q > 0 /\ previous \in KeyValue /\ Route(MAX_ITERATIONS)[BucketOf(previous)] = q - 1
    <3>1. CASE q = 0 /\ previous = 0  BY <3>1
    <3>2. ASSUME NEW m \in chain, m.dst = q, previous = m.key, ForRank(q, MAX_ITERATIONS) # {}
          PROVE  q > 0 /\ previous \in KeyValue /\ Route(MAX_ITERATIONS)[BucketOf(previous)] = q - 1
      <4>1. m.dst - 1 \in ActiveRank
            /\ (ForRank(m.dst - 1, MAX_ITERATIONS) # {} =>
                  m.key \in KeyValue /\ Route(MAX_ITERATIONS)[BucketOf(m.key)] = m.dst - 1)
        BY <1>1 DEF ChainInv
      <4>2. q - 1 \in ActiveRank  BY <3>2, <4>1
      <4>3. q > 0  BY <2>4, <4>2 DEF ActiveRank
      <4>4. ForRank(q - 1, MAX_ITERATIONS) # {}
        BY <2>5, <3>2, <4>3 DEF NeighboursHaveKeys
      <4>. QED  BY <3>2, <4>1, <4>3, <4>4
    <3>. QED  BY <2>3, <3>1, <3>2
  <2>7. InOrder(q, previous)
    <3>1. SortedOf(q)  BY <1>1, <2>2 DEF VerifyOf, Verifying
    <3>. QED  BY <2>2, <2>6, <3>1, FindsOrder
  <2>8. passed_verification[q] = N
    BY <1>1, <2>2, <2>4 DEF VerifyOf, IterationsVerified
  <2>9. passed_verification' = [passed_verification EXCEPT ![q] = @ + 1]
    BY <2>3, <2>7 DEF Verified
  <2>10. passed_verification'[q] = N + 1
    <3>1. q \in DOMAIN passed_verification  BY <1>1 DEF OfRanks
    <3>. QED  BY <2>8, <2>9, <3>1
  <2>11. Longer(q, "passed", passed_verification'[q])
    <3>1. PICK v : v = passed_verification'[q]  OBVIOUS
    <3>2. Enter(q, "passed", v)  BY <2>3, <3>1 DEF Verified
    <3>. QED  BY <1>1, <3>1, <3>2, Entering
  <2>12. calls'[q][Len(calls[q]) + 1].value = N + 1  BY <2>10, <2>11 DEF Longer
  <2>13. calls'[q][last].value = N + 1  BY <2>1, <2>12
  <2>. QED  BY <1>2, <2>13 DEF CountedOf
<1>7. CASE ~ (Len(calls'[q]) >= last)  BY <1>2, <1>7 DEF CountedOf
<1>. QED  BY <1>5, <1>6, <1>7

(* What rank 0 reports.                                                    *)
LEMMA VerdictStep ==
  ASSUME IInv, VerifyInv, KeysFit, NeighboursHaveKeys, NEW q \in Rank, RankStep(q)
  PROVE  VerdictRight'
<1>1. Control /\ UNCHANGED job /\ TypeOK /\ JobInv /\ VerdictRight
      /\ \A r \in ActiveRank : CountedOf(r)
  BY RankStepJob DEF IInv, VerifyInv, Control
<1>2. wrong' = wrong  BY <1>1 DEF job
<1>3. CASE UNCHANGED verdict  BY <1>1, <1>2, <1>3 DEF VerdictRight
<1>4. CASE LeavePassed(q) /\ q = 0
  <2>1. pc[q] = "passed" /\ \A s \in Rank : Joined(s, q)  BY <1>4 DEF LeavePassed, Reduce
  <2>2. Runs /\ Rank = ActiveRank /\ Len(calls[q]) = CallNumber("passed", MAX_ITERATIONS)
    <3>1. pc[q] \in Ending  BY <2>1 DEF Ending
    <3>2. Runs /\ Rank = ActiveRank  BY <1>1, <3>1, AllActive
    <3>3. PassOf(q) = MAX_ITERATIONS /\ Len(calls[q]) = CallNumber(pc[q], PassOf(q))
      BY <1>1, <3>1, Here DEF Ending
    <3>. QED  BY <2>1, <3>2, <3>3
  <2>. DEFINE values == [s \in Rank |-> Value(s, q)]
  <2>3. ASSUME NEW s \in Rank  PROVE values[s] = Cardinality(Passed(s, MAX_ITERATIONS)) + 1
    <3>1. Len(calls[s]) >= CallNumber("passed", MAX_ITERATIONS)  BY <2>1, <2>2 DEF Joined
    <3>. QED  BY <1>1, <2>2, <3>1 DEF CountedOf, Value
  <2>4. verdict' = FinalStatus(SumOver(values, Rank))
    BY <1>4 DEF LeavePassed, Sum
  <2>. HIDE DEF values
  <2>5. SumOver(values, Rank) = Cardinality(RightTests) + active_rank_count
    BY <2>2, <2>3, Together
  <2>6. verdict' # 0 <=> wrong = {}  BY <2>2, <2>4, <2>5, VerdictIs
  <2>. QED  BY <1>2, <2>6 DEF VerdictRight
<1>5. CASE ~ (LeavePassed(q) /\ q = 0)
  <2>1. UNCHANGED verdict
    BY <1>5 DEF RankStep, StartOutOfRange, Start, LeaveStrict, LeaveOption, LeaveTimeron,
         LeaveGenerated, LeaveBegin, LeaveSizes, LeaveTotals, LeaveHandler, FinishIteration,
         LeaveTime, FullVerify, LeavePassed, LeaveSummary
  <2>. QED  BY <1>3, <2>1
<1>. QED  BY <1>4, <1>5

LEMMA VerifyFromInit ==
  Init => VerifyInv
<1>. SUFFICES ASSUME Init  PROVE VerifyInv
  OBVIOUS
<1>1. JobInv /\ ActiveRank \subseteq Rank
  BY InvFromInit, JobFacts DEF IInv, Control
<1>2. \A r \in ActiveRank : pc[r] = "start" /\ timed[r] = FALSE /\ Len(calls[r]) = 0
  <2>1. \A r \in Rank : calls[r] = << >>  BY DEF Init
  <2>2. Len(<< >>) = 0  OBVIOUS
  <2>. QED  BY <1>1, <2>1, <2>2 DEF Init
<1>3. OfRanks(passed_verification)  BY DEF Init, OfRanks
<1>4. \A r \in ActiveRank : GlobalOf(r)  BY <1>2 DEF GlobalOf, Receiving
<1>5. \A r \in ActiveRank : VerifyOf(r)  BY <1>2 DEF VerifyOf, Verifying
<1>6. ChainInv  BY DEF ChainInv, Init
<1>7. CallNumber("passed", MAX_ITERATIONS) > 0
  <2>1. Offset \in {0, 1} /\ MAX_ITERATIONS \in Nat \ {0}  BY <1>1, JobFacts, Constants
  <2>. QED  BY <1>1, <2>1, Numbers
<1>8. CallNumber("passed", MAX_ITERATIONS) \in Int
  <2>1. Offset \in {0, 1} /\ MAX_ITERATIONS \in Nat \ {0}  BY <1>1, JobFacts, Constants
  <2>. QED  BY <1>1, <2>1, Numbers
<1>9. \A r \in ActiveRank : CountedOf(r)
  <2>. HIDE DEF CallNumber
  <2>. QED  BY <1>2, <1>7, <1>8 DEF CountedOf
<1>10. VerdictRight  BY DEF VerdictRight, Init
<1>. QED  BY <1>3, <1>4, <1>5, <1>6, <1>9, <1>10 DEF VerifyInv

(* A step that leaves alone what verification is about.                    *)
LEMMA VerifyKept ==
  ASSUME VerifyInv,
         UNCHANGED <<job, pc, calls, timed, current_iteration, keys, global,
                     passed_verification, chain, verdict>>
  PROVE  VerifyInv'
<1>1. UNCHANGED job  OBVIOUS
<1>2. /\ Rank' = Rank /\ ActiveRank' = ActiveRank
      /\ (KeysFit' <=> KeysFit) /\ (NeighboursHaveKeys' <=> NeighboursHaveKeys)
      /\ \A r, n : Passed(r, n)' = Passed(r, n)
  BY <1>1, VerifyStays
<1>3. \A it : TotalCounts(it)' = TotalCounts(it) /\ Route(it)' = Route(it)
  BY <1>1, DataStays
<1>4. \A r, it : ForRank(r, it)' = ForRank(r, it)  BY <1>1, DataStays
<1>5. \A r : IterationAt(r)' = IterationAt(r) /\ IterationsVerified(r)' = IterationsVerified(r)
  BY DEF IterationAt, IterationIn, IterationsVerified
<1>6. ASSUME NEW r  PROVE GlobalOf(r) => GlobalOf(r)'  BY <1>3, <1>5 DEF GlobalOf
<1>7. ASSUME NEW r  PROVE VerifyOf(r) => VerifyOf(r)'
  <2>1. SortedOf(r) => SortedOf(r)'  BY SortedStays
  <2>. QED  BY <1>2, <1>5, <2>1 DEF VerifyOf
<1>8. ASSUME NEW r  PROVE CountedOf(r) => CountedOf(r)'
  <2>1. CallNumber("passed", MAX_ITERATIONS)' = CallNumber("passed", MAX_ITERATIONS)
    BY <1>1, JobStays
  <2>. QED  BY <1>2, <2>1 DEF CountedOf
<1>9. ChainInv => ChainInv'  BY <1>2, <1>3, <1>4 DEF ChainInv
<1>10. VerdictRight => VerdictRight'  BY DEF VerdictRight, job
<1>11. OfRanks(passed_verification)'  BY <1>2 DEF VerifyInv, OfRanks
<1>. QED  BY <1>2, <1>6, <1>7, <1>8, <1>9, <1>10, <1>11 DEF VerifyInv

LEMMA VerifyNext ==
  IInv /\ VerifyInv /\ [Next]_vars => VerifyInv'
<1>. SUFFICES ASSUME IInv, VerifyInv, [Next]_vars  PROVE VerifyInv'
  OBVIOUS
<1>1. ASSUME NEW q \in Rank, RankStep(q)  PROVE VerifyInv'
  <2>1. q \in ActiveRank => GlobalOf(q)'
    BY <1>1, GlobalStep DEF VerifyInv
  <2>2. KeysFit => ChainInv'  BY <1>1, ChainStep
  <2>3. KeysFit /\ q \in ActiveRank => VerifyOf(q)'  BY <1>1, VerifyStep
  <2>4. KeysFit /\ NeighboursHaveKeys /\ q \in ActiveRank => CountedOf(q)'  BY <1>1, CountedStep
  <2>5. KeysFit /\ NeighboursHaveKeys => VerdictRight'  BY <1>1, VerdictStep
  <2>. QED  BY <1>1, <2>1, <2>2, <2>3, <2>4, <2>5, VerifyFrom
<1>2. ASSUME NEW m \in net, Receive(m)  PROVE VerifyInv'
  <2>1. UNCHANGED <<job, pc, calls, timed, current_iteration, keys, global,
                    passed_verification, chain, verdict>>
    BY <1>2 DEF Receive, counts
  <2>. QED  BY <2>1, VerifyKept
<1>3. CASE UNCHANGED vars
  <2>1. UNCHANGED <<job, pc, calls, timed, current_iteration, keys, global,
                    passed_verification, chain, verdict>>
    BY <1>3 DEF vars, counts
  <2>. QED  BY <2>1, VerifyKept
<1>. QED  BY <1>1, <1>2, <1>3 DEF Next

(* What the ranks verify, and what is reported of it, holds in the whole   *)
(* run: the successes a rank has counted are those of its tests in the     *)
(* iterations it has verified, full_verify() puts its keys in order, and   *)
(* each message of full_verify() is the greatest key of a rank.            *)
THEOREM VerifyHolds == Spec => []VerifyInv
BY InvHolds, VerifyFromInit, VerifyNext, PTL DEF Spec

(* With every rank past the sort of full_verify(), the ranks hold, one     *)
(* after the other, all the keys of the last iteration in ascending order; *)
(* nothing is said of a run in which the keys of a rank are more than its  *)
(* buffers hold.                                                           *)
THEOREM KeysSorted == Spec => [](KeysFit => SortedOutput)
<1>1. IInv /\ VerifyInv /\ KeysFit => SortedOutput
  <2>. SUFFICES ASSUME IInv, VerifyInv, KeysFit, \A r \in ActiveRank : pc[r] \in Verifying,
                       NEW r \in ActiveRank, NEW i \in 0 .. plan[r].local_key_count - 1
                PROVE  LET place == plan[r].lesser_key_count + i
                           key == keys[r][i]
                           ks == TrueKeys(MAX_ITERATIONS)
                       IN  /\ Cardinality({j \in AllKeys : ks[j] < key}) <= place
                           /\ place < Cardinality({j \in AllKeys : ks[j] <= key})
    BY DEF SortedOutput, Verifying
  <2>. DEFINE it == MAX_ITERATIONS
              key == keys[r][i]
              N == Cardinality(ForRank(r, it))
              lesser == Cardinality(Lesser(r, it))
  <2>1. r \in Rank /\ pc[r] \in Ending
    BY JobFacts DEF IInv, Control, Verifying, Ending
  <2>2. current_iteration[r] = it  BY <2>1, Here DEF IInv, Ending
  <2>3. Runs /\ Rank = ActiveRank /\ plan[r] = Plan(TotalCounts(it), r) /\ it \in 0 .. MAX_ITERATIONS
    <3>1. it \in 0 .. MAX_ITERATIONS  BY Constants
    <3>. QED  BY <2>1, <2>2, <3>1, ExactThen
  <2>4. plan[r].local_key_count = N /\ plan[r].lesser_key_count = lesser
    BY <2>3, PlanCounts
  <2>5. /\ key \in KeyValue /\ Route(it)[BucketOf(key)] = r
        /\ Cardinality(UpToKey(r, it, key - 1)) <= i /\ i < Cardinality(UpToKey(r, it, key))
    BY <2>4 DEF VerifyInv, VerifyOf, SortedOf
  <2>6. /\ Cardinality({j \in AllKeys : TrueKeys(it)[j] < key})
             = lesser + Cardinality(UpToKey(r, it, key - 1))
        /\ Cardinality({j \in AllKeys : TrueKeys(it)[j] <= key})
             = lesser + Cardinality(UpToKey(r, it, key))
    <3>. HIDE DEF key
    <3>. QED  BY <2>3, <2>5, PlaceIs
  <2>7. /\ lesser \in Nat /\ \A k : Cardinality(UpToKey(r, it, k)) \in Nat /\ i \in Int
    BY ForFinite
  <2>. HIDE DEF key, lesser
  <2>. QED  BY <2>4, <2>5, <2>6, <2>7 DEF key
<1>. QED  BY <1>1, InvHolds, VerifyHolds, PTL

(* Rank 0 reports success just when every tabulated rank is right, in a    *)
(* run in which the keys of a rank fit in its buffers and no rank with     *)
(* keys comes after one without.  Each hypothesis is one the code needs    *)
(* and does not check.                                                     *)
THEOREM VerdictCorrect == Spec => [](KeysFit /\ NeighboursHaveKeys => VerdictRight)
<1>1. VerifyInv => (KeysFit /\ NeighboursHaveKeys => VerdictRight)  BY DEF VerifyInv
<1>. QED  BY <1>1, VerifyHolds, PTL
=============================================================================
