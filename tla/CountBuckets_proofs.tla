------------------------- MODULE CountBuckets_proofs -------------------------
(***************************************************************************)
(* Proofs about the two parallel regions of an iteration: CountBuckets,    *)
(* for every team of threads, every assignment of the loop to them, every  *)
(* set of keys and every number of passes; and LocalRanks, for every       *)
(* number of threads, every histogram and every division of the loops into *)
(* consecutive chunks.                                                     *)
(***************************************************************************)
EXTENDS CountBucketsInv, LocalRanksInv, FiniteSetTheorems, WellFoundedInduction, TLAPS

USE DEF TeamFinished, CriticalFree

-----------------------------------------------------------------------------
(* Facts about the constants and the operators.                            *)

LEMMA Constants ==
  /\ LocalKeys \in Nat \ {0} /\ Ranks \in Nat
  /\ NumBuckets \in Nat \ {0} /\ KeysPerBucket \in Nat \ {0} /\ MaxIterations \in Nat \ {0}
  /\ MaxKey \in Nat \ {0}
<1>1. /\ LocalKeys \in Nat /\ Ranks \in Nat
      /\ NumBuckets \in Nat \ {0} /\ KeysPerBucket \in Nat \ {0} /\ MaxIterations \in Nat \ {0}
      /\ 2 * MaxIterations < LocalKeys /\ MaxIterations < MaxKey
  BY CountAssumption
<1>2. MaxKey \in Nat  BY <1>1 DEF MaxKey
<1>. QED  BY <1>1, <1>2

(* The smallest of a set of iterations is one of them.                     *)
LEMMA MinMember ==
  ASSUME NEW S \in SUBSET Nat, S # {}
  PROVE  Min(S) \in S
<1>. DEFINE Less == OpToRel(<, Nat)
<1>1. ASSUME NEW x \in Nat, NEW y \in Nat, x < y  PROVE <<x, y>> \in Less
  BY <1>1 DEF OpToRel
<1>2. IsWellFoundedOn(Less, Nat)  BY NatLessThanWellFounded
<1>. HIDE DEF Less
<1>3. PICK x \in S : \A y \in S : ~ (<<y, x>> \in Less)  BY <1>2, WFMin
<1>4. ASSUME NEW y \in S  PROVE x <= y
  <2>1. ~ (y < x)  BY <1>1, <1>3
  <2>. QED  BY <2>1
<1>. QED  BY <1>4 DEF Min

LEMMA Division ==
  ASSUME NEW n \in Nat, NEW d \in Nat \ {0}
  PROVE  /\ n \div d \in Nat
         /\ n - d * (n \div d) \in 0 .. d - 1
         /\ n % d = n - d * (n \div d)
BY SMT

(* The n-th block of d numbers is where the quotient by d is n, and the    *)
(* remainder is the place in the block.                                    *)
LEMMA Block ==
  ASSUME NEW n \in Nat, NEW d \in Nat \ {0}, NEW r \in Nat
  PROVE  /\ n \div d = r <=> n \in r * d .. (r + 1) * d - 1
         /\ n \div d = r => n % d = n - r * d /\ n % d \in 0 .. d - 1
<1>. DEFINE q == n \div d
<1>1. q \in Nat /\ n - d * q \in 0 .. d - 1 /\ n % d = n - d * q  BY Division
<1>. HIDE DEF q
<1>2. ASSUME q = r
      PROVE  n \in r * d .. (r + 1) * d - 1 /\ n % d = n - r * d /\ n % d \in 0 .. d - 1
  BY <1>1, <1>2
<1>3. ASSUME n \in r * d .. (r + 1) * d - 1, q < r  PROVE FALSE
  <2>1. d * (q + 1) <= d * r  BY <1>1, <1>3
  <2>. QED  BY <1>1, <1>3, <2>1
<1>4. ASSUME n \in r * d .. (r + 1) * d - 1, q > r  PROVE FALSE
  <2>1. d * (r + 1) <= d * q  BY <1>1, <1>4
  <2>. QED  BY <1>1, <1>4, <2>1
<1>. QED  BY <1>1, <1>2, <1>3, <1>4 DEF q

LEMMA BucketType ==
  ASSUME NEW k \in Key
  PROVE  BucketOf(k) \in Bucket
<1>. DEFINE q == BucketOf(k)
<1>1. k \in Nat /\ k < NumBuckets * KeysPerBucket  BY Constants DEF Key, MaxKey
<1>2. q \in Nat /\ k - KeysPerBucket * q \in 0 .. KeysPerBucket - 1
  BY <1>1, Constants, Division DEF BucketOf
<1>. HIDE DEF q
<1>3. ASSUME q >= NumBuckets  PROVE FALSE
  <2>1. KeysPerBucket * q >= KeysPerBucket * NumBuckets  BY <1>2, <1>3, Constants
  <2>. QED  BY <1>1, <1>2, <2>1, Constants
<1>. QED  BY <1>2, <1>3, Constants DEF Bucket, q

(* The slots of the test keys lie behind those of the buckets.             *)
LEMMA Slots ==
  /\ Bucket \subseteq Slot /\ Bucket \subseteq Nat
  /\ \A id \in TestId : /\ TestSlot(id) \in Slot /\ TestSlot(id) \notin Bucket
                        /\ TestSlot(id) - NumBuckets = id
  /\ \A s \in Slot : s \notin Bucket => s - NumBuckets \in TestId
<1>1. NumBuckets \in Nat /\ \A id \in TestId : id \in Nat  BY Constants, CountAssumption
<1>2. \A id \in TestId : /\ TestSlot(id) \notin Bucket
                         /\ TestSlot(id) - NumBuckets = id
  BY <1>1 DEF TestSlot, Bucket
<1>3. Bucket \subseteq Nat  BY <1>1 DEF Bucket
<1>. QED  BY <1>2, <1>3 DEF Slot

LEMMA IndexSets ==
  ASSUME NEW S \in SUBSET Index
  PROVE  IsFiniteSet(S) /\ Cardinality(S) \in Nat /\ S \in SUBSET Nat
<1>1. IsFiniteSet(Index) /\ Index \subseteq Nat  BY Constants, FS_Interval DEF Index
<1>. QED  BY <1>1, FS_Subset, FS_CardinalityType

LEMMA CapturedType ==
  ASSUME keys \in [Index -> Key], my_rank \in 0 .. Ranks - 1, NEW id \in TestId
  PROVE  Captured(id) \in Nat
<1>1. TestIndex[id] \in Nat  BY Constants, CountAssumption
<1>2. CASE TestIndex[id] \div LocalKeys = my_rank
  <2>1. TestIndex[id] % LocalKeys \in Index  BY <1>1, Constants, Division DEF Index
  <2>2. Captured(id) = keys[TestIndex[id] % LocalKeys]  BY <1>2 DEF Captured
  <2>. QED  BY <2>1, <2>2 DEF Key
<1>3. CASE TestIndex[id] \div LocalKeys # my_rank  BY <1>3 DEF Captured
<1>. QED  BY <1>2, <1>3

-----------------------------------------------------------------------------
(* The invariant holds initially.                                          *)

LEMMA InitInv == Init => IInv
<1>. SUFFICES ASSUME Init  PROVE IInv
  OBVIOUS
<1>1. TypeOK
  BY Constants, Slots DEF Init, TypeOK, Stages, Points
<1>2. LoopInv /\ MergeInv /\ TestInv
  BY DEF Init, LoopInv, MergeInv, TestInv
<1>3. CriticalInv
  BY CountAssumption DEF Init, CriticalInv, Inside
<1>. QED  BY <1>1, <1>2, <1>3 DEF IInv

-----------------------------------------------------------------------------
(* The types.                                                              *)

LEMMA ChangeKeysType ==
  ASSUME TypeOK, ChangeKeys
  PROVE  keys' \in [Index -> Key]
<1>. DEFINE n == Iteration
            ks == [keys EXCEPT ![n] = n, ![n + MaxIterations] = MaxKey - n]
<1>1. n \in 1 .. MaxIterations  BY Constants DEF Iteration, TypeOK
<1>2. MaxIterations < MaxKey  BY CountAssumption
<1>3. n \in Key /\ MaxKey - n \in Key
  BY <1>1, <1>2, Constants DEF Key
<1>. HIDE DEF n
<1>4. ks \in [Index -> Key]  BY <1>3 DEF TypeOK
<1>5. keys' = ks \/ keys' = keys  BY DEF ChangeKeys, n
<1>. QED  BY <1>4, <1>5 DEF TypeOK

LEMMA StepType == TypeOK /\ CriticalInv /\ [Next]_vars => TypeOK'
<1>. SUFFICES ASSUME TypeOK, CriticalInv, [Next]_vars  PROVE TypeOK'
  OBVIOUS
<1>. USE DEF Stages, Points
<1>1. CASE ChangeKeys
  BY <1>1, ChangeKeysType DEF TypeOK, ChangeKeys, team
<1>2. CASE OrganizeKeys
  <2>1. local_bucket_counts' \in [Slot -> Nat]
    <3>1. ASSUME NEW s \in Slot, s \notin Bucket  PROVE Captured(s - NumBuckets) \in Nat
      BY <3>1, Slots, CapturedType DEF TypeOK
    <3>. QED  BY <1>2, <3>1 DEF OrganizeKeys
  <2>. QED  BY <1>2, <2>1, Constants DEF TypeOK, OrganizeKeys, rankVars
<1>3. ASSUME NEW t \in Thread, CountKey(t)  PROVE TypeOK'
  <2>. DEFINE i == Min(todo[t])
  <2>1. i \in Index  BY <1>3, IndexSets, MinMember DEF CountKey, TypeOK
  <2>2. BucketOf(keys[i]) \in Bucket  BY <2>1, BucketType DEF TypeOK
  <2>. HIDE DEF i
  <2>3. /\ bucket_size_private' = [bucket_size_private EXCEPT ![t][BucketOf(keys[i])] = @ + 1]
        /\ todo' = [todo EXCEPT ![t] = @ \ {i}]
    BY <1>3 DEF CountKey, i
  <2>4. bucket_size_private' \in [Thread -> [Bucket -> Nat]]  BY <2>2, <2>3 DEF TypeOK
  <2>5. todo' \in [Thread -> SUBSET Index]  BY <2>3 DEF TypeOK
  <2>. QED  BY <1>3, <2>4, <2>5 DEF TypeOK, CountKey, rankVars
<1>4. ASSUME NEW t \in Thread, EndLoop(t)  PROVE TypeOK'
  BY <1>4 DEF TypeOK, EndLoop, rankVars
<1>5. ASSUME NEW t \in Thread, EnterCritical(t)  PROVE TypeOK'
  BY <1>5, Constants DEF TypeOK, EnterCritical, rankVars
<1>6. ASSUME NEW t \in Thread, LoadCount(t)  PROVE TypeOK'
  <2>1. bucket[t] \in Slot  BY <1>6, Constants, Slots DEF LoadCount, TypeOK, Bucket
  <2>. QED  BY <1>6, <2>1 DEF TypeOK, LoadCount, rankVars
<1>7. ASSUME NEW t \in Thread, StoreCount(t)  PROVE TypeOK'
  <2>1. bucket[t] \in Bucket  BY <1>7 DEF StoreCount, CriticalInv
  <2>2. bucket[t] + 1 \in 0 .. NumBuckets  BY <2>1, Constants DEF Bucket
  <2>3. loaded[t] + bucket_size_private[t][bucket[t]] \in Nat  BY <2>1 DEF TypeOK
  <2>4. local_bucket_counts' \in [Slot -> Nat]
    BY <1>7, <2>3 DEF TypeOK, StoreCount
  <2>. QED  BY <1>7, <2>2, <2>4 DEF TypeOK, StoreCount, rankVars
<1>8. ASSUME NEW t \in Thread, LeaveCritical(t)  PROVE TypeOK'
  BY <1>8 DEF TypeOK, LeaveCritical, rankVars
<1>9. CASE EndRegion
  BY <1>9 DEF TypeOK, EndRegion, rankVars, team
<1>10. CASE NextIteration
  BY <1>10, Constants DEF TypeOK, NextIteration
<1>11. CASE UNCHANGED vars
  BY <1>11 DEF TypeOK, vars, rankVars, team
<1>. QED
  BY <1>1, <1>2, <1>3, <1>4, <1>5, <1>6, <1>7, <1>8, <1>9, <1>10, <1>11
  DEF Next, ThreadStep

-----------------------------------------------------------------------------
(* The private counts: an iteration is counted when it is taken from the   *)
(* share of its thread, and by no other thread.                            *)
LEMMA StepLoop == TypeOK /\ LoopInv /\ CriticalInv /\ [Next]_vars => LoopInv'
<1>. SUFFICES ASSUME TypeOK, LoopInv, CriticalInv, [Next]_vars, stage' = "count"
              PROVE  \A u \in Thread :
                       /\ todo'[u] \subseteq Share(u)'
                       /\ pc'[u] # "loop" => todo'[u] = {}
                       /\ \A b \in Bucket : bucket_size_private'[u][b] =
                            Cardinality((Share(u)' \ todo'[u]) \intersect Of(b)')
  BY DEF LoopInv
<1>1. CASE OrganizeKeys
  <2>1. \A u \in Thread : todo'[u] = Share(u)' /\ pc'[u] = "loop"
    BY <1>1 DEF OrganizeKeys, Share
  <2>2. \A u \in Thread : \A b \in Bucket : bucket_size_private'[u][b] = 0
    BY <1>1 DEF OrganizeKeys
  <2>3. \A u \in Thread : \A b \in Bucket : (Share(u)' \ todo'[u]) \intersect Of(b)' = {}
    BY <2>1
  <2>. QED  BY <2>1, <2>2, <2>3, FS_EmptySet
<1>2. ASSUME NEW t \in Thread, CountKey(t), NEW u \in Thread
      PROVE  /\ todo'[u] \subseteq Share(u)'
             /\ pc'[u] # "loop" => todo'[u] = {}
             /\ \A b \in Bucket : bucket_size_private'[u][b] =
                  Cardinality((Share(u)' \ todo'[u]) \intersect Of(b)')
  <2>. DEFINE i == Min(todo[t])
              c == BucketOf(keys[i])
  <2>1. i \in todo[t] /\ todo[t] \subseteq Index
    BY <1>2, IndexSets, MinMember DEF CountKey, TypeOK
  <2>2. c \in Bucket  BY <2>1, BucketType DEF TypeOK
  <2>3. /\ pc[t] = "loop" /\ pc' = pc /\ stage = "count"
        /\ bucket_size_private' = [bucket_size_private EXCEPT ![t][c] = @ + 1]
        /\ todo' = [todo EXCEPT ![t] = @ \ {i}]
        /\ UNCHANGED <<keys, schedule>>
    BY <1>2 DEF CountKey, rankVars
  <2>4. Share(u)' = Share(u) /\ \A b \in Bucket : Of(b)' = Of(b)
    BY <2>3 DEF Share, Of
  <2>5. CASE u # t
    <3>1. todo'[u] = todo[u] /\ bucket_size_private'[u] = bucket_size_private[u]
      BY <2>3, <2>5 DEF TypeOK
    <3>. QED  BY <2>3, <2>4, <3>1 DEF LoopInv
  <2>6. CASE u = t
    <3>1. i \in Share(t) /\ i \in Of(c)
      BY <2>1, <2>3 DEF LoopInv, Of
    <3>2. \A b \in Bucket : i \in Of(b) => b = c  BY DEF Of
    <3>. HIDE DEF i, c
    <3>3. todo'[t] = todo[t] \ {i}  BY <2>3 DEF TypeOK
    <3>4. \A b \in Bucket : bucket_size_private'[t][b] =
            IF b = c THEN bucket_size_private[t][b] + 1 ELSE bucket_size_private[t][b]
      BY <2>2, <2>3 DEF TypeOK
    <3>5. ASSUME NEW b \in Bucket
          PROVE  bucket_size_private'[t][b] =
                   Cardinality((Share(t)' \ todo'[t]) \intersect Of(b)')
      <4>. DEFINE S == (Share(t) \ todo[t]) \intersect Of(b)
      <4>1. bucket_size_private[t][b] = Cardinality(S)  BY <2>3 DEF LoopInv
      <4>2. IsFiniteSet(S) /\ i \notin S
        <5>1. S \in SUBSET Index  BY DEF Of
        <5>. QED  BY <2>1, <5>1, IndexSets
      <4>3. CASE b = c
        <5>1. (Share(t)' \ todo'[t]) \intersect Of(b)' = S \union {i}
          BY <2>4, <2>6, <3>1, <3>3, <4>3
        <5>. QED  BY <3>4, <4>1, <4>2, <4>3, <5>1, FS_AddElement, SMTT(30)
      <4>4. CASE b # c
        <5>1. (Share(t)' \ todo'[t]) \intersect Of(b)' = S
          BY <2>4, <2>6, <3>2, <3>3, <4>4
        <5>. QED  BY <3>4, <4>1, <4>4, <5>1
      <4>. QED  BY <4>3, <4>4
    <3>6. todo'[t] \subseteq Share(t)'  BY <2>3, <2>4, <2>6, <3>3 DEF LoopInv
    <3>. QED  BY <2>3, <2>6, <3>5, <3>6
  <2>. QED  BY <2>5, <2>6
<1>3. ASSUME stage = "count", UNCHANGED <<keys, schedule, todo, bucket_size_private>>,
             \A u \in Thread : pc'[u] # "loop" => pc[u] # "loop" \/ todo[u] = {}
      PROVE  \A u \in Thread :
               /\ todo'[u] \subseteq Share(u)'
               /\ pc'[u] # "loop" => todo'[u] = {}
               /\ \A b \in Bucket : bucket_size_private'[u][b] =
                    Cardinality((Share(u)' \ todo'[u]) \intersect Of(b)')
  <2>1. \A u \in Thread : Share(u)' = Share(u)  BY <1>3 DEF Share
  <2>2. \A b \in Bucket : Of(b)' = Of(b)  BY <1>3 DEF Of
  <2>. QED  BY <1>3, <2>1, <2>2 DEF LoopInv
<1>4. ASSUME NEW t \in Thread,
             EndLoop(t) \/ EnterCritical(t) \/ LoadCount(t) \/ StoreCount(t) \/ LeaveCritical(t)
      PROVE  /\ stage = "count" /\ UNCHANGED <<keys, schedule, todo, bucket_size_private>>
             /\ \A u \in Thread : pc'[u] # "loop" => pc[u] # "loop" \/ todo[u] = {}
  BY <1>4
  DEF EndLoop, EnterCritical, LoadCount, StoreCount, LeaveCritical, rankVars, TypeOK
<1>5. CASE UNCHANGED vars
  BY <1>3, <1>5 DEF vars, rankVars, team
<1>6. ~ChangeKeys /\ ~EndRegion /\ ~NextIteration
  BY DEF ChangeKeys, EndRegion, NextIteration
<1>. QED  BY <1>1, <1>2, <1>3, <1>4, <1>5, <1>6 DEF Next, ThreadStep

-----------------------------------------------------------------------------
(* Mutual exclusion, and what follows for the loaded count.                *)
LEMMA StepCritical == TypeOK /\ CriticalInv /\ [Next]_vars => CriticalInv'
<1>. SUFFICES ASSUME TypeOK, CriticalInv, [Next]_vars  PROVE CriticalInv'
  OBVIOUS
<1>. USE DEF Inside
<1>1. CASE ChangeKeys \/ NextIteration
  BY <1>1 DEF ChangeKeys, NextIteration, team, CriticalInv
<1>2. CASE OrganizeKeys
  <2>1. /\ stage' = "count" /\ critical' = critical
        /\ \A u \in Thread : pc'[u] = "loop" /\ pc[u] = "done"
    BY <1>2 DEF OrganizeKeys, CriticalInv
  <2>. QED  BY <2>1 DEF CriticalInv
<1>3. CASE EndRegion
  BY <1>3 DEF EndRegion, team, CriticalInv
<1>4. ASSUME NEW t \in Thread, ThreadStep(t), NEW x \in Points, pc' = [pc EXCEPT ![t] = x],
             pc[t] \in Inside \/ x \in Inside => critical \in {t, None},
             critical' = IF x \in Inside THEN t ELSE IF pc[t] \in Inside THEN None ELSE critical,
             x # "store", stage' = stage, pc[t] # "done",
             local_bucket_counts' = local_bucket_counts \/ pc[t] \in Inside,
             \A u \in Thread : u # t => bucket'[u] = bucket[u] /\ loaded'[u] = loaded[u]
      PROVE  CriticalInv'
  <2>1. pc'[t] = x /\ \A u \in Thread : u # t => pc'[u] = pc[u]  BY <1>4 DEF TypeOK
  <2>2. None \notin Thread  BY CountAssumption
  <2>3. stage = "count"  BY <1>4 DEF CriticalInv
  <2>4. \A u \in Thread : pc'[u] \in Inside <=> critical' = u
    BY <1>4, <2>1, <2>2 DEF CriticalInv
  <2>5. ASSUME NEW u \in Thread, pc'[u] = "store"
        PROVE  bucket'[u] \in Bucket /\ loaded'[u] = local_bucket_counts'[bucket'[u]]
    <3>1. u # t /\ pc[u] = "store"  BY <1>4, <2>1, <2>5
    <3>2. pc[t] \notin Inside  BY <3>1 DEF CriticalInv
    <3>. QED  BY <1>4, <3>1, <3>2 DEF CriticalInv
  <2>. QED  BY <1>4, <2>3, <2>4, <2>5 DEF CriticalInv
<1>5. ASSUME NEW t \in Thread, CountKey(t)  PROVE CriticalInv'
  BY <1>5 DEF CountKey, rankVars, CriticalInv
<1>6. ASSUME NEW t \in Thread, EndLoop(t)  PROVE CriticalInv'
  <2>1. /\ pc[t] = "loop" /\ pc' = [pc EXCEPT ![t] = "enter"]
        /\ UNCHANGED <<critical, stage, local_bucket_counts, bucket, loaded>>
    BY <1>6 DEF EndLoop
  <2>. QED  BY <1>4, <1>6, <2>1 DEF Points, ThreadStep
<1>7. ASSUME NEW t \in Thread, EnterCritical(t)  PROVE CriticalInv'
  <2>1. /\ pc[t] = "enter" /\ pc' = [pc EXCEPT ![t] = "load"]
        /\ critical = None /\ critical' = t
        /\ UNCHANGED <<stage, local_bucket_counts, loaded>>
        /\ bucket' = [bucket EXCEPT ![t] = 0]
    BY <1>7 DEF EnterCritical
  <2>2. \A u \in Thread : u # t => bucket'[u] = bucket[u]  BY <2>1 DEF TypeOK
  <2>. QED  BY <1>4, <1>7, <2>1, <2>2 DEF Points, ThreadStep
<1>8. ASSUME NEW t \in Thread, LoadCount(t)  PROVE CriticalInv'
  <2>1. /\ pc[t] = "load" /\ pc' = [pc EXCEPT ![t] = "store"] /\ bucket[t] < NumBuckets
        /\ loaded' = [loaded EXCEPT ![t] = local_bucket_counts[bucket[t]]]
        /\ UNCHANGED <<stage, local_bucket_counts, bucket, critical>>
    BY <1>8 DEF LoadCount
  <2>2. pc'[t] = "store" /\ \A u \in Thread : u # t => pc'[u] = pc[u]  BY <2>1 DEF TypeOK
  <2>3. /\ loaded'[t] = local_bucket_counts[bucket[t]]
        /\ \A u \in Thread : u # t => loaded'[u] = loaded[u]
    BY <2>1 DEF TypeOK
  <2>4. bucket[t] \in Bucket  BY <2>1, Constants DEF TypeOK, Bucket
  <2>5. stage = "count"  BY <2>1 DEF CriticalInv
  <2>. QED  BY <2>1, <2>2, <2>3, <2>4, <2>5 DEF CriticalInv
<1>9. ASSUME NEW t \in Thread, StoreCount(t)  PROVE CriticalInv'
  <2>1. /\ pc[t] = "store" /\ pc' = [pc EXCEPT ![t] = "load"]
        /\ bucket' = [bucket EXCEPT ![t] = @ + 1]
        /\ UNCHANGED <<stage, loaded, critical>>
    BY <1>9 DEF StoreCount
  <2>2. \A u \in Thread : u # t => bucket'[u] = bucket[u]  BY <2>1 DEF TypeOK
  <2>3. critical = t  BY <2>1 DEF CriticalInv
  <2>. QED  BY <1>4, <1>9, <2>1, <2>2, <2>3 DEF Points, ThreadStep
<1>10. ASSUME NEW t \in Thread, LeaveCritical(t)  PROVE CriticalInv'
  <2>1. /\ pc[t] = "load" /\ pc' = [pc EXCEPT ![t] = "done"] /\ critical' = None
        /\ UNCHANGED <<stage, local_bucket_counts, bucket, loaded>>
    BY <1>10 DEF LeaveCritical
  <2>2. critical = t  BY <2>1 DEF CriticalInv
  <2>. QED  BY <1>4, <1>10, <2>1, <2>2 DEF Points, ThreadStep
<1>11. CASE UNCHANGED vars
  BY <1>11 DEF vars, team, CriticalInv
<1>. QED
  BY <1>1, <1>2, <1>3, <1>5, <1>6, <1>7, <1>8, <1>9, <1>10, <1>11 DEF Next, ThreadStep

-----------------------------------------------------------------------------
(* The shared counts: while a thread is inside it adds its iterations,     *)
(* bucket by bucket, and nothing that another thread has added is lost.    *)

(* A step that changes neither the keys nor who has merged what.           *)
LEMMA MergeFrame ==
  ASSUME MergeInv, stage = "count", UNCHANGED <<keys, schedule, local_bucket_counts>>,
         TypeOK,
         \A t \in Thread : \A b \in Bucket : Merged(t, b)' <=> Merged(t, b)
  PROVE  MergeInv'
<1>1. \A b \in Bucket : MergedOf(b)' = MergedOf(b)
  BY DEF MergedOf, Of, TypeOK
<1>. QED  BY <1>1 DEF MergeInv

LEMMA StepMerge ==
  TypeOK /\ LoopInv /\ CriticalInv /\ MergeInv /\ [Next]_vars => MergeInv'
<1>. SUFFICES ASSUME TypeOK, LoopInv, CriticalInv, MergeInv, [Next]_vars
              PROVE  MergeInv'
  OBVIOUS
<1>. USE DEF Inside
<1>1. CASE ChangeKeys \/ NextIteration
  BY <1>1 DEF ChangeKeys, NextIteration, MergeInv
<1>2. CASE OrganizeKeys
  <2>1. \A t \in Thread : \A b \in Bucket : ~Merged(t, b)'
    BY <1>2 DEF OrganizeKeys, Merged
  <2>2. \A b \in Bucket : MergedOf(b)' = {}
    <3>1. schedule' \in [Index -> Thread]  BY <1>2 DEF OrganizeKeys, TypeOK
    <3>. QED  BY <2>1, <3>1 DEF MergedOf, Of
  <2>3. \A b \in Bucket : local_bucket_counts'[b] = 0
    BY <1>2, Slots DEF OrganizeKeys
  <2>. QED  BY <2>2, <2>3, FS_EmptySet DEF MergeInv
<1>3. CASE EndRegion
  <2>1. UNCHANGED <<keys, schedule, local_bucket_counts, pc, bucket>>
    BY <1>3 DEF EndRegion, rankVars, team
  <2>2. \A b \in Bucket : MergedOf(b)' = MergedOf(b)
    BY <2>1 DEF MergedOf, Of, Merged
  <2>. QED  BY <1>3, <2>1, <2>2 DEF EndRegion, MergeInv
<1>4. ASSUME NEW t \in Thread,
             CountKey(t) \/ EndLoop(t) \/ EnterCritical(t) \/ LoadCount(t) \/ LeaveCritical(t)
      PROVE  MergeInv'
  <2>1. UNCHANGED <<keys, schedule, local_bucket_counts>>
    BY <1>4 DEF CountKey, EndLoop, EnterCritical, LoadCount, LeaveCritical, rankVars
  <2>2. \A u \in Thread : u # t => pc'[u] = pc[u] /\ bucket'[u] = bucket[u]
    BY <1>4 DEF CountKey, EndLoop, EnterCritical, LoadCount, LeaveCritical, TypeOK
  <2>3. stage = "count"
    BY <1>4 DEF CriticalInv, CountKey, EndLoop, EnterCritical, LoadCount, LeaveCritical
  <2>4. \A b \in Bucket : Merged(t, b)' <=> Merged(t, b)
    <3>1. CASE CountKey(t)  BY <3>1 DEF CountKey, Merged
    <3>2. CASE EndLoop(t)  BY <3>2 DEF EndLoop, Merged, TypeOK
    <3>3. CASE EnterCritical(t)
      <4>1. pc[t] = "enter" /\ pc'[t] = "load" /\ bucket'[t] = 0
        BY <3>3 DEF EnterCritical, TypeOK
      <4>. QED  BY <4>1, Constants DEF Merged, Bucket
    <3>4. CASE LoadCount(t)  BY <3>4 DEF LoadCount, Merged, TypeOK
    <3>5. CASE LeaveCritical(t)
      <4>1. pc[t] = "load" /\ pc'[t] = "done" /\ bucket[t] = NumBuckets
        BY <3>5 DEF LeaveCritical, TypeOK
      <4>. QED  BY <4>1, Constants DEF Merged, Bucket
    <3>. QED  BY <1>4, <3>1, <3>2, <3>3, <3>4, <3>5
  <2>5. \A u \in Thread : \A b \in Bucket : Merged(u, b)' <=> Merged(u, b)
    BY <2>2, <2>4 DEF Merged
  <2>. QED  BY <2>1, <2>3, <2>5, MergeFrame
<1>5. ASSUME NEW t \in Thread, StoreCount(t)  PROVE MergeInv'
  <2>0. PICK c \in Bucket : c = bucket[t]  BY <1>5 DEF StoreCount, CriticalInv
  <2>. DEFINE mine == Share(t) \intersect Of(c)
  <2>1. /\ pc[t] = "store" /\ pc'[t] = "load" /\ bucket'[t] = c + 1
        /\ local_bucket_counts' =
             [local_bucket_counts EXCEPT ![c] = loaded[t] + bucket_size_private[t][c]]
        /\ UNCHANGED <<keys, schedule, stage>>
        /\ \A u \in Thread : u # t => pc'[u] = pc[u] /\ bucket'[u] = bucket[u]
    BY <1>5, <2>0 DEF StoreCount, rankVars, TypeOK
  <2>2. loaded[t] = local_bucket_counts[c] /\ stage = "count"
    BY <2>0, <2>1 DEF CriticalInv
  <2>3. bucket_size_private[t][c] = Cardinality(mine)
    <3>1. todo[t] = {}  BY <2>1, <2>2 DEF LoopInv
    <3>. QED  BY <2>2, <3>1 DEF LoopInv
  <2>4. local_bucket_counts[c] = Cardinality(MergedOf(c))  BY <2>2 DEF MergeInv
  <2>5. /\ local_bucket_counts'[c] = Cardinality(MergedOf(c)) + Cardinality(mine)
        /\ \A b \in Bucket : b # c => local_bucket_counts'[b] = local_bucket_counts[b]
    BY <2>1, <2>2, <2>3, <2>4, Slots DEF TypeOK
  <2>6. \A b \in Bucket : Of(b)' = Of(b)  BY <2>1 DEF Of
  <2>7. \A b \in Bucket : Merged(t, b) <=> b < c
    BY <2>0, <2>1 DEF Merged
  <2>8. \A b \in Bucket : Merged(t, b)' <=> b < c \/ b = c
    BY <2>1, <2>2, Slots DEF Merged
  <2>9. \A u \in Thread : \A b \in Bucket : u # t => (Merged(u, b)' <=> Merged(u, b))
    BY <2>1 DEF Merged
  <2>10. ASSUME NEW b \in Bucket, b # c  PROVE MergedOf(b)' = MergedOf(b)
    <3>1. \A u \in Thread : Merged(u, b)' <=> Merged(u, b)
      BY <2>7, <2>8, <2>9, <2>10
    <3>. QED  BY <2>1, <2>6, <3>1 DEF MergedOf, Of, TypeOK
  <2>11. MergedOf(c)' = MergedOf(c) \union mine /\ MergedOf(c) \intersect mine = {}
    <3>1. ~Merged(t, c) /\ Merged(t, c)'  BY <2>2, <2>7, <2>8, Slots
    <3>2. \A i \in Index : Merged(schedule[i], c)' <=> Merged(schedule[i], c) \/ schedule[i] = t
      BY <2>1, <2>9, <3>1 DEF TypeOK
    <3>3. MergedOf(c)' = {i \in Of(c) : Merged(schedule[i], c)'}
      BY <2>1, <2>2, <2>6 DEF MergedOf
    <3>4. MergedOf(c)' = MergedOf(c) \union mine
      BY <3>2, <3>3 DEF MergedOf, Of, Share
    <3>5. MergedOf(c) \intersect mine = {}
      BY <3>1 DEF MergedOf, Share
    <3>. QED  BY <3>4, <3>5
  <2>12. local_bucket_counts'[c] = Cardinality(MergedOf(c)')
    <3>1. /\ IsFiniteSet(mine) /\ Cardinality(mine) \in Nat
          /\ IsFiniteSet(MergedOf(c)) /\ Cardinality(MergedOf(c)) \in Nat
      BY IndexSets DEF Of, MergedOf, Share
    <3>. HIDE DEF mine
    <3>2. Cardinality(MergedOf(c) \union mine) = Cardinality(MergedOf(c)) + Cardinality(mine)
      <4>. DEFINE old == MergedOf(c)
      <4>1. old \intersect mine = {} /\ IsFiniteSet(old) /\ Cardinality(old) \in Nat
        BY <2>11, <3>1
      <4>. HIDE DEF old
      <4>2. Cardinality(old \union mine) =
              Cardinality(old) + Cardinality(mine) - Cardinality(old \intersect mine)
        BY <3>1, <4>1, FS_Union
      <4>3. Cardinality(old \intersect mine) = 0  BY <4>1, FS_EmptySet
      <4>4. Cardinality(old \union mine) = Cardinality(old) + Cardinality(mine)
        BY <3>1, <4>1, <4>2, <4>3
      <4>. QED  BY <4>4 DEF old
    <3>. QED  BY <2>5, <2>11, <3>2
  <2>13. ASSUME NEW b \in Bucket  PROVE local_bucket_counts'[b] = Cardinality(MergedOf(b)')
    <3>1. CASE b = c  BY <2>12, <3>1
    <3>2. CASE b # c  BY <2>2, <2>5, <2>10, <3>2 DEF MergeInv
    <3>. QED  BY <3>1, <3>2
  <2>. QED  BY <2>13 DEF MergeInv
<1>6. CASE UNCHANGED vars
  <2>1. UNCHANGED <<keys, schedule, local_bucket_counts, pc, bucket, stage>>
    BY <1>6 DEF vars, rankVars, team
  <2>2. \A b \in Bucket : MergedOf(b)' = MergedOf(b)
    BY <2>1 DEF MergedOf, Of, Merged
  <2>. QED  BY <2>1, <2>2 DEF MergeInv
<1>. QED  BY <1>1, <1>2, <1>3, <1>4, <1>5, <1>6 DEF Next, ThreadStep

-----------------------------------------------------------------------------
(* The slots of the test keys: captured once, never written by a merge.    *)
LEMMA StepTest == TypeOK /\ CriticalInv /\ TestInv /\ [Next]_vars => TestInv'
<1>. SUFFICES ASSUME TypeOK, CriticalInv, TestInv, [Next]_vars  PROVE TestInv'
  OBVIOUS
<1>1. CASE ChangeKeys \/ NextIteration
  BY <1>1 DEF ChangeKeys, NextIteration, TestInv
<1>2. CASE OrganizeKeys
  <2>1. UNCHANGED <<keys, my_rank>>  BY <1>2 DEF OrganizeKeys, rankVars
  <2>2. ASSUME NEW id \in TestId  PROVE local_bucket_counts'[TestSlot(id)] = Captured(id)'
    <3>1. local_bucket_counts'[TestSlot(id)] = Captured(TestSlot(id) - NumBuckets)
      BY <1>2, Slots DEF OrganizeKeys
    <3>2. Captured(id)' = Captured(id)  BY <2>1 DEF Captured
    <3>. QED  BY <3>1, <3>2, Slots
  <2>. QED  BY <2>2 DEF TestInv
<1>3. ASSUME stage \in {"count", "ready"}, UNCHANGED <<keys, my_rank>>,
             \A id \in TestId :
               local_bucket_counts'[TestSlot(id)] = local_bucket_counts[TestSlot(id)]
      PROVE  TestInv'
  BY <1>3 DEF TestInv, Captured
<1>4. CASE EndRegion
  BY <1>3, <1>4 DEF EndRegion, rankVars
<1>5. ASSUME NEW t \in Thread, StoreCount(t)  PROVE TestInv'
  <2>1. bucket[t] \in Bucket /\ stage = "count" /\ UNCHANGED <<keys, my_rank>>
    BY <1>5 DEF StoreCount, CriticalInv, rankVars
  <2>2. \A id \in TestId :
          local_bucket_counts'[TestSlot(id)] = local_bucket_counts[TestSlot(id)]
    BY <1>5, <2>1, Slots DEF StoreCount, TypeOK
  <2>. QED  BY <1>3, <2>1, <2>2
<1>6. ASSUME NEW t \in Thread,
             CountKey(t) \/ EndLoop(t) \/ EnterCritical(t) \/ LoadCount(t) \/ LeaveCritical(t)
      PROVE  TestInv'
  <2>1. /\ stage = "count" /\ UNCHANGED <<keys, my_rank, local_bucket_counts>>
    BY <1>6
    DEF CountKey, EndLoop, EnterCritical, LoadCount, LeaveCritical, rankVars, CriticalInv
  <2>. QED  BY <1>3, <2>1
<1>7. CASE UNCHANGED vars
  BY <1>7 DEF vars, rankVars, TestInv, Captured
<1>. QED  BY <1>1, <1>2, <1>4, <1>5, <1>6, <1>7 DEF Next, ThreadStep

-----------------------------------------------------------------------------
(* The theorems.                                                           *)

(* The invariant of CountBucketsInv holds in every reachable state.        *)
THEOREM Inductive == Spec => []IInv
<1>1. IInv /\ [Next]_vars => IInv'
  BY StepType, StepLoop, StepCritical, StepMerge, StepTest DEF IInv
<1>. QED  BY <1>1, InitInv, PTL DEF Spec

(* The types of the variables, for every team and every number of keys.    *)
THEOREM TypeCorrect == Spec => []TypeOK
<1>1. IInv => TypeOK  BY DEF IInv
<1>. QED  BY <1>1, Inductive, PTL

(* No count is lost: no two threads are between the load of a shared count *)
(* and its store at the same time, and nobody changes it meanwhile.        *)
MergeIsExclusive ==
  /\ \A t, u \in Thread : pc[t] \in Inside /\ pc[u] \in Inside => t = u
  /\ \A t \in Thread : pc[t] = "store" => loaded[t] = local_bucket_counts[bucket[t]]

THEOREM Exclusive == Spec => []MergeIsExclusive
<1>1. IInv => MergeIsExclusive  BY DEF IInv, CriticalInv, MergeIsExclusive
<1>. QED  BY <1>1, Inductive, PTL

(* What the reduction reads are the counts of the keys of this iteration   *)
(* and the test keys of this rank, however the loop was shared out and the *)
(* merges were interleaved.                                                *)
THEOREM CountsExact == Spec => []CountsOfIteration
<1>1. IInv => CountsOfIteration
  <2>. SUFFICES ASSUME IInv, stage = "ready"  PROVE
         /\ \A b \in Bucket : local_bucket_counts[b] = Cardinality(Of(b))
         /\ \A id \in TestId :
              local_bucket_counts[TestSlot(id)] =
                IF TestIndex[id] \in my_rank * LocalKeys .. (my_rank + 1) * LocalKeys - 1
                THEN keys[TestIndex[id] - my_rank * LocalKeys] ELSE 0
    BY DEF CountsOfIteration, Of
  <2>1. ASSUME NEW b \in Bucket  PROVE local_bucket_counts[b] = Cardinality(Of(b))
    <3>1. \A i \in Index : pc[schedule[i]] = "done"  BY DEF IInv, CriticalInv, TypeOK
    <3>2. MergedOf(b) = Of(b)  BY <3>1 DEF MergedOf, Merged, Of
    <3>. QED  BY <3>2 DEF IInv, MergeInv
  <2>2. ASSUME NEW id \in TestId
        PROVE  local_bucket_counts[TestSlot(id)] =
                 IF TestIndex[id] \in my_rank * LocalKeys .. (my_rank + 1) * LocalKeys - 1
                 THEN keys[TestIndex[id] - my_rank * LocalKeys] ELSE 0
    <3>1. TestIndex[id] \in Nat /\ my_rank \in Nat /\ LocalKeys \in Nat \ {0}
      BY Constants, CountAssumption DEF IInv, TypeOK
    <3>2. local_bucket_counts[TestSlot(id)] = Captured(id)  BY DEF IInv, TestInv
    <3>3. /\ TestIndex[id] \div LocalKeys = my_rank
               <=> TestIndex[id] \in my_rank * LocalKeys .. (my_rank + 1) * LocalKeys - 1
          /\ TestIndex[id] \div LocalKeys = my_rank
               => TestIndex[id] % LocalKeys = TestIndex[id] - my_rank * LocalKeys
      <4>1. PICK n, d, r : n = TestIndex[id] /\ d = LocalKeys /\ r = my_rank  OBVIOUS
      <4>2. n \in Nat /\ d \in Nat \ {0} /\ r \in Nat  BY ONLY <3>1, <4>1
      <4>3. /\ n \div d = r <=> n \in r * d .. (r + 1) * d - 1
            /\ n \div d = r => n % d = n - r * d
        BY ONLY <4>2, Block, ZenonT(40)
      <4>. QED  BY ONLY <4>1, <4>3, Zenon
    <3>. QED  BY <3>2, <3>3 DEF Captured
  <2>. QED  BY <2>1, <2>2
<1>. QED  BY <1>1, Inductive, PTL

-----------------------------------------------------------------------------
(* compute_local_ranks().                                                  *)


(* The parts of the type invariant about control.                          *)
LEMMA ControlTypes ==
  ASSUME RankTypeOK
  PROVE  /\ at \in [Member -> Labels]
         /\ arrived \in [Member -> 0 .. 4]
         /\ taken \subseteq {"resize", "scan"}
BY DEF RankTypeOK

(* A step keeps the counts of barriers.                                    *)
LEMMA CountsStep ==
  ASSUME RankInv, NEW t \in Member, RankStep(t)
  PROVE  BarrierCounts'
<1>a. /\ at \in [Member -> Labels] /\ arrived \in [Member -> 0 .. 4]
      /\ taken \subseteq {"resize", "scan"}
  BY ControlTypes DEF RankInv
<1>b. BarrierCounts /\ BarrierOrder /\ Singles
  BY DEF RankInv
<1>1. CASE ResizeSums(t)
  <2>1. at[t] = "resize" /\ \A u \in Member : at'[u] = IF u = t THEN "resized" ELSE at[u]
    BY <1>1, <1>a DEF ResizeSums, Goto
  <2>2. \A u \in Member : arrived'[u] = IF u = t THEN arrived[t] + 1 ELSE arrived[u]
    BY <1>1, <1>a DEF ResizeSums, Arrive
  <2>3. \A u \in Member : arrived[u] \in 0 .. 4 /\ at[u] \in Labels
    BY <1>a
  <2> QED BY <2>1, <2>2, <2>3, <1>b DEF BarrierCounts, Labels
<1>2. CASE Skip(t, "resize", "resized")
  <2>1. at[t] = "resize" /\ \A u \in Member : at'[u] = IF u = t THEN "resized" ELSE at[u]
    BY <1>2, <1>a DEF Skip, Goto
  <2>2. \A u \in Member : arrived'[u] = IF u = t THEN arrived[t] + 1 ELSE arrived[u]
    BY <1>2, <1>a DEF Skip, Arrive
  <2>3. \A u \in Member : arrived[u] \in 0 .. 4 /\ at[u] \in Labels
    BY <1>a
  <2> QED BY <2>1, <2>2, <2>3, <1>b DEF BarrierCounts, Labels
<1>3. CASE BeginSum(t)
  <2>1. at[t] = "resized" /\ \A u \in Member : at'[u] = IF u = t THEN "sum" ELSE at[u]
    BY <1>3, <1>a DEF BeginSum, Goto
  <2>2. \A u \in Member : arrived'[u] = arrived[u]
    BY <1>3 DEF BeginSum
  <2>3. \A u \in Member : arrived[u] \in 0 .. 4 /\ at[u] \in Labels
    BY <1>a
  <2>4. \A u \in Member : arrived[u] >= arrived[t]
    BY <1>3 DEF BeginSum, AllArrived
  <2> QED BY <2>1, <2>2, <2>3, <2>4, <1>b DEF BarrierCounts, Labels
<1>4. CASE AddCount(t)
  BY <1>4, <1>a, <1>b DEF AddCount, BarrierCounts
<1>5. CASE StoreSum(t)
  <2>1. at[t] = "sum" /\ \A u \in Member : at'[u] = IF u = t THEN "stored" ELSE at[u]
    BY <1>5, <1>a DEF StoreSum, Goto
  <2>2. \A u \in Member : arrived'[u] = IF u = t THEN arrived[t] + 1 ELSE arrived[u]
    BY <1>5, <1>a DEF StoreSum, Arrive
  <2>3. \A u \in Member : arrived[u] \in 0 .. 4 /\ at[u] \in Labels
    BY <1>a
  <2> QED BY <2>1, <2>2, <2>3, <1>b DEF BarrierCounts, Labels
<1>6. CASE PassBarrier(t)
  <2>1. at[t] = "stored" /\ \A u \in Member : at'[u] = IF u = t THEN "scan" ELSE at[u]
    BY <1>6, <1>a DEF PassBarrier, Goto
  <2>2. \A u \in Member : arrived'[u] = arrived[u]
    BY <1>6 DEF PassBarrier
  <2>3. \A u \in Member : arrived[u] \in 0 .. 4 /\ at[u] \in Labels
    BY <1>a
  <2>4. \A u \in Member : arrived[u] >= arrived[t]
    BY <1>6 DEF PassBarrier, AllArrived
  <2> QED BY <2>1, <2>2, <2>3, <2>4, <1>b DEF BarrierCounts, Labels
<1>7. CASE TakeScan(t)
  <2>1. at[t] = "scan" /\ \A u \in Member : at'[u] = IF u = t THEN "scanning" ELSE at[u]
    BY <1>7, <1>a DEF TakeScan, Goto
  <2>2. \A u \in Member : arrived'[u] = arrived[u]
    BY <1>7 DEF TakeScan
  <2>3. \A u \in Member : arrived[u] \in 0 .. 4 /\ at[u] \in Labels
    BY <1>a
  <2> QED BY <2>1, <2>2, <2>3, <1>b DEF BarrierCounts, Labels
<1>8. CASE Skip(t, "scan", "scanned")
  <2>1. at[t] = "scan" /\ \A u \in Member : at'[u] = IF u = t THEN "scanned" ELSE at[u]
    BY <1>8, <1>a DEF Skip, Goto
  <2>2. \A u \in Member : arrived'[u] = IF u = t THEN arrived[t] + 1 ELSE arrived[u]
    BY <1>8, <1>a DEF Skip, Arrive
  <2>3. \A u \in Member : arrived[u] \in 0 .. 4 /\ at[u] \in Labels
    BY <1>a
  <2> QED BY <2>1, <2>2, <2>3, <1>b DEF BarrierCounts, Labels
<1>9. CASE ScanCell(t)
  BY <1>9, <1>a, <1>b DEF ScanCell, BarrierCounts
<1>10. CASE EndScan(t)
  <2>1. at[t] = "scanning" /\ \A u \in Member : at'[u] = IF u = t THEN "scanned" ELSE at[u]
    BY <1>10, <1>a DEF EndScan, Goto
  <2>2. \A u \in Member : arrived'[u] = IF u = t THEN arrived[t] + 1 ELSE arrived[u]
    BY <1>10, <1>a DEF EndScan, Arrive
  <2>3. \A u \in Member : arrived[u] \in 0 .. 4 /\ at[u] \in Labels
    BY <1>a
  <2> QED BY <2>1, <2>2, <2>3, <1>b DEF BarrierCounts, Labels
<1>11. CASE TakeOffset(t)
  <2>1. at[t] = "scanned" /\ \A u \in Member : at'[u] = IF u = t THEN "rank" ELSE at[u]
    BY <1>11, <1>a DEF TakeOffset, Goto
  <2>2. \A u \in Member : arrived'[u] = arrived[u]
    BY <1>11 DEF TakeOffset
  <2>3. \A u \in Member : arrived[u] \in 0 .. 4 /\ at[u] \in Labels
    BY <1>a
  <2>4. \A u \in Member : arrived[u] >= arrived[t]
    BY <1>11 DEF TakeOffset, AllArrived
  <2> QED BY <2>1, <2>2, <2>3, <2>4, <1>b DEF BarrierCounts, Labels
<1>12. CASE RankKey(t)
  BY <1>12, <1>a, <1>b DEF RankKey, BarrierCounts
<1>13. CASE EndRank(t)
  <2>1. at[t] = "rank" /\ \A u \in Member : at'[u] = IF u = t THEN "ranked" ELSE at[u]
    BY <1>13, <1>a DEF EndRank, Goto
  <2>2. \A u \in Member : arrived'[u] = IF u = t THEN arrived[t] + 1 ELSE arrived[u]
    BY <1>13, <1>a DEF EndRank, Arrive
  <2>3. \A u \in Member : arrived[u] \in 0 .. 4 /\ at[u] \in Labels
    BY <1>a
  <2> QED BY <2>1, <2>2, <2>3, <1>b DEF BarrierCounts, Labels
<1>14. CASE Leave(t)
  <2>1. at[t] = "ranked" /\ \A u \in Member : at'[u] = IF u = t THEN "done" ELSE at[u]
    BY <1>14, <1>a DEF Leave, Goto
  <2>2. \A u \in Member : arrived'[u] = arrived[u]
    BY <1>14 DEF Leave
  <2>3. \A u \in Member : arrived[u] \in 0 .. 4 /\ at[u] \in Labels
    BY <1>a
  <2>4. \A u \in Member : arrived[u] >= arrived[t]
    BY <1>14 DEF Leave, AllArrived
  <2> QED BY <2>1, <2>2, <2>3, <2>4, <1>b DEF BarrierCounts, Labels
<1> QED BY <1>1, <1>2, <1>3, <1>4, <1>5, <1>6, <1>7, <1>8, <1>9, <1>10, <1>11, <1>12, <1>13, <1>14
   DEF RankStep

(* A step keeps the order of the barriers.                                 *)
LEMMA OrderStep ==
  ASSUME RankInv, NEW t \in Member, RankStep(t)
  PROVE  BarrierOrder'
<1>a. /\ at \in [Member -> Labels] /\ arrived \in [Member -> 0 .. 4]
      /\ taken \subseteq {"resize", "scan"}
  BY ControlTypes DEF RankInv
<1>b. BarrierCounts /\ BarrierOrder /\ Singles
  BY DEF RankInv
<1>1. CASE ResizeSums(t)
  <2>1. at[t] = "resize" /\ \A u \in Member : at'[u] = IF u = t THEN "resized" ELSE at[u]
    BY <1>1, <1>a DEF ResizeSums, Goto
  <2>2. \A u \in Member : arrived'[u] = IF u = t THEN arrived[t] + 1 ELSE arrived[u]
    BY <1>1, <1>a DEF ResizeSums, Arrive
  <2>3. \A u \in Member : arrived[u] \in 0 .. 4 /\ at[u] \in Labels
    BY <1>a
  <2> QED BY <2>1, <2>2, <2>3, <1>b DEF BarrierCounts, BarrierOrder, Labels
<1>2. CASE Skip(t, "resize", "resized")
  <2>1. at[t] = "resize" /\ \A u \in Member : at'[u] = IF u = t THEN "resized" ELSE at[u]
    BY <1>2, <1>a DEF Skip, Goto
  <2>2. \A u \in Member : arrived'[u] = IF u = t THEN arrived[t] + 1 ELSE arrived[u]
    BY <1>2, <1>a DEF Skip, Arrive
  <2>3. \A u \in Member : arrived[u] \in 0 .. 4 /\ at[u] \in Labels
    BY <1>a
  <2> QED BY <2>1, <2>2, <2>3, <1>b DEF BarrierCounts, BarrierOrder, Labels
<1>3. CASE BeginSum(t)
  <2>1. at[t] = "resized" /\ \A u \in Member : at'[u] = IF u = t THEN "sum" ELSE at[u]
    BY <1>3, <1>a DEF BeginSum, Goto
  <2>2. \A u \in Member : arrived'[u] = arrived[u]
    BY <1>3 DEF BeginSum
  <2>3. \A u \in Member : arrived[u] \in 0 .. 4 /\ at[u] \in Labels
    BY <1>a
  <2>4. \A u \in Member : arrived[u] >= arrived[t]
    BY <1>3 DEF BeginSum, AllArrived
  <2> QED BY <2>1, <2>2, <2>3, <2>4, <1>b DEF BarrierCounts, BarrierOrder, Labels
<1>4. CASE AddCount(t)
  BY <1>4, <1>a, <1>b DEF AddCount, BarrierCounts, BarrierOrder
<1>5. CASE StoreSum(t)
  <2>1. at[t] = "sum" /\ \A u \in Member : at'[u] = IF u = t THEN "stored" ELSE at[u]
    BY <1>5, <1>a DEF StoreSum, Goto
  <2>2. \A u \in Member : arrived'[u] = IF u = t THEN arrived[t] + 1 ELSE arrived[u]
    BY <1>5, <1>a DEF StoreSum, Arrive
  <2>3. \A u \in Member : arrived[u] \in 0 .. 4 /\ at[u] \in Labels
    BY <1>a
  <2> QED BY <2>1, <2>2, <2>3, <1>b DEF BarrierCounts, BarrierOrder, Labels
<1>6. CASE PassBarrier(t)
  <2>1. at[t] = "stored" /\ \A u \in Member : at'[u] = IF u = t THEN "scan" ELSE at[u]
    BY <1>6, <1>a DEF PassBarrier, Goto
  <2>2. \A u \in Member : arrived'[u] = arrived[u]
    BY <1>6 DEF PassBarrier
  <2>3. \A u \in Member : arrived[u] \in 0 .. 4 /\ at[u] \in Labels
    BY <1>a
  <2>4. \A u \in Member : arrived[u] >= arrived[t]
    BY <1>6 DEF PassBarrier, AllArrived
  <2> QED BY <2>1, <2>2, <2>3, <2>4, <1>b DEF BarrierCounts, BarrierOrder, Labels
<1>7. CASE TakeScan(t)
  <2>1. at[t] = "scan" /\ \A u \in Member : at'[u] = IF u = t THEN "scanning" ELSE at[u]
    BY <1>7, <1>a DEF TakeScan, Goto
  <2>2. \A u \in Member : arrived'[u] = arrived[u]
    BY <1>7 DEF TakeScan
  <2>3. \A u \in Member : arrived[u] \in 0 .. 4 /\ at[u] \in Labels
    BY <1>a
  <2> QED BY <2>1, <2>2, <2>3, <1>b DEF BarrierCounts, BarrierOrder, Labels
<1>8. CASE Skip(t, "scan", "scanned")
  <2>1. at[t] = "scan" /\ \A u \in Member : at'[u] = IF u = t THEN "scanned" ELSE at[u]
    BY <1>8, <1>a DEF Skip, Goto
  <2>2. \A u \in Member : arrived'[u] = IF u = t THEN arrived[t] + 1 ELSE arrived[u]
    BY <1>8, <1>a DEF Skip, Arrive
  <2>3. \A u \in Member : arrived[u] \in 0 .. 4 /\ at[u] \in Labels
    BY <1>a
  <2> QED BY <2>1, <2>2, <2>3, <1>b DEF BarrierCounts, BarrierOrder, Labels
<1>9. CASE ScanCell(t)
  BY <1>9, <1>a, <1>b DEF ScanCell, BarrierCounts, BarrierOrder
<1>10. CASE EndScan(t)
  <2>1. at[t] = "scanning" /\ \A u \in Member : at'[u] = IF u = t THEN "scanned" ELSE at[u]
    BY <1>10, <1>a DEF EndScan, Goto
  <2>2. \A u \in Member : arrived'[u] = IF u = t THEN arrived[t] + 1 ELSE arrived[u]
    BY <1>10, <1>a DEF EndScan, Arrive
  <2>3. \A u \in Member : arrived[u] \in 0 .. 4 /\ at[u] \in Labels
    BY <1>a
  <2> QED BY <2>1, <2>2, <2>3, <1>b DEF BarrierCounts, BarrierOrder, Labels
<1>11. CASE TakeOffset(t)
  <2>1. at[t] = "scanned" /\ \A u \in Member : at'[u] = IF u = t THEN "rank" ELSE at[u]
    BY <1>11, <1>a DEF TakeOffset, Goto
  <2>2. \A u \in Member : arrived'[u] = arrived[u]
    BY <1>11 DEF TakeOffset
  <2>3. \A u \in Member : arrived[u] \in 0 .. 4 /\ at[u] \in Labels
    BY <1>a
  <2>4. \A u \in Member : arrived[u] >= arrived[t]
    BY <1>11 DEF TakeOffset, AllArrived
  <2> QED BY <2>1, <2>2, <2>3, <2>4, <1>b DEF BarrierCounts, BarrierOrder, Labels
<1>12. CASE RankKey(t)
  BY <1>12, <1>a, <1>b DEF RankKey, BarrierCounts, BarrierOrder
<1>13. CASE EndRank(t)
  <2>1. at[t] = "rank" /\ \A u \in Member : at'[u] = IF u = t THEN "ranked" ELSE at[u]
    BY <1>13, <1>a DEF EndRank, Goto
  <2>2. \A u \in Member : arrived'[u] = IF u = t THEN arrived[t] + 1 ELSE arrived[u]
    BY <1>13, <1>a DEF EndRank, Arrive
  <2>3. \A u \in Member : arrived[u] \in 0 .. 4 /\ at[u] \in Labels
    BY <1>a
  <2> QED BY <2>1, <2>2, <2>3, <1>b DEF BarrierCounts, BarrierOrder, Labels
<1>14. CASE Leave(t)
  <2>1. at[t] = "ranked" /\ \A u \in Member : at'[u] = IF u = t THEN "done" ELSE at[u]
    BY <1>14, <1>a DEF Leave, Goto
  <2>2. \A u \in Member : arrived'[u] = arrived[u]
    BY <1>14 DEF Leave
  <2>3. \A u \in Member : arrived[u] \in 0 .. 4 /\ at[u] \in Labels
    BY <1>a
  <2>4. \A u \in Member : arrived[u] >= arrived[t]
    BY <1>14 DEF Leave, AllArrived
  <2> QED BY <2>1, <2>2, <2>3, <2>4, <1>b DEF BarrierCounts, BarrierOrder, Labels
<1> QED BY <1>1, <1>2, <1>3, <1>4, <1>5, <1>6, <1>7, <1>8, <1>9, <1>10, <1>11, <1>12, <1>13, <1>14
   DEF RankStep

(* A step keeps what the single constructs guarantee.                      *)
LEMMA SinglesStep ==
  ASSUME RankInv, NEW t \in Member, RankStep(t)
  PROVE  Singles'
<1>a. /\ at \in [Member -> Labels] /\ arrived \in [Member -> 0 .. 4]
      /\ taken \subseteq {"resize", "scan"}
  BY ControlTypes DEF RankInv
<1>b. BarrierCounts /\ BarrierOrder /\ Singles
  BY DEF RankInv
<1>1. CASE ResizeSums(t)
  <2>1. at[t] = "resize" /\ \A u \in Member : at'[u] = IF u = t THEN "resized" ELSE at[u]
    BY <1>1, <1>a DEF ResizeSums, Goto
  <2>2. \A u \in Member : arrived'[u] = IF u = t THEN arrived[t] + 1 ELSE arrived[u]
    BY <1>1, <1>a DEF ResizeSums, Arrive
  <2>3. \A u \in Member : arrived[u] \in 0 .. 4 /\ at[u] \in Labels
    BY <1>a
  <2>5. taken' = taken \union {"resize"}
    BY <1>1 DEF ResizeSums
  <2> QED BY <2>1, <2>2, <2>3, <2>5, <1>b DEF BarrierCounts, BarrierOrder, Singles,
     Labels
<1>2. CASE Skip(t, "resize", "resized")
  <2>1. at[t] = "resize" /\ \A u \in Member : at'[u] = IF u = t THEN "resized" ELSE at[u]
    BY <1>2, <1>a DEF Skip, Goto
  <2>2. \A u \in Member : arrived'[u] = IF u = t THEN arrived[t] + 1 ELSE arrived[u]
    BY <1>2, <1>a DEF Skip, Arrive
  <2>3. \A u \in Member : arrived[u] \in 0 .. 4 /\ at[u] \in Labels
    BY <1>a
  <2>5. taken' = taken /\ "resize" \in taken
    BY <1>2 DEF Skip
  <2> QED BY <2>1, <2>2, <2>3, <2>5, <1>b DEF BarrierCounts, BarrierOrder, Singles,
     Labels
<1>3. CASE BeginSum(t)
  <2>1. at[t] = "resized" /\ \A u \in Member : at'[u] = IF u = t THEN "sum" ELSE at[u]
    BY <1>3, <1>a DEF BeginSum, Goto
  <2>2. \A u \in Member : arrived'[u] = arrived[u]
    BY <1>3 DEF BeginSum
  <2>3. \A u \in Member : arrived[u] \in 0 .. 4 /\ at[u] \in Labels
    BY <1>a
  <2>4. \A u \in Member : arrived[u] >= arrived[t]
    BY <1>3 DEF BeginSum, AllArrived
  <2>5. taken' = taken
    BY <1>3 DEF BeginSum
  <2> QED BY <2>1, <2>2, <2>3, <2>4, <2>5, <1>b DEF BarrierCounts, BarrierOrder,
     Singles, Labels
<1>4. CASE AddCount(t)
  BY <1>4, <1>a, <1>b DEF AddCount, BarrierCounts, BarrierOrder, Singles
<1>5. CASE StoreSum(t)
  <2>1. at[t] = "sum" /\ \A u \in Member : at'[u] = IF u = t THEN "stored" ELSE at[u]
    BY <1>5, <1>a DEF StoreSum, Goto
  <2>2. \A u \in Member : arrived'[u] = IF u = t THEN arrived[t] + 1 ELSE arrived[u]
    BY <1>5, <1>a DEF StoreSum, Arrive
  <2>3. \A u \in Member : arrived[u] \in 0 .. 4 /\ at[u] \in Labels
    BY <1>a
  <2>5. taken' = taken
    BY <1>5 DEF StoreSum
  <2> QED BY <2>1, <2>2, <2>3, <2>5, <1>b DEF BarrierCounts, BarrierOrder, Singles,
     Labels
<1>6. CASE PassBarrier(t)
  <2>1. at[t] = "stored" /\ \A u \in Member : at'[u] = IF u = t THEN "scan" ELSE at[u]
    BY <1>6, <1>a DEF PassBarrier, Goto
  <2>2. \A u \in Member : arrived'[u] = arrived[u]
    BY <1>6 DEF PassBarrier
  <2>3. \A u \in Member : arrived[u] \in 0 .. 4 /\ at[u] \in Labels
    BY <1>a
  <2>4. \A u \in Member : arrived[u] >= arrived[t]
    BY <1>6 DEF PassBarrier, AllArrived
  <2>5. taken' = taken
    BY <1>6 DEF PassBarrier
  <2> QED BY <2>1, <2>2, <2>3, <2>4, <2>5, <1>b DEF BarrierCounts, BarrierOrder,
     Singles, Labels
<1>7. CASE TakeScan(t)
  <2>1. at[t] = "scan" /\ \A u \in Member : at'[u] = IF u = t THEN "scanning" ELSE at[u]
    BY <1>7, <1>a DEF TakeScan, Goto
  <2>2. \A u \in Member : arrived'[u] = arrived[u]
    BY <1>7 DEF TakeScan
  <2>3. \A u \in Member : arrived[u] \in 0 .. 4 /\ at[u] \in Labels
    BY <1>a
  <2>5. "scan" \notin taken /\ taken' = taken \union {"scan"}
    BY <1>7 DEF TakeScan
  <2> QED BY <2>1, <2>2, <2>3, <2>5, <1>b DEF BarrierCounts, BarrierOrder, Singles,
     Labels
<1>8. CASE Skip(t, "scan", "scanned")
  <2>1. at[t] = "scan" /\ \A u \in Member : at'[u] = IF u = t THEN "scanned" ELSE at[u]
    BY <1>8, <1>a DEF Skip, Goto
  <2>2. \A u \in Member : arrived'[u] = IF u = t THEN arrived[t] + 1 ELSE arrived[u]
    BY <1>8, <1>a DEF Skip, Arrive
  <2>3. \A u \in Member : arrived[u] \in 0 .. 4 /\ at[u] \in Labels
    BY <1>a
  <2>5. taken' = taken /\ "scan" \in taken
    BY <1>8 DEF Skip
  <2> QED BY <2>1, <2>2, <2>3, <2>5, <1>b DEF BarrierCounts, BarrierOrder, Singles,
     Labels
<1>9. CASE ScanCell(t)
  BY <1>9, <1>a, <1>b DEF ScanCell, BarrierCounts, BarrierOrder, Singles
<1>10. CASE EndScan(t)
  <2>1. at[t] = "scanning" /\ \A u \in Member : at'[u] = IF u = t THEN "scanned" ELSE at[u]
    BY <1>10, <1>a DEF EndScan, Goto
  <2>2. \A u \in Member : arrived'[u] = IF u = t THEN arrived[t] + 1 ELSE arrived[u]
    BY <1>10, <1>a DEF EndScan, Arrive
  <2>3. \A u \in Member : arrived[u] \in 0 .. 4 /\ at[u] \in Labels
    BY <1>a
  <2>5. taken' = taken
    BY <1>10 DEF EndScan
  <2> QED BY <2>1, <2>2, <2>3, <2>5, <1>b DEF BarrierCounts, BarrierOrder, Singles,
     Labels
<1>11. CASE TakeOffset(t)
  <2>1. at[t] = "scanned" /\ \A u \in Member : at'[u] = IF u = t THEN "rank" ELSE at[u]
    BY <1>11, <1>a DEF TakeOffset, Goto
  <2>2. \A u \in Member : arrived'[u] = arrived[u]
    BY <1>11 DEF TakeOffset
  <2>3. \A u \in Member : arrived[u] \in 0 .. 4 /\ at[u] \in Labels
    BY <1>a
  <2>4. \A u \in Member : arrived[u] >= arrived[t]
    BY <1>11 DEF TakeOffset, AllArrived
  <2>5. taken' = taken
    BY <1>11 DEF TakeOffset
  <2> QED BY <2>1, <2>2, <2>3, <2>4, <2>5, <1>b DEF BarrierCounts, BarrierOrder,
     Singles, Labels
<1>12. CASE RankKey(t)
  BY <1>12, <1>a, <1>b DEF RankKey, BarrierCounts, BarrierOrder, Singles
<1>13. CASE EndRank(t)
  <2>1. at[t] = "rank" /\ \A u \in Member : at'[u] = IF u = t THEN "ranked" ELSE at[u]
    BY <1>13, <1>a DEF EndRank, Goto
  <2>2. \A u \in Member : arrived'[u] = IF u = t THEN arrived[t] + 1 ELSE arrived[u]
    BY <1>13, <1>a DEF EndRank, Arrive
  <2>3. \A u \in Member : arrived[u] \in 0 .. 4 /\ at[u] \in Labels
    BY <1>a
  <2>5. taken' = taken
    BY <1>13 DEF EndRank
  <2> QED BY <2>1, <2>2, <2>3, <2>5, <1>b DEF BarrierCounts, BarrierOrder, Singles,
     Labels
<1>14. CASE Leave(t)
  <2>1. at[t] = "ranked" /\ \A u \in Member : at'[u] = IF u = t THEN "done" ELSE at[u]
    BY <1>14, <1>a DEF Leave, Goto
  <2>2. \A u \in Member : arrived'[u] = arrived[u]
    BY <1>14 DEF Leave
  <2>3. \A u \in Member : arrived[u] \in 0 .. 4 /\ at[u] \in Labels
    BY <1>a
  <2>4. \A u \in Member : arrived[u] >= arrived[t]
    BY <1>14 DEF Leave, AllArrived
  <2>5. taken' = taken
    BY <1>14 DEF Leave
  <2> QED BY <2>1, <2>2, <2>3, <2>4, <2>5, <1>b DEF BarrierCounts, BarrierOrder,
     Singles, Labels
<1> QED BY <1>1, <1>2, <1>3, <1>4, <1>5, <1>6, <1>7, <1>8, <1>9, <1>10, <1>11, <1>12, <1>13, <1>14
   DEF RankStep

-----------------------------------------------------------------------------
(* Facts about the two inputs, in the form the steps below need.           *)
LEMMA InputFacts ==
  ASSUME RankTypeOK
  PROVE  /\ \A j \in 0 .. KeyRange : keys_below[j] \in 0 .. keys_below[KeyRange]
         /\ \A j, k \in 0 .. KeyRange : j <= k => keys_below[j] <= keys_below[k]
         /\ \A k \in RankedKey : frequency_histogram(k) = keys_below[k + 1] - keys_below[k]
         /\ keys_below[KeyRange] \in Nat
         /\ \A t \in 0 .. NThreads : chunk[t] \in 0 .. KeyRange
         /\ chunk[0] = 0 /\ keys_below[0] = 0
         /\ \A t, u \in 0 .. NThreads : t <= u => chunk[t] <= chunk[u]
         /\ \A k \in RankedKey : \E t \in Member : chunk[t] <= k /\ k < chunk[t + 1]
<1>1. keys_below \in Histograms /\ chunk \in Chunks
  BY DEF RankTypeOK
<1>2. \A j \in 0 .. KeyRange : keys_below[j] \in 0 .. MaxKeys
  BY <1>1 DEF Histograms
<1>3. \A j, k \in 0 .. KeyRange : j <= k => keys_below[j] <= keys_below[k]
  BY <1>1 DEF Histograms
<1>4. KeyRange \in 0 .. KeyRange
  BY RankAssumption
<1>5. \A j \in 0 .. KeyRange : keys_below[j] \in 0 .. keys_below[KeyRange]
  BY <1>2, <1>3, <1>4, RankAssumption
<1>6. \A t \in 0 .. NThreads : chunk[t] \in 0 .. KeyRange
  BY <1>1 DEF Chunks
<1>7. chunk[0] = 0 /\ keys_below[0] = 0
  BY <1>1 DEF Chunks, Histograms
<1>8. /\ \A t, u \in 0 .. NThreads : t <= u => chunk[t] <= chunk[u]
      /\ \A k \in RankedKey : \E t \in Member : chunk[t] <= k /\ k < chunk[t + 1]
  BY <1>1 DEF Chunks
<1> QED BY <1>2, <1>3, <1>4, <1>5, <1>6, <1>7, <1>8, RankAssumption DEF frequency_histogram

(* A thread's number and its successor are indices of chunk.               *)
LEMMA ThreadFacts ==
  ASSUME NEW t \in Member
  PROVE  /\ t \in Int /\ t \in 0 .. NThreads /\ t + 1 \in 0 .. NThreads
         /\ 0 \in 0 .. NThreads /\ NThreads \in 0 .. NThreads
BY RankAssumption DEF Member

(* A step of the first loop stays in the chunk and keeps the sum.          *)
LEMMA FirstPassStep ==
  ASSUME RankInv, NEW t \in Member, RankStep(t)
  PROVE  FirstPass'
<1>a. RankTypeOK /\ FirstPass
  BY DEF RankInv
<1>b. /\ at \in [Member -> Labels] /\ index \in [Member -> Nat]
      /\ sum \in [Member -> 0 .. keys_below[KeyRange]]
  BY <1>a DEF RankTypeOK
<1>c. UNCHANGED <<keys_below, chunk>>
  BY DEF RankStep, ResizeSums, Skip, BeginSum, AddCount, StoreSum,
     PassBarrier, TakeScan,
         ScanCell, EndScan, TakeOffset, RankKey, EndRank, Leave, input
<1> SUFFICES ASSUME NEW u \in Member, at'[u] = "sum"
             PROVE  /\ index'[u] \in chunk[u] .. chunk[u + 1]
                    /\ sum'[u] = keys_below[index'[u]] - keys_below[chunk[u]]
  BY <1>c DEF FirstPass
<1>d. chunk[u] \in 0 .. KeyRange /\ chunk[u + 1] \in 0 .. KeyRange /\ chunk[u] <= chunk[u + 1]
  BY <1>a, InputFacts, ThreadFacts
<1>e. keys_below[chunk[u]] \in Int
  BY <1>a, <1>d, InputFacts
<1>1. CASE BeginSum(t) /\ u = t
  <2>1. index'[u] = chunk[u] /\ sum'[u] = 0
    BY <1>1, <1>b DEF BeginSum
  <2> QED BY <2>1, <1>d, <1>e
<1>2. CASE AddCount(t) /\ u = t
  <2>1. at[u] = "sum" /\ index[u] < chunk[u + 1]
    BY <1>2 DEF AddCount
  <2>2. index'[u] = index[u] + 1 /\ sum'[u] = sum[u] + frequency_histogram(index[u])
    BY <1>2, <1>b DEF AddCount
  <2>3. /\ index[u] \in chunk[u] .. chunk[u + 1]
        /\ sum[u] = keys_below[index[u]] - keys_below[chunk[u]]
    BY <2>1, <1>a DEF FirstPass
  <2>4. index[u] \in RankedKey /\ index[u] \in 0 .. KeyRange /\ index[u] + 1 \in 0 .. KeyRange
    BY <2>1, <2>3, <1>d, RankAssumption DEF RankedKey
  <2>5. frequency_histogram(index[u]) = keys_below[index[u] + 1] - keys_below[index[u]]
    BY <2>4, <1>a, InputFacts
  <2>6. keys_below[index[u] + 1] \in Int /\ keys_below[index[u]] \in Int
    BY <2>4, <1>a, InputFacts
  <2>7. index[u] + 1 \in chunk[u] .. chunk[u + 1]
    BY <2>1, <2>3, <1>d
  <2> QED BY <2>2, <2>3, <2>5, <2>6, <2>7, <1>e
<1>3. CASE ~(BeginSum(t) /\ u = t) /\ ~(AddCount(t) /\ u = t)
  <2>1. at[u] = "sum" /\ index'[u] = index[u] /\ sum'[u] = sum[u]
    <3>1. CASE ResizeSums(t)
      BY <3>1, <1>3, <1>b DEF ResizeSums, Goto
    <3>2. CASE Skip(t, "resize", "resized")
      BY <3>2, <1>3, <1>b DEF Skip, Goto
    <3>3. CASE BeginSum(t)
      BY <3>3, <1>3, <1>b DEF BeginSum, Goto
    <3>4. CASE AddCount(t)
      BY <3>4, <1>3, <1>b DEF AddCount, Goto
    <3>5. CASE StoreSum(t)
      BY <3>5, <1>3, <1>b DEF StoreSum, Goto
    <3>6. CASE PassBarrier(t)
      BY <3>6, <1>3, <1>b DEF PassBarrier, Goto
    <3>7. CASE TakeScan(t)
      BY <3>7, <1>3, <1>b DEF TakeScan, Goto
    <3>8. CASE Skip(t, "scan", "scanned")
      BY <3>8, <1>3, <1>b DEF Skip, Goto
    <3>9. CASE ScanCell(t)
      BY <3>9, <1>3, <1>b DEF ScanCell, Goto
    <3>10. CASE EndScan(t)
      BY <3>10, <1>3, <1>b DEF EndScan, Goto
    <3>11. CASE TakeOffset(t)
      BY <3>11, <1>3, <1>b DEF TakeOffset, Goto
    <3>12. CASE RankKey(t)
      BY <3>12, <1>3, <1>b DEF RankKey, Goto
    <3>13. CASE EndRank(t)
      BY <3>13, <1>3, <1>b DEF EndRank, Goto
    <3>14. CASE Leave(t)
      BY <3>14, <1>3, <1>b DEF Leave, Goto
    <3> QED BY <3>1, <3>2, <3>3, <3>4, <3>5, <3>6, <3>7, <3>8, <3>9, <3>10, <3>11, <3>12,
               <3>13, <3>14
       DEF RankStep
  <2> QED BY <2>1, <1>a DEF FirstPass
<1> QED BY <1>1, <1>2, <1>3

(* A step of the second loop ranks one more key of the chunk, and nothing  *)
(* but this changes a rank.                                                *)
LEMMA SecondPassStep ==
  ASSUME RankInv, NEW t \in Member, RankStep(t)
  PROVE  SecondPass'
<1>a. RankTypeOK /\ SecondPass /\ Cells /\ Singles /\ BarrierCounts
  BY DEF RankInv
<1>b. /\ at \in [Member -> Labels] /\ index \in [Member -> Nat]
      /\ sum \in [Member -> 0 .. keys_below[KeyRange]]
      /\ cumulative_ranks \in [RankedKey -> 0 .. keys_below[KeyRange]]
      /\ arrived \in [Member -> 0 .. 4]
  BY <1>a DEF RankTypeOK
<1>c. UNCHANGED <<keys_below, chunk>>
  BY DEF RankStep, ResizeSums, Skip, BeginSum, AddCount, StoreSum,
     PassBarrier, TakeScan,
         ScanCell, EndScan, TakeOffset, RankKey, EndRank, Leave, input
<1>r. \A u \in Member : chunk[u] \in 0 .. KeyRange /\ chunk[u + 1] \in 0 .. KeyRange
                         /\ chunk[u] <= chunk[u + 1]
  BY <1>a, InputFacts, ThreadFacts
<1>1. CASE RankKey(t)
  <2>1. at[t] = "rank" /\ index[t] < chunk[t + 1] /\ at' = at
    BY <1>1 DEF RankKey
  <2>2. /\ index[t] \in chunk[t] .. chunk[t + 1] /\ sum[t] = keys_below[index[t]]
        /\ \A k \in RankedKey : chunk[t] <= k /\ k < index[t] =>
             cumulative_ranks[k] = keys_below[k + 1]
    BY <2>1, <1>a DEF SecondPass
  <2>3. index[t] \in RankedKey /\ index[t] \in 0 .. KeyRange /\ index[t] + 1 \in 0 .. KeyRange
    BY <2>1, <2>2, <1>r, RankAssumption DEF RankedKey
  <2>4. /\ frequency_histogram(index[t]) = keys_below[index[t] + 1] - keys_below[index[t]]
        /\ keys_below[index[t] + 1] \in Int /\ keys_below[index[t]] \in Int
    BY <2>3, <1>a, InputFacts
  <2>5. sum[t] + frequency_histogram(index[t]) = keys_below[index[t] + 1]
    BY <2>2, <2>4
  <2>6. /\ index'[t] = index[t] + 1 /\ sum'[t] = keys_below[index[t] + 1]
        /\ \A u \in Member : u # t => index'[u] = index[u] /\ sum'[u] = sum[u]
    <3>1. /\ index' = [index EXCEPT ![t] = index[t] + 1]
          /\ sum' = [sum EXCEPT ![t] = sum[t] + frequency_histogram(index[t])]
      BY <1>1 DEF RankKey
    <3> QED BY <3>1, <1>b, <2>5
  <2>7. \A k \in RankedKey : cumulative_ranks'[k] = IF k = index[t] THEN keys_below[index[t] + 1]
                                               ELSE cumulative_ranks[k]
    BY <1>1, <1>b, <2>5 DEF RankKey
  <2>8. \A k \in RankedKey : cumulative_ranks[k] = keys_below[k + 1] =>
          cumulative_ranks'[k] = keys_below'[k + 1]
    BY <2>7, <1>c
  <2>9. index[t] + 1 \in chunk[t] .. chunk[t + 1]
    BY <2>1, <2>2, <1>r
  <2>10. \A k \in RankedKey : chunk[t] <= k /\ k < index[t] + 1 =>
           cumulative_ranks'[k] = keys_below'[k + 1]
    <3> SUFFICES ASSUME NEW k \in RankedKey, chunk[t] <= k, k < index[t] + 1
                 PROVE  cumulative_ranks'[k] = keys_below'[k + 1]
      OBVIOUS
    <3>1. CASE k = index[t]
      BY <3>1, <2>7, <1>c
    <3>2. CASE k # index[t]
      <4>1. k < index[t]
        BY <3>2, <2>3 DEF RankedKey
      <4> QED BY <4>1, <2>2, <2>8
    <3> QED BY <3>1, <3>2
  <2>11. ASSUME NEW u \in Member, at'[u] = "rank"
         PROVE  /\ index'[u] \in chunk'[u] .. chunk'[u + 1]
                /\ sum'[u] = keys_below'[index'[u]]
                /\ \A k \in RankedKey : chunk'[u] <= k /\ k < index'[u] =>
                     cumulative_ranks'[k] = keys_below'[k + 1]
    <3>1. CASE u = t
      BY <3>1, <2>6, <2>9, <2>10, <1>c
    <3>2. CASE u # t
      <4>1. at[u] = "rank" /\ index'[u] = index[u] /\ sum'[u] = sum[u]
        BY <3>2, <2>11, <2>1, <2>6
      <4>2. /\ index[u] \in chunk[u] .. chunk[u + 1]
            /\ sum[u] = keys_below[index[u]]
            /\ \A k \in RankedKey : chunk[u] <= k /\ k < index[u] =>
                 cumulative_ranks[k] = keys_below[k + 1]
        BY <4>1, <1>a DEF SecondPass
      <4> QED BY <4>1, <4>2, <2>8, <1>c
    <3> QED BY <3>1, <3>2
  <2>12. ASSUME NEW u \in Member, at'[u] \in {"ranked", "done"},
                NEW k \in RankedKey, chunk'[u] <= k, k < chunk'[u + 1]
         PROVE  cumulative_ranks'[k] = keys_below'[k + 1]
    <3>1. at[u] \in {"ranked", "done"}
      BY <2>12, <2>1
    <3>2. cumulative_ranks[k] = keys_below[k + 1]
      BY <3>1, <2>12, <1>a, <1>c DEF SecondPass
    <3> QED BY <3>2, <2>8
  <2> QED BY <2>11, <2>12 DEF SecondPass
<1>2. CASE ~RankKey(t)
  <2>1. cumulative_ranks' = cumulative_ranks
    BY <1>2 DEF RankStep, ResizeSums, Skip, BeginSum, AddCount, StoreSum,
       PassBarrier, TakeScan,
         ScanCell, EndScan, TakeOffset, RankKey, EndRank, Leave, shared
  <2>2. ASSUME NEW u \in Member, at'[u] = "rank"
        PROVE  /\ index'[u] \in chunk'[u] .. chunk'[u + 1]
               /\ sum'[u] = keys_below'[index'[u]]
               /\ \A k \in RankedKey : chunk'[u] <= k /\ k < index'[u] =>
                    cumulative_ranks'[k] = keys_below'[k + 1]
    <3>1. CASE TakeOffset(t) /\ u = t
      <4>1. index'[u] = chunk[u] /\ sum'[u] = partial_sums[u]
        BY <3>1, <1>b DEF TakeOffset
      <4>2. at[t] = "scanned" /\ \A v \in Member : arrived[v] >= arrived[t]
        BY <3>1 DEF TakeOffset, AllArrived
      <4>3. arrived[t] = 3 /\ \A v \in Member : arrived[v] >= 3
        BY <4>2, <1>a DEF BarrierCounts
      <4>4. "scan" \in taken /\ \A v \in Member : at[v] # "scanning"
        <5>1. \A v \in Member : arrived[v] # 2 /\ ~(arrived[v] <= 2)
          BY <4>3, <1>b
        <5> QED BY <5>1, <1>a DEF BarrierCounts, Singles
      <4>5. partial_sums[u] = keys_below[chunk[u]]
        BY <4>4, <1>a DEF Cells, Offset
      <4>6. \A k \in RankedKey : ~(chunk[u] <= k /\ k < chunk[u])
        BY <1>r DEF RankedKey
      <4> QED BY <4>1, <4>5, <4>6, <1>c, <1>r
    <3>2. CASE ~(TakeOffset(t) /\ u = t)
      <4>1. at[u] = "rank" /\ index'[u] = index[u] /\ sum'[u] = sum[u]
        <5>1. CASE ResizeSums(t)
          BY <5>1, <1>2, <2>2, <3>2, <1>b DEF ResizeSums, Goto
        <5>2. CASE Skip(t, "resize", "resized")
          BY <5>2, <1>2, <2>2, <3>2, <1>b DEF Skip, Goto
        <5>3. CASE BeginSum(t)
          BY <5>3, <1>2, <2>2, <3>2, <1>b DEF BeginSum, Goto
        <5>4. CASE AddCount(t)
          BY <5>4, <1>2, <2>2, <3>2, <1>b DEF AddCount, Goto
        <5>5. CASE StoreSum(t)
          BY <5>5, <1>2, <2>2, <3>2, <1>b DEF StoreSum, Goto
        <5>6. CASE PassBarrier(t)
          BY <5>6, <1>2, <2>2, <3>2, <1>b DEF PassBarrier, Goto
        <5>7. CASE TakeScan(t)
          BY <5>7, <1>2, <2>2, <3>2, <1>b DEF TakeScan, Goto
        <5>8. CASE Skip(t, "scan", "scanned")
          BY <5>8, <1>2, <2>2, <3>2, <1>b DEF Skip, Goto
        <5>9. CASE ScanCell(t)
          BY <5>9, <1>2, <2>2, <3>2, <1>b DEF ScanCell, Goto
        <5>10. CASE EndScan(t)
          BY <5>10, <1>2, <2>2, <3>2, <1>b DEF EndScan, Goto
        <5>11. CASE TakeOffset(t)
          BY <5>11, <1>2, <2>2, <3>2, <1>b DEF TakeOffset, Goto
        <5>12. CASE RankKey(t)
          BY <5>12, <1>2, <2>2, <3>2, <1>b DEF RankKey, Goto
        <5>13. CASE EndRank(t)
          BY <5>13, <1>2, <2>2, <3>2, <1>b DEF EndRank, Goto
        <5>14. CASE Leave(t)
          BY <5>14, <1>2, <2>2, <3>2, <1>b DEF Leave, Goto
        <5> QED BY <5>1, <5>2, <5>3, <5>4, <5>5, <5>6, <5>7, <5>8, <5>9, <5>10, <5>11, <5>12,
                   <5>13, <5>14
           DEF RankStep
      <4>2. /\ index[u] \in chunk[u] .. chunk[u + 1]
            /\ sum[u] = keys_below[index[u]]
            /\ \A k \in RankedKey : chunk[u] <= k /\ k < index[u] =>
                 cumulative_ranks[k] = keys_below[k + 1]
        BY <4>1, <1>a DEF SecondPass
      <4> QED BY <4>1, <4>2, <2>1, <1>c
    <3> QED BY <3>1, <3>2
  <2>3. ASSUME NEW u \in Member, at'[u] \in {"ranked", "done"},
               NEW k \in RankedKey, chunk'[u] <= k, k < chunk'[u + 1]
        PROVE  cumulative_ranks'[k] = keys_below'[k + 1]
    <3>1. CASE EndRank(t) /\ u = t
      <4>1. at[u] = "rank" /\ index[u] >= chunk[u + 1]
        BY <3>1 DEF EndRank
      <4>2. chunk[u] <= k /\ k < index[u]
        BY <4>1, <2>3, <1>c, <1>r, <1>b DEF RankedKey
      <4> QED BY <4>1, <4>2, <1>a, <2>1, <1>c DEF SecondPass
    <3>2. CASE ~(EndRank(t) /\ u = t)
      <4>1. at[u] \in {"ranked", "done"}
        <5>1. CASE ResizeSums(t)
          BY <5>1, <1>2, <2>3, <3>2, <1>b DEF ResizeSums, Goto
        <5>2. CASE Skip(t, "resize", "resized")
          BY <5>2, <1>2, <2>3, <3>2, <1>b DEF Skip, Goto
        <5>3. CASE BeginSum(t)
          BY <5>3, <1>2, <2>3, <3>2, <1>b DEF BeginSum, Goto
        <5>4. CASE AddCount(t)
          BY <5>4, <1>2, <2>3, <3>2, <1>b DEF AddCount, Goto
        <5>5. CASE StoreSum(t)
          BY <5>5, <1>2, <2>3, <3>2, <1>b DEF StoreSum, Goto
        <5>6. CASE PassBarrier(t)
          BY <5>6, <1>2, <2>3, <3>2, <1>b DEF PassBarrier, Goto
        <5>7. CASE TakeScan(t)
          BY <5>7, <1>2, <2>3, <3>2, <1>b DEF TakeScan, Goto
        <5>8. CASE Skip(t, "scan", "scanned")
          BY <5>8, <1>2, <2>3, <3>2, <1>b DEF Skip, Goto
        <5>9. CASE ScanCell(t)
          BY <5>9, <1>2, <2>3, <3>2, <1>b DEF ScanCell, Goto
        <5>10. CASE EndScan(t)
          BY <5>10, <1>2, <2>3, <3>2, <1>b DEF EndScan, Goto
        <5>11. CASE TakeOffset(t)
          BY <5>11, <1>2, <2>3, <3>2, <1>b DEF TakeOffset, Goto
        <5>12. CASE RankKey(t)
          BY <5>12, <1>2, <2>3, <3>2, <1>b DEF RankKey, Goto
        <5>13. CASE EndRank(t)
          BY <5>13, <1>2, <2>3, <3>2, <1>b DEF EndRank, Goto
        <5>14. CASE Leave(t)
          BY <5>14, <1>2, <2>3, <3>2, <1>b DEF Leave, Goto
        <5> QED BY <5>1, <5>2, <5>3, <5>4, <5>5, <5>6, <5>7, <5>8, <5>9, <5>10, <5>11, <5>12,
                   <5>13, <5>14
           DEF RankStep
      <4>2. chunk[u] <= k /\ k < chunk[u + 1]
        BY <2>3, <1>c
      <4> QED BY <4>1, <4>2, <1>a, <2>1, <1>c DEF SecondPass
    <3> QED BY <3>1, <3>2
  <2> QED BY <2>2, <2>3 DEF SecondPass
<1> QED BY <1>1, <1>2

(* The cells hold sums of chunks until the scan comes by, then offsets.    *)
LEMMA CellsStep ==
  ASSUME RankInv, NEW t \in Member, RankStep(t)
  PROVE  Cells'
<1>a. RankTypeOK /\ Cells /\ FirstPass /\ Singles /\ BarrierCounts /\ BarrierOrder
  BY DEF RankInv
<1>b. /\ at \in [Member -> Labels] /\ index \in [Member -> Nat]
      /\ sum \in [Member -> 0 .. keys_below[KeyRange]]
      /\ partial_sums \in [Member -> 0 .. keys_below[KeyRange]]
      /\ arrived \in [Member -> 0 .. 4]
  BY <1>a DEF RankTypeOK
<1>c. UNCHANGED <<keys_below, chunk>>
  BY DEF RankStep, ResizeSums, Skip, BeginSum, AddCount, StoreSum,
     PassBarrier, TakeScan,
         ScanCell, EndScan, TakeOffset, RankKey, EndRank, Leave, input
<1>d. \A u \in Member : ChunkSum(u)' = ChunkSum(u) /\ Offset(u)' = Offset(u)
  BY <1>c DEF ChunkSum, Offset
<1>r. \A u \in Member : chunk[u] \in 0 .. KeyRange /\ chunk[u + 1] \in 0 .. KeyRange
  BY <1>a, InputFacts, ThreadFacts
<1>1. CASE ResizeSums(t)
  <2>1. \A u \in Member : at[u] = "resize" /\ arrived[u] = 0
    BY <1>1, <1>a DEF ResizeSums, Singles, BarrierCounts
  <2>2. "scan" \notin taken
    BY <2>1, <1>a DEF Singles
  <2>3. taken' = taken \union {"resize"}
    BY <1>1 DEF ResizeSums
  <2>4. \A u \in Member : arrived'[u] # 2 /\ at'[u] # "scanning"
    BY <1>1, <2>1, <1>b DEF ResizeSums, Arrive, Goto
  <2> QED BY <2>2, <2>3, <2>4 DEF Cells
<1>2. CASE StoreSum(t)
  <2>1. at[t] = "sum" /\ index[t] >= chunk[t + 1] /\ taken' = taken
    BY <1>2 DEF StoreSum
  <2>2. arrived[t] = 1 /\ ~(arrived[t] >= 2)
    BY <2>1, <1>a DEF BarrierCounts
  <2>3. "scan" \notin taken /\ \A u \in Member : at[u] # "scanning"
    BY <2>2, <1>a DEF Singles
  <2>4. /\ index[t] \in chunk[t] .. chunk[t + 1]
        /\ sum[t] = keys_below[index[t]] - keys_below[chunk[t]]
    BY <2>1, <1>a DEF FirstPass
  <2>5. index[t] = chunk[t + 1]
    BY <2>1, <2>4, <1>r
  <2>6. sum[t] = ChunkSum(t)
    BY <2>4, <2>5 DEF ChunkSum
  <2>7. \A u \in Member : partial_sums'[u] = IF u = t THEN ChunkSum(t) ELSE partial_sums[u]
    BY <1>2, <1>b, <2>6 DEF StoreSum
  <2>8. \A u \in Member : u # t => arrived'[u] = arrived[u]
    BY <1>2, <1>b DEF StoreSum, Arrive
  <2>9. \A u \in Member : at'[u] # "scanning"
    BY <1>2, <1>b, <2>3 DEF StoreSum, Goto
  <2>10. ASSUME NEW u \in Member, arrived'[u] = 2
         PROVE  partial_sums'[u] = ChunkSum(u)'
    <3>1. CASE u = t
      BY <3>1, <2>7, <1>d
    <3>2. CASE u # t
      <4>1. arrived[u] = 2
        BY <3>2, <2>8, <2>10
      <4>2. partial_sums[u] = ChunkSum(u)
        BY <4>1, <2>3, <1>a DEF Cells
      <4> QED BY <3>2, <4>2, <2>7, <1>d
    <3> QED BY <3>1, <3>2
  <2> QED BY <2>1, <2>3, <2>9, <2>10 DEF Cells
<1>3. CASE TakeScan(t)
  <2>1. at[t] = "scan" /\ "scan" \notin taken /\ taken' = taken \union {"scan"}
    BY <1>3 DEF TakeScan
  <2>2. \A u \in Member : arrived[u] = 2
    <3>1. \A u \in Member : arrived[u] >= 2 /\ arrived[u] <= 2
      BY <2>1, <1>a DEF BarrierOrder, Singles
    <3> QED BY <3>1, <1>b
  <2>3. \A u \in Member : partial_sums'[u] = ChunkSum(u)
    <3>1. partial_sums' = partial_sums
      BY <1>3 DEF TakeScan, shared
    <3> QED BY <3>1, <2>1, <2>2, <1>a DEF Cells
  <2>4. index'[t] = 0 /\ sum'[t] = 0 /\ at'[t] = "scanning"
    BY <1>3, <1>b DEF TakeScan, NewSum, Goto
  <2>5. \A u \in Member : u # t => at'[u] # "scanning"
    BY <1>3, <1>b, <2>1, <1>a DEF TakeScan, Goto, Singles
  <2>6. keys_below[chunk[0]] = 0
    BY <1>a, InputFacts
  <2>7. ASSUME NEW u \in Member, at'[u] = "scanning"
        PROVE  /\ index'[u] \in 0 .. NThreads
               /\ sum'[u] = keys_below'[chunk'[index'[u]]]
               /\ \A v \in Member : v < index'[u] => partial_sums'[v] = Offset(v)'
               /\ \A v \in Member : v >= index'[u] => partial_sums'[v] = ChunkSum(v)'
    <3>1. u = t
      BY <2>5, <2>7
    <3>2. index'[u] = 0 /\ sum'[u] = keys_below'[chunk'[index'[u]]]
      BY <3>1, <2>4, <2>6, <1>c
    <3>3. \A v \in Member : ~(v < 0)
      BY DEF Member
    <3>4. \A v \in Member : partial_sums'[v] = ChunkSum(v)'
      BY <2>3, <1>d
    <3> QED BY <3>2, <3>3, <3>4, ThreadFacts
  <2> QED BY <2>1, <2>4, <2>7 DEF Cells
<1>4. CASE ScanCell(t)
  <2>1. /\ at[t] = "scanning" /\ index[t] < NThreads
        /\ taken' = taken /\ at' = at /\ arrived' = arrived
    BY <1>4 DEF ScanCell
  <2>2. "scan" \in taken
    BY <2>1, <1>a DEF Singles
  <2>3. /\ index[t] \in 0 .. NThreads
        /\ sum[t] = keys_below[chunk[index[t]]]
        /\ \A u \in Member : u < index[t] => partial_sums[u] = Offset(u)
        /\ \A u \in Member : u >= index[t] => partial_sums[u] = ChunkSum(u)
    BY <2>1, <1>a DEF Cells
  <2>4. index[t] \in Member /\ index[t] + 1 \in 0 .. NThreads
    BY <2>1, <2>3, RankAssumption DEF Member
  <2>5. partial_sums[index[t]] = ChunkSum(index[t])
    <3>1. index[t] >= index[t]
      BY <1>b
    <3> QED BY <3>1, <2>3, <2>4
  <2>6. keys_below[chunk[index[t]]] \in Int /\ keys_below[chunk[index[t] + 1]] \in Int
    BY <2>4, <1>r, <1>a, InputFacts
  <2>7. sum[t] + partial_sums[index[t]] = keys_below[chunk[index[t] + 1]]
    BY <2>3, <2>5, <2>6 DEF ChunkSum
  <2>8. index'[t] = index[t] + 1 /\ sum'[t] = keys_below'[chunk'[index'[t]]]
    <3>1. /\ index' = [index EXCEPT ![t] = index[t] + 1]
          /\ sum' = [sum EXCEPT ![t] = sum[t] + partial_sums[index[t]]]
      BY <1>4 DEF ScanCell
    <3> QED BY <3>1, <1>b, <2>7, <1>c
  <2>9. \A u \in Member : partial_sums'[u] = IF u = index[t] THEN Offset(u) ELSE partial_sums[u]
    <3>1. partial_sums' = [partial_sums EXCEPT ![index[t]] = sum[t]]
      BY <1>4 DEF ScanCell, ExclusiveSum
    <3>2. sum[t] = Offset(index[t])
      BY <2>3 DEF Offset
    <3> QED BY <3>1, <3>2, <2>4, <1>b
  <2>10. ASSUME NEW u \in Member, u < index[t] + 1
         PROVE  partial_sums'[u] = Offset(u)'
    <3>1. CASE u = index[t]
      BY <3>1, <2>9, <1>d
    <3>2. CASE u # index[t]
      <4>1. u < index[t]
        BY <3>2, <2>10, <2>4 DEF Member
      <4> QED BY <4>1, <3>2, <2>3, <2>9, <1>d
    <3> QED BY <3>1, <3>2
  <2>11. ASSUME NEW u \in Member, u >= index[t] + 1
         PROVE  partial_sums'[u] = ChunkSum(u)'
    <3>1. u # index[t] /\ u >= index[t]
      BY <2>11, <2>4 DEF Member
    <3> QED BY <3>1, <2>3, <2>9, <1>d
  <2>12. ASSUME NEW u \in Member, at'[u] = "scanning"
         PROVE  u = t
    BY <2>12, <2>1, <1>a DEF Singles
  <2> QED BY <2>1, <2>2, <2>4, <2>8, <2>10, <2>11, <2>12 DEF Cells
<1>5. CASE EndScan(t)
  <2>1. at[t] = "scanning" /\ index[t] >= NThreads /\ taken' = taken
    BY <1>5 DEF EndScan
  <2>2. "scan" \in taken
    BY <2>1, <1>a DEF Singles
  <2>3. \A u \in Member : u < index[t]
    BY <2>1, <1>b, RankAssumption, SMTT(30) DEF Member
  <2>4. \A u \in Member : partial_sums[u] = Offset(u)
    BY <2>1, <2>3, <1>a DEF Cells
  <2>5. \A u \in Member : partial_sums'[u] = Offset(u)'
    <3>1. partial_sums' = partial_sums
      BY <1>5 DEF EndScan, shared
    <3> QED BY <3>1, <2>4, <1>d
  <2>6. \A u \in Member : at'[u] # "scanning"
    BY <1>5, <1>b, <2>1, <1>a DEF EndScan, Goto, Singles
  <2> QED BY <2>1, <2>2, <2>5, <2>6 DEF Cells
<1>6. CASE ~(ResizeSums(t) \/ StoreSum(t) \/ TakeScan(t) \/ ScanCell(t) \/ EndScan(t))
  <2>1. taken' = taken /\ partial_sums' = partial_sums
    BY <1>6 DEF RankStep, ResizeSums, Skip, BeginSum, AddCount, StoreSum,
       PassBarrier, TakeScan,
         ScanCell, EndScan, TakeOffset, RankKey, EndRank, Leave, shared
  <2>2. ASSUME NEW u \in Member
        PROVE  /\ arrived'[u] = 2 => arrived[u] = 2
               /\ at'[u] = "scanning" <=> at[u] = "scanning"
               /\ at[u] = "scanning" => index'[u] = index[u] /\ sum'[u] = sum[u]
    <3>1. CASE Skip(t, "resize", "resized")
      <4>1. at[t] = "resize" /\ arrived[t] # 1
        BY <3>1, <1>a DEF Skip, BarrierCounts
      <4> QED BY <3>1, <4>1, <1>b DEF Skip, Goto, Arrive
    <3>2. CASE BeginSum(t)
      BY <3>2, <1>b DEF BeginSum, Goto
    <3>3. CASE AddCount(t)
      BY <3>3, <1>b DEF AddCount, Goto
    <3>4. CASE PassBarrier(t)
      BY <3>4, <1>b DEF PassBarrier, Goto
    <3>5. CASE Skip(t, "scan", "scanned")
      <4>1. at[t] = "scan" /\ arrived[t] # 1
        BY <3>5, <1>a DEF Skip, BarrierCounts
      <4> QED BY <3>5, <4>1, <1>b DEF Skip, Goto, Arrive
    <3>6. CASE TakeOffset(t)
      BY <3>6, <1>b DEF TakeOffset, Goto
    <3>7. CASE RankKey(t)
      BY <3>7, <1>b DEF RankKey, Goto
    <3>8. CASE EndRank(t)
      <4>1. at[t] = "rank" /\ arrived[t] # 1
        BY <3>8, <1>a DEF EndRank, BarrierCounts
      <4> QED BY <3>8, <4>1, <1>b DEF EndRank, Goto, Arrive
    <3>9. CASE Leave(t)
      BY <3>9, <1>b DEF Leave, Goto
    <3> QED BY <1>6, <3>1, <3>2, <3>3, <3>4, <3>5, <3>6, <3>7, <3>8, <3>9 DEF RankStep
  <2>3. "scan" \notin taken => \A u \in Member : arrived'[u] = 2 => partial_sums'[u] = ChunkSum(u)'
    BY <2>1, <2>2, <1>a, <1>d DEF Cells
  <2>4. ASSUME NEW u \in Member, at'[u] = "scanning"
        PROVE  /\ index'[u] \in 0 .. NThreads
               /\ sum'[u] = keys_below'[chunk'[index'[u]]]
               /\ \A v \in Member : v < index'[u] => partial_sums'[v] = Offset(v)'
               /\ \A v \in Member : v >= index'[u] => partial_sums'[v] = ChunkSum(v)'
    <3>1. at[u] = "scanning" /\ index'[u] = index[u] /\ sum'[u] = sum[u]
      BY <2>2, <2>4
    <3>2. /\ index[u] \in 0 .. NThreads
          /\ sum[u] = keys_below[chunk[index[u]]]
          /\ \A v \in Member : v < index[u] => partial_sums[v] = Offset(v)
          /\ \A v \in Member : v >= index[u] => partial_sums[v] = ChunkSum(v)
      BY <3>1, <1>a DEF Cells
    <3> QED BY <3>1, <3>2, <2>1, <1>c, <1>d
  <2>5. "scan" \in taken /\ (\A u \in Member : at'[u] # "scanning") =>
          \A u \in Member : partial_sums'[u] = Offset(u)'
    BY <2>1, <2>2, <1>a, <1>d DEF Cells
  <2> QED BY <2>1, <2>3, <2>4, <2>5 DEF Cells
<1> QED BY <1>1, <1>2, <1>3, <1>4, <1>5, <1>6

(* A step keeps the types.                                                 *)
LEMMA TypeStep ==
  ASSUME RankInv, NEW t \in Member, RankStep(t)
  PROVE  RankTypeOK'
<1>a. RankTypeOK /\ FirstPass /\ Cells /\ SecondPass /\ Singles /\ BarrierCounts
  BY DEF RankInv
<1> DEFINE Total == keys_below[KeyRange]
<1>b. /\ at \in [Member -> Labels] /\ index \in [Member -> Nat]
      /\ sum \in [Member -> 0 .. Total]
      /\ partial_sums \in [Member -> 0 .. Total]
      /\ cumulative_ranks \in [RankedKey -> 0 .. Total]
      /\ arrived \in [Member -> 0 .. 4] /\ taken \subseteq {"resize", "scan"}
      /\ keys_below \in Histograms /\ chunk \in Chunks
  BY <1>a DEF RankTypeOK
<1>n. Total \in Nat
  BY <1>a, InputFacts
<1>c. UNCHANGED <<keys_below, chunk>>
  BY DEF RankStep, ResizeSums, Skip, BeginSum, AddCount, StoreSum,
     PassBarrier, TakeScan,
         ScanCell, EndScan, TakeOffset, RankKey, EndRank, Leave, input
<1>r. \A u \in Member : /\ chunk[u] \in 0 .. KeyRange /\ chunk[u + 1] \in 0 .. KeyRange
                         /\ chunk[u] <= chunk[u + 1]
  BY <1>a, InputFacts, ThreadFacts
<1>k. \A u \in Member : keys_below[chunk[u]] \in 0 .. Total
  BY <1>r, <1>a, InputFacts
(* What AddCount, ScanCell and RankKey add up.                             *)
<1>s. ASSUME AddCount(t) \/ RankKey(t)
      PROVE  /\ index[t] \in RankedKey /\ sum[t] + frequency_histogram(index[t]) \in 0 .. Total
  <2>1. /\ index[t] < chunk[t + 1] /\ index[t] \in chunk[t] .. chunk[t + 1]
        /\ sum[t] = keys_below[index[t]] - keys_below[chunk[t]] \/ sum[t] = keys_below[index[t]]
    BY <1>s, <1>a DEF AddCount, RankKey, FirstPass, SecondPass
  <2>2. /\ index[t] \in RankedKey /\ index[t] \in 0 .. KeyRange
        /\ index[t] + 1 \in 0 .. KeyRange /\ chunk[t] <= index[t] + 1
    BY <2>1, <1>r, RankAssumption DEF RankedKey
  <2>3. /\ frequency_histogram(index[t]) = keys_below[index[t] + 1] - keys_below[index[t]]
        /\ keys_below[index[t] + 1] \in 0 .. Total /\ keys_below[index[t]] \in 0 .. Total
    BY <2>2, <1>a, InputFacts
  <2>4. keys_below[chunk[t]] <= keys_below[index[t] + 1]
    BY <2>2, <1>r, <1>a, InputFacts
  <2> HIDE DEF Total
  <2>5. sum[t] + frequency_histogram(index[t]) \in
          {keys_below[index[t] + 1] - keys_below[chunk[t]], keys_below[index[t] + 1]}
    BY <2>1, <2>3, <1>k, <1>n
  <2>6. keys_below[index[t] + 1] - keys_below[chunk[t]] \in 0 .. Total
    BY <2>3, <2>4, <1>k, <1>n
  <2> QED BY <2>2, <2>3, <2>5, <2>6
<1>p. ASSUME ScanCell(t)
      PROVE  index[t] \in Member /\ sum[t] + partial_sums[index[t]] \in 0 .. Total
  <2>1. at[t] = "scanning" /\ index[t] < NThreads
    BY <1>p DEF ScanCell
  <2>2. index[t] \in Member /\ index[t] >= index[t]
    BY <2>1, <1>b, RankAssumption, SMTT(30) DEF Member
  <2>3. sum[t] = keys_below[chunk[index[t]]] /\ partial_sums[index[t]] = ChunkSum(index[t])
    BY <2>1, <2>2, <1>a DEF Cells
  <2>4. keys_below[chunk[index[t]]] \in 0 .. Total /\ keys_below[chunk[index[t] + 1]] \in 0 .. Total
    BY <2>2, <1>r, <1>a, InputFacts
  <2> HIDE DEF Total
  <2>5. sum[t] + partial_sums[index[t]] = keys_below[chunk[index[t] + 1]]
    BY <2>3, <2>4, <1>n DEF ChunkSum
  <2> QED BY <2>2, <2>4, <2>5
<1>q. arrived[t] < 4 \/ arrived' = arrived
  <2>1. at[t] \in {"resize", "sum", "scan", "scanning", "rank"} \/ arrived' = arrived
    BY DEF RankStep, ResizeSums, Skip, BeginSum, AddCount, StoreSum,
       PassBarrier, TakeScan,
         ScanCell, EndScan, TakeOffset, RankKey, EndRank, Leave
  <2> QED BY <2>1, <1>a, <1>b DEF BarrierCounts
<1> HIDE DEF Total
<1>1. /\ at' \in [Member -> Labels] /\ taken' \subseteq {"resize", "scan"}
  BY <1>b DEF RankStep, ResizeSums, Skip, BeginSum, AddCount, StoreSum,
     PassBarrier, TakeScan,
         ScanCell, EndScan, TakeOffset, RankKey, EndRank, Leave, Goto,
         Labels
<1>2. arrived' \in [Member -> 0 .. 4]
  <2>1. arrived' = arrived \/ arrived' = [arrived EXCEPT ![t] = arrived[t] + 1]
    BY DEF RankStep, ResizeSums, Skip, BeginSum, AddCount, StoreSum,
       PassBarrier, TakeScan,
         ScanCell, EndScan, TakeOffset, RankKey, EndRank, Leave, Arrive
  <2> QED BY <2>1, <1>q, <1>b
<1>3. index' \in [Member -> Nat]
  <2>1. \/ index' = index
        \/ index' = [index EXCEPT ![t] = index[t] + 1]
        \/ index' = [index EXCEPT ![t] = chunk[t]]
        \/ index' = [index EXCEPT ![t] = 0]
    BY DEF RankStep, ResizeSums, Skip, BeginSum, AddCount, StoreSum,
       PassBarrier, TakeScan,
         ScanCell, EndScan, TakeOffset, RankKey, EndRank, Leave
  <2>2. chunk[t] \in Nat
    BY <1>r
  <2> QED BY <2>1, <2>2, <1>b
<1>4. sum' \in [Member -> 0 .. Total]
  <2>1. \/ sum' = sum
        \/ /\ AddCount(t) \/ RankKey(t)
           /\ sum' = [sum EXCEPT ![t] = sum[t] + frequency_histogram(index[t])]
        \/ ScanCell(t) /\ sum' = [sum EXCEPT ![t] = sum[t] + partial_sums[index[t]]]
        \/ sum' = [sum EXCEPT ![t] = 0]
        \/ sum' = [sum EXCEPT ![t] = partial_sums[t]]
    <3>1. CASE ResizeSums(t)
      BY <3>1 DEF ResizeSums, NewSum
    <3>2. CASE Skip(t, "resize", "resized")
      BY <3>2 DEF Skip, NewSum
    <3>3. CASE BeginSum(t)
      BY <3>3 DEF BeginSum, NewSum
    <3>4. CASE AddCount(t)
      BY <3>4 DEF AddCount, NewSum
    <3>5. CASE StoreSum(t)
      BY <3>5 DEF StoreSum, NewSum
    <3>6. CASE PassBarrier(t)
      BY <3>6 DEF PassBarrier, NewSum
    <3>7. CASE TakeScan(t)
      BY <3>7 DEF TakeScan, NewSum
    <3>8. CASE Skip(t, "scan", "scanned")
      BY <3>8 DEF Skip, NewSum
    <3>9. CASE ScanCell(t)
      BY <3>9 DEF ScanCell, NewSum
    <3>10. CASE EndScan(t)
      BY <3>10 DEF EndScan, NewSum
    <3>11. CASE TakeOffset(t)
      BY <3>11 DEF TakeOffset, NewSum
    <3>12. CASE RankKey(t)
      BY <3>12 DEF RankKey, NewSum
    <3>13. CASE EndRank(t)
      BY <3>13 DEF EndRank, NewSum
    <3>14. CASE Leave(t)
      BY <3>14 DEF Leave, NewSum
    <3> QED BY <3>1, <3>2, <3>3, <3>4, <3>5, <3>6, <3>7, <3>8, <3>9, <3>10, <3>11, <3>12,
               <3>13, <3>14
       DEF RankStep
  <2>2. partial_sums[t] \in 0 .. Total /\ 0 \in 0 .. Total
    BY <1>b, <1>n
  <2> QED BY <2>1, <2>2, <1>s, <1>p, <1>b
<1>5. partial_sums' \in [Member -> 0 .. Total]
  <2>1. \/ partial_sums' = partial_sums
        \/ partial_sums' = [u \in Member |-> 0]
        \/ partial_sums' = [partial_sums EXCEPT ![t] = sum[t]]
        \/ ScanCell(t) /\ partial_sums' = [partial_sums EXCEPT ![index[t]] = sum[t]]
    <3>1. CASE ResizeSums(t)
      BY <3>1 DEF ResizeSums, shared, ExclusiveSum
    <3>2. CASE Skip(t, "resize", "resized")
      BY <3>2 DEF Skip, shared, ExclusiveSum
    <3>3. CASE BeginSum(t)
      BY <3>3 DEF BeginSum, shared, ExclusiveSum
    <3>4. CASE AddCount(t)
      BY <3>4 DEF AddCount, shared, ExclusiveSum
    <3>5. CASE StoreSum(t)
      BY <3>5 DEF StoreSum, shared, ExclusiveSum
    <3>6. CASE PassBarrier(t)
      BY <3>6 DEF PassBarrier, shared, ExclusiveSum
    <3>7. CASE TakeScan(t)
      BY <3>7 DEF TakeScan, shared, ExclusiveSum
    <3>8. CASE Skip(t, "scan", "scanned")
      BY <3>8 DEF Skip, shared, ExclusiveSum
    <3>9. CASE ScanCell(t)
      BY <3>9 DEF ScanCell, shared, ExclusiveSum
    <3>10. CASE EndScan(t)
      BY <3>10 DEF EndScan, shared, ExclusiveSum
    <3>11. CASE TakeOffset(t)
      BY <3>11 DEF TakeOffset, shared, ExclusiveSum
    <3>12. CASE RankKey(t)
      BY <3>12 DEF RankKey, shared, ExclusiveSum
    <3>13. CASE EndRank(t)
      BY <3>13 DEF EndRank, shared, ExclusiveSum
    <3>14. CASE Leave(t)
      BY <3>14 DEF Leave, shared, ExclusiveSum
    <3> QED BY <3>1, <3>2, <3>3, <3>4, <3>5, <3>6, <3>7, <3>8, <3>9, <3>10, <3>11, <3>12,
               <3>13, <3>14
       DEF RankStep
  <2>2. sum[t] \in 0 .. Total /\ 0 \in 0 .. Total
    BY <1>b, <1>n
  <2> QED BY <2>1, <2>2, <1>p, <1>b
<1>6. cumulative_ranks' \in [RankedKey -> 0 .. Total]
  <2>1. \/ cumulative_ranks' = cumulative_ranks
        \/ RankKey(t) /\ cumulative_ranks' =
             [cumulative_ranks EXCEPT ![index[t]] = sum[t] + frequency_histogram(index[t])]
    BY DEF RankStep, ResizeSums, Skip, BeginSum, AddCount, StoreSum,
       PassBarrier, TakeScan,
         ScanCell, EndScan, TakeOffset, RankKey, EndRank, Leave, shared
  <2> QED BY <2>1, <1>s, <1>b
<1>7. Total' = Total
  BY <1>c DEF Total
<1> QED BY <1>1, <1>2, <1>3, <1>4, <1>5, <1>6, <1>7, <1>b, <1>c DEF RankTypeOK, Total

-----------------------------------------------------------------------------
(* The inductive invariant.                                                *)
THEOREM RankInductive == RankSpec => []RankInv
<1>1. RankInit => RankInv
  <2> SUFFICES ASSUME RankInit PROVE RankInv
    OBVIOUS
  <2>1. KeyRange \in 0 .. KeyRange
    BY RankAssumption
  <2>2. keys_below[KeyRange] \in Nat
    BY <2>1 DEF RankInit, Histograms
  <2>3. RankTypeOK
    BY <2>2 DEF RankInit, RankTypeOK, Labels
  <2>4. BarrierCounts /\ BarrierOrder
    BY DEF RankInit, BarrierCounts, BarrierOrder
  <2>5. Singles /\ FirstPass /\ SecondPass
    BY DEF RankInit, Singles, FirstPass, SecondPass
  <2>6. Cells
    BY DEF RankInit, Cells
  <2> QED BY <2>3, <2>4, <2>5, <2>6 DEF RankInv
<1>2. RankInv /\ [RankNext]_rank_vars => RankInv'
  <2> SUFFICES ASSUME RankInv, [RankNext]_rank_vars PROVE RankInv'
    OBVIOUS
  <2>1. ASSUME NEW t \in Member, RankStep(t)
        PROVE  RankInv'
    <3>1. RankTypeOK'
      BY <2>1, TypeStep
    <3>2. BarrierCounts' /\ BarrierOrder'
      BY <2>1, CountsStep, OrderStep
    <3>3. Singles'
      BY <2>1, SinglesStep
    <3>4. FirstPass' /\ SecondPass'
      BY <2>1, FirstPassStep, SecondPassStep
    <3>5. Cells'
      BY <2>1, CellsStep
    <3> QED BY <3>1, <3>2, <3>3, <3>4, <3>5 DEF RankInv
  <2>2. CASE UNCHANGED rank_vars
    <3>1. RankTypeOK'
      BY <2>2 DEF RankInv, RankTypeOK, rank_vars, input, shared
    <3>2. BarrierCounts' /\ BarrierOrder' /\ Singles'
      BY <2>2 DEF RankInv, BarrierCounts, BarrierOrder, Singles, rank_vars, input,
         shared
    <3>3. FirstPass' /\ SecondPass'
      BY <2>2 DEF RankInv, FirstPass, SecondPass, rank_vars, input, shared
    <3>4. Cells'
      BY <2>2 DEF RankInv, Cells, ChunkSum, Offset, rank_vars, input, shared
    <3> QED BY <3>1, <3>2, <3>3, <3>4 DEF RankInv
  <2> QED BY <2>1, <2>2 DEF RankNext
<1> QED BY <1>1, <1>2, PTL DEF RankSpec

(* Every variable of the ranking keeps its type, and no sum exceeds the    *)
(* number of keys.                                                         *)
THEOREM RankTypes == RankSpec => []RankTypeOK
<1>1. RankInv => RankTypeOK
  BY DEF RankInv
<1> QED BY <1>1, RankInductive, PTL

(* The barriers keep the threads from racing for partial_sums and for      *)
(* cumulative_ranks.                                                       *)
THEOREM RaceFree == RankSpec => []NoDataRace
<1>1. RankInv => NoDataRace
  <2> SUFFICES ASSUME RankInv, NEW t \in Member, NEW u \in Member, t # u
               PROVE  /\ ~(at[t] = "resize" /\ at[u] = "resize") =>
                           Writes(t) \intersect (Writes(u) \union Reads(u)) = {}
                      /\ at[t] = "rank" /\ at[u] = "rank" =>
                           {k \in RankedKey : chunk[t] <= k /\ k < chunk[t + 1]}
                             \intersect {k \in RankedKey : chunk[u] <= k /\ k < chunk[u + 1]} = {}
    BY DEF NoDataRace
  <2>a. /\ RankTypeOK /\ BarrierCounts /\ BarrierOrder /\ Singles
        /\ arrived \in [Member -> 0 .. 4]
    BY DEF RankInv, RankTypeOK
  <2>1. ASSUME ~(at[t] = "resize" /\ at[u] = "resize")
        PROVE  Writes(t) \intersect (Writes(u) \union Reads(u)) = {}
    <3>0. "resize" \in taken \/ (at[t] # "resize" /\ at[u] # "resize")
      BY <2>1, <2>a DEF Singles
    <3>1. CASE at[t] = "sum" /\ index[t] >= chunk[t + 1]
      <4>1. Writes(t) = {t}
        BY <3>1 DEF Writes
      <4>2. arrived[t] = 1
        BY <3>1, <2>a DEF BarrierCounts
      <4>3. at[u] # "scanning" /\ at[u] # "scanned"
        BY <4>2, <2>a DEF BarrierOrder
      <4>4. Reads(u) = {} /\ (Writes(u) = {u} \/ Writes(u) = {})
        BY <3>0, <4>3, <3>1, <2>a DEF Reads, Writes, Singles
      <4> QED BY <4>1, <4>4
    <3>2. CASE at[t] = "scanning" /\ index[t] < NThreads
      <4>1. arrived[t] = 2 /\ arrived[u] >= 2
        BY <3>2, <2>a DEF BarrierCounts, BarrierOrder
      <4>2. at[u] # "sum" /\ at[u] # "resize"
        BY <4>1, <2>a DEF BarrierCounts
      <4>3. at[u] # "scanning"
        BY <3>2, <2>a DEF Singles
      <4>4. ~(at[u] = "scanned" /\ AllArrived(u))
        BY <4>1, <2>a DEF BarrierCounts, AllArrived
      <4> QED BY <4>2, <4>3, <4>4 DEF Reads, Writes
    <3>3. CASE at[t] = "resize" /\ "resize" \notin taken
      BY <3>0, <3>3
    <3>4. CASE /\ ~(at[t] = "sum" /\ index[t] >= chunk[t + 1])
               /\ ~(at[t] = "scanning" /\ index[t] < NThreads)
               /\ ~(at[t] = "resize" /\ "resize" \notin taken)
      <4>1. Writes(t) = {}
        BY <3>4 DEF Writes
      <4> QED BY <4>1
    <3> QED BY <3>1, <3>2, <3>3, <3>4
  <2>2. {k \in RankedKey : chunk[t] <= k /\ k < chunk[t + 1]}
          \intersect {k \in RankedKey : chunk[u] <= k /\ k < chunk[u + 1]} = {}
    <3>1. /\ chunk[t] \in Int /\ chunk[t + 1] \in Int
          /\ chunk[u] \in Int /\ chunk[u + 1] \in Int
      BY <2>a, InputFacts, ThreadFacts
    <3>2. t + 1 <= u \/ u + 1 <= t
      BY ThreadFacts
    <3>3. chunk[t + 1] <= chunk[u] \/ chunk[u + 1] <= chunk[t]
      BY <3>2, <2>a, InputFacts, ThreadFacts
    <3> QED BY <3>1, <3>3 DEF RankedKey
  <2> QED BY <2>1, <2>2
<1> QED BY <1>1, RankInductive, PTL

(* When the first thread leaves the region, every key has its rank.        *)
THEOREM RanksCorrect == RankSpec => []RanksAreCounts
<1>1. RankInv => RanksAreCounts
  <2> SUFFICES ASSUME RankInv, NEW t \in Member, at[t] = "done", NEW k \in RankedKey
               PROVE  cumulative_ranks[k] = keys_below[k + 1]
    BY DEF RanksAreCounts
  <2>1. PICK u \in Member : chunk[u] <= k /\ k < chunk[u + 1]
    BY InputFacts DEF RankInv
  <2>2. arrived[u] \in 0 .. 4 /\ arrived[u] >= 4
    BY DEF RankInv, RankTypeOK, BarrierOrder
  <2>3. at[u] \in {"ranked", "done"}
    BY <2>2 DEF RankInv, BarrierCounts
  <2> QED BY <2>1, <2>3 DEF RankInv, SecondPass
<1> QED BY <1>1, RankInductive, PTL
=============================================================================
