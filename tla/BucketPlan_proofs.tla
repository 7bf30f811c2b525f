------------------------- MODULE BucketPlan_proofs --------------------------
(***************************************************************************)
(* BucketPlanInv!IInv is an inductive invariant of BucketPlan, and what    *)
(* the plan promises follows from it.                                      *)
(***************************************************************************)
EXTENDS BucketPlanInv, TLAPS

(* The running totals are what TypeOK says they are.                       *)
LEMMA TotalsFacts ==
  ASSUME NEW f \in Totals
  PROVE  /\ f \in [0 .. NumBuckets -> 0 .. TotalKeys]
         /\ f[0] = 0
         /\ f[NumBuckets] = TotalKeys
         /\ \A b, c \in 0 .. NumBuckets : b <= c => f[b] <= f[c]
  BY DEF Totals

LEMMA ConstantFacts ==
  /\ TotalKeys \in Nat \ {0}
  /\ 0 \in Rank /\ 0 \in Bucket /\ 0 \in Slot
  /\ Rank \subseteq Slot /\ Bucket \subseteq Slot
  /\ Zeros \in [Slot -> {0}]
  <1>1. TotalKeys \in Nat \ {0}
    BY PlanAssumption DEF TotalKeys
  <1> QED
    BY <1>1, PlanAssumption DEF Rank, Bucket, Slot, Zeros

(* Quotas grow with the rank.                                              *)
LEMMA QuotaMonotone ==
  ASSUME NEW i \in Nat, NEW j \in Nat, i <= j
  PROVE  /\ i * AverageKeys \in Nat
         /\ i * AverageKeys <= j * AverageKeys
         /\ (i + 1) * AverageKeys = i * AverageKeys + AverageKeys
  <1>1. PICK d \in Nat : j = i + d
    BY SMT
  <1>2. j * AverageKeys = i * AverageKeys + d * AverageKeys /\ d * AverageKeys \in Nat
    BY <1>1, PlanAssumption
  <1> QED
    BY <1>2, PlanAssumption

LEMMA InitInv == Init => IInv
  BY ConstantFacts, PlanAssumption
  DEF Init, IInv, TypeOK, TotalsInv, ClearedInv, AssignInv, PlanInv, SumInv, Zeros, Rank, Bucket, Slot

LEMMA OrganizeStep == IInv /\ OrganizeKeys => IInv'
  BY ConstantFacts, PlanAssumption
  DEF OrganizeKeys, Cleared, IInv, TypeOK, TotalsInv, ClearedInv, AssignInv, PlanInv, SumInv,
      Zeros, Rank, Bucket, Slot, loop, range, sums

LEMMA ReduceStep == IInv /\ ReduceCounts => IInv'
  <1> SUFFICES ASSUME IInv, ReduceCounts PROVE IInv'
    OBVIOUS
  <1> USE DEF IInv, ReduceCounts
  <1>0. first_bucket_by_rank' = Zeros /\ last_bucket_by_rank' = Zeros
    BY ConstantFacts DEF ClearedInv, Zeros
  <1>1. keys_below' \in Totals
    OBVIOUS
  <1>2. TypeOK'
    BY <1>0, <1>1, TotalsFacts, ConstantFacts, PlanAssumption, SMTT(30)
    DEF TypeOK, Zeros, range, sums, Rank
  <1>3. AssignInv'
    BY <1>0, <1>1, TotalsFacts, ConstantFacts, PlanAssumption, SMTT(30)
    DEF AssignInv, TypeOK, Zeros, StartOf, Ordered, Rank, Bucket, Slot
  <1> QED
    BY <1>1, <1>2, <1>3 DEF TotalsInv, ClearedInv, PlanInv, SumInv

(* The integers and indices the arithmetic below is about.                 *)
LEMMA IndexFacts ==
  ASSUME TypeOK
  PROVE  /\ bucket \in Int /\ owner_rank \in Int /\ bucket <= NumBuckets
         /\ NumBuckets \in Int /\ CommSize \in Int /\ AverageKeys \in Int
         /\ \A r \in Rank : r \in Int /\ r \in Slot
         /\ \A r \in Slot : /\ r \in Int
                            /\ first_bucket_by_rank[r] \in Int
                            /\ last_bucket_by_rank[r] \in Int
                            /\ bucket_to_rank[r] \in Int
                            /\ 0 <= first_bucket_by_rank[r]
                            /\ 0 <= last_bucket_by_rank[r]
                            /\ last_bucket_by_rank[r] < NumBuckets
         /\ \A b \in 0 .. bucket - 1 : b \in Int /\ b \in Bucket /\ b \in Slot
         /\ \A b \in Bucket : b \in Int /\ b \in Slot /\ b + 1 \in 0 .. NumBuckets /\ b \in 0 .. NumBuckets
         /\ \A b \in 0 .. NumBuckets : keys_below[b] \in Int
  <1>1. \A r \in Slot : /\ first_bucket_by_rank[r] \in 0 .. NumBuckets
                        /\ last_bucket_by_rank[r] \in 0 .. NumBuckets - 1
                        /\ bucket_to_rank[r] \in 0 .. CommSize
    BY DEF TypeOK
  <1>2. \A b \in 0 .. NumBuckets : keys_below[b] \in 0 .. TotalKeys
    BY DEF TypeOK
  <1>3. Bucket \subseteq Slot /\ Rank \subseteq Slot
    BY ConstantFacts
  <1>4. /\ bucket \in Int /\ owner_rank \in Int /\ bucket <= NumBuckets
        /\ NumBuckets \in Int /\ CommSize \in Int /\ AverageKeys \in Int /\ TotalKeys \in Int
    BY PlanAssumption, ConstantFacts DEF TypeOK
  <1>5. \A b \in 0 .. bucket - 1 : b \in Bucket
    BY <1>4 DEF Bucket
  <1>6. \A r \in Slot : r \in Int
    BY DEF Slot
  <1>7. \A b \in Bucket : b \in Int /\ b + 1 \in 0 .. NumBuckets /\ b \in 0 .. NumBuckets
    BY <1>4 DEF Bucket
  <1> QED
    BY <1>1, <1>2, <1>3, <1>4, <1>5, <1>6, <1>7

LEMMA StartFacts ==
  ASSUME TypeOK, NEW r \in 0 .. CommSize
  PROVE  StartOf(r) \in 0 .. NumBuckets
  <1>1. CASE r = 0
    BY <1>1, PlanAssumption DEF StartOf
  <1>2. CASE r # 0
    <2>1. r - 1 \in Rank
      BY <1>2, PlanAssumption DEF Rank
    <2>2. last_bucket_by_rank[r - 1] \in 0 .. NumBuckets - 1
      BY <2>1, ConstantFacts DEF TypeOK
    <2> QED
      BY <2>2, <1>2, PlanAssumption DEF StartOf
  <1> QED
    BY <1>1, <1>2

(* What both branches of the loop over the buckets use.                    *)
LEMMA PassFacts ==
  ASSUME IInv, pc = "assign", bucket < NumBuckets
  PROVE  /\ bucket \in Bucket /\ bucket + 1 \in 0 .. NumBuckets
         /\ SumWithBucket = keys_below[bucket + 1]
         /\ keys_below[bucket + 1] \in 0 .. TotalKeys
         /\ keys_below[bucket] <= keys_below[bucket + 1]
  <1>1. keys_below \in Totals
    BY DEF IInv, TotalsInv
  <1>2. bucket \in Bucket /\ bucket + 1 \in 0 .. NumBuckets /\ bucket \in 0 .. NumBuckets
    BY PlanAssumption DEF IInv, TypeOK, Bucket
  <1>3. bucket_sum_accumulator = keys_below[bucket]
    BY DEF IInv, AssignInv
  <1>4. keys_below[bucket] \in 0 .. TotalKeys /\ keys_below[bucket + 1] \in 0 .. TotalKeys
    BY <1>1, <1>2, TotalsFacts
  <1> QED
    BY <1>1, <1>2, <1>3, <1>4, TotalsFacts, ConstantFacts DEF SumWithBucket, GlobalCount

LEMMA KeepStep == IInv /\ KeepOwner => IInv'
  <1> SUFFICES ASSUME IInv, KeepOwner PROVE IInv'
    OBVIOUS
  <1> USE DEF IInv, KeepOwner
  <1>f. /\ bucket \in Bucket /\ bucket + 1 \in 0 .. NumBuckets
        /\ SumWithBucket = keys_below[bucket + 1]
        /\ keys_below[bucket + 1] \in 0 .. TotalKeys
        /\ keys_below[bucket] <= keys_below[bucket + 1]
    BY PassFacts
  <1>t. TypeOK /\ TypeOK'
    BY <1>f, ConstantFacts DEF TypeOK, loop, range, sums
  <1>i. /\ bucket \in Int /\ owner_rank \in Int /\ bucket' = bucket + 1
        /\ \A r \in Rank : r \in Int /\ r \in Slot
        /\ \A r \in Slot : first_bucket_by_rank[r] \in Int /\ last_bucket_by_rank[r] \in Int
                           /\ bucket_to_rank[r] \in Int
        /\ \A b \in 0 .. bucket - 1 : b \in Int /\ b \in Slot
        /\ \A b \in 0 .. bucket' - 1 : b \in Int /\ (b \in 0 .. bucket - 1 \/ b = bucket)
    <2>1. bucket \in Int /\ bucket' = bucket + 1
      BY <1>t, IndexFacts
    <2> QED
      BY <1>t, <2>1, IndexFacts
  <1>s. bucket_to_rank'[bucket] = owner_rank /\ \A b \in 0 .. bucket - 1 : bucket_to_rank'[b] = bucket_to_rank[b]
    <2>1. bucket \in Slot /\ bucket_to_rank \in [Slot -> 0 .. CommSize]
      BY <1>f, <1>t, ConstantFacts DEF TypeOK
    <2>2. \A b \in 0 .. bucket - 1 : b # bucket
      BY <1>i
    <2> QED
      BY <2>1, <2>2, <1>i
  <1>q. keys_below[bucket + 1] < (owner_rank + 1) * AverageKeys
    <2>1. (owner_rank + 1) * AverageKeys \in Nat
      BY <1>t, QuotaMonotone, PlanAssumption DEF TypeOK
    <2> QED
      BY <1>f, <2>1 DEF QuotaReached
  <1>1. \A r \in Rank : StartOf(r)' = StartOf(r)
    BY DEF StartOf
  <1>2. ASSUME NEW r \in Rank, r < owner_rank
        PROVE  HasInterval(r)' /\ last_bucket_by_rank'[r] < bucket'
    <2>1. HasInterval(r) /\ last_bucket_by_rank[r] < bucket
      BY <1>2 DEF AssignInv
    <2>2. ASSUME NEW b \in 0 .. bucket' - 1
          PROVE  bucket_to_rank'[b] = r <=> b \in first_bucket_by_rank[r] .. last_bucket_by_rank[r]
      <3>1. CASE b = bucket
        BY <3>1, <1>s, <1>i, <2>1, <1>2
      <3>2. CASE b \in 0 .. bucket - 1
        BY <3>2, <1>s, <2>1 DEF HasInterval
      <3> QED
        BY <3>1, <3>2, <1>i
    <2>3. last_bucket_by_rank[r] < bucket'
      BY <2>1, <1>i
    <2> QED
      BY <2>1, <2>2, <2>3, <1>1 DEF HasInterval
  <1>6. \A b \in 0 .. bucket' - 1 : bucket_to_rank'[b] <= owner_rank
    BY <1>i, <1>s DEF AssignInv
  <1>7. StartOf(owner_rank)' = StartOf(owner_rank) /\ StartOf(owner_rank) <= bucket
    BY DEF StartOf, AssignInv
  <1>8. \A b \in 0 .. bucket' - 1 : bucket_to_rank'[b] = owner_rank <=> StartOf(owner_rank) <= b
    BY <1>i, <1>s, <1>7 DEF AssignInv
  <1>9. Ordered'
    <2> SUFFICES ASSUME NEW b \in 0 .. bucket' - 1, NEW c \in 0 .. bucket' - 1, b <= c
                 PROVE  bucket_to_rank'[b] <= bucket_to_rank'[c]
      BY DEF Ordered
    <2>1. CASE c = bucket
      BY <2>1, <1>s, <1>6
    <2>2. CASE c # bucket
      <3>1. b \in 0 .. bucket - 1 /\ c \in 0 .. bucket - 1
        BY <2>2, <1>i
      <3> QED
        BY <3>1, <1>s DEF AssignInv, Ordered
    <2> QED
      BY <2>1, <2>2
  <1>10. \A r \in Slot : r >= owner_rank' => last_bucket_by_rank'[r] = 0
    BY DEF AssignInv
  <1>11. StartOf(owner_rank)' <= bucket'
    <2>1. StartOf(owner_rank) \in Int
      <3>1. owner_rank \in 0 .. CommSize
        BY <1>t DEF TypeOK
      <3>2. StartOf(owner_rank) \in 0 .. NumBuckets
        BY <1>t, <3>1, StartFacts
      <3> QED
        BY <3>2
    <2> QED
      BY <2>1, <1>7, <1>i
  <1>12. /\ previous_bucket_sum_accumulator' = keys_below'[StartOf(owner_rank)']
         /\ owner_rank' * AverageKeys <= previous_bucket_sum_accumulator'
    BY <1>7 DEF AssignInv
  <1>13. bucket_sum_accumulator' = keys_below'[bucket']
    BY <1>f
  <1>14. expected_recv_count' =
           IF my_rank' < owner_rank'
           THEN keys_below'[last_bucket_by_rank'[my_rank'] + 1]
                  - keys_below'[first_bucket_by_rank'[my_rank']]
           ELSE 0
    BY DEF AssignInv
  <1>15. AssignInv'
    BY <1>2, <1>6, <1>7, <1>8, <1>9, <1>10, <1>11, <1>12, <1>13, <1>14, <1>q DEF AssignInv
  <1> QED
    BY <1>t, <1>15 DEF TotalsInv, ClearedInv, PlanInv, SumInv

LEMMA CloseStep == IInv /\ CloseOwner => IInv'
  <1> SUFFICES ASSUME IInv, CloseOwner PROVE IInv'
    OBVIOUS
  <1> USE DEF IInv, CloseOwner
  <1> DEFINE o == owner_rank
             start == StartOf(o)
  <1>f. /\ bucket \in Bucket /\ bucket + 1 \in 0 .. NumBuckets
        /\ SumWithBucket = keys_below[bucket + 1]
        /\ keys_below[bucket + 1] \in 0 .. TotalKeys
        /\ keys_below[bucket] <= keys_below[bucket + 1]
    BY PassFacts
  <1>t. TypeOK
    OBVIOUS
  <1>i. /\ bucket \in Int /\ o \in Int /\ 0 <= o /\ bucket' = bucket + 1 /\ o' = o + 1
        /\ \A r \in Rank : r \in Int /\ r \in Slot
        /\ \A r \in Slot : r \in Int /\ first_bucket_by_rank[r] \in Int /\ last_bucket_by_rank[r] \in Int
                           /\ bucket_to_rank[r] \in Int
        /\ \A b \in 0 .. bucket - 1 : b \in Int /\ b \in Slot
        /\ \A b \in 0 .. bucket' - 1 : b \in Int /\ (b \in 0 .. bucket - 1 \/ b = bucket)
        /\ AverageKeys \in Int /\ TotalKeys \in Int
    <2>1. bucket \in Int /\ bucket' = bucket + 1 /\ 0 <= o
      BY <1>t, IndexFacts DEF TypeOK
    <2> QED
      BY <1>t, <2>1, IndexFacts, ConstantFacts
  (* The quota can be reached by a rank that exists only. *)
  <1>r. o \in Rank /\ (o + 1) * AverageKeys <= keys_below[bucket + 1]
    <2>1. (o + 1) * AverageKeys \in Nat /\ (o + 1) * AverageKeys = o * AverageKeys + AverageKeys
      BY <1>t, QuotaMonotone, PlanAssumption DEF TypeOK
    <2>2. (o + 1) * AverageKeys <= keys_below[bucket + 1]
      BY <1>f DEF QuotaReached
    <2>3. o # CommSize
      <3>1. ASSUME o = CommSize PROVE FALSE
        <4>1. TotalKeys + AverageKeys <= keys_below[bucket + 1]
          BY <3>1, <2>1, <2>2 DEF TotalKeys
        <4> QED
          BY <4>1, <1>f, ConstantFacts, PlanAssumption
      <3> QED
        BY <3>1
    <2>4. o \in Rank
      BY <2>3, PlanAssumption DEF TypeOK, Rank
    <2> QED
      BY <2>2, <2>4
  <1>s. bucket_to_rank'[bucket] = o /\ \A b \in 0 .. bucket - 1 : bucket_to_rank'[b] = bucket_to_rank[b]
    <2>1. bucket \in Slot /\ bucket_to_rank \in [Slot -> 0 .. CommSize]
      BY <1>f, <1>t, ConstantFacts DEF TypeOK
    <2>2. \A b \in 0 .. bucket - 1 : b # bucket
      BY <1>i
    <2> QED
      BY <2>1, <2>2, <1>i
  <1>k. start \in 0 .. NumBuckets /\ start <= bucket
    BY <1>t, StartFacts DEF TypeOK, AssignInv
  <1>a. /\ first_bucket_by_rank'[o] = start
        /\ \A r \in Slot : r # o => first_bucket_by_rank'[r] = first_bucket_by_rank[r]
        /\ first_bucket_by_rank' \in [Slot -> 0 .. NumBuckets]
    <2>1. first_bucket_by_rank \in [Slot -> 0 .. NumBuckets] /\ o \in Slot
      BY <1>t, <1>r, <1>i DEF TypeOK
    <2>2. CASE o = 0
      BY <2>1, <2>2 DEF AssignInv, StartOf
    <2>3. CASE o # 0
      <3>1. AfterPreviousInterval = start
        BY <2>3 DEF AfterPreviousInterval, StartOf
      <3> QED
        BY <3>1, <2>1, <2>3, <1>k
    <2> QED
      BY <2>2, <2>3
  <1>l. /\ last_bucket_by_rank'[o] = bucket
        /\ \A r \in Slot : r # o => last_bucket_by_rank'[r] = last_bucket_by_rank[r]
        /\ last_bucket_by_rank' \in [Slot -> 0 .. NumBuckets - 1]
    <2>1. last_bucket_by_rank \in [Slot -> 0 .. NumBuckets - 1] /\ o \in Slot /\ bucket \in 0 .. NumBuckets - 1
      BY <1>t, <1>r, <1>i, <1>f DEF TypeOK, Bucket
    <2> QED
      BY <2>1
  <1>n. KeysOfInterval = keys_below[bucket + 1] - keys_below[start] /\ KeysOfInterval \in 0 .. TotalKeys
    <2>1. previous_bucket_sum_accumulator = keys_below[start]
      BY DEF AssignInv
    <2>2. keys_below \in Totals
      BY DEF TotalsInv
    <2>3. keys_below[start] \in 0 .. TotalKeys /\ keys_below[start] <= keys_below[bucket + 1]
      <3>1. start <= bucket + 1
        BY <1>k, <1>i
      <3> QED
        BY <3>1, <2>2, <1>k, <1>f, TotalsFacts
    <2> QED
      BY <2>1, <2>3, <1>f, <1>i DEF KeysOfInterval
  <1>u. TypeOK'
    <2>1. bucket_to_rank' \in [Slot -> 0 .. CommSize]
      BY <1>t DEF TypeOK
    <2>2. owner_rank' \in 0 .. CommSize
      BY <1>r, PlanAssumption DEF Rank
    <2> QED
      BY <2>1, <2>2, <1>t, <1>f, <1>a, <1>l, <1>n DEF TypeOK, range, sums
  <1>1. StartOf(owner_rank)' = bucket + 1 /\ \A r \in Rank : r <= o => StartOf(r)' = StartOf(r)
    <2>1. StartOf(owner_rank)' = bucket + 1
      BY <1>i, <1>l DEF StartOf
    <2>2. ASSUME NEW r \in Rank, r <= o, r # 0 PROVE last_bucket_by_rank'[r - 1] = last_bucket_by_rank[r - 1]
      <3>1. r - 1 \in Rank /\ r - 1 # o
        BY <2>2, <1>i, PlanAssumption DEF Rank
      <3> QED
        BY <3>1, <1>l, <1>i
    <2> QED
      BY <2>1, <2>2 DEF StartOf
  <1>2. ASSUME NEW r \in Rank, r < o
        PROVE  HasInterval(r)' /\ last_bucket_by_rank'[r] < bucket'
    <2>1. HasInterval(r) /\ last_bucket_by_rank[r] < bucket
      BY <1>2 DEF AssignInv
    <2>e. /\ first_bucket_by_rank'[r] = first_bucket_by_rank[r]
          /\ last_bucket_by_rank'[r] = last_bucket_by_rank[r]
      BY <1>2, <1>a, <1>l, <1>i
    <2>2. ASSUME NEW b \in 0 .. bucket' - 1
          PROVE  bucket_to_rank'[b] = r <=> b \in first_bucket_by_rank[r] .. last_bucket_by_rank[r]
      <3>1. CASE b = bucket
        BY <3>1, <1>s, <1>i, <2>1, <1>2
      <3>2. CASE b \in 0 .. bucket - 1
        BY <3>2, <1>s, <2>1 DEF HasInterval
      <3> QED
        BY <3>1, <3>2, <1>i
    <2>3. last_bucket_by_rank[r] < bucket'
      BY <2>1, <1>i
    <2> QED
      BY <2>1, <2>2, <2>3, <2>e, <1>1, <1>2, <1>i DEF HasInterval
  <1>3. ASSUME NEW r \in Rank, r = o
        PROVE  HasInterval(r)' /\ last_bucket_by_rank'[r] < bucket'
    <2>1. \A b \in 0 .. bucket' - 1 : bucket_to_rank'[b] = r <=> b \in start .. bucket
      <3>1. \A b \in 0 .. bucket - 1 : bucket_to_rank[b] = o <=> start <= b
        BY DEF AssignInv
      <3> QED
        BY <3>1, <1>3, <1>s, <1>i, <1>k
    <2>2. r * AverageKeys <= keys_below[start]
      BY <1>3 DEF AssignInv
    <2>3. start = bucket \/ keys_below[bucket] < (r + 1) * AverageKeys
      <3>1. start < bucket => bucket_sum_accumulator < (o + 1) * AverageKeys
        BY DEF AssignInv
      <3>2. bucket_sum_accumulator = keys_below[bucket]
        BY DEF AssignInv
      <3> QED
        BY <3>1, <3>2, <1>3, <1>k, <1>i
    <2>4. StartOf(r)' = start
      BY <1>1, <1>3, <1>i
    <2>5. first_bucket_by_rank'[r] = start /\ last_bucket_by_rank'[r] = bucket
      BY <1>a, <1>l, <1>3
    <2>6. (r + 1) * AverageKeys <= keys_below[bucket + 1]
      BY <1>r, <1>3
    <2>7. first_bucket_by_rank'[r] <= last_bucket_by_rank'[r] /\ last_bucket_by_rank'[r] < bucket'
      BY <2>5, <1>k, <1>i
    <2>8. keys_below' = keys_below
      OBVIOUS
    <2>9. \/ first_bucket_by_rank'[r] = last_bucket_by_rank'[r]
          \/ keys_below'[last_bucket_by_rank'[r]] < (r + 1) * AverageKeys
      BY <2>3, <2>5, <2>8
    <2> HIDE DEF start, CloseOwner
    <2> QED
      BY <2>1, <2>2, <2>4, <2>5, <2>6, <2>7, <2>8, <2>9 DEF HasInterval
  <1>4. \A r \in Slot : r >= owner_rank' => last_bucket_by_rank'[r] = 0
    BY <1>l, <1>i DEF AssignInv
  <1>5. first_bucket_by_rank'[0] = 0
    BY <1>a, ConstantFacts DEF AssignInv, StartOf
  <1>6. \A b \in 0 .. bucket' - 1 : bucket_to_rank'[b] <= o
    BY <1>i, <1>s DEF AssignInv
  <1>7. \A b \in 0 .. bucket' - 1 :
          /\ bucket_to_rank'[b] <= owner_rank'
          /\ bucket_to_rank'[b] = owner_rank' <=> bucket + 1 <= b
    <2>1. \A b \in 0 .. bucket' - 1 : bucket_to_rank'[b] \in Int
      BY <1>i, <1>s
    <2> QED
      BY <1>6, <2>1, <1>i
  <1>8. Ordered'
    <2> SUFFICES ASSUME NEW b \in 0 .. bucket' - 1, NEW c \in 0 .. bucket' - 1, b <= c
                 PROVE  bucket_to_rank'[b] <= bucket_to_rank'[c]
      BY DEF Ordered
    <2>1. CASE c = bucket
      BY <2>1, <1>s, <1>6
    <2>2. CASE c # bucket
      <3>1. b \in 0 .. bucket - 1 /\ c \in 0 .. bucket - 1
        BY <2>2, <1>i
      <3> QED
        BY <3>1, <1>s DEF AssignInv, Ordered
    <2> QED
      BY <2>1, <2>2
  <1>9. owner_rank' * AverageKeys <= previous_bucket_sum_accumulator'
    BY <1>r, <1>f
  <1>10. expected_recv_count' =
           IF my_rank' < owner_rank'
           THEN keys_below'[last_bucket_by_rank'[my_rank'] + 1]
                  - keys_below'[first_bucket_by_rank'[my_rank']]
           ELSE 0
    <2>m. my_rank \in Rank /\ my_rank' = my_rank /\ keys_below' = keys_below
      BY <1>t DEF TypeOK
    <2>1. CASE my_rank = o
      BY <2>1, <2>m, <1>n, <1>a, <1>l, <1>i
    <2>2. CASE my_rank # o
      <3>1. /\ first_bucket_by_rank'[my_rank] = first_bucket_by_rank[my_rank]
            /\ last_bucket_by_rank'[my_rank] = last_bucket_by_rank[my_rank]
        BY <2>2, <2>m, <1>a, <1>l, <1>i
      <3>2. my_rank < o <=> my_rank < o'
        BY <2>2, <2>m, <1>i
      <3> QED
        BY <3>1, <3>2, <2>2, <2>m DEF AssignInv
    <2> QED
      BY <2>1, <2>2
  <1>11. \A r \in Rank : r < owner_rank' => HasInterval(r)' /\ last_bucket_by_rank'[r] < bucket'
    BY <1>2, <1>3, <1>i
  <1>12. AssignInv'
    <2>1. StartOf(owner_rank)' <= bucket' /\ ~(StartOf(owner_rank)' < bucket')
      BY <1>1, <1>i
    <2>2. previous_bucket_sum_accumulator' = keys_below'[StartOf(owner_rank)']
      BY <1>1, <1>f
    <2>3. bucket_sum_accumulator' = keys_below'[bucket']
      BY <1>f, <1>i
    <2> QED
      BY <2>1, <2>2, <2>3, <1>1, <1>4, <1>5, <1>7, <1>8, <1>9, <1>10, <1>11 DEF AssignInv
  <1> QED
    BY <1>u, <1>12 DEF TotalsInv, ClearedInv, PlanInv, SumInv

(* When the buckets are used up, no interval is open unless every rank has *)
(* one: the last rank with an interval has the last of the keys.           *)
LEMMA EndStep == IInv /\ EndAssign => IInv'
  <1> SUFFICES ASSUME IInv, EndAssign PROVE IInv'
    OBVIOUS
  <1> USE DEF IInv, EndAssign
  <1>t. TypeOK /\ TypeOK'
    BY DEF TypeOK, arrays, loop, range, sums
  <1>u. /\ bucket = NumBuckets /\ bucket' = bucket /\ owner_rank' = owner_rank /\ keys_below' = keys_below
        /\ bucket_to_rank' = bucket_to_rank /\ my_rank' = my_rank
        /\ first_bucket_by_rank' = first_bucket_by_rank /\ last_bucket_by_rank' = last_bucket_by_rank
        /\ expected_recv_count' = expected_recv_count
    BY DEF arrays, loop
  <1>i. /\ owner_rank \in 0 .. CommSize /\ owner_rank \in Int /\ NumBuckets \in Nat \ {0}
        /\ \A r \in Rank : r \in Int /\ 0 <= r /\ r < CommSize /\ last_bucket_by_rank[r] \in Int
        /\ CommSize \in Int /\ AverageKeys \in Nat \ {0} /\ TotalKeys \in Nat \ {0}
        /\ 0 .. bucket - 1 = Bucket
    BY <1>t, <1>u, IndexFacts, ConstantFacts, PlanAssumption, SMTT(30) DEF TypeOK, Rank, Bucket
  <1>k. keys_below \in Totals /\ keys_below[NumBuckets] = TotalKeys
    BY TotalsFacts DEF TotalsInv
  <1>s. StartOf(owner_rank) \in 0 .. NumBuckets
    BY <1>t, <1>i, StartFacts
  (* An interval open at the end would hold fewer keys than there are.     *)
  <1>1. owner_rank < CommSize => StartOf(owner_rank) = NumBuckets
    <2> SUFFICES ASSUME owner_rank < CommSize, StartOf(owner_rank) < NumBuckets PROVE FALSE
      BY <1>s, <1>i, <1>u DEF AssignInv
    <2>1. TotalKeys < (owner_rank + 1) * AverageKeys
      BY <1>u, <1>k DEF AssignInv
    <2>2. (owner_rank + 1) * AverageKeys <= TotalKeys
      <3>1. owner_rank + 1 \in Nat /\ CommSize \in Nat /\ owner_rank + 1 <= CommSize
        BY <1>i
      <3> QED
        BY <3>1, QuotaMonotone DEF TotalKeys
    <2>3. (owner_rank + 1) * AverageKeys \in Int
      BY <1>i
    <2> QED
      BY <2>1, <2>2, <2>3, <1>i
  <1>2. 0 < owner_rank
    <2>1. ASSUME owner_rank = 0 PROVE FALSE
      <3>1. owner_rank < CommSize
        BY <2>1, PlanAssumption
      <3>2. StartOf(owner_rank) = 0
        BY <2>1 DEF StartOf
      <3> QED
        BY <3>1, <3>2, <1>1, <1>i
    <2> QED
      BY <2>1, <1>i
  <1>3. owner_rank - 1 \in Rank
    BY <1>2, <1>i, PlanAssumption DEF Rank
  <1>4. keys_below[StartOf(owner_rank)] = TotalKeys
    <2>1. CASE owner_rank < CommSize
      BY <2>1, <1>1, <1>k
    <2>2. CASE owner_rank = CommSize
      <3>1. TotalKeys <= keys_below[StartOf(owner_rank)]
        BY <2>2 DEF AssignInv, TotalKeys
      <3>2. keys_below[StartOf(owner_rank)] \in 0 .. TotalKeys
        BY <1>s, <1>t DEF TypeOK
      <3> QED
        BY <3>1, <3>2, <1>i
    <2> QED
      BY <2>1, <2>2, <1>i
  <1>5. ASSUME NEW r \in Rank, r < owner_rank
        PROVE  HasInterval(r) /\ HasInterval(r)' /\ ~IsIdle(r)'
    <2>1. HasInterval(r)
      BY <1>5 DEF AssignInv
    <2>2. HasInterval(r)'
      BY <2>1, <1>u DEF HasInterval, StartOf
    <2>3. ~IsIdle(r)'
      <3>1. first_bucket_by_rank[r] <= last_bucket_by_rank[r] /\ r \in Slot
        BY <2>1, ConstantFacts DEF HasInterval
      <3> QED
        BY <3>1, <1>u DEF IsIdle
    <2> QED
      BY <2>1, <2>2, <2>3
  <1>6. ASSUME NEW r \in Rank, r < owner_rank, r + 1 < owner_rank => IsIdle(r + 1)'
        PROVE  keys_below[last_bucket_by_rank[r] + 1] = TotalKeys
    <2>1. r + 1 = owner_rank
      <3>1. ASSUME r + 1 < owner_rank PROVE FALSE
        <4>1. r + 1 \in Rank
          BY <3>1, <1>i, PlanAssumption DEF Rank
        <4> QED
          BY <4>1, <3>1, <1>5, <1>6
      <3> QED
        BY <3>1, <1>6, <1>i
    <2>2. StartOf(owner_rank) = last_bucket_by_rank[r] + 1
      BY <2>1, <1>2, <1>i DEF StartOf
    <2> QED
      BY <2>2, <1>4
  <1>7. ASSUME NEW r \in Rank, r >= owner_rank, NEW b \in Bucket
        PROVE  last_bucket_by_rank[r] = 0 /\ bucket_to_rank[b] # r
    <2>1. last_bucket_by_rank[r] = 0
      BY <1>7, ConstantFacts DEF AssignInv
    <2>2. owner_rank < CommSize
      BY <1>7, <1>i
    <2>3. ~(StartOf(owner_rank) <= b)
      BY <2>2, <1>1, <1>i DEF Bucket
    <2>4. b \in 0 .. bucket - 1 /\ bucket_to_rank[b] <= owner_rank /\ bucket_to_rank[b] # owner_rank
      BY <2>3, <1>i DEF AssignInv
    <2>5. bucket_to_rank[b] \in Int
      BY <1>t, IndexFacts
    <2> QED
      BY <2>1, <2>4, <2>5, <1>7, <1>i
  <1>8. ASSUME NEW b \in Bucket, GlobalCount(b) > 0
        PROVE  bucket_to_rank[b] < CommSize
    <2>1. b \in 0 .. bucket - 1 /\ bucket_to_rank[b] <= owner_rank
      BY <1>i DEF AssignInv
    <2>2. b \in 0 .. NumBuckets /\ b + 1 \in 0 .. NumBuckets /\ bucket_to_rank[b] \in Int
      BY <1>t, IndexFacts
    <2>3. ASSUME StartOf(owner_rank) <= b PROVE FALSE
      <3>1. keys_below[StartOf(owner_rank)] <= keys_below[b] /\ keys_below[b] \in 0 .. TotalKeys /\ keys_below[b + 1] \in 0 .. TotalKeys
        BY <2>2, <2>3, <1>k, <1>s, TotalsFacts
      <3> QED
        BY <3>1, <1>4, <1>8, <1>i DEF GlobalCount
    <2>4. bucket_to_rank[b] # owner_rank
      BY <2>1, <2>3 DEF AssignInv
    <2> QED
      BY <2>1, <2>2, <2>4, <1>i
  <1>9. expected_recv_count' =
          IF my_rank' < owner_rank' /\ HasInterval(my_rank)'
          THEN keys_below'[last_bucket_by_rank'[my_rank'] + 1]
                 - keys_below'[first_bucket_by_rank'[my_rank']]
          ELSE 0
    <2>1. my_rank \in Rank /\ (my_rank < owner_rank => HasInterval(my_rank)')
      <3>1. my_rank \in Rank
        BY <1>t DEF TypeOK
      <3>2. \A r \in Rank : r = my_rank /\ r < owner_rank => HasInterval(r)'
        BY <1>5
      <3> QED
        BY <3>1, <3>2, <1>u DEF HasInterval, StartOf
    <2> QED
      BY <2>1, <1>u DEF AssignInv
  <1>10. Ordered'
    BY <1>u DEF AssignInv, Ordered
  <1>11. PlanInv'
    <2>1. \A r \in Rank : r < owner_rank' => HasInterval(r)' \/ IsIdle(r)'
      BY <1>5, <1>u
    <2>2. \A r, s \in Rank : r < s /\ s < owner_rank' /\ IsIdle(r)' => IsIdle(s)'
      BY <1>5, <1>u, <1>i
    <2>3. \A r \in Rank : r < owner_rank' /\ HasInterval(r)' /\ (r + 1 < owner_rank' => IsIdle(r + 1)')
            => keys_below'[last_bucket_by_rank'[r] + 1] = TotalKeys
      BY <1>6, <1>u
    <2>4. \A r \in Rank : r >= owner_rank' =>
            last_bucket_by_rank'[r] = 0 /\ \A b \in Bucket : bucket_to_rank'[b] # r
      <3>1. \E b : b \in Bucket
        BY ConstantFacts
      <3> QED
        BY <3>1, <1>7, <1>u
    <2>5. \A b \in Bucket : GlobalCount(b)' > 0 => bucket_to_rank'[b] < CommSize
      BY <1>8, <1>u DEF GlobalCount
    <2> QED
      BY <2>1, <2>2, <2>3, <2>4, <2>5, <1>2, <1>9, <1>10, <1>u DEF PlanInv
  <1> QED
    BY <1>t, <1>k, <1>11, <1>u DEF TotalsInv, ClearedInv, AssignInv, SumInv

LEMMA IdleStep == IInv /\ MarkIdle => IInv'
  <1> SUFFICES ASSUME IInv, MarkIdle PROVE IInv'
    OBVIOUS
  <1> USE DEF IInv, MarkIdle
  <1>p. /\ PlanInv /\ TypeOK /\ pc = "idle"
        /\ owner_rank \in Rank /\ owner_rank \in Slot /\ owner_rank \in Int /\ 0 < owner_rank
        /\ \A r \in Rank : r \in Int /\ r \in Slot
        /\ \A r \in Int : r \in Rank <=> 0 <= r /\ r < CommSize
        /\ CommSize \in Int
    <2>1. PlanInv /\ TypeOK /\ pc = "idle" /\ 0 < owner_rank
      BY DEF PlanInv
    <2>2. owner_rank \in Int /\ owner_rank < CommSize /\ CommSize \in Int
      BY <2>1, IndexFacts
    <2>3. \A r \in Int : r \in Rank <=> 0 <= r /\ r < CommSize
      BY <2>2 DEF Rank
    <2>4. owner_rank \in Rank
      BY <2>1, <2>2, <2>3
    <2> QED
      BY <2>1, <2>2, <2>3, <2>4, IndexFacts, ConstantFacts
  <1>u. /\ owner_rank' = owner_rank + 1 /\ bucket' = bucket /\ keys_below' = keys_below
        /\ bucket_to_rank' = bucket_to_rank /\ my_rank' = my_rank /\ pc' = pc
        /\ last_bucket_by_rank' = last_bucket_by_rank
        /\ expected_recv_count' = expected_recv_count
        /\ first_bucket_by_rank'[owner_rank] = 1
        /\ \A r \in Slot : r # owner_rank => first_bucket_by_rank'[r] = first_bucket_by_rank[r]
    BY <1>p DEF IdleFirst, TypeOK
  <1>t. TypeOK'
    <2>1. owner_rank' \in 0 .. CommSize
      BY <1>p, PlanAssumption DEF Rank
    <2>2. 1 \in 0 .. NumBuckets
      BY PlanAssumption
    <2>3. first_bucket_by_rank' \in [Slot -> 0 .. NumBuckets]
      BY <2>2, <1>p DEF IdleFirst, TypeOK
    <2> QED
      BY <2>1, <2>3, <1>p DEF TypeOK, range, sums
  (* The ranks before owner_rank do not change. *)
  <1>1. ASSUME NEW r \in Rank, r < owner_rank
        PROVE  /\ HasInterval(r)' <=> HasInterval(r)
               /\ IsIdle(r)' <=> IsIdle(r)
    <2>1. first_bucket_by_rank'[r] = first_bucket_by_rank[r]
      BY <1>1, <1>p, <1>u
    <2>2. StartOf(r)' = StartOf(r)
      BY <1>u DEF StartOf
    <2> QED
      BY <2>1, <2>2, <1>u DEF HasInterval, IsIdle
  <1>2. ASSUME NEW r \in Rank, r = owner_rank
        PROVE  IsIdle(r)' /\ ~HasInterval(r)'
    <2>1. last_bucket_by_rank[r] = 0 /\ \A b \in Bucket : bucket_to_rank[b] # r
      BY <1>2, <1>p DEF PlanInv
    <2>2. IsIdle(r)'
      BY <2>1, <1>2, <1>u, <1>p DEF IsIdle
    <2> QED
      BY <2>2 DEF IsIdle, HasInterval
  <1>3. \A r \in Rank : r < owner_rank' => r < owner_rank \/ r = owner_rank
    BY <1>p, <1>u
  <1>4. ASSUME NEW r \in Rank, NEW s \in Rank, r < s, s < owner_rank', IsIdle(r)'
        PROVE  IsIdle(s)'
    <2>1. r < owner_rank /\ (s < owner_rank \/ s = owner_rank)
      BY <1>4, <1>p, <1>u
    <2>2. CASE s = owner_rank
      BY <2>2, <1>2
    <2>3. CASE s < owner_rank
      <3>1. IsIdle(r)
        BY <2>1, <1>1, <1>4
      <3>2. IsIdle(s)
        BY <3>1, <2>3, <1>4, <1>p DEF PlanInv
      <3> QED
        BY <3>2, <2>3, <1>1
    <2> QED
      BY <2>1, <2>2, <2>3
  <1>5. ASSUME NEW r \in Rank, r < owner_rank', HasInterval(r)', r + 1 < owner_rank' => IsIdle(r + 1)'
        PROVE  keys_below'[last_bucket_by_rank'[r] + 1] = TotalKeys
    <2>1. r < owner_rank /\ HasInterval(r)
      BY <1>1, <1>2, <1>3, <1>5
    <2>2. r + 1 < owner_rank => IsIdle(r + 1)
      <3>1. ASSUME r + 1 < owner_rank PROVE IsIdle(r + 1)
        <4>1. r + 1 \in Rank /\ r + 1 < owner_rank'
          BY <3>1, <1>p, <1>u
        <4> QED
          BY <4>1, <3>1, <1>1, <1>5
      <3> QED
        BY <3>1
    <2>3. keys_below[last_bucket_by_rank[r] + 1] = TotalKeys
      BY <2>1, <2>2, <1>p DEF PlanInv
    <2> QED
      BY <2>3, <1>u
  <1>6. expected_recv_count' =
          IF my_rank' < owner_rank' /\ HasInterval(my_rank)'
          THEN keys_below'[last_bucket_by_rank'[my_rank'] + 1]
                 - keys_below'[first_bucket_by_rank'[my_rank']]
          ELSE 0
    <2>1. my_rank \in Rank
      BY <1>p DEF TypeOK
    <2>2. CASE my_rank < owner_rank
      <3>1. HasInterval(my_rank)' <=> HasInterval(my_rank)
        BY <2>1, <2>2, <1>u, <1>p DEF HasInterval, StartOf
      <3>2. first_bucket_by_rank'[my_rank] = first_bucket_by_rank[my_rank] /\ my_rank < owner_rank'
        BY <2>1, <2>2, <1>u, <1>p
      <3> QED
        BY <3>1, <3>2, <2>2, <1>u, <1>p DEF PlanInv
    <2>3. CASE my_rank >= owner_rank
      <3>1. ~(my_rank' < owner_rank' /\ HasInterval(my_rank)')
        <4>1. ASSUME my_rank = owner_rank PROVE ~HasInterval(my_rank)'
          <5>1. last_bucket_by_rank[my_rank] = 0
            BY <2>1, <2>3, <1>p DEF PlanInv
          <5> QED
            BY <5>1, <4>1, <1>u DEF HasInterval
        <4> QED
          BY <4>1, <2>1, <2>3, <1>u, <1>p
      <3>2. expected_recv_count = 0
        BY <2>1, <2>3, <1>p DEF PlanInv
      <3> QED
        BY <3>1, <3>2, <1>u
    <2> QED
      BY <2>1, <2>2, <2>3, <1>p
  <1>7. PlanInv'
    <2>1. \A r \in Rank : r < owner_rank' => HasInterval(r)' \/ IsIdle(r)'
      BY <1>1, <1>2, <1>3, <1>p DEF PlanInv
    <2>2. \A r \in Rank : r >= owner_rank' => r >= owner_rank
      BY <1>p, <1>u
    <2>3. 0 < owner_rank'
      BY <1>p, <1>u
    <2>4. Ordered'
      BY <1>p, <1>u DEF PlanInv, Ordered
    <2>5. \A b \in Bucket : GlobalCount(b)' = GlobalCount(b)
      BY <1>u DEF GlobalCount
    <2> QED
      BY <2>1, <2>2, <2>3, <2>4, <2>5, <1>4, <1>5, <1>6, <1>p, <1>u DEF PlanInv
  <1> QED
    BY <1>t, <1>7, <1>p, <1>u DEF TotalsInv, ClearedInv, AssignInv, SumInv

(* The interval of the first rank starts at the first bucket.              *)
LEMMA FirstRankHasInterval ==
  ASSUME IInv, pc \in {"idle", "lesser", "ready"}
  PROVE  HasInterval(0) /\ keys_below[first_bucket_by_rank[0]] = 0
  <1>1. 0 \in Rank /\ 0 < owner_rank
    BY ConstantFacts DEF IInv, PlanInv
  <1>2. HasInterval(0)
    BY <1>1 DEF IInv, PlanInv, IsIdle
  <1>3. keys_below[0] = 0
    BY TotalsFacts DEF IInv, TotalsInv
  <1> QED
    BY <1>2, <1>3 DEF HasInterval, StartOf

LEMMA RangeStep == IInv /\ ComputeKeyRange => IInv'
  <1> SUFFICES ASSUME IInv, ComputeKeyRange PROVE IInv'
    OBVIOUS
  <1> USE DEF IInv, ComputeKeyRange
  <1>u. UNCHANGED <<my_rank, keys_below, arrays, loop, local_key_count>>
    OBVIOUS
  <1>f. /\ HasInterval(0) /\ keys_below[first_bucket_by_rank[0]] = 0
    BY FirstRankHasInterval
  <1>i. /\ my_rank \in Rank /\ my_rank \in Slot /\ my_rank \in Int /\ 0 <= my_rank
        /\ first_bucket_by_rank[my_rank] \in Int /\ last_bucket_by_rank[my_rank] \in Int
    BY IndexFacts, SMTT(30) DEF TypeOK, Rank
  <1>1. TypeOK'
    <2>1. min_key_value' \in Int /\ max_key_value' \in Int
      BY <1>i, PlanAssumption DEF LastKey
    <2> QED
      <3>1. rank' \in 0 .. CommSize /\ lesser_key_count' \in 0 .. TotalKeys
        BY ConstantFacts, PlanAssumption
      <3>2. pc' = "lesser"
        OBVIOUS
      <3> HIDE DEF ComputeKeyRange
      <3> QED
        BY <2>1, <3>1, <3>2, <1>u DEF TypeOK, arrays, loop
  <1>2. PlanInv'
    BY <1>u DEF PlanInv, HasInterval, IsIdle, StartOf, Ordered, GlobalCount, arrays, loop
  <1>3. SumInv'
    <2>1. owner_rank' = CommSize
      BY PlanAssumption DEF TypeOK, loop
    <2>2. HasInterval(0)'
      BY <1>f, <1>u DEF HasInterval, StartOf, arrays, loop
    <2>3. rank' = 0 /\ lesser_key_count' = 0 /\ rank' <= my_rank' /\ pc' = "lesser"
      BY <1>i
    <2>4. HasInterval(rank)'
      BY <2>2, <2>3 DEF HasInterval, StartOf
    <2>5. keys_below'[first_bucket_by_rank'[rank']] = 0
      BY <1>f, <2>3 DEF arrays
    <2> QED
      BY <2>1, <2>3, <2>4, <2>5 DEF SumInv, LastKey, arrays
  <1> QED
    BY <1>1, <1>2, <1>3, <1>u DEF TotalsInv, ClearedInv, AssignInv

(* What the steps of the sums leave of the plan.                           *)
LEMMA PlanStays ==
  ASSUME IInv, pc \in {"lesser", "ready"}, pc' \in {"lesser", "ready"},
         UNCHANGED <<my_rank, keys_below, arrays, loop, range>>
  PROVE  TotalsInv' /\ ClearedInv' /\ AssignInv' /\ PlanInv'
  BY DEF IInv, TotalsInv, ClearedInv, AssignInv, PlanInv, HasInterval, IsIdle, StartOf, Ordered,
         GlobalCount, arrays, loop

(* The keys of a rank's interval lead from its start to the next start.    *)
LEMMA SumOfInterval ==
  ASSUME IInv, pc = "lesser", NEW r \in Rank
  PROVE  /\ HasInterval(r) => /\ IntervalKeys(r) = keys_below[last_bucket_by_rank[r] + 1]
                                                     - keys_below[first_bucket_by_rank[r]]
                              /\ keys_below[last_bucket_by_rank[r] + 1] \in 0 .. TotalKeys
                              /\ keys_below[first_bucket_by_rank[r]] \in 0 .. TotalKeys
                              /\ IntervalKeys(r) \in 0 .. TotalKeys
         /\ ~HasInterval(r) => IsIdle(r) /\ IntervalKeys(r) = 0
  <1>t. TypeOK /\ keys_below \in Totals /\ r \in Slot
    BY ConstantFacts DEF IInv, TotalsInv
  <1>1. ASSUME HasInterval(r)
        PROVE  /\ IntervalKeys(r) = keys_below[last_bucket_by_rank[r] + 1]
                                                     - keys_below[first_bucket_by_rank[r]]
               /\ keys_below[last_bucket_by_rank[r] + 1] \in 0 .. TotalKeys
               /\ keys_below[first_bucket_by_rank[r]] \in 0 .. TotalKeys
               /\ IntervalKeys(r) \in 0 .. TotalKeys
    <2>1. IntervalKeys(r) = keys_below[last_bucket_by_rank[r] + 1]
                                                     - keys_below[first_bucket_by_rank[r]]
      BY <1>1 DEF HasInterval, IntervalKeys
    <2>2. /\ first_bucket_by_rank[r] \in 0 .. NumBuckets
          /\ last_bucket_by_rank[r] + 1 \in 0 .. NumBuckets
          /\ first_bucket_by_rank[r] <= last_bucket_by_rank[r] + 1
      <3>1. /\ first_bucket_by_rank[r] \in 0 .. NumBuckets
            /\ last_bucket_by_rank[r] \in 0 .. NumBuckets - 1
        BY <1>t DEF TypeOK
      <3>2. first_bucket_by_rank[r] <= last_bucket_by_rank[r]
        BY <1>1 DEF HasInterval
      <3> QED
        BY <3>1, <3>2, PlanAssumption
    <2>3. /\ keys_below[first_bucket_by_rank[r]] \in 0 .. TotalKeys
          /\ keys_below[last_bucket_by_rank[r] + 1] \in 0 .. TotalKeys
      BY <2>2, <1>t, TotalsFacts
    <2>4. keys_below[first_bucket_by_rank[r]] <= keys_below[last_bucket_by_rank[r] + 1]
      BY <2>2, <1>t, TotalsFacts
    <2>5. TotalKeys \in Int
      BY ConstantFacts
    <2>6. IntervalKeys(r) \in 0 .. TotalKeys
      BY <2>1, <2>3, <2>4, <2>5
    <2> QED
      BY <2>1, <2>3, <2>6
  <1>2. ASSUME ~HasInterval(r) PROVE IsIdle(r) /\ IntervalKeys(r) = 0
    <2>1. r < owner_rank
      BY PlanAssumption DEF IInv, SumInv, Rank
    <2> QED
      BY <2>1, <1>2 DEF IInv, PlanInv, IsIdle, IntervalKeys
  <1> QED
    BY <1>1, <1>2

LEMMA LesserStep == IInv /\ SumLesserRank => IInv'
  <1> SUFFICES ASSUME IInv, SumLesserRank PROVE IInv'
    OBVIOUS
  <1>u. /\ UNCHANGED <<my_rank, keys_below, arrays, loop, range, local_key_count>>
        /\ pc = "lesser" /\ pc' = "lesser" /\ rank < my_rank /\ rank' = rank + 1
        /\ lesser_key_count' = lesser_key_count + IntervalKeys(rank)
    BY DEF SumLesserRank
  <1>a. /\ first_bucket_by_rank' = first_bucket_by_rank /\ last_bucket_by_rank' = last_bucket_by_rank
        /\ keys_below' = keys_below /\ my_rank' = my_rank /\ owner_rank' = owner_rank
        /\ min_key_value' = min_key_value /\ max_key_value' = max_key_value
        /\ bucket' = bucket /\ bucket_to_rank' = bucket_to_rank
    BY <1>u DEF arrays, loop, range
  <1>i. /\ rank \in Int /\ my_rank \in Int /\ 0 <= rank /\ my_rank \in Rank
        /\ rank \in Rank /\ rank + 1 \in Rank /\ rank + 1 # 0 /\ (rank + 1) - 1 = rank
        /\ TotalKeys \in Nat /\ owner_rank = CommSize /\ rank + 1 < CommSize /\ rank < CommSize
    <2>1. /\ rank \in 0 .. CommSize /\ my_rank \in Rank /\ owner_rank = CommSize
      BY <1>u DEF IInv, TypeOK, SumInv
    <2>2. CommSize \in Int
      BY PlanAssumption
    <2> QED
      BY <2>1, <2>2, <1>u, ConstantFacts DEF Rank
  <1>p. PlanInv /\ SumInv /\ TypeOK
    BY DEF IInv
  <1>n. ~HasInterval(rank + 1) => IsIdle(rank + 1)
    BY <1>p, <1>i, <1>u DEF PlanInv
  <1>s. /\ HasInterval(rank) => lesser_key_count = keys_below[first_bucket_by_rank[rank]]
        /\ ~HasInterval(rank) => lesser_key_count = TotalKeys
    BY <1>p, <1>u DEF SumInv
  <1>1. /\ HasInterval(rank + 1) => lesser_key_count' = keys_below[first_bucket_by_rank[rank + 1]]
        /\ ~HasInterval(rank + 1) => lesser_key_count' = TotalKeys
        /\ lesser_key_count' \in 0 .. TotalKeys
    <2>1. CASE HasInterval(rank)
      <3>1. /\ lesser_key_count' = keys_below[last_bucket_by_rank[rank] + 1]
            /\ keys_below[last_bucket_by_rank[rank] + 1] \in 0 .. TotalKeys
        <4>1. /\ IntervalKeys(rank) = keys_below[last_bucket_by_rank[rank] + 1]
                                                     - keys_below[first_bucket_by_rank[rank]]
              /\ keys_below[last_bucket_by_rank[rank] + 1] \in 0 .. TotalKeys
              /\ keys_below[first_bucket_by_rank[rank]] \in 0 .. TotalKeys
          BY <1>u, <1>i, <2>1, SumOfInterval
        <4> QED
          BY <4>1, <2>1, <1>s, <1>u, <1>i
      <3>2. HasInterval(rank + 1) => first_bucket_by_rank[rank + 1] = last_bucket_by_rank[rank] + 1
        BY <1>i DEF HasInterval, StartOf
      <3>3. ~HasInterval(rank + 1) => keys_below[last_bucket_by_rank[rank] + 1] = TotalKeys
        BY <1>n, <1>p, <1>i, <1>u, <2>1 DEF PlanInv
      <3> QED
        BY <3>1, <3>2, <3>3
    <2>2. CASE ~HasInterval(rank)
      <3>1. IsIdle(rank) /\ IntervalKeys(rank) = 0
        BY <1>u, <1>i, <2>2, SumOfInterval
      <3>2. lesser_key_count' = TotalKeys
        BY <3>1, <2>2, <1>s, <1>u, <1>i
      <3>3. ~HasInterval(rank + 1)
        <4>1. IsIdle(rank + 1)
          BY <3>1, <1>p, <1>i, <1>u DEF PlanInv
        <4> QED
          BY <4>1, <1>i DEF IsIdle, HasInterval
      <3> QED
        BY <3>2, <3>3, <1>i
    <2> QED
      BY <2>1, <2>2
  <1>2. TypeOK'
    <2>1. rank' \in 0 .. CommSize
      BY <1>i, <1>u, PlanAssumption
    <2> QED
      BY <2>1, <1>1, <1>u, <1>p DEF TypeOK, arrays, loop, range
  <1>3. HasInterval(rank)' <=> HasInterval(rank + 1)
    BY <1>a, <1>u DEF HasInterval, StartOf
  <1>4. lesser_key_count' =
         IF HasInterval(rank)' THEN keys_below'[first_bucket_by_rank'[rank']] ELSE TotalKeys
    BY <1>1, <1>3, <1>a, <1>u
  <1>5. rank' <= my_rank'
    BY <1>i, <1>u
  <1>6. SumInv'
    BY <1>4, <1>5, <1>a, <1>u, <1>p DEF SumInv
  <1>7. TotalsInv' /\ ClearedInv' /\ AssignInv' /\ PlanInv'
    BY <1>u, PlanStays
  <1> QED
    BY <1>2, <1>6, <1>7 DEF IInv

LEMMA LocalStep == IInv /\ SumLocal => IInv'
  <1> SUFFICES ASSUME IInv, SumLocal PROVE IInv'
    OBVIOUS
  <1>u. /\ UNCHANGED <<my_rank, keys_below, arrays, loop, range, rank, lesser_key_count>>
        /\ pc = "lesser" /\ pc' = "ready" /\ rank >= my_rank
        /\ local_key_count' = IntervalKeys(my_rank)
    BY DEF SumLocal
  <1>p. SumInv /\ TypeOK /\ my_rank \in Rank
    BY DEF IInv, TypeOK
  <1>1. local_key_count' \in 0 .. TotalKeys
    BY <1>u, <1>p, SumOfInterval, ConstantFacts
  <1>2. TypeOK'
    BY <1>1, <1>u, <1>p DEF TypeOK, arrays, loop, range
  <1>3. rank = my_rank
    BY <1>u, <1>p DEF SumInv, TypeOK, Rank
  <1>4. SumInv'
    <2>1. HasInterval(rank)' <=> HasInterval(rank)
      BY <1>u DEF HasInterval, StartOf, arrays, loop
    <2>2. IntervalKeys(my_rank)' = IntervalKeys(my_rank)
      BY <1>u DEF IntervalKeys, arrays
    <2> QED
      BY <2>1, <2>2, <1>3, <1>u, <1>p DEF SumInv, arrays, loop, range
  <1>5. TotalsInv' /\ ClearedInv' /\ AssignInv' /\ PlanInv'
    BY <1>u, PlanStays
  <1> QED
    BY <1>2, <1>4, <1>5 DEF IInv

LEMMA IterationStep == IInv /\ NextIteration => IInv'
  BY ZenonT(40) DEF NextIteration, IInv, TypeOK, TotalsInv, ClearedInv, AssignInv, PlanInv, SumInv,
         arrays, loop, range, sums

LEMMA StutterStep == IInv /\ UNCHANGED vars => IInv'
  BY SMTT(30) DEF vars, IInv, TypeOK, TotalsInv, ClearedInv, AssignInv, PlanInv, SumInv, HasInterval, IsIdle,
         StartOf, Ordered, GlobalCount, IntervalKeys, arrays, loop, range, sums

-----------------------------------------------------------------------------
(* IInv holds in every state of the plan, whatever the number of ranks and *)
(* buckets and the distribution of the keys.                               *)
THEOREM Inductive == Spec => []IInv
  <1>1. IInv /\ [Next]_vars => IInv'
    BY OrganizeStep, ReduceStep, KeepStep, CloseStep, EndStep, IdleStep, RangeStep, LesserStep,
       LocalStep, IterationStep, StutterStep DEF Next
  <1> QED
    BY <1>1, InitInv, PTL DEF Spec

(* Every variable keeps its type: owner_rank stays at most comm_size, the  *)
(* metadata arrays are written inside their bounds and the sums fit.       *)
THEOREM TypeCorrect == Spec => []TypeOK
  <1>1. IInv => TypeOK
    BY DEF IInv
  <1> QED
    BY <1>1, Inductive, PTL

(* No key is routed to a rank that does not exist (KeysHaveOwner).         *)
THEOREM OwnerExists == Spec => []KeysHaveOwner
  <1>1. IInv => KeysHaveOwner
    <2> SUFFICES ASSUME IInv, Planned, NEW b \in Bucket, GlobalCount(b) > 0
                 PROVE  bucket_to_rank[b] \in Rank
      BY DEF KeysHaveOwner
    <2>1. bucket_to_rank[b] < CommSize
      BY DEF IInv, PlanInv, Planned
    <2>2. bucket_to_rank[b] \in 0 .. CommSize
      BY ConstantFacts DEF IInv, TypeOK
    <2> QED
      BY <2>1, <2>2, PlanAssumption DEF Rank
  <1> QED
    BY <1>1, Inductive, PTL

(* Comparing keys is comparing their buckets.                              *)
LEMMA KeyOrder ==
  ASSUME NEW b \in Nat, NEW c \in Nat, NEW k \in 0 .. KeysPerBucket - 1
  PROVE  /\ c * KeysPerBucket <= b * KeysPerBucket + k <=> c <= b
         /\ b * KeysPerBucket + k <= (c + 1) * KeysPerBucket - 1 <=> b <= c
  <1>1. ASSUME NEW i \in Nat, NEW j \in Nat, i <= j
        PROVE  i * KeysPerBucket <= j * KeysPerBucket
    <2>1. PICK d \in Nat : j = i + d
      BY <1>1, SMT
    <2>2. j * KeysPerBucket = i * KeysPerBucket + d * KeysPerBucket /\ d * KeysPerBucket \in Nat
      BY <2>1, PlanAssumption
    <2> QED
      BY <2>2, PlanAssumption
  <1>2. /\ b * KeysPerBucket \in Nat /\ c * KeysPerBucket \in Nat
        /\ (b + 1) * KeysPerBucket = b * KeysPerBucket + KeysPerBucket
        /\ (c + 1) * KeysPerBucket = c * KeysPerBucket + KeysPerBucket
        /\ b + 1 \in Nat /\ c + 1 \in Nat
    BY PlanAssumption
  <1>3. CASE b < c
    <2>1. (b + 1) * KeysPerBucket <= c * KeysPerBucket
      BY <1>1, <1>2, <1>3
    <2> QED
      BY <2>1, <1>2, <1>3, PlanAssumption
  <1>4. CASE b > c
    <2>1. (c + 1) * KeysPerBucket <= b * KeysPerBucket
      BY <1>1, <1>2, <1>4
    <2> QED
      BY <2>1, <1>2, <1>4, PlanAssumption
  <1>5. CASE b = c
    BY <1>2, <1>5, PlanAssumption
  <1> QED
    BY <1>3, <1>4, <1>5

(* The finished plan of my_rank.                                           *)
LEMMA PlannedFacts ==
  ASSUME IInv, Planned
  PROVE  /\ TypeOK /\ PlanInv /\ SumInv /\ keys_below \in Totals
         /\ my_rank \in Rank /\ my_rank \in Slot /\ my_rank < owner_rank /\ rank = my_rank
         /\ bucket = NumBuckets /\ 0 .. bucket - 1 = Bucket
         /\ HasInterval(my_rank) \/ IsIdle(my_rank)
         /\ first_bucket_by_rank[my_rank] \in 0 .. NumBuckets
         /\ last_bucket_by_rank[my_rank] \in 0 .. NumBuckets - 1
         /\ local_key_count = IntervalKeys(my_rank)
  <1>1. TypeOK /\ PlanInv /\ SumInv /\ keys_below \in Totals /\ my_rank \in Rank
    BY DEF IInv, Planned, TotalsInv, TypeOK
  <1>2. my_rank \in Slot /\ my_rank < owner_rank
    BY <1>1, ConstantFacts, PlanAssumption DEF SumInv, Planned, Rank
  <1>3. bucket = NumBuckets /\ (HasInterval(my_rank) \/ IsIdle(my_rank))
    BY <1>1, <1>2 DEF PlanInv, Planned
  <1>4. rank = my_rank /\ local_key_count = IntervalKeys(my_rank)
    BY <1>1 DEF SumInv, Planned
  <1>5. /\ first_bucket_by_rank[my_rank] \in 0 .. NumBuckets
        /\ last_bucket_by_rank[my_rank] \in 0 .. NumBuckets - 1
    BY <1>1, <1>2 DEF TypeOK
  <1> QED
    BY <1>1, <1>2, <1>3, <1>4, <1>5 DEF Bucket

(* The expected count is the number of keys routed to the rank, so that    *)
(* the redistribution's wait loop ends with the last of them               *)
(* (ExpectedIsRouted).                                                     *)
THEOREM ExpectedCount == Spec => []ExpectedIsRouted
  <1>1. ASSUME IInv, Planned
        PROVE  \E lo, hi \in 0 .. NumBuckets :
                 /\ lo <= hi
                 /\ \A b \in Bucket : bucket_to_rank[b] = my_rank <=> b \in lo .. hi - 1
                 /\ expected_recv_count = keys_below[hi] - keys_below[lo]
                 /\ local_key_count = expected_recv_count
    <2> DEFINE f == first_bucket_by_rank[my_rank]
               l == last_bucket_by_rank[my_rank]
    <2>f. /\ PlanInv /\ keys_below \in Totals /\ my_rank < owner_rank /\ 0 .. bucket - 1 = Bucket
          /\ HasInterval(my_rank) \/ IsIdle(my_rank)
          /\ f \in 0 .. NumBuckets /\ l \in 0 .. NumBuckets - 1
          /\ local_key_count = IntervalKeys(my_rank)
      BY <1>1, PlannedFacts
    <2>n. NumBuckets \in Nat
      BY PlanAssumption
    <2>e. expected_recv_count = IF HasInterval(my_rank) THEN keys_below[l + 1] - keys_below[f] ELSE 0
      BY <1>1, <2>f DEF PlanInv, Planned
    <2>1. CASE HasInterval(my_rank)
      <3>1. f <= l /\ \A b \in Bucket : bucket_to_rank[b] = my_rank <=> b \in f .. l
        BY <2>1, <2>f DEF HasInterval
      <3>2. local_key_count = keys_below[l + 1] - keys_below[f]
        BY <3>1, <2>f DEF IntervalKeys
      <3>3. l + 1 \in 0 .. NumBuckets /\ (l + 1) - 1 = l /\ f <= l + 1
        BY <3>1, <2>f, <2>n
      <3> HIDE DEF f, l
      <3> QED
        BY <3>1, <3>2, <3>3, <2>1, <2>e, <2>f
    <2>2. CASE ~HasInterval(my_rank)
      <3>1. IsIdle(my_rank) /\ expected_recv_count = 0 /\ local_key_count = 0
        BY <2>2, <2>f, <2>e DEF IsIdle, IntervalKeys
      <3>2. 0 \in 0 .. NumBuckets /\ keys_below[0] - keys_below[0] = 0
        BY <2>f, <2>n, TotalsFacts
      <3>3. 0 .. 0 - 1 = {}
        OBVIOUS
      <3> QED
        BY <3>1, <3>2, <3>3 DEF IsIdle
    <2> QED
      BY <2>1, <2>2
  <1>2. IInv => ExpectedIsRouted
    BY <1>1 DEF ExpectedIsRouted
  <1> QED
    BY <1>2, Inductive, PTL

(* The key range cleared for a rank holds exactly the keys routed to it    *)
(* (RangeIsRouted).                                                        *)
THEOREM KeyRange == Spec => []RangeIsRouted
  <1>1. ASSUME IInv, Planned, NEW b \in Bucket, NEW k \in 0 .. KeysPerBucket - 1
        PROVE  (min_key_value <= b * KeysPerBucket + k /\ b * KeysPerBucket + k <= max_key_value)
                 <=> bucket_to_rank[b] = my_rank
    <2> DEFINE f == first_bucket_by_rank[my_rank]
               l == last_bucket_by_rank[my_rank]
    <2>f. /\ HasInterval(my_rank) \/ IsIdle(my_rank)
          /\ f \in Nat /\ l \in Nat /\ b \in Nat
          /\ min_key_value = f * KeysPerBucket
          /\ max_key_value = (l + 1) * KeysPerBucket - 1
          /\ b \in 0 .. bucket - 1
      BY <1>1, PlannedFacts, PlanAssumption DEF SumInv, Planned, Bucket
    <2>1. /\ min_key_value <= b * KeysPerBucket + k <=> f <= b
          /\ b * KeysPerBucket + k <= max_key_value <=> b <= l
      <3> HIDE DEF f, l
      <3> QED
        BY <2>f, KeyOrder
    <2>2. CASE HasInterval(my_rank)
      BY <2>1, <2>2, <2>f DEF HasInterval
    <2>3. CASE IsIdle(my_rank)
      BY <2>1, <2>3, <2>f DEF IsIdle
    <2> QED
      BY <2>2, <2>3, <2>f
  <1>2. IInv => RangeIsRouted
    BY <1>1 DEF RangeIsRouted
  <1> QED
    BY <1>2, Inductive, PTL

(* The keys counted as lesser are those of the ranks before my_rank, all   *)
(* of them in smaller buckets (LesserIsLesserRanks).                       *)
THEOREM LesserCount == Spec => []LesserIsLesserRanks
  <1>1. ASSUME IInv, Planned
        PROVE  \E n \in 0 .. NumBuckets :
                 /\ \A b \in Bucket : GlobalCount(b) > 0 => (bucket_to_rank[b] < my_rank <=> b < n)
                 /\ \A b \in Bucket : bucket_to_rank[b] = my_rank => b >= n
                 /\ lesser_key_count = keys_below[n]
    <2> DEFINE f == first_bucket_by_rank[my_rank]
               l == last_bucket_by_rank[my_rank]
    <2>f. /\ PlanInv /\ TypeOK /\ keys_below[NumBuckets] = TotalKeys
          /\ my_rank \in Rank /\ my_rank < owner_rank /\ 0 .. bucket - 1 = Bucket
          /\ HasInterval(my_rank) \/ IsIdle(my_rank)
          /\ f \in 0 .. NumBuckets /\ l \in 0 .. NumBuckets - 1
          /\ lesser_key_count = IF HasInterval(my_rank) THEN keys_below[f] ELSE TotalKeys
          /\ owner_rank = CommSize
      BY <1>1, PlannedFacts, TotalsFacts DEF SumInv, Planned
    <2>i. /\ my_rank \in Int /\ CommSize \in Int /\ NumBuckets \in Nat
          /\ \A b \in Bucket : b \in Int /\ 0 <= b /\ b < NumBuckets /\ bucket_to_rank[b] \in 0 .. CommSize
          /\ \A r \in Int : r \in Rank <=> 0 <= r /\ r < CommSize
      <3>1. my_rank \in Int /\ CommSize \in Int /\ NumBuckets \in Nat
        BY <2>f, PlanAssumption DEF Rank
      <3>2. \A b \in Bucket : b \in Int /\ 0 <= b /\ b < NumBuckets
        BY <3>1 DEF Bucket
      <3>3. \A b \in Bucket : bucket_to_rank[b] \in 0 .. CommSize
        BY <2>f, ConstantFacts DEF TypeOK
      <3>4. \A r \in Int : r \in Rank <=> 0 <= r /\ r < CommSize
        BY <3>1 DEF Rank
      <3> QED
        BY <3>1, <3>2, <3>3, <3>4
    <2>p. /\ \A b \in Bucket : GlobalCount(b) > 0 => bucket_to_rank[b] < CommSize
          /\ \A b, c \in Bucket : b <= c => bucket_to_rank[b] <= bucket_to_rank[c]
      BY <1>1, <2>f DEF PlanInv, Planned, Ordered
    <2>1. CASE HasInterval(my_rank)
      <3>1. f <= l /\ f \in Bucket /\ \A b \in Bucket : bucket_to_rank[b] = my_rank <=> b \in f .. l
        <4>1. f <= l /\ \A b \in Bucket : bucket_to_rank[b] = my_rank <=> b \in f .. l
          BY <2>1, <2>f DEF HasInterval
        <4>2. f \in Bucket
          BY <4>1, <2>f, <2>i DEF Bucket
        <4> QED
          BY <4>1, <4>2
      <3>2. bucket_to_rank[f] = my_rank
        BY <3>1, <2>i
      <3>3. ASSUME NEW b \in Bucket PROVE bucket_to_rank[b] < my_rank <=> b < f
        <4>1. CASE b < f
          <5>1. bucket_to_rank[b] <= my_rank /\ bucket_to_rank[b] # my_rank
            BY <4>1, <3>1, <3>2, <2>p, <2>i
          <5> QED
            BY <5>1, <4>1, <2>i
        <4>2. CASE f <= b
          <5>1. my_rank <= bucket_to_rank[b]
            BY <4>2, <3>1, <3>2, <2>p, <2>i
          <5> QED
            BY <5>1, <4>2, <2>i, <3>1
        <4> QED
          BY <4>1, <4>2, <2>i, <3>1
      <3>4. \A b \in Bucket : bucket_to_rank[b] = my_rank => b >= f
        BY <3>1, <2>i
      <3> HIDE DEF f, l
      <3> QED
        BY <3>3, <3>4, <2>f, <2>1
    <2>2. CASE ~HasInterval(my_rank)
      <3>1. IsIdle(my_rank) /\ lesser_key_count = keys_below[NumBuckets]
        BY <2>2, <2>f
      <3>2. ASSUME NEW b \in Bucket, GlobalCount(b) > 0 PROVE bucket_to_rank[b] < my_rank
        <4>1. bucket_to_rank[b] \in Rank /\ bucket_to_rank[b] # my_rank
          BY <3>1, <3>2, <2>p, <2>i DEF IsIdle
        <4>2. ASSUME my_rank < bucket_to_rank[b] PROVE FALSE
          <5>1. IsIdle(bucket_to_rank[b])
            BY <4>1, <4>2, <3>1, <2>f, <2>i, <1>1 DEF PlanInv, Planned
          <5> QED
            BY <5>1 DEF IsIdle
        <4> QED
          BY <4>1, <4>2, <2>i
      <3>3. \A b \in Bucket : b < NumBuckets /\ bucket_to_rank[b] # my_rank
        BY <3>1, <2>i DEF IsIdle
      <3>4. NumBuckets \in 0 .. NumBuckets
        BY <2>i
      <3> QED
        BY <3>1, <3>2, <3>3, <3>4
    <2> QED
      BY <2>1, <2>2
  <1>2. IInv => LesserIsLesserRanks
    BY <1>1 DEF LesserIsLesserRanks
  <1> QED
    BY <1>2, Inductive, PTL

(* A rank is given less than one bucket more than its share (LoadBalanced). *)
THEOREM Balance == Spec => []LoadBalanced
  <1>1. ASSUME IInv, Planned, expected_recv_count > 0
        PROVE  expected_recv_count < AverageKeys + GlobalCount(last_bucket_by_rank[my_rank])
    <2> DEFINE f == first_bucket_by_rank[my_rank]
               l == last_bucket_by_rank[my_rank]
    <2>f. /\ PlanInv /\ TypeOK /\ keys_below \in Totals
          /\ my_rank \in Rank /\ my_rank < owner_rank
          /\ f \in 0 .. NumBuckets /\ l \in 0 .. NumBuckets - 1
      BY <1>1, PlannedFacts
    <2>n. NumBuckets \in Nat /\ AverageKeys \in Nat \ {0} /\ TotalKeys \in Int /\ my_rank \in Nat
      BY <2>f, PlanAssumption, ConstantFacts DEF Rank
    <2>e. HasInterval(my_rank) /\ expected_recv_count = keys_below[l + 1] - keys_below[f]
      BY <1>1, <2>f DEF PlanInv, Planned
    <2>h. /\ my_rank * AverageKeys <= keys_below[f]
          /\ f = l \/ keys_below[l] < (my_rank + 1) * AverageKeys
      BY <2>e DEF HasInterval
    <2>q. /\ my_rank * AverageKeys \in Int
          /\ (my_rank + 1) * AverageKeys = my_rank * AverageKeys + AverageKeys
      BY <2>n, QuotaMonotone
    <2>t. keys_below[l + 1] \in 0 .. TotalKeys /\ keys_below[l] \in 0 .. TotalKeys /\ keys_below[f] \in 0 .. TotalKeys
      <3>1. l + 1 \in 0 .. NumBuckets /\ l \in 0 .. NumBuckets
        BY <2>f, <2>n
      <3> QED
        BY <3>1, <2>f, TotalsFacts
    <2>g. GlobalCount(l) = keys_below[l + 1] - keys_below[l]
      BY DEF GlobalCount
    <2> HIDE DEF f, l
    <2>1. ASSUME f = l PROVE expected_recv_count < AverageKeys + GlobalCount(l)
      BY <2>1, <2>e, <2>g, <2>t, <2>n
    <2>2. ASSUME f # l PROVE expected_recv_count < AverageKeys + GlobalCount(l)
      BY <2>2, <2>e, <2>g, <2>h, <2>q, <2>t, <2>n
    <2>3. expected_recv_count < AverageKeys + GlobalCount(l)
      BY <2>1, <2>2
    <2> QED
      BY <2>3 DEF l
  <1>2. IInv => LoadBalanced
    BY <1>1 DEF LoadBalanced
  <1> QED
    BY <1>2, Inductive, PTL
=============================================================================
