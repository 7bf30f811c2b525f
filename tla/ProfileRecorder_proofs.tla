------------------------ MODULE ProfileRecorder_proofs ------------------------
(***************************************************************************)
(* Proofs about ProfileRecorder: its inductive invariant, and that the     *)
(* counters, the profile an application asks for and the rows written at   *)
(* the end of a phase are what the measured operations come to.            *)
(***************************************************************************)
EXTENDS ProfileRecorderInv, FiniteSetTheorems, SequenceTheorems, TLAPS

-----------------------------------------------------------------------------
(* What a set of operations comes to.                                      *)

(* What one operation adds to a counter.                                   *)
By(counter, e) == IF counter = "calls" THEN 1 ELSE record_count[e.message]

(* The values of finitely many operations are finitely many.               *)
LEMMA ValuesFinite ==
  ASSUME NEW S, S \subseteq Owner, IsFiniteSet(S)
  PROVE  IsFiniteSet(ValuesOfAll(S))
<1> DEFINE V(e) == {e} \X (1 .. record_count[e.message])
           T == {V(e) : e \in S}
           g == [e \in S |-> V(e)]
<1>1. g \in Surjection(S, T)
  BY DEF Surjection
<1>2. IsFiniteSet(T)
  BY <1>1, FS_Surjection
<1>3. ASSUME NEW e \in S PROVE IsFiniteSet(V(e))
  <2>1. record_count[e.message] \in Int
    BY RecorderAssumption DEF Owner
  <2>2. IsFiniteSet(1 .. record_count[e.message])
    BY <2>1, FS_Interval
  <2>3. IsFiniteSet({e})
    BY FS_Singleton
  <2> QED BY <2>2, <2>3, FS_Product
<1>4. IsFiniteSet(UNION T)
  BY <1>2, <1>3, FS_UNION
<1> QED BY <1>4 DEF ValuesOfAll

(* A tally is a number.                                                    *)
LEMMA TallyType ==
  ASSUME NEW S, S \subseteq Owner, IsFiniteSet(S), NEW c
  PROVE  Tally(c, S) \in Nat
BY ValuesFinite, FS_CardinalityType DEF Tally

(* Nothing comes to nothing.                                               *)
LEMMA TallyEmpty ==
  ASSUME NEW c
  PROVE  Tally(c, {}) = 0
<1>1. ValuesOfAll({}) = {}
  BY DEF ValuesOfAll
<1> QED BY <1>1, FS_EmptySet DEF Tally

(* The tallies of two sets of different operations add up.                 *)
LEMMA TallySplit ==
  ASSUME NEW S, S \subseteq Owner, IsFiniteSet(S),
         NEW T, T \subseteq Owner, IsFiniteSet(T), S \cap T = {}, NEW c
  PROVE  Tally(c, S \cup T) = Tally(c, S) + Tally(c, T)
<1>1. ValuesOfAll(S \cup T) = ValuesOfAll(S) \cup ValuesOfAll(T)
  BY DEF ValuesOfAll
<1>2. ValuesOfAll(S) \cap ValuesOfAll(T) = {}
  <2> SUFFICES ASSUME NEW v \in ValuesOfAll(S), v \in ValuesOfAll(T) PROVE FALSE
    OBVIOUS
  <2>1. PICK d \in S : v \in {d} \X (1 .. record_count[d.message])
    BY DEF ValuesOfAll
  <2>2. PICK e \in T : v \in {e} \X (1 .. record_count[e.message])
    BY DEF ValuesOfAll
  <2>3. d = e
    BY <2>1, <2>2
  <2> QED BY <2>3
<1>3. IsFiniteSet(ValuesOfAll(S)) /\ IsFiniteSet(ValuesOfAll(T))
  BY ValuesFinite
<1>4. /\ Cardinality(ValuesOfAll(S)) \in Nat
      /\ Cardinality(ValuesOfAll(T)) \in Nat
      /\ Cardinality(S) \in Nat
      /\ Cardinality(T) \in Nat
  BY <1>3, FS_CardinalityType
<1>5. /\ Cardinality(ValuesOfAll(S) \cup ValuesOfAll(T)) =
           Cardinality(ValuesOfAll(S)) + Cardinality(ValuesOfAll(T))
             - Cardinality(ValuesOfAll(S) \cap ValuesOfAll(T))
      /\ Cardinality(S \cup T) = Cardinality(S) + Cardinality(T) - Cardinality(S \cap T)
  BY <1>3, FS_Union
<1>6. /\ Cardinality(ValuesOfAll(S) \cap ValuesOfAll(T)) = 0
      /\ Cardinality(S \cap T) = 0
  BY <1>2, FS_EmptySet, Zenon
<1>7. Cardinality(ValuesOfAll(S \cup T)) =
        Cardinality(ValuesOfAll(S)) + Cardinality(ValuesOfAll(T))
  <2>1. Cardinality(ValuesOfAll(S) \cup ValuesOfAll(T)) =
          Cardinality(ValuesOfAll(S)) + Cardinality(ValuesOfAll(T))
    BY ONLY <1>4, <1>5, <1>6
  <2> QED BY ONLY <1>1, <2>1, Zenon
<1>8. Cardinality(S \cup T) = Cardinality(S) + Cardinality(T)
  BY ONLY <1>4, <1>5, <1>6
<1> QED BY <1>7, <1>8 DEF Tally

(* One more operation.                                                     *)
LEMMA TallyAdd ==
  ASSUME NEW S, S \subseteq Owner, IsFiniteSet(S), NEW e \in Owner, e \notin S, NEW c
  PROVE  Tally(c, S \cup {e}) = Tally(c, S) + By(c, e)
<1>1. IsFiniteSet({e}) /\ Cardinality({e}) = 1
  BY FS_Singleton
<1>2. Tally(c, S \cup {e}) = Tally(c, S) + Tally(c, {e})
  <2>1. {e} \subseteq Owner /\ S \cap {e} = {}
    OBVIOUS
  <2> QED BY <1>1, <2>1, TallySplit
<1>3. record_count[e.message] \in Nat
  BY RecorderAssumption DEF Owner
<1>4. ValuesOfAll({e}) = {e} \X (1 .. record_count[e.message])
  BY DEF ValuesOfAll
<1>5. Cardinality(ValuesOfAll({e})) = record_count[e.message]
  <2>1. PICK n \in Nat : n = record_count[e.message]
    BY <1>3
  <2>2. IsFiniteSet(1 .. n) /\ Cardinality(1 .. n) = n
    <3>1. 1 \in Int /\ n \in Int
      OBVIOUS
    <3>2. /\ IsFiniteSet(1 .. n)
          /\ Cardinality(1 .. n) = IF 1 > n THEN 0 ELSE n - 1 + 1
      BY ONLY <3>1, FS_Interval
    <3>3. (IF 1 > n THEN 0 ELSE n - 1 + 1) = n
      OBVIOUS
    <3> QED BY ONLY <3>2, <3>3
  <2>3. Cardinality({e} \X (1 .. n)) = Cardinality({e}) * Cardinality(1 .. n)
    BY ONLY <1>1, <2>2, FS_Product
  <2>4. Cardinality({e} \X (1 .. n)) = n
    BY ONLY <1>1, <2>2, <2>3
  <2> QED BY ONLY <1>4, <2>1, <2>4
<1>6. Tally(c, {e}) = By(c, e)
  BY <1>1, <1>5 DEF Tally, By
<1> QED BY <1>2, <1>6

(* More operations come to no less.                                        *)
LEMMA TallyMono ==
  ASSUME NEW T, T \subseteq Owner, IsFiniteSet(T), NEW S, S \subseteq T, NEW c
  PROVE  Tally(c, S) <= Tally(c, T)
<1>1. ValuesOfAll(S) \subseteq ValuesOfAll(T)
  BY DEF ValuesOfAll
<1>2. IsFiniteSet(ValuesOfAll(T))
  BY ValuesFinite
<1>3. Cardinality(ValuesOfAll(S)) <= Cardinality(ValuesOfAll(T))
  BY <1>1, <1>2, FS_Subset
<1>4. Cardinality(S) <= Cardinality(T)
  BY FS_Subset
<1> QED BY <1>3, <1>4 DEF Tally

-----------------------------------------------------------------------------
(* What a measured operation adds.                                         *)

(* The scopes are the aggregate and the workers.                           *)
LEMMA ScopeIs ==
  /\ Scope = Worker \cup {Aggregate}
  /\ Aggregate \notin Worker
  /\ Aggregate = NoWorker
BY RecorderAssumption DEF Scope, Worker, Aggregate, NoWorker

(* The operations, one by one.                                             *)
LEMMA OperationIs ==
  Operation = {"flush", "progress", "remote_receive", "loopback_receive"}
<1>1. /\ Operations[1] = "flush" /\ Operations[2] = "progress"
      /\ Operations[3] = "remote_receive" /\ Operations[4] = "loopback_receive"
      /\ Len(Operations) = 4
  BY DEF Operations
<1> QED BY <1>1 DEF Operation

SameKey(a, b) ==
  /\ a.scope = b.scope
  /\ a.operation = b.operation
  /\ a.counter = b.counter

Receiving(e) == e.operation \in Receives

(* One addition of the operation e: to a counter of its scope, or to the   *)
(* count of received values.                                               *)
AdditionOf(a, e) ==
  \/ /\ a.counter \in Counter
     /\ a.operation = e.operation
     /\ a.scope \in Scope
     /\ e.worker \in Within(a.scope)
     /\ a.by = By(a.counter, e)
     /\ enabled
  \/ /\ a.counter = "recv_count"
     /\ a.operation = "receive"
     /\ a.scope = Aggregate
     /\ a.by = By("records", e)
     /\ Receiving(e)

AdditionsOf(F, e) ==
  /\ F \in Seq(Addition)
  /\ Len(F) \in 0 .. 5
  /\ \A i, j \in 1 .. Len(F) : SameKey(F[i], F[j]) => i = j
  /\ \A i \in 1 .. Len(F) : AdditionOf(F[i], e)
  /\ enabled => \A s \in Scope, c \in Counter : e.worker \in Within(s) =>
       \E i \in 1 .. Len(F) :
         F[i].scope = s /\ F[i].operation = e.operation /\ F[i].counter = c
  /\ Receiving(e) =>
       /\ Len(F) # 0
       /\ F[Len(F)].scope = Aggregate
       /\ F[Len(F)].operation = "receive"
       /\ F[Len(F)].counter = "recv_count"

(* Two sequences written out, one after the other: of two and of one.      *)
LEMMA ThreeInARow ==
  ASSUME NEW S, NEW a \in S, NEW b \in S, NEW c \in S
  PROVE  <<a, b>> \o <<c>> = <<a, b, c>>
<1>1. <<a, b>> \in Seq(S) /\ <<c>> \in Seq(S) /\ <<a, b, c>> \in Seq(S)
  OBVIOUS
<1>2. /\ <<a, b>> \o <<c>> \in Seq(S)
      /\ Len(<<a, b>> \o <<c>>) = 3
      /\ \A i \in 1 .. 3 : (<<a, b>> \o <<c>>)[i] =
           IF i <= 2 THEN <<a, b>>[i] ELSE <<c>>[i - 2]
  <2>1. Len(<<a, b>>) = 2 /\ Len(<<c>>) = 1
    OBVIOUS
  <2> QED BY <1>1, <2>1, ConcatProperties
<1>3. \A i \in 1 .. 3 : (<<a, b>> \o <<c>>)[i] = <<a, b, c>>[i]
  <2> SUFFICES ASSUME NEW i \in 1 .. 3
               PROVE  (<<a, b>> \o <<c>>)[i] = <<a, b, c>>[i]
    OBVIOUS
  <2>1. CASE i = 1 BY <2>1, <1>2
  <2>2. CASE i = 2 BY <2>2, <1>2
  <2>3. CASE i = 3 BY <2>3, <1>2
  <2> QED BY <2>1, <2>2, <2>3
<1> QED BY <1>1, <1>2, <1>3, SeqEqual

(* The same of two and two.                                                *)
LEMMA FourInARow ==
  ASSUME NEW S, NEW a \in S, NEW b \in S, NEW c \in S, NEW d \in S
  PROVE  <<a, b>> \o <<c, d>> = <<a, b, c, d>>
<1>1. <<a, b>> \in Seq(S) /\ <<c, d>> \in Seq(S) /\ <<a, b, c, d>> \in Seq(S)
  OBVIOUS
<1>2. /\ <<a, b>> \o <<c, d>> \in Seq(S)
      /\ Len(<<a, b>> \o <<c, d>>) = 4
      /\ \A i \in 1 .. 4 : (<<a, b>> \o <<c, d>>)[i] =
           IF i <= 2 THEN <<a, b>>[i] ELSE <<c, d>>[i - 2]
  <2>1. Len(<<a, b>>) = 2 /\ Len(<<c, d>>) = 2
    OBVIOUS
  <2> QED BY <1>1, <2>1, ConcatProperties
<1>3. \A i \in 1 .. 4 : (<<a, b>> \o <<c, d>>)[i] = <<a, b, c, d>>[i]
  <2> SUFFICES ASSUME NEW i \in 1 .. 4
               PROVE  (<<a, b>> \o <<c, d>>)[i] = <<a, b, c, d>>[i]
    OBVIOUS
  <2>1. CASE i = 1 BY <2>1, <1>2
  <2>2. CASE i = 2 BY <2>2, <1>2
  <2>3. CASE i = 3 BY <2>3, <1>2
  <2>4. CASE i = 4 BY <2>4, <1>2
  <2> QED BY <2>1, <2>2, <2>3, <2>4
<1> QED BY <1>1, <1>2, <1>3, SeqEqual

(* The same of four and one.                                               *)
LEMMA FiveInARow ==
  ASSUME NEW S, NEW a \in S, NEW b \in S, NEW c \in S, NEW d \in S, NEW e \in S
  PROVE  <<a, b, c, d>> \o <<e>> = <<a, b, c, d, e>>
<1>1. <<a, b, c, d>> \in Seq(S) /\ <<e>> \in Seq(S) /\ <<a, b, c, d, e>> \in Seq(S)
  OBVIOUS
<1>2. /\ <<a, b, c, d>> \o <<e>> \in Seq(S)
      /\ Len(<<a, b, c, d>> \o <<e>>) = 5
      /\ \A i \in 1 .. 5 : (<<a, b, c, d>> \o <<e>>)[i] =
           IF i <= 4 THEN <<a, b, c, d>>[i] ELSE <<e>>[i - 4]
  <2>1. Len(<<a, b, c, d>>) = 4 /\ Len(<<e>>) = 1
    OBVIOUS
  <2> QED BY <1>1, <2>1, ConcatProperties
<1>3. \A i \in 1 .. 5 : (<<a, b, c, d>> \o <<e>>)[i] = <<a, b, c, d, e>>[i]
  <2> SUFFICES ASSUME NEW i \in 1 .. 5
               PROVE  (<<a, b, c, d>> \o <<e>>)[i] = <<a, b, c, d, e>>[i]
    OBVIOUS
  <2>1. CASE i = 1 BY <2>1, <1>2
  <2>2. CASE i = 2 BY <2>2, <1>2
  <2>3. CASE i = 3 BY <2>3, <1>2
  <2>4. CASE i = 4 BY <2>4, <1>2
  <2>5. CASE i = 5 BY <2>5, <1>2
  <2> QED BY <2>1, <2>2, <2>3, <2>4, <2>5
<1> QED BY <1>1, <1>2, <1>3, SeqEqual

(* The additions of an operation that record() and receive_message_impl()  *)
(* make, each to another counter, are all that its worker, the aggregate   *)
(* and the count are owed.                                                 *)
LEMMA FullShape ==
  ASSUME NEW e \in Owner
  PROVE  AdditionsOf(Full(e), e)
<1> DEFINE n == record_count[e.message]
           o == e.operation
           w == e.worker
           A1 == Add(Aggregate, o, "calls", 1)
           A2 == Add(Aggregate, o, "records", n)
           A3 == Add(w, o, "calls", 1)
           A4 == Add(w, o, "records", n)
           A5 == Add(Aggregate, "receive", "recv_count", n)
<1>1. /\ n \in Nat
      /\ o \in {"flush"} \cup Receives
      /\ w \in Scope
      /\ o \in Operation
  BY RecorderAssumption, OperationIs DEF Owner, Receives
<1>2. A1 \in Addition /\ A2 \in Addition /\ A5 \in Addition /\ A3 \in Addition /\ A4 \in Addition
  BY <1>1, ScopeIs DEF Addition, Add, Counter
<1>3. /\ w \in Within(Aggregate)
      /\ \A s \in Scope : w \in Within(s) => s = Aggregate \/ (s = w /\ w \in Worker)
      /\ w \in Worker => w \in Within(w) /\ w # Aggregate
  BY <1>1, ScopeIs DEF Within
<1>4. /\ enabled => AdditionOf(A1, e) /\ AdditionOf(A2, e)
      /\ enabled /\ w \in Worker => AdditionOf(A3, e) /\ AdditionOf(A4, e)
      /\ Receiving(e) => AdditionOf(A5, e)
  BY <1>1, <1>3, ScopeIs DEF AdditionOf, Add, Counter, By, Receiving
<1>5. Receiving(e) <=> o # "flush"
  BY <1>1 DEF Receiving, Receives
<1>6. /\ ~SameKey(A1, A2) /\ ~SameKey(A1, A5) /\ ~SameKey(A2, A5)
      /\ ~SameKey(A2, A1) /\ ~SameKey(A5, A1) /\ ~SameKey(A5, A2)
      /\ w \in Worker =>
           /\ ~SameKey(A3, A4) /\ ~SameKey(A3, A1) /\ ~SameKey(A3, A2) /\ ~SameKey(A3, A5)
           /\ ~SameKey(A4, A3) /\ ~SameKey(A4, A1) /\ ~SameKey(A4, A2) /\ ~SameKey(A4, A5)
           /\ ~SameKey(A1, A3) /\ ~SameKey(A1, A4) /\ ~SameKey(A2, A3) /\ ~SameKey(A2, A4)
           /\ ~SameKey(A5, A3) /\ ~SameKey(A5, A4)
  BY <1>3 DEF SameKey, Add
<1>7. /\ A1.scope = Aggregate /\ A1.operation = o /\ A1.counter = "calls"
      /\ A2.scope = Aggregate /\ A2.operation = o /\ A2.counter = "records"
      /\ A3.scope = w /\ A3.operation = o /\ A3.counter = "calls"
      /\ A4.scope = w /\ A4.operation = o /\ A4.counter = "records"
      /\ A5.scope = Aggregate /\ A5.operation = "receive" /\ A5.counter = "recv_count"
  BY DEF Add
<1> HIDE DEF n, o, w, A1, A2, A3, A4, A5
<1>8. CASE ~enabled /\ o = "flush"
  <2>1. Full(e) = << >>
    BY <1>8 DEF Full, Additions, o, w, n
  <2> QED BY <1>8, <1>5, <2>1 DEF AdditionsOf
<1>9. CASE ~enabled /\ o # "flush"
  <2>1. Full(e) = << >> \o <<A5>>
    BY <1>9 DEF Full, ReceiveSteps, Additions, Count, o, w, n, A5
  <2>2. Full(e) = <<A5>>
    BY <2>1
  <2> QED BY <1>9, <1>2, <1>4, <1>5, <1>7, <2>2 DEF AdditionsOf
<1>10. CASE enabled /\ o = "flush" /\ w \notin Worker
  <2>1. Full(e) = <<A1, A2>> \o << >>
    BY <1>10 DEF Full, Additions, AddOperation, o, w, n, A1, A2
  <2>2. Full(e) = <<A1, A2>>
    BY <2>1
  <2> QED BY <1>10, <1>2, <1>3, <1>4, <1>5, <1>6, <1>7, <2>2 DEF AdditionsOf, Counter, w, o
<1>11. CASE enabled /\ o = "flush" /\ w \in Worker
  <2>1. Full(e) = <<A1, A2>> \o <<A3, A4>>
    BY <1>11 DEF Full, Additions, AddOperation, o, w, n, A1, A2, A3, A4
  <2>2. Full(e) = <<A1, A2, A3, A4>>
    BY ONLY <1>2, <2>1, FourInARow
  <2> QED BY <1>11, <1>2, <1>3, <1>4, <1>5, <1>6, <1>7, <2>2 DEF AdditionsOf, Counter, w, o
<1>12. CASE enabled /\ o # "flush" /\ w \notin Worker
  <2>1. Full(e) = (<<A1, A2>> \o << >>) \o <<A5>>
    BY <1>12 DEF Full, ReceiveSteps, Count, Additions, AddOperation, o, w, n, A1, A2, A5
  <2>2. Full(e) = <<A1, A2, A5>>
    <3>1. <<A1, A2>> \in Seq(Addition)
      BY <1>2
    <3>2. <<A1, A2>> \o << >> = <<A1, A2>>
      BY <3>1, ConcatEmptySeq
    <3>3. <<A1, A2>> \o <<A5>> = <<A1, A2, A5>>
      BY ONLY <1>2, ThreeInARow
    <3> QED BY ONLY <2>1, <3>2, <3>3, Zenon
  <2> QED BY <1>12, <1>2, <1>3, <1>4, <1>5, <1>6, <1>7, <2>2 DEF AdditionsOf, Counter, w, o
<1>13. CASE enabled /\ o # "flush" /\ w \in Worker
  <2>1. Full(e) = (<<A1, A2>> \o <<A3, A4>>) \o <<A5>>
    BY <1>13 DEF Full, ReceiveSteps, Count, Additions, AddOperation, o, w, n, A1, A2, A3, A4, A5
  <2>2. Full(e) = <<A1, A2, A3, A4, A5>>
    <3>2. <<A1, A2>> \o <<A3, A4>> = <<A1, A2, A3, A4>>
      BY ONLY <1>2, FourInARow
    <3>3. <<A1, A2, A3, A4>> \o <<A5>> = <<A1, A2, A3, A4, A5>>
      BY ONLY <1>2, FiveInARow
    <3> QED BY ONLY <2>1, <3>2, <3>3, Zenon
  <2> QED BY <1>13, <1>2, <1>3, <1>4, <1>5, <1>6, <1>7, <2>2 DEF AdditionsOf, Counter, w, o
<1> QED BY <1>8, <1>9, <1>10, <1>11, <1>12, <1>13

-----------------------------------------------------------------------------
(* One addition of a thread, and the additions still to come.              *)

(* What a thread that records still has to make, by its position in the    *)
(* additions of its operation.                                             *)
LEMMA RestShape ==
  ASSUME NEW F \in Seq(Addition), NEW k \in 1 .. Len(F) + 1, NEW R,
         R = From(F, k)
  PROVE  /\ R \in Seq(Addition)
         /\ Len(R) = Len(F) - k + 1
         /\ \A i \in 1 .. Len(R) : R[i] = F[k + i - 1]
         /\ (R = << >>) <=> (k = Len(F) + 1)
<1>1. Len(F) \in Nat /\ k \in Int /\ Len(F) \in Int
  OBVIOUS
<1>2. \A i \in k .. Len(F) : F[i] \in Addition
  BY <1>1, ElementOfSeq
<1>3. /\ R \in Seq(Addition)
      /\ Len(R) = IF k <= Len(F) THEN Len(F) - k + 1 ELSE 0
      /\ \A i \in 1 .. Len(F) - k + 1 : R[i] = F[k + i - 1]
  BY <1>1, <1>2, SubSeqProperties DEF From
<1>4. Len(R) = Len(F) - k + 1
  BY <1>1, <1>3
<1>5. \A i \in 1 .. Len(R) : R[i] = F[k + i - 1]
  BY <1>3, <1>4
<1>6. (R = << >>) <=> (Len(R) = 0)
  BY <1>3, EmptySeq
<1> QED BY <1>1, <1>3, <1>4, <1>5, <1>6

HasKey(R, s, o, c) ==
  \E i \in 1 .. Len(R) : R[i].scope = s /\ R[i].operation = o /\ R[i].counter = c

(* A key among the rest, by its position.                                  *)
LEMMA RestKeys ==
  ASSUME NEW F \in Seq(Addition), NEW k \in 1 .. Len(F) + 1, NEW R,
         R = From(F, k), NEW s, NEW o, NEW c
  PROVE  HasKey(R, s, o, c) <=>
           \E j \in k .. Len(F) : F[j].scope = s /\ F[j].operation = o /\ F[j].counter = c
<1>1. /\ Len(R) = Len(F) - k + 1
      /\ \A i \in 1 .. Len(R) : R[i] = F[k + i - 1]
  BY RestShape
<1>2. Len(F) \in Nat
  OBVIOUS
<1>3. ASSUME NEW i \in 1 .. Len(R) PROVE k + i - 1 \in k .. Len(F) /\ R[i] = F[k + i - 1]
  BY <1>1, <1>2
<1>4. ASSUME NEW j \in k .. Len(F) PROVE j - k + 1 \in 1 .. Len(R) /\ R[j - k + 1] = F[j]
  <2>1. j - k + 1 \in 1 .. Len(R)
    BY <1>1, <1>2
  <2>2. R[j - k + 1] = F[k + (j - k + 1) - 1]
    BY <1>1, <2>1
  <2>3. k + (j - k + 1) - 1 = j
    OBVIOUS
  <2> QED BY <2>1, <2>2, <2>3
<1>5. ASSUME HasKey(R, s, o, c)
      PROVE  \E j \in k .. Len(F) : F[j].scope = s /\ F[j].operation = o /\ F[j].counter = c
  BY <1>3, <1>5 DEF HasKey
<1>6. ASSUME NEW j \in k .. Len(F), F[j].scope = s, F[j].operation = o, F[j].counter = c
      PROVE  HasKey(R, s, o, c)
  BY <1>4, <1>6 DEF HasKey
<1> QED BY <1>5, <1>6

(* Making the next addition takes just its key from those to come.         *)
LEMMA NextAddition ==
  ASSUME NEW e \in Owner, NEW F, AdditionsOf(F, e), NEW k \in 1 .. Len(F), NEW R,
         R = From(F, k)
  PROVE  /\ R # << >>
         /\ Head(R) = F[k]
         /\ AdditionOf(Head(R), e)
         /\ Tail(R) = From(F, k + 1)
         /\ \A s, o, c : HasKey(Tail(R), s, o, c) <=>
              /\ HasKey(R, s, o, c)
              /\ ~ (Head(R).scope = s /\ Head(R).operation = o /\ Head(R).counter = c)
         /\ HasKey(R, Head(R).scope, Head(R).operation, Head(R).counter)
<1>1. /\ F \in Seq(Addition)
      /\ Len(F) \in Nat
      /\ \A i, j \in 1 .. Len(F) : SameKey(F[i], F[j]) => i = j
      /\ \A i \in 1 .. Len(F) : AdditionOf(F[i], e)
  BY DEF AdditionsOf
<1>2. Len(F) \in k .. Len(F)
  BY <1>1
<1>3. Head(R) = F[k] /\ Tail(R) = From(F, k + 1)
  BY <1>1, <1>2, HeadTailOfSubSeq DEF From
<1>4. k \in 1 .. Len(F) + 1 /\ k + 1 \in 1 .. Len(F) + 1
  BY <1>1
<1>5. R # << >>
  BY <1>1, <1>4, RestShape
<1>6. \A s, o, c : HasKey(R, s, o, c) <=>
        \E j \in k .. Len(F) : F[j].scope = s /\ F[j].operation = o /\ F[j].counter = c
  BY <1>1, <1>4, RestKeys
<1>7. \A s, o, c : HasKey(Tail(R), s, o, c) <=>
        \E j \in k + 1 .. Len(F) : F[j].scope = s /\ F[j].operation = o /\ F[j].counter = c
  <2>1. PICK T : T = Tail(R)
    OBVIOUS
  <2>2. PICK n : n = k + 1
    OBVIOUS
  <2>3. T = From(F, n) /\ n \in 1 .. Len(F) + 1
    BY <1>3, <1>4, <2>1, <2>2
  <2>4. \A s, o, c : HasKey(T, s, o, c) <=>
          \E j \in n .. Len(F) : F[j].scope = s /\ F[j].operation = o /\ F[j].counter = c
    BY <1>1, <2>3, RestKeys
  <2> QED BY ONLY <2>1, <2>2, <2>4
<1>8. \A j \in k + 1 .. Len(F) : ~SameKey(F[j], F[k]) /\ j \in k .. Len(F)
  BY <1>1
<1>9. \A j \in k .. Len(F) : j = k \/ j \in k + 1 .. Len(F)
  BY <1>1
<1>10. \A s, o, c : HasKey(Tail(R), s, o, c) <=>
         /\ HasKey(R, s, o, c)
         /\ ~ (F[k].scope = s /\ F[k].operation = o /\ F[k].counter = c)
  BY <1>6, <1>7, <1>8, <1>9 DEF SameKey
<1>11. HasKey(R, F[k].scope, F[k].operation, F[k].counter)
  BY <1>2, <1>6, <1>1
<1> QED BY <1>1, <1>3, <1>5, <1>10, <1>11

(* What a thread has to come is what its sequence of additions has.        *)
LEMMA ToComeIs ==
  ASSUME NEW t, NEW s, NEW o, NEW c
  PROVE  ToCome(t, s, o, c) <=> HasKey(recording[t], s, o, c)
BY DEF ToCome, HasKey

(* Counter and "recv_count" have no name in common.                        *)
LEMMA CounterIs == "recv_count" \notin Counter /\ "receive" \notin Operation
BY OperationIs DEF Counter

(* The operations counted are among those measured.                        *)
LEMMA MadeType ==
  ASSUME Types, NEW op, NEW S, S \subseteq owner, NEW s, NEW o, NEW c
  PROVE  /\ Made(op, S, s, o, c) \subseteq S
         /\ Made(op, S, s, o, c) \subseteq Owner
         /\ IsFiniteSet(Made(op, S, s, o, c))
<1>1. Made(op, S, s, o, c) \subseteq S
  BY DEF Made
<1>2. owner \subseteq Owner /\ IsFiniteSet(owner)
  BY DEF Types
<1>3. Made(op, S, s, o, c) \in SUBSET owner
  BY <1>1
<1>4. IsFiniteSet(Made(op, S, s, o, c))
  BY <1>2, <1>3, FS_Subset
<1> QED BY <1>1, <1>2, <1>4

(* An addition that a thread makes brings its counter up to date with the  *)
(* operation of that thread, and leaves the others as they were.           *)
LEMMA RecordCounts ==
  ASSUME Types, CountInv, NEW t \in Threads, Record(t)
  PROVE  CountInv'
<1>1. PICK op \in [Busy -> owner] : CountedBy(op)
  BY SMTT(30) DEF CountInv
<1>2. t \in Busy /\ RestOf(t, op[t])
  BY <1>1 DEF Record, Busy, CountedBy
<1>3. PICK e : e = op[t]
  OBVIOUS
<1>4. e \in owner /\ e \in Owner
  BY <1>1, <1>2, <1>3 DEF Types
<1>5. PICK F : F = Full(e)
  OBVIOUS
<1>6. AdditionsOf(F, e)
  BY <1>4, <1>5, FullShape
<1>7. PICK R : R = recording[t]
  OBVIOUS
<1>8. PICK k \in 1 .. Len(F) : R = From(F, k)
  BY <1>2, <1>3, <1>5, <1>7 DEF RestOf
<1>9. PICK a : a = Head(R)
  OBVIOUS
<1>10. PICK Z : Z = Tail(R)
  OBVIOUS
<1>11. /\ R # << >>
       /\ AdditionOf(a, e)
       /\ Z = From(F, k + 1)
       /\ \A s, o, c : HasKey(Z, s, o, c) <=>
            HasKey(R, s, o, c) /\ ~ (a.scope = s /\ a.operation = o /\ a.counter = c)
       /\ HasKey(R, a.scope, a.operation, a.counter)
  BY <1>4, <1>6, <1>8, <1>9, <1>10, NextAddition
<1>12. /\ recording'[t] = Z
       /\ \A u \in Threads : u # t => recording'[u] = recording[u]
  BY <1>7, <1>10 DEF Record, Types
<1>13. enabled' = enabled /\ owner' = owner
  BY DEF Record
<1>14. /\ \A u \in Threads : u # t => (u \in Busy' <=> u \in Busy)
       /\ t \in Busy' <=> Z # << >>
       /\ Busy' \subseteq Busy /\ Busy \subseteq Threads
  BY <1>2, <1>12 DEF Busy, Running
<1>15. PICK B : B = Busy'
  OBVIOUS
<1>16. PICK q : q = [u \in B |-> op[u]]
  OBVIOUS
<1>17. q \in [Busy' -> owner'] /\ \A u \in Busy' : q[u] = op[u]
  BY <1>1, <1>13, <1>14, <1>15, <1>16
<1>18. \A u \in Threads : u # t => \A s, o, c : ToCome(u, s, o, c)' <=> ToCome(u, s, o, c)
  BY <1>12 DEF ToCome
<1>19. \A s, o, c : ToCome(t, s, o, c)' <=>
         ToCome(t, s, o, c) /\ ~ (a.scope = s /\ a.operation = o /\ a.counter = c)
  <2>1. \A s, o, c : ToCome(t, s, o, c)' <=> HasKey(Z, s, o, c)
    BY <1>12 DEF ToCome, HasKey
  <2>2. \A s, o, c : ToCome(t, s, o, c) <=> HasKey(R, s, o, c)
    BY <1>7 DEF ToCome, HasKey
  <2> QED BY <1>11, <2>1, <2>2
<1>20. \A s, o, c : Z = << >> => ~ ToCome(t, s, o, c)'
  BY <1>12 DEF ToCome
<1>21. \A u \in Busy : op[u] = e => u = t
  BY <1>1, <1>2, <1>3 DEF CountedBy
<1>22. ASSUME NEW S, NEW s, NEW o, NEW c, ~ (a.scope = s /\ a.operation = o /\ a.counter = c)
       PROVE  Made(q, S, s, o, c)' = Made(op, S, s, o, c)
  <2>1. ASSUME NEW d \in S, NEW u \in Busy, op[u] = d, ToCome(u, s, o, c)
        PROVE  u \in Busy' /\ q[u] = d /\ ToCome(u, s, o, c)'
    BY <1>14, <1>17, <1>18, <1>19, <1>20, <1>22, <2>1
  <2>2. ASSUME NEW d \in S, NEW u \in Busy', q[u] = d, ToCome(u, s, o, c)'
        PROVE  u \in Busy /\ op[u] = d /\ ToCome(u, s, o, c)
    BY <1>14, <1>17, <1>18, <1>19, <2>2
  <2> QED BY <2>1, <2>2 DEF Made
<1>23. ASSUME NEW S, e \in S
       PROVE  /\ Made(q, S, a.scope, a.operation, a.counter)' =
                   Made(op, S, a.scope, a.operation, a.counter) \cup {e}
              /\ e \notin Made(op, S, a.scope, a.operation, a.counter)
  <2>1. ToCome(t, a.scope, a.operation, a.counter)
    BY <1>7, <1>11 DEF ToCome, HasKey
  <2>2. e \notin Made(op, S, a.scope, a.operation, a.counter)
    BY <1>2, <1>3, <2>1 DEF Made
  <2>3. ~ ToCome(t, a.scope, a.operation, a.counter)'
    BY <1>19
  <2>4. e \in Made(q, S, a.scope, a.operation, a.counter)'
    BY <1>14, <1>17, <1>21, <1>23, <2>3 DEF Made
  <2>5. ASSUME NEW d \in S, d # e
        PROVE  d \in Made(q, S, a.scope, a.operation, a.counter)' <=>
                 d \in Made(op, S, a.scope, a.operation, a.counter)
    <3>1. \A u \in Busy : op[u] = d => u # t
      BY <1>3, <2>5
    <3>2. \A u \in Busy : op[u] = d =>
            /\ u \in Busy' /\ q[u] = d
            /\ ToCome(u, a.scope, a.operation, a.counter)' <=>
                 ToCome(u, a.scope, a.operation, a.counter)
      BY <1>14, <1>17, <1>18, <3>1
    <3>3. \A u \in Busy' : q[u] = d => u \in Busy /\ op[u] = d
      BY <1>14, <1>17
    <3> QED BY <3>2, <3>3 DEF Made
  <2>6. Made(q, S, a.scope, a.operation, a.counter)' \subseteq S
    BY DEF Made
  <2>7. Made(op, S, a.scope, a.operation, a.counter) \subseteq S
    BY DEF Made
  <2> QED BY <2>2, <2>4, <2>5, <2>6, <2>7
<1>24. \A u \in Busy' : RestOf(u, q[u])'
  <2> SUFFICES ASSUME NEW u \in Busy' PROVE RestOf(u, op[u])'
    BY <1>17
  <2>1. PICK d : d = op[u]
    OBVIOUS
  <2>2. Full(d)' = Full(d)
    BY <1>13 DEF Full, ReceiveSteps, Additions
  <2>3. CASE u = t
    <3>1. Z # << >> /\ Len(F) \in Nat /\ F \in Seq(Addition)
      BY <1>6, <1>14, <2>3 DEF AdditionsOf
    <3>2. k + 1 \in 1 .. Len(F) + 1
      BY <3>1
    <3>3. k + 1 # Len(F) + 1
      BY <1>11, <3>1, <3>2, RestShape
    <3>4. k + 1 \in 1 .. Len(F)
      BY <3>1, <3>2, <3>3
    <3>5. recording'[u] = From(F, k + 1) /\ d = e
      BY <1>3, <1>11, <1>12, <2>1, <2>3
    <3> QED BY <1>5, <2>1, <2>2, <3>4, <3>5 DEF RestOf
  <2>4. CASE u # t
    <3>1. RestOf(u, d)
      BY <1>1, <1>14, <2>1 DEF CountedBy
    <3>2. recording'[u] = recording[u]
      BY <1>12, <1>14, <2>4
    <3> QED BY <2>1, <2>2, <3>1, <3>2 DEF RestOf
  <2> QED BY <2>3, <2>4
<1>25. \A u, v \in Busy' : q[u] = q[v] => u = v
  BY <1>1, <1>14, <1>17 DEF CountedBy
<1>26. ASSUME NEW s \in Scope, NEW o \in Operation, NEW c \in Counter, enabled'
       PROVE  counters'[s][o][c] = Tally(c, Made(q, MadeIn(o, s), s, o, c)')
  <2>1. counters[s][o][c] = Tally(c, Made(op, MadeIn(o, s), s, o, c))
    BY <1>1, <1>13, <1>26 DEF CountedBy
  <2>2. PICK S : S = MadeIn(o, s)
    OBVIOUS
  <2>3. MadeIn(o, s)' = S /\ S \subseteq owner
    BY <1>13, <2>2 DEF MadeIn
  <2>4. Made(q, MadeIn(o, s), s, o, c)' = Made(q, S, s, o, c)'
    BY <2>3 DEF Made
  <2>5. CASE a.scope = s /\ a.operation = o /\ a.counter = c
    <3>1. e \in S /\ a.by = By(c, e)
      BY <1>4, <1>11, <1>26, <2>2, <2>5, CounterIs DEF AdditionOf, MadeIn
    <3>2. /\ Made(q, S, s, o, c)' = Made(op, S, s, o, c) \cup {e}
          /\ e \notin Made(op, S, s, o, c)
      BY <1>23, <2>5, <3>1
    <3>3. Tally(c, Made(op, S, s, o, c) \cup {e}) = Tally(c, Made(op, S, s, o, c)) + By(c, e)
      BY <1>4, <2>3, <3>2, MadeType, TallyAdd, SMTT(30)
    <3>4. counters' = [counters EXCEPT ![s][o][c] = @ + a.by]
      <4>1. Head(recording[t]) = a /\ a.counter # "recv_count"
        BY <1>7, <1>9, <2>5, CounterIs, Zenon
      <4>2. PICK x : x = Head(recording[t])
        OBVIOUS
      <4>3. x.counter # "recv_count" =>
              counters' = [counters EXCEPT ![x.scope][x.operation][x.counter] = @ + x.by]
        BY ONLY <4>2, Record(t), Zenon DEF Record
      <4>4. x = a
        BY <4>1, <4>2
      <4>5. counters' = [counters EXCEPT ![x.scope][x.operation][x.counter] = @ + x.by]
        BY <4>1, <4>3, <4>4
      <4>6. x.scope = s /\ x.operation = o /\ x.counter = c
        BY <2>5, <4>4
      <4> QED BY ONLY <4>4, <4>5, <4>6
    <3>5. counters'[s][o][c] = counters[s][o][c] + a.by
      <4>1. counters \in [Scope -> [Operation -> [Counter -> Nat]]]
        BY DEF Types
      <4>2. PICK n : n = a.by
        OBVIOUS
      <4>3. counters' = [counters EXCEPT ![s][o][c] = @ + n]
        BY <3>4, <4>2
      <4>4. counters'[s][o][c] = counters[s][o][c] + n
        BY ONLY <4>1, <4>3, s \in Scope, o \in Operation, c \in Counter, SMTT(30)
      <4> QED BY <4>2, <4>4
    <3> QED BY <2>1, <2>2, <2>4, <3>1, <3>2, <3>3, <3>5
  <2>6. CASE ~ (a.scope = s /\ a.operation = o /\ a.counter = c)
    <3>1. Made(q, S, s, o, c)' = Made(op, S, s, o, c)
      BY <1>22, <2>6, Zenon
    <3>2. \/ counters' = counters
          \/ counters' = [counters EXCEPT ![a.scope][a.operation][a.counter] = @ + a.by]
      BY <1>7, <1>9 DEF Record
    <3>3. counters \in [Scope -> [Operation -> [Counter -> Nat]]]
      BY DEF Types
    <3>4. counters'[s][o][c] = counters[s][o][c]
      <4>1. CASE counters' = counters
        BY <4>1
      <4>2. CASE counters' = [counters EXCEPT ![a.scope][a.operation][a.counter] = @ + a.by]
        <5>1. PICK x, y, z, n : x = a.scope /\ y = a.operation /\ z = a.counter /\ n = a.by
          OBVIOUS
        <5>2. counters' = [counters EXCEPT ![x][y][z] = @ + n]
          BY <4>2, <5>1
        <5>3. counters'[s] = IF s = x THEN [counters[x] EXCEPT ![y][z] = @ + n] ELSE counters[s]
          BY <3>3, <5>2, <1>26
        <5>4. CASE s = x
          <6>1. counters'[s][o] = IF o = y THEN [counters[x][y] EXCEPT ![z] = @ + n]
                                  ELSE counters[x][o]
            BY <3>3, <5>3, <5>4, <1>26
          <6> QED BY <3>3, <5>1, <5>4, <6>1, <2>6, <1>26
        <5>5. CASE s # x
          BY <5>3, <5>5
        <5> QED BY <5>4, <5>5
      <4> QED BY <3>2, <4>1, <4>2
    <3> QED BY <2>1, <2>2, <2>4, <3>1, <3>4
  <2> QED BY <2>5, <2>6
<1>27. recv_count' = Tally("records", Made(q, Received, Aggregate, "receive", "recv_count")')
  <2>1. recv_count = Tally("records", Made(op, Received, Aggregate, "receive", "recv_count"))
    BY <1>1 DEF CountedBy
  <2>2. PICK S : S = Received
    OBVIOUS
  <2>3. Received' = S /\ S \subseteq owner
    BY <1>13, <2>2 DEF Received
  <2>4. Made(q, Received, Aggregate, "receive", "recv_count")' =
          Made(q, S, Aggregate, "receive", "recv_count")'
    BY <2>3 DEF Made
  <2>5. CASE a.counter = "recv_count"
    <3>1. /\ a.scope = Aggregate /\ a.operation = "receive"
          /\ a.by = By("records", e) /\ e \in S
      BY <1>4, <1>11, <2>2, <2>5, CounterIs DEF AdditionOf, Received, Receiving
    <3>2. /\ Made(q, S, Aggregate, "receive", "recv_count")' =
               Made(op, S, Aggregate, "receive", "recv_count") \cup {e}
          /\ e \notin Made(op, S, Aggregate, "receive", "recv_count")
      BY <1>23, <2>5, <3>1
    <3>3. Tally("records", Made(op, S, Aggregate, "receive", "recv_count") \cup {e}) =
            Tally("records", Made(op, S, Aggregate, "receive", "recv_count")) + By("records", e)
      BY <1>4, <2>3, <3>2, MadeType, TallyAdd
    <3>4. recv_count' = recv_count + a.by
      BY <1>7, <1>9, <2>5 DEF Record
    <3> QED BY <2>1, <2>2, <2>4, <3>1, <3>2, <3>3, <3>4
  <2>6. CASE a.counter # "recv_count"
    <3>1. Made(q, S, Aggregate, "receive", "recv_count")' =
            Made(op, S, Aggregate, "receive", "recv_count")
      BY <1>22, <2>6, SMTT(30)
    <3>2. recv_count' = recv_count
      BY <1>7, <1>9, <2>6 DEF Record
    <3> QED BY <2>1, <2>2, <2>4, <3>1, <3>2
  <2> QED BY <2>5, <2>6
<1>28. CountedBy(q)'
  BY <1>24, <1>25, <1>26, <1>27 DEF CountedBy
<1> QED BY <1>17, <1>28 DEF CountInv

(* An operation that a thread has measured is counted nowhere before the   *)
(* thread adds to its counters.                                            *)
LEMMA StartCounts ==
  ASSUME Types, CountInv, NEW t \in Threads, Running(t), NEW e \in Owner, e \notin owner,
         owner' = owner \cup {e}, enabled' = enabled, UNCHANGED profile,
         recording' = [recording EXCEPT ![t] = Full(e)]
  PROVE  CountInv'
<1>1. PICK op \in [Busy -> owner] : CountedBy(op)
  BY DEF CountInv
<1>2. PICK F : F = Full(e)
  OBVIOUS
<1>3. AdditionsOf(F, e)
  BY <1>2, FullShape
<1>4. F \in Seq(Addition) /\ Len(F) \in Nat
  BY <1>3 DEF AdditionsOf
<1>5. /\ recording'[t] = F
      /\ \A u \in Threads : u # t => recording'[u] = recording[u]
  BY <1>2 DEF Types
<1>6. /\ \A u \in Threads : u # t => (u \in Busy' <=> u \in Busy)
      /\ t \in Busy' <=> F # << >>
      /\ t \notin Busy
      /\ Busy \subseteq Threads /\ Busy' \subseteq Threads
  BY <1>5 DEF Busy, Running
<1>7. PICK B : B = Busy'
  OBVIOUS
<1>8. PICK q : q = [u \in B |-> IF u = t THEN e ELSE op[u]]
  OBVIOUS
<1>9. /\ q \in [Busy' -> owner']
      /\ \A u \in Busy : u \in Busy' /\ q[u] = op[u] /\ u # t
      /\ \A u \in Busy' : u = t \/ u \in Busy
      /\ t \in Busy' => q[t] = e
  BY <1>1, <1>6, <1>7, <1>8
<1>10. \A u \in Busy : \A s, o, c : ToCome(u, s, o, c)' <=> ToCome(u, s, o, c)
  BY <1>5, <1>6 DEF ToCome
<1>11. \A s, o, c : ToCome(t, s, o, c)' <=> HasKey(F, s, o, c)
  BY <1>5 DEF ToCome, HasKey
<1>12. \A u \in Busy : op[u] # e
  BY <1>1
<1>13. ASSUME NEW S, S \subseteq owner, NEW T, NEW s, NEW o, NEW c,
              T = S \/ (T = S \cup {e} /\ HasKey(F, s, o, c))
       PROVE  Made(q, T, s, o, c)' = Made(op, S, s, o, c)
  <2>1. HasKey(F, s, o, c) => F # << >>
    BY <1>4 DEF HasKey
  <2>2. ASSUME T = S \cup {e}, HasKey(F, s, o, c) PROVE e \notin Made(q, T, s, o, c)'
    BY <1>6, <1>9, <1>11, <2>1, <2>2 DEF Made
  <2>3. ASSUME NEW d \in S PROVE d \in Made(q, T, s, o, c)' <=> d \in Made(op, S, s, o, c)
    <3>1. d # e /\ d \in T
      BY <1>13
    <3>2. \A u \in Busy' : q[u] = d => u \in Busy /\ op[u] = d
      BY <1>9, <3>1
    <3> QED BY <1>9, <1>10, <3>1, <3>2 DEF Made
  <2>4. Made(op, S, s, o, c) \subseteq S /\ Made(q, T, s, o, c)' \subseteq T
    BY DEF Made
  <2> QED BY <1>13, <2>2, <2>3, <2>4
<1>14. \A u \in Busy' : RestOf(u, q[u])'
  <2> SUFFICES ASSUME NEW u \in Busy' PROVE RestOf(u, q[u])'
    OBVIOUS
  <2>1. PICK d : d = q[u]
    OBVIOUS
  <2>2. Full(d)' = Full(d)
    BY DEF Full, ReceiveSteps, Additions
  <2>3. CASE u = t
    <3>1. d = e /\ F # << >>
      BY <1>6, <1>9, <2>1, <2>3
    <3>2. 1 \in 1 .. Len(F)
      BY <1>4, <3>1
    <3>3. From(F, 1) = F
      BY <1>4, SubSeqFull DEF From
    <3>4. Full(d)' = F /\ recording'[u] = F
      BY <1>2, <1>5, <2>2, <2>3, <3>1
    <3> QED BY <2>1, <3>2, <3>3, <3>4 DEF RestOf
  <2>4. CASE u # t
    <3>1. u \in Busy /\ d = op[u]
      BY <1>9, <2>1, <2>4
    <3>2. RestOf(u, d)
      BY <1>1, <3>1 DEF CountedBy
    <3>3. recording'[u] = recording[u]
      BY <1>5, <1>6, <2>4
    <3> QED BY <2>1, <2>2, <3>2, <3>3 DEF RestOf
  <2> QED BY <2>3, <2>4
<1>15. \A u, v \in Busy' : q[u] = q[v] => u = v
  BY <1>1, <1>9, <1>12 DEF CountedBy
<1>16. ASSUME NEW s \in Scope, NEW o \in Operation, NEW c \in Counter, enabled'
       PROVE  counters'[s][o][c] = Tally(c, Made(q, MadeIn(o, s), s, o, c)')
  <2>1. counters[s][o][c] = Tally(c, Made(op, MadeIn(o, s), s, o, c))
    BY <1>1, <1>16 DEF CountedBy
  <2>2. PICK S : S = MadeIn(o, s)
    OBVIOUS
  <2>3. PICK T : T = MadeIn(o, s)'
    OBVIOUS
  <2>4. S \subseteq owner
    BY <2>2 DEF MadeIn
  <2>5. Made(q, MadeIn(o, s), s, o, c)' = Made(q, T, s, o, c)'
    BY <2>3 DEF Made
  <2>6. CASE e.operation = o /\ e.worker \in Within(s)
    <3>1. T = S \cup {e}
      BY <2>2, <2>3, <2>6 DEF MadeIn
    <3>2. HasKey(F, s, o, c)
      BY <1>3, <1>16, <2>6 DEF AdditionsOf, HasKey
    <3> QED BY <1>13, <2>1, <2>2, <2>4, <2>5, <3>1, <3>2 DEF profile
  <2>7. CASE ~ (e.operation = o /\ e.worker \in Within(s))
    <3>1. T = S
      BY <2>2, <2>3, <2>7 DEF MadeIn
    <3> QED BY <1>13, <2>1, <2>2, <2>4, <2>5, <3>1 DEF profile
  <2> QED BY <2>6, <2>7
<1>17. recv_count' = Tally("records", Made(q, Received, Aggregate, "receive", "recv_count")')
  <2>1. recv_count = Tally("records", Made(op, Received, Aggregate, "receive", "recv_count"))
    BY <1>1 DEF CountedBy
  <2>2. PICK S : S = Received
    OBVIOUS
  <2>3. PICK T : T = Received'
    OBVIOUS
  <2>4. S \subseteq owner
    BY <2>2 DEF Received
  <2>5. Made(q, Received, Aggregate, "receive", "recv_count")' =
          Made(q, T, Aggregate, "receive", "recv_count")'
    BY <2>3 DEF Made
  <2>6. CASE Receiving(e)
    <3>1. T = S \cup {e}
      BY <2>2, <2>3, <2>6 DEF Received, Receiving
    <3>2. HasKey(F, Aggregate, "receive", "recv_count")
      <4>1. Len(F) \in 1 .. Len(F)
        BY <1>3, <1>4, <2>6 DEF AdditionsOf
      <4> QED BY <1>3, <2>6, <4>1 DEF AdditionsOf, HasKey
    <3> QED BY <1>13, <2>1, <2>2, <2>4, <2>5, <3>1, <3>2 DEF profile
  <2>7. CASE ~Receiving(e)
    <3>1. T = S
      BY <2>2, <2>3, <2>7 DEF Received, Receiving
    <3> QED BY <1>13, <2>1, <2>2, <2>4, <2>5, <3>1 DEF profile
  <2> QED BY <2>6, <2>7
<1>18. CountedBy(q)'
  BY <1>14, <1>15, <1>16, <1>17 DEF CountedBy
<1> QED BY <1>9, <1>18 DEF CountInv

(* Other steps leave the counting alone.                                   *)
LEMMA SameCounts ==
  ASSUME CountInv, UNCHANGED <<enabled, recording, profile, owner>>
  PROVE  CountInv'
<1>1. PICK op \in [Busy -> owner] : CountedBy(op)
  BY DEF CountInv
<1>2. UNCHANGED <<enabled, recording, counters, recv_count, owner>>
  BY DEF profile
<1>3. /\ Busy' = Busy /\ Received' = Received
      /\ \A o, s : MadeIn(o, s)' = MadeIn(o, s)
      /\ \A t, s, o, c : ToCome(t, s, o, c)' <=> ToCome(t, s, o, c)
  BY <1>2 DEF Busy, Running, Received, MadeIn, ToCome
<1>4. \A d : Full(d)' = Full(d)
  BY <1>2 DEF Full, ReceiveSteps, Additions
<1>5. \A t, d : RestOf(t, d)' <=> RestOf(t, d)
  BY <1>2, <1>4 DEF RestOf
<1>6. \A o, s, c : Made(op, MadeIn(o, s), s, o, c)' = Made(op, MadeIn(o, s), s, o, c)
  BY <1>3 DEF Made
<1>7. Made(op, Received, Aggregate, "receive", "recv_count")' =
        Made(op, Received, Aggregate, "receive", "recv_count")
  BY <1>3 DEF Made
<1>8. CountedBy(op)'
  BY <1>1, <1>2, <1>3, <1>5, <1>6, <1>7 DEF CountedBy
<1> QED BY <1>1, <1>2, <1>3, <1>8 DEF CountInv

-----------------------------------------------------------------------------
(* The calls of a thread.                                                  *)

(* The call a thread is in.                                                *)
LEMMA TopIs ==
  ASSUME Types, StackInv, NEW t \in Threads, frames[t] # << >>
  PROVE  /\ frames[t] \in Seq(FrameSet)
         /\ Len(frames[t]) \in {1, 2}
         /\ Top(t) = frames[t][Len(frames[t])]
         /\ Top(t) \in FrameSet
         /\ FrameOf(Top(t))
         /\ StackOf(t)
<1>1. frames[t] \in Seq(FrameSet) /\ StackOf(t)
  BY DEF Types, StackInv
<1>2. Len(frames[t]) \in Nat \ {0}
  BY <1>1, EmptySeq
<1>3. Len(frames[t]) \in {1, 2}
  <2>1. Len(frames[t]) <= 2
    BY <1>1 DEF StackOf
  <2>2. \A n \in Nat \ {0} : n <= 2 => n \in {1, 2}
    OBVIOUS
  <2> QED BY ONLY <1>2, <2>1, <2>2, Zenon
<1>4. Len(frames[t]) \in 1 .. Len(frames[t])
  BY <1>2
<1>5. frames[t][Len(frames[t])] \in FrameSet
  BY <1>1, <1>4, ElementOfSeq
<1>6. FrameOf(frames[t][Len(frames[t])])
  BY <1>1, <1>4 DEF StackOf
<1> QED BY <1>1, <1>3, <1>5, <1>6 DEF Top

(* A flush is the innermost call.                                          *)
LEMMA FlushIsTop ==
  ASSUME Types, StackInv, NEW t \in Threads, NEW i \in 1 .. Len(frames[t]),
         frames[t][i].kind = "flush"
  PROVE  In(t, {"flush"}) /\ frames[t][i] = Top(t)
<1>1. frames[t] # << >>
  BY EmptySeq
<1>2. Len(frames[t]) \in {1, 2} /\ StackOf(t) /\ Top(t) = frames[t][Len(frames[t])]
  BY <1>1, TopIs
<1>3. i = Len(frames[t])
  <2>1. Len(frames[t]) = 2 => frames[t][1].kind = "filled"
    BY <1>2 DEF StackOf
  <2>2. Len(frames[t]) = 2 => i # 1
    BY <2>1
  <2> QED BY <1>2, <2>2
<1> QED BY <1>1, <1>2, <1>3 DEF In

(* The calls of a thread stay what they are while other threads go on.     *)
LEMMA StackKept ==
  ASSUME Types, StackInv, NEW t \in Threads,
         frames'[t] = frames[t], current'[t] = current[t], enabled' = enabled,
         unsent' \subseteq unsent,
         \A e \in owner' \ owner : e.operation = "flush" /\ In(t, {"flush"}) =>
           e.message \notin Top(t).message
  PROVE  StackOf(t)'
<1>1. StackOf(t)
  BY DEF StackInv
<1>2. ASSUME NEW i \in 1 .. Len(frames[t]) PROVE FrameOf(frames[t][i])'
  <2>1. PICK f : f = frames[t][i]
    OBVIOUS
  <2>2. FrameOf(f)
    BY <1>1, <2>1 DEF StackOf
  <2>3. FrameOf(f)'
    <3>1. CASE f.kind = "flush"
      <4>1. In(t, {"flush"}) /\ f = Top(t)
        BY <2>1, <3>1, FlushIsTop
      <4>2. PICK m \in Buffered \ unsent :
              f.message = {m} /\ \A e \in owner : ~ (e.operation = "flush" /\ e.message = m)
        BY <2>2, <3>1 DEF FrameOf
      <4>3. \A e \in owner' : ~ (e.operation = "flush" /\ e.message = m)
        BY <4>1, <4>2
      <4> QED BY <2>2, <3>1, <4>2, <4>3 DEF FrameOf
    <3>2. CASE f.kind # "flush"
      BY <2>2, <3>2 DEF FrameOf
    <3> QED BY <3>1, <3>2
  <2>4. FrameOf(frames[t][i])' <=> FrameOf(f)'
    BY <2>1
  <2> QED BY <2>3, <2>1 DEF FrameOf
<1>3. Top(t)' = Top(t)
  BY DEF Top
<1> QED BY <1>1, <1>2, <1>3 DEF StackOf

(* A thread in no call has no worker set.                                  *)
LEMMA OutsideIs ==
  ASSUME Types, StackInv, NEW t \in Threads, frames[t] = << >>
  PROVE  current[t] = NoWorker
BY DEF StackInv, StackOf

-----------------------------------------------------------------------------
(* The steps by what they do to the calls of their thread.                 *)

(* The thread enters a call from outside.                                  *)
Enters(t, f) ==
  /\ frames[t] = << >> /\ Running(t) /\ ~ended
  /\ f \in FrameSet
  /\ f.previous = NoWorker
  /\ f.kind \in {"post", "flush", "progress", "barrier", "am_profile"}
  /\ f.kind \in OfWorker => f.worker \in Worker
  /\ f.kind \in OfNobody => f.worker = NoWorker
  /\ f.kind = "flush" => \E m \in unsent : f.message = {m} /\ unsent' = unsent \ {m}
  /\ f.kind # "flush" => f.message = {} /\ unsent' = unsent
  /\ frames' = [frames EXCEPT ![t] = <<f>>]
  /\ current' = [current EXCEPT ![t] = IF enabled THEN f.worker ELSE NoWorker]
  /\ calls' \in [Threads -> 0 .. MaxCalls]
  /\ seen' = IF f.kind = "am_profile" THEN [seen EXCEPT ![t] = recv_count] ELSE seen
  /\ UNCHANGED <<enabled, recording, profile, snapshot, ending, arriving, owner>>

(* post_am(), progress(), flush(), a barrier and am_profile() enter a call.*)
LEMMA CallsEnter ==
  ASSUME Types, StackInv, NEW t \in Threads,
         (\E w \in Worker : Call(t, w)) \/ Wait(t) \/ CallAmProfile(t)
  PROVE  \E f : Enters(t, f)
<1> USE DEF OfWorker, OfNobody
<1>1. Begin(t)
  BY DEF Call, PostAm, Progress, Flush, Wait, CallAmProfile
<1>2. /\ frames[t] = << >> /\ Running(t) /\ ~ended
      /\ current[t] = NoWorker
      /\ UNCHANGED <<enabled, recording, profile, snapshot, ending, arriving, owner>>
  BY <1>1, OutsideIs DEF Begin, Outermost
<1>3. calls' \in [Threads -> 0 .. MaxCalls]
  <2>1. calls \in [Threads -> 0 .. MaxCalls]
    BY DEF Types
  <2>2. calls[t] \in 0 .. MaxCalls /\ calls[t] < MaxCalls /\ MaxCalls \in Nat
    BY <1>1, <2>1, RecorderAssumption DEF Begin
  <2>3. calls[t] + 1 \in 0 .. MaxCalls
    BY <2>2
  <2>4. calls' = [calls EXCEPT ![t] = calls[t] + 1]
    BY <1>1 DEF Begin
  <2> QED BY <2>1, <2>3, <2>4
<1>4. frames \in [Threads -> Seq(FrameSet)] /\ current \in [Threads -> Scope]
  BY DEF Types
<1>5. \A x : Append(<< >>, x) = <<x>>
  OBVIOUS
<1>6. ASSUME NEW w \in Scope, NEW kind \in OfWorker \cup OfNobody, NEW M \in SUBSET Buffered
      PROVE  /\ Frame(t, kind, w, M) \in FrameSet
             /\ Frame(t, kind, w, M) =
                  [kind |-> kind, worker |-> w, message |-> M, previous |-> NoWorker]
  BY <1>2, ScopeIs DEF Frame, FrameSet
<1>7. ASSUME NEW w, NEW kind, NEW M, Enter(t, kind, w, M)
      PROVE  /\ frames' = [frames EXCEPT ![t] = <<Frame(t, kind, w, M)>>]
             /\ current' = [current EXCEPT ![t] = IF enabled THEN w ELSE NoWorker]
  <2>1. frames' = [frames EXCEPT ![t] = <<Frame(t, kind, w, M)>>]
    BY <1>2, <1>5, <1>7 DEF Enter
  <2>2. current' = [current EXCEPT ![t] = IF enabled THEN w ELSE NoWorker]
    BY <1>2, <1>4, <1>7 DEF Enter, Set
  <2> QED BY <2>1, <2>2
<1>8. ASSUME NEW w \in Worker, PostAm(t, w) PROVE \E f : Enters(t, f)
  <2>1. PICK f : f = Frame(t, "post", w, {})
    OBVIOUS
  <2>2. f = [kind |-> "post", worker |-> w, message |-> {}, previous |-> NoWorker] /\ f \in FrameSet
    BY <1>6, <2>1, ScopeIs
  <2>3. /\ frames' = [frames EXCEPT ![t] = <<f>>]
        /\ current' = [current EXCEPT ![t] = IF enabled THEN w ELSE NoWorker]
        /\ UNCHANGED <<seen, unsent>>
    BY <1>7, <1>8, <2>1 DEF PostAm
  <2>4. Enters(t, f)
    BY <1>2, <1>3, <2>2, <2>3 DEF Enters
  <2> QED BY <2>4
<1>9. ASSUME NEW w \in Worker, Progress(t, w) PROVE \E f : Enters(t, f)
  <2>1. PICK f : f = Frame(t, "progress", w, {})
    OBVIOUS
  <2>2. f = [kind |-> "progress", worker |-> w, message |-> {}, previous |-> NoWorker]
        /\ f \in FrameSet
    BY <1>6, <2>1, ScopeIs
  <2>3. /\ frames' = [frames EXCEPT ![t] = <<f>>]
        /\ current' = [current EXCEPT ![t] = IF enabled THEN w ELSE NoWorker]
        /\ UNCHANGED <<seen, unsent>>
    BY <1>7, <1>9, <2>1 DEF Progress
  <2>4. Enters(t, f)
    BY <1>2, <1>3, <2>2, <2>3 DEF Enters
  <2> QED BY <2>4
<1>10. ASSUME NEW w \in Worker, Flush(t, w) PROVE \E f : Enters(t, f)
  <2>1. PICK m \in unsent : /\ Enter(t, "flush", w, {m})
                            /\ unsent' = unsent \ {m}
                            /\ UNCHANGED seen
    BY <1>10 DEF Flush
  <2>2. PICK f : f = Frame(t, "flush", w, {m})
    OBVIOUS
  <2>3. {m} \in SUBSET Buffered
    BY DEF Types
  <2>4. f = [kind |-> "flush", worker |-> w, message |-> {m}, previous |-> NoWorker]
        /\ f \in FrameSet
    BY <1>6, <2>2, <2>3, ScopeIs
  <2>5. /\ frames' = [frames EXCEPT ![t] = <<f>>]
        /\ current' = [current EXCEPT ![t] = IF enabled THEN w ELSE NoWorker]
    BY <1>7, <2>1, <2>2
  <2>6. Enters(t, f)
    BY <1>2, <1>3, <2>1, <2>4, <2>5 DEF Enters
  <2> QED BY <2>6
<1>11. ASSUME NEW kind \in OfNobody, NEW f, f = Frame(t, kind, NoWorker, {}),
              frames' = [frames EXCEPT ![t] = <<f>>], UNCHANGED <<current, unsent>>,
              seen' = IF kind = "am_profile" THEN [seen EXCEPT ![t] = recv_count] ELSE seen
       PROVE  \E g : Enters(t, g)
  <2>1. f = [kind |-> kind, worker |-> NoWorker, message |-> {}, previous |-> NoWorker]
        /\ f \in FrameSet
    BY <1>6, <1>11, ScopeIs
  <2>2. current' = [current EXCEPT ![t] = IF enabled THEN f.worker ELSE NoWorker]
    BY <1>2, <1>4, <1>11, <2>1
  <2>3. /\ f.kind = kind /\ f.worker = NoWorker /\ f.message = {} /\ f.previous = NoWorker
        /\ kind \in {"barrier", "am_profile"} /\ kind \notin {"post", "filled", "flush", "progress"}
    BY <1>11, <2>1
  <2>4. Enters(t, f)
    BY <1>2, <1>3, <1>11, <2>1, <2>2, <2>3 DEF Enters
  <2> QED BY <2>4
<1>12. ASSUME Wait(t) PROVE \E f : Enters(t, f)
  BY <1>11, <1>12 DEF Wait, Set
<1>13. ASSUME CallAmProfile(t) PROVE \E f : Enters(t, f)
  BY <1>11, <1>13 DEF CallAmProfile, Set
<1> QED BY <1>8, <1>9, <1>10, <1>12, <1>13 DEF Call

(* The thread leaves its innermost call.                                   *)
Leaves(t) ==
  /\ frames[t] # << >>
  /\ frames' = [frames EXCEPT ![t] = SubSeq(frames[t], 1, Len(frames[t]) - 1)]
  /\ current' = [current EXCEPT ![t] = IF enabled THEN Top(t).previous ELSE NoWorker]
  /\ UNCHANGED <<enabled, unsent, calls, arriving, ending>>

(* Leave() pops the call and restores the index its scope has kept.        *)
LEMMA LeaveIs ==
  ASSUME Types, StackInv, NEW t \in Threads, frames[t] # << >>, Leave(t),
         UNCHANGED <<enabled, unsent, calls, arriving, ending>>
  PROVE  Leaves(t)
<1>1. frames \in [Threads -> Seq(FrameSet)] /\ current \in [Threads -> Scope]
  BY DEF Types
<1>2. frames' = [frames EXCEPT ![t] = SubSeq(frames[t], 1, Len(frames[t]) - 1)]
  BY DEF Leave
<1>3. ~enabled => current[t] = NoWorker
  BY DEF StackInv, StackOf
<1>4. current' = [current EXCEPT ![t] = IF enabled THEN Top(t).previous ELSE NoWorker]
  BY <1>1, <1>3 DEF Leave, Set, Restored
<1> QED BY <1>2, <1>4 DEF Leaves

(* The thread measures an operation in its call, and adds it next.         *)
Measures(t, e) ==
  /\ frames[t] # << >> /\ Running(t)
  /\ e \in Owner /\ e \notin owner
  /\ owner' = owner \cup {e}
  /\ recording' = [recording EXCEPT ![t] = Full(e)]
  /\ e.operation = "remote_receive" => e.message \in arriving /\ arriving' = arriving \ {e.message}
  /\ e.operation # "remote_receive" => e.message \in Buffered \ unsent /\ arriving' = arriving
  /\ e.operation = "flush" => In(t, {"flush"}) /\ e.message \in Top(t).message
  /\ UNCHANGED <<enabled, unsent, profile, queries, ending, calls>>

(* The worker a receive is recorded for is that of the call.               *)
LEMMA WorkerFound ==
  ASSUME Types, StackInv, NEW t \in Threads, frames[t] # << >>, enabled
  PROVE  current[t] = Top(t).worker
BY TopIs DEF StackOf

(* A message from another rank is measured in the innermost call.          *)
LEMMA ReceivesMeasure ==
  ASSUME Types, StackInv, OwnerInv, NEW t \in Threads,
         NEW m \in arriving, Receive(t, m)
  PROVE  /\ \E e : Measures(t, e) /\ e.operation # "flush"
         /\ UNCHANGED <<frames, current>>
         /\ In(t, {"post", "flush", "progress", "barrier"})
<1>1. PICK e : e = [operation |-> "remote_receive", message |-> m, worker |-> Top(t).worker]
  OBVIOUS
<1>2. /\ e.operation = "remote_receive" /\ e.message = m /\ e.worker = Top(t).worker
      /\ frames[t] # << >> /\ Running(t)
  BY <1>1 DEF Receive, In
<1>3. Top(t) \in FrameSet
  BY <1>2, TopIs
<1>4. e \in Owner
  BY <1>1, <1>3 DEF Owner, FrameSet, Receives, Types
<1>5. e \notin owner
  BY <1>2 DEF OwnerInv
<1>6. Full(e) = ReceiveSteps("remote_receive", current[t], record_count[m])
  BY <1>2, WorkerFound DEF Full, ReceiveSteps, Additions
<1>7. Measures(t, e)
  <2>1. owner' = owner \cup {e}
    BY <1>1 DEF Receive, Measured
  <2>2. recording' = [recording EXCEPT ![t] = Full(e)]
    BY <1>6 DEF Receive, Set
  <2> QED BY <1>2, <1>4, <1>5, <2>1, <2>2 DEF Receive, Measures
<1> QED BY <1>2, <1>7 DEF Receive

(* The message of a flush is one that has been taken from the buffers.     *)
LEMMA FlushMessage ==
  ASSUME Types, StackInv, NEW t \in Threads, In(t, {"flush"}), NEW m \in Top(t).message
  PROVE  /\ m \in Buffered \ unsent
         /\ Top(t).message = {m}
         /\ Top(t).worker \in Worker
         /\ \A e \in owner : ~ (e.operation = "flush" /\ e.message = m)
<1>1. frames[t] # << >> /\ Top(t).kind = "flush"
  BY DEF In
<1>2. FrameOf(Top(t))
  BY <1>1, TopIs
<1> QED BY <1>1, <1>2 DEF FrameOf, OfWorker

(* A message to the own rank is measured, once, in the flush that has it.  *)
LEMMA OwnReceivesMeasure ==
  ASSUME Types, StackInv, OwnerInv, NEW t \in Threads, ReceiveOwn(t)
  PROVE  /\ \E e : Measures(t, e) /\ e.operation # "flush"
         /\ UNCHANGED <<frames, current>>
         /\ In(t, {"flush"})
<1>1. PICK m \in OwnMessage(t) :
        /\ ~Delivered(m)
        /\ recording' = Set(recording, t,
                            ReceiveSteps("loopback_receive", current[t], record_count[m]))
        /\ Measured("loopback_receive", m, Top(t).worker)
  BY DEF ReceiveOwn
<1>2. m \in Top(t).message /\ In(t, {"flush"})
  BY DEF OwnMessage, ReceiveOwn
<1>3. m \in Buffered \ unsent /\ Top(t).worker \in Scope
  BY <1>2, FlushMessage, ScopeIs
<1>4. PICK e : e = [operation |-> "loopback_receive", message |-> m, worker |-> Top(t).worker]
  OBVIOUS
<1>5. /\ e.operation = "loopback_receive" /\ e.message = m /\ e.worker = Top(t).worker
      /\ frames[t] # << >> /\ Running(t)
  BY <1>4 DEF ReceiveOwn, In
<1>6. e \in Owner
  BY <1>3, <1>4 DEF Owner, Receives
<1>7. e \notin owner
  BY <1>1, <1>5 DEF Delivered
<1>8. Full(e) = ReceiveSteps("loopback_receive", current[t], record_count[m])
  BY <1>5, WorkerFound DEF Full, ReceiveSteps, Additions
<1>9. Measures(t, e)
  <2>1. owner' = owner \cup {e}
    BY <1>1, <1>4 DEF Measured
  <2>2. recording' = [recording EXCEPT ![t] = Full(e)]
    BY <1>1, <1>8 DEF Set
  <2> QED BY <1>3, <1>5, <1>6, <1>7, <2>1, <2>2 DEF ReceiveOwn, Measures
<1> QED BY <1>2, <1>5, <1>9 DEF ReceiveOwn

(* A flush is measured, once, as it is left.                               *)
LEMMA FlushMeasures ==
  ASSUME Types, StackInv, OwnerInv, NEW t \in Threads, ReturnFromFlush(t)
  PROVE  /\ \E e : Measures(t, e) /\ e.operation = "flush"
         /\ Leaves(t)
         /\ In(t, {"flush"})
<1>1. PICK m \in Top(t).message :
        /\ recording' = Set(recording, t, Additions("flush", Top(t).worker, record_count[m]))
        /\ Measured("flush", m, Top(t).worker)
  BY DEF ReturnFromFlush
<1>2. In(t, {"flush"}) /\ frames[t] # << >> /\ Running(t)
  BY DEF ReturnFromFlush, In
<1>3. /\ m \in Buffered \ unsent /\ Top(t).worker \in Scope
      /\ \A e \in owner : ~ (e.operation = "flush" /\ e.message = m)
  BY <1>2, FlushMessage, ScopeIs
<1>4. PICK e : e = [operation |-> "flush", message |-> m, worker |-> Top(t).worker]
  OBVIOUS
<1>5. e.operation = "flush" /\ e.message = m /\ e.worker = Top(t).worker
  BY <1>4
<1>6. e \in Owner /\ e \notin owner
  BY <1>3, <1>4 DEF Owner
<1>7. Full(e) = Additions("flush", Top(t).worker, record_count[m])
  BY <1>5 DEF Full
<1>8. Measures(t, e)
  <2>1. owner' = owner \cup {e}
    BY <1>1, <1>4 DEF Measured
  <2>2. recording' = [recording EXCEPT ![t] = Full(e)]
    BY <1>1, <1>7 DEF Set
  <2> QED BY <1>1, <1>2, <1>3, <1>5, <1>6, <2>1, <2>2 DEF ReturnFromFlush, Measures
<1>9. Leaves(t)
  BY <1>2, LeaveIs DEF ReturnFromFlush
<1> QED BY <1>2, <1>5, <1>8, <1>9

-----------------------------------------------------------------------------
(* Each kind of step keeps the types, the calls and the measured           *)
(* operations as they should be.                                           *)

FlushesApart ==
  \A t, u \in Threads : t # u /\ In(t, {"flush"}) /\ In(u, {"flush"}) =>
    Top(t).message \cap Top(u).message = {}

(* Two flushes never have the same buffer: a new one takes an unsent one.  *)
LEMMA StillApart ==
  ASSUME Types, StackInv, NEW t \in Threads,
         \A u \in Threads : u # t => frames'[u] = frames[u],
         In(t, {"flush"})' => \/ Top(t)'.message \subseteq unsent
                              \/ In(t, {"flush"}) /\ Top(t)' = Top(t)
  PROVE  FlushesApart'
<1>1. \A u \in Threads : u # t => Top(u)' = Top(u) /\ (In(u, {"flush"})' <=> In(u, {"flush"}))
  BY DEF Top, In
<1>2. \A u \in Threads : In(u, {"flush"}) => Top(u).message \cap unsent = {}
  BY FlushMessage
<1>3. FlushesApart
  BY DEF StackInv, FlushesApart
<1>4. ASSUME NEW u \in Threads, u # t, In(t, {"flush"})', In(u, {"flush"})'
      PROVE  Top(t)'.message \cap Top(u)'.message = {}
  <2>1. In(u, {"flush"}) /\ Top(u)' = Top(u)
    BY <1>1, <1>4
  <2>2. CASE Top(t)'.message \subseteq unsent
    BY <1>2, <2>1, <2>2
  <2>3. CASE In(t, {"flush"}) /\ Top(t)' = Top(t)
    BY <1>3, <1>4, <2>1, <2>3 DEF FlushesApart
  <2> QED BY <1>4, <2>2, <2>3
<1>5. ASSUME NEW u \in Threads, NEW v \in Threads, u # v, In(u, {"flush"})', In(v, {"flush"})'
      PROVE  Top(u)'.message \cap Top(v)'.message = {}
  <2>1. CASE u = t
    BY <1>4, <1>5, <2>1
  <2>2. CASE v = t
    BY <1>4, <1>5, <2>2
  <2>3. CASE u # t /\ v # t
    BY <1>1, <1>3, <1>5, <2>3 DEF FlushesApart
  <2> QED BY <2>1, <2>2, <2>3
<1> QED BY <1>5 DEF FlushesApart

(* Entering a call.                                                        *)
LEMMA EnterKeeps ==
  ASSUME Types, StackInv, OwnerInv, NEW t \in Threads, NEW f, Enters(t, f)
  PROVE  Types' /\ StackInv' /\ OwnerInv'
<1>1. /\ enabled' = enabled /\ ended' = ended /\ recording' = recording /\ counters' = counters
      /\ recv_count' = recv_count /\ snapshot' = snapshot /\ arriving' = arriving
      /\ owner' = owner
  BY DEF Enters, profile, ending
<1>2. f \in FrameSet /\ f.worker \in Scope
  BY DEF Enters, FrameSet
<1>3. /\ frames' = [frames EXCEPT ![t] = <<f>>]
      /\ current' = [current EXCEPT ![t] = IF enabled THEN f.worker ELSE NoWorker]
      /\ frames \in [Threads -> Seq(FrameSet)]
      /\ current \in [Threads -> Scope]
  BY DEF Enters, Types
<1>4. frames' \in [Threads -> Seq(FrameSet)] /\ frames'[t] = <<f>>
  <2>1. <<f>> \in Seq(FrameSet)
    BY <1>2
  <2> QED BY <1>3, <2>1
<1>5. /\ current' \in [Threads -> Scope]
      /\ current'[t] = IF enabled THEN f.worker ELSE NoWorker
  BY <1>2, <1>3, ScopeIs
<1>6. \A u \in Threads : u # t => frames'[u] = frames[u] /\ current'[u] = current[u]
  BY <1>3
<1>7. unsent' \subseteq unsent
  BY DEF Enters
<1>8. seen' \in [Threads -> Nat]
  BY DEF Enters, Types
<1>9. Types'
  <2>1. calls' \in [Threads -> 0 .. MaxCalls]
    BY DEF Enters
  <2>2. unsent' \subseteq Buffered
    BY <1>7 DEF Types
  <2> QED BY <1>1, <1>4, <1>5, <1>8, <2>1, <2>2 DEF Types
<1>10. OwnerInv'
  BY <1>1, <1>7 DEF OwnerInv
<1>11. Len(frames'[t]) = 1 /\ frames'[t][1] = f /\ Top(t)' = f /\ frames'[t] # << >>
  BY <1>4 DEF Top
<1>12. ASSUME NEW u \in Threads PROVE StackOf(u)'
  <2>1. CASE u = t
    <3>1. FrameOf(f)'
      <4>1. /\ f.kind \in OfWorker => f.worker \in Worker
            /\ f.kind \in OfNobody => f.worker = NoWorker
            /\ f.kind # "flush" => f.message = {}
        BY DEF Enters
      <4>2. f.kind = "flush" => \E m \in Buffered \ unsent' : f.message = {m} /\
              \A e \in owner' : ~ (e.operation = "flush" /\ e.message = m)
        <5> SUFFICES ASSUME f.kind = "flush"
                     PROVE  \E m \in Buffered \ unsent' : f.message = {m} /\
                              \A e \in owner' : ~ (e.operation = "flush" /\ e.message = m)
          OBVIOUS
        <5>1. PICK m \in unsent : f.message = {m} /\ unsent' = unsent \ {m}
          BY DEF Enters
        <5>2. m \in Buffered \ unsent'
          BY <5>1 DEF Types
        <5>3. \A e \in owner' : ~ (e.operation = "flush" /\ e.message = m)
          BY <1>1 DEF OwnerInv
        <5> QED BY <5>1, <5>2, <5>3
      <4> QED BY <4>1, <4>2 DEF FrameOf
    <3>2. f.previous = NoWorker
      BY DEF Enters
    <3>3. \A i \in 1 .. Len(frames'[t]) : frames'[t][i] = f
      BY <1>11
    <3>4. current'[t] = IF enabled' /\ frames'[t] # << >> THEN Top(t)'.worker ELSE NoWorker
      BY <1>1, <1>5, <1>11
    <3>5. \A i \in 1 .. Len(frames[t])' : FrameOf(frames[t][i])'
      BY <3>1, <3>3 DEF FrameOf
    <3>6. /\ Len(frames'[t]) <= 2
          /\ frames'[t][1].previous = NoWorker
          /\ Len(frames'[t]) # 2
      BY <1>11, <3>2
    <3>7. StackOf(t)'
      BY ONLY <3>4, <3>5, <3>6 DEF StackOf
    <3> QED BY <2>1, <3>7
  <2>2. CASE u # t
    BY <1>1, <1>6, <1>7, <2>2, StackKept
  <2> QED BY <2>1, <2>2
<1>13. FlushesApart'
  <2>1. In(t, {"flush"})' => Top(t)'.message \subseteq unsent
    BY <1>11 DEF In, Enters
  <2> QED BY <1>6, <2>1, StillApart
<1> QED BY <1>9, <1>10, <1>12, <1>13 DEF StackInv, FlushesApart

(* A post_am() that flushes the buffer it has filled.                      *)
LEMMA FlushFullKeeps ==
  ASSUME Types, StackInv, OwnerInv, NEW t \in Threads, FlushFull(t)
  PROVE  Types' /\ StackInv' /\ OwnerInv'
<1>1. PICK m \in unsent :
        /\ frames' = Set(frames, t, <<[Top(t) EXCEPT !.kind = "filled"],
                                     Frame(t, "flush", Top(t).worker, {m})>>)
        /\ unsent' = unsent \ {m}
  BY DEF FlushFull
<1>2. /\ In(t, {"post"}) /\ frames[t] # << >> /\ Top(t).kind = "post"
      /\ current' = IF enabled THEN Set(current, t, Top(t).worker) ELSE current
      /\ UNCHANGED <<enabled, recording, profile, queries, ending, arriving, calls, owner>>
  BY DEF FlushFull, In
<1>3. /\ Top(t) \in FrameSet /\ FrameOf(Top(t)) /\ StackOf(t)
      /\ Len(frames[t]) \in {1, 2} /\ Top(t) = frames[t][Len(frames[t])]
  BY <1>2, TopIs
<1>4. Len(frames[t]) = 1
  <2>1. Len(frames[t]) = 2 => frames[t][2].kind = "flush"
    BY <1>3 DEF StackOf
  <2> QED BY <1>2, <1>3, <2>1
<1>5. /\ Top(t).previous = NoWorker /\ Top(t).worker \in Worker /\ Top(t).message = {}
      /\ current[t] = IF enabled THEN Top(t).worker ELSE NoWorker
      /\ Top(t).worker \in Scope
  BY <1>2, <1>3, <1>4, ScopeIs DEF StackOf, FrameOf, OfWorker
<1>6. PICK g : g = [Top(t) EXCEPT !.kind = "filled"]
  OBVIOUS
<1>7. PICK h : h = Frame(t, "flush", Top(t).worker, {m})
  OBVIOUS
<1>8. /\ g.kind = "filled" /\ g.worker = Top(t).worker /\ g.message = {} /\ g.previous = NoWorker
      /\ g \in FrameSet
  BY <1>3, <1>5, <1>6 DEF FrameSet, OfWorker, OfNobody
<1>9. /\ h.kind = "flush" /\ h.worker = Top(t).worker /\ h.message = {m}
      /\ h.previous = current[t]
  BY <1>7 DEF Frame
<1>10. h \in FrameSet
  BY <1>5, <1>7, ScopeIs DEF Frame, FrameSet, OfWorker, OfNobody, Types
<1>11. /\ frames' = [frames EXCEPT ![t] = <<g, h>>]
       /\ frames \in [Threads -> Seq(FrameSet)]
       /\ current \in [Threads -> Scope]
  BY <1>1, <1>6, <1>7 DEF Set, Types
<1>12. /\ current' = [current EXCEPT ![t] = IF enabled THEN Top(t).worker ELSE NoWorker]
  BY <1>2, <1>5, <1>11 DEF Set
<1>13. frames' \in [Threads -> Seq(FrameSet)] /\ frames'[t] = <<g, h>>
  <2>1. <<g, h>> \in Seq(FrameSet)
    BY <1>8, <1>10
  <2> QED BY <1>11, <2>1
<1>14. /\ current' \in [Threads -> Scope]
       /\ current'[t] = IF enabled THEN Top(t).worker ELSE NoWorker
  BY <1>5, <1>11, <1>12, ScopeIs
<1>15. \A u \in Threads : u # t => frames'[u] = frames[u] /\ current'[u] = current[u]
  BY <1>11, <1>12
<1>16. /\ enabled' = enabled /\ ended' = ended /\ recording' = recording /\ counters' = counters
       /\ recv_count' = recv_count /\ snapshot' = snapshot /\ arriving' = arriving
       /\ owner' = owner /\ seen' = seen /\ calls' = calls /\ unsent' \subseteq unsent
  BY <1>1, <1>2 DEF profile, queries, ending
<1>17. Types'
  BY <1>13, <1>14, <1>16 DEF Types
<1>18. OwnerInv'
  BY <1>16 DEF OwnerInv
<1>19. /\ Len(frames'[t]) = 2 /\ frames'[t][1] = g /\ frames'[t][2] = h
       /\ Top(t)' = h /\ frames'[t] # << >>
  BY <1>13 DEF Top
<1>20. FrameOf(g)'
  BY <1>5, <1>8 DEF FrameOf, OfWorker, OfNobody
<1>21. FrameOf(h)'
  <2>1. m \in Buffered \ unsent'
    BY <1>1 DEF Types
  <2>2. \A e \in owner' : ~ (e.operation = "flush" /\ e.message = m)
    BY <1>16 DEF OwnerInv
  <2> QED BY <1>5, <1>9, <2>1, <2>2 DEF FrameOf, OfWorker, OfNobody
<1>22. ASSUME NEW u \in Threads PROVE StackOf(u)'
  <2>1. CASE u = t
    <3>1. \A i \in 1 .. Len(frames[t])' : frames'[t][i] \in {g, h}
      BY <1>13
    <3>2. \A i \in 1 .. Len(frames[t])' : FrameOf(frames[t][i])'
      BY <1>20, <1>21, <3>1 DEF FrameOf
    <3>3. current'[t] = IF enabled' /\ frames'[t] # << >> THEN Top(t)'.worker ELSE NoWorker
      BY <1>9, <1>14, <1>16, <1>19
    <3>4. /\ frames'[t][1].kind = "filled" /\ frames'[t][1].previous = NoWorker
          /\ frames'[t][2].kind = "flush" /\ frames'[t][2].worker = frames'[t][1].worker
          /\ enabled' => frames'[t][2].previous = frames'[t][1].worker
          /\ ~enabled' => frames'[t][2].previous = NoWorker
      BY <1>5, <1>8, <1>9, <1>16, <1>19
    <3>5. Len(frames'[t]) <= 2 /\ Len(frames'[t]) # 1
      BY <1>19
    <3>6. StackOf(t)'
      BY ONLY <3>2, <3>3, <3>4, <3>5 DEF StackOf
    <3> QED BY <2>1, <3>6
  <2>2. CASE u # t
    BY <1>15, <1>16, <2>2, StackKept
  <2> QED BY <2>1, <2>2
<1>23. FlushesApart'
  <2>1. Top(t)'.message \subseteq unsent
    BY <1>9, <1>19
  <2> QED BY <1>15, <2>1, StillApart
<1> QED BY <1>17, <1>18, <1>22, <1>23 DEF StackInv, FlushesApart

(* Leaving a call, a flush being measured as it is left.                   *)
LEMMA LeaveKeeps ==
  ASSUME Types, StackInv, OwnerInv, NEW t \in Threads, Leaves(t),
         UNCHANGED profile,
         seen' \in [Threads -> Nat], snapshot' \in [Threads -> Seq(Nat)],
         \/ UNCHANGED <<recording, owner>>
         \/ \E e : Measures(t, e) /\ e.operation = "flush"
  PROVE  Types' /\ StackInv' /\ OwnerInv' /\ ~ In(t, {"am_profile"})'
<1>1. /\ frames[t] # << >>
      /\ frames' = [frames EXCEPT ![t] = SubSeq(frames[t], 1, Len(frames[t]) - 1)]
      /\ current' = [current EXCEPT ![t] = IF enabled THEN Top(t).previous ELSE NoWorker]
      /\ frames \in [Threads -> Seq(FrameSet)]
      /\ current \in [Threads -> Scope]
      /\ enabled' = enabled /\ unsent' = unsent /\ calls' = calls /\ arriving' = arriving
      /\ ended' = ended /\ counters' = counters /\ recv_count' = recv_count
  BY DEF Leaves, Types, profile, ending
<1>2. /\ frames[t] \in Seq(FrameSet) /\ Top(t) \in FrameSet /\ StackOf(t)
      /\ Len(frames[t]) \in {1, 2} /\ Top(t) = frames[t][Len(frames[t])]
  BY <1>1, TopIs
<1>3. PICK n : n = Len(frames[t])
  OBVIOUS
<1>4. PICK S : S = SubSeq(frames[t], 1, n - 1)
  OBVIOUS
<1>5. n = 1 => S = << >>
  BY <1>4, SubSeqEmpty
<1>6. n = 2 => S = <<frames[t][1]>> /\ frames[t][1] \in FrameSet
  <2> SUFFICES ASSUME n = 2 PROVE S = <<frames[t][1]>> /\ frames[t][1] \in FrameSet
    OBVIOUS
  <2>1. 1 \in 1 .. Len(frames[t])
    <3>1. Len(frames[t]) = 2
      BY <1>3
    <3> QED BY ONLY <3>1
  <2>2. frames[t][1] \in FrameSet
    BY <1>2, <2>1, ElementOfSeq
  <2>3. \A i \in 1 .. 1 : frames[t][i] \in FrameSet
    BY <2>2
  <2>4. S \in Seq(FrameSet) /\ Len(S) = 1 /\ S[1] = frames[t][1]
    <3>1. S = SubSeq(frames[t], 1, 1)
      BY <1>4
    <3> QED BY <2>3, <3>1, SubSeqProperties
  <2> QED BY <2>2, <2>4
<1>7. frames'[t] = S /\ S \in Seq(FrameSet)
  <2>1. n = 1 => S \in Seq(FrameSet)
    BY <1>5, EmptySeq
  <2>2. n = 2 => S \in Seq(FrameSet)
    <3>1. \A x \in FrameSet : <<x>> \in Seq(FrameSet)
      OBVIOUS
    <3> QED BY ONLY <1>6, <3>1, Zenon
  <2> QED BY <1>1, <1>2, <1>3, <1>4, <2>1, <2>2
<1>8. PICK g : g = frames[t][1]
  OBVIOUS
<1>9. n = 2 => frames'[t] = <<g>>
  BY ONLY <1>6, <1>7, <1>8, Zenon
<1>10. n = 2 => Len(frames'[t]) = 1 /\ frames'[t][1] = g /\ frames'[t] # << >>
  <2>1. \A x : Len(<<x>>) = 1 /\ <<x>>[1] = x /\ <<x>> # << >>
    OBVIOUS
  <2> QED BY ONLY <1>9, <2>1, Zenon
<1>11. n = 2 => Top(t)' = g
  <2>1. Top(t)' = frames'[t][Len(frames'[t])]
    BY DEF Top
  <2> QED BY ONLY <1>10, <2>1
<1>12. frames' \in [Threads -> Seq(FrameSet)]
  BY <1>1, <1>3, <1>4, <1>7
<1>13. /\ current' \in [Threads -> Scope]
      /\ current'[t] = IF enabled THEN Top(t).previous ELSE NoWorker
  <2>1. Top(t).previous \in Scope
    BY <1>2 DEF FrameSet
  <2> QED BY <1>1, <2>1, ScopeIs
<1>14. \A u \in Threads : u # t => frames'[u] = frames[u] /\ current'[u] = current[u]
  BY <1>1
<1>15. /\ recording' \in [Threads -> Seq(Addition)]
       /\ owner' \subseteq Owner /\ IsFiniteSet(owner')
       /\ OwnerInv'
       /\ \A e \in owner' \ owner : e.operation = "flush" /\ In(t, {"flush"})
            /\ e.message \in Top(t).message
  <2>1. CASE UNCHANGED <<recording, owner>>
    BY <1>1, <2>1 DEF Types, OwnerInv
  <2>2. CASE \E e : Measures(t, e) /\ e.operation = "flush"
    <3>1. PICK e : Measures(t, e) /\ e.operation = "flush"
      BY <2>2
    <3>2. /\ owner' = owner \cup {e} /\ e \in Owner
          /\ recording' = [recording EXCEPT ![t] = Full(e)]
          /\ e.message \in Buffered \ unsent
          /\ In(t, {"flush"}) /\ e.message \in Top(t).message
      BY <3>1 DEF Measures
    <3>3. Full(e) \in Seq(Addition)
      BY <3>2, FullShape DEF AdditionsOf
    <3>4. recording' \in [Threads -> Seq(Addition)]
      BY <3>2, <3>3 DEF Types
    <3>5. owner' \subseteq Owner /\ IsFiniteSet(owner')
      BY <3>2, FS_AddElement DEF Types
    <3>6. OwnerInv'
      BY <1>1, <3>1, <3>2 DEF OwnerInv
    <3> QED BY <3>1, <3>2, <3>4, <3>5, <3>6
  <2> QED BY <2>1, <2>2
<1>16. Types'
  BY <1>1, <1>12, <1>13, <1>15 DEF Types
<1>17. ~ In(t, {"flush"})' /\ ~ In(t, {"am_profile"})'
  <2>1. n = 2 => frames[t][1].kind = "filled"
    BY <1>2, <1>3 DEF StackOf
  <2> QED BY <1>2, <1>3, <1>5, <1>7, <1>8, <1>11, <2>1 DEF In
<1>18. FlushesApart'
  BY <1>14, <1>17, StillApart
<1>19. ASSUME NEW u \in Threads, u # t PROVE StackOf(u)'
  <2>1. \A e \in owner' \ owner : e.operation = "flush" /\ In(u, {"flush"}) =>
          e.message \notin Top(u).message
    BY <1>15, <1>19 DEF StackInv
  <2> QED BY <1>1, <1>14, <1>19, <2>1, StackKept
<1>20. StackOf(t)'
  <2>1. CASE n = 1
    <3>1. frames'[t] = << >> /\ Len(frames'[t]) = 0
      BY <1>5, <1>7, <2>1
    <3>2. Top(t).previous = NoWorker
      BY <1>2, <1>3, <2>1 DEF StackOf
    <3>3. current'[t] = NoWorker
      BY <1>13, <3>2
    <3> QED BY ONLY <3>1, <3>3 DEF StackOf
  <2>2. CASE n = 2
    <3>2. /\ frames'[t] = <<g>> /\ Len(frames'[t]) = 1 /\ frames'[t][1] = g
          /\ frames'[t] # << >> /\ Top(t)' = g
      BY <1>9, <1>10, <1>11, <2>2
    <3>3. /\ g.kind = "filled" /\ g.previous = NoWorker
          /\ enabled => Top(t).previous = g.worker
          /\ ~enabled => Top(t).previous = NoWorker
          /\ FrameOf(g)
      BY <1>2, <1>3, <1>8, <2>2 DEF StackOf
    <3>4. FrameOf(g)'
      BY <3>3 DEF FrameOf
    <3>1. \A i \in 1 .. Len(frames[t])' : frames'[t][i] = g
      BY ONLY <3>2
    <3>5. \A i \in 1 .. Len(frames[t])' : FrameOf(frames[t][i])'
      BY ONLY <3>1, <3>4 DEF FrameOf
    <3>6. current'[t] = IF enabled' /\ frames'[t] # << >> THEN Top(t)'.worker ELSE NoWorker
      <4>1. current'[t] = IF enabled THEN g.worker ELSE NoWorker
        BY <1>13, <3>3
      <4> QED BY ONLY <1>1, <3>2, <4>1, Zenon
    <3>7. frames'[t][1].previous = NoWorker /\ Len(frames'[t]) <= 2 /\ Len(frames'[t]) # 2
      BY <3>2, <3>3
    <3> QED BY ONLY <3>5, <3>6, <3>7 DEF StackOf
  <2> QED BY <1>2, <1>3, <2>1, <2>2
<1> QED BY <1>15, <1>16, <1>17, <1>18, <1>19, <1>20 DEF StackInv, FlushesApart

(* A receive, measured in the call that goes on.                           *)
LEMMA MeasureKeeps ==
  ASSUME Types, StackInv, OwnerInv, NEW t \in Threads, NEW e, Measures(t, e),
         e.operation # "flush", UNCHANGED <<frames, current>>
  PROVE  Types' /\ StackInv' /\ OwnerInv'
<1>1. /\ owner' = owner \cup {e} /\ e \in Owner
      /\ recording' = [recording EXCEPT ![t] = Full(e)]
      /\ enabled' = enabled /\ ended' = ended /\ counters' = counters /\ recv_count' = recv_count
      /\ snapshot' = snapshot /\ seen' = seen /\ unsent' = unsent /\ calls' = calls
      /\ frames' = frames /\ current' = current
  BY DEF Measures, profile, queries, ending
<1>2. /\ e.operation = "remote_receive" => e.message \in arriving /\ arriving' = arriving \ {e.message}
      /\ e.operation # "remote_receive" => e.message \in Buffered \ unsent /\ arriving' = arriving
  BY DEF Measures
<1>3. Types'
  <2>1. Full(e) \in Seq(Addition)
    BY <1>1, FullShape DEF AdditionsOf
  <2>2. recording' \in [Threads -> Seq(Addition)]
    BY <1>1, <2>1 DEF Types
  <2>3. owner' \subseteq Owner /\ IsFiniteSet(owner')
    BY <1>1, FS_AddElement DEF Types
  <2>4. arriving' \subseteq Incoming
    BY <1>2 DEF Types
  <2> QED BY <1>1, <2>2, <2>3, <2>4 DEF Types
<1>4. OwnerInv'
  BY <1>1, <1>2 DEF OwnerInv, Types
<1>5. ASSUME NEW u \in Threads PROVE StackOf(u)'
  BY <1>1, StackKept
<1>6. FlushesApart'
  BY <1>1, StillApart DEF In, Top
<1> QED BY <1>3, <1>4, <1>5, <1>6 DEF StackInv, FlushesApart

(* Steps that neither enter nor leave a call, nor measure.                 *)
LEMMA QuietKeeps ==
  ASSUME Types, StackInv, OwnerInv,
         UNCHANGED <<enabled, frames, current, owner, arriving, unsent, calls, seen>>,
         ended' \in BOOLEAN,
         recording' \in [Threads -> Seq(Addition)],
         counters' \in [Scope -> [Operation -> [Counter -> Nat]]],
         recv_count' \in Nat,
         snapshot' \in [Threads -> Seq(Nat)]
  PROVE  Types' /\ StackInv' /\ OwnerInv'
<1>1. Types'
  BY DEF Types
<1>2. OwnerInv'
  BY DEF OwnerInv
<1>3. StackInv'
  <2>1. \A f : FrameOf(f)' <=> FrameOf(f)
    BY DEF FrameOf
  <2>2. \A u : Top(u)' = Top(u) /\ (In(u, {"flush"})' <=> In(u, {"flush"}))
    BY DEF Top, In
  <2>3. ASSUME NEW u \in Threads PROVE StackOf(u)'
    BY StackKept
  <2>4. FlushesApart'
    BY <2>2 DEF StackInv, FlushesApart
  <2> QED BY <2>3, <2>4 DEF StackInv, FlushesApart
<1> QED BY <1>1, <1>2, <1>3

(* An addition keeps the counters numbers, and none shrinks.               *)
LEMMA RecordTypes ==
  ASSUME Types, CountInv, NEW t \in Threads, Record(t)
  PROVE  /\ recording' \in [Threads -> Seq(Addition)]
         /\ counters' \in [Scope -> [Operation -> [Counter -> Nat]]]
         /\ recv_count' \in Nat
         /\ \A s \in Scope, o \in Operation, c \in Counter : counters[s][o][c] <= counters'[s][o][c]
<1>1. recording[t] \in Seq(Addition) /\ recording[t] # << >>
  BY DEF Types, Record, Running
<1>2. PICK a : a = Head(recording[t])
  OBVIOUS
<1>3. a \in Addition /\ Tail(recording[t]) \in Seq(Addition)
  BY <1>1, <1>2, HeadTailProperties
<1>4. a.by \in Nat
  BY <1>3 DEF Addition
<1>5. recording' \in [Threads -> Seq(Addition)]
  <2>1. recording' = [recording EXCEPT ![t] = Tail(recording[t])]
    BY DEF Record
  <2>2. recording \in [Threads -> Seq(Addition)]
    BY DEF Types
  <2>3. PICK T \in Seq(Addition) : T = Tail(recording[t])
    BY <1>3
  <2>4. recording' = [recording EXCEPT ![t] = T]
    BY ONLY <2>1, <2>3, Zenon
  <2> QED BY ONLY <2>2, <2>4, SMTT(30)
<1>6. /\ recv_count \in Nat
      /\ counters \in [Scope -> [Operation -> [Counter -> Nat]]]
  BY DEF Types
<1>7. recv_count' \in Nat
  <2>1. recv_count' = recv_count \/ recv_count' = recv_count + a.by
    BY <1>2 DEF Record
  <2>2. PICK n \in Nat : n = a.by
    BY <1>4
  <2> QED BY ONLY <1>6, <2>1, <2>2
<1>8. PICK x, y, z, n : x = a.scope /\ y = a.operation /\ z = a.counter /\ n = a.by
  BY SMTT(30)
<1>9. \/ counters' = counters
      \/ counters' = [counters EXCEPT ![x][y][z] = @ + n]
  BY <1>2, <1>8 DEF Record
<1>10. CASE counters' = counters
  BY <1>5, <1>6, <1>7, <1>10
<1>11. CASE counters' = [counters EXCEPT ![x][y][z] = @ + n]
  <2>1. n \in Nat
    BY <1>4, <1>8
  <2>2. CASE x \in Scope /\ y \in Operation /\ z \in Counter
    <3>1. PICK p : p = counters[x][y][z] + n
      OBVIOUS
    <3>2. p \in Nat /\ counters[x][y][z] <= p
      BY <1>6, <2>1, <2>2, <3>1
    <3>3. counters' = [counters EXCEPT ![x] =
            [counters[x] EXCEPT ![y] = [counters[x][y] EXCEPT ![z] = p]]]
      BY ONLY <1>11, <3>1
    <3>4. [counters[x][y] EXCEPT ![z] = p] \in [Counter -> Nat]
      BY <1>6, <2>2, <3>2
    <3>5. [counters[x] EXCEPT ![y] = [counters[x][y] EXCEPT ![z] = p]] \in [Operation -> [Counter -> Nat]]
      BY <1>6, <2>2, <3>4
    <3>6. counters' \in [Scope -> [Operation -> [Counter -> Nat]]]
      BY <1>6, <2>2, <3>3, <3>5
    <3>7. ASSUME NEW s \in Scope, NEW o \in Operation, NEW c \in Counter
          PROVE  counters'[s][o][c] = IF s = x /\ o = y /\ c = z THEN p ELSE counters[s][o][c]
      BY <1>6, <3>3
    <3>8. ASSUME NEW s \in Scope, NEW o \in Operation, NEW c \in Counter
          PROVE  counters[s][o][c] <= counters'[s][o][c]
      <4>1. counters[s][o][c] \in Nat
        BY <1>6
      <4> QED BY <3>2, <3>7, <4>1
    <3> QED BY <1>5, <1>7, <3>6, <3>8
  <2>3. CASE ~ (x \in Scope /\ y \in Operation /\ z \in Counter)
    <3>1. PICK op \in [Busy -> owner] : CountedBy(op)
      BY SMTT(30) DEF CountInv
    <3>2. t \in Busy /\ RestOf(t, op[t]) /\ op[t] \in Owner
      BY <3>1 DEF Record, Busy, CountedBy, Types
    <3>3. PICK F : F = Full(op[t])
      OBVIOUS
    <3>4. AdditionsOf(F, op[t])
      BY <3>2, <3>3, FullShape
    <3>5. PICK k \in 1 .. Len(F) : recording[t] = From(F, k)
      BY <3>2, <3>3 DEF RestOf
    <3>6. AdditionOf(a, op[t])
      BY <1>2, <3>2, <3>4, <3>5, NextAddition
    <3>7. a.counter = "recv_count"
      BY <1>8, <2>3, <3>2, <3>6, OperationIs DEF AdditionOf, Owner, Receives
    <3>8. counters' = counters
      BY <1>2, <3>7 DEF Record
    <3> QED BY <1>5, <1>6, <1>7, <3>8
  <2> QED BY <2>2, <2>3
<1> QED BY <1>9, <1>10, <1>11, SMTT(30)

-----------------------------------------------------------------------------
(* The loads of snapshot() and the place of each in the profile.           *)

(* The lengths of the sequences of names, and what follows from them.      *)
LEMMA Constants ==
  /\ Len(Operations) = 4 /\ Len(Counters) = 2
  /\ PerScope = 8
  /\ Loads = 8 * (1 + worker_count) /\ Loads \in Nat /\ 8 <= Loads
  /\ Counters[1] = "calls" /\ Counters[2] = "records"
  /\ Operations[1] = "flush" /\ Operations[2] = "progress"
  /\ Operations[3] = "remote_receive" /\ Operations[4] = "loopback_receive"
<1>1. Len(Operations) = 4 /\ Len(Counters) = 2
  BY DEF Operations, Counters
<1>2. PerScope = 8
  BY <1>1 DEF PerScope
<1>3. Loads = 8 * (1 + worker_count) /\ Loads \in Nat /\ 8 <= Loads
  BY <1>2, RecorderAssumption DEF Loads
<1> QED BY <1>1, <1>2, <1>3 DEF Operations, Counters

(* The n-th load is that of one counter.                                   *)
LEMMA PlaceType ==
  ASSUME NEW n \in 1 .. Loads
  PROVE  /\ Place(n) = <<(n - 1) \div 8 - 1, Operations[1 + (((n - 1) % 8) \div 2)],
                         Counters[1 + ((n - 1) % 2)]>>
         /\ Place(n)[1] \in Scope /\ Place(n)[2] \in Operation /\ Place(n)[3] \in Counter
<1>1. Place(n) = <<-1 + ((n - 1) \div 8), Operations[1 + (((n - 1) % 8) \div 2)],
                   Counters[1 + ((n - 1) % 2)]>>
  BY Constants DEF Place, Aggregate
<1>2. n \in Nat /\ 1 <= n /\ n <= 8 * (1 + worker_count) /\ worker_count \in Nat
  BY Constants, RecorderAssumption
<1>3. /\ (n - 1) \div 8 \in 0 .. worker_count
      /\ 1 + (((n - 1) % 8) \div 2) \in 1 .. 4
      /\ 1 + ((n - 1) % 2) \in 1 .. 2
  BY <1>2
<1>4. -1 + ((n - 1) \div 8) = (n - 1) \div 8 - 1 /\ -1 + ((n - 1) \div 8) \in Scope
  BY <1>2, <1>3 DEF Scope, Aggregate
<1>5. Operations[1 + (((n - 1) % 8) \div 2)] \in Operation
  BY <1>3, Constants DEF Operation
<1>6. \A i \in 1 .. 2 : Counters[i] \in Counter
  BY Constants DEF Counter
<1>7. Counters[1 + ((n - 1) % 2)] \in Counter
  BY <1>3, <1>6
<1> QED BY <1>1, <1>4, <1>5, <1>7

(* Each counter is loaded once.                                            *)
LEMMA PlaceOfEach ==
  ASSUME NEW s \in Scope, NEW o \in Operation, NEW c \in Counter
  PROVE  \E n \in 1 .. Loads : Place(n) = <<s, o, c>>
<1>1. PICK i \in 1 .. 4 : Operations[i] = o
  BY Constants DEF Operation
<1>2. PICK j \in 1 .. 2 : Counters[j] = c
  BY Constants DEF Counter
<1>3. s \in Int /\ -1 <= s /\ s <= worker_count - 1 /\ worker_count \in Nat
  BY RecorderAssumption DEF Scope, Aggregate
<1>4. PICK n : n = 8 * (s + 1) + 2 * (i - 1) + j
  OBVIOUS
<1>5. n \in 1 .. 8 * (1 + worker_count)
  BY <1>3, <1>4
<1>6. /\ (n - 1) \div 8 = s + 1
      /\ (n - 1) % 8 = 2 * (i - 1) + j - 1
      /\ (2 * (i - 1) + j - 1) \div 2 = i - 1
      /\ (n - 1) % 2 = j - 1
  BY <1>3, <1>4
<1>7. /\ n \in 1 .. Loads
      /\ (n - 1) \div 8 - 1 = s
      /\ 1 + (((n - 1) % 8) \div 2) = i
      /\ 1 + ((n - 1) % 2) = j
  BY <1>3, <1>5, <1>6, Constants
<1>8. Place(n) = <<s, Operations[i], Counters[j]>>
  BY ONLY <1>7, PlaceType
<1> QED BY <1>1, <1>2, <1>7, <1>8

(* No two loads have the same place.                                       *)
LEMMA PlaceOnce ==
  ASSUME NEW n \in 1 .. Loads, NEW m \in 1 .. Loads, Place(n) = Place(m)
  PROVE  n = m
<1>1. n \in Nat /\ m \in Nat /\ 1 <= n /\ 1 <= m
  BY Constants
<1>2. /\ (n - 1) \div 8 - 1 = (m - 1) \div 8 - 1
      /\ Operations[1 + (((n - 1) % 8) \div 2)] = Operations[1 + (((m - 1) % 8) \div 2)]
      /\ Counters[1 + ((n - 1) % 2)] = Counters[1 + ((m - 1) % 2)]
  BY PlaceType
<1>3. /\ 1 + (((n - 1) % 8) \div 2) \in 1 .. 4 /\ 1 + (((m - 1) % 8) \div 2) \in 1 .. 4
      /\ 1 + ((n - 1) % 2) \in 1 .. 2 /\ 1 + ((m - 1) % 2) \in 1 .. 2
  BY <1>1
<1>4. \A i, j \in 1 .. 4 : Operations[i] = Operations[j] => i = j
  BY Constants
<1>5. \A i, j \in 1 .. 2 : Counters[i] = Counters[j] => i = j
  BY Constants
<1>6. /\ 1 + (((n - 1) % 8) \div 2) = 1 + (((m - 1) % 8) \div 2)
      /\ 1 + ((n - 1) % 2) = 1 + ((m - 1) % 2)
  BY <1>2, <1>3, <1>4, <1>5
<1> QED BY <1>1, <1>2, <1>6

(* A profile has each loaded value at its place.                           *)
LEMMA ProfileAt ==
  ASSUME NEW v, NEW n \in 1 .. Loads
  PROVE  OperationProfile(v)[Place(n)[1]][Place(n)[2]][Place(n)[3]] = v[n]
<1>1. /\ Place(n)[1] \in Scope /\ Place(n)[2] \in Operation /\ Place(n)[3] \in Counter
      /\ Place(n) = <<Place(n)[1], Place(n)[2], Place(n)[3]>>
  BY PlaceType
<1>2. PICK s \in Scope, o \in Operation, c \in Counter :
        s = Place(n)[1] /\ o = Place(n)[2] /\ c = Place(n)[3] /\ Place(n) = <<s, o, c>>
  BY <1>1
<1>3. PICK k : k = CHOOSE q \in 1 .. Loads : Place(q) = <<s, o, c>>
  OBVIOUS
<1>4. k \in 1 .. Loads /\ Place(k) = <<s, o, c>>
  BY <1>2, <1>3
<1>5. k = n
  BY <1>2, <1>4, PlaceOnce
<1>6. OperationProfile(v)[s][o][c] = v[CHOOSE q \in 1 .. Loads : Place(q) = <<s, o, c>>]
  BY DEF OperationProfile
<1> QED BY ONLY <1>2, <1>3, <1>5, <1>6

(* The loads of the values received.                                       *)
LEMMA ReceiveLoads ==
  /\ RemoteLoad \in 1 .. Loads /\ LoopbackLoad \in 1 .. Loads
  /\ Place(RemoteLoad) = <<Aggregate, "remote_receive", "records">>
  /\ Place(LoopbackLoad) = <<Aggregate, "loopback_receive", "records">>
<1>1. RemoteLoad \in 1 .. Loads /\ LoopbackLoad \in 1 .. Loads
  BY Constants DEF RemoteLoad, LoopbackLoad
<1>2. Place(6) = <<Aggregate, "remote_receive", "records">>
  <2>1. (6 - 1) \div 8 = 0 /\ ((6 - 1) % 8) \div 2 = 2 /\ (6 - 1) % 2 = 1
    OBVIOUS
  <2> QED BY <2>1, Constants DEF Place, Aggregate
<1>3. Place(8) = <<Aggregate, "loopback_receive", "records">>
  <2>1. (8 - 1) \div 8 = 0 /\ ((8 - 1) % 8) \div 2 = 3 /\ (8 - 1) % 2 = 1
    OBVIOUS
  <2> QED BY <2>1, Constants DEF Place, Aggregate
<1> QED BY <1>1, <1>2, <1>3 DEF RemoteLoad, LoopbackLoad

-----------------------------------------------------------------------------
(* The profile that is read covers the count that was read before it.      *)

RemoteRecords == counters[Aggregate]["remote_receive"]["records"]
LoopbackRecords == counters[Aggregate]["loopback_receive"]["records"]

(* The two loads are those of the received values.                         *)
LEMMA LoadIs ==
  /\ Load(RemoteLoad) = RemoteRecords
  /\ Load(LoopbackLoad) = LoopbackRecords
BY ReceiveLoads DEF Load, RemoteRecords, LoopbackRecords

(* The numbers of received values are numbers.                             *)
LEMMA RecordsType ==
  ASSUME Types
  PROVE  RemoteRecords \in Nat /\ LoopbackRecords \in Nat
<1>1. Aggregate \in Scope
  BY ScopeIs
<1>2. /\ "remote_receive" \in Operation /\ "loopback_receive" \in Operation
      /\ "records" \in Counter
  BY OperationIs DEF Counter
<1> QED BY <1>1, <1>2 DEF Types, RemoteRecords, LoopbackRecords

(* A thread that records a receive still has to count it: the count comes  *)
(* last.                                                                   *)
LEMMA CountComesLast ==
  ASSUME NEW t, NEW e \in Owner, Receiving(e), RestOf(t, e)
  PROVE  ToCome(t, Aggregate, "receive", "recv_count")
<1>1. PICK F : F = Full(e)
  OBVIOUS
<1>2. AdditionsOf(F, e)
  BY <1>1, FullShape
<1>3. PICK k \in 1 .. Len(F) : recording[t] = From(F, k)
  BY <1>1 DEF RestOf
<1>4. F \in Seq(Addition) /\ Len(F) \in Nat /\ k \in 1 .. Len(F) + 1 /\ Len(F) \in k .. Len(F)
  BY <1>2 DEF AdditionsOf
<1>5. /\ F[Len(F)].scope = Aggregate /\ F[Len(F)].operation = "receive"
      /\ F[Len(F)].counter = "recv_count"
  BY <1>2 DEF AdditionsOf
<1>6. PICK R : R = recording[t]
  OBVIOUS
<1>7. HasKey(R, Aggregate, "receive", "recv_count")
  BY <1>3, <1>4, <1>5, <1>6, RestKeys
<1> QED BY <1>6, <1>7 DEF ToCome, HasKey

(* What has been counted is in the aggregate's counters.                   *)
LEMMA CountCovered ==
  ASSUME Types, CountInv, enabled
  PROVE  recv_count <= RemoteRecords + LoopbackRecords
<1>1. PICK op \in [Busy -> owner] : CountedBy(op)
  BY DEF CountInv
<1>2. PICK A : A = Made(op, MadeIn("remote_receive", Aggregate), Aggregate, "remote_receive", "records")
  OBVIOUS
<1>3. PICK B : B = Made(op, MadeIn("loopback_receive", Aggregate), Aggregate, "loopback_receive",
                        "records")
  OBVIOUS
<1>4. PICK C : C = Made(op, Received, Aggregate, "receive", "recv_count")
  OBVIOUS
<1>5. /\ MadeIn("remote_receive", Aggregate) \subseteq owner
      /\ MadeIn("loopback_receive", Aggregate) \subseteq owner
      /\ Received \subseteq owner
  BY DEF MadeIn, Received
<1>6. /\ A \subseteq Owner /\ IsFiniteSet(A) /\ A \subseteq MadeIn("remote_receive", Aggregate)
      /\ B \subseteq Owner /\ IsFiniteSet(B) /\ B \subseteq MadeIn("loopback_receive", Aggregate)
      /\ C \subseteq Received
  BY <1>2, <1>3, <1>4, <1>5, MadeType
<1>7. /\ Aggregate \in Scope /\ "remote_receive" \in Operation /\ "loopback_receive" \in Operation
      /\ "records" \in Counter
  BY ScopeIs, OperationIs DEF Counter
<1>8. /\ RemoteRecords = Tally("records", A)
      /\ LoopbackRecords = Tally("records", B)
      /\ recv_count = Tally("records", C)
  BY <1>1, <1>2, <1>3, <1>4, <1>7 DEF CountedBy, RemoteRecords, LoopbackRecords
<1>9. C \subseteq A \cup B
  <2> SUFFICES ASSUME NEW e \in C PROVE e \in A \cup B
    OBVIOUS
  <2>1. e \in owner /\ e \in Owner /\ Receiving(e) /\ e \in Received
    BY <1>6 DEF Received, Receiving, Types
  <2>2. \A t \in Busy : op[t] # e
    <3> SUFFICES ASSUME NEW t \in Busy, op[t] = e PROVE FALSE
      OBVIOUS
    <3>1. RestOf(t, e)
      BY <1>1 DEF CountedBy
    <3>2. ToCome(t, Aggregate, "receive", "recv_count")
      BY <2>1, <3>1, CountComesLast
    <3> QED BY <1>4, <3>2 DEF Made
  <2>3. e.worker \in Within(Aggregate)
    BY <2>1, ScopeIs DEF Owner, Within
  <2>4. e.operation = "remote_receive" \/ e.operation = "loopback_receive"
    BY <2>1 DEF Receiving, Receives
  <2> QED BY <1>2, <1>3, <2>1, <2>2, <2>3, <2>4 DEF Made, MadeIn
<1>10. A \cap B = {}
  BY <1>6 DEF MadeIn
<1>11. IsFiniteSet(A \cup B) /\ A \cup B \subseteq Owner
  BY <1>6, FS_Union
<1>12. Tally("records", C) <= Tally("records", A \cup B)
  BY <1>9, <1>11, TallyMono
<1>13. Tally("records", A \cup B) = Tally("records", A) + Tally("records", B)
  BY <1>6, <1>10, TallySplit
<1> QED BY <1>8, <1>12, <1>13

(* What a thread has read, and what it would read, never shrinks.          *)
LEMMA SnapshotKept ==
  ASSUME Types, Types', NEW t \in Threads, SnapshotOf(t),
         snapshot'[t] = snapshot[t], seen'[t] = seen[t], enabled' = enabled,
         In(t, {"am_profile"})' <=> In(t, {"am_profile"}),
         RemoteRecords <= RemoteRecords', LoopbackRecords <= LoopbackRecords'
  PROVE  SnapshotOf(t)'
<1>1. /\ Len(snapshot'[t]) <= Loads
      /\ ~enabled' \/ ~In(t, {"am_profile"})' => snapshot'[t] = << >>
  BY DEF SnapshotOf
<1>2. snapshot[t] \in Seq(Nat) /\ seen[t] \in Nat
  BY DEF Types
<1>3. /\ RemoteRecords \in Nat /\ LoopbackRecords \in Nat
      /\ RemoteRecords' \in Nat /\ LoopbackRecords' \in Nat
  <2>1. RemoteRecords' \in Nat /\ LoopbackRecords' \in Nat
    <3>1. counters' \in [Scope -> [Operation -> [Counter -> Nat]]]
      BY DEF Types
    <3> QED BY <3>1, ScopeIs, OperationIs DEF Counter, RemoteRecords, LoopbackRecords
  <2> QED BY <2>1, RecordsType
<1>4. Load(RemoteLoad)' = RemoteRecords' /\ Load(LoopbackLoad)' = LoopbackRecords'
  BY ReceiveLoads DEF Load, RemoteRecords, LoopbackRecords
<1>5. RemoteLoad \in Nat \ {0} /\ LoopbackLoad \in Nat \ {0}
  BY DEF RemoteLoad, LoopbackLoad
<1>6. ASSUME NEW n \in Nat \ {0}, n <= Len(snapshot[t]) PROVE snapshot[t][n] \in Nat
  <2>1. n \in 1 .. Len(snapshot[t])
    BY <1>2, <1>6
  <2> QED BY <1>2, <2>1, ElementOfSeq
<1>7. Reads(t, RemoteLoad) <= Reads(t, RemoteLoad)' /\ Reads(t, RemoteLoad) \in Nat
      /\ Reads(t, RemoteLoad)' \in Nat
  <2>1. CASE RemoteLoad <= Len(snapshot[t])
    BY <1>5, <1>6, <2>1 DEF Reads
  <2>2. CASE ~ (RemoteLoad <= Len(snapshot[t]))
    BY <1>3, <1>4, <2>2, LoadIs DEF Reads
  <2> QED BY <2>1, <2>2
<1>8. Reads(t, LoopbackLoad) <= Reads(t, LoopbackLoad)' /\ Reads(t, LoopbackLoad) \in Nat
      /\ Reads(t, LoopbackLoad)' \in Nat
  <2>1. CASE LoopbackLoad <= Len(snapshot[t])
    BY <1>5, <1>6, <2>1 DEF Reads
  <2>2. CASE ~ (LoopbackLoad <= Len(snapshot[t]))
    BY <1>3, <1>4, <2>2, LoadIs DEF Reads
  <2> QED BY <2>1, <2>2
<1>9. enabled' /\ In(t, {"am_profile"})' =>
        seen'[t] <= Reads(t, RemoteLoad)' + Reads(t, LoopbackLoad)'
  <2> SUFFICES ASSUME enabled', In(t, {"am_profile"})'
               PROVE  seen'[t] <= Reads(t, RemoteLoad)' + Reads(t, LoopbackLoad)'
    OBVIOUS
  <2>1. seen[t] <= Reads(t, RemoteLoad) + Reads(t, LoopbackLoad)
    BY DEF SnapshotOf
  <2> QED BY <1>2, <1>7, <1>8, <2>1
<1> QED BY <1>1, <1>9 DEF SnapshotOf

(* One thread's am_profile(): it begins after it has read the count, goes  *)
(* on from counter to counter, and returns.                                *)
LEMMA LoadKeepsSnapshot ==
  ASSUME Types, NEW t \in Threads, SnapshotInv, LoadCounter(t)
  PROVE  /\ snapshot' \in [Threads -> Seq(Nat)]
         /\ SnapshotInv'
<1>1. /\ In(t, {"am_profile"}) /\ enabled /\ Len(snapshot[t]) < Loads
      /\ snapshot' = [snapshot EXCEPT ![t] = Append(snapshot[t], Load(Len(snapshot[t]) + 1))]
      /\ UNCHANGED <<enabled, frames, profile, seen>>
  BY DEF LoadCounter
<1>2. /\ snapshot \in [Threads -> Seq(Nat)] /\ snapshot[t] \in Seq(Nat)
      /\ counters \in [Scope -> [Operation -> [Counter -> Nat]]]
  BY DEF Types
<1>3. PICK n : n = Len(snapshot[t])
  OBVIOUS
<1>4. n \in Nat /\ n + 1 \in 1 .. Loads
  <2>1. n \in Nat /\ n < Loads /\ Loads \in Nat
    BY <1>1, <1>2, <1>3, Constants
  <2> QED BY <2>1
<1>5. PICK v : v = Load(n + 1)
  OBVIOUS
<1>6. v \in Nat
  BY <1>2, <1>4, <1>5, PlaceType DEF Load
<1>7. PICK q : q = Append(snapshot[t], v)
  OBVIOUS
<1>8. /\ q \in Seq(Nat) /\ Len(q) = n + 1 /\ q[n + 1] = v
      /\ \A i \in 1 .. n : q[i] = snapshot[t][i]
  BY <1>2, <1>3, <1>6, <1>7, AppendProperties
<1>9. snapshot' = [snapshot EXCEPT ![t] = q]
  BY <1>1, <1>3, <1>5, <1>7
<1>10. /\ snapshot' \in [Threads -> Seq(Nat)] /\ snapshot'[t] = q
       /\ \A u \in Threads : u # t => snapshot'[u] = snapshot[u]
  BY <1>2, <1>8, <1>9
<1>11. \A m : Load(m)' = Load(m)
  BY <1>1 DEF Load, profile
<1>12. \A u : In(u, {"am_profile"})' <=> In(u, {"am_profile"})
  BY <1>1 DEF In, Top
<1>13. ASSUME NEW u \in Threads, u # t PROVE SnapshotOf(u)'
  <2>1. Reads(u, RemoteLoad)' = Reads(u, RemoteLoad) /\ Reads(u, LoopbackLoad)' = Reads(u, LoopbackLoad)
    BY <1>10, <1>11, <1>13 DEF Reads
  <2> QED BY <1>1, <1>10, <1>12, <1>13, <2>1 DEF SnapshotInv, SnapshotOf
<1>14. SnapshotOf(t)'
  <2>1. ASSUME NEW m \in Nat \ {0} PROVE Reads(t, m)' = Reads(t, m)
    <3>1. CASE m <= n
      <4>1. m \in 1 .. n /\ m <= n + 1
        BY <1>4, <3>1
      <4> QED BY <1>3, <1>8, <1>10, <3>1, <4>1 DEF Reads
    <3>2. CASE m = n + 1
      <4>1. ~ (m <= n)
        BY <1>4, <3>2
      <4> QED BY <1>3, <1>5, <1>8, <1>10, <3>2, <4>1 DEF Reads
    <3>3. CASE ~ (m <= n) /\ m # n + 1
      <4>1. ~ (m <= n + 1)
        BY <1>4, <3>3
      <4> QED BY <1>3, <1>8, <1>10, <1>11, <3>3, <4>1 DEF Reads
    <3> QED BY <3>1, <3>2, <3>3
  <2>2. Reads(t, RemoteLoad)' = Reads(t, RemoteLoad) /\ Reads(t, LoopbackLoad)' = Reads(t, LoopbackLoad)
    BY <2>1 DEF RemoteLoad, LoopbackLoad
  <2>3. Len(snapshot'[t]) <= Loads
    BY <1>4, <1>8, <1>10
  <2> QED BY <1>1, <1>12, <2>2, <2>3 DEF SnapshotInv, SnapshotOf
<1> QED BY <1>10, <1>13, <1>14 DEF SnapshotInv

(* A thread that begins to ask for the profile has read a count that the   *)
(* counters cover by then; one that begins another call reads nothing.     *)
LEMMA EnterKeepsSnapshot ==
  ASSUME Types, Types', CountInv, SnapshotInv, NEW t \in Threads, NEW f, Enters(t, f)
  PROVE  SnapshotInv'
<1>1. /\ frames[t] = << >>
      /\ frames' = [frames EXCEPT ![t] = <<f>>]
      /\ frames \in [Threads -> Seq(FrameSet)]
      /\ seen \in [Threads -> Nat]
      /\ seen' = IF f.kind = "am_profile" THEN [seen EXCEPT ![t] = recv_count] ELSE seen
      /\ snapshot' = snapshot /\ counters' = counters /\ enabled' = enabled
  BY DEF Enters, profile, Types
<1>2. RemoteRecords' = RemoteRecords /\ LoopbackRecords' = LoopbackRecords
  BY <1>1 DEF RemoteRecords, LoopbackRecords
<1>3. ASSUME NEW u \in Threads, u # t PROVE SnapshotOf(u)'
  <2>1. frames'[u] = frames[u] /\ seen'[u] = seen[u]
    BY <1>1, <1>3
  <2>2. In(u, {"am_profile"})' <=> In(u, {"am_profile"})
    BY <2>1 DEF In, Top
  <2>3. RemoteRecords <= RemoteRecords' /\ LoopbackRecords <= LoopbackRecords'
    BY <1>2, RecordsType
  <2> QED BY <1>1, <2>1, <2>2, <2>3, SnapshotKept DEF SnapshotInv
<1>4. SnapshotOf(t)'
  <2>1. snapshot[t] = << >>
    BY <1>1 DEF SnapshotInv, SnapshotOf, In
  <2>2. Len(snapshot'[t]) = 0 /\ snapshot'[t] = << >>
    BY <1>1, <2>1
  <2>3. Reads(t, RemoteLoad)' = RemoteRecords /\ Reads(t, LoopbackLoad)' = LoopbackRecords
    <3>1. ~ (RemoteLoad <= Len(snapshot'[t])) /\ ~ (LoopbackLoad <= Len(snapshot'[t]))
      BY <2>2 DEF RemoteLoad, LoopbackLoad
    <3>2. Load(RemoteLoad)' = RemoteRecords /\ Load(LoopbackLoad)' = LoopbackRecords
      BY <1>2, ReceiveLoads DEF Load, RemoteRecords, LoopbackRecords
    <3> QED BY <3>1, <3>2 DEF Reads
  <2>4. In(t, {"am_profile"})' => f.kind = "am_profile"
    <3>1. frames'[t] = <<f>>
      BY <1>1
    <3>2. \A x : Len(<<x>>) = 1 /\ <<x>>[1] = x
      OBVIOUS
    <3> QED BY <3>1, <3>2 DEF In, Top
  <2>5. f.kind = "am_profile" => seen'[t] = recv_count
    BY <1>1
  <2>6. enabled => recv_count <= RemoteRecords + LoopbackRecords
    BY CountCovered
  <2>7. Len(snapshot'[t]) <= Loads
    BY <2>2, Constants
  <2>8. enabled' /\ In(t, {"am_profile"})' =>
          seen'[t] <= Reads(t, RemoteLoad)' + Reads(t, LoopbackLoad)'
    BY <1>1, <2>3, <2>4, <2>5, <2>6
  <2> QED BY <2>2, <2>7, <2>8 DEF SnapshotOf
<1> QED BY <1>3, <1>4 DEF SnapshotInv

(* The other steps of a thread leave what it and the others have read.     *)
LEMMA OtherKeepsSnapshot ==
  ASSUME Types, Types', SnapshotInv, UNCHANGED <<enabled, queries>>,
         \A u \in Threads : In(u, {"am_profile"})' <=> In(u, {"am_profile"}),
         RemoteRecords <= RemoteRecords', LoopbackRecords <= LoopbackRecords'
  PROVE  SnapshotInv'
<1>1. ASSUME NEW u \in Threads PROVE SnapshotOf(u)'
  <2>1. snapshot' = snapshot /\ seen' = seen
    BY DEF queries
  <2> QED BY <2>1, SnapshotKept DEF SnapshotInv
<1> QED BY <1>1 DEF SnapshotInv

-----------------------------------------------------------------------------
(* The end of the phase.                                                   *)

(* The profile that is submitted is that of the counters as they are.      *)
LEMMA ProfileIsCounters ==
  ASSUME Types
  PROVE  OperationProfile([n \in 1 .. Loads |-> Load(n)]) = counters
<1>1. PICK v : v = [n \in 1 .. Loads |-> Load(n)]
  OBVIOUS
<1>2. PICK p : p = OperationProfile(v)
  OBVIOUS
<1>3. ASSUME NEW s \in Scope, NEW o \in Operation, NEW c \in Counter
      PROVE  p[s][o][c] = counters[s][o][c]
  <2>1. PICK n \in 1 .. Loads : Place(n) = <<s, o, c>>
    BY PlaceOfEach
  <2>2. Place(n)[1] = s /\ Place(n)[2] = o /\ Place(n)[3] = c
    BY <2>1
  <2>3. p[s][o][c] = v[n]
    BY <1>2, <2>2, ProfileAt
  <2>4. v[n] = counters[s][o][c]
    BY <1>1, <2>2 DEF Load
  <2> QED BY <2>3, <2>4
<1>4. /\ p = [s \in Scope |-> p[s]]
      /\ \A s \in Scope : p[s] = [o \in Operation |-> p[s][o]]
      /\ \A s \in Scope, o \in Operation : p[s][o] = [c \in Counter |-> p[s][o][c]]
  BY <1>2 DEF OperationProfile
<1>5. counters \in [Scope -> [Operation -> [Counter -> Nat]]]
  BY DEF Types
<1>6. ASSUME NEW s \in Scope PROVE p[s] = counters[s]
  <2>1. ASSUME NEW o \in Operation PROVE p[s][o] = counters[s][o]
    <3>1. counters[s][o] = [c \in Counter |-> counters[s][o][c]]
      BY <1>5
    <3> QED BY <1>3, <1>4, <3>1
  <2>2. counters[s] = [o \in Operation |-> counters[s][o]]
    BY <1>5
  <2> QED BY <1>4, <2>1, <2>2
<1>7. counters = [s \in Scope |-> counters[s]]
  BY <1>5
<1>8. p = counters
  BY <1>4, <1>6, <1>7
<1> QED BY <1>1, <1>2, <1>8

(* Before the end of the phase nothing is submitted.                       *)
LEMMA EndKept ==
  ASSUME EndInv, ~ended, UNCHANGED ending
  PROVE  EndInv'
BY DEF EndInv, ending

(* A thread that is in a call, or records, does so before the end.         *)
LEMMA BusyBeforeEnd ==
  ASSUME EndInv, NEW t \in Threads, frames[t] # << >> \/ ~Running(t)
  PROVE  ~ended
BY DEF EndInv, Outermost

-----------------------------------------------------------------------------
(* The inductive invariant.                                                *)

(* It holds when the phase begins.                                         *)
LEMMA InvInit == Init => IInv
<1> SUFFICES ASSUME Init PROVE IInv
  OBVIOUS
<1>1. /\ frames = [t \in Threads |-> << >>] /\ recording = [t \in Threads |-> << >>]
      /\ snapshot = [t \in Threads |-> << >>] /\ owner = {} /\ ended = FALSE
      /\ current = [t \in Threads |-> NoWorker] /\ submitted = << >>
      /\ counters = [s \in Scope |-> Zero] /\ recv_count = 0
      /\ seen = [t \in Threads |-> 0] /\ calls = [t \in Threads |-> 0]
      /\ enabled \in BOOLEAN /\ arriving = Incoming /\ unsent = Buffered
  BY DEF Init
<1>2. Zero \in [Operation -> [Counter -> Nat]]
  BY DEF Zero
<1>3. Types
  <2>1. NoWorker \in Scope /\ 0 \in 0 .. MaxCalls
    BY ScopeIs, RecorderAssumption
  <2>2. IsFiniteSet({})
    BY FS_EmptySet
  <2>3. \A S : << >> \in Seq(S)
    BY EmptySeq
  <2>4. /\ current \in [Threads -> Scope]
        /\ frames \in [Threads -> Seq(FrameSet)]
        /\ recording \in [Threads -> Seq(Addition)]
        /\ snapshot \in [Threads -> Seq(Nat)]
    BY <1>1, <2>1, <2>3
  <2>5. counters \in [Scope -> [Operation -> [Counter -> Nat]]]
    BY <1>1, <1>2
  <2>6. /\ recv_count \in Nat /\ seen \in [Threads -> Nat] /\ calls \in [Threads -> 0 .. MaxCalls]
        /\ ended \in BOOLEAN /\ owner \subseteq Owner /\ IsFiniteSet(owner)
    BY <1>1, <2>1, <2>2
  <2> QED BY <1>1, <2>4, <2>5, <2>6 DEF Types
<1>4. StackInv
  <2>1. \A t \in Threads : Len(frames[t]) = 0 /\ frames[t] = << >>
    BY <1>1
  <2> QED BY <1>1, <2>1 DEF StackInv, StackOf, In
<1>5. OwnerInv
  BY <1>1 DEF OwnerInv
<1>6. CountInv
  <2>1. Busy = {}
    BY <1>1 DEF Busy, Running
  <2>2. PICK op : op = [t \in {} |-> {}]
    OBVIOUS
  <2>3. op \in [Busy -> owner]
    BY <2>1, <2>2
  <2>4. /\ \A s \in Scope, o \in Operation, c \in Counter :
             Made(op, MadeIn(o, s), s, o, c) = {}
        /\ Made(op, Received, Aggregate, "receive", "recv_count") = {}
    BY <1>1 DEF Made, MadeIn, Received
  <2>5. \A s \in Scope, o \in Operation, c \in Counter : counters[s][o][c] = 0
    BY <1>1 DEF Zero
  <2>6. CountedBy(op)
    BY <1>1, <2>1, <2>4, <2>5, TallyEmpty DEF CountedBy
  <2> QED BY <2>3, <2>6 DEF CountInv
<1>7. SnapshotInv
  <2>1. \A t \in Threads : Len(snapshot[t]) = 0 /\ snapshot[t] = << >> /\ ~ In(t, {"am_profile"})
    BY <1>1 DEF In
  <2> QED BY <2>1, Constants DEF SnapshotInv, SnapshotOf
<1>8. EndInv
  BY <1>1 DEF EndInv
<1> QED BY <1>3, <1>4, <1>5, <1>6, <1>7, <1>8 DEF IInv

(* A step that leaves the counters alone.                                  *)
LEMMA SameRecords ==
  ASSUME Types, UNCHANGED counters
  PROVE  RemoteRecords <= RemoteRecords' /\ LoopbackRecords <= LoopbackRecords'
BY RecordsType DEF RemoteRecords, LoopbackRecords

(* A step that measures an operation has it counted by its thread.         *)
LEMMA MeasureCounts ==
  ASSUME Types, CountInv, NEW t \in Threads, NEW e, Measures(t, e)
  PROVE  CountInv'
<1>1. /\ e \in Owner /\ e \notin owner /\ owner' = owner \cup {e} /\ Running(t)
      /\ recording' = [recording EXCEPT ![t] = Full(e)]
      /\ enabled' = enabled /\ UNCHANGED profile
  BY DEF Measures
<1> QED BY <1>1, StartCounts

(* The invariant, when a thread enters a call.                             *)
LEMMA InvEnter ==
  ASSUME IInv, NEW t \in Threads, NEW f, Enters(t, f)
  PROVE  IInv'
<1>1. Types' /\ StackInv' /\ OwnerInv'
  BY EnterKeeps DEF IInv
<1>2. CountInv'
  BY SameCounts DEF IInv, Enters
<1>3. SnapshotInv'
  BY <1>1, EnterKeepsSnapshot DEF IInv
<1>4. EndInv'
  BY EndKept DEF IInv, Enters
<1> QED BY <1>1, <1>2, <1>3, <1>4 DEF IInv

(* The invariant, when a post_am() flushes.                                *)
LEMMA InvFlushFull ==
  ASSUME IInv, NEW t \in Threads, FlushFull(t)
  PROVE  IInv'
<1>1. Types' /\ StackInv' /\ OwnerInv'
  BY FlushFullKeeps DEF IInv
<1>2. /\ frames[t] # << >> /\ Top(t).kind = "post"
      /\ UNCHANGED <<enabled, recording, profile, queries, ending, owner>>
      /\ \E g, h : frames' = Set(frames, t, <<g, h>>) /\ h.kind = "flush"
  <2>1. PICK m \in unsent :
          frames' = Set(frames, t, <<[Top(t) EXCEPT !.kind = "filled"],
                                    Frame(t, "flush", Top(t).worker, {m})>>)
    BY DEF FlushFull
  <2>2. Frame(t, "flush", Top(t).worker, {m}).kind = "flush"
    BY DEF Frame
  <2> QED BY <2>1, <2>2 DEF FlushFull, In
<1>3. CountInv'
  BY <1>2, SameCounts DEF IInv
<1>4. \A u \in Threads : In(u, {"am_profile"})' <=> In(u, {"am_profile"})
  <2> SUFFICES ASSUME NEW u \in Threads PROVE In(u, {"am_profile"})' <=> In(u, {"am_profile"})
    OBVIOUS
  <2>1. PICK g, h : frames' = Set(frames, t, <<g, h>>) /\ h.kind = "flush"
    BY <1>2
  <2>2. CASE u = t
    <3>1. frames'[t] = <<g, h>>
      BY <2>1 DEF Set, IInv, Types
    <3>2. Top(t)' = h
      BY <3>1 DEF Top
    <3> QED BY <1>2, <2>1, <2>2, <3>2 DEF In
  <2>3. CASE u # t
    <3>1. frames'[u] = frames[u]
      BY <2>1, <2>3 DEF Set, IInv, Types
    <3> QED BY <3>1 DEF In, Top
  <2> QED BY <2>2, <2>3
<1>5. SnapshotInv'
  <2>1. RemoteRecords <= RemoteRecords' /\ LoopbackRecords <= LoopbackRecords'
    BY <1>2, SameRecords DEF IInv, profile
  <2> QED BY <1>1, <1>2, <1>4, <2>1, OtherKeepsSnapshot DEF IInv
<1>6. EndInv'
  BY <1>2, BusyBeforeEnd, EndKept DEF IInv
<1> QED BY <1>1, <1>3, <1>5, <1>6 DEF IInv

(* The invariant, when a message is received.                              *)
LEMMA InvReceive ==
  ASSUME IInv, NEW t \in Threads,
         (\E m \in arriving : Receive(t, m)) \/ ReceiveOwn(t)
  PROVE  IInv'
<1>1. PICK e : Measures(t, e) /\ e.operation # "flush" /\ UNCHANGED <<frames, current>>
  BY ReceivesMeasure, OwnReceivesMeasure DEF IInv
<1>2. Types' /\ StackInv' /\ OwnerInv'
  BY <1>1, MeasureKeeps DEF IInv
<1>3. CountInv'
  BY <1>1, MeasureCounts DEF IInv
<1>4. /\ frames[t] # << >> /\ frames' = frames
      /\ UNCHANGED <<enabled, profile, queries, ending>>
  BY <1>1 DEF Measures
<1>5. SnapshotInv'
  <2>1. \A u \in Threads : In(u, {"am_profile"})' <=> In(u, {"am_profile"})
    BY <1>4 DEF In, Top
  <2>2. RemoteRecords <= RemoteRecords' /\ LoopbackRecords <= LoopbackRecords'
    BY <1>4, SameRecords DEF IInv, profile
  <2> QED BY <1>2, <1>4, <2>1, <2>2, OtherKeepsSnapshot DEF IInv
<1>6. EndInv'
  BY <1>4, BusyBeforeEnd, EndKept DEF IInv
<1> QED BY <1>2, <1>3, <1>5, <1>6 DEF IInv

(* The invariant, when a thread makes an addition.                         *)
LEMMA InvRecord ==
  ASSUME IInv, NEW t \in Threads, Record(t)
  PROVE  IInv'
<1>1. /\ ~Running(t)
      /\ UNCHANGED <<enabled, current, frames, queries, ending, arriving, unsent, calls, owner>>
  BY DEF Record
<1>2. /\ recording' \in [Threads -> Seq(Addition)]
      /\ counters' \in [Scope -> [Operation -> [Counter -> Nat]]]
      /\ recv_count' \in Nat
      /\ \A s \in Scope, o \in Operation, c \in Counter : counters[s][o][c] <= counters'[s][o][c]
  BY RecordTypes DEF IInv
<1>3. Types' /\ StackInv' /\ OwnerInv'
  BY <1>1, <1>2, QuietKeeps DEF IInv, Types, queries, ending
<1>4. CountInv'
  BY RecordCounts DEF IInv
<1>5. SnapshotInv'
  <2>1. \A u \in Threads : In(u, {"am_profile"})' <=> In(u, {"am_profile"})
    BY <1>1 DEF In, Top
  <2>2. /\ Aggregate \in Scope /\ "remote_receive" \in Operation
        /\ "loopback_receive" \in Operation /\ "records" \in Counter
    BY ScopeIs, OperationIs DEF Counter
  <2>3. RemoteRecords <= RemoteRecords' /\ LoopbackRecords <= LoopbackRecords'
    BY <1>2, <2>2 DEF RemoteRecords, LoopbackRecords
  <2> QED BY <1>1, <1>3, <2>1, <2>3, OtherKeepsSnapshot DEF IInv
<1>6. EndInv'
  BY <1>1, BusyBeforeEnd, EndKept DEF IInv
<1> QED BY <1>3, <1>4, <1>5, <1>6, SMTT(30) DEF IInv

(* After a call has been left, its thread asks for no profile.             *)
LEMMA LeftSnapshot ==
  ASSUME Types, Types', SnapshotInv, NEW t \in Threads, Leaves(t), UNCHANGED profile,
         ~ In(t, {"am_profile"})', snapshot'[t] = << >>,
         \A u \in Threads : u # t => snapshot'[u] = snapshot[u] /\ seen'[u] = seen[u]
  PROVE  SnapshotInv'
<1>1. enabled' = enabled /\ counters' = counters
  BY DEF Leaves, profile
<1>2. RemoteRecords <= RemoteRecords' /\ LoopbackRecords <= LoopbackRecords'
  BY <1>1, SameRecords
<1>3. ASSUME NEW u \in Threads, u # t PROVE SnapshotOf(u)'
  <2>1. frames'[u] = frames[u]
    BY <1>3 DEF Leaves, Types
  <2>2. In(u, {"am_profile"})' <=> In(u, {"am_profile"})
    BY <2>1 DEF In, Top
  <2> QED BY <1>1, <1>2, <1>3, <2>2, SnapshotKept DEF SnapshotInv
<1>4. SnapshotOf(t)'
  <2>1. Len(snapshot'[t]) = 0
    OBVIOUS
  <2>2. Len(snapshot'[t]) <= Loads
    BY <2>1, Constants
  <2> QED BY <2>2 DEF SnapshotOf
<1> QED BY <1>3, <1>4 DEF SnapshotInv

(* The invariant, when a call returns.                                     *)
LEMMA InvReturn ==
  ASSUME IInv, NEW t \in Threads, Return(t) \/ ReturnFromFlush(t) \/ ReturnProfile(t)
  PROVE  IInv'
<1>1. /\ frames[t] # << >> /\ ~ ended
      /\ UNCHANGED <<enabled, profile, ending>>
  BY BusyBeforeEnd DEF IInv, Return, ReturnFromFlush, ReturnProfile, In
<1>2. Leaves(t)
  BY <1>1, LeaveIs, FlushMeasures DEF IInv, Return, ReturnProfile
<1>3. \/ UNCHANGED <<recording, owner>>
      \/ \E e : Measures(t, e) /\ e.operation = "flush"
  BY FlushMeasures DEF IInv, Return, ReturnProfile
<1>4. /\ seen' \in [Threads -> Nat] /\ snapshot' \in [Threads -> Seq(Nat)]
      /\ snapshot'[t] = << >>
      /\ \A u \in Threads : u # t => snapshot'[u] = snapshot[u] /\ seen'[u] = seen[u]
  <2>1. seen \in [Threads -> Nat] /\ snapshot \in [Threads -> Seq(Nat)]
    BY DEF IInv, Types
  <2>2. CASE ReturnProfile(t)
    <3>1. snapshot' = [snapshot EXCEPT ![t] = << >>] /\ seen' = [seen EXCEPT ![t] = 0]
      BY <2>2 DEF ReturnProfile, Set
    <3>2. << >> \in Seq(Nat)
      BY EmptySeq
    <3> QED BY <2>1, <3>1, <3>2
  <2>3. CASE Return(t) \/ ReturnFromFlush(t)
    <3>1. snapshot' = snapshot /\ seen' = seen /\ Top(t).kind # "am_profile"
      BY <2>3 DEF Return, ReturnFromFlush, In, queries
    <3>2. snapshot[t] = << >>
      BY <3>1 DEF IInv, SnapshotInv, SnapshotOf, In
    <3> QED BY <2>1, <3>1, <3>2
  <2> QED BY <2>2, <2>3
<1>5. Types' /\ StackInv' /\ OwnerInv' /\ ~ In(t, {"am_profile"})'
  BY <1>1, <1>2, <1>3, <1>4, LeaveKeeps DEF IInv
<1>6. CountInv'
  BY <1>1, <1>3, SameCounts, MeasureCounts DEF IInv
<1>7. SnapshotInv'
  BY <1>1, <1>2, <1>4, <1>5, LeftSnapshot DEF IInv
<1>8. EndInv'
  BY <1>1, EndKept DEF IInv
<1> QED BY <1>5, <1>6, <1>7, <1>8 DEF IInv

(* The invariant, when a thread loads a counter.                           *)
LEMMA InvLoad ==
  ASSUME IInv, NEW t \in Threads, LoadCounter(t)
  PROVE  IInv'
<1>1. /\ frames[t] # << >> /\ ~ ended
      /\ UNCHANGED <<enabled, current, frames, recording, profile, seen, ending, arriving, unsent,
                     calls, owner>>
  BY BusyBeforeEnd DEF IInv, LoadCounter, In
<1>2. snapshot' \in [Threads -> Seq(Nat)] /\ SnapshotInv'
  BY LoadKeepsSnapshot DEF IInv
<1>3. Types' /\ StackInv' /\ OwnerInv'
  BY <1>1, <1>2, QuietKeeps DEF IInv, Types, profile, ending
<1>4. CountInv'
  BY <1>1, SameCounts DEF IInv
<1>5. EndInv'
  BY <1>1, EndKept DEF IInv
<1> QED BY <1>2, <1>3, <1>4, <1>5 DEF IInv

(* The invariant, when the phase ends.                                     *)
LEMMA InvFinalize ==
  ASSUME IInv, FinalizeProfile
  PROVE  IInv'
<1>1. /\ \A t \in Threads : Outermost(t)
      /\ ended' = TRUE
      /\ UNCHANGED <<enabled, current, frames, recording, profile, queries, arriving, unsent, calls,
                     owner>>
  BY DEF FinalizeProfile
<1>2. submitted' = IF enabled THEN <<counters>> ELSE << >>
  BY ProfileIsCounters DEF IInv, FinalizeProfile
<1>3. Types' /\ StackInv' /\ OwnerInv'
  BY <1>1, QuietKeeps DEF IInv, Types, profile, queries
<1>4. CountInv'
  BY <1>1, SameCounts DEF IInv
<1>5. SnapshotInv'
  <2>1. \A u \in Threads : In(u, {"am_profile"})' <=> In(u, {"am_profile"})
    BY <1>1 DEF In, Top
  <2>2. RemoteRecords <= RemoteRecords' /\ LoopbackRecords <= LoopbackRecords'
    BY <1>1, SameRecords DEF IInv, profile
  <2> QED BY <1>1, <1>3, <2>1, <2>2, OtherKeepsSnapshot DEF IInv
<1>6. EndInv'
  BY <1>1, <1>2 DEF EndInv, Outermost, Running, profile
<1> QED BY <1>3, <1>4, <1>5, <1>6 DEF IInv

(* The invariant, when nothing changes.                                    *)
LEMMA InvStutter ==
  ASSUME IInv, UNCHANGED vars
  PROVE  IInv'
<1>1. UNCHANGED <<enabled, current, frames, recording, profile, counters, recv_count, queries, seen,
                  snapshot, ending, submitted, ended, arriving, unsent, calls, owner>>
  BY DEF vars, profile, queries, ending
<1>2. Types' /\ StackInv' /\ OwnerInv'
  BY <1>1, QuietKeeps DEF IInv, Types
<1>3. CountInv'
  BY <1>1, SameCounts DEF IInv
<1>4. SnapshotInv'
  <2>1. \A u \in Threads : In(u, {"am_profile"})' <=> In(u, {"am_profile"})
    BY <1>1 DEF In, Top
  <2>2. RemoteRecords <= RemoteRecords' /\ LoopbackRecords <= LoopbackRecords'
    BY <1>1, SameRecords DEF IInv
  <2> QED BY <1>1, <1>2, <2>1, <2>2, OtherKeepsSnapshot DEF IInv
<1>5. EndInv'
  BY <1>1 DEF IInv, EndInv, Outermost, Running
<1> QED BY <1>2, <1>3, <1>4, <1>5 DEF IInv

(* The recorder keeps the invariant: the calls are nested as they should   *)
(* be, every counter lacks just the additions to come, and what a thread   *)
(* has read of them covers the count it read before.                       *)
(* (record(), ProfileWorkerScope, receive_message_impl(), snapshot().)     *)
THEOREM Inductive == Spec => []IInv
<1>1. Init => IInv
  BY InvInit
<1>2. IInv /\ [Next]_vars => IInv'
  <2> SUFFICES ASSUME IInv, [Next]_vars PROVE IInv'
    OBVIOUS
  <2>1. ASSUME NEW t \in Threads, NEW w \in Worker, Call(t, w) PROVE IInv'
    <3>1. \E f : Enters(t, f)
      BY <2>1, CallsEnter DEF IInv
    <3> QED BY <3>1, InvEnter
  <2>2. ASSUME NEW t \in Threads, Wait(t) \/ CallAmProfile(t) PROVE IInv'
    <3>1. \E f : Enters(t, f)
      BY <2>2, CallsEnter DEF IInv
    <3> QED BY <3>1, InvEnter
  <2>3. ASSUME NEW t \in Threads, FlushFull(t) PROVE IInv'
    BY <2>3, InvFlushFull
  <2>4. ASSUME NEW t \in Threads, (\E m \in arriving : Receive(t, m)) \/ ReceiveOwn(t) PROVE IInv'
    BY <2>4, InvReceive
  <2>5. ASSUME NEW t \in Threads, Record(t) PROVE IInv'
    BY <2>5, InvRecord
  <2>6. ASSUME NEW t \in Threads, Return(t) \/ ReturnFromFlush(t) \/ ReturnProfile(t) PROVE IInv'
    BY <2>6, InvReturn
  <2>7. ASSUME NEW t \in Threads, LoadCounter(t) PROVE IInv'
    BY <2>7, InvLoad
  <2>8. CASE FinalizeProfile
    BY <2>8, InvFinalize
  <2>9. CASE UNCHANGED vars
    BY <2>9, InvStutter
  <2> QED BY <2>1, <2>2, <2>3, <2>4, <2>5, <2>6, <2>7, <2>8, <2>9 DEF Next
<1> QED BY <1>1, <1>2, PTL DEF Spec

-----------------------------------------------------------------------------
(* What the counters, a profile that is asked for and the rows come to.    *)

(* A thread has no more than the additions of one operation to make.       *)
LEMMA FewToCome ==
  ASSUME IInv, NEW t \in Threads
  PROVE  Len(recording[t]) <= 5
<1>1. CASE Running(t)
  <2>1. Len(recording[t]) = 0
    BY <1>1 DEF Running
  <2> QED BY ONLY <2>1
<1>2. CASE ~Running(t)
  <2>1. PICK op \in [Busy -> owner] : CountedBy(op)
    BY DEF IInv, CountInv
  <2>2. RestOf(t, op[t]) /\ op[t] \in Owner
    BY <1>2, <2>1 DEF Busy, CountedBy, IInv, Types
  <2>3. PICK F : F = Full(op[t])
    OBVIOUS
  <2>4. F \in Seq(Addition) /\ Len(F) \in 0 .. 5
    BY <2>2, <2>3, FullShape DEF AdditionsOf
  <2>5. PICK k \in 1 .. Len(F) : recording[t] = From(F, k)
    BY <2>2, <2>3 DEF RestOf
  <2>6. k \in 1 .. Len(F) + 1
    BY <2>4
  <2>7. PICK R : R = recording[t]
    OBVIOUS
  <2>8. Len(R) = Len(F) - k + 1
    BY <2>4, <2>5, <2>6, <2>7, RestShape, ZenonT(40)
  <2>9. Len(R) <= 5
    <3>1. \A n \in 0 .. 5 : \A j \in 1 .. n + 1 : n - j + 1 <= 5
      OBVIOUS
    <3>2. Len(F) - k + 1 <= 5
      BY ONLY <2>4, <2>6, <3>1, Zenon
    <3> QED BY ONLY <2>8, <3>2, Zenon
  <2> QED BY ONLY <2>7, <2>9
<1> QED BY <1>1, <1>2

(* The variables have their types, and a thread that is in no call has no  *)
(* worker index set, however its calls were nested.                        *)
(* (ProfileWorkerScope, current_profile_worker_storage().)                 *)
THEOREM TypeCorrect == Spec => []TypeOK
<1>1. IInv => TypeOK
  <2> SUFFICES ASSUME IInv PROVE TypeOK
    OBVIOUS
  <2>1. Types /\ StackInv
    BY DEF IInv
  <2>2. current \in [Threads -> Worker \cup {NoWorker}]
    BY <2>1, ScopeIs DEF Types
  <2>3. \A t \in Threads : frames[t] = << >> => current[t] = NoWorker
    BY <2>1, OutsideIs
  <2>4. \A t \in Threads : Len(frames[t]) <= 2
    BY <2>1 DEF StackInv, StackOf
  <2> QED BY <2>1, <2>2, <2>3, <2>4, FewToCome DEF Types, TypeOK
<1> QED BY <1>1, Inductive, PTL

(* With no thread between two additions each counter is what it should be. *)
LEMMA CountersExact ==
  ASSUME IInv, enabled, \A t \in Threads : Running(t), NEW o \in Operation, NEW s \in Scope
  PROVE  counters[s][o] = Expected(o, s)
<1>1. PICK op \in [Busy -> owner] : CountedBy(op)
  BY DEF IInv, CountInv
<1>2. Busy = {}
  BY DEF Busy
<1>3. \A c : Made(op, MadeIn(o, s), s, o, c) = MadeIn(o, s)
  BY <1>2 DEF Made
<1>4. \A c \in Counter : counters[s][o][c] = Tally(c, MadeIn(o, s))
  BY <1>1, <1>3 DEF CountedBy
<1>5. counters[s][o] = [c \in Counter |-> counters[s][o][c]]
  BY DEF IInv, Types
<1> QED BY <1>4, <1>5 DEF Expected

(* The counters of each worker are those of the operations measured in its *)
(* own calls, by whatever thread, and the aggregate's are those of all.    *)
(* (record(), measure_receive(), ProfileWorkerScope.)                      *)
THEOREM Attribution == Spec => []AttributionExact
<1>1. IInv => AttributionExact
  BY CountersExact DEF AttributionExact, Measurable
<1> QED BY <1>1, Inductive, PTL

(* A profile covers what was counted before it was asked for, although it  *)
(* is read one counter after the other while other threads receive.        *)
(* (receive_message_impl(), snapshot().)                                   *)
THEOREM ProfileCoversCount == Spec => []SnapshotCoversCount
<1>1. IInv => SnapshotCoversCount
  <2> SUFFICES ASSUME IInv, NEW t \in Threads, Len(snapshot[t]) = Loads
               PROVE  seen[t] <= OperationProfile(snapshot[t])[Aggregate]["remote_receive"]["records"]
                        + OperationProfile(snapshot[t])[Aggregate]["loopback_receive"]["records"]
    BY DEF SnapshotCoversCount
  <2>1. SnapshotOf(t)
    BY DEF IInv, SnapshotInv
  <2>2. snapshot[t] # << >>
    <3>1. Len(<< >>) = 0 /\ Loads # 0
      BY Constants
    <3> QED BY <3>1
  <2>3. seen[t] <= Reads(t, RemoteLoad) + Reads(t, LoopbackLoad)
    BY <2>1, <2>2 DEF SnapshotOf, IInv, Types
  <2>4. RemoteLoad <= Len(snapshot[t]) /\ LoopbackLoad <= Len(snapshot[t])
    BY Constants DEF RemoteLoad, LoopbackLoad
  <2>5. Reads(t, RemoteLoad) = snapshot[t][RemoteLoad] /\ Reads(t, LoopbackLoad) = snapshot[t][LoopbackLoad]
    BY <2>4 DEF Reads
  <2>6. PICK v : v = snapshot[t]
    OBVIOUS
  <2>7. /\ OperationProfile(v)[Aggregate]["remote_receive"]["records"] = v[RemoteLoad]
        /\ OperationProfile(v)[Aggregate]["loopback_receive"]["records"] = v[LoopbackLoad]
    <3>1. \A n \in 1 .. Loads : OperationProfile(v)[Place(n)[1]][Place(n)[2]][Place(n)[3]] = v[n]
      BY ProfileAt
    <3>2. /\ Place(RemoteLoad)[1] = Aggregate /\ Place(RemoteLoad)[2] = "remote_receive"
          /\ Place(RemoteLoad)[3] = "records"
          /\ Place(LoopbackLoad)[1] = Aggregate /\ Place(LoopbackLoad)[2] = "loopback_receive"
          /\ Place(LoopbackLoad)[3] = "records"
      BY ReceiveLoads
    <3>3. RemoteLoad \in 1 .. Loads /\ LoopbackLoad \in 1 .. Loads
      BY ReceiveLoads
    <3>4. OperationProfile(v)[Place(RemoteLoad)[1]][Place(RemoteLoad)[2]][Place(RemoteLoad)[3]] = v[RemoteLoad]
      BY ONLY <3>1, <3>3, Zenon
    <3>5. OperationProfile(v)[Place(LoopbackLoad)[1]][Place(LoopbackLoad)[2]][Place(LoopbackLoad)[3]]
            = v[LoopbackLoad]
      BY ONLY <3>1, <3>3, Zenon
    <3> QED BY ONLY <3>2, <3>4, <3>5, Zenon
  <2> QED BY <2>3, <2>5, <2>6, <2>7
<1> QED BY <1>1, Inductive, PTL

(* The rows of an operation and a scope are one.                           *)
LEMMA OneRow ==
  ASSUME NEW p, NEW o \in Operation, NEW s \in Scope
  PROVE  \E k \in DOMAIN Rows(p) :
           /\ {r \in DOMAIN Rows(p) : Rows(p)[r].scope = s /\ Rows(p)[r].operation = o} = {k}
           /\ Rows(p)[k].values = p[s][o]
<1>1. DOMAIN Rows(p) = 1 .. 4 * (1 + worker_count)
  BY Constants DEF Rows
<1>2. PICK i \in 1 .. 4 : Operations[i] = o
  BY Constants DEF Operation
<1>3. s \in Int /\ -1 <= s /\ s <= worker_count - 1 /\ worker_count \in Nat
  BY RecorderAssumption DEF Scope, Aggregate
<1>4. PICK k : k = 4 * (s + 1) + i
  OBVIOUS
<1>5. k \in 1 .. 4 * (1 + worker_count)
  BY <1>3, <1>4
<1>6. ASSUME NEW r \in 1 .. 4 * (1 + worker_count)
      PROVE  /\ Rows(p)[r].scope = -1 + ((r - 1) \div 4)
             /\ Rows(p)[r].operation = Operations[1 + ((r - 1) % 4)]
             /\ Rows(p)[r].values =
                  p[-1 + ((r - 1) \div 4)][Operations[1 + ((r - 1) % 4)]]
  <2>1. Rows(p)[r] = Row(p, r)
    BY Constants DEF Rows
  <2> QED BY <2>1, Constants DEF Row, Aggregate, ValuesOf
<1>7. -1 + ((k - 1) \div 4) = s /\ 1 + ((k - 1) % 4) = i
  BY <1>3, <1>4
<1>8. Rows(p)[k].scope = s /\ Rows(p)[k].operation = o /\ Rows(p)[k].values = p[s][o]
  BY ONLY <1>2, <1>5, <1>6, <1>7
<1>9. ASSUME NEW r \in 1 .. 4 * (1 + worker_count), Rows(p)[r].scope = s, Rows(p)[r].operation = o
      PROVE  r = k
  <2>1. -1 + ((r - 1) \div 4) = s /\ Operations[1 + ((r - 1) % 4)] = o
    BY <1>6, <1>9
  <2>2. \A j \in 1 .. 4 : Operations[j] = o => j = i
    BY <1>2, Constants
  <2>3. r \in Nat /\ 1 <= r
    BY <1>3
  <2>4. 1 + ((r - 1) % 4) \in 1 .. 4
    BY <2>3
  <2>5. 1 + ((r - 1) % 4) = i
    BY <2>1, <2>2, <2>4
  <2> QED BY <1>3, <1>4, <2>1, <2>3, <2>5
<1> QED BY <1>1, <1>5, <1>8, <1>9

(* What is written for a phase has, for each operation of the aggregate    *)
(* and of each worker, one row, and for a measured one with just the       *)
(* totals of that operation.                                               *)
(* (finalize_profile(), write_worker_rows().)                              *)
THEOREM RowsRight == Spec => []RowsExact
<1>1. IInv => RowsExact
  <2> SUFFICES ASSUME IInv PROVE RowsExact
    OBVIOUS
  <2>1. /\ submitted = << >> \/ (enabled /\ submitted = <<counters>>)
        /\ ended \/ submitted = << >>
    BY DEF IInv, EndInv, Types
  <2>2. CASE submitted = << >>
    <3>1. Len(submitted) = 0
      BY <2>2
    <3> QED BY <2>2, <3>1 DEF RowsExact
  <2>3. CASE submitted # << >>
    <3>1. enabled /\ submitted = <<counters>> /\ \A t \in Threads : Running(t)
      BY <2>1, <2>3 DEF IInv, EndInv, Outermost
    <3>2. \A i \in 1 .. Len(submitted) : submitted[i] = counters
      BY <3>1
    <3>3. ASSUME NEW o \in Operation, NEW s \in Scope
          PROVE  LET mine == {k \in DOMAIN Rows(counters) :
                                /\ Rows(counters)[k].scope = s
                                /\ Rows(counters)[k].operation = o}
                 IN  /\ Cardinality(mine) = 1
                     /\ \A k \in mine : Rows(counters)[k].values = Expected(o, s)
      <4>1. PICK k \in DOMAIN Rows(counters) :
              /\ {r \in DOMAIN Rows(counters) : /\ Rows(counters)[r].scope = s
                                                /\ Rows(counters)[r].operation = o} = {k}
              /\ Rows(counters)[k].values = counters[s][o]
        BY OneRow
      <4>2. counters[s][o] = Expected(o, s)
        BY <3>1, CountersExact
      <4>3. Cardinality({k}) = 1
        BY FS_Singleton
      <4> QED BY ONLY <4>1, <4>2, <4>3, Zenon
    <3> QED BY <3>1, <3>2, <3>3 DEF RowsExact
  <2> QED BY <2>2, <2>3
<1> QED BY <1>1, Inductive, PTL
=============================================================================
