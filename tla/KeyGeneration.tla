---------------------------- MODULE KeyGeneration ----------------------------
(***************************************************************************)
(* The generation of the keys: randlc(), the linear congruential generator *)
(* of the NAS suite, in the arithmetic of its halves; find_my_seed(),      *)
(* which starts each rank where its part of the one stream of random       *)
(* numbers begins; and generate_keys(), four numbers for a key.            *)
(*                                                                         *)
(* The code computes in doubles that hold integers below 2^47, scaled by   *)
(* powers of two, and takes int(x) of nonnegative x.  Both are exact as    *)
(* long as the integers fit (RandlcFits), so that here they are integers   *)
(* and their quotients.  The number randlc() returns, r46 * seed, is given *)
(* as the seed it leaves.                                                  *)
(***************************************************************************)
EXTENDS Integers

CONSTANT t23      \* 2^23

t46 == t23 * t23

-----------------------------------------------------------------------------
(* The products of the halves in randlc(): seed = t23 * x1 + x2, and the   *)
(* multiplier likewise; the product of the upper halves would be a         *)
(* multiple of t46.                                                        *)
Upper(x) == x \div t23
Lower(x) == x - t23 * Upper(x)

Middle(seed, multiplier) ==
  Upper(multiplier) * Lower(seed) + Lower(multiplier) * Upper(seed)

SumOfProducts(seed, multiplier) ==
  t23 * Lower(Middle(seed, multiplier)) + Lower(multiplier) * Lower(seed)

randlc(seed, multiplier) ==
  SumOfProducts(seed, multiplier) - t46 * (SumOfProducts(seed, multiplier) \div t46)

-----------------------------------------------------------------------------
(* find_my_seed(): mq is how often the numbers of a rank can be halved, an *)
(* the multiplier squared that many times.                                 *)
Halvings[nq \in Nat] == IF nq <= 1 THEN 0 ELSE 1 + Halvings[nq \div 2]

Squared(multiplier, mq) ==
  LET t1[i \in Nat] == IF i = 0 THEN multiplier ELSE randlc(t1[i - 1], t1[i - 1])
  IN  t1[mq]

(* The loop over the bits of the rank, which ends with the highest one,    *)
(* long before its hundredth pass.                                         *)
Jump(rank, seed, an) ==
  LET loop[kk \in Nat, t1 \in Nat, t2 \in Nat] ==
        LET next == IF kk % 2 = 1 THEN randlc(t1, t2) ELSE t1
        IN  IF kk \div 2 = 0 THEN next ELSE loop[kk \div 2, next, randlc(t2, t2)]
  IN  loop[rank, seed, an]

find_my_seed(rank, comm_size, total, seed, multiplier) ==
  Jump(rank, seed, Squared(multiplier, Halvings[total \div comm_size]))

-----------------------------------------------------------------------------
(* The state of the generator after n numbers.                             *)
After(seed, multiplier, n) ==
  LET state[i \in Nat] == IF i = 0 THEN seed ELSE randlc(state[i - 1], multiplier)
  IN  state[n]

(* key_scale * x, where x is the sum of four numbers.                      *)
KeyOf(a, b, c, d, max_key) == ((max_key \div 4) * (a + b + c + d)) \div t46

generate_keys(local_key_count, max_key, seed, multiplier) ==
  [i \in 0 .. local_key_count - 1 |->
     KeyOf(After(seed, multiplier, 4 * i + 1), After(seed, multiplier, 4 * i + 2),
           After(seed, multiplier, 4 * i + 3), After(seed, multiplier, 4 * i + 4), max_key)]

(* The keys of all the ranks, one rank after the other.                    *)
KeysOfRanks(comm_size, total_keys, max_key, seed, multiplier) ==
  LET local == total_keys \div comm_size
      ofRank == [r \in 0 .. comm_size - 1 |->
                   generate_keys(local, max_key,
                                 find_my_seed(r, comm_size, 4 * total_keys, seed, multiplier),
                                 multiplier)]
  IN  [i \in 0 .. local * comm_size - 1 |-> ofRank[i \div local][i % local]]
=============================================================================
