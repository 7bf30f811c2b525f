------------------------------ MODULE MCNasRun ------------------------------
(* Instances of NasRun.  Twenty keys below 8, in four buckets of two keys. *)
(* Heavy moves the border between two ranks from one iteration to the      *)
(* next; with High the upper ranks are left without buckets; with Middle   *)
(* the second of four ranks has one key; with Gap the third has a bucket   *)
(* without keys.                                                           *)
EXTENDS NasRun

Spread == <<0, 7, 3, 1, 4, 6, 2, 5, 1, 3, 7, 5, 4, 2, 0, 3, 6, 1, 5, 7>>
Heavy == <<0, 1, 0, 6, 1, 1, 0, 3, 0, 1, 1, 0, 2, 3, 6, 5, 4, 7, 2, 3>>
High == <<6, 6, 7, 6, 6, 4, 5, 7, 5, 4, 7, 6, 6, 7, 7, 5, 6, 7, 6, 7>>
Middle == <<0, 0, 3, 6, 7, 0, 1, 1, 0, 0, 1, 1, 4, 5, 4, 5, 5, 6, 7, 6>>
Gap == <<0, 0, 3, 6, 7, 0, 1, 1, 2, 3, 7, 2, 3, 2, 3, 3, 2, 2, 6, 7>>

From0(s) == [i \in 0 .. Len(s) - 1 |-> s[i + 1]]
Job(ranks, strict_, timer, s, wrong_) ==
  [ranks |-> ranks, strict |-> strict_, timer |-> timer, generated |-> From0(s),
   wrong |-> wrong_]

MCTestIndex == From0(<<7, 15>>)

(* Two ranks with every kind of reference table and both values of the     *)
(* timer flag, four ranks that all sort, one rank, a refused job and one   *)
(* of too many ranks.                                                      *)
MCJobs ==
  {Job(2, TRUE, timer, s, w) : timer \in BOOLEAN, s \in {Spread, Heavy, High},
                               w \in {{}, {<<1, 0>>}, {<<2, 1>>}}}
  \cup {Job(4, TRUE, FALSE, s, {}) : s \in {High, Middle}}
  \cup {Job(n, TRUE, TRUE, Spread, {}) : n \in {1, 3, 5}}

SurplusJobs == {Job(3, FALSE, FALSE, Spread, {})}
GapJobs == {Job(4, TRUE, FALSE, Gap, {})}

(* NasRun gives each rank its slice of one sequence of keys.  That the     *)
(* ranks generate such slices, whatever their number: the generator with   *)
(* halves of three bits, from every odd seed and with two multipliers, for *)
(* 2^5 random numbers.                                                     *)
Generator == INSTANCE KeyGeneration WITH t23 <- 8

ASSUME OneStream ==
  \A seed \in {s \in 1 .. 63 : s % 2 = 1}, multiplier \in {5, 13}, ranks \in {1, 2, 4, 8} :
    Generator!KeysOfRanks(ranks, 8, MAX_KEY, seed, multiplier)
      = Generator!generate_keys(8, MAX_KEY, seed, multiplier)
=============================================================================
