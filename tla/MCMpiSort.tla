----------------------------- MODULE MCMpiSort -----------------------------
(* Instance of MpiSort.  Twenty keys below 8, in four buckets of two keys: *)
(* the layouts of MCNasRun, and all the jobs of two ranks whose last four  *)
(* keys are chosen from a small set.                                       *)
EXTENDS MpiSort

Spread == <<0, 7, 3, 1, 4, 6, 2, 5, 1, 3, 7, 5, 4, 2, 0, 3, 6, 1, 5, 7>>
Heavy == <<0, 1, 0, 6, 1, 1, 0, 3, 0, 1, 1, 0, 2, 3, 6, 5, 4, 7, 2, 3>>
High == <<6, 6, 7, 6, 6, 4, 5, 7, 5, 4, 7, 6, 6, 7, 7, 5, 6, 7, 6, 7>>
Middle == <<0, 0, 3, 6, 7, 0, 1, 1, 0, 0, 1, 1, 4, 5, 4, 5, 5, 6, 7, 6>>

From0(s) == [i \in 0 .. Len(s) - 1 |-> s[i + 1]]
Job(ranks, strict_, timer, s, wrong_) ==
  [ranks |-> ranks, strict |-> strict_, timer |-> timer, generated |-> From0(s),
   wrong |-> wrong_]

MCTestIndex == From0(<<7, 15>>)

(* Two ranks with every kind of reference table and both values of the     *)
(* timer flag; four ranks that all sort, three of which one is not used,   *)
(* one rank, a refused job and one of too many ranks.                      *)
MCJobs ==
  {Job(2, TRUE, timer, s, w) : timer \in BOOLEAN, s \in {Spread, Heavy, High},
                               w \in {{}, {<<1, 0>>}, {<<2, 1>>}}}
  \cup {Job(2, TRUE, FALSE, SubSeq(Spread, 1, 16) \o <<a, b, c, d>>, {}) :
          a, b, c, d \in {0, 3, 6}}
  \cup {Job(4, TRUE, FALSE, s, {}) : s \in {Spread, High, Middle}}
  \cup {Job(3, strict, TRUE, Spread, {}) : strict \in BOOLEAN}
  \cup {Job(n, TRUE, TRUE, Spread, {}) : n \in {1, 5}}
=============================================================================
