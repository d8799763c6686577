----------------------------- MODULE MCSessions -----------------------------
(* Small instances of Sessions for TLC. *)
EXTENDS Sessions, FiniteSets, TLC

Interchangeable == Permutations(Procs) \cup Permutations(Sessions \ {OldSession})

\* What is explored: not every bound is used up at once.
Explored ==
  Cardinality(ghost.issued \ {OldSession}) + ghost.version + failures + Cardinality(ghost.made) <= 3
=============================================================================
