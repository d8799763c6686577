------------------------------ MODULE MCTraffic ------------------------------
(* Small instances of Traffic for TLC. *)
EXTENDS Traffic, TLC

CONSTANTS a, b

\* A report on one user, and one on both, of whom one only received.
OneOrBoth == {(a :> [u |-> 1, d |-> 1]), (a :> [u |-> 1, d |-> 0]) @@ (b :> [u |-> 0, d |-> 1])}

\* A report on both is the only one.  Nothing makes a node push, so what is left
\* out takes no fair behaviour out of those that remain.
Explored == \A r, q \in Reports :
  DOMAIN job[r].load = {a, b} /\ q # r => job[q].state = "none"
=============================================================================
