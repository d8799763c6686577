---------------------------- MODULE MCStatistics ----------------------------
(* A small instance of Statistics for TLC. *)
EXTENDS Statistics, TLC

CONSTANTS r1, r2, a, b

\* Two reports that name a and b; one of them says 0 of b.
Both == (r1 :> {a, b}) @@ (r2 :> {a, b})
Day  == (r1 :> (a :> 1 @@ b :> 1)) @@ (r2 :> (a :> 2 @@ b :> 0))
=============================================================================
