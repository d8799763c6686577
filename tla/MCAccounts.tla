----------------------------- MODULE MCAccounts -----------------------------
(* Small instances of Accounts for TLC. *)
EXTENDS Accounts, TLC

CONSTANTS u1, u2

\* u2 was invited by u1.  An order of someone u2 invited waits for its commission,
\* of which each inviter gets half.
Invited == (u1 :> Nobody) @@ (u2 :> u1)
Halves  == <<50, 50, 0>>
Ones    == {1}
Double  == [n \in Ones |-> 2 * n]

\* The subscription of u1 is due; u2 has a long one.
Rows == (u1 :> [balance |-> 1, commission |-> 0, expiry |-> 1, usedUp |-> 0, auto |-> 1])
     @@ (u2 :> [balance |-> 0, commission |-> 1, expiry |-> 4, usedUp |-> 0, auto |-> 0])

OneOrder == [o \in Orders |->
  IF o = 1 THEN [state |-> "pending", inviter |-> u2, commission |-> 2, paid |-> 0]
  ELSE [state |-> "absent", inviter |-> Nobody, commission |-> 0, paid |-> 0]]
=============================================================================
