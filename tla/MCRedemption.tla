---------------------------- MODULE MCRedemption ----------------------------
(* Small instances of Redemption for TLC. *)
EXTENDS Redemption, TLC

Once  == [c \in Coupons |-> 1]
Twice == [c \in Coupons |-> 2]
OnceCard  == [c \in Cards |-> 1]
TwiceCard == [c \in Cards |-> 2]

Interchangeable == Permutations(Procs) \cup Permutations(Users)
=============================================================================
