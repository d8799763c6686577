------------------------------ MODULE MCOrders ------------------------------
(* Small instances of Orders for TLC. *)
EXTENDS Orders, TLC

CONSTANTS u1, u2, planA, planB

MonthOnly == {<<planA, "month">>}

Shop == {<<planA, "month">>, <<planA, "reset">>, <<planB, "month">>, <<planB, "onetime">>}

CodeForB == {<<planB, "month">>}

Interchangeable == Permutations(Requests) \cup Permutations(Workers)

\* A month of planA, bought for 3 before the price fell, and still running, on order 1.
MonthOfA(u) ==
  [NoOrder EXCEPT !.status = "completed", !.user = u, !.plan = planA,
                  !.period = "month", !.type = 1, !.total = 3]

NoOrders == [o \in Orders |-> NoOrder]

Newcomer(balance, inviter) ==
  [balance |-> balance, plan |-> NoPlan, expiry |-> "past", inviter |-> inviter]

Subscriber(balance) ==
  [balance |-> balance, plan |-> planA, expiry |-> "future", inviter |-> NoUser]

\* One newcomer, who may have a balance (from a gift card, say).
OneNewcomer ==
  {[order |-> NoOrders, user |-> [u \in {u1} |-> Newcomer(b, NoUser)]] : b \in {0, 1}}

\* One newcomer whose balance pays for one order and a part of another.
OneSaver == {[order |-> NoOrders, user |-> [u \in {u1} |-> Newcomer(3, NoUser)]]}

\* A newcomer beside one whose plan never ends and whom a coupon may make his
\* inviter, or a subscriber with his first order behind him.
Customers ==
  LET inviter == [Subscriber(0) EXCEPT !.expiry = "never"]
      table(owner, me) ==
        [order |-> [NoOrders EXCEPT ![1] = MonthOfA(owner)],
         user  |-> [u \in {u1, u2} |-> IF u = u1 THEN me ELSE inviter]]
  IN  {table(u2, Newcomer(0, NoUser)),
       table(u1, [Subscriber(1) EXCEPT !.inviter = u2])}
=============================================================================
