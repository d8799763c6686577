----------------------------- MODULE MCSurplus ------------------------------
(***************************************************************************)
(* Small inputs of Surplus for TLC, beside an instance of Orders.  Its     *)
(* properties are about operators and not about the state of Orders: TLC   *)
(* evaluates them for all inputs in the first state, before any order.     *)
(***************************************************************************)
EXTENDS MCOrders, Surplus

CONSTANTS
  Horizon,        \* bound: time that is left of a subscription
  MaxQuota        \* bound: traffic of a plan

\* Ten days are a unit.
Lengths == [month |-> 3, quarter |-> 9]
LengthInMonths == [month |-> 1, quarter |-> 3]
PriceList == [month |-> 3, quarter |-> 7, onetime |-> 5]

\* Paid months and quarters, a free month, and ten or no days given.
Items == {[period |-> "month", value |-> 2, days |-> 0], [period |-> "month", value |-> 0, days |-> 0],
          [period |-> "quarter", value |-> 5, days |-> 0],
          [period |-> "gift", value |-> 0, days |-> 1], [period |-> "gift", value |-> 0, days |-> 0]}

UpToThree(S) == UNION {[1..n -> S] : n \in 0..3}

BeforeAnyOrder == order = NoOrders /\ \A r \in Requests : proc[r] = Idle

-----------------------------------------------------------------------------
(* Properties *)

\* FairPeriod for all small histories, times, plans and usages.
PeriodFair ==
  BeforeAnyOrder =>
    \A h \in UpToThree(Items), left \in 0..Horizon, quota, used \in 0..MaxQuota, gifts \in BOOLEAN :
      FairPeriod(h, left, quota, used, gifts)

\* ExactOneTime for all small histories of prices, plans and usages.
OneTimeExact ==
  BeforeAnyOrder =>
    \A values \in UpToThree({0, 2, 3}), quota \in 1..MaxQuota, total, used \in 0..(3 * MaxQuota),
       gifts \in BOOLEAN :
      ExactOneTime(values, quota, total, used, gifts)
=============================================================================
