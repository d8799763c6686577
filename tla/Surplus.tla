------------------------------ MODULE Surplus -------------------------------
(***************************************************************************)
(* What the rest of a plan is worth when its owner changes to another one: *)
(* the arithmetic behind the amount that Orders chooses.  A subscription   *)
(* was lengthened by every order, so the code walks from the present expiry *)
(* back through the orders, newest first, to see which time each of them   *)
(* paid for; with a plan without expiry it does so with traffic.           *)
(*                                                                         *)
(* Amounts are exact fractions until the last step, which rounds down.     *)
(***************************************************************************)
EXTENDS Fractions, Sequences, FiniteSets, Functions

CONSTANTS
  Month,          \* 30 days, in units of time
  ShortPeriod,    \* 31 days: up to here an order counts as short
  Length,         \* the length of a period on sale
  Months,         \* its months
  Price           \* what the plan costs for a period, and "onetime" for ever

ASSUME SurplusAssumption ==
  /\ Month \in Nat \ {0} /\ ShortPeriod \in Nat /\ IsFiniteSet(DOMAIN Length)
  /\ \A p \in DOMAIN Length : Length[p] \in Nat \ {0} /\ Months[p] \in Nat \ {0} /\ Price[p] \in Nat
  /\ Price["onetime"] \in Nat

Above(a, b) == IF a > b THEN a ELSE b

-----------------------------------------------------------------------------
(* A subscription *)

\* An order without a period was a gift of days.
Duration(item) == IF item.period \in DOMAIN Length THEN Length[item.period] ELSE item.days

\* The dearest month the plan sells.
MonthlyValue ==
  LET offers == {[num |-> Price[p], den |-> Months[p]] : p \in DOMAIN Length}
                  \cup {[num |-> Price["onetime"], den |-> 12]}
  IN  CHOOSE best \in offers : \A offer \in offers : AtMost(offer, best)

\* getGiftOrderValue()
GiftValue(item) ==
  IF item.period \in DOMAIN Length THEN Whole(Price[item.period])
  ELSE Times(MonthlyValue, [num |-> item.days, den |-> Month])

\* What an order cost, or would cost today if it cost nothing.
Amount(item) == IF item.value > 0 THEN Whole(item.value) ELSE GiftValue(item)

TrafficRatio(quota, used) ==
  IF quota > 0 THEN [num |-> Above(0, quota - used), den |-> quota] ELSE Whole(0)

\* The current month counts for the lesser of its time and its traffic, the
\* later ones in full.
LongShare(duration, remaining, traffic) ==
  LET later   == Above(0, (remaining + Month - 1) \div Month - 1) * Month
      current == remaining - later
  IN  [num |-> IF current * traffic.den <= traffic.num * Month
               THEN (current + later) * traffic.den
               ELSE traffic.num * Month + later * traffic.den,
       den |-> duration * traffic.den]

ShortShare(duration, remaining, traffic) ==
  LET time == [num |-> remaining, den |-> duration]
  IN  Times(time, Lesser(time, traffic))

\* getPeriodResidual()
Residual(amount, duration, remaining, traffic) ==
  IF amount.num <= 0 \/ remaining <= 0 THEN Whole(0)
  ELSE Lesser(amount, Times(amount, IF duration <= ShortPeriod
                                    THEN ShortShare(duration, remaining, traffic)
                                    ELSE LongShare(duration, remaining, traffic)))

\* Every order is counted from the present expiry.
Passed_Bug(acc, item) ==
  [start |-> acc.end, remaining |-> Above(0, acc.end - Above(0, acc.end - Duration(item)))]

\* The time of an order that is still to come: now is 0.
Passed(acc, item) ==
  LET start == acc.end - Duration(item)
  IN  [start |-> start, remaining |-> Above(0, acc.end - Above(0, start))]

\* The last order that cost something counts, and gifts where the panel says so.
PeriodStep(acc, item, traffic, gifts) ==
  LET span    == Passed(acc, item)
      counted == IF item.value > 0 THEN ~acc.paid ELSE gifts /\ span.remaining # 0
  IN  IF Duration(item) <= 0 THEN acc
      ELSE [end  |-> span.start, paid |-> acc.paid \/ item.value > 0,
            sum  |-> IF ~counted THEN acc.sum
                     ELSE Plus(acc.sum, Residual(Amount(item), Duration(item), span.remaining, traffic))]

\* The walk through the orders of a subscription with that much time left.
PeriodWalk(items, left, traffic, gifts) ==
  LET acc[i \in 0..Len(items)] ==
        IF i = 0 THEN [end |-> left, paid |-> FALSE, sum |-> Whole(0)]
        ELSE PeriodStep(acc[i - 1], items[i], traffic, gifts)
  IN  acc

\* getSurplusValueByPeriod()
PeriodSurplus(items, left, quota, used, gifts) ==
  IF left <= 0 THEN 0
  ELSE Floor(PeriodWalk(items, left, TrafficRatio(quota, used), gifts)[Len(items)].sum)

-----------------------------------------------------------------------------
(* A plan without expiry *)

\* Every order is given the newest traffic.
Segment_Bug(end, quota) == end

\* Where the traffic of the order before begins.
Segment(end, quota) == Above(0, end - quota)

OneTimeStep(acc, value, quota, used, gifts) ==
  LET start   == Segment(acc.end, quota)
      unused  == Above(0, acc.end - Above(used, start))
      counted == IF value > 0 THEN ~acc.paid ELSE gifts
  IN  [end |-> start, paid |-> acc.paid \/ value > 0,
       sum |-> IF ~counted THEN acc.sum
               ELSE acc.sum + unused * (IF value > 0 THEN value ELSE Price["onetime"])]

\* The walk through orders that added quota each, the plan's traffic of today,
\* to an account that has total.
OneTimeWalk(values, quota, total, used, gifts) ==
  LET acc[i \in 0..Len(values)] ==
        IF i = 0 THEN [end |-> total, paid |-> FALSE, sum |-> 0]
        ELSE OneTimeStep(acc[i - 1], values[i], quota, used, gifts)
  IN  acc

\* getSurplusValueByOneTime()
OneTimeSurplus(values, quota, total, used, gifts) ==
  IF total <= 0 \/ quota <= 0 THEN 0
  ELSE OneTimeWalk(values, quota, total, used, gifts)[Len(values)].sum \div quota

-----------------------------------------------------------------------------
(* What the surplus is to be *)

\* The time of the first n orders together.
TimeBefore(items, n) == SumFunctionOnSet([j \in 1..n |-> Duration(items[j])], 1..n)

\* The time that item i paid for and that is to come, as a set of units.
TimeOf(items, i, left) ==
  {t \in 0..(left - 1) : left - TimeBefore(items, i) <= t /\ t < left - TimeBefore(items, i - 1)}

\* The last order that cost something, and gifts where they count.
Credited(value, gift) ==
  {i \in DOMAIN value : value[i] > 0 /\ \A j \in 1..(i - 1) : value[j] = 0} \cup gift

\* What the time to come was bought for, without regard to traffic.
TimeValue(items, left, gifts) ==
  LET lasting  == {i \in DOMAIN items : Duration(items[i]) > 0}
      value    == [i \in DOMAIN items |-> IF i \in lasting THEN items[i].value ELSE 0]
      credited == Credited(value, {i \in lasting : gifts /\ items[i].value = 0})
      share    == [i \in DOMAIN items |->
                     IF i \in credited
                     THEN Times(Amount(items[i]), [num |-> Cardinality(TimeOf(items, i, left)),
                                                   den |-> Duration(items[i])])
                     ELSE Whole(0)]
  IN  Floor(Summed(share, Len(items)))

\* What the unused traffic was bought for, unit by unit.
TrafficValue(values, quota, total, used, gifts) ==
  LET credited  == Credited(values, {i \in DOMAIN values : gifts /\ values[i] = 0})
      unused(i) == {b \in used..(total - 1) : total - i * quota <= b /\ b < total - (i - 1) * quota}
      price(i)  == IF values[i] > 0 THEN values[i] ELSE Price["onetime"]
  IN  SumFunctionOnSet([i \in credited |-> price(i) * Cardinality(unused(i))], credited) \div quota

\* A change of plan gives no more than what the time to come was bought for, and
\* all of that where no traffic was used and no order is short: no time is counted
\* for two orders, whatever their lengths and order.  And the longer one waits,
\* and the more traffic one uses, the less it gives (getSurplusValueByPeriod()).
FairPeriod(items, left, quota, used, gifts) ==
  LET worth == PeriodSurplus(items, left, quota, used, gifts)
      fair  == TimeValue(items, left, gifts)
  IN  /\ 0 <= worth /\ worth <= fair
      /\ quota > 0 /\ used = 0 /\ (\A i \in DOMAIN items : Duration(items[i]) \notin 1..ShortPeriod)
           => worth = fair
      /\ PeriodSurplus(items, left - 1, quota, used, gifts) <= worth
      /\ PeriodSurplus(items, left, quota, used + 1, gifts) <= worth

\* What is given for a plan without expiry is what its unused traffic was bought
\* for: a unit of traffic is that of one order (getSurplusValueByOneTime()).
ExactOneTime(values, quota, total, used, gifts) ==
  OneTimeSurplus(values, quota, total, used, gifts) = TrafficValue(values, quota, total, used, gifts)
=============================================================================
