----------------------------- MODULE Redemption -----------------------------
(***************************************************************************)
(* Coupons and gift cards.  A request that uses a coupon or, from the App, *)
(* a gift card is a transaction that locks the rows it works on one after  *)
(* the other and holds them to its end, so it is modelled by the rows it   *)
(* still wants: what it wrote is visible when it commits and gone when it  *)
(* is rolled back.  The website redeems gift cards from copies it read     *)
(* without a lock; its UPDATEs lock the rows when they come.               *)
(*                                                                         *)
(*   save      order with a coupon    coupon, then user if there is        *)
(*                                    a balance to draw on                 *)
(*   legacy    redemption code        user, coupon                         *)
(*   app       redemption code        coupon, then user to bind an inviter *)
(*   card      gift card in the App   user, card                           *)
(*   web       gift card on the site  (reads,) user, card                  *)
(*                                                                         *)
(* Of an order only what coupons depend on is kept: see Orders.            *)
(***************************************************************************)
EXTENDS Integers, Sequences, FiniteSets, Functions

CONSTANTS
  Users, Coupons, Cards,
  CouponLimit,  \* limit_use a coupon starts with
  PerUser,      \* limit_use_with_user of the coupons
  Redeemable,   \* coupons named dhm...: they redeem a plan without payment
  CardLimit,    \* limit_use a gift card starts with
  Channels,     \* what is in use: {"save", "legacy", "app", "card", "web"}
  Procs,
  MaxOrders,    \* bound: rows of v2_order
  MaxFailures,  \* bound: requests that die or throw
  Wallet,       \* balance an account starts with
  NoCoupon, Nobody

Orders == 1..MaxOrders
Rows   == Users \cup Coupons \cup Cards

VARIABLES
  coupon,    \* limit_use of v2_coupon
  card,      \* limit_use and used_user_ids of v2_giftcard
  balance,   \* balance of v2_user
  order,     \* v2_order
  lock,      \* row locks of InnoDB
  proc,
  failures,
  claims,    \* history: redemptions of a card by a user
  raced      \* history: cards and users that were written from a stale copy or
             \* whose orders overtook one another

vars == <<coupon, card, balance, order, lock, proc, failures, claims, raced>>

ASSUME RedemptionAssumption ==
  /\ IsFiniteSet(Users) /\ IsFiniteSet(Cards)
  /\ Users # {} /\ Users \cap Coupons = {} /\ Users \cap Cards = {} /\ Coupons \cap Cards = {}
  /\ CouponLimit \in [Coupons -> Nat] /\ CardLimit \in [Cards -> Nat] /\ PerUser \in Nat
  /\ Redeemable \subseteq Coupons /\ NoCoupon \notin Rows /\ Nobody \notin Procs
  /\ MaxOrders \in Nat /\ MaxFailures \in Nat /\ Wallet \in Nat
  /\ Channels \subseteq {"save", "legacy", "app", "card", "web"}

OrderRow == [status: {"absent", "pending", "processing", "completed", "cancelled"},
             user: Users, coupon: Coupons \cup {NoCoupon}, bal: Nat,
             refunded: BOOLEAN]  \* refunded: history

\* form: how used_user_ids is stored.  The App writes a list, which the model's
\* cast encodes; the website encodes the list before the cast does: a text.
CardRow == [left: Nat, used: SUBSET Users, form: {"null", "list", "text"}]

SomeUser == CHOOSE u \in Users : TRUE
SomeCard == [left |-> 0, used |-> {}, form |-> "null"]
NoOrder  == [status |-> "absent", user |-> SomeUser, coupon |-> NoCoupon, bal |-> 0,
             refunded |-> FALSE]

\* left, copy, wallet: the coupon, the card and the balance as the request read
\* them, in the lock or, on the website, before it.
Idle     == [op |-> "idle", user |-> SomeUser, row |-> NoCoupon, order |-> 0,
             want |-> <<>>, debit |-> 0, left |-> 0, copy |-> SomeCard, wallet |-> 0]

Request == [op: {"idle", "new", "pay", "save", "legacy", "app", "card", "web"},
            user: Users, order: Orders \cup {0},
            row: Coupons \cup Cards \cup {NoCoupon}, want: Seq(Rows), debit: Nat,
            left: Nat, copy: CardRow, wallet: Nat]

TypeOK ==
  /\ coupon \in [Coupons -> Nat]
  /\ card \in [Cards -> CardRow]
  /\ balance \in [Users -> Nat]
  /\ order \in [Orders -> OrderRow]
  /\ lock \in [Rows -> Procs \cup {Nobody}]
  /\ proc \in [Procs -> Request]
  /\ failures \in 0..MaxFailures
  /\ claims \in [Users -> [Cards -> Nat]]
  /\ raced \subseteq Users \cup Cards

Init ==
  /\ coupon = CouponLimit
  /\ card = [c \in Cards |-> [left |-> CardLimit[c], used |-> {}, form |-> "null"]]
  /\ balance = [u \in Users |-> Wallet]
  /\ order = [o \in Orders |-> NoOrder]
  /\ lock = [r \in Rows |-> Nobody]
  /\ proc = [p \in Procs |-> Idle]
  /\ failures = 0
  /\ claims = [u \in Users |-> [c \in Cards |-> 0]]
  /\ raced = {}

Become(p, state) == proc' = [proc EXCEPT ![p] = state]

\* The end of a transaction frees its rows.
Unlocked(p) == [r \in Rows |-> IF lock[r] = p THEN Nobody ELSE lock[r]]

\* The rows stay locked.
RolledBack_Bug(p) == Become(p, Idle) /\ lock' = lock

RolledBack(p) == Become(p, Idle) /\ lock' = Unlocked(p)

\* The bound on orders is met when a request begins.
Room == Cardinality({o \in Orders : order[o].status # "absent"})
          + Cardinality({p \in Procs : proc[p].op \in {"new", "save", "legacy", "app"}}) < MaxOrders

IsNextId(o) == order[o].status = "absent" /\ \A q \in Orders : q < o => order[q].status # "absent"

-----------------------------------------------------------------------------
(* Using a coupon *)

\* An order that waits for its payment is no order under way.
Incomplete_Bug(u) == {o \in Orders : order[o].user = u /\ order[o].status = "processing"}

Incomplete(u) == {o \in Orders : order[o].user = u /\ order[o].status \in {"pending", "processing"}}

\* checkLimitUseWithUser() counts neither pending nor cancelled orders.
Counted(u, c) ==
  {o \in Orders : /\ order[o].user = u /\ order[o].coupon = c
                  /\ order[o].status \notin {"absent", "pending", "cancelled"}}

Usable(u, c) == coupon[c] > 0 /\ Cardinality(Counted(u, c)) < PerUser

\* OrderController::save and the App's orderSave: no order under way ...
SaveRead(p, u) ==
  /\ "save" \in Channels
  /\ proc[p].op = "idle" /\ Room
  /\ Incomplete(u) = {}
  /\ Become(p, [Idle EXCEPT !.op = "new", !.user = u, !.wallet = balance[u]])
  /\ UNCHANGED <<coupon, card, balance, order, lock, failures, claims, raced>>

\* ... then the transaction, with a coupon or without.  What is left to pay is
\* drawn from the balance as it was read.
SaveBegin(p, c, price) ==
  LET u     == proc[p].user
      debit == IF proc[p].wallet < price THEN proc[p].wallet ELSE price
  IN  /\ proc[p].op = "new"
      /\ Become(p, [proc[p] EXCEPT !.op = "save", !.row = c, !.debit = debit,
            !.want = (IF c = NoCoupon THEN <<>> ELSE <<c>>) \o (IF debit = 0 THEN <<>> ELSE <<u>>)])
      /\ UNCHANGED <<coupon, card, balance, order, lock, failures, claims, raced>>

\* LegacyRedemptionService::redeem, for a user or for one who registers.
LegacyBegin(p, u, c) ==
  /\ "legacy" \in Channels
  /\ proc[p].op = "idle" /\ Room /\ c \in Redeemable
  /\ Become(p, [Idle EXCEPT !.op = "legacy", !.user = u, !.row = c, !.want = <<u, c>>])
  /\ UNCHANGED <<coupon, card, balance, order, lock, failures, claims, raced>>

\* AppOrderService::redeemPlan looks at the code first, without a lock; a
\* bind_email makes paid() update the user row.
AppBegin(p, u, c, bind) ==
  /\ "app" \in Channels
  /\ proc[p].op = "idle" /\ Room /\ c \in Redeemable /\ coupon[c] > 0
  /\ Become(p, [Idle EXCEPT !.op = "app", !.user = u, !.row = c,
                            !.want = IF bind THEN <<c, u>> ELSE <<c>>])
  /\ UNCHANGED <<coupon, card, balance, order, lock, failures, claims, raced>>

-----------------------------------------------------------------------------
(* Redeeming a gift card *)

\* The users of the card are not looked at.
Claimable_Bug(u, row) == row.left > 0

\* Not yet valid, expired or not suitable: left out.
Claimable(u, row) == row.left > 0 /\ u \notin row.used

CardBegin(p, u, c) ==
  /\ "card" \in Channels
  /\ proc[p].op = "idle"
  /\ Become(p, [Idle EXCEPT !.op = "card", !.user = u, !.row = c, !.want = <<u, c>>])
  /\ UNCHANGED <<coupon, card, balance, order, lock, failures, claims, raced>>

\* UserController::redeemgiftcard reads and decides without locks.  It cannot
\* read a list of users the App has stored: json_decode refuses an array.
WebRead(p, u, c) ==
  /\ "web" \in Channels
  /\ proc[p].op = "idle"
  /\ card[c].form # "list" /\ Claimable(u, card[c])
  /\ Become(p, [Idle EXCEPT !.op = "web", !.user = u, !.row = c, !.want = <<u, c>>,
                            !.wallet = balance[u], !.copy = card[c]])
  /\ UNCHANGED <<coupon, card, balance, order, lock, failures, claims, raced>>

-----------------------------------------------------------------------------
(* Transactions *)

\* What a request checks when it has a row: CouponService::use, addBalance,
\* the conditions of the gift card.
Admits(p, r) ==
  LET me == proc[p]
  IN  /\ r \in Coupons => Usable(me.user, r)
      /\ r \in Cards => me.op = "web" \/ Claimable(me.user, card[r])
      /\ r \in Users /\ me.op = "save" => balance[r] >= me.debit

\* What it reads with the row.
Read(p, r) ==
  LET me     == proc[p]
      inLock == me.op # "web"
  IN  [me EXCEPT !.want   = Tail(me.want),
                 !.left   = IF r \in Coupons THEN coupon[r] ELSE me.left,
                 !.copy   = IF r \in Cards /\ inLock THEN card[r] ELSE me.copy,
                 !.wallet = IF r \in Users /\ inLock THEN balance[r] ELSE me.wallet]

\* Without lockForUpdate.
LockRow_Bug(p) ==
  /\ proc[p].want # <<>>
  /\ Admits(p, Head(proc[p].want))
  /\ Become(p, Read(p, Head(proc[p].want)))
  /\ UNCHANGED <<coupon, card, balance, order, lock, failures, claims, raced>>

LockRow(p) ==
  LET r == Head(proc[p].want)
  IN  /\ proc[p].want # <<>>
      /\ lock[r] = Nobody
      /\ IF Admits(p, r)
         THEN /\ lock' = [lock EXCEPT ![r] = p]
              /\ Become(p, Read(p, r))
         ELSE RolledBack(p)
      /\ UNCHANGED <<coupon, card, balance, order, failures, claims, raced>>

\* The order a coupon brings about: pending, paid and queued, or open already.
NewStatus(op) == CASE op = "save" -> "pending" [] op = "app" -> "processing"
                   [] op = "legacy" -> "completed"

\* Two requests looked for an order under way before either made one.
Overtakes(p) ==
  \E q \in Procs \ {p} : proc[q].op \in {"new", "save"} /\ proc[q].user = proc[p].user

CommitOrder(p, o) ==
  LET me == proc[p]
  IN  /\ me.op \in {"save", "legacy", "app"} /\ me.want = <<>>
      /\ IsNextId(o)
      /\ order' = [order EXCEPT ![o] = [status |-> NewStatus(me.op), user |-> me.user,
                                        coupon |-> me.row, bal |-> me.debit, refunded |-> FALSE]]
      /\ coupon' = IF me.row = NoCoupon THEN coupon ELSE [coupon EXCEPT ![me.row] = me.left - 1]
      /\ balance' = IF me.debit = 0 THEN balance ELSE [balance EXCEPT ![me.user] = me.wallet - me.debit]
      /\ raced' = IF me.op = "save" /\ Overtakes(p) THEN raced \cup {me.user} ELSE raced
      /\ RolledBack(p)
      /\ UNCHANGED <<card, failures, claims>>

\* A card of type 1 adds 1 to the balance.
Redeemed(me) == [left |-> me.copy.left - 1, used |-> me.copy.used \cup {me.user},
                 form |-> IF me.op = "card" THEN "list" ELSE "text"]

\* What the website's request writes over: rows that changed since it read them.
Stale(me) ==
  {c \in Cards : me.op = "web" /\ c = me.row /\ me.copy # card[c]}
    \cup {u \in Users : me.op = "web" /\ u = me.user /\ me.wallet # balance[u]}

\* The App's request, and the website's from what it read at first.
CommitCard(p) ==
  LET me == proc[p]
  IN  /\ me.op \in {"card", "web"} /\ me.want = <<>>
      /\ card' = [card EXCEPT ![me.row] = Redeemed(me)]
      /\ balance' = [balance EXCEPT ![me.user] = me.wallet + 1]
      /\ claims' = [claims EXCEPT ![me.user][me.row] = @ + 1]
      /\ raced' = raced \cup Stale(me)
      /\ RolledBack(p)
      /\ UNCHANGED <<coupon, order, failures>>

\* p waits for a row of q.
WaitsFor(p, q) == proc[p].want # <<>> /\ lock[Head(proc[p].want)] = q

\* InnoDB rolls back one of the transactions that wait for each other.
Deadlock(p) ==
  /\ \E ring \in SUBSET Procs :
       /\ p \in ring
       /\ \A q \in ring : (\E r \in ring : WaitsFor(q, r)) /\ (\E r \in ring : WaitsFor(r, q))
  /\ RolledBack(p)
  /\ UNCHANGED <<coupon, card, balance, order, failures, claims, raced>>

Fail_Bug(p) ==
  /\ proc[p].op # "idle"
  /\ failures < MaxFailures /\ failures' = failures + 1
  /\ RolledBack(p)
  /\ coupon' = IF proc[p].want = <<>> /\ proc[p].row \in Coupons
               THEN [coupon EXCEPT ![proc[p].row] = @ - 1] ELSE coupon
  /\ UNCHANGED <<card, balance, order, claims, raced>>

\* A later check fails, the lock wait times out, the process dies.
Fail(p) ==
  /\ proc[p].op # "idle"
  /\ failures < MaxFailures /\ failures' = failures + 1
  /\ RolledBack(p)
  /\ UNCHANGED <<coupon, card, balance, order, claims, raced>>

-----------------------------------------------------------------------------
(* The rest of an order's life *)

\* In one transaction, which waits for the user row.
Cancel(o) ==
  /\ order[o].status = "pending"
  /\ order[o].bal > 0 => lock[order[o].user] = Nobody
  /\ order' = [order EXCEPT ![o] = [@ EXCEPT !.status = "cancelled", !.refunded = TRUE]]
  /\ balance' = [balance EXCEPT ![order[o].user] = @ + order[o].bal]
  /\ UNCHANGED <<coupon, card, lock, proc, failures, claims, raced>>

PaidRead(p, o) ==
  /\ proc[p].op = "idle" /\ order[o].status = "pending"
  /\ Become(p, [Idle EXCEPT !.op = "pay", !.user = order[o].user, !.order = o])
  /\ UNCHANGED <<coupon, card, balance, order, lock, failures, claims, raced>>

PaidWrite(p) ==
  /\ proc[p].op = "pay"
  /\ order' = [order EXCEPT ![proc[p].order].status = "processing"]
  /\ raced' = IF order[proc[p].order].status = "pending" THEN raced ELSE raced \cup {proc[p].user}
  /\ Become(p, Idle)
  /\ UNCHANGED <<coupon, card, balance, lock, failures, claims>>

Open(o) ==
  /\ order[o].status = "processing"
  /\ order' = [order EXCEPT ![o].status = "completed"]
  /\ UNCHANGED <<coupon, card, balance, lock, proc, failures, claims, raced>>

-----------------------------------------------------------------------------
SaveBegins(p) == \E c \in Coupons \cup {NoCoupon}, price \in {0, 1} : SaveBegin(p, c, price)

Transact(p) ==
  \/ LockRow(p) \/ CommitCard(p)
  \/ \E o \in Orders : CommitOrder(p, o)

Begin(p) ==
  \E u \in Users :
    \/ SaveRead(p, u)
    \/ \E c \in Coupons : LegacyBegin(p, u, c) \/ \E bind \in BOOLEAN : AppBegin(p, u, c, bind)
    \/ \E c \in Cards : CardBegin(p, u, c) \/ WebRead(p, u, c)

Next ==
  \/ \E p \in Procs :
       \/ Begin(p) \/ SaveBegins(p) \/ Transact(p) \/ Deadlock(p) \/ Fail(p)
       \/ PaidWrite(p) \/ \E o \in Orders : PaidRead(p, o)
  \/ \E o \in Orders : Cancel(o) \/ Open(o)

Spec == Init /\ [][Next]_vars

-----------------------------------------------------------------------------
(* Properties *)

\* The coupon's row is locked before it is checked and until the order is
\* there: what is left of a coupon and the orders that used it make up its
\* limit_use, whatever interleaves or fails, so it is never used more often.
CouponAccounted ==
  \A c \in Coupons :
    coupon[c] + Cardinality({o \in Orders : order[o].coupon = c}) = CouponLimit[c]

\* One order under way per buyer, and then a count of his paid orders, keep a
\* buyer to limit_use_with_user, unless two of his orders were placed at once
\* or a payment overtook a cancellation.
UsedPerUser ==
  \A c \in Coupons \ Redeemable, u \in Users \ raced : Cardinality(Counted(u, c)) <= PerUser

\* CouponService refuses with "The coupon can only be used
\* :limit_use_with_user per person".  An order that waits for its payment is
\* not counted, and a redemption does not look for one, so no race is needed.
PerPerson ==
  \A c \in Coupons, u \in Users \ raced : Cardinality(Counted(u, c)) <= PerUser

\* A gift card is redeemed once by a user and limit_use times by all, by the App
\* and the website together, until the website writes one that has changed
\* since it was read.
CardWithinLimit ==
  \A c \in Cards \ raced :
    /\ \A u \in Users : claims[u][c] <= 1
    /\ Cardinality({u \in Users : claims[u][c] > 0}) + card[c].left = CardLimit[c]

\* No credit or debit of a balance is lost, until the website writes one that
\* has changed since it was read.
WalletAccounted ==
  \A u \in Users \ raced :
    LET spent == {o \in Orders : order[o].user = u /\ order[o].bal > 0 /\ ~order[o].refunded}
    IN  balance[u] + Cardinality(spent) = Wallet + SumFunctionOnSet(claims[u], Cards)

\* A PHP request goes on to its end; InnoDB hands a row to the requests that
\* wait for it in turn, and finds the rings among them.
Fairness ==
  \A p \in Procs : /\ WF_vars(SaveBegins(p)) /\ WF_vars(Deadlock(p)) /\ WF_vars(PaidWrite(p))
                  /\ SF_vars(Transact(p))
FairSpec == Spec /\ Fairness

\* Save locks the coupon and then the user, a redemption the user and then the
\* coupon: two requests of one user may wait for each other, but no request
\* waits for ever.
TransactionsEnd == \A p \in Procs : proc[p].op # "idle" ~> proc[p].op = "idle"
=============================================================================
