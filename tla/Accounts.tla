------------------------------ MODULE Accounts ------------------------------
(***************************************************************************)
(* The writers of a user row that work on a copy of it.  check:commission, *)
(* check:renewal, the transfer of commission to the balance, the start of  *)
(* a new traffic period and the opening of an order that credits the       *)
(* balance read the row without a lock, compute, and save what they        *)
(* computed as absolute values.  addBalance() locks the row first.         *)
(*                                                                         *)
(* A transaction's first read is its snapshot.  Its UPDATEs wait for the   *)
(* rows' locks and are seen when it commits, so all it writes is one step; *)
(* a transaction that dies or is ended as a deadlock leaves nothing.       *)
(***************************************************************************)
EXTENDS Integers, FiniteSets

CONSTANTS
  Users,
  Inviter,      \* invite_user_id of each user, or Nobody
  Procs,        \* commands and requests under way
  MaxOrders,    \* bound: rows of v2_order with a commission
  Shares,       \* commission_distribution_l1 to l3, in percent
  CommissionOf, \* commission of an order, by the amount transferred
  Transfers,    \* amounts users ask to transfer
  Price, Period,    \* of the subscription that is renewed
  Due,          \* an expiry the renewal finds less than two days away
  ResetPeriod,  \* length of a traffic period
  WithdrawClosed, \* withdraw_close_enable: commission goes to the balance
  MaxOthers,    \* bound: deposits, debits, edits and traffic used up
  MaxFailures,  \* bound: processes that die or throw
  FirstRow,     \* rows and orders to begin with
  FirstOrders,
  Nobody

Orders == 1..MaxOrders
Levels == 1..3

VARIABLES
  user,    \* v2_user: balance, commission_balance, expired_at, traffic used up, auto_renewal
  order,   \* v2_order: commission_status, inviter, commission
  proc,
  others, failures,
  ledger,  \* what deposits, orders and commission logs add up to, per user
  history  \* raced: users overwritten from a copy that was no longer true;
           \* shared: orders on the lists of two runs at once;
           \* edited: orders whose commission status an administrator set

vars == <<user, order, proc, others, failures, ledger, history>>

UserRow == [balance: Nat, commission: Nat, expiry: Nat, usedUp: {0, 1}, auto: {0, 1}]

\* paid counts the payouts of an order: rows of v2_commission_log stand for it.
OrderRow == [state: {"absent", "pending", "confirmed", "paid", "rejected"},
             inviter: Users \cup {Nobody}, commission: Nat, paid: Nat]

ASSUME AccountsAssumption ==
  /\ Users # {} /\ Nobody \notin Users /\ Inviter \in [Users -> Users \cup {Nobody}]
  /\ MaxOrders \in Nat /\ Shares \in [Levels -> Nat]
  /\ Transfers \subseteq Nat /\ CommissionOf \in [Transfers -> Nat]
  /\ Price \in Nat /\ Period \in Nat /\ Due \in Nat /\ ResetPeriod \in Nat
  /\ WithdrawClosed \in BOOLEAN /\ MaxOthers \in Nat /\ MaxFailures \in Nat
  /\ FirstRow \in [Users -> UserRow] /\ FirstOrders \in [Orders -> OrderRow]
  /\ \A o \in Orders : FirstOrders[o].paid = 0

\* deposits and transfers to the balance, debits of orders and renewals,
\* commission logged and transferred away, time bought and given up.
Entries == [credit: Nat, debit: Nat, logged: Nat, moved: Nat, bought: Nat, given: Nat]

NoEntries == [credit |-> 0, debit |-> 0, logged |-> 0, moved |-> 0, bought |-> 0, given |-> 0]

\* todo: orders a payout run has listed, renewing: users a renewal has still to
\* come to; copy: the rows as the process read them; void: its writes will never be
\* committed.
Process == [op: {"idle", "pay", "payout", "renewal", "transfer", "period", "open"},
            todo: SUBSET Orders, renewing: SUBSET Users, who: Users, amount: Nat,
            copy: [Users -> UserRow], void: BOOLEAN]

\* Of a row, a process keeps what it will write or compare.
NoRow      == [balance |-> 0, commission |-> 0, expiry |-> 0, usedUp |-> 0, auto |-> 0]
Money(row) == [NoRow EXCEPT !.balance = row.balance, !.commission = row.commission]
Time(row)  == [NoRow EXCEPT !.expiry = row.expiry]
Plan(row)  == [NoRow EXCEPT !.balance = row.balance, !.expiry = row.expiry]

SomeUser == CHOOSE u \in Users : TRUE
Nothing  == [u \in Users |-> NoRow]

Idle == [op |-> "idle", todo |-> {}, renewing |-> {}, who |-> SomeUser, amount |-> 0,
         copy |-> Nothing, void |-> FALSE]

TypeOK ==
  /\ user \in [Users -> UserRow]
  /\ order \in [Orders -> OrderRow]
  /\ proc \in [Procs -> Process]
  /\ others \in 0..MaxOthers /\ failures \in 0..MaxFailures
  /\ ledger \in [Users -> Entries]
  /\ history \in [raced: SUBSET Users, shared: SUBSET Orders, edited: SUBSET Orders]

Init ==
  /\ user = FirstRow
  /\ order = FirstOrders
  /\ proc = [p \in Procs |-> Idle]
  /\ others = 0 /\ failures = 0
  /\ ledger = [u \in Users |-> NoEntries]
  /\ history = [raced |-> {}, shared |-> {}, edited |-> {}]

Become(p, state) == proc' = [proc EXCEPT ![p] = state]

Fail  == failures < MaxFailures /\ failures' = failures + 1
Other == others < MaxOthers /\ others' = others + 1

-----------------------------------------------------------------------------
(* check:commission *)

\* The list takes paid orders as well.
Payable_Bug(row) == row.state \in {"confirmed", "paid"} /\ row.inviter # Nobody

Payable(row) == row.state = "confirmed" /\ row.inviter # Nobody

Listed == UNION {proc[q].todo : q \in Procs}

Paying(todo) == IF todo = {} THEN Idle ELSE [Idle EXCEPT !.op = "pay", !.todo = todo]

\* Only what this run confirmed is listed.
CommissionStart_Bug(p, S) ==
  /\ proc[p].op = "idle"
  /\ S \subseteq {o \in Orders : order[o].state = "pending" /\ order[o].inviter # Nobody}
  /\ order' = [o \in Orders |-> IF o \in S THEN [order[o] EXCEPT !.state = "confirmed"]
                                ELSE order[o]]
  /\ Become(p, Paying(S))
  /\ UNCHANGED <<user, others, failures, ledger, history>>

\* autoCheck() confirms the orders S that are old enough, and autoPayCommission()
\* lists what it will pay.  Nothing keeps a second run from listing the same.
CommissionStart(p, S) ==
  LET checked == [o \in Orders |-> IF o \in S THEN [order[o] EXCEPT !.state = "confirmed"]
                                   ELSE order[o]]
      list    == {o \in Orders : Payable(checked[o])}
  IN  /\ proc[p].op = "idle"
      /\ S \subseteq {o \in Orders : order[o].state = "pending" /\ order[o].inviter # Nobody}
      /\ order' = checked
      /\ Become(p, Paying(list))
      /\ history' = [history EXCEPT !.shared = @ \cup (list \cap Listed)]
      /\ UNCHANGED <<user, others, failures, ledger>>

\* The orders are paid in the order of their ids, each in a transaction whose
\* snapshot its first read of an inviter takes.
PayBegin(p) ==
  /\ proc[p].op = "pay"
  /\ Become(p, [proc[p] EXCEPT !.op = "payout",
                                 !.copy = [u \in Users |-> Money(user[u])]])
  /\ UNCHANGED <<user, order, others, failures, ledger, history>>

\* PHP computes a fraction (here in hundredths), which balance, commission and
\* log each round to the nearest whole number when they are stored.
Fraction(c, l) == c * Shares[l]
Portion(c, l)  == (Fraction(c, l) + 50) \div 100

\* The loop goes up to the inviter's inviter only after a level that was paid,
\* be it a fraction: the share of the level after an empty one goes to the same inviter.
Up(u, c, l) == IF u = Nobody \/ Fraction(c, l) = 0 THEN u ELSE Inviter[u]

Payee(i, c, l) == CASE l = 1 -> i
                    [] l = 2 -> Up(i, c, 1)
                    [] l = 3 -> Up(Up(i, c, 1), c, 2)

Gain(u, i, c) == LET part(l) == IF Payee(i, c, l) = u THEN Portion(c, l) ELSE 0
                 IN  part(1) + part(2) + part(3)

\* The commission of an order, with the log and the order's new status.  With
\* withdrawals closed it goes to the balance.
PayOut(p, o) ==
  LET i     == order[o].inviter
      c     == order[o].commission
      copy  == proc[p].copy
      paid  == {u \in Users : \E l \in Levels : Payee(i, c, l) = u /\ Fraction(c, l) > 0}
      stale == {u \in paid : IF WithdrawClosed THEN copy[u].balance # user[u].balance
                              ELSE copy[u].commission # user[u].commission}
  IN  /\ proc[p].op = "payout"
      /\ o \in proc[p].todo /\ \A q \in proc[p].todo : o <= q
      /\ user' = [u \in Users |->
           IF u \notin paid THEN user[u]
           ELSE IF WithdrawClosed
           THEN [user[u] EXCEPT !.balance = copy[u].balance + Gain(u, i, c)]
           ELSE [user[u] EXCEPT !.commission = copy[u].commission + Gain(u, i, c)]]
      /\ ledger' = [u \in Users |->
           IF WithdrawClosed THEN [ledger[u] EXCEPT !.credit = @ + Gain(u, i, c)]
           ELSE [ledger[u] EXCEPT !.logged = @ + Gain(u, i, c)]]
      /\ order' = [order EXCEPT ![o].state = "paid", ![o].paid = @ + 1]
      /\ Become(p, Paying(proc[p].todo \ {o}))
      /\ history' = [history EXCEPT !.raced = @ \cup stale]
      /\ UNCHANGED <<others, failures>>

-----------------------------------------------------------------------------
(* check:renewal *)

WantsRenewal(row) == row.auto = 1 /\ row.expiry > 0 /\ row.expiry <= Due

\* All users are read at once, at 22:30: one run at a time.
RenewalStart(p) ==
  /\ proc[p].op = "idle"
  /\ \A q \in Procs : proc[q].op # "renewal"
  /\ Become(p, [Idle EXCEPT !.op = "renewal",
                            !.renewing = {u \in Users : WantsRenewal(user[u])},
                            !.copy = [u \in Users |-> Plan(user[u])]])
  /\ UNCHANGED <<user, order, others, failures, ledger, history>>

\* What came of one user.
Passed(p, u) == [proc[p] EXCEPT !.renewing = @ \ {u}, !.copy[u] = NoRow]

Affordable(row) == row.balance >= Price

\* The time that was left is lost.
RenewUser_Bug(p, u) ==
  LET copy == proc[p].copy[u]
  IN  /\ proc[p].op = "renewal" /\ u \in proc[p].renewing /\ ~proc[p].void
      /\ Affordable(copy)
      /\ user' = [user EXCEPT ![u].balance = copy.balance - Price, ![u].expiry = Period]
      /\ ledger' = [ledger EXCEPT ![u].debit = @ + Price, ![u].bought = @ + Period]
      /\ Become(p, Passed(p, u))
      /\ UNCHANGED <<order, others, failures, history>>

\* Balance and expiry of the copy, and the order that documents them.
RenewUser(p, u) ==
  LET copy == proc[p].copy[u]
  IN  /\ proc[p].op = "renewal" /\ u \in proc[p].renewing /\ ~proc[p].void
      /\ Affordable(copy)
      /\ user' = [user EXCEPT ![u].balance = copy.balance - Price,
                              ![u].expiry  = copy.expiry + Period]
      /\ ledger' = [ledger EXCEPT ![u].debit = @ + Price, ![u].bought = @ + Period]
      /\ history' = [history EXCEPT !.raced =
           IF copy.balance # user[u].balance \/ copy.expiry # user[u].expiry
           THEN @ \cup {u} ELSE @]
      /\ Become(p, Passed(p, u))
      /\ UNCHANGED <<order, others, failures>>

\* No order to repeat, a plan that is not renewed, or too little money: the
\* user is not tried again.
RenewalRefused(p, u) ==
  /\ proc[p].op = "renewal" /\ u \in proc[p].renewing /\ ~proc[p].void
  /\ user' = [user EXCEPT ![u].auto = 0]
  /\ Become(p, Passed(p, u))
  /\ UNCHANGED <<order, others, failures, ledger, history>>

\* Without a transaction the row is saved although the order is not.
RenewalThrow_Bug(p, u) ==
  /\ proc[p].op = "renewal" /\ u \in proc[p].renewing
  /\ Affordable(proc[p].copy[u])
  /\ user' = [user EXCEPT ![u].balance = proc[p].copy[u].balance - Price,
                          ![u].expiry  = proc[p].copy[u].expiry + Period]
  /\ Fail
  /\ Become(p, Passed(p, u))
  /\ UNCHANGED <<others, order, ledger, history>>

\* An exception between beginTransaction() and commit() leaves the transaction
\* open: what the rest of the run writes is rolled back when it ends.
RenewalThrow(p, u) ==
  /\ proc[p].op = "renewal" /\ u \in proc[p].renewing
  /\ Affordable(proc[p].copy[u])
  /\ Fail
  /\ Become(p, [Passed(p, u) EXCEPT !.void = TRUE])
  /\ UNCHANGED <<others, user, order, ledger, history>>

RenewalEnd(p) ==
  /\ proc[p].op = "renewal" /\ (proc[p].renewing = {} \/ proc[p].void)
  /\ Become(p, Idle)
  /\ UNCHANGED <<user, order, others, failures, ledger, history>>

-----------------------------------------------------------------------------
(* Requests of the user and the opening of his orders *)

Transferable(row, a) == a <= row.commission

IsNextId(o) == order[o].state = "absent" /\ \A q \in Orders : q < o => order[q].state # "absent"

\* The bound on orders is met when a transfer begins.
Room == Cardinality({p \in Procs : proc[p].op = "transfer"})
          < Cardinality({o \in Orders : order[o].state = "absent"})

TransferRead(p, u, a) ==
  /\ proc[p].op = "idle" /\ Room
  /\ Transferable(user[u], a)
  /\ Become(p, [Idle EXCEPT !.op = "transfer", !.who = u, !.amount = a,
                           !.copy[u] = Money(user[u])])
  /\ UNCHANGED <<user, order, others, failures, ledger, history>>

\* The transfer is an order too, and earns the inviter a commission.
TransferCommit(p, o) ==
  LET u    == proc[p].who
      a    == proc[p].amount
      copy == proc[p].copy[u]
  IN  /\ proc[p].op = "transfer"
      /\ IsNextId(o)
      /\ order' = [order EXCEPT ![o] = [state |-> "pending", inviter |-> Inviter[u],
                     commission |-> IF Inviter[u] = Nobody THEN 0 ELSE CommissionOf[a],
                     paid |-> 0]]
      /\ user' = [user EXCEPT ![u].commission = copy.commission - a,
                              ![u].balance    = copy.balance + a]
      /\ ledger' = [ledger EXCEPT ![u].moved = @ + a, ![u].credit = @ + a]
      /\ history' = [history EXCEPT !.raced =
           IF copy.commission # user[u].commission \/ copy.balance # user[u].balance
           THEN @ \cup {u} ELSE @]
      /\ Become(p, Idle)
      /\ UNCHANGED <<others, failures>>

\* A day more than a whole traffic period must be left.
EnoughTime(row) == row.expiry > ResetPeriod + 1

PeriodRead(p, u) ==
  /\ proc[p].op = "idle"
  /\ user[u].usedUp = 1 /\ EnoughTime(user[u])
  /\ Become(p, [Idle EXCEPT !.op = "period", !.who = u, !.copy[u] = Time(user[u])])
  /\ UNCHANGED <<user, order, others, failures, ledger, history>>

\* days: what is left of the traffic period.
PeriodCommit(p, days) ==
  LET u    == proc[p].who
      copy == proc[p].copy[u]
  IN  /\ proc[p].op = "period"
      /\ days \in 1..ResetPeriod
      /\ user' = [user EXCEPT ![u].expiry = copy.expiry - days, ![u].usedUp = 0]
      /\ ledger' = [ledger EXCEPT ![u].given = @ + days]
      /\ history' = [history EXCEPT !.raced =
           IF copy.expiry # user[u].expiry THEN @ \cup {u} ELSE @]
      /\ Become(p, Idle)
      /\ UNCHANGED <<order, others, failures>>

\* A worker opens an order that credits the balance: a deposit, or a change of
\* plan with a refund.
OpenRead(p, u) ==
  /\ proc[p].op = "idle"
  /\ Other
  /\ Become(p, [Idle EXCEPT !.op = "open", !.who = u, !.copy[u] = Money(user[u])])
  /\ UNCHANGED <<user, order, failures, ledger, history>>

OpenCommit(p) ==
  LET u    == proc[p].who
      copy == proc[p].copy[u]
  IN  /\ proc[p].op = "open"
      /\ user' = [user EXCEPT ![u].balance = copy.balance + Price]
      /\ ledger' = [ledger EXCEPT ![u].credit = @ + Price]
      /\ history' = [history EXCEPT !.raced =
           IF copy.balance # user[u].balance THEN @ \cup {u} ELSE @]
      /\ Become(p, Idle)
      /\ UNCHANGED <<order, others, failures>>

\* The process is killed, or its transaction ended as a deadlock.
Die(p) ==
  /\ proc[p].op # "idle"
  /\ Fail
  /\ Become(p, Idle)
  /\ UNCHANGED <<others, user, order, ledger, history>>

-----------------------------------------------------------------------------
(* Others *)

\* addBalance(), for a cancelled order or a gift card in the App, reads and
\* writes under the lock of the row.
Deposit(u) ==
  /\ Other
  /\ user' = [user EXCEPT ![u].balance = @ + Price]
  /\ ledger' = [ledger EXCEPT ![u].credit = @ + Price]
  /\ UNCHANGED <<failures, order, proc, history>>

\* An order draws on the balance, whatever is left.
Spend(u) ==
  /\ Other
  /\ user[u].balance > 0
  /\ user' = [user EXCEPT ![u].balance = @ - 1]
  /\ ledger' = [ledger EXCEPT ![u].debit = @ + 1]
  /\ UNCHANGED <<failures, order, proc, history>>

UseUp(u) ==
  /\ Other
  /\ user' = [user EXCEPT ![u].usedUp = 1]
  /\ UNCHANGED <<failures, order, proc, ledger, history>>

\* Admin\OrderController::update may set 0, 1 and 3, whatever is there.
EditCommission(o, s) ==
  /\ order[o].state # "absent"
  /\ s \in {"pending", "confirmed", "rejected"}
  /\ Other
  /\ order' = [order EXCEPT ![o].state = s]
  /\ history' = [history EXCEPT !.edited = @ \cup {o}]
  /\ UNCHANGED <<failures, user, proc, ledger>>

-----------------------------------------------------------------------------
Commission(p) ==
  \/ \E S \in SUBSET Orders : CommissionStart(p, S)
  \/ PayBegin(p)
  \/ \E o \in Orders : PayOut(p, o)

Renewal(p) ==
  \/ RenewalStart(p) \/ RenewalEnd(p)
  \/ \E u \in Users : \/ RenewUser(p, u) \/ RenewalRefused(p, u)
                      \/ RenewalThrow(p, u)

Requests(p) ==
  \/ \E u \in Users, a \in Transfers : TransferRead(p, u, a)
  \/ \E o \in Orders : TransferCommit(p, o)
  \/ \E u \in Users : PeriodRead(p, u)
  \/ \E days \in 1..ResetPeriod : PeriodCommit(p, days)
  \/ \E u \in Users : OpenRead(p, u)
  \/ OpenCommit(p)

Others ==
  \/ \E u \in Users : Deposit(u) \/ Spend(u) \/ UseUp(u)
  \/ \E o \in Orders, s \in {"pending", "confirmed", "rejected"} : EditCommission(o, s)

Next == Others \/ \E p \in Procs : Commission(p) \/ Renewal(p) \/ Requests(p) \/ Die(p)

Spec == Init /\ [][Next]_vars

-----------------------------------------------------------------------------
(* Properties *)

\* No row ever holds more than it began with and was given: commands and
\* requests that overwrite one another from old copies lose money and time or
\* give back what was spent, but never book a credit twice.
WithinCredits ==
  \A u \in Users :
    /\ user[u].balance <= FirstRow[u].balance + ledger[u].credit
    /\ user[u].commission <= FirstRow[u].commission + ledger[u].logged
    /\ user[u].expiry <= FirstRow[u].expiry + ledger[u].bought

\* A row that no one overwrote from an outdated copy agrees with the orders
\* and logs: whatever dies between them, money and time move with their record.
Accounted ==
  \A u \in Users \ history.raced :
    /\ user[u].balance = FirstRow[u].balance + ledger[u].credit - ledger[u].debit
    /\ user[u].commission = FirstRow[u].commission + ledger[u].logged - ledger[u].moved
    /\ user[u].expiry = FirstRow[u].expiry + ledger[u].bought - ledger[u].given

\* The commission of an order is paid once, though runs die and begin again,
\* unless two runs had the order on their lists at the same time or an
\* administrator set its status.
PaidOnce ==
  \A o \in Orders \ (history.shared \cup history.edited) : order[o].paid <= 1

-----------------------------------------------------------------------------
(* The scheduler starts check:commission every fifteen minutes; what was
   started goes on. *)
Steps(p) ==
  \/ PayBegin(p)
  \/ \E o \in Orders : PayOut(p, o)
  \/ RenewalEnd(p)
  \/ \E u \in Users : RenewUser(p, u) \/ RenewalRefused(p, u)
  \/ \E o \in Orders : TransferCommit(p, o)
  \/ \E days \in 1..ResetPeriod : PeriodCommit(p, days)
  \/ OpenCommit(p)

Fairness ==
  /\ \A p \in Procs : WF_vars(Steps(p))
  /\ SF_vars(\E p \in Procs, S \in SUBSET Orders : CommissionStart(p, S))

FairSpec == Spec /\ Fairness

Owed(o) == order[o].state = "confirmed" /\ order[o].inviter # Nobody

\* A confirmed commission of an inviter is paid in the end, or an administrator
\* takes it back: a run that dies leaves it for the next one.
ConfirmedIsPaid == \A o \in Orders : Owed(o) ~> ~Owed(o)
=============================================================================
