------------------------------- MODULE Orders -------------------------------
(***************************************************************************)
(* The life of a purchase: an order row of v2_order and the user row it    *)
(* debits and fulfils.  Every PHP process (a web request or a worker of    *)
(* the order_handle queue) reads rows, works on its copy and writes back   *)
(* the columns it changed, so a handler is cut where it holds a copy that  *)
(* another process can make stale:                                         *)
(*                                                                         *)
(*   save      Ask -> FindUser -> SaveDeposit | SavePlan    (website)       *)
(*             Authenticate -> AskKnown -> SaveDeposit | SavePlan | Assign  *)
(*   redeem    Authenticate -> Redeem  (App),  RedeemNow  (website)         *)
(*   payment   PaidRead -> Bind -> PaidWrite -> Reward                      *)
(*   worker    TakeJob  -> OpenReadUser -> OpenWrite                        *)
(*                                                                         *)
(* A cancellation is one conditional UPDATE inside a transaction, and the  *)
(* website's redemption one transaction under the lock of the user row:    *)
(* one step each.  The gateway, the passing of time and the minutely sweep *)
(* check:order are the environment.                                        *)
(*                                                                         *)
(* No handler locks out another, so handlers of one order or buyer can     *)
(* meet.  The history marks the orders and users they met over; the        *)
(* properties below say what holds under every interleaving for all        *)
(* others.                                                                 *)
(*                                                                         *)
(* An operator named ..._Bug is a mistake the code could contain.  Nothing *)
(* uses it: put in the place of the definition that follows it, it shows   *)
(* that a property notices.                                                *)
(***************************************************************************)
EXTENDS Integers, FiniteSets, Functions

CONSTANTS
  Users,        \* account ids
  Buyers,       \* bound: the accounts that place orders
  Plans,        \* plan ids on sale
  Requests,     \* PHP processes that serve web requests
  Workers,      \* processes of the queue order_handle
  MaxOrders,    \* bound: rows of v2_order
  MaxJobs,      \* bound: queued OrderHandleJobs for one order
  MaxFailures,  \* bound: processes that die or fail to push a job
  Catalog,      \* the <<plan, period>> pairs that have a price
  Codes,        \* the <<plan, period>> pairs a redemption code is for
  Gifts,        \* the gifts a first order may earn: "gift" of some days, or
                \* "nogift" where its days come to zero
  Binds,        \* who a coupon's bind_email may name (NoUser: nobody)
  Prices,       \* what a plan or a deposit may cost, discounts applied
  InitTables,   \* contents of v2_order and v2_user a run starts from
  TrialPlan,    \* config try_out_plan_id
  RewardOn,     \* config is_Invitation_to_give \in {2, 3}
  Bonus,        \* config deposit_bounus (one tier): the bonus ...
  BonusFrom,    \* ... and the deposit from which it is given
  NoPlan,       \* plan_id NULL
  NoUser        \* invite_user_id NULL, no bound e-mail

Orders == 1..MaxOrders
Procs  == Requests \cup Workers

VARIABLES
  order,     \* v2_order
  user,      \* v2_user: the columns purchases touch
  aged,      \* pending orders created two hours ago or more
  invoice,   \* the gateway's view of an order: "none", "open" or "captured"
  queue,     \* queued OrderHandleJobs per order
  proc,      \* what each process is doing and the copies it holds
  failures,  \* failures so far
  ghost      \* history: fulfilments, refunds and cash of each order (for one older
             \* than the run, all that went into it), rewards each invitee earned
             \* his inviter (1 if his first order is older than the run), the
             \* balances of the start, and where handlers met:
             \*   beside  orders created while their buyer had one under way
             \*   raced   orders that paid() wrote over or two workers had at once
             \*   lost    users whose balance open() wrote from an outdated copy
             \*   late    users whose order was open before its reward was asked for

vars == <<order, user, aged, invoice, queue, proc, failures, ghost>>

-----------------------------------------------------------------------------
(* Rows *)

\* Status 0..4 of v2_order; "absent": no such row yet.
Status  == {"absent", "pending", "processing", "cancelled", "completed", "discounted"}
Periods == {"deposit", "month", "onetime", "reset", "gift", "nogift"}
\* type 1 new, 2 renew, 3 change plan, 4 reset traffic, 6 gift, 9 deposit
Types   == {1, 2, 3, 4, 6, 9}
\* expired_at: NULL (never), in the future or in the past.
Expiry  == {"never", "future", "past"}

OrderRow ==
  [status: Status, user: Users \cup {NoUser}, plan: Plans \cup {NoPlan},
   period: Periods, type: Types, total: Nat, bal: Nat, surplus: Nat,
   refund: Nat, from: SUBSET Orders, bind: Users \cup {NoUser}]

UserRow ==
  [balance: Nat, plan: Plans \cup {NoPlan}, expiry: Expiry,
   inviter: Users \cup {NoUser}]

NoOrder ==
  [status |-> "absent", user |-> NoUser, plan |-> NoPlan, period |-> "deposit",
   type |-> 9, total |-> 0, bal |-> 0, surplus |-> 0, refund |-> 0,
   from |-> {}, bind |-> NoUser]

ASSUME OrdersAssumption ==
  /\ Buyers \subseteq Users
  /\ MaxOrders \in Nat /\ MaxJobs \in Nat \ {0} /\ MaxFailures \in Nat
  /\ Catalog \subseteq Plans \X {"month", "onetime", "reset"}
  /\ Codes \subseteq Plans \X {"month", "onetime", "reset"}
  /\ Gifts \subseteq {"gift", "nogift"}
  /\ Binds \subseteq Users \cup {NoUser}
  /\ Prices \subseteq Nat /\ Bonus \in Nat /\ BonusFrom \in Nat
  /\ RewardOn \in BOOLEAN /\ (RewardOn => Gifts # {})
  /\ NoPlan \notin Plans /\ NoUser \notin Users
  /\ Requests \cap Workers = {}
  /\ InitTables \subseteq [order: [Orders -> OrderRow], user: [Users -> UserRow]]
  /\ \A t \in InitTables, o \in Orders :
       \/ t.order[o] = NoOrder
       \/ /\ t.order[o].status = "completed"
          /\ t.order[o].user \in Users
          /\ t.order[o].from = {}   \* open() left what it traded in discounted

Blank == [balance |-> 0, plan |-> NoPlan, expiry |-> "past", inviter |-> NoUser]
Idle  == [pc |-> "idle", order |-> 0, user |-> NoUser, copy |-> Blank]

ProcState ==
  [pc: {"idle", "asked", "known", "save", "pay", "bound", "reward", "handle", "open"},
   order: Orders \cup {0}, user: Users \cup {NoUser}, copy: UserRow]

History ==
  [opens: [Orders -> Nat], refunds: [Orders -> Nat], cash: [Orders -> Nat],
   rewards: [Users -> Nat], initial: [Users -> Nat], beside: SUBSET Orders,
   raced: SUBSET Orders, lost: SUBSET Users, late: SUBSET Users]

TypeOK ==
  /\ order \in [Orders -> OrderRow]
  /\ user \in [Users -> UserRow]
  /\ aged \subseteq Orders
  /\ invoice \in [Orders -> {"none", "open", "captured"}]
  /\ queue \in [Orders -> 0..MaxJobs]
  /\ proc \in [Procs -> ProcState]
  /\ failures \in 0..MaxFailures
  /\ ghost \in History

Init ==
  /\ \E t \in InitTables : order = t.order /\ user = t.user
  /\ aged = {}
  /\ invoice = [o \in Orders |-> "none"]
  /\ queue = [o \in Orders |-> 0]
  /\ proc = [p \in Procs |-> Idle]
  /\ failures = 0
  /\ ghost = [opens   |-> [o \in Orders |-> IF order[o].status = "completed" THEN 1 ELSE 0],
              refunds |-> [o \in Orders |-> 0],
              cash    |-> [o \in Orders |-> order[o].total + order[o].bal + order[o].surplus],
              rewards |-> [u \in Users |->
                 IF \E o \in Orders : order[o].user = u THEN 1 ELSE 0],
              initial |-> [u \in Users |-> user[u].balance],
              beside  |-> {}, raced |-> {}, lost |-> {}, late |-> {}]

-----------------------------------------------------------------------------
(* Helpers *)

Incomplete(u) ==
  {o \in Orders : order[o].user = u /\ order[o].status \in {"pending", "processing"}}

\* An order of u's is being created: the history notes if one is under way.
Beside(u, o) == IF Incomplete(u) = {} THEN {} ELSE {o}

IsNextId(o) ==
  /\ order[o].status = "absent"
  /\ \A q \in Orders : q < o => order[q].status # "absent"

\* One more OrderHandleJob for every order of O.
Pushed(O) == [o \in Orders |-> IF o \in O /\ queue[o] < MaxJobs THEN queue[o] + 1 ELSE queue[o]]

OrderValue_Bug(r) == r.total + r.bal + r.surplus

\* What an order counts for when its plan is given up for another one.
OrderValue(r) ==
  LET v == r.total + r.bal + r.surplus - r.refund IN IF v > 0 THEN v ELSE 0

SurplusOrders_Bug(u, copy) ==
  {o \in Orders : /\ order[o].user = u
                  /\ order[o].status \in {"completed", "discounted"}
                  /\ order[o].period \notin {"reset", "onetime", "deposit"}}

\* The orders whose remaining value a change of plan trades in.
SurplusOrders(u, copy) ==
  {o \in Orders :
     /\ order[o].user = u
     /\ order[o].status = "completed"
     /\ order[o].plan = copy.plan
     /\ IF copy.expiry = "never" THEN order[o].period = "onetime"
                                 ELSE order[o].period \notin {"reset", "onetime", "deposit", "nogift"}}

\* surplus_strategy 0: only the latest paid order of the plan keeps a value,
\* of which between nothing and all is left.
SurplusAmounts(from) ==
  LET paid   == {o \in from : OrderValue(order[o]) > 0}
      latest == {o \in paid : \A q \in paid : q <= o}
  IN  {0} \cup UNION {0..OrderValue(order[o]) : o \in latest}

OrderType(period, plan, copy) ==
  CASE period = "deposit" -> 9
    [] period = "reset" -> 4
    [] period \notin {"deposit", "reset"} /\ copy.plan # NoPlan /\ plan # copy.plan
         /\ copy.expiry # "past" -> 3
    [] period \notin {"deposit", "reset"} /\ plan = copy.plan /\ copy.expiry = "future" -> 2
    [] OTHER -> 1

Smaller(a, b) == IF a < b THEN a ELSE b

\* Eloquent's save(): a column whose value was not changed in the copy is
\* not part of the UPDATE.
Dirty(now, read, new) == IF new = read THEN now ELSE new

StoredUser(now, copy, new) ==
  [now EXCEPT !.balance = Dirty(@, copy.balance, new.balance),
              !.plan    = Dirty(@, copy.plan, new.plan),
              !.expiry  = Dirty(@, copy.expiry, new.expiry)]

-----------------------------------------------------------------------------
(* Creating an order *)

\* The website asks whether an order is under way, and finds the user after it.
Ask(p, u) ==
  /\ proc[p].pc = "idle"
  /\ Incomplete(u) = {}
  /\ proc' = [proc EXCEPT ![p] = [Idle EXCEPT !.pc = "asked", !.user = u]]
  /\ UNCHANGED <<order, user, aged, invoice, queue, failures, ghost>>

FindUser(p) ==
  /\ proc[p].pc = "asked"
  /\ proc' = [proc EXCEPT ![p] = [@ EXCEPT !.pc = "save", !.copy = user[proc[p].user]]]
  /\ UNCHANGED <<order, user, aged, invoice, queue, failures, ghost>>

\* The App has the user from its authentication, and the administrator looks
\* him up, before they ask.  (Bound: there is a row left.)
Authenticate(p, u) ==
  /\ proc[p].pc = "idle"
  /\ \E o \in Orders : IsNextId(o)
  /\ proc' = [proc EXCEPT ![p] = [Idle EXCEPT !.pc = "known", !.user = u, !.copy = user[u]]]
  /\ UNCHANGED <<order, user, aged, invoice, queue, failures, ghost>>

AskKnown(p) ==
  /\ proc[p].pc = "known"
  /\ Incomplete(proc[p].user) = {}
  /\ proc' = [proc EXCEPT ![p] = [@ EXCEPT !.pc = "save"]]
  /\ UNCHANGED <<order, user, aged, invoice, queue, failures, ghost>>

\* The request is refused by a later check, or ends with an exception.
SaveAbort(p) ==
  /\ proc[p].pc \in {"asked", "known", "save"}
  /\ proc' = [proc EXCEPT ![p] = Idle]
  /\ UNCHANGED <<order, user, aged, invoice, queue, failures, ghost>>

\* Eloquent's read, subtract and save, without addBalance's lock.
Insert_StaleBug(p, o, row, debit) ==
  /\ proc[p].pc = "save" /\ IsNextId(o)
  /\ order' = [order EXCEPT ![o] = row]
  /\ user' = [user EXCEPT ![proc[p].user].balance = proc[p].copy.balance - debit]
  /\ proc' = [proc EXCEPT ![p] = Idle]
  /\ ghost' = [ghost EXCEPT !.beside = @ \cup Beside(proc[p].user, o)]
  /\ UNCHANGED <<aged, invoice, queue, failures>>

\* The row is inserted and `debit` taken from the balance, or neither.
Insert(p, o, row, debit) ==
  LET u == proc[p].user
  IN  /\ proc[p].pc = "save"
      /\ IsNextId(o)
      /\ user[u].balance >= debit
      /\ order' = [order EXCEPT ![o] = row]
      /\ user' = [user EXCEPT ![u].balance = @ - debit]
      /\ proc' = [proc EXCEPT ![p] = Idle]
      /\ ghost' = [ghost EXCEPT !.beside = @ \cup Beside(u, o)]
      /\ UNCHANGED <<aged, invoice, queue, failures>>

SaveDeposit(p, o, amount) ==
  /\ amount > 0
  /\ Insert(p, o, [NoOrder EXCEPT !.status = "pending", !.user = proc[p].user,
                                  !.total = amount], 0)

\* What is left to pay once the surplus is taken off.
Due(price, surplus) == IF surplus >= price THEN 0 ELSE price - surplus

\* What an order of this type trades in.
TradeIns(u, copy, type) == IF type = 3 THEN SurplusOrders(u, copy) ELSE {}

\* setOrderType(): the order of a plan at a price, for a user as the copy says.
Quoted(u, copy, plan, period, price, surplus) ==
  LET type == OrderType(period, plan, copy)
  IN  [NoOrder EXCEPT !.status = "pending", !.user = u, !.plan = plan,
         !.period = period, !.type = type, !.total = Due(price, surplus),
         !.surplus = surplus, !.from = TradeIns(u, copy, type),
         !.refund = IF surplus >= price THEN surplus - price ELSE 0]

SavePlan(p, o, plan, period, price, bind) ==
  LET copy == proc[p].copy
      u    == proc[p].user
      from == TradeIns(u, copy, OrderType(period, plan, copy))
  IN  /\ period = "reset" => copy.expiry # "past" /\ plan = copy.plan
      /\ \E surplus \in SurplusAmounts(from) :
           LET debit == Smaller(copy.balance, Due(price, surplus))
           IN  Insert(p, o,
                 [Quoted(u, copy, plan, period, price, surplus) EXCEPT
                    !.total = @ - debit, !.bal = debit, !.bind = bind], debit)

\* An administrator creates an order at a price of his own: no balance, no
\* surplus, and the type ignores whether the present plan has expired.
Assign(p, o, plan, period, price) ==
  LET copy == proc[p].copy
      type == IF period # "reset" /\ copy.plan # NoPlan /\ plan # copy.plan
              THEN 3 ELSE OrderType(period, plan, copy)
  IN  Insert(p, o, [NoOrder EXCEPT !.status = "pending", !.user = proc[p].user,
                      !.plan = plan, !.period = period, !.type = type,
                      !.total = price], 0)

-----------------------------------------------------------------------------
(* Cancelling: UPDATE ... SET status = 2 WHERE id = ? AND status = 0, then  *)
(* addBalance under the lock of the user row, in one transaction.           *)

CancelRow_Bug(o) ==
  /\ order[o].status # "absent"
  /\ order' = [order EXCEPT ![o].status = "cancelled"]
  /\ user' = [user EXCEPT ![order[o].user].balance = @ + order[o].bal]
  /\ aged' = aged \ {o}
  /\ ghost' = [ghost EXCEPT !.refunds[o] = @ + 1]

CancelRow_KeepBug(o) ==
  /\ order[o].status = "pending"
  /\ order' = [order EXCEPT ![o].status = "cancelled"]
  /\ aged' = aged \ {o}
  /\ ghost' = [ghost EXCEPT !.refunds[o] = @ + 1]
  /\ UNCHANGED user

CancelRow(o) ==
  /\ order[o].status = "pending"
  /\ order' = [order EXCEPT ![o].status = "cancelled"]
  /\ user' = [user EXCEPT ![order[o].user].balance = @ + order[o].bal]
  /\ aged' = aged \ {o}
  /\ ghost' = [ghost EXCEPT !.refunds[o] = @ + 1]

\* By the buyer, the App or an administrator.
Cancel(p, o) ==
  /\ proc[p].pc = "idle"
  /\ CancelRow(o)
  /\ UNCHANGED <<invoice, queue, proc, failures>>

-----------------------------------------------------------------------------
(* Paying *)

\* checkout() of an order with something to pay hands it to the gateway.
Checkout(p, o) ==
  /\ proc[p].pc = "idle"
  /\ order[o].status = "pending" /\ order[o].total > 0
  /\ invoice[o] = "none"
  /\ invoice' = [invoice EXCEPT ![o] = "open"]
  /\ UNCHANGED <<order, user, aged, queue, proc, failures, ghost>>

\* The buyer pays at the gateway, whatever became of the order meanwhile.
Capture(o) ==
  /\ invoice[o] = "open"
  /\ invoice' = [invoice EXCEPT ![o] = "captured"]
  /\ ghost' = [ghost EXCEPT !.cash[o] = order[o].total]
  /\ UNCHANGED <<order, user, aged, queue, proc, failures>>

PaidRead_Bug(p, o) ==
  /\ proc[p].pc = "idle" /\ order[o].status = "pending"
  /\ order[o].total = 0 \/ invoice[o] # "none"
  /\ proc' = [proc EXCEPT ![p] = [Idle EXCEPT !.pc = "pay", !.order = o,
                                              !.user = order[o].user]]
  /\ UNCHANGED <<order, user, aged, invoice, queue, failures, ghost>>

\* A handler that is about to call paid() reads a pending order: the buyer's
\* checkout() of an order with nothing left to pay, a callback of the gateway
\* (again and again once the money is captured), or an administrator who
\* received the money.
PaidRead(p, o) ==
  /\ proc[p].pc = "idle"
  /\ order[o].status = "pending"
  /\ \/ /\ order[o].total = 0 \/ invoice[o] = "captured"
        /\ UNCHANGED ghost
     \/ ghost' = [ghost EXCEPT !.cash[o] = order[o].total]
  /\ proc' = [proc EXCEPT ![p] = [Idle EXCEPT !.pc = "pay", !.order = o,
                                              !.user = order[o].user]]
  /\ UNCHANGED <<order, user, aged, invoice, queue, failures>>

\* Who the coupon of an order makes its buyer's inviter.
BoundTo(u, bind) ==
  IF bind \notin {NoUser, u} /\ user[u].inviter = NoUser
  THEN [user EXCEPT ![u].inviter = bind] ELSE user

\* paid() binds the buyer to the owner of the coupon's address first, with an
\* UPDATE of its own.
Bind(p) ==
  /\ proc[p].pc = "pay"
  /\ order[proc[p].order].bind # NoUser
  /\ user' = BoundTo(proc[p].user, order[proc[p].order].bind)
  /\ proc' = [proc EXCEPT ![p].pc = "bound"]
  /\ UNCHANGED <<order, aged, invoice, queue, failures, ghost>>

\* The copy says pending, so the row becomes processing whatever its status
\* is by now, and an OrderHandleJob is pushed -- or the push fails and the
\* exception is swallowed.
PaidWrite(p, pushed) ==
  LET o == proc[p].order
  IN  /\ \/ proc[p].pc = "bound"
         \/ proc[p].pc = "pay" /\ order[o].bind = NoUser
      /\ order' = [order EXCEPT ![o].status = "processing"]
      /\ ghost' = [ghost EXCEPT !.raced =
                     IF order[o].status = "pending" THEN @ ELSE @ \cup {o}]
      /\ \/ /\ pushed
            /\ queue' = Pushed({o})
            /\ proc' = [proc EXCEPT ![p].pc = "reward"]
            /\ UNCHANGED failures
         \/ /\ ~pushed /\ failures < MaxFailures
            /\ failures' = failures + 1
            /\ proc' = [proc EXCEPT ![p] = Idle]
            /\ UNCHANGED queue
      /\ aged' = aged \ {o}
      /\ UNCHANGED <<user, invoice>>

EarnsReward_Bug(o, u) ==
  /\ RewardOn /\ order[o].total # 0 /\ user[u].inviter # NoUser
  /\ user[user[u].inviter].plan \notin {NoPlan, TrialPlan}

\* handleFirstOrderReward(): the inviter earns a gift order, born paid.
EarnsReward(o, u) ==
  /\ RewardOn
  /\ order[o].total # 0
  /\ user[u].inviter # NoUser
  /\ user[user[u].inviter].plan \notin {NoPlan, TrialPlan}
  /\ \A q \in Orders \ {o} : ~(order[q].user = u /\ order[q].status = "completed")

Reward(p) ==
  LET o   == proc[p].order
      u   == proc[p].user
      inv == user[u].inviter
  IN  /\ proc[p].pc = "reward"
      /\ IF EarnsReward(o, u) /\ \E r \in Orders : IsNextId(r)
         THEN \E r \in Orders, gift \in Gifts :
                /\ IsNextId(r)
                /\ order' = [order EXCEPT ![r] =
                     [NoOrder EXCEPT !.status = "processing", !.user = inv,
                        !.plan = user[inv].plan, !.period = gift, !.type = 6]]
                /\ queue' = Pushed({r})
                /\ ghost' = [ghost EXCEPT !.rewards[u] = @ + 1,
                               !.late = IF order[o].status = "processing" THEN @ ELSE @ \cup {u}]
         ELSE UNCHANGED <<order, queue, ghost>>
      /\ proc' = [proc EXCEPT ![p] = Idle]
      /\ UNCHANGED <<user, aged, invoice, failures>>

-----------------------------------------------------------------------------
(* OrderHandleJob *)

Sweep_PaidBug ==
  /\ queue' = Pushed({o \in Orders : order[o].status = "processing"})
  /\ UNCHANGED <<order, user, aged, invoice, proc, failures, ghost>>

Sweep_UnpaidBug ==
  /\ queue' = Pushed({o \in Orders : order[o].status = "pending"})
  /\ UNCHANGED <<order, user, aged, invoice, proc, failures, ghost>>

\* check:order, every minute: a job for every order that is still 0 or 1.
Sweep ==
  /\ queue' = Pushed({o \in Orders : order[o].status \in {"pending", "processing"}})
  /\ UNCHANGED <<order, user, aged, invoice, proc, failures, ghost>>

\* The workers that have read an order and not yet written it.
Holders(o) == {q \in Procs : proc[q].pc \in {"handle", "open"} /\ proc[q].order = o}

TakeJob_Bug(w, o) ==
  /\ proc[w].pc = "idle" /\ queue[o] > 0
  /\ queue' = [queue EXCEPT ![o] = @ - 1]
  /\ order[o].status \notin {"absent", "pending"}
  /\ proc' = [proc EXCEPT ![w] = [Idle EXCEPT !.pc = "handle", !.order = o,
                                              !.user = order[o].user]]
  /\ ghost' = [ghost EXCEPT !.raced = IF Holders(o) = {} THEN @ ELSE @ \cup {o}]
  /\ UNCHANGED <<order, user, aged, invoice, failures>>

TakeJob(w, o) ==
  /\ proc[w].pc = "idle"
  /\ queue[o] > 0
  /\ queue' = [queue EXCEPT ![o] = @ - 1]
  /\ \/ /\ o \in aged
        /\ CancelRow(o)
        /\ UNCHANGED proc
     \/ /\ order[o].status = "processing"
        /\ proc' = [proc EXCEPT ![w] = [Idle EXCEPT !.pc = "handle", !.order = o,
                                                    !.user = order[o].user]]
        /\ ghost' = [ghost EXCEPT !.raced = IF Holders(o) = {} THEN @ ELSE @ \cup {o}]
        /\ UNCHANGED <<order, user, aged>>
     \/ /\ order[o].status # "processing"
        /\ o \notin aged
        /\ UNCHANGED <<order, user, aged, proc, ghost>>
  /\ UNCHANGED <<invoice, failures>>

\* open() loads the user after the order, without a lock.
OpenReadUser(w) ==
  /\ proc[w].pc = "handle"
  /\ proc' = [proc EXCEPT ![w] = [proc[w] EXCEPT !.pc = "open", !.copy = user[proc[w].user]]]
  /\ UNCHANGED <<order, user, aged, invoice, queue, failures, ghost>>

\* What the order adds to the balance when it is opened.
Credit(r) ==
  IF r.type = 9 THEN r.total + (IF r.total >= BonusFrom THEN Bonus ELSE 0)
                ELSE r.refund

\* The user row the order leaves behind, computed from the copy.
Opened(copy, r) ==
  [copy EXCEPT
     !.balance = @ + Credit(r),
     !.plan    = IF r.period \in {"deposit", "reset"} THEN @ ELSE r.plan,
     !.expiry  = CASE r.period \in {"deposit", "reset"} -> @
                   [] r.period \in {"onetime", "nogift"} -> "never"
                   [] OTHER -> "future"]

\* Order o, with the terms of r, is fulfilled and what it trades in closed.
Fulfilled(o, r) ==
  [q \in Orders |->
     IF q = o THEN [r EXCEPT !.status = "completed"]
     ELSE IF q \in r.from THEN [order[q] EXCEPT !.status = "discounted"]
     ELSE order[q]]

OpenWrite(w) ==
  LET o    == proc[w].order
      u    == proc[w].user
      copy == proc[w].copy
      new  == Opened(copy, order[o])
  IN  /\ proc[w].pc = "open"
      /\ order' = Fulfilled(o, order[o])
      /\ user' = [user EXCEPT ![u] = StoredUser(@, copy, new)]
      /\ ghost' = [ghost EXCEPT !.opens[o] = @ + 1,
                     !.lost = IF new.balance # copy.balance /\ copy.balance # user[u].balance
                              THEN @ \cup {u} ELSE @]
      /\ proc' = [proc EXCEPT ![w] = Idle]
      /\ UNCHANGED <<aged, invoice, queue, failures>>

-----------------------------------------------------------------------------
(* Redemption codes: an order of price zero, that neither handler refuses   *)
(* to a buyer who has one under way.                                        *)

\* The App inserts the order and pays it in one transaction.  A worker that
\* takes the job before the commit finds no order, as if nothing was pushed.
Redeem(p, o, plan, period, bind, pushed) ==
  LET u    == proc[p].user
      copy == proc[p].copy
      from == TradeIns(u, copy, OrderType(period, plan, copy))
  IN  /\ proc[p].pc = "known"
      /\ IsNextId(o)
      /\ \E surplus \in SurplusAmounts(from) :
           order' = [order EXCEPT ![o] =
             [Quoted(u, copy, plan, period, 0, surplus) EXCEPT
                !.status = "processing", !.bind = bind]]
      /\ user' = BoundTo(u, bind)
      /\ queue' = IF pushed THEN Pushed({o}) ELSE queue
      /\ proc' = [proc EXCEPT ![p] = Idle]
      /\ ghost' = [ghost EXCEPT !.beside = @ \cup Beside(u, o)]
      /\ UNCHANGED <<aged, invoice, failures>>

\* The website locks the user row, inserts the order and opens it, in one
\* transaction.
RedeemNow(p, u, o, plan, period) ==
  LET from == TradeIns(u, user[u], OrderType(period, plan, user[u]))
  IN  /\ proc[p].pc = "idle"
      /\ IsNextId(o)
      /\ \E surplus \in SurplusAmounts(from) :
           LET row == Quoted(u, user[u], plan, period, 0, surplus)
           IN  /\ order' = Fulfilled(o, row)
               /\ user' = [user EXCEPT ![u] = Opened(@, row)]
      /\ ghost' = [ghost EXCEPT !.opens[o] = @ + 1, !.beside = @ \cup Beside(u, o)]
      /\ UNCHANGED <<aged, invoice, queue, proc, failures>>

-----------------------------------------------------------------------------
\* A process dies or its handler throws: an open transaction is rolled back;
\* a job goes back to the queue or, its tries used up, is dropped.
Die(p, requeue) ==
  /\ proc[p].pc \in {"pay", "bound", "reward", "handle", "open"}
  /\ failures < MaxFailures
  /\ failures' = failures + 1
  /\ queue' = IF requeue THEN Pushed({proc[p].order}) ELSE queue
  /\ requeue => proc[p].pc \in {"handle", "open"}
  /\ proc' = [proc EXCEPT ![p] = Idle]
  /\ UNCHANGED <<order, user, aged, invoice, ghost>>

-----------------------------------------------------------------------------
(* Time *)

TwoHours(o) ==
  /\ order[o].status = "pending"
  /\ aged' = aged \cup {o}
  /\ UNCHANGED <<order, user, invoice, queue, proc, failures, ghost>>

Expire(u) ==
  /\ user[u].expiry = "future"
  /\ user' = [user EXCEPT ![u].expiry = "past"]
  /\ UNCHANGED <<order, aged, invoice, queue, proc, failures, ghost>>

-----------------------------------------------------------------------------
Save(p) ==
  \/ \E u \in Buyers : Ask(p, u) \/ Authenticate(p, u)
  \/ FindUser(p) \/ AskKnown(p) \/ SaveAbort(p)
  \/ \E o \in Orders, price \in Prices :
       \/ SaveDeposit(p, o, price)
       \/ \E item \in Catalog :
            \/ Assign(p, o, item[1], item[2], price)
            \/ \E bind \in Binds : SavePlan(p, o, item[1], item[2], price, bind)

UseCode(p) ==
  \E o \in Orders, item \in Codes :
    \/ \E u \in Buyers : RedeemNow(p, u, o, item[1], item[2])
    \/ \E bind \in Binds, pushed \in BOOLEAN : Redeem(p, o, item[1], item[2], bind, pushed)

Request(p) ==
  \/ Save(p)
  \/ UseCode(p)
  \/ \E o \in Orders : Cancel(p, o) \/ Checkout(p, o) \/ PaidRead(p, o)
  \/ Bind(p)
  \/ \E pushed \in BOOLEAN : PaidWrite(p, pushed)
  \/ Reward(p)

Worker(w) ==
  \/ \E o \in Orders : TakeJob(w, o)
  \/ OpenReadUser(w)
  \/ OpenWrite(w)

Next ==
  \/ \E p \in Requests : Request(p)
  \/ \E w \in Workers : Worker(w)
  \/ \E p \in Procs, requeue \in BOOLEAN : Die(p, requeue)
  \/ \E o \in Orders : Capture(o) \/ TwoHours(o)
  \/ \E u \in Users : Expire(u)
  \/ Sweep

Spec == Init /\ [][Next]_vars

-----------------------------------------------------------------------------
(* What every handler relies on without checking it: rows and processes    *)
(* name accounts and orders that exist.                                     *)

Owned ==
  /\ \A o \in Orders :
       order[o].status # "absent" =>
         /\ order[o].user \in Users
         /\ \A q \in order[o].from : order[q].status # "absent"
  /\ \A p \in Procs :
       proc[p].pc # "idle" =>
         /\ proc[p].user \in Users
         /\ proc[p].pc \notin {"asked", "known", "save"} =>
              /\ proc[p].order \in Orders
              /\ order[proc[p].order].status \notin {"absent"}
              /\ order[proc[p].order].user = proc[p].user

\* The state of an order that was not raced, from which OpenedOnce follows:
\* the history agrees with the status, what the order is traded in for was
\* there to be traded in, and what its worker is about to write is true of
\* the row.
Agreed ==
  \A o \in Orders \ ghost.raced :
    /\ ghost.opens[o] = IF order[o].status \in {"completed", "discounted"} THEN 1 ELSE 0
    /\ ghost.refunds[o] = IF order[o].status = "cancelled" THEN 1 ELSE 0
    /\ \A q \in Orders : o \in order[q].from => order[o].status \in {"completed", "discounted"}
    /\ \A p \in Holders(o) : order[o].status = "processing" /\ Holders(o) = {p}

-----------------------------------------------------------------------------
(* Properties *)

\* The sum over a user's orders.
Over(u, amount) ==
  SumFunctionOnSet([o \in Orders |-> IF order[o].user = u THEN amount[o] ELSE 0], Orders)

\* The conditional UPDATE of OrderService::cancel lets one of the buyer, the
\* administrator and the two-hour job return the balance part, once; and an
\* order that is still pending has not been refunded.
RefundedOnce ==
  \A o \in Orders :
    /\ ghost.refunds[o] <= 1
    /\ ghost.refunds[o] = 1 => order[o].status \notin {"absent", "pending"}
    /\ order[o].status = "cancelled" => ghost.refunds[o] = 1

\* An order is only fulfilled when nothing was left to pay for it or its
\* money was received: no mix of checkout, callback and queue opens another.
FulfilledIsPaid ==
  \A o \in Orders :
    order[o].status \in {"processing", "completed"} \/ ghost.opens[o] > 0
      => ghost.cash[o] >= order[o].total

\* What an order holds of its buyer's balance.
Held(o) == IF ghost.refunds[o] = 0 THEN order[o].bal ELSE 0

\* addBalance works under the lock of the user row: as long as no order is
\* opened, however many orders are created and cancelled at once, a balance
\* is the first one less what the uncancelled orders hold, and never negative.
BalanceAccounted ==
  (\A o \in Orders : ghost.opens[o] = 0) =>
    \A u \in Users :
      /\ user[u].balance >= 0
      /\ user[u].balance + Over(u, [o \in Orders |-> Held(o)]) = ghost.initial[u]

\* However often callbacks and jobs are repeated, OrderService::open fulfils
\* an order once, and never one whose balance part went back to the buyer:
\* only paid() writing over a status that is no longer pending, or a second
\* worker on an order whose first one has not finished, can break that.
OpenedOnce ==
  \A o \in Orders \ ghost.raced : ghost.opens[o] + ghost.refunds[o] <= 1

\* An order is traded in for one change of plan at most, unless an order was
\* created while another of the buyer was under way: what save and assign
\* refuse, and the redemption of a code does not.
TradedInOnce ==
  \A a, b \in Orders \ (ghost.raced \cup ghost.beside) :
    a # b /\ ghost.opens[a] > 0 /\ ghost.opens[b] > 0
      => order[a].from \cap order[b].from \subseteq ghost.raced

\* Handlers met over an order of u's.
Met(u) == \E o \in ghost.raced \cup ghost.beside : order[o].user = u

\* handleFirstOrderReward pays for the first order of an invitee only.
RewardedOnce ==
  \A u \in Users : ~Met(u) /\ u \notin ghost.late => ghost.rewards[u] <= 1

\* What a user owns here: his balance, what pending and paid orders hold of
\* his money, and what opened orders count for in a change of plan.
Holding(o) ==
  CASE order[o].status = "pending" -> order[o].bal
    [] order[o].status = "processing" -> order[o].bal + order[o].total
    [] order[o].status = "completed" /\ order[o].period \notin {"deposit", "reset"}
         -> OrderValue(order[o])
    [] OTHER -> 0

Received(o) == ghost.cash[o] + (IF order[o].type = 9 /\ ghost.opens[o] > 0
                                 THEN Credit(order[o]) - order[o].total ELSE 0)

\* Cancelling, changing plans and refunding never leave a user with more
\* than he brought: what he owns is at most his first balance, the money
\* received for his orders and the bonus of his deposits.
NoMoneyCreated ==
  \A u \in Users : ~Met(u) /\ u \notin ghost.lost =>
    user[u].balance + Over(u, [o \in Orders |-> Holding(o)])
      <= ghost.initial[u] + Over(u, [o \in Orders |-> Received(o)])

-----------------------------------------------------------------------------
(* The promise: undisturbed handlers implement Purchases.  A discounted     *)
(* order was fulfilled before; its trade-in is part of the gain of another. *)

Promise == INSTANCE Purchases WITH
  Ids    <- Orders,
  phase  <- [o \in Orders |->
               CASE order[o].status = "absent" -> "none"
                 [] order[o].status = "pending" -> "placed"
                 [] order[o].status = "processing" -> "paid"
                 [] order[o].status = "cancelled" -> "void"
                 [] OTHER -> "fulfilled"],
  owner  <- [o \in Orders |-> order[o].user],
  held   <- [o \in Orders |-> order[o].bal],
  gain   <- [o \in Orders |-> IF order[o].status = "absent" THEN 0 ELSE Credit(order[o])],
  wallet <- [u \in Users |-> user[u].balance]

\* No handler has written over what another one wrote.
Undisturbed == ghost.raced = {} /\ ghost.lost = {}

\* Until handlers disturb one another, every step is a step of a purchase or
\* changes neither an order's phase nor a balance: no handler fulfils twice,
\* refunds what was paid, or loses or invents money on the way.
PromiseKept ==
  Promise!Init /\ [][Undisturbed' => Promise!Next \/ UNCHANGED Promise!vars]_vars

UndisturbedSpec == Init /\ [][Next /\ Undisturbed']_vars

-----------------------------------------------------------------------------
(* Liveness.  The scheduler runs check:order every minute, Horizon keeps    *)
(* the workers running and the Redis list is first in, first out, PHP ends  *)
(* every handler, and the gateway repeats a callback that was not answered  *)
(* with success.  Users, administrators and failures are not fair.          *)

Finish(p) ==
  \/ SaveAbort(p) \/ Bind(p) \/ Reward(p) \/ OpenReadUser(p) \/ OpenWrite(p)
  \/ \E pushed \in BOOLEAN : PaidWrite(p, pushed)

Callback(o) == invoice[o] = "captured" /\ \E p \in Requests : PaidRead(p, o)

Fairness ==
  /\ WF_vars(Sweep)
  /\ \A p \in Procs : WF_vars(Finish(p))
  /\ \A o \in Orders : SF_vars(\E w \in Workers : TakeJob(w, o)) /\ SF_vars(Callback(o))

FairSpec == Spec /\ Fairness

\* A paid order is opened in the end, even when its job was never pushed,
\* died with its worker or used up its tries: check:order pushes another.
PaidIsOpened ==
  \A o \in Orders :
    order[o].status = "processing" ~> order[o].status \in {"completed", "discounted"}

\* Money the gateway captured for a pending order does not leave it pending,
\* even when the first callback died half-way; and one nobody pays is closed once it
\* is two hours old, and the balance it holds returned.
PendingIsLeft ==
  \A o \in Orders :
    order[o].status = "pending" /\ (invoice[o] = "captured" \/ o \in aged)
      ~> order[o].status # "pending"
=============================================================================
