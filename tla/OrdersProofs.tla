---------------------------- MODULE OrdersProofs ----------------------------
(***************************************************************************)
(* Proofs about Orders, for every set of accounts and processes, every     *)
(* number of orders and every interleaving of handlers.  Typed is the type *)
(* invariant with what it rests on; Agreed, Accounted, Paid, TradeInv,     *)
(* RewardInv and MoneyInv are the other inductive invariants.  At the end, *)
(* proofs about Surplus, for every history of orders.                      *)
(***************************************************************************)
EXTENDS MCSurplus, SumTheorems, TLAPS

Typed == TypeOK /\ Owned

\* The blank values have the types of the rows they stand for.
LEMMA BlankTypes ==
  /\ NoOrder \in OrderRow
  /\ Idle \in ProcState
  /\ Blank \in UserRow
BY DEF NoOrder, OrderRow, Idle, ProcState, Blank, UserRow, Status, Periods, Types, Expiry

\* Changing the status, or the columns of a user, leaves a row a row.
LEMMA StatusUpdate ==
  ASSUME NEW r \in OrderRow, NEW s \in Status
  PROVE  /\ [r EXCEPT !.status = s] \in OrderRow
         /\ [r EXCEPT !.status = s].status = s
         /\ [r EXCEPT !.status = s].user = r.user
         /\ [r EXCEPT !.status = s].from = r.from
BY DEF OrderRow

LEMMA StoredUserType ==
  ASSUME NEW now \in UserRow, NEW copy \in UserRow, NEW new \in UserRow
  PROVE  StoredUser(now, copy, new) \in UserRow
BY DEF StoredUser, Dirty, UserRow

LEMMA UserUpdate ==
  ASSUME NEW r \in UserRow, NEW b \in Nat, NEW pl \in Plans \cup {NoPlan}, NEW e \in Expiry
  PROVE  [r EXCEPT !.balance = b, !.plan = pl, !.expiry = e] \in UserRow
BY DEF UserRow

\* A push of jobs keeps the queue within its bound.
LEMMA PushedType ==
  ASSUME queue \in [Orders -> 0..MaxJobs], NEW S
  PROVE  Pushed(S) \in [Orders -> 0..MaxJobs]
BY OrdersAssumption DEF Pushed

\* What an order counts for, and what it can be traded in for, are amounts.
LEMMA OrderValueType ==
  ASSUME TypeOK, NEW o \in Orders
  PROVE  OrderValue(order[o]) \in Nat
<1>1. /\ order[o].total \in Nat /\ order[o].bal \in Nat
      /\ order[o].surplus \in Nat /\ order[o].refund \in Nat
  BY DEF TypeOK, OrderRow
<1> QED  BY <1>1 DEF OrderValue

LEMMA SurplusAmountsType ==
  ASSUME TypeOK, NEW from \in SUBSET Orders, NEW n \in SurplusAmounts(from)
  PROVE  n \in Nat
BY DEF SurplusAmounts, OrderValue, TypeOK, OrderRow

\* At the start every order is missing or completed long ago.
LEMMA InitRows ==
  ASSUME Init, NEW o \in Orders
  PROVE  /\ order[o] = NoOrder \/ order[o].status = "completed"
         /\ order[o].from = {}
         /\ order[o].status = "absent" <=> order[o] = NoOrder
<1>1. PICK t \in InitTables : order = t.order
  BY DEF Init
<1>2. NoOrder.status = "absent" /\ NoOrder.from = {}
  BY DEF NoOrder
<1> QED  BY <1>1, <1>2, OrdersAssumption

LEMMA TypeInit == Init => Typed
<1> SUFFICES ASSUME Init PROVE Typed
  OBVIOUS
<1>1. PICK t \in InitTables : order = t.order /\ user = t.user
  BY DEF Init
<1>2. order \in [Orders -> OrderRow] /\ user \in [Users -> UserRow]
  BY <1>1, OrdersAssumption
<1>3. Owned
  <2>1. \A q \in Orders : order[q] # NoOrder =>
          order[q].user \in Users /\ order[q].from = {}
    BY <1>1, OrdersAssumption
  <2>2. \A q \in Orders : order[q].status # "absent" <=> order[q] # NoOrder
    BY InitRows
  <2>3. \A p \in Procs : proc[p].pc = "idle"
    BY DEF Init, Idle
  <2> QED  BY <2>1, <2>2, <2>3 DEF Owned
<1>4. ghost \in History
  <2>1. \A o \in Orders : order[o].total + order[o].bal + order[o].surplus \in Nat
    BY <1>2 DEF OrderRow
  <2>2. \A u \in Users : user[u].balance \in Nat
    BY <1>2 DEF UserRow
  <2>3. [o \in Orders |-> order[o].total + order[o].bal + order[o].surplus] \in [Orders -> Nat]
    BY <2>1
  <2>4. [u \in Users |-> user[u].balance] \in [Users -> Nat]
    BY <2>2
  <2> QED  BY <2>3, <2>4 DEF Init, History
<1>5. TypeOK
  BY <1>2, <1>4, BlankTypes, OrdersAssumption DEF Init, TypeOK
<1> QED  BY <1>3, <1>5 DEF Typed

-----------------------------------------------------------------------------
(* Steps that create a row or change one. *)

\* An order that is created names what exists.
LEMMA BornOwned ==
  ASSUME Typed, NEW o \in Orders, IsNextId(o), NEW row \in OrderRow, row.user \in Users,
         \A q \in row.from : order[q].status # "absent",
         order'[o].user = row.user, order'[o].from = row.from, order'[o].status # "absent",
         \A q \in Orders \ {o} : /\ order'[q].user = order[q].user
                                 /\ order'[q].from = order[q].from
                                 /\ order[q].status # "absent" <=> order'[q].status # "absent",
         \A p \in Procs : proc'[p].pc # "idle" => proc'[p] = proc[p]
  PROVE  Owned'
<1>1. order[o].status = "absent" /\ row.from \subseteq Orders
  BY DEF IsNextId, OrderRow
<1>2. \A q \in Orders : order[q].from \subseteq Orders
  BY DEF Typed, TypeOK, OrderRow
<1>3. \A q \in Orders : order'[q].status # "absent" =>
        order'[q].user \in Users /\ \A r \in order'[q].from : order'[r].status # "absent"
  BY <1>1, <1>2 DEF Typed, Owned
<1>4. \A p \in Procs : proc'[p].pc # "idle" =>
        /\ proc'[p].user \in Users
        /\ proc'[p].pc \notin {"asked", "known", "save"} =>
             /\ proc'[p].order \in Orders
             /\ order'[proc'[p].order].status \notin {"absent"}
             /\ order'[proc'[p].order].user = proc'[p].user
  BY <1>1 DEF Typed, Owned
<1> QED  BY <1>3, <1>4 DEF Owned

LEMMA BesideType ==
  ASSUME NEW u, NEW o \in Orders
  PROVE  Beside(u, o) \subseteq Orders
BY DEF Beside

LEMMA InsertTyped ==
  ASSUME Typed, NEW p \in Procs, NEW o \in Orders, NEW row \in OrderRow,
         NEW debit \in Nat, row.user = proc[p].user, row.status # "absent",
         \A q \in row.from : order[q].status # "absent",
         Insert(p, o, row, debit)
  PROVE  Typed'
<1> DEFINE u == proc[p].user
<1>1. u \in Users /\ row.user \in Users
  BY DEF Insert, Typed, Owned
<1>2. user[u].balance \in Nat /\ user[u].balance - debit \in Nat
  BY <1>1 DEF Insert, Typed, TypeOK, UserRow
<1>3. user' \in [Users -> UserRow]
  BY <1>1, <1>2 DEF Insert, Typed, TypeOK, UserRow
<1>4. order' \in [Orders -> OrderRow]
  BY DEF Insert, Typed, TypeOK
<1>5. proc' \in [Procs -> ProcState] /\ \A q \in Procs : proc'[q].pc # "idle" => proc'[q] = proc[q]
  BY BlankTypes DEF Insert, Typed, TypeOK, Idle
<1>6. ghost' \in History
  BY BesideType DEF Insert, Typed, TypeOK, History
<1>7. TypeOK'
  BY <1>3, <1>4, <1>5, <1>6 DEF Insert, Typed, TypeOK
<1>8. IsNextId(o) /\ order'[o] = row /\ \A q \in Orders \ {o} : order'[q] = order[q]
  BY DEF Insert, Typed, TypeOK
<1>9. Owned'
  BY <1>1, <1>5, <1>8, BornOwned
<1> QED  BY <1>7, <1>9 DEF Typed

LEMMA CancelRowTyped ==
  ASSUME Typed, NEW o \in Orders, CancelRow(o)
  PROVE  /\ order' \in [Orders -> OrderRow] /\ user' \in [Users -> UserRow]
         /\ aged' \subseteq Orders
         /\ ghost' \in History
         /\ \A q \in Orders : /\ order'[q].user = order[q].user
                              /\ order'[q].from = order[q].from
                              /\ order[q].status # "absent" <=> order'[q].status # "absent"
<1>1. order[o].user \in Users /\ order[o].bal \in Nat
  BY DEF CancelRow, Typed, TypeOK, Owned, OrderRow
<1>2. user[order[o].user].balance + order[o].bal \in Nat
  BY <1>1 DEF Typed, TypeOK, UserRow
<1>3. user' \in [Users -> UserRow]
  BY <1>1, <1>2 DEF CancelRow, Typed, TypeOK, UserRow
<1>4. order' \in [Orders -> OrderRow]
  <2>1. order[o] \in OrderRow /\ "cancelled" \in Status
    BY DEF Typed, TypeOK, Status
  <2>2. [order[o] EXCEPT !.status = "cancelled"] \in OrderRow
    BY <2>1, StatusUpdate
  <2> QED  BY <2>2 DEF CancelRow, Typed, TypeOK
<1>5. aged' \subseteq Orders
  BY DEF CancelRow, Typed, TypeOK
<1>6. ghost' \in History
  BY DEF CancelRow, Typed, TypeOK, History
<1>7. \A q \in Orders : /\ order'[q].user = order[q].user
                        /\ order'[q].from = order[q].from
                        /\ order[q].status # "absent" <=> order'[q].status # "absent"
  BY DEF CancelRow, Typed, TypeOK, OrderRow
<1> QED  BY <1>3, <1>4, <1>5, <1>6, <1>7

\* The copy an order leaves behind is a user row.
LEMMA OpenedType ==
  ASSUME NEW r \in OrderRow, NEW copy \in UserRow
  PROVE  Opened(copy, r) \in UserRow
<1>1. Credit(r) \in Nat
  BY OrdersAssumption DEF Credit, OrderRow
<1>2. copy.balance + Credit(r) \in Nat
  BY <1>1 DEF UserRow
<1>3. (IF r.period \in {"deposit", "reset"} THEN copy.plan ELSE r.plan) \in Plans \cup {NoPlan}
  BY DEF UserRow, OrderRow
<1>4. (CASE r.period \in {"deposit", "reset"} -> copy.expiry
         [] r.period \in {"onetime", "nogift"} -> "never"
         [] OTHER -> "future") \in Expiry
  BY DEF UserRow, Expiry
<1> QED  BY <1>2, <1>3, <1>4, UserUpdate DEF Opened

\* Fulfilling an order changes no more than statuses beside its own row.
LEMMA FulfilledRows ==
  ASSUME Typed, NEW o \in Orders, NEW r \in OrderRow, order' = Fulfilled(o, r),
         \A q \in r.from : order[q].status # "absent"
  PROVE  /\ order' \in [Orders -> OrderRow]
         /\ order'[o] = [r EXCEPT !.status = "completed"]
         /\ order'[o].status = "completed" /\ order'[o].user = r.user /\ order'[o].from = r.from
         /\ \A q \in Orders \ {o} : /\ order'[q].user = order[q].user
                                    /\ order'[q].from = order[q].from
                                    /\ order[q].status # "absent" <=> order'[q].status # "absent"
<1>1. {"completed", "discounted"} \subseteq Status
  BY DEF Status
<1>2. order'[o] = [r EXCEPT !.status = "completed"]
  BY DEF Fulfilled
<1>3. /\ order'[o] \in OrderRow
      /\ order'[o].status = "completed" /\ order'[o].user = r.user /\ order'[o].from = r.from
  BY <1>1, <1>2, StatusUpdate
<1>4. ASSUME NEW q \in Orders \ {o}
      PROVE  /\ order'[q] \in OrderRow
             /\ order'[q].user = order[q].user
             /\ order'[q].from = order[q].from
             /\ order[q].status # "absent" <=> order'[q].status # "absent"
  <2>1. order[q] \in OrderRow
    BY DEF Typed, TypeOK
  <2>2. order'[q] = IF q \in r.from THEN [order[q] EXCEPT !.status = "discounted"] ELSE order[q]
    BY DEF Fulfilled
  <2> QED  BY <1>1, <2>1, <2>2, StatusUpdate
<1>5. order' \in [Orders -> OrderRow]
  BY <1>3, <1>4 DEF Fulfilled
<1> QED  BY <1>2, <1>3, <1>4, <1>5

LEMMA OpenWriteTyped ==
  ASSUME Typed, NEW w \in Procs, OpenWrite(w)
  PROVE  Typed'
<1> DEFINE o    == proc[w].order
           u    == proc[w].user
           copy == proc[w].copy
           new  == Opened(copy, order[o])
<1>1. o \in Orders /\ u \in Users /\ copy \in UserRow /\ order[o] \in OrderRow
      /\ order[o].status # "absent" /\ \A q \in order[o].from : order[q].status # "absent"
  BY DEF OpenWrite, Typed, TypeOK, Owned, ProcState
<1>2. new \in UserRow
  BY <1>1, OpenedType
<1>3. user' \in [Users -> UserRow]
  <2>1. user[u] \in UserRow
    BY <1>1 DEF Typed, TypeOK
  <2>2. StoredUser(user[u], copy, new) \in UserRow
    BY <1>1, <1>2, <2>1, StoredUserType
  <2> QED  BY <2>2 DEF OpenWrite, Typed, TypeOK
<1>4. /\ order' \in [Orders -> OrderRow]
      /\ \A q \in Orders : /\ order'[q].user = order[q].user
                           /\ order'[q].from = order[q].from
                           /\ order[q].status # "absent" <=> order'[q].status # "absent"
  <2>1. order' = Fulfilled(o, order[o])
    BY DEF OpenWrite
  <2>2. o \in Orders /\ order[o] \in OrderRow /\ \A q \in order[o].from : order[q].status # "absent"
    BY <1>1
  <2> HIDE DEF o, u, copy, new
  <2>3. /\ order' \in [Orders -> OrderRow]
        /\ order'[o].status = "completed" /\ order'[o].user = order[o].user
        /\ order'[o].from = order[o].from
        /\ \A q \in Orders \ {o} : /\ order'[q].user = order[q].user
                                   /\ order'[q].from = order[q].from
                                   /\ order[q].status # "absent" <=> order'[q].status # "absent"
    BY <2>1, <2>2, FulfilledRows
  <2> QED  BY <1>1, <2>3
<1>5. ghost' \in History
  <2>1. ghost.opens[o] + 1 \in Nat
    BY <1>1 DEF Typed, TypeOK, History
  <2> QED  BY <1>1, <2>1 DEF OpenWrite, Typed, TypeOK, History
<1>6. proc' \in [Procs -> ProcState]
  BY BlankTypes DEF OpenWrite, Typed, TypeOK
<1>7. TypeOK'
  BY <1>3, <1>4, <1>5, <1>6 DEF OpenWrite, Typed, TypeOK
<1>8. Owned'
  <2>1. \A q \in Procs : q # w => proc'[q] = proc[q]
    BY DEF OpenWrite, Typed, TypeOK
  <2>2. proc'[w].pc = "idle"
    BY DEF OpenWrite, Typed, TypeOK, Idle
  <2>3. \A q \in Orders : order[q].from \subseteq Orders
    BY DEF Typed, TypeOK, OrderRow
  <2> QED  BY <1>4, <2>1, <2>2, <2>3 DEF Typed, Owned
<1> QED  BY <1>7, <1>8 DEF Typed

-----------------------------------------------------------------------------
(* What a request that creates an order inserts. *)

\* The terms of an order that is not a gift, in the table t it was placed in:
\* what it trades in was a completed order of the same buyer, and its surplus
\* is no more than one of these is worth.
Terms(r, t) ==
  /\ r.type # 6 /\ (r.type = 9 <=> r.period = "deposit")
  /\ r.type = 9 => r.bal = 0 /\ r.refund = 0
  /\ r.refund <= r.surplus
  /\ r.period = "reset" => r.surplus = 0
  /\ \A q \in r.from : /\ t[q].status = "completed" /\ t[q].user = r.user
                       /\ t[q].period \notin {"deposit", "reset"}
  /\ r.surplus = 0 \/ \E q \in r.from : r.surplus <= OrderValue(t[q])

Bought(p, row, debit) ==
  row.user = proc[p].user /\ row.status = "pending" /\ row.bal = debit /\ Terms(row, order)

LEMMA QuotedTerms ==
  ASSUME Typed, NEW u \in Users, NEW copy \in UserRow, NEW price \in Nat,
         NEW plan \in Plans, NEW period \in {"month", "onetime", "reset"},
         NEW surplus \in SurplusAmounts(TradeIns(u, copy, OrderType(period, plan, copy))),
         NEW row, row = Quoted(u, copy, plan, period, price, surplus)
  PROVE  /\ row \in OrderRow /\ row.user = u /\ row.status = "pending" /\ row.bal = 0
         /\ row.type # 9 /\ row.total = Due(price, surplus) /\ Due(price, surplus) \in Nat
         /\ Terms(row, order)
<1> DEFINE type == OrderType(period, plan, copy)
           from == TradeIns(u, copy, type)
           due  == Due(price, surplus)
           refund == IF surplus >= price THEN surplus - price ELSE 0
<1>1. type \in {1, 2, 3, 4} /\ (period = "reset" => type = 4)
  BY DEF OrderType
<1>2. /\ from \in SUBSET Orders
      /\ \A q \in from : /\ order[q].status = "completed" /\ order[q].user = u
                         /\ order[q].period \notin {"deposit", "reset"}
      /\ period = "reset" => from = {}
  BY <1>1 DEF TradeIns, SurplusOrders
<1>3. surplus = 0 \/ \E q \in from : surplus \in 0..OrderValue(order[q])
  BY DEF SurplusAmounts
<1>4. row = [NoOrder EXCEPT !.status = "pending", !.user = u, !.plan = plan,
               !.period = period, !.type = type, !.total = due,
               !.surplus = surplus, !.from = from, !.refund = refund]
  BY DEF Quoted
<1> HIDE DEF type, from
<1>5. surplus \in Nat
  BY <1>2, SurplusAmountsType DEF Typed, type, from
<1>6. due \in Nat /\ refund \in Nat /\ refund <= surplus
  BY <1>5 DEF Due
<1>7. surplus = 0 \/ \E q \in from : surplus <= OrderValue(order[q])
  <2>1. \A q \in from : OrderValue(order[q]) \in Nat
    BY <1>2, OrderValueType DEF Typed
  <2> QED  BY <1>3, <2>1
<1> HIDE DEF due, refund
<1>8. /\ row.status = "pending" /\ row.user = u /\ row.period = period /\ row.type = type
      /\ row.total = due /\ row.bal = 0 /\ row.surplus = surplus /\ row.refund = refund
      /\ row.from = from
  BY <1>4 DEF NoOrder
<1>9. row \in OrderRow
  <2>1. type \in Types /\ period \in Periods /\ "pending" \in Status
    BY <1>1 DEF Types, Periods, Status
  <2> QED  BY <1>2, <1>4, <1>5, <1>6, <2>1, BlankTypes DEF OrderRow
<1>10. Terms(row, order)
  <2>1. row.surplus = 0 \/ \E q \in row.from : row.surplus <= OrderValue(order[q])
    BY <1>7, <1>8
  <2>2. row.period = "reset" => row.surplus = 0
    BY <1>2, <1>7, <1>8
  <2> QED  BY <1>1, <1>2, <1>6, <1>8, <2>1, <2>2 DEF Terms
<1> QED  BY <1>1, <1>6, <1>8, <1>9, <1>10 DEF due

\* Terms do not depend on how much of the balance is used, on the coupon or on
\* whether the order is paid already.
LEMMA TermsOf ==
  ASSUME NEW r, NEW s, Terms(r, order), s.user = r.user, s.period = r.period, s.type = r.type,
         s.surplus = r.surplus, s.refund = r.refund, s.from = r.from,
         s.type = 9 => s.bal = 0
  PROVE  Terms(s, order)
BY DEF Terms

LEMMA SavePlanKinds ==
  ASSUME Typed, NEW p \in Procs, NEW o \in Orders, NEW price \in Prices, NEW item \in Catalog,
         NEW bind \in Binds, SavePlan(p, o, item[1], item[2], price, bind)
  PROVE  \E row \in OrderRow, debit \in Nat : Insert(p, o, row, debit) /\ Bought(p, row, debit)
<1> DEFINE copy == proc[p].copy
           u    == proc[p].user
           from == TradeIns(u, copy, OrderType(item[2], item[1], copy))
<1>1. item[1] \in Plans /\ item[2] \in {"month", "onetime", "reset"}
  BY OrdersAssumption
<1>2. PICK surplus \in SurplusAmounts(from) :
        LET debit == Smaller(copy.balance, Due(price, surplus))
        IN  Insert(p, o,
              [Quoted(u, copy, item[1], item[2], price, surplus) EXCEPT
                 !.total = @ - debit, !.bal = debit, !.bind = bind], debit)
  BY DEF SavePlan
<1> DEFINE quote == Quoted(u, copy, item[1], item[2], price, surplus)
           due   == Due(price, surplus)
           debit == Smaller(copy.balance, due)
           row   == [quote EXCEPT !.total = @ - debit, !.bal = debit, !.bind = bind]
<1>3. /\ u \in Users /\ price \in Nat /\ bind \in Users \cup {NoUser}
      /\ copy \in UserRow /\ copy.balance \in Nat
  BY <1>2, OrdersAssumption DEF Insert, Typed, TypeOK, Owned, ProcState, UserRow
<1>4. /\ quote \in OrderRow /\ quote.user = u /\ quote.status = "pending" /\ quote.type # 9
      /\ quote.total = due /\ due \in Nat /\ Terms(quote, order)
  <2> HIDE DEF quote, u, copy
  <2>1. quote = Quoted(u, copy, item[1], item[2], price, surplus)
    BY DEF quote
  <2> QED  BY <1>1, <1>3, <2>1, QuotedTerms
<1>5. Insert(p, o, row, debit)
  BY <1>2
<1> HIDE DEF quote, due
<1>6. debit \in Nat /\ due - debit \in Nat
  BY <1>3, <1>4 DEF Smaller
<1> HIDE DEF debit
<1>7. /\ row \in OrderRow /\ row.user = u /\ row.status = "pending" /\ row.bal = debit
      /\ row.period = quote.period /\ row.type = quote.type /\ row.surplus = quote.surplus
      /\ row.refund = quote.refund /\ row.from = quote.from
  BY <1>3, <1>4, <1>6 DEF OrderRow
<1>8. Terms(row, order)
  <2> HIDE DEF row
  <2> QED  BY <1>4, <1>7, TermsOf
<1>9. Bought(p, row, debit)
  BY <1>7, <1>8 DEF Bought
<1> HIDE DEF row
<1> QED  BY <1>5, <1>6, <1>7, <1>9

\* A request that is on its way to an order, of a user it knows.
Saving(p) ==
  \/ \E u \in Buyers : Ask(p, u) \/ Authenticate(p, u)
  \/ FindUser(p) \/ AskKnown(p) \/ SaveAbort(p)

LEMMA SaveKinds ==
  ASSUME Typed, NEW p \in Procs, Save(p)
  PROVE  \/ Saving(p)
         \/ \E o \in Orders, row \in OrderRow, debit \in Nat :
              Insert(p, o, row, debit) /\ Bought(p, row, debit)
<1>1. ASSUME NEW o \in Orders, NEW price \in Prices, SaveDeposit(p, o, price)
      PROVE  \E row \in OrderRow, debit \in Nat : Insert(p, o, row, debit) /\ Bought(p, row, debit)
  <2> DEFINE row == [NoOrder EXCEPT !.status = "pending", !.user = proc[p].user,
                                    !.total = price]
  <2>1. proc[p].user \in Users /\ price \in Nat
    BY <1>1, OrdersAssumption DEF SaveDeposit, Insert, Typed, Owned
  <2>2. /\ row \in OrderRow /\ row.user = proc[p].user /\ row.from = {} /\ row.status = "pending"
        /\ row.type = 9 /\ row.period = "deposit" /\ row.bal = 0 /\ row.surplus = 0 /\ row.refund = 0
    BY <2>1 DEF NoOrder, OrderRow, Status, Periods, Types
  <2> HIDE DEF row
  <2>3. Insert(p, o, row, 0)
    BY <1>1 DEF SaveDeposit, row
  <2>4. Bought(p, row, 0)
    BY <2>2 DEF Bought, Terms
  <2> QED  BY <2>2, <2>3, <2>4
<1>2. ASSUME NEW o \in Orders, NEW price \in Prices, NEW item \in Catalog,
             Assign(p, o, item[1], item[2], price)
      PROVE  \E row \in OrderRow, debit \in Nat : Insert(p, o, row, debit) /\ Bought(p, row, debit)
  <2> DEFINE copy == proc[p].copy
             type == IF item[2] # "reset" /\ copy.plan # NoPlan /\ item[1] # copy.plan
                     THEN 3 ELSE OrderType(item[2], item[1], copy)
             row  == [NoOrder EXCEPT !.status = "pending", !.user = proc[p].user,
                        !.plan = item[1], !.period = item[2], !.type = type, !.total = price]
  <2>1. proc[p].user \in Users /\ price \in Nat /\ item[1] \in Plans
    BY <1>2, OrdersAssumption DEF Assign, Insert, Typed, Owned
  <2>2. item[2] \in {"month", "onetime", "reset"}
    BY OrdersAssumption
  <2>3. type \in {1, 2, 3, 4}
    BY <2>2 DEF OrderType
  <2>4. Insert(p, o, row, 0)
    BY <1>2 DEF Assign
  <2> HIDE DEF type
  <2>5. /\ row \in OrderRow /\ row.user = proc[p].user /\ row.from = {} /\ row.status = "pending"
        /\ row.type = type /\ row.period = item[2] /\ row.bal = 0 /\ row.surplus = 0 /\ row.refund = 0
    BY <2>1, <2>2, <2>3 DEF NoOrder, OrderRow, Status, Periods, Types
  <2> HIDE DEF row
  <2>6. Bought(p, row, 0)
    BY <2>2, <2>3, <2>5 DEF Bought, Terms
  <2> QED  BY <2>4, <2>5, <2>6
<1> QED  BY <1>1, <1>2, SavePlanKinds DEF Save, Saving

-----------------------------------------------------------------------------
(* What the redemption of a code inserts. *)

\* Redeem creates a paid order ...
Coded(p, o, row) ==
  /\ proc[p].pc = "known" /\ row.user = proc[p].user
  /\ row.status = "processing" /\ row.total = 0 /\ row.bal = 0 /\ row.type # 9
  /\ Terms(row, order)
  /\ IsNextId(o)
  /\ order' = [order EXCEPT ![o] = row]
  /\ ghost' = [ghost EXCEPT !.beside = @ \cup Beside(row.user, o)]
  /\ proc' = [proc EXCEPT ![p] = Idle]
  /\ UNCHANGED invoice
  /\ \A u \in Users : user'[u].balance = user[u].balance

\* ... and RedeemNow one that is opened already.
Granted(o, row) ==
  /\ row.user \in Users /\ row.total = 0 /\ row.bal = 0 /\ row.type # 9
  /\ Terms(row, order)
  /\ IsNextId(o)
  /\ order' = Fulfilled(o, row)
  /\ user' = [user EXCEPT ![row.user] = Opened(@, row)]
  /\ ghost' = [ghost EXCEPT !.opens[o] = @ + 1, !.beside = @ \cup Beside(row.user, o)]
  /\ UNCHANGED <<invoice, proc>>

\* Making an inviter of somebody moves no balance.
LEMMA BoundType ==
  ASSUME Typed, NEW u \in Users, NEW bind \in Users \cup {NoUser}, user' = BoundTo(u, bind)
  PROVE  /\ user' \in [Users -> UserRow]
         /\ \A v \in Users : user'[v].balance = user[v].balance
<1>1. user \in [Users -> UserRow] /\ user[u] \in UserRow
  BY DEF Typed, TypeOK
<1>2. [user[u] EXCEPT !.inviter = bind] \in UserRow
      /\ [user[u] EXCEPT !.inviter = bind].balance = user[u].balance
  BY <1>1 DEF UserRow
<1>3. user' = [user EXCEPT ![u] = [user[u] EXCEPT !.inviter = bind]] \/ user' = user
  BY DEF BoundTo
<1> QED  BY <1>1, <1>2, <1>3

LEMMA RedeemKinds ==
  ASSUME Typed, NEW p \in Procs, NEW o \in Orders, NEW item \in Codes, NEW bind \in Binds,
         NEW pushed \in BOOLEAN, Redeem(p, o, item[1], item[2], bind, pushed)
  PROVE  \E row \in OrderRow : Coded(p, o, row)
<1> DEFINE u    == proc[p].user
           copy == proc[p].copy
           from == TradeIns(u, copy, OrderType(item[2], item[1], copy))
<1>1. item[1] \in Plans /\ item[2] \in {"month", "onetime", "reset"}
  BY OrdersAssumption
<1>2. PICK surplus \in SurplusAmounts(from) :
        order' = [order EXCEPT ![o] =
          [Quoted(u, copy, item[1], item[2], 0, surplus) EXCEPT
             !.status = "processing", !.bind = bind]]
  BY DEF Redeem
<1> DEFINE quote == Quoted(u, copy, item[1], item[2], 0, surplus)
           row   == [quote EXCEPT !.status = "processing", !.bind = bind]
<1>3. /\ proc[p].pc = "known" /\ IsNextId(o) /\ user' = BoundTo(u, bind)
      /\ proc' = [proc EXCEPT ![p] = Idle] /\ UNCHANGED invoice
      /\ ghost' = [ghost EXCEPT !.beside = @ \cup Beside(u, o)]
  BY DEF Redeem
<1>4. u \in Users /\ bind \in Users \cup {NoUser} /\ copy \in UserRow
  BY <1>3, OrdersAssumption DEF Typed, TypeOK, Owned, ProcState
<1>5. /\ quote \in OrderRow /\ quote.user = u /\ quote.bal = 0 /\ quote.type # 9
      /\ quote.total = Due(0, surplus) /\ Due(0, surplus) \in Nat /\ Terms(quote, order)
  <2> HIDE DEF quote, u, copy
  <2>1. quote = Quoted(u, copy, item[1], item[2], 0, surplus)
    BY DEF quote
  <2> QED  BY <1>1, <1>4, <2>1, QuotedTerms
<1>6. quote.total = 0
  <2>1. surplus \in Nat
    BY SurplusAmountsType DEF Typed, TradeIns, SurplusOrders
  <2> QED  BY <1>5, <2>1 DEF Due
<1>7. order' = [order EXCEPT ![o] = row]
  BY <1>2
<1> HIDE DEF quote
<1>8. /\ row \in OrderRow /\ row.user = u /\ row.status = "processing"
      /\ row.total = 0 /\ row.bal = 0 /\ row.type # 9
      /\ row.period = quote.period /\ row.type = quote.type /\ row.surplus = quote.surplus
      /\ row.refund = quote.refund /\ row.from = quote.from
  BY <1>4, <1>5, <1>6 DEF OrderRow, Status
<1> HIDE DEF row
<1>9. Terms(row, order)
  BY <1>5, <1>8, TermsOf
<1>10. \A v \in Users : user'[v].balance = user[v].balance
  BY <1>3, <1>4, BoundType
<1>11. Coded(p, o, row)
  BY <1>3, <1>7, <1>8, <1>9, <1>10 DEF Coded
<1> QED  BY <1>8, <1>11

LEMMA RedeemNowKinds ==
  ASSUME Typed, NEW p \in Procs, NEW u \in Buyers, NEW o \in Orders, NEW item \in Codes,
         RedeemNow(p, u, o, item[1], item[2])
  PROVE  \E row \in OrderRow : Granted(o, row)
<1> DEFINE from == TradeIns(u, user[u], OrderType(item[2], item[1], user[u]))
<1>1. item[1] \in Plans /\ item[2] \in {"month", "onetime", "reset"} /\ u \in Users
  BY OrdersAssumption
<1>2. PICK surplus \in SurplusAmounts(from) :
        LET row == Quoted(u, user[u], item[1], item[2], 0, surplus)
        IN  order' = Fulfilled(o, row) /\ user' = [user EXCEPT ![u] = Opened(@, row)]
  BY DEF RedeemNow
<1> DEFINE row == Quoted(u, user[u], item[1], item[2], 0, surplus)
<1>3. order' = Fulfilled(o, row) /\ user' = [user EXCEPT ![u] = Opened(@, row)]
  BY <1>2
<1>4. user[u] \in UserRow
  BY <1>1 DEF Typed, TypeOK
<1>5. /\ IsNextId(o) /\ UNCHANGED <<invoice, proc>>
      /\ ghost' = [ghost EXCEPT !.opens[o] = @ + 1, !.beside = @ \cup Beside(u, o)]
  BY DEF RedeemNow
<1>6. /\ row \in OrderRow /\ row.user = u /\ row.bal = 0 /\ row.type # 9
      /\ row.total = Due(0, surplus) /\ Terms(row, order)
  <2> DEFINE copy == user[u]
             zero == 0
  <2>1. copy \in UserRow /\ zero \in Nat
    BY <1>4
  <2>2. row = Quoted(u, copy, item[1], item[2], zero, surplus)
    OBVIOUS
  <2>3. surplus \in SurplusAmounts(TradeIns(u, copy, OrderType(item[2], item[1], copy)))
    OBVIOUS
  <2> HIDE DEF row, copy, zero
  <2>4. /\ row \in OrderRow /\ row.user = u /\ row.bal = 0 /\ row.type # 9
        /\ row.total = Due(zero, surplus) /\ Terms(row, order)
    BY <1>1, <2>1, <2>2, <2>3, QuotedTerms
  <2> QED  BY <2>4 DEF zero
<1>7. row.total = 0
  <2>1. surplus \in Nat
    BY SurplusAmountsType DEF Typed, TradeIns, SurplusOrders
  <2> QED  BY <1>6, <2>1 DEF Due
<1> HIDE DEF row
<1>8. Granted(o, row)
  BY <1>1, <1>3, <1>5, <1>6, <1>7 DEF Granted
<1> QED  BY <1>6, <1>8

LEMMA UseCodeKinds ==
  ASSUME Typed, NEW p \in Procs, UseCode(p)
  PROVE  \E o \in Orders, row \in OrderRow : Coded(p, o, row) \/ Granted(o, row)
<1>1. CASE \E o \in Orders, item \in Codes, u \in Buyers : RedeemNow(p, u, o, item[1], item[2])
  BY <1>1, RedeemNowKinds
<1>2. CASE \E o \in Orders, item \in Codes, bind \in Binds, pushed \in BOOLEAN :
             Redeem(p, o, item[1], item[2], bind, pushed)
  BY <1>2, RedeemKinds
<1> QED  BY <1>1, <1>2 DEF UseCode

-----------------------------------------------------------------------------
(* Every step keeps the types. *)

LEMMA SavingTyped ==
  ASSUME Typed, NEW p \in Procs, Saving(p)
  PROVE  Typed'
<1>1. ASSUME NEW st \in ProcState, st.user \in Users, st.pc \in {"asked", "known", "save"},
             proc' = [proc EXCEPT ![p] = st],
             UNCHANGED <<order, user, aged, invoice, queue, failures, ghost>>
      PROVE  Typed'
  <2>1. TypeOK'
    BY <1>1 DEF Typed, TypeOK
  <2>2. Owned'
    BY <1>1 DEF Typed, TypeOK, Owned
  <2> QED  BY <2>1, <2>2 DEF Typed
<1>2. ASSUME NEW u \in Buyers, Ask(p, u) PROVE Typed'
  <2> DEFINE st == [Idle EXCEPT !.pc = "asked", !.user = u]
  <2>1. u \in Users
    BY OrdersAssumption
  <2>2. st \in ProcState /\ st.user \in Users /\ st.pc \in {"asked", "known", "save"}
    BY <2>1, BlankTypes DEF ProcState
  <2> HIDE DEF st
  <2>3. proc' = [proc EXCEPT ![p] = st]
        /\ UNCHANGED <<order, user, aged, invoice, queue, failures, ghost>>
    BY <1>2 DEF Ask, st
  <2> QED  BY <1>1, <2>2, <2>3
<1>3. ASSUME NEW u \in Buyers, Authenticate(p, u) PROVE Typed'
  <2> DEFINE st == [Idle EXCEPT !.pc = "known", !.user = u, !.copy = user[u]]
  <2>1. u \in Users /\ user[u] \in UserRow
    BY OrdersAssumption DEF Typed, TypeOK
  <2>2. st \in ProcState /\ st.user \in Users /\ st.pc \in {"asked", "known", "save"}
    BY <2>1, BlankTypes DEF ProcState
  <2> HIDE DEF st
  <2>3. proc' = [proc EXCEPT ![p] = st]
        /\ UNCHANGED <<order, user, aged, invoice, queue, failures, ghost>>
    BY <1>3 DEF Authenticate, st
  <2> QED  BY <1>1, <2>2, <2>3
<1>4. CASE FindUser(p)
  <2> DEFINE st == [proc[p] EXCEPT !.pc = "save", !.copy = user[proc[p].user]]
  <2>1. proc[p] \in ProcState /\ proc[p].user \in Users /\ user[proc[p].user] \in UserRow
    BY <1>4 DEF FindUser, Typed, TypeOK, Owned
  <2>2. st \in ProcState /\ st.user \in Users /\ st.pc \in {"asked", "known", "save"}
    BY <2>1 DEF ProcState
  <2>3. proc' = [proc EXCEPT ![p] = st]
        /\ UNCHANGED <<order, user, aged, invoice, queue, failures, ghost>>
    BY <1>4 DEF FindUser
  <2> HIDE DEF st
  <2> QED  BY <1>1, <2>2, <2>3
<1>5. CASE AskKnown(p)
  <2> DEFINE st == [proc[p] EXCEPT !.pc = "save"]
  <2>1. proc[p] \in ProcState /\ proc[p].user \in Users
    BY <1>5 DEF AskKnown, Typed, TypeOK, Owned
  <2>2. st \in ProcState /\ st.user \in Users /\ st.pc \in {"asked", "known", "save"}
    BY <2>1 DEF ProcState
  <2>3. proc' = [proc EXCEPT ![p] = st]
        /\ UNCHANGED <<order, user, aged, invoice, queue, failures, ghost>>
    BY <1>5 DEF AskKnown
  <2> HIDE DEF st
  <2> QED  BY <1>1, <2>2, <2>3
<1>6. CASE SaveAbort(p)
  <2>1. TypeOK'
    BY <1>6, BlankTypes DEF SaveAbort, Typed, TypeOK
  <2>2. Owned'
    BY <1>6 DEF SaveAbort, Typed, TypeOK, Owned, Idle
  <2> QED  BY <2>1, <2>2 DEF Typed
<1> QED  BY <1>2, <1>3, <1>4, <1>5, <1>6 DEF Saving

LEMMA SaveTyped ==
  ASSUME Typed, NEW p \in Procs, Save(p)
  PROVE  Typed'
<1>1. ASSUME NEW o \in Orders, NEW row \in OrderRow, NEW debit \in Nat,
             Insert(p, o, row, debit), Bought(p, row, debit)
      PROVE  Typed'
  <2>1. /\ row.user = proc[p].user /\ row.status # "absent"
        /\ \A q \in row.from : order[q].status # "absent"
    BY <1>1 DEF Bought, Terms
  <2> QED  BY <1>1, <2>1, InsertTyped
<1> QED  BY <1>1, SavingTyped, SaveKinds

LEMMA UseCodeTyped ==
  ASSUME Typed, NEW p \in Procs, UseCode(p)
  PROVE  Typed'
<1>1. ASSUME NEW o \in Orders, NEW row \in OrderRow, Coded(p, o, row),
             user' \in [Users -> UserRow], queue' \in [Orders -> 0..MaxJobs],
             UNCHANGED <<aged, failures>>
      PROVE  Typed'
  <2>1. /\ IsNextId(o) /\ order' = [order EXCEPT ![o] = row] /\ row.user \in Users
        /\ row.status # "absent" /\ \A q \in row.from : order[q].status # "absent"
    BY <1>1 DEF Coded, Terms, Typed, Owned
  <2>2. /\ order' \in [Orders -> OrderRow] /\ order'[o] = row
        /\ \A q \in Orders \ {o} : order'[q] = order[q]
    BY <2>1 DEF Typed, TypeOK
  <2>3. proc' \in [Procs -> ProcState] /\ \A q \in Procs : proc'[q].pc # "idle" => proc'[q] = proc[q]
    BY <1>1, BlankTypes DEF Coded, Typed, TypeOK, Idle
  <2>4. ghost' \in History
    BY <1>1, BesideType DEF Coded, Typed, TypeOK, History
  <2>5. TypeOK'
    BY <1>1, <2>2, <2>3, <2>4 DEF Coded, Typed, TypeOK
  <2>6. Owned'
    BY <2>1, <2>2, <2>3, BornOwned
  <2> QED  BY <2>5, <2>6 DEF Typed
<1>2. ASSUME NEW o \in Orders, NEW row \in OrderRow, Granted(o, row),
             UNCHANGED <<aged, queue, failures>>
      PROVE  Typed'
  <2>1. /\ IsNextId(o) /\ order' = Fulfilled(o, row) /\ row.user \in Users
        /\ \A q \in row.from : order[q].status # "absent"
    BY <1>2 DEF Granted, Terms
  <2>2. /\ order' \in [Orders -> OrderRow]
        /\ order'[o].status = "completed" /\ order'[o].user = row.user /\ order'[o].from = row.from
        /\ \A q \in Orders \ {o} : /\ order'[q].user = order[q].user
                                   /\ order'[q].from = order[q].from
                                   /\ order[q].status # "absent" <=> order'[q].status # "absent"
    BY <2>1, FulfilledRows
  <2>3. user' \in [Users -> UserRow]
    <3>1. user[row.user] \in UserRow
      BY <2>1 DEF Typed, TypeOK
    <3>2. Opened(user[row.user], row) \in UserRow
      BY <3>1, OpenedType
    <3> QED  BY <1>2, <3>2 DEF Granted, Typed, TypeOK
  <2>4. ghost' \in History
    <3>1. ghost.opens[o] + 1 \in Nat
      BY DEF Typed, TypeOK, History
    <3> QED  BY <1>2, <3>1, BesideType DEF Granted, Typed, TypeOK, History
  <2>5. TypeOK'
    BY <1>2, <2>2, <2>3, <2>4 DEF Granted, Typed, TypeOK
  <2>6. \A q \in Procs : proc'[q].pc # "idle" => proc'[q] = proc[q]
    BY <1>2 DEF Granted
  <2>7. Owned'
    BY <2>1, <2>2, <2>6, BornOwned
  <2> QED  BY <2>5, <2>7 DEF Typed
<1>3. ASSUME NEW o \in Orders, NEW item \in Codes, NEW u \in Buyers,
             RedeemNow(p, u, o, item[1], item[2])
      PROVE  Typed'
  <2>1. UNCHANGED <<aged, queue, failures>>
    BY <1>3 DEF RedeemNow
  <2> QED  BY <1>2, <1>3, <2>1, RedeemNowKinds
<1>4. ASSUME NEW o \in Orders, NEW item \in Codes, NEW bind \in Binds, NEW pushed \in BOOLEAN,
             Redeem(p, o, item[1], item[2], bind, pushed)
      PROVE  Typed'
  <2>1. /\ UNCHANGED <<aged, failures>> /\ user' = BoundTo(proc[p].user, bind)
        /\ queue' = (IF pushed THEN Pushed({o}) ELSE queue) /\ proc[p].pc = "known"
    BY <1>4 DEF Redeem
  <2>2. queue' \in [Orders -> 0..MaxJobs]
    BY <2>1, PushedType DEF Typed, TypeOK
  <2>3. user' \in [Users -> UserRow]
    BY <2>1, BoundType, OrdersAssumption DEF Typed, Owned
  <2> QED  BY <1>1, <1>4, <2>1, <2>2, <2>3, RedeemKinds
<1> QED  BY <1>3, <1>4 DEF UseCode

LEMMA PaidWriteTyped ==
  ASSUME Typed, NEW p \in Procs, NEW pushed \in BOOLEAN, PaidWrite(p, pushed)
  PROVE  Typed'
<1> DEFINE o == proc[p].order
           u == proc[p].user
<1>1. o \in Orders /\ u \in Users /\ order[o].status # "absent" /\ proc[p].pc \in {"pay", "bound"}
  BY DEF PaidWrite, Typed, Owned
<1>2. order[o] \in OrderRow /\ "processing" \in Status
  BY <1>1 DEF Typed, TypeOK, Status
<1>3. order' \in [Orders -> OrderRow]
  BY <1>1, <1>2, StatusUpdate DEF PaidWrite, Typed, TypeOK
<1>4. ghost' \in History
  BY <1>1 DEF PaidWrite, Typed, TypeOK, History
<1>5. proc' \in [Procs -> ProcState]
  BY BlankTypes DEF PaidWrite, Typed, TypeOK, ProcState
<1>6. queue' \in [Orders -> 0..MaxJobs]
  BY PushedType DEF PaidWrite, Typed, TypeOK
<1>7. failures' \in 0..MaxFailures
  BY OrdersAssumption DEF PaidWrite, Typed, TypeOK
<1>8. TypeOK'
  BY <1>3, <1>4, <1>5, <1>6, <1>7 DEF PaidWrite, Typed, TypeOK
<1>9. \A q \in Orders : /\ order'[q].user = order[q].user
                        /\ order'[q].from = order[q].from
                        /\ order[q].status # "absent" <=> order'[q].status # "absent"
  BY <1>1, <1>2, StatusUpdate DEF PaidWrite, Typed, TypeOK
<1>10. \A q \in Procs :
         \/ proc'[q].pc = "idle"
         \/ /\ proc'[q].user = proc[q].user /\ proc'[q].order = proc[q].order
            /\ proc[q].pc # "idle"
            /\ proc[q].pc \in {"asked", "known", "save"} => proc'[q].pc \in {"asked", "known", "save"}
  <2>1. proc' = [proc EXCEPT ![p].pc = "reward"] \/ proc' = [proc EXCEPT ![p] = Idle]
    BY DEF PaidWrite
  <2>2. Idle.pc = "idle" /\ proc \in [Procs -> ProcState]
    BY DEF Idle, Typed, TypeOK
  <2> QED  BY <1>1, <2>1, <2>2 DEF ProcState
<1>11. Owned'
  <2>1. \A q \in Orders : order[q].from \subseteq Orders
    BY DEF Typed, TypeOK, OrderRow
  <2> QED  BY <1>9, <1>10, <2>1 DEF Typed, Owned
<1> QED  BY <1>8, <1>11 DEF Typed

LEMMA PayTyped ==
  ASSUME Typed, NEW p \in Procs,
         \/ \E o \in Orders : Cancel(p, o) \/ Checkout(p, o) \/ PaidRead(p, o)
         \/ Bind(p)
         \/ \E pushed \in BOOLEAN : PaidWrite(p, pushed)
         \/ Reward(p)
  PROVE  Typed'
<1>1. ASSUME NEW o \in Orders, Cancel(p, o)
      PROVE  Typed'
  <2>1. TypeOK'
    BY <1>1, CancelRowTyped DEF Cancel, Typed, TypeOK
  <2>2. \A q \in Orders : order[q].from \subseteq Orders
    BY DEF Typed, TypeOK, OrderRow
  <2>3. Owned'
    BY <1>1, <2>2, CancelRowTyped DEF Cancel, Typed, Owned
  <2> QED  BY <2>1, <2>3 DEF Typed
<1>2. ASSUME NEW o \in Orders, Checkout(p, o)
      PROVE  Typed'
  BY <1>2 DEF Checkout, Typed, TypeOK, Owned
<1>3. ASSUME NEW o \in Orders, PaidRead(p, o)
      PROVE  Typed'
  <2>1. order[o].user \in Users /\ order[o].total \in Nat
    BY <1>3 DEF PaidRead, Typed, TypeOK, Owned, OrderRow
  <2>2. [Idle EXCEPT !.pc = "pay", !.order = o, !.user = order[o].user] \in ProcState
    BY <2>1, BlankTypes DEF ProcState
  <2>3. ghost' \in History
    <3>1. CASE UNCHANGED ghost
      BY <3>1 DEF Typed, TypeOK
    <3>2. CASE ghost' = [ghost EXCEPT !.cash[o] = order[o].total]
      BY <2>1, <3>2 DEF Typed, TypeOK, History
    <3> QED  BY <1>3, <3>1, <3>2 DEF PaidRead
  <2>4. proc' \in [Procs -> ProcState]
    BY <1>3, <2>2 DEF PaidRead, Typed, TypeOK
  <2>5. TypeOK'
    BY <1>3, <2>3, <2>4 DEF PaidRead, Typed, TypeOK
  <2>6. Owned'
    <3> DEFINE st == [Idle EXCEPT !.pc = "pay", !.order = o, !.user = order[o].user]
    <3>1. proc' = [proc EXCEPT ![p] = st] /\ UNCHANGED order /\ order[o].status = "pending"
      BY <1>3 DEF PaidRead
    <3>2. st.pc = "pay" /\ st.order = o /\ st.user = order[o].user
      BY DEF Idle
    <3> HIDE DEF st
    <3>3. proc'[p] = st /\ \A q \in Procs \ {p} : proc'[q] = proc[q]
      BY <3>1 DEF Typed, TypeOK
    <3> QED  BY <2>1, <3>1, <3>2, <3>3 DEF Typed, Owned
  <2> QED  BY <2>5, <2>6 DEF Typed
<1>4. CASE Bind(p)
  <2>1. /\ proc[p].order \in Orders /\ proc[p].user \in Users /\ proc[p] \in ProcState
        /\ order[proc[p].order].bind \in Users \cup {NoUser}
    BY <1>4 DEF Bind, Typed, TypeOK, Owned, OrderRow
  <2>2. user' \in [Users -> UserRow]
    BY <1>4, <2>1, BoundType DEF Bind
  <2>3. proc' \in [Procs -> ProcState]
    BY <1>4, <2>1 DEF Bind, Typed, TypeOK, ProcState
  <2>4. TypeOK'
    BY <1>4, <2>2, <2>3 DEF Bind, Typed, TypeOK
  <2>5. \A q \in Procs : /\ proc'[q].user = proc[q].user /\ proc'[q].order = proc[q].order
                         /\ \/ proc'[q].pc = proc[q].pc
                            \/ q = p /\ proc[q].pc = "pay" /\ proc'[q].pc = "bound"
    BY <1>4, <2>1 DEF Bind, Typed, TypeOK, ProcState
  <2>6. UNCHANGED order
    BY <1>4 DEF Bind
  <2>7. Owned'
    BY <2>5, <2>6 DEF Typed, Owned
  <2> QED  BY <2>4, <2>7 DEF Typed
<1>5. ASSUME NEW pushed \in BOOLEAN, PaidWrite(p, pushed)
      PROVE  Typed'
  BY <1>5, PaidWriteTyped
<1>6. CASE Reward(p)
  <2> DEFINE u   == proc[p].user
             inv == user[u].inviter
  <2>1. u \in Users
    BY <1>6 DEF Reward, Typed, Owned
  <2>2. proc' \in [Procs -> ProcState] /\ \A q \in Procs : proc'[q].pc # "idle" => proc'[q] = proc[q]
    BY <1>6, BlankTypes DEF Reward, Typed, TypeOK, Idle
  <2>3. CASE UNCHANGED <<order, queue, ghost>>
    <3>1. TypeOK'
      BY <1>6, <2>2, <2>3 DEF Reward, Typed, TypeOK
    <3>2. Owned'
      BY <2>2, <2>3 DEF Typed, Owned
    <3> QED  BY <3>1, <3>2 DEF Typed
  <2>4. ASSUME NEW r \in Orders, NEW gift \in Gifts,
               EarnsReward(proc[p].order, u),
               IsNextId(r),
               order' = [order EXCEPT ![r] =
                 [NoOrder EXCEPT !.status = "processing", !.user = inv,
                    !.plan = user[inv].plan, !.period = gift, !.type = 6]],
               queue' = Pushed({r}),
               ghost' = [ghost EXCEPT !.rewards[u] = @ + 1,
                  !.late = IF order[proc[p].order].status = "processing" THEN @ ELSE @ \cup {u}]
        PROVE  Typed'
    <3> DEFINE row == [NoOrder EXCEPT !.status = "processing", !.user = inv,
                         !.plan = user[inv].plan, !.period = gift, !.type = 6]
    <3>1. inv \in Users /\ gift \in {"gift", "nogift"}
      BY <2>1, <2>4, OrdersAssumption DEF EarnsReward, Typed, TypeOK, UserRow
    <3>2. row \in OrderRow /\ row.user = inv /\ row.from = {} /\ row.status = "processing"
      BY <3>1 DEF NoOrder, OrderRow, Status, Periods, Types, Typed, TypeOK, UserRow
    <3> HIDE DEF row
    <3>3. order' = [order EXCEPT ![r] = row]
      BY <2>4 DEF row
    <3>4. order' \in [Orders -> OrderRow] /\ order'[r] = row
          /\ \A q \in Orders \ {r} : order'[q] = order[q]
      BY <3>2, <3>3 DEF Typed, TypeOK
    <3>5. ghost.rewards[u] + 1 \in Nat
      BY <2>1 DEF Typed, TypeOK, History
    <3>6. ghost' \in History
      BY <2>1, <2>4, <3>5 DEF Typed, TypeOK, History
    <3>7. TypeOK'
      BY <1>6, <2>2, <2>4, <3>4, <3>6, PushedType DEF Reward, Typed, TypeOK
    <3>8. Owned'
      BY <2>2, <2>4, <3>1, <3>2, <3>4, BornOwned
    <3> QED  BY <3>7, <3>8 DEF Typed
  <2> QED  BY <1>6, <2>3, <2>4 DEF Reward
<1> QED  BY <1>1, <1>2, <1>3, <1>4, <1>5, <1>6

LEMMA WorkerTyped ==
  ASSUME Typed, NEW w \in Procs, Worker(w)
  PROVE  Typed'
<1>1. ASSUME NEW o \in Orders, TakeJob(w, o)
      PROVE  Typed'
  <2>1. queue' \in [Orders -> 0..MaxJobs]
    BY <1>1, OrdersAssumption DEF TakeJob, Typed, TypeOK
  <2>2. CASE o \in aged /\ CancelRow(o) /\ UNCHANGED proc
    <3>1. TypeOK'
      BY <1>1, <2>1, <2>2, CancelRowTyped DEF TakeJob, Typed, TypeOK
    <3>2. \A q \in Orders : order[q].from \subseteq Orders
      BY DEF Typed, TypeOK, OrderRow
    <3>3. Owned'
      BY <2>2, <3>2, CancelRowTyped DEF Typed, Owned
    <3> QED  BY <3>1, <3>3 DEF Typed
  <2>3. CASE /\ order[o].status = "processing"
             /\ proc' = [proc EXCEPT ![w] = [Idle EXCEPT !.pc = "handle", !.order = o,
                                                         !.user = order[o].user]]
             /\ ghost' = [ghost EXCEPT !.raced = IF Holders(o) = {} THEN @ ELSE @ \cup {o}]
             /\ UNCHANGED <<order, user, aged>>
    <3>1. order[o].user \in Users
      BY <2>3 DEF Typed, Owned
    <3>2. [Idle EXCEPT !.pc = "handle", !.order = o, !.user = order[o].user] \in ProcState
      BY <3>1, BlankTypes DEF ProcState
    <3>3. ghost' \in History
      BY <2>3 DEF Typed, TypeOK, History
    <3>4. TypeOK'
      BY <1>1, <2>1, <2>3, <3>2, <3>3 DEF TakeJob, Typed, TypeOK
    <3>5. Owned'
      BY <2>3, <3>1 DEF Typed, TypeOK, Owned, Idle
    <3> QED  BY <3>4, <3>5 DEF Typed
  <2>4. CASE UNCHANGED <<order, user, aged, proc, ghost>>
    <3>1. TypeOK'
      BY <1>1, <2>1, <2>4 DEF TakeJob, Typed, TypeOK
    <3>2. Owned'
      BY <2>4 DEF Typed, Owned
    <3> QED  BY <3>1, <3>2 DEF Typed
  <2> QED  BY <1>1, <2>2, <2>3, <2>4 DEF TakeJob
<1>2. CASE OpenReadUser(w)
  <2>1. user[proc[w].user] \in UserRow
    BY <1>2 DEF OpenReadUser, Typed, TypeOK, Owned
  <2>2. proc' = [proc EXCEPT ![w] = [proc[w] EXCEPT !.pc = "open", !.copy = user[proc[w].user]]]
    BY <1>2 DEF OpenReadUser
  <2>3. [proc[w] EXCEPT !.pc = "open", !.copy = user[proc[w].user]] \in ProcState
    <3>1. proc[w] \in ProcState
      BY DEF Typed, TypeOK
    <3> QED  BY <2>1, <3>1 DEF ProcState
  <2>4. TypeOK'
    BY <1>2, <2>2, <2>3 DEF OpenReadUser, Typed, TypeOK
  <2>5. Owned'
    BY <1>2, <2>2 DEF OpenReadUser, Typed, TypeOK, Owned, ProcState
  <2> QED  BY <2>4, <2>5 DEF Typed
<1>3. CASE OpenWrite(w)
  BY <1>3, OpenWriteTyped
<1> QED  BY <1>1, <1>2, <1>3 DEF Worker

LEMMA TypeStep == Typed /\ [Next]_vars => Typed'
<1> SUFFICES ASSUME Typed, [Next]_vars PROVE Typed'
  OBVIOUS
<1>1. ASSUME NEW p \in Requests, Request(p)
      PROVE  Typed'
  BY <1>1, SaveTyped, UseCodeTyped, PayTyped DEF Request, Procs
<1>2. ASSUME NEW w \in Workers, Worker(w)
      PROVE  Typed'
  BY <1>2, WorkerTyped DEF Procs
<1>3. ASSUME NEW p \in Procs, NEW requeue \in BOOLEAN, Die(p, requeue)
      PROVE  Typed'
  <2>1. queue' \in [Orders -> 0..MaxJobs] /\ failures' \in 0..MaxFailures
    BY <1>3, PushedType, OrdersAssumption DEF Die, Typed, TypeOK
  <2>2. TypeOK'
    BY <1>3, <2>1, BlankTypes DEF Die, Typed, TypeOK
  <2>3. Owned'
    BY <1>3 DEF Die, Typed, TypeOK, Owned, Idle
  <2> QED  BY <2>2, <2>3 DEF Typed
<1>4. ASSUME NEW o \in Orders, Capture(o)
      PROVE  Typed'
  <2>1. order[o].total \in Nat
    BY DEF Typed, TypeOK, OrderRow
  <2>2. ghost' \in History
    BY <1>4, <2>1 DEF Capture, Typed, TypeOK, History
  <2>3. TypeOK'
    BY <1>4, <2>2 DEF Capture, Typed, TypeOK
  <2>4. Owned'
    BY <1>4 DEF Capture, Typed, Owned
  <2> QED  BY <2>3, <2>4 DEF Typed
<1>5. ASSUME NEW o \in Orders, TwoHours(o)
      PROVE  Typed'
  BY <1>5 DEF TwoHours, Typed, TypeOK, Owned
<1>6. ASSUME NEW u \in Users, Expire(u)
      PROVE  Typed'
  <2>1. [user[u] EXCEPT !.expiry = "past"] \in UserRow
    BY DEF Typed, TypeOK, UserRow, Expiry
  <2>2. TypeOK'
    BY <1>6, <2>1 DEF Expire, Typed, TypeOK
  <2>3. Owned'
    BY <1>6 DEF Expire, Typed, Owned
  <2> QED  BY <2>2, <2>3 DEF Typed
<1>7. CASE Sweep
  BY <1>7, PushedType DEF Sweep, Typed, TypeOK, Owned
<1>8. CASE UNCHANGED vars
  BY <1>8 DEF vars, Typed, TypeOK, Owned
<1> QED  BY <1>1, <1>2, <1>3, <1>4, <1>5, <1>6, <1>7, <1>8 DEF Next

\* Whatever the processes interleave, rows, copies, queue and history keep
\* their types: no balance and no amount of an order is ever negative, and
\* every row and process names accounts and orders that exist.
THEOREM TypeCorrect == Spec => []TypeOK
<1>1. Typed => TypeOK
  BY DEF Typed
<1> QED  BY <1>1, TypeInit, TypeStep, PTL DEF Spec

-----------------------------------------------------------------------------
(* What a step can be, as far as rows, balances and history go. *)

\* The gift order handleFirstOrderReward creates.
GiftFor(inv, gift) ==
  [NoOrder EXCEPT !.status = "processing", !.user = inv,
     !.plan = user[inv].plan, !.period = gift, !.type = 6]

\* Reward, when the reward is earned.
Give(p, r) ==
  /\ proc[p].pc = "reward"
  /\ EarnsReward(proc[p].order, proc[p].user)
  /\ IsNextId(r)
  /\ \E gift \in {"gift", "nogift"} :
       order' = [order EXCEPT ![r] = GiftFor(user[proc[p].user].inviter, gift)]
  /\ ghost' = [ghost EXCEPT !.rewards[proc[p].user] = @ + 1,
                 !.late = IF order[proc[p].order].status = "processing"
                          THEN @ ELSE @ \cup {proc[p].user}]
  /\ proc' = [proc EXCEPT ![p] = Idle]
  /\ UNCHANGED <<user, invoice>>

\* A worker takes an order.
Claim(w, o) ==
  /\ proc[w].pc = "idle"
  /\ order[o].status = "processing"
  /\ proc' = [proc EXCEPT ![w] = [Idle EXCEPT !.pc = "handle", !.order = o,
                                              !.user = order[o].user]]
  /\ ghost' = [ghost EXCEPT !.raced = IF Holders(o) = {} THEN @ ELSE @ \cup {o}]
  /\ UNCHANGED <<order, user, invoice>>

\* A step that touches no order and no money.
Still ==
  /\ UNCHANGED <<order, invoice>>
  /\ \A u \in Users : user'[u].balance = user[u].balance
  /\ UNCHANGED ghost \/ \E w \in Procs, o \in Orders : Claim(w, o)

StepKind ==
  \/ \E p \in Procs, o \in Orders, row \in OrderRow, debit \in Nat :
       Insert(p, o, row, debit) /\ Bought(p, row, debit)
  \/ \E o \in Orders : CancelRow(o) /\ UNCHANGED <<invoice, proc>>
  \/ \E p \in Procs, pushed \in BOOLEAN : PaidWrite(p, pushed)
  \/ \E p \in Procs, r \in Orders : Give(p, r)
  \/ \E w \in Procs : OpenWrite(w)
  \/ \E p \in Procs, o \in Orders : PaidRead(p, o) \/ Checkout(p, o)
  \/ \E o \in Orders : Capture(o)
  \/ \E p \in Procs, o \in Orders, row \in OrderRow : Coded(p, o, row)
  \/ \E o \in Orders, row \in OrderRow : Granted(o, row)
  \/ Still

LEMMA RewardKinds ==
  ASSUME NEW p \in Procs, Reward(p)
  PROVE  (\E r \in Orders : Give(p, r)) \/ Still
<1>1. CASE UNCHANGED <<order, queue, ghost>>
  BY <1>1 DEF Reward, Still
<1>2. ASSUME ~UNCHANGED <<order, queue, ghost>> PROVE \E r \in Orders : Give(p, r)
  <2>1. PICK r \in Orders, gift \in Gifts :
          /\ IsNextId(r)
          /\ order' = [order EXCEPT ![r] = GiftFor(user[proc[p].user].inviter, gift)]
          /\ ghost' = [ghost EXCEPT !.rewards[proc[p].user] = @ + 1,
                         !.late = IF order[proc[p].order].status = "processing"
                                  THEN @ ELSE @ \cup {proc[p].user}]
    BY <1>2 DEF Reward, GiftFor
  <2>2. gift \in {"gift", "nogift"}
    BY OrdersAssumption
  <2>3. EarnsReward(proc[p].order, proc[p].user)
    BY <1>2 DEF Reward
  <2>4. Give(p, r)
    BY <2>1, <2>2, <2>3 DEF Reward, Give
  <2> QED  BY <2>4
<1> QED  BY <1>1, <1>2

LEMMA StepKinds ==
  ASSUME Typed, [Next]_vars
  PROVE  StepKind
<1>1. ASSUME NEW p \in Procs, Save(p) PROVE StepKind
  <2>1. CASE Saving(p)
    <3>1. Still
      BY <2>1 DEF Saving, Ask, Authenticate, FindUser, AskKnown, SaveAbort, Still
    <3> QED  BY <3>1 DEF StepKind
  <2>2. CASE \E o \in Orders, row \in OrderRow, debit \in Nat :
               Insert(p, o, row, debit) /\ Bought(p, row, debit)
    BY <2>2 DEF StepKind
  <2> QED  BY <1>1, <2>1, <2>2, SaveKinds
<1>2. ASSUME NEW p \in Procs, UseCode(p) PROVE StepKind
  BY <1>2, UseCodeKinds DEF StepKind
<1>3. ASSUME NEW p \in Procs, NEW o \in Orders, Cancel(p, o) \/ Checkout(p, o) \/ PaidRead(p, o)
      PROVE  StepKind
  BY <1>3 DEF Cancel, StepKind
<1>4. ASSUME NEW p \in Procs, Bind(p) PROVE StepKind
  <2>1. /\ user' = BoundTo(proc[p].user, order[proc[p].order].bind)
        /\ UNCHANGED <<order, invoice, ghost>>
    BY <1>4 DEF Bind
  <2>2. proc[p].user \in Users /\ order[proc[p].order].bind \in Users \cup {NoUser}
    BY <1>4 DEF Bind, Typed, TypeOK, Owned, OrderRow
  <2>3. \A v \in Users : user'[v].balance = user[v].balance
    BY <2>1, <2>2, BoundType
  <2>4. Still
    BY <2>1, <2>3 DEF Still
  <2> QED  BY <2>4 DEF StepKind
<1>5. ASSUME NEW p \in Procs, NEW pushed \in BOOLEAN, PaidWrite(p, pushed) PROVE StepKind
  BY <1>5 DEF StepKind
<1>6. ASSUME NEW p \in Procs, Reward(p) PROVE StepKind
  BY <1>6, RewardKinds DEF StepKind
<1>7. ASSUME NEW w \in Procs, Worker(w) PROVE StepKind
  <2>1. CASE OpenWrite(w)
    BY <2>1 DEF StepKind
  <2>2. CASE OpenReadUser(w)
    <3>1. Still
      BY <2>2 DEF OpenReadUser, Still
    <3> QED  BY <3>1 DEF StepKind
  <2>3. ASSUME NEW o \in Orders, TakeJob(w, o) PROVE StepKind
    <3>1. CASE CancelRow(o) /\ UNCHANGED proc
      BY <2>3, <3>1 DEF TakeJob, StepKind
    <3>2. CASE UNCHANGED <<order, user, aged, proc, ghost>>
      <4>1. Still
        BY <2>3, <3>2 DEF TakeJob, Still
      <4> QED  BY <4>1 DEF StepKind
    <3>3. CASE Claim(w, o)
      <4>1. Still
        BY <3>3 DEF Claim, Still
      <4> QED  BY <4>1 DEF StepKind
    <3> QED  BY <2>3, <3>1, <3>2, <3>3 DEF TakeJob, Claim
  <2> QED  BY <1>7, <2>1, <2>2, <2>3 DEF Worker
<1>8. ASSUME NEW p \in Procs, NEW requeue \in BOOLEAN, Die(p, requeue) PROVE StepKind
  <2>1. Still
    BY <1>8 DEF Die, Still
  <2> QED  BY <2>1 DEF StepKind
<1>9. ASSUME NEW o \in Orders, Capture(o) PROVE StepKind
  BY <1>9 DEF StepKind
<1>10. ASSUME NEW u \in Users, Expire(u) PROVE StepKind
  <2>1. \A v \in Users : user[v] \in UserRow
    BY DEF Typed, TypeOK
  <2>2. Still
    BY <1>10, <2>1 DEF Expire, Still, Typed, TypeOK, UserRow
  <2> QED  BY <2>2 DEF StepKind
<1>11. CASE (\E o \in Orders : TwoHours(o)) \/ Sweep \/ UNCHANGED vars
  <2>1. Still
    BY <1>11 DEF TwoHours, Sweep, vars, Still
  <2> QED  BY <2>1 DEF StepKind
<1>12. ASSUME NEW p \in Requests, Request(p) PROVE StepKind
  BY <1>1, <1>2, <1>3, <1>4, <1>5, <1>6, <1>12 DEF Request, Procs
<1> QED  BY <1>7, <1>8, <1>9, <1>10, <1>11, <1>12 DEF Next, Procs

\* A still step adds to the marks at most.
LEMMA StillHistory ==
  ASSUME Typed, Still
  PROVE  /\ ghost'.opens = ghost.opens /\ ghost'.refunds = ghost.refunds
         /\ ghost'.cash = ghost.cash /\ ghost'.rewards = ghost.rewards
         /\ ghost'.initial = ghost.initial /\ ghost'.beside = ghost.beside
         /\ ghost'.lost = ghost.lost /\ ghost'.late = ghost.late
         /\ ghost.raced \subseteq ghost'.raced
<1>1. CASE UNCHANGED ghost
  BY <1>1
<1>2. ASSUME NEW w \in Procs, NEW o \in Orders, Claim(w, o)
      PROVE  \E S \in SUBSET Orders : ghost' = [ghost EXCEPT !.raced = @ \cup S]
  <2>1. CASE Holders(o) = {}
    <3>1. ghost' = [ghost EXCEPT !.raced = @ \cup {}]
      BY <1>2, <2>1 DEF Claim
    <3> QED  BY <3>1
  <2>2. CASE Holders(o) # {}
    <3>1. ghost' = [ghost EXCEPT !.raced = @ \cup {o}]
      BY <1>2, <2>2 DEF Claim
    <3> QED  BY <3>1
  <2> QED  BY <2>1, <2>2
<1>3. ASSUME NEW S \in SUBSET Orders, ghost' = [ghost EXCEPT !.raced = @ \cup S]
      PROVE  /\ ghost'.opens = ghost.opens /\ ghost'.refunds = ghost.refunds
             /\ ghost'.cash = ghost.cash /\ ghost'.rewards = ghost.rewards
             /\ ghost'.initial = ghost.initial /\ ghost'.beside = ghost.beside
             /\ ghost'.lost = ghost.lost /\ ghost'.late = ghost.late
             /\ ghost.raced \subseteq ghost'.raced
  BY <1>3 DEF Typed, TypeOK, History
<1> QED  BY <1>1, <1>2, <1>3 DEF Still

\* Marks are never taken back.
LEMMA MarksStay ==
  ASSUME Typed, [Next]_vars
  PROVE  /\ ghost.raced \subseteq ghost'.raced /\ ghost.beside \subseteq ghost'.beside
         /\ ghost.lost \subseteq ghost'.lost /\ ghost.late \subseteq ghost'.late
<1> DEFINE Stay == /\ ghost.raced \subseteq ghost'.raced /\ ghost.beside \subseteq ghost'.beside
                   /\ ghost.lost \subseteq ghost'.lost /\ ghost.late \subseteq ghost'.late
<1>0. ghost \in History
  BY DEF Typed, TypeOK
<1>1. ASSUME NEW p \in Procs, NEW o \in Orders, NEW row, NEW debit, Insert(p, o, row, debit)
      PROVE  Stay
  BY <1>0, <1>1 DEF Insert, History
<1>2. ASSUME NEW o \in Orders, CancelRow(o) PROVE Stay
  BY <1>0, <1>2 DEF CancelRow, History
<1>3. ASSUME NEW p \in Procs, NEW pushed \in BOOLEAN, PaidWrite(p, pushed) PROVE Stay
  BY <1>0, <1>3 DEF PaidWrite, History
<1>4. ASSUME NEW p \in Procs, NEW r \in Orders, Give(p, r) PROVE Stay
  BY <1>0, <1>4 DEF Give, History
<1>5. ASSUME NEW w \in Procs, OpenWrite(w) PROVE Stay
  BY <1>0, <1>5 DEF OpenWrite, History
<1>6. ASSUME NEW p \in Procs, NEW o \in Orders, PaidRead(p, o) \/ Checkout(p, o) PROVE Stay
  BY <1>0, <1>6 DEF PaidRead, Checkout, History
<1>7. ASSUME NEW o \in Orders, Capture(o) PROVE Stay
  BY <1>0, <1>7 DEF Capture, History
<1>8. ASSUME NEW p \in Procs, NEW o \in Orders, NEW row, Coded(p, o, row) PROVE Stay
  BY <1>0, <1>8 DEF Coded, History
<1>9. ASSUME NEW o \in Orders, NEW row, Granted(o, row) PROVE Stay
  BY <1>0, <1>9 DEF Granted, History
<1>10. CASE Still
  BY <1>10, StillHistory
<1> QED  BY <1>1, <1>2, <1>3, <1>4, <1>5, <1>6, <1>7, <1>8, <1>9, <1>10, StepKinds DEF StepKind

\* A row that exists keeps everything but its status, and is never removed.
Kept(r, s) ==
  /\ s.user = r.user /\ s.plan = r.plan /\ s.period = r.period /\ s.type = r.type
  /\ s.total = r.total /\ s.bal = r.bal /\ s.surplus = r.surplus /\ s.refund = r.refund
  /\ s.from = r.from /\ s.bind = r.bind
  /\ s.status # "absent"

LEMMA KeptStatus ==
  ASSUME NEW r \in OrderRow, NEW s, s # "absent"
  PROVE  Kept(r, [r EXCEPT !.status = s])
BY DEF OrderRow, Kept

LEMMA RowsKept ==
  ASSUME Typed, [Next]_vars, NEW o \in Orders, order[o].status # "absent"
  PROVE  Kept(order[o], order'[o])
<1>1. order \in [Orders -> OrderRow] /\ order[o] \in OrderRow
  BY DEF Typed, TypeOK
<1>2. ASSUME order'[o] = order[o] PROVE Kept(order[o], order'[o])
  BY <1>2 DEF Kept
<1>3. ASSUME NEW s, s # "absent", order'[o] = [order[o] EXCEPT !.status = s]
      PROVE  Kept(order[o], order'[o])
  BY <1>1, <1>3, KeptStatus
<1>4. ASSUME NEW q \in Orders, NEW s, s # "absent", order' = [order EXCEPT ![q].status = s]
      PROVE  Kept(order[o], order'[o])
  <2>1. CASE q = o
    BY <1>1, <1>3, <1>4, <2>1
  <2>2. CASE q # o
    BY <1>1, <1>2, <1>4, <2>2
  <2> QED  BY <2>1, <2>2
<1>5. ASSUME NEW q \in Orders, NEW row, IsNextId(q), order' = [order EXCEPT ![q] = row]
      PROVE  Kept(order[o], order'[o])
  BY <1>1, <1>2, <1>5 DEF IsNextId
<1>6. ASSUME NEW p \in Procs, NEW q \in Orders, NEW row, NEW debit, Insert(p, q, row, debit)
      PROVE  Kept(order[o], order'[o])
  BY <1>5, <1>6 DEF Insert
<1>7. ASSUME NEW q \in Orders, CancelRow(q) PROVE Kept(order[o], order'[o])
  BY <1>4, <1>7 DEF CancelRow
<1>8. ASSUME NEW p \in Procs, NEW pushed \in BOOLEAN, PaidWrite(p, pushed)
      PROVE  Kept(order[o], order'[o])
  <2>1. proc[p].order \in Orders /\ order' = [order EXCEPT ![proc[p].order].status = "processing"]
    BY <1>8 DEF PaidWrite, Typed, Owned
  <2> QED  BY <1>4, <2>1
<1>9. ASSUME NEW p \in Procs, NEW r \in Orders, Give(p, r) PROVE Kept(order[o], order'[o])
  BY <1>5, <1>9 DEF Give
<1>10. ASSUME NEW w \in Procs, OpenWrite(w) PROVE Kept(order[o], order'[o])
  BY <1>2, <1>3, <1>10 DEF OpenWrite, Fulfilled
<1>11. ASSUME NEW p \in Procs, NEW q \in Orders, PaidRead(p, q) \/ Checkout(p, q)
      PROVE  Kept(order[o], order'[o])
  BY <1>2, <1>11 DEF PaidRead, Checkout
<1>12. ASSUME NEW q \in Orders, Capture(q) PROVE Kept(order[o], order'[o])
  BY <1>2, <1>12 DEF Capture
<1>13. ASSUME NEW p \in Procs, NEW q \in Orders, NEW row, Coded(p, q, row)
       PROVE  Kept(order[o], order'[o])
  BY <1>5, <1>13 DEF Coded
<1>14. ASSUME NEW q \in Orders, NEW row, Granted(q, row)
       PROVE  Kept(order[o], order'[o])
  <2>1. q # o /\ order' = Fulfilled(q, row)
    BY <1>14 DEF Granted, IsNextId
  <2>2. order'[o] = order[o] \/ order'[o] = [order[o] EXCEPT !.status = "discounted"]
    BY <2>1 DEF Fulfilled
  <2> QED  BY <1>2, <1>3, <2>2
<1>15. CASE Still
  BY <1>2, <1>15 DEF Still
<1> QED  BY <1>6, <1>7, <1>8, <1>9, <1>10, <1>11, <1>12, <1>13, <1>14, <1>15, StepKinds DEF StepKind

\* What a process is about to do has just been read: a process that moves on
\* becomes idle, reads, or has just paid.
ProcStep(p) ==
  \/ proc'[p].pc = "idle"
  \/ proc'[p].pc \in {"asked", "known", "save"} /\ UNCHANGED <<order, ghost>>
  \/ /\ proc'[p].pc = "pay" /\ PaidRead(p, proc'[p].order)
  \/ /\ proc[p].pc = "pay" /\ proc'[p].pc = "bound" /\ UNCHANGED <<order, ghost>>
     /\ proc'[p].order = proc[p].order /\ proc'[p].user = proc[p].user
  \/ /\ proc'[p].pc = "reward" /\ proc'[p].order = proc[p].order /\ proc'[p].user = proc[p].user
     /\ \E pushed \in BOOLEAN : PaidWrite(p, pushed)
  \/ /\ proc'[p].pc = "handle" /\ proc'[p].order \in Orders /\ Claim(p, proc'[p].order)
  \/ /\ proc[p].pc = "handle" /\ proc'[p].pc = "open" /\ UNCHANGED <<order, user, ghost>>
     /\ proc'[p].order = proc[p].order /\ proc'[p].user = proc[p].user
     /\ proc'[p].copy = user[proc'[p].user]

LEMMA ProcSteps ==
  ASSUME Typed, [Next]_vars, NEW p \in Procs, proc'[p] # proc[p]
  PROVE  ProcStep(p)
<1>1. proc \in [Procs -> ProcState] /\ proc[p] \in ProcState
  BY DEF Typed, TypeOK
<1>2. Idle.pc = "idle"
  BY DEF Idle
<1>3. ASSUME NEW r \in Procs, proc' = [proc EXCEPT ![r] = Idle] PROVE ProcStep(p)
  BY <1>1, <1>2, <1>3 DEF ProcStep
<1>4. ASSUME NEW r \in Procs, Save(r) PROVE ProcStep(p)
  <2>1. ASSUME NEW st, proc' = [proc EXCEPT ![r] = st], st.pc \in {"asked", "known", "save"},
               UNCHANGED <<order, ghost>>
        PROVE  ProcStep(p)
    BY <1>1, <2>1 DEF ProcStep
  <2>2. ASSUME NEW u \in Buyers, Ask(r, u) \/ Authenticate(r, u) PROVE ProcStep(p)
    <3>1. /\ [Idle EXCEPT !.pc = "asked", !.user = u].pc = "asked"
          /\ [Idle EXCEPT !.pc = "known", !.user = u, !.copy = user[u]].pc = "known"
      BY DEF Idle
    <3> QED  BY <2>1, <2>2, <3>1 DEF Ask, Authenticate
  <2>3. CASE FindUser(r) \/ AskKnown(r)
    <3>1. proc[r] \in ProcState
      BY DEF Typed, TypeOK
    <3>2. /\ [proc[r] EXCEPT !.pc = "save", !.copy = user[proc[r].user]].pc = "save"
          /\ [proc[r] EXCEPT !.pc = "save"].pc = "save"
      BY <3>1 DEF ProcState
    <3> QED  BY <2>1, <2>3, <3>2 DEF FindUser, AskKnown
  <2>4. CASE SaveAbort(r)
    BY <1>3, <2>4 DEF SaveAbort
  <2>5. ASSUME NEW o, NEW row, NEW debit, Insert(r, o, row, debit) PROVE ProcStep(p)
    BY <1>3, <2>5 DEF Insert
  <2> QED  BY <1>4, <2>2, <2>3, <2>4, <2>5, SaveKinds DEF Saving
<1>5. ASSUME NEW r \in Procs, NEW o \in Orders, PaidRead(r, o) PROVE ProcStep(p)
  <2>1. r = p /\ proc'[p] = [Idle EXCEPT !.pc = "pay", !.order = o, !.user = order[o].user]
    BY <1>1, <1>5 DEF PaidRead
  <2>2. proc'[p].pc = "pay" /\ proc'[p].order = o
    BY <2>1 DEF Idle
  <2> QED  BY <1>5, <2>1, <2>2 DEF ProcStep
<1>6. ASSUME NEW r \in Procs, NEW pushed \in BOOLEAN, PaidWrite(r, pushed) PROVE ProcStep(p)
  <2>1. CASE proc' = [proc EXCEPT ![r] = Idle]
    BY <1>3, <2>1
  <2>2. CASE proc' = [proc EXCEPT ![r].pc = "reward"]
    <3>1. r = p /\ proc'[p] = [proc[p] EXCEPT !.pc = "reward"]
      BY <1>1, <2>2
    <3>2. proc'[p].pc = "reward" /\ proc'[p].order = proc[p].order /\ proc'[p].user = proc[p].user
      BY <1>1, <3>1 DEF ProcState
    <3> QED  BY <1>6, <3>1, <3>2 DEF ProcStep
  <2> QED  BY <1>6, <2>1, <2>2 DEF PaidWrite
<1>7. ASSUME NEW r \in Procs, Reward(r) \/ OpenWrite(r) \/ \E requeue \in BOOLEAN : Die(r, requeue)
      PROVE  ProcStep(p)
  BY <1>3, <1>7 DEF Reward, OpenWrite, Die
<1>8. ASSUME NEW r \in Procs, NEW o \in Orders, TakeJob(r, o) PROVE ProcStep(p)
  <2>1. Claim(r, o)
    BY <1>8 DEF TakeJob, Claim
  <2>2. r = p /\ proc'[p] = [Idle EXCEPT !.pc = "handle", !.order = o, !.user = order[o].user]
    BY <1>1, <2>1 DEF Claim
  <2>3. proc'[p].pc = "handle" /\ proc'[p].order = o
    BY <2>2 DEF Idle
  <2> QED  BY <2>1, <2>2, <2>3 DEF ProcStep
<1>9. ASSUME NEW r \in Procs, OpenReadUser(r) PROVE ProcStep(p)
  <2>1. r = p /\ proc'[p] = [proc[p] EXCEPT !.pc = "open", !.copy = user[proc[p].user]]
    BY <1>1, <1>9 DEF OpenReadUser
  <2>2. /\ proc'[p].pc = "open" /\ proc'[p].order = proc[p].order
        /\ proc'[p].user = proc[p].user /\ proc'[p].copy = user[proc[p].user]
    BY <1>1, <2>1 DEF ProcState
  <2> QED  BY <1>9, <2>1, <2>2 DEF OpenReadUser, ProcStep
<1>10. ASSUME NEW r \in Procs, NEW o \in Orders, Cancel(r, o) \/ Checkout(r, o) PROVE FALSE
  BY <1>10 DEF Cancel, Checkout
<1>11. CASE (\E o \in Orders : Capture(o) \/ TwoHours(o)) \/ (\E u \in Users : Expire(u))
            \/ Sweep \/ UNCHANGED vars
  BY <1>11 DEF Capture, TwoHours, Expire, Sweep, vars
<1>12. ASSUME NEW r \in Procs, Bind(r) PROVE ProcStep(p)
  <2>1. r = p /\ proc'[p] = [proc[p] EXCEPT !.pc = "bound"] /\ proc[p].pc = "pay"
        /\ UNCHANGED <<order, ghost>>
    BY <1>1, <1>12 DEF Bind
  <2>2. /\ proc'[p].pc = "bound" /\ proc'[p].order = proc[p].order
        /\ proc'[p].user = proc[p].user
    BY <1>1, <2>1 DEF ProcState
  <2> QED  BY <2>1, <2>2 DEF ProcStep
<1>13. ASSUME NEW r \in Procs, UseCode(r) PROVE ProcStep(p)
  <2>1. PICK o \in Orders, row \in OrderRow : Coded(r, o, row) \/ Granted(o, row)
    BY <1>13, UseCodeKinds
  <2> QED  BY <1>3, <2>1 DEF Coded, Granted
<1>14. ASSUME NEW r \in Requests, Request(r) PROVE ProcStep(p)
  BY <1>4, <1>5, <1>6, <1>7, <1>10, <1>12, <1>13, <1>14 DEF Request, Procs
<1>15. ASSUME NEW r \in Workers, Worker(r) PROVE ProcStep(p)
  BY <1>7, <1>8, <1>9, <1>15 DEF Worker, Procs
<1> QED  BY <1>7, <1>11, <1>14, <1>15 DEF Next, Procs

-----------------------------------------------------------------------------
(* The balance part of an order is returned once.  No step leads back to    *)
(* absent or pending, which is all the conditional UPDATE relies on.        *)

\* Only inserting makes a pending row, and only of an absent one; only
\* CancelRow counts a refund, and only of a pending one.
LEMMA RefundSteps ==
  ASSUME Typed, [Next]_vars, NEW o \in Orders
  PROVE  \/ /\ order[o].status = "pending" /\ order'[o].status = "cancelled"
            /\ ghost'.refunds[o] = ghost.refunds[o] + 1
         \/ /\ ghost'.refunds[o] = ghost.refunds[o]
            /\ \/ order'[o].status = order[o].status
               \/ /\ order[o].status = "absent"
                  /\ order'[o].status \in {"pending", "processing", "completed"}
               \/ /\ order[o].status # "absent"
                  /\ order'[o].status \in {"processing", "completed", "discounted"}
<1> DEFINE Same == ghost'.refunds[o] = ghost.refunds[o] /\ order'[o].status = order[o].status
<1>1. ASSUME NEW p \in Procs, NEW q \in Orders, NEW row, NEW debit,
             Insert(p, q, row, debit), Bought(p, row, debit)
      PROVE  /\ ghost'.refunds[o] = ghost.refunds[o]
             /\ \/ order'[o].status = order[o].status
                \/ order[o].status = "absent" /\ order'[o].status = "pending"
  BY <1>1 DEF Insert, IsNextId, Bought, Typed, TypeOK, History
<1>2. ASSUME NEW q \in Orders, CancelRow(q)
      PROVE  \/ /\ order[o].status = "pending" /\ order'[o].status = "cancelled"
                /\ ghost'.refunds[o] = ghost.refunds[o] + 1
             \/ Same
  BY <1>2 DEF CancelRow, Typed, TypeOK, OrderRow, History
<1>3. ASSUME NEW p \in Procs, NEW q \in Orders, Checkout(p, q) \/ PaidRead(p, q)
      PROVE  Same
  BY <1>3 DEF Checkout, PaidRead, Typed, TypeOK, History
<1>4. ASSUME NEW p \in Procs, NEW pushed \in BOOLEAN, PaidWrite(p, pushed)
      PROVE  /\ ghost'.refunds[o] = ghost.refunds[o]
             /\ \/ order'[o].status = order[o].status
                \/ order[o].status # "absent" /\ order'[o].status = "processing"
  <2>1. proc[p].order \in Orders /\ order[proc[p].order].status # "absent"
    BY <1>4 DEF PaidWrite, Typed, Owned
  <2> QED  BY <1>4, <2>1 DEF PaidWrite, Typed, TypeOK, OrderRow, History
<1>5. ASSUME NEW p \in Procs, NEW r \in Orders, Give(p, r)
      PROVE  /\ ghost'.refunds[o] = ghost.refunds[o]
             /\ \/ order'[o].status = order[o].status
                \/ order[o].status = "absent" /\ order'[o].status = "processing"
  BY <1>5 DEF Give, GiftFor, NoOrder, IsNextId, Typed, TypeOK, History
<1>6. ASSUME NEW w \in Procs, OpenWrite(w)
      PROVE  /\ ghost'.refunds[o] = ghost.refunds[o]
             /\ \/ order'[o].status = order[o].status
                \/ order[o].status # "absent" /\ order'[o].status \in {"completed", "discounted"}
  <2>1. /\ proc[w].order \in Orders
        /\ o = proc[w].order \/ o \in order[proc[w].order].from => order[o].status # "absent"
    BY <1>6 DEF OpenWrite, Typed, Owned
  <2>2. ghost'.refunds[o] = ghost.refunds[o]
    BY <1>6 DEF OpenWrite, Typed, TypeOK, History
  <2> QED  BY <1>6, <2>1, <2>2 DEF OpenWrite, Fulfilled, Typed, TypeOK, OrderRow
<1>7. ASSUME NEW q \in Orders, Capture(q) PROVE Same
  BY <1>7 DEF Capture, Typed, TypeOK, History
<1>8. ASSUME NEW p \in Procs, NEW q \in Orders, NEW row \in OrderRow, Coded(p, q, row)
      PROVE  /\ ghost'.refunds[o] = ghost.refunds[o]
             /\ \/ order'[o].status = order[o].status
                \/ order[o].status = "absent" /\ order'[o].status = "processing"
  BY <1>8 DEF Coded, IsNextId, Typed, TypeOK, History
<1>9. ASSUME NEW q \in Orders, NEW row \in OrderRow, Granted(q, row)
      PROVE  /\ ghost'.refunds[o] = ghost.refunds[o]
             /\ \/ order'[o].status = order[o].status
                \/ order[o].status = "absent" /\ order'[o].status = "completed"
                \/ order[o].status # "absent" /\ order'[o].status = "discounted"
  <2>1. order[q].status = "absent" /\ (o \in row.from => order[o].status # "absent")
    BY <1>9 DEF Granted, IsNextId, Terms
  <2>2. ghost'.refunds[o] = ghost.refunds[o]
    BY <1>9 DEF Granted, Typed, TypeOK, History
  <2>3. /\ o = q => order'[o].status = "completed"
        /\ o # q /\ o \in row.from => order'[o].status = "discounted"
        /\ o # q /\ o \notin row.from => order'[o] = order[o]
    BY <1>9 DEF Granted, Fulfilled, Typed, TypeOK, OrderRow
  <2> QED  BY <2>1, <2>2, <2>3
<1>10. CASE Still
  BY <1>10, StillHistory DEF Still
<1> QED  BY <1>1, <1>2, <1>3, <1>4, <1>5, <1>6, <1>7, <1>8, <1>9, <1>10, StepKinds DEF StepKind

\* Nothing that is absent or pending was refunded, nothing else twice, and
\* what is cancelled was.
RefundInv ==
  \A o \in Orders :
    /\ order[o].status \in {"absent", "pending"} => ghost.refunds[o] = 0
    /\ order[o].status = "cancelled" => ghost.refunds[o] = 1
    /\ ghost.refunds[o] \in {0, 1}

LEMMA RefundInit == Init => RefundInv
<1> SUFFICES ASSUME Init PROVE RefundInv
  OBVIOUS
<1>1. \A o \in Orders : order[o].status \in {"absent", "completed"} /\ ghost.refunds[o] = 0
  BY InitRows DEF Init, NoOrder
<1> QED  BY <1>1 DEF RefundInv

LEMMA RefundStep == Typed /\ RefundInv /\ [Next]_vars => RefundInv'
BY RefundSteps DEF RefundInv

\* Under every interleaving of buyers, callbacks, administrators and workers
\* an order's balance part is returned at most once, never while it is still
\* pending, and always when it ends up cancelled.
THEOREM RefundedAtMostOnce == Spec => []RefundedOnce
<1>1. RefundInv => RefundedOnce
  BY DEF RefundInv, RefundedOnce
<1> QED  BY <1>1, RefundInit, RefundStep, TypeInit, TypeStep, PTL DEF Spec

-----------------------------------------------------------------------------
(* An order is only fulfilled when its money is there.                      *)

\* What is banked for an order: nothing before it exists, no more than its
\* total while it is pending or its invoice has been sent, and no less once it
\* is paid, captured or opened.
PaidRow(r, sent, opens, cash) ==
  /\ r.status = "absent" => r = NoOrder /\ opens = 0 /\ sent = "none" /\ cash = 0
  /\ r.status = "pending" \/ sent # "none" => cash <= r.total
  /\ r.status \in {"processing", "completed"} \/ opens > 0 \/ sent = "captured"
       => cash >= r.total

PaidAt(o) == PaidRow(order[o], invoice[o], ghost.opens[o], ghost.cash[o])

\* ... and a process that is about to pay or open an order saw its money.
Paid ==
  /\ \A o \in Orders : PaidAt(o)
  /\ \A p \in Procs : proc[p].pc \in {"pay", "bound", "handle", "open"} =>
       ghost.cash[proc[p].order] >= order[proc[p].order].total

LEMMA PaidInit == Init => Paid
<1> SUFFICES ASSUME Init PROVE Paid
  OBVIOUS
<1>1. ASSUME NEW o \in Orders
      PROVE  PaidAt(o)
  <2>1. /\ order[o].total \in Nat /\ order[o].bal \in Nat /\ order[o].surplus \in Nat
    BY TypeInit DEF Typed, TypeOK, OrderRow
  <2>2. /\ invoice[o] = "none"
        /\ ghost.cash[o] = order[o].total + order[o].bal + order[o].surplus
        /\ ghost.opens[o] = IF order[o].status = "completed" THEN 1 ELSE 0
    BY DEF Init
  <2>3. order[o] = NoOrder => /\ order[o].total = 0 /\ order[o].bal = 0 /\ order[o].surplus = 0
                              /\ order[o].status = "absent"
    BY DEF NoOrder
  <2> QED  BY <2>1, <2>2, <2>3, InitRows DEF PaidRow, PaidAt
<1>2. \A p \in Procs : proc[p].pc = "idle"
  BY DEF Init, Idle
<1> QED  BY <1>1, <1>2 DEF Paid

LEMMA CashSteps ==
  ASSUME Typed, [Next]_vars, NEW o \in Orders
  PROVE  ghost'.cash[o] = ghost.cash[o] \/ ghost'.cash[o] = order[o].total
<1>1. ghost \in History
  BY DEF Typed, TypeOK
<1>2. ASSUME NEW p, NEW q, NEW row, NEW debit, Insert(p, q, row, debit)
      PROVE  ghost'.cash[o] = ghost.cash[o]
  BY <1>1, <1>2 DEF Insert, History
<1>3. ASSUME NEW q, CancelRow(q) PROVE ghost'.cash[o] = ghost.cash[o]
  BY <1>1, <1>3 DEF CancelRow, History
<1>4. ASSUME NEW p, NEW pushed, PaidWrite(p, pushed) PROVE ghost'.cash[o] = ghost.cash[o]
  BY <1>1, <1>4 DEF PaidWrite, History
<1>5. ASSUME NEW p, NEW r, Give(p, r) PROVE ghost'.cash[o] = ghost.cash[o]
  BY <1>1, <1>5 DEF Give, History
<1>6. ASSUME NEW w, OpenWrite(w) PROVE ghost'.cash[o] = ghost.cash[o]
  BY <1>1, <1>6 DEF OpenWrite, History
<1>7. ASSUME NEW q \in Orders, \/ UNCHANGED ghost
                               \/ ghost' = [ghost EXCEPT !.cash[q] = order[q].total]
      PROVE  ghost'.cash[o] = ghost.cash[o] \/ ghost'.cash[o] = order[o].total
  BY <1>1, <1>7 DEF History
<1>8. ASSUME NEW p, NEW q \in Orders, PaidRead(p, q) \/ Checkout(p, q)
      PROVE  ghost'.cash[o] = ghost.cash[o] \/ ghost'.cash[o] = order[o].total
  BY <1>7, <1>8 DEF PaidRead, Checkout
<1>9. ASSUME NEW q \in Orders, Capture(q)
      PROVE  ghost'.cash[o] = ghost.cash[o] \/ ghost'.cash[o] = order[o].total
  BY <1>7, <1>9 DEF Capture
<1>10. ASSUME NEW p, NEW q, NEW row, Coded(p, q, row) \/ Granted(q, row)
       PROVE  ghost'.cash[o] = ghost.cash[o]
  BY <1>1, <1>10 DEF Coded, Granted, History
<1>11. CASE Still
  BY <1>11, StillHistory
<1> QED  BY <1>2, <1>3, <1>4, <1>5, <1>6, <1>8, <1>9, <1>10, <1>11, StepKinds DEF StepKind

LEMMA PaidRowStep ==
  ASSUME Typed, Paid, [Next]_vars, NEW o \in Orders
  PROVE  PaidAt(o)'
<1>1. /\ order \in [Orders -> OrderRow] /\ order[o] \in OrderRow
      /\ ghost \in History
      /\ invoice \in [Orders -> {"none", "open", "captured"}]
  BY DEF Typed, TypeOK
<1>2. /\ order[o].total \in Nat /\ ghost.cash[o] \in Nat /\ ghost.opens[o] \in Nat
  BY <1>1 DEF OrderRow, History
<1>3. PaidRow(order[o], invoice[o], ghost.opens[o], ghost.cash[o])
  BY DEF Paid, PaidAt
<1>4. CASE /\ order'[o] = order[o] /\ invoice'[o] = invoice[o]
           /\ ghost'.opens[o] = ghost.opens[o] /\ ghost'.cash[o] = ghost.cash[o]
  BY <1>3, <1>4 DEF PaidAt
<1>5. ASSUME NEW row \in OrderRow, order[o].status = "absent", order'[o] = row,
             row.status = "pending" \/ (row.status = "processing" /\ row.total = 0),
             invoice'[o] = invoice[o], ghost'.opens[o] = ghost.opens[o],
             ghost'.cash[o] = ghost.cash[o]
      PROVE  PaidAt(o)'
  <2>1. row.total \in Nat
    BY DEF OrderRow
  <2> QED  BY <1>3, <1>5, <2>1 DEF PaidRow, PaidAt
<1>6. ASSUME NEW s, order'[o] = [order[o] EXCEPT !.status = s], order[o].status # "absent",
             s \in {"cancelled", "discounted"}, invoice'[o] = invoice[o],
             ghost'.opens[o] = ghost.opens[o], ghost'.cash[o] = ghost.cash[o]
      PROVE  PaidAt(o)'
  <2>1. order'[o].status = s /\ order'[o].total = order[o].total
    BY <1>1, <1>6 DEF OrderRow
  <2> QED  BY <1>3, <1>6, <2>1 DEF PaidRow, PaidAt
<1>7. ASSUME NEW s, order'[o] = [order[o] EXCEPT !.status = s],
             s \in {"processing", "completed"}, invoice'[o] = invoice[o],
             ghost'.cash[o] = ghost.cash[o], ghost.cash[o] >= order[o].total
      PROVE  PaidAt(o)'
  <2>1. order'[o].status = s /\ order'[o].total = order[o].total
    BY <1>1, <1>7 DEF OrderRow
  <2> QED  BY <1>2, <1>3, <1>7, <2>1 DEF PaidRow, PaidAt
<1>8. ASSUME NEW p \in Procs, NEW q \in Orders, NEW row \in OrderRow, NEW debit,
             Insert(p, q, row, debit), Bought(p, row, debit)
      PROVE  PaidAt(o)'
  <2>1. /\ order' = [order EXCEPT ![q] = row] /\ order[q].status = "absent"
        /\ UNCHANGED invoice /\ row.status = "pending"
        /\ ghost'.opens = ghost.opens /\ ghost'.cash = ghost.cash
    BY <1>1, <1>8 DEF Insert, IsNextId, Bought, History
  <2>2. CASE q = o
    <3>1. order'[o] = row
      BY <1>1, <2>1, <2>2
    <3> QED  BY <1>5, <2>1, <2>2, <3>1
  <2>3. CASE q # o
    <3>1. order'[o] = order[o]
      BY <1>1, <2>1, <2>3
    <3> QED  BY <1>4, <2>1, <3>1
  <2> QED  BY <2>2, <2>3
<1>9. ASSUME NEW q \in Orders, CancelRow(q), UNCHANGED invoice PROVE PaidAt(o)'
  <2>1. /\ order' = [order EXCEPT ![q].status = "cancelled"] /\ order[q].status # "absent"
        /\ ghost'.opens = ghost.opens /\ ghost'.cash = ghost.cash
    BY <1>1, <1>9 DEF CancelRow, History
  <2> QED  BY <1>1, <1>4, <1>6, <1>9, <2>1
<1>10. ASSUME NEW p \in Procs, NEW pushed, PaidWrite(p, pushed) PROVE PaidAt(o)'
  <2>1. /\ proc[p].order \in Orders /\ order' = [order EXCEPT ![proc[p].order].status = "processing"]
        /\ ghost.cash[proc[p].order] >= order[proc[p].order].total
        /\ UNCHANGED invoice /\ ghost'.opens = ghost.opens /\ ghost'.cash = ghost.cash
    BY <1>1, <1>10 DEF PaidWrite, Typed, Owned, Paid, History
  <2> QED  BY <1>1, <1>4, <1>7, <2>1
<1>11. ASSUME NEW p \in Procs, NEW r \in Orders, Give(p, r) PROVE PaidAt(o)'
  <2>0. PICK gift : order' = [order EXCEPT ![r] = GiftFor(user[proc[p].user].inviter, gift)]
    BY <1>11 DEF Give
  <2> DEFINE row == GiftFor(user[proc[p].user].inviter, gift)
  <2>1. /\ order' = [order EXCEPT ![r] = row] /\ order[r].status = "absent" /\ UNCHANGED invoice
        /\ ghost'.opens = ghost.opens /\ ghost'.cash = ghost.cash
    BY <1>1, <1>11, <2>0 DEF Give, IsNextId, History
  <2>2. row.status = "processing" /\ row.total = 0
    BY DEF GiftFor, NoOrder
  <2>3. r = o => order'[o] = row /\ order'[o] \in OrderRow
    <3>1. Typed'
      BY TypeStep
    <3> QED  BY <1>1, <2>1, <3>1 DEF Typed, TypeOK
  <2> HIDE DEF row
  <2> QED  BY <1>1, <1>4, <1>5, <2>1, <2>2, <2>3
<1>12. ASSUME NEW w \in Procs, OpenWrite(w) PROVE PaidAt(o)'
  <2> DEFINE x == proc[w].order
  <2>1. /\ x \in Orders /\ ghost.cash[x] >= order[x].total /\ UNCHANGED invoice
        /\ ghost'.cash = ghost.cash /\ (o # x => ghost'.opens[o] = ghost.opens[o])
        /\ \A q \in order[x].from : order[q].status # "absent"
    BY <1>1, <1>12 DEF OpenWrite, Typed, Owned, Paid, History
  <2>2. order'[o] = IF o = x THEN [order[o] EXCEPT !.status = "completed"]
                    ELSE IF o \in order[x].from THEN [order[o] EXCEPT !.status = "discounted"]
                    ELSE order[o]
    BY <1>12 DEF OpenWrite, Fulfilled
  <2> HIDE DEF x
  <2> QED  BY <1>4, <1>6, <1>7, <2>1, <2>2
<1>13. ASSUME NEW q \in Orders, order[q].status = "pending", UNCHANGED <<order, invoice>>,
              \/ UNCHANGED ghost
              \/ ghost' = [ghost EXCEPT !.cash[q] = order[q].total]
       PROVE  PaidAt(o)'
  <2>1. CASE UNCHANGED ghost
    BY <1>4, <1>13, <2>1
  <2>2. CASE ghost' = [ghost EXCEPT !.cash[q] = order[q].total]
    <3>1. ghost'.opens[o] = ghost.opens[o]
          /\ ghost'.cash[o] = IF q = o THEN order[o].total ELSE ghost.cash[o]
      BY <1>1, <2>2 DEF History
    <3> QED  BY <1>2, <1>3, <1>13, <3>1 DEF PaidRow, PaidAt
  <2> QED  BY <1>13, <2>1, <2>2
<1>14. ASSUME NEW p, NEW q \in Orders, PaidRead(p, q) PROVE PaidAt(o)'
  BY <1>13, <1>14 DEF PaidRead
<1>15. ASSUME NEW p, NEW q \in Orders, Checkout(p, q) PROVE PaidAt(o)'
  BY <1>1, <1>3, <1>15 DEF Checkout, PaidRow, PaidAt
<1>16. ASSUME NEW q \in Orders, Capture(q) PROVE PaidAt(o)'
  <2>1. /\ ghost'.opens[o] = ghost.opens[o]
        /\ ghost'.cash[o] = IF q = o THEN order[o].total ELSE ghost.cash[o]
        /\ invoice'[o] = IF q = o THEN "captured" ELSE invoice[o]
        /\ UNCHANGED order /\ invoice[q] = "open"
    BY <1>1, <1>16 DEF Capture, History
  <2> QED  BY <1>2, <1>3, <2>1 DEF PaidRow, PaidAt
<1>17. CASE Still
  BY <1>4, <1>17, StillHistory DEF Still
<1>18. ASSUME NEW p \in Procs, NEW q \in Orders, NEW row \in OrderRow, Coded(p, q, row)
       PROVE  PaidAt(o)'
  <2>1. /\ order' = [order EXCEPT ![q] = row] /\ order[q].status = "absent" /\ UNCHANGED invoice
        /\ row.status = "processing" /\ row.total = 0
        /\ ghost'.opens = ghost.opens /\ ghost'.cash = ghost.cash
    BY <1>1, <1>18 DEF Coded, IsNextId, History
  <2> QED  BY <1>1, <1>4, <1>5, <2>1
<1>19. ASSUME NEW q \in Orders, NEW row \in OrderRow, Granted(q, row)
       PROVE  PaidAt(o)'
  <2>1. /\ order' = Fulfilled(q, row) /\ order[q].status = "absent" /\ UNCHANGED invoice
        /\ row.total = 0 /\ ghost'.cash = ghost.cash
        /\ o # q => ghost'.opens[o] = ghost.opens[o]
        /\ \A x \in row.from : order[x].status # "absent"
    BY <1>1, <1>19 DEF Granted, Terms, IsNextId, History
  <2>2. CASE o = q
    <3>1. order'[o].status = "completed" /\ order'[o].total = 0
      BY <2>1, <2>2 DEF Fulfilled, OrderRow
    <3> QED  BY <1>2, <1>3, <2>1, <2>2, <3>1 DEF PaidRow, PaidAt
  <2>3. CASE o # q
    <3>1. order'[o] = IF o \in row.from THEN [order[o] EXCEPT !.status = "discounted"] ELSE order[o]
      BY <2>1, <2>3 DEF Fulfilled
    <3> QED  BY <1>4, <1>6, <2>1, <2>3, <3>1
  <2> QED  BY <2>2, <2>3
<1> QED
  BY <1>8, <1>9, <1>10, <1>11, <1>12, <1>14, <1>15, <1>16, <1>17, <1>18, <1>19, StepKinds DEF StepKind

LEMMA PaidStep ==
  ASSUME Typed, Paid, [Next]_vars
  PROVE  Paid'
<1>1. \A o \in Orders : PaidAt(o)'
  BY PaidRowStep
<1>2. ASSUME NEW p \in Procs, proc'[p].pc \in {"pay", "bound", "handle", "open"}
      PROVE  ghost'.cash[proc'[p].order] >= order'[proc'[p].order].total
  <2>1. \A o \in Orders : order[o].total \in Nat /\ ghost.cash[o] \in Nat
    BY DEF Typed, TypeOK, OrderRow, History
  <2>2. ASSUME NEW o \in Orders, order[o].status # "absent", ghost.cash[o] >= order[o].total
        PROVE  ghost'.cash[o] >= order'[o].total
    <3>1. order'[o].total = order[o].total
      BY <2>2, RowsKept DEF Kept
    <3> QED  BY <2>1, <2>2, <3>1, CashSteps
  <2>3. CASE proc'[p] = proc[p]
    <3>1. /\ proc[p].order \in Orders /\ order[proc[p].order].status # "absent"
          /\ ghost.cash[proc[p].order] >= order[proc[p].order].total
      BY <1>2, <2>3 DEF Typed, Owned, Paid
    <3> QED  BY <2>2, <2>3, <3>1
  <2>4. CASE proc'[p] # proc[p]
    <3>1. CASE proc'[p].pc = "pay" /\ PaidRead(p, proc'[p].order)
      <4> DEFINE o == proc'[p].order
      <4>1. o \in Orders
        <5>1. Typed'
          BY TypeStep
        <5> QED  BY <3>1, <5>1 DEF Typed, Owned
      <4>2. /\ order'[o].total = order[o].total
            /\ \/ order[o].total = 0 \/ invoice[o] = "captured"
               \/ ghost' = [ghost EXCEPT !.cash[o] = order[o].total]
        BY <3>1 DEF PaidRead
      <4>3. ghost' = [ghost EXCEPT !.cash[o] = order[o].total] => ghost'.cash[o] = order[o].total
        BY <4>1 DEF Typed, TypeOK, History
      <4>4. invoice[o] = "captured" => ghost.cash[o] >= order[o].total
        BY <4>1 DEF Paid, PaidAt, PaidRow
      <4> HIDE DEF o
      <4>5. ghost'.cash[o] = ghost.cash[o] \/ ghost'.cash[o] = order[o].total
        BY <4>1, CashSteps
      <4>6. ghost'.cash[o] >= order'[o].total
        BY <2>1, <4>1, <4>2, <4>3, <4>4, <4>5
      <4> QED  BY <4>6 DEF o
    <3>2. CASE /\ proc'[p].pc = "handle" /\ proc'[p].order \in Orders
               /\ Claim(p, proc'[p].order)
      <4>1. /\ UNCHANGED order /\ order[proc'[p].order].status = "processing"
            /\ ghost'.cash = ghost.cash
        BY <3>2, StillHistory DEF Claim, Still
      <4> QED  BY <3>2, <4>1 DEF Paid, PaidAt, PaidRow
    <3>3. CASE /\ proc[p].pc \in {"pay", "handle"} /\ UNCHANGED <<order, ghost>>
               /\ proc'[p].order = proc[p].order
      BY <3>3 DEF Paid
    <3>4. ProcStep(p)
      BY <2>4, ProcSteps
    <3> QED  BY <1>2, <3>1, <3>2, <3>3, <3>4 DEF ProcStep
  <2> QED  BY <2>3, <2>4
<1> QED  BY <1>1, <1>2 DEF Paid

\* Under every interleaving of checkouts, callbacks, cancellations, jobs and
\* crashes, an order is marked paid or opened only when its total is zero or
\* its money was received.
THEOREM OnlyPaidIsFulfilled == Spec => []FulfilledIsPaid
<1>1. Paid => FulfilledIsPaid
  BY DEF Paid, PaidAt, PaidRow, FulfilledIsPaid
<1>2. Typed /\ Paid /\ [Next]_vars => Paid'
  BY PaidStep
<1> QED  BY <1>1, <1>2, PaidInit, TypeInit, TypeStep, PTL DEF Spec

-----------------------------------------------------------------------------
(* As long as no order is opened, a balance is the first one less what      *)
(* uncancelled orders hold.                                                 *)

LEMMA OrdersFinite == IsFiniteSet(Orders)
BY OrdersAssumption, FS_Interval DEF Orders

\* A sum over the orders moves by what its one term that changes moves by.
LEMMA OneTermChanges ==
  ASSUME NEW h, NEW k, NEW e \in Orders, \A o \in Orders : h[o] \in Int /\ k[o] \in Int,
         \A o \in Orders \ {e} : k[o] = h[o]
  PROVE  SumFunctionOnSet(k, Orders) = SumFunctionOnSet(h, Orders) + (k[e] - h[e])
<1> DEFINE S == Orders
<1>1. /\ IsFiniteSet(S) /\ e \in S
      /\ \A o \in S : h[o] \in Int /\ k[o] \in Int
      /\ \A o \in S \ {e} : k[o] = h[o]
  BY OrdersFinite
<1> HIDE DEF S
<1>2. SumFunctionOnSet(k, S) = SumFunctionOnSet(h, S) + (k[e] - h[e])
  BY ONLY <1>1, SumChange
<1> QED  BY <1>2 DEF S

\* No account is called NULL, so an order that does not exist is nobody's.
LEMMA NoOrderIs ==
  /\ NoOrder.user = NoUser /\ NoUser \notin Users
  /\ NoOrder.bal = 0 /\ NoOrder.status = "absent"
BY OrdersAssumption DEF NoOrder

AccountedFor(u) ==
  user[u].balance + Over(u, [o \in Orders |-> Held(o)]) = ghost.initial[u]

Accounted == (\A o \in Orders : ghost.opens[o] = 0) => \A u \in Users : AccountedFor(u)

LEMMA AccountedInit == Init => Accounted
<1> SUFFICES ASSUME Init, \A o \in Orders : ghost.opens[o] = 0, NEW u \in Users
             PROVE  user[u].balance + Over(u, [o \in Orders |-> Held(o)]) = ghost.initial[u]
  BY DEF Accounted, AccountedFor
<1> DEFINE h == [o \in Orders |-> IF order[o].user = u THEN Held(o) ELSE 0]
<1>1. \A o \in Orders : order[o] = NoOrder
  <2>1. ASSUME NEW o \in Orders, order[o].status = "completed" PROVE FALSE
    <3>1. ghost.opens[o] = 1
      BY <2>1 DEF Init
    <3> QED  BY <3>1
  <2> QED  BY <2>1, InitRows
<1>2. \A o \in Orders : h[o] = 0
  BY <1>1, NoOrderIs
<1>3. Over(u, [o \in Orders |-> Held(o)]) = SumFunctionOnSet(h, Orders)
  BY DEF Over
<1> HIDE DEF h
<1>4. SumFunctionOnSet(h, Orders) = 0
  BY <1>2, SumZero, OrdersFinite
<1>5. user[u].balance \in Nat /\ ghost.initial[u] = user[u].balance
  BY TypeInit DEF Init, Typed, TypeOK, UserRow
<1> QED  BY <1>3, <1>4, <1>5

LEMMA AccountedStep ==
  ASSUME Typed, Typed', RefundInv, RefundInv', Paid, Accounted, [Next]_vars
  PROVE  Accounted'
<1> SUFFICES ASSUME \A o \in Orders : ghost'.opens[o] = 0, NEW u \in Users
             PROVE  AccountedFor(u)'
  BY DEF Accounted
<1> DEFINE h == [o \in Orders |-> IF order[o].user = u THEN Held(o) ELSE 0]
           k == [o \in Orders |-> IF order'[o].user = u THEN Held(o)' ELSE 0]
           b == user[u].balance
           c == user'[u].balance
<1>1. /\ Over(u, [o \in Orders |-> Held(o)]) = SumFunctionOnSet(h, Orders)
      /\ Over(u, [o \in Orders |-> Held(o)])' = SumFunctionOnSet(k, Orders)
  BY DEF Over
<1>2. /\ order \in [Orders -> OrderRow] /\ user \in [Users -> UserRow]
      /\ ghost \in History
  BY DEF Typed, TypeOK
<1>3. b \in Nat /\ c \in Nat /\ \A o \in Orders : h[o] \in Nat /\ k[o] \in Nat
  <2>1. \A o \in Orders : Held(o) \in Nat /\ Held(o)' \in Nat
    BY DEF Held, Typed, TypeOK, OrderRow, History
  <2>2. b \in Nat /\ c \in Nat
    BY DEF Typed, TypeOK, UserRow
  <2> QED  BY <2>1, <2>2
<1>4. ASSUME NEW o \in Orders, order'[o].user = order[o].user, order'[o].bal = order[o].bal,
             ghost'.refunds[o] = ghost.refunds[o]
      PROVE  k[o] = h[o]
  BY <1>4 DEF Held
<1>5. ASSUME NEW o \in Orders, order[o].status = "absent"
      PROVE  h[o] = 0 /\ order[o] = NoOrder /\ ghost.refunds[o] = 0
  BY <1>5, NoOrderIs DEF Paid, PaidAt, PaidRow, RefundInv
<1> HIDE DEF h, k, b, c
<1>6. ASSUME ghost'.opens = ghost.opens, ghost'.initial = ghost.initial,
             NEW e \in Orders, \A o \in Orders \ {e} : k[o] = h[o], c + k[e] = b + h[e]
      PROVE  AccountedFor(u)'
  <2>1. b + SumFunctionOnSet(h, Orders) = ghost.initial[u]
    BY <1>1, <1>6 DEF Accounted, AccountedFor, b
  <2>2. \A o \in Orders : h[o] \in Int /\ k[o] \in Int
    BY <1>3
  <2>3. \A o \in Orders \ {e} : k[o] = h[o]
    BY <1>6
  <2>4. SumFunctionOnSet(k, Orders) = SumFunctionOnSet(h, Orders) + (k[e] - h[e])
    BY <2>2, <2>3, OneTermChanges
  <2>5. SumFunctionOnSet(h, Orders) \in Int
    BY <2>2, SumType, OrdersFinite
  <2> QED  BY <1>1, <1>3, <1>6, <2>1, <2>2, <2>4, <2>5 DEF AccountedFor, c
<1>7. ASSUME ghost'.opens = ghost.opens, ghost'.initial = ghost.initial,
             \A o \in Orders : k[o] = h[o], c = b
      PROVE  AccountedFor(u)'
  <2>1. b + SumFunctionOnSet(h, Orders) = ghost.initial[u]
    BY <1>1, <1>7 DEF Accounted, AccountedFor, b
  <2>2. SumFunctionOnSet(h, Orders) = SumFunctionOnSet(k, Orders)
    BY <1>3, <1>7, SumSame, OrdersFinite
  <2> QED  BY <1>1, <1>7, <2>1, <2>2 DEF AccountedFor, c
<1>8. ASSUME NEW p \in Procs, NEW q \in Orders, NEW row, NEW debit \in Nat,
             Insert(p, q, row, debit), Bought(p, row, debit)
      PROVE  AccountedFor(u)'
  <2>1. /\ order' = [order EXCEPT ![q] = row] /\ order[q].status = "absent"
        /\ ghost'.opens = ghost.opens /\ ghost'.initial = ghost.initial
        /\ ghost'.refunds = ghost.refunds
        /\ user' = [user EXCEPT ![proc[p].user].balance = @ - debit]
        /\ proc[p].user \in Users /\ row.user = proc[p].user /\ row.bal = debit
    BY <1>2, <1>8 DEF Insert, IsNextId, Bought, Typed, Owned, History
  <2>2. \A o \in Orders \ {q} : k[o] = h[o]
    BY <1>2, <1>4, <2>1
  <2>3. c = IF proc[p].user = u THEN b - debit ELSE b
    BY <1>2, <2>1 DEF b, c, UserRow
  <2>4. order'[q] = row /\ ghost'.refunds[q] = 0
    BY <1>2, <1>5, <2>1
  <2>5. k[q] = IF proc[p].user = u THEN debit ELSE 0
    BY <2>1, <2>4 DEF k, Held
  <2>6. c + k[q] = b + h[q]
    BY <1>3, <1>5, <2>1, <2>3, <2>5
  <2> QED  BY <1>6, <2>1, <2>2, <2>6
<1>9. ASSUME NEW q \in Orders, CancelRow(q) PROVE AccountedFor(u)'
  <2>1. /\ order[q].user \in Users /\ order[q].status = "pending" /\ order[q].bal \in Nat
        /\ order' = [order EXCEPT ![q].status = "cancelled"]
        /\ user' = [user EXCEPT ![order[q].user].balance = @ + order[q].bal]
        /\ ghost' = [ghost EXCEPT !.refunds[q] = @ + 1]
    BY <1>2, <1>9 DEF CancelRow, Typed, Owned, OrderRow
  <2>2. /\ ghost'.opens = ghost.opens /\ ghost'.initial = ghost.initial
        /\ \A o \in Orders \ {q} : ghost'.refunds[o] = ghost.refunds[o] /\ order'[o] = order[o]
    BY <1>2, <2>1 DEF History
  <2>3. \A o \in Orders \ {q} : k[o] = h[o]
    BY <1>4, <2>2
  <2>4. ghost.refunds[q] = 0 /\ ghost'.refunds[q] = 1
    BY <1>2, <2>1 DEF RefundInv, History
  <2>5. order'[q].user = order[q].user
    BY <1>2, <2>1 DEF OrderRow
  <2>6. k[q] = 0 /\ h[q] = IF order[q].user = u THEN order[q].bal ELSE 0
    BY <2>4, <2>5 DEF h, k, Held
  <2>7. c = IF order[q].user = u THEN b + order[q].bal ELSE b
    BY <1>2, <2>1 DEF b, c, UserRow
  <2>8. c + k[q] = b + h[q]
    BY <1>3, <2>1, <2>6, <2>7
  <2> QED  BY <1>6, <2>2, <2>3, <2>8
<1>10. ASSUME NEW p \in Procs, NEW pushed, PaidWrite(p, pushed) PROVE AccountedFor(u)'
  <2>1. /\ proc[p].order \in Orders /\ UNCHANGED user
        /\ order' = [order EXCEPT ![proc[p].order].status = "processing"]
        /\ ghost'.opens = ghost.opens /\ ghost'.initial = ghost.initial
        /\ ghost'.refunds = ghost.refunds
    BY <1>2, <1>10 DEF PaidWrite, Typed, Owned, History
  <2>2. \A o \in Orders : order'[o].user = order[o].user /\ order'[o].bal = order[o].bal
    BY <1>2, <2>1 DEF OrderRow
  <2>3. c = b
    BY <2>1 DEF b, c
  <2> QED  BY <1>4, <1>7, <2>1, <2>2, <2>3
<1>11. ASSUME NEW p \in Procs, NEW r \in Orders, Give(p, r) PROVE AccountedFor(u)'
  <2>0. PICK gift : order' = [order EXCEPT ![r] = GiftFor(user[proc[p].user].inviter, gift)]
    BY <1>11 DEF Give
  <2> DEFINE row == GiftFor(user[proc[p].user].inviter, gift)
  <2>1. row.bal = 0
    BY DEF GiftFor, NoOrder
  <2>2. /\ order' = [order EXCEPT ![r] = row] /\ order[r].status = "absent" /\ UNCHANGED user
        /\ ghost'.opens = ghost.opens /\ ghost'.initial = ghost.initial
        /\ ghost'.refunds = ghost.refunds
    BY <1>2, <1>11, <2>0 DEF Give, IsNextId, History
  <2> HIDE DEF row
  <2>3. ASSUME NEW o \in Orders, o # r PROVE k[o] = h[o]
    BY <1>2, <1>4, <2>2, <2>3
  <2>4. k[r] = 0 /\ h[r] = 0
    BY <1>2, <1>5, <2>1, <2>2 DEF k, Held
  <2>5. c = b
    BY <2>2 DEF b, c
  <2> QED  BY <1>7, <2>2, <2>3, <2>4, <2>5
<1>12. ASSUME NEW x \in Orders, ghost'.opens[x] = ghost.opens[x] + 1 PROVE FALSE
  BY <1>2, <1>12 DEF History
<1>16. ASSUME NEW w \in Procs, OpenWrite(w) PROVE FALSE
  <2>1. proc[w].order \in Orders
    BY <1>16 DEF OpenWrite, Typed, Owned
  <2> QED  BY <1>2, <1>12, <1>16, <2>1 DEF OpenWrite, History
<1>17. ASSUME NEW q \in Orders, NEW row, Granted(q, row) PROVE FALSE
  BY <1>2, <1>12, <1>17 DEF Granted, History
<1>13. ASSUME NEW p \in Procs, NEW q \in Orders, PaidRead(p, q) \/ Checkout(p, q) PROVE AccountedFor(u)'
  <2>1. /\ UNCHANGED <<order, user>>
        /\ ghost'.opens = ghost.opens /\ ghost'.initial = ghost.initial
        /\ ghost'.refunds = ghost.refunds
    BY <1>2, <1>13 DEF PaidRead, Checkout, History
  <2>2. c = b
    BY <2>1 DEF b, c
  <2> QED  BY <1>4, <1>7, <2>1, <2>2
<1>14. ASSUME NEW q \in Orders, Capture(q) PROVE AccountedFor(u)'
  <2>1. /\ UNCHANGED <<order, user>>
        /\ ghost'.opens = ghost.opens /\ ghost'.initial = ghost.initial
        /\ ghost'.refunds = ghost.refunds
    BY <1>2, <1>14 DEF Capture, History
  <2>2. c = b
    BY <2>1 DEF b, c
  <2> QED  BY <1>4, <1>7, <2>1, <2>2
<1>15. CASE Still
  <2>1. c = b
    BY <1>15 DEF Still, b, c
  <2>2. /\ UNCHANGED order /\ ghost'.opens = ghost.opens /\ ghost'.initial = ghost.initial
        /\ ghost'.refunds = ghost.refunds
    BY <1>15, StillHistory DEF Still
  <2>3. \A o \in Orders : k[o] = h[o]
    BY <1>4, <2>2
  <2> QED  BY <1>7, <2>1, <2>2, <2>3
<1>18. ASSUME NEW p \in Procs, NEW q \in Orders, NEW row \in OrderRow, Coded(p, q, row)
       PROVE  AccountedFor(u)'
  <2>1. /\ order' = [order EXCEPT ![q] = row] /\ order[q].status = "absent" /\ row.bal = 0
        /\ user'[u].balance = user[u].balance
        /\ ghost'.opens = ghost.opens /\ ghost'.initial = ghost.initial
        /\ ghost'.refunds = ghost.refunds
    BY <1>2, <1>18 DEF Coded, IsNextId, History
  <2>2. ASSUME NEW o \in Orders, o # q PROVE k[o] = h[o]
    BY <1>2, <1>4, <2>1, <2>2
  <2>3. k[q] = 0 /\ h[q] = 0
    BY <1>2, <1>5, <2>1 DEF k, Held
  <2>4. c = b
    BY <2>1 DEF b, c
  <2> QED  BY <1>7, <2>1, <2>2, <2>3, <2>4
<1> QED
  BY <1>8, <1>9, <1>10, <1>11, <1>13, <1>14, <1>15, <1>16, <1>17, <1>18, StepKinds DEF StepKind

\* However many requests create orders and cancel them at once, no balance is
\* lost, doubled or overdrawn: until an order is opened, each is the first
\* balance less what the buyer's uncancelled orders hold.
THEOREM BalanceAddsUp == Spec => []BalanceAccounted
<1>1. Typed /\ Accounted => BalanceAccounted
  BY DEF Typed, TypeOK, UserRow, Accounted, AccountedFor, BalanceAccounted
<1>2. Typed /\ Paid /\ [Next]_vars => Paid'
  BY PaidStep
<1>3. Typed /\ Typed' /\ RefundInv /\ RefundInv' /\ Paid /\ Accounted /\ [Next]_vars => Accounted'
  BY AccountedStep
<1> QED  BY <1>1, <1>2, <1>3, PaidInit, AccountedInit, RefundInit, RefundStep, TypeInit, TypeStep,
            PTL DEF Spec

-----------------------------------------------------------------------------
(* What is born in a step. *)

\* A row that was absent and is there now is a gift, or an order on Terms of
\* the table it was placed in, marked if its buyer had one under way; and the
\* only other rows that change are those a redemption trades in.
Born(o) ==
  /\ order'[o].user \in Users
  /\ \/ /\ Terms(order'[o], order)
        /\ Incomplete(order'[o].user) = {} \/ o \in ghost'.beside
     \/ /\ order'[o].type = 6 /\ order'[o].from = {} /\ order'[o].status = "processing"
        /\ order'[o].total = 0 /\ order'[o].bal = 0 /\ order'[o].surplus = 0
        /\ order'[o].refund = 0 /\ order'[o].period \in {"gift", "nogift"}
  /\ \A q \in Orders \ {o} :
       order'[q] = order[q] \/ (order'[o].status = "completed" /\ q \in order'[o].from)

LEMMA BornRows ==
  ASSUME Typed, [Next]_vars, NEW o \in Orders, order[o].status = "absent", order'[o] # order[o]
  PROVE  Born(o)
<1>1. order \in [Orders -> OrderRow] /\ ghost \in History
  BY DEF Typed, TypeOK
<1>2. ASSUME NEW u, ghost'.beside = ghost.beside \cup Beside(u, o)
      PROVE  Incomplete(u) = {} \/ o \in ghost'.beside
  BY <1>2 DEF Beside
<1>11. ASSUME NEW row, order'[o] = row, row.user \in Users, Terms(row, order),
              Incomplete(row.user) = {} \/ o \in ghost'.beside,
              \A q \in Orders \ {o} :
                order'[q] = order[q] \/ (row.status = "completed" /\ q \in row.from)
       PROVE  Born(o)
  <2>1. Terms(order'[o], order)
    BY <1>11
  <2>2. Incomplete(order'[o].user) = {} \/ o \in ghost'.beside
    BY <1>11
  <2>3. \A q \in Orders \ {o} :
          order'[q] = order[q] \/ (order'[o].status = "completed" /\ q \in order'[o].from)
    BY <1>11
  <2>4. order'[o].user \in Users
    BY <1>11
  <2> QED  BY ONLY <2>1, <2>2, <2>3, <2>4 DEF Born
<1>3. ASSUME NEW p \in Procs, NEW q \in Orders, NEW row \in OrderRow, NEW debit \in Nat,
             Insert(p, q, row, debit), Bought(p, row, debit)
      PROVE  Born(o)
  <2>1. q = o /\ order'[o] = row /\ \A x \in Orders \ {o} : order'[x] = order[x]
    BY <1>1, <1>3 DEF Insert
  <2>2. /\ row.user = proc[p].user /\ proc[p].user \in Users /\ Terms(row, order)
        /\ ghost'.beside = ghost.beside \cup Beside(row.user, o)
    BY <1>1, <1>3, <2>1 DEF Insert, Bought, Typed, Owned, History
  <2>3. Incomplete(row.user) = {} \/ o \in ghost'.beside
    BY <1>2, <2>2
  <2> QED  BY <1>11, <2>1, <2>2, <2>3
<1>4. ASSUME NEW q \in Orders, NEW s, order' = [order EXCEPT ![q].status = s],
             order[q].status # "absent"
      PROVE  FALSE
  BY <1>1, <1>4
<1>5. ASSUME NEW q \in Orders, CancelRow(q) PROVE FALSE
  BY <1>4, <1>5 DEF CancelRow
<1>6. ASSUME NEW p \in Procs, NEW pushed, PaidWrite(p, pushed) PROVE FALSE
  BY <1>4, <1>6 DEF PaidWrite, Typed, Owned
<1>7. ASSUME NEW p \in Procs, NEW r \in Orders, Give(p, r) PROVE Born(o)
  <2>1. PICK gift \in {"gift", "nogift"} :
          order' = [order EXCEPT ![r] = GiftFor(user[proc[p].user].inviter, gift)]
    BY <1>7 DEF Give
  <2> DEFINE row == GiftFor(user[proc[p].user].inviter, gift)
  <2>2. /\ row.type = 6 /\ row.from = {} /\ row.status = "processing" /\ row.total = 0
        /\ row.bal = 0 /\ row.surplus = 0 /\ row.refund = 0 /\ row.period = gift
        /\ row.user = user[proc[p].user].inviter
    BY DEF GiftFor, NoOrder
  <2> HIDE DEF row
  <2>3. r = o /\ order'[o] = row /\ \A x \in Orders \ {o} : order'[x] = order[x]
    BY <1>1, <2>1 DEF row
  <2>4. row.user \in Users
    BY <1>7, <2>2 DEF Give, EarnsReward, Typed, TypeOK, Owned, UserRow
  <2>5. /\ order'[o].type = 6 /\ order'[o].from = {} /\ order'[o].status = "processing"
        /\ order'[o].total = 0 /\ order'[o].bal = 0 /\ order'[o].surplus = 0
        /\ order'[o].refund = 0 /\ order'[o].period \in {"gift", "nogift"}
        /\ order'[o].user \in Users
    BY <2>2, <2>3, <2>4
  <2>6. \A x \in Orders \ {o} : order'[x] = order[x]
    BY <2>3
  <2> QED  BY ONLY <2>5, <2>6 DEF Born
<1>8. ASSUME NEW w \in Procs, OpenWrite(w) PROVE FALSE
  <2>1. /\ proc[w].order \in Orders /\ order[proc[w].order].status # "absent"
        /\ \A q \in order[proc[w].order].from : order[q].status # "absent"
        /\ order' = Fulfilled(proc[w].order, order[proc[w].order])
    BY <1>8 DEF OpenWrite, Typed, Owned
  <2> QED  BY <2>1 DEF Fulfilled
<1>9. ASSUME NEW p \in Procs, NEW q \in Orders, NEW row \in OrderRow, Coded(p, q, row)
      PROVE  Born(o)
  <2>1. q = o /\ order'[o] = row /\ \A x \in Orders \ {o} : order'[x] = order[x]
    BY <1>1, <1>9 DEF Coded
  <2>2. /\ row.user \in Users /\ Terms(row, order)
        /\ ghost'.beside = ghost.beside \cup Beside(row.user, o)
    BY <1>1, <1>9, <2>1 DEF Coded, Typed, Owned, History
  <2>3. Incomplete(row.user) = {} \/ o \in ghost'.beside
    BY <1>2, <2>2
  <2> QED  BY <1>11, <2>1, <2>2, <2>3
<1>10. ASSUME NEW q \in Orders, NEW row \in OrderRow, Granted(q, row)
       PROVE  Born(o)
  <2>1. /\ order' = Fulfilled(q, row) /\ Terms(row, order) /\ row.user \in Users
        /\ ghost'.beside = ghost.beside \cup Beside(row.user, q)
    BY <1>1, <1>10 DEF Granted, History
  <2>2. q = o
    <3>1. \A x \in row.from : order[x].status # "absent"
      BY <2>1 DEF Terms
    <3> QED  BY <2>1, <3>1 DEF Fulfilled
  <2>3. /\ order'[o] = [row EXCEPT !.status = "completed"]
        /\ \A x \in Orders \ {o} : order'[x] = order[x] \/ x \in row.from
    BY <2>1, <2>2 DEF Fulfilled
  <2> DEFINE new == order'[o]
  <2>4. /\ new.status = "completed" /\ new.user = row.user /\ new.period = row.period
        /\ new.type = row.type /\ new.surplus = row.surplus /\ new.refund = row.refund
        /\ new.from = row.from /\ new.bal = row.bal
    BY <2>3 DEF OrderRow
  <2>5. row.type = 9 => row.bal = 0
    BY <2>1 DEF Terms
  <2> HIDE DEF new
  <2>6. Terms(new, order)
    BY <2>1, <2>4, <2>5, TermsOf
  <2>7. Incomplete(row.user) = {} \/ o \in ghost'.beside
    BY <1>2, <2>1, <2>2
  <2>8. new.user \in Users /\ (Incomplete(new.user) = {} \/ o \in ghost'.beside)
    BY <2>1, <2>4, <2>7
  <2>9. \A x \in Orders \ {o} : order'[x] = order[x] \/ (new.status = "completed" /\ x \in new.from)
    BY <2>3, <2>4
  <2>10. order'[o] = new
    BY DEF new
  <2> QED  BY <1>11, <2>6, <2>8, <2>9, <2>10
<1> QED
  BY <1>3, <1>5, <1>6, <1>7, <1>8, <1>9, <1>10, StepKinds
  DEF StepKind, PaidRead, Checkout, Capture, Still

\* A row is absent for good only as NoOrder: it trades nothing in.
LEMMA TradedBefore ==
  ASSUME Typed, Paid, [Next]_vars, NEW o \in Orders, NEW q \in order'[o].from
  PROVE  \/ order[o].status # "absent" /\ q \in order[o].from
         \/ order[o].status = "absent" /\ order[q].status = "completed"
<1>1. CASE order[o].status # "absent"
  BY <1>1, RowsKept DEF Kept
<1>2. CASE order[o].status = "absent" /\ order'[o] # order[o]
  BY <1>2, BornRows DEF Born, Terms
<1>3. CASE order[o].status = "absent" /\ order'[o] = order[o]
  <2>1. order[o] = NoOrder
    BY <1>3 DEF Paid, PaidAt, PaidRow
  <2> QED  BY <1>3, <2>1 DEF NoOrder
<1> QED  BY <1>1, <1>2, <1>3

-----------------------------------------------------------------------------
(* An order that was not raced is fulfilled once and never after a refund.  *)

\* What a step may do to an order row and its history while Agreed holds.
OrderStep(o) ==
  \/ /\ order'[o] = order[o]
     /\ ghost'.opens[o] = ghost.opens[o] /\ ghost'.refunds[o] = ghost.refunds[o]
  \/ /\ order[o].status = "absent" /\ order'[o].status \in {"pending", "processing"}
     /\ ghost'.opens[o] = ghost.opens[o] /\ ghost'.refunds[o] = ghost.refunds[o]
  \/ /\ order[o].status = "absent" /\ order'[o].status = "completed"
     /\ \A q \in order'[o].from \ {o} : order'[q].status = "discounted"
     /\ ghost'.opens[o] = ghost.opens[o] + 1 /\ ghost'.refunds[o] = ghost.refunds[o]
  \/ /\ order[o].status = "pending" /\ order'[o].status = "cancelled"
     /\ ghost'.opens[o] = ghost.opens[o] /\ ghost'.refunds[o] = ghost.refunds[o] + 1
  \/ /\ order[o].status = "pending" /\ order'[o].status = "processing"
     /\ ghost'.opens[o] = ghost.opens[o] /\ ghost'.refunds[o] = ghost.refunds[o]
  \/ /\ order[o].status = "processing" /\ order'[o].status = "completed"
     /\ \E w \in Holders(o) : proc'[w].pc = "idle"
     /\ \A q \in order'[o].from \ {o} : order'[q].status = "discounted"
     /\ ghost'.opens[o] = ghost.opens[o] + 1 /\ ghost'.refunds[o] = ghost.refunds[o]
  \/ /\ order[o].status \in {"completed", "discounted"} /\ order'[o].status = "discounted"
     /\ ghost'.opens[o] = ghost.opens[o] /\ ghost'.refunds[o] = ghost.refunds[o]

LEMMA OrderSteps ==
  ASSUME Typed, Agreed, [Next]_vars, NEW o \in Orders \ ghost'.raced
  PROVE  OrderStep(o)
<1>1. /\ order \in [Orders -> OrderRow] /\ order[o] \in OrderRow /\ ghost \in History
      /\ o \notin ghost.raced
  BY MarksStay DEF Typed, TypeOK
<1>2. ASSUME NEW p \in Procs, NEW q \in Orders, NEW row, NEW debit,
             Insert(p, q, row, debit), Bought(p, row, debit)
      PROVE  OrderStep(o)
  <2>1. /\ order[q].status = "absent" /\ order' = [order EXCEPT ![q] = row]
        /\ row.status = "pending" /\ ghost'.opens = ghost.opens /\ ghost'.refunds = ghost.refunds
    BY <1>1, <1>2 DEF Insert, IsNextId, Bought, History
  <2> QED  BY <1>1, <2>1 DEF OrderStep
<1>3. ASSUME NEW q \in Orders, CancelRow(q)
      PROVE  OrderStep(o)
  BY <1>1, <1>3 DEF CancelRow, OrderRow, OrderStep, History
<1>4. ASSUME NEW p \in Procs, NEW q \in Orders, Checkout(p, q) \/ PaidRead(p, q)
      PROVE  OrderStep(o)
  BY <1>1, <1>4 DEF Checkout, PaidRead, OrderStep, History
<1>5. ASSUME NEW p \in Procs, NEW pushed \in BOOLEAN, PaidWrite(p, pushed)
      PROVE  OrderStep(o)
  <2> DEFINE x == proc[p].order
  <2>1. /\ x \in Orders /\ order' = [order EXCEPT ![x].status = "processing"]
        /\ ghost'.opens = ghost.opens /\ ghost'.refunds = ghost.refunds
        /\ order[x].status = "pending" \/ x \in ghost'.raced
    BY <1>1, <1>5 DEF PaidWrite, Typed, Owned, History
  <2>2. o = x => order[o].status = "pending" /\ order'[o].status = "processing"
    BY <1>1, <2>1 DEF OrderRow
  <2>3. o # x => order'[o] = order[o]
    BY <1>1, <2>1
  <2> QED  BY <2>1, <2>2, <2>3 DEF OrderStep
<1>6. ASSUME NEW p \in Procs, NEW r \in Orders, Give(p, r)
      PROVE  OrderStep(o)
  <2>1. PICK gift : order' = [order EXCEPT ![r] = GiftFor(user[proc[p].user].inviter, gift)]
    BY <1>6 DEF Give
  <2> DEFINE row == GiftFor(user[proc[p].user].inviter, gift)
  <2>2. row.status = "processing"
    BY DEF GiftFor, NoOrder
  <2>3. /\ order[r].status = "absent" /\ order' = [order EXCEPT ![r] = row]
        /\ ghost'.opens = ghost.opens /\ ghost'.refunds = ghost.refunds
    BY <1>1, <1>6, <2>1 DEF Give, IsNextId, History
  <2> HIDE DEF row
  <2> QED  BY <1>1, <2>2, <2>3 DEF OrderStep
<1>7. ASSUME NEW x \in Orders, NEW r, order' = Fulfilled(x, r),
             ghost'.refunds = ghost.refunds,
             ghost'.opens[o] = IF o = x THEN ghost.opens[o] + 1 ELSE ghost.opens[o],
             r.from \subseteq Orders,
             o = x => /\ order'[o].status = "completed" /\ order'[o].from = r.from
                      /\ \/ order[o].status = "absent"
                         \/ order[o].status = "processing" /\ \E w \in Holders(o) : proc'[w].pc = "idle",
             o \in r.from => order[o].status \in {"completed", "discounted"}
      PROVE  OrderStep(o)
  <2>1. CASE o = x
    <3>1. ASSUME NEW q \in r.from \ {o} PROVE order'[q].status = "discounted"
      <4>1. order'[q] = [order[q] EXCEPT !.status = "discounted"] /\ order[q] \in OrderRow
        BY <1>1, <1>7, <2>1 DEF Fulfilled
      <4> QED  BY <4>1 DEF OrderRow
    <3> QED  BY <1>7, <2>1, <3>1 DEF OrderStep
  <2>2. CASE o # x /\ o \in r.from
    <3>1. order'[o] = [order[o] EXCEPT !.status = "discounted"]
      BY <1>7, <2>2 DEF Fulfilled
    <3>2. order'[o].status = "discounted"
      BY <1>1, <3>1 DEF OrderRow
    <3> QED  BY <1>7, <2>2, <3>2 DEF OrderStep
  <2>3. CASE o # x /\ o \notin r.from
    BY <1>7, <2>3 DEF Fulfilled, OrderStep
  <2> QED  BY <2>1, <2>2, <2>3
<1>8. ASSUME NEW w \in Procs, OpenWrite(w)
      PROVE  OrderStep(o)
  <2> DEFINE x == proc[w].order
  <2>1. /\ x \in Orders /\ order' = Fulfilled(x, order[x])
        /\ ghost'.refunds = ghost.refunds
        /\ ghost'.opens[o] = IF o = x THEN ghost.opens[o] + 1 ELSE ghost.opens[o]
    BY <1>1, <1>8 DEF OpenWrite, Typed, Owned, History
  <2>2. o = x => w \in Holders(o) /\ proc'[w].pc = "idle"
    BY <1>8 DEF OpenWrite, Holders, Idle, Typed, TypeOK
  <2>3. o = x => order[o].status = "processing"
    BY <1>1, <2>2 DEF Agreed
  <2>4. /\ o = x => order'[o].status = "completed" /\ order'[o].from = order[x].from
        /\ order[x].from \subseteq Orders
    BY <1>1, <2>1 DEF Fulfilled, OrderRow
  <2>5. o \in order[x].from => order[o].status \in {"completed", "discounted"}
    BY <1>1, <2>1 DEF Agreed
  <2> HIDE DEF x
  <2> QED  BY <1>7, <2>1, <2>2, <2>3, <2>4, <2>5
<1>9. ASSUME NEW p \in Procs, NEW q \in Orders, NEW row \in OrderRow, Coded(p, q, row)
      PROVE  OrderStep(o)
  <2>1. /\ order[q].status = "absent" /\ order' = [order EXCEPT ![q] = row]
        /\ row.status = "processing"
        /\ ghost'.opens = ghost.opens /\ ghost'.refunds = ghost.refunds
    BY <1>1, <1>9 DEF Coded, IsNextId, History
  <2> QED  BY <1>1, <2>1 DEF OrderStep
<1>10. ASSUME NEW q \in Orders, NEW row \in OrderRow, Granted(q, row)
       PROVE  OrderStep(o)
  <2>1. /\ order' = Fulfilled(q, row) /\ ghost'.refunds = ghost.refunds
        /\ ghost'.opens[o] = IF o = q THEN ghost.opens[o] + 1 ELSE ghost.opens[o]
        /\ order[q].status = "absent"
    BY <1>1, <1>10 DEF Granted, IsNextId, History
  <2>2. /\ o = q => order'[o].status = "completed" /\ order'[o].from = row.from
        /\ row.from \subseteq Orders
    BY <2>1 DEF Fulfilled, OrderRow
  <2>3. o \in row.from => order[o].status \in {"completed", "discounted"}
    BY <1>10 DEF Granted, Terms
  <2> QED  BY <1>7, <2>1, <2>2, <2>3
<1>11. ASSUME NEW q \in Orders, Capture(q)
       PROVE  OrderStep(o)
  BY <1>1, <1>11 DEF Capture, OrderStep, History
<1>12. CASE Still
  BY <1>12, StillHistory DEF Still, OrderStep
<1> QED  BY <1>2, <1>3, <1>4, <1>5, <1>6, <1>8, <1>9, <1>10, <1>11, <1>12, StepKinds DEF StepKind

\* A worker holds an order because it held it before or has just claimed it
\* with nobody else holding it: claiming it beside another marks it.
LEMMA HolderSteps ==
  ASSUME Typed, [Next]_vars, NEW o \in Orders \ ghost'.raced, NEW p \in Holders(o)'
  PROVE  /\ p \in Procs
         /\ \/ p \in Holders(o)
            \/ Claim(p, o) /\ Holders(o) = {}
<1>1. p \in Procs /\ proc'[p].pc \in {"handle", "open"} /\ proc'[p].order = o
  BY DEF Holders
<1>2. CASE proc'[p] = proc[p]
  BY <1>1, <1>2 DEF Holders
<1>3. CASE proc'[p] # proc[p]
  <2>1. ProcStep(p)
    BY <1>1, <1>3, ProcSteps
  <2>2. ASSUME Claim(p, o) PROVE Holders(o) = {}
    <3>1. ASSUME Holders(o) # {} PROVE o \in ghost'.raced
      <4>1. ghost' = [ghost EXCEPT !.raced = @ \cup {o}]
        BY <2>2, <3>1 DEF Claim
      <4> QED  BY <4>1 DEF Typed, TypeOK, History
    <3> QED  BY <3>1
  <2>3. CASE proc'[p].pc = "handle"
    BY <1>1, <2>1, <2>2, <2>3 DEF ProcStep
  <2>4. CASE proc'[p].pc = "open"
    BY <1>1, <2>1, <2>4 DEF ProcStep, Holders
  <2> QED  BY <1>1, <2>3, <2>4
<1> QED  BY <1>2, <1>3

LEMMA AgreedStep ==
  ASSUME Typed, Paid, Agreed, [Next]_vars
  PROVE  Agreed'
<1> SUFFICES ASSUME NEW o \in Orders \ ghost'.raced
             PROVE  /\ ghost'.opens[o] =
                         IF order'[o].status \in {"completed", "discounted"} THEN 1 ELSE 0
                    /\ ghost'.refunds[o] = IF order'[o].status = "cancelled" THEN 1 ELSE 0
                    /\ \A q \in Orders : o \in order'[q].from =>
                         order'[o].status \in {"completed", "discounted"}
                    /\ \A p \in Holders(o)' :
                         order'[o].status = "processing" /\ Holders(o)' = {p}
  BY DEF Agreed
<1>1. OrderStep(o) /\ o \notin ghost.raced
  BY OrderSteps, MarksStay
<1>2. /\ ghost.opens[o] = IF order[o].status \in {"completed", "discounted"} THEN 1 ELSE 0
      /\ ghost.refunds[o] = IF order[o].status = "cancelled" THEN 1 ELSE 0
      /\ \A q \in Orders : o \in order[q].from => order[o].status \in {"completed", "discounted"}
      /\ \A p \in Holders(o) : order[o].status = "processing" /\ Holders(o) = {p}
  BY <1>1 DEF Agreed
<1>3. /\ ghost'.opens[o] = IF order'[o].status \in {"completed", "discounted"} THEN 1 ELSE 0
      /\ ghost'.refunds[o] = IF order'[o].status = "cancelled" THEN 1 ELSE 0
  BY <1>1, <1>2 DEF OrderStep
<1>4. ASSUME NEW q \in Orders, o \in order'[q].from
      PROVE  order'[o].status \in {"completed", "discounted"}
  <2>1. order[o].status \in {"completed", "discounted"}
    BY <1>2, <1>4, TradedBefore
  <2> QED  BY <1>1, <2>1 DEF OrderStep
<1>5. ASSUME NEW p \in Holders(o)' PROVE order'[o].status = "processing"
  <2>1. CASE p \in Holders(o)
    <3>1. order[o].status = "processing" /\ Holders(o) = {p}
      BY <1>2, <2>1
    <3>2. proc'[p].pc # "idle"
      BY <1>5 DEF Holders
    <3> QED  BY <1>1, <3>1, <3>2 DEF OrderStep
  <2>2. CASE Claim(p, o)
    BY <2>2 DEF Claim
  <2> QED  BY <1>5, <2>1, <2>2, HolderSteps
<1>6. ASSUME NEW p \in Holders(o)', NEW r \in Holders(o)' PROVE p = r
  <2>1. CASE p \in Holders(o) /\ r \in Holders(o)
    BY <1>2, <2>1
  <2>2. ASSUME NEW a \in Holders(o)', NEW b \in Holders(o)', Claim(a, o), Holders(o) = {}
        PROVE  a = b
    <3>1. b \in Procs /\ Claim(b, o)
      BY <2>2, HolderSteps
    <3>2. a # b => proc'[b] = proc[b]
      BY <2>2, <3>1 DEF Claim, Typed, TypeOK
    <3>3. proc[b].pc = "idle" /\ proc'[b].pc # "idle"
      BY <2>2, <3>1 DEF Claim, Holders
    <3> QED  BY <3>2, <3>3
  <2> QED  BY <1>6, <2>1, <2>2, HolderSteps
<1> QED  BY <1>3, <1>4, <1>5, <1>6

LEMMA AgreedInit == Init => Agreed
<1> SUFFICES ASSUME Init PROVE Agreed
  OBVIOUS
<1>1. \A o \in Orders : order[o].status \in {"absent", "completed"} /\ order[o].from = {}
  BY InitRows DEF NoOrder
<1>2. \A p \in Procs : proc[p].pc = "idle"
  BY DEF Init, Idle
<1>3. \A o \in Orders : /\ ghost.opens[o] = IF order[o].status = "completed" THEN 1 ELSE 0
                        /\ ghost.refunds[o] = 0
  BY DEF Init
<1> QED  BY <1>1, <1>2, <1>3 DEF Agreed, Holders

\* Under every interleaving, an order that paid() never wrote over and no two
\* workers held at once is fulfilled at most once, and never when its balance
\* part was returned: repeated callbacks, jobs, sweeps, cancellations, codes
\* and crashes do not matter.
THEOREM OpensOnce == Spec => []OpenedOnce
<1>1. Typed /\ Paid /\ [Next]_vars => Paid'
  BY PaidStep
<1>2. Typed /\ Paid /\ Agreed /\ [Next]_vars => Agreed'
  BY AgreedStep
<1>3. Agreed => OpenedOnce
  BY DEF Agreed, OpenedOnce
<1> QED  BY <1>1, <1>2, <1>3, TypeInit, TypeStep, PaidInit, AgreedInit, PTL DEF Spec

-----------------------------------------------------------------------------
(* An order is traded in once.                                              *)

\* What an order trades in was its buyer's,
Kin == \A o \in Orders : \A q \in order[o].from : order[q].user = order[o].user

\* is closed once the order is open,
Closed ==
  \A o \in Orders \ ghost.raced :
    order[o].status \in {"completed", "discounted"} =>
      \A q \in order[o].from \ ghost.raced : order[q].status = "discounted"

\* and of two orders that trade it in one was cancelled, unless one of them
\* was raced or created beside another.
Traded ==
  \A a, b \in Orders \ (ghost.raced \cup ghost.beside) :
    a # b /\ (order[a].from \cap order[b].from) \ ghost.raced # {}
      => order[a].status = "cancelled" \/ order[b].status = "cancelled"

TradeInv == Agreed /\ Kin /\ Closed /\ Traded

LEMMA TradeInit == Init => TradeInv
<1> SUFFICES ASSUME Init PROVE TradeInv
  OBVIOUS
<1>1. \A o \in Orders : order[o].from = {}
  BY InitRows
<1> QED  BY <1>1, AgreedInit DEF TradeInv, Kin, Closed, Traded

LEMMA KinStep ==
  ASSUME Typed, Paid, Kin, [Next]_vars
  PROVE  Kin'
<1> SUFFICES ASSUME NEW o \in Orders, NEW q \in order'[o].from
             PROVE  order'[q].user = order'[o].user
  BY DEF Kin
<1>1. q \in Orders /\ order[q].status # "absent"
  <2>1. Typed'
    BY TypeStep
  <2> QED  BY <2>1, TradedBefore DEF Typed, TypeOK, Owned, OrderRow
<1>2. order'[q].user = order[q].user
  BY <1>1, RowsKept DEF Kept
<1>3. CASE order[o].status # "absent"
  <2>1. order'[o].user = order[o].user /\ q \in order[o].from
    BY <1>3, RowsKept DEF Kept
  <2> QED  BY <1>2, <2>1 DEF Kin
<1>4. CASE order[o].status = "absent"
  <2>1. order'[o] # order[o]
    <3>1. NoOrder.from = {}
      BY DEF NoOrder
    <3> QED  BY <1>4, <3>1 DEF Paid, PaidAt, PaidRow
  <2>2. Terms(order'[o], order)
    BY <1>4, <2>1, BornRows DEF Born
  <2> QED  BY <1>2, <2>2 DEF Terms
<1> QED  BY <1>3, <1>4

LEMMA ClosedStep ==
  ASSUME Typed, Paid, Agreed, Closed, [Next]_vars
  PROVE  Closed'
<1> SUFFICES ASSUME NEW o \in Orders \ ghost'.raced,
                    order'[o].status \in {"completed", "discounted"},
                    NEW q \in order'[o].from \ ghost'.raced
             PROVE  order'[q].status = "discounted"
  BY DEF Closed
<1>1. q \in Orders
  <2>1. Typed'
    BY TypeStep
  <2> QED  BY <2>1 DEF Typed, TypeOK, OrderRow
<1>2. OrderStep(o) /\ OrderStep(q)
  BY <1>1, OrderSteps
<1>3. o \notin ghost.raced /\ q \notin ghost.raced
  BY MarksStay
<1>4. CASE order[o].status \in {"completed", "discounted"}
  <2>1. q \in order[o].from
    BY <1>4, TradedBefore
  <2>2. order[q].status = "discounted"
    BY <1>3, <1>4, <2>1 DEF Closed
  <2> QED  BY <1>2, <2>2 DEF OrderStep
<1>5. CASE order[o].status \notin {"completed", "discounted"}
  <2>1. q # o
    BY <1>3, <1>5, TradedBefore DEF Agreed
  <2>2. \A x \in order'[o].from \ {o} : order'[x].status = "discounted"
    BY <1>2, <1>5 DEF OrderStep
  <2> QED  BY <2>1, <2>2
<1> QED  BY <1>4, <1>5

\* An order that trades in what another one has, created while its buyer had
\* none under way, finds the other one cancelled.
LEMMA TradeBorn ==
  ASSUME Typed, Paid, TradeInv, [Next]_vars,
         NEW a \in Orders \ ghost.raced, NEW b \in Orders \ ghost'.beside,
         NEW q \in Orders \ ghost.raced,
         q \in order[a].from, q \in order'[b].from, order[b].status = "absent"
  PROVE  order[a].status = "cancelled"
<1>1. order'[b] # order[b]
  <2>1. NoOrder.from = {}
    BY DEF NoOrder
  <2> QED  BY <2>1 DEF Paid, PaidAt, PaidRow
<1>2. Born(b)
  BY <1>1, BornRows
<1>3. /\ order[q].status = "completed" /\ order[q].user = order'[b].user
      /\ Incomplete(order'[b].user) = {}
  BY <1>2 DEF Born, Terms
<1>4. order[a].user = order'[b].user
  BY <1>3 DEF TradeInv, Kin
<1>5. order[a].status \notin {"pending", "processing"}
  BY <1>3, <1>4 DEF Incomplete
<1>6. order[a].status \notin {"completed", "discounted"}
  BY <1>3 DEF TradeInv, Closed
<1>7. order[a].status # "absent"
  <2>1. NoOrder.from = {}
    BY DEF NoOrder
  <2> QED  BY <2>1 DEF Paid, PaidAt, PaidRow
<1> QED  BY <1>5, <1>6, <1>7 DEF Typed, TypeOK, OrderRow, Status

LEMMA TradedStep ==
  ASSUME Typed, Paid, TradeInv, [Next]_vars
  PROVE  Traded'
<1> SUFFICES ASSUME NEW a \in Orders \ (ghost'.raced \cup ghost'.beside),
                    NEW b \in Orders \ (ghost'.raced \cup ghost'.beside), a # b,
                    NEW q, q \in order'[a].from, q \in order'[b].from, q \notin ghost'.raced
             PROVE  order'[a].status = "cancelled" \/ order'[b].status = "cancelled"
  BY DEF Traded
<1>1. /\ a \notin ghost.raced \cup ghost.beside /\ b \notin ghost.raced \cup ghost.beside
      /\ q \notin ghost.raced
  BY MarksStay
<1>2. q \in Orders
  <2>1. Typed'
    BY TypeStep
  <2> QED  BY <2>1 DEF Typed, TypeOK, OrderRow
<1>3. /\ order[a].status = "cancelled" => order'[a].status = "cancelled"
      /\ order[b].status = "cancelled" => order'[b].status = "cancelled"
  <2>1. OrderStep(a) /\ OrderStep(b)
    BY OrderSteps DEF TradeInv
  <2> QED  BY <2>1 DEF OrderStep
<1>4. CASE order[a].status # "absent" /\ order[b].status # "absent"
  <2>1. q \in order[a].from /\ q \in order[b].from
    BY <1>4, TradedBefore
  <2> QED  BY <1>1, <1>3, <2>1 DEF TradeInv, Traded
<1>5. CASE order[a].status # "absent" /\ order[b].status = "absent"
  <2>1. q \in order[a].from
    BY <1>5, TradedBefore
  <2>2. order[a].status = "cancelled"
    BY <1>1, <1>2, <1>5, <2>1, TradeBorn
  <2> QED  BY <1>3, <2>2
<1>6. CASE order[a].status = "absent" /\ order[b].status # "absent"
  <2>1. q \in order[b].from
    BY <1>6, TradedBefore
  <2>2. order[b].status = "cancelled"
    BY <1>1, <1>2, <1>6, <2>1, TradeBorn
  <2> QED  BY <1>3, <2>2
<1>7. CASE order[a].status = "absent" /\ order[b].status = "absent"
  <2>1. order[a] = NoOrder /\ order[b] = NoOrder /\ NoOrder.from = {}
    BY <1>7 DEF Paid, PaidAt, PaidRow, NoOrder
  <2>2. order'[a] # order[a] /\ order'[b] # order[b]
    BY <2>1
  <2>3. Born(b)
    BY <1>7, <2>2, BornRows
  <2>4. a \in order'[b].from
    BY <2>2, <2>3 DEF Born
  <2>5. order[a].status = "completed"
    BY <1>7, <2>4, TradedBefore
  <2> QED  BY <1>7, <2>5
<1> QED  BY <1>4, <1>5, <1>6, <1>7

LEMMA TradeStep ==
  ASSUME Typed, Paid, TradeInv, [Next]_vars
  PROVE  TradeInv'
BY AgreedStep, KinStep, ClosedStep, TradedStep DEF TradeInv

\* Whatever meets what, an order is traded in by one change of plan: two that
\* trade in the same order can only both be opened if paid() wrote over one,
\* two workers held one, or one was created while its buyer had another under
\* way -- which a redemption code always may.
THEOREM TradesOnce == Spec => []TradedInOnce
<1>1. Typed /\ Paid /\ [Next]_vars => Paid'
  BY PaidStep
<1>2. Typed /\ Paid /\ TradeInv /\ [Next]_vars => TradeInv'
  BY TradeStep
<1>3. TradeInv => TradedInOnce
  <2> SUFFICES ASSUME TradeInv, NEW a \in Orders \ (ghost.raced \cup ghost.beside),
                      NEW b \in Orders \ (ghost.raced \cup ghost.beside),
                      a # b, ghost.opens[a] > 0, ghost.opens[b] > 0
               PROVE  order[a].from \cap order[b].from \subseteq ghost.raced
    BY DEF TradedInOnce
  <2>1. /\ order[a].status \in {"completed", "discounted"}
        /\ order[b].status \in {"completed", "discounted"}
    BY DEF TradeInv, Agreed
  <2> QED  BY <2>1 DEF TradeInv, Traded
<1> QED  BY <1>1, <1>2, <1>3, TypeInit, TypeStep, PaidInit, TradeInit, PTL DEF Spec

-----------------------------------------------------------------------------
(* Users over whose orders no handlers met. *)

\* The orders under way that are not gifts.
Unfinished(u) ==
  {o \in Orders : /\ order[o].user = u /\ order[o].type # 6
                  /\ order[o].status \in {"pending", "processing"}}

\* Handlers that meet over an order mark its owner for good.
LEMMA MetStays ==
  ASSUME Typed, Paid, [Next]_vars, NEW u \in Users, Met(u)
  PROVE  Met(u)'
<1>1. PICK o \in ghost.raced \cup ghost.beside : order[o].user = u
  BY DEF Met
<1>2. o \in Orders
  BY DEF Typed, TypeOK, History
<1>3. order[o].status # "absent"
  BY <1>1, <1>2, NoOrderIs DEF Paid, PaidAt, PaidRow
<1>4. order'[o].user = u
  BY <1>1, <1>2, <1>3, RowsKept DEF Kept
<1>5. o \in ghost'.raced \cup ghost'.beside
  BY MarksStay
<1> QED  BY <1>4, <1>5 DEF Met

\* What is pending, and what is being paid, is no gift; an order is rewarded
\* by one process, after it was paid; and a user has one order under way.
Fresh ==
  /\ \A o \in Orders : order[o].status = "pending" => order[o].type # 6
  /\ \A p \in Procs : proc[p].pc \in {"pay", "bound", "reward"} => order[proc[p].order].type # 6

Rewarding(o) == {p \in Procs : proc[p].pc = "reward" /\ proc[p].order = o}

Sole ==
  \A o \in Orders \ ghost.raced : \A p \in Rewarding(o) :
    order[o].status \notin {"absent", "pending"} /\ Rewarding(o) = {p}

OneAtATime(u) == \A a, b \in Unfinished(u) : a = b

Single == \A u \in Users : ~Met(u) => OneAtATime(u)

LEMMA SingleInit == Init => Fresh /\ Sole /\ Single
<1> SUFFICES ASSUME Init PROVE Fresh /\ Sole /\ Single
  OBVIOUS
<1>1. \A p \in Procs : proc[p].pc = "idle"
  BY DEF Init, Idle
<1>2. \A o \in Orders : order[o].status \in {"absent", "completed"}
  BY InitRows DEF NoOrder
<1> QED  BY <1>1, <1>2 DEF Fresh, Sole, Rewarding, Single, OneAtATime, Unfinished

LEMMA FreshStep ==
  ASSUME Typed, Fresh, [Next]_vars
  PROVE  Fresh'
<1>1. ASSUME NEW o \in Orders, order'[o].status = "pending" PROVE order'[o].type # 6
  <2>1. CASE order[o].status = "pending"
    BY <2>1, RowsKept DEF Kept, Fresh
  <2>2. CASE order[o].status # "pending"
    <3>1. order[o].status = "absent"
      BY <1>1, <2>2, RefundSteps
    <3>2. Born(o)
      BY <1>1, <3>1, BornRows
    <3> QED  BY <1>1, <3>2 DEF Born, Terms
  <2> QED  BY <2>1, <2>2
<1>2. ASSUME NEW p \in Procs, proc'[p].pc \in {"pay", "bound", "reward"}
      PROVE  order'[proc'[p].order].type # 6
  <2>1. ASSUME proc[p].pc \in {"pay", "bound", "reward"}, proc'[p].order = proc[p].order
        PROVE  order'[proc'[p].order].type # 6
    <3>1. /\ proc[p].order \in Orders /\ order[proc[p].order].status # "absent"
          /\ order[proc[p].order].type # 6
      BY <2>1 DEF Typed, Owned, Fresh
    <3> QED  BY <2>1, <3>1, RowsKept DEF Kept
  <2>2. CASE proc'[p] = proc[p]
    BY <1>2, <2>1, <2>2
  <2>3. CASE proc'[p] # proc[p]
    <3>1. ProcStep(p)
      BY <2>3, ProcSteps
    <3>2. ASSUME PaidRead(p, proc'[p].order), proc'[p].pc = "pay"
          PROVE  order'[proc'[p].order].type # 6
      <4>1. proc'[p].order \in Orders
        <5>1. Typed'
          BY TypeStep
        <5> QED  BY <3>2, <5>1 DEF Typed, Owned
      <4> QED  BY <3>2, <4>1 DEF PaidRead, Fresh
    <3>3. ASSUME NEW pushed, PaidWrite(p, pushed) PROVE proc[p].pc \in {"pay", "bound"}
      BY <3>3 DEF PaidWrite
    <3> QED  BY <1>2, <2>1, <3>1, <3>2, <3>3 DEF ProcStep
  <2> QED  BY <2>2, <2>3
<1> QED  BY <1>1, <1>2 DEF Fresh

\* A process comes to reward an order that is not raced by paying it, which
\* was pending until then.
LEMMA RewardingSteps ==
  ASSUME Typed, [Next]_vars, NEW o \in Orders \ ghost'.raced, NEW p \in Rewarding(o)'
  PROVE  /\ p \in Procs
         /\ \/ p \in Rewarding(o)
            \/ /\ order[o].status = "pending" /\ order'[o].status = "processing"
               /\ \A q \in Procs \ {p} : proc'[q] = proc[q]
<1>1. p \in Procs /\ proc'[p].pc = "reward" /\ proc'[p].order = o
  BY DEF Rewarding
<1>2. CASE proc'[p] = proc[p]
  BY <1>1, <1>2 DEF Rewarding
<1>3. CASE proc'[p] # proc[p]
  <2>1. ProcStep(p)
    BY <1>1, <1>3, ProcSteps
  <2>2. PICK pushed \in BOOLEAN : proc[p].order = o /\ PaidWrite(p, pushed)
    BY <1>1, <2>1 DEF ProcStep, PaidRead
  <2>3. /\ order' = [order EXCEPT ![o].status = "processing"]
        /\ ghost' = [ghost EXCEPT !.raced = IF order[o].status = "pending" THEN @ ELSE @ \cup {o}]
    BY <2>2 DEF PaidWrite
  <2>4. order'[o].status = "processing"
    BY <2>3 DEF Typed, TypeOK, OrderRow
  <2>5. order[o].status = "pending"
    <3>1. ASSUME order[o].status # "pending" PROVE o \in ghost'.raced
      <4>1. ghost' = [ghost EXCEPT !.raced = @ \cup {o}]
        BY <2>3, <3>1
      <4> QED  BY <4>1 DEF Typed, TypeOK, History
    <3> QED  BY <3>1
  <2>6. \A q \in Procs \ {p} : proc'[q] = proc[q]
    BY <2>2 DEF PaidWrite, Typed, TypeOK
  <2> QED  BY <1>1, <2>4, <2>5, <2>6
<1> QED  BY <1>2, <1>3

LEMMA SoleStep ==
  ASSUME Typed, Sole, [Next]_vars
  PROVE  Sole'
<1> SUFFICES ASSUME NEW o \in Orders \ ghost'.raced, NEW p \in Rewarding(o)', NEW r \in Rewarding(o)'
             PROVE  order'[o].status \notin {"absent", "pending"} /\ p = r
  BY DEF Sole
<1>1. o \notin ghost.raced
  BY MarksStay
<1>2. order'[o].status \notin {"absent", "pending"}
  <2>1. CASE p \in Rewarding(o)
    <3>1. order[o].status \notin {"absent", "pending"}
      BY <1>1, <2>1 DEF Sole
    <3> QED  BY <3>1, RefundSteps
  <2>2. CASE order'[o].status = "processing"
    BY <2>2
  <2> QED  BY <2>1, <2>2, RewardingSteps
<1>3. ASSUME p \in Rewarding(o), r \in Rewarding(o) PROVE p = r
  <2>1. Rewarding(o) = {p}
    BY <1>1, <1>3 DEF Sole
  <2> QED  BY <1>3, <2>1
<1>4. ASSUME NEW a \in Rewarding(o)', NEW b \in Rewarding(o)', order[o].status = "pending",
             \A q \in Procs \ {a} : proc'[q] = proc[q]
      PROVE  a = b
  <2>1. b \in Procs
    BY RewardingSteps
  <2>2. a # b => b \in Rewarding(o)
    BY <1>4, <2>1 DEF Rewarding
  <2> QED  BY <1>1, <1>4, <2>2 DEF Sole
<1>5. p = r
  BY <1>3, <1>4, RewardingSteps
<1> QED  BY <1>2, <1>5

LEMMA SingleStep ==
  ASSUME Typed, Paid, Agreed, Single, [Next]_vars
  PROVE  Single'
<1> SUFFICES ASSUME NEW u \in Users, ~Met(u)', NEW a \in Unfinished(u)', NEW b \in Unfinished(u)'
             PROVE  a = b
  BY DEF Single, OneAtATime
<1>1. ~Met(u)
  BY MetStays
<1>2. ASSUME NEW o \in Unfinished(u)'
      PROVE  /\ o \in Orders /\ o \notin ghost'.raced /\ o \notin ghost'.beside
             /\ \/ o \in Unfinished(u)
                \/ order[o].status = "absent" /\ Born(o) /\ Incomplete(u) = {}
  <2>1. /\ o \in Orders /\ order'[o].user = u /\ order'[o].type # 6
        /\ order'[o].status \in {"pending", "processing"}
    BY <1>2 DEF Unfinished
  <2>2. o \notin ghost'.raced /\ o \notin ghost'.beside
    BY <2>1 DEF Met
  <2>3. OrderStep(o)
    BY <2>1, <2>2, OrderSteps
  <2>4. CASE order[o].status = "absent"
    <3>1. order'[o] # order[o]
      BY <2>1, <2>4
    <3>2. Born(o)
      BY <2>1, <2>4, <3>1, BornRows
    <3>3. Incomplete(u) = {}
      BY <2>1, <2>2, <3>2 DEF Born
    <3> QED  BY <2>1, <2>2, <2>4, <3>2, <3>3
  <2>5. CASE order[o].status # "absent"
    <3>1. order[o].status \in {"pending", "processing"}
      BY <2>1, <2>3, <2>5 DEF OrderStep
    <3>2. order[o].user = u /\ order[o].type # 6
      BY <2>1, <2>5, RowsKept DEF Kept
    <3> QED  BY <2>1, <2>2, <3>1, <3>2 DEF Unfinished
  <2> QED  BY <2>4, <2>5
<1>3. Unfinished(u) \subseteq Incomplete(u)
  BY DEF Unfinished, Incomplete
<1>4. CASE a \in Unfinished(u) /\ b \in Unfinished(u)
  BY <1>1, <1>4 DEF Single, OneAtATime
<1>5. CASE order[a].status = "absent" /\ order[b].status = "absent"
  <2>1. Born(a)
    BY <1>2, <1>5 DEF Unfinished
  <2>2. order'[b].status # "absent" /\ order'[a].status # "completed"
    BY DEF Unfinished
  <2> QED  BY <1>2, <1>5, <2>1, <2>2 DEF Born
<1> QED  BY <1>2, <1>3, <1>4, <1>5

-----------------------------------------------------------------------------
(* The reward for an invitee is earned once. *)

\* A reward was earned by an order that is completed, or still on its way
\* with its process past the reward.
Settled(q, u) == order[q].user = u /\ order[q].status = "completed"

Underway(q, u) == q \in Unfinished(u) /\ order[q].status = "processing" /\ Rewarding(q) = {}

RewardFor(u) ==
  \/ ghost.rewards[u] = 0
  \/ ghost.rewards[u] = 1 /\ \E q \in Orders : Settled(q, u) \/ Underway(q, u)

Rewarded == \A u \in Users : ~Met(u) /\ u \notin ghost.late => RewardFor(u)

RewardInv == TradeInv /\ Fresh /\ Sole /\ Single /\ Rewarded

LEMMA RewardInit == Init => RewardInv
<1> SUFFICES ASSUME Init, NEW u \in Users PROVE RewardFor(u)
  BY TradeInit, SingleInit DEF RewardInv, Rewarded
<1>1. ghost.rewards[u] = IF \E o \in Orders : order[o].user = u THEN 1 ELSE 0
  BY DEF Init
<1>2. ASSUME NEW o \in Orders, order[o].user = u PROVE order[o].status = "completed"
  BY <1>2, InitRows, NoOrderIs
<1> QED  BY <1>1, <1>2 DEF RewardFor, Settled

LEMMA RewardSteps ==
  ASSUME Typed, [Next]_vars
  PROVE  ghost'.rewards = ghost.rewards \/ \E p \in Procs, r \in Orders : Give(p, r)
<1>1. ghost \in History
  BY DEF Typed, TypeOK
<1>2. ASSUME NEW p, NEW q, NEW row, NEW debit, Insert(p, q, row, debit)
      PROVE  ghost'.rewards = ghost.rewards
  BY <1>1, <1>2 DEF Insert, History
<1>3. ASSUME NEW q, CancelRow(q) PROVE ghost'.rewards = ghost.rewards
  BY <1>1, <1>3 DEF CancelRow, History
<1>4. ASSUME NEW p, NEW pushed, PaidWrite(p, pushed) PROVE ghost'.rewards = ghost.rewards
  BY <1>1, <1>4 DEF PaidWrite, History
<1>5. ASSUME NEW w, OpenWrite(w) PROVE ghost'.rewards = ghost.rewards
  BY <1>1, <1>5 DEF OpenWrite, History
<1>6. ASSUME NEW p, NEW q, PaidRead(p, q) \/ Checkout(p, q) PROVE ghost'.rewards = ghost.rewards
  BY <1>1, <1>6 DEF PaidRead, Checkout, History
<1>7. ASSUME NEW q, Capture(q) PROVE ghost'.rewards = ghost.rewards
  BY <1>1, <1>7 DEF Capture, History
<1>8. ASSUME NEW p, NEW q, NEW row, Coded(p, q, row) \/ Granted(q, row)
      PROVE  ghost'.rewards = ghost.rewards
  BY <1>1, <1>8 DEF Coded, Granted, History
<1>9. CASE Still
  BY <1>9, StillHistory
<1> QED  BY <1>2, <1>3, <1>4, <1>5, <1>6, <1>7, <1>8, <1>9, StepKinds DEF StepKind

\* An order is closed by the opening of another one that traded it in.
LEMMA ClosedBy ==
  ASSUME Typed, [Next]_vars, NEW q \in Orders, order[q].status # "discounted",
         order'[q].status = "discounted"
  PROVE  \E x \in Orders : q \in order'[x].from /\ order'[x].status = "completed"
<1>1. order \in [Orders -> OrderRow]
  BY DEF Typed, TypeOK
<1>2. ASSUME NEW x \in Orders, NEW r \in OrderRow, order' = Fulfilled(x, r)
      PROVE  q \in order'[x].from /\ order'[x].status = "completed"
  <2>1. order'[x].status = "completed" /\ order'[x].from = r.from
    BY <1>2 DEF Fulfilled, OrderRow
  <2> QED  BY <1>1, <1>2, <2>1 DEF Fulfilled
<1>3. ASSUME NEW w \in Procs, OpenWrite(w)
      PROVE  \E x \in Orders : q \in order'[x].from /\ order'[x].status = "completed"
  <2> DEFINE x == proc[w].order
  <2>1. x \in Orders /\ order[x] \in OrderRow /\ order' = Fulfilled(x, order[x])
    BY <1>1, <1>3 DEF OpenWrite, Typed, Owned
  <2> HIDE DEF x
  <2> QED  BY <1>2, <2>1
<1>4. ASSUME NEW x \in Orders, NEW row \in OrderRow, Granted(x, row)
      PROVE  q \in order'[x].from /\ order'[x].status = "completed"
  BY <1>2, <1>4 DEF Granted
<1>5. ASSUME NEW x \in Orders, NEW row, order' = [order EXCEPT ![x] = row], row.status # "discounted"
      PROVE  FALSE
  BY <1>1, <1>5
<1>6. ASSUME NEW x \in Orders, NEW s, order' = [order EXCEPT ![x].status = s], s # "discounted"
      PROVE  FALSE
  BY <1>1, <1>6 DEF OrderRow
<1>7. ASSUME NEW p \in Procs, NEW x \in Orders, NEW row, NEW debit,
             Insert(p, x, row, debit), Bought(p, row, debit)
      PROVE  FALSE
  BY <1>5, <1>7 DEF Insert, Bought
<1>8. ASSUME NEW x \in Orders, CancelRow(x) PROVE FALSE
  BY <1>6, <1>8 DEF CancelRow
<1>9. ASSUME NEW p \in Procs, NEW pushed, PaidWrite(p, pushed) PROVE FALSE
  BY <1>6, <1>9 DEF PaidWrite, Typed, Owned
<1>10. ASSUME NEW p \in Procs, NEW r \in Orders, Give(p, r) PROVE FALSE
  <2>1. PICK gift : order' = [order EXCEPT ![r] = GiftFor(user[proc[p].user].inviter, gift)]
    BY <1>10 DEF Give
  <2>2. GiftFor(user[proc[p].user].inviter, gift).status = "processing"
    BY DEF GiftFor, NoOrder
  <2> QED  BY <1>5, <2>1, <2>2
<1>11. ASSUME NEW p \in Procs, NEW x \in Orders, NEW row, Coded(p, x, row) PROVE FALSE
  BY <1>5, <1>11 DEF Coded
<1>12. ~UNCHANGED order
  OBVIOUS
<1> QED
  BY <1>3, <1>4, <1>7, <1>8, <1>9, <1>10, <1>11, <1>12, StepKinds
  DEF StepKind, PaidRead, Checkout, Capture, Still

\* As long as nothing meets over the orders of u, what earned the reward stays
\* settled or under way.
LEMMA EarnedStays ==
  ASSUME Typed, Paid, RewardInv, [Next]_vars, NEW u \in Users, ~Met(u)',
         NEW q \in Orders, Settled(q, u) \/ Underway(q, u)
  PROVE  \E x \in Orders : Settled(x, u)' \/ Underway(x, u)'
<1>1. order[q].user = u /\ order[q].status \in {"completed", "processing"}
  BY DEF Settled, Underway, Unfinished
<1>2. Kept(order[q], order'[q])
  BY <1>1, RowsKept
<1>3. q \notin ghost'.raced /\ order'[q].user = u
  BY <1>1, <1>2 DEF Kept, Met
<1>4. OrderStep(q)
  BY <1>3, OrderSteps DEF RewardInv, TradeInv
<1>5. CASE order'[q].status = "completed"
  BY <1>3, <1>5 DEF Settled
<1>6. CASE Settled(q, u) /\ order'[q].status # "completed"
  <2>1. order[q].status = "completed" /\ order'[q].status = "discounted"
    BY <1>4, <1>6 DEF Settled, OrderStep
  <2>2. PICK x \in Orders : q \in order'[x].from /\ order'[x].status = "completed"
    BY <2>1, ClosedBy
  <2>3. Kin'
    BY KinStep DEF RewardInv, TradeInv
  <2>4. order'[x].user = u
    BY <1>3, <2>2, <2>3 DEF Kin
  <2> QED  BY <2>2, <2>4 DEF Settled
<1>7. CASE Underway(q, u) /\ order'[q].status # "completed"
  <2>1. order[q].status = "processing" /\ order'[q].status = "processing" /\ order[q].type # 6
    BY <1>4, <1>7 DEF Underway, Unfinished, OrderStep
  <2>2. ASSUME NEW p \in Rewarding(q)' PROVE FALSE
    BY <1>3, <1>7, <2>1, RewardingSteps DEF Underway
  <2>3. q \in Unfinished(u)'
    BY <1>2, <1>3, <2>1 DEF Unfinished, Kept
  <2> QED  BY <2>1, <2>2, <2>3 DEF Underway
<1> QED  BY <1>5, <1>6, <1>7

LEMMA RewardedStep ==
  ASSUME Typed, Typed', Paid, RewardInv, [Next]_vars
  PROVE  Rewarded'
<1> SUFFICES ASSUME NEW u \in Users, ~Met(u)', u \notin ghost'.late
             PROVE  RewardFor(u)'
  BY DEF Rewarded
<1>1. RewardFor(u) /\ ~Met(u)
  <2>1. ~Met(u) /\ u \notin ghost.late
    BY MetStays, MarksStay
  <2> QED  BY <2>1 DEF RewardInv, Rewarded
<1>2. CASE ghost'.rewards[u] = ghost.rewards[u]
  <2>1. CASE ghost.rewards[u] = 0
    BY <1>2, <2>1 DEF RewardFor
  <2>2. ASSUME ghost.rewards[u] = 1, NEW q \in Orders, Settled(q, u) \/ Underway(q, u)
        PROVE  RewardFor(u)'
    <3>1. PICK x \in Orders : Settled(x, u)' \/ Underway(x, u)'
      BY <2>2, EarnedStays
    <3> QED  BY <1>2, <2>2, <3>1 DEF RewardFor
  <2> QED  BY <1>1, <2>1, <2>2 DEF RewardFor
<1>3. ASSUME NEW p \in Procs, NEW r \in Orders, Give(p, r), u = proc[p].user PROVE RewardFor(u)'
  <2>0. PICK x \in Orders : x = proc[p].order
    BY <1>3 DEF Give, Typed, Owned
  <2>1. /\ proc[p].pc = "reward" /\ EarnsReward(x, u) /\ order[r].status = "absent"
        /\ ghost' = [ghost EXCEPT !.rewards[u] = @ + 1,
                       !.late = IF order[x].status = "processing" THEN @ ELSE @ \cup {u}]
        /\ proc' = [proc EXCEPT ![p] = Idle]
    BY <1>3, <2>0 DEF Give, IsNextId
  <2>2. PICK gift : order' = [order EXCEPT ![r] = GiftFor(user[u].inviter, gift)]
    BY <1>3 DEF Give
  <2>3. x \in Orders /\ order[x].user = u /\ order[x].status # "absent" /\ order[x].type # 6
    BY <1>3, <2>1, <2>0 DEF Typed, Owned, RewardInv, Fresh
  <2>4. order[x].status = "processing"
    <3>1. ASSUME order[x].status # "processing" PROVE u \in ghost'.late
      <4>1. ghost' = [ghost EXCEPT !.rewards[u] = @ + 1, !.late = @ \cup {u}]
        BY <2>1, <3>1
      <4> QED  BY <4>1 DEF Typed, TypeOK, History
    <3> QED  BY <3>1
  <2>5. x \in Unfinished(u) /\ p \in Rewarding(x)
    BY <2>1, <2>3, <2>4, <2>0 DEF Unfinished, Rewarding
  <2>6. ASSUME NEW q \in Orders, Settled(q, u) PROVE FALSE
    <3>1. q # x /\ order[q].user = u /\ order[q].status = "completed"
      BY <2>4, <2>6 DEF Settled
    <3> QED  BY <2>1, <3>1 DEF EarnsReward
  <2>7. ASSUME NEW q \in Orders, Underway(q, u) PROVE FALSE
    <3>1. q # x /\ q \in Unfinished(u)
      BY <2>5, <2>7 DEF Underway
    <3> QED  BY <1>1, <2>5, <3>1 DEF RewardInv, Single, OneAtATime
  <2>8. ghost.rewards[u] = 0
    BY <1>1, <2>6, <2>7 DEF RewardFor
  <2>9. ghost'.rewards[u] = 1
    BY <2>1, <2>8 DEF Typed, TypeOK, History
  <2>10. order'[x] = order[x]
    BY <2>1, <2>2, <2>3 DEF Typed, TypeOK
  <2>11. Rewarding(x)' = {}
    <3>1. x \notin ghost.raced
      BY <1>1, <2>3 DEF Met
    <3>2. Rewarding(x) = {p}
      BY <2>3, <2>5, <3>1 DEF RewardInv, Sole
    <3>3. \A s \in Procs : s # p => proc'[s] = proc[s]
      BY <2>1 DEF Typed, TypeOK
    <3>4. proc'[p].pc = "idle"
      BY <2>1 DEF Typed, TypeOK, Idle
    <3> QED  BY <3>2, <3>3, <3>4 DEF Rewarding
  <2>12. Underway(x, u)'
    BY <2>3, <2>4, <2>10, <2>11 DEF Underway, Unfinished
  <2> QED  BY <2>3, <2>9, <2>12 DEF RewardFor
<1>4. ASSUME NEW p \in Procs, NEW r \in Orders, Give(p, r), u # proc[p].user PROVE RewardFor(u)'
  <2>1. ghost'.rewards[u] = ghost.rewards[u]
    BY <1>4 DEF Give, Typed, TypeOK, History
  <2> QED  BY <1>2, <2>1
<1> QED  BY <1>2, <1>3, <1>4, RewardSteps

LEMMA RewardStep ==
  ASSUME Typed, Typed', Paid, RewardInv, [Next]_vars
  PROVE  RewardInv'
BY TradeStep, FreshStep, SoleStep, SingleStep, RewardedStep DEF RewardInv, TradeInv

\* An inviter earns at most one reward for an invitee, however callbacks,
\* workers, codes and crashes around his first order interleave: only paid()
\* writing over one of his orders, two workers on one, two orders under way
\* or an order that is open before its reward is asked for can add another.
THEOREM RewardsOnce == Spec => []RewardedOnce
<1>1. Typed /\ RewardInv => RewardedOnce
  BY DEF RewardInv, Rewarded, RewardFor, RewardedOnce
<1>2. Typed /\ Paid /\ [Next]_vars => Paid'
  BY PaidStep
<1>3. Typed /\ Typed' /\ Paid /\ RewardInv /\ [Next]_vars => RewardInv'
  BY RewardStep
<1> QED  BY <1>1, <1>2, <1>3, TypeInit, TypeStep, PaidInit, RewardInit, PTL DEF Spec

-----------------------------------------------------------------------------
(* An order under way stands on the terms it was placed on, as long as      *)
(* nothing meets over its buyer's orders.                                   *)

Gift(r) ==
  r.type = 6 /\ r.from = {} /\ r.total = 0 /\ r.bal = 0 /\ r.surplus = 0 /\ r.refund = 0

Ongoing(r) == r.status \in {"pending", "processing"}

Placed ==
  \A u \in Users, o \in Orders : ~Met(u) /\ order[o].user = u /\ Ongoing(order[o]) =>
    Terms(order[o], order) \/ Gift(order[o])

\* The terms of a row survive a step that keeps it and what it trades in.
LEMMA TermsAgain ==
  ASSUME NEW r, NEW s, NEW t, NEW v, Terms(r, t), Kept(r, s), \A q \in r.from : v[q] = t[q]
  PROVE  Terms(s, v)
<1>1. \A q \in r.from : OrderValue(v[q]) = OrderValue(t[q])
  OBVIOUS
<1>2. \A q \in s.from : /\ v[q].status = "completed" /\ v[q].user = s.user
                        /\ v[q].period \notin {"deposit", "reset"}
  BY DEF Terms, Kept
<1>3. s.surplus = 0 \/ \E q \in s.from : s.surplus <= OrderValue(v[q])
  <2>1. CASE r.surplus = 0
    BY <2>1 DEF Kept
  <2>2. ASSUME NEW q \in r.from, r.surplus <= OrderValue(t[q])
        PROVE  \E x \in s.from : s.surplus <= OrderValue(v[x])
    BY <1>1, <2>2 DEF Kept
  <2> QED  BY <2>1, <2>2 DEF Terms
<1> QED  BY <1>2, <1>3 DEF Terms, Kept

\* An order under way finds what it trades in as it was when it was placed.
LEMMA TradeStays ==
  ASSUME Typed, Paid, TradeInv, Single, Placed, [Next]_vars, NEW o \in Orders,
         NEW v \in Users, order[o].user = v, ~Met(v)',
         Terms(order[o], order), Ongoing(order[o]), Ongoing(order'[o]), NEW q \in order[o].from
  PROVE  order'[q] = order[q]
<1>1. /\ q \in Orders /\ order[q].status = "completed" /\ order[q].user = v
      /\ order[o].type # 6
  BY DEF Terms, Typed, TypeOK, OrderRow
<1>2. ~Met(v)
  BY MetStays
<1>3. \A x \in Orders : order'[x].user = v => x \notin ghost'.raced /\ x \notin ghost'.beside
  BY DEF Met
<1>4. order'[q].user = v
  BY <1>1, RowsKept DEF Kept
<1>5. OrderStep(q)
  BY <1>1, <1>3, <1>4, OrderSteps DEF TradeInv
<1>6. ASSUME order'[q].status = "discounted" PROVE FALSE
  <2>1. PICK x \in Orders : q \in order'[x].from /\ order'[x].status = "completed"
    BY <1>1, <1>6, ClosedBy
  <2>2. order'[x].user = v
    <3>1. Kin'
      BY KinStep DEF TradeInv
    <3> QED  BY <1>4, <2>1, <3>1 DEF Kin
  <2>3. OrderStep(x) /\ x \notin ghost'.raced /\ x \notin ghost'.beside /\ x # o
    <3>1. x \notin ghost'.raced /\ x \notin ghost'.beside
      BY <1>3, <2>2
    <3>2. x # o
      BY <2>1 DEF Ongoing
    <3>3. OrderStep(x)
      BY <3>1, OrderSteps DEF TradeInv
    <3> QED  BY <3>1, <3>2, <3>3
  <2>4. o \in Unfinished(v) /\ o \in Incomplete(v)
    BY <1>1 DEF Ongoing, Unfinished, Incomplete
  <2>5. CASE order[x].status = "absent"
    <3>1. order'[x] # order[x]
      BY <2>1, <2>5
    <3>2. Born(x)
      BY <2>5, <3>1, BornRows
    <3> QED  BY <2>1, <2>2, <2>3, <2>4, <3>2 DEF Born
  <2>6. CASE order[x].status = "processing"
    <3>1. order[x].user = v /\ q \in order[x].from
      BY <2>1, <2>2, <2>6, RowsKept DEF Kept
    <3>2. Terms(order[x], order)
      BY <1>2, <2>6, <3>1 DEF Placed, Ongoing, Gift
    <3>3. x \in Unfinished(v)
      BY <2>6, <3>1, <3>2 DEF Unfinished, Terms
    <3> QED  BY <1>2, <2>3, <2>4, <3>3 DEF Single, OneAtATime
  <2>7. CASE order[x].status = "completed"
    <3>1. q \in order[x].from
      BY <2>1, <2>7, RowsKept DEF Kept
    <3>2. x \notin ghost.raced /\ q \notin ghost.raced
      BY <1>1, <1>3, <1>4, <2>3, MarksStay
    <3> QED  BY <1>1, <2>7, <3>1, <3>2 DEF TradeInv, Closed
  <2> QED  BY <2>1, <2>3, <2>5, <2>6, <2>7 DEF OrderStep
<1> QED  BY <1>1, <1>5, <1>6 DEF OrderStep

LEMMA PlacedInit == Init => Placed
<1> SUFFICES ASSUME Init PROVE Placed
  OBVIOUS
<1>1. \A o \in Orders : ~Ongoing(order[o])
  BY InitRows, NoOrderIs DEF Ongoing
<1> QED  BY <1>1 DEF Placed

LEMMA PlacedStep ==
  ASSUME Typed, Typed', Paid, TradeInv, Single, Placed, [Next]_vars
  PROVE  Placed'
<1> SUFFICES ASSUME NEW u \in Users, ~Met(u)', NEW o \in Orders, order'[o].user = u, Ongoing(order'[o])
             PROVE  Terms(order'[o], order') \/ Gift(order'[o])
  BY DEF Placed, Ongoing
<1>1. order'[o].from \subseteq Orders
  BY DEF Typed, TypeOK, OrderRow
<1>2. CASE order[o].status = "absent"
  <2>1. order'[o] # order[o]
    BY <1>2 DEF Ongoing
  <2>2. Born(o)
    BY <1>2, <2>1, BornRows
  <2>3. CASE Terms(order'[o], order)
    <3>1. \A q \in order'[o].from : q # o /\ order'[q] = order[q]
      BY <1>1, <1>2, <2>2, <2>3 DEF Born, Terms, Ongoing
    <3> DEFINE row == order'[o]
    <3>2. row.status # "absent"
      BY DEF Ongoing
    <3>3. Terms(row, order) /\ \A q \in row.from : order'[q] = order[q]
      BY <2>3, <3>1
    <3>4. Kept(row, row)
      BY <3>2 DEF Kept
    <3> HIDE DEF row
    <3>5. Terms(row, order')
      BY <3>3, <3>4, TermsAgain
    <3> QED  BY <3>5 DEF row
  <2> QED  BY <2>2, <2>3 DEF Born, Gift
<1>3. CASE order[o].status # "absent"
  <2>1. Kept(order[o], order'[o])
    BY <1>3, RowsKept
  <2>2. order[o].user = u
    BY <2>1 DEF Kept
  <2>3. ~Met(u) /\ o \notin ghost'.raced
    BY MetStays DEF Met
  <2>4. Ongoing(order[o])
    <3>1. OrderStep(o)
      BY <2>3, OrderSteps DEF TradeInv
    <3> QED  BY <1>3, <3>1 DEF OrderStep, Ongoing
  <2>5. CASE Terms(order[o], order)
    <3>1. \A q \in order[o].from : order'[q] = order[q]
      BY <2>2, <2>4, <2>5, TradeStays
    <3> DEFINE r == order[o]
               s == order'[o]
    <3>2. Terms(r, order) /\ Kept(r, s) /\ \A q \in r.from : order'[q] = order[q]
      BY <2>1, <2>5, <3>1
    <3> HIDE DEF r, s
    <3>3. Terms(s, order')
      BY <3>2, TermsAgain
    <3> QED  BY <3>3 DEF s
  <2>6. CASE Gift(order[o])
    BY <2>1, <2>6 DEF Gift, Kept
  <2> QED  BY <2>2, <2>3, <2>4, <2>5, <2>6 DEF Placed
<1> QED  BY <1>2, <1>3

-----------------------------------------------------------------------------
(* No money is created: what a user owns is covered by what he brought. *)

\* Holding, and the part of Received that is behind it, by the row alone.
Worth(r) ==
  CASE r.status = "pending" -> r.bal
    [] r.status = "processing" -> r.bal + r.total
    [] r.status = "completed" /\ r.period \notin {"deposit", "reset"} -> OrderValue(r)
    [] OTHER -> 0

Bank(r, cash, opens) ==
  IF r.status \in {"processing", "completed", "discounted"}
  THEN cash + (IF r.type = 9 /\ opens > 0 THEN Credit(r) - r.total ELSE 0) ELSE 0

WorthOf(u)  == [o \in Orders |-> IF order[o].user = u THEN Worth(order[o]) ELSE 0]
BankedOf(u) == [o \in Orders |-> IF order[o].user = u
                  THEN Bank(order[o], ghost.cash[o], ghost.opens[o]) ELSE 0]

Covered(u) ==
  user[u].balance + SumFunctionOnSet(WorthOf(u), Orders)
    <= ghost.initial[u] + SumFunctionOnSet(BankedOf(u), Orders)

Money == \A u \in Users : ~Met(u) /\ u \notin ghost.lost => Covered(u)

LEMMA AmountTypes ==
  ASSUME NEW r \in OrderRow, NEW cash \in Nat, NEW opens \in Nat
  PROVE  /\ Worth(r) \in Nat /\ OrderValue(r) \in Nat /\ Credit(r) \in Nat
         /\ Bank(r, cash, opens) \in Nat
         /\ Bank(r, cash, opens)
              <= cash + (IF r.type = 9 /\ opens > 0 THEN Credit(r) - r.total ELSE 0)
<1>1. r.total \in Nat /\ r.bal \in Nat /\ r.surplus \in Nat /\ r.refund \in Nat
  BY DEF OrderRow
<1>2. OrderValue(r) \in Nat
  BY <1>1 DEF OrderValue
<1>3. Credit(r) \in Nat /\ (r.type = 9 => Credit(r) - r.total \in Nat)
  BY <1>1, OrdersAssumption DEF Credit
<1>4. Worth(r) \in Nat
  BY <1>1, <1>2 DEF Worth
<1>5. (IF r.type = 9 /\ opens > 0 THEN Credit(r) - r.total ELSE 0) \in Nat
  BY <1>3
<1> QED  BY <1>2, <1>3, <1>4, <1>5 DEF Bank
LEMMA MoneyInit == Init => Money
<1> SUFFICES ASSUME Init, NEW u \in Users PROVE Covered(u)
  BY DEF Money
<1> DEFINE h == WorthOf(u)
           g == BankedOf(u)
<1>1. ASSUME NEW o \in Orders PROVE h[o] \in Int /\ g[o] \in Int /\ h[o] <= g[o]
  <2>1. order[o] \in OrderRow /\ ghost.cash[o] \in Nat /\ ghost.opens[o] \in Nat
    BY TypeInit DEF Typed, TypeOK, History
  <2>2. Worth(order[o]) \in Nat /\ Bank(order[o], ghost.cash[o], ghost.opens[o]) \in Nat
    BY <2>1, AmountTypes
  <2>3. CASE order[o] = NoOrder
    BY <2>2, <2>3, NoOrderIs DEF WorthOf, BankedOf
  <2>4. CASE order[o].status = "completed"
    <3>1. /\ order[o].total \in Nat /\ order[o].bal \in Nat
          /\ order[o].surplus \in Nat /\ order[o].refund \in Nat
      BY <2>1 DEF OrderRow
    <3>2. ghost.cash[o] = order[o].total + order[o].bal + order[o].surplus
      BY DEF Init
    <3>3. Worth(order[o]) <= ghost.cash[o]
      BY <2>4, <3>1, <3>2 DEF Worth, OrderValue
    <3>4. ghost.cash[o] <= Bank(order[o], ghost.cash[o], ghost.opens[o])
      BY <2>1, <2>4, <3>1, OrdersAssumption DEF Bank, Credit
    <3> QED  BY <2>1, <2>2, <3>3, <3>4 DEF WorthOf, BankedOf
  <2> QED  BY <2>3, <2>4, InitRows
<1> HIDE DEF h, g
<1>2. SumFunctionOnSet(h, Orders) <= SumFunctionOnSet(g, Orders)
  BY <1>1, SumBelow, OrdersFinite
<1>3. SumFunctionOnSet(h, Orders) \in Int /\ SumFunctionOnSet(g, Orders) \in Int
  BY <1>1, SumType, OrdersFinite
<1>4. user[u].balance \in Nat /\ ghost.initial[u] = user[u].balance
  BY TypeInit DEF Init, Typed, TypeOK, UserRow
<1> QED  BY <1>2, <1>3, <1>4 DEF Covered, h, g
\* Opening an order adds its credit to the balance of its buyer, unless the
\* balance was written by somebody else since the worker read it.
LEMMA OpenBalance ==
  ASSUME Typed, NEW w \in Procs, OpenWrite(w), NEW x \in Orders, x = proc[w].order,
         NEW u \in Users \ ghost'.lost
  PROVE  user'[u].balance = IF u = order[x].user
           THEN user[u].balance + Credit(order[x]) ELSE user[u].balance
<1> DEFINE v    == proc[w].user
           copy == proc[w].copy
           new  == Opened(copy, order[x])
<1>1. /\ v = order[x].user /\ v \in Users /\ order[x] \in OrderRow
      /\ copy \in UserRow /\ user[v] \in UserRow /\ user \in [Users -> UserRow]
  BY DEF OpenWrite, Typed, TypeOK, Owned, ProcState
<1>2. user' = [user EXCEPT ![v] = StoredUser(user[v], copy, new)]
  BY DEF OpenWrite
<1>3. new.balance = copy.balance + Credit(order[x])
  BY <1>1 DEF Opened, UserRow
<1>4. v \notin ghost'.lost => new.balance = copy.balance \/ copy.balance = user[v].balance
  <2>1. ASSUME new.balance # copy.balance, copy.balance # user[v].balance
        PROVE  v \in ghost'.lost
    <3>1. ghost' = [ghost EXCEPT !.opens[x] = @ + 1, !.lost = @ \cup {v}]
      BY <2>1 DEF OpenWrite
    <3> QED  BY <3>1 DEF Typed, TypeOK, History
  <2> QED  BY <2>1
<1>5. copy.balance \in Nat /\ user[v].balance \in Nat /\ Credit(order[x]) \in Nat
  <2>1. 0 \in Nat
    OBVIOUS
  <2> QED  BY <1>1, <2>1, AmountTypes DEF UserRow
<1>6. StoredUser(user[v], copy, new).balance = Dirty(user[v].balance, copy.balance, new.balance)
  BY <1>1 DEF StoredUser, UserRow
<1> HIDE DEF new
<1>7. v \notin ghost'.lost =>
        StoredUser(user[v], copy, new).balance = user[v].balance + Credit(order[x])
  BY <1>3, <1>4, <1>5, <1>6 DEF Dirty
<1>8. user'[v] = StoredUser(user[v], copy, new) /\ \A a \in Users : a # v => user'[a] = user[a]
  BY <1>1, <1>2
<1> QED  BY <1>1, <1>7, <1>8

\* An order is worth no more, once it is opened, than it held and traded in.
LEMMA TradeValue ==
  ASSUME NEW r \in OrderRow, NEW t, Terms(r, t) \/ Gift(r)
  PROVE  Credit(r) + (IF r.period \notin {"deposit", "reset"} THEN OrderValue(r) ELSE 0)
           <= r.bal + r.total + r.surplus + (IF r.type = 9 THEN Credit(r) - r.total ELSE 0)
<1>1. r.total \in Nat /\ r.bal \in Nat /\ r.surplus \in Nat /\ r.refund \in Nat
  BY DEF OrderRow
<1>2. Credit(r) \in Nat
  BY <1>1, OrdersAssumption DEF Credit
<1>3. CASE Gift(r)
  BY <1>1, <1>3 DEF Gift, Credit, OrderValue
<1>4. CASE Terms(r, t) /\ r.type = 9
  BY <1>1, <1>2, <1>4 DEF Terms
<1>5. CASE Terms(r, t) /\ r.type # 9
  <2>1. Credit(r) = r.refund /\ r.refund <= r.surplus
    BY <1>5 DEF Terms, Credit
  <2>2. OrderValue(r) = r.total + r.bal + r.surplus - r.refund
    BY <1>1, <2>1 DEF OrderValue
  <2> QED  BY <1>1, <1>5, <2>1, <2>2
<1> QED  BY <1>3, <1>4, <1>5

\* What a user owns stays covered when one order changes by no more than his
\* balance, and when no order is worth more and none has less behind it.
LEMMA CoverMoves ==
  ASSUME Typed, Typed', NEW u \in Users, Covered(u), ghost'.initial = ghost.initial
  PROVE  /\ \A o \in Orders : /\ WorthOf(u)[o] \in Nat /\ BankedOf(u)[o] \in Nat
                              /\ WorthOf(u)'[o] \in Nat /\ BankedOf(u)'[o] \in Nat
         /\ (/\ user'[u].balance = user[u].balance
             /\ \A o \in Orders : WorthOf(u)'[o] <= WorthOf(u)[o] /\ BankedOf(u)'[o] >= BankedOf(u)[o])
              => Covered(u)'
         /\ \A e \in Orders :
              (/\ \A o \in Orders \ {e} :
                    WorthOf(u)'[o] = WorthOf(u)[o] /\ BankedOf(u)'[o] = BankedOf(u)[o]
               /\ user'[u].balance + WorthOf(u)'[e] + BankedOf(u)[e]
                    <= user[u].balance + WorthOf(u)[e] + BankedOf(u)'[e])
              => Covered(u)'
<1> DEFINE h == WorthOf(u)
           k == [o \in Orders |-> IF order'[o].user = u THEN Worth(order'[o]) ELSE 0]
           g == BankedOf(u)
           m == [o \in Orders |-> IF order'[o].user = u
                   THEN Bank(order'[o], ghost'.cash[o], ghost'.opens[o]) ELSE 0]
           b == user[u].balance
           c == user'[u].balance
           i == ghost.initial[u]
<1>1. WorthOf(u)' = k /\ BankedOf(u)' = m
  BY DEF WorthOf, BankedOf
<1>2. \A o \in Orders : h[o] \in Nat /\ g[o] \in Nat /\ k[o] \in Nat /\ m[o] \in Nat
  <2> SUFFICES ASSUME NEW o \in Orders
               PROVE  h[o] \in Nat /\ g[o] \in Nat /\ k[o] \in Nat /\ m[o] \in Nat
    OBVIOUS
  <2>1. /\ order[o] \in OrderRow /\ ghost.cash[o] \in Nat /\ ghost.opens[o] \in Nat
        /\ order'[o] \in OrderRow /\ ghost'.cash[o] \in Nat /\ ghost'.opens[o] \in Nat
    BY DEF Typed, TypeOK, History
  <2>2. Worth(order[o]) \in Nat /\ Bank(order[o], ghost.cash[o], ghost.opens[o]) \in Nat
    BY <2>1, AmountTypes
  <2>3. Worth(order'[o]) \in Nat /\ Bank(order'[o], ghost'.cash[o], ghost'.opens[o]) \in Nat
    BY <2>1, AmountTypes
  <2> QED  BY <2>2, <2>3 DEF WorthOf, BankedOf
<1>3. b \in Nat /\ c \in Nat /\ i \in Nat
  BY DEF Typed, TypeOK, UserRow, History
<1>4. b + SumFunctionOnSet(h, Orders) <= i + SumFunctionOnSet(g, Orders)
  BY DEF Covered
<1>5. (c + SumFunctionOnSet(k, Orders) <= i + SumFunctionOnSet(m, Orders)) => Covered(u)'
  BY <1>1 DEF Covered
<1> HIDE DEF h, k, g, m, b, c, i
<1>6. \A o \in Orders : h[o] \in Int /\ g[o] \in Int /\ k[o] \in Int /\ m[o] \in Int
  BY <1>2
<1>7. /\ SumFunctionOnSet(h, Orders) \in Int /\ SumFunctionOnSet(k, Orders) \in Int
      /\ SumFunctionOnSet(g, Orders) \in Int /\ SumFunctionOnSet(m, Orders) \in Int
  BY <1>6, SumType, OrdersFinite
<1>8. ASSUME c = b, \A o \in Orders : k[o] <= h[o] /\ m[o] >= g[o]
      PROVE  Covered(u)'
  <2>1. \A o \in Orders : k[o] \in Int /\ h[o] \in Int /\ k[o] <= h[o]
    BY <1>6, <1>8
  <2>2. \A o \in Orders : g[o] \in Int /\ m[o] \in Int /\ g[o] <= m[o]
    BY <1>6, <1>8
  <2>3. SumFunctionOnSet(k, Orders) <= SumFunctionOnSet(h, Orders)
    BY <2>1, SumBelow, OrdersFinite
  <2>4. SumFunctionOnSet(g, Orders) <= SumFunctionOnSet(m, Orders)
    BY <2>2, SumBelow, OrdersFinite
  <2> QED  BY <1>3, <1>4, <1>5, <1>7, <1>8, <2>3, <2>4
<1>9. ASSUME NEW e \in Orders, \A o \in Orders \ {e} : k[o] = h[o] /\ m[o] = g[o],
             c + k[e] + g[e] <= b + h[e] + m[e]
      PROVE  Covered(u)'
  <2>1. /\ \A o \in Orders : h[o] \in Int /\ k[o] \in Int
        /\ \A o \in Orders : g[o] \in Int /\ m[o] \in Int
        /\ \A o \in Orders \ {e} : k[o] = h[o]
        /\ \A o \in Orders \ {e} : m[o] = g[o]
    BY <1>6, <1>9
  <2>2. SumFunctionOnSet(k, Orders) = SumFunctionOnSet(h, Orders) + (k[e] - h[e])
    BY <2>1, OneTermChanges
  <2>3. SumFunctionOnSet(m, Orders) = SumFunctionOnSet(g, Orders) + (m[e] - g[e])
    BY <2>1, OneTermChanges
  <2> QED  BY <1>3, <1>4, <1>5, <1>6, <1>7, <1>9, <2>2, <2>3
<1> QED  BY <1>1, <1>2, <1>8, <1>9 DEF h, g, b, c
\* Opening an order of somebody else changes nothing of u's.
LEMMA OthersOpen ==
  ASSUME Typed, Typed', NEW u \in Users, Covered(u), NEW x \in Orders, NEW r \in OrderRow,
         order' = Fulfilled(x, r), order[x].user # u, r.user # u,
         \A q \in r.from : order[q].user # u,
         ghost'.initial = ghost.initial, ghost'.cash = ghost.cash,
         \A o \in Orders \ {x} : ghost'.opens[o] = ghost.opens[o],
         user'[u].balance = user[u].balance
  PROVE  Covered(u)'
<1>1. ASSUME NEW o \in Orders
      PROVE  WorthOf(u)'[o] = WorthOf(u)[o] /\ BankedOf(u)'[o] = BankedOf(u)[o]
  <2>1. CASE o # x /\ o \notin r.from
    BY <2>1 DEF Fulfilled, WorthOf, BankedOf
  <2>2. CASE o = x \/ o \in r.from
    <3>1. order[o].user # u
      BY <2>2
    <3>2. order'[o].user # u
      BY <2>2 DEF Fulfilled, Typed, TypeOK, OrderRow
    <3> QED  BY <3>1, <3>2 DEF WorthOf, BankedOf
  <2> QED  BY <2>1, <2>2
<1>2. \A o \in Orders : WorthOf(u)[o] \in Nat /\ BankedOf(u)[o] \in Nat
  BY CoverMoves
<1>3. \A o \in Orders : WorthOf(u)'[o] <= WorthOf(u)[o] /\ BankedOf(u)'[o] >= BankedOf(u)[o]
  BY <1>1, <1>2
<1> QED  BY <1>3, CoverMoves

\* Opening an order on its terms, one under way or one born open, moves no
\* more into the balance and the worth of the order than it had and traded in.
LEMMA OpenCovered ==
  ASSUME Typed, Typed', NEW u \in Users, Covered(u), NEW x \in Orders, NEW r \in OrderRow,
         order' = Fulfilled(x, r), r.user = u, Terms(r, order) \/ Gift(r),
         \/ order[x] = r /\ r.status = "processing"
         \/ /\ order[x].status = "absent" /\ order[x].user # u
            /\ r.total = 0 /\ r.bal = 0 /\ r.type # 9,
         ghost.opens[x] = 0, ghost'.opens[x] = 1,
         ghost'.initial = ghost.initial, ghost'.cash = ghost.cash,
         \A o \in Orders \ {x} : ghost'.opens[o] = ghost.opens[o],
         user'[u].balance = user[u].balance + Credit(r)
  PROVE  Covered(u)'
<1> DEFINE F == r.from
           h == WorthOf(u)
           k == [o \in Orders |-> IF order'[o].user = u THEN Worth(order'[o]) ELSE 0]
           g == BankedOf(u)
           m == [o \in Orders |-> IF order'[o].user = u
                   THEN Bank(order'[o], ghost'.cash[o], ghost'.opens[o]) ELSE 0]
           b == user[u].balance
           c == user'[u].balance
<1>2. F \subseteq Orders /\ c = b + Credit(r)
  BY DEF OrderRow
<1>3. order'[x] = [r EXCEPT !.status = "completed"]
  BY DEF Fulfilled
<1>4. /\ WorthOf(u)' = k /\ BankedOf(u)' = m
      /\ \A o \in Orders : h[o] \in Nat /\ g[o] \in Nat /\ k[o] \in Nat /\ m[o] \in Nat
  <2>1. WorthOf(u)' = k /\ BankedOf(u)' = m
    BY DEF WorthOf, BankedOf
  <2> QED  BY <2>1, CoverMoves
<1>5. \A q \in F : order[q].status = "completed" /\ order[q].user = u /\ q # x
  BY DEF Terms, Gift
<1>7. ASSUME NEW o \in Orders, o # x, o \notin F PROVE k[o] = h[o] /\ m[o] = g[o]
  BY <1>7 DEF Fulfilled, WorthOf, BankedOf
<1>8. ASSUME NEW q \in F
      PROVE  /\ k[q] = 0 /\ m[q] = g[q]
             /\ Terms(r, order) => h[q] = OrderValue(order[q])
  <2>1. q \in Orders /\ q # x /\ order[q].status = "completed" /\ order[q] \in OrderRow
    BY <1>2, <1>5 DEF Typed, TypeOK
  <2>2. order'[q] = [order[q] EXCEPT !.status = "discounted"]
    BY <2>1 DEF Fulfilled
  <2>3. order'[q].status = "discounted" /\ Kept(order[q], order'[q])
    <3>1. order'[q].status = "discounted"
      BY <2>1, <2>2 DEF OrderRow
    <3> QED  BY <2>1, <2>2, <3>1, KeptStatus
  <2>4. k[q] = 0
    BY <2>1, <2>3 DEF Worth
  <2>5. Bank(order'[q], ghost'.cash[q], ghost'.opens[q]) = Bank(order[q], ghost.cash[q], ghost.opens[q])
    BY <2>1, <2>3 DEF Bank, Kept, Credit
  <2>6. m[q] = g[q]
    BY <2>1, <2>3, <2>5 DEF BankedOf, Kept
  <2>7. ASSUME Terms(r, order) PROVE h[q] = OrderValue(order[q])
    <3>1. order[q].user = u /\ order[q].period \notin {"deposit", "reset"}
      BY <1>5, <2>7 DEF Terms
    <3> QED  BY <2>1, <3>1 DEF WorthOf, Worth
  <2> QED  BY <2>4, <2>6, <2>7
<1> QED
  <2> DEFINE worth  == IF r.period \notin {"deposit", "reset"} THEN OrderValue(r) ELSE 0
             gained == IF r.type = 9 THEN Credit(r) - r.total ELSE 0
             i == ghost.initial[u]
  <2>1. /\ h[x] = r.bal + r.total /\ k[x] = worth
        /\ m[x] - g[x] >= gained
    <3>1. order'[x].status = "completed" /\ Kept(r, order'[x])
      BY <1>3, KeptStatus DEF OrderRow
    <3>2. Worth(order'[x]) = worth
      BY <3>1 DEF Worth, Kept, OrderValue
    <3>3. Bank(order'[x], ghost'.cash[x], ghost'.opens[x]) = ghost.cash[x] + gained
      BY <3>1 DEF Bank, Kept, Credit
    <3>4. k[x] = worth /\ m[x] = ghost.cash[x] + gained
      BY <3>1, <3>2, <3>3 DEF Kept
    <3>5. ghost.cash[x] \in Nat /\ gained \in Int /\ r.bal \in Nat /\ r.total \in Nat
      <4>1. ghost.cash[x] \in Nat /\ ghost.opens[x] \in Nat
        BY DEF Typed, TypeOK, History
      <4>2. Credit(r) \in Nat
        BY <4>1, AmountTypes
      <4> QED  BY <4>1, <4>2 DEF OrderRow
    <3>6. CASE order[x] = r /\ r.status = "processing"
      <4>1. Worth(r) = r.bal + r.total /\ Bank(r, ghost.cash[x], ghost.opens[x]) = ghost.cash[x]
        BY <3>5, <3>6 DEF Worth, Bank
      <4>2. h[x] = r.bal + r.total /\ g[x] = ghost.cash[x]
        BY <3>6, <4>1 DEF WorthOf, BankedOf
      <4> HIDE DEF h, g, k, m, worth, gained
      <4> QED  BY <3>4, <3>5, <4>2
    <3>7. CASE order[x].user # u /\ r.total = 0 /\ r.bal = 0
      <4>1. h[x] = 0 /\ g[x] = 0
        BY <3>7 DEF WorthOf, BankedOf
      <4> HIDE DEF h, g, k, m, worth, gained
      <4> QED  BY <3>4, <3>5, <3>7, <4>1
    <3> QED  BY <3>6, <3>7
  <2>2. c = b + Credit(r)
    BY <1>2
  <2>3. r.surplus = 0 \/ \E q \in F : r.surplus <= h[q]
    <3>1. CASE Gift(r)
      BY <3>1 DEF Gift
    <3>2. CASE Terms(r, order)
      <4>1. r.surplus = 0 \/ \E q \in F : r.surplus <= OrderValue(order[q])
        BY <3>2 DEF Terms
      <4>2. \A q \in F : h[q] = OrderValue(order[q])
        BY <1>8, <3>2
      <4> QED  BY <4>1, <4>2
    <3> QED  BY <3>1, <3>2
  <2>4. Credit(r) + worth <= r.bal + r.total + r.surplus + gained
    BY TradeValue
  <2>5. /\ r.bal \in Nat /\ r.total \in Nat /\ r.surplus \in Nat /\ ghost.cash[x] \in Nat
        /\ worth \in Nat /\ gained \in Int /\ Credit(r) \in Nat
    <3>1. ghost.cash[x] \in Nat /\ ghost.opens[x] \in Nat
      BY DEF Typed, TypeOK, History
    <3>2. OrderValue(r) \in Nat /\ Credit(r) \in Nat
      BY <3>1, AmountTypes
    <3>3. r.bal \in Nat /\ r.total \in Nat /\ r.surplus \in Nat
      BY DEF OrderRow
    <3> QED  BY <3>1, <3>2, <3>3
  <2>6. /\ b \in Nat /\ i \in Nat
        /\ b + SumFunctionOnSet(h, Orders) <= i + SumFunctionOnSet(g, Orders)
    BY DEF Covered, Typed, TypeOK, UserRow, History
  <2>7. (c + SumFunctionOnSet(k, Orders) <= i + SumFunctionOnSet(m, Orders)) => Covered(u)'
    BY <1>4 DEF Covered
  <2>8. \A o \in Orders \ {x} : k[o] <= h[o] /\ m[o] = g[o]
    <3>1. ASSUME NEW o \in Orders \ {x} PROVE k[o] <= h[o] /\ m[o] = g[o]
      <4>1. h[o] \in Nat /\ k[o] \in Nat
        BY <1>4
      <4>2. CASE o \in F
        <5>1. k[o] = 0 /\ m[o] = g[o]
          BY <1>8, <4>2
        <5> QED  BY <4>1, <5>1
      <4>3. CASE o \notin F
        <5>1. k[o] = h[o] /\ m[o] = g[o]
          BY <1>7, <4>3
        <5> QED  BY <4>1, <5>1
      <4> QED  BY <4>2, <4>3
    <3> QED  BY <3>1
  <2>9. x \in Orders /\ \A q \in F : q \in Orders /\ q # x /\ k[q] = 0
    BY <1>2, <1>5, <1>8
  <2>10. \A o \in Orders : h[o] \in Nat /\ g[o] \in Nat /\ k[o] \in Nat /\ m[o] \in Nat
    BY <1>4
  <2> HIDE DEF F, h, k, g, m, b, c, i, worth, gained
  <2>11. \A o \in Orders : h[o] \in Int /\ g[o] \in Int /\ k[o] \in Int /\ m[o] \in Int
    BY <2>10
  <2>12. /\ SumFunctionOnSet(h, Orders) \in Int /\ SumFunctionOnSet(k, Orders) \in Int
         /\ SumFunctionOnSet(g, Orders) \in Int /\ SumFunctionOnSet(m, Orders) \in Int
    BY <2>11, SumType, OrdersFinite
  <2>13. SumFunctionOnSet(m, Orders) = SumFunctionOnSet(g, Orders) + (m[x] - g[x])
    <3>1. (\A o \in Orders : g[o] \in Int /\ m[o] \in Int) /\ \A o \in Orders \ {x} : m[o] = g[o]
      BY <2>8, <2>11
    <3> QED  BY <3>1, OneTermChanges
  \* the same holdings but for x, then for x and the order it trades in
  <2> DEFINE l == [o \in Orders |-> IF o = x THEN k[x] ELSE h[o]]
  <2>14. SumFunctionOnSet(l, Orders) = SumFunctionOnSet(h, Orders) + (k[x] - h[x])
    <3>1. /\ \A o \in Orders : h[o] \in Int /\ l[o] \in Int
          /\ \A o \in Orders \ {x} : l[o] = h[o]
      BY <2>11
    <3>2. l[x] = k[x]
      OBVIOUS
    <3> HIDE DEF l
    <3>3. SumFunctionOnSet(l, Orders) = SumFunctionOnSet(h, Orders) + (l[x] - h[x])
      BY <3>1, OneTermChanges
    <3> QED  BY <3>2, <3>3
  <2>15. \A o \in Orders : l[o] \in Int /\ k[o] <= l[o] /\ (o # x => l[o] = h[o])
    BY <2>8, <2>10, <2>11
  <2> HIDE DEF l
  <2>16. CASE r.surplus = 0
    <3>1. \A o \in Orders : k[o] \in Int /\ l[o] \in Int /\ k[o] <= l[o]
      BY <2>11, <2>15
    <3>2. SumFunctionOnSet(k, Orders) <= SumFunctionOnSet(l, Orders)
      BY <3>1, SumBelow, OrdersFinite
    <3>3. SumFunctionOnSet(l, Orders) \in Int
      BY <2>15, SumType, OrdersFinite
    <3> QED  BY <2>1, <2>2, <2>4, <2>5, <2>6, <2>7, <2>11, <2>12, <2>13, <2>14, <2>16, <3>2, <3>3
  <2>17. ASSUME NEW q \in F, r.surplus <= h[q] PROVE Covered(u)'
    <3> DEFINE n == [o \in Orders |-> IF o = q THEN 0 ELSE l[o]]
    <3>1. q \in Orders /\ q # x /\ k[q] = 0 /\ l[q] = h[q] /\ h[q] \in Int
      BY <2>9, <2>11, <2>15
    <3>2. /\ \A o \in Orders : l[o] \in Int /\ n[o] \in Int
          /\ \A o \in Orders \ {q} : n[o] = l[o]
          /\ n[q] = 0
      BY <2>15, <3>1
    <3>3. \A o \in Orders : k[o] \in Int /\ n[o] \in Int /\ k[o] <= n[o]
      BY <2>11, <2>15, <3>1
    <3> HIDE DEF n
    <3>4. SumFunctionOnSet(n, Orders) = SumFunctionOnSet(l, Orders) + (n[q] - l[q])
      BY <3>1, <3>2, OneTermChanges
    <3>5. SumFunctionOnSet(k, Orders) <= SumFunctionOnSet(n, Orders)
      BY <3>3, SumBelow, OrdersFinite
    <3>6. SumFunctionOnSet(l, Orders) \in Int /\ SumFunctionOnSet(n, Orders) \in Int
      BY <3>2, SumType, OrdersFinite
    <3> QED  BY <2>1, <2>2, <2>4, <2>5, <2>6, <2>7, <2>11, <2>12, <2>13, <2>14, <2>17,
                <3>1, <3>2, <3>4, <3>5, <3>6
  <2> QED  BY <2>3, <2>16, <2>17
\* An order whose row, money and history stay is worth what it was.
LEMMA WorthStays ==
  ASSUME NEW u, NEW o \in Orders, order'[o] = order[o],
         ghost'.cash[o] = ghost.cash[o], ghost'.opens[o] = ghost.opens[o]
  PROVE  WorthOf(u)'[o] = WorthOf(u)[o] /\ BankedOf(u)'[o] = BankedOf(u)[o]
BY DEF WorthOf, BankedOf

\* Orders of a user over whose orders nothing met are on their terms.
MoneyInv == TradeInv /\ Single /\ Placed /\ Money

LEMMA MoneyKept ==
  ASSUME Typed, Typed', Paid, MoneyInv, [Next]_vars
  PROVE  Money'
<1> SUFFICES ASSUME NEW u \in Users, ~Met(u)', u \notin ghost'.lost PROVE Covered(u)'
  BY DEF Money
<1> DEFINE b == user[u].balance
           c == user'[u].balance
<1>1. /\ order \in [Orders -> OrderRow] /\ user \in [Users -> UserRow]
      /\ ghost \in History
  BY DEF Typed, TypeOK
<1>2. Covered(u) /\ ~Met(u) /\ b \in Nat /\ c \in Nat
  BY MetStays, MarksStay DEF MoneyInv, Money, Typed, TypeOK, UserRow
<1>3. ASSUME ghost'.initial = ghost.initial, c = b,
             \A o \in Orders : WorthOf(u)'[o] <= WorthOf(u)[o] /\ BankedOf(u)'[o] >= BankedOf(u)[o]
      PROVE  Covered(u)'
  BY <1>2, <1>3, CoverMoves
<1>4. ASSUME ghost'.initial = ghost.initial, ghost'.cash = ghost.cash, ghost'.opens = ghost.opens,
             NEW e \in Orders, \A o \in Orders \ {e} : order'[o] = order[o],
             c + WorthOf(u)'[e] + BankedOf(u)[e] <= b + WorthOf(u)[e] + BankedOf(u)'[e]
      PROVE  Covered(u)'
  <2>1. \A o \in Orders \ {e} :
          WorthOf(u)'[o] = WorthOf(u)[o] /\ BankedOf(u)'[o] = BankedOf(u)[o]
    BY <1>4, WorthStays
  <2> QED  BY <1>2, <1>4, <2>1, CoverMoves
<1>5. \A o \in Orders :
        /\ WorthOf(u)[o]   = IF order[o].user = u THEN Worth(order[o]) ELSE 0
        /\ WorthOf(u)'[o]  = IF order'[o].user = u THEN Worth(order'[o]) ELSE 0
        /\ BankedOf(u)[o]  = IF order[o].user = u
                             THEN Bank(order[o], ghost.cash[o], ghost.opens[o]) ELSE 0
        /\ BankedOf(u)'[o] = IF order'[o].user = u
                             THEN Bank(order'[o], ghost'.cash[o], ghost'.opens[o]) ELSE 0
  BY DEF WorthOf, BankedOf
<1>6. ASSUME NEW p \in Procs, NEW q \in Orders, NEW row \in OrderRow, NEW debit \in Nat,
             Insert(p, q, row, debit), Bought(p, row, debit)
      PROVE  Covered(u)'
  <2>1. /\ order' = [order EXCEPT ![q] = row] /\ order[q].status = "absent"
        /\ ghost'.opens = ghost.opens /\ ghost'.initial = ghost.initial /\ ghost'.cash = ghost.cash
        /\ user' = [user EXCEPT ![proc[p].user].balance = @ - debit]
        /\ proc[p].user \in Users
        /\ row.user = proc[p].user /\ row.bal = debit /\ row.status = "pending"
    BY <1>1, <1>6 DEF Insert, IsNextId, Bought, Typed, Owned, History
  <2>2. order'[q] = row /\ \A o \in Orders \ {q} : order'[o] = order[o]
    BY <1>1, <2>1
  <2>3. c = IF row.user = u THEN b - debit ELSE b
    BY <1>1, <2>1 DEF UserRow
  <2>4. WorthOf(u)[q] = 0 /\ BankedOf(u)[q] = 0
    BY <1>5, <2>1 DEF Worth, Bank
  <2>5. /\ WorthOf(u)'[q] = IF row.user = u THEN debit ELSE 0
        /\ BankedOf(u)'[q] = 0
    BY <1>5, <2>1, <2>2 DEF Worth, Bank
  <2>6. c + WorthOf(u)'[q] + BankedOf(u)[q] <= b + WorthOf(u)[q] + BankedOf(u)'[q]
    BY <1>2, <2>3, <2>4, <2>5
  <2> HIDE DEF b, c
  <2> QED  BY <1>4, <2>1, <2>2, <2>6
<1>7. ASSUME NEW q \in Orders, CancelRow(q) PROVE Covered(u)'
  <2>1. /\ order[q].user \in Users /\ order[q].status = "pending" /\ order[q].bal \in Nat
        /\ order' = [order EXCEPT ![q].status = "cancelled"]
        /\ user' = [user EXCEPT ![order[q].user].balance = @ + order[q].bal]
        /\ ghost' = [ghost EXCEPT !.refunds[q] = @ + 1]
    BY <1>1, <1>7 DEF CancelRow, Typed, Owned, OrderRow
  <2>2. /\ ghost'.opens = ghost.opens /\ ghost'.initial = ghost.initial /\ ghost'.cash = ghost.cash
        /\ \A o \in Orders \ {q} : order'[o] = order[o]
    BY <1>1, <2>1 DEF History
  <2>3. order'[q].status = "cancelled" /\ order'[q].user = order[q].user
    BY <1>1, <2>1 DEF OrderRow
  <2>4. c = IF order[q].user = u THEN b + order[q].bal ELSE b
    BY <1>1, <2>1 DEF UserRow
  <2>5. /\ WorthOf(u)[q] = IF order[q].user = u THEN order[q].bal ELSE 0
        /\ BankedOf(u)[q] = 0 /\ WorthOf(u)'[q] = 0 /\ BankedOf(u)'[q] = 0
    BY <1>5, <2>1, <2>3 DEF Worth, Bank
  <2>6. c + WorthOf(u)'[q] + BankedOf(u)[q] <= b + WorthOf(u)[q] + BankedOf(u)'[q]
    BY <1>2, <2>1, <2>4, <2>5
  <2> HIDE DEF b, c
  <2> QED  BY <1>4, <2>2, <2>6
<1>8. ASSUME NEW p \in Procs, NEW pushed \in BOOLEAN, PaidWrite(p, pushed) PROVE Covered(u)'
  <2>1. PICK q \in Orders : q = proc[p].order
    BY <1>8 DEF PaidWrite, Typed, Owned
  <2>2. /\ order' = [order EXCEPT ![q].status = "processing"] /\ UNCHANGED user
        /\ ghost'.opens = ghost.opens /\ ghost'.initial = ghost.initial /\ ghost'.cash = ghost.cash
        /\ ghost.cash[q] >= order[q].total
        /\ order[q].status = "pending" \/ q \in ghost'.raced
    BY <1>1, <1>8, <2>1 DEF PaidWrite, Paid, History
  <2>3. /\ order'[q].status = "processing" /\ order'[q].user = order[q].user
        /\ order'[q].bal = order[q].bal /\ order'[q].total = order[q].total
        /\ \A o \in Orders \ {q} : order'[o] = order[o]
    BY <1>1, <2>2 DEF OrderRow
  <2>4. c = b
    BY <2>2
  <2>5. CASE order[q].user # u
    <3>1. c + WorthOf(u)'[q] + BankedOf(u)[q] <= b + WorthOf(u)[q] + BankedOf(u)'[q]
      BY <1>2, <1>5, <2>3, <2>4, <2>5
    <3> HIDE DEF b, c
    <3> QED  BY <1>4, <2>2, <2>3, <3>1
  <2>6. CASE order[q].user = u
    <3>1. q \notin ghost'.raced
      BY <2>3, <2>6 DEF Met
    <3>2. order[q].status = "pending" /\ ghost.opens[q] = 0
      BY <2>2, <3>1, MarksStay DEF MoneyInv, TradeInv, Agreed
    <3>3. Worth(order[q]) = order[q].bal /\ Worth(order'[q]) = order[q].bal + order[q].total
      BY <2>3, <3>2 DEF Worth
    <3>4. Bank(order[q], ghost.cash[q], ghost.opens[q]) = 0
      BY <3>2 DEF Bank
    <3>5. order[q].bal \in Nat /\ order[q].total \in Nat /\ ghost.cash[q] \in Nat
      BY <1>1 DEF OrderRow, History
    <3>6. Bank(order'[q], ghost'.cash[q], ghost'.opens[q]) = ghost.cash[q]
      BY <2>2, <2>3, <3>2, <3>5 DEF Bank
    <3> HIDE DEF b, c
    <3>7. c + WorthOf(u)'[q] + BankedOf(u)[q] <= b + WorthOf(u)[q] + BankedOf(u)'[q]
      BY <1>2, <1>5, <2>2, <2>3, <2>4, <2>6, <3>3, <3>4, <3>5, <3>6
    <3> QED  BY <1>4, <2>2, <2>3, <3>7
  <2> QED  BY <2>5, <2>6
<1>9. ASSUME NEW p \in Procs, NEW r \in Orders, Give(p, r) PROVE Covered(u)'
  <2>0. PICK gift : order' = [order EXCEPT ![r] = GiftFor(user[proc[p].user].inviter, gift)]
    BY <1>9 DEF Give
  <2> DEFINE row == GiftFor(user[proc[p].user].inviter, gift)
  <2>1. row.status = "processing" /\ row.bal = 0 /\ row.total = 0
    BY DEF GiftFor, NoOrder
  <2>2. /\ order' = [order EXCEPT ![r] = row] /\ order[r].status = "absent" /\ UNCHANGED user
        /\ ghost'.opens = ghost.opens /\ ghost'.initial = ghost.initial /\ ghost'.cash = ghost.cash
    BY <1>1, <1>9, <2>0 DEF Give, IsNextId, History
  <2> HIDE DEF row
  <2>3. order'[r] = row /\ \A o \in Orders \ {r} : order'[o] = order[o]
    BY <1>1, <2>2
  <2>4. WorthOf(u)[r] = 0 /\ BankedOf(u)[r] = 0 /\ WorthOf(u)'[r] = 0
    BY <1>5, <2>1, <2>2, <2>3 DEF Worth, Bank
  <2>5. BankedOf(u)'[r] \in Nat
    BY <1>2, <2>2, CoverMoves
  <2>6. c + WorthOf(u)'[r] + BankedOf(u)[r] <= b + WorthOf(u)[r] + BankedOf(u)'[r]
    BY <1>2, <2>2, <2>4, <2>5
  <2> HIDE DEF b, c
  <2> QED  BY <1>4, <2>2, <2>3, <2>6
<1>10. ASSUME NEW q \in Orders, order[q].status = "pending" \/ invoice[q] # "none",
              UNCHANGED <<order, user>>,
              \/ UNCHANGED ghost
              \/ ghost' = [ghost EXCEPT !.cash[q] = order[q].total]
       PROVE  Covered(u)'
  <2>1. /\ ghost'.initial = ghost.initial /\ ghost'.opens = ghost.opens
        /\ \A o \in Orders \ {q} : ghost'.cash[o] = ghost.cash[o]
        /\ ghost'.cash[q] \in {ghost.cash[q], order[q].total}
    BY <1>1, <1>10 DEF History
  <2>2. \A o \in Orders : /\ WorthOf(u)[o] \in Nat /\ BankedOf(u)[o] \in Nat
                          /\ WorthOf(u)'[o] \in Nat /\ BankedOf(u)'[o] \in Nat
    BY <1>2, <2>1, CoverMoves
  <2>3. ASSUME NEW o \in Orders
        PROVE  WorthOf(u)'[o] <= WorthOf(u)[o] /\ BankedOf(u)'[o] >= BankedOf(u)[o]
    <3>1. ghost.cash[o] \in Nat /\ ghost'.cash[o] >= ghost.cash[o]
      <4>1. PaidAt(q) /\ ghost.cash[q] \in Nat /\ ghost.cash[o] \in Nat
        BY <1>1 DEF Paid, History
      <4>2. ghost.cash[q] <= order[q].total
        BY <1>10, <4>1 DEF PaidAt, PaidRow
      <4>3. order[q].total \in Nat
        BY <1>1 DEF OrderRow
      <4> QED  BY <2>1, <4>1, <4>2, <4>3
    <3>2. WorthOf(u)'[o] = WorthOf(u)[o]
      BY <1>5, <1>10
    <3>3. order[o] \in OrderRow /\ ghost.opens[o] \in Nat /\ ghost'.cash[o] \in Nat
      BY <1>1 DEF Typed, TypeOK, History
    <3>4. Bank(order[o], ghost'.cash[o], ghost.opens[o]) >= Bank(order[o], ghost.cash[o], ghost.opens[o])
      <4>1. (IF order[o].type = 9 /\ ghost.opens[o] > 0
             THEN Credit(order[o]) - order[o].total ELSE 0) \in Int
        BY <3>3, AmountTypes DEF OrderRow
      <4> QED  BY <3>1, <3>3, <4>1 DEF Bank
    <3> QED  BY <1>5, <1>10, <2>1, <2>2, <3>2, <3>4
  <2>4. c = b
    BY <1>10
  <2> HIDE DEF b, c
  <2> QED  BY <1>3, <2>1, <2>3, <2>4
<1>11. ASSUME NEW p \in Procs, NEW q \in Orders, PaidRead(p, q) \/ Checkout(p, q) PROVE Covered(u)'
  BY <1>10, <1>11 DEF PaidRead, Checkout
<1>12. ASSUME NEW q \in Orders, Capture(q) PROVE Covered(u)'
  BY <1>10, <1>12 DEF Capture
<1>13. CASE Still
  <2>1. /\ c = b /\ UNCHANGED order
        /\ ghost'.opens = ghost.opens /\ ghost'.initial = ghost.initial /\ ghost'.cash = ghost.cash
    BY <1>13, StillHistory DEF Still
  <2>2. \A o \in Orders : WorthOf(u)'[o] = WorthOf(u)[o] /\ BankedOf(u)'[o] = BankedOf(u)[o]
    BY <2>1, WorthStays
  <2>3. \A o \in Orders : WorthOf(u)[o] \in Nat /\ BankedOf(u)[o] \in Nat
    BY <1>2, <2>1, CoverMoves
  <2> HIDE DEF b, c
  <2> QED  BY <1>3, <2>1, <2>2, <2>3
<1>14. ASSUME NEW w \in Procs, OpenWrite(w) PROVE Covered(u)'
  <2>1. PICK x \in Orders : x = proc[w].order
    BY <1>14 DEF OpenWrite, Typed, Owned
  <2>2. PICK r \in OrderRow : r = order[x]
    BY <1>1
  <2>3. /\ order' = Fulfilled(x, r)
        /\ ghost'.initial = ghost.initial /\ ghost'.cash = ghost.cash
        /\ ghost'.opens[x] = ghost.opens[x] + 1
        /\ \A o \in Orders \ {x} : ghost'.opens[o] = ghost.opens[o]
    BY <1>1, <1>14, <2>1, <2>2 DEF OpenWrite, History
  <2>4. user'[u].balance = IF u = r.user THEN user[u].balance + Credit(r) ELSE user[u].balance
    BY <1>14, <2>1, <2>2, OpenBalance
  <2>5. CASE r.user # u
    <3>1. \A q \in r.from : order[q].user # u
      BY <2>2, <2>5 DEF MoneyInv, TradeInv, Kin
    <3> QED  BY <1>2, <2>2, <2>3, <2>4, <2>5, <3>1, OthersOpen
  <2>6. CASE r.user = u
    <3>1. x \notin ghost.raced /\ x \in Orders
      BY <1>2, <2>2, <2>6 DEF Met
    <3>2. w \in Holders(x)
      BY <1>14, <2>1 DEF OpenWrite, Holders
    <3>3. r.status = "processing" /\ ghost.opens[x] = 0
      BY <2>2, <3>1, <3>2 DEF MoneyInv, TradeInv, Agreed
    <3>4. Terms(r, order) \/ Gift(r)
      BY <1>2, <2>2, <2>6, <3>3 DEF MoneyInv, Placed, Ongoing
    <3>5. ghost'.opens[x] = 1 /\ user'[u].balance = user[u].balance + Credit(r)
      BY <2>3, <2>4, <2>6, <3>3
    <3> QED  BY <1>2, <2>2, <2>3, <2>6, <3>3, <3>4, <3>5, OpenCovered
  <2> QED  BY <2>5, <2>6
<1>15. ASSUME NEW p \in Procs, NEW q \in Orders, NEW row \in OrderRow, Coded(p, q, row)
       PROVE  Covered(u)'
  <2>1. /\ order' = [order EXCEPT ![q] = row] /\ order[q].status = "absent"
        /\ row.status = "processing" /\ row.bal = 0 /\ row.total = 0
        /\ ghost'.opens = ghost.opens /\ ghost'.initial = ghost.initial /\ ghost'.cash = ghost.cash
        /\ c = b
    BY <1>1, <1>15 DEF Coded, IsNextId, History
  <2>2. order'[q] = row /\ \A o \in Orders \ {q} : order'[o] = order[o]
    BY <1>1, <2>1
  <2>3. WorthOf(u)[q] = 0 /\ BankedOf(u)[q] = 0 /\ WorthOf(u)'[q] = 0
    BY <1>5, <2>1, <2>2 DEF Worth, Bank
  <2>4. BankedOf(u)'[q] \in Nat
    BY <1>2, <2>1, CoverMoves
  <2>5. c + WorthOf(u)'[q] + BankedOf(u)[q] <= b + WorthOf(u)[q] + BankedOf(u)'[q]
    BY <1>2, <2>1, <2>3, <2>4
  <2> HIDE DEF b, c
  <2> QED  BY <1>4, <2>1, <2>2, <2>5
<1>16. ASSUME NEW q \in Orders, NEW row \in OrderRow, Granted(q, row) PROVE Covered(u)'
  <2>1. /\ order[q].status = "absent" /\ order' = Fulfilled(q, row) /\ Terms(row, order)
        /\ row.user \in Users /\ row.total = 0 /\ row.bal = 0 /\ row.type # 9
        /\ user' = [user EXCEPT ![row.user] = Opened(@, row)]
        /\ ghost'.initial = ghost.initial /\ ghost'.cash = ghost.cash
        /\ ghost'.opens[q] = ghost.opens[q] + 1
        /\ \A o \in Orders \ {q} : ghost'.opens[o] = ghost.opens[o]
    BY <1>1, <1>16 DEF Granted, IsNextId, History
  <2>2. order[q].user # u /\ ghost.opens[q] = 0
    BY <2>1, NoOrderIs DEF Paid, PaidAt, PaidRow
  <2>3. user'[u].balance = IF u = row.user THEN user[u].balance + Credit(row) ELSE user[u].balance
    BY <1>1, <2>1 DEF Opened, UserRow
  <2>4. CASE row.user # u
    <3>1. \A o \in row.from : order[o].user # u
      BY <2>1, <2>4 DEF Terms
    <3> QED  BY <1>2, <2>1, <2>2, <2>3, <2>4, <3>1, OthersOpen
  <2>5. CASE row.user = u
    <3>1. ghost'.opens[q] = 1 /\ user'[u].balance = user[u].balance + Credit(row)
      BY <2>1, <2>2, <2>3, <2>5
    <3> QED  BY <1>2, <2>1, <2>2, <2>5, <3>1, OpenCovered
  <2> QED  BY <2>4, <2>5
<1> QED
  BY <1>6, <1>7, <1>8, <1>9, <1>11, <1>12, <1>13, <1>14, <1>15, <1>16, StepKinds DEF StepKind

LEMMA MoneyStep ==
  ASSUME Typed, Typed', Paid, MoneyInv, [Next]_vars
  PROVE  MoneyInv'
BY TradeStep, SingleStep, PlacedStep, MoneyKept DEF MoneyInv, TradeInv

\* What is covered by the part of Received that is behind paid orders is
\* covered by all of it.
LEMMA MoneyHolds == Typed /\ Money => NoMoneyCreated
<1> SUFFICES ASSUME Typed, Money, NEW u \in Users, ~Met(u), u \notin ghost.lost
             PROVE  user[u].balance + Over(u, [o \in Orders |-> Holding(o)])
                      <= ghost.initial[u] + Over(u, [o \in Orders |-> Received(o)])
  BY DEF NoMoneyCreated
<1> DEFINE h == WorthOf(u)
           g == BankedOf(u)
           m == [o \in Orders |-> IF order[o].user = u THEN Received(o) ELSE 0]
<1>1. Over(u, [o \in Orders |-> Holding(o)]) = SumFunctionOnSet(h, Orders)
  <2>1. \A o \in Orders : Holding(o) = Worth(order[o])
    BY DEF Holding, Worth
  <2>2. [o \in Orders |-> IF order[o].user = u THEN [q \in Orders |-> Holding(q)][o] ELSE 0] = h
    BY <2>1 DEF WorthOf
  <2> QED  BY <2>2 DEF Over
<1>2. Over(u, [o \in Orders |-> Received(o)]) = SumFunctionOnSet(m, Orders)
  <2>1. [o \in Orders |-> IF order[o].user = u THEN [q \in Orders |-> Received(q)][o] ELSE 0] = m
    OBVIOUS
  <2> QED  BY <2>1 DEF Over
<1>3. ASSUME NEW o \in Orders
      PROVE  h[o] \in Int /\ g[o] \in Int /\ m[o] \in Int /\ g[o] <= m[o]
  <2>1. order[o] \in OrderRow /\ ghost.cash[o] \in Nat /\ ghost.opens[o] \in Nat
    BY DEF Typed, TypeOK, History
  <2>2. /\ Worth(order[o]) \in Nat /\ Credit(order[o]) \in Nat /\ order[o].total \in Nat
        /\ Bank(order[o], ghost.cash[o], ghost.opens[o]) \in Nat
        /\ Bank(order[o], ghost.cash[o], ghost.opens[o]) <= Received(o)
    BY <2>1, AmountTypes DEF Received, OrderRow
  <2>3. Received(o) \in Int
    BY <2>1, <2>2 DEF Received
  <2> QED  BY <2>2, <2>3 DEF WorthOf, BankedOf
<1>4. user[u].balance \in Nat /\ ghost.initial[u] \in Nat
      /\ user[u].balance + SumFunctionOnSet(h, Orders) <= ghost.initial[u] + SumFunctionOnSet(g, Orders)
  BY DEF Money, Covered, Typed, TypeOK, UserRow, History
<1> HIDE DEF h, g, m
<1>5. SumFunctionOnSet(g, Orders) <= SumFunctionOnSet(m, Orders)
  BY <1>3, SumBelow, OrdersFinite
<1>6. /\ SumFunctionOnSet(h, Orders) \in Int /\ SumFunctionOnSet(g, Orders) \in Int
      /\ SumFunctionOnSet(m, Orders) \in Int
  BY <1>3, SumType, OrdersFinite
<1> QED  BY <1>1, <1>2, <1>4, <1>5, <1>6

\* Buying, cancelling, changing plans, redeeming codes, refunding and opening
\* never leave a user with more than he brought, in any interleaving: his
\* balance, what his orders under way hold and what his opened orders still
\* count for are at most his first balance, the money received and the
\* deposit bonuses -- unless an order of his was raced, was created beside
\* another one, or his balance was written from an outdated copy.
THEOREM MakesNoMoney == Spec => []NoMoneyCreated
<1>1. Typed /\ MoneyInv => NoMoneyCreated
  BY MoneyHolds DEF MoneyInv
<1>2. Typed /\ Paid /\ [Next]_vars => Paid'
  BY PaidStep
<1>3. Typed /\ Typed' /\ Paid /\ MoneyInv /\ [Next]_vars => MoneyInv'
  BY MoneyStep
<1>4. Init => MoneyInv
  BY TradeInit, SingleInit, PlacedInit, MoneyInit DEF MoneyInv
<1> QED  BY <1>1, <1>2, <1>3, <1>4, TypeInit, TypeStep, PaidInit, PTL DEF Spec

-----------------------------------------------------------------------------
(* Undisturbed handlers implement Purchases. *)

\* What the refinement mapping makes of a row.
Phase(r) ==
  CASE r.status = "absent" -> "none"
    [] r.status = "pending" -> "placed"
    [] r.status = "processing" -> "paid"
    [] r.status = "cancelled" -> "void"
    [] OTHER -> "fulfilled"

Gain(r) == IF r.status = "absent" THEN 0 ELSE Credit(r)

PhaseOf  == [o \in Orders |-> Phase(order[o])]
OwnerOf  == [o \in Orders |-> order[o].user]
HeldOf   == [o \in Orders |-> order[o].bal]
GainOf   == [o \in Orders |-> Gain(order[o])]
WalletOf == [u \in Users |-> user[u].balance]

AgreedOn(i) ==
  /\ OwnerOf'[i] \in Users /\ OwnerOf' = [OwnerOf EXCEPT ![i] = OwnerOf'[i]]
  /\ HeldOf'[i] \in Nat    /\ HeldOf'  = [HeldOf EXCEPT ![i] = HeldOf'[i]]
  /\ GainOf'[i] \in Nat    /\ GainOf'  = [GainOf EXCEPT ![i] = GainOf'[i]]

\* The steps of a purchase, in these terms.
LEMMA PromiseSteps ==
  ASSUME NEW i \in Orders
  PROVE  /\ UNCHANGED <<PhaseOf, OwnerOf, HeldOf, GainOf, WalletOf>> => UNCHANGED Promise!vars
         /\ (/\ PhaseOf[i] = "none" /\ PhaseOf' = [PhaseOf EXCEPT ![i] = "placed"]
             /\ AgreedOn(i)
             /\ WalletOf[OwnerOf'[i]] >= HeldOf'[i]
             /\ WalletOf' = [WalletOf EXCEPT ![OwnerOf'[i]] = @ - HeldOf'[i]])
               => Promise!Place(i)
         /\ (/\ PhaseOf[i] = "none" /\ PhaseOf' = [PhaseOf EXCEPT ![i] = "paid"]
             /\ AgreedOn(i)
             /\ HeldOf'[i] = 0 /\ UNCHANGED WalletOf)
               => Promise!Give(i)
         /\ (/\ PhaseOf[i] = "none" /\ PhaseOf' = [PhaseOf EXCEPT ![i] = "fulfilled"]
             /\ AgreedOn(i)
             /\ HeldOf'[i] = 0
             /\ WalletOf' = [WalletOf EXCEPT ![OwnerOf'[i]] = @ + GainOf'[i]])
               => Promise!Grant(i)
         /\ (/\ PhaseOf[i] = "placed" /\ PhaseOf' = [PhaseOf EXCEPT ![i] = "void"]
             /\ WalletOf' = [WalletOf EXCEPT ![OwnerOf[i]] = @ + HeldOf[i]]
             /\ UNCHANGED <<OwnerOf, HeldOf, GainOf>>)
               => Promise!Void(i)
         /\ (/\ PhaseOf[i] = "placed" /\ PhaseOf' = [PhaseOf EXCEPT ![i] = "paid"]
             /\ UNCHANGED <<OwnerOf, HeldOf, GainOf, WalletOf>>)
               => Promise!Pay(i)
         /\ (/\ PhaseOf[i] = "paid" /\ PhaseOf' = [PhaseOf EXCEPT ![i] = "fulfilled"]
             /\ WalletOf' = [WalletOf EXCEPT ![OwnerOf[i]] = @ + GainOf[i]]
             /\ UNCHANGED <<OwnerOf, HeldOf, GainOf>>)
               => Promise!Fulfil(i)
<1>1. UNCHANGED <<PhaseOf, OwnerOf, HeldOf, GainOf, WalletOf>> => UNCHANGED Promise!vars
  BY DEF PhaseOf, OwnerOf, HeldOf, GainOf, WalletOf, Phase, Gain, Promise!vars
<1>2. ASSUME PhaseOf[i] = "none", PhaseOf' = [PhaseOf EXCEPT ![i] = "placed"], AgreedOn(i),
             WalletOf[OwnerOf'[i]] >= HeldOf'[i],
             WalletOf' = [WalletOf EXCEPT ![OwnerOf'[i]] = @ - HeldOf'[i]]
      PROVE  Promise!Place(i)
  BY <1>2 DEF AgreedOn, PhaseOf, OwnerOf, HeldOf, GainOf, WalletOf, Phase, Gain,
              Promise!Place, Promise!Move, Promise!Agree
<1>3. ASSUME PhaseOf[i] = "none", PhaseOf' = [PhaseOf EXCEPT ![i] = "paid"], AgreedOn(i),
             HeldOf'[i] = 0, UNCHANGED WalletOf
      PROVE  Promise!Give(i)
  BY <1>3 DEF AgreedOn, PhaseOf, OwnerOf, HeldOf, GainOf, WalletOf, Phase, Gain,
              Promise!Give, Promise!Move, Promise!Agree
<1>4. ASSUME PhaseOf[i] = "placed", PhaseOf' = [PhaseOf EXCEPT ![i] = "void"],
             WalletOf' = [WalletOf EXCEPT ![OwnerOf[i]] = @ + HeldOf[i]],
             UNCHANGED <<OwnerOf, HeldOf, GainOf>>
      PROVE  Promise!Void(i)
  BY <1>4 DEF PhaseOf, OwnerOf, HeldOf, GainOf, WalletOf, Phase, Gain,
              Promise!Void, Promise!Move
<1>5. ASSUME PhaseOf[i] = "placed", PhaseOf' = [PhaseOf EXCEPT ![i] = "paid"],
             UNCHANGED <<OwnerOf, HeldOf, GainOf, WalletOf>>
      PROVE  Promise!Pay(i)
  BY <1>5 DEF PhaseOf, OwnerOf, HeldOf, GainOf, WalletOf, Phase, Gain,
              Promise!Pay, Promise!Move
<1>6. ASSUME PhaseOf[i] = "paid", PhaseOf' = [PhaseOf EXCEPT ![i] = "fulfilled"],
             WalletOf' = [WalletOf EXCEPT ![OwnerOf[i]] = @ + GainOf[i]],
             UNCHANGED <<OwnerOf, HeldOf, GainOf>>
      PROVE  Promise!Fulfil(i)
  BY <1>6 DEF PhaseOf, OwnerOf, HeldOf, GainOf, WalletOf, Phase, Gain,
              Promise!Fulfil, Promise!Move
<1>7. ASSUME PhaseOf[i] = "none", PhaseOf' = [PhaseOf EXCEPT ![i] = "fulfilled"], AgreedOn(i),
             HeldOf'[i] = 0, WalletOf' = [WalletOf EXCEPT ![OwnerOf'[i]] = @ + GainOf'[i]]
      PROVE  Promise!Grant(i)
  BY <1>7 DEF AgreedOn, PhaseOf, OwnerOf, HeldOf, GainOf, WalletOf, Phase, Gain,
              Promise!Grant, Promise!Move, Promise!Agree
<1> QED  BY <1>1, <1>2, <1>3, <1>4, <1>5, <1>6, <1>7

\* A step that leaves every other order in its phase and on its terms.
SameTerms(r, s) ==
  Phase(s) = Phase(r) /\ s.user = r.user /\ s.bal = r.bal /\ Gain(s) = Gain(r)

LEMMA SameIs == \A r : SameTerms(r, r)
BY DEF SameTerms

LEMMA KeptTerms ==
  ASSUME NEW r, NEW s, Kept(r, s), r.status # "absent"
  PROVE  s.user = r.user /\ s.bal = r.bal /\ Gain(s) = Gain(r)
BY DEF Kept, Gain, Credit

LEMMA OneRowMoves ==
  ASSUME NEW q \in Orders, \A o \in Orders \ {q} : SameTerms(order[o], order'[o])
  PROVE  /\ PhaseOf' = [PhaseOf EXCEPT ![q] = Phase(order'[q])]
         /\ OwnerOf' = [OwnerOf EXCEPT ![q] = order'[q].user]
         /\ HeldOf'  = [HeldOf EXCEPT ![q] = order'[q].bal]
         /\ GainOf'  = [GainOf EXCEPT ![q] = Gain(order'[q])]
         /\ PhaseOf[q] = Phase(order[q]) /\ OwnerOf[q] = order[q].user
         /\ HeldOf[q] = order[q].bal /\ GainOf[q] = Gain(order[q])
         /\ OwnerOf'[q] = order'[q].user /\ HeldOf'[q] = order'[q].bal
         /\ GainOf'[q] = Gain(order'[q])
         /\ (order'[q].user = order[q].user /\ order'[q].bal = order[q].bal
               /\ Gain(order'[q]) = Gain(order[q])) => UNCHANGED <<OwnerOf, HeldOf, GainOf>>
BY DEF SameTerms, PhaseOf, OwnerOf, HeldOf, GainOf

LEMMA PromiseInit == Init => Promise!Init
<1> SUFFICES ASSUME Init PROVE Promise!Init
  OBVIOUS
<1>1. Typed
  BY TypeInit
<1>2. PhaseOf \in [Orders -> {"none", "fulfilled"}]
  <2>1. \A o \in Orders : order[o].status \in {"absent", "completed"}
    BY InitRows, NoOrderIs
  <2> QED  BY <2>1 DEF PhaseOf, Phase
<1>3. WalletOf \in [Users -> Nat]
  BY <1>1 DEF WalletOf, Typed, TypeOK, UserRow
<1>4. HeldOf \in [Orders -> Nat]
  BY <1>1 DEF HeldOf, Typed, TypeOK, OrderRow
<1>5. GainOf \in [Orders -> Nat]
  <2>1. ASSUME NEW o \in Orders PROVE Gain(order[o]) \in Nat
    <3>1. order[o] \in OrderRow
      BY <1>1 DEF Typed, TypeOK
    <3>2. ghost.cash[o] \in Nat /\ ghost.opens[o] \in Nat
      BY <1>1 DEF Typed, TypeOK, History
    <3>3. Credit(order[o]) \in Nat
      BY <3>1, <3>2, AmountTypes
    <3> QED  BY <3>3 DEF Gain
  <2> QED  BY <2>1 DEF GainOf
<1>6. DOMAIN OwnerOf = Orders
  BY DEF OwnerOf
<1> QED  BY <1>2, <1>3, <1>4, <1>5, <1>6
         DEF PhaseOf, OwnerOf, HeldOf, GainOf, WalletOf, Phase, Gain, Promise!Init

\* A row that is born on terms agreed on.
LEMMA NewRow ==
  ASSUME Typed, Typed', NEW q \in Orders, order[q].status = "absent", order'[q].status # "absent",
         \A o \in Orders \ {q} : SameTerms(order[o], order'[o])
  PROVE  /\ AgreedOn(q) /\ PhaseOf[q] = "none"
         /\ PhaseOf' = [PhaseOf EXCEPT ![q] = Phase(order'[q])]
         /\ OwnerOf'[q] = order'[q].user /\ HeldOf'[q] = order'[q].bal
         /\ GainOf'[q] = Credit(order'[q])
<1>1. order'[q].user \in Users /\ order'[q] \in OrderRow
      /\ ghost.cash[q] \in Nat /\ ghost.opens[q] \in Nat
  BY DEF Typed, TypeOK, Owned, History
<1>2. order'[q].bal \in Nat
  BY <1>1 DEF OrderRow
<1>3. Credit(order'[q]) \in Nat
  BY <1>1, AmountTypes
<1>4. Gain(order'[q]) = Credit(order'[q])
  BY DEF Gain
<1>5. /\ PhaseOf' = [PhaseOf EXCEPT ![q] = Phase(order'[q])]
      /\ OwnerOf' = [OwnerOf EXCEPT ![q] = order'[q].user] /\ OwnerOf'[q] = order'[q].user
      /\ HeldOf' = [HeldOf EXCEPT ![q] = order'[q].bal] /\ HeldOf'[q] = order'[q].bal
      /\ GainOf' = [GainOf EXCEPT ![q] = Gain(order'[q])] /\ GainOf'[q] = Gain(order'[q])
      /\ PhaseOf[q] = Phase(order[q])
  BY OneRowMoves
<1>6. AgreedOn(q)
  <2>1. /\ OwnerOf' = [OwnerOf EXCEPT ![q] = OwnerOf'[q]]
        /\ HeldOf' = [HeldOf EXCEPT ![q] = HeldOf'[q]]
        /\ GainOf' = [GainOf EXCEPT ![q] = GainOf'[q]]
    BY <1>5, Zenon
  <2>2. HeldOf'[q] \in Nat /\ GainOf'[q] \in Nat /\ OwnerOf'[q] \in Users
    BY <1>1, <1>2, <1>3, <1>4, <1>5
  <2> QED  BY <2>1, <2>2, Zenon DEF AgreedOn
<1>7. Phase(order[q]) = "none"
  BY DEF Phase
<1> QED  BY <1>4, <1>5, <1>6, <1>7

\* Opening an order leaves the others in their phases: what is traded in was
\* fulfilled.
LEMMA OthersStay ==
  ASSUME Typed, NEW x \in Orders, NEW r \in OrderRow, order' = Fulfilled(x, r),
         \A q \in r.from : order[q].status \in {"completed", "discounted"},
         NEW o \in Orders \ {x}
  PROVE  SameTerms(order[o], order'[o])
<1>1. CASE o \notin r.from
  BY <1>1, SameIs DEF Fulfilled
<1>2. CASE o \in r.from
  <2>1. order[o].status \in {"completed", "discounted"} /\ order[o] \in OrderRow
    BY <1>2 DEF Typed, TypeOK
  <2>2. order'[o] = [order[o] EXCEPT !.status = "discounted"]
    BY <1>2 DEF Fulfilled
  <2>3. order'[o].status = "discounted"
    BY <2>1, <2>2 DEF OrderRow
  <2>4. Kept(order[o], order'[o])
    BY <2>1, <2>2, KeptStatus
  <2>5. Phase(order'[o]) = Phase(order[o])
    BY <2>1, <2>3 DEF Phase
  <2> QED  BY <2>1, <2>4, <2>5, KeptTerms DEF SameTerms
<1> QED  BY <1>1, <1>2

LEMMA PromiseStep ==
  ASSUME Typed, Typed', Agreed, Undisturbed', [Next]_vars
  PROVE  [Promise!Next]_(Promise!vars)
<1> DEFINE Goal == [Promise!Next]_(Promise!vars)
<1> SUFFICES Goal
  OBVIOUS
<1>1. /\ order \in [Orders -> OrderRow] /\ user \in [Users -> UserRow] /\ ghost \in History
      /\ ghost.raced = {} /\ ghost'.raced = {} /\ ghost'.lost = {}
  BY MarksStay DEF Typed, TypeOK, Undisturbed
<1>2. ASSUME NEW i \in Orders,
             \/ Promise!Place(i) \/ Promise!Give(i) \/ Promise!Grant(i) \/ Promise!Void(i)
             \/ Promise!Pay(i) \/ Promise!Fulfil(i)
      PROVE  Goal
  BY <1>2 DEF Promise!Next
<1>3. ASSUME UNCHANGED <<PhaseOf, OwnerOf, HeldOf, GainOf>>, UNCHANGED WalletOf PROVE Goal
  <2>1. ASSUME NEW i \in Orders PROVE Goal
    BY <1>3, PromiseSteps
  <2>2. CASE Orders = {}
    BY <1>3, <2>2 DEF PhaseOf, OwnerOf, HeldOf, GainOf, WalletOf, Phase, Gain, Promise!vars
  <2> QED  BY <2>1, <2>2
<1> HIDE DEF Goal
<1>4. ASSUME NEW p \in Procs, NEW q \in Orders, NEW row \in OrderRow, NEW debit \in Nat,
             Insert(p, q, row, debit), Bought(p, row, debit)
      PROVE  Goal
  <2>1. /\ order' = [order EXCEPT ![q] = row] /\ order[q].status = "absent"
        /\ user' = [user EXCEPT ![proc[p].user].balance = @ - debit]
        /\ proc[p].user \in Users /\ user[proc[p].user].balance >= debit
        /\ row.user = proc[p].user /\ row.bal = debit /\ row.status = "pending"
    BY <1>4 DEF Insert, IsNextId, Bought, Typed, Owned
  <2>2. order'[q] = row /\ \A o \in Orders \ {q} : order'[o] = order[o]
    BY <1>1, <2>1
  <2>3. \A o \in Orders \ {q} : SameTerms(order[o], order'[o])
    BY <2>2, SameIs
  <2>4. Phase(order[q]) = "none" /\ Phase(row) = "placed"
    BY <2>1 DEF Phase
  <2>6. WalletOf' = [WalletOf EXCEPT ![row.user] = @ - debit] /\ WalletOf[row.user] >= debit
    BY <1>1, <2>1 DEF WalletOf, UserRow
  <2>7. AgreedOn(q) /\ PhaseOf[q] = "none" /\ PhaseOf' = [PhaseOf EXCEPT ![q] = "placed"]
        /\ OwnerOf'[q] = row.user /\ HeldOf'[q] = debit
    BY <2>1, <2>2, <2>3, <2>4, NewRow
  <2>8. Promise!Place(q)
    BY <2>6, <2>7, PromiseSteps
  <2> QED  BY <1>2, <2>8
<1>5. ASSUME NEW q \in Orders, CancelRow(q) PROVE Goal
  <2>1. /\ order[q].user \in Users /\ order[q].status = "pending"
        /\ order' = [order EXCEPT ![q].status = "cancelled"]
        /\ user' = [user EXCEPT ![order[q].user].balance = @ + order[q].bal]
    BY <1>5 DEF CancelRow, Typed, Owned
  <2>2. order'[q].status = "cancelled" /\ \A o \in Orders \ {q} : order'[o] = order[o]
    BY <1>1, <2>1 DEF OrderRow
  <2>3. \A o \in Orders \ {q} : SameTerms(order[o], order'[o])
    BY <2>2, SameIs
  <2>4. Kept(order[q], order'[q])
    BY <2>1, RowsKept
  <2>5. order'[q].user = order[q].user /\ order'[q].bal = order[q].bal
        /\ Gain(order'[q]) = Gain(order[q])
    BY <2>1, <2>4, KeptTerms
  <2>6. Phase(order[q]) = "placed" /\ Phase(order'[q]) = "void"
    BY <2>1, <2>2 DEF Phase
  <2>7. WalletOf' = [WalletOf EXCEPT ![order[q].user] = @ + order[q].bal]
    BY <1>1, <2>1 DEF WalletOf, UserRow
  <2>8. Promise!Void(q)
    <3>1. /\ PhaseOf' = [PhaseOf EXCEPT ![q] = "void"] /\ PhaseOf[q] = "placed"
          /\ OwnerOf[q] = order[q].user /\ HeldOf[q] = order[q].bal
          /\ UNCHANGED <<OwnerOf, HeldOf, GainOf>>
      BY <2>3, <2>5, <2>6, OneRowMoves
    <3> QED  BY <2>7, <3>1, PromiseSteps
  <2> QED  BY <1>2, <2>8
<1>6. ASSUME NEW p \in Procs, NEW pushed \in BOOLEAN, PaidWrite(p, pushed) PROVE Goal
  <2>1. PICK q \in Orders : q = proc[p].order
    BY <1>6 DEF PaidWrite, Typed, Owned
  <2>2. order' = [order EXCEPT ![q].status = "processing"] /\ order[q].status = "pending"
        /\ UNCHANGED user
    BY <1>1, <1>6, <2>1 DEF PaidWrite, History
  <2>3. order'[q].status = "processing" /\ \A o \in Orders \ {q} : order'[o] = order[o]
    BY <1>1, <2>2 DEF OrderRow
  <2>4. \A o \in Orders \ {q} : SameTerms(order[o], order'[o])
    BY <2>3, SameIs
  <2>5. Kept(order[q], order'[q])
    BY <2>2, RowsKept
  <2>6. order'[q].user = order[q].user /\ order'[q].bal = order[q].bal
        /\ Gain(order'[q]) = Gain(order[q])
    BY <2>2, <2>5, KeptTerms
  <2>7. Phase(order[q]) = "placed" /\ Phase(order'[q]) = "paid"
    BY <2>2, <2>3 DEF Phase
  <2>8. UNCHANGED WalletOf
    BY <2>2 DEF WalletOf
  <2>9. Promise!Pay(q)
    <3>1. /\ PhaseOf' = [PhaseOf EXCEPT ![q] = "paid"] /\ PhaseOf[q] = "placed"
          /\ UNCHANGED <<OwnerOf, HeldOf, GainOf>>
      BY <2>4, <2>6, <2>7, OneRowMoves
    <3> QED  BY <2>8, <3>1, PromiseSteps
  <2> QED  BY <1>2, <2>9
<1>13. ASSUME NEW r \in Orders, NEW row, row.status = "processing", row.bal = 0,
              order' = [order EXCEPT ![r] = row], order[r].status = "absent",
              \A u \in Users : user'[u].balance = user[u].balance
       PROVE  Goal
  <2>1. order'[r] = row /\ \A o \in Orders \ {r} : order'[o] = order[o]
    BY <1>1, <1>13
  <2>2. \A o \in Orders \ {r} : SameTerms(order[o], order'[o])
    BY <2>1, SameIs
  <2>3. Phase(row) = "paid"
    BY <1>13 DEF Phase
  <2>4. UNCHANGED WalletOf
    BY <1>13 DEF WalletOf
  <2>5. /\ AgreedOn(r) /\ PhaseOf[r] = "none" /\ PhaseOf' = [PhaseOf EXCEPT ![r] = "paid"]
        /\ HeldOf'[r] = 0
    BY <1>13, <2>1, <2>2, <2>3, NewRow
  <2>6. Promise!Give(r)
    BY <2>4, <2>5, PromiseSteps
  <2> QED  BY <1>2, <2>6
<1>7. ASSUME NEW p \in Procs, NEW r \in Orders, Give(p, r) PROVE Goal
  <2>1. PICK gift : order' = [order EXCEPT ![r] = GiftFor(user[proc[p].user].inviter, gift)]
    BY <1>7 DEF Give
  <2> DEFINE row == GiftFor(user[proc[p].user].inviter, gift)
  <2>2. row.status = "processing" /\ row.bal = 0
    BY DEF GiftFor, NoOrder
  <2>3. order' = [order EXCEPT ![r] = row] /\ order[r].status = "absent" /\ UNCHANGED user
    BY <1>7, <2>1 DEF Give, IsNextId
  <2> HIDE DEF row
  <2> QED  BY <1>13, <2>2, <2>3
<1>14. ASSUME NEW p \in Procs, NEW q \in Orders, NEW row \in OrderRow, Coded(p, q, row)
       PROVE  Goal
  BY <1>13, <1>14 DEF Coded, IsNextId
<1>8. ASSUME NEW w \in Procs, OpenWrite(w) PROVE Goal
  <2>1. PICK x \in Orders, r \in OrderRow : x = proc[w].order /\ r = order[x]
    BY <1>1, <1>8 DEF OpenWrite, Typed, Owned
  <2>2. /\ order' = Fulfilled(x, r)
        /\ \A u \in Users : user'[u].balance = IF u = r.user
                              THEN user[u].balance + Credit(r) ELSE user[u].balance
    BY <1>1, <1>8, <2>1, OpenBalance DEF OpenWrite
  <2>3. r.status = "processing" /\ \A q \in r.from : order[q].status \in {"completed", "discounted"}
    <3>1. w \in Holders(x) /\ r.from \subseteq Orders
      BY <1>8, <2>1 DEF OpenWrite, Holders, OrderRow
    <3> QED  BY <1>1, <2>1, <3>1 DEF Agreed
  <2>4. \A o \in Orders \ {x} : SameTerms(order[o], order'[o])
    BY <2>2, <2>3, OthersStay
  <2>5. order'[x].status = "completed" /\ Kept(r, order'[x])
    <3>1. order'[x] = [r EXCEPT !.status = "completed"]
      BY <2>2 DEF Fulfilled
    <3>2. order'[x].status = "completed"
      BY <3>1 DEF OrderRow
    <3> QED  BY <3>1, <3>2, KeptStatus
  <2>6. order'[x].user = r.user /\ order'[x].bal = r.bal /\ Gain(order'[x]) = Gain(r)
    BY <2>3, <2>5, KeptTerms
  <2>7. Phase(r) = "paid" /\ Phase(order'[x]) = "fulfilled" /\ Gain(r) = Credit(r)
    BY <2>3, <2>5 DEF Phase, Gain
  <2>8. WalletOf' = [WalletOf EXCEPT ![r.user] = @ + Credit(r)]
    BY <2>2 DEF WalletOf
  <2>9. Promise!Fulfil(x)
    <3>1. /\ PhaseOf' = [PhaseOf EXCEPT ![x] = "fulfilled"] /\ PhaseOf[x] = "paid"
          /\ OwnerOf[x] = r.user /\ GainOf[x] = Credit(r)
          /\ UNCHANGED <<OwnerOf, HeldOf, GainOf>>
      BY <2>1, <2>4, <2>6, <2>7, OneRowMoves
    <3> QED  BY <2>8, <3>1, PromiseSteps
  <2> QED  BY <1>2, <2>9
<1>15. ASSUME NEW q \in Orders, NEW row \in OrderRow, Granted(q, row) PROVE Goal
  <2>1. /\ order' = Fulfilled(q, row) /\ order[q].status = "absent" /\ row.bal = 0
        /\ row.user \in Users /\ user' = [user EXCEPT ![row.user] = Opened(@, row)]
        /\ \A x \in row.from : order[x].status = "completed"
    BY <1>15 DEF Granted, IsNextId, Terms
  <2>2. \A o \in Orders \ {q} : SameTerms(order[o], order'[o])
    BY <2>1, OthersStay
  <2>3. order'[q].status = "completed" /\ Kept(row, order'[q])
    <3>1. order'[q] = [row EXCEPT !.status = "completed"]
      BY <2>1 DEF Fulfilled
    <3>2. order'[q].status = "completed"
      BY <3>1 DEF OrderRow
    <3> QED  BY <3>1, <3>2, KeptStatus
  <2>4. order'[q].user = row.user /\ order'[q].bal = 0 /\ Credit(order'[q]) = Credit(row)
    BY <2>1, <2>3 DEF Kept, Credit
  <2>5. Phase(order'[q]) = "fulfilled"
    BY <2>3 DEF Phase
  <2>6. WalletOf' = [WalletOf EXCEPT ![row.user] = @ + Credit(row)]
    BY <1>1, <2>1 DEF WalletOf, Opened, UserRow
  <2>7. /\ AgreedOn(q) /\ PhaseOf[q] = "none" /\ PhaseOf' = [PhaseOf EXCEPT ![q] = "fulfilled"]
        /\ HeldOf'[q] = 0 /\ OwnerOf'[q] = row.user /\ GainOf'[q] = Credit(row)
    BY <2>1, <2>2, <2>3, <2>4, <2>5, NewRow
  <2>8. Promise!Grant(q)
    BY <2>6, <2>7, PromiseSteps
  <2> QED  BY <1>2, <2>8
<1>9. ASSUME UNCHANGED order, \A u \in Users : user'[u].balance = user[u].balance PROVE Goal
  BY <1>3, <1>9 DEF PhaseOf, OwnerOf, HeldOf, GainOf, WalletOf
<1>10. ASSUME NEW p \in Procs, NEW q \in Orders, PaidRead(p, q) \/ Checkout(p, q) PROVE Goal
  BY <1>9, <1>10 DEF PaidRead, Checkout
<1>11. ASSUME NEW q \in Orders, Capture(q) PROVE Goal
  BY <1>9, <1>11 DEF Capture
<1>12. CASE Still
  BY <1>9, <1>12 DEF Still
<1> QED
  BY <1>4, <1>5, <1>6, <1>7, <1>8, <1>10, <1>11, <1>12, <1>14, <1>15, StepKinds DEF StepKind

\* As long as no handler has written over another, every step places, gives,
\* grants, voids, pays or fulfils one purchase, each moving exactly its amount
\* to or from the wallet, or changes neither a phase nor a wallet.
THEOREM KeepsPromise == Spec => PromiseKept
<1>1. Init => Promise!Init
  BY PromiseInit
<1>2. Typed /\ Paid /\ [Next]_vars => Paid'
  BY PaidStep
<1>3. Typed /\ Paid /\ Agreed /\ [Next]_vars => Agreed'
  BY AgreedStep
<1>4. Typed /\ Typed' /\ Agreed /\ [Next]_vars
        => [Undisturbed' => Promise!Next \/ UNCHANGED Promise!vars]_vars
  BY PromiseStep
<1> QED  BY <1>1, <1>2, <1>3, <1>4, TypeInit, TypeStep, PaidInit, AgreedInit, PTL DEF Spec, PromiseKept

\* So a behaviour in which no handler ever writes over another implements
\* Purchases.
THEOREM UndisturbedImplements == UndisturbedSpec => Promise!Spec
<1>1. Init => Promise!Init
  BY PromiseInit
<1>2. Typed /\ [Next /\ Undisturbed']_vars => Typed'
  BY TypeStep
<1>3. Typed /\ Paid /\ [Next /\ Undisturbed']_vars => Paid'
  BY PaidStep
<1>4. Typed /\ Paid /\ Agreed /\ [Next /\ Undisturbed']_vars => Agreed'
  BY AgreedStep
<1>5. Typed /\ Typed' /\ Agreed /\ [Next /\ Undisturbed']_vars => [Promise!Next]_(Promise!vars)
  <2>1. CASE UNCHANGED vars
    BY <2>1 DEF vars, Promise!vars
  <2>2. ASSUME Typed, Typed', Agreed, Next, Undisturbed' PROVE [Promise!Next]_(Promise!vars)
    BY <2>2, PromiseStep
  <2> QED  BY <2>1, <2>2
<1> QED  BY <1>1, <1>2, <1>3, <1>4, <1>5, TypeInit, PaidInit, AgreedInit, PTL
         DEF UndisturbedSpec, Promise!Spec
-----------------------------------------------------------------------------
(* The residual value of a plan without expiry *)

LEMMA UnitsBetween ==
  ASSUME NEW a \in Int, NEW b \in Int
  PROVE  Cardinality({t \in Int : a <= t /\ t < b}) = Above(0, b - a)
<1>1. {t \in Int : a <= t /\ t < b} = a..(b - 1)
  OBVIOUS
<1>2. Cardinality(a..(b - 1)) = IF a > b - 1 THEN 0 ELSE (b - 1) - a + 1
  BY FS_Interval
<1>3. Cardinality({t \in Int : a <= t /\ t < b}) = Cardinality(a..(b - 1))
  BY Zenon, <1>1
<1>4. Above(0, b - a) = IF a > b - 1 THEN 0 ELSE (b - 1) - a + 1
  BY DEF Above
<1> QED  BY Zenon, <1>2, <1>3, <1>4

\* The state of OneTimeWalk, and what it walks through: the orders' prices, the
\* traffic of one order, the traffic of the account and what was used of it.
OneTimeState == [end : Nat, paid : BOOLEAN, sum : Int]

OneTimeInputs(values, quota, total, used, gifts) ==
  /\ values \in Seq(Nat) /\ quota \in Nat \ {0} /\ total \in Nat /\ used \in Nat
  /\ gifts \in BOOLEAN

LEMMA OneTimeStepType ==
  ASSUME NEW values, NEW quota, NEW total, NEW used, NEW gifts,
         OneTimeInputs(values, quota, total, used, gifts),
         NEW acc \in OneTimeState, NEW value \in Nat
  PROVE  OneTimeStep(acc, value, quota, used, gifts) \in OneTimeState
<1> DEFINE start == Segment(acc.end, quota)
           unused == Above(0, acc.end - Above(used, start))
           price == IF value > 0 THEN value ELSE Price["onetime"]
<1>1. acc.end \in Nat /\ acc.paid \in BOOLEAN /\ acc.sum \in Int /\ quota \in Nat /\ used \in Nat
  BY DEF OneTimeState, OneTimeInputs
<1>2. start \in Nat /\ unused \in Nat
  BY <1>1 DEF Segment, Above
<1>3. price \in Nat
  BY SurplusAssumption
<1>4. unused * price \in Nat
  <2> HIDE DEF unused, price
  <2> QED  BY <1>2, <1>3
<1>5. (acc.paid \/ value > 0) \in BOOLEAN
  OBVIOUS
<1>6. OneTimeStep(acc, value, quota, used, gifts)
        = [end |-> start, paid |-> acc.paid \/ value > 0,
           sum |-> IF ~(IF value > 0 THEN ~acc.paid ELSE gifts) THEN acc.sum
                   ELSE acc.sum + unused * price]
  BY DEF OneTimeStep
<1> HIDE DEF start, unused, price
<1>7. acc.sum + unused * price \in Int
  BY <1>1, <1>4
<1> QED  BY <1>1, <1>2, <1>5, <1>6, <1>7 DEF OneTimeState

LEMMA OneTimeWalkIs ==
  ASSUME NEW values, NEW quota, NEW total, NEW used, NEW gifts,
         OneTimeInputs(values, quota, total, used, gifts),
         NEW walk, walk = OneTimeWalk(values, quota, total, used, gifts)
  PROVE  /\ walk \in [0..Len(values) -> OneTimeState]
         /\ walk[0] = [end |-> total, paid |-> FALSE, sum |-> 0]
         /\ \A i \in 1..Len(values) :
              walk[i] = OneTimeStep(walk[i - 1], values[i], quota, used, gifts)
<1> DEFINE n == Len(values)
           first == [end |-> total, paid |-> FALSE, sum |-> 0]
           Unfold(f) == [i \in 0..n |-> IF i = 0 THEN first
                           ELSE OneTimeStep(f[i - 1], values[i], quota, used, gifts)]
           G == [i \in 1..n |-> [x \in OneTimeState |-> OneTimeStep(x, values[i], quota, used, gifts)]]
<1>1. walk = CHOOSE f : f = Unfold(f)
  BY Zenon DEF OneTimeWalk
<1>2. n \in Nat /\ first \in OneTimeState /\ \A i \in 1..n : values[i] \in Nat
  BY DEF OneTimeInputs, OneTimeState
<1>3. Steps(G, n, OneTimeState)
  BY <1>2, OneTimeStepType DEF Steps
<1> HIDE DEF n, first
<1>4. PICK f : Walks(f, G, n, OneTimeState, first)
  <2> HIDE DEF G
  <2> QED  BY <1>2, <1>3, WalkExists
<1>5. f = Unfold(f)
  <2>1. ASSUME NEW i \in 0..n PROVE f[i] = Unfold(f)[i]
    <3>1. CASE i = 0
      BY <1>4, <3>1 DEF Walks
    <3>2. CASE i # 0
      <4>1. i \in 1..n /\ f[i - 1] \in OneTimeState /\ f[i] = G[i][f[i - 1]]
        BY <1>2, <1>4, <3>2 DEF Walks
      <4> QED  BY <3>2, <4>1
    <3> QED  BY <3>1, <3>2
  <2> HIDE DEF G
  <2> QED  BY <1>4, <2>1 DEF Walks
<1>6. walk = Unfold(walk)
  <2> HIDE DEF Unfold
  <2> QED  BY <1>1, <1>5
<1>7. \A i \in 0..n : walk[i] = Unfold(walk)[i]
  BY <1>6
<1>8. walk = [i \in 0..n |-> walk[i]] /\ walk[0] = first
  BY <1>2, <1>6, <1>7
<1>9. ASSUME NEW i \in 1..n
      PROVE walk[i] = OneTimeStep(walk[i - 1], values[i], quota, used, gifts)
  <2>1. i \in 0..n /\ i # 0
    BY <1>2
  <2> QED  BY <1>7, <2>1
<1>10. Walks(walk, G, n, OneTimeState, first)
  <2>1. \A i \in 1..n : walk[i - 1] \in OneTimeState => walk[i] = G[i][walk[i - 1]]
    BY <1>9
  <2> HIDE DEF G
  <2> QED  BY <1>2, <1>3, <1>8, <2>1, WalkIs
<1> QED  BY <1>8, <1>9, <1>10 DEF Walks, n, first

\* The unused units of the i-th order, counted and as OneTimeStep measures them.
UnusedUnits(i, quota, total, used) ==
  {b \in used..(total - 1) : total - i * quota <= b /\ b < total - (i - 1) * quota}

LEMMA UnusedOf ==
  ASSUME NEW quota \in Nat \ {0}, NEW total \in Nat, NEW used \in Nat, NEW i \in Nat \ {0}
  PROVE  LET end == Above(0, total - (i - 1) * quota)
         IN  /\ Segment(end, quota) = Above(0, total - i * quota)
             /\ Cardinality(UnusedUnits(i, quota, total, used))
                  = Above(0, end - Above(used, Segment(end, quota)))
<1>1. PICK x \in Nat : x = (i - 1) * quota
  OBVIOUS
<1>2. i * quota = x + quota
  BY <1>1
<1>3. UnusedUnits(i, quota, total, used)
        = {b \in used..(total - 1) : total - (x + quota) <= b /\ b < total - x}
  BY <1>1, <1>2 DEF UnusedUnits
<1> DEFINE low == Above(used, total - (x + quota))
<1>4. low \in Int
  BY DEF Above
<1>5. {b \in used..(total - 1) : total - (x + quota) <= b /\ b < total - x}
        = {t \in Int : low <= t /\ t < total - x}
  BY DEF Above
<1>6. Cardinality({t \in Int : low <= t /\ t < total - x}) = Above(0, (total - x) - low)
  <2> HIDE DEF low
  <2> QED  BY <1>4, UnitsBetween
<1>7. /\ Segment(Above(0, total - x), quota) = Above(0, total - (x + quota))
      /\ Above(0, (total - x) - low)
           = Above(0, Above(0, total - x) - Above(used, Segment(Above(0, total - x), quota)))
  BY DEF Above, Segment
<1> QED  BY <1>1, <1>2, <1>3, <1>5, <1>6, <1>7

\* The orders that are credited, and the worth of what is unused of each.
OneTimeCredited(values, gifts) == Credited(values, {i \in DOMAIN values : gifts /\ values[i] = 0})

OneTimeWorth(values, quota, total, used, gifts) ==
  [i \in OneTimeCredited(values, gifts) |->
     (IF values[i] > 0 THEN values[i] ELSE Price["onetime"])
       * Cardinality({b \in used..(total - 1) : total - i * quota <= b /\ b < total - (i - 1) * quota})]

\* What OneTimeWalk has after i orders: the traffic that is left to the older
\* ones, whether an order that cost something was seen, and the sum of what was
\* credited so far.
LEMMA OneTimeWalked ==
  ASSUME NEW values, NEW quota, NEW total, NEW used, NEW gifts,
         OneTimeInputs(values, quota, total, used, gifts)
  PROVE  /\ IsFiniteSet(OneTimeCredited(values, gifts))
         /\ \A i \in OneTimeCredited(values, gifts) :
              /\ OneTimeWorth(values, quota, total, used, gifts)[i] \in Nat
              /\ total = 0 => OneTimeWorth(values, quota, total, used, gifts)[i] = 0
         /\ OneTimeWalk(values, quota, total, used, gifts)[Len(values)].sum
              = SumFunctionOnSet(OneTimeWorth(values, quota, total, used, gifts),
                                 OneTimeCredited(values, gifts))
<1> DEFINE n == Len(values)
           credited == Credited(values, {i \in DOMAIN values : gifts /\ values[i] = 0})
           price(i)  == IF values[i] > 0 THEN values[i] ELSE Price["onetime"]
           units(i)  == Cardinality(UnusedUnits(i, quota, total, used))
           worth     == [i \in credited |-> price(i) * units(i)]
           walk == OneTimeWalk(values, quota, total, used, gifts)
           paid(i) == \E j \in 1..i : values[j] > 0
           upTo(i) == credited \cap (1..i)
<1>1. /\ n \in Nat /\ DOMAIN values = 1..n /\ \A i \in 1..n : values[i] \in Nat
      /\ quota \in Nat \ {0} /\ total \in Nat /\ used \in Nat /\ gifts \in BOOLEAN
  <2>1. values \in Seq(Nat)
    BY DEF OneTimeInputs
  <2>2. n \in Nat /\ DOMAIN values = 1..n /\ \A i \in 1..n : values[i] \in Nat
    BY ONLY <2>1 DEF n
  <2> QED  BY <2>2 DEF OneTimeInputs
<1> HIDE DEF n
<1>2. /\ walk \in [0..n -> OneTimeState]
      /\ walk[0] = [end |-> total, paid |-> FALSE, sum |-> 0]
      /\ \A i \in 1..n : walk[i] = OneTimeStep(walk[i - 1], values[i], quota, used, gifts)
  <2>1. PICK w : w = OneTimeWalk(values, quota, total, used, gifts)
    OBVIOUS
  <2> QED  BY <2>1, OneTimeWalkIs DEF n
<1>3. /\ credited \subseteq 1..n
      /\ \A i \in 1..n : i \in credited <=> \/ values[i] > 0 /\ ~paid(i - 1)
                                            \/ values[i] = 0 /\ gifts
  <2>1. \A i \in 1..n : (\A j \in 1..(i - 1) : values[j] = 0) <=> ~paid(i - 1)
    BY <1>1
  <2> HIDE DEF paid
  <2> QED  BY <1>1, <2>1 DEF Credited
<1>4. \A i \in 1..n : price(i) \in Nat /\ units(i) \in Nat
  <2>1. \A i \in 1..n : units(i) \in Nat
    <3> SUFFICES ASSUME NEW i \in 1..n PROVE units(i) \in Nat
      OBVIOUS
    <3>1. i \in Nat \ {0}
      BY <1>1
    <3> DEFINE end == Above(0, total - (i - 1) * quota)
               start == Segment(end, quota)
    <3>2. units(i) = Above(0, end - Above(used, start))
      BY <1>1, <3>1, UnusedOf
    <3>3. end \in Int
      <4>1. (i - 1) * quota \in Int
        BY <1>1, <3>1
      <4> QED  BY <1>1, <4>1 DEF Above
    <3> HIDE DEF end, units
    <3>4. start \in Int
      BY <1>1, <3>3 DEF Segment, Above
    <3> HIDE DEF start
    <3> QED  BY <1>1, <3>2, <3>3, <3>4 DEF Above
  <2> HIDE DEF units
  <2> QED  BY <1>1, <2>1, SurplusAssumption
<1>5. IsFiniteSet(credited) /\ \A i \in 0..n : IsFiniteSet(upTo(i))
  <2>1. IsFiniteSet(1..n)
    BY <1>1, FS_Interval
  <2>2. IsFiniteSet(credited)
    BY <1>3, <2>1, FS_Subset
  <2>3. \A i \in 0..n : upTo(i) \subseteq credited
    BY Zenon
  <2> HIDE DEF upTo, credited
  <2> QED  BY <2>2, <2>3, FS_Subset
<1>6. \A i \in credited : worth[i] \in Nat
  <2> HIDE DEF credited, price, units
  <2>1. \A i \in 1..n : price(i) * units(i) \in Nat
    BY <1>4
  <2> QED  BY <1>3, <2>1
<1>7. ASSUME total = 0, NEW i \in credited PROVE worth[i] = 0
  <2>1. UnusedUnits(i, quota, total, used) = {}
    BY <1>1, <1>7 DEF UnusedUnits
  <2>2. units(i) = 0
    BY <2>1, FS_EmptySet
  <2>3. price(i) \in Nat
    BY <1>3, <1>4
  <2> HIDE DEF price, units
  <2> QED  BY <1>7, <2>2, <2>3
<1> DEFINE Reached(i) == /\ walk[i].end = Above(0, total - i * quota)
                         /\ walk[i].paid = paid(i)
                         /\ walk[i].sum = SumFunctionOnSet(worth, upTo(i))
           T == {i \in 0..n : Reached(i)}
<1>8. 0 \in T
  <2>1. upTo(0) = {} /\ paid(0) = FALSE /\ Above(0, total - 0 * quota) = total
    BY <1>1 DEF Above
  <2>2. SumFunctionOnSet(worth, {}) = 0
    BY SumEmpty
  <2> HIDE DEF upTo, paid, worth, walk
  <2>0. walk[0].end = total /\ walk[0].paid = FALSE /\ walk[0].sum = 0
    <3>1. walk[0] = [end |-> total, paid |-> FALSE, sum |-> 0]
      BY <1>2
    <3> QED  BY ONLY <3>1
  <2>3. walk[0].end = Above(0, total - 0 * quota)
    BY Zenon, <2>0, <2>1
  <2>4. walk[0].paid = paid(0)
    BY Zenon, <2>0, <2>1
  <2>5. walk[0].sum = SumFunctionOnSet(worth, upTo(0))
    BY Zenon, <2>0, <2>1, <2>2
  <2>6. 0 \in 0..n
    BY <1>1
  <2> QED  BY <2>3, <2>4, <2>5, <2>6
<1>9. ASSUME NEW i \in 1..n, i - 1 \in T PROVE i \in T
  <2>0. i - 1 \in 0..n /\ i \in 0..n /\ i \in Nat \ {0} /\ values[i] \in Nat
    BY <1>1
  <2> DEFINE acc == walk[i - 1]
             start == Segment(acc.end, quota)
             unused == Above(0, acc.end - Above(used, start))
             counted == IF values[i] > 0 THEN ~acc.paid ELSE gifts
  <2>1. /\ acc.end = Above(0, total - (i - 1) * quota) /\ acc.paid = paid(i - 1)
        /\ acc.sum = SumFunctionOnSet(worth, upTo(i - 1)) /\ acc.sum \in Int
    <3> HIDE DEF walk, paid, upTo, worth
    <3> QED  BY <1>2, <1>9, <2>0 DEF OneTimeState
  <2>2. start = Above(0, total - i * quota) /\ units(i) = unused
    <3> HIDE DEF walk
    <3> QED  BY <1>1, <2>0, <2>1, UnusedOf
  <2>3. /\ walk[i].end = start /\ walk[i].paid = (acc.paid \/ values[i] > 0)
        /\ walk[i].sum = IF ~counted THEN acc.sum ELSE acc.sum + unused * price(i)
    <3> HIDE DEF walk
    <3>1. walk[i] = OneTimeStep(acc, values[i], quota, used, gifts)
      BY <1>2
    <3> QED  BY <3>1 DEF OneTimeStep
  <2>4. counted <=> i \in credited
    <3> HIDE DEF walk, paid, credited
    <3> QED  BY <1>1, <1>3, <2>0, <2>1
  <2>5. paid(i) = (paid(i - 1) \/ values[i] > 0)
    <3>1. 1..i = (1..(i - 1)) \cup {i}
      BY <2>0
    <3> QED  BY Zenon, <3>1
  <2>6. walk[i].sum = SumFunctionOnSet(worth, upTo(i))
    <3>1. CASE counted
      <4>1. upTo(i) = upTo(i - 1) \cup {i} /\ i \notin upTo(i - 1)
        <5> HIDE DEF walk, credited, counted
        <5> QED  BY <2>0, <2>4, <3>1
      <4>2. worth[i] \in Int /\ \A x \in upTo(i - 1) : worth[x] \in Int
        <5> HIDE DEF walk, worth, credited, counted
        <5> QED  BY <1>6, <2>4, <3>1
      <4>3. SumFunctionOnSet(worth, upTo(i - 1) \cup {i})
              = SumFunctionOnSet(worth, upTo(i - 1)) + worth[i]
        <5> HIDE DEF walk, worth, upTo
        <5> QED  BY <1>5, <2>0, <4>1, <4>2, SumAdd
      <4>4. worth[i] = unused * price(i)
        <5>1. worth[i] = price(i) * units(i) /\ price(i) \in Nat /\ units(i) \in Nat
          <6> HIDE DEF walk, price, units, credited, counted
          <6> QED  BY <1>4, <2>4, <3>1
        <5> HIDE DEF walk, price, units, unused, worth
        <5> QED  BY <2>2, <5>1
      <4> HIDE DEF walk, worth, upTo, unused, price
      <4> QED  BY <2>1, <2>3, <3>1, <4>1, <4>3, <4>4
    <3>2. CASE ~counted
      <4>1. upTo(i) = upTo(i - 1)
        <5> HIDE DEF walk, credited, counted
        <5> QED  BY <2>0, <2>4, <3>2
      <4> HIDE DEF walk, worth, upTo, unused, price
      <4> QED  BY <2>1, <2>3, <3>2, <4>1
    <3> QED  BY <3>1, <3>2
  <2>7. walk[i].end = Above(0, total - i * quota)
    <3> HIDE DEF walk
    <3> QED  BY <2>2, <2>3
  <2>8. walk[i].paid = paid(i)
    <3> HIDE DEF walk, paid
    <3>1. acc.paid = paid(i - 1)
      BY <2>1
    <3>2. walk[i].paid = (acc.paid \/ values[i] > 0)
      BY <2>3
    <3> HIDE DEF acc
    <3> QED  BY Zenon, <2>5, <3>1, <3>2
  <2> HIDE DEF walk, paid, worth, upTo
  <2> QED  BY <2>0, <2>6, <2>7, <2>8
<1>10. n \in T
  <2> HIDE DEF T
  <2>1. n \in Nat /\ n \in 0..n
    BY <1>1
  <2>2. \A i \in 1..n : i - 1 \in T => i \in T
    BY <1>9
  <2>3. 0..n \subseteq T
    BY <1>8, <2>1, <2>2, UpTo
  <2> QED  BY <2>1, <2>3
<1>11. upTo(n) = credited
  <2>1. credited \subseteq 1..n
    BY <1>3
  <2> HIDE DEF credited
  <2> QED  BY <2>1
<1>12. walk[n].sum = SumFunctionOnSet(worth, credited)
  <2> HIDE DEF walk, worth, credited, upTo
  <2> QED  BY <1>10, <1>11
<1>13. credited = OneTimeCredited(values, gifts) /\ worth = OneTimeWorth(values, quota, total, used, gifts)
  BY DEF OneTimeCredited, OneTimeWorth, UnusedUnits
<1> HIDE DEF credited, worth
<1> QED  BY <1>5, <1>6, <1>7, <1>12, <1>13 DEF n

LEMMA TrafficValueIs ==
  ASSUME NEW values, NEW quota, NEW total, NEW used, NEW gifts
  PROVE  TrafficValue(values, quota, total, used, gifts)
           = SumFunctionOnSet(OneTimeWorth(values, quota, total, used, gifts),
                              OneTimeCredited(values, gifts)) \div quota
BY DEF TrafficValue, OneTimeWorth, OneTimeCredited

\* What is given for a plan without expiry is what its unused traffic was bought
\* for, however many orders there were (getSurplusValueByOneTime()).
THEOREM OneTimeIsExact ==
  ASSUME NEW values, NEW quota, NEW total, NEW used, NEW gifts,
         OneTimeInputs(values, quota, total, used, gifts)
  PROVE  ExactOneTime(values, quota, total, used, gifts)
<1> DEFINE credited == OneTimeCredited(values, gifts)
           worth     == OneTimeWorth(values, quota, total, used, gifts)
           whole     == SumFunctionOnSet(worth, credited)
<1>1. /\ IsFiniteSet(credited)
      /\ \A i \in credited : worth[i] \in Nat /\ (total = 0 => worth[i] = 0)
      /\ OneTimeWalk(values, quota, total, used, gifts)[Len(values)].sum = whole
  BY OneTimeWalked DEF whole, worth, credited
<1>2. TrafficValue(values, quota, total, used, gifts) = whole \div quota
  BY Zenon, TrafficValueIs DEF whole, worth, credited
<1>3. total = 0 => whole = 0
  <2> HIDE DEF credited, worth
  <2> QED  BY <1>1, SumZero
<1>4. quota \in Nat \ {0} /\ total \in Nat
  BY DEF OneTimeInputs
<1> HIDE DEF whole
<1>5. OneTimeSurplus(values, quota, total, used, gifts) = whole \div quota
  <2>1. CASE total = 0
    <3>1. OneTimeSurplus(values, quota, total, used, gifts) = 0
      BY <2>1 DEF OneTimeSurplus
    <3> QED  BY <1>3, <1>4, <2>1, <3>1
  <2>2. CASE total # 0
    <3>1. ~(total <= 0 \/ quota <= 0)
      BY <1>4, <2>2
    <3> QED  BY Zenon, <1>1, <3>1 DEF OneTimeSurplus
  <2> QED  BY <2>1, <2>2
<1> QED  BY <1>2, <1>5 DEF ExactOneTime

\* The histories that TLC tries are of this kind: OneTimeExact holds whatever
\* else is done (getSurplusValueByOneTime()).
THEOREM OneTimeAlwaysExact == Spec => []OneTimeExact
<1>1. OneTimeExact
  <2> SUFFICES ASSUME NEW values \in UpToThree({0, 2, 3}), NEW quota \in 1..MaxQuota,
                      NEW total \in 0..(3 * MaxQuota), NEW used \in 0..(3 * MaxQuota),
                      NEW gifts \in BOOLEAN
               PROVE  ExactOneTime(values, quota, total, used, gifts)
    BY DEF OneTimeExact
  <2>1. values \in Seq(Nat)
    <3>1. PICK n \in 0..3 : values \in [1..n -> {0, 2, 3}]
      BY DEF UpToThree
    <3> QED  BY <3>1
  <2>2. OneTimeInputs(values, quota, total, used, gifts)
    BY <2>1 DEF OneTimeInputs
  <2> QED  BY <2>2, OneTimeIsExact
<1> QED  BY <1>1, PTL

-----------------------------------------------------------------------------
(* The residual value of a subscription: one order *)

LEMMA SurplusNumbers == Month \in Nat \ {0} /\ ShortPeriod \in Nat
BY SurplusAssumption

\* The whole months that come after the current one.
LEMMA MonthsLater ==
  ASSUME NEW r \in Nat \ {0}
  PROVE  \E k \in Nat : /\ Above(0, (r + Month - 1) \div Month - 1) = k
                        /\ k * Month < r /\ r <= k * Month + Month
<1> DEFINE m == Month  x == (r + m - 1) \div m
<1>1. m \in Nat \ {0}
  BY SurplusNumbers
<1> HIDE DEF m
<1>2. x \in Nat /\ x * m <= r + m - 1 /\ r + m - 1 < x * m + m
  <2>1. r + m - 1 \in Nat
    BY <1>1
  <2> QED  BY <1>1, <2>1, Quotient
<1> HIDE DEF x
<1>3. x # 0
  <2>1. CASE x = 0
    <3>1. x * m = 0
      BY <1>1, <2>1
    <3> QED  BY <1>1, <1>2, <3>1
  <2> QED  BY <2>1
<1>4. PICK k \in Nat : k = x - 1
  BY <1>2, <1>3
<1>5. x * m = k * m + m
  BY <1>1, <1>2, <1>4
<1>6. k * m < r /\ r <= k * m + m
  <2>1. k * m \in Int
    BY <1>1
  <2> QED  BY <1>1, <1>2, <1>5, <2>1
<1>7. Above(0, (r + Month - 1) \div Month - 1) = k
  BY <1>4 DEF Above, x, m
<1> QED  BY <1>6, <1>7 DEF m

LEMMA LongShareIs ==
  ASSUME NEW d, NEW r \in Nat \ {0}, NEW t
  PROVE  \E k \in Nat :
           /\ k * Month < r /\ r <= k * Month + Month
           /\ LongShare(d, r, t)
                = [num |-> IF (r - k * Month) * t.den <= t.num * Month
                           THEN ((r - k * Month) + k * Month) * t.den
                           ELSE t.num * Month + (k * Month) * t.den,
                   den |-> d * t.den]
<1>1. PICK k \in Nat : /\ Above(0, (r + Month - 1) \div Month - 1) = k
                       /\ k * Month < r /\ r <= k * Month + Month
  BY MonthsLater
<1>2. LongShare(d, r, t)
        = [num |-> IF (r - k * Month) * t.den <= t.num * Month
                   THEN ((r - k * Month) + k * Month) * t.den
                   ELSE t.num * Month + (k * Month) * t.den,
           den |-> d * t.den]
  BY Zenon, <1>1 DEF LongShare
<1> QED  BY <1>1, <1>2

\* A long order's share is a fraction, and no more than its time.
LEMMA LongShareType ==
  ASSUME NEW d \in Nat \ {0}, NEW r \in Nat \ {0}, NEW t \in Fraction
  PROVE  /\ LongShare(d, r, t) \in Fraction /\ AtMost(LongShare(d, r, t), [num |-> r, den |-> d])
         /\ t.num = t.den => AtMost([num |-> r, den |-> d], LongShare(d, r, t))
<1>1. PICK k \in Nat :
         /\ k * Month < r /\ r <= k * Month + Month
         /\ LongShare(d, r, t)
              = [num |-> IF (r - k * Month) * t.den <= t.num * Month
                         THEN ((r - k * Month) + k * Month) * t.den
                         ELSE t.num * Month + (k * Month) * t.den,
                 den |-> d * t.den]
  BY LongShareIs
<1> DEFINE m == Month  y == k * m  a == t.num  b == t.den  s == LongShare(d, r, t)
<1>2. /\ m \in Nat \ {0} /\ y \in Nat /\ a \in Nat /\ b \in Nat \ {0} /\ y < r /\ r <= y + m
  BY <1>1, SurplusNumbers, FractionParts
<1>3. /\ s.num = IF (r - y) * b <= a * m THEN ((r - y) + y) * b ELSE a * m + y * b
      /\ s.den = d * b
      /\ s = [num |-> s.num, den |-> s.den]
  BY <1>1
<1> HIDE DEF m, y, a, b, s
<1>4. s.num \in Nat /\ s.num <= r * b /\ s.den \in Nat \ {0}
  <2>1. (r - y) * b \in Nat /\ a * m \in Nat /\ y * b \in Nat /\ d * b \in Nat \ {0}
    BY <1>2
  <2>2. ((r - y) + y) * b = r * b /\ (r - y) * b + y * b = r * b
    BY <1>2
  <2>3. r * b \in Nat
    BY <1>2
  <2> QED  BY <1>3, <2>1, <2>2, <2>3
<1>5. s \in Fraction
  BY <1>3, <1>4 DEF Fraction
<1>6. s.num * d <= r * s.den
  <2>1. s.num * d <= (r * b) * d
    <3>1. r * b \in Nat
      BY <1>2
    <3> QED  BY <1>4, <3>1, Scaled
  <2>2. (r * b) * d = r * (d * b)
    BY <1>2
  <2> QED  BY <1>3, <2>1, <2>2
<1>7. ASSUME a = b PROVE r * s.den <= s.num * d
  <2>1. (r - y) * b <= a * m
    <3>1. (r - y) * b <= m * b
      BY <1>2, Scaled
    <3> QED  BY <1>2, <1>7, <3>1
  <2>2. s.num = ((r - y) + y) * b
    BY <1>3, <2>1
  <2>3. s.num = r * b
    BY <1>2, <2>2
  <2>4. (r * b) * d = r * (d * b)
    BY <1>2
  <2>5. r * (d * b) \in Int
    BY <1>2
  <2> QED  BY <1>3, <2>3, <2>4, <2>5
<1> QED  BY <1>5, <1>6, <1>7 DEF AtMost, s, a, b

\* It grows with the time ...
LEMMA LongShareTime ==
  ASSUME NEW d \in Nat \ {0}, NEW r \in Nat \ {0}, NEW q \in Nat, r <= q, NEW t \in Fraction
  PROVE  AtMost(LongShare(d, r, t), LongShare(d, q, t))
<1>0. q \in Nat \ {0}
  OBVIOUS
<1>1. PICK k \in Nat :
         /\ k * Month < r /\ r <= k * Month + Month
         /\ LongShare(d, r, t)
              = [num |-> IF (r - k * Month) * t.den <= t.num * Month
                         THEN ((r - k * Month) + k * Month) * t.den
                         ELSE t.num * Month + (k * Month) * t.den,
                 den |-> d * t.den]
  BY LongShareIs
<1>2. PICK l \in Nat :
         /\ l * Month < q /\ q <= l * Month + Month
         /\ LongShare(d, q, t)
              = [num |-> IF (q - l * Month) * t.den <= t.num * Month
                         THEN ((q - l * Month) + l * Month) * t.den
                         ELSE t.num * Month + (l * Month) * t.den,
                 den |-> d * t.den]
  BY <1>0, LongShareIs
<1> DEFINE m == Month  y == k * m  z == l * m  a == t.num  b == t.den
           s == LongShare(d, r, t)  u == LongShare(d, q, t)
<1>3. /\ m \in Nat \ {0} /\ y \in Nat /\ z \in Nat /\ a \in Nat /\ b \in Nat \ {0}
      /\ y < r /\ r <= y + m /\ z < q /\ q <= z + m
  BY <1>1, <1>2, SurplusNumbers, FractionParts
<1>4. k = l \/ y + m <= z
  <2>1. k <= l
    <3>1. ASSUME l + 1 <= k PROVE FALSE
      <4>1. (l + 1) * m <= k * m
        BY <1>3, <3>1, Scaled
      <4>2. (l + 1) * m = z + m
        BY <1>3
      <4> HIDE DEF z
      <4> QED  BY <1>0, <1>3, <4>1, <4>2
    <3> QED  BY <3>1
  <2>2. ASSUME k + 1 <= l PROVE y + m <= z
    <3>1. (k + 1) * m <= l * m
      BY <1>3, <2>2, Scaled
    <3>2. (k + 1) * m = y + m
      BY <1>3
    <3> QED  BY <3>1, <3>2
  <2> QED  BY <2>1, <2>2
<1>5. /\ s.num = IF (r - y) * b <= a * m THEN ((r - y) + y) * b ELSE a * m + y * b
      /\ u.num = IF (q - z) * b <= a * m THEN ((q - z) + z) * b ELSE a * m + z * b
      /\ s.den = d * b /\ u.den = d * b
  BY <1>1, <1>2
<1>6. y = z \/ y + m <= z
  BY <1>4
<1> HIDE DEF m, y, z, a, b, s, u
<1>7. /\ (r - y) * b \in Nat /\ (q - z) * b \in Nat /\ a * m \in Nat /\ y * b \in Nat /\ z * b \in Nat
      /\ ((r - y) + y) * b = (r - y) * b + y * b /\ ((q - z) + z) * b = (q - z) * b + z * b
  BY <1>0, <1>3
<1>8. s.num \in Nat /\ u.num \in Nat /\ s.num <= u.num
  <2>1. CASE y = z
    <3>1. (r - y) * b <= (q - z) * b
      BY <1>0, <1>3, <2>1, Scaled
    <3> QED  BY <1>5, <1>7, <2>1, <3>1
  <2>2. CASE y + m <= z
    <3>1. (r - y) * b <= m * b
      BY <1>3, Scaled
    <3>2. (y + m) * b <= z * b
      BY <1>3, <2>2, Scaled
    <3>3. (y + m) * b = y * b + m * b /\ m * b \in Nat
      BY <1>3
    <3> QED  BY <1>5, <1>7, <3>1, <3>2, <3>3
  <2> QED  BY <1>6, <2>1, <2>2
<1>9. s.num * (d * b) <= u.num * (d * b)
  <2>1. d * b \in Nat
    BY <1>3
  <2> QED  BY <1>8, <2>1, Scaled
<1> QED  BY <1>5, <1>9 DEF AtMost, s, u

\* ... and with the traffic that is left.
LEMMA LongShareTraffic ==
  ASSUME NEW d \in Nat \ {0}, NEW r \in Nat \ {0}, NEW t \in Fraction, NEW v \in Fraction,
         t.den = v.den, t.num <= v.num
  PROVE  AtMost(LongShare(d, r, t), LongShare(d, r, v))
<1>1. PICK k \in Nat :
         /\ Above(0, (r + Month - 1) \div Month - 1) = k
         /\ k * Month < r /\ r <= k * Month + Month
  BY MonthsLater
<1> DEFINE m == Month  y == k * m  a == t.num  b == t.den  c == v.num
           s == LongShare(d, r, t)  u == LongShare(d, r, v)
<1>2. /\ s.num = IF (r - y) * b <= a * m THEN ((r - y) + y) * b ELSE a * m + y * b
      /\ s.den = d * b
  BY Zenon, <1>1 DEF LongShare
<1>3. /\ u.num = IF (r - y) * b <= c * m THEN ((r - y) + y) * b ELSE c * m + y * b
      /\ u.den = d * b
  BY Zenon, <1>1 DEF LongShare
<1>4. /\ m \in Nat \ {0} /\ y \in Nat /\ a \in Nat /\ b \in Nat \ {0} /\ c \in Nat /\ a <= c
      /\ y < r /\ r <= y + m
  BY <1>1, SurplusNumbers, FractionParts
<1> HIDE DEF m, y, a, b, c, s, u
<1>5. /\ (r - y) * b \in Nat /\ a * m \in Nat /\ c * m \in Nat /\ y * b \in Nat
      /\ ((r - y) + y) * b = (r - y) * b + y * b
  BY <1>4
<1>6. a * m <= c * m
  BY <1>4, Scaled
<1>7. s.num \in Nat /\ u.num \in Nat /\ s.num <= u.num
  BY <1>2, <1>3, <1>5, <1>6
<1>8. s.num * (d * b) <= u.num * (d * b)
  <2>1. d * b \in Nat
    BY <1>4
  <2> QED  BY <1>7, <2>1, Scaled
<1> QED  BY <1>2, <1>3, <1>8 DEF AtMost, s, u

\* An order's share of its time and traffic, short or long.
Share(d, r, t) == IF d <= ShortPeriod THEN ShortShare(d, r, t) ELSE LongShare(d, r, t)

TimeShare(d, r) == [num |-> r, den |-> d]

LEMMA TimeShareType ==
  ASSUME NEW d \in Nat \ {0}, NEW r \in Nat
  PROVE  TimeShare(d, r) \in Fraction /\ \A q \in Nat : r <= q => AtMost(TimeShare(d, r), TimeShare(d, q))
BY Scaled DEF TimeShare, Fraction, AtMost

LEMMA LesserBelow ==
  /\ \A a, b \in Fraction : AtMost(Lesser(a, b), a) /\ AtMost(Lesser(a, b), b)
  /\ \A a, b, c \in Fraction : AtMost(b, c) => AtMost(Lesser(a, b), Lesser(a, c))
  /\ \A a, b, c, e \in Fraction : AtMost(a, c) /\ AtMost(b, e) => AtMost(Lesser(a, b), Lesser(c, e))
<1>1. ASSUME NEW a \in Fraction, NEW b \in Fraction
      PROVE  Lesser(a, b) \in Fraction /\ AtMost(Lesser(a, b), a) /\ AtMost(Lesser(a, b), b)
             /\ (Lesser(a, b) = a \/ Lesser(a, b) = b)
  <2>1. CASE AtMost(a, b)
    BY <2>1, AtMostOrder DEF Lesser
  <2>2. CASE ~AtMost(a, b)
    BY <2>2, AtMostOrder DEF Lesser
  <2> QED  BY <2>1, <2>2
<1>2. ASSUME NEW a \in Fraction, NEW b \in Fraction, NEW c \in Fraction, NEW e \in Fraction,
             AtMost(a, c), AtMost(b, e)
      PROVE  AtMost(Lesser(a, b), Lesser(c, e))
  BY <1>1, <1>2, AtMostOrder
<1> QED  BY <1>1, <1>2, AtMostOrder

LEMMA ShareType ==
  ASSUME NEW d \in Nat \ {0}, NEW r \in Nat \ {0}, NEW t \in Fraction
  PROVE  /\ Share(d, r, t) \in Fraction
         /\ AtMost(t, Whole(1)) => AtMost(Share(d, r, t), TimeShare(d, r))
<1> DEFINE time == TimeShare(d, r)
<1>1. time \in Fraction /\ Lesser(time, t) \in Fraction /\ Whole(1) \in Fraction
  BY TimeShareType, FractionType
<1>2. CASE d <= ShortPeriod
  <2>1. Share(d, r, t) = Times(time, Lesser(time, t))
    BY <1>2 DEF Share, ShortShare, TimeShare
  <2>2. ASSUME AtMost(t, Whole(1)) PROVE AtMost(Share(d, r, t), time)
    <3> HIDE DEF time
    <3>1. AtMost(Lesser(time, t), Whole(1))
      BY <1>1, <2>2, LesserBelow, AtMostOrder
    <3>2. AtMost(Times(time, Lesser(time, t)), Times(time, Whole(1)))
      BY <1>1, <3>1, AtMostOrder, TimesAtMost
    <3>3. Times(time, Whole(1)) = time
      BY <1>1 DEF Fraction, Times, Whole
    <3> QED  BY <2>1, <3>2, <3>3
  <2> HIDE DEF time
  <2> QED  BY <1>1, <2>1, <2>2, FractionType DEF time
<1>3. CASE ~(d <= ShortPeriod)
  BY <1>3, LongShareType DEF Share, TimeShare
<1> QED  BY <1>2, <1>3

LEMMA ShareTime ==
  ASSUME NEW d \in Nat \ {0}, NEW r \in Nat \ {0}, NEW q \in Nat, r <= q, NEW t \in Fraction
  PROVE  AtMost(Share(d, r, t), Share(d, q, t))
<1>1. CASE d <= ShortPeriod
  <2> DEFINE a == TimeShare(d, r)  b == TimeShare(d, q)
  <2>1. a \in Fraction /\ b \in Fraction /\ AtMost(a, b)
    BY TimeShareType
  <2>2. Share(d, r, t) = Times(a, Lesser(a, t)) /\ Share(d, q, t) = Times(b, Lesser(b, t))
    BY <1>1 DEF Share, ShortShare, TimeShare
  <2> HIDE DEF a, b
  <2>3. AtMost(Lesser(a, t), Lesser(b, t)) /\ Lesser(a, t) \in Fraction /\ Lesser(b, t) \in Fraction
    BY <2>1, LesserBelow, AtMostOrder, FractionType
  <2> QED  BY <2>1, <2>2, <2>3, TimesAtMost
<1>2. CASE ~(d <= ShortPeriod)
  BY <1>2, LongShareTime DEF Share
<1> QED  BY <1>1, <1>2

LEMMA ShareTraffic ==
  ASSUME NEW d \in Nat \ {0}, NEW r \in Nat \ {0}, NEW t \in Fraction, NEW v \in Fraction,
         t.den = v.den, t.num <= v.num
  PROVE  AtMost(Share(d, r, t), Share(d, r, v))
<1>1. CASE d <= ShortPeriod
  <2> DEFINE a == TimeShare(d, r)
  <2>1. a \in Fraction
    BY TimeShareType
  <2>2. Share(d, r, t) = Times(a, Lesser(a, t)) /\ Share(d, r, v) = Times(a, Lesser(a, v))
    BY <1>1 DEF Share, ShortShare, TimeShare
  <2>3. AtMost(t, v)
    BY FractionParts, Scaled DEF AtMost
  <2> HIDE DEF a
  <2>4. AtMost(Lesser(a, t), Lesser(a, v)) /\ Lesser(a, t) \in Fraction /\ Lesser(a, v) \in Fraction
    BY <2>1, <2>3, LesserBelow, FractionType
  <2> QED  BY <2>1, <2>2, <2>4, TimesAtMost, AtMostOrder
<1>2. CASE ~(d <= ShortPeriod)
  BY <1>2, LongShareTraffic DEF Share
<1> QED  BY <1>1, <1>2

LEMMA ZeroAtMost == \A a \in Fraction : AtMost(Whole(0), a) /\ (a.num = 0 => AtMost(a, Whole(0)))
BY DEF Fraction, AtMost, Whole

\* Without an amount or without time there is nothing.
LEMMA ResidualIs ==
  ASSUME NEW a \in Fraction, NEW d, NEW r \in Nat, NEW t
  PROVE  Residual(a, d, r, t) = IF a.num = 0 \/ r = 0 THEN Whole(0)
                                ELSE Lesser(a, Times(a, Share(d, r, t)))
<1>1. a.num <= 0 \/ r <= 0 <=> a.num = 0 \/ r = 0
  BY FractionParts
<1> QED  BY <1>1 DEF Residual, Share

\* An order's residual is a fraction, no more than the amount for its time.
LEMMA ResidualType ==
  ASSUME NEW a \in Fraction, NEW d \in Nat \ {0}, NEW r \in Nat, NEW t \in Fraction
  PROVE  /\ Residual(a, d, r, t) \in Fraction
         /\ AtMost(t, Whole(1)) => AtMost(Residual(a, d, r, t), Times(a, TimeShare(d, r)))
<1>1. TimeShare(d, r) \in Fraction /\ Times(a, TimeShare(d, r)) \in Fraction /\ Whole(0) \in Fraction
  BY TimeShareType, FractionType
<1>2. CASE a.num = 0 \/ r = 0
  <2>1. Residual(a, d, r, t) = Whole(0)
    BY <1>2, ResidualIs
  <2> QED  BY <1>1, <2>1, ZeroAtMost
<1>3. CASE ~(a.num = 0 \/ r = 0)
  <2>1. Residual(a, d, r, t) = Lesser(a, Times(a, Share(d, r, t)))
    BY <1>3, ResidualIs
  <2>2. r \in Nat \ {0}
    BY <1>3
  <2>3. /\ Share(d, r, t) \in Fraction /\ Times(a, Share(d, r, t)) \in Fraction
        /\ AtMost(t, Whole(1)) => AtMost(Share(d, r, t), TimeShare(d, r))
    BY <2>2, ShareType, FractionType
  <2>4. AtMost(t, Whole(1)) => AtMost(Times(a, Share(d, r, t)), Times(a, TimeShare(d, r)))
    BY <1>1, <2>3, TimesAtMost, AtMostOrder
  <2>5. Residual(a, d, r, t) \in Fraction /\ AtMost(Residual(a, d, r, t), Times(a, Share(d, r, t)))
    BY <2>1, <2>3, LesserBelow, FractionType
  <2> QED  BY <1>1, <2>3, <2>4, <2>5, AtMostOrder
<1> QED  BY <1>2, <1>3

\* A long order whose traffic is unused is worth what its time cost.
LEMMA ResidualFull ==
  ASSUME NEW a \in Fraction, NEW d \in Nat \ {0}, d > ShortPeriod, NEW r \in Nat, r <= d,
         NEW t \in Fraction, t.num = t.den
  PROVE  AtMost(Times(a, TimeShare(d, r)), Residual(a, d, r, t))
<1> DEFINE full == Times(a, TimeShare(d, r))
<1>1. TimeShare(d, r) \in Fraction /\ full \in Fraction /\ Whole(0) \in Fraction /\ Whole(1) \in Fraction
  BY TimeShareType, FractionType
<1>2. CASE a.num = 0 \/ r = 0
  <2>1. Residual(a, d, r, t) = Whole(0)
    BY <1>2, ResidualIs
  <2>2. full.num = 0
    BY <1>2, FractionParts DEF Times, TimeShare
  <2> HIDE DEF full
  <2> QED  BY <1>1, <2>1, <2>2, ZeroAtMost DEF full
<1>3. CASE ~(a.num = 0 \/ r = 0)
  <2> DEFINE share == Share(d, r, t)
  <2>1. Residual(a, d, r, t) = Lesser(a, Times(a, share))
    BY <1>3, ResidualIs
  <2>2. r \in Nat \ {0} /\ ~(d <= ShortPeriod)
    BY <1>3, SurplusNumbers
  <2>3. share \in Fraction /\ AtMost(TimeShare(d, r), share) /\ Times(a, share) \in Fraction
    <3>1. share = LongShare(d, r, t)
      BY <2>2 DEF Share
    <3> QED  BY <2>2, <3>1, LongShareType, FractionType DEF TimeShare
  <2> HIDE DEF share
  <2>4. AtMost(full, Times(a, share))
    BY <1>1, <2>3, TimesAtMost, AtMostOrder
  <2>5. AtMost(full, a)
    <3>1. AtMost(TimeShare(d, r), Whole(1))
      BY DEF AtMost, TimeShare, Whole
    <3>2. AtMost(full, Times(a, Whole(1)))
      BY <1>1, <3>1, TimesAtMost, AtMostOrder
    <3>3. Times(a, Whole(1)) = a
      BY DEF Fraction, Times, Whole
    <3> QED  BY <3>2, <3>3
  <2> HIDE DEF full
  <2>6. Lesser(full, full) = full
    BY DEF Lesser
  <2>7. AtMost(Lesser(full, full), Lesser(a, Times(a, share)))
    BY <1>1, <2>3, <2>4, <2>5, LesserBelow
  <2> QED  BY <2>1, <2>6, <2>7 DEF full
<1> QED  BY <1>2, <1>3

\* It grows with the time and with the traffic that is left.
LEMMA ResidualTime ==
  ASSUME NEW a \in Fraction, NEW d \in Nat \ {0}, NEW r \in Nat, NEW q \in Nat, r <= q,
         NEW t \in Fraction
  PROVE  AtMost(Residual(a, d, r, t), Residual(a, d, q, t))
<1>1. CASE a.num = 0 \/ r = 0
  BY <1>1, ResidualIs, ResidualType, ZeroAtMost
<1>2. CASE ~(a.num = 0 \/ r = 0)
  <2>1. r \in Nat \ {0} /\ q \in Nat \ {0}
    BY <1>2
  <2>2. /\ Residual(a, d, r, t) = Lesser(a, Times(a, Share(d, r, t)))
        /\ Residual(a, d, q, t) = Lesser(a, Times(a, Share(d, q, t)))
    BY <1>2, <2>1, ResidualIs
  <2>3. /\ Share(d, r, t) \in Fraction /\ Share(d, q, t) \in Fraction
        /\ AtMost(Share(d, r, t), Share(d, q, t))
    BY <2>1, ShareType, ShareTime
  <2>4. /\ Times(a, Share(d, r, t)) \in Fraction /\ Times(a, Share(d, q, t)) \in Fraction
        /\ AtMost(Times(a, Share(d, r, t)), Times(a, Share(d, q, t)))
    BY <2>3, TimesAtMost, AtMostOrder, FractionType
  <2> QED  BY <2>2, <2>4, LesserBelow
<1> QED  BY <1>1, <1>2

LEMMA ResidualTraffic ==
  ASSUME NEW a \in Fraction, NEW d \in Nat \ {0}, NEW r \in Nat, NEW t \in Fraction,
         NEW v \in Fraction, t.den = v.den, t.num <= v.num
  PROVE  AtMost(Residual(a, d, r, t), Residual(a, d, r, v))
<1>1. CASE a.num = 0 \/ r = 0
  BY <1>1, ResidualIs, ResidualType, ZeroAtMost
<1>2. CASE ~(a.num = 0 \/ r = 0)
  <2>1. r \in Nat \ {0}
    BY <1>2
  <2>2. /\ Residual(a, d, r, t) = Lesser(a, Times(a, Share(d, r, t)))
        /\ Residual(a, d, r, v) = Lesser(a, Times(a, Share(d, r, v)))
    BY <1>2, <2>1, ResidualIs
  <2>3. /\ Share(d, r, t) \in Fraction /\ Share(d, r, v) \in Fraction
        /\ AtMost(Share(d, r, t), Share(d, r, v))
    BY <2>1, ShareType, ShareTraffic
  <2>4. /\ Times(a, Share(d, r, t)) \in Fraction /\ Times(a, Share(d, r, v)) \in Fraction
        /\ AtMost(Times(a, Share(d, r, t)), Times(a, Share(d, r, v)))
    BY <2>3, TimesAtMost, AtMostOrder, FractionType
  <2> QED  BY <2>2, <2>4, LesserBelow
<1> QED  BY <1>1, <1>2

-----------------------------------------------------------------------------
(* The residual value of a subscription: its orders *)

\* A finite set of fractions has a greatest.
LEMMA GreatestFraction ==
  ASSUME NEW S, IsFiniteSet(S), S \subseteq Fraction, S # {}
  PROVE  \E a \in S : \A b \in S : AtMost(b, a)
<1> DEFINE T == {A \in SUBSET S : A = {} \/ \E a \in A : \A b \in A : AtMost(b, a)}
<1>1. {} \in T
  OBVIOUS
<1>2. ASSUME NEW A \in SUBSET S, NEW x \in S, x \notin A, A \in T PROVE A \cup {x} \in T
  <2>1. x \in Fraction /\ A \subseteq Fraction /\ AtMost(x, x)
    BY AtMostOrder
  <2>2. CASE A = {}
    BY <2>1, <2>2
  <2>3. CASE A # {}
    <3>1. PICK a \in A : \A b \in A : AtMost(b, a)
      BY <1>2, <2>3
    <3>2. a \in Fraction
      BY <2>1
    <3>3. CASE AtMost(x, a)
      <4>1. \A b \in A \cup {x} : AtMost(b, a)
        BY <3>1, <3>3
      <4> QED  BY <4>1
    <3>4. CASE AtMost(a, x)
      <4>1. \A b \in A \cup {x} : AtMost(b, x)
        BY <2>1, <3>1, <3>2, <3>4, AtMostOrder
      <4> QED  BY <4>1
    <3> QED  BY <2>1, <3>2, <3>3, <3>4, AtMostOrder
  <2> QED  BY <2>2, <2>3
<1>3. S \in T
  <2> HIDE DEF T
  <2>1. \A A \in SUBSET S, x \in S : x \notin A /\ A \in T => A \cup {x} \in T
    BY <1>2
  <2> QED  BY <1>1, <2>1, SubsetInduction
<1> QED  BY <1>3

\* The plan has a dearest month.
LEMMA MonthlyValueType == MonthlyValue \in Fraction
<1> DEFINE P == DOMAIN Length
           f == [p \in P |-> [num |-> Price[p], den |-> Months[p]]]
           once == [num |-> Price["onetime"], den |-> 12]
           offers == {[num |-> Price[p], den |-> Months[p]] : p \in P} \cup {once}
<1>1. \A p \in P : f[p] \in Fraction
  BY SurplusAssumption DEF Fraction
<1>2. once \in Fraction
  BY SurplusAssumption DEF Fraction
<1>3. {[num |-> Price[p], den |-> Months[p]] : p \in P} = {f[p] : p \in P}
  OBVIOUS
<1>4. offers \subseteq Fraction
  <2> HIDE DEF f, once
  <2> QED  BY <1>1, <1>2, <1>3
<1>5. IsFiniteSet(offers)
  <2>1. f \in Surjection(P, {f[p] : p \in P})
    BY DEF Surjection
  <2>2. IsFiniteSet(P)
    BY SurplusAssumption
  <2>3. IsFiniteSet({f[p] : p \in P})
    <3> HIDE DEF f
    <3> QED  BY <2>1, <2>2, FS_Surjection
  <2> HIDE DEF f, once
  <2> QED  BY <1>3, <2>3, FS_AddElement
<1>6. MonthlyValue = CHOOSE best \in offers : \A offer \in offers : AtMost(offer, best)
  BY DEF MonthlyValue
<1>7. offers # {}
  OBVIOUS
<1> HIDE DEF offers
<1>8. \E best \in offers : \A offer \in offers : AtMost(offer, best)
  BY <1>4, <1>5, <1>7, GreatestFraction
<1> QED  BY <1>4, <1>6, <1>8

\* The orders of a subscription, newest first, and what the plan gave and the
\* customer used.
PeriodInputs(items, left, quota, used, gifts) ==
  /\ items \in Seq(Range(items))
  /\ \A i \in DOMAIN items : items[i].value \in Nat /\ items[i].days \in Nat
  /\ left \in Int /\ quota \in Nat /\ used \in Nat /\ gifts \in BOOLEAN

LEMMA ItemType ==
  ASSUME NEW item, item.value \in Nat, item.days \in Nat
  PROVE  Amount(item) \in Fraction /\ Duration(item) \in Nat
<1>1. Duration(item) \in Nat
  BY SurplusAssumption DEF Duration
<1>2. GiftValue(item) \in Fraction
  <2>1. CASE item.period \in DOMAIN Length
    <3>1. Price[item.period] \in Nat
      BY <2>1, SurplusAssumption
    <3> QED  BY <2>1, <3>1, FractionType DEF GiftValue
  <2>2. CASE item.period \notin DOMAIN Length
    <3>1. [num |-> item.days, den |-> Month] \in Fraction
      BY SurplusNumbers DEF Fraction
    <3> QED  BY <2>2, <3>1, MonthlyValueType, FractionType DEF GiftValue
  <2> QED  BY <2>1, <2>2
<1> QED  BY <1>1, <1>2, FractionType DEF Amount

\* The time of the orders before grows by that of each.
LEMMA TimeBeforeStep ==
  ASSUME NEW items, NEW n \in Nat, \A j \in 1..n : Duration(items[j]) \in Nat
  PROVE  /\ TimeBefore(items, 0) = 0
         /\ \A i \in 0..n : TimeBefore(items, i) \in Nat
         /\ \A i \in 1..n : TimeBefore(items, i) = TimeBefore(items, i - 1) + Duration(items[i])
<1>1. TimeBefore(items, 0) = 0
  <2>1. 1..0 = {}
    OBVIOUS
  <2> QED  BY <2>1, SumEmpty DEF TimeBefore
<1>2. ASSUME NEW i \in 0..n PROVE TimeBefore(items, i) \in Nat
  <2> DEFINE f == [j \in 1..i |-> Duration(items[j])]
  <2>1. IsFiniteSet(1..i) /\ \A j \in 1..i : f[j] \in Nat
    BY FS_Interval
  <2> HIDE DEF f
  <2>2. SumFunctionOnSet(f, 1..i) \in Nat
    BY <2>1, SumType
  <2> QED  BY <2>2 DEF TimeBefore, f
<1>3. ASSUME NEW i \in 1..n
      PROVE  TimeBefore(items, i) = TimeBefore(items, i - 1) + Duration(items[i])
  <2> DEFINE f == [j \in 1..i |-> Duration(items[j])]
             g == [j \in 1..(i - 1) |-> Duration(items[j])]
             before == 1..(i - 1)
  <2>1. IsFiniteSet(before) /\ 1..i = before \cup {i} /\ i \notin before
    <3>1. i - 1 \in Int
      OBVIOUS
    <3>2. IsFiniteSet(before)
      BY <3>1, FS_Interval
    <3> QED  BY <3>2
  <2>2. /\ f[i] = Duration(items[i]) /\ f[i] \in Int
        /\ \A j \in before : f[j] \in Int /\ g[j] = f[j]
    OBVIOUS
  <2> HIDE DEF f, g, before
  <2>3. SumFunctionOnSet(f, before \cup {i}) = SumFunctionOnSet(f, before) + f[i]
    BY <2>1, <2>2, SumAdd
  <2>4. SumFunctionOnSet(g, before) = SumFunctionOnSet(f, before)
    BY <2>1, <2>2, SumSame
  <2>5. TimeBefore(items, i) = SumFunctionOnSet(f, 1..i)
    BY DEF TimeBefore, f
  <2>6. TimeBefore(items, i - 1) = SumFunctionOnSet(g, before)
    BY DEF TimeBefore, g, before
  <2> QED  BY <2>1, <2>2, <2>3, <2>4, <2>5, <2>6
<1> QED  BY <1>1, <1>2, <1>3

\* The time of an order that is still to come, as Passed measures it: it is as
\* much as TimeOf has units.
ToCome(items, i, left) ==
  Above(0, (left - TimeBefore(items, i - 1)) - Above(0, left - TimeBefore(items, i)))

LEMMA ToComeIs ==
  ASSUME NEW items, NEW n \in Nat, \A j \in 1..n : Duration(items[j]) \in Nat,
         NEW i \in 1..n, NEW left \in Int
  PROVE  /\ ToCome(items, i, left) \in Nat /\ ToCome(items, i, left) <= Duration(items[i])
         /\ left <= 0 => ToCome(items, i, left) = 0
         /\ ToCome(items, i, left - 1) \in Nat /\ ToCome(items, i, left - 1) <= ToCome(items, i, left)
         /\ Cardinality(TimeOf(items, i, left)) = ToCome(items, i, left)
<1> DEFINE a == TimeBefore(items, i - 1)  b == TimeBefore(items, i)  d == Duration(items[i])
<1>1. a \in Nat /\ b \in Nat /\ d \in Nat /\ b = a + d
  BY TimeBeforeStep
<1>2. /\ ToCome(items, i, left) = Above(0, (left - a) - Above(0, left - b))
      /\ ToCome(items, i, left - 1) = Above(0, ((left - 1) - a) - Above(0, (left - 1) - b))
  BY DEF ToCome
<1>3. TimeOf(items, i, left) = {t \in 0..(left - 1) : left - b <= t /\ t < left - a}
  BY Zenon DEF TimeOf
<1> HIDE DEF a, b, d
<1>4. /\ Above(0, (left - a) - Above(0, left - b)) \in Nat
      /\ Above(0, (left - a) - Above(0, left - b)) <= d
      /\ left <= 0 => Above(0, (left - a) - Above(0, left - b)) = 0
      /\ Above(0, ((left - 1) - a) - Above(0, (left - 1) - b)) \in Nat
      /\ Above(0, ((left - 1) - a) - Above(0, (left - 1) - b))
           <= Above(0, (left - a) - Above(0, left - b))
  BY <1>1 DEF Above
<1>5. Cardinality(TimeOf(items, i, left)) = ToCome(items, i, left)
  <2> DEFINE low == Above(0, left - b)
  <2>1. low \in Int
    BY <1>1 DEF Above
  <2>2. TimeOf(items, i, left) = {t \in Int : low <= t /\ t < left - a}
    BY <1>1, <1>3 DEF Above
  <2> HIDE DEF low
  <2>3. Cardinality({t \in Int : low <= t /\ t < left - a}) = Above(0, (left - a) - low)
    BY <1>1, <2>1, UnitsBetween
  <2> QED  BY <1>2, <2>2, <2>3 DEF low
<1> QED  BY <1>2, <1>4, <1>5 DEF d

PeriodState == [end : Int, paid : BOOLEAN, sum : Fraction]

LEMMA PeriodStepType ==
  ASSUME NEW item, item.value \in Nat, item.days \in Nat, NEW traffic \in Fraction, NEW gifts,
         NEW acc \in PeriodState
  PROVE  PeriodStep(acc, item, traffic, gifts) \in PeriodState
<1> DEFINE d == Duration(item)  start == acc.end - d
           remaining == Above(0, acc.end - Above(0, start))
           residual == Residual(Amount(item), d, remaining, traffic)
<1>1. acc.end \in Int /\ acc.paid \in BOOLEAN /\ acc.sum \in Fraction
  BY DEF PeriodState
<1>2. d \in Nat /\ Amount(item) \in Fraction
  BY ItemType
<1>3. start \in Int /\ remaining \in Nat
  <2> HIDE DEF d
  <2> QED  BY <1>1, <1>2 DEF Above
<1>4. PeriodStep(acc, item, traffic, gifts)
        = IF d <= 0 THEN acc
          ELSE [end |-> start, paid |-> acc.paid \/ item.value > 0,
                sum |-> IF ~(IF item.value > 0 THEN ~acc.paid ELSE gifts /\ remaining # 0) THEN acc.sum
                        ELSE Plus(acc.sum, residual)]
  BY Zenon DEF PeriodStep, Passed
<1>5. d # 0 => residual \in Fraction
  <2> HIDE DEF d, remaining
  <2> QED  BY <1>2, <1>3, ResidualType
<1>6. (acc.paid \/ item.value > 0) \in BOOLEAN
  OBVIOUS
<1> HIDE DEF d, start, residual, remaining
<1>7. d # 0 => Plus(acc.sum, residual) \in Fraction
  BY <1>1, <1>5, FractionType
<1>8. CASE d = 0
  BY <1>4, <1>8
<1>9. CASE d # 0
  <2>1. ~(d <= 0)
    BY <1>2, <1>9
  <2> QED  BY <1>1, <1>3, <1>4, <1>6, <1>7, <1>9, <2>1 DEF PeriodState
<1> QED  BY <1>8, <1>9

\* The orders one after the other.
LEMMA InputsAre ==
  ASSUME NEW items, NEW left, NEW quota, NEW used, NEW gifts,
         PeriodInputs(items, left, quota, used, gifts)
  PROVE  /\ Len(items) \in Nat /\ DOMAIN items = 1..Len(items)
         /\ \A i \in 1..Len(items) :
              /\ items[i].value \in Nat /\ items[i].days \in Nat
              /\ Amount(items[i]) \in Fraction /\ Duration(items[i]) \in Nat
<1>1. items \in Seq(Range(items))
  BY DEF PeriodInputs
<1>2. Len(items) \in Nat /\ DOMAIN items = 1..Len(items)
  <2> DEFINE S == Range(items)
  <2>1. items \in Seq(S)
    BY <1>1
  <2> HIDE DEF S
  <2> QED  BY ONLY <2>1
<1>3. \A i \in 1..Len(items) : items[i].value \in Nat /\ items[i].days \in Nat
  BY <1>2 DEF PeriodInputs
<1> QED  BY <1>2, <1>3, ItemType

LEMMA PeriodWalkIs ==
  ASSUME NEW items, NEW left, NEW quota, NEW used, NEW gifts,
         PeriodInputs(items, left, quota, used, gifts), NEW traffic \in Fraction,
         NEW walk, walk = PeriodWalk(items, left, traffic, gifts)
  PROVE  /\ walk \in [0..Len(items) -> PeriodState]
         /\ walk[0] = [end |-> left, paid |-> FALSE, sum |-> Whole(0)]
         /\ \A i \in 1..Len(items) : walk[i] = PeriodStep(walk[i - 1], items[i], traffic, gifts)
<1> DEFINE n == Len(items)
           first == [end |-> left, paid |-> FALSE, sum |-> Whole(0)]
           Unfold(f) == [i \in 0..n |-> IF i = 0 THEN first
                           ELSE PeriodStep(f[i - 1], items[i], traffic, gifts)]
           G == [i \in 1..n |-> [x \in PeriodState |-> PeriodStep(x, items[i], traffic, gifts)]]
<1>1. walk = CHOOSE f : f = Unfold(f)
  BY Zenon DEF PeriodWalk
<1>2. n \in Nat /\ \A i \in 1..n : items[i].value \in Nat /\ items[i].days \in Nat
  BY InputsAre
<1>3. first \in PeriodState
  BY FractionType DEF PeriodInputs, PeriodState
<1>4. Steps(G, n, PeriodState)
  <2>1. \A i \in 1..n, x \in PeriodState : PeriodStep(x, items[i], traffic, gifts) \in PeriodState
    BY <1>2, PeriodStepType
  <2> QED  BY <2>1 DEF Steps
<1> HIDE DEF n, first
<1>5. PICK f : Walks(f, G, n, PeriodState, first)
  <2> HIDE DEF G
  <2> QED  BY <1>2, <1>3, <1>4, WalkExists
<1>6. f = Unfold(f)
  <2>1. ASSUME NEW i \in 0..n PROVE f[i] = Unfold(f)[i]
    <3>1. CASE i = 0
      BY <1>5, <3>1 DEF Walks
    <3>2. CASE i # 0
      <4>1. i \in 1..n /\ f[i - 1] \in PeriodState /\ f[i] = G[i][f[i - 1]]
        BY <1>2, <1>5, <3>2 DEF Walks
      <4> QED  BY <3>2, <4>1
    <3> QED  BY <3>1, <3>2
  <2> HIDE DEF G
  <2> QED  BY <1>5, <2>1 DEF Walks
<1>7. walk = Unfold(walk)
  <2> HIDE DEF Unfold
  <2> QED  BY <1>1, <1>6
<1>8. \A i \in 0..n : walk[i] = Unfold(walk)[i]
  BY <1>7
<1>9. walk = [i \in 0..n |-> walk[i]] /\ walk[0] = first
  BY <1>2, <1>7, <1>8
<1>10. ASSUME NEW i \in 1..n PROVE walk[i] = PeriodStep(walk[i - 1], items[i], traffic, gifts)
  <2>1. i \in 0..n /\ i # 0
    BY <1>2
  <2> QED  BY <1>8, <2>1
<1>11. Walks(walk, G, n, PeriodState, first)
  <2>1. \A i \in 1..n : walk[i - 1] \in PeriodState => walk[i] = G[i][walk[i - 1]]
    BY <1>10
  <2> HIDE DEF G
  <2> QED  BY <1>2, <1>3, <1>4, <1>9, <2>1, WalkIs
<1> QED  BY <1>9, <1>10, <1>11 DEF Walks, n, first

\* The orders that are credited: those that last, of which the newest that cost
\* something, and gifts.
PeriodCredited(items, gifts) ==
  LET lasting == {i \in DOMAIN items : Duration(items[i]) > 0}
      value   == [i \in DOMAIN items |-> IF i \in lasting THEN items[i].value ELSE 0]
  IN  Credited(value, {i \in lasting : gifts /\ items[i].value = 0})

PaidUpTo(items, i) == \E j \in 1..i : Duration(items[j]) > 0 /\ items[j].value > 0

LEMMA PeriodCreditedIs ==
  ASSUME NEW items, NEW left, NEW quota, NEW used, NEW gifts,
         PeriodInputs(items, left, quota, used, gifts), NEW i \in 1..Len(items)
  PROVE  i \in PeriodCredited(items, gifts)
           <=> /\ Duration(items[i]) > 0
               /\ \/ items[i].value > 0 /\ ~PaidUpTo(items, i - 1)
                  \/ items[i].value = 0 /\ gifts
<1> DEFINE n == Len(items)
           lasting == {k \in DOMAIN items : Duration(items[k]) > 0}
           value == [k \in DOMAIN items |-> IF k \in lasting THEN items[k].value ELSE 0]
<1>1. /\ n \in Nat /\ DOMAIN items = 1..n
      /\ \A k \in 1..n : items[k].value \in Nat /\ Duration(items[k]) \in Nat
  BY InputsAre
<1>2. PeriodCredited(items, gifts) = Credited(value, {k \in lasting : gifts /\ items[k].value = 0})
  BY Zenon DEF PeriodCredited
<1> HIDE DEF n
<1>3. /\ DOMAIN value = 1..n
      /\ \A k \in 1..n : value[k] = IF Duration(items[k]) > 0 THEN items[k].value ELSE 0
  BY <1>1
<1>4. \A k \in 1..n : k \in lasting <=> Duration(items[k]) > 0
  BY <1>1
<1> HIDE DEF value, lasting
<1>5. i \in 1..n /\ \A j \in 1..(i - 1) : j \in 1..n
  BY <1>1 DEF n
<1>6. (\A j \in 1..(i - 1) : value[j] = 0) <=> ~PaidUpTo(items, i - 1)
  <2>1. ASSUME NEW j \in 1..(i - 1)
        PROVE  value[j] = 0 <=> ~(Duration(items[j]) > 0 /\ items[j].value > 0)
    <3>1. j \in 1..n
      BY <1>5
    <3>2. /\ value[j] = IF Duration(items[j]) > 0 THEN items[j].value ELSE 0
          /\ items[j].value \in Nat
      BY <1>1, <1>3, <3>1
    <3> QED  BY <3>2
  <2> QED  BY <2>1 DEF PaidUpTo
<1>7. i \in PeriodCredited(items, gifts)
        <=> \/ value[i] > 0 /\ ~PaidUpTo(items, i - 1)
            \/ i \in lasting /\ gifts /\ items[i].value = 0
  BY <1>2, <1>3, <1>5, <1>6 DEF Credited
<1>8. Duration(items[i]) \in Nat /\ items[i].value \in Nat
  BY <1>1, <1>5
<1> QED  BY <1>3, <1>4, <1>5, <1>7, <1>8

\* What each order gives with the traffic that is left, and what its time cost.
Given(items, left, traffic, gifts) ==
  [i \in DOMAIN items |-> IF i \in PeriodCredited(items, gifts)
                          THEN Residual(Amount(items[i]), Duration(items[i]), ToCome(items, i, left), traffic)
                          ELSE Whole(0)]

TimeBought(items, left, gifts) ==
  [i \in DOMAIN items |-> IF i \in PeriodCredited(items, gifts)
                          THEN Times(Amount(items[i]), TimeShare(Duration(items[i]), ToCome(items, i, left)))
                          ELSE Whole(0)]

LEMMA GivenType ==
  ASSUME NEW items, NEW left, NEW quota, NEW used, NEW gifts,
         PeriodInputs(items, left, quota, used, gifts), NEW traffic \in Fraction
  PROVE  \A i \in 1..Len(items) :
           /\ Given(items, left, traffic, gifts)[i] \in Fraction
           /\ TimeBought(items, left, gifts)[i] \in Fraction
           /\ left <= 0 => /\ Given(items, left, traffic, gifts)[i] = Whole(0)
                           /\ AtMost(TimeBought(items, left, gifts)[i], Whole(0))
<1>1. /\ Len(items) \in Nat /\ DOMAIN items = 1..Len(items) /\ left \in Int
      /\ \A i \in 1..Len(items) : Amount(items[i]) \in Fraction /\ Duration(items[i]) \in Nat
  BY InputsAre DEF PeriodInputs
<1> SUFFICES ASSUME NEW i \in 1..Len(items)
             PROVE  /\ Given(items, left, traffic, gifts)[i] \in Fraction
                    /\ TimeBought(items, left, gifts)[i] \in Fraction
                    /\ left <= 0 => /\ Given(items, left, traffic, gifts)[i] = Whole(0)
                                    /\ AtMost(TimeBought(items, left, gifts)[i], Whole(0))
  OBVIOUS
<1> DEFINE a == Amount(items[i])  d == Duration(items[i])  r == ToCome(items, i, left)
<1>2. a \in Fraction /\ d \in Nat
  BY <1>1
<1>3. r \in Nat /\ (left <= 0 => r = 0)
  BY <1>1, ToComeIs
<1>4. Whole(0) \in Fraction /\ AtMost(Whole(0), Whole(0))
  BY FractionType, AtMostOrder
<1>5. CASE i \notin PeriodCredited(items, gifts)
  <2>1. Given(items, left, traffic, gifts)[i] = Whole(0) /\ TimeBought(items, left, gifts)[i] = Whole(0)
    BY <1>1, <1>5 DEF Given, TimeBought
  <2> QED  BY <1>4, <2>1
<1>6. CASE i \in PeriodCredited(items, gifts)
  <2>1. d \in Nat \ {0}
    BY <1>2, <1>6, PeriodCreditedIs
  <2>2. /\ Given(items, left, traffic, gifts)[i] = Residual(a, d, r, traffic)
        /\ TimeBought(items, left, gifts)[i] = Times(a, TimeShare(d, r))
    BY <1>1, <1>6 DEF Given, TimeBought
  <2> HIDE DEF a, d, r
  <2>3. Residual(a, d, r, traffic) \in Fraction /\ Times(a, TimeShare(d, r)) \in Fraction
    BY <1>2, <1>3, <2>1, ResidualType, TimeShareType, FractionType
  <2>4. ASSUME left <= 0
        PROVE  Residual(a, d, r, traffic) = Whole(0) /\ AtMost(Times(a, TimeShare(d, r)), Whole(0))
    <3>1. r = 0
      BY <1>3, <2>4
    <3>2. Residual(a, d, r, traffic) = Whole(0)
      BY <1>2, <1>3, <3>1, ResidualIs
    <3>3. Times(a, TimeShare(d, r)).num = 0
      BY <1>2, <3>1, FractionParts DEF Times, TimeShare
    <3> QED  BY <2>3, <3>2, <3>3, ZeroAtMost
  <2> QED  BY <2>2, <2>3, <2>4
<1> QED  BY <1>5, <1>6

\* What PeriodWalk has after i orders: the time that is left to the older ones,
\* whether an order that cost something was seen, and the sum of what was given.
LEMMA PeriodWalked ==
  ASSUME NEW items, NEW left, NEW quota, NEW used, NEW gifts,
         PeriodInputs(items, left, quota, used, gifts), NEW traffic \in Fraction
  PROVE  PeriodWalk(items, left, traffic, gifts)[Len(items)].sum
           = Summed(Given(items, left, traffic, gifts), Len(items))
<1> DEFINE n == Len(items)
           given == Given(items, left, traffic, gifts)
           part == PartialSums(given, n)
           walk == PeriodWalk(items, left, traffic, gifts)
           Reached(i) == /\ walk[i].end = left - TimeBefore(items, i)
                         /\ walk[i].paid = PaidUpTo(items, i)
                         /\ walk[i].sum = part[i]
           T == {i \in 0..n : Reached(i)}
<1>1. /\ n \in Nat /\ DOMAIN items = 1..n /\ left \in Int
      /\ \A i \in 1..n : /\ Amount(items[i]) \in Fraction /\ Duration(items[i]) \in Nat
                         /\ items[i].value \in Nat
  BY InputsAre DEF PeriodInputs
<1>2. /\ walk \in [0..n -> PeriodState]
      /\ walk[0] = [end |-> left, paid |-> FALSE, sum |-> Whole(0)]
      /\ \A i \in 1..n : walk[i] = PeriodStep(walk[i - 1], items[i], traffic, gifts)
  <2>1. PICK w : w = PeriodWalk(items, left, traffic, gifts)
    OBVIOUS
  <2> QED  BY <2>1, PeriodWalkIs
<1>3. \A i \in 1..n : given[i] \in Fraction
  BY GivenType
<1>4. /\ part \in [0..n -> Fraction] /\ part[0] = Whole(0)
      /\ \A i \in 1..n : part[i] = Plus(part[i - 1], given[i])
  <2> HIDE DEF given, n
  <2> QED  BY <1>1, <1>3, PartialSumsAre
<1>5. /\ TimeBefore(items, 0) = 0
      /\ \A i \in 0..n : TimeBefore(items, i) \in Nat
      /\ \A i \in 1..n : TimeBefore(items, i) = TimeBefore(items, i - 1) + Duration(items[i])
  <2> HIDE DEF n
  <2> QED  BY <1>1, TimeBeforeStep
<1>6. 0 \in T
  <2>1. walk[0].end = left /\ walk[0].paid = FALSE /\ walk[0].sum = Whole(0)
    <3>1. walk[0] = [end |-> left, paid |-> FALSE, sum |-> Whole(0)]
      BY <1>2
    <3> QED  BY ONLY <3>1
  <2>2. PaidUpTo(items, 0) = FALSE
    BY DEF PaidUpTo
  <2>3. left - TimeBefore(items, 0) = left
    BY <1>1, <1>5
  <2> HIDE DEF walk, part, n
  <2>4. walk[0].end = left - TimeBefore(items, 0) /\ walk[0].sum = part[0]
    BY Zenon, <1>4, <2>1, <2>3
  <2>5. walk[0].paid = PaidUpTo(items, 0)
    BY Zenon, <2>1, <2>2
  <2>6. 0 \in 0..n
    BY <1>1
  <2> QED  BY <2>4, <2>5, <2>6
<1>7. ASSUME NEW i \in 1..n, i - 1 \in T PROVE i \in T
  <2> DEFINE acc == walk[i - 1]  item == items[i]  d == Duration(item)
             start == acc.end - d
             remaining == Above(0, acc.end - Above(0, start))
             residual == Residual(Amount(item), d, remaining, traffic)
             counted == IF item.value > 0 THEN ~acc.paid ELSE gifts /\ remaining # 0
  <2>1. /\ i \in 0..n /\ i - 1 \in 0..n /\ i \in Nat /\ i - 1 \in Nat
        /\ d \in Nat /\ item.value \in Nat /\ Amount(item) \in Fraction
        /\ TimeBefore(items, i - 1) \in Nat /\ TimeBefore(items, i) = TimeBefore(items, i - 1) + d
    BY <1>1, <1>5
  <2>2. /\ acc.end = left - TimeBefore(items, i - 1) /\ acc.paid = PaidUpTo(items, i - 1)
        /\ acc.sum = part[i - 1] /\ acc.sum \in Fraction
    <3>1. acc \in PeriodState
      BY <1>2, <2>1
    <3> HIDE DEF walk, part
    <3> QED  BY <1>7, <3>1 DEF PeriodState
  <2>3. start = left - TimeBefore(items, i)
    <3> HIDE DEF walk, d
    <3> QED  BY <1>1, <2>1, <2>2
  <2>4. remaining = ToCome(items, i, left) /\ remaining \in Nat
    <3>1. remaining = ToCome(items, i, left)
      <4> HIDE DEF start
      <4> QED  BY Zenon, <2>2, <2>3 DEF ToCome
    <3>2. ToCome(items, i, left) \in Nat
      BY <1>1, ToComeIs
    <3> QED  BY Zenon, <3>1, <3>2
  <2>5. walk[i] = IF d <= 0 THEN acc
                  ELSE [end |-> start, paid |-> acc.paid \/ item.value > 0,
                        sum |-> IF ~counted THEN acc.sum ELSE Plus(acc.sum, residual)]
    <3>1. walk[i] = PeriodStep(acc, item, traffic, gifts)
      BY <1>2
    <3> HIDE DEF walk, item
    <3> QED  BY Zenon, <3>1 DEF PeriodStep, Passed
  <2>6. PaidUpTo(items, i) = (PaidUpTo(items, i - 1) \/ (d > 0 /\ item.value > 0))
    <3>1. 1..i = (1..(i - 1)) \cup {i}
      BY <2>1
    <3> QED  BY Zenon, <3>1 DEF PaidUpTo
  <2>7. i \in PeriodCredited(items, gifts)
          <=> /\ d > 0
              /\ \/ item.value > 0 /\ ~PaidUpTo(items, i - 1)
                 \/ item.value = 0 /\ gifts
    BY PeriodCreditedIs
  <2>8. given[i] = IF i \in PeriodCredited(items, gifts)
                   THEN Residual(Amount(item), d, ToCome(items, i, left), traffic)
                   ELSE Whole(0)
    BY <1>1 DEF Given
  <2>9. part[i] = Plus(acc.sum, given[i])
    BY <1>4, <2>2
  <2>10. Plus(acc.sum, Whole(0)) = acc.sum
    BY <2>2 DEF Fraction, Plus, Whole
  <2> HIDE DEF acc, walk, part, given, n, start
  <2>11. CASE d = 0
    <3>1. walk[i] = acc
      BY <2>5, <2>11
    <3>2. PaidUpTo(items, i) = PaidUpTo(items, i - 1)
      <4>1. ~(d > 0)
        BY <2>11
      <4> HIDE DEF d
      <4> QED  BY Zenon, <2>6, <4>1 DEF PaidUpTo
    <3>3. given[i] = Whole(0)
      <4>1. ~(d > 0)
        BY <2>11
      <4> HIDE DEF d
      <4> QED  BY Zenon, <2>7, <2>8, <4>1
    <3>4. walk[i].end = left - TimeBefore(items, i)
      BY <1>1, <2>1, <2>2, <2>11, <3>1
    <3>5. walk[i].paid = PaidUpTo(items, i)
      BY Zenon, <2>2, <3>1, <3>2
    <3>6. walk[i].sum = part[i]
      BY Zenon, <2>9, <2>10, <3>1, <3>3
    <3> QED  BY <2>1, <3>4, <3>5, <3>6
  <2>12. CASE d # 0
    <3>1. d > 0 /\ ~(d <= 0)
      BY <2>1, <2>12
    <3>2. /\ walk[i].end = start /\ walk[i].paid = (acc.paid \/ item.value > 0)
          /\ walk[i].sum = IF ~counted THEN acc.sum ELSE Plus(acc.sum, residual)
      <4>1. walk[i] = [end |-> start, paid |-> acc.paid \/ item.value > 0,
                       sum |-> IF ~counted THEN acc.sum ELSE Plus(acc.sum, residual)]
        <5> HIDE DEF counted, residual, item, d
        <5> QED  BY Zenon, <2>5, <3>1
      <4> HIDE DEF counted, residual, item
      <4> QED  BY ONLY <4>1
    <3>3. walk[i].end = left - TimeBefore(items, i)
      BY Zenon, <2>3, <3>2
    <3>4. walk[i].paid = PaidUpTo(items, i)
      <4>1. PaidUpTo(items, i) = (PaidUpTo(items, i - 1) \/ item.value > 0)
        <5> HIDE DEF d, item
        <5> QED  BY Zenon, <2>6, <3>1 DEF PaidUpTo
      <4> QED  BY Zenon, <2>2, <3>2, <4>1
    <3>5. walk[i].sum = part[i]
      <4>1. CASE i \in PeriodCredited(items, gifts)
        <5>1. given[i] = residual
          <6> HIDE DEF d, item, remaining
          <6> QED  BY Zenon, <2>4, <2>8, <4>1
        <5>2. CASE counted
          BY Zenon, <2>9, <3>2, <5>1, <5>2
        <5>3. CASE ~counted
          <6>1. remaining = 0
            <7>1. item.value > 0 \/ item.value = 0
              BY <2>1
            <7>2. acc.paid = PaidUpTo(items, i - 1)
              BY <2>2
            <7> HIDE DEF d, item, remaining
            <7> QED  BY <2>7, <4>1, <5>3, <7>1, <7>2
          <6>2. residual = Whole(0)
            <7> HIDE DEF d, item, remaining
            <7> QED  BY <2>1, <2>4, <6>1, ResidualIs
          <6> QED  BY Zenon, <2>9, <2>10, <3>2, <5>1, <5>3, <6>2
        <5> QED  BY <5>2, <5>3
      <4>2. CASE i \notin PeriodCredited(items, gifts)
        <5>1. ~counted
          <6>1. item.value > 0 \/ item.value = 0
            BY <2>1
          <6>2. acc.paid = PaidUpTo(items, i - 1)
            BY <2>2
          <6> HIDE DEF d, item, remaining
          <6> QED  BY <2>1, <2>7, <3>1, <4>2, <6>1, <6>2
        <5>2. given[i] = Whole(0)
          BY Zenon, <2>8, <4>2
        <5> QED  BY Zenon, <2>9, <2>10, <3>2, <5>1, <5>2
      <4> QED  BY <4>1, <4>2
    <3> QED  BY <2>1, <3>3, <3>4, <3>5
  <2> QED  BY <2>11, <2>12
<1>8. n \in T
  <2> HIDE DEF T, n
  <2>1. n \in 0..n
    BY <1>1
  <2>2. \A i \in 1..n : i - 1 \in T => i \in T
    BY <1>7
  <2>3. n \in Nat
    BY <1>1
  <2>4. 0..n \subseteq T
    BY <1>6, <2>2, <2>3, UpTo
  <2> QED  BY <2>1, <2>4
<1>9. walk[n].sum = part[n]
  <2> HIDE DEF walk, part, n
  <2> QED  BY <1>8
<1> QED  BY <1>9 DEF Summed

\* Nothing adds up to nothing.
LEMMA SummedZero ==
  ASSUME NEW n \in Nat, NEW f, \A i \in 1..n : f[i] = Whole(0)
  PROVE  Summed(f, n) = Whole(0)
<1> DEFINE p == PartialSums(f, n)
           T == {i \in 0..n : p[i] = Whole(0)}
<1>1. /\ p[0] = Whole(0)
      /\ \A i \in 1..n : p[i] = Plus(p[i - 1], f[i])
  BY FractionType, PartialSumsAre
<1> HIDE DEF p
<1>2. Plus(Whole(0), Whole(0)) = Whole(0)
  BY DEF Plus, Whole
<1>3. 0 \in T
  BY <1>1
<1>4. ASSUME NEW i \in 1..n, i - 1 \in T PROVE i \in T
  BY <1>1, <1>2, <1>4
<1>5. n \in T
  <2> HIDE DEF T
  <2> QED  BY <1>3, <1>4, UpTo
<1> QED  BY <1>5 DEF Summed, p

LEMMA PeriodSurplusIs ==
  ASSUME NEW items, NEW left, NEW quota, NEW used, NEW gifts,
         PeriodInputs(items, left, quota, used, gifts)
  PROVE  /\ TrafficRatio(quota, used) \in Fraction /\ AtMost(TrafficRatio(quota, used), Whole(1))
         /\ PeriodSurplus(items, left, quota, used, gifts)
              = Floor(Summed(Given(items, left, TrafficRatio(quota, used), gifts), Len(items)))
<1> DEFINE t == TrafficRatio(quota, used)
<1>1. t \in Fraction /\ AtMost(t, Whole(1))
  BY DEF PeriodInputs, TrafficRatio, Fraction, Whole, AtMost, Above
<1>2. Len(items) \in Nat /\ left \in Int
  BY InputsAre DEF PeriodInputs
<1> HIDE DEF t
<1> DEFINE given == Given(items, left, t, gifts)
<1>3. PeriodWalk(items, left, t, gifts)[Len(items)].sum = Summed(given, Len(items))
  BY <1>1, PeriodWalked
<1>4. CASE left <= 0
  <2>1. \A i \in 1..Len(items) : given[i] = Whole(0)
    BY <1>1, <1>4, GivenType
  <2> HIDE DEF given
  <2>2. Summed(given, Len(items)) = Whole(0)
    BY <1>2, <2>1, SummedZero
  <2>3. Floor(Whole(0)) = 0
    BY DEF Floor, Whole
  <2>4. PeriodSurplus(items, left, quota, used, gifts) = 0
    BY <1>4 DEF PeriodSurplus
  <2> QED  BY <1>1, <2>2, <2>3, <2>4 DEF t, given
<1>5. CASE ~(left <= 0)
  <2>1. PeriodSurplus(items, left, quota, used, gifts)
          = Floor(PeriodWalk(items, left, t, gifts)[Len(items)].sum)
    BY Zenon, <1>5 DEF PeriodSurplus, t
  <2> HIDE DEF given
  <2>2. PeriodSurplus(items, left, quota, used, gifts) = Floor(Summed(given, Len(items)))
    BY <1>3, <2>1
  <2> QED  BY <1>1, <2>2 DEF t, given
<1> QED  BY <1>4, <1>5

LEMMA TimeValueIs ==
  ASSUME NEW items, NEW left, NEW quota, NEW used, NEW gifts,
         PeriodInputs(items, left, quota, used, gifts)
  PROVE  TimeValue(items, left, gifts) = Floor(Summed(TimeBought(items, left, gifts), Len(items)))
<1> DEFINE share == [i \in DOMAIN items |->
                       IF i \in PeriodCredited(items, gifts)
                       THEN Times(Amount(items[i]), [num |-> Cardinality(TimeOf(items, i, left)),
                                                     den |-> Duration(items[i])])
                       ELSE Whole(0)]
<1>1. TimeValue(items, left, gifts) = Floor(Summed(share, Len(items)))
  BY DEF TimeValue, PeriodCredited
<1>2. \A i \in DOMAIN items : Cardinality(TimeOf(items, i, left)) = ToCome(items, i, left)
  <2>1. left \in Int
    BY DEF PeriodInputs
  <2> QED  BY <2>1, InputsAre, ToComeIs
<1>3. share = TimeBought(items, left, gifts)
  BY <1>2 DEF TimeBought, TimeShare
<1> QED  BY Zenon, <1>1, <1>3

\* A change of plan gives no more than what the time to come was bought for, all
\* of that where no traffic was used and no order is short, and less the longer
\* one waits and the more traffic one uses: for every history of orders, every
\* plan and every usage (getSurplusValueByPeriod()).
THEOREM PeriodIsFair ==
  ASSUME NEW items, NEW left, NEW quota, NEW used, NEW gifts,
         PeriodInputs(items, left, quota, used, gifts)
  PROVE  FairPeriod(items, left, quota, used, gifts)
<1> DEFINE n == Len(items)
           t == TrafficRatio(quota, used)  v == TrafficRatio(quota, used + 1)
           given == Given(items, left, t, gifts)
           later == Given(items, left - 1, t, gifts)
           drained == Given(items, left, v, gifts)
           bought == TimeBought(items, left, gifts)
           C == PeriodCredited(items, gifts)
<1>1. /\ left \in Int /\ quota \in Nat /\ used \in Nat
      /\ PeriodInputs(items, left - 1, quota, used, gifts)
      /\ PeriodInputs(items, left, quota, used + 1, gifts)
  BY DEF PeriodInputs
<1>2. /\ t \in Fraction /\ v \in Fraction /\ AtMost(t, Whole(1))
      /\ PeriodSurplus(items, left, quota, used, gifts) = Floor(Summed(given, n))
      /\ PeriodSurplus(items, left - 1, quota, used, gifts) = Floor(Summed(later, n))
      /\ PeriodSurplus(items, left, quota, used + 1, gifts) = Floor(Summed(drained, n))
      /\ TimeValue(items, left, gifts) = Floor(Summed(bought, n))
  BY <1>1, PeriodSurplusIs, TimeValueIs
<1>3. t.den = v.den /\ v.num <= t.num
  BY <1>1 DEF TrafficRatio, Whole, Above
<1>4. quota > 0 /\ used = 0 => t.num = t.den
  BY <1>1 DEF TrafficRatio, Above
<1> HIDE DEF t, v
<1>5. /\ n \in Nat /\ DOMAIN items = 1..n
      /\ \A i \in 1..n : Amount(items[i]) \in Fraction /\ Duration(items[i]) \in Nat
  BY InputsAre
<1>6. \A i \in 1..n : /\ given[i] \in Fraction /\ later[i] \in Fraction
                      /\ drained[i] \in Fraction /\ bought[i] \in Fraction
  BY <1>1, <1>2, GivenType
<1>7. ASSUME NEW i \in 1..n
      PROVE  /\ AtMost(given[i], bought[i]) /\ AtMost(later[i], given[i])
             /\ AtMost(drained[i], given[i])
             /\ t.num = t.den /\ Duration(items[i]) \notin 1..ShortPeriod
                  => AtMost(bought[i], given[i])
  <2> DEFINE a == Amount(items[i])  d == Duration(items[i])
             r == ToCome(items, i, left)  q == ToCome(items, i, left - 1)
  <2>1. CASE i \notin C
    <3>1. /\ given[i] = Whole(0) /\ later[i] = Whole(0) /\ drained[i] = Whole(0)
          /\ bought[i] = Whole(0)
      BY <1>5, <2>1 DEF Given, TimeBought
    <3>2. AtMost(Whole(0), Whole(0))
      BY DEF AtMost, Whole
    <3> HIDE DEF given, later, drained, bought
    <3> QED  BY <3>1, <3>2
  <2>2. CASE i \in C
    <3>1. /\ given[i] = Residual(a, d, r, t) /\ later[i] = Residual(a, d, q, t)
          /\ drained[i] = Residual(a, d, r, v) /\ bought[i] = Times(a, TimeShare(d, r))
      BY <1>5, <2>2 DEF Given, TimeBought
    <3>2. a \in Fraction /\ d \in Nat \ {0}
      BY <1>5, <2>2, PeriodCreditedIs
    <3>3. r \in Nat /\ r <= d /\ q \in Nat /\ q <= r
      <4> HIDE DEF n
      <4> QED  BY <1>1, <1>5, ToComeIs
    <3> HIDE DEF given, later, drained, bought, a, d, r, q
    <3>4. AtMost(Residual(a, d, r, t), Times(a, TimeShare(d, r)))
      BY <1>2, <3>2, <3>3, ResidualType
    <3>5. AtMost(Residual(a, d, q, t), Residual(a, d, r, t))
      BY <1>2, <3>2, <3>3, ResidualTime
    <3>6. AtMost(Residual(a, d, r, v), Residual(a, d, r, t))
      BY <1>2, <1>3, <3>2, <3>3, ResidualTraffic
    <3>7. ASSUME t.num = t.den, d \notin 1..ShortPeriod
          PROVE  AtMost(Times(a, TimeShare(d, r)), Residual(a, d, r, t))
      <4>1. d > ShortPeriod
        BY <3>2, <3>7, SurplusNumbers
      <4> QED  BY <1>2, <3>2, <3>3, <3>7, <4>1, ResidualFull
    <3> QED  BY <3>1, <3>4, <3>5, <3>6, <3>7 DEF d
  <2> QED  BY <2>1, <2>2
<1> HIDE DEF n, given, later, drained, bought
<1>8. /\ Summed(given, n) \in Fraction /\ Summed(bought, n) \in Fraction
      /\ AtMost(Summed(given, n), Summed(bought, n))
  BY <1>5, <1>6, <1>7, SummedBelow
<1>9. Summed(later, n) \in Fraction /\ AtMost(Summed(later, n), Summed(given, n))
  BY <1>5, <1>6, <1>7, SummedBelow
<1>10. Summed(drained, n) \in Fraction /\ AtMost(Summed(drained, n), Summed(given, n))
  BY <1>5, <1>6, <1>7, SummedBelow
<1>11. ASSUME quota > 0, used = 0, \A i \in DOMAIN items : Duration(items[i]) \notin 1..ShortPeriod
       PROVE  AtMost(Summed(bought, n), Summed(given, n))
  <2>1. \A i \in 1..n : AtMost(bought[i], given[i])
    BY <1>4, <1>5, <1>7, <1>11
  <2> QED  BY <1>5, <1>6, <2>1, SummedBelow
<1> DEFINE worth == PeriodSurplus(items, left, quota, used, gifts)
           fair == TimeValue(items, left, gifts)
<1>12. worth \in Nat /\ fair \in Nat /\ worth <= fair
  BY <1>2, <1>8, FloorAtMost
<1>13. PeriodSurplus(items, left - 1, quota, used, gifts) <= worth
  BY <1>2, <1>8, <1>9, FloorAtMost
<1>14. PeriodSurplus(items, left, quota, used + 1, gifts) <= worth
  BY <1>2, <1>8, <1>10, FloorAtMost
<1>15. quota > 0 /\ used = 0 /\ (\A i \in DOMAIN items : Duration(items[i]) \notin 1..ShortPeriod)
         => worth = fair
  <2> SUFFICES ASSUME quota > 0, used = 0,
                      \A i \in DOMAIN items : Duration(items[i]) \notin 1..ShortPeriod
               PROVE  worth = fair
    OBVIOUS
  <2>1. fair <= worth
    BY <1>2, <1>8, <1>11, FloorAtMost
  <2> HIDE DEF worth, fair
  <2> QED  BY <1>12, <2>1
<1> HIDE DEF worth, fair
<1>16. 0 <= worth /\ worth <= fair
  BY <1>12
<1> QED  BY Zenon, <1>13, <1>14, <1>15, <1>16 DEF FairPeriod, worth, fair

\* The histories that TLC tries are of this kind: PeriodFair holds whatever
\* else is done (getSurplusValueByPeriod()).
THEOREM PeriodAlwaysFair == Spec => []PeriodFair
<1>1. PeriodFair
  <2> SUFFICES ASSUME NEW h \in UpToThree(Items), NEW left \in 0..Horizon,
                      NEW quota \in 0..MaxQuota, NEW used \in 0..MaxQuota, NEW gifts \in BOOLEAN
               PROVE  FairPeriod(h, left, quota, used, gifts)
    BY DEF PeriodFair
  <2>1. PICK n \in 0..3 : h \in [1..n -> Items]
    BY DEF UpToThree
  <2>2. h \in Seq(Range(h))
    BY <2>1 DEF Range
  <2>3. \A i \in DOMAIN h : h[i].value \in Nat /\ h[i].days \in Nat
    <3>1. \A x \in Items : x.value \in Nat /\ x.days \in Nat
      BY DEF Items
    <3> QED  BY <2>1, <3>1
  <2>4. PeriodInputs(h, left, quota, used, gifts)
    BY <2>2, <2>3 DEF PeriodInputs
  <2> QED  BY <2>4, PeriodIsFair
<1> QED  BY <1>1, PTL

-----------------------------------------------------------------------------
(* What Orders chooses from *)

\* The orders of a set, newest first.
NewestFirst(line, from) ==
  /\ line \in Seq(from) /\ from = {line[i] : i \in DOMAIN line}
  /\ \A i, j \in DOMAIN line : i < j => line[j] < line[i]

\* The first of them that cost something is the one that SurplusAmounts takes.
LEMMA NewestPaid ==
  ASSUME TypeOK, NEW from \in SUBSET Orders, NEW line, NewestFirst(line, from),
         NEW value, \A i \in DOMAIN line : value[i] = OrderValue(order[line[i]]),
         NEW c \in DOMAIN line, value[c] > 0, \A j \in 1..(c - 1) : value[j] = 0,
         NEW worth \in Nat, worth <= value[c]
  PROVE  worth \in SurplusAmounts(from)
<1> DEFINE paid == {o \in from : OrderValue(order[o]) > 0}
           latest == {o \in paid : \A q \in paid : q <= o}
           o == line[c]
<1>1. DOMAIN line = 1..Len(line) /\ Len(line) \in Nat /\ o \in from
  BY DEF NewestFirst
<1>2. o \in paid /\ OrderValue(order[o]) = value[c] /\ OrderValue(order[o]) \in Nat
  BY <1>1, OrderValueType
<1>3. ASSUME NEW q \in paid PROVE q <= o
  <2>1. PICK j \in DOMAIN line : q = line[j]
    BY DEF NewestFirst
  <2>2. value[j] > 0
    BY <2>1
  <2>3. j = c \/ c < j
    BY <1>1, <2>2
  <2>4. q \in Orders /\ o \in Orders
    BY <1>1
  <2>5. c < j => q < o
    BY <1>1, <2>1 DEF NewestFirst
  <2> QED  BY <2>1, <2>3, <2>4, <2>5 DEF Orders
<1>4. o \in latest
  BY <1>2, <1>3
<1>5. worth \in 0..OrderValue(order[o])
  BY <1>2
<1> QED  BY <1>4, <1>5 DEF SurplusAmounts

\* A sum of nothing but one.
LEMMA SummedOne ==
  ASSUME NEW n \in Nat, NEW f, NEW c \in 1..n, NEW v \in Nat, f[c] = Whole(v),
         \A i \in 1..n : i # c => f[i] = Whole(0)
  PROVE  Summed(f, n) = Whole(v)
<1> DEFINE p == PartialSums(f, n)
           T == {i \in 0..n : p[i] = IF i < c THEN Whole(0) ELSE Whole(v)}
<1>1. \A i \in 1..n : f[i] \in Fraction
  BY FractionType
<1>2. p[0] = Whole(0) /\ \A i \in 1..n : p[i] = Plus(p[i - 1], f[i])
  BY <1>1, PartialSumsAre
<1> HIDE DEF p
<1>3. /\ Plus(Whole(0), Whole(0)) = Whole(0) /\ Plus(Whole(0), Whole(v)) = Whole(v)
      /\ Plus(Whole(v), Whole(0)) = Whole(v)
  BY DEF Plus, Whole
<1>4. 0 \in T
  BY <1>2
<1>5. ASSUME NEW i \in 1..n, i - 1 \in T PROVE i \in T
  <2>1. p[i] = Plus(p[i - 1], f[i]) /\ p[i - 1] = IF i - 1 < c THEN Whole(0) ELSE Whole(v)
    BY <1>2, <1>5
  <2>2. CASE i < c
    BY <1>3, <2>1, <2>2
  <2>3. CASE i = c
    BY <1>3, <2>1, <2>3
  <2>4. CASE i > c
    BY <1>3, <2>1, <2>4
  <2> QED  BY <2>2, <2>3, <2>4
<1>6. n \in T
  <2> HIDE DEF T
  <2> QED  BY <1>4, <1>5, UpTo
<1> QED  BY <1>6 DEF Summed, p

\* Where gifts do not count, an order that is credited is the only one.
LEMMA GivenWithin ==
  ASSUME NEW items, NEW left, NEW quota, NEW used,
         PeriodInputs(items, left, quota, used, FALSE)
  PROVE  LET worth == PeriodSurplus(items, left, quota, used, FALSE)
         IN  /\ worth \in Nat
             /\ worth = 0 \/ \E c \in 1..Len(items) :
                               /\ Duration(items[c]) > 0 /\ items[c].value > 0
                               /\ ~PaidUpTo(items, c - 1) /\ worth <= items[c].value
<1> DEFINE n == Len(items)
           t == TrafficRatio(quota, used)
           given == Given(items, left, t, FALSE)
           worth == PeriodSurplus(items, left, quota, used, FALSE)
           C == PeriodCredited(items, FALSE)
<1>1. t \in Fraction /\ worth = Floor(Summed(given, n))
  BY PeriodSurplusIs
<1> HIDE DEF t
<1>2. /\ n \in Nat /\ DOMAIN items = 1..n /\ left \in Int
      /\ \A i \in 1..n : /\ Amount(items[i]) \in Fraction /\ Duration(items[i]) \in Nat
                         /\ items[i].value \in Nat
  BY InputsAre DEF PeriodInputs
<1>3. \A i \in 1..n : given[i] \in Fraction
  BY <1>1, GivenType
<1>4. \A i \in 1..n : i \in C <=> /\ Duration(items[i]) > 0 /\ items[i].value > 0
                                  /\ ~PaidUpTo(items, i - 1)
  BY PeriodCreditedIs
<1>5. \A i \in 1..n : i \notin C => given[i] = Whole(0)
  BY <1>2 DEF Given
<1>6. CASE \A i \in 1..n : i \notin C
  <2> HIDE DEF given, n, C
  <2>1. Summed(given, n) = Whole(0)
    BY <1>2, <1>5, <1>6, SummedZero
  <2>2. Floor(Whole(0)) = 0
    BY DEF Floor, Whole
  <2>3. worth = 0
    BY <1>1, <2>1, <2>2
  <2> HIDE DEF worth
  <2>4. worth \in Nat
    BY <2>3
  <2> QED  BY Zenon, <2>3, <2>4 DEF worth
<1>7. ASSUME NEW c \in 1..n, c \in C
      PROVE  worth \in Nat /\ worth <= items[c].value
  <2> DEFINE v == items[c].value  d == Duration(items[c])  r == ToCome(items, c, left)
             f == [i \in 1..n |-> IF i = c THEN Whole(v) ELSE Whole(0)]
  <2>1. v \in Nat /\ v > 0 /\ d \in Nat \ {0} /\ r \in Nat
    <3>1. r \in Nat
      <4> HIDE DEF n
      <4> QED  BY <1>2, ToComeIs
    <3>2. v \in Nat /\ d \in Nat
      BY <1>2
    <3>3. v > 0 /\ d > 0
      BY <1>4, <1>7
    <3> HIDE DEF v, d, r
    <3> QED  BY <3>1, <3>2, <3>3
  <2>2. Amount(items[c]) = Whole(v)
    BY <2>1 DEF Amount
  <2>3. \A i \in 1..n : i \in C => i = c
    <3> SUFFICES ASSUME NEW i \in 1..n, i \in C, i # c PROVE FALSE
      OBVIOUS
    <3>1. CASE i < c
      <4>1. i \in 1..(c - 1)
        BY <1>2, <3>1
      <4>2. PaidUpTo(items, c - 1)
        BY <1>4, <4>1 DEF PaidUpTo
      <4> QED  BY <1>4, <1>7, <4>2
    <3>2. CASE c < i
      <4>1. c \in 1..(i - 1)
        BY <1>2, <3>2
      <4>2. PaidUpTo(items, i - 1)
        BY <1>4, <1>7, <4>1 DEF PaidUpTo
      <4> QED  BY <1>4, <4>2
    <3> QED  BY <1>2, <3>1, <3>2
  <2>4. given[c] = Residual(Whole(v), d, r, t)
    BY <1>2, <1>7, <2>2 DEF Given
  <2>5. AtMost(given[c], Whole(v))
    <3>1. r # 0 => Share(d, r, t) \in Fraction
      BY <1>1, <2>1, ShareType
    <3>2. CASE v = 0 \/ r = 0
      <4>1. Residual(Whole(v), d, r, t) = Whole(0) /\ Whole(v) \in Fraction
        BY <2>1, <3>2, FractionType, ResidualIs
      <4> QED  BY <2>4, <4>1, ZeroAtMost
    <3>3. CASE ~(v = 0 \/ r = 0)
      <4>1. Whole(v) \in Fraction /\ Whole(v).num = v
        BY <2>1, FractionType DEF Whole
      <4>2. Residual(Whole(v), d, r, t) = Lesser(Whole(v), Times(Whole(v), Share(d, r, t)))
        BY <2>1, <3>3, <4>1, ResidualIs
      <4>3. Times(Whole(v), Share(d, r, t)) \in Fraction
        BY <3>1, <3>3, <4>1, FractionType
      <4> QED  BY <2>4, <4>1, <4>2, <4>3, LesserBelow
    <3> QED  BY <3>2, <3>3
  <2>6. \A i \in 1..n : f[i] \in Fraction /\ AtMost(given[i], f[i])
    <3>1. Whole(v) \in Fraction /\ Whole(0) \in Fraction /\ AtMost(Whole(0), Whole(0))
      BY <2>1, FractionType, AtMostOrder
    <3> HIDE DEF given, v, n, C
    <3> QED  BY <1>5, <2>3, <2>5, <3>1
  <2>7. Summed(f, n) = Whole(v)
    <3>1. f[c] = Whole(v) /\ \A i \in 1..n : i # c => f[i] = Whole(0)
      OBVIOUS
    <3> HIDE DEF f, n, v
    <3> QED  BY <1>2, <2>1, <3>1, SummedOne
  <2>8. Floor(Whole(v)) = v
    BY <2>1 DEF Floor, Whole
  <2>9. /\ Summed(given, n) \in Fraction /\ Summed(f, n) \in Fraction
        /\ AtMost(Summed(given, n), Summed(f, n))
    <3> HIDE DEF f, given, n
    <3> QED  BY <1>2, <1>3, <2>6, SummedBelow
  <2> HIDE DEF f, given, n, v
  <2>10. Floor(Summed(given, n)) \in Nat /\ Floor(Summed(given, n)) <= v
    BY <2>7, <2>8, <2>9, FloorAtMost
  <2> QED  BY <1>1, <2>10 DEF v
<1>8. CASE \E c \in 1..n : c \in C
  <2>1. PICK c \in 1..n : c \in C
    BY <1>8
  <2>2. worth \in Nat /\ worth <= items[c].value
    BY <1>7, <2>1
  <2>3. Duration(items[c]) > 0 /\ items[c].value > 0 /\ ~PaidUpTo(items, c - 1)
    BY <1>4, <2>1
  <2> HIDE DEF worth, n
  <2>4. /\ worth \in Nat
        /\ worth = 0 \/ \E k \in 1..n : /\ Duration(items[k]) > 0 /\ items[k].value > 0
                                        /\ ~PaidUpTo(items, k - 1) /\ worth <= items[k].value
    BY <2>1, <2>2, <2>3
  <2> QED  BY Zenon, <2>4 DEF worth, n
<1> QED  BY <1>6, <1>8

\* What Surplus computes for a subscription is what Orders may choose
\* (getSurplusValue() with surplus_strategy 0): nothing, or at most what the newest
\* order that cost something is worth.  What cost something was sold for a period.
THEOREM PeriodSurplusOffered ==
  ASSUME TypeOK, NEW from \in SUBSET Orders, NEW line, NewestFirst(line, from),
         NEW items, NEW left, NEW quota, NEW used,
         PeriodInputs(items, left, quota, used, FALSE), DOMAIN items = DOMAIN line,
         \A i \in DOMAIN line : items[i].value = OrderValue(order[line[i]]),
         \A i \in DOMAIN line : items[i].value > 0 => items[i].period \in DOMAIN Length
  PROVE  PeriodSurplus(items, left, quota, used, FALSE) \in SurplusAmounts(from)
<1> DEFINE worth == PeriodSurplus(items, left, quota, used, FALSE)
           n == Len(items)
           value == [i \in DOMAIN line |-> items[i].value]
<1>1. /\ n \in Nat /\ DOMAIN items = 1..n
      /\ \A i \in 1..n : items[i].value \in Nat
  BY InputsAre
<1>2. \A i \in 1..n : items[i].value > 0 => Duration(items[i]) > 0
  BY <1>1, SurplusAssumption DEF Duration
<1>3. /\ worth \in Nat
      /\ worth = 0 \/ \E c \in 1..n : /\ Duration(items[c]) > 0 /\ items[c].value > 0
                                      /\ ~PaidUpTo(items, c - 1) /\ worth <= items[c].value
  BY GivenWithin
<1> HIDE DEF worth, n
<1>4. CASE worth = 0
  BY <1>4 DEF SurplusAmounts, worth
<1>5. CASE worth # 0
  <2>1. PICK c \in 1..n : /\ items[c].value > 0 /\ ~PaidUpTo(items, c - 1)
                          /\ worth <= items[c].value
    BY <1>3, <1>5
  <2>2. ASSUME NEW j \in 1..(c - 1) PROVE value[j] = 0
    <3>1. j \in 1..n /\ j \in DOMAIN line
      BY <1>1
    <3>2. ~(Duration(items[j]) > 0 /\ items[j].value > 0)
      BY <2>1 DEF PaidUpTo
    <3>3. items[j].value = 0
      BY <1>1, <1>2, <3>1, <3>2
    <3> QED  BY <3>1, <3>3
  <2>3. c \in DOMAIN line /\ value[c] > 0 /\ worth <= value[c]
    BY <1>1, <2>1
  <2>4. \A i \in DOMAIN line : value[i] = OrderValue(order[line[i]])
    OBVIOUS
  <2> HIDE DEF value
  <2>5. worth \in SurplusAmounts(from)
    BY <1>3, <2>2, <2>3, <2>4, NewestPaid
  <2> QED  BY <2>5 DEF worth
<1> QED  BY <1>4, <1>5

\* The same for a plan without expiry, whose orders added as much traffic each as
\* the plan has today.
THEOREM OneTimeSurplusOffered ==
  ASSUME TypeOK, NEW from \in SUBSET Orders, NEW line, NewestFirst(line, from),
         NEW values, NEW quota, NEW total, NEW used,
         OneTimeInputs(values, quota, total, used, FALSE), DOMAIN values = DOMAIN line,
         \A i \in DOMAIN line : values[i] = OrderValue(order[line[i]])
  PROVE  OneTimeSurplus(values, quota, total, used, FALSE) \in SurplusAmounts(from)
<1> DEFINE worth == OneTimeSurplus(values, quota, total, used, FALSE)
           n == Len(values)
           C == OneTimeCredited(values, FALSE)
           part == OneTimeWorth(values, quota, total, used, FALSE)
           units(i) == Cardinality(UnusedUnits(i, quota, total, used))
<1>1. /\ n \in Nat /\ DOMAIN values = 1..n /\ \A i \in 1..n : values[i] \in Nat
      /\ quota \in Nat \ {0} /\ total \in Nat /\ used \in Nat
  <2>1. values \in Seq(Nat)
    BY DEF OneTimeInputs
  <2>2. n \in Nat /\ DOMAIN values = 1..n /\ \A i \in 1..n : values[i] \in Nat
    BY ONLY <2>1
  <2> QED  BY <2>2 DEF OneTimeInputs
<1>2. worth = SumFunctionOnSet(part, C) \div quota
  BY OneTimeIsExact, TrafficValueIs DEF ExactOneTime
<1> HIDE DEF worth, n
<1>3. C = {i \in 1..n : values[i] > 0 /\ \A j \in 1..(i - 1) : values[j] = 0}
  BY <1>1 DEF OneTimeCredited, Credited
<1>4. CASE C = {}
  <2>1. worth = 0 \div quota
    BY <1>2, <1>4, SumEmpty
  <2>2. worth = 0
    BY <1>1, <2>1
  <2> QED  BY <2>2 DEF SurplusAmounts, worth
<1>5. ASSUME NEW c \in C PROVE worth \in SurplusAmounts(from)
  <2>1. /\ c \in 1..n /\ c \in DOMAIN line /\ values[c] \in Nat /\ values[c] > 0
        /\ \A j \in 1..(c - 1) : values[j] = 0
    BY <1>1, <1>3, <1>5
  <2>2. C = {} \cup {c}
    <3> SUFFICES ASSUME NEW i \in C, i # c PROVE FALSE
      BY <1>5
    <3>1. i \in 1..n /\ values[i] > 0 /\ \A j \in 1..(i - 1) : values[j] = 0
      BY <1>3
    <3>2. c \in 1..(i - 1) \/ i \in 1..(c - 1)
      BY <1>1, <2>1, <3>1
    <3> QED  BY <2>1, <3>1, <3>2
  <2>3. units(c) \in Nat /\ units(c) <= quota
    <3>1. c \in Nat \ {0}
      BY <1>1, <2>1
    <3> DEFINE end == Above(0, total - (c - 1) * quota)
    <3>2. units(c) = Above(0, end - Above(used, Segment(end, quota)))
      BY <1>1, <3>1, UnusedOf
    <3>3. end \in Nat
      <4>1. (c - 1) * quota \in Int
        BY <1>1, <3>1
      <4> QED  BY <1>1, <4>1 DEF Above
    <3> HIDE DEF end, units
    <3> QED  BY <1>1, <3>2, <3>3 DEF Above, Segment
  <2>4. part[c] = values[c] * units(c)
    BY <1>5, <2>1 DEF OneTimeWorth, UnusedUnits
  <2> HIDE DEF units, part, C
  <2>5. part[c] \in Nat /\ part[c] <= values[c] * quota
    <3> DEFINE u == units(c)  v == values[c]
    <3>1. u \in Nat /\ v \in Nat /\ quota \in Nat /\ u <= quota /\ part[c] = v * u
      BY <1>1, <2>1, <2>3, <2>4
    <3> HIDE DEF u, v
    <3>2. u * v <= quota * v
      BY <3>1, Scaled
    <3>3. v * u \in Nat /\ v * u <= v * quota
      BY <3>1, <3>2
    <3> QED  BY <3>1, <3>3 DEF v
  <2>6. SumFunctionOnSet(part, {} \cup {c}) = SumFunctionOnSet(part, {}) + part[c]
    <3>1. IsFiniteSet({}) /\ c \notin {} /\ part[c] \in Int
      BY <2>5, FS_EmptySet
    <3> QED  BY <3>1, SumAdd
  <2>7. worth = part[c] \div quota
    BY <1>2, <2>2, <2>5, <2>6, SumEmpty
  <2>8. worth \in Nat /\ worth <= values[c]
    <3> DEFINE x == part[c]  v == values[c]
    <3>1. x \in Nat /\ v \in Nat /\ x <= v * quota /\ worth = x \div quota
      BY <2>1, <2>5, <2>7
    <3> HIDE DEF x, v
    <3>2. worth \in Nat /\ worth * quota <= x
      BY <1>1, <3>1, Quotient
    <3>3. worth * quota <= v * quota
      <4>1. worth * quota \in Nat /\ v * quota \in Nat
        BY <1>1, <3>1, <3>2
      <4> QED  BY <3>1, <3>2, <4>1
    <3>4. worth <= v
      BY <1>1, <3>1, <3>2, <3>3, Cancelled
    <3> QED  BY <3>2, <3>4 DEF v
  <2> QED  BY <2>1, <2>8, NewestPaid
<1> QED  BY <1>4, <1>5 DEF worth

=============================================================================
