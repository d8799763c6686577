---------------------------- MODULE AccountsProofs ----------------------------
(***************************************************************************)
(* Proofs about Accounts, for any users, inviters, orders, shares, prices  *)
(* and any number of commands and requests.                                *)
(***************************************************************************)
EXTENDS Accounts, TLAPS

\* What a process will write is not negative.
Covered(p) ==
  /\ proc[p].op = "transfer" => /\ proc[p].amount <= proc[p].copy[proc[p].who].commission
                                /\ proc[p].amount \in Transfers
  /\ proc[p].op = "period" => EnoughTime(proc[p].copy[proc[p].who])

\* A copy never holds more than the row began with and was given since.
Bounded(row, u) ==
  /\ row.balance <= FirstRow[u].balance + ledger[u].credit
  /\ row.commission <= FirstRow[u].commission + ledger[u].logged
  /\ row.expiry <= FirstRow[u].expiry + ledger[u].bought

Copies == \A p \in Procs, u \in Users : Bounded(proc[p].copy[u], u)

\* Who has an order on its list, and what was paid for it.
Listing ==
  \A o \in Orders \ (history.shared \cup history.edited) :
    /\ order[o].paid <= 1
    /\ order[o].state \in {"absent", "pending", "confirmed"} => order[o].paid = 0
    /\ \A p \in Procs : o \in proc[p].todo =>
         /\ order[o].state = "confirmed"
         /\ \A q \in Procs : o \in proc[q].todo => q = p

Inv == TypeOK /\ (\A p \in Procs : Covered(p)) /\ Copies /\ WithinCredits /\ Accounted /\ Listing

-----------------------------------------------------------------------------
(* Types *)

LEMMA PortionType ==
  ASSUME NEW c \in Nat, NEW l \in Levels
  PROVE  Portion(c, l) \in Nat /\ (Fraction(c, l) > 0 \/ Portion(c, l) = 0)
<1>1. Shares[l] \in Nat
  BY AccountsAssumption
<1>2. ASSUME NEW s \in Nat PROVE c * s \in Nat
  OBVIOUS
<1>3. Fraction(c, l) \in Nat
  BY <1>1, <1>2 DEF Fraction
<1>4. ASSUME NEW n \in Nat PROVE (n + 50) \div 100 \in Nat
  OBVIOUS
<1>5. (0 + 50) \div 100 = 0
  OBVIOUS
<1> QED  BY <1>3, <1>4, <1>5 DEF Portion

\* What a user gains is a number, and not nothing only if a level is his.
LEMMA GainType ==
  ASSUME NEW u, NEW i, NEW c \in Nat
  PROVE  /\ Gain(u, i, c) \in Nat
         /\ Gain(u, i, c) # 0 => \E l \in Levels : Payee(i, c, l) = u /\ Fraction(c, l) > 0
<1>1. \A l \in Levels : /\ Portion(c, l) \in Nat
                        /\ Fraction(c, l) > 0 \/ Portion(c, l) = 0
  BY PortionType
<1>2. 1 \in Levels /\ 2 \in Levels /\ 3 \in Levels
  BY DEF Levels
<1>3. Gain(u, i, c) \in Nat
  BY <1>1, <1>2 DEF Gain
<1>4. ASSUME \A l \in Levels : ~(Payee(i, c, l) = u /\ Fraction(c, l) > 0)
      PROVE  Gain(u, i, c) = 0
  BY <1>1, <1>2, <1>4 DEF Gain
<1> QED  BY <1>3, <1>4

LEMMA RowTypes ==
  /\ NoRow \in UserRow /\ NoRow.balance = 0 /\ NoRow.commission = 0 /\ NoRow.expiry = 0
  /\ \A r \in UserRow :
       /\ Money(r) \in UserRow /\ Time(r) \in UserRow /\ Plan(r) \in UserRow
       /\ Money(r).balance = r.balance /\ Money(r).commission = r.commission /\ Money(r).expiry = 0
       /\ Time(r).balance = 0 /\ Time(r).commission = 0 /\ Time(r).expiry = r.expiry
       /\ Plan(r).balance = r.balance /\ Plan(r).commission = 0 /\ Plan(r).expiry = r.expiry
  BY DEF NoRow, UserRow, Money, Time, Plan

LEMMA IdleTyped ==
  /\ Idle \in Process /\ Idle.op = "idle" /\ Idle.todo = {} /\ Idle.copy = Nothing
  /\ Nothing \in [Users -> UserRow] /\ \A v \in Users : Nothing[v] = NoRow
<1>1. SomeUser \in Users
  BY AccountsAssumption DEF SomeUser
<1>2. Nothing \in [Users -> UserRow] /\ \A v \in Users : Nothing[v] = NoRow
  BY RowTypes DEF Nothing
<1> QED  BY <1>1, <1>2 DEF Idle, Process

-----------------------------------------------------------------------------
(* Processes that move *)

\* Credits are only added.
Grows == \A u \in Users : /\ ledger'[u].credit >= ledger[u].credit
                          /\ ledger'[u].logged >= ledger[u].logged
                          /\ ledger'[u].bought >= ledger[u].bought

\* The new state of a process.
Ready(st) ==
  /\ st \in Process
  /\ st.op = "transfer" => st.amount <= st.copy[st.who].commission /\ st.amount \in Transfers
  /\ st.op = "period" => EnoughTime(st.copy[st.who])
  /\ \A u \in Users : Bounded(st.copy[u], u)

LEMMA EntryTypes ==
  ASSUME TypeOK, NEW u \in Users
  PROVE  /\ user[u] \in UserRow /\ ledger[u] \in Entries /\ FirstRow[u] \in UserRow
  BY AccountsAssumption DEF TypeOK

LEMMA NoRowBounded == ASSUME TypeOK, NEW u \in Users PROVE Bounded(NoRow, u)
  BY EntryTypes, RowTypes DEF Bounded, UserRow, Entries

LEMMA PartsBounded ==
  ASSUME TypeOK, NEW u \in Users, NEW r \in UserRow, Bounded(r, u)
  PROVE  Bounded(Money(r), u) /\ Bounded(Time(r), u) /\ Bounded(Plan(r), u)
<1>1. FirstRow[u] \in UserRow /\ ledger[u] \in Entries
  BY EntryTypes
<1>2. /\ 0 <= FirstRow[u].balance + ledger[u].credit
      /\ 0 <= FirstRow[u].commission + ledger[u].logged
      /\ 0 <= FirstRow[u].expiry + ledger[u].bought
  BY <1>1 DEF UserRow, Entries
<1> QED  BY <1>2, RowTypes DEF Bounded

LEMMA IdleReady == ASSUME TypeOK PROVE Ready(Idle)
  BY IdleTyped, NoRowBounded DEF Ready

LEMMA Turn ==
  ASSUME TypeOK, NEW p \in Procs, NEW st \in Process, Become(p, st)
  PROVE  /\ proc' \in [Procs -> Process]
         /\ proc'[p] = st /\ \A q \in Procs \ {p} : proc'[q] = proc[q]
  BY DEF TypeOK, Become

\* What others have copied stays within the credits.
LEMMA Moves ==
  ASSUME Inv, NEW p \in Procs, NEW st, Become(p, st), Ready(st), Grows,
         ledger' \in [Users -> Entries]
  PROVE  /\ proc' \in [Procs -> Process]
         /\ proc'[p] = st /\ \A q \in Procs \ {p} : proc'[q] = proc[q]
         /\ \A q \in Procs : Covered(q)'
         /\ Copies'
<1>0. TypeOK /\ st \in Process
  BY DEF Inv, Ready
<1>1. /\ proc' \in [Procs -> Process]
      /\ proc'[p] = st /\ \A q \in Procs \ {p} : proc'[q] = proc[q]
  BY <1>0, Turn
<1>2. \A q \in Procs : Covered(q)'
  BY <1>1 DEF Inv, Covered, Ready
<1>3. ASSUME NEW q \in Procs, NEW u \in Users
      PROVE  Bounded(proc[q].copy[u], u)'
  <2>1. Bounded(proc'[q].copy[u], u) /\ proc'[q].copy[u] \in UserRow
    BY <1>1 DEF Inv, Copies, Ready, Process
  <2>2. ledger[u] \in Entries /\ ledger'[u] \in Entries /\ FirstRow[u] \in UserRow
    BY <1>0, EntryTypes
  <2> QED  BY <2>1, <2>2 DEF Bounded, Grows, UserRow, Entries
<1>4. Copies'
  BY <1>3 DEF Copies
<1> QED  BY <1>1, <1>2, <1>4

LEMMA ListingKept ==
  ASSUME Inv, NEW p \in Procs, \A q \in Procs \ {p} : proc'[q] = proc[q],
         proc'[p].todo \subseteq proc[p].todo, UNCHANGED order,
         history'.shared = history.shared, history'.edited = history.edited
  PROVE  Listing'
<1>1. \A q \in Procs : proc'[q].todo \subseteq proc[q].todo
  OBVIOUS
<1> QED  BY <1>1 DEF Inv, Listing

\* A process that reads, ends or dies.
LEMMA Reads ==
  ASSUME Inv, NEW p \in Procs, NEW st, Become(p, st), Ready(st), st.todo \subseteq proc[p].todo,
         UNCHANGED <<user, order, ledger, history>>,
         failures' \in 0..MaxFailures, others' \in 0..MaxOthers
  PROVE  Inv'
<1>1. ledger' \in [Users -> Entries] /\ Grows
  BY DEF Inv, TypeOK, Grows, Entries
<1>2. /\ proc' \in [Procs -> Process]
      /\ proc'[p] = st /\ \A q \in Procs \ {p} : proc'[q] = proc[q]
      /\ (\A q \in Procs : Covered(q)') /\ Copies'
  BY <1>1, Moves
<1>3. Listing'
  BY <1>2, ListingKept
<1>4. TypeOK' /\ WithinCredits' /\ Accounted'
  BY <1>2 DEF Inv, TypeOK, WithinCredits, Accounted
<1> QED  BY <1>2, <1>3, <1>4 DEF Inv

\* A process that writes rows.
LEMMA Writes ==
  ASSUME Inv, NEW p \in Procs, NEW st, Become(p, st), Ready(st),
         user' \in [Users -> UserRow], ledger' \in [Users -> Entries], Grows,
         order' \in [Orders -> OrderRow], UNCHANGED <<others, failures>>,
         history' \in [raced: SUBSET Users, shared: SUBSET Orders, edited: SUBSET Orders],
         WithinCredits', Accounted',
         proc'[p] = st /\ (\A q \in Procs \ {p} : proc'[q] = proc[q]) => Listing'
  PROVE  Inv'
<1>1. /\ proc' \in [Procs -> Process]
      /\ proc'[p] = st /\ \A q \in Procs \ {p} : proc'[q] = proc[q]
      /\ (\A q \in Procs : Covered(q)') /\ Copies'
  BY Moves
<1> QED  BY <1>1 DEF Inv, TypeOK

-----------------------------------------------------------------------------
(* Processes that only read *)

LEMMA OtherType == ASSUME TypeOK, Other PROVE others' \in 0..MaxOthers
  BY AccountsAssumption DEF TypeOK, Other

LEMMA FailType == ASSUME TypeOK, Fail PROVE failures' \in 0..MaxFailures
  BY AccountsAssumption DEF TypeOK, Fail

\* The rows themselves are within the credits.
LEMMA RowBounded == ASSUME Inv, NEW u \in Users PROVE Bounded(user[u], u)
  BY DEF Inv, WithinCredits, Bounded

LEMMA PayBeginKept == ASSUME Inv, NEW p \in Procs, PayBegin(p) PROVE Inv'
<1> DEFINE copy == [u \in Users |-> Money(user[u])]
           st   == [proc[p] EXCEPT !.op = "payout", !.copy = copy]
<1>1. TypeOK /\ proc[p] \in Process
  BY DEF Inv, TypeOK
<1>2. copy \in [Users -> UserRow] /\ \A u \in Users : Bounded(copy[u], u)
  BY <1>1, EntryTypes, RowTypes, RowBounded, PartsBounded
<1> HIDE DEF copy
<1>3. st \in Process /\ st.op = "payout" /\ st.copy = copy /\ st.todo = proc[p].todo
  BY <1>1, <1>2 DEF Process
<1>4. Become(p, st)
  BY DEF PayBegin, copy
<1> HIDE DEF st
<1>5. Ready(st)
  BY <1>2, <1>3 DEF Ready
<1> QED  BY <1>1, <1>3, <1>4, <1>5, Reads DEF PayBegin, TypeOK

LEMMA RenewalStartKept == ASSUME Inv, NEW p \in Procs, RenewalStart(p) PROVE Inv'
<1> DEFINE copy == [u \in Users |-> Plan(user[u])]
           due  == {u \in Users : WantsRenewal(user[u])}
           st   == [Idle EXCEPT !.op = "renewal", !.renewing = due, !.copy = copy]
<1>1. TypeOK
  BY DEF Inv
<1>2. copy \in [Users -> UserRow] /\ \A u \in Users : Bounded(copy[u], u)
  BY <1>1, EntryTypes, RowTypes, RowBounded, PartsBounded
<1>3. due \in SUBSET Users
  OBVIOUS
<1>4. Become(p, st)
  BY DEF RenewalStart
<1> HIDE DEF copy, due
<1>5. st \in Process /\ st.op = "renewal" /\ st.copy = copy /\ st.todo = {}
  BY <1>2, <1>3, IdleTyped DEF Process
<1> HIDE DEF st
<1>6. Ready(st)
  BY <1>2, <1>5 DEF Ready
<1> QED  BY <1>1, <1>4, <1>5, <1>6, Reads DEF RenewalStart, TypeOK

LEMMA EndKept ==
  ASSUME Inv, NEW p \in Procs, Become(p, Idle),
         UNCHANGED <<user, order, ledger, history, others>>, failures' \in 0..MaxFailures
  PROVE  Inv'
<1>1. TypeOK /\ others' \in 0..MaxOthers
  BY DEF Inv, TypeOK
<1> QED  BY <1>1, IdleReady, IdleTyped, Reads

LEMMA RenewalEndKept == ASSUME Inv, NEW p \in Procs, RenewalEnd(p) PROVE Inv'
  BY EndKept DEF RenewalEnd, Inv, TypeOK

LEMMA DieKept == ASSUME Inv, NEW p \in Procs, Die(p) PROVE Inv'
  BY EndKept, FailType DEF Die, Inv

\* A user the renewal has come to is dropped from its list.
LEMMA PassedReady ==
  ASSUME Inv, NEW p \in Procs, NEW u \in Users, proc[p].op = "renewal"
  PROVE  /\ Ready(Passed(p, u)) /\ Passed(p, u).todo = proc[p].todo
         /\ Ready([Passed(p, u) EXCEPT !.void = TRUE])
         /\ [Passed(p, u) EXCEPT !.void = TRUE].todo = proc[p].todo
<1>1. TypeOK /\ proc[p] \in Process /\ NoRow \in UserRow
  BY RowTypes DEF Inv, TypeOK
<1> DEFINE copy == [proc[p].copy EXCEPT ![u] = NoRow]
<1>2. copy \in [Users -> UserRow] /\ \A v \in Users : Bounded(copy[v], v)
  BY <1>1, NoRowBounded DEF Inv, Copies, Process
<1>3. Passed(p, u) = [proc[p] EXCEPT !.renewing = proc[p].renewing \ {u}, !.copy = copy]
  BY <1>1 DEF Passed, Process
<1> HIDE DEF copy
<1>4. /\ Passed(p, u) \in Process /\ Passed(p, u).op = "renewal" /\ Passed(p, u).copy = copy
      /\ Passed(p, u).todo = proc[p].todo
  <2>1. PICK st : st = [proc[p] EXCEPT !.renewing = proc[p].renewing \ {u}, !.copy = copy]
    OBVIOUS
  <2>2. /\ st \in Process /\ st.op = proc[p].op /\ st.copy = copy /\ st.todo = proc[p].todo
    BY <1>1, <1>2, <2>1 DEF Process
  <2> QED  BY <1>3, <2>1, <2>2
<1>5. Ready(Passed(p, u))
  BY <1>2, <1>4 DEF Ready
<1>6. PICK st : st = [Passed(p, u) EXCEPT !.void = TRUE]
  OBVIOUS
<1>7. st \in Process /\ st.op = "renewal" /\ st.copy = copy /\ st.todo = proc[p].todo
  BY <1>4, <1>6 DEF Process
<1>8. Ready(st)
  BY <1>2, <1>7 DEF Ready
<1>9. /\ Ready([Passed(p, u) EXCEPT !.void = TRUE])
      /\ [Passed(p, u) EXCEPT !.void = TRUE].todo = proc[p].todo
  <2>1. [Passed(p, u) EXCEPT !.void = TRUE] = st
    BY <1>6, Zenon
  <2> QED  BY <1>7, <1>8, <2>1, Zenon
<1> QED  BY <1>4, <1>5, <1>9

LEMMA RenewalThrowKept ==
  ASSUME Inv, NEW p \in Procs, NEW u \in Users, RenewalThrow(p, u)
  PROVE  Inv'
<1>1. PICK st : st = [Passed(p, u) EXCEPT !.void = TRUE]
  OBVIOUS
<1>2. Ready(st) /\ st.todo = proc[p].todo /\ Become(p, st)
  BY <1>1, PassedReady DEF RenewalThrow
<1>3. failures' \in 0..MaxFailures /\ others' \in 0..MaxOthers
  BY FailType DEF RenewalThrow, Inv, TypeOK
<1> QED  BY <1>2, <1>3, Reads DEF RenewalThrow

\* A request copies the row of one user.
LEMMA OneCopy ==
  ASSUME Inv, NEW u \in Users, NEW r \in UserRow, Bounded(r, u)
  PROVE  LET copy == [Nothing EXCEPT ![u] = r]
         IN  /\ copy \in [Users -> UserRow] /\ copy[u] = r
             /\ \A v \in Users : Bounded(copy[v], v)
<1>1. TypeOK
  BY DEF Inv
<1> QED  BY <1>1, IdleTyped, NoRowBounded

LEMMA TransferReadKept ==
  ASSUME Inv, NEW p \in Procs, NEW u \in Users, NEW a \in Transfers, TransferRead(p, u, a)
  PROVE  Inv'
<1> DEFINE copy == [Nothing EXCEPT ![u] = Money(user[u])]
           st   == [Idle EXCEPT !.op = "transfer", !.who = u, !.amount = a, !.copy = copy]
<1>1. TypeOK /\ a \in Nat /\ user[u] \in UserRow
  BY EntryTypes, AccountsAssumption DEF Inv
<1>2. /\ Money(user[u]) \in UserRow /\ Bounded(Money(user[u]), u)
      /\ Money(user[u]).commission = user[u].commission
  BY <1>1, RowTypes, RowBounded, PartsBounded
<1>3. /\ copy \in [Users -> UserRow] /\ copy[u] = Money(user[u])
      /\ \A v \in Users : Bounded(copy[v], v)
  BY <1>2, OneCopy
<1>4. Become(p, st)
  BY IdleTyped DEF TransferRead, Process
<1> HIDE DEF copy
<1>5. /\ st \in Process /\ st.op = "transfer" /\ st.who = u /\ st.amount = a /\ st.copy = copy
      /\ st.todo = {}
  BY <1>1, <1>3, IdleTyped DEF Process
<1> HIDE DEF st
<1>6. Ready(st)
  BY <1>2, <1>3, <1>5 DEF Ready, TransferRead, Transferable
<1> QED  BY <1>1, <1>4, <1>5, <1>6, Reads DEF TransferRead, TypeOK

LEMMA OpenReadKept ==
  ASSUME Inv, NEW p \in Procs, NEW u \in Users, OpenRead(p, u)
  PROVE  Inv'
<1> DEFINE copy == [Nothing EXCEPT ![u] = Money(user[u])]
           st   == [Idle EXCEPT !.op = "open", !.who = u, !.copy = copy]
<1>1. TypeOK /\ user[u] \in UserRow
  BY EntryTypes DEF Inv
<1>2. Money(user[u]) \in UserRow /\ Bounded(Money(user[u]), u)
  BY <1>1, RowTypes, RowBounded, PartsBounded
<1>3. /\ copy \in [Users -> UserRow] /\ copy[u] = Money(user[u])
      /\ \A v \in Users : Bounded(copy[v], v)
  BY <1>2, OneCopy
<1>4. Become(p, st)
  BY IdleTyped DEF OpenRead, Process
<1> HIDE DEF copy
<1>5. /\ st \in Process /\ st.op = "open" /\ st.copy = copy /\ st.todo = {}
  BY <1>1, <1>3, IdleTyped DEF Process
<1> HIDE DEF st
<1>6. Ready(st)
  BY <1>3, <1>5 DEF Ready
<1>7. others' \in 0..MaxOthers
  BY <1>1, OtherType DEF OpenRead
<1> QED  BY <1>1, <1>4, <1>5, <1>6, <1>7, Reads DEF OpenRead, TypeOK

LEMMA PeriodReadKept ==
  ASSUME Inv, NEW p \in Procs, NEW u \in Users, PeriodRead(p, u)
  PROVE  Inv'
<1> DEFINE copy == [Nothing EXCEPT ![u] = Time(user[u])]
           st   == [Idle EXCEPT !.op = "period", !.who = u, !.copy = copy]
<1>1. TypeOK /\ user[u] \in UserRow
  BY EntryTypes DEF Inv
<1>2. /\ Time(user[u]) \in UserRow /\ Bounded(Time(user[u]), u)
      /\ Time(user[u]).expiry = user[u].expiry
  BY <1>1, RowTypes, RowBounded, PartsBounded
<1>3. /\ copy \in [Users -> UserRow] /\ copy[u] = Time(user[u])
      /\ \A v \in Users : Bounded(copy[v], v)
  BY <1>2, OneCopy
<1>4. Become(p, st)
  BY IdleTyped DEF PeriodRead, Process
<1> HIDE DEF copy
<1>5. /\ st \in Process /\ st.op = "period" /\ st.who = u /\ st.copy = copy
      /\ st.todo = {}
  BY <1>1, <1>3, IdleTyped DEF Process
<1> HIDE DEF st
<1>6. Ready(st)
  BY <1>2, <1>3, <1>5 DEF Ready, PeriodRead, EnoughTime
<1> QED  BY <1>1, <1>4, <1>5, <1>6, Reads DEF PeriodRead, TypeOK

-----------------------------------------------------------------------------
(* Rows that are written *)

\* The record of a row agrees with it.
Agrees(row, e, u) ==
  /\ row.balance = FirstRow[u].balance + e.credit - e.debit
  /\ row.commission = FirstRow[u].commission + e.logged - e.moved
  /\ row.expiry = FirstRow[u].expiry + e.bought - e.given

\* One row is written, with its record.
LEMMA OneRow ==
  ASSUME Inv, NEW u \in Users, NEW r \in UserRow, NEW e \in Entries,
         user' = [user EXCEPT ![u] = r], ledger' = [ledger EXCEPT ![u] = e],
         e.credit >= ledger[u].credit, e.logged >= ledger[u].logged, e.bought >= ledger[u].bought,
         r.balance <= FirstRow[u].balance + e.credit,
         r.commission <= FirstRow[u].commission + e.logged,
         r.expiry <= FirstRow[u].expiry + e.bought,
         history.raced \subseteq history'.raced,
         u \notin history'.raced => Agrees(r, e, u)
  PROVE  /\ user' \in [Users -> UserRow] /\ ledger' \in [Users -> Entries]
         /\ Grows /\ WithinCredits' /\ Accounted'
<1>1. TypeOK
  BY DEF Inv
<1>2. /\ user' \in [Users -> UserRow] /\ ledger' \in [Users -> Entries]
      /\ user'[u] = r /\ ledger'[u] = e
      /\ \A v \in Users \ {u} : user'[v] = user[v] /\ ledger'[v] = ledger[v]
  BY <1>1 DEF TypeOK
<1>3. Grows
  <2>1. ASSUME NEW v \in Users
        PROVE  /\ ledger'[v].credit >= ledger[v].credit
               /\ ledger'[v].logged >= ledger[v].logged
               /\ ledger'[v].bought >= ledger[v].bought
    BY <1>1, <1>2, EntryTypes DEF Entries
  <2> QED  BY <2>1 DEF Grows
<1>4. WithinCredits'
  BY <1>2 DEF Inv, WithinCredits
<1>5. Accounted'
  BY <1>2 DEF Inv, Accounted, Agrees
<1> QED  BY <1>2, <1>3, <1>4, <1>5

LEMMA RenewUserKept ==
  ASSUME Inv, NEW p \in Procs, NEW u \in Users, RenewUser(p, u)
  PROVE  Inv'
<1> DEFINE copy == proc[p].copy[u]
<1>1. TypeOK /\ proc[p] \in Process /\ copy \in UserRow /\ user[u] \in UserRow
      /\ ledger[u] \in Entries /\ FirstRow[u] \in UserRow /\ Price \in Nat /\ Period \in Nat
  BY EntryTypes, AccountsAssumption DEF Inv, TypeOK, Process
<1>2. PICK r : r = [user[u] EXCEPT !.balance = copy.balance - Price, !.expiry = copy.expiry + Period]
  OBVIOUS
<1>3. PICK e : e = [ledger[u] EXCEPT !.debit = ledger[u].debit + Price,
                                     !.bought = ledger[u].bought + Period]
  OBVIOUS
<1>4. /\ r \in UserRow /\ r.balance = copy.balance - Price /\ r.commission = user[u].commission
      /\ r.expiry = copy.expiry + Period
  <2>1. copy.balance - Price \in Nat /\ copy.expiry + Period \in Nat
    BY <1>1 DEF RenewUser, Affordable, UserRow
  <2>2. PICK b \in Nat, x \in Nat : b = copy.balance - Price /\ x = copy.expiry + Period
    BY <2>1
  <2>3. r = [user[u] EXCEPT !.balance = b, !.expiry = x]
    BY <1>2, <2>2
  <2>4. r \in UserRow /\ r.balance = b /\ r.commission = user[u].commission /\ r.expiry = x
    BY <1>1, <2>3 DEF UserRow
  <2> QED  BY <2>2, <2>4
<1>5. /\ e \in Entries /\ e.credit = ledger[u].credit /\ e.debit = ledger[u].debit + Price
      /\ e.logged = ledger[u].logged /\ e.moved = ledger[u].moved
      /\ e.bought = ledger[u].bought + Period /\ e.given = ledger[u].given
  <2>1. ledger[u].debit + Price \in Nat /\ ledger[u].bought + Period \in Nat
    BY <1>1 DEF Entries
  <2>2. PICK d \in Nat, b \in Nat : d = ledger[u].debit + Price /\ b = ledger[u].bought + Period
    BY <2>1
  <2>3. e = [ledger[u] EXCEPT !.debit = d, !.bought = b]
    BY <1>3, <2>2
  <2>4. /\ e \in Entries /\ e.credit = ledger[u].credit /\ e.debit = d
        /\ e.logged = ledger[u].logged /\ e.moved = ledger[u].moved
        /\ e.bought = b /\ e.given = ledger[u].given
    BY <1>1, <2>3 DEF Entries
  <2> QED  BY <2>2, <2>4
<1>6. user' = [user EXCEPT ![u] = r] /\ ledger' = [ledger EXCEPT ![u] = e]
  BY <1>1, <1>2, <1>3 DEF RenewUser, TypeOK
<1>7. Bounded(copy, u) /\ Bounded(user[u], u)
  BY RowBounded DEF Inv, Copies
<1>8. /\ history' \in [raced: SUBSET Users, shared: SUBSET Orders, edited: SUBSET Orders]
      /\ history'.shared = history.shared /\ history'.edited = history.edited
      /\ history.raced \subseteq history'.raced
      /\ u \notin history'.raced => /\ u \notin history.raced
                                    /\ copy.balance = user[u].balance
                                    /\ copy.expiry = user[u].expiry
  BY <1>1 DEF RenewUser, TypeOK
<1>9. u \notin history'.raced => Agrees(r, e, u)
  <2> SUFFICES ASSUME u \notin history'.raced
               PROVE  Agrees(r, e, u)
    OBVIOUS
  <2>1. Agrees(user[u], ledger[u], u)
    BY <1>8 DEF Inv, Accounted, Agrees
  <2> QED  BY <1>1, <1>4, <1>5, <1>8, <2>1 DEF Agrees, UserRow, Entries
<1>10. /\ e.credit >= ledger[u].credit /\ e.logged >= ledger[u].logged
       /\ e.bought >= ledger[u].bought
       /\ r.balance <= FirstRow[u].balance + e.credit
       /\ r.commission <= FirstRow[u].commission + e.logged
       /\ r.expiry <= FirstRow[u].expiry + e.bought
  BY <1>1, <1>4, <1>5, <1>7 DEF Bounded, UserRow, Entries
<1> HIDE DEF copy
<1>11. /\ user' \in [Users -> UserRow] /\ ledger' \in [Users -> Entries]
       /\ Grows /\ WithinCredits' /\ Accounted'
  BY <1>4, <1>5, <1>6, <1>8, <1>9, <1>10, OneRow
<1>12. /\ Become(p, Passed(p, u)) /\ Ready(Passed(p, u)) /\ Passed(p, u).todo = proc[p].todo
  BY PassedReady DEF RenewUser
<1>13. UNCHANGED <<order, others, failures>>
  BY DEF RenewUser
<1>14. proc'[p] = Passed(p, u) /\ (\A q \in Procs \ {p} : proc'[q] = proc[q]) => Listing'
  BY <1>8, <1>12, <1>13, ListingKept
<1> QED  BY <1>1, <1>8, <1>11, <1>12, <1>13, <1>14, Writes DEF TypeOK

LEMMA RenewalRefusedKept ==
  ASSUME Inv, NEW p \in Procs, NEW u \in Users, RenewalRefused(p, u)
  PROVE  Inv'
<1>1. TypeOK /\ user[u] \in UserRow
  BY EntryTypes DEF Inv
<1>2. /\ user' \in [Users -> UserRow]
      /\ \A v \in Users : /\ user'[v].balance = user[v].balance
                          /\ user'[v].commission = user[v].commission
                          /\ user'[v].expiry = user[v].expiry
  BY <1>1 DEF RenewalRefused, TypeOK, UserRow
<1>3. UNCHANGED <<order, others, failures, ledger, history>>
  BY DEF RenewalRefused
<1>4. ledger' \in [Users -> Entries] /\ Grows
  BY <1>1, <1>3 DEF TypeOK, Grows, Entries
<1>5. WithinCredits' /\ Accounted'
  BY <1>2, <1>3 DEF Inv, WithinCredits, Accounted
<1>6. /\ Become(p, Passed(p, u)) /\ Ready(Passed(p, u)) /\ Passed(p, u).todo = proc[p].todo
  BY PassedReady DEF RenewalRefused
<1>7. proc'[p] = Passed(p, u) /\ (\A q \in Procs \ {p} : proc'[q] = proc[q]) => Listing'
  BY <1>3, <1>6, ListingKept
<1> QED  BY <1>1, <1>2, <1>3, <1>4, <1>5, <1>6, <1>7, Writes DEF TypeOK

LEMMA TransferCommitKept ==
  ASSUME Inv, NEW p \in Procs, NEW o \in Orders, TransferCommit(p, o)
  PROVE  Inv'
<1> DEFINE u    == proc[p].who
           a    == proc[p].amount
           copy == proc[p].copy[u]
           new  == [state |-> "pending", inviter |-> Inviter[u],
                    commission |-> IF Inviter[u] = Nobody THEN 0 ELSE CommissionOf[a],
                    paid |-> 0]
<1>1. /\ TypeOK /\ proc[p] \in Process /\ u \in Users /\ a \in Nat /\ copy \in UserRow
      /\ user[u] \in UserRow /\ ledger[u] \in Entries /\ FirstRow[u] \in UserRow
  BY EntryTypes DEF Inv, TypeOK, Process
<1>2. PICK b \in Nat, c \in Nat : b = copy.balance + a /\ c = copy.commission - a
  <2>1. proc[p].op = "transfer"
    BY DEF TransferCommit
  <2>2. a <= copy.commission
    BY <2>1 DEF Inv, Covered
  <2>3. copy.balance \in Nat /\ copy.commission \in Nat
    BY <1>1 DEF UserRow
  <2> HIDE DEF a, copy
  <2> QED  BY <1>1, <2>2, <2>3
<1>3. PICK m \in Nat, n \in Nat : m = ledger[u].moved + a /\ n = ledger[u].credit + a
  BY <1>1 DEF Entries
<1>4. PICK r : r = [user[u] EXCEPT !.commission = c, !.balance = b]
  OBVIOUS
<1>5. PICK e : e = [ledger[u] EXCEPT !.moved = m, !.credit = n]
  OBVIOUS
<1>6. r \in UserRow /\ r.balance = b /\ r.commission = c /\ r.expiry = user[u].expiry
  BY <1>1, <1>4 DEF UserRow
<1>7. /\ e \in Entries /\ e.credit = n /\ e.debit = ledger[u].debit
      /\ e.logged = ledger[u].logged /\ e.moved = m
      /\ e.bought = ledger[u].bought /\ e.given = ledger[u].given
  BY <1>1, <1>5 DEF Entries
<1>8. user' = [user EXCEPT ![u] = r] /\ ledger' = [ledger EXCEPT ![u] = e]
  <2>1. user' = [user EXCEPT ![u] = r]
    BY <1>1, <1>2, <1>4 DEF TransferCommit, TypeOK
  <2>2. ledger' = [ledger EXCEPT ![u] = e]
    BY <1>1, <1>3, <1>5 DEF TransferCommit, TypeOK
  <2> QED  BY <2>1, <2>2
<1>9. Bounded(copy, u) /\ Bounded(user[u], u)
  BY <1>1, RowBounded DEF Inv, Copies
<1>10. /\ history' \in [raced: SUBSET Users, shared: SUBSET Orders, edited: SUBSET Orders]
       /\ history'.shared = history.shared /\ history'.edited = history.edited
       /\ history.raced \subseteq history'.raced
       /\ u \notin history'.raced => /\ u \notin history.raced
                                     /\ copy.balance = user[u].balance
                                     /\ copy.commission = user[u].commission
  BY <1>1 DEF TransferCommit, TypeOK
<1> HIDE DEF u, a, copy
<1>11. u \notin history'.raced => Agrees(r, e, u)
  <2> SUFFICES ASSUME u \notin history'.raced
               PROVE  Agrees(r, e, u)
    OBVIOUS
  <2>1. Agrees(user[u], ledger[u], u)
    BY <1>1, <1>10 DEF Inv, Accounted, Agrees
  <2> QED  BY <1>1, <1>2, <1>3, <1>6, <1>7, <1>10, <2>1 DEF Agrees, UserRow, Entries
<1>12. /\ e.credit >= ledger[u].credit /\ e.logged >= ledger[u].logged
       /\ e.bought >= ledger[u].bought
       /\ r.balance <= FirstRow[u].balance + e.credit
       /\ r.commission <= FirstRow[u].commission + e.logged
       /\ r.expiry <= FirstRow[u].expiry + e.bought
  BY <1>1, <1>2, <1>3, <1>6, <1>7, <1>9 DEF Bounded, UserRow, Entries
<1>13. /\ user' \in [Users -> UserRow] /\ ledger' \in [Users -> Entries]
       /\ Grows /\ WithinCredits' /\ Accounted'
  BY <1>1, <1>6, <1>7, <1>8, <1>10, <1>11, <1>12, OneRow
<1>14. order' = [order EXCEPT ![o] = new] /\ order[o].state = "absent"
       /\ Become(p, Idle) /\ UNCHANGED <<others, failures>>
  BY DEF TransferCommit, IsNextId, u, a
<1>15. new \in OrderRow
  <2>1. Inviter[u] \in Users \cup {Nobody}
    BY <1>1, AccountsAssumption
  <2>2. CASE Inviter[u] = Nobody
    BY <2>1, <2>2 DEF OrderRow
  <2>3. CASE Inviter[u] # Nobody
    <3>1. CommissionOf[a] \in Nat
      BY <1>1, AccountsAssumption, <2>3 DEF Inv, Covered, TransferCommit, a
    <3> QED  BY <2>1, <2>3, <3>1 DEF OrderRow
  <2> QED  BY <2>2, <2>3
<1>16. new.state = "pending" /\ new.paid = 0
  OBVIOUS
<1> HIDE DEF new
<1>17. order' \in [Orders -> OrderRow]
  BY <1>1, <1>14, <1>15 DEF TypeOK
<1>18. ASSUME proc'[p] = Idle, \A q \in Procs \ {p} : proc'[q] = proc[q]
       PROVE  Listing'
  <2>1. \A q \in Procs : proc'[q].todo \subseteq proc[q].todo
    BY <1>18, IdleTyped
  <2>2. order'[o] = new /\ \A x \in Orders \ {o} : order'[x] = order[x]
    BY <1>1, <1>14 DEF TypeOK
  <2> QED  BY <1>10, <1>14, <1>16, <2>1, <2>2 DEF Inv, Listing
<1> QED  BY <1>1, <1>10, <1>13, <1>14, <1>17, <1>18, IdleReady, Writes

LEMMA OpenCommitKept == ASSUME Inv, NEW p \in Procs, OpenCommit(p) PROVE Inv'
<1> DEFINE u    == proc[p].who
           copy == proc[p].copy[u]
<1>1. /\ TypeOK /\ proc[p] \in Process /\ u \in Users /\ copy \in UserRow
      /\ user[u] \in UserRow /\ ledger[u] \in Entries /\ FirstRow[u] \in UserRow
      /\ Price \in Nat
  BY EntryTypes, AccountsAssumption DEF Inv, TypeOK, Process
<1>2. PICK b \in Nat, n \in Nat : b = copy.balance + Price /\ n = ledger[u].credit + Price
  BY <1>1 DEF UserRow, Entries
<1>3. PICK r : r = [user[u] EXCEPT !.balance = b]
  OBVIOUS
<1>4. PICK e : e = [ledger[u] EXCEPT !.credit = n]
  OBVIOUS
<1>5. /\ r \in UserRow /\ r.balance = b /\ r.commission = user[u].commission
      /\ r.expiry = user[u].expiry
  BY <1>1, <1>3 DEF UserRow
<1>6. /\ e \in Entries /\ e.credit = n /\ e.debit = ledger[u].debit
      /\ e.logged = ledger[u].logged /\ e.moved = ledger[u].moved
      /\ e.bought = ledger[u].bought /\ e.given = ledger[u].given
  BY <1>1, <1>4 DEF Entries
<1>7. user' = [user EXCEPT ![u] = r] /\ ledger' = [ledger EXCEPT ![u] = e]
  <2>1. user' = [user EXCEPT ![u] = r]
    BY <1>1, <1>2, <1>3 DEF OpenCommit, TypeOK
  <2>2. ledger' = [ledger EXCEPT ![u] = e]
    BY <1>1, <1>2, <1>4 DEF OpenCommit, TypeOK
  <2> QED  BY <2>1, <2>2
<1>8. Bounded(copy, u) /\ Bounded(user[u], u)
  BY <1>1, RowBounded DEF Inv, Copies
<1>9. /\ history' \in [raced: SUBSET Users, shared: SUBSET Orders, edited: SUBSET Orders]
      /\ history'.shared = history.shared /\ history'.edited = history.edited
      /\ history.raced \subseteq history'.raced
      /\ u \notin history'.raced => u \notin history.raced /\ copy.balance = user[u].balance
  BY <1>1 DEF OpenCommit, TypeOK
<1> HIDE DEF u, copy
<1>10. u \notin history'.raced => Agrees(r, e, u)
  <2> SUFFICES ASSUME u \notin history'.raced
               PROVE  Agrees(r, e, u)
    OBVIOUS
  <2>1. Agrees(user[u], ledger[u], u)
    BY <1>1, <1>9 DEF Inv, Accounted, Agrees
  <2> QED  BY <1>1, <1>2, <1>5, <1>6, <1>9, <2>1 DEF Agrees, UserRow, Entries
<1>11. /\ e.credit >= ledger[u].credit /\ e.logged >= ledger[u].logged
       /\ e.bought >= ledger[u].bought
       /\ r.balance <= FirstRow[u].balance + e.credit
       /\ r.commission <= FirstRow[u].commission + e.logged
       /\ r.expiry <= FirstRow[u].expiry + e.bought
  BY <1>1, <1>2, <1>5, <1>6, <1>8 DEF Bounded, UserRow, Entries
<1>12. /\ user' \in [Users -> UserRow] /\ ledger' \in [Users -> Entries]
       /\ Grows /\ WithinCredits' /\ Accounted'
  BY <1>1, <1>5, <1>6, <1>7, <1>9, <1>10, <1>11, OneRow
<1>13. Become(p, Idle) /\ UNCHANGED <<order, others, failures>>
  BY DEF OpenCommit
<1>14. ASSUME proc'[p] = Idle, \A q \in Procs \ {p} : proc'[q] = proc[q]
       PROVE  Listing'
  <2>1. \A q \in Procs : proc'[q].todo \subseteq proc[q].todo
    BY <1>14, IdleTyped
  <2> QED  BY <1>9, <1>13, <2>1 DEF Inv, Listing
<1> QED  BY <1>1, <1>9, <1>12, <1>13, <1>14, IdleReady, Writes DEF TypeOK

LEMMA PeriodCommitKept ==
  ASSUME Inv, NEW p \in Procs, NEW days \in 1..ResetPeriod, PeriodCommit(p, days)
  PROVE  Inv'
<1> DEFINE u    == proc[p].who
           copy == proc[p].copy[u]
<1>1. /\ TypeOK /\ proc[p] \in Process /\ u \in Users /\ copy \in UserRow /\ days \in Nat
      /\ user[u] \in UserRow /\ ledger[u] \in Entries /\ FirstRow[u] \in UserRow
  BY EntryTypes, AccountsAssumption DEF Inv, TypeOK, Process
<1>2. PICK x \in Nat : x = copy.expiry - days
  <2>1. EnoughTime(copy)
    BY DEF Inv, Covered, PeriodCommit
  <2>2. copy.expiry \in Nat /\ days <= ResetPeriod /\ ResetPeriod \in Nat
    BY <1>1, AccountsAssumption DEF UserRow
  <2>3. copy.expiry - days \in Nat
    BY <1>1, <2>1, <2>2 DEF EnoughTime
  <2> QED  BY <2>3
<1>3. PICK n \in Nat : n = ledger[u].given + days
  BY <1>1 DEF Entries
<1>4. PICK r : r = [user[u] EXCEPT !.expiry = x, !.usedUp = 0]
  OBVIOUS
<1>5. PICK e : e = [ledger[u] EXCEPT !.given = n]
  OBVIOUS
<1>6. r \in UserRow /\ r.balance = user[u].balance /\ r.commission = user[u].commission
      /\ r.expiry = x
  BY <1>1, <1>4 DEF UserRow
<1>7. /\ e \in Entries /\ e.credit = ledger[u].credit /\ e.debit = ledger[u].debit
      /\ e.logged = ledger[u].logged /\ e.moved = ledger[u].moved
      /\ e.bought = ledger[u].bought /\ e.given = n
  BY <1>1, <1>5 DEF Entries
<1>8. user' = [user EXCEPT ![u] = r] /\ ledger' = [ledger EXCEPT ![u] = e]
  BY <1>1, <1>2, <1>3, <1>4, <1>5 DEF PeriodCommit, TypeOK
<1>9. Bounded(copy, u) /\ Bounded(user[u], u)
  BY <1>1, RowBounded DEF Inv, Copies
<1>10. /\ history' \in [raced: SUBSET Users, shared: SUBSET Orders, edited: SUBSET Orders]
       /\ history'.shared = history.shared /\ history'.edited = history.edited
       /\ history.raced \subseteq history'.raced
       /\ u \notin history'.raced => u \notin history.raced /\ copy.expiry = user[u].expiry
  BY <1>1 DEF PeriodCommit, TypeOK
<1>11. UNCHANGED <<order, others, failures>> /\ Become(p, Idle)
  BY DEF PeriodCommit
<1> HIDE DEF u, copy
<1>12. u \notin history'.raced => Agrees(r, e, u)
  <2> SUFFICES ASSUME u \notin history'.raced
               PROVE  Agrees(r, e, u)
    OBVIOUS
  <2>1. Agrees(user[u], ledger[u], u)
    BY <1>1, <1>10 DEF Inv, Accounted, Agrees
  <2> QED  BY <1>1, <1>2, <1>3, <1>6, <1>7, <1>10, <2>1 DEF Agrees, UserRow, Entries
<1>13. /\ e.credit >= ledger[u].credit /\ e.logged >= ledger[u].logged
       /\ e.bought >= ledger[u].bought
       /\ r.balance <= FirstRow[u].balance + e.credit
       /\ r.commission <= FirstRow[u].commission + e.logged
       /\ r.expiry <= FirstRow[u].expiry + e.bought
  BY <1>1, <1>2, <1>6, <1>7, <1>9 DEF Bounded, UserRow, Entries
<1>14. /\ user' \in [Users -> UserRow] /\ ledger' \in [Users -> Entries]
       /\ Grows /\ WithinCredits' /\ Accounted'
  BY <1>1, <1>6, <1>7, <1>8, <1>10, <1>12, <1>13, OneRow
<1>15. proc'[p] = Idle /\ (\A q \in Procs \ {p} : proc'[q] = proc[q]) => Listing'
  BY <1>10, <1>11, ListingKept, IdleTyped
<1> QED  BY <1>1, <1>10, <1>11, <1>14, <1>15, IdleReady, Writes DEF TypeOK

-----------------------------------------------------------------------------
(* Payouts *)

LEMMA PayingReady ==
  ASSUME TypeOK, NEW todo \in SUBSET Orders
  PROVE  Ready(Paying(todo)) /\ Paying(todo).todo = todo
<1>1. CASE todo = {}
  BY <1>1, IdleReady, IdleTyped DEF Paying
<1>2. CASE todo # {}
  <2>1. PICK st : st = [Idle EXCEPT !.op = "pay", !.todo = todo]
    OBVIOUS
  <2>2. st \in Process /\ st.op = "pay" /\ st.todo = todo /\ st.copy = Nothing
    BY <2>1, IdleTyped DEF Process
  <2>3. Ready(st)
    BY <2>2, IdleTyped, NoRowBounded DEF Ready
  <2> QED  BY <1>2, <2>1, <2>2, <2>3 DEF Paying
<1> QED  BY <1>1, <1>2

LEMMA CommissionStartKept ==
  ASSUME Inv, NEW p \in Procs, NEW S \in SUBSET Orders, CommissionStart(p, S)
  PROVE  Inv'
<1> DEFINE checked == [o \in Orders |-> IF o \in S THEN [order[o] EXCEPT !.state = "confirmed"]
                                        ELSE order[o]]
           list    == {o \in Orders : Payable(checked[o])}
<1>1. /\ TypeOK /\ list \in SUBSET Orders
      /\ order' = checked
      /\ \A o \in S : order[o].state = "pending"
      /\ Become(p, Paying(list))
      /\ history' = [history EXCEPT !.shared = @ \cup (list \cap Listed)]
      /\ UNCHANGED <<user, others, failures, ledger>>
  BY DEF CommissionStart, Inv
<1>2. ASSUME NEW o \in Orders
      PROVE  /\ checked[o] \in OrderRow /\ checked[o].paid = order[o].paid
             /\ o \in S => checked[o].state = "confirmed"
             /\ o \notin S => checked[o].state = order[o].state
  <2>1. order[o] \in OrderRow
    BY <1>1 DEF TypeOK
  <2> QED  BY <2>1 DEF OrderRow
<1>3. checked \in [Orders -> OrderRow] /\ \A o \in list : checked[o].state = "confirmed"
  BY <1>2 DEF Payable
<1> HIDE DEF checked, list
<1>4. /\ history' \in [raced: SUBSET Users, shared: SUBSET Orders, edited: SUBSET Orders]
      /\ history'.raced = history.raced /\ history'.edited = history.edited
      /\ history'.shared = history.shared \cup (list \cap Listed)
  BY <1>1 DEF TypeOK
<1>5. /\ user' \in [Users -> UserRow] /\ ledger' \in [Users -> Entries] /\ Grows
      /\ WithinCredits' /\ Accounted'
  BY <1>1, <1>4 DEF Inv, TypeOK, Entries, Grows, WithinCredits, Accounted
<1>6. Ready(Paying(list)) /\ Paying(list).todo = list
  BY <1>1, PayingReady
<1>7. ASSUME proc'[p] = Paying(list), \A q \in Procs \ {p} : proc'[q] = proc[q]
      PROVE  Listing'
  <2> SUFFICES ASSUME NEW o \in Orders \ (history'.shared \cup history'.edited)
               PROVE  /\ order'[o].paid <= 1
                      /\ order'[o].state \in {"absent", "pending", "confirmed"} => order'[o].paid = 0
                      /\ \A r \in Procs : o \in proc'[r].todo =>
                           /\ order'[o].state = "confirmed"
                           /\ \A q \in Procs : o \in proc'[q].todo => q = r
    BY DEF Listing
  <2>1. o \notin history.shared \cup history.edited /\ ~(o \in list /\ o \in Listed)
    BY <1>4
  <2>2. /\ order[o].paid <= 1
        /\ order[o].state \in {"absent", "pending", "confirmed"} => order[o].paid = 0
        /\ \A r \in Procs : o \in proc[r].todo =>
             /\ order[o].state = "confirmed"
             /\ \A q \in Procs : o \in proc[q].todo => q = r
    BY <2>1 DEF Inv, Listing
  <2>3. order'[o].paid = order[o].paid
    BY <1>1, <1>2
  <2>4. order'[o].state \in {"absent", "pending", "confirmed"} => order[o].paid = 0
    BY <1>1, <1>2, <2>2
  <2>5. \A q \in Procs : o \in proc[q].todo => o \in Listed
    BY DEF Listed
  <2>6. ASSUME NEW r \in Procs, o \in proc'[r].todo
        PROVE  order'[o].state = "confirmed"
    <3>1. CASE r = p
      BY <1>1, <1>3, <1>6, <1>7, <2>6, <3>1
    <3>2. CASE r # p
      <4>1. order[o].state = "confirmed"
        BY <1>7, <2>2, <2>6, <3>2
      <4> QED  BY <1>1, <1>2, <4>1
    <3> QED  BY <3>1, <3>2
  <2>7. ASSUME NEW r \in Procs, NEW q \in Procs, o \in proc'[r].todo, o \in proc'[q].todo
        PROVE  q = r
    BY <1>6, <1>7, <2>1, <2>2, <2>5, <2>7
  <2> QED  BY <2>2, <2>3, <2>4, <2>6, <2>7
<1> QED  BY <1>1, <1>3, <1>4, <1>5, <1>6, <1>7, Writes

LEMMA PayOutKept ==
  ASSUME Inv, NEW p \in Procs, NEW o \in Orders, PayOut(p, o)
  PROVE  Inv'
<1> DEFINE i     == order[o].inviter
           c     == order[o].commission
           copy  == proc[p].copy
           G(u)  == Gain(u, i, c)
           paid  == {u \in Users : \E l \in Levels : Payee(i, c, l) = u /\ Fraction(c, l) > 0}
           stale == {u \in paid : IF WithdrawClosed THEN copy[u].balance # user[u].balance
                                   ELSE copy[u].commission # user[u].commission}
           left  == proc[p].todo \ {o}
<1>1. /\ TypeOK /\ order[o] \in OrderRow /\ c \in Nat /\ proc[p] \in Process
      /\ copy \in [Users -> UserRow] /\ proc[p].todo \in SUBSET Orders
  BY DEF Inv, TypeOK, OrderRow, Process
<1>2. /\ o \in proc[p].todo
      /\ user' = [u \in Users |->
           IF u \notin paid THEN user[u]
           ELSE IF WithdrawClosed
           THEN [user[u] EXCEPT !.balance = copy[u].balance + G(u)]
           ELSE [user[u] EXCEPT !.commission = copy[u].commission + G(u)]]
      /\ ledger' = [u \in Users |->
           IF WithdrawClosed THEN [ledger[u] EXCEPT !.credit = @ + G(u)]
           ELSE [ledger[u] EXCEPT !.logged = @ + G(u)]]
      /\ order' = [order EXCEPT ![o].state = "paid", ![o].paid = @ + 1]
      /\ Become(p, Paying(left))
      /\ history' = [history EXCEPT !.raced = @ \cup stale]
      /\ UNCHANGED <<others, failures>>
  BY DEF PayOut
<1>3. \A u \in Users : G(u) \in Nat /\ (G(u) # 0 => u \in paid)
  BY <1>1, GainType
<1>4. /\ history' \in [raced: SUBSET Users, shared: SUBSET Orders, edited: SUBSET Orders]
      /\ history'.shared = history.shared /\ history'.edited = history.edited
      /\ history'.raced = history.raced \cup stale
  BY <1>1, <1>2 DEF TypeOK
<1> HIDE DEF G, c, i, copy, paid
<1>5. ASSUME NEW u \in Users
      PROVE  /\ user'[u] \in UserRow /\ ledger'[u] \in Entries
             /\ ledger'[u].credit >= ledger[u].credit /\ ledger'[u].logged >= ledger[u].logged
             /\ ledger'[u].bought >= ledger[u].bought
             /\ Bounded(user[u], u)'
             /\ u \notin history'.raced => Agrees(user'[u], ledger'[u], u)
  <2>1. /\ user[u] \in UserRow /\ ledger[u] \in Entries /\ FirstRow[u] \in UserRow
        /\ copy[u] \in UserRow /\ Bounded(copy[u], u) /\ Bounded(user[u], u)
    BY <1>1, EntryTypes, RowBounded DEF Inv, Copies, copy
  <2>2. PICK g \in Nat : g = G(u) /\ (g # 0 => u \in paid)
    BY <1>3
  <2>3. u \notin history.raced => Agrees(user[u], ledger[u], u)
    BY DEF Inv, Accounted, Agrees
  <2>4. CASE WithdrawClosed
    <3>1. PICK n \in Nat : n = ledger[u].credit + g
      BY <2>1 DEF Entries
    <3>2. ledger'[u] = [ledger[u] EXCEPT !.credit = n]
      BY <1>2, <2>2, <2>4, <3>1
    <3>3. /\ ledger'[u] \in Entries /\ ledger'[u].credit = n /\ ledger'[u].debit = ledger[u].debit
          /\ ledger'[u].logged = ledger[u].logged /\ ledger'[u].moved = ledger[u].moved
          /\ ledger'[u].bought = ledger[u].bought /\ ledger'[u].given = ledger[u].given
      BY <2>1, <3>2 DEF Entries
    <3>4. PICK b \in Nat : b = IF u \in paid THEN copy[u].balance + g ELSE user[u].balance
      BY <2>1 DEF UserRow
    <3>5. /\ user'[u] \in UserRow /\ user'[u].balance = b
          /\ user'[u].commission = user[u].commission /\ user'[u].expiry = user[u].expiry
      <4>1. CASE u \in paid
        <5>1. user'[u] = [user[u] EXCEPT !.balance = b]
          BY <1>2, <2>2, <2>4, <3>4, <4>1
        <5> QED  BY <2>1, <5>1 DEF UserRow
      <4>2. CASE u \notin paid
        BY <1>2, <2>1, <2>2, <3>4, <4>2
      <4> QED  BY <4>1, <4>2
    <3>6. u \notin history'.raced => (u \in paid => copy[u].balance = user[u].balance)
      BY <1>4, <2>2, <2>4
    <3>7. Bounded(user[u], u)'
      BY <2>1, <3>1, <3>3, <3>4, <3>5 DEF Bounded, UserRow, Entries
    <3>8. u \notin history'.raced => Agrees(user'[u], ledger'[u], u)
      BY <1>4, <2>1, <2>2, <2>3, <3>1, <3>3, <3>4, <3>5, <3>6 DEF Agrees, UserRow, Entries
    <3>9. n >= ledger[u].credit
      BY <2>1, <3>1 DEF Entries
    <3> QED  BY <2>1, <3>3, <3>5, <3>7, <3>8, <3>9 DEF Entries
  <2>5. CASE ~WithdrawClosed
    <3>1. PICK n \in Nat : n = ledger[u].logged + g
      BY <2>1 DEF Entries
    <3>2. ledger'[u] = [ledger[u] EXCEPT !.logged = n]
      BY <1>2, <2>2, <2>5, <3>1
    <3>3. /\ ledger'[u] \in Entries /\ ledger'[u].logged = n /\ ledger'[u].debit = ledger[u].debit
          /\ ledger'[u].credit = ledger[u].credit /\ ledger'[u].moved = ledger[u].moved
          /\ ledger'[u].bought = ledger[u].bought /\ ledger'[u].given = ledger[u].given
      BY <2>1, <3>2 DEF Entries
    <3>4. PICK b \in Nat : b = IF u \in paid THEN copy[u].commission + g ELSE user[u].commission
      BY <2>1 DEF UserRow
    <3>5. /\ user'[u] \in UserRow /\ user'[u].commission = b
          /\ user'[u].balance = user[u].balance /\ user'[u].expiry = user[u].expiry
      <4>1. CASE u \in paid
        <5>1. user'[u] = [user[u] EXCEPT !.commission = b]
          BY <1>2, <2>2, <2>5, <3>4, <4>1
        <5> QED  BY <2>1, <5>1 DEF UserRow
      <4>2. CASE u \notin paid
        BY <1>2, <2>1, <2>2, <3>4, <4>2
      <4> QED  BY <4>1, <4>2
    <3>6. u \notin history'.raced => (u \in paid => copy[u].commission = user[u].commission)
      BY <1>4, <2>2, <2>5
    <3>7. Bounded(user[u], u)'
      BY <2>1, <3>1, <3>3, <3>4, <3>5 DEF Bounded, UserRow, Entries
    <3>8. u \notin history'.raced => Agrees(user'[u], ledger'[u], u)
      BY <1>4, <2>1, <2>2, <2>3, <3>1, <3>3, <3>4, <3>5, <3>6 DEF Agrees, UserRow, Entries
    <3>9. n >= ledger[u].logged
      BY <2>1, <3>1 DEF Entries
    <3> QED  BY <2>1, <3>3, <3>5, <3>7, <3>8, <3>9 DEF Entries
  <2> QED  BY <2>4, <2>5
<1>6. user' \in [Users -> UserRow] /\ ledger' \in [Users -> Entries]
  BY <1>2, <1>5
<1>7. Grows
  BY <1>5 DEF Grows
<1>8. WithinCredits' /\ Accounted'
  BY <1>5 DEF WithinCredits, Accounted, Agrees, Bounded
<1>9. Ready(Paying(left)) /\ Paying(left).todo = left
  BY <1>1, PayingReady
<1>10. order[o].paid \in Nat
  BY <1>1 DEF OrderRow
<1>11. PICK n \in Nat : n = order[o].paid + 1
  BY <1>10
<1>12. PICK new : new = [order[o] EXCEPT !.state = "paid", !.paid = n]
  OBVIOUS
<1>13. new \in OrderRow /\ new.state = "paid" /\ new.paid = n
  BY <1>1, <1>3, <1>12 DEF OrderRow
<1>14. order' = [order EXCEPT ![o] = new]
  <2>1. order' = [order EXCEPT ![o].state = "paid", ![o].paid = n]
    BY <1>2, <1>11
  <2> QED  BY <1>1, <1>12, <2>1 DEF TypeOK
<1>15. /\ order' \in [Orders -> OrderRow] /\ order'[o] = new
       /\ \A x \in Orders \ {o} : order'[x] = order[x]
  BY <1>1, <1>13, <1>14 DEF TypeOK
<1>16. ASSUME proc'[p] = Paying(left), \A q \in Procs \ {p} : proc'[q] = proc[q]
       PROVE  Listing'
  <2> SUFFICES ASSUME NEW x \in Orders \ (history'.shared \cup history'.edited)
               PROVE  /\ order'[x].paid <= 1
                      /\ order'[x].state \in {"absent", "pending", "confirmed"} => order'[x].paid = 0
                      /\ \A r \in Procs : x \in proc'[r].todo =>
                           /\ order'[x].state = "confirmed"
                           /\ \A q \in Procs : x \in proc'[q].todo => q = r
    BY DEF Listing
  <2>1. /\ order[x].paid <= 1
        /\ order[x].state \in {"absent", "pending", "confirmed"} => order[x].paid = 0
        /\ \A r \in Procs : x \in proc[r].todo =>
             /\ order[x].state = "confirmed"
             /\ \A q \in Procs : x \in proc[q].todo => q = r
    BY <1>4 DEF Inv, Listing
  <2>2. \A q \in Procs : /\ proc'[q].todo \subseteq proc[q].todo
                         /\ q = p => o \notin proc'[q].todo
    BY <1>9, <1>16
  <2>3. CASE x = o
    <3>1. order[o].paid = 0 /\ \A q \in Procs : o \notin proc'[q].todo
      BY <1>2, <2>1, <2>2, <2>3
    <3> QED  BY <1>11, <1>13, <1>15, <2>3, <3>1
  <2>4. CASE x # o
    BY <1>15, <2>1, <2>2, <2>4
  <2> QED  BY <2>3, <2>4
<1> HIDE DEF left
<1> QED  BY <1>2, <1>4, <1>6, <1>7, <1>8, <1>9, <1>15, <1>16, Writes

-----------------------------------------------------------------------------
(* Others *)

\* What others write leaves the processes as they are.
LEMMA CopiesStay ==
  ASSUME Inv, Grows, ledger' \in [Users -> Entries], UNCHANGED proc
  PROVE  Copies' /\ \A p \in Procs : Covered(p)'
<1>1. ASSUME NEW q \in Procs, NEW u \in Users
      PROVE  Bounded(proc[q].copy[u], u)'
  <2>1. Bounded(proc[q].copy[u], u) /\ proc[q].copy[u] \in UserRow
    BY DEF Inv, TypeOK, Copies, Process
  <2>2. ledger[u] \in Entries /\ ledger'[u] \in Entries /\ FirstRow[u] \in UserRow
    BY EntryTypes DEF Inv
  <2> QED  BY <2>1, <2>2 DEF Bounded, Grows, UserRow, Entries
<1>2. \A p \in Procs : Covered(p)'
  BY DEF Inv, Covered
<1> QED  BY <1>1, <1>2 DEF Copies

\* Deposits and debits of a row.
LEMMA BalanceKept ==
  ASSUME Inv, NEW u \in Users, NEW b \in Nat, NEW c \in Nat, NEW d \in Nat, NEW e \in Entries,
         user' = [user EXCEPT ![u].balance = b], ledger' = [ledger EXCEPT ![u] = e],
         e.credit = c, e.debit = d, e.logged = ledger[u].logged, e.moved = ledger[u].moved,
         e.bought = ledger[u].bought, e.given = ledger[u].given,
         b - c + d = user[u].balance - ledger[u].credit + ledger[u].debit,
         c >= ledger[u].credit, b - c <= user[u].balance - ledger[u].credit,
         Other, UNCHANGED <<failures, order, proc, history>>
  PROVE  Inv'
<1>1. /\ TypeOK /\ user[u] \in UserRow /\ ledger[u] \in Entries /\ FirstRow[u] \in UserRow
  BY EntryTypes DEF Inv
<1>2. PICK r : r = [user[u] EXCEPT !.balance = b]
  OBVIOUS
<1>3. r \in UserRow /\ r.balance = b /\ r.commission = user[u].commission
      /\ r.expiry = user[u].expiry
  BY <1>1, <1>2 DEF UserRow
<1>4. user' = [user EXCEPT ![u] = r]
  BY <1>1, <1>2 DEF TypeOK
<1>5. history.raced \subseteq history'.raced
  OBVIOUS
<1>6. u \notin history'.raced => Agrees(r, e, u)
  <2> SUFFICES ASSUME u \notin history.raced
               PROVE  Agrees(r, e, u)
    OBVIOUS
  <2>1. Agrees(user[u], ledger[u], u)
    BY DEF Inv, Accounted, Agrees
  <2> QED  BY <1>1, <1>3, <2>1 DEF Agrees, UserRow, Entries
<1>7. Bounded(user[u], u)
  BY RowBounded
<1>8. /\ e.credit >= ledger[u].credit /\ e.logged >= ledger[u].logged
      /\ e.bought >= ledger[u].bought
      /\ r.balance <= FirstRow[u].balance + e.credit
      /\ r.commission <= FirstRow[u].commission + e.logged
      /\ r.expiry <= FirstRow[u].expiry + e.bought
  BY <1>1, <1>3, <1>5, <1>7 DEF Bounded, UserRow, Entries
<1>9. /\ user' \in [Users -> UserRow] /\ ledger' \in [Users -> Entries]
       /\ Grows /\ WithinCredits' /\ Accounted'
  BY <1>3, <1>5, <1>4, <1>6, <1>8, OneRow
<1>10. Copies' /\ \A p \in Procs : Covered(p)'
  BY <1>9, CopiesStay
<1>11. TypeOK' /\ Listing'
  BY <1>1, <1>9, OtherType DEF Inv, TypeOK, Listing
<1> QED  BY <1>9, <1>10, <1>11 DEF Inv

LEMMA DepositKept == ASSUME Inv, NEW u \in Users, Deposit(u) PROVE Inv'
<1>1. /\ TypeOK /\ user[u] \in UserRow /\ ledger[u] \in Entries /\ Price \in Nat
  BY EntryTypes, AccountsAssumption DEF Inv
<1>2. user[u].balance \in Nat /\ ledger[u].credit \in Nat /\ ledger[u].debit \in Nat
  BY <1>1 DEF UserRow, Entries
<1>3. PICK b \in Nat, c \in Nat, d \in Nat :
        b = user[u].balance + Price /\ c = ledger[u].credit + Price /\ d = ledger[u].debit
  BY <1>1, <1>2
<1>4. PICK e : e = [ledger[u] EXCEPT !.credit = c]
  OBVIOUS
<1>5. /\ e \in Entries /\ e.credit = c /\ e.debit = d
      /\ e.logged = ledger[u].logged /\ e.moved = ledger[u].moved
      /\ e.bought = ledger[u].bought /\ e.given = ledger[u].given
  BY <1>1, <1>3, <1>4 DEF Entries
<1>6. user' = [user EXCEPT ![u].balance = b]
  BY <1>3 DEF Deposit
<1>7. ledger' = [ledger EXCEPT ![u] = e]
  <2>1. ledger' = [ledger EXCEPT ![u].credit = c]
    BY <1>3 DEF Deposit
  <2> QED  BY <1>1, <1>4, <2>1 DEF TypeOK
<1>8. /\ b - c + d = user[u].balance - ledger[u].credit + ledger[u].debit
      /\ c >= ledger[u].credit /\ b - c <= user[u].balance - ledger[u].credit
  <2>1. PICK n \in Nat : n = Price
    BY <1>1
  <2>2. b = user[u].balance + n /\ c = ledger[u].credit + n /\ d = ledger[u].debit
    BY <1>3, <2>1
  <2> QED  BY <1>2, <2>2
<1>9. Other /\ UNCHANGED <<failures, order, proc, history>>
  BY DEF Deposit
<1> QED  BY <1>5, <1>6, <1>7, <1>8, <1>9, BalanceKept

LEMMA SpendKept == ASSUME Inv, NEW u \in Users, Spend(u) PROVE Inv'
<1>1. /\ TypeOK /\ user[u] \in UserRow /\ ledger[u] \in Entries
  BY EntryTypes DEF Inv
<1>2. user[u].balance \in Nat /\ ledger[u].credit \in Nat /\ ledger[u].debit \in Nat
  BY <1>1 DEF UserRow, Entries
<1>3. PICK b \in Nat, c \in Nat, d \in Nat :
        b = user[u].balance - 1 /\ c = ledger[u].credit /\ d = ledger[u].debit + 1
  BY <1>2 DEF Spend
<1>4. PICK e : e = [ledger[u] EXCEPT !.debit = d]
  OBVIOUS
<1>5. /\ e \in Entries /\ e.credit = c /\ e.debit = d
      /\ e.logged = ledger[u].logged /\ e.moved = ledger[u].moved
      /\ e.bought = ledger[u].bought /\ e.given = ledger[u].given
  BY <1>1, <1>3, <1>4 DEF Entries
<1>6. user' = [user EXCEPT ![u].balance = b]
  BY <1>3 DEF Spend
<1>7. ledger' = [ledger EXCEPT ![u] = e]
  <2>1. ledger' = [ledger EXCEPT ![u].debit = d]
    BY <1>3 DEF Spend
  <2> QED  BY <1>1, <1>4, <2>1 DEF TypeOK
<1>8. /\ b - c + d = user[u].balance - ledger[u].credit + ledger[u].debit
      /\ c >= ledger[u].credit /\ b - c <= user[u].balance - ledger[u].credit
  BY <1>2, <1>3
<1>9. Other /\ UNCHANGED <<failures, order, proc, history>>
  BY DEF Spend
<1> QED  BY <1>5, <1>6, <1>7, <1>8, <1>9, BalanceKept

LEMMA UseUpKept == ASSUME Inv, NEW u \in Users, UseUp(u) PROVE Inv'
<1>1. TypeOK /\ user[u] \in UserRow
  BY EntryTypes DEF Inv
<1>2. /\ user' \in [Users -> UserRow]
      /\ \A v \in Users : /\ user'[v].balance = user[v].balance
                          /\ user'[v].commission = user[v].commission
                          /\ user'[v].expiry = user[v].expiry
  BY <1>1 DEF UseUp, TypeOK, UserRow
<1>3. UNCHANGED <<order, proc, failures, ledger, history>>
  BY DEF UseUp
<1>4. ledger' \in [Users -> Entries] /\ Grows
  BY <1>1, <1>3 DEF TypeOK, Grows, Entries
<1>5. WithinCredits' /\ Accounted'
  BY <1>2, <1>3 DEF Inv, WithinCredits, Accounted
<1>6. Copies' /\ \A p \in Procs : Covered(p)'
  BY <1>3, <1>4, CopiesStay
<1>7. TypeOK' /\ Listing'
  BY <1>1, <1>2, <1>3, OtherType DEF Inv, TypeOK, Listing, UseUp
<1> QED  BY <1>5, <1>6, <1>7 DEF Inv

LEMMA EditKept ==
  ASSUME Inv, NEW o \in Orders, NEW s, EditCommission(o, s)
  PROVE  Inv'
<1>1. TypeOK /\ order[o] \in OrderRow /\ s \in {"pending", "confirmed", "rejected"}
  BY DEF Inv, TypeOK, EditCommission
<1>2. /\ order' \in [Orders -> OrderRow] /\ \A x \in Orders \ {o} : order'[x] = order[x]
      /\ history' \in [raced: SUBSET Users, shared: SUBSET Orders, edited: SUBSET Orders]
      /\ history'.raced = history.raced /\ history'.shared = history.shared
      /\ history'.edited = history.edited \cup {o}
  BY <1>1 DEF EditCommission, TypeOK, OrderRow
<1>3. UNCHANGED <<user, proc, failures, ledger>>
  BY DEF EditCommission
<1>4. ledger' \in [Users -> Entries] /\ Grows
  BY <1>1, <1>3 DEF TypeOK, Grows, Entries
<1>5. WithinCredits' /\ Accounted'
  BY <1>2, <1>3 DEF Inv, WithinCredits, Accounted
<1>6. Copies' /\ \A p \in Procs : Covered(p)'
  BY <1>3, <1>4, CopiesStay
<1>7. TypeOK'
  BY <1>1, <1>2, <1>3, OtherType DEF TypeOK, EditCommission
<1>8. Listing'
  <2> SUFFICES ASSUME NEW x \in Orders \ (history'.shared \cup history'.edited)
               PROVE  /\ order'[x].paid <= 1
                      /\ order'[x].state \in {"absent", "pending", "confirmed"} => order'[x].paid = 0
                      /\ \A r \in Procs : x \in proc'[r].todo =>
                           /\ order'[x].state = "confirmed"
                           /\ \A q \in Procs : x \in proc'[q].todo => q = r
    BY DEF Listing
  <2>1. x # o /\ x \in Orders \ (history.shared \cup history.edited)
    BY <1>2
  <2> QED  BY <1>2, <1>3, <2>1 DEF Inv, Listing
<1> QED  BY <1>5, <1>6, <1>7, <1>8 DEF Inv

-----------------------------------------------------------------------------
(* The theorems *)

LEMMA InitInv == ASSUME Init PROVE Inv
<1> USE AccountsAssumption DEF Init
<1>1. NoEntries \in Entries
  BY DEF NoEntries, Entries
<1>2. TypeOK
  BY <1>1, IdleTyped DEF TypeOK
<1>3. Copies /\ \A p \in Procs : Covered(p)
  BY <1>2, IdleReady, IdleTyped DEF Copies, Ready, Covered
<1>4. WithinCredits /\ Accounted
  BY DEF WithinCredits, Accounted, NoEntries, UserRow
<1>5. Listing
  BY IdleTyped DEF Listing
<1> QED  BY <1>2, <1>3, <1>4, <1>5 DEF Inv

LEMMA NextInv == ASSUME Inv, [Next]_vars PROVE Inv'
<1>1. CASE UNCHANGED vars
  <2>1. UNCHANGED <<user, order, proc, others, failures, ledger, history>>
    BY <1>1 DEF vars
  <2>2. TypeOK' /\ WithinCredits' /\ Accounted' /\ Listing'
    BY <2>1 DEF Inv, TypeOK, WithinCredits, Accounted, Listing
  <2>3. Copies' /\ \A p \in Procs : Covered(p)'
    BY <2>1 DEF Inv, Copies, Covered, Bounded
  <2> QED  BY <2>2, <2>3 DEF Inv
<1>2. CASE Others
  BY <1>2, DepositKept, SpendKept, UseUpKept, EditKept DEF Others
<1>3. ASSUME NEW p \in Procs, Commission(p) PROVE Inv'
  BY <1>3, CommissionStartKept, PayBeginKept, PayOutKept DEF Commission
<1>4. ASSUME NEW p \in Procs, Renewal(p) PROVE Inv'
  BY <1>4, RenewalStartKept, RenewalEndKept, RenewUserKept, RenewalRefusedKept, RenewalThrowKept
     DEF Renewal
<1>5. ASSUME NEW p \in Procs, Requests(p) PROVE Inv'
  BY <1>5, TransferReadKept, TransferCommitKept, PeriodReadKept, PeriodCommitKept,
     OpenReadKept, OpenCommitKept DEF Requests
<1>6. ASSUME NEW p \in Procs, Die(p) PROVE Inv'
  BY <1>6, DieKept
<1> QED  BY <1>1, <1>2, <1>3, <1>4, <1>5, <1>6 DEF Next

\* The invariant of the rows, the copies and the lists of the payout runs.
THEOREM Invariance == Spec => []Inv
<1>1. Init => Inv
  BY InitInv
<1>2. Inv /\ [Next]_vars => Inv'
  BY NextInv
<1> QED  BY <1>1, <1>2, PTL DEF Spec

\* No balance, commission or expiry that a command or request computes from its
\* copy becomes negative.
THEOREM TypeCorrect == Spec => []TypeOK
<1>1. Inv => TypeOK
  BY DEF Inv
<1> QED  BY <1>1, Invariance, PTL

\* Commands and requests that overwrite one another never book a credit twice.
THEOREM CreditsBound == Spec => []WithinCredits
<1>1. Inv => WithinCredits
  BY DEF Inv
<1> QED  BY <1>1, Invariance, PTL

\* A row that no one overwrote from an outdated copy agrees with its record.
THEOREM RecordsAgree == Spec => []Accounted
<1>1. Inv => Accounted
  BY DEF Inv
<1> QED  BY <1>1, Invariance, PTL

\* check:commission pays an order once, unless two runs listed it at once or
\* its status was set by hand.
THEOREM PaysOnce == Spec => []PaidOnce
<1>1. Inv => PaidOnce
  BY DEF Inv, Listing, PaidOnce
<1> QED  BY <1>1, Invariance, PTL
=============================================================================
