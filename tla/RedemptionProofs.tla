-------------------------- MODULE RedemptionProofs --------------------------
(***************************************************************************)
(* Proofs about Redemption, for any coupons, cards, users and requests.    *)
(***************************************************************************)
EXTENDS Redemption, FiniteSetTheorems, SumTheorems, TLAPS

\* p still has to lock row r.
Wants(p, r) == \E i \in DOMAIN proc[p].want : proc[p].want[i] = r

\* A request locks its user and the coupon or card it is about.
Shaped(p) ==
  /\ proc[p].op \in {"idle", "new", "pay"} => proc[p].want = <<>>
  /\ \A i \in DOMAIN proc[p].want : proc[p].want[i] \in {proc[p].user, proc[p].row}
  /\ proc[p].op \in {"save", "legacy", "app"} => proc[p].row \in Coupons \cup {NoCoupon}
  /\ proc[p].op \in {"card", "web"} => proc[p].row \in Cards
  /\ proc[p].op \in {"legacy", "app"} => proc[p].debit = 0

\* What it read of a row it holds is still there.
HoldsCoupon(p) ==
  proc[p].op \in {"save", "legacy", "app"} /\ proc[p].row \in Coupons /\ ~Wants(p, proc[p].row)
    => /\ lock[proc[p].row] = p
       /\ proc[p].left = coupon[proc[p].row]
       /\ proc[p].left > 0

HoldsUser(p) ==
  proc[p].op = "save" /\ proc[p].debit > 0 /\ ~Wants(p, proc[p].user)
    => proc[p].wallet >= proc[p].debit

HoldsCard(p) ==
  /\ proc[p].op = "web" => Claimable(proc[p].user, proc[p].copy)
  /\ proc[p].op \in {"card", "web"} /\ ~Wants(p, proc[p].row) => lock[proc[p].row] = p
  /\ proc[p].op = "card" /\ ~Wants(p, proc[p].row)
       => Claimable(proc[p].user, proc[p].copy) /\ proc[p].copy = card[proc[p].row]

Sound(p) == Shaped(p) /\ HoldsCoupon(p) /\ HoldsUser(p) /\ HoldsCard(p)

\* A row that is not there has used no coupon.
Blank == \A o \in Orders : order[o].status = "absent" => order[o].coupon = NoCoupon

Held == TypeOK /\ Blank /\ \A p \in Procs : Sound(p)

-----------------------------------------------------------------------------
(* Requests that do not move *)

LEMMA Others ==
  ASSUME NEW q \in Procs, Sound(q), proc'[q] = proc[q],
         \A r \in Rows : lock[r] = q => lock'[r] = q,
         \A c \in Coupons : lock[c] = q => coupon'[c] = coupon[c],
         \A c \in Cards : lock[c] = q => card'[c] = card[c]
  PROVE  Sound(q)'
<1>1. Shaped(q)' /\ HoldsUser(q)'
  BY DEF Sound, Shaped, HoldsUser, Wants
<1>2. HoldsCoupon(q)'
  BY DEF Sound, HoldsCoupon, Wants, Rows
<1>3. HoldsCard(q)'
  BY DEF Sound, HoldsCard, Shaped, Wants, Rows
<1> QED  BY <1>1, <1>2, <1>3 DEF Sound

LEMMA IdleTyped == Idle \in Request /\ NoOrder \in OrderRow /\ SomeCard \in CardRow
<1>1. SomeUser \in Users
  BY RedemptionAssumption DEF SomeUser
<1>2. <<>> \in Seq(Rows)
  OBVIOUS
<1> QED  BY <1>1, <1>2 DEF Idle, NoOrder, SomeCard, Request, OrderRow, CardRow

\* A request that is over is sound.
LEMMA IdleSound ==
  ASSUME NEW p \in Procs, proc'[p] = Idle
  PROVE  Sound(p)'
  BY DEF Sound, Shaped, HoldsCoupon, HoldsUser, HoldsCard, Wants, Idle

\* The end of a transaction leaves the others' locks.
LEMMA EndKeeps ==
  ASSUME TypeOK, NEW p \in Procs, RolledBack(p)
  PROVE  /\ proc' \in [Procs -> Request] /\ lock' \in [Rows -> Procs \cup {Nobody}]
         /\ proc'[p] = Idle
         /\ \A q \in Procs \ {p} : /\ proc'[q] = proc[q]
                                   /\ \A r \in Rows : lock[r] = q => lock'[r] = q
  BY IdleTyped DEF TypeOK, RolledBack, Become, Unlocked

LEMMA InitHeld == ASSUME Init PROVE Held
<1> USE RedemptionAssumption, IdleTyped DEF Init
<1>1. card \in [Cards -> CardRow]
  BY DEF CardRow
<1>2. TypeOK
  BY <1>1 DEF TypeOK
<1>3. Blank
  BY DEF Blank, NoOrder
<1>4. ASSUME NEW p \in Procs PROVE Sound(p)
  BY DEF Sound, Shaped, HoldsCoupon, HoldsUser, HoldsCard, Wants, Idle
<1> QED  BY <1>2, <1>3, <1>4 DEF Held

-----------------------------------------------------------------------------
(* Requests begin *)

\* A request that holds nothing yet wants the rows it needs.
LEMMA BeginHeld ==
  ASSUME Held, NEW p \in Procs, NEW s \in Request, Become(p, s),
         UNCHANGED <<coupon, card, balance, order, lock, failures, claims, raced>>,
         Sound(p)'
  PROVE  Held'
<1>1. TypeOK' /\ Blank'
  BY DEF Held, TypeOK, Blank, Become
<1>2. ASSUME NEW q \in Procs \ {p} PROVE Sound(q)'
  <2>1. proc'[q] = proc[q]
    BY DEF Become, Held, TypeOK
  <2> QED  BY <2>1, Others DEF Held
<1> QED  BY <1>1, <1>2 DEF Held

LEMMA ReadHeld ==
  ASSUME Held, NEW p \in Procs, NEW u \in Users,
         SaveRead(p, u) \/ \E c \in Cards : CardBegin(p, u, c) \/ WebRead(p, u, c)
  PROVE  Held'
<1> USE DEF Held, TypeOK
<1>0. Idle \in Request
  BY IdleTyped
<1>1. CASE SaveRead(p, u)
  <2> DEFINE s == [Idle EXCEPT !.op = "new", !.user = u, !.wallet = balance[u]]
  <2>1. s \in Request
    BY <1>0 DEF Request
  <2>2. Become(p, s) /\ UNCHANGED <<coupon, card, balance, order, lock, failures, claims, raced>>
    BY <1>1 DEF SaveRead
  <2>3. proc'[p] = s /\ s.op = "new" /\ s.want = <<>>
    BY <2>2 DEF Become, Idle
  <2>4. Sound(p)'
    BY <2>3 DEF Sound, Shaped, HoldsCoupon, HoldsUser, HoldsCard, Wants
  <2> HIDE DEF s
  <2> QED  BY <2>1, <2>2, <2>4, BeginHeld
<1>2. ASSUME NEW c \in Cards, CardBegin(p, u, c) PROVE Held'
  <2> DEFINE s == [Idle EXCEPT !.op = "card", !.user = u, !.row = c, !.want = <<u, c>>]
  <2>1. s \in Request
    <3>1. <<u, c>> \in Seq(Rows)
      BY DEF Rows
    <3> QED  BY <1>0, <3>1 DEF Request
  <2>2. Become(p, s) /\ UNCHANGED <<coupon, card, balance, order, lock, failures, claims, raced>>
    BY <1>2 DEF CardBegin
  <2>3. proc'[p] = s /\ s.op = "card" /\ s.want = <<u, c>> /\ s.user = u /\ s.row = c
    BY <2>2 DEF Become, Idle
  <2>4. Wants(p, c)'
    BY <2>3 DEF Wants
  <2>5. Sound(p)'
    BY <2>3, <2>4 DEF Sound, Shaped, HoldsCoupon, HoldsUser, HoldsCard
  <2> HIDE DEF s
  <2> QED  BY <2>1, <2>2, <2>5, BeginHeld
<1>3. ASSUME NEW c \in Cards, WebRead(p, u, c) PROVE Held'
  <2> DEFINE s == [Idle EXCEPT !.op = "web", !.user = u, !.row = c, !.want = <<u, c>>,
                               !.wallet = balance[u], !.copy = card[c]]
  <2>1. s \in Request
    <3>1. <<u, c>> \in Seq(Rows)
      BY DEF Rows
    <3> QED  BY <1>0, <3>1 DEF Request
  <2>2. Become(p, s) /\ UNCHANGED <<coupon, card, balance, order, lock, failures, claims, raced>>
    BY <1>3 DEF WebRead
  <2>3. /\ proc'[p] = s /\ s.op = "web" /\ s.want = <<u, c>> /\ s.user = u /\ s.row = c
        /\ s.copy = card[c]
    BY <2>2 DEF Become, Idle
  <2>4. Claimable(u, s.copy)
    BY <1>3, <2>3 DEF WebRead
  <2>5. Wants(p, c)'
    BY <2>3 DEF Wants
  <2>6. Sound(p)'
    BY <2>3, <2>4, <2>5 DEF Sound, Shaped, HoldsCoupon, HoldsUser, HoldsCard
  <2> HIDE DEF s
  <2> QED  BY <2>1, <2>2, <2>6, BeginHeld
<1> QED  BY <1>1, <1>2, <1>3

\* A save wants the coupon, and the user if there is a balance to draw on.
LEMMA SaveStarts ==
  ASSUME Held, NEW p \in Procs, NEW c \in Coupons \cup {NoCoupon}, NEW price \in {0, 1},
         SaveBegin(p, c, price)
  PROVE  \E s \in Request :
           /\ Become(p, s) /\ proc'[p] = s
           /\ UNCHANGED <<coupon, card, balance, order, lock, failures, claims, raced>>
           /\ s.op = "save" /\ s.row = c /\ s.user = proc[p].user /\ s.debit \in {0, 1}
           /\ \A i \in DOMAIN s.want : s.want[i] \in {s.user, c}
           /\ c \in Coupons => \E i \in DOMAIN s.want : s.want[i] = c
           /\ s.debit > 0 => \E i \in DOMAIN s.want : s.want[i] = s.user
<1>0. proc[p] \in Request /\ proc[p].op = "new"
  BY DEF SaveBegin, Held, TypeOK
<1>1. PICK u \in Users : u = proc[p].user
  BY <1>0 DEF Request
<1>2. PICK debit \in {0, 1} : debit = IF proc[p].wallet < price THEN proc[p].wallet ELSE price
  <2>1. proc[p].wallet \in Nat
    BY <1>0 DEF Request
  <2> QED  BY <2>1
<1>3. PICK first \in Seq(Rows) : first = IF c = NoCoupon THEN <<>> ELSE <<c>>
  <2>1. c # NoCoupon => c \in Rows
    BY DEF Rows
  <2>2. (IF c = NoCoupon THEN <<>> ELSE <<c>>) \in Seq(Rows)
    BY <2>1
  <2> QED  BY <2>2
<1>4. PICK next \in Seq(Rows) : next = IF debit = 0 THEN <<>> ELSE <<u>>
  <2>1. u \in Rows
    BY DEF Rows
  <2>2. (IF debit = 0 THEN <<>> ELSE <<u>>) \in Seq(Rows)
    BY <2>1
  <2> QED  BY <2>2
<1>5. PICK want \in Seq(Rows) : want = first \o next
  <2>1. first \o next \in Seq(Rows)
    OBVIOUS
  <2> QED  BY <2>1
<1> DEFINE s == [proc[p] EXCEPT !.op = "save", !.row = c, !.debit = debit, !.want = want]
<1>6. s \in Request
  <2>1. debit \in Nat
    OBVIOUS
  <2>2. c \in Coupons \cup Cards \cup {NoCoupon}
    OBVIOUS
  <2> QED  BY <1>0, <2>1, <2>2 DEF Request
<1>7. Become(p, s) /\ UNCHANGED <<coupon, card, balance, order, lock, failures, claims, raced>>
  BY <1>1, <1>2, <1>3, <1>4, <1>5 DEF SaveBegin
<1>8. /\ proc'[p] = s /\ s.op = "save" /\ s.row = c /\ s.user = u /\ s.debit = debit
      /\ s.want = want
  BY <1>0, <1>1, <1>7 DEF Become, Held, TypeOK, Request
<1> HIDE DEF s
<1>9. \A i \in DOMAIN want : want[i] \in {u, c}
  BY <1>3, <1>4, <1>5
<1>10. c \in Coupons => \E i \in DOMAIN want : want[i] = c
  <2> SUFFICES ASSUME c \in Coupons PROVE \E i \in DOMAIN want : want[i] = c
    OBVIOUS
  <2>1. first = <<c>>
    BY <1>3, RedemptionAssumption DEF Rows
  <2>2. 1 \in DOMAIN want /\ want[1] = c
    BY <1>4, <1>5, <2>1
  <2> QED  BY <2>2
<1>11. debit > 0 => \E i \in DOMAIN want : want[i] = u
  <2> SUFFICES ASSUME debit > 0 PROVE \E i \in DOMAIN want : want[i] = u
    OBVIOUS
  <2>1. next = <<u>>
    BY <1>4
  <2>2. CASE c = NoCoupon
    <3>1. 1 \in DOMAIN want /\ want[1] = u
      BY <1>3, <1>5, <2>1, <2>2
    <3> QED  BY <3>1
  <2>3. CASE c # NoCoupon
    <3>1. 2 \in DOMAIN want /\ want[2] = u
      BY <1>3, <1>5, <2>1, <2>3
    <3> QED  BY <3>1
  <2> QED  BY <2>2, <2>3
<1>12. /\ s.user = proc[p].user /\ s.debit \in {0, 1}
       /\ \A i \in DOMAIN s.want : s.want[i] \in {s.user, c}
  BY <1>1, <1>8, <1>9
<1>13. /\ c \in Coupons => \E i \in DOMAIN s.want : s.want[i] = c
       /\ s.debit > 0 => \E i \in DOMAIN s.want : s.want[i] = s.user
  BY <1>8, <1>10, <1>11
<1> QED  BY <1>6, <1>7, <1>8, <1>12, <1>13

LEMMA SaveHeld ==
  ASSUME Held, NEW p \in Procs, NEW c \in Coupons \cup {NoCoupon}, NEW price \in {0, 1},
         SaveBegin(p, c, price)
  PROVE  Held'
<1>1. PICK s \in Request :
        /\ Become(p, s) /\ proc'[p] = s
        /\ UNCHANGED <<coupon, card, balance, order, lock, failures, claims, raced>>
        /\ s.op = "save" /\ s.row = c /\ s.debit \in {0, 1}
        /\ \A i \in DOMAIN s.want : s.want[i] \in {s.user, c}
        /\ c \in Coupons => \E i \in DOMAIN s.want : s.want[i] = c
        /\ s.debit > 0 => \E i \in DOMAIN s.want : s.want[i] = s.user
  BY SaveStarts
<1>2. Shaped(p)'
  BY <1>1 DEF Shaped
<1>3. HoldsCoupon(p)' /\ HoldsUser(p)' /\ HoldsCard(p)'
  BY <1>1 DEF HoldsCoupon, HoldsUser, HoldsCard, Wants
<1> QED  BY <1>1, <1>2, <1>3, BeginHeld DEF Sound

LEMMA RedeemHeld ==
  ASSUME Held, NEW p \in Procs, NEW u \in Users, NEW c \in Coupons,
         LegacyBegin(p, u, c) \/ \E bind \in BOOLEAN : AppBegin(p, u, c, bind)
  PROVE  Held'
<1> USE DEF Held, TypeOK
<1>0. Idle \in Request /\ u \in Rows /\ c \in Rows
  BY IdleTyped DEF Rows
<1>1. ASSUME NEW op \in {"legacy", "app"}, NEW want \in {<<u, c>>, <<c, u>>, <<c>>},
             Become(p, [Idle EXCEPT !.op = op, !.user = u, !.row = c, !.want = want]),
             UNCHANGED <<coupon, card, balance, order, lock, failures, claims, raced>>
      PROVE  Held'
  <2> DEFINE s == [Idle EXCEPT !.op = op, !.user = u, !.row = c, !.want = want]
  <2>1. want \in Seq(Rows)
    <3>1. <<u, c>> \in Seq(Rows) /\ <<c, u>> \in Seq(Rows) /\ <<c>> \in Seq(Rows)
      BY <1>0
    <3> QED  BY <3>1
  <2>2. s \in Request
    BY <1>0, <2>1 DEF Request
  <2>3. /\ proc'[p] = s /\ s.op = op /\ s.want = want /\ s.user = u /\ s.row = c
        /\ s.debit = 0
    BY <1>1 DEF Become, Idle
  <2>4. \E i \in DOMAIN want : want[i] = c
    <3>1. CASE want = <<u, c>>
      <4>1. 2 \in DOMAIN want /\ want[2] = c
        BY <3>1
      <4> QED  BY <4>1
    <3>2. CASE want \in {<<c, u>>, <<c>>}
      <4>1. 1 \in DOMAIN want /\ want[1] = c
        BY <3>2
      <4> QED  BY <4>1
    <3> QED  BY <3>1, <3>2
  <2>5. \A i \in DOMAIN want : want[i] \in {u, c}
    <3> HIDE DEF s, Held, TypeOK
    <3>1. CASE want = <<u, c>>
      BY <3>1
    <3>2. CASE want = <<c, u>>
      BY <3>2
    <3>3. CASE want = <<c>>
      BY <3>3
    <3> QED  BY <3>1, <3>2, <3>3
  <2> HIDE DEF s
  <2>6. Wants(p, c)'
    BY <2>3, <2>4 DEF Wants
  <2>7. Shaped(p)'
    BY <2>3, <2>5 DEF Shaped
  <2>8. HoldsCoupon(p)' /\ HoldsUser(p)' /\ HoldsCard(p)'
    BY <2>3, <2>6 DEF HoldsCoupon, HoldsUser, HoldsCard
  <2> USE DEF s
  <2>9. Become(p, s)
    BY <1>1
  <2> HIDE DEF s
  <2> QED  BY <1>1, <2>2, <2>7, <2>8, <2>9, BeginHeld DEF Sound
<1>2. CASE LegacyBegin(p, u, c)
  BY <1>1, <1>2 DEF LegacyBegin
<1>3. ASSUME NEW bind \in BOOLEAN, AppBegin(p, u, c, bind) PROVE Held'
  <2>1. (IF bind THEN <<c, u>> ELSE <<c>>) \in {<<u, c>>, <<c, u>>, <<c>>}
    OBVIOUS
  <2> QED  BY <1>1, <1>3, <2>1 DEF AppBegin
<1> QED  BY <1>2, <1>3

LEMMA PayHeld ==
  ASSUME Held, NEW p \in Procs, NEW o \in Orders, PaidRead(p, o)
  PROVE  Held'
<1> USE DEF Held, TypeOK
<1> DEFINE s == [Idle EXCEPT !.op = "pay", !.user = order[o].user, !.order = o]
<1>1. order[o] \in OrderRow
  OBVIOUS
<1>2. s \in Request
  BY <1>1, IdleTyped DEF Request, OrderRow
<1>3. Become(p, s) /\ UNCHANGED <<coupon, card, balance, order, lock, failures, claims, raced>>
  BY DEF PaidRead
<1>4. proc'[p] = s /\ s.op = "pay" /\ s.want = <<>>
  BY <1>3 DEF Become, Idle
<1> HIDE DEF s
<1>5. Sound(p)'
  BY <1>4 DEF Sound, Shaped, HoldsCoupon, HoldsUser, HoldsCard, Wants
<1> QED  BY <1>2, <1>3, <1>5, BeginHeld

-----------------------------------------------------------------------------
(* Requests lock rows and end *)

\* A request that ends without a write.
LEMMA RolledBackHeld ==
  ASSUME Held, NEW p \in Procs, RolledBack(p),
         UNCHANGED <<coupon, card, balance, order, claims, raced>>, failures' \in 0..MaxFailures
  PROVE  Held'
<1> USE DEF Held
<1>1. TypeOK' /\ Blank'
  BY EndKeeps DEF TypeOK, Blank
<1>2. Sound(p)'
  BY EndKeeps, IdleSound
<1>3. ASSUME NEW q \in Procs \ {p} PROVE Sound(q)'
  BY EndKeeps, Others
<1> QED  BY <1>1, <1>2, <1>3

LEMMA LockHeld ==
  ASSUME Held, NEW p \in Procs, LockRow(p)
  PROVE  Held'
<1> USE DEF Held, TypeOK
<1>1. PICK r : r = Head(proc[p].want)
  OBVIOUS
<1>2. proc[p] \in Request /\ Sound(p)
  OBVIOUS
<1>3. /\ proc[p].want \in Seq(Rows) /\ proc[p].want # <<>>
      /\ lock[r] = Nobody
      /\ UNCHANGED <<coupon, card, balance, order, failures, claims, raced>>
  BY <1>1, <1>2 DEF LockRow, Request
<1>4. /\ r \in Rows /\ r \in {proc[p].user, proc[p].row}
      /\ Tail(proc[p].want) \in Seq(Rows)
  BY <1>1, <1>2, <1>3 DEF Sound, Shaped
<1>5. CASE ~Admits(p, r)
  <2>1. RolledBack(p) /\ failures' \in 0..MaxFailures
    BY <1>1, <1>3, <1>5 DEF LockRow
  <2> HIDE DEF Held, TypeOK
  <2> QED  BY <1>3, <2>1, RolledBackHeld
<1>6. CASE Admits(p, r)
  <2>1. lock' = [lock EXCEPT ![r] = p] /\ Become(p, Read(p, r))
    BY <1>1, <1>6 DEF LockRow
  <2>2. /\ proc[p].user \in Users /\ proc[p].user \notin Coupons \cup Cards
        /\ proc[p].op # "idle" /\ proc[p].op # "new" /\ proc[p].op # "pay"
    BY <1>2, <1>3, RedemptionAssumption DEF Request, Sound, Shaped
  <2>3. \A x : (\E i \in DOMAIN proc[p].want : proc[p].want[i] = x)
                => x = r \/ \E i \in DOMAIN Tail(proc[p].want) : Tail(proc[p].want)[i] = x
    <3> SUFFICES ASSUME NEW i \in DOMAIN proc[p].want, proc[p].want[i] # r
                 PROVE  \E j \in DOMAIN Tail(proc[p].want) : Tail(proc[p].want)[j] = proc[p].want[i]
      OBVIOUS
    <3>1. i \in 2..Len(proc[p].want)
      BY <1>1, <1>3
    <3>2. i - 1 \in DOMAIN Tail(proc[p].want) /\ Tail(proc[p].want)[i - 1] = proc[p].want[i]
      BY <1>3, <3>1
    <3> QED  BY <3>2
  <2>4. \A j \in DOMAIN Tail(proc[p].want) : Tail(proc[p].want)[j] \in {proc[p].user, proc[p].row}
    <3> SUFFICES ASSUME NEW j \in DOMAIN Tail(proc[p].want)
                 PROVE  Tail(proc[p].want)[j] \in {proc[p].user, proc[p].row}
      OBVIOUS
    <3>1. j + 1 \in DOMAIN proc[p].want /\ Tail(proc[p].want)[j] = proc[p].want[j + 1]
      BY <1>3
    <3> QED  BY <1>2, <3>1 DEF Sound, Shaped
  <2>5. ASSUME NEW s \in Request, proc' = [proc EXCEPT ![p] = s],
               s.want = Tail(proc[p].want), s.op = proc[p].op, s.user = proc[p].user,
               s.row = proc[p].row, s.debit = proc[p].debit,
               r \in Coupons => s.left = coupon[r],
               r \notin Coupons => s.left = proc[p].left,
               r \in Cards /\ proc[p].op # "web" => s.copy = card[r],
               r \notin Cards \/ proc[p].op = "web" => s.copy = proc[p].copy,
               r \in Users /\ proc[p].op # "web" => s.wallet = balance[r],
               r \notin Users => s.wallet = proc[p].wallet
        PROVE  Held'
    <3>1. proc'[p] = s
      BY <2>5
    <3>2. TypeOK' /\ Blank'
      BY <1>3, <1>4, <2>1, <2>5 DEF Blank
    <3>8. lock'[r] = p /\ \A x \in Rows \ {r} : lock'[x] = lock[x]
      BY <1>4, <2>1
    <3> HIDE DEF Held, TypeOK
    <3>9. r \in {s.user, s.row}
      BY <1>4, <2>5
    <3>10. \A x : x # r /\ (~\E i \in DOMAIN s.want : s.want[i] = x) => ~Wants(p, x)
      BY <2>3, <2>5 DEF Wants
    <3>3. Shaped(p)'
      BY <1>2, <2>2, <2>4, <2>5, <3>1 DEF Sound, Shaped
    <3>4. HoldsCoupon(p)'
      <4> SUFFICES ASSUME s.op \in {"save", "legacy", "app"}, s.row \in Coupons,
                          ~\E i \in DOMAIN s.want : s.want[i] = s.row
                   PROVE  lock'[s.row] = p /\ s.left = coupon[s.row] /\ s.left > 0
        BY <1>3, <3>1 DEF HoldsCoupon, Wants
      <4>1. CASE r = s.row
        <5>1. Usable(proc[p].user, r)
          BY <1>6, <4>1 DEF Admits
        <5> QED  BY <2>5, <3>8, <4>1, <5>1 DEF Usable
      <4>2. CASE r # s.row
        <5>1. r \notin Coupons
          BY <2>2, <2>5, <3>9, <4>2
        <5>2. ~Wants(p, s.row) /\ s.row \in Rows
          BY <3>10, <4>2 DEF Rows
        <5>3. lock[s.row] = p /\ s.left = coupon[s.row] /\ s.left > 0
          BY <1>2, <2>5, <5>1, <5>2 DEF Sound, HoldsCoupon
        <5> QED  BY <3>8, <4>2, <5>2, <5>3
      <4> QED  BY <4>1, <4>2
    <3>5. HoldsUser(p)'
      <4> SUFFICES ASSUME s.op = "save", s.debit > 0,
                          ~\E i \in DOMAIN s.want : s.want[i] = s.user
                   PROVE  s.wallet >= s.debit
        BY <3>1 DEF HoldsUser, Wants
      <4>1. CASE r = s.user
        BY <1>6, <2>2, <2>5, <4>1 DEF Admits
      <4>2. CASE r # s.user
        <5>1. s.row \in Coupons \cup {NoCoupon}
          BY <1>2, <2>5 DEF Sound, Shaped
        <5>2. r \notin Users
          BY <3>9, <4>2, <5>1, RedemptionAssumption DEF Rows
        <5>3. ~Wants(p, proc[p].user)
          BY <2>5, <3>10, <4>2
        <5> QED  BY <1>2, <2>5, <5>2, <5>3 DEF Sound, HoldsUser
      <4> QED  BY <4>1, <4>2
    <3>6. HoldsCard(p)'
      <4>1. s.op = "web" => Claimable(s.user, s.copy)
        BY <1>2, <2>5 DEF Sound, HoldsCard
      <4>2. ASSUME s.op \in {"card", "web"}, ~\E i \in DOMAIN s.want : s.want[i] = s.row
            PROVE  /\ lock'[s.row] = p
                   /\ s.op = "card" => Claimable(s.user, s.copy) /\ s.copy = card[s.row]
        <5>1. s.row \in Cards /\ s.row \in Rows
          BY <1>2, <2>5, <4>2 DEF Sound, Shaped, Rows
        <5>2. CASE r = s.row
          <6>1. s.op = "card" => Claimable(s.user, card[r])
            BY <1>6, <2>5, <5>1, <5>2 DEF Admits
          <6> QED  BY <2>5, <3>8, <5>1, <5>2, <6>1
        <5>3. CASE r # s.row
          <6>1. r \notin Cards
            BY <2>2, <2>5, <3>9, <5>3
          <6>2. ~Wants(p, proc[p].row)
            BY <2>5, <3>10, <4>2, <5>3
          <6>3. lock'[s.row] = lock[s.row]
            BY <3>8, <5>1, <5>3
          <6> QED  BY <1>2, <2>5, <4>2, <6>1, <6>2, <6>3 DEF Sound, HoldsCard
        <5> QED  BY <5>2, <5>3
      <4> QED  BY <1>3, <3>1, <4>1, <4>2 DEF HoldsCard, Wants
    <3> USE DEF Held, TypeOK
    <3>7. ASSUME NEW q \in Procs \ {p} PROVE Sound(q)'
      <4>1. proc'[q] = proc[q] /\ \A x \in Rows : lock[x] = q => lock'[x] = q
        BY <1>3, <2>1, <2>5, RedemptionAssumption
      <4> QED  BY <1>3, <4>1, Others
    <3> QED  BY <3>2, <3>3, <3>4, <3>5, <3>6, <3>7 DEF Sound
  <2>6. /\ Read(p, r) \in Request
        /\ Read(p, r).want = Tail(proc[p].want) /\ Read(p, r).op = proc[p].op
        /\ Read(p, r).user = proc[p].user /\ Read(p, r).row = proc[p].row
        /\ Read(p, r).debit = proc[p].debit
        /\ r \in Coupons => Read(p, r).left = coupon[r]
        /\ r \notin Coupons => Read(p, r).left = proc[p].left
        /\ r \in Cards /\ proc[p].op # "web" => Read(p, r).copy = card[r]
        /\ r \notin Cards \/ proc[p].op = "web" => Read(p, r).copy = proc[p].copy
        /\ r \in Users /\ proc[p].op # "web" => Read(p, r).wallet = balance[r]
        /\ r \notin Users => Read(p, r).wallet = proc[p].wallet
    <3> DEFINE left   == IF r \in Coupons THEN coupon[r] ELSE proc[p].left
               copy   == IF r \in Cards /\ proc[p].op # "web" THEN card[r] ELSE proc[p].copy
               wallet == IF r \in Users /\ proc[p].op # "web" THEN balance[r] ELSE proc[p].wallet
    <3>1. Read(p, r) = [proc[p] EXCEPT !.want = Tail(proc[p].want), !.left = left,
                                       !.copy = copy, !.wallet = wallet]
      BY DEF Read
    <3>2. left \in Nat /\ copy \in CardRow /\ wallet \in Nat
      BY <1>2 DEF Request
    <3>3. /\ r \in Coupons => left = coupon[r]
          /\ r \notin Coupons => left = proc[p].left
          /\ r \in Cards /\ proc[p].op # "web" => copy = card[r]
          /\ r \notin Cards \/ proc[p].op = "web" => copy = proc[p].copy
          /\ r \in Users /\ proc[p].op # "web" => wallet = balance[r]
          /\ r \notin Users => wallet = proc[p].wallet
      OBVIOUS
    <3> HIDE DEF left, copy, wallet
    <3>4. Read(p, r) \in Request
      BY <1>2, <1>4, <3>1, <3>2 DEF Request
    <3>5. /\ Read(p, r).want = Tail(proc[p].want) /\ Read(p, r).op = proc[p].op
          /\ Read(p, r).user = proc[p].user /\ Read(p, r).row = proc[p].row
          /\ Read(p, r).debit = proc[p].debit /\ Read(p, r).left = left
          /\ Read(p, r).copy = copy /\ Read(p, r).wallet = wallet
      BY <1>2, <3>1 DEF Request
    <3> QED  BY <3>3, <3>4, <3>5
  <2> QED  BY <2>1, <2>5, <2>6 DEF Become
<1> QED  BY <1>5, <1>6

LEMMA CommitOrderHeld ==
  ASSUME Held, NEW p \in Procs, NEW o \in Orders, CommitOrder(p, o)
  PROVE  Held'
<1> USE DEF Held, TypeOK
<1>1. proc[p] \in Request /\ Sound(p) /\ proc[p].op \in {"save", "legacy", "app"}
  BY DEF CommitOrder
<1>2. \A r : ~Wants(p, r)
  BY DEF CommitOrder, Wants
<1>3. proc[p].row \in Coupons =>
        lock[proc[p].row] = p /\ proc[p].left = coupon[proc[p].row] /\ proc[p].left > 0
  BY <1>1, <1>2 DEF Sound, HoldsCoupon
<1>4. coupon' \in [Coupons -> Nat]
  <2>1. proc[p].row \in Coupons => proc[p].left - 1 \in Nat
    BY <1>1, <1>3 DEF Request
  <2> QED  BY <1>1, <2>1 DEF CommitOrder, Sound, Shaped
<1>5. balance' \in [Users -> Nat]
  <2>1. proc[p].debit # 0 => proc[p].op = "save" /\ proc[p].wallet >= proc[p].debit
    BY <1>1, <1>2 DEF Sound, Shaped, HoldsUser, Request
  <2>2. proc[p].debit # 0 => proc[p].wallet - proc[p].debit \in Nat
    BY <1>1, <2>1 DEF Request
  <2> QED  BY <2>2 DEF CommitOrder
<1>6. order' \in [Orders -> OrderRow] /\ order'[o].status # "absent"
  <2>1. [status |-> NewStatus(proc[p].op), user |-> proc[p].user, coupon |-> proc[p].row,
         bal |-> proc[p].debit, refunded |-> FALSE] \in OrderRow
    <3>1. NewStatus(proc[p].op) \in {"pending", "processing", "completed"}
      BY <1>1 DEF NewStatus
    <3> QED  BY <1>1, <3>1 DEF Sound, Shaped, Request, OrderRow
  <2>2. NewStatus(proc[p].op) # "absent"
    BY <1>1 DEF NewStatus
  <2> QED  BY <2>1, <2>2 DEF CommitOrder
<1>7. RolledBack(p) /\ UNCHANGED <<card, failures, claims>>
  BY DEF CommitOrder
<1>8. TypeOK'
  <2>1. raced' \subseteq Users \cup Cards
    BY <1>1 DEF CommitOrder, Request
  <2> QED  BY <1>4, <1>5, <1>6, <1>7, <2>1, EndKeeps
<1>9. Blank'
  BY <1>6 DEF Blank, CommitOrder
<1>10. ASSUME NEW q \in Procs \ {p} PROVE Sound(q)'
  <2>1. \A c \in Coupons : lock[c] = q => coupon'[c] = coupon[c]
    BY <1>3 DEF CommitOrder
  <2> QED  BY <1>7, <2>1, EndKeeps, Others
<1>11. Sound(p)'
  BY <1>7, EndKeeps, IdleSound
<1> QED  BY <1>8, <1>9, <1>10, <1>11

LEMMA CommitCardHeld ==
  ASSUME Held, NEW p \in Procs, CommitCard(p)
  PROVE  Held'
<1> USE DEF Held, TypeOK
<1>1. /\ proc[p] \in Request /\ Sound(p) /\ proc[p].op \in {"card", "web"}
      /\ RolledBack(p) /\ UNCHANGED <<coupon, order, failures>>
  BY DEF CommitCard
<1>2. \A r : ~Wants(p, r)
  BY DEF CommitCard, Wants
<1>3. proc[p].row \in Cards /\ proc[p].copy.left > 0
  BY <1>1, <1>2 DEF Sound, Shaped, HoldsCard, Claimable
<1>4. lock[proc[p].row] = p
  BY <1>1, <1>2 DEF Sound, HoldsCard
<1>5. Redeemed(proc[p]) \in CardRow
  BY <1>1, <1>3 DEF Redeemed, Request, CardRow
<1>6. TypeOK'
  <2>1. card' \in [Cards -> CardRow]
    BY <1>5 DEF CommitCard
  <2>2. balance' \in [Users -> Nat]
    BY <1>1 DEF CommitCard, Request
  <2>3. claims' \in [Users -> [Cards -> Nat]]
    BY <1>1, <1>3 DEF CommitCard, Request
  <2>4. raced' \subseteq Users \cup Cards
    BY DEF CommitCard, Stale
  <2> QED  BY <1>1, <2>1, <2>2, <2>3, <2>4, EndKeeps
<1>7. ASSUME NEW q \in Procs \ {p} PROVE Sound(q)'
  <2>1. \A c \in Cards : lock[c] = q => card'[c] = card[c]
    BY <1>4 DEF CommitCard
  <2> QED  BY <1>1, <2>1, EndKeeps, Others
<1>8. Sound(p)'
  BY <1>1, EndKeeps, IdleSound
<1> QED  BY <1>1, <1>6, <1>7, <1>8 DEF Blank

\* The rest of an order's life moves no request that holds a row.
LEMMA LifeHeld ==
  ASSUME Held, NEW o \in Orders, Cancel(o) \/ Open(o)
  PROVE  Held'
<1>4. UNCHANGED <<proc, lock, coupon, card>>
  BY DEF Cancel, Open
<1>3. ASSUME NEW q \in Procs PROVE Sound(q)'
  <2>1. Sound(q)
    BY DEF Held
  <2> QED  BY <1>4, <2>1, Others
<1> USE DEF Held, TypeOK
<1>1. order[o] \in OrderRow
  OBVIOUS
<1>2. TypeOK' /\ Blank'
  <2>1. CASE Cancel(o)
    <3>1. balance' \in [Users -> Nat]
      BY <1>1, <2>1 DEF Cancel, OrderRow
    <3>2. order' \in [Orders -> OrderRow] /\ order'[o].status = "cancelled"
      BY <1>1, <2>1 DEF Cancel, OrderRow
    <3> QED  BY <2>1, <3>1, <3>2 DEF Cancel, Blank
  <2>2. CASE Open(o)
    <3>1. [order[o] EXCEPT !.status = "completed"] \in OrderRow
      BY <1>1 DEF OrderRow
    <3>2. order' = [order EXCEPT ![o] = [order[o] EXCEPT !.status = "completed"]]
      BY <2>2 DEF Open
    <3>3. order' \in [Orders -> OrderRow]
      BY <3>1, <3>2
    <3> QED  BY <2>2, <3>3 DEF Open, Blank
  <2> QED  BY <2>1, <2>2
<1> QED  BY <1>2, <1>3

LEMMA PaidHeld ==
  ASSUME Held, NEW p \in Procs, PaidWrite(p)
  PROVE  Held'
<1> USE DEF Held, TypeOK
<1>1. order' \in [Orders -> OrderRow] /\ Blank'
  <2>1. order' = [order EXCEPT ![proc[p].order].status = "processing"]
    BY DEF PaidWrite
  <2>2. \A o \in Orders : [order[o] EXCEPT !.status = "processing"] \in OrderRow
    BY DEF OrderRow
  <2>3. order' \in [Orders -> OrderRow]
    BY <2>1, <2>2
  <2>4. Blank'
    BY <2>1, <2>2 DEF Blank, OrderRow
  <2> QED  BY <2>3, <2>4
<1>2. TypeOK'
  <2>1. raced' \subseteq Users \cup Cards
    BY DEF PaidWrite, Request
  <2> QED  BY <1>1, <2>1, IdleTyped DEF PaidWrite, Become
<1>3. Sound(p)'
  BY IdleSound DEF PaidWrite, Become
<1>4. ASSUME NEW q \in Procs \ {p} PROVE Sound(q)'
  <2>1. UNCHANGED <<lock, coupon, card>> /\ proc'[q] = proc[q]
    BY DEF PaidWrite, Become
  <2> QED  BY <2>1, Others
<1> QED  BY <1>1, <1>2, <1>3, <1>4

LEMMA EndHeld ==
  ASSUME Held, NEW p \in Procs, Deadlock(p) \/ Fail(p)
  PROVE  Held'
<1>1. RolledBack(p) /\ UNCHANGED <<coupon, card, balance, order, claims, raced>>
  BY DEF Deadlock, Fail
<1>2. failures' \in 0..MaxFailures
  BY RedemptionAssumption DEF Deadlock, Fail, Held, TypeOK
<1> QED  BY <1>1, <1>2, RolledBackHeld

LEMMA NextHeld == ASSUME Held, [Next]_vars PROVE Held'
<1>1. CASE UNCHANGED vars
  BY <1>1 DEF vars, Held, TypeOK, Blank, Sound, Shaped, HoldsCoupon, HoldsUser, HoldsCard, Wants
<1>2. ASSUME NEW p \in Procs, Begin(p) \/ SaveBegins(p) PROVE Held'
  BY <1>2, ReadHeld, SaveHeld, RedeemHeld DEF Begin, SaveBegins
<1>3. ASSUME NEW p \in Procs, Transact(p) \/ Deadlock(p) \/ Fail(p) PROVE Held'
  BY <1>3, LockHeld, CommitOrderHeld, CommitCardHeld, EndHeld DEF Transact
<1>4. ASSUME NEW p \in Procs, PaidWrite(p) \/ \E o \in Orders : PaidRead(p, o) PROVE Held'
  BY <1>4, PaidHeld, PayHeld
<1>5. ASSUME NEW o \in Orders, Cancel(o) \/ Open(o) PROVE Held'
  BY <1>5, LifeHeld
<1> QED  BY <1>1, <1>2, <1>3, <1>4, <1>5 DEF Next

\* Balances and what is left of coupons and cards never go below zero, and a
\* request that holds a row has read what the row still says.
THEOREM TypeCorrect == Spec => [](TypeOK /\ \A p \in Procs : Sound(p))
<1>1. Spec => []Held
  BY InitHeld, NextHeld, PTL DEF Spec
<1>2. Held => TypeOK /\ \A p \in Procs : Sound(p)
  BY DEF Held
<1> QED  BY <1>1, <1>2, PTL

-----------------------------------------------------------------------------
(* Coupons *)

UsedBy(c) == {o \in Orders : order[o].coupon = c}

LEMMA UsesCounted ==
  ASSUME NEW c \in Coupons
  PROVE  IsFiniteSet(UsedBy(c)) /\ Cardinality(UsedBy(c)) \in Nat
<1>1. IsFiniteSet(Orders)
  BY FS_Interval, RedemptionAssumption DEF Orders
<1>2. UsedBy(c) \subseteq Orders
  BY DEF UsedBy
<1>3. IsFiniteSet(UsedBy(c))
  BY <1>1, <1>2, FS_Subset
<1> QED  BY <1>3, FS_CardinalityType

\* An order that is placed stands for one use of its coupon.
LEMMA OnePlaced ==
  ASSUME TypeOK, NEW c \in Coupons, NEW o \in Orders,
         order[o].coupon # c, UsedBy(c)' = UsedBy(c) \cup {o}
  PROVE  Cardinality(UsedBy(c)') = Cardinality(UsedBy(c)) + 1
<1>1. IsFiniteSet(UsedBy(c))
  BY UsesCounted
<1>2. o \notin UsedBy(c)
  BY DEF UsedBy
<1> QED  BY <1>1, <1>2, FS_AddElement

LEMMA CouponStep ==
  ASSUME Held, CouponAccounted, [Next]_vars
  PROVE  CouponAccounted'
<1> USE DEF Held, TypeOK
<1>1. ASSUME coupon' = coupon, \A o \in Orders : order'[o].coupon = order[o].coupon
      PROVE  CouponAccounted'
  BY <1>1 DEF CouponAccounted
<1>2. ASSUME NEW p \in Procs, NEW o \in Orders, CommitOrder(p, o) PROVE CouponAccounted'
  <2>1. /\ proc[p] \in Request /\ Sound(p) /\ proc[p].op \in {"save", "legacy", "app"}
        /\ ~Wants(p, proc[p].row)
        /\ order[o].coupon = NoCoupon
    BY <1>2 DEF CommitOrder, Wants, IsNextId, Blank
  <2>2. /\ order'[o].coupon = proc[p].row
        /\ \A x \in Orders \ {o} : order'[x] = order[x]
    BY <1>2 DEF CommitOrder
  <2>3. ASSUME NEW c \in Coupons
        PROVE  coupon'[c] + Cardinality(UsedBy(c)') = CouponLimit[c]
    <3>1. coupon[c] + Cardinality(UsedBy(c)) = CouponLimit[c]
      BY DEF CouponAccounted, UsedBy
    <3>2. CASE c = proc[p].row
      <4>1. coupon'[c] = coupon[c] - 1
        BY <1>2, <2>1, <3>2, RedemptionAssumption DEF CommitOrder, Sound, HoldsCoupon, Rows
      <4>2. UsedBy(c)' = UsedBy(c) \cup {o} /\ order[o].coupon # c
        BY <2>1, <2>2, <3>2, RedemptionAssumption DEF UsedBy, Rows
      <4>3. Cardinality(UsedBy(c)') = Cardinality(UsedBy(c)) + 1
        BY <4>2, OnePlaced
      <4>4. Cardinality(UsedBy(c)) \in Nat
        BY UsesCounted
      <4>5. coupon[c] \in Nat
        OBVIOUS
      <4> HIDE DEF Held, TypeOK
      <4> QED  BY <3>1, <4>1, <4>3, <4>4, <4>5
    <3>3. CASE c # proc[p].row
      <4>1. coupon'[c] = coupon[c]
        BY <1>2, <3>3 DEF CommitOrder
      <4>2. order[o].coupon # c
        BY <2>1, RedemptionAssumption DEF Rows
      <4>3. order'[o].coupon # c
        BY <2>2, <3>3
      <4> HIDE DEF Held, TypeOK
      <4>4. UsedBy(c)' = UsedBy(c)
        BY <2>2, <4>2, <4>3 DEF UsedBy
      <4> QED  BY <3>1, <4>1, <4>4
    <3> QED  BY <3>2, <3>3
  <2> QED  BY <2>3 DEF CouponAccounted, UsedBy
<1>3. ASSUME NEW p \in Procs, Begin(p) \/ SaveBegins(p) PROVE CouponAccounted'
  BY <1>1, <1>3 DEF Begin, SaveBegins, SaveRead, SaveBegin, LegacyBegin, AppBegin, CardBegin, WebRead
<1>4. ASSUME NEW p \in Procs, LockRow(p) \/ CommitCard(p) \/ Deadlock(p) \/ Fail(p)
      PROVE  CouponAccounted'
  BY <1>1, <1>4 DEF LockRow, CommitCard, Deadlock, Fail
<1>5. ASSUME NEW p \in Procs, PaidWrite(p) \/ \E o \in Orders : PaidRead(p, o)
      PROVE  CouponAccounted'
  <2>1. coupon' = coupon
    BY <1>5 DEF PaidWrite, PaidRead
  <2>2. ASSUME NEW o \in Orders PROVE order'[o].coupon = order[o].coupon
    <3>1. order[o] \in OrderRow
      OBVIOUS
    <3>2. CASE PaidWrite(p)
      BY <3>1, <3>2 DEF PaidWrite, OrderRow
    <3>3. CASE \E x \in Orders : PaidRead(p, x)
      BY <3>3 DEF PaidRead
    <3> QED  BY <1>5, <3>2, <3>3
  <2> QED  BY <1>1, <2>1, <2>2
<1>6. ASSUME NEW o \in Orders, Cancel(o) \/ Open(o) PROVE CouponAccounted'
  <2>1. coupon' = coupon
    BY <1>6 DEF Cancel, Open
  <2>2. ASSUME NEW x \in Orders PROVE order'[x].coupon = order[x].coupon
    <3>1. order[x] \in OrderRow
      OBVIOUS
    <3>2. CASE Cancel(o)
      BY <3>1, <3>2 DEF Cancel, OrderRow
    <3>3. CASE Open(o)
      BY <3>1, <3>3 DEF Open, OrderRow
    <3> QED  BY <1>6, <3>2, <3>3
  <2> QED  BY <1>1, <2>1, <2>2
<1>7. CASE UNCHANGED vars
  BY <1>1, <1>7 DEF vars
<1> QED  BY <1>2, <1>3, <1>4, <1>5, <1>6, <1>7 DEF Next, Transact

\* However requests interleave, fail and are rolled back, what is left of a
\* coupon and the orders that used it make up its limit: a coupon is never
\* used more often than its limit_use allows.
THEOREM CouponKept == Spec => []CouponAccounted
<1>1. Init => CouponAccounted
  <2> SUFFICES ASSUME Init, NEW c \in Coupons
               PROVE  coupon[c] + Cardinality({o \in Orders : order[o].coupon = c}) = CouponLimit[c]
    BY DEF CouponAccounted
  <2>1. {o \in Orders : order[o].coupon = c} = {}
    BY RedemptionAssumption DEF Init, NoOrder, Rows
  <2>2. coupon[c] = CouponLimit[c] /\ CouponLimit[c] \in Nat
    BY RedemptionAssumption DEF Init
  <2> QED  BY <2>1, <2>2, FS_EmptySet
<1>2. Spec => []Held
  BY InitHeld, NextHeld, PTL DEF Spec
<1> QED  BY <1>1, <1>2, CouponStep, PTL DEF Spec

-----------------------------------------------------------------------------
(* Gift cards *)

Holders(c) == {u \in Users : claims[u][c] > 0}

\* A card that was not overwritten names its users, each once.
CardKept(c) ==
  /\ card[c].used = Holders(c)
  /\ \A u \in Users : claims[u][c] <= 1
  /\ Cardinality(Holders(c)) + card[c].left = CardLimit[c]

CardsKept == \A c \in Cards \ raced : CardKept(c)

\* A redemption of a card as it is, by a user it does not name.
LEMMA OneRedeemed ==
  ASSUME TypeOK, NEW c \in Cards, CardKept(c),
         NEW u \in Users, Claimable(u, card[c]),
         card'[c].left = card[c].left - 1, card'[c].used = card[c].used \cup {u},
         claims' = [claims EXCEPT ![u][c] = @ + 1]
  PROVE  CardKept(c)'
<1> USE DEF TypeOK
<1>1. claims[u][c] = 0
  <2>1. claims[u][c] \in Nat /\ ~(claims[u][c] > 0)
    BY DEF CardKept, Holders, Claimable
  <2> QED  BY <2>1
<1>2. claims'[u][c] = 1 /\ \A v \in Users \ {u} : claims'[v][c] = claims[v][c]
  BY <1>1
<1>3. Holders(c)' = Holders(c) \cup {u} /\ u \notin Holders(c)
  BY <1>1, <1>2 DEF Holders
<1>4. IsFiniteSet(Holders(c))
  BY RedemptionAssumption, FS_Subset DEF Holders
<1>5. Cardinality(Holders(c)') = Cardinality(Holders(c)) + 1 /\ Cardinality(Holders(c)) \in Nat
  BY <1>3, <1>4, FS_AddElement, FS_CardinalityType
<1>6. Cardinality(Holders(c)') + card'[c].left = CardLimit[c]
  <2>1. Cardinality(Holders(c)) + card[c].left = CardLimit[c]
    BY DEF CardKept
  <2>2. card[c].left \in Nat
    BY DEF CardRow
  <2> HIDE DEF TypeOK
  <2> QED  BY <1>5, <2>1, <2>2
<1>7. card'[c].used = Holders(c)' /\ \A v \in Users : claims'[v][c] <= 1
  BY <1>2, <1>3 DEF CardKept
<1> QED  BY <1>6, <1>7 DEF CardKept

LEMMA CardStep ==
  ASSUME Held, CardsKept, [Next]_vars
  PROVE  CardsKept'
<1> USE DEF Held
<1>1. ASSUME card' = card, claims' = claims, raced \subseteq raced'
      PROVE  CardsKept'
  BY <1>1 DEF CardsKept, CardKept, Holders
<1>2. ASSUME NEW p \in Procs, CommitCard(p) PROVE CardsKept'
  <2>1. proc[p] \in Request /\ Sound(p) /\ ~Wants(p, proc[p].row)
    BY <1>2 DEF CommitCard, Wants, TypeOK
  <2>2. proc[p].op \in {"card", "web"}
    BY <1>2 DEF CommitCard
  <2>3. PICK u \in Users, c \in Cards : u = proc[p].user /\ c = proc[p].row
    BY <2>1, <2>2 DEF Request, Sound, Shaped
  <2>4. /\ Claimable(u, proc[p].copy)
        /\ proc[p].op = "card" => proc[p].copy = card[c]
    BY <2>1, <2>2, <2>3 DEF Sound, HoldsCard
  <2>5. /\ card' = [card EXCEPT ![c] = Redeemed(proc[p])]
        /\ claims' = [claims EXCEPT ![u][c] = @ + 1]
        /\ raced' = raced \cup Stale(proc[p])
    BY <1>2, <2>3 DEF CommitCard
  <2>6. c \notin raced' => proc[p].copy = card[c]
    BY <2>2, <2>3, <2>4, <2>5 DEF Stale
  <2>7. ASSUME c \notin raced' PROVE CardKept(c)'
    <3>1. /\ card'[c].left = card[c].left - 1
          /\ card'[c].used = card[c].used \cup {u}
      BY <2>3, <2>5, <2>6, <2>7 DEF Redeemed, TypeOK
    <3>2. CardKept(c) /\ Claimable(u, card[c])
      BY <2>4, <2>5, <2>6, <2>7 DEF CardsKept
    <3> QED  BY <2>5, <3>1, <3>2, OneRedeemed
  <2>8. ASSUME NEW d \in Cards \ raced', d # c PROVE CardKept(d)'
    <3>1. card'[d] = card[d] /\ \A v \in Users : claims'[v][d] = claims[v][d]
      BY <2>5, <2>8 DEF TypeOK
    <3>2. CardKept(d)
      BY <2>5, <2>8 DEF CardsKept
    <3> QED  BY <3>1, <3>2 DEF CardKept, Holders
  <2> QED  BY <2>7, <2>8 DEF CardsKept
<1>3. ASSUME NEW p \in Procs, Begin(p) \/ SaveBegins(p) PROVE CardsKept'
  BY <1>1, <1>3 DEF Begin, SaveBegins, SaveRead, SaveBegin, LegacyBegin, AppBegin, CardBegin, WebRead
<1>4. ASSUME NEW p \in Procs,
             LockRow(p) \/ Deadlock(p) \/ Fail(p) \/ \E o \in Orders : CommitOrder(p, o)
      PROVE  CardsKept'
  BY <1>1, <1>4 DEF LockRow, CommitOrder, Deadlock, Fail
<1>5. ASSUME NEW p \in Procs, PaidWrite(p) \/ \E o \in Orders : PaidRead(p, o)
      PROVE  CardsKept'
  BY <1>1, <1>5 DEF PaidWrite, PaidRead
<1>6. ASSUME NEW o \in Orders, Cancel(o) \/ Open(o) PROVE CardsKept'
  BY <1>1, <1>6 DEF Cancel, Open
<1>7. CASE UNCHANGED vars
  BY <1>1, <1>7 DEF vars
<1> QED  BY <1>2, <1>3, <1>4, <1>5, <1>6, <1>7 DEF Next, Transact

\* Until the website writes a card that has changed since it was read, a card is
\* redeemed once by a user and limit_use times by all, whatever interleaves.
THEOREM CardsAreKept == Spec => []CardWithinLimit
<1>1. Init => CardsKept
  <2> SUFFICES ASSUME Init, NEW c \in Cards PROVE CardKept(c)
    BY DEF CardsKept
  <2>1. Holders(c) = {} /\ \A u \in Users : claims[u][c] = 0
    BY DEF Init, Holders
  <2>2. card[c].used = {} /\ card[c].left = CardLimit[c] /\ CardLimit[c] \in Nat
    BY RedemptionAssumption DEF Init
  <2>3. Cardinality(Holders(c)) = 0
    BY <2>1, FS_EmptySet
  <2>4. Cardinality(Holders(c)) + card[c].left = CardLimit[c]
    BY <2>2, <2>3
  <2>5. card[c].used = Holders(c) /\ \A u \in Users : claims[u][c] <= 1
    BY <2>1, <2>2
  <2> QED  BY <2>4, <2>5 DEF CardKept
<1>2. Spec => []Held
  BY InitHeld, NextHeld, PTL DEF Spec
<1>3. Held /\ CardsKept /\ [Next]_vars => CardsKept'
  BY CardStep
<1>4. CardsKept => CardWithinLimit
  BY DEF CardsKept, CardKept, CardWithinLimit, Holders
<1> QED  BY <1>1, <1>2, <1>3, <1>4, PTL DEF Spec

-----------------------------------------------------------------------------
(* What one step does to the requests and to the orders that are there *)

OthersStay(p) == \A q \in Procs \ {p} : proc'[q] = proc[q]

LEMMA BecomesIdle ==
  ASSUME TypeOK, NEW p \in Procs, RolledBack(p) \/ Become(p, Idle)
  PROVE  OthersStay(p) /\ proc'[p].op = "idle" /\ proc'[p].debit = 0
BY DEF TypeOK, RolledBack, Become, Idle, OthersStay

LEMMA StateTaken ==
  ASSUME TypeOK, NEW p \in Procs, NEW s, Become(p, s)
  PROVE  OthersStay(p) /\ proc'[p] = s
BY DEF TypeOK, Become, OthersStay

\* A request that begins without a coupon.
LEMMA ReadStarts ==
  ASSUME TypeOK, NEW p \in Procs, NEW u \in Users, SaveRead(p, u)
  PROVE  /\ OthersStay(p) /\ proc'[p].op = "new" /\ proc'[p].user = u /\ proc'[p].debit = 0
<1> DEFINE s == [Idle EXCEPT !.op = "new", !.user = u, !.wallet = balance[u]]
<1>1. s.op = "new" /\ s.user = u /\ s.debit = 0
  BY DEF Idle
<1>2. Become(p, s)
  BY DEF SaveRead
<1> HIDE DEF s
<1> QED  BY <1>1, <1>2, StateTaken

LEMMA RedeemStarts ==
  ASSUME TypeOK, NEW p \in Procs, NEW u \in Users, NEW c \in Coupons,
         LegacyBegin(p, u, c) \/ \E bind \in BOOLEAN : AppBegin(p, u, c, bind)
  PROVE  /\ OthersStay(p) /\ proc'[p].op \in {"legacy", "app"}
         /\ proc'[p].row \in Redeemable /\ proc'[p].debit = 0
<1>1. ASSUME NEW want, NEW op \in {"legacy", "app"}, c \in Redeemable,
             Become(p, [Idle EXCEPT !.op = op, !.user = u, !.row = c, !.want = want])
      PROVE  /\ OthersStay(p) /\ proc'[p].op \in {"legacy", "app"}
             /\ proc'[p].row \in Redeemable /\ proc'[p].debit = 0
  <2> DEFINE s == [Idle EXCEPT !.op = op, !.user = u, !.row = c, !.want = want]
  <2>1. s.op = op /\ s.row = c /\ s.debit = 0
    BY DEF Idle
  <2>2. Become(p, s)
    BY <1>1
  <2> HIDE DEF s
  <2> QED  BY <1>1, <2>1, <2>2, StateTaken
<1>2. CASE LegacyBegin(p, u, c)
  BY <1>1, <1>2 DEF LegacyBegin
<1>3. ASSUME NEW bind \in BOOLEAN, AppBegin(p, u, c, bind)
      PROVE  /\ OthersStay(p) /\ proc'[p].op \in {"legacy", "app"}
             /\ proc'[p].row \in Redeemable /\ proc'[p].debit = 0
  BY <1>1, <1>3 DEF AppBegin
<1> QED  BY <1>2, <1>3

LEMMA CardStarts ==
  ASSUME TypeOK, NEW p \in Procs, NEW u \in Users, NEW c \in Cards,
         CardBegin(p, u, c) \/ WebRead(p, u, c)
  PROVE  /\ OthersStay(p) /\ proc'[p].op \in {"card", "web"} /\ proc'[p].user = u
         /\ proc'[p].debit = 0 /\ Wants(p, u)'
<1>1. PICK s : /\ Become(p, s) /\ s.op \in {"card", "web"} /\ s.user = u /\ s.debit = 0
               /\ s.want = <<u, c>>
  <2>1. CASE CardBegin(p, u, c)
    <3> DEFINE s == [Idle EXCEPT !.op = "card", !.user = u, !.row = c, !.want = <<u, c>>]
    <3>1. s.op = "card" /\ s.user = u /\ s.debit = 0 /\ s.want = <<u, c>>
      BY DEF Idle
    <3>2. Become(p, s)
      BY <2>1 DEF CardBegin
    <3> HIDE DEF s
    <3> QED  BY <3>1, <3>2
  <2>2. CASE WebRead(p, u, c)
    <3> DEFINE s == [Idle EXCEPT !.op = "web", !.user = u, !.row = c, !.want = <<u, c>>,
                                 !.wallet = balance[u], !.copy = card[c]]
    <3>1. s.op = "web" /\ s.user = u /\ s.debit = 0 /\ s.want = <<u, c>>
      BY DEF Idle
    <3>2. Become(p, s)
      BY <2>2 DEF WebRead
    <3> HIDE DEF s
    <3> QED  BY <3>1, <3>2
  <2> QED  BY <2>1, <2>2
<1>2. OthersStay(p) /\ proc'[p] = s
  BY <1>1, StateTaken
<1>3. 1 \in DOMAIN s.want /\ s.want[1] = u
  BY <1>1
<1>4. Wants(p, u)'
  BY <1>2, <1>3 DEF Wants
<1> QED  BY <1>1, <1>2, <1>4

LEMMA PayStarts ==
  ASSUME TypeOK, NEW p \in Procs, NEW o \in Orders, PaidRead(p, o)
  PROVE  /\ OthersStay(p) /\ proc'[p].op = "pay" /\ proc'[p].order = o
         /\ proc'[p].user = order[o].user /\ proc'[p].debit = 0
<1> DEFINE s == [Idle EXCEPT !.op = "pay", !.user = order[o].user, !.order = o]
<1>1. s.op = "pay" /\ s.order = o /\ s.user = order[o].user /\ s.debit = 0
  BY DEF Idle
<1>2. Become(p, s)
  BY DEF PaidRead
<1> HIDE DEF s
<1> QED  BY <1>1, <1>2, StateTaken

\* A request gets a row: it has the same purpose, and one row less to lock.
Takes(p, r) ==
  /\ lock[r] = Nobody /\ lock' = [lock EXCEPT ![r] = p]
  /\ r \in {proc[p].user, proc[p].row} /\ Admits(p, r)
  /\ proc[p].op \notin {"idle", "new", "pay"} /\ OthersStay(p)
  /\ proc'[p].op = proc[p].op /\ proc'[p].user = proc[p].user /\ proc'[p].row = proc[p].row
  /\ proc'[p].debit = proc[p].debit
  /\ r \in Users /\ proc[p].op # "web" => proc'[p].wallet = balance[r]
  /\ r \notin Users => proc'[p].wallet = proc[p].wallet
  /\ \A x : x # r /\ ~Wants(p, x)' => ~Wants(p, x)

LEMMA LockTakes ==
  ASSUME Held, NEW p \in Procs, LockRow(p)
  PROVE  RolledBack(p) \/ \E r \in Rows : Takes(p, r)
<1> USE DEF Held, TypeOK
<1>1. PICK r : r = Head(proc[p].want)
  OBVIOUS
<1>2. proc[p] \in Request /\ Sound(p)
  OBVIOUS
<1>3. /\ proc[p].want \in Seq(Rows) /\ proc[p].want # <<>> /\ lock[r] = Nobody
  BY <1>1, <1>2 DEF LockRow, Request
<1>4. r \in Rows /\ r \in {proc[p].user, proc[p].row}
  BY <1>1, <1>2, <1>3 DEF Sound, Shaped
<1>5. SUFFICES ASSUME ~RolledBack(p) PROVE Takes(p, r)
  BY <1>4
<1>6. Admits(p, r) /\ lock' = [lock EXCEPT ![r] = p] /\ Become(p, Read(p, r))
  BY <1>1, <1>5 DEF LockRow
<1>7. proc[p].op \notin {"idle", "new", "pay"}
  BY <1>2, <1>3 DEF Sound, Shaped
<1>8. \A x : x # r /\ Wants(p, x)
               => \E i \in DOMAIN Tail(proc[p].want) : Tail(proc[p].want)[i] = x
  <2> SUFFICES ASSUME NEW i \in DOMAIN proc[p].want, proc[p].want[i] # r
               PROVE  \E j \in DOMAIN Tail(proc[p].want) : Tail(proc[p].want)[j] = proc[p].want[i]
    BY DEF Wants
  <2>1. i \in 2..Len(proc[p].want)
    BY <1>1, <1>3
  <2>2. i - 1 \in DOMAIN Tail(proc[p].want) /\ Tail(proc[p].want)[i - 1] = proc[p].want[i]
    BY <1>3, <2>1
  <2> QED  BY <2>2
<1>9. PICK left, copy, wallet :
        /\ Read(p, r) = [proc[p] EXCEPT !.want = Tail(proc[p].want), !.left = left,
                                        !.copy = copy, !.wallet = wallet]
        /\ r \in Users /\ proc[p].op # "web" => wallet = balance[r]
        /\ r \notin Users => wallet = proc[p].wallet
  BY DEF Read
<1>10. OthersStay(p) /\ proc'[p] = Read(p, r)
  BY <1>6, StateTaken
<1>11. /\ proc'[p].want = Tail(proc[p].want) /\ proc'[p].op = proc[p].op
       /\ proc'[p].user = proc[p].user /\ proc'[p].row = proc[p].row
       /\ proc'[p].debit = proc[p].debit /\ proc'[p].wallet = wallet
  BY <1>2, <1>9, <1>10 DEF Request
<1>12. \A x : x # r /\ ~Wants(p, x)' => ~Wants(p, x)
  BY <1>8, <1>11 DEF Wants
<1> QED  BY <1>3, <1>4, <1>6, <1>7, <1>9, <1>10, <1>11, <1>12 DEF Takes

\* The row that each step of an order's life leaves.
OthersRest(o) == \A q \in Orders \ {o} : order'[q] = order[q]

LEMMA CancelRow ==
  ASSUME TypeOK, NEW o \in Orders, Cancel(o)
  PROVE  /\ OthersRest(o) /\ order'[o].status = "cancelled" /\ order'[o].refunded
         /\ order'[o].user = order[o].user /\ order'[o].coupon = order[o].coupon
         /\ order'[o].bal = order[o].bal
<1> DEFINE r == [order[o] EXCEPT !.status = "cancelled", !.refunded = TRUE]
<1>1. order[o] \in OrderRow
  BY DEF TypeOK
<1>2. /\ r.status = "cancelled" /\ r.refunded = TRUE /\ r.user = order[o].user
      /\ r.coupon = order[o].coupon /\ r.bal = order[o].bal
  BY <1>1 DEF OrderRow
<1>3. order' = [order EXCEPT ![o] = r]
  BY DEF Cancel
<1> HIDE DEF r
<1> QED  BY <1>2, <1>3 DEF TypeOK, OthersRest

\* A payment and an opening change the status only.
LEMMA StatusRow ==
  ASSUME TypeOK, NEW o \in Orders, NEW status, order' = [order EXCEPT ![o].status = status]
  PROVE  /\ OthersRest(o) /\ order'[o].status = status
         /\ order'[o].user = order[o].user /\ order'[o].coupon = order[o].coupon
         /\ order'[o].bal = order[o].bal /\ order'[o].refunded = order[o].refunded
<1> DEFINE r == [order[o] EXCEPT !.status = status]
<1>1. order[o] \in OrderRow
  BY DEF TypeOK
<1>2. /\ r.status = status /\ r.user = order[o].user /\ r.coupon = order[o].coupon
      /\ r.bal = order[o].bal /\ r.refunded = order[o].refunded
  BY <1>1 DEF OrderRow
<1>3. order' = [order EXCEPT ![o] = r]
  OBVIOUS
<1> HIDE DEF r
<1> QED  BY <1>2, <1>3 DEF TypeOK, OthersRest

LEMMA CommitRow ==
  ASSUME TypeOK, NEW p \in Procs, NEW o \in Orders, CommitOrder(p, o)
  PROVE  /\ OthersRest(o) /\ order[o].status = "absent"
         /\ order'[o].status = NewStatus(proc[p].op) /\ order'[o].user = proc[p].user
         /\ order'[o].coupon = proc[p].row /\ order'[o].bal = proc[p].debit
         /\ order'[o].refunded = FALSE
BY DEF TypeOK, CommitOrder, IsNextId, OthersRest

\* An order that is placed is there, and its buyer's, for good.
LEMMA OrdersStay ==
  ASSUME TypeOK, [Next]_vars, NEW o \in Orders, order[o].status # "absent"
  PROVE  order'[o].status # "absent" /\ order'[o].user = order[o].user
<1>1. order[o] \in OrderRow
  BY DEF TypeOK
<1>2. ASSUME NEW p \in Procs, NEW q \in Orders, CommitOrder(p, q)
      PROVE  order'[o] = order[o]
  BY <1>2 DEF CommitOrder, IsNextId, TypeOK
<1>3. ASSUME NEW p \in Procs, PaidWrite(p)
      PROVE  order'[o].status # "absent" /\ order'[o].user = order[o].user
  <2>1. order' = [order EXCEPT ![proc[p].order].status = "processing"]
    BY <1>3 DEF PaidWrite
  <2>2. CASE proc[p].order = o
    BY <2>1, <2>2, StatusRow
  <2>3. CASE proc[p].order # o
    BY <2>1, <2>3 DEF TypeOK
  <2> QED  BY <2>2, <2>3
<1>4. ASSUME NEW q \in Orders, Cancel(q) \/ Open(q)
      PROVE  order'[o].status # "absent" /\ order'[o].user = order[o].user
  <2>1. OthersRest(q) /\ order'[q].status # "absent" /\ order'[q].user = order[q].user
    BY <1>4, CancelRow, StatusRow DEF Open
  <2> QED  BY <2>1 DEF OthersRest
<1>5. ASSUME NEW p \in Procs, Begin(p) \/ SaveBegins(p) PROVE order' = order
  BY <1>5 DEF Begin, SaveBegins, SaveRead, SaveBegin, LegacyBegin, AppBegin, CardBegin, WebRead
<1>6. ASSUME NEW p \in Procs, \/ LockRow(p) \/ CommitCard(p) \/ Deadlock(p) \/ Fail(p)
                              \/ \E q \in Orders : PaidRead(p, q)
      PROVE  order' = order
  BY <1>6 DEF LockRow, CommitCard, Deadlock, Fail, PaidRead
<1>7. CASE UNCHANGED vars
  BY <1>7 DEF vars
<1> QED  BY <1>2, <1>3, <1>4, <1>5, <1>6, <1>7 DEF Next, Transact

-----------------------------------------------------------------------------
(* One buyer, one coupon *)

Limited == Coupons \ Redeemable

\* p has found no order of u's under way, and will make one.
Buying(p, u)  == proc[p].op \in {"new", "save"} /\ proc[p].user = u
Pending(o, u) == order[o].status = "pending" /\ order[o].user = u

\* p has counted u's orders with the coupon.
Counting(p, u, c) ==
  proc[p].op = "save" /\ proc[p].user = u /\ proc[p].row = c /\ ~Wants(p, c)

UsedLess(u, c) == Cardinality(Counted(u, c)) < PerUser

\* Who buys has no order that waits for its payment, so his count stays what
\* it is until his order is there; then that order is the only one, so that
\* the count stays below the limit until it is paid.
PerBuyer(u) ==
  /\ \A p \in Procs, o \in Orders : Buying(p, u) => ~Pending(o, u)
  /\ \A o, q \in Orders : Pending(o, u) /\ Pending(q, u) => o = q
  /\ \A o \in Orders, c \in Limited : Pending(o, u) /\ order[o].coupon = c => UsedLess(u, c)
  /\ \A p \in Procs, c \in Limited : Counting(p, u, c) => UsedLess(u, c)
  /\ \A c \in Limited : Cardinality(Counted(u, c)) <= PerUser

\* Only coupons that redeem a plan are used without looking for an order under
\* way, and a payment is one of an order of the user's.
Refers(p) ==
  /\ proc[p].op \in {"legacy", "app"} => proc[p].row \in Redeemable
  /\ proc[p].op = "pay" => /\ proc[p].order \in Orders
                           /\ order[proc[p].order].status # "absent"
                           /\ order[proc[p].order].user = proc[p].user

Buyers == (\A p \in Procs : Refers(p)) /\ \A u \in Users \ raced : PerBuyer(u)

LEMMA CountedFinite ==
  \A u, c : IsFiniteSet(Counted(u, c)) /\ Cardinality(Counted(u, c)) \in Nat
<1> TAKE u, c
<1>1. IsFiniteSet(Orders)
  BY FS_Interval, RedemptionAssumption DEF Orders
<1>2. IsFiniteSet(Counted(u, c))
  BY <1>1, FS_Subset DEF Counted
<1> QED  BY <1>2, FS_CardinalityType

LEMMA RefersStays ==
  ASSUME Held, [Next]_vars, NEW q \in Procs, Refers(q),
         proc'[q].op = proc[q].op, proc'[q].row = proc[q].row, proc'[q].user = proc[q].user,
         proc'[q].order = proc[q].order
  PROVE  Refers(q)'
<1>1. proc[q].op = "pay" =>
        /\ order'[proc[q].order].status # "absent"
        /\ order'[proc[q].order].user = order[proc[q].order].user
  BY OrdersStay DEF Refers, Held
<1> QED  BY <1>1 DEF Refers

LEMMA RefersElse ==
  ASSUME NEW q \in Procs, proc'[q].op \notin {"legacy", "app", "pay"}
  PROVE  Refers(q)'
BY DEF Refers

LEMMA RefersKept ==
  ASSUME Held, \A p \in Procs : Refers(p), [Next]_vars
  PROVE  \A p \in Procs : Refers(p)'
<1>0. TypeOK
  BY DEF Held
<1>1. ASSUME NEW p \in Procs, OthersStay(p), Refers(p)' PROVE \A q \in Procs : Refers(q)'
  BY <1>1, RefersStays DEF OthersStay
<1>2. ASSUME NEW p \in Procs, OthersStay(p), proc'[p].op \notin {"legacy", "app", "pay"}
      PROVE  \A q \in Procs : Refers(q)'
  BY <1>1, <1>2, RefersElse
<1>3. ASSUME NEW p \in Procs, NEW u \in Users, SaveRead(p, u) PROVE \A q \in Procs : Refers(q)'
  BY <1>0, <1>2, <1>3, ReadStarts
<1>4. ASSUME NEW p \in Procs, SaveBegins(p) PROVE \A q \in Procs : Refers(q)'
  <2>1. PICK c \in Coupons \cup {NoCoupon}, price \in {0, 1} : SaveBegin(p, c, price)
    BY <1>4 DEF SaveBegins
  <2>2. PICK s \in Request : Become(p, s) /\ s.op = "save"
    BY <2>1, SaveStarts
  <2>3. OthersStay(p) /\ proc'[p].op = "save"
    BY <1>0, <2>2, StateTaken
  <2> QED  BY <1>2, <2>3
<1>5. ASSUME NEW p \in Procs, NEW u \in Users, NEW c \in Coupons,
             LegacyBegin(p, u, c) \/ \E bind \in BOOLEAN : AppBegin(p, u, c, bind)
      PROVE  \A q \in Procs : Refers(q)'
  <2>1. OthersStay(p) /\ proc'[p].op \in {"legacy", "app"} /\ proc'[p].row \in Redeemable
    BY <1>0, <1>5, RedeemStarts
  <2>2. Refers(p)'
    BY <2>1 DEF Refers
  <2> QED  BY <1>1, <2>1, <2>2
<1>6. ASSUME NEW p \in Procs, NEW u \in Users, NEW c \in Cards,
             CardBegin(p, u, c) \/ WebRead(p, u, c)
      PROVE  \A q \in Procs : Refers(q)'
  <2>1. OthersStay(p) /\ proc'[p].op \in {"card", "web"}
    BY <1>0, <1>6, CardStarts
  <2> QED  BY <1>2, <2>1
<1>7. ASSUME NEW p \in Procs, NEW o \in Orders, PaidRead(p, o) PROVE \A q \in Procs : Refers(q)'
  <2>1. /\ OthersStay(p) /\ proc'[p].op = "pay" /\ proc'[p].order = o
        /\ proc'[p].user = order[o].user
    BY <1>0, <1>7, PayStarts
  <2>2. order' = order /\ order[o].status # "absent"
    BY <1>7 DEF PaidRead
  <2>3. Refers(p)'
    BY <2>1, <2>2 DEF Refers
  <2> QED  BY <1>1, <2>1, <2>3
<1>8. ASSUME NEW p \in Procs, RolledBack(p) \/ Become(p, Idle) PROVE \A q \in Procs : Refers(q)'
  BY <1>0, <1>2, <1>8, BecomesIdle
<1>9. ASSUME NEW p \in Procs, NEW r \in Rows, Takes(p, r) PROVE \A q \in Procs : Refers(q)'
  <2>1. /\ OthersStay(p) /\ proc'[p].op = proc[p].op /\ proc[p].op # "pay"
        /\ proc'[p].row = proc[p].row
    BY <1>9 DEF Takes
  <2>2. Refers(p)'
    BY <2>1 DEF Refers
  <2> QED  BY <1>1, <2>1, <2>2
<1>10. ASSUME NEW p \in Procs, Transact(p) \/ Deadlock(p) \/ Fail(p) \/ PaidWrite(p)
       PROVE  \A q \in Procs : Refers(q)'
  <2>1. (\E r \in Rows : Takes(p, r)) \/ RolledBack(p) \/ Become(p, Idle)
    BY <1>10, LockTakes DEF Transact, CommitCard, CommitOrder, Deadlock, Fail, PaidWrite
  <2> QED  BY <1>8, <1>9, <2>1
<1>11. CASE UNCHANGED proc
  BY <1>11, RefersStays
<1>12. ASSUME NEW o \in Orders, Cancel(o) \/ Open(o) PROVE UNCHANGED proc
  BY <1>12 DEF Cancel, Open
<1> QED  BY <1>3, <1>4, <1>5, <1>6, <1>7, <1>10, <1>11, <1>12 DEF Next, Begin, vars

\* A step after which no order of u's waits that did not before, no process
\* has begun to buy or counts that did not, and the counts are the same.
LEMMA BuyerSame ==
  ASSUME NEW u \in Users, PerBuyer(u),
         \A o \in Orders : Pending(o, u)' => Pending(o, u) /\ order'[o].coupon = order[o].coupon,
         \A c \in Limited : Counted(u, c)' = Counted(u, c),
         \A p \in Procs : Buying(p, u)' => Buying(p, u) \/ \A o \in Orders : ~Pending(o, u),
         \A p \in Procs, c \in Limited : Counting(p, u, c)' => UsedLess(u, c)
  PROVE  PerBuyer(u)'
<1>1. \A c \in Limited : UsedLess(u, c)' = UsedLess(u, c)
  BY DEF UsedLess
<1>2. \A p \in Procs, o \in Orders : Buying(p, u)' => ~Pending(o, u)'
  BY DEF PerBuyer
<1>3. \A o, q \in Orders : Pending(o, u)' /\ Pending(q, u)' => o = q
  BY DEF PerBuyer
<1>4. \A o \in Orders, c \in Limited :
        Pending(o, u)' /\ order'[o].coupon = c => UsedLess(u, c)'
  BY <1>1 DEF PerBuyer
<1>5. \A p \in Procs, c \in Limited : Counting(p, u, c)' => UsedLess(u, c)'
  BY <1>1
<1>6. \A c \in Limited : Cardinality(Counted(u, c)') <= PerUser
  BY DEF PerBuyer
<1> QED  BY <1>2, <1>3, <1>4, <1>5, <1>6 DEF PerBuyer

\* The orders are what they were.
LEMMA BuyerRests ==
  ASSUME NEW u \in Users, PerBuyer(u), order' = order, NEW p \in Procs, OthersStay(p),
         Buying(p, u)' => Buying(p, u) \/ \A o \in Orders : ~Pending(o, u),
         \A c \in Limited : Counting(p, u, c)' => UsedLess(u, c)
  PROVE  PerBuyer(u)'
<1>1. \A o \in Orders : Pending(o, u)' => Pending(o, u) /\ order'[o].coupon = order[o].coupon
  BY DEF Pending
<1>2. \A c \in Limited : Counted(u, c)' = Counted(u, c)
  BY DEF Counted
<1>3. ASSUME NEW q \in Procs
      PROVE  /\ Buying(q, u)' => Buying(q, u) \/ \A o \in Orders : ~Pending(o, u)
             /\ \A c \in Limited : Counting(q, u, c)' => UsedLess(u, c)
  <2>1. CASE q = p
    BY <2>1
  <2>2. CASE q # p
    <3>1. proc'[q] = proc[q]
      BY <2>2 DEF OthersStay
    <3>2. Buying(q, u)' => Buying(q, u)
      BY <3>1 DEF Buying
    <3>3. \A c \in Limited : Counting(q, u, c)' => Counting(q, u, c)
      BY <3>1 DEF Counting, Wants
    <3> QED  BY <3>2, <3>3 DEF PerBuyer
  <2> QED  BY <2>1, <2>2
<1> QED  BY <1>1, <1>2, <1>3, BuyerSame

\* A process that ends buys and counts nothing.
LEMMA IdleBuysNothing ==
  ASSUME NEW p \in Procs, proc'[p].op \notin {"new", "save"}
  PROVE  \A u, c : ~Buying(p, u)' /\ ~Counting(p, u, c)'
BY DEF Buying, Counting

\* Beginning, and taking rows.
LEMMA BuyerBegins ==
  ASSUME Held, NEW p \in Procs, Begin(p) \/ SaveBegins(p) \/ \E o \in Orders : PaidRead(p, o),
         NEW u \in Users, PerBuyer(u)
  PROVE  PerBuyer(u)'
<1>0. TypeOK
  BY DEF Held
<1>1. order' = order
  BY DEF Begin, SaveBegins, SaveRead, SaveBegin, LegacyBegin, AppBegin, CardBegin, WebRead, PaidRead
<1>2. ASSUME OthersStay(p), proc'[p].op \notin {"new", "save"} PROVE PerBuyer(u)'
  BY <1>1, <1>2, IdleBuysNothing, BuyerRests
<1>3. ASSUME NEW v \in Users, SaveRead(p, v) PROVE PerBuyer(u)'
  <2>1. OthersStay(p) /\ proc'[p].op = "new" /\ proc'[p].user = v
    BY <1>0, <1>3, ReadStarts
  <2>2. Buying(p, u)' => \A o \in Orders : ~Pending(o, u)
    BY <1>3, <2>1 DEF SaveRead, Incomplete, Buying, Pending
  <2>3. \A c \in Limited : ~Counting(p, u, c)'
    BY <2>1 DEF Counting
  <2> QED  BY <1>1, <2>1, <2>2, <2>3, BuyerRests
<1>4. CASE SaveBegins(p)
  <2>1. PICK c \in Coupons \cup {NoCoupon}, price \in {0, 1} : SaveBegin(p, c, price)
    BY <1>4 DEF SaveBegins
  <2>2. PICK s \in Request :
          /\ Become(p, s) /\ s.op = "save" /\ s.row = c /\ s.user = proc[p].user
          /\ c \in Coupons => \E i \in DOMAIN s.want : s.want[i] = c
    BY <2>1, SaveStarts
  <2>3. OthersStay(p) /\ proc'[p] = s
    BY <1>0, <2>2, StateTaken
  <2>4. Buying(p, u)' => Buying(p, u)
    BY <2>1, <2>2, <2>3 DEF SaveBegin, Buying
  <2>5. \A d \in Limited : ~Counting(p, u, d)'
    BY <2>2, <2>3 DEF Counting, Wants, Limited
  <2> QED  BY <1>1, <2>3, <2>4, <2>5, BuyerRests
<1>5. ASSUME NEW v \in Users, NEW c \in Coupons,
             LegacyBegin(p, v, c) \/ \E bind \in BOOLEAN : AppBegin(p, v, c, bind)
      PROVE  PerBuyer(u)'
  <2>1. OthersStay(p) /\ proc'[p].op \in {"legacy", "app"}
    BY <1>0, <1>5, RedeemStarts
  <2> QED  BY <1>2, <2>1
<1>6. ASSUME NEW v \in Users, NEW c \in Cards, CardBegin(p, v, c) \/ WebRead(p, v, c)
      PROVE  PerBuyer(u)'
  <2>1. OthersStay(p) /\ proc'[p].op \in {"card", "web"}
    BY <1>0, <1>6, CardStarts
  <2> QED  BY <1>2, <2>1
<1>7. ASSUME NEW o \in Orders, PaidRead(p, o) PROVE PerBuyer(u)'
  <2>1. OthersStay(p) /\ proc'[p].op = "pay"
    BY <1>0, <1>7, PayStarts
  <2> QED  BY <1>2, <2>1
<1> QED  BY <1>3, <1>4, <1>5, <1>6, <1>7 DEF Begin

LEMMA BuyerTakes ==
  ASSUME Held, NEW p \in Procs,
         LockRow(p) \/ CommitCard(p) \/ Deadlock(p) \/ Fail(p),
         NEW u \in Users, PerBuyer(u)
  PROVE  PerBuyer(u)'
<1>1. order' = order
  BY DEF LockRow, CommitCard, Deadlock, Fail
<1>2. CASE RolledBack(p)
  <2>1. OthersStay(p) /\ proc'[p].op = "idle"
    BY <1>2, BecomesIdle DEF Held
  <2> QED  BY <1>1, <2>1, IdleBuysNothing, BuyerRests
<1>3. ASSUME NEW r \in Rows, Takes(p, r) PROVE PerBuyer(u)'
  <2>1. /\ OthersStay(p) /\ proc'[p].op = proc[p].op /\ proc'[p].user = proc[p].user
        /\ proc'[p].row = proc[p].row /\ Admits(p, r)
        /\ \A x : x # r /\ ~Wants(p, x)' => ~Wants(p, x)
    BY <1>3 DEF Takes
  <2>2. Buying(p, u)' => Buying(p, u)
    BY <2>1 DEF Buying
  <2>3. ASSUME NEW c \in Limited, Counting(p, u, c)' PROVE UsedLess(u, c)
    <3>1. CASE c = r
      BY <2>1, <2>3, <3>1 DEF Counting, Admits, Usable, UsedLess, Limited
    <3>2. CASE c # r
      <4>1. Counting(p, u, c)
        BY <2>1, <2>3, <3>2 DEF Counting
      <4> QED  BY <4>1 DEF PerBuyer
    <3> QED  BY <3>1, <3>2
  <2> QED  BY <1>1, <2>1, <2>2, <2>3, BuyerRests
<1>4. RolledBack(p) \/ \E r \in Rows : Takes(p, r)
  BY LockTakes DEF CommitCard, Deadlock, Fail
<1> QED  BY <1>2, <1>3, <1>4

\* An order whose row is neither u's nor counted before and after.
LEMMA OneRowSame ==
  ASSUME NEW o \in Orders, OthersRest(o), NEW u,
         Pending(o, u)' => Pending(o, u) /\ order'[o].coupon = order[o].coupon,
         \A c \in Limited : o \in Counted(u, c)' <=> o \in Counted(u, c)
  PROVE  /\ \A q \in Orders : Pending(q, u)' => Pending(q, u) /\ order'[q].coupon = order[q].coupon
         /\ \A c \in Limited : Counted(u, c)' = Counted(u, c)
<1>1. ASSUME NEW q \in Orders, Pending(q, u)'
      PROVE  Pending(q, u) /\ order'[q].coupon = order[q].coupon
  BY <1>1 DEF Pending, OthersRest
<1>2. ASSUME NEW c \in Limited PROVE Counted(u, c)' = Counted(u, c)
  <2>1. \A q \in Orders \ {o} : q \in Counted(u, c)' <=> q \in Counted(u, c)
    BY DEF Counted, OthersRest
  <2>2. Counted(u, c) \subseteq Orders /\ Counted(u, c)' \subseteq Orders
    BY DEF Counted
  <2> QED  BY <2>1, <2>2
<1> QED  BY <1>1, <1>2

LEMMA BuyerCommits ==
  ASSUME Held, NEW p \in Procs, Refers(p), NEW o \in Orders, CommitOrder(p, o),
         NEW u \in Users, u \notin raced', PerBuyer(u)
  PROVE  PerBuyer(u)'
<1>0. TypeOK /\ Sound(p)
  BY DEF Held
<1>1. /\ OthersRest(o) /\ order[o].status = "absent"
      /\ order'[o].status = NewStatus(proc[p].op) /\ order'[o].user = proc[p].user
      /\ order'[o].coupon = proc[p].row
  BY <1>0, CommitRow
<1>2. OthersStay(p) /\ proc'[p].op = "idle"
  BY <1>0, BecomesIdle DEF CommitOrder
<1>3. \A c : ~Buying(p, u)' /\ ~Counting(p, u, c)'
  BY <1>2 DEF Buying, Counting
<1>4. ASSUME NEW q \in Procs
      PROVE  /\ Buying(q, u)' => q # p /\ Buying(q, u)
             /\ \A c \in Limited : Counting(q, u, c)' => q # p /\ Counting(q, u, c)
  <2>1. q # p => proc'[q] = proc[q]
    BY <1>2 DEF OthersStay
  <2> QED  BY <1>3, <2>1 DEF Buying, Counting, Wants
<1>5. ~Pending(o, u) /\ \A c : o \notin Counted(u, c)
  BY <1>1 DEF Pending, Counted
<1>6. CASE proc[p].op = "save" /\ proc[p].user = u
  <2>1. NewStatus(proc[p].op) = "pending"
    BY <1>6 DEF NewStatus
  <2>2. \A q \in Procs : ~Buying(q, u)'
    <3>1. raced' = IF Overtakes(p) THEN raced \cup {u} ELSE raced
      BY <1>6 DEF CommitOrder
    <3>2. ~Overtakes(p)
      BY <3>1
    <3> QED  BY <1>4, <1>6, <3>2 DEF Overtakes, Buying
  <2>3. \A q \in Procs, c \in Limited : ~Counting(q, u, c)'
    BY <2>2 DEF Counting, Buying
  <2>4. \A q \in Orders : Pending(q, u)' => q = o
    <3>1. Buying(p, u)
      BY <1>6 DEF Buying
    <3>2. \A q \in Orders : ~Pending(q, u)
      BY <3>1 DEF PerBuyer
    <3> QED  BY <1>1, <3>2 DEF Pending, OthersRest
  <2>5. ASSUME NEW c \in Limited PROVE Counted(u, c)' = Counted(u, c)
    <3>1. o \notin Counted(u, c)'
      BY <1>1, <2>1 DEF Counted
    <3>2. \A q \in Orders \ {o} : q \in Counted(u, c)' <=> q \in Counted(u, c)
      BY <1>1 DEF Counted, OthersRest
    <3>3. Counted(u, c) \subseteq Orders /\ Counted(u, c)' \subseteq Orders
      BY DEF Counted
    <3> QED  BY <1>5, <3>1, <3>2, <3>3
  <2>6. ASSUME NEW q \in Orders, NEW c \in Limited, Pending(q, u)', order'[q].coupon = c
        PROVE  UsedLess(u, c)'
    <3>1. proc[p].row = c
      BY <1>1, <2>4, <2>6
    <3>2. Counting(p, u, c)
      BY <1>6, <3>1 DEF Counting, Wants, CommitOrder
    <3> QED  BY <2>5, <3>2 DEF PerBuyer, UsedLess
  <2>7. \A c \in Limited : Cardinality(Counted(u, c)') <= PerUser
    BY <2>5 DEF PerBuyer
  <2>8. \A x, y \in Orders : Pending(x, u)' /\ Pending(y, u)' => x = y
    BY <2>4
  <2> QED  BY <2>2, <2>3, <2>6, <2>7, <2>8 DEF PerBuyer
<1>7. CASE ~(proc[p].op = "save" /\ proc[p].user = u)
  <2>1. ~Pending(o, u)' /\ \A c \in Limited : o \notin Counted(u, c)'
    <3>1. CASE proc[p].user # u
      BY <1>1, <3>1 DEF Pending, Counted
    <3>2. CASE proc[p].op \in {"legacy", "app"}
      <4>1. NewStatus(proc[p].op) # "pending" /\ proc[p].row \notin Limited
        BY <3>2 DEF NewStatus, Refers, Limited
      <4> QED  BY <1>1, <4>1 DEF Pending, Counted
    <3> QED  BY <1>7, <3>1, <3>2 DEF CommitOrder
  <2>2. /\ \A q \in Orders : Pending(q, u)' => Pending(q, u) /\ order'[q].coupon = order[q].coupon
        /\ \A c \in Limited : Counted(u, c)' = Counted(u, c)
    BY <1>1, <1>5, <2>1, OneRowSame
  <2>3. \A q \in Procs, c \in Limited : Counting(q, u, c)' => UsedLess(u, c)
    BY <1>4 DEF PerBuyer
  <2> QED  BY <1>4, <2>2, <2>3, BuyerSame
<1> QED  BY <1>6, <1>7

LEMMA BuyerLife ==
  ASSUME Held, NEW o \in Orders, Cancel(o) \/ Open(o), NEW u \in Users, PerBuyer(u)
  PROVE  PerBuyer(u)'
<1>0. TypeOK
  BY DEF Held
<1>1. /\ OthersRest(o) /\ order'[o].user = order[o].user /\ order'[o].coupon = order[o].coupon
      /\ \/ order[o].status = "pending" /\ order'[o].status = "cancelled"
         \/ order[o].status = "processing" /\ order'[o].status = "completed"
  <2>1. CASE Cancel(o)
    <3>1. order[o].status = "pending"
      BY <2>1 DEF Cancel
    <3> QED  BY <1>0, <2>1, <3>1, CancelRow
  <2>2. CASE Open(o)
    <3>1. order[o].status = "processing" /\ order' = [order EXCEPT ![o].status = "completed"]
      BY <2>2 DEF Open
    <3> QED  BY <1>0, <3>1, StatusRow
  <2> QED  BY <2>1, <2>2
<1>2. /\ ~Pending(o, u)' /\ \A c \in Limited : o \in Counted(u, c)' <=> o \in Counted(u, c)
  BY <1>1 DEF Pending, Counted
<1>3. /\ \A q \in Orders : Pending(q, u)' => Pending(q, u) /\ order'[q].coupon = order[q].coupon
      /\ \A c \in Limited : Counted(u, c)' = Counted(u, c)
  BY <1>1, <1>2, OneRowSame
<1>4. UNCHANGED proc
  BY DEF Cancel, Open
<1>5. \A q \in Procs : Buying(q, u)' => Buying(q, u)
  BY <1>4 DEF Buying
<1>6. \A q \in Procs, c \in Limited : Counting(q, u, c)' => UsedLess(u, c)
  BY <1>4 DEF Counting, Wants, PerBuyer
<1> QED  BY <1>3, <1>5, <1>6, BuyerSame

\* The payment of the only order that waits takes the place it was given.
LEMMA BuyerPays ==
  ASSUME Held, NEW p \in Procs, Refers(p), PaidWrite(p),
         NEW u \in Users, u \notin raced', PerBuyer(u)
  PROVE  PerBuyer(u)'
<1>0. TypeOK
  BY DEF Held
<1>1. PICK o \in Orders : o = proc[p].order /\ order[o].user = proc[p].user
  BY DEF Refers, PaidWrite
<1>2. /\ OthersRest(o) /\ order'[o].status = "processing" /\ order'[o].user = order[o].user
      /\ order'[o].coupon = order[o].coupon
  <2>1. order' = [order EXCEPT ![o].status = "processing"]
    BY <1>1 DEF PaidWrite
  <2> QED  BY <1>0, <2>1, StatusRow
<1>3. OthersStay(p) /\ proc'[p].op = "idle"
  BY <1>0, BecomesIdle DEF PaidWrite
<1>4. ASSUME NEW q \in Procs
      PROVE  /\ Buying(q, u)' => Buying(q, u)
             /\ \A c \in Limited : Counting(q, u, c)' => Counting(q, u, c)
  <2>1. CASE q = p
    BY <1>3, <2>1 DEF Buying, Counting
  <2>2. CASE q # p
    BY <1>3, <2>2 DEF OthersStay, Buying, Counting, Wants
  <2> QED  BY <2>1, <2>2
<1>5. CASE order[o].user # u
  <2>1. ~Pending(o, u)' /\ \A c \in Limited : o \notin Counted(u, c)' /\ o \notin Counted(u, c)
    BY <1>2, <1>5 DEF Pending, Counted
  <2>2. /\ \A q \in Orders : Pending(q, u)' => Pending(q, u) /\ order'[q].coupon = order[q].coupon
        /\ \A c \in Limited : Counted(u, c)' = Counted(u, c)
    BY <1>2, <2>1, OneRowSame
  <2>3. \A q \in Procs, c \in Limited : Counting(q, u, c)' => UsedLess(u, c)
    BY <1>4 DEF PerBuyer
  <2> QED  BY <1>4, <2>2, <2>3, BuyerSame
<1>6. CASE order[o].user = u
  <2>1. Pending(o, u)
    <3>1. raced' = IF order[o].status = "pending" THEN raced ELSE raced \cup {u}
      BY <1>1, <1>6 DEF PaidWrite
    <3>2. order[o].status = "pending"
      BY <3>1
    <3> QED  BY <1>6, <3>2 DEF Pending
  <2>2. \A q \in Procs : ~Buying(q, u)'
    BY <1>4, <2>1 DEF PerBuyer
  <2>3. \A q \in Procs, c \in Limited : ~Counting(q, u, c)'
    BY <2>2 DEF Counting, Buying
  <2>4. \A q \in Orders : ~Pending(q, u)'
    <3>1. ASSUME NEW q \in Orders, Pending(q, u)' PROVE FALSE
      <4>1. q # o
        BY <1>2, <3>1 DEF Pending
      <4>2. Pending(q, u)
        BY <1>2, <3>1, <4>1 DEF Pending, OthersRest
      <4> QED  BY <2>1, <4>1, <4>2 DEF PerBuyer
    <3> QED  BY <3>1
  <2>5. ASSUME NEW c \in Limited PROVE Cardinality(Counted(u, c)') <= PerUser
    <3>1. \A q \in Orders \ {o} : q \in Counted(u, c)' <=> q \in Counted(u, c)
      BY <1>2 DEF Counted, OthersRest
    <3>2. Counted(u, c) \subseteq Orders /\ Counted(u, c)' \subseteq Orders /\ o \notin Counted(u, c)
      BY <2>1 DEF Counted, Pending
    <3>3. CASE order[o].coupon # c
      <4>1. o \notin Counted(u, c)'
        BY <1>2, <3>3 DEF Counted
      <4>2. Counted(u, c)' = Counted(u, c)
        BY <3>1, <3>2, <4>1
      <4> QED  BY <4>2 DEF PerBuyer
    <3>4. CASE order[o].coupon = c
      <4>1. UsedLess(u, c)
        BY <2>1, <3>4 DEF PerBuyer
      <4>2. o \in Counted(u, c)'
        BY <1>2, <1>6, <3>4 DEF Counted
      <4>3. Counted(u, c)' = Counted(u, c) \cup {o}
        BY <3>1, <3>2, <4>2
      <4>4. /\ Cardinality(Counted(u, c)') = Cardinality(Counted(u, c)) + 1
            /\ Cardinality(Counted(u, c)) \in Nat
        BY <3>2, <4>3, CountedFinite, FS_AddElement
      <4> QED  BY <4>1, <4>4, RedemptionAssumption DEF UsedLess
    <3> QED  BY <3>3, <3>4
  <2> QED  BY <2>2, <2>3, <2>4, <2>5 DEF PerBuyer
<1> QED  BY <1>5, <1>6

LEMMA RacedStays == ASSUME [Next]_vars PROVE raced \subseteq raced'
<1>1. ASSUME NEW p \in Procs, Begin(p) \/ SaveBegins(p) PROVE raced' = raced
  BY <1>1 DEF Begin, SaveBegins, SaveRead, SaveBegin, LegacyBegin, AppBegin, CardBegin, WebRead
<1>2. ASSUME NEW p \in Procs, Transact(p) \/ Deadlock(p) \/ Fail(p) \/ PaidWrite(p)
                              \/ \E o \in Orders : PaidRead(p, o)
      PROVE  raced \subseteq raced'
  BY <1>2 DEF Transact, LockRow, CommitOrder, CommitCard, Deadlock, Fail, PaidWrite, PaidRead
<1>3. ASSUME NEW o \in Orders, Cancel(o) \/ Open(o) PROVE raced' = raced
  BY <1>3 DEF Cancel, Open
<1> QED  BY <1>1, <1>2, <1>3 DEF Next, vars

\* A buyer does not use a coupon more often than limit_use_with_user allows,
\* unless two of his orders were placed at once, a payment overtook a
\* cancellation, or the coupon is one that redeems a plan.
THEOREM UsedPerUserKept == Spec => []UsedPerUser
<1>1. Init => Buyers
  <2> SUFFICES ASSUME Init PROVE Buyers
    OBVIOUS
  <2>1. \A p \in Procs : Refers(p)
    BY DEF Init, Refers, Idle
  <2>2. ASSUME NEW u \in Users PROVE PerBuyer(u)
    <3>1. \A p \in Procs : ~Buying(p, u) /\ \A c \in Limited : ~Counting(p, u, c)
      BY DEF Init, Buying, Counting, Idle
    <3>2. \A o \in Orders : ~Pending(o, u)
      BY DEF Init, Pending, NoOrder
    <3>3. ASSUME NEW c \in Limited PROVE Cardinality(Counted(u, c)) <= PerUser
      <4>1. Counted(u, c) = {}
        BY DEF Init, Counted, NoOrder
      <4> QED  BY <4>1, FS_EmptySet, RedemptionAssumption
    <3> QED  BY <3>1, <3>2, <3>3 DEF PerBuyer
  <2> QED  BY <2>1, <2>2 DEF Buyers
<1>2. Held /\ Buyers /\ [Next]_vars => Buyers'
  <2> SUFFICES ASSUME Held, Buyers, [Next]_vars PROVE Buyers'
    OBVIOUS
  <2>1. \A p \in Procs : Refers(p) /\ Refers(p)'
    BY RefersKept DEF Buyers
  <2>2. ASSUME NEW u \in Users, u \notin raced' PROVE PerBuyer(u)'
    <3>1. PerBuyer(u)
      BY <2>2, RacedStays DEF Buyers
    <3>2. ASSUME NEW p \in Procs, \/ Begin(p) \/ SaveBegins(p) \/ Transact(p) \/ Deadlock(p)
                                  \/ Fail(p) \/ PaidWrite(p) \/ \E o \in Orders : PaidRead(p, o)
          PROVE  PerBuyer(u)'
      BY <2>1, <2>2, <3>1, <3>2, BuyerBegins, BuyerTakes, BuyerCommits, BuyerPays DEF Transact
    <3>3. ASSUME NEW o \in Orders, Cancel(o) \/ Open(o) PROVE PerBuyer(u)'
      BY <3>1, <3>3, BuyerLife
    <3>4. CASE UNCHANGED vars
      BY <3>1, <3>4 DEF vars, PerBuyer, Buying, Pending, Counting, Wants, UsedLess, Counted
    <3> QED  BY <3>2, <3>3, <3>4 DEF Next
  <2> QED  BY <2>1, <2>2 DEF Buyers
<1>3. Buyers => UsedPerUser
  BY DEF Buyers, PerBuyer, UsedPerUser, Limited
<1>4. Spec => []Held
  BY InitHeld, NextHeld, PTL DEF Spec
<1> QED  BY <1>1, <1>2, <1>3, <1>4, PTL DEF Spec

-----------------------------------------------------------------------------
(* Balances *)

\* Orders that drew on the balance and have not been given it back.
Spent(u) == {o \in Orders : order[o].user = u /\ order[o].bal > 0 /\ ~order[o].refunded}

Purse(u) == balance[u] + Cardinality(Spent(u)) = Wallet + SumFunctionOnSet(claims[u], Cards)

Draws(p) == proc[p].op \in {"card", "web"} \/ (proc[p].op = "save" /\ proc[p].debit > 0)

\* Who will write a balance holds its row by then, and unless it is the
\* website's gift card, what it read is there.
HoldsPurse(p) ==
  Draws(p) /\ ~Wants(p, proc[p].user)
    => /\ lock[proc[p].user] = p
       /\ proc[p].op # "web" => proc[p].wallet = balance[proc[p].user]

\* What one order draws, and that an order gives it back once.
Bills ==
  /\ \A p \in Procs : proc[p].debit \in {0, 1}
  /\ \A o \in Orders : /\ order[o].bal \in {0, 1}
                       /\ order[o].status \in {"absent", "pending"} => ~order[o].refunded
                       /\ order[o].status = "absent" => order[o].bal = 0

Balanced ==
  Bills /\ (\A p \in Procs : HoldsPurse(p)) /\ \A u \in Users \ raced : Purse(u)

LEMMA SpentFinite ==
  \A u : /\ IsFiniteSet(Spent(u)) /\ Cardinality(Spent(u)) \in Nat
<1> TAKE u
<1>1. IsFiniteSet(Orders)
  BY FS_Interval, RedemptionAssumption DEF Orders
<1>2. IsFiniteSet(Spent(u))
  BY <1>1, FS_Subset DEF Spent
<1> QED  BY <1>2, FS_CardinalityType

LEMMA ClaimsSum ==
  ASSUME TypeOK, NEW u \in Users
  PROVE  SumFunctionOnSet(claims[u], Cards) \in Nat
<1> DEFINE f == claims[u]
<1>1. IsFiniteSet(Cards) /\ \A c \in Cards : f[c] \in Nat
  BY RedemptionAssumption DEF TypeOK
<1> HIDE DEF f
<1>2. SumFunctionOnSet(f, Cards) \in Nat
  BY <1>1, SumType
<1> QED  BY <1>2 DEF f

\* One redemption more.
LEMMA ClaimAdded ==
  ASSUME TypeOK, NEW u \in Users, NEW c \in Cards, claims' = [claims EXCEPT ![u][c] = @ + 1]
  PROVE  /\ SumFunctionOnSet(claims'[u], Cards) = SumFunctionOnSet(claims[u], Cards) + 1
         /\ \A v \in Users \ {u} : claims'[v] = claims[v]
<1>1. PICK f, g : f = claims[u] /\ g = claims'[u]
  OBVIOUS
<1>2. /\ f \in [Cards -> Nat] /\ g = [f EXCEPT ![c] = f[c] + 1]
      /\ \A v \in Users \ {u} : claims'[v] = claims[v]
  BY <1>1 DEF TypeOK
<1>3. IsFiniteSet(Cards)
  BY RedemptionAssumption
<1>4. \A x \in Cards : f[x] \in Int /\ g[x] \in Int
  BY <1>2
<1>5. \A x \in Cards \ {c} : g[x] = f[x]
  BY <1>2
<1>6. g[c] - f[c] = 1
  BY <1>2
<1>7. SumFunctionOnSet(g, Cards) = SumFunctionOnSet(f, Cards) + (g[c] - f[c])
  BY <1>3, <1>4, <1>5, SumChange
<1> QED  BY <1>1, <1>2, <1>6, <1>7

\* The requests that a step does not move keep what they hold.
LEMMA PurseKept ==
  ASSUME TypeOK, NEW q \in Procs, HoldsPurse(q), proc'[q] = proc[q],
         \A r \in Rows : lock[r] = q => lock'[r] = q,
         \A u \in Users : lock[u] = q => balance'[u] = balance[u]
  PROVE  HoldsPurse(q)'
<1>1. proc[q].user \in Users /\ proc[q].user \in Rows
  BY DEF TypeOK, Request, Rows
<1> QED  BY <1>1 DEF HoldsPurse, Draws, Wants

LEMMA HoldsElse ==
  ASSUME NEW p \in Procs, proc'[p].op \notin {"card", "web"}, proc'[p].debit = 0
  PROVE  HoldsPurse(p)'
BY DEF HoldsPurse, Draws

\* A step that leaves balances, orders and redemptions.
LEMMA PursesRest ==
  ASSUME Held, Balanced, UNCHANGED <<balance, order, claims>>, raced \subseteq raced',
         NEW p \in Procs, OthersStay(p),
         \A q \in Procs \ {p} : \A r \in Rows : lock[r] = q => lock'[r] = q,
         proc'[p].debit \in {0, 1}, HoldsPurse(p)'
  PROVE  Balanced'
<1>1. Bills'
  <2>1. \A q \in Procs : proc'[q].debit \in {0, 1}
    BY DEF Balanced, Bills, OthersStay
  <2> QED  BY <2>1 DEF Balanced, Bills
<1>2. \A u \in Users \ raced' : Purse(u)'
  BY DEF Balanced, Purse, Spent
<1>3. ASSUME NEW q \in Procs PROVE HoldsPurse(q)'
  BY PurseKept DEF Held, Balanced, OthersStay
<1> QED  BY <1>1, <1>2, <1>3 DEF Balanced

LEMMA PurseBegins ==
  ASSUME Held, Balanced, NEW p \in Procs,
         Begin(p) \/ SaveBegins(p) \/ \E o \in Orders : PaidRead(p, o)
  PROVE  Balanced'
<1>0. TypeOK
  BY DEF Held
<1>1. UNCHANGED <<balance, order, claims, raced, lock>>
  BY DEF Begin, SaveBegins, SaveRead, SaveBegin, LegacyBegin, AppBegin, CardBegin, WebRead, PaidRead
<1>2. ASSUME OthersStay(p), proc'[p].op \notin {"card", "web"}, proc'[p].debit = 0
      PROVE  Balanced'
  BY <1>1, <1>2, HoldsElse, PursesRest
<1>3. ASSUME NEW u \in Users, SaveRead(p, u) PROVE Balanced'
  BY <1>0, <1>2, <1>3, ReadStarts
<1>4. CASE SaveBegins(p)
  <2>1. PICK c \in Coupons \cup {NoCoupon}, price \in {0, 1} : SaveBegin(p, c, price)
    BY <1>4 DEF SaveBegins
  <2>2. PICK s \in Request :
          /\ Become(p, s) /\ s.op = "save" /\ s.debit \in {0, 1}
          /\ s.debit > 0 => \E i \in DOMAIN s.want : s.want[i] = s.user
    BY <2>1, SaveStarts
  <2>3. OthersStay(p) /\ proc'[p] = s
    BY <1>0, <2>2, StateTaken
  <2>4. HoldsPurse(p)'
    BY <2>2, <2>3 DEF HoldsPurse, Draws, Wants
  <2> QED  BY <1>1, <2>2, <2>3, <2>4, PursesRest
<1>5. ASSUME NEW u \in Users, NEW c \in Coupons,
             LegacyBegin(p, u, c) \/ \E bind \in BOOLEAN : AppBegin(p, u, c, bind)
      PROVE  Balanced'
  <2>1. OthersStay(p) /\ proc'[p].op \in {"legacy", "app"} /\ proc'[p].debit = 0
    BY <1>0, <1>5, RedeemStarts
  <2> QED  BY <1>2, <2>1
<1>6. ASSUME NEW u \in Users, NEW c \in Cards, CardBegin(p, u, c) \/ WebRead(p, u, c)
      PROVE  Balanced'
  <2>1. OthersStay(p) /\ proc'[p].user = u /\ proc'[p].debit = 0 /\ Wants(p, u)'
    BY <1>0, <1>6, CardStarts
  <2>2. HoldsPurse(p)'
    BY <2>1 DEF HoldsPurse
  <2> QED  BY <1>1, <2>1, <2>2, PursesRest
<1>7. ASSUME NEW o \in Orders, PaidRead(p, o) PROVE Balanced'
  <2>1. OthersStay(p) /\ proc'[p].op = "pay" /\ proc'[p].debit = 0
    BY <1>0, <1>7, PayStarts
  <2> QED  BY <1>2, <2>1
<1> QED  BY <1>3, <1>4, <1>5, <1>6, <1>7 DEF Begin

LEMMA PurseTakes ==
  ASSUME Held, Balanced, NEW p \in Procs, LockRow(p) \/ Deadlock(p) \/ Fail(p)
  PROVE  Balanced'
<1>0. TypeOK /\ proc[p] \in Request /\ Sound(p)
  BY DEF Held, TypeOK
<1>1. UNCHANGED <<balance, order, claims, raced>>
  BY DEF LockRow, Deadlock, Fail
<1>2. CASE RolledBack(p)
  <2>1. /\ OthersStay(p) /\ proc'[p].op = "idle" /\ proc'[p].debit = 0
        /\ \A q \in Procs \ {p} : \A r \in Rows : lock[r] = q => lock'[r] = q
    BY <1>0, <1>2, BecomesIdle, EndKeeps
  <2> QED  BY <1>1, <2>1, HoldsElse, PursesRest
<1>3. ASSUME NEW r \in Rows, Takes(p, r) PROVE Balanced'
  <2>1. /\ OthersStay(p) /\ proc'[p].debit = proc[p].debit
        /\ lock[r] = Nobody /\ lock' = [lock EXCEPT ![r] = p]
    BY <1>3 DEF Takes
  <2>2. \A q \in Procs : \A x \in Rows : lock[x] = q => lock'[x] = q
    BY <1>0, <2>1, RedemptionAssumption DEF TypeOK
  <2>3. HoldsPurse(p)'
    <3>0. PICK u \in Users : u = proc[p].user
      BY <1>0 DEF Request
    <3>1. u \in Rows
      BY DEF Rows
    <3>2. /\ proc'[p].user = u /\ proc'[p].op = proc[p].op
          /\ proc[p].op \notin {"idle", "new", "pay"}
      BY <1>3, <3>0 DEF Takes
    <3> SUFFICES ASSUME Draws(p)', ~Wants(p, u)'
                 PROVE  /\ lock'[u] = p
                        /\ proc'[p].op # "web" => proc'[p].wallet = balance'[u]
      BY <3>2 DEF HoldsPurse
    <3>5. Draws(p)
      BY <2>1, <3>2 DEF Draws
    <3>3. CASE r = u
      BY <1>0, <1>1, <1>3, <2>1, <3>1, <3>2, <3>3 DEF Takes, TypeOK
    <3>4. CASE r # u
      <4>1. r \notin Users /\ proc'[p].wallet = proc[p].wallet
        <5>1. r = proc[p].row /\ proc[p].row \in Coupons \cup Cards \cup {NoCoupon}
          BY <1>0, <1>3, <3>0, <3>4 DEF Takes, Request
        <5>2. r \notin Users
          BY <5>1, RedemptionAssumption DEF Rows
        <5> QED  BY <1>3, <5>2 DEF Takes
      <4>2. ~Wants(p, u)
        BY <1>3, <3>4 DEF Takes
      <4>3. lock[u] = p /\ (proc[p].op # "web" => proc[p].wallet = balance[u])
        BY <3>0, <3>5, <4>2 DEF Balanced, HoldsPurse
      <4> QED  BY <1>1, <2>2, <3>1, <3>2, <4>1, <4>3
    <3> QED  BY <3>3, <3>4
  <2>4. proc[p].debit \in {0, 1}
    BY DEF Balanced, Bills
  <2> QED  BY <1>1, <2>1, <2>2, <2>3, <2>4, PursesRest
<1>4. RolledBack(p) \/ \E r \in Rows : Takes(p, r)
  BY LockTakes DEF Deadlock, Fail
<1> QED  BY <1>2, <1>3, <1>4

\* The order of a step draws nothing for u, before or after.
LEMMA SpentRests ==
  ASSUME NEW o \in Orders, OthersRest(o), NEW u, o \in Spent(u)' <=> o \in Spent(u)
  PROVE  Spent(u)' = Spent(u)
<1>1. \A q \in Orders \ {o} : q \in Spent(u)' <=> q \in Spent(u)
  BY DEF Spent, OthersRest
<1>2. Spent(u) \subseteq Orders /\ Spent(u)' \subseteq Orders
  BY DEF Spent
<1> QED  BY <1>1, <1>2

LEMMA SpentMore ==
  ASSUME NEW o \in Orders, OthersRest(o), NEW u, o \in Spent(u)', o \notin Spent(u)
  PROVE  Cardinality(Spent(u)') = Cardinality(Spent(u)) + 1
<1>1. \A q \in Orders \ {o} : q \in Spent(u)' <=> q \in Spent(u)
  BY DEF Spent, OthersRest
<1>2. Spent(u) \subseteq Orders /\ Spent(u)' \subseteq Orders
  BY DEF Spent
<1>3. Spent(u)' = Spent(u) \cup {o}
  BY <1>1, <1>2
<1> QED  BY <1>3, SpentFinite, FS_AddElement

LEMMA SpentLess ==
  ASSUME NEW o \in Orders, OthersRest(o), NEW u, o \notin Spent(u)', o \in Spent(u)
  PROVE  Cardinality(Spent(u)') = Cardinality(Spent(u)) - 1
<1>1. \A q \in Orders \ {o} : q \in Spent(u)' <=> q \in Spent(u)
  BY DEF Spent, OthersRest
<1>2. Spent(u) \subseteq Orders /\ Spent(u)' \subseteq Orders
  BY DEF Spent
<1>3. Spent(u)' = Spent(u) \ {o}
  BY <1>1, <1>2
<1> QED  BY <1>3, SpentFinite, FS_RemoveElement

\* What an order's row may become.
LEMMA BillsKept ==
  ASSUME Bills, NEW o \in Orders, OthersRest(o), order'[o].bal \in {0, 1},
         order'[o].status \in {"absent", "pending"} => ~order'[o].refunded,
         order'[o].status # "absent",
         \A p \in Procs : proc'[p].debit \in {0, 1}
  PROVE  Bills'
<1>1. ASSUME NEW q \in Orders
      PROVE  /\ order'[q].bal \in {0, 1}
             /\ order'[q].status \in {"absent", "pending"} => ~order'[q].refunded
             /\ order'[q].status = "absent" => order'[q].bal = 0
  <2>1. CASE q = o
    BY <2>1
  <2>2. CASE q # o
    <3>1. order'[q] = order[q]
      BY <2>2 DEF OthersRest
    <3> QED  BY <3>1 DEF Bills
  <2> QED  BY <2>1, <2>2
<1> QED  BY <1>1 DEF Bills

LEMMA PurseCommits ==
  ASSUME Held, Balanced, NEW p \in Procs, NEW o \in Orders, CommitOrder(p, o)
  PROVE  Balanced'
<1>0. /\ TypeOK /\ proc[p] \in Request /\ Sound(p) /\ HoldsPurse(p) /\ Bills
      /\ \A r : ~Wants(p, r)
  BY DEF Held, TypeOK, Balanced, CommitOrder, Wants
<1>1. /\ OthersRest(o) /\ order[o].status = "absent"
      /\ order'[o].status = NewStatus(proc[p].op) /\ order'[o].user = proc[p].user
      /\ order'[o].bal = proc[p].debit /\ order'[o].refunded = FALSE
  BY <1>0, CommitRow
<1>2. PICK u \in Users : u = proc[p].user
  BY <1>0 DEF Request
<1>3. PICK debit \in {0, 1} : debit = proc[p].debit
  BY <1>0 DEF Bills
<1>4. /\ OthersStay(p) /\ proc'[p].op = "idle" /\ proc'[p].debit = 0
      /\ \A q \in Procs \ {p} : \A r \in Rows : lock[r] = q => lock'[r] = q
  BY <1>0, BecomesIdle, EndKeeps DEF CommitOrder
<1>5. order[o].bal = 0 /\ \A v : o \notin Spent(v)
  BY <1>0, <1>1 DEF Bills, Spent
<1>6. /\ claims' = claims /\ raced \subseteq raced'
      /\ balance' = IF debit = 0 THEN balance ELSE [balance EXCEPT ![u] = proc[p].wallet - debit]
  BY <1>2, <1>3 DEF CommitOrder
<1>7. debit = 1 => lock[u] = p /\ proc[p].wallet = balance[u]
  <2>1. debit = 1 => proc[p].op = "save"
    BY <1>0, <1>3 DEF CommitOrder, Sound, Shaped
  <2> QED  BY <1>0, <1>2, <1>3, <2>1 DEF HoldsPurse, Draws
<1>8. /\ balance[u] \in Nat /\ balance \in [Users -> Nat] /\ u \in Rows
  BY <1>0 DEF TypeOK, Rows
<1>9. Bills'
  <2>1. order'[o].status # "absent" /\ order'[o].bal \in {0, 1}
    BY <1>1, <1>3 DEF NewStatus, CommitOrder
  <2>2. \A q \in Procs : proc'[q].debit \in {0, 1}
    BY <1>0, <1>4 DEF Bills, OthersStay
  <2> QED  BY <1>0, <1>1, <2>1, <2>2, BillsKept
<1>10. ASSUME NEW q \in Procs PROVE HoldsPurse(q)'
  <2>1. CASE q = p
    BY <1>4, <2>1, HoldsElse
  <2>2. CASE q # p
    <3>1. \A v \in Users : lock[v] = q => balance'[v] = balance[v]
      BY <1>6, <1>7, <1>8, <2>2
    <3> QED  BY <1>0, <1>4, <2>2, <3>1, PurseKept DEF Balanced, OthersStay
  <2> QED  BY <2>1, <2>2
<1>11. ASSUME NEW v \in Users \ raced' PROVE Purse(v)'
  <2>1. Purse(v)
    BY <1>6, <1>11 DEF Balanced
  <2>2. CASE v = u /\ debit = 1
    <3>1. o \in Spent(v)'
      BY <1>1, <1>2, <1>3, <2>2 DEF Spent
    <3>2. Cardinality(Spent(v)') = Cardinality(Spent(v)) + 1
      BY <1>1, <1>5, <3>1, SpentMore
    <3>3. balance'[v] = balance[v] - 1
      BY <1>6, <1>7, <1>8, <2>2
    <3>4. Cardinality(Spent(v)) \in Nat
      BY SpentFinite
    <3>5. balance'[v] + Cardinality(Spent(v)') = balance[v] + Cardinality(Spent(v))
      BY <1>8, <2>2, <3>2, <3>3, <3>4
    <3> QED  BY <1>6, <2>1, <3>5 DEF Purse
  <2>3. CASE ~(v = u /\ debit = 1)
    <3>1. o \notin Spent(v)'
      BY <1>1, <1>2, <1>3, <2>3 DEF Spent
    <3>2. Spent(v)' = Spent(v)
      BY <1>1, <1>5, <3>1, SpentRests
    <3>3. balance'[v] = balance[v]
      BY <1>6, <1>8, <2>3
    <3> QED  BY <1>6, <2>1, <3>2, <3>3 DEF Purse
  <2> QED  BY <2>2, <2>3
<1> QED  BY <1>9, <1>10, <1>11 DEF Balanced

LEMMA PurseRedeems ==
  ASSUME Held, Balanced, NEW p \in Procs, CommitCard(p)
  PROVE  Balanced'
<1>0. /\ TypeOK /\ proc[p] \in Request /\ Sound(p) /\ HoldsPurse(p) /\ Bills
      /\ \A r : ~Wants(p, r)
  BY DEF Held, TypeOK, Balanced, CommitCard, Wants
<1>1. PICK u \in Users, c \in Cards : u = proc[p].user /\ c = proc[p].row
  BY <1>0 DEF CommitCard, Sound, Shaped, Request
<1>2. /\ balance' = [balance EXCEPT ![u] = proc[p].wallet + 1]
      /\ claims' = [claims EXCEPT ![u][c] = @ + 1]
      /\ raced' = raced \cup Stale(proc[p]) /\ order' = order
      /\ proc[p].op \in {"card", "web"}
  BY <1>1 DEF CommitCard
<1>3. /\ OthersStay(p) /\ proc'[p].op = "idle" /\ proc'[p].debit = 0
      /\ \A q \in Procs \ {p} : \A r \in Rows : lock[r] = q => lock'[r] = q
  BY <1>0, BecomesIdle, EndKeeps DEF CommitCard
<1>4. lock[u] = p /\ (u \notin raced' => proc[p].wallet = balance[u])
  <2>1. lock[u] = p /\ (proc[p].op # "web" => proc[p].wallet = balance[u])
    BY <1>0, <1>1, <1>2 DEF HoldsPurse, Draws
  <2>2. proc[p].op = "web" /\ proc[p].wallet # balance[u] => u \in Stale(proc[p])
    BY <1>1 DEF Stale
  <2> QED  BY <1>2, <2>1, <2>2
<1>5. balance \in [Users -> Nat] /\ \A v \in Users : balance[v] \in Nat
  BY <1>0 DEF TypeOK
<1>6. Bills'
  <2>1. \A q \in Procs : proc'[q].debit \in {0, 1}
    BY <1>0, <1>3 DEF Bills, OthersStay
  <2> QED  BY <1>0, <1>2, <2>1 DEF Bills
<1>7. ASSUME NEW q \in Procs PROVE HoldsPurse(q)'
  <2>1. CASE q = p
    BY <1>3, <2>1, HoldsElse
  <2>2. CASE q # p
    <3>1. \A v \in Users : lock[v] = q => balance'[v] = balance[v]
      BY <1>2, <1>4, <1>5, <2>2
    <3> QED  BY <1>0, <1>3, <2>2, <3>1, PurseKept DEF Balanced, OthersStay
  <2> QED  BY <2>1, <2>2
<1>8. \A v : Spent(v)' = Spent(v)
  BY <1>2 DEF Spent
<1>9. /\ SumFunctionOnSet(claims'[u], Cards) = SumFunctionOnSet(claims[u], Cards) + 1
      /\ \A v \in Users \ {u} : claims'[v] = claims[v]
  BY <1>0, <1>2, ClaimAdded
<1>10. ASSUME NEW v \in Users \ raced' PROVE Purse(v)'
  <2>1. Purse(v)
    BY <1>2, <1>10 DEF Balanced
  <2>2. CASE v = u
    <3>1. balance'[v] = balance[v] + 1
      BY <1>2, <1>4, <1>5, <1>10, <2>2
    <3>2. Cardinality(Spent(v)) \in Nat /\ SumFunctionOnSet(claims[u], Cards) \in Nat
      BY <1>0, SpentFinite, ClaimsSum
    <3>3. balance[v] + Cardinality(Spent(v)) = Wallet + SumFunctionOnSet(claims[u], Cards)
      BY <2>1, <2>2 DEF Purse
    <3>4. balance'[v] + Cardinality(Spent(v)) = Wallet + SumFunctionOnSet(claims'[u], Cards)
      BY <1>5, <1>9, <3>1, <3>2, <3>3, RedemptionAssumption
    <3> QED  BY <1>8, <2>2, <3>4 DEF Purse
  <2>3. CASE v # u
    <3>1. balance'[v] = balance[v] /\ claims'[v] = claims[v]
      BY <1>2, <1>5, <1>9, <2>3
    <3> QED  BY <1>8, <2>1, <3>1 DEF Purse
  <2> QED  BY <2>2, <2>3
<1> QED  BY <1>6, <1>7, <1>10 DEF Balanced

\* A cancellation gives back what the order drew.
LEMMA PurseCancels ==
  ASSUME Held, Balanced, NEW o \in Orders, Cancel(o)
  PROVE  Balanced'
<1>0. TypeOK /\ Bills /\ order[o] \in OrderRow
  BY DEF Held, TypeOK, Balanced
<1>1. /\ OthersRest(o) /\ order'[o].status = "cancelled" /\ order'[o].refunded
      /\ order'[o].user = order[o].user /\ order'[o].bal = order[o].bal
  BY <1>0, CancelRow
<1>2. PICK u \in Users : u = order[o].user
  BY <1>0 DEF OrderRow
<1>3. PICK b \in {0, 1} : b = order[o].bal
  BY <1>0 DEF Bills
<1>4. /\ balance' = [balance EXCEPT ![u] = balance[u] + b]
      /\ b > 0 => lock[u] = Nobody
      /\ order[o].status = "pending"
      /\ UNCHANGED <<lock, proc, claims, raced>>
  BY <1>2, <1>3 DEF Cancel
<1>5. balance \in [Users -> Nat] /\ \A v \in Users : balance[v] \in Nat
  BY <1>0 DEF TypeOK
<1>6. Bills'
  <2>1. \A q \in Procs : proc'[q].debit \in {0, 1}
    BY <1>0, <1>4 DEF Bills
  <2> QED  BY <1>0, <1>1, <1>3, <2>1, BillsKept
<1>7. ASSUME NEW q \in Procs PROVE HoldsPurse(q)'
  <2>1. \A v \in Users : lock[v] = q => balance'[v] = balance[v]
    <3>1. CASE b = 0
      BY <1>4, <1>5, <3>1
    <3>2. CASE b = 1
      BY <1>4, <1>5, <3>2, RedemptionAssumption
    <3> QED  BY <3>1, <3>2
  <2>2. proc'[q] = proc[q] /\ \A r \in Rows : lock[r] = q => lock'[r] = q
    BY <1>4
  <2> QED  BY <1>0, <2>1, <2>2, PurseKept DEF Balanced
<1>8. \A v : o \notin Spent(v)'
  BY <1>1 DEF Spent
<1>9. ASSUME NEW v \in Users \ raced' PROVE Purse(v)'
  <2>1. Purse(v)
    BY <1>4, <1>9 DEF Balanced
  <2>2. CASE v = u /\ b = 1
    <3>1. o \in Spent(v)
      <4>1. ~order[o].refunded
        BY <1>0, <1>4 DEF Bills
      <4>2. order[o].user = v /\ order[o].bal > 0
        BY <1>2, <1>3, <2>2
      <4> QED  BY <4>1, <4>2 DEF Spent
    <3>2. Cardinality(Spent(v)') = Cardinality(Spent(v)) - 1
      BY <1>1, <1>8, <3>1, SpentLess
    <3>3. balance'[v] = balance[v] + 1 /\ Cardinality(Spent(v)) \in Nat /\ balance[v] \in Nat
      BY <1>4, <1>5, <2>2, SpentFinite
    <3>4. balance'[v] + Cardinality(Spent(v)') = balance[v] + Cardinality(Spent(v))
      BY <3>2, <3>3
    <3> QED  BY <1>4, <2>1, <3>4 DEF Purse
  <2>3. CASE ~(v = u /\ b = 1)
    <3>1. o \notin Spent(v)
      BY <1>2, <1>3, <2>3 DEF Spent
    <3>2. Spent(v)' = Spent(v)
      BY <1>1, <1>8, <3>1, SpentRests
    <3>3. balance'[v] = balance[v]
      BY <1>4, <1>5, <2>3
    <3> QED  BY <1>4, <2>1, <3>2, <3>3 DEF Purse
  <2> QED  BY <2>2, <2>3
<1> QED  BY <1>6, <1>7, <1>9 DEF Balanced

\* A payment and an opening leave what the order drew.
LEMMA PursePays ==
  ASSUME Held, Balanced, NEW o \in Orders,
         (\E p \in Procs : PaidWrite(p) /\ o = proc[p].order) \/ Open(o)
  PROVE  Balanced'
<1>0. TypeOK /\ Bills
  BY DEF Held, Balanced
<1>1. /\ OthersRest(o) /\ order'[o].status \in {"processing", "completed"}
      /\ order'[o].user = order[o].user /\ order'[o].bal = order[o].bal
      /\ order'[o].refunded = order[o].refunded
  <2>1. PICK status \in {"processing", "completed"} : order' = [order EXCEPT ![o].status = status]
    BY DEF PaidWrite, Open
  <2> QED  BY <1>0, <2>1, StatusRow
<1>2. UNCHANGED <<balance, lock, claims>> /\ raced \subseteq raced'
  BY DEF PaidWrite, Open
<1>3. ASSUME NEW q \in Procs
      PROVE  proc'[q] = proc[q] \/ (proc'[q].op = "idle" /\ proc'[q].debit = 0)
  <2>1. CASE Open(o)
    BY <2>1 DEF Open
  <2>2. ASSUME NEW p \in Procs, PaidWrite(p)
        PROVE  proc'[q] = proc[q] \/ (proc'[q].op = "idle" /\ proc'[q].debit = 0)
    BY <1>0, <2>2, BecomesIdle DEF PaidWrite, OthersStay
  <2> QED  BY <2>1, <2>2
<1>4. Bills'
  <2>1. \A q \in Procs : proc'[q].debit \in {0, 1}
    BY <1>0, <1>3 DEF Bills
  <2>2. order'[o].bal \in {0, 1}
    BY <1>0, <1>1 DEF Bills
  <2> QED  BY <1>0, <1>1, <2>1, <2>2, BillsKept
<1>5. ASSUME NEW q \in Procs PROVE HoldsPurse(q)'
  <2>1. CASE proc'[q] = proc[q]
    BY <1>0, <1>2, <2>1, PurseKept DEF Balanced
  <2>2. CASE proc'[q].op = "idle" /\ proc'[q].debit = 0
    BY <2>2, HoldsElse
  <2> QED  BY <1>3, <2>1, <2>2
<1>6. ASSUME NEW v \in Users \ raced' PROVE Purse(v)'
  <2>1. o \in Spent(v)' <=> o \in Spent(v)
    BY <1>1 DEF Spent
  <2>2. Spent(v)' = Spent(v)
    BY <1>1, <2>1, SpentRests
  <2>3. Purse(v)
    BY <1>2, <1>6 DEF Balanced
  <2> QED  BY <1>2, <2>2, <2>3 DEF Purse
<1> QED  BY <1>4, <1>5, <1>6 DEF Balanced

\* What a user has, and what his orders hold of it, is what he started with and
\* one for every gift card he redeemed, whatever interleaves, fails or is
\* cancelled, until the website writes a balance that has changed since it was
\* read or a payment overtakes a cancellation.
THEOREM WalletKept == Spec => []WalletAccounted
<1> DEFINE Inv == Balanced /\ \A p \in Procs : Refers(p)
<1>1. Init => Inv
  <2> SUFFICES ASSUME Init PROVE Inv
    OBVIOUS
  <2>1. \A p \in Procs : Refers(p) /\ HoldsPurse(p) /\ proc[p].debit \in {0, 1}
    BY DEF Init, Refers, HoldsPurse, Draws, Idle
  <2>2. Bills
    BY <2>1 DEF Init, Bills, NoOrder
  <2>3. ASSUME NEW u \in Users PROVE Purse(u)
    <3>1. balance[u] = Wallet
      BY DEF Init
    <3>2. Spent(u) = {}
      BY DEF Init, Spent, NoOrder
    <3>3. SumFunctionOnSet(claims[u], Cards) = 0
      <4>1. PICK f : f = claims[u]
        OBVIOUS
      <4>2. \A c \in Cards : f[c] = 0
        BY <4>1 DEF Init
      <4>3. IsFiniteSet(Cards)
        BY RedemptionAssumption
      <4>4. SumFunctionOnSet(f, Cards) = 0
        BY <4>2, <4>3, SumZero
      <4> QED  BY <4>1, <4>4
    <3>4. Cardinality(Spent(u)) = 0
      BY <3>2, FS_EmptySet
    <3> QED  BY <3>1, <3>3, <3>4 DEF Purse
  <2> QED  BY <2>1, <2>2, <2>3 DEF Balanced
<1>2. Held /\ Inv /\ [Next]_vars => Inv'
  <2> SUFFICES ASSUME Held, Balanced, \A p \in Procs : Refers(p), [Next]_vars PROVE Inv'
    OBVIOUS
  <2>1. \A p \in Procs : Refers(p)'
    BY RefersKept
  <2>2. ASSUME NEW p \in Procs, \/ Begin(p) \/ SaveBegins(p) \/ Transact(p) \/ Deadlock(p)
                                \/ Fail(p) \/ \E o \in Orders : PaidRead(p, o)
        PROVE  Balanced'
    BY <2>2, PurseBegins, PurseTakes, PurseCommits, PurseRedeems DEF Transact
  <2>3. ASSUME NEW p \in Procs, PaidWrite(p) PROVE Balanced'
    <3>1. proc[p].order \in Orders
      BY <2>3 DEF PaidWrite, Refers
    <3> QED  BY <2>3, <3>1, PursePays
  <2>4. ASSUME NEW o \in Orders, Open(o) PROVE Balanced'
    BY <2>4, PursePays
  <2>5. ASSUME NEW o \in Orders, Cancel(o) PROVE Balanced'
    BY <2>5, PurseCancels
  <2>6. CASE UNCHANGED vars
    <3>1. Bills'
      BY <2>6 DEF vars, Balanced, Bills
    <3>2. \A p \in Procs : HoldsPurse(p)'
      BY <2>6 DEF vars, Balanced, HoldsPurse, Draws, Wants
    <3>3. \A u \in Users \ raced' : Purse(u)'
      BY <2>6 DEF vars, Balanced, Purse, Spent
    <3> QED  BY <2>1, <3>1, <3>2, <3>3 DEF Balanced
  <2> QED  BY <2>1, <2>2, <2>3, <2>4, <2>5, <2>6 DEF Next
<1>3. Inv => WalletAccounted
  BY DEF Balanced, Purse, Spent, WalletAccounted
<1>4. Spec => []Held
  BY InitHeld, NextHeld, PTL DEF Spec
<1> QED  BY <1>1, <1>2, <1>3, <1>4, PTL DEF Spec

=============================================================================
