# A TLA+ model of xv2board

xv2board is a PHP (Laravel) panel that sells subscriptions to a network of proxy
nodes.  Web requests, queue workers (Horizon) and cron commands share MySQL rows
and Redis keys, with little locking between them: a handler reads rows with
Eloquent, works on its copy and saves the columns it changed.  What can go wrong
is therefore mostly in the interleavings, the retries and the long sequences of
legal calls, which is what this project models.

## 1. The system

### Components, their state and operations

| Component | State | Operations | Interacts with |
|---|---|---|---|
| **Orders** (`OrderService`, `User/OrderController`, `Admin/OrderController`, `AppOrderService`, `PaymentController`, `OrderHandleJob`, `check:order`) | `v2_order`; balance, plan, expiry, inviter of `v2_user`; the Redis list `order_handle` | save, checkout, cancel, notify, paid, open, assign, sweep | wallet, coupons, invitations, payment gateways |
| **Surplus and opening** (pure part of `OrderService`) | none | residual value of a plan, type of an order, new expiry, bonus, VIP discount | Orders |
| **Wallet writers** (`UserService::addBalance`, `UserController::transfer`, `Checkin`, gift cards) | balance and commission balance of `v2_user` | add, transfer, pay out | Orders, Commission |
| **Coupons and redemption** (`CouponService`, `LegacyRedemptionService`, `AppOrderService::redeem*`, `UserController::redeemgiftcard`) | `v2_coupon.limit_use`, `v2_giftcard` uses and used_user_ids, the orders a user placed with a coupon | check, use, redeem a plan, redeem a card | Orders, Users |
| **Commission** (`check:commission`) | commission status and balances of orders, `v2_commission_log` | auto-confirm, pay out over three levels | Orders, wallet |
| **Renewal** (`check:renewal`, `UserController::newPeriod`) | expiry, traffic and balance of `v2_user` | renew from the balance, begin the next period early | wallet, traffic |
| **Traffic** (`UniProxyController::push`, `TrafficFetchJob`, `traffic:update`, `reset:traffic`, `StatUserJob`) | Redis hashes of upload and download, u and d of `v2_user`, `v2_stat_user` | fetch, flush, reset, account | nodes, users |
| **Sessions and credentials** (`AuthService`, `User` hooks, `AppTokenAuthenticator`, login codes, Horizon grants) | session registry, app tokens and codes in the cache; security columns of `v2_user` | log in, authenticate, remove a session, revoke all, issue and consume a code | users |
| **Codes and limits** (`PasswordResetGuard`, `CommController`, registration limit) | codes, attempts and counters in the cache | send, verify, limit | sessions |
| **Devices** (`AppDeviceService`, `UserDevice`, `RegisterDeviceAction`, `SmartRouteDeviceLifecycleService`, `DeviceAuthCacheService`, admin unbinding) | `v2_user_devices`, `sr_device_profile`, `sr_client_session`, cached authorisations | bind, unbind, rebind, register, revoke, limit | sessions, SmartRoute |
| **Provider grants and manifest** (`ProviderGrantService`, `ResolveManifestAction`, `ManifestBuilder`, `ExposurePolicyResolver`, `SmartRouteIngressResolver`) | `sr_provider_grant`, `sr_provider_package` | issue or reuse, consume, record a fetch, resolve | devices, trust |
| **SmartRoute guard** (`SmartRouteGuard`, `SmartRouteAuth`) | nonces, counters and encrypted payloads | authenticate, refuse a replay | devices |
| **Telemetry, trust and resilience** (`TelemetryIngestService`, `BehaviorTrustScorer`, `SmartRouteResilienceService`, `smart-route:*` commands) | `sr_telemetry_event`, `sr_behavior_daily_agg`, `sr_trust_profile`, cooldowns | ingest, aggregate, score, demote, restore | manifest |
| **Ingress probe** (`IngressProbe`) | probe state per entry, failure counters | probe, mark down, restore | manifest |
| **Mass e-mail** (`SendMassEmailJob`, `MassEmailRateLimiter`, `MassEmailMailer`) | a window counter in Redis, the queue | acquire, send, release | |
| **Tickets** (`TicketController`s, `TicketService`) | `v2_ticket`, `v2_ticket_message` | open, reply, close, withdraw | commission balance |
| **Registration and invitations** (`AuthController`, `AppClientAuthService::register`, `InviteGiftService`, `InviteRewardService`) | `v2_user`, `v2_invite_code`, gift orders | register, give, reward | Orders |
| **Plans and capacity** (`PlanService`) | `v2_plan.capacity_limit` | check | Orders |
| **Subscription delivery** (`ClientController`, `Protocols/*`, `ClashConfigBuilder`, host replacement services, `SubscriptionAnalysisService`) | none (text), the request log | render, analyse | users, nodes |
| **Nodes** (`Server/*Controller`, `ServerService`, `NodeIpWhitelist`) | last check-in and online counters in the cache | list users, push traffic, report alive | traffic |
| **Payment plugins, Telegram, Geo, admin CRUD, statistics, installation** | rows of their own | translate, display, edit | |

### Behaviours that are hard

* **Stale copies.**  `paid()` and `open()` decide on a copy of the order row that
  was read without a lock; a cancellation, a second callback or a second worker
  may act in between.  `open()` recomputes plan, expiry and balance from a copy
  of the user row.
* **Repeated and reordered calls.**  The gateway repeats a callback, `check:order`
  pushes a job for an order whose job is still queued, Horizon runs a timed-out
  job again, a client repeats a registration or a grant.
* **Money over several rows.**  The balance part of an order is debited when the
  row is inserted and returned by whoever cancels it; a change of plan trades in
  orders that several open orders could name.
* **Failure half-way.**  A job is not pushed, a worker dies between two writes, a
  push is swallowed; only the minutely sweep notices.
* **Limits.**  Coupons, device slots, plan capacity, codes and rate windows are
  counted and then used.

### What makes each component correct

* *Orders*: an order is refunded once, fulfilled once, never both; only paid
  orders are fulfilled; two orders do not spend one balance; a paid order is opened in
  the end, an unpaid one closed; no money is created; a reward is paid once.
* *Coupons and cards*: no more uses than allowed, in total and per user, and a
  use that fails half-way is not counted.
* *Traffic*: what nodes report is charged once, not lost between the hash and
  the row, and a reset does not bring back old traffic.
* *Commission, renewal and the other writers of a wallet*: an order pays its
  inviters once, a confirmed commission is paid in the end, money and time
  move together with the order or log that documents them.
* *Statistics*: what jobs committed is in the row, whatever is retried or
  overlaps; every job ends.
* *Surplus*: time and traffic are counted for one order each, and a plan is worth
  less the later one changes it.
* *Sessions*: a removed or revoked session or code is refused from then on; two
  changes of the registry do not lose one another; a code is used once.
* *Devices*: never more active devices than the limit; an unbound device does
  not come back by itself; an installation has one active profile; both tables
  agree when nothing is under way.
* *Grants*: a grant is consumed as often as it allows, but for a retry within 30
  seconds, which is not counted and does not ask whether it was revoked.
* *E-mail*: no more mails per window than configured, none lost or sent twice.

## 2. The plan

Modules in the order they were written.

| # | Modules | Models | Abstract view | Theorems |
|---|---|---|---|---|
| 1 | `Orders`, `Purchases`, `MCOrders`, `OrdersProofs` | orders and the user rows they debit and fulfil | `Purchases`: a purchase is placed, then void or paid and fulfilled, and moves money once | all safety properties; every step is one of `Purchases` until handlers write over one another |
| 2 | `Traffic`, `MCTraffic`, `TrafficProofs` | reports, jobs, hashes, `traffic:update`, resets | - | all safety properties, usage grows |
| 3 | `Sessions`, `MCSessions`, `SessionsProofs` | one account's registry, credentials, login codes and security fields | - | all safety properties |
| 4 | `Redemption`, `MCRedemption`, `RedemptionProofs` | coupons, redemption codes, gift cards as transactions with row locks | - | all safety properties that hold |
| 5 | `Accounts`, `MCAccounts`, `AccountsProofs` | `check:commission`, `check:renewal`, `transfer`, `newPeriod` on the same user rows | a ledger of what orders and logs say | all safety properties |
| 6 | `Devices`, `MCDevices`, `DevicesProofs` | App bindings and SmartRoute profiles of an account | - | all properties |
| 7 | `Statistics`, `MCStatistics`, `StatisticsProofs` | `StatUserJob` (no lock, upsert) and `StatServerJob` (row lock) | a sum of what was committed | all safety properties, no commit lost |
| 8 | `Surplus`, `Fractions`, `MCSurplus` (proofs in `OrdersProofs`) | residual value of a plan as operators | what time and traffic were bought for, counted unit by unit | both properties for every history; what it computes is what `Orders` chooses from |
| 9 | `SumTheorems` | - | - | sums over finite sets, functions computed step by step, sums of fractions, used by four of the proof modules |

Left, in this order: the fetch of a provider grant with its uncounted retry;
registration with invitation codes and the capacity of a plan; codes and their
limits (`PasswordResetGuard`); `Accounts` composed with `Orders`, which share the
user row: today each models the other's writes as deposits and debits.

## 3. How the modules correspond to the code

Two conventions hold in all of them.  A handler is cut into as many actions as
there are points where it holds something another process can change: a copy of
a row, a value read from Redis.  What happens inside one SQL statement, one
Redis command or under a row lock that covers everything it touches is one step.
`ghost`, `claims` and similar variables are history: no guard reads them.

An operator named `..._Bug` is a mistake the code could contain.  Nothing uses
it; it stands before the definition it would replace, and with it TLC finds the
property broken that `PROJECT.json` lists beside it.

### Orders and Purchases

| Variable | Code |
|---|---|
| `order` | `v2_order`: status, user, plan, period, type, amounts, surplus orders; `bind` is what the coupon's bind_email names |
| `user` | balance, plan, expiry (never, future or past) and inviter of `v2_user` |
| `aged` | pending orders that are two hours old |
| `invoice` | what the gateway knows of an order |
| `queue` | `OrderHandleJob`s waiting for an order |
| `proc` | each request and worker, with the copy of the user row it holds |

A request of the website asks whether an order is under way (`Ask`) and then
finds the user (`FindUser`); the App and the administrator have the user before
they ask (`Authenticate`, `AskKnown`).  `SaveDeposit`, `SavePlan` and `Assign`
insert.  `PaidRead`, `Bind`, `PaidWrite` and `Reward` are the parts of
`OrderService::paid`: the test on the copy, the UPDATE of the buyer's inviter,
the save with the job pushed or not, and the reward of a first order.  `TakeJob`,
`OpenReadUser`, `OpenWrite` are a worker in `OrderService::open`, which saves only
the columns it changed (`StoredUser`).  `Cancel` is one step because the UPDATE
carries its condition and the refund is in the same transaction.  `Sweep` is
`check:order`.

`Redeem` is a code redeemed in the App, from the user that its authentication
read, and `RedeemNow` one redeemed on the website, under the lock of the user row
and opened at once.  Both go through `setOrderType` like a purchase, for a price
of zero, and neither asks for an order under way.

Every handler may meet every other.  The history remembers over what they met:
`raced` are orders that `paid()` wrote over, or that two workers held at once;
`beside` orders created while their buyer had one under way; `lost` users whose
balance `open()` wrote from an outdated copy; `late` users whose order was open
before its reward was asked for.

How often a code may be used is in `Redemption`.  Commission columns, codes
redeemed at registration and the editing of a row by an administrator are not in
this module.  The residual value of a plan is a
choice between nothing and everything the traded-in order is worth.

Orders older than the run (`InitTables`) are completed and name no orders that
they traded in: those would be discounted, and no handler looks at a discounted
order again.  `ghost.cash` begins with all that went into such an order, since
what it is worth comes back to the buyer when he trades it in.

### Surplus

No state: `PeriodSurplus` is `getSurplusValueByPeriod`, `OneTimeSurplus` is
`getSurplusValueByOneTime`, and their loops over orders, newest first, are the recursive
functions `PeriodWalk` and `OneTimeWalk`, whose steps are `PeriodStep`
and `OneTimeStep`.  Amounts are exact fractions (`Fractions`) until the final `floor`; PHP
computes with floating-point numbers, so a result that is a whole number may come
out one less, which is not modelled.  `TimeValue` and `TrafficValue` are the
references: they count units of time and traffic as sets, without a loop.
`FairPeriod` and `ExactOneTime` compare the two for one history; `PeriodFair` and
`OneTimeExact` do so for all small ones, and TLC
evaluates them in the first state of `orders_save`.
`Orders`, where times are only past and future, has `SurplusAmounts` instead: any part of what
the newest order that cost something is worth.  That `Surplus` computes no other
amount is a theorem (`PeriodSurplusOffered`, `OneTimeSurplusOffered`).

### Traffic

`job` is a queued `TrafficFetchJob` with the users it has done; `hash` the two
Redis hashes; `flush` a running `traffic:update`, one action per Redis command
and statement (`FlushStart`, `FlushUploads`, `FlushDelUp`, `FlushDownloads`, `FlushDelDown`,
`FlushUsers`, `FlushUpdate`); `row` the u and d of users; `Reset...` the command
`reset:traffic` and its lock; `ResetUser` an order that resets.  `ghost.gap` collects the users
for whom the code may lose traffic or undo a reset: one whose hash is
incremented between HGETALL and DEL, one with an upload and no download entry,
everyone in an UPDATE that fails or a command that is killed, and one who is
reset between the read of the users and the UPDATE.  `Accounted` says these
are the only ways.

### Sessions

One account.  `registry` is the cached list of sessions, `meta` what is stored with each (the hash
of the security fields it was bound to, the version of these fields it was verified against, whether
it is the App's), `appKeys` the keys that find a session by its App token, and `lock` the cache lock
that expires whoever holds it.  `row` has the columns of the user; its `fence` is
app_legacy_token_disabled: while it is 0, the App accepts the account's own token without a session
(`AcceptsLegacyApp`).  A change of password, ban, role or token (`EditRead`, `EditSave`,
`EditStaff`, `EditCommit`) bumps the version of the security fields in the model's hook `Saved` and
then revokes all sessions (`RevokeLock`, `RevokeForget`, `RevokeKeys`).

### Redemption

A request that works under locks is modelled by the rows it still wants (`want`): `LockRow` takes
the next one when it is free, checks what the code checks at that point and keeps what it read;
`CommitOrder` and `CommitCard` write and free the rows, `Deadlock` and `Fail` free them without a
write.  The website's gift card (`WebRead`) decides before it has a lock and writes what it computed
from its copies; `raced` collects the cards and balances that had changed by then, and the users
whose orders overtook one another.  `Cancel`, `PaidRead`, `PaidWrite`, `Open` are the part of an
order's life on which the counts of coupons depend; `Orders` has all of it.

### Accounts

`user` has the columns these handlers write; `proc` what each command or request
does, with the copies it made.  `CommissionStart` is `autoCheck` with the list of
`autoPayCommission`; `PayBegin` is the first read of the transaction of one order,
and `PayOut` all it writes, over three levels (`Payee`).  `RenewalStart` reads all
users, `RenewUser`, `RenewalRefused` and `RenewalThrow` end one of them.  `TransferRead`/`TransferCommit`
and `PeriodRead`/`PeriodCommit` are the two requests.  `ledger` adds up what
orders and logs say; `history.raced` are users whose row was
written from a copy that was no longer true.  The code has details that are kept:

* an exception between `beginTransaction` and `commit` of a renewal leaves the
  transaction open: its handler clears `auto_renewal` and saves, but that and the
  renewals after it are rolled back when the command ends (`void`);
* a level whose share is exactly zero does not move on to the next inviter: the share
  of the next level goes to the same one (`Up`);
* a transfer to the balance is an order, and earns the inviter a commission.

Shares are fractions (`Fraction`), which balance, commission and log each round to
the nearest whole number when they are stored (`Portion`); a fraction that rounds to
nothing still moves on to the next inviter.  `OpenRead`/`OpenCommit` are a worker that
credits a deposit from a copy it read without a lock; `Deposit` is `addBalance`, which
locks.  The column actual_commission_balance, which nothing reads, is left out.  What a
transaction ended by InnoDB as a deadlock leaves is `Die` or `RenewalRefused`; a renewal so
ended saves its copy outside a transaction, of which only the cleared
`auto_renewal` is modelled.

### Devices

`app` and `profile` are the status of the account's rows in the two tables, `lock` the lock of its
user row.  A log-in (`Login`, or `Sync` without a password) names the installation it comes from,
another one or none; a profile of another installation than the one it names is not found inactive
(`Inactive`).  It goes through `BindBegin`, the decision on the snapshot taken under the lock, and
`BindCommit`, which binds and lets `reconcileConfirmedLoginDevice` work on the profiles of the
moment.  `RegisterBegin`/`RegisterCommit` create a profile.  `UnbindStart`, `UnbindRow`,
`InvalidateRead`, `InvalidateSave` are unbinding by the user, one table after the other, where an
UPDATE that changes no row skips the second one; `AdminRead`/`AdminCommit` by an administrator;
`ResetBegin`/`ResetCommit` the reset of an account, `PurgeRead`/`PurgeCommit` the purge.  `crossed`
collects devices a log-in bound while they were being unbound or purged, and those whose unbinding
died between the tables: for these the code may turn a profile on again without a confirmation,
delete an active one, or leave the two tables apart, and the properties say it happens to no others.

Left out: other accounts, the limit of three new devices a day, the purge of
inactive devices, the repair commands, cached authorisations.

### Statistics

`userRow` and `serverRow` are the day's rows, `userJob` and `serverJob` the two
jobs of a report.  `UserList` is the search before the transaction,
`UserCopy` the transaction's snapshot, `UserCommit` the updates and the upsert,
which replaces a row that another job inserted meanwhile.  A report may name a user with
nothing (`Named`): an update that changes nothing is not sent, an insertion always is, and may set
a row another job has just inserted back to zero (`Sent`).  `ServerBegin` is
`lockForUpdate`: it takes the row, or with others the gap where it will be, and then
`ServerCreate` waits and `ServerDeadlock` ends one that waits in a ring.  A job
that throws or dies goes back to the queue until it had its tries; `history.again`
has reports a worker of which died after its commit.  Upload and
download are one amount, and the day does not end.

## 4. What is checked

### Runs

| Run | Instance | Shows |
|---|---|---|
| `orders_concurrent` | 1 order, 2 requests, 2 workers, 1 failure | `RefundedOnce`, `FulfilledIsPaid` under every interleaving, `OpenedOnce` of orders that were not raced; `PaidIsOpened`, `PendingIsLeft` with fair workers, sweep and gateway |
| `orders_save` | 3 orders on one balance, 2 requests; up to 3 former orders of 5 kinds | `BalanceAccounted`: concurrent debits and refunds; `PeriodFair`, `OneTimeExact`: the residual value of a plan |
| `orders_trade` | a newcomer with a coupon of his inviter, or an invited subscriber; 1 request, 1 worker, 3 orders, 4 offers on 2 plans, codes for one of them redeemed at any time | `TradedInOnce`, `NoMoneyCreated`, `RewardedOnce` of what the history does not mark, and `PromiseKept`: every step is one of `Purchases` |
| `traffic` | 2 reports on one user or 1 on two, 2 tries, 1 failure, 1 reset | `NotOvercharged`, `Accounted`, `CountedOnce`, and with fair jobs `ReportedIsCharged` |
| `sessions` | 3 sessions, 2 changes (one may undo the other), 1 login code, 1 death | `AcceptedIsCurrent`, `RevokedInTheEnd`, `RegistryKept`, `CodeUsedOnce` |
| `sessions_live` | 1 change, 1 death, 1 lock that expires under its owner | `HandlersEnd` |
| `redemption` | 2 users, a coupon and a card of two uses, 2 orders, App and website | `UsedPerUser`, `CardWithinLimit`, `WalletAccounted` under every interleaving, outside the races marked in `raced` |
| `redemption_coupons` | a coupon with one use left, orders against both redemptions, 1 failure | `CouponAccounted`, `TransactionsEnd` |
| `redemption_per_user` | a coupon of two uses, one per user | **violated**: see Findings |
| `accounts` | an inviter and whom he invited, 2 processes, 2 orders, 1 deposit (locked or opened by a worker), debit or edit, 1 death or exception | `WithinCredits`, `Accounted`, `PaidOnce`; with a fair scheduler `ConfirmedIsPaid` |
| `devices` | a phone with 2 profiles and a tablet to come, requests that name either or none, a limit of 1, 2 requests at a time, 1 death | `AppLimit`, `RegisteredWithinLimit`, `OneActivePerInstall`, `RestoredOnPurpose`, `PurgeSparesActive`, `UnboundInBoth` |
| `statistics` | 2 reports that name 2 users, one with nothing for one of them, 3 tries, 2 transactions each, 2 deadlocks or deaths | `ServerAccounted`, `UserAccounted`, `CountedOnce`, `JobsEnd` |

Type correctness (`TypeOK`, in every module with state) and `UsageGrows` are
proved for all values of the constants, so no run repeats them.

### Bounds

`MaxOrders`, `MaxJobs`, `MaxFailures`, `MaxResets`, `MaxChanges`, `MaxStalls`, `MaxOthers`,
`Tries`, `Attempts`, `Horizon` and `MaxQuota` are the bounds; `Tries` and
`Attempts` are the code's numbers made smaller.  Two
processes are enough for the races here, because each is between one holder of a
copy and one writer; three orders are enough for a plan to be bought, traded in
and traded in again; two changes are what a change and its reverse need; two
users make a limit that is shared and one that is not tell apart; a limit of one
device is what two log-ins compete for (with a limit of two the instance holds as
well, but no registration comes near it).

Two runs restrict the states TLC goes on from (`Explored`).  In `sessions` no more
than three of log-ins, changes, failures and codes are used (up to four was
run once: seven million states, no error).  In `traffic` a report
on both users is the only one; as nothing makes a node push, what is left out
takes no fair behaviour from the others, and the theorems of `TrafficProofs`
hold without it.

Symmetry is declared for requests, workers, processes, sessions and, in
Redemption, users; never in a run that checks liveness.  `orders_concurrent`
pays for liveness with a single order, which is what its races are about.  Deadlock is checked
except in Redemption, where the bound on orders may leave nothing to do, and in
Statistics, where all jobs end.

### History marks

Some properties are false of all orders or rows, because the code takes no lock
there, or does not look.  The model lets these things happen, and a history variable
remembers what they touched (`raced`, `beside`, `lost` and `late` in `Orders`;
`ghost.gap`, `raced`, `shared`, `crossed`, `again` in the others).  The properties
exempt what is marked, so they say that nothing else goes wrong; they do not say that
the marked things are right.  Of these the code does:

* a code is redeemed while a change of plan is pending.  No race is needed:
  `redeemPlan` (AppOrderService.php:253) and `LegacyRedemptionService::redeem` (line 12)
  do not ask for an order under way, as save (User/OrderController.php:79,
  AppOrderService.php:75) and assign (Admin/OrderController.php:154) do.  The redemption
  names the same old orders as the pending one, discounts them and refunds their
  surplus; when the pending order is paid, they are traded in and their surplus is paid a
  second time (`beside`);
* `paid()` writes status 1 over an order that was cancelled, completed or
  discounted since it was read (`raced`);
* two workers open one order (`raced`), or two requests create two (`beside`);
* `open()` writes a balance over one that was debited or credited in between (`lost`);
* a worker opens an order before its reward is asked for, so that the next one earns a
  second reward (`late`);
* the website redeems one gift card twice, or loses a credit;
* two orders with one coupon are placed at once;
* payouts, renewals, transfers and new periods write rows from copies, and lose
  what others wrote meanwhile; two runs of `check:commission` pay an order twice;
* a log-in that crosses an unbinding or a purge;
* two jobs write the statistics of one user.

### Fairness

* Orders: the sweep runs (cron, every minute), a handler that started ends, the
  job of an order is taken in the end (Horizon keeps its workers running; the
  list is first in, first out) and a gateway repeats a callback that was not
  acknowledged.  Users, administrators and failures are not fair.
* Traffic: jobs run, `traffic:update` is started again and again, and locks with an
  expiry expire.
* Sessions: a process goes on, a lock it waits for again and again is given to
  it, locks expire.
* Accounts: `check:commission` is started again and again (cron, every fifteen
  minutes), and a command or request that started goes on; requests, deposits
  and edits are not fair.
* Statistics: workers go on and a job given back is taken again; the row lock is
  given to a job that waits for it again and again.
* Redemption: a request goes on, InnoDB hands out a row in turn and detects a ring of waiters.

### Findings

`redemption_per_user`: *"The coupon can only be used :limit_use_with_user per
person"* (`CouponService.php:111`) is not what `CouponService.php:79` checks.
It counts orders that are neither pending nor cancelled.  An order needs no other
order under way, but a redemption does not ask for that: a buyer
may place an order with a redeemable coupon, redeem the same code, and then pay the
order.  `UsedPerUser`, for coupons that are not redeemable, holds.

That a redemption beside a pending change of plan trades the same orders in twice (see
above) contradicts no comment or message of the repository, and so has no run of its own: it is what
the mark `beside` is for.  Without that mark TLC finds `TradedInOnce` and `NoMoneyCreated` violated in
`orders_trade`.

## 5. What is proved

Every safety invariant that a passing run checks is
proved for all values of the constants, and so are the action properties and the refinement.

| Theorem | Says, for all values of the constants |
|---|---|
| `OrdersProofs!TypeCorrect` | rows and copies keep their types; balances and amounts are natural numbers |
| `OrdersProofs!RefundedAtMostOnce`, `OnlyPaidIsFulfilled`, `BalanceAddsUp` | under every interleaving: one refund, no fulfilment before the money is there, and, while nothing is opened, balances and open orders add up |
| `OrdersProofs!OpensOnce`, `TradesOnce`, `RewardsOnce`, `MakesNoMoney` | under every interleaving: orders that are not marked are fulfilled or refunded once and not both and traded in once; users whose orders are not marked have one reward paid for them, and no money created |
| `OrdersProofs!KeepsPromise`, `UndisturbedImplements` | until handlers write over one another every step is a step of `Purchases`, and behaviours in which they never do implement it |
| `OrdersProofs!PeriodIsFair`, `OneTimeIsExact` | for every history of orders, plan and usage: a change of plan gives no more than what the time to come was bought for, all of it where no traffic was used and no order is short, less the longer one waits and the more one uses; a plan without expiry gives exactly what its unused traffic was bought for |
| `OrdersProofs!PeriodAlwaysFair`, `OneTimeAlwaysExact` | the same as the invariants that the run checks |
| `OrdersProofs!PeriodSurplusOffered`, `OneTimeSurplusOffered` | what `Surplus` computes is among what `Orders` chooses from |
| `TrafficProofs!TypeCorrect`, `NeverOvercharged`, `TrafficAccounted`, `CountedAtMostOnce`, `NeverLess` | no traffic is charged twice; outside the windows none is lost; without failures reports are counted once; outside resets usage grows |
| `SessionsProofs!TypeCorrect`, `AcceptedCurrent` | nothing is accepted that was verified against former security fields |
| `SessionsProofs!RegistryStaysKept`, `OldSessionsEnd`, `CodesAreUsedOnce` | while no lock is lost to its expiry, the registry keeps what was registered and not removed, and a code is used once; old sessions end when no process fails |
| `RedemptionProofs!TypeCorrect` | nothing goes below zero; what a request read of a row it holds is still there |
| `RedemptionProofs!CouponKept`, `UsedPerUserKept` | uses left and orders placed make up a coupon's limit; no buyer exceeds his own |
| `RedemptionProofs!CardsAreKept`, `WalletKept` | a card keeps its limits, and a wallet agrees with cards and orders, outside the races marked in `raced` |
| `AccountsProofs!TypeCorrect`, `CreditsBound`, `RecordsAgree`, `PaysOnce` | no credit is booked twice, rows nobody overwrote agree with their records, an order pays once unless two runs listed it at once or an administrator set its status |
| `DevicesProofs!TypeCorrect`, `WithinLimit`, `OneActive`, `Unbound`, `RegistersWithin`, `Restores`, `Purged` | the limits, one active profile per installation, both tables together, nothing restored or purged but on purpose |
| `StatisticsProofs!TypeCorrect`, `CountsOnce`, `NothingLost`, `ServerAddsUp`, `UserAddsUp` | jobs count a report once; every commit on the row of a node adds exactly its report, which is therefore the sum of all; the row of a user is never more, and less only when two jobs overlapped |
| `SumTheorems!SumType`, `SumBelow`, `SumChange` | what sums over a finite set are, keep and change by |
| `SumTheorems!WalkExists`, `WalkIs`, `SummedBelow` | a function is computed step by step from 0 to n, and by these steps alone; sums of fractions keep the order of what they add |

The assumptions are the named `ASSUME` of each module, which TLC evaluates in
every run, and in `DevicesProofs` that the
rows to begin with (`FirstRows`) are within the limit, with one active profile per
installation and no profile active whose binding is off.  Sets that are summed
over are assumed to be finite: the reports of Traffic and Statistics, the users of
Statistics and of Redemption, the cards, and the periods on sale.

*Sums.*  `SumFunctionOnSet` is defined by a recursive function over the subsets
of its set.  `SumTheorems` proves that one function adds any given numbers over
these subsets (`SumsExist`), that it is the one meant (`SumIs`), and from it what one
element more, a change of one element and a comparison do to a sum.  Both
inductions are over the subsets of a finite set: they take the set of those for which
the claim holds, and a smallest one outside it.
A loop over a list is a recursive function on `0..n`; `WalkExists` and `WalkIs` say that
there is one that takes these steps and that CHOOSE finds it.  Their induction (`UpTo`) is over
the numbers for which the claim holds, as a set.

*Orders.*  `RefundedOnce` is inductive once it is known that pending orders have
no refund and that the guard of `CancelRow` is the only way to one.
`FulfilledIsPaid` needs `Paid`: no more than the total is banked while an order
is pending, no less once its invoice is captured, it is paid or opened, and a process
about to pay or open it saw that money.  `BalanceAccounted` is inductive with the types
(`Accounted`); by `StepKinds` each step changes one row or none, so the sum over a
user's orders changes by what that row holds (`SumChange`).

`OpenedOnce` follows from `Agreed`: for an order that was not raced, the history agrees
with its status, it was there to be traded in when another order named it, and the one worker
that holds it found it paid.  That a worker found it paid and nobody else touches a paid
order until it is opened is what the mark `raced` gives up.

For `TradedInOnce`, `TradeInv` adds that an order trades in orders of its own buyer (`Kin`),
which are closed once it is open (`Closed`), and that of two orders that name the same
one, neither of them beside another, one was cancelled (`Traded`): when the second was
created nothing was under way, so the first was open, and had closed what it traded in, or cancelled.

For `RewardedOnce`, gifts are born paid (`Fresh`), an order that was not raced is asked for its
reward by one process (`Sole`), nobody whose orders did not meet has two under way
(`Single`), and a reward that was paid belongs to an order that is past its
reward (`Rewarded`).

For `NoMoneyCreated`, what an order under way was offered is still there (`Placed`: its
terms are those of the orders it trades in), so a trade-in moves its value from the old orders to
the new one, and `Money` says that balance and orders are covered by what is banked
order by order (`Worth`, `Bank`).  Each step changes these sums by what its own rows hold.

*Purchases.*  `KeepsPromise` is the refinement step by step.  `PromiseSteps` states the
abstract actions over the mapped variables (`PhaseOf`, `OwnerOf`, `HeldOf`, `GainOf`,
`WalletOf`).  Each kind of step of `Orders` is one of them, or changes none of these
variables; `Agreed` says that a worker opens what is paid and discounts what was fulfilled.
`UndisturbedImplements` is the same for `UndisturbedSpec`, whose behaviours are those of
`Spec` in which nothing is ever raced or lost.

*Surplus.*  `PeriodWalked` says what the loop has after i orders: the expiry less
the time of those orders, whether one of them cost something, and the sum of what
each gives (`Given`).  So the result is a sum over the orders, as the
reference `TimeValue` is, and `SummedBelow` compares the two order by order.
For one order, `ShareTime` and `ShareTraffic` say that its share grows with its time and with
the traffic that is left; in a long order they rest on how many whole months come after the
current one (`MonthsLater`), since the current month may be capped by traffic and the later
ones are not.  `ShareType` and `LongShareType` bound the share by the time, and reach it where the
traffic is whole.  `ToComeIs` says that an order's time to come, which the loop measures,
is as large as the set of units that the reference counts.
`OneTimeWalked` is the same for traffic, where amounts are whole until the end.
Neither needs more of a history than that values and gifts of days are natural numbers.

*Traffic.*  `Kept` is the conjunction of `Bounded` (nothing taken twice),
`Listed` (what is being moved belongs to users that were read) and `Balanced` (the
sum of hash, hand, row and erased traffic is what was counted, except in the gap).
Each action moves an amount from one summand to another, or puts its user in the gap.
`CountedOnce` follows from an equation, `Settling`: what was counted and what the
jobs still owe, summed over all reports, is what was reported.
`NeverLess` needs that the copy an update computes from is not older than the row
(`Fresh`): only resets change a row meanwhile.

*Sessions.*  `Placed` says where a login code or an App key may be and that one
transaction at a time holds the row; `Current` that every hash that is stored or
about to be stored is sound: of the present fields exactly if of the present
version.  The version makes a change and its reverse differ, which is
what the induction needs.  `Booked` is the registry's own invariant: it is what was
registered without what was removed, and each process has a role that the
others leave alone (`Role`): who works on the registry owns its lock and has read what is there.
It holds while no lock expires under its owner.  `Revoking` says that an old session that
outlived a change has someone about to revoke it.  `CodeAt` follows a login code from
the cache through the process that owns its lock: it is used by nobody who has
not taken it out first.

*Redemption.*  A request holds the rows it no longer wants.  The invariant
`Sound` says what that is worth: the coupon, card or balance it read is still
the row's value.  It is preserved because a row is written by its holder only
(`Others`), and gives the accounting when the request commits.  A website's
request holds its card too when it writes, so what it wrote over is known: either
the card was what it read, and `OneRedeemed` applies, or the card is in `raced`.
`UsedPerUser` is about orders that are paid, but decided when they are placed.
`PerBuyer` carries it from there to here: a buyer has one order waiting for payment, none while he
places another, and the count a request made stays below the limit until its
order is in it.  It needs that redeemable coupons are not its subject (`Refers`), which is where
the violated `PerPerson` differs.  `Purse` is the equation of `WalletAccounted`, with
`HoldsPurse` (who will write a balance holds its row) and `Bills` (an order draws one unit
at most and gives it back once).

*Accounts.*  What a process writes comes from its copy, so the invariant
bounds copies as it bounds rows (`Copies`): a copy was true once, and the ledger only grows.
`Covered` keeps the guards a request passed true of its copy, from which no
subtraction goes below zero.  `Accounted` follows because a writer whose copy is no
longer the row puts the user in `raced`.  For `PaidOnce`, `Listing` says that an
order is on one list at most and confirmed while it is on it.

*Devices.*  `Sound` says what each request may rely on: who holds the lock counted on
what is still there, and who does not only turns rows off.  Steps fall into
those that are `Quiet`, which change nothing a log-in counted on unless they are noted, and
those under the lock (`Loud`).  `Matching` generalises `UnboundInBoth` to states in which
requests are under way: a device that is off in one table only has someone who
is about to turn it off in the other.

*Statistics.*  Who has read the row of the node holds its lock and the row is as
he read it (`Held`), so what he writes is the row plus his report, and
`ServerAccounted` is kept.  For the row of a user there is no lock: `UserBounded` bounds
the copies too, so a write from an old copy can make the sum less, never more, and then puts the
user in `raced`.  `Once` ties the commits of a report to where its job is.

## 6. What is only model-checked

Liveness (`PaidIsOpened`, `PendingIsLeft`, `ReportedIsCharged`, `HandlersEnd`,
`TransactionsEnd`, `ConfirmedIsPaid`, `JobsEnd`): fairness speaks of ENABLED, which the
prover cannot handle.
Findings are counterexamples, and stay with TLC as well.

## 7. What is not modelled

* *Grants and the guard*: a fetch is one transaction that locks its grant; the
  guard's state is a nonce taken by one atomic command; the rest is cryptography.
* *Telemetry, trust, probes*: scores and counters that change what a manifest
  exposes, and nothing the modelled components rely on.
* *Codes and limits, mass e-mail*: single keys, or one Lua script.
* *Registration, plans, tickets*: single rows; what purchases make of them is in
  `Orders`.  Capacity is not held for an order under way, so there is no bound to check.
* *Subscription delivery, nodes, payment plugins, Telegram, administration,
  displays, installation*: text and forms without a protocol of their own.
* *The JavaScript in `public/`*: bundles (`umi.js`), translations and
  editors that were built elsewhere; their sources are not in this repository, and
  they keep no state that PHP does not check.  All logic modelled here is in `app/`.

Time is modelled by what it makes true (an order is old, a lock has expired), not
by a clock.  MySQL is modelled at the granularity of statements, snapshots and row locks, Redis
of commands; replication, failover and eviction are left out.
