------------------------------ MODULE Devices -------------------------------
(***************************************************************************)
(* The devices of one account, in two tables that no constraint joins: the *)
(* App's bindings (v2_user_devices) and the SmartRoute profiles            *)
(* (v2_sr_device_profiles).  Log-ins, bindings, registrations and the      *)
(* reset of an account lock the account's row and then read; unbinding by  *)
(* the user, by an administrator, and the purge of unbound devices do not. *)
(*                                                                         *)
(* A transaction decides on the snapshot that its first read after the     *)
(* lock takes, and what it writes is seen when it commits.  Saving a model *)
(* writes only what differs from the copy.                                 *)
(***************************************************************************)
EXTENDS Integers, FiniteSets

CONSTANTS
  Devices,
  Installs,
  Install,      \* the installation a device id belongs to
  Limit,        \* device_limit of the account; 0 is no limit
  FirstApp, FirstProfile,  \* the rows to begin with
  Procs, Nobody,
  MaxFailures   \* bound: requests that die

VARIABLES
  app,       \* v2_user_devices: status of the account's row for a device
  profile,   \* v2_sr_device_profiles: status of the profile
  lock,      \* the row lock of the account
  proc,
  failures,
  crossed    \* history: devices a log-in bound while they were being unbound or
             \* purged, and devices whose unbinding died half-way

vars == <<app, profile, lock, proc, failures, crossed>>

Status == {"none", "on", "off"}

ASSUME DevicesAssumption ==
  /\ Install \in [Devices -> Installs] /\ Limit \in Nat
  /\ Nobody \notin Procs \cup Devices \cup Installs
  /\ MaxFailures \in Nat /\ IsFiniteSet(Devices)
  /\ FirstApp \in [Devices -> Status] /\ FirstProfile \in [Devices -> Status]

\* install: the installation a log-in names, if it names one; seen: the status a
\* request read; todo: the devices it is about to work on; scope: those it may
\* work on.
Process == [op: {"idle", "login", "bind", "register", "reset", "unbind", "found",
                 "invalidate", "admin", "purge"},
            device: Devices \cup {Nobody}, install: Installs \cup {Nobody}, password: BOOLEAN, confirmed: BOOLEAN,
            seen: Status, todo: SUBSET Devices, scope: SUBSET Devices]

Idle == [op |-> "idle", device |-> Nobody, install |-> Nobody, password |-> FALSE,
         confirmed |-> FALSE, seen |-> "none", todo |-> {}, scope |-> {}]

TypeOK ==
  /\ app \in [Devices -> Status]
  /\ profile \in [Devices -> Status]
  /\ lock \in Procs \cup {Nobody}
  /\ proc \in [Procs -> Process]
  /\ failures \in 0..MaxFailures
  /\ crossed \subseteq Devices
  /\ \A p \in Procs : lock = p <=> proc[p].op \in {"bind", "register", "reset"}

Init ==
  /\ app = FirstApp
  /\ profile = FirstProfile
  /\ lock = Nobody
  /\ proc = [p \in Procs |-> Idle]
  /\ failures = 0
  /\ crossed = {}

Become(p, state) == proc' = [proc EXCEPT ![p] = state]

On(table) == {d \in Devices : table[d] = "on"}

\* UPDATE ... SET status = 0 and DELETE of the rows of S.
TurnedOff(table, S) == [d \in Devices |-> IF d \in S /\ table[d] = "on" THEN "off" ELSE table[d]]
Deleted(table, S)   == [d \in Devices |-> IF d \in S THEN "none" ELSE table[d]]

\* The devices of log-ins between snapshot and commit, and those being unbound
\* or purged.
Binding == {proc[q].device : q \in {q \in Procs : proc[q].op = "bind"}}

Unbinding == UNION {{proc[q].device} \cup proc[q].scope :
                    q \in {q \in Procs : proc[q].op \in {"found", "invalidate", "admin", "purge"}}}

-----------------------------------------------------------------------------
(* Log-in and binding *)

\* hasInactiveDevice(): the profile is looked up with the installation the
\* request names, or without one.
Inactive(d, i) == app[d] = "off" \/ (profile[d] = "off" /\ i \in {Install[d], Nobody})

Full_Bug == Limit > 0 /\ Cardinality(On(app)) > Limit

Full == Limit > 0 /\ Cardinality(On(app)) >= Limit

Rank(d) == CASE profile[d] = "on" /\ app[d] = "on" -> 0
             [] profile[d] # "on" /\ app[d] = "on" -> 1
             [] profile[d] = "on" /\ app[d] # "on" -> 2
             [] OTHER -> 3

OfInstall(i) == {d \in Devices : Install[d] = i /\ profile[d] # "none"}

\* resolveDeviceIdForInstall(): the best profile of the installation the request
\* names, or the id the App sent.
Resolved(i, sent) ==
  IF OfInstall(i) = {} THEN {sent}
  ELSE {d \in OfInstall(i) : \A e \in OfInstall(i) : Rank(d) <= Rank(e)}

\* login(): the password holds, and an unbound device is taken back only when
\* the user confirms it.  The other tests are repeated when the device is bound.
Login(p, sent, i, confirmed) ==
  /\ proc[p].op = "idle"
  /\ \E d \in Resolved(i, sent) :
       /\ Inactive(d, i) => confirmed
       /\ Become(p, [Idle EXCEPT !.op = "login", !.device = d, !.install = i,
                                 !.password = TRUE, !.confirmed = confirmed])
  /\ UNCHANGED <<app, profile, lock, failures, crossed>>

\* sync() and deviceBind() bind without a password: to name no installation is
\* for them to name the device's own.
Sync(p, d, i) ==
  /\ proc[p].op = "idle"
  /\ Become(p, [Idle EXCEPT !.op = "login", !.device = d, !.install = i])
  /\ UNCHANGED <<app, profile, lock, failures, crossed>>

\* A new log-in is enough to take an unbound device back.
Decision_Bug(d, i, confirmed) ==
  CASE app[d] = "on" -> "continue"
    [] app[d] # "on" /\ Full -> "limit"
    [] OTHER -> "bind"

\* deviceActivationDecision()
Decision(d, i, confirmed) ==
  CASE Inactive(d, i) /\ ~confirmed -> "unbound"
    [] (Inactive(d, i) => confirmed) /\ app[d] = "on" -> "continue"
    [] (Inactive(d, i) => confirmed) /\ app[d] # "on" /\ Full -> "limit"
    [] OTHER -> "bind"

\* handleDeviceBind(): the lock first, then the snapshot.
BindBegin(p) ==
  LET d == proc[p].device
  IN  /\ proc[p].op = "login"
      /\ lock = Nobody
      /\ IF Decision(d, proc[p].install, proc[p].confirmed) \in {"unbound", "limit"}
         THEN Become(p, Idle) /\ lock' = lock
         ELSE Become(p, [proc[p] EXCEPT !.op = "bind", !.seen = app[d]]) /\ lock' = p
      /\ UNCHANGED <<app, profile, failures, crossed>>

\* bindDevice() saves a copy: a row that was active in it is not made so again,
\* and one that was deleted meanwhile does not come back.
Bound(p) == [app EXCEPT ![proc[p].device] =
  IF proc[p].seen = "on" \/ (proc[p].seen = "off" /\ @ = "none") THEN @ ELSE "on"]

\* The other profiles of the installation are left as they are.
Reconciled_Bug(p) ==
  [profile EXCEPT ![proc[p].device] = IF proc[p].password /\ @ # "none" THEN "on" ELSE @]

Others(p) == OfInstall(Install[proc[p].device]) \ {proc[p].device}

\* reconcileConfirmedLoginDevice() reads the profiles of the moment, locks them,
\* and makes the device the only active one of its installation.  A request that
\* names no installation, or another one, reconciles nothing.
Reconciles(p) == /\ proc[p].password /\ proc[p].install = Install[proc[p].device]
                 /\ profile[proc[p].device] # "none"

Reconciled(p) ==
  IF Reconciles(p) THEN [TurnedOff(profile, Others(p)) EXCEPT ![proc[p].device] = "on"]
  ELSE profile

BindCommit(p) ==
  LET d == proc[p].device
  IN  /\ proc[p].op = "bind"
      /\ app' = IF Reconciles(p) THEN TurnedOff(Bound(p), Others(p)) ELSE Bound(p)
      /\ profile' = Reconciled(p)
      /\ crossed' = crossed \cup ({d} \cap Unbinding)
      /\ lock' = Nobody
      /\ Become(p, Idle)
      /\ UNCHANGED failures

-----------------------------------------------------------------------------
(* Registration *)

\* A random id, which no row and no request has.
Fresh(d) ==
  /\ profile[d] = "none" /\ app[d] = "none"
  /\ \A q \in Procs : d # proc[q].device /\ d \notin proc[q].todo

\* The decision without the lock of the account.
RegisterBegin_Bug(p, d) ==
  /\ proc[p].op = "idle"
  /\ Fresh(d) /\ OfInstall(Install[d]) = {}
  /\ Limit > 0 => Cardinality(On(profile)) < Limit
  /\ Become(p, [Idle EXCEPT !.op = "register", !.device = d])
  /\ UNCHANGED <<app, profile, lock, failures, crossed>>

\* RegisterDeviceAction: a profile the installation has is used again if it is
\* active, which changes nothing here, and refused if it is not.  d is the id
\* an installation without a profile is given.
RegisterBegin(p, d) ==
  /\ proc[p].op = "idle"
  /\ lock = Nobody /\ lock' = p
  /\ Fresh(d) /\ OfInstall(Install[d]) = {}
  /\ Limit > 0 => Cardinality(On(profile)) < Limit
  /\ Become(p, [Idle EXCEPT !.op = "register", !.device = d])
  /\ UNCHANGED <<app, profile, failures, crossed>>

RegisterCommit(p) ==
  /\ proc[p].op = "register"
  /\ profile' = [profile EXCEPT ![proc[p].device] = "on"]
  /\ lock' = Nobody
  /\ Become(p, Idle)
  /\ UNCHANGED <<app, failures, crossed>>

-----------------------------------------------------------------------------
(* Unbinding *)

\* deviceUnbind() takes one active device, deviceUnbindAll() all but those kept,
\* one by one.
UnbindStart(p, S) ==
  /\ proc[p].op = "idle"
  /\ S # {} /\ S \subseteq On(app)
  /\ Cardinality(S) = 1 \/ Cardinality(On(app) \ S) <= 1
  /\ Become(p, [Idle EXCEPT !.op = "unbind", !.todo = S])
  /\ UNCHANGED <<app, profile, lock, failures, crossed>>

Rest(p) == IF proc[p].todo = {} THEN Idle
           ELSE [Idle EXCEPT !.op = "unbind", !.todo = proc[p].todo]

\* A row that was deleted meanwhile is skipped, and so is one that was turned off
\* in the same second: an UPDATE that changes nothing counts no row.
UnbindRow(p, d) ==
  LET left == [proc[p] EXCEPT !.todo = @ \ {d}]
  IN  /\ proc[p].op = "unbind" /\ d \in proc[p].todo
      /\ app' = TurnedOff(app, {d})
      /\ crossed' = crossed \cup ({d} \cap Binding)
      /\ \/ app[d] # "none" /\ Become(p, [left EXCEPT !.op = "found", !.device = d])
         \/ app[d] # "on" /\ Become(p, IF left.todo = {} THEN Idle ELSE left)
      /\ UNCHANGED <<profile, lock, failures>>

\* invalidateDevice() reads the profile ...
InvalidateRead(p) ==
  LET d == proc[p].device
  IN  /\ proc[p].op = "found"
      /\ Become(p, IF profile[d] = "none" THEN Rest(p)
                   ELSE [proc[p] EXCEPT !.op = "invalidate", !.seen = profile[d]])
      /\ UNCHANGED <<app, profile, lock, failures, crossed>>

\* Whether the profile is active is not looked at.
InvalidateSave_Bug(p) ==
  /\ proc[p].op = "invalidate"
  /\ Become(p, Rest(p))
  /\ UNCHANGED <<app, profile, lock, failures, crossed>>

\* ... and saves it: a status it read as 0 already is not written.
InvalidateSave(p) ==
  LET d == proc[p].device
  IN  /\ proc[p].op = "invalidate"
      /\ profile' = IF proc[p].seen = "on" THEN TurnedOff(profile, {d}) ELSE profile
      /\ crossed' = crossed \cup ({d} \cap Binding)
      /\ Become(p, Rest(p))
      /\ UNCHANGED <<app, lock, failures>>

\* forceUnbind(): the copy is read before the transaction.
AdminRead(p, d) ==
  /\ proc[p].op = "idle"
  /\ profile[d] # "none"
  /\ Become(p, [Idle EXCEPT !.op = "admin", !.device = d, !.seen = profile[d]])
  /\ UNCHANGED <<app, profile, lock, failures, crossed>>

AdminCommit(p) ==
  LET d == proc[p].device
  IN  /\ proc[p].op = "admin"
      /\ profile' = IF proc[p].seen = "on" THEN TurnedOff(profile, {d}) ELSE profile
      /\ app' = TurnedOff(app, {d})
      /\ crossed' = crossed \cup ({d} \cap Binding)
      /\ Become(p, Idle)
      /\ UNCHANGED <<lock, failures>>

\* resetAccountDevices(): under the lock, on its snapshot of the profiles.
ResetBegin(p) ==
  /\ proc[p].op = "idle"
  /\ lock = Nobody /\ lock' = p
  /\ Become(p, [Idle EXCEPT !.op = "reset", !.todo = On(profile)])
  /\ UNCHANGED <<app, profile, failures, crossed>>

ResetCommit(p) ==
  /\ proc[p].op = "reset"
  /\ profile' = TurnedOff(profile, proc[p].todo)
  /\ app' = Deleted(app, Devices)
  /\ lock' = Nobody
  /\ Become(p, Idle)
  /\ UNCHANGED <<failures, crossed>>

\* The status of the profiles is not looked at.
Purgeable_Bug(scope) == {d \in scope : profile[d] # "none"}

Purgeable(scope) == {d \in scope : profile[d] = "off"}

\* purgeUnbound() lists the unbound profiles of the account or of one device,
\* answers with their number, and deletes what it listed.
PurgeRead(p, scope) ==
  /\ proc[p].op = "idle"
  /\ \E d \in scope : app[d] = "off" \/ profile[d] = "off"
  /\ Become(p, [Idle EXCEPT !.op = "purge", !.scope = scope,
                            !.todo = Purgeable(scope)])
  /\ UNCHANGED <<app, profile, lock, failures, crossed>>

PurgeCommit(p) ==
  /\ proc[p].op = "purge"
  /\ profile' = Deleted(profile, proc[p].todo)
  /\ app' = Deleted(app, {d \in proc[p].scope : app[d] = "off"})
  /\ crossed' = crossed \cup (proc[p].scope \cap Binding)
  /\ Become(p, Idle)
  /\ UNCHANGED <<lock, failures>>

\* A request that dies is rolled back to its last commit.
Die(p) ==
  /\ proc[p].op # "idle"
  /\ failures < MaxFailures /\ failures' = failures + 1
  /\ lock' = IF lock = p THEN Nobody ELSE lock
  /\ crossed' = IF proc[p].op \in {"found", "invalidate"} THEN crossed \cup {proc[p].device}
                ELSE crossed
  /\ Become(p, Idle)
  /\ UNCHANGED <<app, profile>>

-----------------------------------------------------------------------------
Scopes == {Devices} \cup {{d} : d \in Devices}

Next == \E p \in Procs :
  \/ \E d \in Devices, i \in Installs \cup {Nobody}, confirmed \in BOOLEAN :
       Login(p, d, i, confirmed)
  \/ \E d \in Devices, i \in Installs : Sync(p, d, i)
  \/ \E d \in Devices : RegisterBegin(p, d) \/ UnbindRow(p, d) \/ AdminRead(p, d)
  \/ BindBegin(p) \/ BindCommit(p) \/ RegisterCommit(p)
  \/ \E S \in SUBSET Devices : UnbindStart(p, S)
  \/ InvalidateRead(p) \/ InvalidateSave(p) \/ AdminCommit(p)
  \/ ResetBegin(p) \/ ResetCommit(p)
  \/ \E scope \in Scopes : PurgeRead(p, scope)
  \/ PurgeCommit(p) \/ Die(p)

Spec == Init /\ [][Next]_vars

-----------------------------------------------------------------------------
(* Properties *)

\* The App's devices never exceed the limit of the account, however log-ins,
\* unbindings and resets overlap: a log-in counts under the lock.
AppLimit == Limit > 0 => Cardinality(On(app)) <= Limit

\* A registration that creates a profile leaves no more active profiles than
\* the limit.  (A log-in may: it does not count profiles.)
RegisteredWithinLimit ==
  [][Limit > 0 =>
       \A d \in Devices : profile[d] = "none" /\ profile'[d] = "on"
                          => Cardinality(On(profile')) <= Limit]_vars

\* Of the profiles of an installation at most one is active, though an
\* installation may register twice at once or have duplicates from before.
OneActivePerInstall ==
  \A d, e \in On(profile) : Install[d] = Install[e] => d = e

\* A binding that was taken away comes back only by a log-in that confirmed it,
\* and a profile by a log-in that confirmed it or that had found it active.
RestoredOnPurpose ==
  [][\A d \in Devices :
       /\ app[d] = "off" /\ app'[d] = "on" => \E p \in Procs : proc[p].device = d /\ proc[p].confirmed
       /\ profile[d] = "off" /\ profile'[d] = "on" =>
            \E p \in Procs : proc[p].device = d /\ proc[p].password
                             /\ (proc[p].confirmed \/ d \in crossed')]_vars

\* The purge deletes no active profile, unless a log-in took it back after the
\* purge had listed it.
PurgeSparesActive ==
  [][\A d \in Devices : profile[d] = "on" /\ profile'[d] = "none" => d \in crossed']_vars

\* When nothing is under way, a device that was unbound in the App is not
\* active in SmartRoute, unless its unbinding died half-way or crossed a log-in.
UnboundInBoth ==
  (\A p \in Procs : proc[p].op = "idle") =>
    \A d \in Devices \ crossed : app[d] = "off" => profile[d] # "on"

=============================================================================
