------------------------------ MODULE Sessions ------------------------------
(***************************************************************************)
(* The sessions of one account.  A login verifies credentials against the  *)
(* user row it read and enters a session, bound to a hash of the row's     *)
(* security fields, into a registry in the cache; an App login also stores *)
(* a credential that points to its session.  A request is authenticated by *)
(* comparing the registered hash with the row of that moment.  Saving a    *)
(* security field runs the hooks of the User model, which rotate the       *)
(* account token and empty the registry.  The registry is read and written *)
(* back under auth:sessions:<id>, a cache lock that expires after ten      *)
(* seconds.  Login codes are pulled from the cache under a lock of theirs. *)
(***************************************************************************)
EXTENDS Integers

CONSTANTS
  Sessions,    \* the guids of sessions
  OldSession,  \* a session of before the upgrade, registered without a hash
  Codes,       \* the guids of login codes
  Procs,       \* PHP processes
  Nobody,
  MaxChanges,  \* bound: changes of the security fields
  MaxFailures, \* bound: processes that die, time out or cannot write the cache
  MaxStalls    \* bound: locks that expire while their owner still works

VARIABLES
  row,       \* the security fields of v2_user, and app_legacy_token_disabled
  registry,  \* USER_SESSIONS_<id>: the sessions in it
  meta,      \* what was stored with a session when it was registered
  appKeys,   \* sessions with an auth:app:token entry
  codes,     \* auth:login-code entries
  codeMeta,  \* what was stored with a code
  lock,      \* owner of auth:sessions:<id>
  codeLock,  \* owner of each code's lock
  proc,
  failures, stalls,
  ghost      \* history: changes so far, sessions handed out and removed, uses of a
             \* code, whether a revocation was given up

vars == <<row, registry, meta, appKeys, codes, codeMeta, lock, codeLock, proc,
          failures, stalls, ghost>>

ASSUME SessionsAssumption ==
  /\ OldSession \in Sessions /\ Nobody \notin Procs
  /\ MaxChanges \in Nat /\ MaxFailures \in Nat /\ MaxStalls \in Nat

\* identity stands for e-mail and roles, which may change back; a password
\* hash is salted and a token random: neither value ever comes again.
Row == [password: Nat, token: Nat, identity: {0, 1}, banned: {0, 1}, fence: {0, 1}]

\* securityHash() distinguishes rows that differ in one of these.
Hash(r) == [password |-> r.password, token |-> r.token, identity |-> r.identity,
            banned |-> r.banned]

Hashes == [password: Nat, token: Nat, identity: {0, 1}, banned: {0, 1}]

\* A stored hash, and the number of changes when the row it is of was read.
Bound == [hash: Hashes, version: Nat, app: {0, 1}]

FirstRow == [password |-> 0, token |-> 0, identity |-> 0, banned |-> 0, fence |-> 0]
Unset    == [hash |-> Hash(FirstRow), version |-> 0, app |-> 0]

Idle == [pc |-> "idle", copy |-> FirstRow, version |-> 0, session |-> OldSession,
         code |-> Nobody, seen |-> {}, then |-> "end"]

Points == {"idle", "code", "pulled", "check", "register", "app", "put",
           "drop", "dropKey", "edit", "revoke", "forget", "keys", "commit"}

ProcState ==
  [pc: Points, copy: Row, version: Nat, session: Sessions, code: Codes \cup {Nobody},
   seen: SUBSET Sessions, then: {"end", "again", "commit"}]

History ==
  [version: 0..MaxChanges, issued: SUBSET Sessions, active: SUBSET Sessions,
   removed: SUBSET Sessions, made: SUBSET Codes, uses: [Codes -> Nat], missed: {0, 1}]

TypeOK ==
  /\ row \in Row
  /\ registry \subseteq Sessions /\ appKeys \subseteq Sessions
  /\ meta \in [Sessions -> Bound]
  /\ codes \subseteq Codes /\ codeMeta \in [Codes -> Bound]
  /\ lock \in Procs \cup {Nobody} /\ codeLock \in [Codes -> Procs \cup {Nobody}]
  /\ proc \in [Procs -> ProcState]
  /\ failures \in 0..MaxFailures /\ stalls \in 0..MaxStalls
  /\ ghost \in History

\* An account of before the upgrade, with a session of that time.
Init ==
  /\ row = FirstRow
  /\ registry = {OldSession}
  /\ meta = [s \in Sessions |-> Unset]
  /\ appKeys = {} /\ codes = {}
  /\ codeMeta = [c \in Codes |-> Unset]
  /\ lock = Nobody /\ codeLock = [c \in Codes |-> Nobody]
  /\ proc = [p \in Procs |-> Idle]
  /\ failures = 0 /\ stalls = 0
  /\ ghost = [version |-> 0, issued |-> {OldSession}, active |-> {OldSession},
              removed |-> {}, made |-> {}, uses |-> [c \in Codes |-> 0], missed |-> 0]

Become(p, state) == proc' = [proc EXCEPT ![p] = state]
At(p, pc)        == proc[p].pc = pc
Goto(p, pc)      == Become(p, [proc[p] EXCEPT !.pc = pc])

\* release() frees a lock only for its owner.
Released(p) == IF lock = p THEN Nobody ELSE lock

Fail == failures < MaxFailures /\ failures' = failures + 1

-----------------------------------------------------------------------------
(* Authentication *)

\* AuthService::authenticate.  A session of before the upgrade has no hash.
Accepts(s) ==
  /\ s \in registry
  /\ row.banned = 0
  /\ s # OldSession => meta[s].hash = Hash(row)

\* AppTokenAuthenticator::resolve: a session's credential, or the account's
\* token of the moment while app_legacy_token_disabled is 0.
AcceptsApp(s)       == s \in appKeys /\ Accepts(s)
AcceptsLegacyApp(t) == t = row.token /\ row.fence = 0

-----------------------------------------------------------------------------
(* Logging in *)

\* The row was read and the credentials hold: a session for it is begun.
Issue(p, s, r, version, app) ==
  /\ meta' = [meta EXCEPT ![s] = [hash |-> Hash(r), version |-> version, app |-> app]]
  /\ Become(p, [Idle EXCEPT !.pc = "register", !.session = s])

Login(p, s, app) ==
  /\ At(p, "idle")
  /\ s \notin ghost.issued
  /\ row.banned = 0
  /\ Issue(p, s, row, ghost.version, app)
  /\ ghost' = [ghost EXCEPT !.issued = @ \cup {s}]
  /\ UNCHANGED <<row, registry, appKeys, codes, codeMeta, lock, codeLock, failures, stalls>>

RegisterLock_Bug(p) ==
  /\ At(p, "register")
  /\ Become(p, [proc[p] EXCEPT !.seen = registry,
                               !.pc = IF meta[proc[p].session].app = 1 THEN "app" ELSE "put"])
  /\ UNCHANGED <<row, registry, meta, appKeys, codes, codeMeta, lock, codeLock, failures, stalls, ghost>>

RegisterLock(p) ==
  /\ At(p, "register")
  /\ lock = Nobody /\ lock' = p
  /\ Become(p, [proc[p] EXCEPT !.seen = registry,
                               !.pc = IF meta[proc[p].session].app = 1 THEN "app" ELSE "put"])
  /\ UNCHANGED <<row, registry, meta, appKeys, codes, codeMeta, codeLock, failures, stalls, ghost>>

RegisterApp(p) ==
  /\ At(p, "app")
  /\ appKeys' = appKeys \cup {proc[p].session}
  /\ Goto(p, "put")
  /\ UNCHANGED <<row, registry, meta, codes, codeMeta, lock, codeLock, failures, stalls, ghost>>

RegisterPut(p) ==
  /\ At(p, "put")
  /\ registry' = proc[p].seen \cup {proc[p].session}
  /\ lock' = Released(p)
  /\ Become(p, Idle)
  /\ ghost' = [ghost EXCEPT !.active = @ \cup {proc[p].session}]
  /\ UNCHANGED <<row, meta, appKeys, codes, codeMeta, codeLock, failures, stalls>>

\* The cache refuses one of the writes: the login fails and leaves nothing.
RegisterFail(p) ==
  /\ proc[p].pc \in {"app", "put"}
  /\ appKeys' = appKeys \ {proc[p].session}
  /\ lock' = Released(p)
  /\ Become(p, Idle)
  /\ Fail
  /\ UNCHANGED <<row, registry, meta, codes, codeMeta, codeLock, stalls, ghost>>

-----------------------------------------------------------------------------
(* Login codes *)

CodeRead(p, c) ==
  /\ At(p, "idle") /\ c \notin ghost.made
  /\ row.banned = 0
  /\ Become(p, [Idle EXCEPT !.pc = "code", !.code = c, !.copy = row, !.version = ghost.version])
  /\ ghost' = [ghost EXCEPT !.made = @ \cup {c}]
  /\ UNCHANGED <<row, registry, meta, appKeys, codes, codeMeta, lock, codeLock, failures, stalls>>

CodePut(p) ==
  LET c == proc[p].code
  IN  /\ At(p, "code")
      /\ codes' = codes \cup {c}
      /\ codeMeta' = [codeMeta EXCEPT ![c] =
           [hash |-> Hash(proc[p].copy), version |-> proc[p].version, app |-> 0]]
      /\ Become(p, Idle)
      /\ UNCHANGED <<row, registry, meta, appKeys, lock, codeLock, failures, stalls, ghost>>

\* After 60 seconds.
CodeExpires(c) ==
  /\ c \in codes
  /\ codes' = codes \ {c}
  /\ UNCHANGED <<row, registry, meta, appKeys, codeMeta, lock, codeLock, proc, failures, stalls, ghost>>

RedeemGet_Bug(p, c, s) ==
  /\ At(p, "idle") /\ s \notin ghost.issued
  /\ c \in codes
  /\ Become(p, [Idle EXCEPT !.pc = "pulled", !.code = c, !.session = s])
  /\ ghost' = [ghost EXCEPT !.issued = @ \cup {s}]
  /\ UNCHANGED <<row, registry, meta, appKeys, codes, codeMeta, lock, codeLock, failures, stalls>>

\* Cache::pull is a get ...
RedeemGet(p, c, s) ==
  /\ At(p, "idle") /\ s \notin ghost.issued
  /\ codeLock[c] = Nobody
  /\ c \in codes
  /\ codeLock' = [codeLock EXCEPT ![c] = p]
  /\ Become(p, [Idle EXCEPT !.pc = "pulled", !.code = c, !.session = s])
  /\ ghost' = [ghost EXCEPT !.issued = @ \cup {s}]
  /\ UNCHANGED <<row, registry, meta, appKeys, codes, codeMeta, lock, failures, stalls>>

\* ... and a forget.
RedeemForget(p) ==
  /\ At(p, "pulled")
  /\ codes' = codes \ {proc[p].code}
  /\ Goto(p, "check")
  /\ UNCHANGED <<row, registry, meta, appKeys, codeMeta, lock, codeLock, failures, stalls, ghost>>

RedeemCheck(p) ==
  LET c  == proc[p].code
      ok == row.banned = 0 /\ codeMeta[c].hash = Hash(row)
  IN  /\ At(p, "check")
      /\ codeLock' = [codeLock EXCEPT ![c] = IF @ = p THEN Nobody ELSE @]
      /\ IF ok THEN /\ Issue(p, proc[p].session, row, codeMeta[c].version, 0)
                    /\ ghost' = [ghost EXCEPT !.uses = [ghost.uses EXCEPT ![c] = ghost.uses[c] + 1]]
               ELSE Become(p, Idle) /\ UNCHANGED <<meta, ghost>>
      /\ UNCHANGED <<row, registry, appKeys, codes, codeMeta, lock, failures, stalls>>

-----------------------------------------------------------------------------
(* Removing one session *)

RemoveLock(p, s) ==
  /\ At(p, "idle") /\ s \in ghost.active
  /\ lock = Nobody /\ lock' = p
  /\ Become(p, [Idle EXCEPT !.pc = "drop", !.session = s, !.seen = registry])
  /\ UNCHANGED <<row, registry, meta, appKeys, codes, codeMeta, codeLock, failures, stalls, ghost>>

RemovePut(p) ==
  /\ At(p, "drop")
  /\ registry' = proc[p].seen \ {proc[p].session}
  /\ ghost' = [ghost EXCEPT !.removed = @ \cup {proc[p].session}]
  /\ Goto(p, "dropKey")
  /\ UNCHANGED <<row, meta, appKeys, codes, codeMeta, lock, codeLock, failures, stalls>>

\* The cache refuses the registry: the session stays, and the answer is false.
RemoveFail(p) ==
  /\ At(p, "drop")
  /\ lock' = Released(p)
  /\ Become(p, Idle)
  /\ Fail
  /\ UNCHANGED <<row, registry, meta, appKeys, codes, codeMeta, codeLock, stalls, ghost>>

RemoveKey(p) ==
  /\ At(p, "dropKey")
  /\ appKeys' = appKeys \ ({proc[p].session} \cap proc[p].seen)
  /\ lock' = Released(p)
  /\ Become(p, Idle)
  /\ UNCHANGED <<row, registry, meta, codes, codeMeta, codeLock, failures, stalls, ghost>>

-----------------------------------------------------------------------------
(* Changing the account: changePassword, forget, resetSecurity, the user    *)
(* editors of administrators and staff, bans                                *)

EditRead(p) ==
  /\ At(p, "idle")
  /\ Become(p, [Idle EXCEPT !.pc = "edit", !.copy = row])
  /\ UNCHANGED <<row, registry, meta, appKeys, codes, codeMeta, lock, codeLock, failures, stalls, ghost>>

\* The old password is wrong, the e-mail is taken, ...
EditAbort(p) ==
  /\ At(p, "edit")
  /\ Become(p, Idle)
  /\ UNCHANGED <<row, registry, meta, appKeys, codes, codeMeta, lock, codeLock, failures, stalls, ghost>>

\* The row that save() leaves: changed columns only, and those that the hook
\* `updating` adds.
Saved_Bug(copy, password, reset, identity, banned) ==
  LET credential == identity # copy.identity
      banning    == banned = 1 /\ copy.banned = 0
  IN  [password |-> row.password + (IF password THEN 1 ELSE 0),
       token    |-> row.token + (IF reset \/ credential THEN 1 ELSE 0),
       identity |-> IF credential THEN identity ELSE row.identity,
       banned   |-> IF banned # copy.banned THEN banned ELSE row.banned,
       fence    |-> IF password \/ credential \/ banning THEN 1 ELSE row.fence]

Saved(copy, password, reset, identity, banned) ==
  LET credential == identity # copy.identity
      banning    == banned = 1 /\ copy.banned = 0
  IN  [password |-> row.password + (IF password THEN 1 ELSE 0),
       token    |-> row.token + (IF reset \/ credential \/ banning THEN 1 ELSE 0),
       identity |-> IF credential THEN identity ELSE row.identity,
       banned   |-> IF banned # copy.banned THEN banned ELSE row.banned,
       fence    |-> IF password \/ credential \/ banning THEN 1 ELSE row.fence]

Store(new) ==
  /\ row' = new
  /\ ghost' = [ghost EXCEPT !.version = IF Hash(new) = Hash(row) THEN @ ELSE @ + 1]

\* No transaction has locked the row.
RowFree == \A q \in Procs : proc[q].then # "commit"

\* wasChanged() of the hook `updated`.
Changes(copy, password, reset, identity, banned) ==
  password \/ reset \/ identity # copy.identity \/ banned # copy.banned

\* A query-builder update, which runs no hook.
EditSave_Bug(p, password, reset, identity, banned) ==
  /\ At(p, "edit") /\ RowFree /\ ghost.version < MaxChanges
  /\ Store(Saved(proc[p].copy, password, reset, identity, banned))
  /\ Become(p, Idle)
  /\ UNCHANGED <<registry, meta, appKeys, codes, codeMeta, lock, codeLock, failures, stalls>>

\* The hook empties the registry; changePassword and forget then do so again.
EditSave(p, password, reset, identity, banned) ==
  LET copy == proc[p].copy
  IN  /\ At(p, "edit") /\ RowFree /\ ghost.version < MaxChanges
      /\ Store(Saved(copy, password, reset, identity, banned))
      /\ \E then \in {"end"} \cup (IF password THEN {"again"} ELSE {}) :
           Become(p, IF Changes(copy, password, reset, identity, banned)
                     THEN [Idle EXCEPT !.pc = "revoke", !.then = then] ELSE Idle)
      /\ UNCHANGED <<registry, meta, appKeys, codes, codeMeta, lock, codeLock, failures, stalls>>

\* The staff editor locks the row and saves inside a transaction: the hook
\* empties the registry before the change is there to be read.
EditStaff(p, password, identity, banned) ==
  /\ At(p, "idle") /\ RowFree /\ ghost.version < MaxChanges
  /\ Changes(row, password, FALSE, identity, banned)
  /\ Become(p, [Idle EXCEPT !.pc = "revoke", !.then = "commit",
                            !.copy = Saved(row, password, FALSE, identity, banned)])
  /\ UNCHANGED <<row, registry, meta, appKeys, codes, codeMeta, lock, codeLock, failures, stalls, ghost>>

EditCommit(p) ==
  /\ At(p, "commit")
  /\ Store(proc[p].copy)
  /\ Become(p, Idle)
  /\ UNCHANGED <<registry, meta, appKeys, codes, codeMeta, lock, codeLock, failures, stalls>>

RevokeLock(p) ==
  /\ At(p, "revoke")
  /\ lock = Nobody /\ lock' = p
  /\ Become(p, [proc[p] EXCEPT !.pc = "forget", !.seen = registry])
  /\ UNCHANGED <<row, registry, meta, appKeys, codes, codeMeta, codeLock, failures, stalls, ghost>>

RevokeForget(p) ==
  /\ At(p, "forget")
  /\ registry' = {}
  /\ ghost' = [ghost EXCEPT !.removed = @ \cup proc[p].seen]
  /\ Goto(p, "keys")
  /\ UNCHANGED <<row, meta, appKeys, codes, codeMeta, lock, codeLock, failures, stalls>>

RevokeKeys(p) ==
  /\ At(p, "keys")
  /\ appKeys' = appKeys \ proc[p].seen
  /\ lock' = Released(p)
  /\ Become(p, CASE proc[p].then = "end" -> Idle
                 [] proc[p].then = "again" -> [Idle EXCEPT !.pc = "revoke"]
                 [] proc[p].then = "commit" -> [proc[p] EXCEPT !.pc = "commit"])
  /\ UNCHANGED <<row, registry, meta, codes, codeMeta, codeLock, failures, stalls, ghost>>

-----------------------------------------------------------------------------
(* Failures and time *)

\* A process is killed or loses the cache.
Die(p) ==
  /\ ~At(p, "idle")
  /\ Become(p, Idle)
  /\ Fail
  /\ UNCHANGED <<row, registry, meta, appKeys, codes, codeMeta, lock, codeLock, stalls, ghost>>

\* block(5): the lock was not to be had for five seconds.
GiveUp(p) ==
  /\ proc[p].pc \in {"register", "revoke"}
  /\ lock # Nobody
  /\ Become(p, Idle)
  /\ ghost' = [ghost EXCEPT !.missed = IF At(p, "revoke") THEN 1 ELSE @]
  /\ UNCHANGED <<row, registry, meta, appKeys, codes, codeMeta, lock, codeLock, failures, stalls>>

\* Nobody has owned the lock for ten seconds, or its owner is that slow.
Expired(owner, pcs) ==
  IF proc[owner].pc \in pcs THEN stalls < MaxStalls /\ stalls' = stalls + 1
                            ELSE UNCHANGED stalls

LockExpires_Bug ==
  /\ lock # Nobody /\ proc[lock].pc \in {"app", "put", "drop", "dropKey", "forget", "keys"}
  /\ lock' = Nobody
  /\ stalls < MaxStalls /\ stalls' = stalls + 1
  /\ UNCHANGED <<row, registry, meta, appKeys, codes, codeMeta, codeLock, proc, failures, ghost>>

LockExpires ==
  /\ lock # Nobody
  /\ Expired(lock, {"app", "put", "drop", "dropKey", "forget", "keys"})
  /\ lock' = Nobody
  /\ UNCHANGED <<row, registry, meta, appKeys, codes, codeMeta, codeLock, proc, failures, ghost>>

CodeLockExpires(c) ==
  /\ codeLock[c] # Nobody
  /\ Expired(codeLock[c], {"pulled", "check"})
  /\ codeLock' = [codeLock EXCEPT ![c] = Nobody]
  /\ UNCHANGED <<row, registry, meta, appKeys, codes, codeMeta, lock, proc, failures, ghost>>

-----------------------------------------------------------------------------
\* The rest of a handler that has begun.
Finish(p) ==
  \/ RegisterLock(p) \/ RegisterApp(p) \/ RegisterPut(p)
  \/ CodePut(p) \/ RedeemForget(p) \/ RedeemCheck(p)
  \/ RemovePut(p) \/ RemoveKey(p)
  \/ RevokeLock(p) \/ RevokeForget(p) \/ RevokeKeys(p) \/ EditCommit(p)

Edit(p) ==
  \E password \in BOOLEAN, identity, banned \in {0, 1} :
    \/ EditStaff(p, password, identity, banned)
    \/ \E reset \in BOOLEAN : EditSave(p, password, reset, identity, banned)

Step(p) ==
  \/ \E s \in Sessions, app \in {0, 1} : Login(p, s, app)
  \/ \E c \in Codes : CodeRead(p, c)
  \/ \E c \in Codes, s \in Sessions : RedeemGet(p, c, s)
  \/ \E s \in Sessions : RemoveLock(p, s)
  \/ EditRead(p) \/ EditAbort(p) \/ Edit(p)
  \/ Finish(p) \/ RegisterFail(p) \/ RemoveFail(p) \/ Die(p) \/ GiveUp(p)

Next ==
  \/ \E p \in Procs : Step(p)
  \/ LockExpires
  \/ \E c \in Codes : CodeExpires(c) \/ CodeLockExpires(c)

Spec == Init /\ [][Next]_vars

-----------------------------------------------------------------------------
(* Properties *)

\* Whatever interleaves, fails or stalls, a session with a hash and the App
\* credential of such a session are accepted only while the security fields
\* are those its login was verified against: a login that was under way
\* during a ban, or a change and its reverse, does not outlive it.  An
\* account token is accepted by itself until the next change only, where all
\* changes so far were resets, which number tokens and changes alike.
AcceptedIsCurrent ==
  /\ \A s \in Sessions \ {OldSession} : Accepts(s) => meta[s].version = ghost.version
  /\ \A t \in 0..MaxChanges : AcceptsLegacyApp(t) => t = ghost.version

\* Registrations and removals that are under way together do not undo one
\* another: a removed session stays out, and what a client was given stays in the registry
\* until it is removed, and its App credential with it.
RegistryKept ==
  stalls = 0 =>
    /\ \A s \in ghost.removed : ~Accepts(s) /\ ~AcceptsApp(s)
    /\ \A s \in ghost.active \ ghost.removed :
         s \in registry /\ (meta[s].app = 1 => s \in appKeys)

\* When no change is between its save and its revocation, sessions of before
\* the upgrade have been revoked too, unless a revocation died or waited in vain for the lock.
RevokedInTheEnd ==
  failures + stalls + ghost.missed = 0 /\ (\A p \in Procs : proc[p].pc \notin {"revoke", "forget", "keys", "commit"})
    => \A s \in Sessions : Accepts(s) => meta[s].version = ghost.version

\* A login code is used once.
CodeUsedOnce == stalls = 0 => \A c \in Codes : ghost.uses[c] <= 1

-----------------------------------------------------------------------------
(* A process runs on, and a lock expires whoever owned it. *)
Fairness ==
  /\ \A p \in Procs : SF_vars(Finish(p))
  /\ WF_vars(LockExpires)
  /\ \A c \in Codes : WF_vars(CodeLockExpires(c))

FairSpec == Spec /\ Fairness

\* A process that died with the registry's lock does not keep the others out:
\* every change of a security field is followed by its revocation, every
\* login by its registration, or the process dies.
HandlersEnd == \A p \in Procs : proc[p].pc \notin {"idle", "edit"} ~> proc[p].pc = "idle"
=============================================================================
