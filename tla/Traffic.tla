------------------------------ MODULE Traffic ------------------------------
(***************************************************************************)
(* How the traffic nodes report becomes usage of a user.  A node's push    *)
(* queues a TrafficFetchJob, which adds each user's upload and then his    *)
(* download to two Redis hashes.  Every minute traffic:update copies and   *)
(* deletes the hashes, one command after the other, reads the users that   *)
(* have a download entry and writes the sums back in one UPDATE.           *)
(* reset:traffic sets usage to zero under traffic_reset_lock, which keeps  *)
(* traffic:update from starting; opening an order, starting a new period   *)
(* and redeeming a card set it to zero without that lock.                  *)
(***************************************************************************)
EXTENDS Integers, FiniteSets

CONSTANTS
  Users,
  Reports,      \* bound: the pushes of the nodes, finitely many
  Loads,        \* what a push may say: [S -> [u, d]] for a set S of users
  Tries,        \* TrafficFetchJob::$tries
  MaxFailures,  \* bound: jobs and commands that die, UPDATEs that fail
  MaxResets,    \* bound: resets of usage
  NoUser

VARIABLES
  job,       \* the TrafficFetchJob of each push
  hash,      \* v2board_upload_traffic, v2board_download_traffic, keys of the latter
  row,       \* u and d of v2_user
  flush,     \* the running traffic:update: there is one, withoutOverlapping
  reset,     \* reset:traffic
  lock,      \* traffic_reset_lock
  resets, failures,
  ghost      \* history: traffic reported, counted into the hashes and erased by
             \* resets, per user; gap: users whose traffic a known window lost

vars == <<job, hash, row, flush, reset, lock, resets, failures, ghost>>

Usage == [u: Nat, d: Nat]
None  == [u |-> 0, d |-> 0]
Zero  == [x \in Users |-> 0]

ASSUME TrafficAssumption ==
  /\ Tries \in Nat \ {0} /\ MaxFailures \in Nat /\ MaxResets \in Nat
  /\ NoUser \notin Users /\ IsFiniteSet(Reports)
  /\ \A load \in Loads : DOMAIN load \subseteq Users /\ load \in [DOMAIN load -> Usage]

JobRow ==
  [state: {"none", "queued", "running", "done", "failed"},
   load: Loads \cup {<<>>}, todo: SUBSET Users, half: Users \cup {NoUser},
   tries: 0..Tries]

NoJob == [state |-> "none", load |-> <<>>, todo |-> {}, half |-> NoUser, tries |-> 0]

FlushState ==
  [pc: {"idle", "uploads", "delUp", "downloads", "delDown", "users", "update", "dead"},
   up: [Users -> Nat], down: [Users -> Nat], keys: SUBSET Users,
   copy: [Users -> Usage]]

HashState == [up: [Users -> Nat], down: [Users -> Nat], keys: SUBSET Users]

History == [reported: [Users -> Usage], counted: [Users -> Usage],
            erased: [Users -> Usage], gap: SUBSET Users]

Resting == [pc |-> "idle", up |-> Zero, down |-> Zero, keys |-> {},
            copy |-> [x \in Users |-> None]]

TypeOK ==
  /\ job \in [Reports -> JobRow]
  /\ hash \in HashState
  /\ row \in [Users -> Usage]
  /\ flush \in FlushState
  /\ reset \in {"idle", "running"} /\ lock \in {"free", "held"}
  /\ resets \in 0..MaxResets /\ failures \in 0..MaxFailures
  /\ ghost \in History

Init ==
  /\ job = [r \in Reports |-> NoJob]
  /\ hash = [up |-> Zero, down |-> Zero, keys |-> {}]
  /\ row = [x \in Users |-> None]
  /\ flush = Resting
  /\ reset = "idle" /\ lock = "free"
  /\ resets = 0 /\ failures = 0
  /\ ghost = [reported |-> [x \in Users |-> None], counted |-> [x \in Users |-> None],
              erased |-> [x \in Users |-> None], gap |-> {}]

Fail == failures < MaxFailures /\ failures' = failures + 1

-----------------------------------------------------------------------------
(* Nodes and TrafficFetchJob *)

Push(r, load) ==
  /\ job[r].state = "none"
  /\ job' = [job EXCEPT ![r] = [state |-> "queued", load |-> load, todo |-> {},
                                   half |-> NoUser, tries |-> 0]]
  /\ ghost' = [ghost EXCEPT !.reported = [x \in Users |->
       IF x \in DOMAIN load
       THEN [u |-> ghost.reported[x].u + load[x].u, d |-> ghost.reported[x].d + load[x].d]
       ELSE ghost.reported[x]]]
  /\ UNCHANGED <<hash, row, flush, reset, lock, resets, failures>>

\* A try starts with the first user of the report, whatever an earlier one did.
FetchStart(r) ==
  /\ job[r].state = "queued"
  /\ job' = [job EXCEPT ![r] = [state |-> "running", load |-> job[r].load,
                                   todo |-> DOMAIN job[r].load, half |-> NoUser,
                                   tries |-> job[r].tries + 1]]
  /\ UNCHANGED <<hash, row, flush, reset, lock, resets, failures, ghost>>

\* HINCRBY of the upload.  An increment that falls between HGETALL and DEL
\* of traffic:update is deleted uncounted.
FetchUp(r, x) ==
  LET n == job[r].load[x].u
  IN  /\ job[r].state = "running"
      /\ job[r].half = NoUser /\ x \in job[r].todo
      /\ hash' = [hash EXCEPT !.up[x] = @ + n]
      /\ job' = [job EXCEPT ![r] = [job[r] EXCEPT !.half = x]]
      /\ ghost' = [ghost EXCEPT !.counted[x].u = @ + n,
                                !.gap = IF flush.pc = "delUp" /\ n > 0 THEN @ \cup {x} ELSE @]
      /\ UNCHANGED <<row, flush, reset, lock, resets, failures>>

\* HINCRBY of the download, which creates the entry even when it adds 0.
FetchDown(r) ==
  LET x == job[r].half
      n == job[r].load[x].d
  IN  /\ job[r].state = "running" /\ x # NoUser
      /\ hash' = [hash EXCEPT !.down[x] = @ + n, !.keys = @ \cup {x}]
      /\ job' = [job EXCEPT ![r] = [job[r] EXCEPT !.half = NoUser, !.todo = job[r].todo \ {x}]]
      /\ ghost' = [ghost EXCEPT !.counted[x].d = @ + n,
                                !.gap = IF flush.pc = "delDown" /\ n > 0 THEN @ \cup {x} ELSE @]
      /\ UNCHANGED <<row, flush, reset, lock, resets, failures>>

\* A reservation shorter than the job: another worker is given it again.
FetchDone_Bug(r) ==
  /\ job[r].state = "running" /\ job[r].todo = {}
  /\ job' = [job EXCEPT ![r] = [job[r] EXCEPT
                !.state = IF job[r].tries < Tries THEN "queued" ELSE "done"]]
  /\ UNCHANGED <<hash, row, flush, reset, lock, resets, failures, ghost>>

FetchDone(r) ==
  /\ job[r].state = "running" /\ job[r].todo = {}
  /\ job' = [job EXCEPT ![r] = [job[r] EXCEPT !.state = "done"]]
  /\ UNCHANGED <<hash, row, flush, reset, lock, resets, failures, ghost>>

\* The worker is killed, or Redis fails or refuses a fraction (the rate is a
\* decimal): the job is tried again from the start.
FetchDie(r) ==
  /\ job[r].state = "running"
  /\ job' = [job EXCEPT ![r] = [job[r] EXCEPT
                !.state = IF job[r].tries < Tries THEN "queued" ELSE "failed"]]
  /\ Fail
  /\ UNCHANGED <<hash, row, flush, reset, lock, resets, ghost>>

-----------------------------------------------------------------------------
(* traffic:update *)

\* A reset that begins after this look is not noticed.
FlushStart ==
  /\ flush.pc = "idle"
  /\ lock = "free"
  /\ flush' = [flush EXCEPT !.pc = "uploads"]
  /\ UNCHANGED <<job, hash, row, reset, lock, resets, failures, ghost>>

FlushUploads ==
  /\ flush.pc = "uploads"
  /\ flush' = [flush EXCEPT !.pc = "delUp", !.up = hash.up]
  /\ UNCHANGED <<job, hash, row, reset, lock, resets, failures, ghost>>

FlushDelUp_Bug ==
  /\ flush.pc = "delUp"
  /\ flush' = [flush EXCEPT !.pc = "downloads"]
  /\ UNCHANGED <<job, hash, row, reset, lock, resets, failures, ghost>>

FlushDelUp ==
  /\ flush.pc = "delUp"
  /\ hash' = [hash EXCEPT !.up = Zero]
  /\ flush' = [flush EXCEPT !.pc = "downloads"]
  /\ UNCHANGED <<job, row, reset, lock, resets, failures, ghost>>

FlushDownloads ==
  /\ flush.pc = "downloads"
  /\ flush' = [flush EXCEPT !.pc = "delDown", !.down = hash.down, !.keys = hash.keys]
  /\ UNCHANGED <<job, hash, row, reset, lock, resets, failures, ghost>>

FlushDelDown ==
  /\ flush.pc = "delDown"
  /\ hash' = [hash EXCEPT !.down = Zero, !.keys = {}]
  /\ flush' = [flush EXCEPT !.pc = "users"]
  /\ UNCHANGED <<job, row, reset, lock, resets, failures, ghost>>

\* Only users with a download entry are read; the upload of the others is
\* dropped.  With no entry at all the command returns, or its UPDATE of
\* nobody is a syntax error it catches.
FlushUsers ==
  /\ flush.pc = "users"
  /\ flush' = IF flush.keys = {} THEN Resting
              ELSE [flush EXCEPT !.pc = "update", !.copy = row]
  /\ ghost' = [ghost EXCEPT !.gap = @ \cup {x \in Users \ flush.keys : flush.up[x] > 0}]
  /\ UNCHANGED <<job, hash, row, reset, lock, resets, failures>>

\* What traffic:update has taken out of a hash and not written yet.
TakenUp(x) == IF flush.pc \in {"downloads", "delDown", "users", "update"} THEN flush.up[x] ELSE 0
TakenDown(x) == IF flush.pc \in {"users", "update"} THEN flush.down[x] ELSE 0

\* Users who lose traffic when traffic:update ends here.
Forfeit == {x \in Users : TakenUp(x) > 0 \/ TakenDown(x) > 0}

FlushUpdate_HalfBug ==
  /\ flush.pc = "update"
  /\ row' = [x \in Users |-> IF x \in flush.keys
               THEN [flush.copy[x] EXCEPT !.u = @ + flush.up[x]] ELSE row[x]]
  /\ flush' = Resting
  /\ UNCHANGED <<job, hash, reset, lock, resets, failures, ghost>>

FlushUpdate ==
  /\ flush.pc = "update"
  /\ row' = [x \in Users |->
       IF x \in flush.keys
       THEN [u |-> flush.copy[x].u + flush.up[x], d |-> flush.copy[x].d + flush.down[x]]
       ELSE row[x]]
  /\ flush' = Resting
  /\ UNCHANGED <<job, hash, reset, lock, resets, failures, ghost>>

\* The UPDATE fails, the exception is logged and the command ends.
FlushFail ==
  /\ flush.pc = "update"
  /\ flush' = Resting
  /\ ghost' = [ghost EXCEPT !.gap = @ \cup Forfeit]
  /\ Fail
  /\ UNCHANGED <<job, hash, row, reset, lock, resets>>

\* A killed command leaves the overlap mutex behind, for a day at most.
FlushDie ==
  /\ flush.pc \notin {"idle", "dead"}
  /\ flush' = [flush EXCEPT !.pc = "dead"]
  /\ ghost' = [ghost EXCEPT !.gap = @ \cup Forfeit]
  /\ Fail
  /\ UNCHANGED <<job, hash, row, reset, lock, resets>>

MutexExpires ==
  /\ flush.pc = "dead"
  /\ flush' = Resting
  /\ UNCHANGED <<job, hash, row, reset, lock, resets, failures, ghost>>

-----------------------------------------------------------------------------
(* Resets *)

\* The users of S start again from zero.  A traffic:update that has already
\* read them writes their old usage back.
Erase(S) ==
  /\ resets < MaxResets /\ resets' = resets + 1
  /\ row' = [x \in Users |-> IF x \in S THEN None ELSE row[x]]
  /\ ghost' = [ghost EXCEPT
       !.erased = [x \in Users |-> IF x \in S
          THEN [u |-> ghost.erased[x].u + row[x].u, d |-> ghost.erased[x].d + row[x].d]
          ELSE ghost.erased[x]],
       !.gap = IF flush.pc = "update" THEN @ \cup S ELSE @]
  /\ UNCHANGED <<job, hash, flush, failures>>

ResetStart ==
  /\ reset = "idle"
  /\ reset' = "running" /\ lock' = "held"
  /\ UNCHANGED <<job, hash, row, flush, resets, failures, ghost>>

ResetWrite(S) ==
  /\ reset = "running"
  /\ Erase(S)
  /\ UNCHANGED <<reset, lock>>

ResetEnd ==
  /\ reset = "running"
  /\ reset' = "idle" /\ lock' = "free"
  /\ UNCHANGED <<job, hash, row, flush, resets, failures, ghost>>

\* A transaction that keeps failing ends the command before it deletes its lock.
ResetAbort ==
  /\ reset = "running"
  /\ reset' = "idle"
  /\ Fail
  /\ UNCHANGED <<job, hash, row, flush, lock, resets, ghost>>

\* SET where SETEX is meant.
LockExpires_Bug ==
  /\ lock = "held" /\ reset = "running"
  /\ lock' = "free"
  /\ UNCHANGED <<job, hash, row, flush, reset, resets, failures, ghost>>

\* 300 seconds after it was set, whether the command has ended or not.
LockExpires ==
  /\ lock = "held"
  /\ lock' = "free"
  /\ UNCHANGED <<job, hash, row, flush, reset, resets, failures, ghost>>

\* open(), newPeriod() and the gift cards reset one user.
ResetUser(x) ==
  /\ Erase({x})
  /\ UNCHANGED <<reset, lock>>

-----------------------------------------------------------------------------
Fetch(r) ==
  \/ FetchStart(r) \/ FetchDown(r) \/ FetchDone(r)
  \/ \E x \in Users : FetchUp(r, x)

Flush ==
  \/ FlushUploads \/ FlushDelUp \/ FlushDownloads \/ FlushDelDown
  \/ FlushUsers \/ FlushUpdate \/ MutexExpires

Next ==
  \/ \E r \in Reports, load \in Loads : Push(r, load)
  \/ \E r \in Reports : Fetch(r) \/ FetchDie(r)
  \/ FlushStart \/ Flush \/ FlushFail \/ FlushDie
  \/ ResetStart \/ ResetEnd \/ ResetAbort \/ LockExpires
  \/ \E S \in SUBSET Users : ResetWrite(S)
  \/ \E x \in Users : ResetUser(x)

Spec == Init /\ [][Next]_vars

-----------------------------------------------------------------------------
(* Properties *)

\* A user's usage never exceeds what the jobs counted for him, whatever order
\* jobs, updates, failures and resets come in: traffic:update moves an
\* increment once.
NotOvercharged ==
  \A x \in Users :
    /\ row[x].u + TakenUp(x) + hash.up[x] <= ghost.counted[x].u
    /\ row[x].d + TakenDown(x) + hash.down[x] <= ghost.counted[x].d

\* TrafficFetchJob counts a report twice only when one of its tries died.
CountedOnce ==
  failures = 0 =>
    \A x \in Users : /\ ghost.counted[x].u <= ghost.reported[x].u
                     /\ ghost.counted[x].d <= ghost.reported[x].d

\* traffic:update loses a user's traffic, or undoes his reset, only in the
\* windows marked above; for everyone else the hashes, what is being moved,
\* the usage and what was reset add up to what was counted.
Accounted ==
  \A x \in Users \ ghost.gap :
    /\ row[x].u + TakenUp(x) + hash.up[x] + ghost.erased[x].u = ghost.counted[x].u
    /\ row[x].d + TakenDown(x) + hash.down[x] + ghost.erased[x].d = ghost.counted[x].d

\* Outside a reset, usage only grows: an update never loses what an earlier
\* one wrote.
UsageGrows ==
  [][\A x \in Users : \/ row'[x] = None
                      \/ row'[x].u >= row[x].u /\ row'[x].d >= row[x].d]_vars

-----------------------------------------------------------------------------
(* The scheduler starts traffic:update every minute, workers run the queue,
   keys and mutexes expire. *)
Fairness ==
  /\ \A r \in Reports : WF_vars(Fetch(r))
  /\ SF_vars(FlushStart) /\ WF_vars(Flush)
  /\ WF_vars(LockExpires)

FairSpec == Spec /\ Fairness

\* Traffic that reached the hashes leaves them, even after an update that
\* was killed or a reset that failed and kept its lock; and what was reported for a
\* user in whose way no window fell is charged or reset in the end.
ReportedIsCharged ==
  \A x \in Users :
    /\ x \in hash.keys ~> x \notin hash.keys
    /\ <>[](\/ x \in ghost.gap
            \/ failures > 0
            \/ /\ row[x].u + ghost.erased[x].u = ghost.reported[x].u
               /\ row[x].d + ghost.erased[x].d = ghost.reported[x].d)
=============================================================================
