----------------------------- MODULE Statistics -----------------------------
(***************************************************************************)
(* The statistics of one day: every report of a node queues a StatUserJob, *)
(* which adds to a row per user, and a StatServerJob, which adds to the    *)
(* row of the node.  The server job locks its row; the user job looks for  *)
(* rows before its transaction, reads them without a lock, and inserts     *)
(* those it did not find with an upsert that replaces what is there.       *)
(*                                                                         *)
(* Upload and download are treated alike, so one amount stands for both.   *)
(* A transaction is seen when it commits.                                  *)
(***************************************************************************)
EXTENDS Integers, FiniteSets, Functions

CONSTANTS
  Reports,      \* finitely many
  Users,
  Named,        \* the users a report names
  Load,         \* what it says of them, which may be 0; 0 for the others
  Tries,        \* runs of a job the queue allows
  Attempts,     \* runs of its transaction after deadlocks
  MaxFailures,  \* bound: deadlocks and deaths
  Nobody

VARIABLES
  userRow, serverRow,  \* v2_stat_user and v2_stat_server, today's rows
  lock,                \* holder of the lock of the server's row
  userJob, serverJob,  \* the jobs of each report
  failures,
  history   \* userCount, serverCount: commits for each report; again: reports
            \* a job of which died between commit and acknowledgement; raced:
            \* users whose row was written from an outdated copy

vars == <<userRow, serverRow, lock, userJob, serverJob, failures, history>>

Row == [there: BOOLEAN, sum: Nat]

\* known: users whose rows a user job found; copy: what it read in them; base:
\* what a server job read.
Job == [at: {"absent", "queued", "listed", "copied", "written", "done", "failed"},
        tries: 0..Tries, attempt: 0..Attempts, known: SUBSET Users, copy: [Users -> Nat],
        base: Nat]

Total(r) == SumFunctionOnSet(Load[r], Users)

ASSUME StatisticsAssumption ==
  /\ IsFiniteSet(Users) /\ IsFiniteSet(Reports)
  /\ Load \in [Reports -> [Users -> Nat]] /\ Nobody \notin Reports
  /\ Named \in [Reports -> SUBSET Users]
  /\ \A r \in Reports : \A u \in Users \ Named[r] : Load[r][u] = 0
  /\ Tries \in Nat \ {0} /\ Attempts \in Nat \ {0} /\ MaxFailures \in Nat

NoRow  == [there |-> FALSE, sum |-> 0]
Absent == [at |-> "absent", tries |-> 0, attempt |-> 0, known |-> {},
           copy |-> [u \in Users |-> 0], base |-> 0]

TypeOK ==
  /\ userRow \in [Users -> Row] /\ serverRow \in Row
  /\ lock \in Reports \cup {Nobody}
  /\ userJob \in [Reports -> Job] /\ serverJob \in [Reports -> Job]
  /\ failures \in 0..MaxFailures
  /\ history \in [userCount: [Reports -> Nat], serverCount: [Reports -> Nat],
                  again: SUBSET Reports, raced: SUBSET Users]

Init ==
  /\ userRow = [u \in Users |-> NoRow] /\ serverRow = NoRow
  /\ lock = Nobody
  /\ userJob = [r \in Reports |-> Absent] /\ serverJob = [r \in Reports |-> Absent]
  /\ failures = 0
  /\ history = [userCount |-> [r \in Reports |-> 0], serverCount |-> [r \in Reports |-> 0],
                again |-> {}, raced |-> {}]

Queued == [Absent EXCEPT !.at = "queued"]
Fail   == failures < MaxFailures /\ failures' = failures + 1

\* A worker takes the job; an exception or a death gives it back to the queue,
\* until it has had its tries.
Taken(job) == [job EXCEPT !.tries = @ + 1, !.attempt = 0]

Thrown(job) == IF job.tries < Tries THEN [Queued EXCEPT !.tries = job.tries]
               ELSE [Absent EXCEPT !.at = "failed"]

-----------------------------------------------------------------------------
(* The report *)

\* UserService::trafficFetch()
Report(r) ==
  /\ userJob[r].at = "absent" /\ serverJob[r].at = "absent"
  /\ userJob' = [userJob EXCEPT ![r] = Queued]
  /\ serverJob' = [serverJob EXCEPT ![r] = Queued]
  /\ UNCHANGED <<userRow, serverRow, lock, failures, history>>

\* The request dies between the two.
HalfReport(r) ==
  /\ userJob[r].at = "absent" /\ serverJob[r].at = "absent"
  /\ Fail
  /\ userJob' = [userJob EXCEPT ![r] = Queued]
  /\ serverJob' = [serverJob EXCEPT ![r].at = "failed"]
  /\ UNCHANGED <<userRow, serverRow, lock, history>>

-----------------------------------------------------------------------------
(* StatUserJob *)

UserList(r) ==
  /\ userJob[r].at = "queued"
  /\ userJob' = [userJob EXCEPT ![r] =
       [Taken(@) EXCEPT !.at = "listed", !.known = {u \in Named[r] : userRow[u].there}]]
  /\ UNCHANGED <<userRow, serverRow, lock, serverJob, failures, history>>

\* The snapshot of the transaction.
UserCopy(r) ==
  /\ userJob[r].at = "listed"
  /\ userJob' = [userJob EXCEPT ![r].at = "copied",
       ![r].copy = [u \in Users |-> IF u \in userJob[r].known THEN userRow[u].sum ELSE 0]]
  /\ UNCHANGED <<userRow, serverRow, lock, serverJob, failures, history>>

\* Every row is replaced by what the report says.
Written_Bug(r, u) == Load[r][u]

\* A row that was not found is taken to be empty.
Written(r, u) == userJob[r].copy[u] + Load[r][u]

\* An update to the value that was read is not sent; an insertion always is.
Sent(r) == {u \in Named[r] : Load[r][u] > 0 \/ u \notin userJob[r].known}

UserCommit(r) ==
  /\ userJob[r].at = "copied"
  /\ userRow' = [u \in Users |->
       IF u \in Sent(r) THEN [there |-> TRUE, sum |-> Written(r, u)] ELSE userRow[u]]
  /\ userJob' = [userJob EXCEPT ![r].at = "written"]
  /\ history' = [history EXCEPT !.userCount[r] = @ + 1,
       !.raced = @ \cup {u \in Sent(r) : userJob[r].copy[u] # userRow[u].sum}]
  /\ UNCHANGED <<serverRow, lock, serverJob, failures>>

\* The rows that are known are not looked for again.
UserDeadlock(r) ==
  LET job == userJob[r]
  IN  /\ job.at = "copied"
      /\ Fail
      /\ userJob' = [userJob EXCEPT ![r] =
           IF job.attempt + 1 < Attempts
           THEN [job EXCEPT !.at = "listed", !.attempt = @ + 1] ELSE Thrown(job)]
      /\ UNCHANGED <<userRow, serverRow, lock, serverJob, history>>

\* The job is left in the queue when it ends.
UserEnd_Bug(r) ==
  /\ userJob[r].at = "written"
  /\ userJob' = [userJob EXCEPT ![r] = Thrown(@)]
  /\ UNCHANGED <<userRow, serverRow, lock, serverJob, failures, history>>

UserEnd(r) ==
  /\ userJob[r].at = "written"
  /\ userJob' = [userJob EXCEPT ![r] = [Absent EXCEPT !.at = "done"]]
  /\ UNCHANGED <<userRow, serverRow, lock, serverJob, failures, history>>

Running(job) == job.at \in {"listed", "copied", "written"}

Again(r, job) == IF job.at = "written" THEN history.again \cup {r} ELSE history.again

UserDie(r) ==
  /\ Running(userJob[r])
  /\ Fail
  /\ userJob' = [userJob EXCEPT ![r] = Thrown(@)]
  /\ history' = [history EXCEPT !.again = Again(r, userJob[r])]
  /\ UNCHANGED <<userRow, serverRow, lock, serverJob>>

-----------------------------------------------------------------------------
(* StatServerJob *)

\* Row and gap are read without a lock.
ServerBegin_Bug(r) ==
  /\ serverJob[r].at = "queued"
  /\ serverJob' = [serverJob EXCEPT ![r] =
       [Taken(@) EXCEPT !.at = IF serverRow.there THEN "copied" ELSE "listed",
                        !.base = serverRow.sum]]
  /\ UNCHANGED <<userRow, serverRow, lock, userJob, failures, history>>

\* lockForUpdate() locks the row, or the gap where it would be, which any
\* number of transactions can lock.
ServerBegin(r) ==
  /\ serverJob[r].at = "queued"
  /\ IF serverRow.there
     THEN lock = Nobody /\ lock' = r
     ELSE lock' = lock
  /\ serverJob' = [serverJob EXCEPT ![r] =
       [Taken(@) EXCEPT !.at = IF serverRow.there THEN "copied" ELSE "listed",
                        !.base = serverRow.sum]]
  /\ UNCHANGED <<userRow, serverRow, userJob, failures, history>>

Unlocked(r) == IF lock = r THEN Nobody ELSE lock

Counted(r, sum) ==
  /\ serverRow' = [there |-> TRUE, sum |-> sum]
  /\ serverJob' = [serverJob EXCEPT ![r].at = "written"]
  /\ lock' = Unlocked(r)
  /\ history' = [history EXCEPT !.serverCount[r] = @ + 1]
  /\ UNCHANGED <<userRow, userJob, failures>>

ServerUpdate(r) ==
  /\ serverJob[r].at = "copied"
  /\ Counted(r, serverJob[r].base + Total(r))

\* An insertion waits for the other locks of the gap.
ServerCreate(r) ==
  /\ serverJob[r].at = "listed"
  /\ ~serverRow.there
  /\ \A q \in Reports \ {r} : serverJob[q].at # "listed"
  /\ Counted(r, Total(r))

\* Two that wait for each other: InnoDB ends one, and the job is tried again.
ServerDeadlock(r) ==
  /\ serverJob[r].at = "listed"
  /\ \E q \in Reports \ {r} : serverJob[q].at = "listed"
  /\ serverJob' = [serverJob EXCEPT ![r] = Thrown(@)]
  /\ UNCHANGED <<userRow, serverRow, lock, userJob, failures, history>>

ServerEnd(r) ==
  /\ serverJob[r].at = "written"
  /\ serverJob' = [serverJob EXCEPT ![r] = [Absent EXCEPT !.at = "done"]]
  /\ UNCHANGED <<userRow, serverRow, lock, userJob, failures, history>>

\* The lock outlives the connection.
ServerDie_Bug(r) ==
  /\ Running(serverJob[r])
  /\ Fail
  /\ serverJob' = [serverJob EXCEPT ![r] = Thrown(@)]
  /\ history' = [history EXCEPT !.again = Again(r, serverJob[r])]
  /\ UNCHANGED <<userRow, serverRow, lock, userJob>>

ServerDie(r) ==
  /\ Running(serverJob[r])
  /\ Fail
  /\ serverJob' = [serverJob EXCEPT ![r] = Thrown(@)]
  /\ lock' = Unlocked(r)
  /\ history' = [history EXCEPT !.again = Again(r, serverJob[r])]
  /\ UNCHANGED <<userRow, serverRow, userJob>>

-----------------------------------------------------------------------------
UserStep(r)   == UserList(r) \/ UserCopy(r) \/ UserCommit(r) \/ UserEnd(r)
ServerStep(r) == \/ ServerBegin(r) \/ ServerUpdate(r) \/ ServerCreate(r)
                 \/ ServerDeadlock(r) \/ ServerEnd(r)

Next == \E r \in Reports :
  \/ Report(r) \/ HalfReport(r)
  \/ UserStep(r) \/ UserDeadlock(r) \/ UserDie(r)
  \/ ServerStep(r) \/ ServerDie(r)

\* The workers go on, and a job that is given back is taken again.
Fairness == \A r \in Reports : WF_vars(UserStep(r)) /\ SF_vars(ServerStep(r))

Spec == Init /\ [][Next]_vars /\ Fairness

-----------------------------------------------------------------------------
(* Properties *)

Committed(count, amount) == SumFunctionOnSet([r \in Reports |-> count[r] * amount[r]], Reports)

\* The row of the node is the sum of what its jobs committed, in every order of
\* the jobs and also when the first of the day compete to create it.
ServerAccounted ==
  serverRow.sum = Committed(history.serverCount, [r \in Reports |-> Total(r)])

\* The row of a user never says more than was reported, and it says all of it
\* unless two jobs overlapped: the one with the older copy wins.
UserAccounted ==
  \A u \in Users :
    LET all == Committed(history.userCount, [r \in Reports |-> Load[r][u]])
    IN  userRow[u].sum <= all /\ (u \notin history.raced => userRow[u].sum = all)

\* A report is counted once by each job, though jobs are tried again, unless one
\* died between its commit and the end of the job.
CountedOnce ==
  \A r \in Reports \ history.again : history.userCount[r] <= 1 /\ history.serverCount[r] <= 1

\* Every job that was queued comes to an end.
JobsEnd ==
  \A r \in Reports :
    /\ userJob[r].at = "queued" ~> userJob[r].at \in {"done", "failed"}
    /\ serverJob[r].at = "queued" ~> serverJob[r].at \in {"done", "failed"}
=============================================================================
