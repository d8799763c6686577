--------------------------- MODULE StatisticsProofs ---------------------------
(***************************************************************************)
(* Proofs about Statistics, for any reports, users and amounts and any     *)
(* number of tries, attempts and failures.                                 *)
(***************************************************************************)
EXTENDS Statistics, SumTheorems, TLAPS

\* A job that waits has a try left.
Waiting ==
  \A r \in Reports : /\ userJob[r].at = "queued" => userJob[r].tries < Tries
                     /\ serverJob[r].at = "queued" => serverJob[r].tries < Tries

\* A report's traffic is a number.
LEMMA TotalType == \A r \in Reports : Total(r) \in Nat
<1> TAKE r \in Reports
<1>1. IsFiniteSet(Users) /\ \A u \in Users : Load[r][u] \in Nat
  BY StatisticsAssumption
<1> QED  BY <1>1, SumType DEF Total

-----------------------------------------------------------------------------
(* The states of jobs *)

LEMMA AbsentTyped ==
  /\ Absent \in Job /\ Absent.at = "absent"
  /\ Queued \in Job /\ Queued.at = "queued" /\ Queued.tries = 0
  BY StatisticsAssumption DEF Absent, Queued, Job

LEMMA ThrownTyped ==
  ASSUME NEW job \in Job
  PROVE  /\ Thrown(job) \in Job
         /\ Thrown(job).at \in {"queued", "failed"}
         /\ Thrown(job).at = "queued" => Thrown(job).tries < Tries
<1>1. CASE job.tries < Tries
  <2>1. [Queued EXCEPT !.tries = job.tries] \in Job
    BY AbsentTyped DEF Job
  <2>2. /\ [Queued EXCEPT !.tries = job.tries].at = "queued"
        /\ [Queued EXCEPT !.tries = job.tries].tries = job.tries
    BY AbsentTyped DEF Job
  <2> QED  BY <1>1, <2>1, <2>2 DEF Thrown
<1>2. CASE ~(job.tries < Tries)
  <2>1. /\ [Absent EXCEPT !.at = "failed"] \in Job
        /\ [Absent EXCEPT !.at = "failed"].at = "failed"
    BY AbsentTyped DEF Job
  <2> QED  BY <1>2, <2>1 DEF Thrown
<1> QED  BY <1>1, <1>2

LEMMA TakenTyped ==
  ASSUME NEW job \in Job, job.tries < Tries
  PROVE  Taken(job) \in Job /\ Taken(job).known = job.known
<1>1. PICK n \in 0..Tries : n = job.tries + 1
  BY StatisticsAssumption DEF Job
<1>2. 0 \in 0..Attempts
  BY StatisticsAssumption
<1>3. Taken(job) = [job EXCEPT !.tries = n, !.attempt = 0]
  BY <1>1 DEF Taken
<1> QED  BY <1>2, <1>3 DEF Job

-----------------------------------------------------------------------------
(* The invariants *)

\* What counted a report has ended, or is about to.
Ended == {"written", "done"}

Once ==
  \A r \in Reports \ history.again :
    /\ history.userCount[r] = 0 \/ (history.userCount[r] = 1 /\ userJob[r].at \in Ended)
    /\ history.serverCount[r] = 0 \/ (history.serverCount[r] = 1 /\ serverJob[r].at \in Ended)

\* Who read the row of the node holds its lock, and the row is as he read it.
Held ==
  \A r \in Reports : serverJob[r].at = "copied" =>
    lock = r /\ serverRow.there /\ serverJob[r].base = serverRow.sum

\* The row is empty until it is there.
Empty == ~serverRow.there => serverRow.sum = 0

Inv == TypeOK /\ Waiting /\ Once /\ Held /\ Empty

LEMMA Initially == Init => Inv
<1> SUFFICES ASSUME Init PROVE Inv
  OBVIOUS
<1>1. NoRow \in Row /\ ~NoRow.there /\ NoRow.sum = 0
  BY DEF NoRow, Row
<1>2. TypeOK
  BY <1>1, AbsentTyped, StatisticsAssumption DEF Init, TypeOK
<1>3. Waiting /\ Held
  BY AbsentTyped DEF Init, Waiting, Held
<1>4. Once
  BY DEF Init, Once
<1>5. Empty
  BY <1>1 DEF Init, Empty
<1> QED  BY <1>2, <1>3, <1>4, <1>5 DEF Inv

-----------------------------------------------------------------------------
(* Steps that count nothing *)

\* A step that gives a user job another state keeps the invariants, if one that
\* counted has not come back.
LEMMA UserMoves ==
  ASSUME Inv, NEW r \in Reports, NEW job \in Job,
         job.at = "queued" => job.tries < Tries,
         userJob[r].at \in Ended => job.at \in Ended \/ r \in history'.again,
         userJob' = [userJob EXCEPT ![r] = job],
         failures' \in 0..MaxFailures,
         history' \in [userCount: [Reports -> Nat], serverCount: [Reports -> Nat],
                       again: SUBSET Reports, raced: SUBSET Users],
         history'.userCount = history.userCount, history'.serverCount = history.serverCount,
         history.again \subseteq history'.again,
         UNCHANGED <<userRow, serverRow, lock, serverJob>>
  PROVE  Inv'
<1>1. TypeOK'
  BY DEF Inv, TypeOK
<1>2. \A q \in Reports : userJob'[q] = IF q = r THEN job ELSE userJob[q]
  BY DEF Inv, TypeOK
<1>3. Waiting'
  BY <1>2 DEF Inv, Waiting
<1>4. Once'
  BY <1>2 DEF Inv, Once, Ended
<1>5. Held' /\ Empty'
  BY DEF Inv, Held, Empty
<1> QED  BY <1>1, <1>3, <1>4, <1>5 DEF Inv

\* The same of a server job: it may take the lock while it is free, and give up
\* its own.
LEMMA ServerMoves ==
  ASSUME Inv, NEW r \in Reports, NEW job \in Job,
         job.at = "queued" => job.tries < Tries,
         serverJob[r].at \in Ended => job.at \in Ended \/ r \in history'.again,
         serverJob' = [serverJob EXCEPT ![r] = job],
         job.at = "copied" => lock' = r /\ serverRow.there /\ job.base = serverRow.sum,
         lock' = lock \/ (lock = Nobody /\ lock' = r) \/ (lock = r /\ lock' = Nobody),
         failures' \in 0..MaxFailures,
         history' \in [userCount: [Reports -> Nat], serverCount: [Reports -> Nat],
                       again: SUBSET Reports, raced: SUBSET Users],
         history'.userCount = history.userCount, history'.serverCount = history.serverCount,
         history.again \subseteq history'.again,
         UNCHANGED <<userRow, serverRow, userJob>>
  PROVE  Inv'
<1>1. TypeOK'
  BY DEF Inv, TypeOK
<1>2. \A q \in Reports : serverJob'[q] = IF q = r THEN job ELSE serverJob[q]
  BY DEF Inv, TypeOK
<1>3. Waiting'
  BY <1>2 DEF Inv, Waiting
<1>4. Once'
  BY <1>2 DEF Inv, Once, Ended
<1>5. ASSUME NEW q \in Reports, serverJob'[q].at = "copied"
      PROVE  lock' = q /\ serverRow'.there /\ serverJob'[q].base = serverRow'.sum
  <2>1. CASE q = r
    BY <1>2, <1>5, <2>1
  <2>2. CASE q # r
    <3>1. lock = q /\ serverRow.there /\ serverJob[q].base = serverRow.sum
      BY <1>2, <1>5, <2>2 DEF Inv, Held
    <3>2. lock' = lock
      BY <2>2, <3>1, StatisticsAssumption
    <3> QED  BY <1>2, <2>2, <3>1, <3>2
  <2> QED  BY <2>1, <2>2
<1>6. Held' /\ Empty'
  BY <1>5 DEF Inv, Held, Empty
<1> QED  BY <1>1, <1>3, <1>4, <1>6 DEF Inv

LEMMA FailTyped ==
  ASSUME TypeOK, Fail
  PROVE  failures' \in 0..MaxFailures
  BY StatisticsAssumption DEF TypeOK, Fail

LEMMA AgainTyped ==
  ASSUME TypeOK, NEW r \in Reports, NEW job \in Job
  PROVE  LET h == [history EXCEPT !.again = Again(r, job)]
         IN  /\ h \in [userCount: [Reports -> Nat], serverCount: [Reports -> Nat],
                       again: SUBSET Reports, raced: SUBSET Users]
             /\ h.userCount = history.userCount /\ h.serverCount = history.serverCount
             /\ history.again \subseteq h.again
             /\ job.at = "written" => r \in h.again
<1>1. /\ Again(r, job) \in SUBSET Reports /\ history.again \subseteq Again(r, job)
      /\ job.at = "written" => r \in Again(r, job)
  BY DEF TypeOK, Again
<1> QED  BY <1>1 DEF TypeOK

LEMMA Reported ==
  ASSUME Inv, NEW r \in Reports, Report(r) \/ HalfReport(r)
  PROVE  Inv'
<1>1. PICK job \in Job : /\ serverJob' = [serverJob EXCEPT ![r] = job]
                         /\ job.at \in {"queued", "failed"}
                         /\ job.at = "queued" => job.tries = 0
  <2>1. CASE Report(r)
    BY <2>1, AbsentTyped DEF Report
  <2>2. CASE HalfReport(r)
    <3>1. serverJob[r] \in Job
      BY DEF Inv, TypeOK
    <3>2. /\ [serverJob[r] EXCEPT !.at = "failed"] \in Job
          /\ [serverJob[r] EXCEPT !.at = "failed"].at = "failed"
      BY <3>1 DEF Job
    <3> QED  BY <2>2, <3>2 DEF HalfReport
  <2> QED  BY <2>1, <2>2
<1>2. /\ userJob' = [userJob EXCEPT ![r] = Queued]
      /\ userJob[r].at = "absent" /\ serverJob[r].at = "absent"
      /\ UNCHANGED <<userRow, serverRow, lock, history>>
  BY DEF Report, HalfReport
<1>3. failures' \in 0..MaxFailures
  BY FailTyped DEF Inv, TypeOK, Report, HalfReport
<1>4. TypeOK'
  BY <1>1, <1>2, <1>3, AbsentTyped DEF Inv, TypeOK
<1>5. \A q \in Reports : /\ userJob'[q] = IF q = r THEN Queued ELSE userJob[q]
                         /\ serverJob'[q] = IF q = r THEN job ELSE serverJob[q]
  BY <1>1, <1>2 DEF Inv, TypeOK
<1>6. 0 < Tries
  BY StatisticsAssumption
<1>7. Waiting'
  BY <1>1, <1>5, <1>6, AbsentTyped DEF Inv, Waiting
<1>8. Once'
  BY <1>2, <1>5 DEF Inv, Once, Ended
<1>9. Held' /\ Empty'
  BY <1>1, <1>2, <1>5 DEF Inv, Held, Empty
<1> QED  BY <1>4, <1>7, <1>8, <1>9 DEF Inv

LEMMA HistoryTyped ==
  ASSUME TypeOK
  PROVE  history \in [userCount: [Reports -> Nat], serverCount: [Reports -> Nat],
                      again: SUBSET Reports, raced: SUBSET Users]
  BY DEF TypeOK

LEMMA UserReads ==
  ASSUME Inv, NEW r \in Reports, UserList(r) \/ UserCopy(r)
  PROVE  Inv'
<1>0. TypeOK /\ userJob[r] \in Job /\ history' = history
  BY DEF Inv, TypeOK, UserList, UserCopy
<1>1. PICK job \in Job : userJob' = [userJob EXCEPT ![r] = job] /\ job.at \in {"listed", "copied"}
  <2>1. CASE UserList(r)
    <3> DEFINE known == {u \in Named[r] : userRow[u].there}
               job == [Taken(userJob[r]) EXCEPT !.at = "listed", !.known = known]
    <3>1. Taken(userJob[r]) \in Job
      BY <1>0, <2>1, TakenTyped DEF UserList, Inv, Waiting
    <3>2. known \in SUBSET Users
      BY StatisticsAssumption
    <3>3. job \in Job /\ job.at = "listed"
      <4> HIDE DEF known
      <4> QED  BY <3>1, <3>2 DEF Job
    <3>4. userJob' = [userJob EXCEPT ![r] = job]
      BY <2>1 DEF UserList
    <3> HIDE DEF job
    <3> QED  BY <3>3, <3>4
  <2>2. CASE UserCopy(r)
    <3> DEFINE copy == [u \in Users |-> IF u \in userJob[r].known THEN userRow[u].sum ELSE 0]
               job == [userJob[r] EXCEPT !.at = "copied", !.copy = copy]
    <3>1. copy \in [Users -> Nat]
      BY <1>0 DEF TypeOK, Row
    <3>2. job \in Job /\ job.at = "copied"
      <4> HIDE DEF copy
      <4> QED  BY <1>0, <3>1 DEF Job
    <3>3. userJob' = [userJob EXCEPT ![r] = job]
      <4> HIDE DEF copy
      <4>1. userJob' = [userJob EXCEPT ![r].at = "copied", ![r].copy = copy]
        BY <2>2 DEF UserCopy, copy
      <4> QED  BY <1>0, <4>1 DEF TypeOK, Job
    <3> HIDE DEF job
    <3> QED  BY <3>2, <3>3
  <2> QED  BY <2>1, <2>2
<1>2. UNCHANGED <<userRow, serverRow, lock, serverJob, failures, history>>
  BY DEF UserList, UserCopy
<1>3. userJob[r].at \notin Ended
  BY DEF UserList, UserCopy, Ended
<1>4. failures' \in 0..MaxFailures
  BY <1>0, <1>2 DEF TypeOK
<1> QED  BY <1>0, <1>1, <1>2, <1>3, <1>4, UserMoves, HistoryTyped

LEMMA UserDeadlocks ==
  ASSUME Inv, NEW r \in Reports, UserDeadlock(r)
  PROVE  Inv'
<1>0. TypeOK /\ userJob[r] \in Job /\ userJob[r].at = "copied"
  BY DEF Inv, TypeOK, UserDeadlock
<1>1. PICK job \in Job : /\ userJob' = [userJob EXCEPT ![r] = job]
                         /\ job.at = "queued" => job.tries < Tries
  <2>1. CASE userJob[r].attempt + 1 < Attempts
    <3>1. PICK n \in 0..Attempts : n = userJob[r].attempt + 1
      BY <1>0, <2>1, StatisticsAssumption DEF Job
    <3>2. userJob' = [userJob EXCEPT ![r] = [userJob[r] EXCEPT !.at = "listed", !.attempt = n]]
      BY <2>1, <3>1 DEF UserDeadlock
    <3>3. /\ [userJob[r] EXCEPT !.at = "listed", !.attempt = n] \in Job
          /\ [userJob[r] EXCEPT !.at = "listed", !.attempt = n].at = "listed"
      BY <1>0 DEF Job
    <3> QED  BY <3>2, <3>3
  <2>2. CASE ~(userJob[r].attempt + 1 < Attempts)
    <3>1. userJob' = [userJob EXCEPT ![r] = Thrown(userJob[r])]
      BY <2>2 DEF UserDeadlock
    <3> QED  BY <1>0, <3>1, ThrownTyped
  <2> QED  BY <2>1, <2>2
<1>2. UNCHANGED <<userRow, serverRow, lock, serverJob, history>>
  BY DEF UserDeadlock
<1>3. userJob[r].at \notin Ended
  BY <1>0 DEF Ended
<1>4. failures' \in 0..MaxFailures
  BY <1>0, FailTyped DEF UserDeadlock
<1>5. history' = history
  BY <1>2
<1> QED  BY <1>0, <1>1, <1>2, <1>3, <1>4, <1>5, UserMoves, HistoryTyped

LEMMA EndTyped ==
  [Absent EXCEPT !.at = "done"] \in Job /\ [Absent EXCEPT !.at = "done"].at = "done"
  BY AbsentTyped DEF Job

LEMMA UserEnds ==
  ASSUME Inv, NEW r \in Reports, UserEnd(r) \/ UserDie(r)
  PROVE  Inv'
<1>0. TypeOK /\ userJob[r] \in Job
  BY DEF Inv, TypeOK
<1>1. CASE UserEnd(r)
  <2>1. /\ userJob' = [userJob EXCEPT ![r] = [Absent EXCEPT !.at = "done"]]
        /\ UNCHANGED <<userRow, serverRow, lock, serverJob, failures, history>>
    BY <1>1 DEF UserEnd
  <2>2. failures' \in 0..MaxFailures /\ history' = history
    BY <1>0, <2>1 DEF TypeOK
  <2> QED  BY <1>0, <2>1, <2>2, EndTyped, UserMoves, HistoryTyped DEF Ended
<1>2. CASE UserDie(r)
  <2>1. /\ userJob' = [userJob EXCEPT ![r] = Thrown(userJob[r])]
        /\ userJob[r].at \in Ended => userJob[r].at = "written"
        /\ UNCHANGED <<userRow, serverRow, lock, serverJob>>
    BY <1>2 DEF UserDie, Running, Ended
  <2>2. failures' \in 0..MaxFailures
    BY <1>0, <1>2, FailTyped DEF UserDie
  <2>3. /\ history' \in [userCount: [Reports -> Nat], serverCount: [Reports -> Nat],
                         again: SUBSET Reports, raced: SUBSET Users]
        /\ history'.userCount = history.userCount /\ history'.serverCount = history.serverCount
        /\ history.again \subseteq history'.again
        /\ userJob[r].at = "written" => r \in history'.again
    BY <1>0, <1>2, AgainTyped DEF UserDie
  <2> QED  BY <1>0, <2>1, <2>2, <2>3, ThrownTyped, UserMoves
<1> QED  BY <1>1, <1>2

LEMMA ServerWaits ==
  ASSUME Inv, NEW r \in Reports, ServerBegin(r) \/ ServerDeadlock(r)
  PROVE  Inv'
<1>0. TypeOK /\ serverJob[r] \in Job /\ serverJob[r].at \notin Ended
  BY DEF Inv, TypeOK, ServerBegin, ServerDeadlock, Ended
<1>1. CASE ServerBegin(r)
  <2> DEFINE at  == IF serverRow.there THEN "copied" ELSE "listed"
             sum == serverRow.sum
             job == [Taken(serverJob[r]) EXCEPT !.at = at, !.base = sum]
  <2>1. Taken(serverJob[r]) \in Job
    BY <1>0, <1>1, TakenTyped DEF ServerBegin, Inv, Waiting
  <2>2. sum \in Nat /\ at \in {"copied", "listed"} /\ (at = "copied" => serverRow.there)
    BY <1>0 DEF TypeOK, Row
  <2>3. serverJob' = [serverJob EXCEPT ![r] = job]
    BY <1>1 DEF ServerBegin
  <2>4. job \in Job /\ job.at = at /\ job.base = sum
    <3> HIDE DEF at, sum
    <3> QED  BY <2>1, <2>2 DEF Job
  <2>5. job.at = "copied" => lock' = r /\ serverRow.there /\ job.base = serverRow.sum
    <3> HIDE DEF at, job
    <3> QED  BY <1>1, <2>2, <2>4 DEF ServerBegin
  <2>6. job.at # "queued"
    <3> HIDE DEF at, job
    <3> QED  BY <2>2, <2>4
  <2>7. /\ lock' = lock \/ (lock = Nobody /\ lock' = r)
        /\ UNCHANGED <<userRow, serverRow, userJob, failures, history>>
    BY <1>1 DEF ServerBegin
  <2>8. failures' \in 0..MaxFailures /\ history' = history
    BY <1>0, <2>7 DEF TypeOK
  <2> HIDE DEF job
  <2> QED  BY <1>0, <2>3, <2>4, <2>5, <2>6, <2>7, <2>8, ServerMoves, HistoryTyped
<1>2. CASE ServerDeadlock(r)
  <2>1. /\ serverJob' = [serverJob EXCEPT ![r] = Thrown(serverJob[r])]
        /\ UNCHANGED <<userRow, serverRow, lock, userJob, failures, history>>
    BY <1>2 DEF ServerDeadlock
  <2>2. failures' \in 0..MaxFailures /\ history' = history
    BY <1>0, <2>1 DEF TypeOK
  <2>3. Thrown(serverJob[r]).at # "copied"
    BY <1>0, ThrownTyped
  <2> QED  BY <1>0, <2>1, <2>2, <2>3, ThrownTyped, ServerMoves, HistoryTyped
<1> QED  BY <1>1, <1>2

LEMMA ServerEnds ==
  ASSUME Inv, NEW r \in Reports, ServerEnd(r) \/ ServerDie(r)
  PROVE  Inv'
<1>0. TypeOK /\ serverJob[r] \in Job
  BY DEF Inv, TypeOK
<1>1. CASE ServerEnd(r)
  <2>1. /\ serverJob' = [serverJob EXCEPT ![r] = [Absent EXCEPT !.at = "done"]]
        /\ UNCHANGED <<userRow, serverRow, lock, userJob, failures, history>>
    BY <1>1 DEF ServerEnd
  <2>2. failures' \in 0..MaxFailures /\ history' = history
    BY <1>0, <2>1 DEF TypeOK
  <2> QED  BY <1>0, <2>1, <2>2, EndTyped, ServerMoves, HistoryTyped DEF Ended
<1>2. CASE ServerDie(r)
  <2>1. /\ serverJob' = [serverJob EXCEPT ![r] = Thrown(serverJob[r])]
        /\ serverJob[r].at \in Ended => serverJob[r].at = "written"
        /\ lock' = lock \/ (lock = r /\ lock' = Nobody)
        /\ UNCHANGED <<userRow, serverRow, userJob>>
    BY <1>2 DEF ServerDie, Running, Ended, Unlocked
  <2>2. failures' \in 0..MaxFailures
    BY <1>0, <1>2, FailTyped DEF ServerDie
  <2>3. /\ history' \in [userCount: [Reports -> Nat], serverCount: [Reports -> Nat],
                         again: SUBSET Reports, raced: SUBSET Users]
        /\ history'.userCount = history.userCount /\ history'.serverCount = history.serverCount
        /\ history.again \subseteq history'.again
        /\ serverJob[r].at = "written" => r \in history'.again
    BY <1>0, <1>2, AgainTyped DEF ServerDie
  <2>4. Thrown(serverJob[r]).at # "copied"
    BY <1>0, ThrownTyped
  <2> QED  BY <1>0, <2>1, <2>2, <2>3, <2>4, ThrownTyped, ServerMoves
<1> QED  BY <1>1, <1>2

-----------------------------------------------------------------------------
(* Commits *)

LEMMA UserCommits ==
  ASSUME Inv, NEW r \in Reports, UserCommit(r)
  PROVE  Inv'
<1> DEFINE late == {u \in Sent(r) : userJob[r].copy[u] # userRow[u].sum}
<1>0. /\ TypeOK /\ userJob[r] \in Job /\ userJob[r].at = "copied"
      /\ late \subseteq Users
  BY StatisticsAssumption DEF Inv, TypeOK, UserCommit, Sent
<1>1. /\ [userJob[r] EXCEPT !.at = "written"] \in Job
      /\ userJob' = [userJob EXCEPT ![r] = [userJob[r] EXCEPT !.at = "written"]]
      /\ [userJob[r] EXCEPT !.at = "written"].at = "written"
  BY <1>0 DEF UserCommit, Job
<1>2. PICK job \in Job : userJob' = [userJob EXCEPT ![r] = job] /\ job.at = "written"
  BY <1>1
<1>3. \A u \in Users : Written(r, u) \in Nat
  BY <1>0, StatisticsAssumption DEF Written, Job
<1>4. userRow' \in [Users -> Row]
  BY <1>0, <1>3 DEF UserCommit, TypeOK, Row
<1>5. PICK n \in Nat : n = history.userCount[r] + 1
  BY <1>0 DEF TypeOK
<1>6. PICK raced \in SUBSET Users : raced = history.raced \cup late
  BY <1>0 DEF TypeOK
<1>7. history' = [history EXCEPT !.userCount[r] = n, !.raced = raced]
  <2> HIDE DEF late
  <2>1. history' = [history EXCEPT !.userCount[r] = @ + 1, !.raced = @ \cup late]
    BY DEF UserCommit, late
  <2> QED  BY <1>5, <1>6, <2>1
<1>8. /\ history' \in [userCount: [Reports -> Nat], serverCount: [Reports -> Nat],
                       again: SUBSET Reports, raced: SUBSET Users]
      /\ history'.userCount = [history.userCount EXCEPT ![r] = n]
      /\ history'.serverCount = history.serverCount /\ history'.again = history.again
  BY <1>0, <1>5, <1>6, <1>7 DEF TypeOK
<1>9. UNCHANGED <<serverRow, lock, serverJob, failures>>
  BY DEF UserCommit
<1>10. TypeOK'
  BY <1>0, <1>2, <1>4, <1>8, <1>9 DEF TypeOK
<1>11. \A q \in Reports : userJob'[q] = IF q = r THEN job ELSE userJob[q]
  BY <1>0, <1>2 DEF TypeOK
<1>12. \A q \in Reports : history'.userCount[q] = IF q = r THEN n ELSE history.userCount[q]
  BY <1>0, <1>8 DEF TypeOK
<1>13. Waiting'
  BY <1>2, <1>9, <1>11 DEF Inv, Waiting
<1>14. Once'
  <2>1. r \notin history.again => history.userCount[r] = 0
    BY <1>0 DEF Inv, Once, Ended
  <2>2. r \notin history.again => n = 1
    BY <1>5, <2>1
  <2> QED  BY <1>2, <1>8, <1>9, <1>11, <1>12, <2>2 DEF Inv, Once, Ended
<1>15. Held' /\ Empty'
  BY <1>9 DEF Inv, Held, Empty
<1> QED  BY <1>10, <1>13, <1>14, <1>15 DEF Inv

\* A commit of a server job adds what its report says.
LEMMA ServerAdds ==
  ASSUME Inv, NEW r \in Reports, ServerUpdate(r) \/ ServerCreate(r)
  PROVE  /\ serverJob[r].at \in {"copied", "listed"}
         /\ Counted(r, serverRow.sum + Total(r))
         /\ \A q \in Reports \ {r} : serverJob[q].at # "copied"
<1>1. CASE ServerUpdate(r)
  BY <1>1 DEF ServerUpdate, Inv, Held
<1>2. CASE ServerCreate(r)
  <2>1. serverRow.sum = 0 /\ Total(r) \in Nat
    BY <1>2, TotalType DEF ServerCreate, Inv, Empty
  <2>2. Total(r) = serverRow.sum + Total(r)
    BY <2>1
  <2> QED  BY <1>2, <2>2 DEF ServerCreate, Inv, Held
<1> QED  BY <1>1, <1>2

LEMMA ServerCommits ==
  ASSUME Inv, NEW r \in Reports, ServerUpdate(r) \/ ServerCreate(r)
  PROVE  Inv'
<1>0. /\ TypeOK /\ serverJob[r] \in Job /\ serverJob[r].at \notin Ended
      /\ serverRow \in Row
  BY ServerAdds DEF Inv, TypeOK, Ended
<1>1. PICK sum \in Nat : Counted(r, sum)
  <2>1. serverRow.sum + Total(r) \in Nat
    BY <1>0, TotalType DEF Row
  <2> QED  BY <2>1, ServerAdds
<1>2. /\ [serverJob[r] EXCEPT !.at = "written"] \in Job
      /\ serverJob' = [serverJob EXCEPT ![r] = [serverJob[r] EXCEPT !.at = "written"]]
      /\ [serverJob[r] EXCEPT !.at = "written"].at = "written"
  BY <1>0, <1>1 DEF Counted, Job
<1>3. PICK job \in Job : serverJob' = [serverJob EXCEPT ![r] = job] /\ job.at = "written"
  BY <1>2
<1>4. serverRow' \in Row /\ serverRow'.there
  BY <1>1 DEF Counted, Row
<1>5. PICK n \in Nat : n = history.serverCount[r] + 1
  BY <1>0 DEF TypeOK
<1>6. history' = [history EXCEPT !.serverCount[r] = n]
  BY <1>1, <1>5 DEF Counted
<1>7. /\ history' \in [userCount: [Reports -> Nat], serverCount: [Reports -> Nat],
                       again: SUBSET Reports, raced: SUBSET Users]
      /\ history'.serverCount = [history.serverCount EXCEPT ![r] = n]
      /\ history'.userCount = history.userCount /\ history'.again = history.again
  BY <1>0, <1>5, <1>6 DEF TypeOK
<1>8. UNCHANGED <<userRow, userJob, failures>> /\ lock' \in Reports \cup {Nobody}
  BY <1>0, <1>1 DEF Counted, Unlocked, TypeOK
<1>9. TypeOK'
  BY <1>0, <1>3, <1>4, <1>7, <1>8 DEF TypeOK
<1>10. \A q \in Reports : serverJob'[q] = IF q = r THEN job ELSE serverJob[q]
  BY <1>0, <1>3 DEF TypeOK
<1>11. \A q \in Reports : history'.serverCount[q] = IF q = r THEN n ELSE history.serverCount[q]
  BY <1>0, <1>7 DEF TypeOK
<1>12. Waiting'
  BY <1>3, <1>8, <1>10 DEF Inv, Waiting
<1>13. Once'
  <2>1. r \notin history.again => history.serverCount[r] = 0
    BY <1>0 DEF Inv, Once
  <2>2. r \notin history.again => n = 1
    BY <1>5, <2>1
  <2> QED  BY <1>3, <1>7, <1>8, <1>10, <1>11, <2>2 DEF Inv, Once, Ended
<1>14. Held' /\ Empty'
  BY <1>3, <1>4, <1>10, ServerAdds DEF Held, Empty
<1> QED  BY <1>9, <1>12, <1>13, <1>14 DEF Inv

-----------------------------------------------------------------------------
(* The theorems *)

LEMMA Invariance == Spec => []Inv
<1>1. ASSUME Inv, [Next]_vars PROVE Inv'
  <2>1. CASE UNCHANGED vars
    BY <1>1, <2>1 DEF vars, Inv, TypeOK, Waiting, Once, Held, Empty
  <2>2. ASSUME NEW r \in Reports,
               \/ Report(r) \/ HalfReport(r)
               \/ UserStep(r) \/ UserDeadlock(r) \/ UserDie(r)
               \/ ServerStep(r) \/ ServerDie(r)
        PROVE  Inv'
    BY <1>1, <2>2, Reported, UserReads, UserDeadlocks, UserEnds, UserCommits, ServerWaits,
       ServerEnds, ServerCommits DEF UserStep, ServerStep
  <2> QED  BY <1>1, <2>1, <2>2 DEF Next
<1> QED  BY <1>1, Initially, PTL DEF Spec

\* Rows, locks, jobs and history keep their types: no sum is negative, no job
\* runs more often than it has tries.
THEOREM TypeCorrect == Spec => []TypeOK
<1>1. Inv => TypeOK
  BY DEF Inv
<1> QED  BY <1>1, Invariance, PTL

\* A report is counted once by each of its jobs, unless one died between its
\* commit and its end (StatUserJob and StatServerJob with their tries).
THEOREM CountsOnce == Spec => []CountedOnce
<1>1. Inv => CountedOnce
  BY DEF Inv, Once, CountedOnce
<1> QED  BY <1>1, Invariance, PTL

\* What a step may do to the row of the node: a job adds what its report says,
\* and is recorded as having done so.
RowExact ==
  serverRow' # serverRow =>
    \E r \in Reports : /\ serverRow'.there /\ serverRow'.sum = serverRow.sum + Total(r)
                       /\ history'.serverCount = [history.serverCount EXCEPT ![r] = @ + 1]

\* The row of the node is never written from an outdated copy, also when two
\* jobs compete to create it (StatServerJob::processServerStat()).
THEOREM NothingLost == Spec => [][RowExact]_vars
<1>1. ASSUME Inv, [Next]_vars PROVE [RowExact]_vars
  <2>1. CASE serverRow' = serverRow
    BY <2>1 DEF RowExact
  <2>2. CASE serverRow' # serverRow
    <3>1. PICK r \in Reports : ServerUpdate(r) \/ ServerCreate(r)
      BY <1>1, <2>2 DEF Next, vars, Report, HalfReport, UserStep, UserList, UserCopy, UserCommit,
         UserEnd, UserDeadlock, UserDie, ServerStep, ServerBegin, ServerDeadlock, ServerEnd, ServerDie
    <3>2. Counted(r, serverRow.sum + Total(r))
      BY <1>1, <3>1, ServerAdds
    <3>3. history' = [history EXCEPT !.serverCount[r] = @ + 1]
      BY <3>2 DEF Counted
    <3>4. history'.serverCount = [history.serverCount EXCEPT ![r] = @ + 1]
      BY <1>1, <3>3 DEF Inv, TypeOK
    <3>5. serverRow'.there /\ serverRow'.sum = serverRow.sum + Total(r)
      BY <3>2 DEF Counted
    <3> QED  BY <3>4, <3>5 DEF RowExact
  <2> QED  BY <2>1, <2>2
<1> QED  BY <1>1, Invariance, PTL DEF Spec

-----------------------------------------------------------------------------
(* What the rows add up to *)

Totals     == [r \in Reports |-> Total(r)]
Amounts(u) == [r \in Reports |-> Load[r][u]]

LEMMA CommittedType ==
  ASSUME NEW count \in [Reports -> Nat], NEW amount \in [Reports -> Nat]
  PROVE  Committed(count, amount) \in Nat
<1> DEFINE h == [q \in Reports |-> count[q] * amount[q]]
<1>1. \A m, n \in Nat : m * n \in Nat
  OBVIOUS
<1>2. \A q \in Reports : h[q] \in Nat
  BY <1>1
<1>3. Committed(count, amount) = SumFunctionOnSet(h, Reports)
  BY DEF Committed
<1>4. IsFiniteSet(Reports)
  BY StatisticsAssumption
<1> HIDE DEF h
<1> QED  BY <1>2, <1>3, <1>4, SumType

\* One more commit of a report adds its amount.
LEMMA CommitAdds ==
  ASSUME NEW count \in [Reports -> Nat], NEW amount \in [Reports -> Nat], NEW r \in Reports,
         NEW more \in [Reports -> Nat], more = [count EXCEPT ![r] = @ + 1]
  PROVE  Committed(more, amount) = Committed(count, amount) + amount[r]
<1> DEFINE h == [q \in Reports |-> count[q] * amount[q]]
           k == [q \in Reports |-> more[q] * amount[q]]
<1>1. \A m, n \in Nat : m * n \in Nat
  OBVIOUS
<1>2. (\A q \in Reports : h[q] \in Nat) /\ (\A q \in Reports : k[q] \in Nat)
  BY <1>1
<1>3. \A q \in Reports \ {r} : k[q] = h[q]
  OBVIOUS
<1>4. k[r] = h[r] + amount[r]
  <2>1. \A m, n \in Nat : (m + 1) * n = m * n + n
    OBVIOUS
  <2>2. more[r] = count[r] + 1
    OBVIOUS
  <2> QED  BY <2>1, <2>2
<1>5. IsFiniteSet(Reports)
  BY StatisticsAssumption
<1>6. Committed(count, amount) = SumFunctionOnSet(h, Reports)
  BY DEF Committed
<1>7. Committed(more, amount) = SumFunctionOnSet(k, Reports)
  BY DEF Committed
<1> HIDE DEF h, k
<1>8. SumFunctionOnSet(h, Reports) \in Nat
  BY <1>6, CommittedType
<1>9. \A q \in Reports : h[q] \in Int /\ k[q] \in Int
  BY <1>2
<1>10. SumFunctionOnSet(k, Reports) = SumFunctionOnSet(h, Reports) + (k[r] - h[r])
  BY <1>3, <1>5, <1>9, SumChange
<1>11. h[r] \in Nat /\ amount[r] \in Nat
  BY <1>2
<1> QED  BY <1>4, <1>6, <1>7, <1>8, <1>10, <1>11

\* Before the first commit there is nothing to add.
LEMMA NothingCommitted ==
  ASSUME NEW amount \in [Reports -> Nat]
  PROVE  Committed([r \in Reports |-> 0], amount) = 0
<1> DEFINE h == [r \in Reports |-> [q \in Reports |-> 0][r] * amount[r]]
<1>1. \A r \in Reports : h[r] = 0
  OBVIOUS
<1>2. Committed([r \in Reports |-> 0], amount) = SumFunctionOnSet(h, Reports)
  BY DEF Committed
<1>3. IsFiniteSet(Reports)
  BY StatisticsAssumption
<1> HIDE DEF h
<1> QED  BY <1>1, <1>2, <1>3, SumZero

LEMMA AmountTypes ==
  /\ Totals \in [Reports -> Nat]
  /\ \A u \in Users : Amounts(u) \in [Reports -> Nat]
  BY TotalType, StatisticsAssumption DEF Totals, Amounts

\* What the jobs committed for user u, all reports together.
All(u) == Committed(history.userCount, Amounts(u))

\* No row, and no copy that is about to be written back, says more than that.
UserBounded ==
  \A u \in Users :
    /\ userRow[u].sum <= All(u) /\ (u \notin history.raced => userRow[u].sum = All(u))
    /\ \A r \in Reports : userJob[r].at = "copied" => userJob[r].copy[u] <= All(u)

Sums == ServerAccounted /\ UserBounded

LEMMA AllType ==
  ASSUME TypeOK, NEW u \in Users
  PROVE  All(u) \in Nat
<1>1. history.userCount \in [Reports -> Nat]
  BY DEF TypeOK
<1> QED  BY <1>1, CommittedType, AmountTypes DEF All

LEMMA InitSums == ASSUME Init PROVE Sums
<1>1. history.userCount = [r \in Reports |-> 0] /\ history.serverCount = [r \in Reports |-> 0]
  BY DEF Init
<1>2. serverRow.sum = 0 /\ \A u \in Users : userRow[u].sum = 0
  BY DEF Init, NoRow
<1>3. ServerAccounted
  BY <1>1, <1>2, NothingCommitted, AmountTypes DEF ServerAccounted, Totals
<1>4. \A u \in Users : All(u) = 0
  BY <1>1, NothingCommitted, AmountTypes DEF All
<1>5. \A r \in Reports : userJob[r].at # "copied"
  BY AbsentTyped DEF Init
<1> QED  BY <1>2, <1>3, <1>4, <1>5 DEF Sums, UserBounded

\* A step that counts nothing and writes nothing, and copies only what is in
\* the rows.
LEMMA Idle ==
  ASSUME Inv, Sums,
         history'.userCount = history.userCount, history'.serverCount = history.serverCount,
         history'.raced = history.raced, UNCHANGED <<userRow, serverRow>>,
         \A r \in Reports : userJob'[r].at = "copied" =>
           \/ userJob[r].at = "copied" /\ userJob'[r].copy = userJob[r].copy
           \/ \A u \in Users : userJob'[r].copy[u] \in {0, userRow[u].sum}
  PROVE  Sums'
<1>1. ServerAccounted'
  BY DEF Sums, ServerAccounted
<1>2. \A u \in Users : All(u)' = All(u) /\ All(u) \in Nat
  BY AllType DEF All, Inv
<1>3. ASSUME NEW u \in Users, NEW r \in Reports, userJob'[r].at = "copied"
      PROVE  userJob'[r].copy[u] <= All(u)
  BY <1>2, <1>3 DEF Sums, UserBounded
<1> QED  BY <1>1, <1>2, <1>3 DEF Sums, UserBounded

LEMMA UserSums ==
  ASSUME Inv, Sums, NEW r \in Reports, UserCommit(r)
  PROVE  Sums'
<1>1. /\ userJob[r].at = "copied"
      /\ history'.userCount = [history.userCount EXCEPT ![r] = @ + 1]
      /\ history'.serverCount = history.serverCount /\ serverRow' = serverRow
      /\ history'.raced = history.raced \cup {u \in Sent(r) : userJob[r].copy[u] # userRow[u].sum}
  BY DEF UserCommit, Inv, TypeOK
<1>2. /\ history.userCount \in [Reports -> Nat] /\ history'.userCount \in [Reports -> Nat]
      /\ userJob[r] \in Job
  <2>1. history'.userCount \in [Reports -> Nat]
    BY <1>1 DEF Inv, TypeOK
  <2> QED  BY <2>1 DEF Inv, TypeOK
<1>3. ServerAccounted'
  BY <1>1 DEF Sums, ServerAccounted
<1>4. ASSUME NEW u \in Users
      PROVE  All(u) \in Nat /\ Load[r][u] \in Nat /\ All(u)' = All(u) + Load[r][u]
  <2>1. Amounts(u)[r] = Load[r][u] /\ Load[r][u] \in Nat
    BY StatisticsAssumption DEF Amounts
  <2>2. /\ Committed(history.userCount, Amounts(u)) \in Nat
        /\ Committed(history'.userCount, Amounts(u)) = Committed(history.userCount, Amounts(u)) + Amounts(u)[r]
    BY <1>1, <1>2, CommittedType, CommitAdds, AmountTypes
  <2> QED  BY <2>1, <2>2 DEF All
<1>5. \A q \in Reports : userJob'[q].at = "copied" =>
        userJob[q].at = "copied" /\ userJob'[q].copy = userJob[q].copy
  BY DEF UserCommit, Inv, TypeOK, Job
<1>6. ASSUME NEW u \in Users
      PROVE  /\ userRow'[u].sum <= All(u)'
             /\ u \notin history'.raced => userRow'[u].sum = All(u)'
             /\ \A q \in Reports : userJob'[q].at = "copied" => userJob'[q].copy[u] <= All(u)'
  <2>1. /\ userRow[u].sum \in Nat /\ userRow[u].sum <= All(u)
        /\ u \notin history.raced => userRow[u].sum = All(u)
        /\ userJob[r].copy[u] <= All(u)
    BY <1>1 DEF Sums, UserBounded, Inv, TypeOK, Row
  <2>2. userJob[r].copy[u] \in Nat
    BY <1>2 DEF Job
  <2>3. ASSUME NEW q \in Reports, userJob'[q].at = "copied" PROVE userJob'[q].copy[u] <= All(u)'
    <3>1. userJob[q].copy[u] <= All(u) /\ userJob'[q].copy = userJob[q].copy
      BY <1>5, <2>3 DEF Sums, UserBounded
    <3>2. userJob[q].copy[u] \in Nat
      BY DEF Inv, TypeOK, Job
    <3> QED  BY <1>4, <3>1, <3>2
  <2>4. CASE u \in Sent(r)
    <3>1. userRow'[u].sum = userJob[r].copy[u] + Load[r][u]
      BY <2>4 DEF UserCommit, Written
    <3>2. u \notin history'.raced => userJob[r].copy[u] = userRow[u].sum /\ u \notin history.raced
      BY <1>1, <2>4
    <3> QED  BY <1>4, <2>1, <2>2, <2>3, <3>1, <3>2
  <2>5. CASE u \notin Sent(r)
    <3>1. userRow'[u] = userRow[u]
      BY <2>5 DEF UserCommit
    <3>2. Load[r][u] = 0
      BY <1>4, <2>5, StatisticsAssumption DEF Sent
    <3> QED  BY <1>1, <1>4, <2>1, <2>3, <3>1, <3>2
  <2> QED  BY <2>4, <2>5
<1> QED  BY <1>3, <1>6 DEF Sums, UserBounded

LEMMA ServerSums ==
  ASSUME Inv, Sums, NEW r \in Reports, ServerUpdate(r) \/ ServerCreate(r)
  PROVE  Sums'
<1>1. Counted(r, serverRow.sum + Total(r))
  BY ServerAdds
<1>2. /\ history'.serverCount = [history.serverCount EXCEPT ![r] = @ + 1]
      /\ history'.userCount = history.userCount /\ history'.raced = history.raced
      /\ serverRow'.sum = serverRow.sum + Total(r)
      /\ UNCHANGED <<userRow, userJob>>
  BY <1>1 DEF Counted, Inv, TypeOK
<1>3. /\ history.serverCount \in [Reports -> Nat] /\ history'.serverCount \in [Reports -> Nat]
  <2>1. history.serverCount \in [Reports -> Nat]
    BY DEF Inv, TypeOK
  <2> QED  BY <1>2, <2>1
<1>4. Committed(history'.serverCount, Totals) = Committed(history.serverCount, Totals) + Total(r)
  <2>1. Totals[r] = Total(r)
    BY DEF Totals
  <2> QED  BY <1>2, <1>3, <2>1, CommitAdds, AmountTypes
<1>5. ServerAccounted'
  BY <1>2, <1>4 DEF Sums, ServerAccounted, Totals
<1>6. UserBounded'
  BY <1>2 DEF Sums, UserBounded, All
<1> QED  BY <1>5, <1>6 DEF Sums

LEMMA OtherSums ==
  ASSUME Inv, Sums, NEW r \in Reports,
         \/ Report(r) \/ HalfReport(r)
         \/ UserList(r) \/ UserCopy(r) \/ UserEnd(r) \/ UserDeadlock(r) \/ UserDie(r)
         \/ ServerBegin(r) \/ ServerDeadlock(r) \/ ServerEnd(r) \/ ServerDie(r)
  PROVE  Sums'
<1>1. /\ history'.userCount = history.userCount /\ history'.serverCount = history.serverCount
      /\ history'.raced = history.raced /\ UNCHANGED <<userRow, serverRow>>
  BY DEF Inv, TypeOK, Report, HalfReport, UserList, UserCopy, UserEnd, UserDeadlock, UserDie,
         ServerBegin, ServerDeadlock, ServerEnd, ServerDie
<1>2. userJob \in [Reports -> Job]
  BY DEF Inv, TypeOK
<1>3. ASSUME NEW q \in Reports, userJob'[q].at = "copied"
      PROVE  \/ userJob[q].at = "copied" /\ userJob'[q].copy = userJob[q].copy
             \/ \A u \in Users : userJob'[q].copy[u] \in {0, userRow[u].sum}
  <2>1. CASE userJob'[q] = userJob[q]
    BY <1>3, <2>1
  <2>2. CASE UserCopy(r) /\ q = r
    <3>1. userJob'[r].copy = [u \in Users |-> IF u \in userJob[r].known THEN userRow[u].sum ELSE 0]
      BY <1>2, <2>2 DEF UserCopy, Job
    <3> QED  BY <2>2, <3>1
  <2>3. CASE q = r /\ ~UserCopy(r) /\ userJob'[q] # userJob[q]
    <3>1. userJob'[r].at # "copied"
      <4>1. CASE Report(r) \/ HalfReport(r)
        BY <1>2, <4>1, AbsentTyped DEF Report, HalfReport
      <4>2. CASE UserList(r)
        <5>1. Taken(userJob[r]) \in Job
          BY <1>2, <4>2, TakenTyped DEF UserList, Inv, Waiting
        <5>2. userJob'[r] = [Taken(userJob[r]) EXCEPT !.at = "listed",
                                !.known = {u \in Named[r] : userRow[u].there}]
          BY <1>2, <4>2 DEF UserList
        <5> QED  BY <5>1, <5>2 DEF Job
      <4>3. CASE UserEnd(r)
        BY <1>2, <4>3, EndTyped DEF UserEnd
      <4>4. CASE UserDie(r)
        <5>1. userJob'[r] = Thrown(userJob[r])
          BY <1>2, <4>4 DEF UserDie
        <5> QED  BY <1>2, <5>1, ThrownTyped
      <4>5. CASE UserDeadlock(r)
        <5>1. CASE userJob[r].attempt + 1 < Attempts
          BY <1>2, <4>5, <5>1 DEF UserDeadlock, Job
        <5>2. CASE ~(userJob[r].attempt + 1 < Attempts)
          <6>1. userJob'[r] = Thrown(userJob[r])
            BY <1>2, <4>5, <5>2 DEF UserDeadlock
          <6> QED  BY <1>2, <6>1, ThrownTyped
        <5> QED  BY <5>1, <5>2
      <4>6. CASE ServerBegin(r) \/ ServerDeadlock(r) \/ ServerEnd(r) \/ ServerDie(r)
        BY <2>3, <4>6 DEF ServerBegin, ServerDeadlock, ServerEnd, ServerDie
      <4> QED  BY <2>3, <4>1, <4>2, <4>3, <4>4, <4>5, <4>6
    <3> QED  BY <1>3, <2>3, <3>1
  <2>4. q # r => userJob'[q] = userJob[q]
    BY <1>2 DEF Report, HalfReport, UserList, UserCopy, UserEnd, UserDeadlock, UserDie,
         ServerBegin, ServerDeadlock, ServerEnd, ServerDie
  <2> QED  BY <2>1, <2>2, <2>3, <2>4
<1> QED  BY <1>1, <1>3, Idle

LEMMA SumsKept == Spec => []Sums
<1>1. ASSUME Inv, Sums, [Next]_vars PROVE Sums'
  <2>1. CASE UNCHANGED vars
    BY <1>1, <2>1, Idle DEF vars
  <2>2. ASSUME NEW r \in Reports,
               \/ Report(r) \/ HalfReport(r)
               \/ UserStep(r) \/ UserDeadlock(r) \/ UserDie(r)
               \/ ServerStep(r) \/ ServerDie(r)
        PROVE  Sums'
    BY <1>1, <2>2, UserSums, ServerSums, OtherSums DEF UserStep, ServerStep
  <2> QED  BY <1>1, <2>1, <2>2 DEF Next
<1> QED  BY <1>1, InitSums, Invariance, PTL DEF Spec

\* The row of the node is the sum of all that its jobs committed, in every
\* order of the jobs (StatServerJob::processServerStat()).
THEOREM ServerAddsUp == Spec => []ServerAccounted
<1>1. Sums => ServerAccounted
  BY DEF Sums
<1> QED  BY <1>1, SumsKept, PTL

\* The row of a user never says more than was committed for him, and all of it
\* unless two jobs overlapped (StatUserJob::processUserStats()).
THEOREM UserAddsUp == Spec => []UserAccounted
<1>1. Sums => UserAccounted
  BY DEF Sums, UserBounded, UserAccounted, All, Amounts
<1> QED  BY <1>1, SumsKept, PTL
=============================================================================
