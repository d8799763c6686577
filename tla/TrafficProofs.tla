--------------------------- MODULE TrafficProofs ---------------------------
(***************************************************************************)
(* Proofs about Traffic, for any set of users and reports and any number   *)
(* of failures and resets.                                                 *)
(***************************************************************************)
EXTENDS Traffic, SumTheorems, TLAPS

LEMMA ZeroType == Zero \in [Users -> Nat] /\ (\A x \in Users : Zero[x] = 0) /\ None \in Usage
  BY DEF Zero, None, Usage

LEMMA RestingType == Resting \in FlushState /\ Resting.pc = "idle"
  BY ZeroType DEF Resting, FlushState

\* A job is working on users its report names.
Reading ==
  \A r \in Reports :
    /\ job[r].state \in {"queued", "running"} => job[r].load \in Loads
    /\ job[r].state = "queued" => job[r].tries < Tries
    /\ job[r].state = "running" => /\ job[r].todo \subseteq DOMAIN job[r].load
                                   /\ job[r].half # NoUser => job[r].half \in job[r].todo

LEMMA InitTyped == ASSUME Init PROVE TypeOK /\ Reading
<1> USE ZeroType DEF Init
<1>1. job \in [Reports -> JobRow]
  BY TrafficAssumption DEF JobRow, NoJob
<1>2. hash \in HashState
  BY DEF HashState
<1>3. row \in [Users -> Usage]
  OBVIOUS
<1>4. ghost \in History
  BY DEF History
<1>5. Reading
  BY DEF Reading, NoJob
<1> QED  BY <1>1, <1>2, <1>3, <1>4, <1>5, RestingType, TrafficAssumption DEF TypeOK

\* The amounts a job adds are numbers.
LEMMA Amounts ==
  ASSUME Reading, NEW r \in Reports, job[r].state = "running", NEW x \in job[r].todo
  PROVE  job[r].load[x] \in Usage /\ x \in Users
<1>1. job[r].load \in Loads /\ x \in DOMAIN job[r].load
  BY DEF Reading
<1> QED  BY <1>1, TrafficAssumption

\* An increment keeps the history typed.
LEMMA CountTyped ==
  ASSUME ghost \in History, NEW x \in Users, NEW n \in Nat, NEW G \in SUBSET Users
  PROVE  /\ [ghost EXCEPT !.counted[x].u = @ + n, !.gap = G] \in History
         /\ [ghost EXCEPT !.counted[x].d = @ + n, !.gap = G] \in History
<1>1. ghost.counted \in [Users -> Usage]
  BY DEF History
<1>2. /\ [ghost.counted[x] EXCEPT !.u = @ + n] \in Usage
      /\ [ghost.counted[x] EXCEPT !.d = @ + n] \in Usage
  BY <1>1 DEF Usage
<1>3. /\ [ghost.counted EXCEPT ![x].u = @ + n] \in [Users -> Usage]
      /\ [ghost.counted EXCEPT ![x].d = @ + n] \in [Users -> Usage]
  BY <1>1, <1>2
<1> QED  BY <1>3 DEF History

LEMMA FetchTyped ==
  ASSUME TypeOK, Reading, NEW r \in Reports,
         Fetch(r) \/ FetchDie(r) \/ \E load \in Loads : Push(r, load)
  PROVE  TypeOK' /\ Reading'
<1> USE DEF TypeOK
<1>1. job[r] \in JobRow
  OBVIOUS
<1>2. ASSUME NEW load \in Loads, Push(r, load)
      PROVE  TypeOK' /\ Reading'
  <2>1. [state |-> "queued", load |-> load, todo |-> {}, half |-> NoUser, tries |-> 0] \in JobRow
    BY TrafficAssumption DEF JobRow
  <2>2. job' \in [Reports -> JobRow]
    BY <1>2, <2>1 DEF Push
  <2>3. ghost' \in History
    <3>1. \A x \in DOMAIN load : load[x] \in Usage
      BY TrafficAssumption
    <3>2. [x \in Users |->
            IF x \in DOMAIN load
            THEN [u |-> ghost.reported[x].u + load[x].u, d |-> ghost.reported[x].d + load[x].d]
            ELSE ghost.reported[x]] \in [Users -> Usage]
      BY <3>1 DEF Usage, History
    <3> QED  BY <1>2, <3>2 DEF Push, History
  <2>4. Reading'
    BY <1>2, TrafficAssumption DEF Push, Reading
  <2> QED  BY <1>2, <2>2, <2>3, <2>4 DEF Push
<1>3. CASE FetchStart(r)
  <2>1. job[r].load \in Loads /\ job[r].tries < Tries
    BY <1>3 DEF FetchStart, Reading
  <2>2. DOMAIN job[r].load \subseteq Users
    BY <2>1, TrafficAssumption
  <2>3. job[r].tries + 1 \in 0..Tries
    BY <1>1, <2>1, TrafficAssumption DEF JobRow
  <2>6. job' \in [Reports -> JobRow]
    BY <1>3, <2>1, <2>2, <2>3 DEF FetchStart, JobRow
  <2>7. Reading'
    BY <1>1, <1>3, <2>1 DEF FetchStart, Reading, JobRow
  <2> QED  BY <1>3, <2>6, <2>7 DEF FetchStart
<1>4. ASSUME NEW x \in Users, FetchUp(r, x)
      PROVE  TypeOK' /\ Reading'
  <2>1. job[r].load[x].u \in Nat
    BY <1>4, Amounts DEF FetchUp, Usage
  <2>2. job' \in [Reports -> JobRow]
    BY <1>1, <1>4 DEF FetchUp, JobRow
  <2>3. hash' \in HashState
    BY <1>4, <2>1 DEF FetchUp, HashState
  <2>4. ghost' \in History
    <3> DEFINE n == job[r].load[x].u
               G == IF flush.pc = "delUp" /\ n > 0 THEN ghost.gap \cup {x} ELSE ghost.gap
    <3>1. G \in SUBSET Users
      BY DEF History
    <3>2. ghost' = [ghost EXCEPT !.counted[x].u = @ + n, !.gap = G]
      BY <1>4 DEF FetchUp
    <3> HIDE DEF n, G
    <3> QED  BY <2>1, <3>1, <3>2, CountTyped DEF n
  <2>5. Reading'
    BY <1>1, <1>4, TrafficAssumption DEF FetchUp, Reading, JobRow
  <2> QED  BY <1>4, <2>2, <2>3, <2>4, <2>5 DEF FetchUp
<1>5. CASE FetchDown(r)
  <2>1. /\ job[r].half \in Users
        /\ job[r].load[job[r].half].d \in Nat
    BY <1>1, <1>5, Amounts DEF FetchDown, Reading, Usage, JobRow
  <2>2. job' \in [Reports -> JobRow]
    BY <1>1, <1>5 DEF FetchDown, JobRow
  <2>3. hash' \in HashState
    <3> DEFINE x == job[r].half
    <3>1. hash' = [hash EXCEPT !.down[x] = hash.down[x] + job[r].load[x].d,
                               !.keys = hash.keys \cup {x}]
      BY <1>5 DEF FetchDown
    <3>2. hash.down[x] + job[r].load[x].d \in Nat /\ hash.keys \cup {x} \in SUBSET Users
      BY <2>1 DEF HashState
    <3> HIDE DEF x
    <3> QED  BY <3>1, <3>2 DEF HashState
  <2>4. ghost' \in History
    <3> DEFINE x == job[r].half
               n == job[r].load[x].d
               G == IF flush.pc = "delDown" /\ n > 0 THEN ghost.gap \cup {x} ELSE ghost.gap
    <3>1. G \in SUBSET Users
      BY <2>1 DEF History
    <3>2. ghost' = [ghost EXCEPT !.counted[x].d = @ + n, !.gap = G]
      BY <1>5 DEF FetchDown
    <3>3. x \in Users /\ n \in Nat
      BY <2>1
    <3> HIDE DEF x, n, G
    <3> QED  BY <3>1, <3>2, <3>3, CountTyped
  <2>5. Reading'
    BY <1>1, <1>5 DEF FetchDown, Reading, JobRow
  <2> QED  BY <1>5, <2>2, <2>3, <2>4, <2>5 DEF FetchDown
<1>6. CASE FetchDone(r)
  <2>1. job' \in [Reports -> JobRow]
    BY <1>1, <1>6 DEF FetchDone, JobRow
  <2>2. Reading'
    BY <1>1, <1>6 DEF FetchDone, Reading, JobRow
  <2> QED  BY <1>6, <2>1, <2>2 DEF FetchDone
<1>7. CASE FetchDie(r)
  <2>1. job' \in [Reports -> JobRow]
    BY <1>1, <1>7 DEF FetchDie, JobRow
  <2>2. Reading'
    BY <1>1, <1>7 DEF FetchDie, Reading, JobRow
  <2>3. failures' \in 0..MaxFailures
    BY <1>7, TrafficAssumption DEF FetchDie, Fail
  <2> QED  BY <1>7, <2>1, <2>2, <2>3 DEF FetchDie
<1> QED  BY <1>2, <1>3, <1>4, <1>5, <1>6, <1>7 DEF Fetch

\* traffic:update, its failures and the reset commands leave the jobs alone.
LEMMA OtherTyped ==
  ASSUME TypeOK, Reading,
         \/ FlushStart \/ Flush \/ FlushFail \/ FlushDie
         \/ ResetStart \/ ResetEnd \/ ResetAbort \/ LockExpires
         \/ \E S \in SUBSET Users : ResetWrite(S)
         \/ \E x \in Users : ResetUser(x)
         \/ UNCHANGED vars
  PROVE  TypeOK' /\ Reading' /\ job' = job
<1> USE DEF TypeOK
<1>1. job' = job
  BY DEF FlushStart, Flush, FlushUploads, FlushDelUp, FlushDownloads, FlushDelDown,
         FlushUsers, FlushUpdate, MutexExpires, FlushFail, FlushDie, ResetStart, ResetEnd, ResetAbort, LockExpires,
         ResetWrite, ResetUser, Erase, vars
<1>2. Reading'
  BY <1>1 DEF Reading
<1>3. ASSUME Fail PROVE failures' \in 0..MaxFailures
  BY <1>3, TrafficAssumption DEF Fail
<1>4. ASSUME NEW S \in SUBSET Users, Erase(S)
      PROVE  /\ row' \in [Users -> Usage] /\ resets' \in 0..MaxResets
             /\ ghost' \in History
  <2>1. row' \in [Users -> Usage] /\ resets' \in 0..MaxResets
    BY <1>4, ZeroType, TrafficAssumption DEF Erase
  <2>2. ghost'.erased \in [Users -> Usage]
    BY <1>4 DEF Erase, Usage, History
  <2>3. ghost'.gap \in SUBSET Users
    BY <1>4 DEF Erase, History
  <2> QED  BY <1>4, <2>1, <2>2, <2>3 DEF Erase, History
<1>5. CASE ResetStart \/ ResetEnd \/ ResetAbort \/ LockExpires
  BY <1>1, <1>2, <1>3, <1>5 DEF ResetStart, ResetEnd, ResetAbort, LockExpires
<1>6. ASSUME NEW S \in SUBSET Users, ResetWrite(S)
      PROVE  TypeOK'
  BY <1>1, <1>4, <1>6 DEF ResetWrite, Erase
<1>7. ASSUME NEW x \in Users, ResetUser(x)
      PROVE  TypeOK'
  <2>1. Erase({x})
    BY <1>7 DEF ResetUser
  <2>2. {x} \in SUBSET Users
    OBVIOUS
  <2> QED  BY <1>1, <1>4, <1>7, <2>1, <2>2 DEF ResetUser, Erase
<1>8. CASE FlushStart \/ FlushUploads \/ FlushDelUp \/ FlushDownloads \/ FlushDelDown
  <2>1. flush' \in FlushState
    BY <1>8 DEF FlushStart, FlushUploads, FlushDelUp, FlushDownloads, FlushDelDown, FlushState, HashState
  <2>2. hash' \in HashState
    BY <1>8, ZeroType DEF FlushStart, FlushUploads, FlushDelUp, FlushDownloads, FlushDelDown, HashState
  <2> QED  BY <1>1, <1>2, <1>8, <2>1, <2>2 DEF FlushStart, FlushUploads, FlushDelUp, FlushDownloads, FlushDelDown
<1>9. CASE FlushUsers
  <2>1. flush' \in FlushState
    BY <1>9, RestingType DEF FlushUsers, FlushState
  <2> QED  BY <1>1, <1>2, <1>9, <2>1 DEF FlushUsers, History
<1>10. CASE FlushUpdate \/ MutexExpires
  <2>1. row' \in [Users -> Usage]
    BY <1>10 DEF FlushUpdate, MutexExpires, FlushState, Usage
  <2> QED  BY <1>1, <1>2, <1>10, <2>1, RestingType DEF FlushUpdate, MutexExpires
<1>11. CASE FlushFail \/ FlushDie
  BY <1>1, <1>2, <1>3, <1>11, RestingType DEF FlushFail, FlushDie, FlushState, Forfeit, History
<1>12. CASE UNCHANGED vars
  BY <1>1, <1>2, <1>12 DEF vars
<1> QED  BY <1>1, <1>2, <1>5, <1>6, <1>7, <1>8, <1>9, <1>10, <1>11, <1>12 DEF Flush

\* Every variable keeps its type: a job only adds amounts of its report.
THEOREM TypeCorrect == Spec => [](TypeOK /\ Reading)
<1>1. Init => TypeOK /\ Reading
  BY InitTyped
<1>2. TypeOK /\ Reading /\ [Next]_vars => TypeOK' /\ Reading'
  BY FetchTyped, OtherTyped DEF Next
<1> QED  BY <1>1, <1>2, PTL DEF Spec
-----------------------------------------------------------------------------
(* A user's traffic.  Bounded and Balanced are what NotOvercharged and       *)
(* Accounted say of one user, with what is needed of the copies that a       *)
(* traffic:update under way has made.                                        *)

Bounded(x) ==
  /\ row[x].u + TakenUp(x) + hash.up[x] <= ghost.counted[x].u
  /\ row[x].d + TakenDown(x) + hash.down[x] <= ghost.counted[x].d
  /\ flush.pc = "delUp" => flush.up[x] <= hash.up[x]
  /\ flush.pc = "delDown" => flush.down[x] <= hash.down[x]
  /\ flush.pc = "update" =>
       /\ flush.copy[x].u + flush.up[x] + hash.up[x] <= ghost.counted[x].u
       /\ flush.copy[x].d + flush.down[x] + hash.down[x] <= ghost.counted[x].d

Listed(x) ==
  /\ x \notin hash.keys => hash.down[x] = 0
  /\ flush.pc \in {"delDown", "users", "update"} /\ x \notin flush.keys => flush.down[x] = 0

Balanced(x) ==
  /\ row[x].u + TakenUp(x) + hash.up[x] + ghost.erased[x].u = ghost.counted[x].u
  /\ row[x].d + TakenDown(x) + hash.down[x] + ghost.erased[x].d = ghost.counted[x].d
  /\ flush.pc = "delUp" => flush.up[x] = hash.up[x]
  /\ flush.pc = "delDown" => flush.down[x] = hash.down[x]
  /\ flush.pc = "update" =>
       /\ flush.copy[x] = row[x]
       /\ x \notin flush.keys => flush.up[x] = 0

Kept(x) == Bounded(x) /\ Listed(x) /\ (x \notin ghost.gap => Balanced(x))

\* An increment of the uploads is counted where it is added, and marked when
\* traffic:update is about to delete it.
LEMMA UpStep ==
  ASSUME TypeOK, Reading, NEW r \in Reports, NEW y \in Users, FetchUp(r, y), NEW x \in Users
  PROVE  \E n \in Nat :
           /\ hash'.up[x] = hash.up[x] + n
           /\ ghost'.counted[x].u = ghost.counted[x].u + n
           /\ n > 0 /\ flush.pc = "delUp" => x \in ghost'.gap
           /\ hash'.down = hash.down /\ hash'.keys = hash.keys
           /\ ghost'.counted[x].d = ghost.counted[x].d
           /\ ghost'.erased = ghost.erased /\ ghost.gap \subseteq ghost'.gap
           /\ row' = row /\ flush' = flush
<1> DEFINE n == job[r].load[y].u
<1>1. n \in Nat
  BY Amounts DEF FetchUp, Usage
<1>2. hash' = [hash EXCEPT !.up = [hash.up EXCEPT ![y] = hash.up[y] + n]]
  BY DEF FetchUp, TypeOK, HashState
<1>3. /\ ghost'.counted = [ghost.counted EXCEPT ![y].u = ghost.counted[y].u + n]
      /\ ghost'.gap = IF flush.pc = "delUp" /\ n > 0 THEN ghost.gap \cup {y} ELSE ghost.gap
      /\ ghost'.erased = ghost.erased
      /\ row' = row /\ flush' = flush
  BY DEF FetchUp, TypeOK, History
<1> HIDE DEF n
<1>4. CASE x = y
  BY <1>1, <1>2, <1>3, <1>4 DEF TypeOK, HashState, History, Usage
<1>5. CASE x # y
  <2>1. /\ hash'.up[x] = hash.up[x] + 0
        /\ ghost'.counted[x] = ghost.counted[x] /\ ghost.counted[x].u + 0 = ghost.counted[x].u
    BY <1>1, <1>2, <1>3, <1>5 DEF TypeOK, HashState, History, Usage
  <2> QED  BY <1>1, <1>2, <1>3, <1>5, <2>1 DEF TypeOK, HashState, History
<1> QED  BY <1>4, <1>5

LEMMA DownStep ==
  ASSUME TypeOK, Reading, NEW r \in Reports, FetchDown(r), NEW x \in Users
  PROVE  \E n \in Nat :
           /\ hash'.down[x] = hash.down[x] + n
           /\ ghost'.counted[x].d = ghost.counted[x].d + n
           /\ n > 0 /\ flush.pc = "delDown" => x \in ghost'.gap
           /\ n > 0 => x \in hash'.keys
           /\ hash.keys \subseteq hash'.keys
           /\ hash'.up = hash.up
           /\ ghost'.counted[x].u = ghost.counted[x].u
           /\ ghost'.erased = ghost.erased /\ ghost.gap \subseteq ghost'.gap
           /\ row' = row /\ flush' = flush
<1> DEFINE y == job[r].half
<1> DEFINE n == job[r].load[y].d
<1>1. y \in Users /\ n \in Nat
  BY Amounts DEF FetchDown, Usage, TypeOK, JobRow, Reading
<1>2. hash' = [hash EXCEPT !.down = [hash.down EXCEPT ![y] = hash.down[y] + n],
                           !.keys = hash.keys \cup {y}]
  BY DEF FetchDown, TypeOK, HashState
<1>3. /\ ghost'.counted = [ghost.counted EXCEPT ![y].d = ghost.counted[y].d + n]
      /\ ghost'.gap = IF flush.pc = "delDown" /\ n > 0 THEN ghost.gap \cup {y} ELSE ghost.gap
      /\ ghost'.erased = ghost.erased
      /\ row' = row /\ flush' = flush
  BY DEF FetchDown, TypeOK, History
<1> HIDE DEF n, y
<1>4. CASE x = y
  BY <1>1, <1>2, <1>3, <1>4 DEF TypeOK, HashState, History, Usage
<1>5. CASE x # y
  <2>1. /\ hash'.down[x] = hash.down[x] + 0
        /\ ghost'.counted[x] = ghost.counted[x] /\ ghost.counted[x].d + 0 = ghost.counted[x].d
    BY <1>1, <1>2, <1>3, <1>5 DEF TypeOK, HashState, History, Usage
  <2> QED  BY <1>1, <1>2, <1>3, <1>5, <2>1 DEF TypeOK, HashState, History
<1> QED  BY <1>4, <1>5

LEMMA Numbers ==
  ASSUME TypeOK, NEW x \in Users
  PROVE  /\ row[x].u \in Nat /\ row[x].d \in Nat
         /\ hash.up[x] \in Nat /\ hash.down[x] \in Nat
         /\ flush.up[x] \in Nat /\ flush.down[x] \in Nat
         /\ flush.copy[x] \in Usage /\ row[x] \in Usage
         /\ flush.copy[x].u \in Nat /\ flush.copy[x].d \in Nat
         /\ ghost.counted[x].u \in Nat /\ ghost.counted[x].d \in Nat
         /\ ghost.erased[x].u \in Nat /\ ghost.erased[x].d \in Nat
  BY DEF TypeOK, Usage, HashState, FlushState, History

\* What a step may leave alone without touching what is kept of a user.
LEMMA Undisturbed ==
  ASSUME NEW x \in Users, Kept(x),
         hash' = hash, row' = row, flush' = flush,
         ghost'.counted = ghost.counted, ghost'.erased = ghost.erased, ghost'.gap = ghost.gap
  PROVE  Kept(x)'
  BY DEF Kept, Bounded, Listed, Balanced, TakenUp, TakenDown

LEMMA FetchKept ==
  ASSUME TypeOK, Reading, NEW x \in Users, Kept(x), NEW r \in Reports,
         Fetch(r) \/ FetchDie(r) \/ \E load \in Loads : Push(r, load)
  PROVE  Kept(x)'
<1>1. CASE FetchStart(r) \/ FetchDone(r) \/ FetchDie(r)
  BY <1>1, Undisturbed DEF FetchStart, FetchDone, FetchDie
<1>2. ASSUME NEW load \in Loads, Push(r, load) PROVE Kept(x)'
  <2>1. ghost'.counted = ghost.counted /\ ghost'.erased = ghost.erased /\ ghost'.gap = ghost.gap
    BY <1>2 DEF Push, TypeOK, History
  <2> QED  BY <1>2, <2>1, Undisturbed DEF Push
<1>3. ASSUME NEW y \in Users, FetchUp(r, y) PROVE Kept(x)'
  <2>1. PICK n \in Nat :
           /\ hash'.up[x] = hash.up[x] + n
           /\ ghost'.counted[x].u = ghost.counted[x].u + n
           /\ n > 0 /\ flush.pc = "delUp" => x \in ghost'.gap
           /\ hash'.down = hash.down /\ hash'.keys = hash.keys
           /\ ghost'.counted[x].d = ghost.counted[x].d
           /\ ghost'.erased = ghost.erased /\ ghost.gap \subseteq ghost'.gap
           /\ row' = row /\ flush' = flush
    BY <1>3, UpStep
  <2>2. Bounded(x)'
    BY <2>1, Numbers DEF Kept, Bounded, TakenUp, TakenDown
  <2>3. Listed(x)'
    BY <2>1 DEF Kept, Listed
  <2>4. x \notin ghost'.gap => Balanced(x)'
    BY <2>1, Numbers DEF Kept, Balanced, TakenUp, TakenDown
  <2> QED  BY <2>2, <2>3, <2>4 DEF Kept
<1>4. CASE FetchDown(r)
  <2>1. PICK n \in Nat :
           /\ hash'.down[x] = hash.down[x] + n
           /\ ghost'.counted[x].d = ghost.counted[x].d + n
           /\ n > 0 /\ flush.pc = "delDown" => x \in ghost'.gap
           /\ n > 0 => x \in hash'.keys
           /\ hash.keys \subseteq hash'.keys
           /\ hash'.up = hash.up
           /\ ghost'.counted[x].u = ghost.counted[x].u
           /\ ghost'.erased = ghost.erased /\ ghost.gap \subseteq ghost'.gap
           /\ row' = row /\ flush' = flush
    BY <1>4, DownStep
  <2>2. Bounded(x)'
    BY <2>1, Numbers DEF Kept, Bounded, TakenUp, TakenDown
  <2>3. Listed(x)'
    BY <2>1, Numbers DEF Kept, Listed
  <2>4. x \notin ghost'.gap => Balanced(x)'
    BY <2>1, Numbers DEF Kept, Balanced, TakenUp, TakenDown
  <2> QED  BY <2>2, <2>3, <2>4 DEF Kept
<1> QED  BY <1>1, <1>2, <1>3, <1>4 DEF Fetch

LEMMA FlushKept ==
  ASSUME TypeOK, NEW x \in Users, Kept(x),
         FlushStart \/ Flush \/ FlushFail \/ FlushDie
  PROVE  Kept(x)'
<1> USE Numbers DEF TypeOK
<1>0. CASE FlushStart
  <2>1. /\ flush'.pc = "uploads" /\ flush.pc = "idle"
        /\ UNCHANGED <<hash, row, ghost>>
    BY <1>0 DEF FlushStart, FlushState
  <2> QED  BY <2>1 DEF Kept, Bounded, Listed, Balanced, TakenUp, TakenDown
<1>1. CASE FlushUploads
  <2>1. /\ flush.pc = "uploads" /\ flush'.pc = "delUp" /\ flush'.up = hash.up
        /\ UNCHANGED <<hash, row, ghost>>
    BY <1>1 DEF FlushUploads, FlushState
  <2> QED  BY <2>1 DEF Kept, Bounded, Listed, Balanced, TakenUp, TakenDown
<1>2. CASE FlushDelUp
  <2>1. /\ flush.pc = "delUp" /\ flush'.pc = "downloads" /\ flush'.up = flush.up
        /\ hash'.up[x] = 0 /\ hash'.down = hash.down /\ hash'.keys = hash.keys
        /\ UNCHANGED <<row, ghost>>
    BY <1>2, ZeroType DEF FlushDelUp, FlushState, HashState
  <2> QED  BY <2>1 DEF Kept, Bounded, Listed, Balanced, TakenUp, TakenDown
<1>3. CASE FlushDownloads
  <2>1. /\ flush.pc = "downloads" /\ flush'.pc = "delDown" /\ flush'.up = flush.up
        /\ flush'.down = hash.down /\ flush'.keys = hash.keys
        /\ UNCHANGED <<hash, row, ghost>>
    BY <1>3 DEF FlushDownloads, FlushState
  <2> QED  BY <2>1 DEF Kept, Bounded, Listed, Balanced, TakenUp, TakenDown
<1>4. CASE FlushDelDown
  <2>1. /\ flush.pc = "delDown" /\ flush'.pc = "users" /\ flush'.up = flush.up
        /\ flush'.down = flush.down /\ flush'.keys = flush.keys
        /\ hash'.down[x] = 0 /\ hash'.up = hash.up
        /\ UNCHANGED <<row, ghost>>
    BY <1>4, ZeroType DEF FlushDelDown, FlushState, HashState
  <2> QED  BY <2>1 DEF Kept, Bounded, Listed, Balanced, TakenUp, TakenDown
<1>5. CASE FlushUsers
  <2>1. /\ flush.pc = "users" /\ UNCHANGED <<hash, row>>
        /\ ghost'.counted = ghost.counted /\ ghost'.erased = ghost.erased
        /\ ghost.gap \subseteq ghost'.gap
        /\ x \notin flush.keys /\ flush.up[x] > 0 => x \in ghost'.gap
    BY <1>5 DEF FlushUsers, History
  <2>2. CASE flush.keys = {}
    <3>1. flush'.pc = "idle"
      BY <1>5, <2>2, RestingType DEF FlushUsers
    <3> QED  BY <2>1, <2>2, <3>1 DEF Kept, Bounded, Listed, Balanced, TakenUp, TakenDown
  <2>3. CASE flush.keys # {}
    <3>1. /\ flush'.pc = "update" /\ flush'.copy = row /\ flush'.up = flush.up
          /\ flush'.down = flush.down /\ flush'.keys = flush.keys
      BY <1>5, <2>3 DEF FlushUsers, FlushState
    <3>2. Bounded(x)'
      BY <2>1, <3>1 DEF Kept, Bounded, TakenUp, TakenDown
    <3>3. Listed(x)'
      BY <2>1, <3>1 DEF Kept, Listed
    <3>4. x \notin ghost'.gap => Balanced(x)'
      BY <2>1, <3>1 DEF Kept, Balanced, TakenUp, TakenDown
    <3> QED  BY <3>2, <3>3, <3>4 DEF Kept
  <2> QED  BY <2>2, <2>3
<1>6. CASE FlushUpdate
  <2>1. /\ flush.pc = "update" /\ flush'.pc = "idle" /\ UNCHANGED <<hash, ghost>>
        /\ x \in flush.keys => /\ row'[x].u = flush.copy[x].u + flush.up[x]
                               /\ row'[x].d = flush.copy[x].d + flush.down[x]
        /\ x \notin flush.keys => row'[x] = row[x]
    BY <1>6, RestingType DEF FlushUpdate
  <2>2. Bounded(x)'
    BY <2>1 DEF Kept, Bounded, TakenUp, TakenDown
  <2>3. Listed(x)'
    BY <2>1 DEF Kept, Listed
  <2>4. x \notin ghost.gap => Balanced(x)'
    BY <2>1 DEF Kept, Balanced, Listed, TakenUp, TakenDown
  <2> QED  BY <2>1, <2>2, <2>3, <2>4 DEF Kept
<1>7. CASE FlushFail \/ FlushDie
  <2>1. /\ flush'.pc \in {"idle", "dead"} /\ UNCHANGED <<hash, row>>
        /\ ghost'.counted = ghost.counted /\ ghost'.erased = ghost.erased
        /\ ghost.gap \subseteq ghost'.gap /\ (x \in Forfeit => x \in ghost'.gap)
    BY <1>7, RestingType DEF FlushFail, FlushDie, History, FlushState
  <2>2. Bounded(x)'
    BY <2>1 DEF Kept, Bounded, TakenUp, TakenDown
  <2>3. Listed(x)'
    BY <2>1 DEF Kept, Listed
  <2>4. TakenUp(x) \in Nat /\ TakenDown(x) \in Nat
    BY DEF TakenUp, TakenDown
  <2>5. x \notin Forfeit => TakenUp(x) = 0 /\ TakenDown(x) = 0
    BY <2>4 DEF Forfeit
  <2>6. x \notin ghost'.gap => Balanced(x)'
    BY <2>1, <2>5 DEF Kept, Balanced, TakenUp, TakenDown
  <2> QED  BY <2>2, <2>3, <2>6 DEF Kept
<1>8. CASE MutexExpires
  <2>1. flush.pc = "dead" /\ flush'.pc = "idle" /\ UNCHANGED <<hash, row, ghost>>
    BY <1>8, RestingType DEF MutexExpires
  <2> QED  BY <2>1 DEF Kept, Bounded, Listed, Balanced, TakenUp, TakenDown
<1> QED  BY <1>0, <1>1, <1>2, <1>3, <1>4, <1>5, <1>6, <1>7, <1>8 DEF Flush

LEMMA EraseKept ==
  ASSUME TypeOK, NEW x \in Users, Kept(x), NEW S \in SUBSET Users, Erase(S)
  PROVE  Kept(x)'
<1> USE Numbers DEF TypeOK
<1>1. /\ UNCHANGED <<hash, flush>> /\ ghost'.counted = ghost.counted
      /\ ghost'.gap = IF flush.pc = "update" THEN ghost.gap \cup S ELSE ghost.gap
  BY DEF Erase, History
<1>2. CASE x \in S
  <2>1. row'[x].u = 0 /\ row'[x].d = 0
    BY <1>2 DEF Erase, None
  <2>2. /\ ghost'.erased[x].u = ghost.erased[x].u + row[x].u
        /\ ghost'.erased[x].d = ghost.erased[x].d + row[x].d
    BY <1>2 DEF Erase, History
  <2>3. Bounded(x)'
    BY <1>1, <2>1 DEF Kept, Bounded, TakenUp, TakenDown
  <2>4. Listed(x)'
    BY <1>1 DEF Kept, Listed
  <2>5. x \notin ghost'.gap => Balanced(x)'
    BY <1>1, <1>2, <2>1, <2>2 DEF Kept, Balanced, TakenUp, TakenDown
  <2> QED  BY <2>3, <2>4, <2>5 DEF Kept
<1>3. CASE x \notin S
  <2>1. row'[x] = row[x] /\ ghost'.erased[x] = ghost.erased[x]
    BY <1>3 DEF Erase, History
  <2>2. Bounded(x)'
    BY <1>1, <2>1 DEF Kept, Bounded, TakenUp, TakenDown
  <2>3. Listed(x)'
    BY <1>1 DEF Kept, Listed
  <2>4. x \notin ghost'.gap => Balanced(x)'
    BY <1>1, <2>1 DEF Kept, Balanced, TakenUp, TakenDown
  <2> QED  BY <2>2, <2>3, <2>4 DEF Kept
<1> QED  BY <1>2, <1>3

LEMMA StepKept ==
  ASSUME TypeOK, Reading, NEW x \in Users, Kept(x), [Next]_vars
  PROVE  Kept(x)'
<1>1. ASSUME NEW S \in SUBSET Users, ResetWrite(S) PROVE Kept(x)'
  BY <1>1, EraseKept DEF ResetWrite
<1>2. ASSUME NEW y \in Users, ResetUser(y) PROVE Kept(x)'
  <2>1. {y} \in SUBSET Users
    OBVIOUS
  <2> QED  BY <1>2, <2>1, EraseKept DEF ResetUser
<1>3. CASE ResetStart \/ ResetEnd \/ ResetAbort \/ LockExpires \/ UNCHANGED vars
  BY <1>3, Undisturbed DEF ResetStart, ResetEnd, ResetAbort, LockExpires, vars
<1> QED  BY <1>1, <1>2, <1>3, FetchKept, FlushKept DEF Next

LEMMA InitKept == ASSUME Init, NEW x \in Users PROVE Kept(x)
  BY ZeroType, RestingType DEF Init, Kept, Bounded, Listed, Balanced, TakenUp, TakenDown, None

LEMMA AllKept == Spec => [](\A x \in Users : Kept(x))
<1>1. Init => \A x \in Users : Kept(x)
  BY InitKept
<1>2. TypeOK /\ Reading /\ (\A x \in Users : Kept(x)) /\ [Next]_vars => (\A x \in Users : Kept(x))'
  BY StepKept
<1> QED  BY <1>1, <1>2, TypeCorrect, PTL DEF Spec

\* No interleaving of jobs, updates, failures and resets charges a user more
\* than was counted for him.
THEOREM NeverOvercharged == Spec => []NotOvercharged
<1>1. (\A x \in Users : Kept(x)) => NotOvercharged
  BY DEF Kept, Bounded, NotOvercharged
<1> QED  BY <1>1, AllKept, PTL

\* Outside the windows in which traffic:update loses traffic or undoes a
\* reset, everything counted is still to be written, written or reset.
THEOREM TrafficAccounted == Spec => []Accounted
<1>1. (\A x \in Users : Kept(x)) => Accounted
  BY DEF Kept, Balanced, Accounted
<1> QED  BY <1>1, AllKept, PTL

-----------------------------------------------------------------------------
(* While no job dies, every report is counted once: what was counted for a   *)
(* user and what the jobs still have to count for him add up to what was     *)
(* reported.                                                                 *)

\* What the job j still has to add to the hashes for user x.
DueUp(j, x) ==
  IF \/ j.state = "queued" /\ x \in DOMAIN j.load
     \/ j.state = "running" /\ x \in j.todo /\ j.half # x
  THEN j.load[x].u ELSE 0

DueDown(j, x) ==
  IF \/ j.state = "queued" /\ x \in DOMAIN j.load
     \/ j.state = "running" /\ x \in j.todo
  THEN j.load[x].d ELSE 0

OwedUp(x)   == SumFunctionOnSet([r \in Reports |-> DueUp(job[r], x)], Reports)
OwedDown(x) == SumFunctionOnSet([r \in Reports |-> DueDown(job[r], x)], Reports)

Settling(x) ==
  /\ ghost.counted[x].u + OwedUp(x) = ghost.reported[x].u
  /\ ghost.counted[x].d + OwedDown(x) = ghost.reported[x].d

LEMMA DueType ==
  ASSUME TypeOK, Reading, NEW r \in Reports, NEW x \in Users
  PROVE  DueUp(job[r], x) \in Nat /\ DueDown(job[r], x) \in Nat
<1>1. job[r].state \in {"queued", "running"} /\ x \in DOMAIN job[r].load => job[r].load[x] \in Usage
  BY TrafficAssumption DEF Reading
<1>2. job[r].state = "running" => job[r].todo \subseteq DOMAIN job[r].load
  BY DEF Reading
<1> QED  BY <1>1, <1>2 DEF DueUp, DueDown, Usage

LEMMA NextDueType ==
  ASSUME TypeOK', Reading', NEW r \in Reports, NEW x \in Users
  PROVE  DueUp(job'[r], x) \in Nat /\ DueDown(job'[r], x) \in Nat
<1>1. job'[r].state \in {"queued", "running"} /\ x \in DOMAIN job'[r].load => job'[r].load[x] \in Usage
  BY TrafficAssumption DEF Reading
<1>2. job'[r].state = "running" => job'[r].todo \subseteq DOMAIN job'[r].load
  BY DEF Reading
<1> QED  BY <1>1, <1>2 DEF DueUp, DueDown, Usage

LEMMA OwedType ==
  ASSUME TypeOK, Reading, NEW x \in Users
  PROVE  OwedUp(x) \in Nat /\ OwedDown(x) \in Nat
<1>1. IsFiniteSet(Reports)
  BY TrafficAssumption
<1>2. \A r \in Reports : DueUp(job[r], x) \in Nat /\ DueDown(job[r], x) \in Nat
  BY DueType
<1>3. /\ \A r \in Reports : [q \in Reports |-> DueUp(job[q], x)][r] \in Nat
      /\ \A r \in Reports : [q \in Reports |-> DueDown(job[q], x)][r] \in Nat
  BY <1>2
<1> QED  BY <1>1, <1>3, SumType DEF OwedUp, OwedDown

\* A step of one job changes what is owed by what that job owes.
LEMMA OwedStep ==
  ASSUME TypeOK, Reading, TypeOK', Reading', NEW x \in Users, NEW r \in Reports,
         \A q \in Reports \ {r} : job'[q] = job[q]
  PROVE  /\ OwedUp(x)' = OwedUp(x) + (DueUp(job'[r], x) - DueUp(job[r], x))
         /\ OwedDown(x)' = OwedDown(x) + (DueDown(job'[r], x) - DueDown(job[r], x))
<1> DEFINE hu == [q \in Reports |-> DueUp(job[q], x)]
           hd == [q \in Reports |-> DueDown(job[q], x)]
           ku == [q \in Reports |-> DueUp(job'[q], x)]
           kd == [q \in Reports |-> DueDown(job'[q], x)]
<1>1. \A q \in Reports : /\ DueUp(job[q], x) \in Nat /\ DueDown(job[q], x) \in Nat
                         /\ DueUp(job'[q], x) \in Nat /\ DueDown(job'[q], x) \in Nat
  BY DueType, NextDueType
<1>2. \A q \in Reports \ {r} : DueUp(job'[q], x) = DueUp(job[q], x) /\ DueDown(job'[q], x) = DueDown(job[q], x)
  BY DEF DueUp, DueDown
<1>3. /\ \A q \in Reports : hu[q] \in Int /\ ku[q] \in Int
      /\ \A q \in Reports \ {r} : ku[q] = hu[q]
  BY <1>1, <1>2
<1>4. /\ \A q \in Reports : hd[q] \in Int /\ kd[q] \in Int
      /\ \A q \in Reports \ {r} : kd[q] = hd[q]
  BY <1>1, <1>2
<1>5. /\ hu[r] = DueUp(job[r], x) /\ ku[r] = DueUp(job'[r], x) /\ hd[r] = DueDown(job[r], x) /\ kd[r] = DueDown(job'[r], x)
  BY <1>1, <1>2
<1>6. /\ OwedUp(x) = SumFunctionOnSet(hu, Reports) /\ OwedUp(x)' = SumFunctionOnSet(ku, Reports)
      /\ OwedDown(x) = SumFunctionOnSet(hd, Reports) /\ OwedDown(x)' = SumFunctionOnSet(kd, Reports)
  BY DEF OwedUp, OwedDown
<1>7. IsFiniteSet(Reports)
  BY TrafficAssumption
<1> HIDE DEF hu, hd, ku, kd
<1>8. SumFunctionOnSet(ku, Reports) = SumFunctionOnSet(hu, Reports) + (ku[r] - hu[r])
  BY <1>3, <1>7, SumChange
<1>9. SumFunctionOnSet(kd, Reports) = SumFunctionOnSet(hd, Reports) + (kd[r] - hd[r])
  BY <1>4, <1>7, SumChange
<1> QED  BY <1>6, <1>8, <1>9, <1>5

LEMMA Counts ==
  ASSUME TypeOK, NEW x \in Users
  PROVE  /\ ghost.counted[x] \in Usage /\ ghost.reported[x] \in Usage
         /\ ghost.counted[x].u \in Nat /\ ghost.counted[x].d \in Nat
         /\ ghost.reported[x].u \in Nat /\ ghost.reported[x].d \in Nat
  BY DEF TypeOK, History, Usage

\* What an action has to show: the job's debt falls by what it counts and
\* rises by what it is told.
LEMMA Settles ==
  ASSUME TypeOK, Reading, TypeOK', Reading', NEW x \in Users, Settling(x), NEW r \in Reports,
         \A q \in Reports \ {r} : job'[q] = job[q],
         DueUp(job'[r], x) + ghost'.counted[x].u + ghost.reported[x].u
           = DueUp(job[r], x) + ghost.counted[x].u + ghost'.reported[x].u,
         DueDown(job'[r], x) + ghost'.counted[x].d + ghost.reported[x].d
           = DueDown(job[r], x) + ghost.counted[x].d + ghost'.reported[x].d
  PROVE  Settling(x)'
<1>1. /\ OwedUp(x)' = OwedUp(x) + (DueUp(job'[r], x) - DueUp(job[r], x))
      /\ OwedDown(x)' = OwedDown(x) + (DueDown(job'[r], x) - DueDown(job[r], x))
  BY OwedStep
<1>2. /\ DueUp(job[r], x) \in Nat /\ DueDown(job[r], x) \in Nat
      /\ DueUp(job'[r], x) \in Nat /\ DueDown(job'[r], x) \in Nat
  BY DueType, NextDueType
<1>3. OwedUp(x) \in Nat /\ OwedDown(x) \in Nat
  BY OwedType
<1>4. /\ ghost'.counted[x].u \in Nat /\ ghost'.counted[x].d \in Nat
      /\ ghost'.reported[x].u \in Nat /\ ghost'.reported[x].d \in Nat
  BY DEF TypeOK, History, Usage
<1> QED  BY <1>1, <1>2, <1>3, <1>4, Counts DEF Settling

LEMMA FetchSettles ==
  ASSUME TypeOK, Reading, TypeOK', Reading', NEW x \in Users, Settling(x), NEW r \in Reports,
         Fetch(r) \/ \E load \in Loads : Push(r, load)
  PROVE  Settling(x)'
<1>1. job[r] \in JobRow /\ job \in [Reports -> JobRow]
  BY DEF TypeOK
<1>2. DueUp(job[r], x) \in Nat /\ DueDown(job[r], x) \in Nat
  BY DueType
<1>3. ASSUME NEW load \in Loads, Push(r, load) PROVE Settling(x)'
  <2>1. job'[r].state = "queued" /\ job'[r].load = load /\ \A q \in Reports \ {r} : job'[q] = job[q]
    BY <1>1, <1>3 DEF Push
  <2>2. DueUp(job[r], x) = 0 /\ DueDown(job[r], x) = 0
    BY <1>3 DEF Push, DueUp, DueDown
  <2>3. CASE x \in DOMAIN load
    <3>1. DueUp(job'[r], x) = load[x].u /\ DueDown(job'[r], x) = load[x].d
      BY <2>1, <2>3 DEF DueUp, DueDown
    <3>2. load[x] \in Usage
      BY <2>3, TrafficAssumption
    <3>3. /\ ghost'.counted = ghost.counted
          /\ ghost'.reported[x] = [u |-> ghost.reported[x].u + load[x].u, d |-> ghost.reported[x].d + load[x].d]
      BY <1>3, <2>3 DEF Push, TypeOK, History
    <3>4. load[x].u \in Nat /\ load[x].d \in Nat
      BY <3>2 DEF Usage
    <3>5. ghost'.reported[x].u = ghost.reported[x].u + load[x].u /\ ghost'.reported[x].d = ghost.reported[x].d + load[x].d
      BY <3>3
    <3>6. /\ DueUp(job'[r], x) + ghost'.counted[x].u + ghost.reported[x].u
               = DueUp(job[r], x) + ghost.counted[x].u + ghost'.reported[x].u
          /\ DueDown(job'[r], x) + ghost'.counted[x].d + ghost.reported[x].d
               = DueDown(job[r], x) + ghost.counted[x].d + ghost'.reported[x].d
      BY <2>2, <3>1, <3>3, <3>4, <3>5, Counts
    <3> QED  BY <2>1, <3>6, Settles
  <2>4. CASE x \notin DOMAIN load
    <3>1. DueUp(job'[r], x) = 0 /\ DueDown(job'[r], x) = 0
      BY <2>1, <2>4 DEF DueUp, DueDown
    <3>2. ghost'.counted = ghost.counted /\ ghost'.reported[x] = ghost.reported[x]
      BY <1>3, <2>4 DEF Push, TypeOK, History
    <3> QED  BY <2>1, <2>2, <3>1, <3>2, Counts, Settles
  <2> QED  BY <2>3, <2>4
<1>4. CASE FetchStart(r)
  <2>1. /\ job'[r].state = "running" /\ job'[r].load = job[r].load
        /\ job'[r].todo = DOMAIN job[r].load /\ job'[r].half = NoUser
        /\ \A q \in Reports \ {r} : job'[q] = job[q]
    BY <1>1, <1>4 DEF FetchStart
  <2>2. job[r].state = "queued" /\ ghost' = ghost /\ x # NoUser
    BY <1>4, TrafficAssumption DEF FetchStart
  <2>3. DueUp(job'[r], x) = DueUp(job[r], x) /\ DueDown(job'[r], x) = DueDown(job[r], x)
    BY <2>1, <2>2 DEF DueUp, DueDown
  <2> QED  BY <2>1, <2>2, <2>3, Settles
<1>5. ASSUME NEW y \in Users, FetchUp(r, y) PROVE Settling(x)'
  <2>1. /\ job[r].state = "running" /\ job[r].half = NoUser /\ y \in job[r].todo
        /\ job'[r].state = "running" /\ job'[r].load = job[r].load
        /\ job'[r].todo = job[r].todo /\ job'[r].half = y
        /\ \A q \in Reports \ {r} : job'[q] = job[q]
    BY <1>1, <1>5 DEF FetchUp, JobRow
  <2>2. x # NoUser
    BY TrafficAssumption
  <2>3. /\ ghost'.counted = [ghost.counted EXCEPT ![y].u = ghost.counted[y].u + job[r].load[y].u]
        /\ ghost'.reported = ghost.reported
    BY <1>5 DEF FetchUp, TypeOK, History
  <2>4. DueDown(job'[r], x) = DueDown(job[r], x)
    BY <2>1 DEF DueDown
  <2>5. CASE x = y
    <3>1. DueUp(job[r], x) = job[r].load[x].u /\ DueUp(job'[r], x) = 0
      BY <2>1, <2>2, <2>5 DEF DueUp
    <3>2. ghost'.counted[x].u = ghost.counted[x].u + job[r].load[x].u /\ ghost'.counted[x].d = ghost.counted[x].d
      BY <2>3, <2>5 DEF TypeOK, History, Usage
    <3>3. /\ DueUp(job'[r], x) + ghost'.counted[x].u + ghost.reported[x].u
               = DueUp(job[r], x) + ghost.counted[x].u + ghost'.reported[x].u
          /\ DueDown(job'[r], x) + ghost'.counted[x].d + ghost.reported[x].d
               = DueDown(job[r], x) + ghost.counted[x].d + ghost'.reported[x].d
      BY <1>2, <2>3, <2>4, <3>1, <3>2, Counts
    <3> QED  BY <2>1, <3>3, Settles
  <2>6. CASE x # y
    <3>1. DueUp(job'[r], x) = DueUp(job[r], x)
      BY <2>1, <2>2, <2>6 DEF DueUp
    <3>2. ghost'.counted[x] = ghost.counted[x]
      BY <2>3, <2>6 DEF TypeOK, History
    <3> QED  BY <2>1, <2>3, <2>4, <3>1, <3>2, Settles
  <2> QED  BY <2>5, <2>6
<1>6. CASE FetchDown(r)
  <2> DEFINE y == job[r].half
  <2>1. /\ job[r].state = "running" /\ y # NoUser /\ y \in job[r].todo
        /\ job'[r].state = "running" /\ job'[r].load = job[r].load
        /\ job'[r].todo = job[r].todo \ {y} /\ job'[r].half = NoUser
        /\ \A q \in Reports \ {r} : job'[q] = job[q]
    BY <1>1, <1>6 DEF FetchDown, JobRow, Reading
  <2>2. x # NoUser
    BY TrafficAssumption
  <2>3. /\ ghost'.counted = [ghost.counted EXCEPT ![y].d = ghost.counted[y].d + job[r].load[y].d]
        /\ ghost'.reported = ghost.reported
    BY <1>6 DEF FetchDown, TypeOK, History
  <2>4. DueUp(job'[r], x) = DueUp(job[r], x)
    BY <2>1, <2>2 DEF DueUp
  <2>5. CASE x = y
    <3>1. DueDown(job[r], x) = job[r].load[x].d /\ DueDown(job'[r], x) = 0
      BY <2>1, <2>2, <2>5 DEF DueDown
    <3>2. ghost'.counted[x].d = ghost.counted[x].d + job[r].load[x].d /\ ghost'.counted[x].u = ghost.counted[x].u
      BY <2>3, <2>5 DEF TypeOK, History, Usage
    <3>3. /\ DueUp(job'[r], x) + ghost'.counted[x].u + ghost.reported[x].u
               = DueUp(job[r], x) + ghost.counted[x].u + ghost'.reported[x].u
          /\ DueDown(job'[r], x) + ghost'.counted[x].d + ghost.reported[x].d
               = DueDown(job[r], x) + ghost.counted[x].d + ghost'.reported[x].d
      BY <1>2, <2>3, <2>4, <3>1, <3>2, Counts
    <3> QED  BY <2>1, <3>3, Settles
  <2>6. CASE x # y
    <3>1. DueDown(job'[r], x) = DueDown(job[r], x)
      BY <2>1, <2>2, <2>6 DEF DueDown
    <3>2. ghost'.counted[x] = ghost.counted[x]
      BY <2>3, <2>6 DEF TypeOK, History
    <3> QED  BY <2>1, <2>3, <2>4, <3>1, <3>2, Settles
  <2> QED  BY <2>5, <2>6
<1>7. CASE FetchDone(r)
  <2>1. /\ job[r].state = "running" /\ job[r].todo = {} /\ job'[r].state = "done" /\ ghost' = ghost
        /\ \A q \in Reports \ {r} : job'[q] = job[q]
    BY <1>1, <1>7 DEF FetchDone, JobRow
  <2>2. DueUp(job'[r], x) = DueUp(job[r], x) /\ DueDown(job'[r], x) = DueDown(job[r], x)
    BY <2>1 DEF DueUp, DueDown
  <2> QED  BY <2>1, <2>2, Settles
<1> QED  BY <1>3, <1>4, <1>5, <1>6, <1>7 DEF Fetch

\* Nothing else touches the jobs, what they counted or what was reported.
LEMMA OtherSettles ==
  ASSUME TypeOK, Reading, NEW x \in Users, Settling(x),
         \/ FlushStart \/ Flush \/ FlushFail \/ FlushDie
         \/ ResetStart \/ ResetEnd \/ ResetAbort \/ LockExpires
         \/ \E S \in SUBSET Users : ResetWrite(S)
         \/ \E y \in Users : ResetUser(y)
         \/ UNCHANGED vars
  PROVE  Settling(x)'
<1>1. job' = job
  BY OtherTyped
<1>2. ghost'.counted = ghost.counted /\ ghost'.reported = ghost.reported
  BY DEF FlushStart, Flush, FlushUploads, FlushDelUp, FlushDownloads, FlushDelDown,
         FlushUsers, FlushUpdate, MutexExpires, FlushFail, FlushDie, ResetStart, ResetEnd, ResetAbort, LockExpires,
         ResetWrite, ResetUser, Erase, vars, TypeOK, History
<1>3. OwedUp(x)' = OwedUp(x) /\ OwedDown(x)' = OwedDown(x)
  BY <1>1 DEF OwedUp, OwedDown
<1> QED  BY <1>2, <1>3 DEF Settling

Settled == failures = 0 => \A x \in Users : Settling(x)

LEMMA InitSettled == ASSUME Init PROVE Settled
<1> SUFFICES ASSUME NEW x \in Users PROVE Settling(x)
  BY DEF Settled
<1> DEFINE h == [r \in Reports |-> 0]
<1>1. OwedUp(x) = SumFunctionOnSet(h, Reports) /\ OwedDown(x) = SumFunctionOnSet(h, Reports)
  BY DEF Init, NoJob, OwedUp, OwedDown, DueUp, DueDown
<1>2. IsFiniteSet(Reports) /\ \A r \in Reports : h[r] \in Int
  BY TrafficAssumption
<1>3. SumFunctionOnSet(h, Reports) = 0
  <2> HIDE DEF h
  <2>1. \A r \in Reports : h[r] = 0
    BY DEF h
  <2> QED  BY <1>2, <2>1, SumZero
<1>4. ghost.counted[x] = None /\ ghost.reported[x] = None /\ None.u = 0 /\ None.d = 0
  BY DEF Init, None
<1> QED  BY <1>1, <1>3, <1>4 DEF Settling

LEMMA SettledStep ==
  ASSUME TypeOK, Reading, TypeOK', Reading', Settled, [Next]_vars
  PROVE  Settled'
<1> SUFFICES ASSUME failures' = 0, NEW x \in Users PROVE Settling(x)'
  BY DEF Settled
<1>1. CASE failures = 0
  <2>1. Settling(x)
    BY <1>1 DEF Settled
  <2>2. ASSUME NEW r \in Reports, FetchDie(r) PROVE FALSE
    BY <1>1, <2>2 DEF FetchDie, Fail
  <2> QED  BY <2>1, <2>2, FetchSettles, OtherSettles DEF Next
<1>2. CASE failures # 0
  <2>1. failures' = failures \/ Fail
    BY DEF Next, Push, Fetch, FetchStart, FetchUp, FetchDown, FetchDone, FetchDie,
           FlushStart, Flush, FlushUploads, FlushDelUp, FlushDownloads, FlushDelDown,
           FlushUsers, FlushUpdate, MutexExpires, FlushFail, FlushDie, ResetStart, ResetEnd, ResetAbort, LockExpires,
           ResetWrite, ResetUser, Erase, vars
  <2> QED  BY <1>2, <2>1 DEF Fail, TypeOK
<1> QED  BY <1>1, <1>2

\* As long as no job dies, no report is counted twice for any of its users.
THEOREM CountedAtMostOnce == Spec => []CountedOnce
<1>1. Init => Settled
  BY InitSettled
<1>2. TypeOK /\ Reading /\ (TypeOK /\ Reading)' /\ Settled /\ [Next]_vars => Settled'
  BY SettledStep
<1>3. TypeOK /\ Reading /\ Settled => CountedOnce
  BY OwedType, Counts DEF Settled, Settling, CountedOnce
<1> QED  BY <1>1, <1>2, <1>3, TypeCorrect, PTL DEF Spec

-----------------------------------------------------------------------------
(* What traffic:update writes is never less than what is there. *)

\* The copy may be newer than a row that was reset since, and never older.
Fresh(x) == flush.pc = "update" => row[x].u <= flush.copy[x].u /\ row[x].d <= flush.copy[x].d

Grown(x) == \/ row'[x] = None
            \/ row'[x].u >= row[x].u /\ row'[x].d >= row[x].d

LEMMA Amount ==
  ASSUME TypeOK, NEW x \in Users
  PROVE  /\ row[x].u \in Nat /\ row[x].d \in Nat
         /\ flush.copy[x].u \in Nat /\ flush.copy[x].d \in Nat
         /\ flush.up[x] \in Nat /\ flush.down[x] \in Nat
  BY DEF TypeOK, Usage, FlushState

LEMMA EraseFresh ==
  ASSUME TypeOK, NEW S \in SUBSET Users, NEW x \in Users, Fresh(x), Erase(S)
  PROVE  Fresh(x)' /\ Grown(x)
<1>1. flush' = flush /\ (row'[x] = None \/ row'[x] = row[x])
  BY DEF Erase
<1>2. None.u = 0 /\ None.d = 0
  BY DEF None
<1> QED  BY <1>1, <1>2, Amount DEF Fresh, Grown

LEMMA FreshKept ==
  ASSUME TypeOK, NEW x \in Users, Fresh(x), [Next]_vars
  PROVE  Fresh(x)' /\ Grown(x)
<1>1. CASE UNCHANGED <<row, flush>>
  BY <1>1, Amount DEF Fresh, Grown
<1>2. ASSUME NEW r \in Reports, Fetch(r) \/ FetchDie(r) \/ \E load \in Loads : Push(r, load)
      PROVE  UNCHANGED <<row, flush>>
  BY <1>2 DEF Fetch, FetchStart, FetchUp, FetchDown, FetchDone, FetchDie, Push
<1>3. CASE ResetStart \/ ResetEnd \/ ResetAbort \/ LockExpires \/ UNCHANGED vars
  BY <1>1, <1>3 DEF ResetStart, ResetEnd, ResetAbort, LockExpires, vars
<1>4. ASSUME NEW S \in SUBSET Users, ResetWrite(S) PROVE Fresh(x)' /\ Grown(x)
  BY <1>4, EraseFresh DEF ResetWrite
<1>5. ASSUME NEW y \in Users, ResetUser(y) PROVE Fresh(x)' /\ Grown(x)
  <2>1. {y} \in SUBSET Users
    OBVIOUS
  <2> QED  BY <1>5, <2>1, EraseFresh DEF ResetUser
<1>6. CASE FlushStart \/ FlushUploads \/ FlushDelUp \/ FlushDownloads \/ FlushDelDown
  <2>1. row' = row /\ flush'.pc # "update"
    BY <1>6 DEF FlushStart, FlushUploads, FlushDelUp, FlushDownloads, FlushDelDown, TypeOK, FlushState
  <2> QED  BY <2>1, Amount DEF Fresh, Grown
<1>7. CASE FlushFail \/ FlushDie \/ MutexExpires
  <2>1. row' = row /\ flush'.pc # "update"
    BY <1>7, RestingType DEF FlushFail, FlushDie, MutexExpires, TypeOK, FlushState
  <2> QED  BY <2>1, Amount DEF Fresh, Grown
<1>8. CASE FlushUsers
  <2>1. row' = row /\ (flush'.pc = "update" => flush'.copy = row)
    BY <1>8, RestingType DEF FlushUsers, TypeOK, FlushState
  <2> QED  BY <2>1, Amount DEF Fresh, Grown
<1>9. CASE FlushUpdate
  <2>1. flush'.pc # "update" /\ flush.pc = "update"
    BY <1>9, RestingType DEF FlushUpdate
  <2>2. row'[x] = IF x \in flush.keys
                  THEN [u |-> flush.copy[x].u + flush.up[x], d |-> flush.copy[x].d + flush.down[x]]
                  ELSE row[x]
    BY <1>9 DEF FlushUpdate
  <2> QED  BY <2>1, <2>2, Amount DEF Fresh, Grown
<1> QED  BY <1>1, <1>2, <1>3, <1>4, <1>5, <1>6, <1>7, <1>8, <1>9 DEF Next, Flush

\* Whatever jobs, updates and failures do, a user's usage goes down only by a
\* reset: traffic:update starts from a copy that no one has added to since.
THEOREM NeverLess == Spec => UsageGrows
<1> DEFINE AllFresh == \A x \in Users : Fresh(x)
           AllGrown == \A x \in Users : \/ row'[x] = None
                                        \/ row'[x].u >= row[x].u /\ row'[x].d >= row[x].d
<1>1. Init => AllFresh
  BY RestingType DEF Init, Fresh
<1>2. TypeOK /\ AllFresh /\ [Next]_vars => AllFresh' /\ AllGrown
  BY FreshKept DEF Grown
<1>3. Spec => []AllFresh
  BY <1>1, <1>2, TypeCorrect, PTL DEF Spec
<1>4. TypeOK /\ AllFresh /\ [Next]_vars => [AllGrown]_vars
  BY <1>2
<1> QED  BY <1>3, <1>4, TypeCorrect, PTL DEF Spec, UsageGrows
=============================================================================
