--------------------------- MODULE SessionsProofs ---------------------------
(***************************************************************************)
(* Proofs about Sessions, for any sets of sessions, codes and processes    *)
(* and any number of changes, failures and stalls.                         *)
(***************************************************************************)
EXTENDS Sessions, TLAPS

-----------------------------------------------------------------------------
(* The states of processes *)

LEMMA IdleState ==
  /\ Idle \in ProcState
  /\ Idle.pc = "idle" /\ Idle.then = "end" /\ Idle.code = Nobody
  BY SessionsAssumption DEF Idle, ProcState, Points, Row, FirstRow

\* Codes are named where they are used, and a transaction that will commit has
\* locked the row: the others wait, and there is room for the change.
Placed ==
  \A p \in Procs :
    /\ proc[p].pc \in {"code", "pulled", "check"} => proc[p].code \in Codes
    /\ proc[p].pc = "commit" => proc[p].then = "commit"
    /\ proc[p].then = "commit" => /\ ghost.version < MaxChanges
                                  /\ \A q \in Procs : proc[q].then = "commit" => q = p

LEMMA Turn ==
  ASSUME TypeOK, Placed, NEW p \in Procs, NEW st \in ProcState, Become(p, st),
         st.pc \in {"code", "pulled", "check"} => st.code \in Codes,
         st.pc = "commit" => st.then = "commit",
         st.then = "commit" => /\ ghost.version < MaxChanges /\ ghost'.version = ghost.version
                               /\ RowFree \/ proc[p].then = "commit",
         \/ ghost'.version = ghost.version \/ RowFree
         \/ proc[p].then = "commit" /\ st.then = "end"
  PROVE  /\ proc' \in [Procs -> ProcState]
         /\ Placed'
<1> USE DEF Become
<1>1. proc' \in [Procs -> ProcState]
  BY DEF TypeOK
<1>2. proc'[p] = st /\ \A q \in Procs \ {p} : proc'[q] = proc[q]
  BY DEF TypeOK
<1>3. ASSUME NEW q \in Procs
      PROVE  /\ proc'[q].pc \in {"code", "pulled", "check"} => proc'[q].code \in Codes
             /\ proc'[q].pc = "commit" => proc'[q].then = "commit"
  BY <1>2 DEF Placed
<1>4. ASSUME NEW q \in Procs, proc'[q].then = "commit"
      PROVE  /\ ghost'.version < MaxChanges
             /\ \A o \in Procs : proc'[o].then = "commit" => o = q
  <2>1. CASE q = p
    BY <1>2, <1>4, <2>1 DEF Placed, RowFree
  <2>2. CASE q # p
    BY <1>2, <1>4, <2>2 DEF Placed, RowFree
  <2> QED  BY <2>1, <2>2
<1> QED  BY <1>1, <1>3, <1>4 DEF Placed
-----------------------------------------------------------------------------
(* Types *)

LEMMA InitTyped == ASSUME Init PROVE TypeOK /\ Placed
<1> USE SessionsAssumption, IdleState DEF Init
<1>1. row \in Row /\ Unset \in Bound
  BY DEF Row, FirstRow, Unset, Bound, Hash, Hashes
<1>2. ghost \in History
  BY DEF History
<1>3. Placed
  BY DEF Placed
<1> QED  BY <1>1, <1>2, <1>3 DEF TypeOK

LEMMA HashType == \A r \in Row : Hash(r) \in Hashes
  BY DEF Row, Hash, Hashes

\* What an action leaves alone when it changes one process, the lock and the
\* count of failures at most.
LEMMA IssueTyped ==
  ASSUME TypeOK, Placed, NEW p \in Procs, NEW s \in Sessions, NEW v \in Nat, NEW app \in {0, 1},
         Issue(p, s, row, v, app), ghost'.version = ghost.version
  PROVE  /\ meta' \in [Sessions -> Bound]
         /\ proc' \in [Procs -> ProcState] /\ Placed'
<1> DEFINE st == [Idle EXCEPT !.pc = "register", !.session = s]
<1>1. st \in ProcState
  BY IdleState DEF Points, ProcState
<1>2. st.pc = "register" /\ st.then = "end"
  BY IdleState DEF ProcState
<1>3. Become(p, st)
  BY DEF Issue
<1> HIDE DEF st
<1>4. proc' \in [Procs -> ProcState] /\ Placed'
  BY <1>1, <1>2, <1>3, Turn
<1>5. [hash |-> Hash(row), version |-> v, app |-> app] \in Bound
  BY HashType DEF TypeOK, Bound
<1> QED  BY <1>4, <1>5 DEF Issue, TypeOK

\* A process that is done, or dies.
LEMMA Ends ==
  ASSUME TypeOK, Placed, NEW p \in Procs, Become(p, Idle),
         ghost'.version = ghost.version \/ RowFree \/ proc[p].then = "commit"
  PROVE  proc' \in [Procs -> ProcState] /\ Placed'
  BY Turn, IdleState

\* A handler goes on: it keeps its code, and commits only if it was to commit.
LEMMA GoesOn ==
  ASSUME TypeOK, Placed, NEW p \in Procs, ghost'.version = ghost.version,
         NEW st \in ProcState, Become(p, st),
         st.pc \in {"code", "pulled", "check"} => st.code \in Codes,
         st.pc = "commit" => st.then = "commit",
         st.then = "commit" => proc[p].then = "commit"
  PROVE  proc' \in [Procs -> ProcState] /\ Placed'
<1>1. st.then = "commit" => /\ ghost.version < MaxChanges /\ ghost'.version = ghost.version
                            /\ RowFree \/ proc[p].then = "commit"
  BY DEF Placed
<1> QED  BY <1>1, Turn

\* A login, with a password or with a code.
LEMMA LoginTyped ==
  ASSUME TypeOK, Placed, NEW p \in Procs,
         \/ \E s \in Sessions, app \in {0, 1} : Login(p, s, app)
         \/ \E c \in Codes : CodeRead(p, c)
         \/ \E c \in Codes, s \in Sessions : RedeemGet(p, c, s)
         \/ CodePut(p) \/ RedeemForget(p) \/ RedeemCheck(p)
         \/ RegisterLock(p) \/ RegisterApp(p) \/ RegisterPut(p) \/ RegisterFail(p)
  PROVE  TypeOK' /\ Placed'
<1> USE DEF TypeOK, At, Goto
<1>0. proc[p] \in ProcState /\ ghost.version \in Nat
  BY SessionsAssumption DEF History
<1>1. ASSUME NEW s \in Sessions, NEW app \in {0, 1}, Login(p, s, app)
      PROVE  TypeOK' /\ Placed'
  <2>1. ghost' \in History /\ ghost'.version = ghost.version
    BY <1>1 DEF Login, History
  <2>2. meta' \in [Sessions -> Bound] /\ proc' \in [Procs -> ProcState] /\ Placed'
    BY <1>0, <1>1, <2>1, IssueTyped DEF Login
  <2> QED  BY <1>1, <2>1, <2>2 DEF Login
<1>2. ASSUME NEW c \in Codes, CodeRead(p, c)
      PROVE  TypeOK' /\ Placed'
  <2> DEFINE st == [Idle EXCEPT !.pc = "code", !.code = c, !.copy = row, !.version = ghost.version]
  <2>1. ghost' \in History /\ ghost'.version = ghost.version
    BY <1>2 DEF CodeRead, History
  <2>2. st \in ProcState /\ st.code = c /\ st.pc = "code" /\ st.then = "end"
    BY <1>0, IdleState DEF ProcState, Points
  <2>3. Become(p, st)
    BY <1>2 DEF CodeRead
  <2> HIDE DEF st
  <2>4. proc' \in [Procs -> ProcState] /\ Placed'
    BY <2>1, <2>2, <2>3, Turn
  <2> QED  BY <1>2, <2>1, <2>4 DEF CodeRead
<1>3. ASSUME NEW c \in Codes, NEW s \in Sessions, RedeemGet(p, c, s)
      PROVE  TypeOK' /\ Placed'
  <2> DEFINE st == [Idle EXCEPT !.pc = "pulled", !.code = c, !.session = s]
  <2>1. ghost' \in History /\ ghost'.version = ghost.version
    BY <1>3 DEF RedeemGet, History
  <2>2. st \in ProcState /\ st.code = c /\ st.pc = "pulled" /\ st.then = "end"
    BY IdleState DEF ProcState, Points
  <2>3. Become(p, st)
    BY <1>3 DEF RedeemGet
  <2> HIDE DEF st
  <2>4. proc' \in [Procs -> ProcState] /\ Placed'
    BY <2>1, <2>2, <2>3, Turn
  <2> QED  BY <1>3, <2>1, <2>4 DEF RedeemGet
<1>4. CASE CodePut(p)
  <2>1. proc[p].code \in Codes
    BY <1>4 DEF CodePut, Placed
  <2>2. [hash |-> Hash(proc[p].copy), version |-> proc[p].version, app |-> 0] \in Bound
    BY <1>0, HashType DEF ProcState, Bound
  <2>3. proc' \in [Procs -> ProcState] /\ Placed'
    BY <1>4, Ends DEF CodePut
  <2> QED  BY <1>4, <2>1, <2>2, <2>3 DEF CodePut
<1>5. CASE RedeemForget(p)
  <2>1. proc[p].code \in Codes
    BY <1>5 DEF RedeemForget, Placed
  <2> DEFINE st == [proc[p] EXCEPT !.pc = "check"]
  <2>3. /\ st \in ProcState /\ st.pc = "check"
        /\ st.code = proc[p].code /\ (st.then = "commit" => proc[p].then = "commit")
    BY <1>0 DEF ProcState, Points
  <2>4. Become(p, st) /\ ghost'.version = ghost.version
    BY <1>5 DEF RedeemForget
  <2> HIDE DEF st
  <2>2. proc' \in [Procs -> ProcState] /\ Placed'
    BY <2>1, <2>3, <2>4, GoesOn
  <2> QED  BY <1>5, <2>2 DEF RedeemForget
<1>6. CASE RedeemCheck(p)
  <2> DEFINE c == proc[p].code
  <2>1. c \in Codes /\ codeMeta[c].version \in Nat /\ proc[p].session \in Sessions
    BY <1>0, <1>6 DEF RedeemCheck, Placed, Bound, ProcState
  <2>2. codeLock' \in [Codes -> Procs \cup {Nobody}]
    BY <1>6 DEF RedeemCheck
  <2>3. ghost' \in History /\ ghost'.version = ghost.version
    BY <1>6 DEF RedeemCheck, History
  <2>4. CASE row.banned = 0 /\ codeMeta[c].hash = Hash(row)
    <3>1. Issue(p, proc[p].session, row, codeMeta[c].version, 0)
      BY <1>6, <2>4 DEF RedeemCheck
    <3>2. meta' \in [Sessions -> Bound] /\ proc' \in [Procs -> ProcState] /\ Placed'
      BY <2>1, <2>3, <3>1, IssueTyped
    <3> QED  BY <1>6, <2>2, <2>3, <3>2 DEF RedeemCheck
  <2>5. CASE ~(row.banned = 0 /\ codeMeta[c].hash = Hash(row))
    <3>1. Become(p, Idle) /\ meta' = meta
      BY <1>6, <2>5 DEF RedeemCheck
    <3>2. proc' \in [Procs -> ProcState] /\ Placed'
      BY <2>3, <3>1, Ends
    <3> QED  BY <1>6, <2>2, <2>3, <3>1, <3>2 DEF RedeemCheck
  <2> QED  BY <2>4, <2>5
<1>7. CASE RegisterLock(p)
  <2>1. proc' \in [Procs -> ProcState] /\ Placed'
    <3> DEFINE pc == IF meta[proc[p].session].app = 1 THEN "app" ELSE "put"
               st == [proc[p] EXCEPT !.seen = registry, !.pc = pc]
    <3>1. pc \in Points /\ pc \notin {"code", "pulled", "check", "commit"}
      BY DEF Points
    <3>2. Become(p, st) /\ ghost'.version = ghost.version
      BY <1>7 DEF RegisterLock
    <3>3. /\ st \in ProcState /\ st.pc = pc
          /\ st.then = "commit" => proc[p].then = "commit"
      BY <1>0, <3>1 DEF ProcState
    <3> HIDE DEF st, pc
    <3> QED  BY <3>1, <3>2, <3>3, GoesOn
  <2> QED  BY <1>7, <2>1 DEF RegisterLock
<1>8. CASE RegisterApp(p)
  <2> DEFINE st == [proc[p] EXCEPT !.pc = "put"]
  <2>3. /\ st \in ProcState /\ st.pc = "put"
        /\ st.code = proc[p].code /\ (st.then = "commit" => proc[p].then = "commit")
    BY <1>0 DEF ProcState, Points
  <2>4. Become(p, st) /\ ghost'.version = ghost.version
    BY <1>8 DEF RegisterApp
  <2> HIDE DEF st
  <2>1. proc' \in [Procs -> ProcState] /\ Placed'
    BY <2>3, <2>4, GoesOn
  <2>2. appKeys' \subseteq Sessions
    BY <1>0, <1>8 DEF RegisterApp, ProcState
  <2> QED  BY <1>8, <2>1, <2>2 DEF RegisterApp
<1>9. CASE RegisterPut(p)
  <2>1. ghost' \in History /\ ghost'.version = ghost.version
    BY <1>0, <1>9 DEF RegisterPut, History, ProcState
  <2>2. proc' \in [Procs -> ProcState] /\ Placed'
    BY <1>9, <2>1, Ends DEF RegisterPut
  <2>3. registry' \subseteq Sessions /\ lock' \in Procs \cup {Nobody}
    BY <1>0, <1>9 DEF RegisterPut, Released, ProcState
  <2> QED  BY <1>9, <2>1, <2>2, <2>3 DEF RegisterPut
<1>10. CASE RegisterFail(p)
  <2>1. proc' \in [Procs -> ProcState] /\ Placed'
    BY <1>10, Ends DEF RegisterFail
  <2>2. lock' \in Procs \cup {Nobody} /\ failures' \in 0..MaxFailures
    BY <1>10, SessionsAssumption DEF RegisterFail, Released, Fail
  <2> QED  BY <1>10, <2>1, <2>2 DEF RegisterFail
<1> QED  BY <1>1, <1>2, <1>3, <1>4, <1>5, <1>6, <1>7, <1>8, <1>9, <1>10
\* A session is removed.
LEMMA RemoveTyped ==
  ASSUME TypeOK, Placed, NEW p \in Procs,
         \/ \E s \in Sessions : RemoveLock(p, s)
         \/ RemovePut(p) \/ RemoveFail(p) \/ RemoveKey(p)
  PROVE  TypeOK' /\ Placed'
<1> USE DEF TypeOK, At, Goto
<1>0. proc[p] \in ProcState
  OBVIOUS
<1>1. ASSUME NEW s \in Sessions, RemoveLock(p, s)
      PROVE  TypeOK' /\ Placed'
  <2> DEFINE st == [Idle EXCEPT !.pc = "drop", !.session = s, !.seen = registry]
  <2>1. st \in ProcState /\ st.pc = "drop" /\ st.then = "end"
    BY IdleState DEF ProcState, Points
  <2>2. Become(p, st) /\ ghost' = ghost
    BY <1>1 DEF RemoveLock
  <2> HIDE DEF st
  <2>3. proc' \in [Procs -> ProcState] /\ Placed'
    BY <2>1, <2>2, Turn
  <2> QED  BY <1>1, <2>3 DEF RemoveLock
<1>2. CASE RemovePut(p)
  <2> DEFINE st == [proc[p] EXCEPT !.pc = "dropKey"]
  <2>1. st \in ProcState /\ st.pc = "dropKey" /\ (st.then = "commit" => proc[p].then = "commit")
    BY <1>0 DEF ProcState, Points
  <2>2. ghost' \in History /\ ghost'.version = ghost.version
    BY <1>0, <1>2 DEF RemovePut, History, ProcState
  <2>3. Become(p, st)
    BY <1>2 DEF RemovePut
  <2> HIDE DEF st
  <2>4. proc' \in [Procs -> ProcState] /\ Placed'
    BY <2>1, <2>2, <2>3, GoesOn
  <2>5. registry' \subseteq Sessions
    BY <1>0, <1>2 DEF RemovePut, ProcState
  <2> QED  BY <1>2, <2>2, <2>4, <2>5 DEF RemovePut
<1>3. CASE RemoveFail(p)
  <2>1. proc' \in [Procs -> ProcState] /\ Placed'
    BY <1>3, Ends DEF RemoveFail
  <2>2. lock' \in Procs \cup {Nobody} /\ failures' \in 0..MaxFailures
    BY <1>3, SessionsAssumption DEF RemoveFail, Released, Fail
  <2> QED  BY <1>3, <2>1, <2>2 DEF RemoveFail
<1>4. CASE RemoveKey(p)
  <2>1. proc' \in [Procs -> ProcState] /\ Placed'
    BY <1>4, Ends DEF RemoveKey
  <2>2. lock' \in Procs \cup {Nobody}
    BY <1>4 DEF RemoveKey, Released
  <2> QED  BY <1>4, <2>1, <2>2 DEF RemoveKey
<1> QED  BY <1>1, <1>2, <1>3, <1>4

LEMMA SavedType ==
  ASSUME TypeOK, NEW copy \in Row, NEW password \in BOOLEAN, NEW reset \in BOOLEAN,
         NEW identity \in {0, 1}, NEW banned \in {0, 1}
  PROVE  Saved(copy, password, reset, identity, banned) \in Row
<1>1. row \in Row
  BY DEF TypeOK
<1>2. /\ row.password + (IF password THEN 1 ELSE 0) \in Nat
      /\ \A more \in BOOLEAN : row.token + (IF more THEN 1 ELSE 0) \in Nat
  BY <1>1 DEF Row
<1> QED  BY <1>1, <1>2 DEF Saved, Row

LEMMA StoreTyped ==
  ASSUME TypeOK, NEW new \in Row, Store(new), ghost.version < MaxChanges
  PROVE  row' \in Row /\ ghost' \in History
<1>1. (IF Hash(new) = Hash(row) THEN ghost.version ELSE ghost.version + 1) \in 0..MaxChanges
  BY SessionsAssumption DEF TypeOK, History
<1> QED  BY <1>1 DEF Store, TypeOK, History

LEMMA EditTyped ==
  ASSUME TypeOK, Placed, NEW p \in Procs, EditRead(p) \/ EditAbort(p) \/ Edit(p) \/ EditCommit(p)
  PROVE  TypeOK' /\ Placed'
<1> USE DEF TypeOK, At
<1>0. proc[p] \in ProcState
  OBVIOUS
<1>1. CASE EditRead(p)
  <2> DEFINE st == [Idle EXCEPT !.pc = "edit", !.copy = row]
  <2>1. st \in ProcState /\ st.pc = "edit" /\ st.then = "end"
    BY IdleState DEF ProcState, Points
  <2>2. Become(p, st) /\ ghost' = ghost
    BY <1>1 DEF EditRead
  <2> HIDE DEF st
  <2>3. proc' \in [Procs -> ProcState] /\ Placed'
    BY <2>1, <2>2, Turn
  <2> QED  BY <1>1, <2>3 DEF EditRead
<1>2. CASE EditAbort(p)
  <2>1. proc' \in [Procs -> ProcState] /\ Placed'
    BY <1>2, Ends DEF EditAbort
  <2> QED  BY <1>2, <2>1 DEF EditAbort
<1>3. ASSUME NEW password \in BOOLEAN, NEW reset \in BOOLEAN, NEW identity \in {0, 1},
             NEW banned \in {0, 1}, EditSave(p, password, reset, identity, banned)
      PROVE  TypeOK' /\ Placed'
  <2> DEFINE new == Saved(proc[p].copy, password, reset, identity, banned)
  <2>1. new \in Row
    BY <1>0, SavedType DEF ProcState
  <2>2. RowFree /\ ghost.version < MaxChanges /\ Store(new)
    BY <1>3 DEF EditSave
  <2>3. row' \in Row /\ ghost' \in History
    BY <2>1, <2>2, StoreTyped
  <2>4. PICK st \in ProcState : /\ Become(p, st)
                                /\ st.pc \in {"idle", "revoke"} /\ st.then \in {"end", "again"}
    <3>1. \A then \in {"end", "again"} :
            /\ [Idle EXCEPT !.pc = "revoke", !.then = then] \in ProcState
            /\ [Idle EXCEPT !.pc = "revoke", !.then = then].pc = "revoke"
            /\ [Idle EXCEPT !.pc = "revoke", !.then = then].then = then
      BY IdleState DEF ProcState, Points
    <3>2. \/ Become(p, Idle)
          \/ \E then \in {"end", "again"} : Become(p, [Idle EXCEPT !.pc = "revoke", !.then = then])
      BY <1>3 DEF EditSave
    <3> QED  BY <3>1, <3>2, IdleState
  <2>5. proc' \in [Procs -> ProcState] /\ Placed'
    BY <2>2, <2>4, Turn
  <2> QED  BY <1>3, <2>3, <2>5 DEF EditSave
<1>4. ASSUME NEW password \in BOOLEAN, NEW identity \in {0, 1},
             NEW banned \in {0, 1}, EditStaff(p, password, identity, banned)
      PROVE  TypeOK' /\ Placed'
  <2> DEFINE new == Saved(row, password, FALSE, identity, banned)
             st  == [Idle EXCEPT !.pc = "revoke", !.then = "commit", !.copy = new]
  <2>1. new \in Row
    BY SavedType
  <2>2. RowFree /\ ghost.version < MaxChanges /\ ghost' = ghost /\ Become(p, st)
    BY <1>4 DEF EditStaff
  <2> HIDE DEF new
  <2>3. st \in ProcState /\ st.pc = "revoke" /\ st.then = "commit"
    BY <2>1, IdleState DEF ProcState, Points
  <2> HIDE DEF st
  <2>4. proc' \in [Procs -> ProcState] /\ Placed'
    BY <2>2, <2>3, Turn
  <2> QED  BY <1>4, <2>4 DEF EditStaff
<1>5. CASE EditCommit(p)
  <2>1. proc[p].then = "commit" /\ ghost.version < MaxChanges /\ proc[p].copy \in Row
    BY <1>0, <1>5 DEF EditCommit, Placed, ProcState
  <2>2. row' \in Row /\ ghost' \in History
    BY <1>5, <2>1, StoreTyped DEF EditCommit
  <2>3. proc' \in [Procs -> ProcState] /\ Placed'
    BY <1>5, <2>1, Ends DEF EditCommit
  <2> QED  BY <1>5, <2>2, <2>3 DEF EditCommit
<1> QED  BY <1>1, <1>2, <1>3, <1>4, <1>5 DEF Edit

\* Sessions are revoked.
LEMMA RevokeTyped ==
  ASSUME TypeOK, Placed, NEW p \in Procs, RevokeLock(p) \/ RevokeForget(p) \/ RevokeKeys(p)
  PROVE  TypeOK' /\ Placed'
<1> USE DEF TypeOK, At, Goto
<1>0. proc[p] \in ProcState
  OBVIOUS
<1>1. CASE RevokeLock(p)
  <2> DEFINE st == [proc[p] EXCEPT !.pc = "forget", !.seen = registry]
  <2>1. st \in ProcState /\ st.pc = "forget" /\ (st.then = "commit" => proc[p].then = "commit")
    BY <1>0 DEF ProcState, Points
  <2>2. Become(p, st) /\ ghost' = ghost
    BY <1>1 DEF RevokeLock
  <2> HIDE DEF st
  <2>3. proc' \in [Procs -> ProcState] /\ Placed'
    BY <2>1, <2>2, GoesOn
  <2> QED  BY <1>1, <2>3 DEF RevokeLock
<1>2. CASE RevokeForget(p)
  <2> DEFINE st == [proc[p] EXCEPT !.pc = "keys"]
  <2>1. st \in ProcState /\ st.pc = "keys" /\ (st.then = "commit" => proc[p].then = "commit")
    BY <1>0 DEF ProcState, Points
  <2>2. ghost' \in History /\ ghost'.version = ghost.version
    BY <1>0, <1>2 DEF RevokeForget, History, ProcState
  <2>3. Become(p, st)
    BY <1>2 DEF RevokeForget
  <2> HIDE DEF st
  <2>4. proc' \in [Procs -> ProcState] /\ Placed'
    BY <2>1, <2>2, <2>3, GoesOn
  <2> QED  BY <1>2, <2>2, <2>4 DEF RevokeForget
<1>3. CASE RevokeKeys(p)
  <2>1. proc' \in [Procs -> ProcState] /\ Placed'
    <3>1. CASE proc[p].then = "end"
      <4>1. Become(p, Idle)
        BY <1>3, <3>1 DEF RevokeKeys
      <4> QED  BY <1>3, <4>1, Ends DEF RevokeKeys
    <3>2. CASE proc[p].then = "again"
      <4> DEFINE st == [Idle EXCEPT !.pc = "revoke"]
      <4>1. st \in ProcState /\ st.pc = "revoke" /\ st.then = "end"
        BY IdleState DEF ProcState, Points
      <4>2. Become(p, st) /\ ghost' = ghost
        BY <1>3, <3>2 DEF RevokeKeys
      <4> HIDE DEF st
      <4> QED  BY <4>1, <4>2, Turn
    <3>3. CASE proc[p].then = "commit"
      <4> DEFINE st == [proc[p] EXCEPT !.pc = "commit"]
      <4>1. st \in ProcState /\ st.pc = "commit" /\ st.then = "commit"
        BY <1>0, <3>3 DEF ProcState, Points
      <4>2. Become(p, st) /\ ghost' = ghost
        BY <1>3, <3>3 DEF RevokeKeys
      <4> HIDE DEF st
      <4> QED  BY <3>3, <4>1, <4>2, GoesOn
    <3> QED  BY <1>0, <3>1, <3>2, <3>3 DEF ProcState
  <2>2. lock' \in Procs \cup {Nobody} /\ appKeys' \subseteq Sessions
    BY <1>3 DEF RevokeKeys, Released
  <2> QED  BY <1>3, <2>1, <2>2 DEF RevokeKeys
<1> QED  BY <1>1, <1>2, <1>3

LEMMA FailureTyped ==
  ASSUME TypeOK, Placed,
         \/ \E p \in Procs : Die(p) \/ GiveUp(p)
         \/ LockExpires
         \/ \E c \in Codes : CodeExpires(c) \/ CodeLockExpires(c)
  PROVE  TypeOK' /\ Placed'
<1> USE SessionsAssumption DEF TypeOK
<1>1. ASSUME NEW p \in Procs, Die(p)
      PROVE  TypeOK' /\ Placed'
  <2>1. proc' \in [Procs -> ProcState] /\ Placed'
    BY <1>1, Ends DEF Die
  <2>2. failures' \in 0..MaxFailures
    BY <1>1 DEF Die, Fail
  <2> QED  BY <1>1, <2>1, <2>2 DEF Die
<1>2. ASSUME NEW p \in Procs, GiveUp(p)
      PROVE  TypeOK' /\ Placed'
  <2>1. ghost' \in History /\ ghost'.version = ghost.version
    BY <1>2 DEF GiveUp, History
  <2>2. proc' \in [Procs -> ProcState] /\ Placed'
    BY <1>2, <2>1, Ends DEF GiveUp
  <2> QED  BY <1>2, <2>1, <2>2 DEF GiveUp
<1>3. CASE LockExpires
  <2>1. stalls' \in 0..MaxStalls
    BY <1>3 DEF LockExpires, Expired
  <2> QED  BY <1>3, <2>1 DEF LockExpires, Placed
<1>4. ASSUME NEW c \in Codes, CodeExpires(c)
      PROVE  TypeOK' /\ Placed'
  BY <1>4 DEF CodeExpires, Placed
<1>5. ASSUME NEW c \in Codes, CodeLockExpires(c)
      PROVE  TypeOK' /\ Placed'
  <2>1. stalls' \in 0..MaxStalls
    BY <1>5 DEF CodeLockExpires, Expired
  <2> QED  BY <1>5, <2>1 DEF CodeLockExpires, Placed
<1> QED  BY <1>1, <1>2, <1>3, <1>4, <1>5

LEMMA NextTyped == TypeOK /\ Placed /\ [Next]_vars => TypeOK' /\ Placed'
<1> SUFFICES ASSUME TypeOK, Placed, [Next]_vars
             PROVE  TypeOK' /\ Placed'
  OBVIOUS
<1>1. ASSUME NEW p \in Procs, Step(p)
      PROVE  TypeOK' /\ Placed'
  BY <1>1, LoginTyped, RemoveTyped, EditTyped, RevokeTyped, FailureTyped DEF Step, Finish
<1>2. CASE LockExpires \/ \E c \in Codes : CodeExpires(c) \/ CodeLockExpires(c)
  BY <1>2, FailureTyped
<1>3. CASE UNCHANGED vars
  BY <1>3 DEF vars, TypeOK, Placed
<1> QED  BY <1>1, <1>2, <1>3 DEF Next

\* Whatever logins, changes, failures and expiries interleave, the row, the
\* registry, the cache entries and the states of processes keep their types,
\* and at most one transaction holds the row of the account.
THEOREM TypeCorrect == Spec => [](TypeOK /\ Placed)
  BY InitTyped, NextTyped, PTL DEF Spec
-----------------------------------------------------------------------------
(* What is accepted is current *)

\* A stored hash is the row's of today, or one that never comes again: a change
\* of the row that leaves the password alone rotates the token, except lifting
\* a ban, and a hash is only stored while the account is not banned.
Sound(b) ==
  /\ b.hash.banned = 0
  /\ \/ b.version = ghost.version /\ b.hash = Hash(row)
     \/ b.hash.password < row.password
     \/ b.hash.token < row.token

\* What a process that makes a code will store with it.
Held(p) == [hash |-> Hash(proc[p].copy), version |-> proc[p].version, app |-> 0]

Stored ==
  /\ \A s \in Sessions : Sound(meta[s])
  /\ \A c \in Codes : Sound(codeMeta[c])
  /\ \A p \in Procs : proc[p].pc = "code" => Sound(Held(p))

\* While the account's token is accepted by itself, every change was a reset.
Fenced == row.fence = 0 => row.banned = 0 /\ row.token = ghost.version

\* A row that a save may leave.
Follows(new) ==
  /\ row.password <= new.password /\ row.token <= new.token /\ row.fence <= new.fence
  /\ Hash(new) # Hash(row) =>
       row.password < new.password \/ row.token < new.token \/ row.banned = 1
  /\ new.fence = 0 /\ row.banned = 0 =>
       /\ new.banned = 0
       /\ new.token = row.token + (IF Hash(new) = Hash(row) THEN 0 ELSE 1)

Planned == \A p \in Procs : proc[p].then = "commit" => Follows(proc[p].copy)

Current == Stored /\ Fenced /\ Planned

LEMMA InitCurrent == ASSUME Init PROVE Current
<1>1. \A b \in {Unset} : Sound(b)
  BY DEF Init, Sound, Unset, Hash, FirstRow
<1>2. Fenced
  BY DEF Init, Fenced, FirstRow
<1> QED  BY <1>1, <1>2, IdleState DEF Init, Current, Stored, Planned

LEMMA CurrentAccepted == ASSUME TypeOK, Current PROVE AcceptedIsCurrent
<1>1. ASSUME NEW s \in Sessions, s # OldSession, Accepts(s)
      PROVE  meta[s].version = ghost.version
  <2>1. meta[s].hash = Hash(row) /\ Sound(meta[s]) /\ row \in Row
    BY <1>1 DEF Accepts, Current, Stored, TypeOK
  <2> QED  BY <2>1 DEF Sound, Hash, Row
<1>2. \A t \in 0..MaxChanges : AcceptsLegacyApp(t) => t = ghost.version
  BY DEF AcceptsLegacyApp, Current, Fenced
<1> QED  BY <1>1, <1>2 DEF AcceptedIsCurrent

LEMMA SavedFollows ==
  ASSUME TypeOK, NEW copy \in Row, NEW password \in BOOLEAN, NEW reset \in BOOLEAN,
         NEW identity \in {0, 1}, NEW banned \in {0, 1}
  PROVE  Follows(Saved(copy, password, reset, identity, banned))
<1>1. row \in Row
  BY DEF TypeOK
<1>2. CASE password
  BY <1>1, <1>2 DEF Saved, Follows, Hash, Row
<1>3. CASE ~password
  BY <1>1, <1>3 DEF Saved, Follows, Hash, Row
<1> QED  BY <1>2, <1>3

\* A save keeps every stored hash sound.
LEMMA StoreKeeps ==
  ASSUME TypeOK, Fenced, NEW new \in Row, Store(new), Follows(new)
  PROVE  /\ \A b \in Bound : Sound(b) => Sound(b)'
         /\ Fenced'
<1>1. row \in Row /\ ghost.version \in Nat /\ row' = new
  BY SessionsAssumption DEF TypeOK, History, Store
<1>2. ghost'.version = IF Hash(new) = Hash(row) THEN ghost.version ELSE ghost.version + 1
  BY DEF TypeOK, History, Store
<1>3. ASSUME NEW b \in Bound, Sound(b)
      PROVE  Sound(b)'
  <2>1. CASE Hash(new) = Hash(row)
    BY <1>1, <1>2, <1>3, <2>1 DEF Sound, Hash, Row
  <2>2. CASE Hash(new) # Hash(row)
    <3>1. CASE b.hash = Hash(row)
      <4>1. row.banned = 0 /\ b.hash.password = row.password /\ b.hash.token = row.token
        BY <1>3, <3>1 DEF Sound, Hash
      <4> QED  BY <1>1, <1>3, <2>2, <4>1 DEF Sound, Follows, Row
    <3>2. CASE b.hash # Hash(row)
      <4>1. b.hash.password \in Nat /\ b.hash.token \in Nat
        BY DEF Bound, Hashes
      <4> QED  BY <1>1, <1>3, <3>2, <4>1 DEF Sound, Follows, Row
    <3> QED  BY <3>1, <3>2
  <2> QED  BY <2>1, <2>2
<1>4. Fenced'
  BY <1>1, <1>2 DEF Fenced, Follows, Row
<1> QED  BY <1>3, <1>4

\* A step that neither stores nor holds a hash, nor plans a change.
LEMMA Quiet ==
  ASSUME TypeOK, Current, NEW p \in Procs, NEW st, Become(p, st),
         row' = row, meta' = meta, codeMeta' = codeMeta, ghost'.version = ghost.version,
         st.pc # "code",
         st.then = "commit" => proc[p].then = "commit" /\ st.copy = proc[p].copy
  PROVE  Current'
<1>1. proc'[p] = st /\ \A q \in Procs \ {p} : proc'[q] = proc[q]
  BY DEF TypeOK, Become
<1>2. \A b : Sound(b) => Sound(b)'
  BY DEF Sound
<1>3. Stored'
  BY <1>1, <1>2 DEF Current, Stored, Held
<1>4. Fenced'
  BY DEF Current, Fenced
<1>5. \A new : Follows(new) => Follows(new)'
  BY DEF Follows
<1>6. Planned'
  BY <1>1, <1>5 DEF Current, Planned
<1> QED  BY <1>3, <1>4, <1>6 DEF Current
\* A login enters the hash of the row of the moment.
LEMMA IssueCurrent ==
  ASSUME TypeOK, Current, NEW p \in Procs, NEW s \in Sessions, NEW v \in Nat, NEW app \in {0, 1},
         Issue(p, s, row, v, app), row.banned = 0,
         v = ghost.version \/ \E c \in Codes : v = codeMeta[c].version /\ codeMeta[c].hash = Hash(row),
         row' = row, codeMeta' = codeMeta, ghost'.version = ghost.version
  PROVE  Current'
<1> DEFINE b == [hash |-> Hash(row), version |-> v, app |-> app]
<1>1. Sound(b)
  <2>1. CASE v = ghost.version
    BY <2>1 DEF Sound, Hash
  <2>2. ASSUME NEW c \in Codes, v = codeMeta[c].version, codeMeta[c].hash = Hash(row)
        PROVE  Sound(b)
    BY <2>2 DEF Current, Stored, Sound
  <2> QED  BY <2>1, <2>2
<1>2. meta' = [meta EXCEPT ![s] = b]
  BY DEF Issue
<1> HIDE DEF b
<1>3. \A x : Sound(x) => Sound(x)'
  BY DEF Sound
<1>4. \A q \in Procs : \/ proc'[q] = proc[q]
                       \/ proc'[q].pc = "register" /\ proc'[q].then = "end"
  BY IdleState DEF Issue, Become, TypeOK, ProcState
<1>5. (\A x \in Sessions : Sound(meta[x])') /\ (\A c \in Codes : Sound(codeMeta[c])')
  <2>1. \A x \in Sessions : meta'[x] = meta[x] \/ meta'[x] = b
    BY <1>2 DEF TypeOK
  <2>2. \A x \in Sessions : Sound(meta'[x])
    BY <1>1, <2>1 DEF Current, Stored
  <2>3. \A x \in Sessions : Sound(meta[x])'
    BY <2>2 DEF Sound
  <2> QED  BY <1>3, <2>3 DEF Current, Stored, Sound
<1>6. \A q \in Procs : proc'[q].pc = "code" => Sound(Held(q))'
  BY <1>3, <1>4 DEF Current, Stored, Held, Sound
<1>7. Fenced' /\ Planned'
  BY <1>4 DEF Current, Fenced, Planned, Follows
<1> QED  BY <1>5, <1>6, <1>7 DEF Current, Stored

LEMMA LoginCurrent ==
  ASSUME TypeOK, Placed, Current, NEW p \in Procs,
         \/ \E s \in Sessions, app \in {0, 1} : Login(p, s, app)
         \/ \E c \in Codes : CodeRead(p, c)
         \/ \E c \in Codes, s \in Sessions : RedeemGet(p, c, s)
         \/ CodePut(p) \/ RedeemForget(p) \/ RedeemCheck(p)
         \/ RegisterLock(p) \/ RegisterApp(p) \/ RegisterPut(p) \/ RegisterFail(p)
  PROVE  Current'
<1> USE DEF At, Goto
<1>0. proc[p] \in ProcState /\ ghost.version \in Nat /\ row \in Row /\ ghost \in History
  BY SessionsAssumption DEF TypeOK, History
<1>1. ASSUME NEW s \in Sessions, NEW app \in {0, 1}, Login(p, s, app)
      PROVE  Current'
  <2>1. ghost'.version = ghost.version
    BY <1>0, <1>1 DEF Login, History
  <2> QED  BY <1>0, <1>1, <2>1, IssueCurrent DEF Login
<1>2. ASSUME NEW c \in Codes, CodeRead(p, c)
      PROVE  Current'
  <2> DEFINE st == [Idle EXCEPT !.pc = "code", !.code = c, !.copy = row, !.version = ghost.version]
  <2>1. ghost'.version = ghost.version /\ row' = row /\ row.banned = 0
    BY <1>0, <1>2 DEF CodeRead, History
  <2>2. st.pc = "code" /\ st.then = "end" /\ st.copy = row /\ st.version = ghost.version
    BY IdleState DEF ProcState
  <2>3. Become(p, st)
    BY <1>2 DEF CodeRead
  <2> HIDE DEF st
  <2>4. proc'[p] = st /\ \A q \in Procs \ {p} : proc'[q] = proc[q]
    BY <2>3 DEF TypeOK, Become
  <2>5. \A x : Sound(x) => Sound(x)'
    BY <2>1 DEF Sound
  <2>6. Held(p)' = [hash |-> Hash(row), version |-> ghost.version, app |-> 0]
    BY <2>2, <2>4 DEF Held
  <2>7. Sound(Held(p))'
    BY <2>1, <2>6 DEF Sound, Hash
  <2>8. \A q \in Procs : proc'[q].pc = "code" => Sound(Held(q))'
    BY <2>4, <2>5, <2>7 DEF Current, Stored, Held, Sound
  <2>9. Stored'
    BY <1>2, <2>5, <2>8 DEF Current, Stored, CodeRead
  <2>10. Fenced' /\ Planned'
    BY <2>1, <2>2, <2>4 DEF Current, Fenced, Planned, Follows
  <2> QED  BY <2>9, <2>10 DEF Current
<1>3. ASSUME NEW c \in Codes, NEW s \in Sessions, RedeemGet(p, c, s)
      PROVE  Current'
  <2> DEFINE st == [Idle EXCEPT !.pc = "pulled", !.code = c, !.session = s]
  <2>1. st.pc = "pulled" /\ st.then = "end"
    BY IdleState DEF ProcState
  <2>2. Become(p, st) /\ ghost'.version = ghost.version
    BY <1>0, <1>3 DEF RedeemGet, History
  <2> HIDE DEF st
  <2> QED  BY <1>3, <2>1, <2>2, Quiet DEF RedeemGet
<1>4. CASE CodePut(p)
  <2> DEFINE c == proc[p].code
             b == Held(p)
  <2>1. c \in Codes /\ Sound(b)
    BY <1>4 DEF CodePut, Placed, Current, Stored
  <2>2. /\ codeMeta' = [codeMeta EXCEPT ![c] = b]
        /\ row' = row /\ meta' = meta /\ ghost' = ghost /\ Become(p, Idle)
    BY <1>4 DEF CodePut, Held
  <2> HIDE DEF b, c
  <2>3. \A q \in Procs : \/ proc'[q] = proc[q]
                         \/ proc'[q].pc = "idle" /\ proc'[q].then = "end"
    BY <2>2, IdleState DEF TypeOK, Become
  <2>4. \A x : Sound(x) => Sound(x)'
    BY <2>2 DEF Sound
  <2>5. \A x \in Codes : codeMeta'[x] = codeMeta[x] \/ codeMeta'[x] = b
    BY <2>2 DEF TypeOK
  <2>6. \A x \in Codes : Sound(codeMeta'[x])
    BY <2>1, <2>5 DEF Current, Stored
  <2>7. \A x \in Codes : Sound(codeMeta[x])'
    BY <2>2, <2>6 DEF Sound
  <2>8. \A q \in Procs : proc'[q].pc = "code" => Sound(Held(q))'
    BY <2>3, <2>4 DEF Current, Stored, Held, Sound
  <2>9. Stored'
    BY <2>2, <2>4, <2>7, <2>8 DEF Current, Stored
  <2>10. Fenced' /\ Planned'
    BY <2>2, <2>3 DEF Current, Fenced, Planned, Follows
  <2> QED  BY <2>9, <2>10 DEF Current
<1>5. CASE RedeemForget(p)
  <2> DEFINE st == [proc[p] EXCEPT !.pc = "check"]
  <2>1. st.pc = "check" /\ (st.then = "commit" => proc[p].then = "commit" /\ st.copy = proc[p].copy)
    BY <1>0 DEF ProcState
  <2>2. Become(p, st)
    BY <1>5 DEF RedeemForget
  <2> HIDE DEF st
  <2> QED  BY <1>5, <2>1, <2>2, Quiet DEF RedeemForget
<1>6. CASE RedeemCheck(p)
  <2> DEFINE c == proc[p].code
  <2>1. c \in Codes /\ codeMeta[c].version \in Nat /\ proc[p].session \in Sessions
    BY <1>0, <1>6 DEF RedeemCheck, Placed, Bound, ProcState, TypeOK
  <2>2. ghost'.version = ghost.version /\ row' = row /\ codeMeta' = codeMeta
    BY <1>0, <1>6 DEF RedeemCheck, History
  <2>3. CASE row.banned = 0 /\ codeMeta[c].hash = Hash(row)
    <3>1. Issue(p, proc[p].session, row, codeMeta[c].version, 0)
      BY <1>6, <2>3 DEF RedeemCheck
    <3> QED  BY <2>1, <2>2, <2>3, <3>1, IssueCurrent
  <2>4. CASE ~(row.banned = 0 /\ codeMeta[c].hash = Hash(row))
    <3>1. Become(p, Idle) /\ meta' = meta
      BY <1>6, <2>4 DEF RedeemCheck
    <3> QED  BY <2>2, <3>1, IdleState, Quiet
  <2> QED  BY <2>3, <2>4
<1>7. CASE RegisterLock(p)
  <2> DEFINE pc == IF meta[proc[p].session].app = 1 THEN "app" ELSE "put"
             st == [proc[p] EXCEPT !.seen = registry, !.pc = pc]
  <2>1. st.pc # "code" /\ (st.then = "commit" => proc[p].then = "commit" /\ st.copy = proc[p].copy)
    BY <1>0 DEF ProcState
  <2>2. Become(p, st)
    BY <1>7 DEF RegisterLock
  <2> HIDE DEF st
  <2> QED  BY <1>7, <2>1, <2>2, Quiet DEF RegisterLock
<1>8. CASE RegisterApp(p)
  <2> DEFINE st == [proc[p] EXCEPT !.pc = "put"]
  <2>1. st.pc # "code" /\ (st.then = "commit" => proc[p].then = "commit" /\ st.copy = proc[p].copy)
    BY <1>0 DEF ProcState
  <2>2. Become(p, st)
    BY <1>8 DEF RegisterApp
  <2> HIDE DEF st
  <2> QED  BY <1>8, <2>1, <2>2, Quiet DEF RegisterApp
<1>9. CASE RegisterPut(p) \/ RegisterFail(p)
  <2>1. ghost'.version = ghost.version
    BY <1>0, <1>9 DEF RegisterPut, RegisterFail, History
  <2> QED  BY <1>9, <2>1, IdleState, Quiet DEF RegisterPut, RegisterFail
<1> QED  BY <1>1, <1>2, <1>3, <1>4, <1>5, <1>6, <1>7, <1>8, <1>9

LEMMA RemoveCurrent ==
  ASSUME TypeOK, Current, NEW p \in Procs,
         \/ \E s \in Sessions : RemoveLock(p, s)
         \/ RemovePut(p) \/ RemoveFail(p) \/ RemoveKey(p)
  PROVE  Current'
<1> USE DEF At, Goto
<1>0. proc[p] \in ProcState /\ ghost \in History
  BY DEF TypeOK
<1>1. ASSUME NEW s \in Sessions, RemoveLock(p, s)
      PROVE  Current'
  <2> DEFINE st == [Idle EXCEPT !.pc = "drop", !.session = s, !.seen = registry]
  <2>1. st.pc = "drop" /\ st.then = "end"
    BY IdleState DEF ProcState
  <2>2. Become(p, st)
    BY <1>1 DEF RemoveLock
  <2> HIDE DEF st
  <2> QED  BY <1>1, <2>1, <2>2, Quiet DEF RemoveLock
<1>2. CASE RemovePut(p)
  <2> DEFINE st == [proc[p] EXCEPT !.pc = "dropKey"]
  <2>1. st.pc # "code" /\ (st.then = "commit" => proc[p].then = "commit" /\ st.copy = proc[p].copy)
    BY <1>0 DEF ProcState
  <2>2. Become(p, st) /\ ghost'.version = ghost.version
    BY <1>0, <1>2 DEF RemovePut, History
  <2> HIDE DEF st
  <2> QED  BY <1>2, <2>1, <2>2, Quiet DEF RemovePut
<1>3. CASE RemoveFail(p) \/ RemoveKey(p)
  BY <1>3, IdleState, Quiet DEF RemoveFail, RemoveKey
<1> QED  BY <1>1, <1>2, <1>3

LEMMA EditCurrent ==
  ASSUME TypeOK, Placed, Current, NEW p \in Procs,
         EditRead(p) \/ EditAbort(p) \/ Edit(p) \/ EditCommit(p)
  PROVE  Current'
<1> USE DEF At
<1>0. proc[p] \in ProcState
  BY DEF TypeOK
<1>1. CASE EditRead(p)
  <2> DEFINE st == [Idle EXCEPT !.pc = "edit", !.copy = row]
  <2>1. st.pc = "edit" /\ st.then = "end"
    BY IdleState DEF ProcState
  <2>2. Become(p, st)
    BY <1>1 DEF EditRead
  <2> HIDE DEF st
  <2> QED  BY <1>1, <2>1, <2>2, Quiet DEF EditRead
<1>2. CASE EditAbort(p)
  BY <1>2, IdleState, Quiet DEF EditAbort
<1>3. ASSUME NEW new \in Row, Store(new), Follows(new), meta' = meta, codeMeta' = codeMeta,
             NEW st, Become(p, st), st.pc # "code", st.then # "commit",
             \A q \in Procs \ {p} : proc[q].then # "commit"
      PROVE  Current'
  <2>1. proc'[p] = st /\ \A q \in Procs \ {p} : proc'[q] = proc[q]
    BY <1>3 DEF TypeOK, Become
  <2>2. (\A b \in Bound : Sound(b) => Sound(b)') /\ Fenced'
    BY <1>3, StoreKeeps DEF Current
  <2>3. \A q \in Procs : Held(q) \in Bound
    BY HashType DEF TypeOK, ProcState, Held, Bound
  <2>4. \A q \in Procs : proc'[q].pc = "code" => Sound(Held(q))'
    <3>1. SUFFICES ASSUME NEW q \in Procs, proc'[q].pc = "code"
                   PROVE  Sound(Held(q))'
      OBVIOUS
    <3>2. proc'[q] = proc[q] /\ Held(q)' = Held(q)
      BY <1>3, <2>1, <3>1 DEF Held
    <3>3. Sound(Held(q))
      BY <3>1, <3>2 DEF Current, Stored
    <3> DEFINE b == Held(q)
    <3>4. Sound(b)'
      BY <2>2, <2>3, <3>2, <3>3 DEF Sound
    <3> QED  BY <3>4
  <2>5. (\A s \in Sessions : Sound(meta[s])') /\ \A c \in Codes : Sound(codeMeta[c])'
    BY <1>3, <2>2 DEF Current, Stored, Sound, TypeOK
  <2>6. Planned'
    BY <1>3, <2>1 DEF Planned
  <2> QED  BY <2>2, <2>4, <2>5, <2>6 DEF Current, Stored
<1>4. ASSUME NEW password \in BOOLEAN, NEW reset \in BOOLEAN, NEW identity \in {0, 1},
             NEW banned \in {0, 1}, EditSave(p, password, reset, identity, banned)
      PROVE  Current'
  <2> DEFINE new == Saved(proc[p].copy, password, reset, identity, banned)
  <2>1. new \in Row /\ Follows(new)
    BY <1>0, SavedType, SavedFollows DEF ProcState
  <2>2. Store(new) /\ RowFree /\ meta' = meta /\ codeMeta' = codeMeta
    BY <1>4 DEF EditSave
  <2>3. PICK st : Become(p, st) /\ st.pc # "code" /\ st.then # "commit"
    <3>1. \A then \in {"end", "again"} :
            /\ [Idle EXCEPT !.pc = "revoke", !.then = then].pc = "revoke"
            /\ [Idle EXCEPT !.pc = "revoke", !.then = then].then = then
      BY IdleState DEF ProcState
    <3>2. \/ Become(p, Idle)
          \/ \E then \in {"end", "again"} : Become(p, [Idle EXCEPT !.pc = "revoke", !.then = then])
      BY <1>4 DEF EditSave
    <3> QED  BY <3>1, <3>2, IdleState
  <2> HIDE DEF new
  <2> QED  BY <1>3, <2>1, <2>2, <2>3 DEF RowFree
<1>5. ASSUME NEW password \in BOOLEAN, NEW identity \in {0, 1},
             NEW banned \in {0, 1}, EditStaff(p, password, identity, banned)
      PROVE  Current'
  <2> DEFINE new == Saved(row, password, FALSE, identity, banned)
             st  == [Idle EXCEPT !.pc = "revoke", !.then = "commit", !.copy = new]
  <2>1. new \in Row /\ Follows(new)
    BY SavedType, SavedFollows DEF TypeOK
  <2>2. /\ Become(p, st) /\ row' = row /\ meta' = meta /\ codeMeta' = codeMeta
        /\ ghost' = ghost
    BY <1>5 DEF EditStaff
  <2> HIDE DEF new
  <2>3. st.pc = "revoke" /\ st.copy = new
    BY <2>1, IdleState DEF ProcState
  <2> HIDE DEF st
  <2>4. proc'[p] = st /\ \A q \in Procs \ {p} : proc'[q] = proc[q]
    BY <2>2 DEF TypeOK, Become
  <2>5. \A b : Sound(b) => Sound(b)'
    BY <2>2 DEF Sound
  <2>6. Stored'
    BY <2>2, <2>3, <2>4, <2>5 DEF Current, Stored, Held
  <2>7. \A x : Follows(x) => Follows(x)'
    BY <2>2 DEF Follows
  <2>8. Planned'
    BY <2>1, <2>3, <2>4, <2>7 DEF Current, Planned
  <2> QED  BY <2>2, <2>6, <2>8 DEF Current, Fenced
<1>6. CASE EditCommit(p)
  <2>1. proc[p].then = "commit" /\ proc[p].copy \in Row /\ Follows(proc[p].copy)
    BY <1>0, <1>6 DEF EditCommit, Placed, ProcState, Current, Planned
  <2>2. \A q \in Procs \ {p} : proc[q].then # "commit"
    BY <2>1 DEF Placed
  <2> QED  BY <1>3, <1>6, <2>1, <2>2, IdleState DEF EditCommit
<1> QED  BY <1>1, <1>2, <1>4, <1>5, <1>6 DEF Edit

LEMMA RevokeCurrent ==
  ASSUME TypeOK, Current, NEW p \in Procs,
         RevokeLock(p) \/ RevokeForget(p) \/ RevokeKeys(p) \/ Die(p) \/ GiveUp(p)
  PROVE  Current'
<1> USE DEF At, Goto
<1>0. proc[p] \in ProcState /\ ghost \in History
  BY DEF TypeOK
<1>1. CASE RevokeLock(p)
  <2> DEFINE st == [proc[p] EXCEPT !.pc = "forget", !.seen = registry]
  <2>1. st.pc # "code" /\ (st.then = "commit" => proc[p].then = "commit" /\ st.copy = proc[p].copy)
    BY <1>0 DEF ProcState
  <2>2. Become(p, st)
    BY <1>1 DEF RevokeLock
  <2> HIDE DEF st
  <2> QED  BY <1>1, <2>1, <2>2, Quiet DEF RevokeLock
<1>2. CASE RevokeForget(p)
  <2> DEFINE st == [proc[p] EXCEPT !.pc = "keys"]
  <2>1. st.pc # "code" /\ (st.then = "commit" => proc[p].then = "commit" /\ st.copy = proc[p].copy)
    BY <1>0 DEF ProcState
  <2>2. Become(p, st) /\ ghost'.version = ghost.version
    BY <1>0, <1>2 DEF RevokeForget, History
  <2> HIDE DEF st
  <2> QED  BY <1>2, <2>1, <2>2, Quiet DEF RevokeForget
<1>3. CASE RevokeKeys(p)
  <2>1. PICK st : /\ Become(p, st) /\ st.pc # "code"
                  /\ st.then = "commit" => proc[p].then = "commit" /\ st.copy = proc[p].copy
    <3>1. CASE proc[p].then = "end"
      BY <1>3, <3>1, IdleState DEF RevokeKeys
    <3>2. CASE proc[p].then = "again"
      <4>1. [Idle EXCEPT !.pc = "revoke"].pc = "revoke" /\ [Idle EXCEPT !.pc = "revoke"].then = "end"
        BY IdleState DEF ProcState
      <4>2. Become(p, [Idle EXCEPT !.pc = "revoke"])
        BY <1>3, <3>2 DEF RevokeKeys
      <4> QED  BY <4>1, <4>2
    <3>3. CASE proc[p].then = "commit"
      <4>1. /\ [proc[p] EXCEPT !.pc = "commit"].pc = "commit"
            /\ [proc[p] EXCEPT !.pc = "commit"].copy = proc[p].copy
        BY <1>0 DEF ProcState
      <4>2. Become(p, [proc[p] EXCEPT !.pc = "commit"])
        BY <1>3, <3>3 DEF RevokeKeys
      <4> QED  BY <3>3, <4>1, <4>2
    <3> QED  BY <1>0, <3>1, <3>2, <3>3 DEF ProcState
  <2> QED  BY <1>3, <2>1, Quiet DEF RevokeKeys
<1>4. CASE Die(p) \/ GiveUp(p)
  <2>1. ghost'.version = ghost.version
    BY <1>0, <1>4 DEF Die, GiveUp, History
  <2> QED  BY <1>4, <2>1, IdleState, Quiet DEF Die, GiveUp
<1> QED  BY <1>1, <1>2, <1>3, <1>4

LEMMA NextCurrent == TypeOK /\ Placed /\ Current /\ [Next]_vars => Current'
<1> SUFFICES ASSUME TypeOK, Placed, Current, [Next]_vars
             PROVE  Current'
  OBVIOUS
<1>1. ASSUME NEW p \in Procs, Step(p)
      PROVE  Current'
  BY <1>1, LoginCurrent, RemoveCurrent, EditCurrent, RevokeCurrent DEF Step, Finish
<1>2. CASE \/ LockExpires \/ UNCHANGED vars
           \/ \E c \in Codes : CodeExpires(c) \/ CodeLockExpires(c)
  <2>1. /\ row' = row /\ meta' = meta /\ codeMeta' = codeMeta /\ ghost' = ghost /\ proc' = proc
    BY <1>2 DEF LockExpires, CodeExpires, CodeLockExpires, vars
  <2> QED  BY <2>1 DEF Current, Stored, Sound, Held, Fenced, Planned, Follows
<1> QED  BY <1>1, <1>2 DEF Next

\* Whatever logins, changes, revocations, failures and stalls interleave, what
\* authenticate and the App's authenticator accept was issued for the security
\* fields of today, and the first App token is worth nothing after a change.
THEOREM AcceptedCurrent == Spec => []AcceptedIsCurrent
<1>1. TypeOK /\ Placed /\ Current /\ [Next]_vars => TypeOK' /\ Placed' /\ Current'
  BY NextTyped, NextCurrent
<1>2. Init => TypeOK /\ Placed /\ Current
  BY InitTyped, InitCurrent
<1>3. TypeOK /\ Placed /\ Current => AcceptedIsCurrent
  BY CurrentAccepted
<1> QED  BY <1>1, <1>2, <1>3, PTL DEF Spec

-----------------------------------------------------------------------------
(* What is registered stays, what is removed stays out.  While no lock is   *)
(* lost to its expiry, the lock of the registry orders those who rewrite it.*)

Bearing(r) == r.pc \in {"pulled", "check", "register", "app", "put"}
Holds(r)   == r.pc \in {"app", "put", "drop", "dropKey", "forget", "keys"}

\* The session is p's alone: nobody was handed it yet, or p brings it.
Own(p, s) == s \notin ghost.issued \/ (Bearing(proc[p]) /\ s = proc[p].session)

Books ==
  /\ registry = ghost.active \ ghost.removed
  /\ ghost.removed \subseteq ghost.active /\ ghost.active \subseteq ghost.issued
  /\ \A s \in registry : meta[s].app = 1 => s \in appKeys
  /\ OldSession \in ghost.active /\ meta[OldSession] = Unset

\* What a process brings is not registered yet; who works on the registry owns
\* its lock, and what it read is what is there.
Role(p) ==
  /\ Bearing(proc[p]) => proc[p].session \in ghost.issued \ ghost.active
  /\ proc[p].pc \in {"drop", "dropKey"} => proc[p].session \in ghost.active
  /\ Holds(proc[p]) => lock = p
  /\ proc[p].pc \in {"app", "put", "drop", "forget"} => proc[p].seen = registry
  /\ proc[p].pc = "put" /\ meta[proc[p].session].app = 1 => proc[p].session \in appKeys
  /\ proc[p].pc = "dropKey" => proc[p].session \in ghost.removed
  /\ proc[p].pc = "keys" => proc[p].seen \subseteq ghost.removed

OwnBearer ==
  \A p, q \in Procs :
    p # q /\ Bearing(proc[p]) /\ Bearing(proc[q]) => proc[p].session # proc[q].session

Booked == Books /\ (\A p \in Procs : Role(p)) /\ OwnBearer

LEMMA InitBooked == ASSUME Init PROVE Booked
<1>1. \A p \in Procs : proc[p].pc = "idle"
  BY IdleState DEF Init
<1>2. Unset.app = 0
  BY DEF Unset
<1>3. Books
  BY <1>2, SessionsAssumption DEF Init, Books
<1> QED  BY <1>1, <1>3 DEF Booked, Role, OwnBearer, Bearing, Holds

\* What a step of p must leave to the others, for their roles to stay.
Leaves(p) ==
  /\ ghost.issued \subseteq ghost'.issued /\ ghost.active \subseteq ghost'.active
  /\ ghost.removed \subseteq ghost'.removed
  /\ \A s \in ghost'.active : s \in ghost.active \/ Own(p, s)
  /\ \A s \in Sessions : meta'[s] = meta[s] \/ Own(p, s)
  /\ lock \in Procs \ {p} =>
       lock' = lock /\ registry' = registry /\ appKeys \subseteq appKeys'

LEMMA OthersKeep ==
  ASSUME TypeOK, Booked, NEW p \in Procs, NEW st, Become(p, st), Leaves(p),
         Bearing(st) => Own(p, st.session)
  PROVE  (\A q \in Procs \ {p} : Role(q)') /\ OwnBearer' /\ proc'[p] = st
<1>1. proc'[p] = st /\ \A q \in Procs \ {p} : proc'[q] = proc[q]
  BY DEF TypeOK, Become
<1>2. \A q \in Procs : Role(q) /\ proc[q].session \in Sessions
  BY DEF Booked, TypeOK, ProcState
<1>3. \A q \in Procs \ {p} : Bearing(proc[q]) => ~Own(p, proc[q].session)
  BY <1>2 DEF Own, Role, Booked, OwnBearer
<1>4. ASSUME NEW q \in Procs \ {p} PROVE Role(q)'
  <2>1. proc'[q] = proc[q] /\ Role(q) /\ proc[q].session \in Sessions
    BY <1>1, <1>2
  <2>2. Bearing(proc[q]) => /\ proc[q].session \in ghost'.issued \ ghost'.active
                            /\ meta'[proc[q].session] = meta[proc[q].session]
    BY <1>3, <2>1 DEF Role, Leaves
  <2>3. Holds(proc[q]) => lock' = q /\ registry' = registry /\ appKeys \subseteq appKeys'
    BY <2>1 DEF Role, Leaves
  <2> QED  BY <2>1, <2>2, <2>3 DEF Role, Leaves, Bearing, Holds
<1>5. OwnBearer'
  <2> SUFFICES ASSUME NEW q \in Procs, NEW r \in Procs, q # r,
                      Bearing(proc'[q]), Bearing(proc'[r])
               PROVE  proc'[q].session # proc'[r].session
    BY DEF OwnBearer
  <2>1. CASE q # p /\ r # p
    BY <1>1, <2>1 DEF Booked, OwnBearer
  <2>2. CASE q = p \/ r = p
    BY <1>1, <1>3, <2>2
  <2> QED  BY <2>1, <2>2
<1> QED  BY <1>1, <1>4, <1>5

\* A step that brings nothing, holds nothing and leaves the books alone.
LEMMA Aside ==
  ASSUME TypeOK, Booked, NEW p \in Procs, NEW st, Become(p, st), ~Bearing(st), ~Holds(st),
         registry' = registry, meta' = meta, appKeys' = appKeys, lock' \in {lock, Released(p)},
         ghost'.issued = ghost.issued, ghost'.active = ghost.active, ghost'.removed = ghost.removed
  PROVE  Booked'
<1>1. Leaves(p)
  BY DEF Leaves, Released
<1>2. (\A q \in Procs \ {p} : Role(q)') /\ OwnBearer' /\ proc'[p] = st
  BY <1>1, OthersKeep
<1>3. Role(p)'
  BY <1>2 DEF Role, Bearing, Holds
<1>4. Books'
  BY DEF Booked, Books
<1> QED  BY <1>2, <1>3, <1>4 DEF Booked

LEMMA LoginBooked ==
  ASSUME TypeOK, Placed, Booked, NEW p \in Procs,
         \/ \E s \in Sessions, app \in {0, 1} : Login(p, s, app)
         \/ \E c \in Codes : CodeRead(p, c)
         \/ \E c \in Codes, s \in Sessions : RedeemGet(p, c, s)
         \/ CodePut(p) \/ RedeemForget(p) \/ RedeemCheck(p)
  PROVE  Booked'
<1> USE DEF At, Goto
<1>0. /\ proc[p] \in ProcState /\ ghost \in History /\ meta \in [Sessions -> Bound]
      /\ proc[p].session \in Sessions /\ Role(p) /\ Books
  BY DEF TypeOK, ProcState, Booked
<1>1. ASSUME NEW s \in Sessions, NEW app \in {0, 1}, Login(p, s, app)
      PROVE  Booked'
  <2> DEFINE st == [Idle EXCEPT !.pc = "register", !.session = s]
             b  == [hash |-> Hash(row), version |-> ghost.version, app |-> app]
  <2>1. st.pc = "register" /\ st.session = s
    BY DEF Idle
  <2>2. /\ Become(p, st) /\ meta' = [meta EXCEPT ![s] = b] /\ s \notin ghost.issued
        /\ UNCHANGED <<registry, appKeys, lock>>
        /\ ghost'.issued = ghost.issued \cup {s} /\ ghost'.active = ghost.active
        /\ ghost'.removed = ghost.removed
    BY <1>0, <1>1 DEF Login, Issue, History
  <2> HIDE DEF st, b
  <2>3. Leaves(p)
    BY <1>0, <2>2 DEF Leaves, Own
  <2>4. (\A q \in Procs \ {p} : Role(q)') /\ OwnBearer' /\ proc'[p] = st
    BY <2>1, <2>2, <2>3, OthersKeep DEF Own
  <2>5. Role(p)'
    BY <1>0, <2>1, <2>2, <2>4 DEF Role, Bearing, Holds, Books
  <2>6. Books'
    BY <1>0, <2>2, SessionsAssumption DEF Books
  <2> QED  BY <2>4, <2>5, <2>6 DEF Booked
<1>2. ASSUME NEW c \in Codes, CodeRead(p, c) PROVE Booked'
  <2> DEFINE st == [Idle EXCEPT !.pc = "code", !.code = c, !.copy = row, !.version = ghost.version]
  <2>1. st.pc = "code"
    BY DEF Idle
  <2>2. Become(p, st) /\ UNCHANGED <<registry, meta, appKeys, lock>>
        /\ ghost'.issued = ghost.issued /\ ghost'.active = ghost.active
        /\ ghost'.removed = ghost.removed
    BY <1>0, <1>2 DEF CodeRead, History
  <2> HIDE DEF st
  <2> QED  BY <2>1, <2>2, Aside DEF Bearing, Holds
<1>3. ASSUME NEW c \in Codes, NEW s \in Sessions, RedeemGet(p, c, s) PROVE Booked'
  <2> DEFINE st == [Idle EXCEPT !.pc = "pulled", !.code = c, !.session = s]
  <2>1. st.pc = "pulled" /\ st.session = s
    BY DEF Idle
  <2>2. /\ Become(p, st) /\ s \notin ghost.issued
        /\ UNCHANGED <<registry, meta, appKeys, lock>>
        /\ ghost'.issued = ghost.issued \cup {s} /\ ghost'.active = ghost.active
        /\ ghost'.removed = ghost.removed
    BY <1>0, <1>3 DEF RedeemGet, History
  <2> HIDE DEF st
  <2>3. Leaves(p)
    BY <2>2 DEF Leaves
  <2>4. (\A q \in Procs \ {p} : Role(q)') /\ OwnBearer' /\ proc'[p] = st
    BY <2>1, <2>2, <2>3, OthersKeep DEF Own
  <2>5. Role(p)'
    BY <1>0, <2>1, <2>2, <2>4 DEF Role, Bearing, Holds, Books
  <2>6. Books'
    BY <1>0, <2>2 DEF Books
  <2> QED  BY <2>4, <2>5, <2>6 DEF Booked
<1>4. CASE CodePut(p)
  BY <1>4, IdleState, Aside DEF CodePut, Bearing, Holds
<1>5. CASE RedeemForget(p)
  <2> DEFINE st == [proc[p] EXCEPT !.pc = "check"]
  <2>1. st.pc = "check" /\ st.session = proc[p].session
    BY <1>0 DEF ProcState
  <2>2. /\ Become(p, st) /\ proc[p].pc = "pulled"
        /\ UNCHANGED <<registry, meta, appKeys, lock, ghost>>
    BY <1>5 DEF RedeemForget
  <2> HIDE DEF st
  <2>3. Leaves(p)
    BY <2>2 DEF Leaves
  <2>4. (\A q \in Procs \ {p} : Role(q)') /\ OwnBearer' /\ proc'[p] = st
    BY <2>1, <2>2, <2>3, OthersKeep DEF Own, Bearing
  <2>5. Role(p)'
    BY <1>0, <2>1, <2>2, <2>4 DEF Role, Bearing, Holds
  <2>6. Books'
    BY <1>0, <2>2 DEF Books
  <2> QED  BY <2>4, <2>5, <2>6 DEF Booked
<1>6. CASE RedeemCheck(p)
  <2>1. ASSUME NEW v, Issue(p, proc[p].session, row, v, 0),
               ghost'.issued = ghost.issued, ghost'.active = ghost.active,
               ghost'.removed = ghost.removed
        PROVE  Booked'
    <3> DEFINE s  == proc[p].session
               st == [Idle EXCEPT !.pc = "register", !.session = s]
               b  == [hash |-> Hash(row), version |-> v, app |-> 0]
    <3>1. st.pc = "register" /\ st.session = s
      BY DEF Idle
    <3>2. /\ Become(p, st) /\ meta' = [meta EXCEPT ![s] = b] /\ proc[p].pc = "check"
          /\ UNCHANGED <<registry, appKeys, lock>>
      BY <1>6, <2>1 DEF RedeemCheck, Issue
    <3>3. s \in ghost.issued \ ghost.active /\ s \in Sessions
      BY <1>0, <3>2 DEF Role, Bearing
    <3>4. Own(p, s)
      BY <3>2 DEF Own, Bearing
    <3> HIDE DEF st, b, s
    <3>5. Leaves(p)
      BY <1>0, <2>1, <3>2, <3>4 DEF Leaves
    <3>6. (\A q \in Procs \ {p} : Role(q)') /\ OwnBearer' /\ proc'[p] = st
      BY <3>1, <3>2, <3>4, <3>5, OthersKeep
    <3>7. Role(p)'
      BY <2>1, <3>1, <3>3, <3>6 DEF Role, Bearing, Holds
    <3>8. Books'
      BY <1>0, <2>1, <3>2, <3>3 DEF Books
    <3> QED  BY <3>6, <3>7, <3>8 DEF Booked
  <2>2. CASE Become(p, Idle) /\ UNCHANGED <<meta, ghost>>
    BY <1>6, <2>2, IdleState, Aside DEF RedeemCheck, Bearing, Holds
  <2>3. ASSUME NEW u, ghost' = [ghost EXCEPT !.uses = u]
        PROVE  /\ ghost'.issued = ghost.issued /\ ghost'.active = ghost.active
               /\ ghost'.removed = ghost.removed
    BY <1>0, <2>3 DEF History
  <2> QED  BY <1>6, <2>1, <2>2, <2>3 DEF RedeemCheck
<1> QED  BY <1>1, <1>2, <1>3, <1>4, <1>5, <1>6

\* Who holds the lock is alone at work on the registry: the others are left
\* alone whatever he does to it.
LEMMA HolderLeaves ==
  ASSUME NEW p \in Procs, lock = p, lock' \in {p, Nobody},
         ghost'.issued = ghost.issued, ghost.active \subseteq ghost'.active,
         ghost.removed \subseteq ghost'.removed, meta' = meta,
         \A s \in ghost'.active : s \in ghost.active \/ Own(p, s)
  PROVE  Leaves(p)
BY DEF Leaves

LEMMA RegisterBooked ==
  ASSUME TypeOK, Booked, NEW p \in Procs,
         RegisterLock(p) \/ RegisterApp(p) \/ RegisterPut(p) \/ RegisterFail(p)
  PROVE  Booked'
<1> USE DEF At, Goto
<1>0. /\ proc[p] \in ProcState /\ ghost \in History /\ meta \in [Sessions -> Bound]
      /\ proc[p].session \in Sessions /\ Role(p) /\ Books
  BY DEF TypeOK, ProcState, Booked
<1>1. CASE RegisterLock(p)
  <2> DEFINE pc == IF meta[proc[p].session].app = 1 THEN "app" ELSE "put"
             st == [proc[p] EXCEPT !.seen = registry, !.pc = pc]
  <2>1. /\ st.pc = pc /\ st.session = proc[p].session /\ st.seen = registry
        /\ pc \in {"app", "put"} /\ (pc = "put" => meta[st.session].app # 1)
    BY <1>0 DEF ProcState
  <2>2. /\ Become(p, st) /\ proc[p].pc = "register" /\ lock = Nobody /\ lock' = p
        /\ UNCHANGED <<registry, meta, appKeys, ghost>>
    BY <1>1 DEF RegisterLock
  <2>3. Own(p, st.session)
    BY <2>1, <2>2 DEF Own, Bearing
  <2> HIDE DEF st, pc
  <2>4. Leaves(p)
    BY <2>2, SessionsAssumption DEF Leaves
  <2>5. (\A q \in Procs \ {p} : Role(q)') /\ OwnBearer' /\ proc'[p] = st
    BY <2>2, <2>3, <2>4, OthersKeep
  <2>6. Role(p)'
    BY <1>0, <2>1, <2>2, <2>5 DEF Role, Bearing, Holds
  <2>7. Books'
    BY <1>0, <2>2 DEF Books
  <2> QED  BY <2>5, <2>6, <2>7 DEF Booked
<1>2. CASE RegisterApp(p)
  <2> DEFINE st == [proc[p] EXCEPT !.pc = "put"]
  <2>1. st.pc = "put" /\ st.session = proc[p].session /\ st.seen = proc[p].seen
    BY <1>0 DEF ProcState
  <2>2. /\ Become(p, st) /\ proc[p].pc = "app" /\ appKeys' = appKeys \cup {proc[p].session}
        /\ UNCHANGED <<registry, meta, lock, ghost>>
    BY <1>2 DEF RegisterApp
  <2>3. Own(p, st.session) /\ lock = p
    BY <1>0, <2>1, <2>2 DEF Own, Bearing, Role, Holds
  <2> HIDE DEF st
  <2>4. Leaves(p)
    BY <2>2, <2>3, HolderLeaves
  <2>5. (\A q \in Procs \ {p} : Role(q)') /\ OwnBearer' /\ proc'[p] = st
    BY <2>2, <2>3, <2>4, OthersKeep
  <2>6. Role(p)'
    BY <1>0, <2>1, <2>2, <2>5 DEF Role, Bearing, Holds
  <2>7. Books'
    BY <1>0, <2>2 DEF Books
  <2> QED  BY <2>5, <2>6, <2>7 DEF Booked
<1>3. CASE RegisterPut(p)
  <2> DEFINE s == proc[p].session
  <2>1. /\ Become(p, Idle) /\ proc[p].pc = "put" /\ registry' = proc[p].seen \cup {s}
        /\ lock' = Released(p) /\ UNCHANGED <<meta, appKeys>>
        /\ ghost'.issued = ghost.issued /\ ghost'.removed = ghost.removed
        /\ ghost'.active = ghost.active \cup {s}
    BY <1>0, <1>3 DEF RegisterPut, History
  <2>2. /\ Own(p, s) /\ lock = p /\ proc[p].seen = registry
        /\ s \in ghost.issued \ ghost.active
        /\ (meta[s].app = 1 => s \in appKeys)
    BY <1>0, <2>1 DEF Own, Bearing, Role, Holds
  <2> HIDE DEF s
  <2>3. Leaves(p)
    BY <2>1, <2>2, HolderLeaves DEF Released
  <2>4. (\A q \in Procs \ {p} : Role(q)') /\ OwnBearer' /\ proc'[p] = Idle
    BY <2>1, <2>3, OthersKeep, IdleState DEF Bearing
  <2>5. Role(p)'
    BY <2>4, IdleState DEF Role, Bearing, Holds
  <2>6. Books'
    BY <1>0, <2>1, <2>2 DEF Books
  <2> QED  BY <2>4, <2>5, <2>6 DEF Booked
<1>4. CASE RegisterFail(p)
  <2>1. /\ Become(p, Idle) /\ proc[p].pc \in {"app", "put"}
        /\ appKeys' = appKeys \ {proc[p].session}
        /\ lock' = Released(p) /\ UNCHANGED <<registry, meta, ghost>>
    BY <1>4 DEF RegisterFail
  <2>2. lock = p /\ proc[p].session \notin ghost.active
    BY <1>0, <2>1 DEF Bearing, Role, Holds
  <2>3. Leaves(p)
    BY <2>1, <2>2, HolderLeaves DEF Released
  <2>4. (\A q \in Procs \ {p} : Role(q)') /\ OwnBearer' /\ proc'[p] = Idle
    BY <2>1, <2>3, OthersKeep, IdleState DEF Bearing
  <2>5. Role(p)'
    BY <2>4, IdleState DEF Role, Bearing, Holds
  <2>6. Books'
    BY <1>0, <2>1, <2>2 DEF Books
  <2> QED  BY <2>4, <2>5, <2>6 DEF Booked
<1> QED  BY <1>1, <1>2, <1>3, <1>4

LEMMA RemoveBooked ==
  ASSUME TypeOK, Booked, NEW p \in Procs,
         \/ \E s \in Sessions : RemoveLock(p, s)
         \/ RemovePut(p) \/ RemoveFail(p) \/ RemoveKey(p)
         \/ RevokeLock(p) \/ RevokeForget(p) \/ RevokeKeys(p)
  PROVE  Booked'
<1> USE DEF At, Goto
<1>0. /\ proc[p] \in ProcState /\ ghost \in History /\ meta \in [Sessions -> Bound]
      /\ proc[p].session \in Sessions /\ Role(p) /\ Books
  BY DEF TypeOK, ProcState, Booked
<1>1. ASSUME NEW st, Become(p, st), lock = Nobody, lock' = p, ~Bearing(st),
             st.pc \in {"drop", "forget"}, st.seen = registry,
             st.pc = "drop" => st.session \in ghost.active,
             UNCHANGED <<registry, meta, appKeys, ghost>>
      PROVE  Booked'
  <2>1. Leaves(p)
    BY <1>1, SessionsAssumption DEF Leaves
  <2>2. (\A q \in Procs \ {p} : Role(q)') /\ OwnBearer' /\ proc'[p] = st
    BY <1>1, <2>1, OthersKeep
  <2>3. Role(p)'
    BY <1>1, <2>2 DEF Role, Bearing, Holds
  <2>4. Books'
    BY <1>0, <1>1 DEF Books
  <2> QED  BY <2>2, <2>3, <2>4 DEF Booked
<1>2. ASSUME NEW s \in Sessions, RemoveLock(p, s) PROVE Booked'
  <2> DEFINE st == [Idle EXCEPT !.pc = "drop", !.session = s, !.seen = registry]
  <2>1. st.pc = "drop" /\ st.session = s /\ st.seen = registry
    BY DEF Idle
  <2>2. /\ Become(p, st) /\ lock = Nobody /\ lock' = p /\ s \in ghost.active
        /\ UNCHANGED <<registry, meta, appKeys, ghost>>
    BY <1>2 DEF RemoveLock
  <2> HIDE DEF st
  <2> QED  BY <1>1, <2>1, <2>2 DEF Bearing
<1>3. CASE RevokeLock(p)
  <2> DEFINE st == [proc[p] EXCEPT !.pc = "forget", !.seen = registry]
  <2>1. st.pc = "forget" /\ st.seen = registry
    BY <1>0 DEF ProcState
  <2>2. /\ Become(p, st) /\ lock = Nobody /\ lock' = p
        /\ UNCHANGED <<registry, meta, appKeys, ghost>>
    BY <1>3 DEF RevokeLock
  <2> HIDE DEF st
  <2> QED  BY <1>1, <2>1, <2>2 DEF Bearing
<1>4. CASE RemovePut(p)
  <2> DEFINE st == [proc[p] EXCEPT !.pc = "dropKey"]
             s  == proc[p].session
  <2>1. st.pc = "dropKey" /\ st.session = s
    BY <1>0 DEF ProcState
  <2>2. /\ Become(p, st) /\ proc[p].pc = "drop" /\ registry' = proc[p].seen \ {s}
        /\ UNCHANGED <<meta, appKeys, lock>>
        /\ ghost'.issued = ghost.issued /\ ghost'.active = ghost.active
        /\ ghost'.removed = ghost.removed \cup {s}
    BY <1>0, <1>4 DEF RemovePut, History
  <2>3. lock = p /\ s \in ghost.active /\ proc[p].seen = registry
    BY <1>0, <2>2 DEF Role, Holds
  <2> HIDE DEF st, s
  <2>4. Leaves(p)
    BY <2>2, <2>3, HolderLeaves
  <2>5. (\A q \in Procs \ {p} : Role(q)') /\ OwnBearer' /\ proc'[p] = st
    BY <2>1, <2>2, <2>4, OthersKeep DEF Bearing
  <2>6. Role(p)'
    BY <2>1, <2>2, <2>3, <2>5 DEF Role, Bearing, Holds
  <2>7. Books'
    BY <1>0, <2>2, <2>3 DEF Books
  <2> QED  BY <2>5, <2>6, <2>7 DEF Booked
<1>5. CASE RevokeForget(p)
  <2> DEFINE st == [proc[p] EXCEPT !.pc = "keys"]
  <2>1. st.pc = "keys" /\ st.seen = proc[p].seen
    BY <1>0 DEF ProcState
  <2>2. /\ Become(p, st) /\ proc[p].pc = "forget" /\ registry' = {}
        /\ UNCHANGED <<meta, appKeys, lock>>
        /\ ghost'.issued = ghost.issued /\ ghost'.active = ghost.active
        /\ ghost'.removed = ghost.removed \cup proc[p].seen
    BY <1>0, <1>5 DEF RevokeForget, History
  <2>3. lock = p /\ proc[p].seen = registry
    BY <1>0, <2>2 DEF Role, Holds
  <2> HIDE DEF st
  <2>4. Leaves(p)
    BY <2>2, <2>3, HolderLeaves
  <2>5. (\A q \in Procs \ {p} : Role(q)') /\ OwnBearer' /\ proc'[p] = st
    BY <2>1, <2>2, <2>4, OthersKeep DEF Bearing
  <2>6. Role(p)'
    BY <2>1, <2>2, <2>3, <2>5 DEF Role, Bearing, Holds
  <2>7. Books'
    BY <1>0, <2>2, <2>3 DEF Books
  <2> QED  BY <2>5, <2>6, <2>7 DEF Booked
<1>6. CASE RemoveFail(p)
  BY <1>6, IdleState, Aside DEF RemoveFail, Bearing, Holds
<1>7. ASSUME NEW st, Become(p, st), ~Bearing(st), ~Holds(st), lock = p, lock' = Released(p),
             NEW gone, gone \subseteq ghost.removed, appKeys' = appKeys \ gone,
             UNCHANGED <<registry, meta, ghost>>
      PROVE  Booked'
  <2>1. Leaves(p)
    BY <1>7, HolderLeaves DEF Released
  <2>2. (\A q \in Procs \ {p} : Role(q)') /\ OwnBearer' /\ proc'[p] = st
    BY <1>7, <2>1, OthersKeep
  <2>3. Role(p)'
    BY <1>7, <2>2 DEF Role, Bearing, Holds
  <2>4. Books'
    BY <1>0, <1>7 DEF Books
  <2> QED  BY <2>2, <2>3, <2>4 DEF Booked
<1>8. CASE RemoveKey(p)
  <2>1. /\ Become(p, Idle) /\ proc[p].pc = "dropKey" /\ lock' = Released(p)
        /\ appKeys' = appKeys \ ({proc[p].session} \cap proc[p].seen)
        /\ UNCHANGED <<registry, meta, ghost>>
    BY <1>8 DEF RemoveKey
  <2>2. lock = p /\ {proc[p].session} \cap proc[p].seen \subseteq ghost.removed
    BY <1>0, <2>1 DEF Role, Holds
  <2> QED  BY <1>7, <2>1, <2>2, IdleState DEF Bearing, Holds
<1>9. CASE RevokeKeys(p)
  <2>1. /\ proc[p].pc = "keys" /\ lock' = Released(p) /\ appKeys' = appKeys \ proc[p].seen
        /\ UNCHANGED <<registry, meta, ghost>>
        /\ \/ Become(p, Idle) \/ Become(p, [Idle EXCEPT !.pc = "revoke"])
           \/ Become(p, [proc[p] EXCEPT !.pc = "commit"])
    BY <1>0, <1>9 DEF RevokeKeys, ProcState
  <2>2. lock = p /\ proc[p].seen \subseteq ghost.removed
    BY <1>0, <2>1 DEF Role, Holds
  <2>3. [Idle EXCEPT !.pc = "revoke"].pc = "revoke" /\ [proc[p] EXCEPT !.pc = "commit"].pc = "commit"
    BY <1>0 DEF Idle, ProcState
  <2>4. PICK st : Become(p, st) /\ st.pc \in {"idle", "revoke", "commit"}
    BY <2>1, <2>3, IdleState
  <2> QED  BY <1>7, <2>1, <2>2, <2>4 DEF Bearing, Holds
<1> QED  BY <1>2, <1>3, <1>4, <1>5, <1>6, <1>8, <1>9

LEMMA StoreHistory ==
  ASSUME TypeOK, NEW new, Store(new)
  PROVE  /\ ghost'.issued = ghost.issued /\ ghost'.active = ghost.active
         /\ ghost'.removed = ghost.removed /\ ghost'.missed = ghost.missed
         /\ ghost'.version = IF Hash(new) = Hash(row) THEN ghost.version ELSE ghost.version + 1
BY DEF TypeOK, History, Store

LEMMA EditStates ==
  /\ \A r : [Idle EXCEPT !.pc = "edit", !.copy = r].pc = "edit"
  /\ \A then : [Idle EXCEPT !.pc = "revoke", !.then = then].pc = "revoke"
  /\ \A r : [Idle EXCEPT !.pc = "revoke", !.then = "commit", !.copy = r].pc = "revoke"
BY DEF Idle

\* A save goes on to revoke if anything changed.
LEMMA SaveTurns ==
  ASSUME NEW p \in Procs, NEW password, NEW reset, NEW identity, NEW banned,
         EditSave(p, password, reset, identity, banned)
  PROVE  \E st : /\ Become(p, st)
                 /\ IF Changes(proc[p].copy, password, reset, identity, banned)
                    THEN st.pc = "revoke" ELSE st.pc = "idle"
<1> DEFINE C == Changes(proc[p].copy, password, reset, identity, banned)
<1>1. PICK then : Become(p, IF C THEN [Idle EXCEPT !.pc = "revoke", !.then = then] ELSE Idle)
  BY DEF EditSave
<1>2. CASE C
  <2>1. Become(p, [Idle EXCEPT !.pc = "revoke", !.then = then])
    BY <1>1, <1>2
  <2>2. [Idle EXCEPT !.pc = "revoke", !.then = then].pc = "revoke"
    BY EditStates
  <2> QED  BY <1>2, <2>1, <2>2
<1>3. CASE ~C
  <2>1. Become(p, Idle)
    BY <1>1, <1>3
  <2> QED  BY <1>3, <2>1, IdleState
<1> QED  BY <1>2, <1>3

LEMMA EditBooked ==
  ASSUME TypeOK, Booked, NEW p \in Procs, EditRead(p) \/ EditAbort(p) \/ Edit(p) \/ EditCommit(p)
  PROVE  Booked'
<1> USE DEF At
<1>1. ASSUME NEW st, Become(p, st), st.pc \in {"idle", "edit", "revoke"},
             UNCHANGED <<registry, meta, appKeys, lock>>,
             UNCHANGED ghost \/ \E new : Store(new)
      PROVE  Booked'
  <2>1. /\ ghost'.issued = ghost.issued /\ ghost'.active = ghost.active
        /\ ghost'.removed = ghost.removed
    BY <1>1, StoreHistory
  <2> QED  BY <1>1, <2>1, Aside DEF Bearing, Holds
<1>2. CASE EditRead(p)
  BY <1>1, <1>2, EditStates DEF EditRead
<1>3. CASE EditAbort(p)
  BY <1>1, <1>3, IdleState DEF EditAbort
<1>4. CASE EditCommit(p)
  BY <1>1, <1>4, IdleState DEF EditCommit
<1>5. ASSUME NEW password \in BOOLEAN, NEW identity \in {0, 1}, NEW banned \in {0, 1},
             EditStaff(p, password, identity, banned)
      PROVE  Booked'
  BY <1>1, <1>5, EditStates DEF EditStaff
<1>6. ASSUME NEW password \in BOOLEAN, NEW reset \in BOOLEAN, NEW identity \in {0, 1},
             NEW banned \in {0, 1}, EditSave(p, password, reset, identity, banned)
      PROVE  Booked'
  <2>1. PICK st : Become(p, st) /\ st.pc \in {"idle", "revoke"}
    BY <1>6, SaveTurns
  <2>2. UNCHANGED <<registry, meta, appKeys, lock>> /\ \E new : Store(new)
    BY <1>6 DEF EditSave
  <2> QED  BY <1>1, <2>1, <2>2
<1> QED  BY <1>2, <1>3, <1>4, <1>5, <1>6 DEF Edit

LEMMA FailureBooked ==
  ASSUME TypeOK, stalls = 0, stalls' = 0, Booked,
         \/ \E p \in Procs : Die(p) \/ GiveUp(p)
         \/ LockExpires
         \/ \E c \in Codes : CodeExpires(c) \/ CodeLockExpires(c)
  PROVE  Booked'
<1>1. ASSUME NEW p \in Procs, Die(p) \/ GiveUp(p) PROVE Booked'
  <2>1. /\ ghost'.issued = ghost.issued /\ ghost'.active = ghost.active
        /\ ghost'.removed = ghost.removed
    BY <1>1 DEF Die, GiveUp, TypeOK, History
  <2> QED  BY <1>1, <2>1, IdleState, Aside DEF Die, GiveUp, Bearing, Holds
\* a lock that is given up by nobody at work on the registry
<1>2. CASE LockExpires
  <2>1. \A p \in Procs : ~Holds(proc[p])
    <3> SUFFICES ASSUME NEW p \in Procs, Holds(proc[p]) PROVE FALSE
      OBVIOUS
    <3>1. lock = p
      BY DEF Booked, Role
    <3> QED  BY <1>2, <3>1 DEF LockExpires, Expired, Holds
  <2>2. UNCHANGED <<registry, meta, appKeys, proc, ghost>>
    BY <1>2 DEF LockExpires
  <2>3. \A p \in Procs : Role(p)'
    BY <2>1, <2>2 DEF Booked, Role, Holds, Bearing
  <2>4. Books' /\ OwnBearer'
    BY <2>2 DEF Booked, Books, OwnBearer, Bearing
  <2> QED  BY <2>3, <2>4 DEF Booked
<1>3. ASSUME NEW c \in Codes, CodeExpires(c) \/ CodeLockExpires(c) PROVE Booked'
  <2>1. UNCHANGED <<registry, meta, appKeys, proc, lock, ghost>>
    BY <1>3 DEF CodeExpires, CodeLockExpires
  <2> QED  BY <2>1 DEF Booked, Books, Role, OwnBearer, Bearing, Holds
<1> QED  BY <1>1, <1>2, <1>3

\* A lock that was lost to its expiry stays counted.
LEMMA StallsStay == ASSUME TypeOK, [Next]_vars, stalls' = 0 PROVE stalls = 0
<1>1. stalls \in Nat
  BY SessionsAssumption DEF TypeOK
<1>2. CASE UNCHANGED stalls
  BY <1>2
<1>3. CASE stalls' = stalls + 1
  BY <1>1, <1>3
<1>4. ASSUME NEW p \in Procs, Step(p) PROVE UNCHANGED stalls
  BY <1>4 DEF Step, Edit, Finish, Login, CodeRead, RedeemGet, RemoveLock, EditRead, EditAbort,
              EditStaff, EditSave, RegisterFail, RemoveFail, Die, GiveUp, RegisterLock,
              RegisterApp, RegisterPut, CodePut, RedeemForget, RedeemCheck, RemovePut, RemoveKey,
              RevokeLock, RevokeForget, RevokeKeys, EditCommit
<1>5. CASE LockExpires \/ \E c \in Codes : CodeExpires(c) \/ CodeLockExpires(c)
  BY <1>2, <1>3, <1>5 DEF LockExpires, CodeExpires, CodeLockExpires, Expired
<1> QED  BY <1>2, <1>4, <1>5 DEF Next, vars

BookedUnstalled == stalls = 0 => Booked

LEMMA NextBooked ==
  ASSUME TypeOK, Placed, BookedUnstalled, [Next]_vars
  PROVE  BookedUnstalled'
<1> SUFFICES ASSUME stalls' = 0 PROVE Booked'
  BY DEF BookedUnstalled
<1>1. stalls = 0 /\ Booked
  BY StallsStay DEF BookedUnstalled
<1>2. ASSUME NEW p \in Procs, Step(p) PROVE Booked'
  BY <1>1, <1>2, LoginBooked, RegisterBooked, RemoveBooked, EditBooked, FailureBooked
     DEF Step, Finish
<1>3. CASE LockExpires \/ \E c \in Codes : CodeExpires(c) \/ CodeLockExpires(c)
  BY <1>1, <1>3, FailureBooked
<1>4. CASE UNCHANGED vars
  BY <1>1, <1>4 DEF vars, Booked, Books, Role, OwnBearer, Bearing, Holds
<1> QED  BY <1>2, <1>3, <1>4 DEF Next

\* Unless a lock expires under its owner, registrations, removals and
\* revocations that interleave undo nothing: a removed session is accepted
\* nowhere, and one that was handed out stays registered, with its App
\* credential, until it is removed.
THEOREM RegistryStaysKept == Spec => []RegistryKept
<1>1. BookedUnstalled => RegistryKept
  BY DEF BookedUnstalled, Booked, Books, RegistryKept, Accepts, AcceptsApp
<1>2. TypeOK /\ Placed /\ BookedUnstalled /\ [Next]_vars => BookedUnstalled'
  BY NextBooked
<1>3. Init => TypeOK /\ Placed /\ BookedUnstalled
  BY InitTyped, InitBooked DEF BookedUnstalled
<1> QED  BY <1>1, <1>2, <1>3, NextTyped, PTL DEF Spec

-----------------------------------------------------------------------------
(* In the end sessions of before the upgrade are revoked too.               *)

\* A session of before the upgrade that outlived a change is about to be
\* revoked, and one that is out stays out.
Revoking ==
  /\ ghost.version > 0 /\ OldSession \in registry =>
       \E p \in Procs : proc[p].pc \in {"revoke", "forget"}
  /\ \A p \in Procs : proc[p].pc \in {"keys", "commit"} => OldSession \notin registry

\* A step that lets no old session in, drops no revocation without having
\* emptied the registry, and changes the row only with one under way.
LEMMA RevokingMoves ==
  ASSUME TypeOK, Revoking, NEW p \in Procs, NEW st, Become(p, st),
         OldSession \in registry' => OldSession \in registry,
         proc[p].pc \in {"revoke", "forget"} =>
           st.pc \in {"revoke", "forget"} \/ OldSession \notin registry',
         st.pc \in {"keys", "commit"} => OldSession \notin registry',
         ghost'.version = ghost.version \/ st.pc = "revoke" \/ OldSession \notin registry'
  PROVE  Revoking'
<1>1. proc'[p] = st /\ \A q \in Procs \ {p} : proc'[q] = proc[q]
  BY DEF TypeOK, Become
<1>2. ASSUME NEW q \in Procs, proc'[q].pc \in {"keys", "commit"} PROVE OldSession \notin registry'
  BY <1>1, <1>2 DEF Revoking
<1>3. ASSUME ghost'.version > 0, OldSession \in registry'
      PROVE  \E q \in Procs : proc'[q].pc \in {"revoke", "forget"}
  <2>1. CASE st.pc = "revoke"
    BY <1>1, <2>1
  <2>2. CASE ghost'.version = ghost.version
    BY <1>1, <1>3, <2>2 DEF Revoking
  <2> QED  BY <1>3, <2>1, <2>2
<1> QED  BY <1>2, <1>3 DEF Revoking

\* A handler that is not about to revoke, and ends outside revocations.
LEMMA RevokingAside ==
  ASSUME TypeOK, Revoking, NEW p \in Procs, NEW st, Become(p, st),
         proc[p].pc \notin {"revoke", "forget"}, st.pc \notin {"keys", "commit"},
         OldSession \in registry' => OldSession \in registry, ghost'.version = ghost.version
  PROVE  Revoking'
BY RevokingMoves

\* Whose row differs in what is hashed has a change to revoke for.
LEMMA HashChanges ==
  ASSUME TypeOK, NEW copy \in Row, NEW password \in BOOLEAN, NEW reset \in BOOLEAN,
         NEW identity \in {0, 1}, NEW banned \in {0, 1},
         Hash(Saved(copy, password, reset, identity, banned)) # Hash(row)
  PROVE  Changes(copy, password, reset, identity, banned)
<1>1. row.password + 0 = row.password /\ row.token + 0 = row.token
  BY DEF TypeOK, Row
<1> SUFFICES ASSUME ~Changes(copy, password, reset, identity, banned)
             PROVE  Hash(Saved(copy, password, reset, identity, banned)) = Hash(row)
  OBVIOUS
<1>2. /\ password = FALSE /\ reset = FALSE /\ identity = copy.identity /\ banned = copy.banned
  BY DEF Changes
<1>3. Hash(Saved(copy, password, reset, identity, banned)) =
        [password |-> row.password, token |-> row.token, identity |-> row.identity,
         banned |-> row.banned]
  BY <1>1, <1>2 DEF Saved, Hash
<1> QED  BY <1>3 DEF Hash

LEMMA NextRevoking ==
  ASSUME TypeOK, Placed, Booked, Revoking, [Next]_vars,
         failures' = 0, stalls' = 0, ghost'.missed = 0
  PROVE  Revoking'
<1> USE DEF At, Goto
<1>0. /\ proc \in [Procs -> ProcState] /\ ghost \in History /\ Books
      /\ \A p \in Procs : proc[p] \in ProcState /\ Role(p)
  BY DEF TypeOK, Booked
<1>1. failures \in Nat /\ stalls \in Nat
  BY SessionsAssumption DEF TypeOK
<1>2. ASSUME NEW p \in Procs,
             \/ \E s \in Sessions, app \in {0, 1} : Login(p, s, app)
             \/ \E c \in Codes : CodeRead(p, c)
             \/ \E c \in Codes, s \in Sessions : RedeemGet(p, c, s)
             \/ CodePut(p) \/ RedeemForget(p) \/ RedeemCheck(p)
      PROVE  Revoking'
  <2>1. registry' = registry /\ ghost'.version = ghost.version
        /\ proc[p].pc \notin {"revoke", "forget"}
    BY <1>0, <1>2 DEF Login, CodeRead, RedeemGet, CodePut, RedeemForget, RedeemCheck, Issue, History
  <2>2. \E st : Become(p, st) /\ st.pc \notin {"keys", "commit"}
    <3>1. /\ \A s : [Idle EXCEPT !.pc = "register", !.session = s].pc = "register"
          /\ \A c : [Idle EXCEPT !.pc = "code", !.code = c, !.copy = row,
                                 !.version = ghost.version].pc = "code"
          /\ \A c, s : [Idle EXCEPT !.pc = "pulled", !.code = c, !.session = s].pc = "pulled"
          /\ [proc[p] EXCEPT !.pc = "check"].pc = "check"
      BY <1>0 DEF Idle, ProcState
    <3> QED  BY <1>2, <3>1, IdleState
             DEF Login, CodeRead, RedeemGet, CodePut, RedeemForget, RedeemCheck, Issue
  <2> QED  BY <2>1, <2>2, RevokingAside
<1>3. ASSUME NEW p \in Procs,
             RegisterLock(p) \/ RegisterApp(p) \/ RegisterPut(p) \/ RegisterFail(p)
      PROVE  Revoking'
  <2>1. ghost'.version = ghost.version /\ proc[p].pc \notin {"revoke", "forget"}
    BY <1>0, <1>3 DEF RegisterLock, RegisterApp, RegisterPut, RegisterFail, History
  <2>2. \E st : Become(p, st) /\ st.pc \notin {"keys", "commit"}
    <3>1. /\ \A pc : [proc[p] EXCEPT !.seen = registry, !.pc = pc].pc = pc
          /\ [proc[p] EXCEPT !.pc = "put"].pc = "put"
      BY <1>0 DEF ProcState
    <3>2. CASE RegisterLock(p)
      <4> DEFINE pc == IF meta[proc[p].session].app = 1 THEN "app" ELSE "put"
                 st == [proc[p] EXCEPT !.seen = registry, !.pc = pc]
      <4>1. Become(p, st) /\ st.pc = pc
        BY <3>1, <3>2 DEF RegisterLock
      <4> HIDE DEF st
      <4> QED  BY <4>1
    <3>3. CASE RegisterApp(p)
      BY <3>1, <3>3 DEF RegisterApp
    <3>4. CASE RegisterPut(p) \/ RegisterFail(p)
      <4>1. Become(p, Idle)
        BY <3>4 DEF RegisterPut, RegisterFail
      <4> QED  BY <4>1, IdleState
    <3> QED  BY <1>3, <3>2, <3>3, <3>4
  <2>3. OldSession \in registry' => OldSession \in registry
    <3>1. CASE RegisterPut(p)
      <4>1. proc[p].seen = registry /\ proc[p].session \notin ghost.active
        BY <1>0, <3>1 DEF RegisterPut, Role, Bearing
      <4> QED  BY <1>0, <3>1, <4>1 DEF RegisterPut, Books
    <3> QED  BY <1>3, <3>1 DEF RegisterLock, RegisterApp, RegisterFail
  <2> QED  BY <2>1, <2>2, <2>3, RevokingAside
<1>4. ASSUME NEW p \in Procs, \/ \E s \in Sessions : RemoveLock(p, s)
                              \/ RemovePut(p) \/ RemoveFail(p) \/ RemoveKey(p)
      PROVE  Revoking'
  <2>1. ghost'.version = ghost.version /\ proc[p].pc \notin {"revoke", "forget"}
    BY <1>0, <1>4 DEF RemoveLock, RemovePut, RemoveFail, RemoveKey, History
  <2>2. \E st : Become(p, st) /\ st.pc \notin {"keys", "commit"}
    <3>1. /\ \A s : [Idle EXCEPT !.pc = "drop", !.session = s, !.seen = registry].pc = "drop"
          /\ [proc[p] EXCEPT !.pc = "dropKey"].pc = "dropKey"
      BY <1>0 DEF Idle, ProcState
    <3>2. CASE \E s \in Sessions : RemoveLock(p, s)
      <4>1. PICK s : Become(p, [Idle EXCEPT !.pc = "drop", !.session = s, !.seen = registry])
        BY <3>2 DEF RemoveLock
      <4>2. PICK st : Become(p, st) /\ st.pc = "drop"
        BY <3>1, <4>1
      <4> QED  BY <4>2
    <3>3. CASE RemovePut(p)
      <4>1. Become(p, [proc[p] EXCEPT !.pc = "dropKey"])
        BY <3>3 DEF RemovePut, Goto
      <4>2. PICK st : Become(p, st) /\ st.pc = "dropKey"
        BY <3>1, <4>1
      <4> QED  BY <4>2
    <3>4. CASE RemoveFail(p) \/ RemoveKey(p)
      <4>1. Become(p, Idle)
        BY <3>4 DEF RemoveFail, RemoveKey
      <4> QED  BY <4>1, IdleState
    <3> QED  BY <1>4, <3>2, <3>3, <3>4
  <2>3. OldSession \in registry' => OldSession \in registry
    <3>1. CASE RemovePut(p)
      <4>1. proc[p].seen = registry
        BY <1>0, <3>1 DEF RemovePut, At, Role
      <4> QED  BY <3>1, <4>1 DEF RemovePut
    <3>2. CASE (\E s \in Sessions : RemoveLock(p, s)) \/ RemoveFail(p) \/ RemoveKey(p)
      BY <3>2 DEF RemoveLock, RemoveFail, RemoveKey
    <3> QED  BY <1>4, <3>1, <3>2
  <2> QED  BY <2>1, <2>2, <2>3, RevokingAside
<1>5. ASSUME NEW p \in Procs, EditRead(p) \/ EditAbort(p) PROVE Revoking'
  <2>1. \E st : Become(p, st) /\ st.pc \in {"idle", "edit"}
    <3>1. CASE EditRead(p)
      <4>1. Become(p, [Idle EXCEPT !.pc = "edit", !.copy = row])
        BY <3>1 DEF EditRead
      <4> QED  BY <4>1, EditStates
    <3>2. CASE EditAbort(p)
      <4>1. Become(p, Idle)
        BY <3>2 DEF EditAbort
      <4> QED  BY <4>1, IdleState
    <3> QED  BY <1>5, <3>1, <3>2
  <2>2. registry' = registry /\ ghost' = ghost /\ proc[p].pc \notin {"revoke", "forget"}
    BY <1>5 DEF EditRead, EditAbort
  <2> QED  BY <2>1, <2>2, RevokingAside
<1>6. ASSUME NEW p \in Procs, EditCommit(p) PROVE Revoking'
  <2>1. Become(p, Idle) /\ registry' = registry /\ proc[p].pc = "commit"
    BY <1>6 DEF EditCommit
  <2>2. OldSession \notin registry'
    BY <2>1 DEF Revoking
  <2> QED  BY <2>1, <2>2, IdleState, RevokingMoves
<1>7. ASSUME NEW p \in Procs, NEW password \in BOOLEAN, NEW identity \in {0, 1},
             NEW banned \in {0, 1}, EditStaff(p, password, identity, banned)
      PROVE  Revoking'
  <2>1. \E st : Become(p, st) /\ st.pc = "revoke"
    <3> DEFINE new == Saved(row, password, FALSE, identity, banned)
    <3>1. Become(p, [Idle EXCEPT !.pc = "revoke", !.then = "commit", !.copy = new])
      BY <1>7 DEF EditStaff
    <3> HIDE DEF new
    <3> QED  BY <3>1, EditStates
  <2>2. registry' = registry /\ ghost' = ghost /\ proc[p].pc \notin {"revoke", "forget"}
    BY <1>7 DEF EditStaff
  <2> QED  BY <2>1, <2>2, RevokingAside
<1>8. ASSUME NEW p \in Procs, NEW password \in BOOLEAN, NEW reset \in BOOLEAN,
             NEW identity \in {0, 1}, NEW banned \in {0, 1},
             EditSave(p, password, reset, identity, banned)
      PROVE  Revoking'
  <2> DEFINE copy == proc[p].copy
             new  == Saved(copy, password, reset, identity, banned)
  <2>1. registry' = registry /\ proc[p].pc \notin {"revoke", "forget"} /\ Store(new)
    BY <1>8 DEF EditSave
  <2>2. copy \in Row
    BY <1>0 DEF ProcState
  <2>3. PICK st : /\ Become(p, st)
                  /\ IF Changes(copy, password, reset, identity, banned)
                     THEN st.pc = "revoke" ELSE st.pc = "idle"
    BY <1>8, SaveTurns
  <2>4. ghost'.version = ghost.version \/ st.pc = "revoke"
    BY <2>1, <2>2, <2>3, StoreHistory, HashChanges
  <2> QED  BY <2>1, <2>3, <2>4, RevokingMoves
<1>9. ASSUME NEW p \in Procs, RevokeLock(p) PROVE Revoking'
  <2>1. [proc[p] EXCEPT !.pc = "forget", !.seen = registry].pc = "forget"
    BY <1>0 DEF ProcState
  <2>2. PICK st : Become(p, st) /\ st.pc = "forget"
    BY <1>9, <2>1 DEF RevokeLock
  <2>3. registry' = registry /\ ghost' = ghost
    BY <1>9 DEF RevokeLock
  <2> QED  BY <2>2, <2>3, RevokingMoves
<1>10. ASSUME NEW p \in Procs, RevokeForget(p) PROVE Revoking'
  <2>1. (\E st : Become(p, st)) /\ OldSession \notin registry'
    BY <1>10 DEF RevokeForget
  <2> QED  BY <2>1, RevokingMoves
<1>11. ASSUME NEW p \in Procs, RevokeKeys(p) PROVE Revoking'
  <2>1. registry' = registry /\ ghost' = ghost /\ proc[p].pc = "keys" /\ \E st : Become(p, st)
    BY <1>11 DEF RevokeKeys
  <2>2. OldSession \notin registry'
    BY <2>1 DEF Revoking
  <2> QED  BY <2>1, <2>2, RevokingMoves
<1>12. ASSUME NEW p \in Procs, Die(p) PROVE FALSE
  BY <1>1, <1>12 DEF Die, Fail
<1>13. ASSUME NEW p \in Procs, GiveUp(p) PROVE Revoking'
  <2>1. ghost'.version = ghost.version /\ proc[p].pc = "register" /\ registry' = registry
        /\ Become(p, Idle)
    BY <1>0, <1>13 DEF GiveUp, History
  <2> QED  BY <2>1, IdleState, RevokingAside
<1>14. CASE \/ LockExpires \/ UNCHANGED vars
            \/ \E c \in Codes : CodeExpires(c) \/ CodeLockExpires(c)
  <2>1. UNCHANGED <<registry, proc, ghost>>
    BY <1>14 DEF LockExpires, CodeExpires, CodeLockExpires, vars
  <2> QED  BY <2>1 DEF Revoking
<1> QED
  BY <1>2, <1>3, <1>4, <1>5, <1>6, <1>7, <1>8, <1>9, <1>10, <1>11, <1>12, <1>13, <1>14
     DEF Next, Step, Finish, Edit

RevokingUnfailed == failures = 0 /\ stalls = 0 /\ ghost.missed = 0 => Revoking

\* A failure and a revocation that was given up stay counted.
LEMMA FailuresStay ==
  ASSUME TypeOK, [Next]_vars, failures' = 0, ghost'.missed = 0
  PROVE  failures = 0 /\ ghost.missed = 0
<1>1. failures \in Nat /\ ghost \in History
  BY SessionsAssumption DEF TypeOK
<1>2. ASSUME NEW p \in Procs, Step(p)
      PROVE  /\ failures' = failures \/ failures' = failures + 1
             /\ ghost'.missed = ghost.missed \/ ghost'.missed = 1
  <2>1. CASE \/ \E s \in Sessions, app \in {0, 1} : Login(p, s, app)
             \/ \E c \in Codes : CodeRead(p, c)
             \/ \E c \in Codes, s \in Sessions : RedeemGet(p, c, s)
             \/ CodePut(p) \/ RedeemForget(p)
    BY <1>1, <2>1 DEF Login, CodeRead, RedeemGet, CodePut, RedeemForget, History
  <2>2. CASE RedeemCheck(p)
    BY <1>1, <2>2 DEF RedeemCheck, History
  <2>3. CASE RegisterLock(p) \/ RegisterApp(p) \/ RegisterPut(p) \/ RegisterFail(p)
    BY <1>1, <2>3 DEF RegisterLock, RegisterApp, RegisterPut, RegisterFail, Fail, History
  <2>4. CASE \/ \E s \in Sessions : RemoveLock(p, s)
             \/ RemovePut(p) \/ RemoveFail(p) \/ RemoveKey(p)
    BY <1>1, <2>4 DEF RemoveLock, RemovePut, RemoveFail, RemoveKey, Fail, History
  <2>5. CASE EditRead(p) \/ EditAbort(p)
    BY <2>5 DEF EditRead, EditAbort
  <2>6. CASE EditCommit(p)
    BY <2>6, StoreHistory DEF EditCommit
  <2>7. CASE Edit(p)
    <3>1. PICK password, identity, banned :
            \/ EditStaff(p, password, identity, banned)
            \/ \E reset : EditSave(p, password, reset, identity, banned)
      BY <2>7 DEF Edit
    <3>2. CASE EditStaff(p, password, identity, banned)
      BY <3>2 DEF EditStaff
    <3>3. ASSUME NEW reset, EditSave(p, password, reset, identity, banned)
          PROVE  failures' = failures /\ ghost'.missed = ghost.missed
      <4>1. (\E new : Store(new)) /\ failures' = failures
        BY <3>3 DEF EditSave
      <4> QED  BY <4>1, StoreHistory
    <3> QED  BY <3>1, <3>2, <3>3
  <2>8. CASE RevokeLock(p) \/ RevokeForget(p) \/ RevokeKeys(p)
    BY <1>1, <2>8 DEF RevokeLock, RevokeForget, RevokeKeys, History
  <2>9. CASE Die(p) \/ GiveUp(p)
    BY <1>1, <2>9 DEF Die, GiveUp, Fail, History
  <2> QED  BY <1>2, <2>1, <2>2, <2>3, <2>4, <2>5, <2>6, <2>7, <2>8, <2>9 DEF Step, Finish
<1>3. CASE \/ LockExpires \/ UNCHANGED vars
           \/ \E c \in Codes : CodeExpires(c) \/ CodeLockExpires(c)
  BY <1>3 DEF LockExpires, CodeExpires, CodeLockExpires, vars
<1>4. /\ failures' = failures \/ failures' = failures + 1
      /\ ghost'.missed = ghost.missed \/ ghost'.missed = 1
  BY <1>2, <1>3 DEF Next
<1> QED  BY <1>1, <1>4 DEF History

LEMMA CountsAreNat ==
  ASSUME TypeOK
  PROVE  /\ failures \in Nat /\ stalls \in Nat
         /\ ghost.missed \in Nat /\ ghost.version \in Nat
<1>1. failures \in Nat /\ stalls \in Nat
  BY SessionsAssumption DEF TypeOK
<1>2. ghost \in History
  BY DEF TypeOK
<1>3. ghost.missed \in {0, 1} /\ ghost.version \in 0..MaxChanges
  BY <1>2 DEF History
<1> QED  BY <1>1, <1>3, SessionsAssumption

\* Once no change is between its save and its revocation, and none was given
\* up, died or lost its lock, what is accepted is current, the sessions of
\* before the upgrade included.
THEOREM OldSessionsEnd == Spec => []RevokedInTheEnd
<1> DEFINE Inv == TypeOK /\ Placed /\ Current /\ BookedUnstalled /\ RevokingUnfailed
<1>1. Init => Inv
  <2>1. Init => Revoking
    BY IdleState DEF Init, Revoking
  <2> QED  BY <2>1, InitTyped, InitCurrent, InitBooked DEF BookedUnstalled, RevokingUnfailed
<1>2. Inv /\ [Next]_vars => Inv'
  <2> SUFFICES ASSUME Inv, [Next]_vars PROVE Inv'
    OBVIOUS
  <2>1. TypeOK' /\ Placed' /\ Current' /\ BookedUnstalled'
    BY NextTyped, NextCurrent, NextBooked
  <2>2. RevokingUnfailed'
    <3> SUFFICES ASSUME failures' = 0, stalls' = 0, ghost'.missed = 0 PROVE Revoking'
      BY DEF RevokingUnfailed
    <3>1. failures = 0 /\ stalls = 0 /\ ghost.missed = 0
      BY StallsStay, FailuresStay
    <3> QED  BY <3>1, NextRevoking DEF BookedUnstalled, RevokingUnfailed
  <2> QED  BY <2>1, <2>2
<1>3. Inv => RevokedInTheEnd
  <2> HIDE DEF Inv
  <2> SUFFICES ASSUME Inv, /\ failures + stalls + ghost.missed = 0
                           /\ \A p \in Procs : proc[p].pc \notin {"revoke", "forget", "keys", "commit"}
               PROVE  \A s \in Sessions : Accepts(s) => meta[s].version = ghost.version
    BY Zenon DEF RevokedInTheEnd
  <2> SUFFICES ASSUME NEW s \in Sessions, Accepts(s) PROVE meta[s].version = ghost.version
    OBVIOUS
  <2> USE DEF Inv
  <2>0. TypeOK
    OBVIOUS
  <2>1. /\ failures \in Nat /\ stalls \in Nat /\ ghost.missed \in Nat /\ ghost.version \in Nat
    BY <2>0, CountsAreNat
  <2>2. failures = 0 /\ stalls = 0 /\ ghost.missed = 0
    <3>1. failures + stalls + ghost.missed = 0
      OBVIOUS
    <3> HIDE DEF Inv
    <3> QED  BY <2>1, <3>1
  <2>3. CASE s # OldSession
    BY <2>3, CurrentAccepted DEF AcceptedIsCurrent
  <2>4. CASE s = OldSession
    <3>1. ghost.version = 0
      BY <2>1, <2>2, <2>4 DEF RevokingUnfailed, Revoking, Accepts
    <3>2. meta[s].version = 0
      BY <2>2, <2>4 DEF BookedUnstalled, Booked, Books, Unset
    <3> QED  BY <3>1, <3>2
  <2> QED  BY <2>3, <2>4
<1> QED  BY <1>1, <1>2, <1>3, PTL DEF Spec
-----------------------------------------------------------------------------
(* Login codes *)

Live(p, c) == proc[p].code = c /\ proc[p].pc \in {"code", "pulled", "check"}

\* A code is put in the cache by the process that made it, while it is
\* nowhere else, and it is on its way to being used in the process that owns
\* its lock only, which has taken it out of the cache before it looks at it.
CodeAt(c) ==
  /\ ghost.uses[c] \in {0, 1}
  /\ c \notin ghost.made => c \notin codes /\ ghost.uses[c] = 0 /\ \A p \in Procs : ~Live(p, c)
  /\ c \in codes => ghost.uses[c] = 0
  /\ \A p \in Procs : Live(p, c) =>
       /\ ghost.uses[c] = 0
       /\ proc[p].pc = "code" => c \notin codes /\ \A q \in Procs \ {p} : ~Live(q, c)
       /\ proc[p].pc \in {"pulled", "check"} => codeLock[c] = p
       /\ proc[p].pc = "check" => c \notin codes

CodesUnstalled == stalls = 0 => \A c \in Codes : CodeAt(c)

OnlyMoves(p) == \A q \in Procs \ {p} : proc'[q] = proc[q]

\* A process that leaves the code, or works on none, takes nothing from it.
LEMMA CodeLeft ==
  ASSUME NEW c \in Codes, CodeAt(c), NEW p \in Procs, OnlyMoves(p), ~Live(p, c)',
         ghost'.uses[c] = ghost.uses[c], c \in ghost.made => c \in ghost'.made,
         c \in codes' => c \in codes,
         \A q \in Procs \ {p} : codeLock[c] = q => codeLock'[c] = q
  PROVE  CodeAt(c)'
<1>1. \A q \in Procs \ {p} : Live(q, c)' = Live(q, c)
  BY DEF OnlyMoves, Live
<1>2. \A q \in Procs : Live(q, c)' => q # p /\ Live(q, c) /\ proc'[q] = proc[q]
  BY <1>1 DEF OnlyMoves
<1> QED  BY <1>1, <1>2 DEF CodeAt

\* What most steps do: the process works on no code then, and nothing about
\* codes has changed.
CodeAside(p) ==
  /\ OnlyMoves(p) /\ proc'[p].pc \notin {"code", "pulled", "check"}
  /\ UNCHANGED <<codes, codeLock>>
  /\ ghost'.uses = ghost.uses /\ ghost'.made = ghost.made

LEMMA MovesTo ==
  ASSUME TypeOK, NEW p \in Procs, NEW st, Become(p, st)
  PROVE  OnlyMoves(p) /\ proc'[p] = st
BY DEF TypeOK, Become, OnlyMoves

\* A process whose state is not that of one that works on a code.
LEMMA MovesAside ==
  ASSUME TypeOK, NEW p \in Procs, NEW st, Become(p, st),
         st.pc \notin {"code", "pulled", "check"}
  PROVE  OnlyMoves(p) /\ proc'[p].pc \notin {"code", "pulled", "check"}
BY MovesTo

\* The states the handlers move to.
LEMMA StatesAside ==
  /\ Idle.pc \notin {"code", "pulled", "check"}
  /\ \A s : [Idle EXCEPT !.pc = "register", !.session = s].pc = "register"
  /\ \A s, seen : [Idle EXCEPT !.pc = "drop", !.session = s, !.seen = seen].pc = "drop"
  /\ \A r : [Idle EXCEPT !.pc = "edit", !.copy = r].pc = "edit"
  /\ \A then : [Idle EXCEPT !.pc = "revoke", !.then = then].pc = "revoke"
  /\ [Idle EXCEPT !.pc = "revoke"].pc = "revoke"
  /\ \A r : [Idle EXCEPT !.pc = "revoke", !.then = "commit", !.copy = r].pc = "revoke"
BY DEF Idle

LEMMA GotoAside ==
  ASSUME TypeOK, NEW p \in Procs, NEW pc, pc \notin {"code", "pulled", "check"}, NEW seen,
         \/ Goto(p, pc)
         \/ Become(p, [proc[p] EXCEPT !.pc = pc, !.seen = seen])
         \/ Become(p, [proc[p] EXCEPT !.seen = seen, !.pc = pc])
  PROVE  OnlyMoves(p) /\ proc'[p].pc \notin {"code", "pulled", "check"}
<1>1. PICK st : Become(p, st) /\ st.pc = pc
  <2>1. proc[p] \in ProcState
    BY DEF TypeOK
  <2>2. ASSUME NEW st, Become(p, st), \/ st = [proc[p] EXCEPT !.pc = pc]
                                     \/ st = [proc[p] EXCEPT !.pc = pc, !.seen = seen]
                                     \/ st = [proc[p] EXCEPT !.seen = seen, !.pc = pc]
        PROVE  st.pc = pc
    BY <2>1, <2>2 DEF ProcState
  <2> QED  BY <2>2 DEF Goto
<1> QED  BY <1>1, MovesTo

LEMMA StepAside ==
  ASSUME TypeOK, NEW p \in Procs, Step(p),
         ~ \E c \in Codes : CodeRead(p, c) \/ \E s \in Sessions : RedeemGet(p, c, s),
         ~ (CodePut(p) \/ RedeemForget(p) \/ RedeemCheck(p))
  PROVE  CodeAside(p)
<1>0. ghost \in History
  BY DEF TypeOK
<1>1. CASE \E s \in Sessions, app \in {0, 1} : Login(p, s, app)
  <2>1. PICK s \in Sessions, app \in {0, 1} : Login(p, s, app)
    BY <1>1
  <2>2. Become(p, [Idle EXCEPT !.pc = "register", !.session = s])
    BY <2>1 DEF Login, Issue
  <2>3. /\ UNCHANGED <<codes, codeLock>> /\ ghost'.uses = ghost.uses /\ ghost'.made = ghost.made
    BY <1>0, <2>1 DEF Login, History
  <2> QED  BY <2>2, <2>3, MovesAside, StatesAside DEF CodeAside
<1>2. CASE \E s \in Sessions : RemoveLock(p, s)
  <2>1. PICK s \in Sessions : RemoveLock(p, s)
    BY <1>2
  <2>2. Become(p, [Idle EXCEPT !.pc = "drop", !.session = s, !.seen = registry])
    BY <2>1 DEF RemoveLock
  <2> QED  BY <2>1, <2>2, MovesAside, StatesAside DEF CodeAside, RemoveLock
<1>3. CASE EditRead(p) \/ EditAbort(p)
  BY <1>3, MovesAside, StatesAside DEF CodeAside, EditRead, EditAbort
<1>4. ASSUME NEW password \in BOOLEAN, NEW identity \in {0, 1}, NEW banned \in {0, 1},
             EditStaff(p, password, identity, banned)
      PROVE  CodeAside(p)
  <2>1. Become(p, [Idle EXCEPT !.pc = "revoke", !.then = "commit",
                               !.copy = Saved(row, password, FALSE, identity, banned)])
    BY <1>4 DEF EditStaff
  <2> QED  BY <1>4, <2>1, MovesAside, StatesAside DEF CodeAside, EditStaff
<1>5. ASSUME NEW password \in BOOLEAN, NEW identity \in {0, 1}, NEW banned \in {0, 1},
             NEW reset \in BOOLEAN, EditSave(p, password, reset, identity, banned)
      PROVE  CodeAside(p)
  <2>1. PICK st : Become(p, st) /\ (st.pc = "revoke" \/ st.pc = "idle")
    BY <1>5, SaveTurns
  <2>2. /\ UNCHANGED <<codes, codeLock>> /\ ghost'.uses = ghost.uses /\ ghost'.made = ghost.made
    BY <1>0, <1>5 DEF EditSave, Store, History
  <2> QED  BY <2>1, <2>2, MovesAside DEF CodeAside
<1>6. CASE Edit(p)
  BY <1>4, <1>5, <1>6 DEF Edit
<1>7. CASE RegisterLock(p)
  <2>1. PICK pc, seen : Become(p, [proc[p] EXCEPT !.seen = seen, !.pc = pc]) /\ pc \in {"app", "put"}
    BY <1>7 DEF RegisterLock
  <2>2. OnlyMoves(p) /\ proc'[p].pc \notin {"code", "pulled", "check"}
    BY <2>1, GotoAside
  <2> QED  BY <1>7, <2>2 DEF CodeAside, RegisterLock
<1>8. CASE RegisterApp(p)
  <2>1. OnlyMoves(p) /\ proc'[p].pc \notin {"code", "pulled", "check"}
    <3>1. Goto(p, "put")
      BY <1>8 DEF RegisterApp
    <3> QED  BY <3>1, GotoAside
  <2> QED  BY <1>8, <2>1 DEF CodeAside, RegisterApp
<1>9. CASE RegisterPut(p) \/ EditCommit(p)
  BY <1>0, <1>9, MovesAside, StatesAside DEF CodeAside, RegisterPut, EditCommit, Store, History
<1>10. CASE RemovePut(p)
  <2>1. OnlyMoves(p) /\ proc'[p].pc \notin {"code", "pulled", "check"}
    <3>1. Goto(p, "dropKey")
      BY <1>10 DEF RemovePut
    <3> QED  BY <3>1, GotoAside
  <2> QED  BY <1>0, <1>10, <2>1 DEF CodeAside, RemovePut, History
<1>11. CASE RemoveKey(p) \/ RegisterFail(p) \/ RemoveFail(p) \/ Die(p)
  BY <1>11, MovesAside, StatesAside DEF CodeAside, RemoveKey, RegisterFail, RemoveFail, Die
<1>12. CASE GiveUp(p)
  BY <1>0, <1>12, MovesAside, StatesAside DEF CodeAside, GiveUp, History
<1>13. CASE RevokeLock(p)
  <2>1. OnlyMoves(p) /\ proc'[p].pc \notin {"code", "pulled", "check"}
    <3>1. Become(p, [proc[p] EXCEPT !.pc = "forget", !.seen = registry])
      BY <1>13 DEF RevokeLock
    <3> QED  BY <3>1, GotoAside
  <2> QED  BY <1>13, <2>1 DEF CodeAside, RevokeLock
<1>14. CASE RevokeForget(p)
  <2>1. OnlyMoves(p) /\ proc'[p].pc \notin {"code", "pulled", "check"}
    <3>1. Goto(p, "keys")
      BY <1>14 DEF RevokeForget
    <3> QED  BY <3>1, GotoAside
  <2> QED  BY <1>0, <1>14, <2>1 DEF CodeAside, RevokeForget, History
<1>15. CASE RevokeKeys(p)
  <2>1. proc[p].then \in {"end", "again", "commit"}
    BY DEF TypeOK, ProcState
  <2>2. \/ Become(p, Idle) \/ Become(p, [Idle EXCEPT !.pc = "revoke"])
        \/ Goto(p, "commit")
    BY <1>15, <2>1 DEF RevokeKeys, Goto
  <2>3. OnlyMoves(p) /\ proc'[p].pc \notin {"code", "pulled", "check"}
    <3>1. CASE Goto(p, "commit")
      BY <3>1, GotoAside
    <3>2. CASE Become(p, Idle) \/ Become(p, [Idle EXCEPT !.pc = "revoke"])
      BY <3>2, MovesAside, StatesAside
    <3> QED  BY <2>2, <3>1, <3>2
  <2> QED  BY <1>15, <2>3 DEF CodeAside, RevokeKeys
<1> QED  BY <1>1, <1>2, <1>3, <1>6, <1>7, <1>8, <1>9, <1>10, <1>11, <1>12, <1>13, <1>14, <1>15
         DEF Step, Finish

LEMMA ReadCode ==
  ASSUME TypeOK, NEW c \in Codes, CodeAt(c), NEW p \in Procs, NEW d \in Codes, CodeRead(p, d)
  PROVE  CodeAt(c)'
<1>0. ghost \in History
  BY DEF TypeOK
<1> DEFINE st == [Idle EXCEPT !.pc = "code", !.code = d, !.copy = row, !.version = ghost.version]
<1>1. st.pc = "code" /\ st.code = d
  BY DEF Idle
<1>2. OnlyMoves(p) /\ proc'[p].pc = "code" /\ proc'[p].code = d
  <2>1. Become(p, st)
    BY DEF CodeRead
  <2> HIDE DEF st
  <2> QED  BY <1>1, <2>1, MovesTo
<1>3. /\ UNCHANGED <<codes, codeLock>> /\ ghost'.uses = ghost.uses
      /\ ghost'.made = ghost.made \cup {d} /\ d \notin ghost.made
  BY <1>0 DEF CodeRead, History
<1>4. CASE d # c
  <2>1. ~Live(p, c)'
    BY <1>2, <1>4 DEF Live
  <2> QED  BY <1>2, <1>3, <2>1, CodeLeft
<1>5. CASE d = c
  <2>1. c \notin codes' /\ ghost'.uses[c] = 0 /\ \A q \in Procs : ~Live(q, c)
    BY <1>3, <1>5 DEF CodeAt
  <2>2. \A q \in Procs \ {p} : ~Live(q, c)'
    BY <1>2, <2>1 DEF OnlyMoves, Live
  <2> QED  BY <1>2, <1>3, <1>5, <2>1, <2>2 DEF CodeAt
<1> QED  BY <1>4, <1>5

LEMMA PutCode ==
  ASSUME TypeOK, Placed, NEW c \in Codes, CodeAt(c), NEW p \in Procs, CodePut(p)
  PROVE  CodeAt(c)'
<1> DEFINE d == proc[p].code
<1>1. /\ OnlyMoves(p) /\ proc'[p].pc = "idle" /\ proc[p].pc = "code"
      /\ codes' = codes \cup {d} /\ UNCHANGED <<codeLock, ghost>>
  BY MovesTo, IdleState DEF CodePut, At
<1>2. ~Live(p, c)'
  BY <1>1 DEF Live
<1>3. CASE d # c
  <2> HIDE DEF d
  <2> QED  BY <1>1, <1>2, <1>3, CodeLeft
<1>4. CASE d = c
  <2>1. Live(p, c)
    BY <1>1, <1>4 DEF Live
  <2>2. ghost'.uses[c] = 0 /\ c \in ghost'.made /\ \A q \in Procs \ {p} : ~Live(q, c)
    BY <1>1, <2>1 DEF CodeAt
  <2>3. \A q \in Procs : ~Live(q, c)'
    BY <1>1, <1>2, <2>2 DEF OnlyMoves, Live
  <2> QED  BY <2>2, <2>3 DEF CodeAt
<1> QED  BY <1>3, <1>4

LEMMA GetCode ==
  ASSUME TypeOK, NEW c \in Codes, CodeAt(c), NEW p \in Procs, NEW d \in Codes,
         NEW s \in Sessions, RedeemGet(p, d, s)
  PROVE  CodeAt(c)'
<1>0. ghost \in History /\ p # Nobody /\ codeLock \in [Codes -> Procs \cup {Nobody}]
  BY SessionsAssumption DEF TypeOK
<1> DEFINE st == [Idle EXCEPT !.pc = "pulled", !.code = d, !.session = s]
<1>1. st.pc = "pulled" /\ st.code = d
  BY DEF Idle
<1>2. OnlyMoves(p) /\ proc'[p].pc = "pulled" /\ proc'[p].code = d
  <2>1. Become(p, st)
    BY DEF RedeemGet
  <2> HIDE DEF st
  <2> QED  BY <1>1, <2>1, MovesTo
<1>3. /\ UNCHANGED codes /\ ghost'.uses = ghost.uses /\ ghost'.made = ghost.made
      /\ codeLock[d] = Nobody /\ codeLock' = [codeLock EXCEPT ![d] = p] /\ d \in codes
  BY <1>0 DEF RedeemGet, History
<1>4. CASE d # c
  <2>1. ~Live(p, c)'
    BY <1>2, <1>4 DEF Live
  <2>2. codeLock'[c] = codeLock[c]
    BY <1>0, <1>3, <1>4
  <2> QED  BY <1>2, <1>3, <2>1, <2>2, CodeLeft
<1>5. CASE d = c
  <2>1. ghost'.uses[c] = 0 /\ c \in ghost'.made /\ codeLock'[c] = p
    BY <1>0, <1>3, <1>5 DEF CodeAt
  <2>2. \A q \in Procs : Live(q, c) => FALSE
    BY <1>0, <1>3, <1>5, SessionsAssumption DEF CodeAt, Live
  <2>3. \A q \in Procs \ {p} : ~Live(q, c)'
    BY <1>2, <2>2 DEF OnlyMoves, Live
  <2> QED  BY <1>2, <1>5, <2>1, <2>3 DEF CodeAt
<1> QED  BY <1>4, <1>5

\* Nobody else can be at a code that its lock's owner is using.
LEMMA OwnerAlone ==
  ASSUME NEW c \in Codes, CodeAt(c), NEW p \in Procs, Live(p, c), proc[p].pc \in {"pulled", "check"}
  PROVE  \A q \in Procs \ {p} : ~Live(q, c)
BY DEF CodeAt, Live

LEMMA ForgetCode ==
  ASSUME TypeOK, Placed, NEW c \in Codes, CodeAt(c), NEW p \in Procs, RedeemForget(p)
  PROVE  CodeAt(c)'
<1> DEFINE d == proc[p].code
           st == [proc[p] EXCEPT !.pc = "check"]
<1>1. st.pc = "check" /\ st.code = d
  <2>1. proc[p] \in ProcState
    BY DEF TypeOK
  <2> QED  BY <2>1 DEF ProcState
<1>2. /\ OnlyMoves(p) /\ proc'[p].pc = "check" /\ proc'[p].code = d
  <2>1. Become(p, st)
    BY DEF RedeemForget, Goto
  <2> HIDE DEF st, d
  <2> QED  BY <1>1, <2>1, MovesTo
<1>3. /\ proc[p].pc = "pulled" /\ codes' = codes \ {d} /\ UNCHANGED <<codeLock, ghost>>
  BY DEF RedeemForget, At
<1>4. CASE d # c
  <2>1. ~Live(p, c)'
    BY <1>2, <1>4 DEF Live
  <2> QED  BY <1>2, <1>3, <2>1, CodeLeft
<1>5. CASE d = c
  <2>1. Live(p, c)
    BY <1>3, <1>5 DEF Live
  <2>2. ghost'.uses[c] = 0 /\ c \in ghost'.made /\ codeLock'[c] = p
    BY <1>3, <2>1 DEF CodeAt
  <2>3. \A q \in Procs \ {p} : ~Live(q, c)'
    BY <1>2, <1>3, <2>1, OwnerAlone DEF OnlyMoves, Live
  <2>4. c \notin codes'
    BY <1>3, <1>5
  <2> HIDE DEF d
  <2> QED  BY <1>2, <2>2, <2>3, <2>4 DEF CodeAt
<1> QED  BY <1>4, <1>5

LEMMA CheckCode ==
  ASSUME TypeOK, Placed, NEW c \in Codes, CodeAt(c), NEW p \in Procs, RedeemCheck(p)
  PROVE  CodeAt(c)'
<1>0. /\ ghost \in History /\ ghost.uses \in [Codes -> Nat]
      /\ codeLock \in [Codes -> Procs \cup {Nobody}]
  BY DEF TypeOK, History
<1>1. PICK d : d = proc[p].code
  OBVIOUS
<1>2. /\ proc[p].pc = "check" /\ d \in Codes /\ UNCHANGED codes
      /\ codeLock' = [codeLock EXCEPT ![d] = IF @ = p THEN Nobody ELSE @]
  BY <1>1 DEF RedeemCheck, At, Placed
<1>3. OnlyMoves(p) /\ proc'[p].pc \notin {"code", "pulled", "check"}
  BY MovesAside, StatesAside DEF RedeemCheck, Issue
<1>4. /\ ghost'.made = ghost.made
      /\ \/ ghost'.uses = ghost.uses
         \/ ghost'.uses = [ghost.uses EXCEPT ![d] = ghost.uses[d] + 1]
  BY <1>0, <1>1 DEF RedeemCheck, History
<1>5. ~Live(p, c)'
  BY <1>3 DEF Live
<1>6. CASE d # c
  <2>1. ghost'.uses[c] = ghost.uses[c] /\ codeLock'[c] = codeLock[c]
    BY <1>0, <1>2, <1>4, <1>6
  <2> QED  BY <1>2, <1>3, <1>4, <1>5, <2>1, CodeLeft
<1>7. CASE d = c
  <2>1. Live(p, c)
    BY <1>1, <1>2, <1>7 DEF Live
  <2>2. ghost.uses[c] = 0 /\ c \in ghost'.made /\ c \notin codes'
    BY <1>2, <1>4, <2>1 DEF CodeAt
  <2>3. \A q \in Procs : ~Live(q, c)'
    BY <1>2, <1>3, <1>5, <2>1, OwnerAlone DEF OnlyMoves, Live
  <2>4. ghost'.uses[c] \in {0, 1}
    BY <1>0, <1>4, <1>7, <2>2
  <2> QED  BY <2>2, <2>3, <2>4 DEF CodeAt
<1> QED  BY <1>6, <1>7

\* Unless the lock of a code expires under its owner, whatever processes read,
\* make, expire or redeem codes, a login code logs in once.
THEOREM CodesAreUsedOnce == Spec => []CodeUsedOnce
<1> DEFINE Inv == TypeOK /\ Placed /\ CodesUnstalled
<1>1. Init => Inv
  <2>1. Init => \A c \in Codes : CodeAt(c)
    BY IdleState DEF Init, CodeAt, Live
  <2> QED  BY <2>1, InitTyped DEF CodesUnstalled
<1>2. Inv /\ [Next]_vars => Inv'
  <2> SUFFICES ASSUME Inv, [Next]_vars PROVE Inv'
    OBVIOUS
  <2>1. TypeOK' /\ Placed'
    BY NextTyped
  <2>2. ASSUME stalls' = 0, NEW c \in Codes PROVE CodeAt(c)'
    <3>0. stalls = 0 /\ CodeAt(c)
      BY <2>2, StallsStay DEF CodesUnstalled
    <3>1. ASSUME NEW p \in Procs, Step(p), CodeAside(p) PROVE CodeAt(c)'
      <4>1. ~Live(p, c)'
        BY <3>1 DEF CodeAside, Live
      <4> QED  BY <3>0, <3>1, <4>1, CodeLeft DEF CodeAside
    <3>2. ASSUME NEW p \in Procs, Step(p) PROVE CodeAt(c)'
      BY <3>0, <3>1, <3>2, StepAside, ReadCode, PutCode, GetCode, ForgetCode, CheckCode
    <3>3. CASE LockExpires \/ UNCHANGED vars
      BY <3>0, <3>3 DEF LockExpires, vars, CodeAt, Live
    <3>4. ASSUME NEW d \in Codes, CodeExpires(d) PROVE CodeAt(c)'
      BY <3>0, <3>4 DEF CodeExpires, CodeAt, Live
    <3>5. ASSUME NEW d \in Codes, CodeLockExpires(d) PROVE CodeAt(c)'
      <4>1. /\ UNCHANGED <<codes, proc, ghost>> /\ codeLock' = [codeLock EXCEPT ![d] = Nobody]
            /\ codeLock \in [Codes -> Procs \cup {Nobody}]
        BY <3>5 DEF CodeLockExpires, TypeOK
      <4>2. proc[codeLock[d]].pc \notin {"pulled", "check"}
        BY <2>2, <3>0, <3>5 DEF CodeLockExpires, Expired
      <4> QED  BY <3>0, <4>1, <4>2 DEF CodeAt, Live
    <3> QED  BY <3>2, <3>3, <3>4, <3>5 DEF Next
  <2> QED  BY <2>1, <2>2 DEF CodesUnstalled
<1>3. Inv => CodeUsedOnce
  BY DEF CodesUnstalled, CodeUsedOnce, CodeAt
<1> QED  BY <1>1, <1>2, <1>3, PTL DEF Spec
=============================================================================
