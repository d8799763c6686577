---------------------------- MODULE DevicesProofs ----------------------------
(***************************************************************************)
(* Proofs about Devices, for any devices, installations, requests and any  *)
(* limit.                                                                  *)
(***************************************************************************)
EXTENDS Devices, FiniteSetTheorems, TLAPS

Locking   == {"bind", "register", "reset"}
Saving    == {"invalidate", "admin"}

-----------------------------------------------------------------------------
(* The inductive invariant: what each request knows about the tables *)

Named(p) == proc[p].op \in {"login", "bind", "register", "found", "invalidate", "admin"}
              => proc[p].device \in Devices

\* What a log-in decided on still holds where it matters.
Binds(p) == LET d == proc[p].device IN
  proc[p].op = "bind" =>
    /\ proc[p].seen = "none" => app[d] = "none"
    /\ proc[p].seen # "on" /\ Limit > 0 => Cardinality(On(app)) < Limit
    /\ ~proc[p].confirmed =>
         /\ proc[p].seen # "off"
         /\ proc[p].install = Install[d] /\ profile[d] = "off" => d \in crossed
    /\ proc[p].seen = "on" /\ app[d] = "off" => d \in crossed

\* The id of a registration is no one else's.
Registers(p) == LET d == proc[p].device IN
  proc[p].op = "register" =>
    /\ OfInstall(Install[d]) = {}
    /\ app[d] = "none"
    /\ Limit > 0 => Cardinality(On(profile)) < Limit
    /\ \A q \in Procs :
         /\ proc[q].op \in {"found", "invalidate", "admin"} => proc[q].device # d
         /\ proc[q].op = "purge" => d \notin proc[q].todo

\* A profile that was read as inactive became active only by a log-in since.
Saves(p) == proc[p].op \in Saving =>
  /\ proc[p].seen # "none"
  /\ proc[p].seen = "off" /\ profile[proc[p].device] = "on" => proc[p].device \in crossed

Purges(p) == proc[p].op = "purge" =>
  /\ proc[p].todo \subseteq proc[p].scope
  /\ \A d \in proc[p].todo : profile[d] = "on" => d \in crossed

Sound(p) == Named(p) /\ Binds(p) /\ Registers(p) /\ Saves(p) /\ Purges(p)

\* Someone is about to invalidate the profile of d.
PendingBy(p, d) == /\ proc[p].device = d
                   /\ \/ proc[p].op = "found"
                      \/ proc[p].op = "invalidate" /\ proc[p].seen = "on"

Pending(d) == \E p \in Procs : PendingBy(p, d)

Matching == \A d \in Devices \ crossed : app[d] = "off" /\ profile[d] = "on" => Pending(d)

Inv == TypeOK /\ AppLimit /\ OneActivePerInstall /\ Matching /\ \A p \in Procs : Sound(p)

\* The rows to begin with.
FirstRows ==
  /\ Limit > 0 => Cardinality(On(FirstApp)) <= Limit
  /\ \A d, e \in On(FirstProfile) : Install[d] = Install[e] => d = e
  /\ \A d \in Devices : FirstApp[d] = "off" => FirstProfile[d] # "on"

-----------------------------------------------------------------------------
(* Counting *)

LEMMA Fewer ==
  ASSUME NEW S \in SUBSET Devices, NEW T \in SUBSET S
  PROVE  Cardinality(S) \in Nat /\ Cardinality(T) \in Nat /\ Cardinality(T) <= Cardinality(S)
<1>1. IsFiniteSet(S)
  BY DevicesAssumption, FS_Subset
<1> QED  BY <1>1, FS_Subset, FS_CardinalityType

LEMMA OneMore ==
  ASSUME NEW S \in SUBSET Devices, NEW d \in Devices, NEW T \in SUBSET (S \cup {d})
  PROVE  Cardinality(S) \in Nat /\ Cardinality(T) \in Nat /\ Cardinality(T) <= Cardinality(S) + 1
<1>1. IsFiniteSet(S)
  BY DevicesAssumption, FS_Subset
<1>2. /\ IsFiniteSet(S \cup {d})
      /\ Cardinality(S \cup {d}) = IF d \in S THEN Cardinality(S) ELSE Cardinality(S) + 1
  BY <1>1, FS_AddElement
<1>3. Cardinality(S) \in Nat
  BY <1>1, FS_CardinalityType
<1>4. Cardinality(T) \in Nat /\ Cardinality(T) <= Cardinality(S \cup {d})
  BY <1>2, FS_Subset, FS_CardinalityType
<1> QED  BY <1>2, <1>3, <1>4

-----------------------------------------------------------------------------
(* Types *)

LEMMA IdleTyped ==
  /\ Idle \in Process
  /\ Idle.op = "idle" /\ Idle.device = Nobody /\ Idle.install = Nobody /\ Idle.todo = {} /\ Idle.scope = {}
  /\ Idle.confirmed = FALSE /\ Idle.password = FALSE /\ Idle.seen = "none"
  BY DEF Idle, Process, Status

\* A request moves on, and takes or leaves the lock as its new state says.
LEMMA Turn ==
  ASSUME TypeOK, NEW p \in Procs, NEW st \in Process, Become(p, st),
         \/ lock' = lock /\ (st.op \in Locking <=> proc[p].op \in Locking)
         \/ lock = Nobody /\ lock' = p /\ st.op \in Locking
         \/ lock' = Nobody /\ proc[p].op \in Locking /\ st.op \notin Locking
  PROVE  /\ proc' \in [Procs -> Process]
         /\ proc'[p] = st /\ \A q \in Procs \ {p} : proc'[q] = proc[q]
         /\ lock' \in Procs \cup {Nobody}
         /\ \A q \in Procs : lock' = q <=> proc'[q].op \in {"bind", "register", "reset"}
<1> USE DEF TypeOK, Become
<1>1. /\ proc' \in [Procs -> Process]
      /\ proc'[p] = st /\ \A q \in Procs \ {p} : proc'[q] = proc[q]
  OBVIOUS
<1>2. lock' \in Procs \cup {Nobody}
  OBVIOUS
<1>3. \A q \in Procs : lock' = q <=> proc'[q].op \in Locking
  BY <1>1, DevicesAssumption DEF Locking
<1> QED  BY <1>1, <1>2, <1>3 DEF Locking

\* The end of a request.
LEMMA Ends ==
  ASSUME TypeOK, NEW p \in Procs, Become(p, Idle),
         \/ lock' = lock /\ proc[p].op \notin Locking
         \/ lock' = Nobody /\ proc[p].op \in Locking
  PROVE  /\ proc' \in [Procs -> Process]
         /\ proc'[p] = Idle /\ \A q \in Procs \ {p} : proc'[q] = proc[q]
         /\ lock' \in Procs \cup {Nobody}
         /\ \A q \in Procs : lock' = q <=> proc'[q].op \in {"bind", "register", "reset"}
<1>1. Idle \in Process /\ Idle.op \notin Locking
  BY IdleTyped DEF Locking
<1> QED  BY <1>1, Turn

LEMMA TablesTyped ==
  ASSUME TypeOK, NEW S
  PROVE  /\ TurnedOff(app, S) \in [Devices -> Status] /\ TurnedOff(profile, S) \in [Devices -> Status]
         /\ Deleted(app, S) \in [Devices -> Status] /\ Deleted(profile, S) \in [Devices -> Status]
  BY DEF TypeOK, TurnedOff, Deleted, Status

LEMMA BoundTyped ==
  ASSUME TypeOK, NEW p \in Procs
  PROVE  Bound(p) \in [Devices -> Status] /\ Reconciled(p) \in [Devices -> Status]
<1>1. TurnedOff(profile, Others(p)) \in [Devices -> Status]
  BY TablesTyped
<1> QED  BY <1>1 DEF TypeOK, Bound, Reconciled, Status

-----------------------------------------------------------------------------
(* The requests that do not move *)

Steady(p) == /\ \A q \in Procs \ {p} : proc'[q] = proc[q]
             /\ crossed \subseteq crossed'

\* Without the lock rows are only turned off and deleted, and no log-in is
\* disturbed unless it is noted.
Quiet ==
  /\ \A d \in Devices : \/ app'[d] = app[d]
                        \/ app[d] = "on" /\ app'[d] = "off"
                        \/ app[d] = "off" /\ app'[d] = "none"
  /\ \A d \in Devices : \/ profile'[d] = profile[d]
                        \/ profile[d] = "on" /\ profile'[d] = "off"
                        \/ profile'[d] = "none"
  /\ \A d \in Binding : \/ app'[d] = "off" /\ app[d] = "on"
                        \/ profile'[d] = "off" /\ profile[d] = "on"
                        => d \in crossed'

\* With the lock profiles are made active where no one is in the way, or it is noted.
Loud(p) ==
  \A d \in Devices : profile'[d] = "on" /\ profile[d] # "on" =>
    \/ d \in crossed'
    \/ \A q \in Procs \ {p} : /\ proc[q].op \in Saving => proc[q].device # d
                              /\ proc[q].op = "purge" => d \notin proc[q].todo

\* p works on rows that are there.
Apart(p) ==
  /\ proc'[p].op \in {"found", "invalidate", "admin"} =>
       \/ app[proc'[p].device] # "none"
       \/ profile[proc'[p].device] # "none"
       \/ proc[p].op \in {"found", "invalidate", "admin"} /\ proc'[p].device = proc[p].device
  /\ proc'[p].op = "purge" => \A d \in proc'[p].todo : profile[d] # "none"

LEMMA OthersQuiet ==
  ASSUME Inv, NEW p \in Procs, NEW q \in Procs \ {p}, TypeOK', Steady(p), Quiet, Apart(p)
  PROVE  Sound(q)'
<1> USE DEF Steady
<1>0. Sound(q) /\ TypeOK
  BY DEF Inv
<1>1. Named(q)'
  BY <1>0 DEF Sound, Named
<1>2. Binds(q)'
  <2> SUFFICES ASSUME proc[q].op = "bind"
               PROVE  Binds(q)'
    BY DEF Binds
  <2>1. proc[q].device \in Devices /\ proc[q].device \in Binding
    BY <1>0 DEF Sound, Named, Binding
  <2>2. On(app) \in SUBSET Devices /\ On(app') \in SUBSET On(app)
    BY DEF On, Quiet
  <2>3. Limit > 0 /\ Cardinality(On(app)) < Limit => Cardinality(On(app')) < Limit
    BY <2>2, Fewer, DevicesAssumption
  <2>4. app'[proc[q].device] = "off" /\ app[proc[q].device] # "off"
          => proc[q].device \in crossed'
    BY <2>1, <1>0 DEF Quiet
  <2>5. profile'[proc[q].device] = "off" /\ profile[proc[q].device] # "off"
          => proc[q].device \in crossed'
    BY <2>1, <1>0 DEF Quiet
  <2>6. app[proc[q].device] = "none" => app'[proc[q].device] = "none"
    BY <2>1 DEF Quiet
  <2> QED  BY <1>0, <2>3, <2>4, <2>5, <2>6 DEF Sound, Binds
<1>3. Registers(q)'
  <2> SUFFICES ASSUME proc[q].op = "register"
               PROVE  Registers(q)'
    BY DEF Registers
  <2> DEFINE d == proc[q].device
  <2>1. d \in Devices /\ Install[d] \in Installs
    BY <1>0, DevicesAssumption DEF Sound, Named
  <2>2. OfInstall(Install[d]) = {} /\ app[d] = "none" /\ profile[d] = "none"
    BY <1>0, <2>1 DEF Sound, Registers, OfInstall
  <2>3. OfInstall(Install[d])' = {} /\ app'[d] = "none"
    BY <2>1, <2>2 DEF OfInstall, Quiet
  <2>4. On(profile) \in SUBSET Devices /\ On(profile') \in SUBSET On(profile)
    BY DEF On, Quiet
  <2>5. Limit > 0 => Cardinality(On(profile')) < Limit
    BY <1>0, <2>4, Fewer, DevicesAssumption DEF Sound, Registers
  <2>6. ASSUME NEW r \in Procs
        PROVE  /\ proc'[r].op \in {"found", "invalidate", "admin"} => proc'[r].device # d
               /\ proc'[r].op = "purge" => d \notin proc'[r].todo
    <3>1. CASE r = p
      BY <1>0, <2>2, <3>1 DEF Sound, Registers, Apart
    <3>2. CASE r # p
      BY <1>0, <3>2 DEF Sound, Registers
    <3> QED  BY <3>1, <3>2
  <2> QED  BY <2>3, <2>5, <2>6 DEF Registers
<1>4. Saves(q)'
  BY <1>0 DEF Sound, Named, Saves, Saving, Quiet
<1>5. Purges(q)'
  BY <1>0 DEF Sound, Purges, Quiet, TypeOK, Process
<1> QED  BY <1>1, <1>2, <1>3, <1>4, <1>5 DEF Sound

LEMMA OthersLoud ==
  ASSUME Inv, NEW p \in Procs, NEW q \in Procs \ {p}, TypeOK', Steady(p), Loud(p), lock = p
  PROVE  Sound(q)'
<1> USE DEF Steady
<1>0. Sound(q) /\ TypeOK
  BY DEF Inv
<1>1. proc[q].op # "bind" /\ proc[q].op # "register"
  BY <1>0 DEF TypeOK
<1>2. Named(q)' /\ Binds(q)' /\ Registers(q)'
  BY <1>0, <1>1 DEF Sound, Named, Binds, Registers
<1>3. Saves(q)'
  BY <1>0 DEF Sound, Named, Saves, Saving, Loud
<1>4. Purges(q)'
  BY <1>0 DEF Sound, Purges, Loud, TypeOK, Process
<1> QED  BY <1>2, <1>3, <1>4 DEF Sound

\* What p must leave: devices that are unbound in one table only are noted, or
\* p is about to unbind them, or it was never its business.
Matched(p) ==
  \A d \in Devices \ crossed' : app'[d] = "off" /\ profile'[d] = "on" =>
    \/ PendingBy(p, d)'
    \/ app[d] = "off" /\ profile[d] = "on" /\ ~PendingBy(p, d)

LEMMA MatchingKept ==
  ASSUME Inv, NEW p \in Procs, Steady(p), Matched(p)
  PROVE  Matching'
<1> SUFFICES ASSUME NEW d \in Devices \ crossed', app'[d] = "off" /\ profile'[d] = "on"
             PROVE  Pending(d)'
  BY DEF Matching
<1>1. CASE PendingBy(p, d)'
  BY <1>1 DEF Pending
<1>2. CASE app[d] = "off" /\ profile[d] = "on" /\ ~PendingBy(p, d)
  <2>1. PICK q \in Procs : PendingBy(q, d)
    BY <1>2 DEF Inv, Matching, Pending, Steady
  <2>2. q # p
    BY <1>2, <2>1
  <2> QED  BY <2>1, <2>2 DEF Pending, PendingBy, Steady
<1> QED  BY <1>1, <1>2 DEF Matched

LEMMA QuietKept ==
  ASSUME Inv, NEW p \in Procs, TypeOK', Steady(p), Quiet, Apart(p), Matched(p), Sound(p)'
  PROVE  Inv'
<1>1. \A q \in Procs : Sound(q)'
  BY OthersQuiet
<1>2. On(app) \in SUBSET Devices /\ On(app') \in SUBSET On(app)
  BY DEF On, Quiet
<1>3. AppLimit'
  BY <1>2, Fewer, DevicesAssumption DEF Inv, AppLimit
<1>4. OneActivePerInstall'
  BY DEF Inv, OneActivePerInstall, On, Quiet
<1> QED  BY <1>1, <1>3, <1>4, MatchingKept DEF Inv

LEMMA IdleSound ==
  ASSUME NEW p \in Procs, proc'[p].op \in {"idle", "unbind", "reset"}
  PROVE  Sound(p)'
  BY DEF Sound, Named, Binds, Registers, Saves, Saving, Purges

LEMMA LoudKept ==
  ASSUME Inv, NEW p \in Procs, TypeOK', Steady(p), Loud(p), lock = p, Matched(p),
         proc'[p] = Idle, AppLimit', OneActivePerInstall'
  PROVE  Inv'
<1>1. Sound(p)'
  BY IdleSound, IdleTyped
<1>2. \A q \in Procs : Sound(q)'
  BY <1>1, OthersLoud
<1> QED  BY <1>2, MatchingKept DEF Inv

-----------------------------------------------------------------------------
(* Requests that only read *)

\* A request that was not about to invalidate moves on; the tables stay.
LEMMA Reads ==
  ASSUME Inv, NEW p \in Procs, NEW st \in Process, Become(p, st),
         UNCHANGED <<app, profile, failures, crossed>>,
         \/ lock' = lock /\ st.op \notin Locking /\ proc[p].op \notin Locking
         \/ lock = Nobody /\ lock' = p /\ st.op \in Locking,
         proc[p].op \notin {"found", "invalidate"},
         st.op = "admin" => profile[st.device] # "none", st.op # "found" /\ st.op # "invalidate",
         st.op = "purge" => \A d \in st.todo : profile[d] # "none",
         proc'[p] = st => Sound(p)'
  PROVE  Inv'
<1>1. /\ proc' \in [Procs -> Process]
      /\ proc'[p] = st /\ \A q \in Procs \ {p} : proc'[q] = proc[q]
      /\ lock' \in Procs \cup {Nobody}
      /\ \A q \in Procs : lock' = q <=> proc'[q].op \in {"bind", "register", "reset"}
  <2>1. TypeOK
    BY DEF Inv
  <2>2. CASE lock' = lock /\ st.op \notin Locking /\ proc[p].op \notin Locking
    BY <2>1, <2>2, Turn
  <2>3. CASE lock = Nobody /\ lock' = p /\ st.op \in Locking
    BY <2>1, <2>3, Turn
  <2> QED  BY <2>2, <2>3
<1>2. TypeOK'
  BY <1>1 DEF Inv, TypeOK
<1>3. Steady(p) /\ Quiet
  BY <1>1 DEF Steady, Quiet
<1>4. Apart(p) /\ Matched(p)
  BY <1>1 DEF Apart, Matched, PendingBy
<1> QED  BY <1>1, <1>2, <1>3, <1>4, QuietKept

LEMMA LoginKept ==
  ASSUME Inv, NEW p \in Procs, NEW sent \in Devices, NEW i \in Installs \cup {Nobody},
         NEW confirmed \in BOOLEAN, Login(p, sent, i, confirmed)
  PROVE  Inv'
<1>1. PICK d \in Resolved(i, sent) :
        Become(p, [Idle EXCEPT !.op = "login", !.device = d, !.install = i,
                               !.password = TRUE, !.confirmed = confirmed])
  BY DEF Login
<1>2. d \in Devices
  BY DEF Resolved, OfInstall
<1> DEFINE st == [Idle EXCEPT !.op = "login", !.device = d, !.install = i,
                              !.password = TRUE, !.confirmed = confirmed]
<1>3. st \in Process /\ st.op = "login" /\ st.device = d
  BY <1>2, IdleTyped DEF Process
<1>4. Become(p, st)
  BY <1>1
<1> HIDE DEF st
<1>5. proc'[p] = st => Sound(p)'
  BY <1>2, <1>3 DEF Sound, Named, Binds, Registers, Saves, Saving, Purges
<1> QED  BY <1>3, <1>4, <1>5, Reads DEF Login, Locking

LEMMA SyncKept ==
  ASSUME Inv, NEW p \in Procs, NEW d \in Devices, NEW i \in Installs, Sync(p, d, i)
  PROVE  Inv'
<1> DEFINE st == [Idle EXCEPT !.op = "login", !.device = d, !.install = i]
<1>1. st \in Process /\ st.op = "login" /\ st.device = d
  BY IdleTyped DEF Process
<1>2. Become(p, st)
  BY DEF Sync
<1> HIDE DEF st
<1>3. proc'[p] = st => Sound(p)'
  BY <1>1 DEF Sound, Named, Binds, Registers, Saves, Saving, Purges
<1> QED  BY <1>1, <1>2, <1>3, Reads DEF Sync, Locking

\* What the decision to bind a device says about it.
LEMMA Decided ==
  ASSUME NEW d, NEW i, NEW confirmed \in BOOLEAN,
         Decision(d, i, confirmed) \notin {"unbound", "limit"}
  PROVE  /\ ~confirmed => app[d] # "off" /\ (i = Install[d] => profile[d] # "off")
         /\ app[d] # "on" => ~Full
  BY DEF Decision, Inactive

LEMMA BindBeginKept ==
  ASSUME Inv, NEW p \in Procs, BindBegin(p)
  PROVE  Inv'
<1> DEFINE d  == proc[p].device
           st == [proc[p] EXCEPT !.op = "bind", !.seen = app[d]]
<1>0. TypeOK /\ Sound(p)
  BY DEF Inv
<1>1. d \in Devices /\ app[d] \in Status /\ proc[p] \in Process
  BY <1>0 DEF Sound, Named, BindBegin, TypeOK
<1>2. CASE Become(p, Idle) /\ lock' = lock
  BY <1>2, IdleTyped, IdleSound, Reads DEF BindBegin, Locking
<1>3. CASE /\ Decision(d, proc[p].install, proc[p].confirmed) \notin {"unbound", "limit"}
           /\ Become(p, st) /\ lock' = p
  <2>1. /\ st \in Process /\ st.op = "bind" /\ st.device = d /\ st.seen = app[d]
        /\ st.confirmed = proc[p].confirmed /\ st.confirmed \in BOOLEAN
        /\ st.install = proc[p].install
    BY <1>1 DEF Process
  <2>2. Become(p, st) /\ Decision(d, st.install, st.confirmed) \notin {"unbound", "limit"}
    BY <1>3, <2>1
  <2>3. On(app) \in SUBSET Devices /\ Cardinality(On(app)) \in Nat
    BY Fewer DEF On
  <2> HIDE DEF st
  <2>4. /\ ~st.confirmed => app[d] # "off" /\ (st.install = Install[d] => profile[d] # "off")
        /\ app[d] # "on" /\ Limit > 0 => Cardinality(On(app)) < Limit
    BY <2>1, <2>2, <2>3, Decided, DevicesAssumption DEF Full
  <2>5. UNCHANGED <<app, profile, crossed>>
    BY DEF BindBegin
  <2>6. proc'[p] = st => Sound(p)'
    BY <1>1, <2>1, <2>4, <2>5 DEF Sound, Named, Binds, Registers, Saves, Saving, Purges
  <2> QED  BY <1>3, <2>1, <2>2, <2>6, Reads DEF BindBegin, Locking
<1> QED  BY <1>2, <1>3 DEF BindBegin

LEMMA RegisterBeginKept ==
  ASSUME Inv, NEW p \in Procs, NEW d \in Devices, RegisterBegin(p, d)
  PROVE  Inv'
<1> DEFINE st == [Idle EXCEPT !.op = "register", !.device = d]
<1>1. st \in Process /\ st.op = "register" /\ st.device = d
  BY IdleTyped DEF Process
<1>2. Become(p, st) /\ UNCHANGED <<app, profile, crossed>>
  BY DEF RegisterBegin
<1> HIDE DEF st
<1>3. ASSUME proc'[p] = st
      PROVE  Sound(p)'
  <2>1. OfInstall(Install[d])' = {} /\ On(profile)' = On(profile)
    BY <1>2 DEF RegisterBegin, OfInstall, On
  <2>2. app'[d] = "none" /\ (Limit > 0 => Cardinality(On(profile)) < Limit)
    BY <1>2 DEF RegisterBegin, Fresh
  <2>3. ASSUME NEW q \in Procs
        PROVE  /\ proc'[q].op \in {"found", "invalidate", "admin"} => proc'[q].device # d
               /\ proc'[q].op = "purge" => d \notin proc'[q].todo
    <3>1. CASE q = p
      BY <1>1, <1>3, <3>1
    <3>2. CASE q # p
      BY <1>2, <3>2 DEF RegisterBegin, Fresh, Become, Inv, TypeOK
    <3> QED  BY <3>1, <3>2
  <2>4. Registers(p)'
    BY <1>1, <1>3, <2>1, <2>2, <2>3 DEF Registers
  <2> QED  BY <1>1, <1>3, <2>4 DEF Sound, Named, Binds, Saves, Saving, Purges
<1> QED  BY <1>1, <1>2, <1>3, Reads DEF RegisterBegin, Locking

LEMMA UnbindStartKept ==
  ASSUME Inv, NEW p \in Procs, NEW S \in SUBSET Devices, UnbindStart(p, S)
  PROVE  Inv'
<1> DEFINE st == [Idle EXCEPT !.op = "unbind", !.todo = S]
<1>1. st \in Process /\ st.op = "unbind"
  BY IdleTyped DEF Process
<1>2. Become(p, st)
  BY DEF UnbindStart
<1> HIDE DEF st
<1> QED  BY <1>1, <1>2, IdleSound, Reads DEF UnbindStart, Locking

LEMMA AdminReadKept ==
  ASSUME Inv, NEW p \in Procs, NEW d \in Devices, AdminRead(p, d)
  PROVE  Inv'
<1> DEFINE st == [Idle EXCEPT !.op = "admin", !.device = d, !.seen = profile[d]]
<1>1. profile[d] \in Status /\ profile[d] # "none"
  BY DEF Inv, TypeOK, AdminRead
<1>2. st \in Process /\ st.op = "admin" /\ st.device = d /\ st.seen = profile[d]
  BY <1>1, IdleTyped DEF Process
<1>3. Become(p, st) /\ UNCHANGED profile
  BY DEF AdminRead
<1> HIDE DEF st
<1>4. proc'[p] = st => Sound(p)'
  BY <1>1, <1>2, <1>3 DEF Sound, Named, Binds, Registers, Saves, Saving, Purges
<1> QED  BY <1>1, <1>2, <1>3, <1>4, Reads DEF AdminRead, Locking

LEMMA ResetBeginKept ==
  ASSUME Inv, NEW p \in Procs, ResetBegin(p)
  PROVE  Inv'
<1> DEFINE st == [Idle EXCEPT !.op = "reset", !.todo = On(profile)]
<1>1. st \in Process /\ st.op = "reset"
  BY IdleTyped DEF Process, On
<1>2. Become(p, st)
  BY DEF ResetBegin
<1> HIDE DEF st
<1> QED  BY <1>1, <1>2, IdleSound, Reads DEF ResetBegin, Locking

LEMMA PurgeReadKept ==
  ASSUME Inv, NEW p \in Procs, NEW scope \in SUBSET Devices, PurgeRead(p, scope)
  PROVE  Inv'
<1> DEFINE st == [Idle EXCEPT !.op = "purge", !.scope = scope, !.todo = Purgeable(scope)]
<1>1. Purgeable(scope) \subseteq scope /\ \A d \in Purgeable(scope) : profile[d] = "off"
  BY DEF Purgeable
<1>2. st \in Process /\ st.op = "purge" /\ st.todo = Purgeable(scope) /\ st.scope = scope
  BY <1>1, IdleTyped DEF Process
<1>3. Become(p, st) /\ UNCHANGED profile
  BY DEF PurgeRead
<1> HIDE DEF st
<1>4. proc'[p] = st => Sound(p)'
  BY <1>1, <1>2, <1>3 DEF Sound, Named, Binds, Registers, Saves, Saving, Purges
<1> QED  BY <1>1, <1>2, <1>3, <1>4, Reads DEF PurgeRead, Locking

-----------------------------------------------------------------------------
(* Unbinding *)

\* A request without the lock goes on, and leaves the lock.
LEMMA Unlocked ==
  ASSUME Inv, NEW p \in Procs, NEW st \in Process, Become(p, st), lock' = lock,
         proc[p].op \notin Locking, st.op \notin Locking,
         app' \in [Devices -> Status], profile' \in [Devices -> Status],
         failures' = failures, crossed \subseteq crossed', crossed' \subseteq Devices
  PROVE  TypeOK' /\ Steady(p) /\ proc'[p] = st
<1>1. /\ proc' \in [Procs -> Process]
      /\ proc'[p] = st /\ \A q \in Procs \ {p} : proc'[q] = proc[q]
      /\ lock' \in Procs \cup {Nobody}
      /\ \A q \in Procs : lock' = q <=> proc'[q].op \in {"bind", "register", "reset"}
  BY Turn DEF Inv
<1> QED  BY <1>1 DEF Inv, TypeOK, Steady

LEMMA BindingNamed == ASSUME Inv PROVE Binding \subseteq Devices
  BY DEF Inv, Sound, Named, Binding

LEMMA RestTyped ==
  ASSUME TypeOK, NEW p \in Procs
  PROVE  Rest(p) \in Process /\ Rest(p).op \in {"idle", "unbind"}
  BY IdleTyped DEF Rest, TypeOK, Process

LEMMA UnbindRowKept ==
  ASSUME Inv, NEW p \in Procs, NEW d \in Devices, UnbindRow(p, d)
  PROVE  Inv'
<1> DEFINE left == [proc[p] EXCEPT !.todo = @ \ {d}]
<1>0. TypeOK /\ proc[p] \in Process /\ proc[p].op = "unbind"
  BY DEF Inv, TypeOK, UnbindRow
<1>1. PICK st : /\ Become(p, st)
                /\ \/ app[d] # "none" /\ st = [left EXCEPT !.op = "found", !.device = d]
                   \/ app[d] # "on" /\ st = IF left.todo = {} THEN Idle ELSE left
  BY DEF UnbindRow
<1>2. /\ st \in Process
      /\ \/ app[d] # "none" /\ st.op = "found" /\ st.device = d
         \/ app[d] # "on" /\ st.op \in {"idle", "unbind"}
  BY <1>0, <1>1, IdleTyped DEF Process
<1>3. app' \in [Devices -> Status] /\ app' = TurnedOff(app, {d})
  BY <1>0, TablesTyped DEF UnbindRow
<1>4. TypeOK' /\ Steady(p) /\ proc'[p] = st
  <2>1. /\ UNCHANGED <<profile, lock, failures>>
        /\ crossed \subseteq crossed' /\ crossed' \subseteq Devices
    BY <1>0 DEF UnbindRow, TypeOK
  <2>2. proc[p].op \notin Locking /\ st.op \notin Locking
    BY <1>0, <1>2 DEF Locking
  <2>3. profile \in [Devices -> Status]
    BY <1>0 DEF TypeOK
  <2> QED  BY <1>1, <1>2, <1>3, <2>1, <2>2, <2>3, Unlocked
<1>5. Quiet
  BY <1>3, BindingNamed DEF UnbindRow, Quiet, TurnedOff
<1>6. Apart(p)
  BY <1>2, <1>4 DEF Apart
<1>7. Matched(p)
  BY <1>0, <1>2, <1>3, <1>4 DEF Matched, PendingBy, TurnedOff, UnbindRow
<1>8. Sound(p)'
  BY <1>2, <1>4 DEF Sound, Named, Binds, Registers, Saves, Saving, Purges
<1> QED  BY <1>4, <1>5, <1>6, <1>7, <1>8, QuietKept

LEMMA InvalidateReadKept ==
  ASSUME Inv, NEW p \in Procs, InvalidateRead(p)
  PROVE  Inv'
<1> DEFINE d == proc[p].device
<1>0. TypeOK /\ proc[p] \in Process /\ proc[p].op = "found" /\ d \in Devices
  BY DEF Inv, TypeOK, InvalidateRead, Sound, Named
<1>1. PICK st : /\ Become(p, st)
                /\ st = IF profile[d] = "none" THEN Rest(p)
                        ELSE [proc[p] EXCEPT !.op = "invalidate", !.seen = profile[d]]
  BY DEF InvalidateRead
<1>2. /\ st \in Process
      /\ profile[d] # "none" => st.op = "invalidate" /\ st.device = d /\ st.seen = profile[d]
      /\ profile[d] = "none" => st.op \in {"idle", "unbind"}
  BY <1>0, <1>1, RestTyped DEF Process, TypeOK
<1>3. TypeOK' /\ Steady(p) /\ proc'[p] = st
  <2>1. UNCHANGED <<app, profile, lock, failures, crossed>>
    BY DEF InvalidateRead
  <2>2. proc[p].op \notin Locking /\ st.op \notin Locking
    BY <1>0, <1>2 DEF Locking
  <2>3. app \in [Devices -> Status] /\ profile \in [Devices -> Status] /\ crossed \subseteq Devices
    BY <1>0 DEF TypeOK
  <2> QED  BY <1>1, <1>2, <2>1, <2>2, <2>3, Unlocked
<1>4. Quiet /\ Apart(p) /\ UNCHANGED <<app, profile, crossed>>
  BY <1>0, <1>2, <1>3 DEF InvalidateRead, Quiet, Apart
<1>5. Matched(p)
  BY <1>2, <1>3, <1>4 DEF Matched, PendingBy
<1>6. Sound(p)'
  BY <1>0, <1>2, <1>3, <1>4 DEF Sound, Named, Binds, Registers, Saves, Saving, Purges
<1> QED  BY <1>3, <1>4, <1>5, <1>6, QuietKept

LEMMA InvalidateSaveKept ==
  ASSUME Inv, NEW p \in Procs, InvalidateSave(p)
  PROVE  Inv'
<1> DEFINE d == proc[p].device
<1>0. TypeOK /\ proc[p].op = "invalidate" /\ d \in Devices /\ Saves(p)
  BY DEF Inv, TypeOK, InvalidateSave, Sound, Named
<1>1. Become(p, Rest(p)) /\ Rest(p) \in Process /\ Rest(p).op \in {"idle", "unbind"}
  BY <1>0, RestTyped DEF InvalidateSave
<1>2. /\ profile' = IF proc[p].seen = "on" THEN TurnedOff(profile, {d}) ELSE profile
      /\ profile' \in [Devices -> Status]
  BY <1>0, TablesTyped DEF InvalidateSave, TypeOK
<1>3. TypeOK' /\ Steady(p) /\ proc'[p] = Rest(p)
  BY <1>0, <1>1, <1>2, Unlocked DEF InvalidateSave, Locking, TypeOK
<1>4. Quiet
  BY <1>2, BindingNamed DEF InvalidateSave, Quiet, TurnedOff
<1>5. Apart(p) /\ Sound(p)'
  BY <1>1, <1>3, IdleSound DEF Apart
<1>6. Matched(p)
  <2>1. proc[p].seen \in {"on", "off"}
    BY <1>0 DEF Saves, Saving, TypeOK, Process, Status
  <2>2. crossed \subseteq crossed' /\ app' = app
    BY DEF InvalidateSave
  <2>3. CASE proc[p].seen = "on"
    BY <1>2, <2>2, <2>3 DEF Matched, PendingBy, TurnedOff
  <2>4. CASE proc[p].seen = "off"
    BY <1>0, <1>2, <2>2, <2>4 DEF Matched, PendingBy, Saves, Saving
  <2> QED  BY <2>1, <2>3, <2>4
<1> QED  BY <1>3, <1>4, <1>5, <1>6, QuietKept

LEMMA AdminCommitKept ==
  ASSUME Inv, NEW p \in Procs, AdminCommit(p)
  PROVE  Inv'
<1> DEFINE d == proc[p].device
<1>0. TypeOK /\ proc[p].op = "admin" /\ d \in Devices /\ Saves(p)
  BY DEF Inv, TypeOK, AdminCommit, Sound, Named
<1>1. Become(p, Idle) /\ Idle \in Process /\ Idle.op = "idle"
  BY IdleTyped DEF AdminCommit
<1>2. /\ profile' = IF proc[p].seen = "on" THEN TurnedOff(profile, {d}) ELSE profile
      /\ app' = TurnedOff(app, {d})
      /\ profile' \in [Devices -> Status] /\ app' \in [Devices -> Status]
  BY <1>0, TablesTyped DEF AdminCommit, TypeOK
<1>3. TypeOK' /\ Steady(p) /\ proc'[p] = Idle
  BY <1>0, <1>1, <1>2, Unlocked DEF AdminCommit, Locking, TypeOK
<1>4. Quiet
  BY <1>2, BindingNamed DEF AdminCommit, Quiet, TurnedOff
<1>5. Apart(p) /\ Sound(p)'
  BY <1>1, <1>3, IdleSound DEF Apart
<1>6. Matched(p)
  <2>1. proc[p].seen \in {"on", "off"}
    BY <1>0 DEF Saves, Saving, TypeOK, Process, Status
  <2>2. crossed \subseteq crossed'
    BY DEF AdminCommit
  <2>3. CASE proc[p].seen = "on"
    BY <1>0, <1>2, <2>2, <2>3 DEF Matched, PendingBy, TurnedOff
  <2>4. CASE proc[p].seen = "off"
    BY <1>0, <1>2, <2>2, <2>4 DEF Matched, PendingBy, Saves, Saving, TurnedOff
  <2> QED  BY <2>1, <2>3, <2>4
<1> QED  BY <1>3, <1>4, <1>5, <1>6, QuietKept

LEMMA PurgeCommitKept ==
  ASSUME Inv, NEW p \in Procs, PurgeCommit(p)
  PROVE  Inv'
<1>0. TypeOK /\ proc[p].op = "purge" /\ Purges(p) /\ proc[p] \in Process
  BY DEF Inv, TypeOK, PurgeCommit, Sound
<1>1. Become(p, Idle) /\ Idle \in Process /\ Idle.op = "idle"
  BY IdleTyped DEF PurgeCommit
<1>2. /\ profile' = Deleted(profile, proc[p].todo)
      /\ app' = Deleted(app, {d \in proc[p].scope : app[d] = "off"})
      /\ profile' \in [Devices -> Status] /\ app' \in [Devices -> Status]
  BY <1>0, TablesTyped DEF PurgeCommit
<1>3. TypeOK' /\ Steady(p) /\ proc'[p] = Idle
  <2>1. crossed' \subseteq Devices
    BY <1>0 DEF PurgeCommit, TypeOK, Process
  <2> QED  BY <1>0, <1>1, <1>2, <2>1, Unlocked DEF PurgeCommit, Locking
<1>4. Quiet
  BY <1>2, BindingNamed DEF PurgeCommit, Quiet, Deleted
<1>5. Apart(p) /\ Sound(p)'
  BY <1>1, <1>3, IdleSound DEF Apart
<1>6. Matched(p)
  BY <1>0, <1>2, <1>3 DEF Matched, PendingBy, Deleted, Steady
<1> QED  BY <1>3, <1>4, <1>5, <1>6, QuietKept

-----------------------------------------------------------------------------
(* Requests that hold the lock *)

LEMMA Releases ==
  ASSUME Inv, NEW p \in Procs, Become(p, Idle), lock' = Nobody, proc[p].op \in Locking,
         app' \in [Devices -> Status], profile' \in [Devices -> Status],
         failures' \in 0..MaxFailures, crossed \subseteq crossed', crossed' \subseteq Devices
  PROVE  TypeOK' /\ Steady(p) /\ proc'[p] = Idle /\ lock = p
<1>1. /\ proc' \in [Procs -> Process]
      /\ proc'[p] = Idle /\ \A q \in Procs \ {p} : proc'[q] = proc[q]
      /\ lock' \in Procs \cup {Nobody}
      /\ \A q \in Procs : lock' = q <=> proc'[q].op \in {"bind", "register", "reset"}
  BY Ends DEF Inv
<1> QED  BY <1>1 DEF Inv, TypeOK, Steady, Locking

LEMMA BindCommitKept ==
  ASSUME Inv, NEW p \in Procs, BindCommit(p)
  PROVE  Inv'
<1> DEFINE d == proc[p].device
<1>0. TypeOK /\ proc[p].op = "bind" /\ d \in Devices /\ Binds(p)
  BY DEF Inv, TypeOK, BindCommit, Sound, Named
<1>1. Bound(p) \in [Devices -> Status] /\ profile' \in [Devices -> Status]
  BY <1>0, BoundTyped DEF BindCommit
<1>2. /\ app' \in [Devices -> Status]
      /\ app' = IF Reconciles(p) THEN TurnedOff(Bound(p), Others(p)) ELSE Bound(p)
  BY <1>1 DEF BindCommit, TurnedOff, Status
<1>3. TypeOK' /\ Steady(p) /\ proc'[p] = Idle /\ lock = p
  BY <1>0, <1>1, <1>2, Releases DEF BindCommit, Locking, TypeOK
<1>4. \A e \in Devices : profile'[e] = "on" /\ profile[e] # "on" => e = d
  BY <1>0 DEF BindCommit, Reconciled, TurnedOff, TypeOK
<1>5. Loud(p)
  <2> SUFFICES ASSUME NEW q \in Procs \ {p}, d \notin crossed'
               PROVE  /\ proc[q].op \in Saving => proc[q].device # d
                      /\ proc[q].op = "purge" => d \notin proc[q].todo
    BY <1>4 DEF Loud
  <2>1. d \notin Unbinding
    BY <1>0 DEF BindCommit
  <2>2. Purges(q)
    BY DEF Inv, Sound
  <2> QED  BY <2>1, <2>2 DEF Unbinding, Saving, Purges
<1>6. \A e \in Devices : app'[e] = "on" /\ app[e] # "on" => e = d /\ proc[p].seen # "on"
  BY <1>0, <1>2 DEF Bound, TurnedOff, TypeOK
<1>7. AppLimit'
  <2>1. On(app) \in SUBSET Devices
    BY DEF On
  <2>2. CASE proc[p].seen = "on"
    <3>1. On(app') \in SUBSET On(app)
      BY <1>6, <2>2 DEF On
    <3> QED  BY <2>1, <3>1, Fewer, DevicesAssumption DEF AppLimit, Inv
  <2>3. CASE proc[p].seen # "on"
    <3>1. On(app') \in SUBSET (On(app) \cup {d})
      BY <1>6 DEF On
    <3>2. Limit > 0 => Cardinality(On(app)) < Limit
      BY <1>0, <2>3 DEF Binds
    <3> QED  BY <1>0, <2>1, <3>1, <3>2, OneMore, DevicesAssumption DEF AppLimit
  <2> QED  BY <2>2, <2>3
<1>8. OneActivePerInstall'
  <2>1. CASE ~Reconciles(p)
    BY <2>1 DEF BindCommit, Reconciled, Inv, OneActivePerInstall, On
  <2>2. CASE Reconciles(p)
    <3>1. \A e \in Devices : Install[e] = Install[d] /\ profile'[e] = "on" => e = d
      BY <1>0, <2>2 DEF BindCommit, Reconciled, TurnedOff, Others, OfInstall, TypeOK
    <3> QED  BY <1>4, <3>1 DEF Inv, OneActivePerInstall, On
  <2> QED  BY <2>1, <2>2
<1>9. Matched(p)
  <2> SUFFICES ASSUME NEW e \in Devices \ crossed', app'[e] = "off", profile'[e] = "on"
               PROVE  app[e] = "off" /\ profile[e] = "on"
    BY <1>0 DEF Matched, PendingBy
  <2>1. CASE ~Reconciles(p)
    <3>1. profile[e] = "on"
      BY <2>1 DEF BindCommit, Reconciled
    <3>2. app[e] = "off"
      BY <1>0, <1>2, <2>1 DEF Bound, TypeOK
    <3> QED  BY <3>1, <3>2
  <2>2. CASE Reconciles(p) /\ e # d
    <3>1. e \notin Others(p) /\ profile[e] = "on"
      BY <1>0, <2>2 DEF BindCommit, Reconciled, TurnedOff, TypeOK
    <3>2. app[e] = "off"
      BY <1>0, <1>2, <2>2, <3>1 DEF Bound, TurnedOff, TypeOK
    <3> QED  BY <3>1, <3>2
  <2>3. CASE Reconciles(p) /\ e = d
    <3>1. Bound(p)[d] = "off"
      BY <1>1, <1>2, <2>3 DEF TurnedOff, Others
    <3>2. app[d] = "off" /\ proc[p].seen = "on"
      BY <1>0, <3>1 DEF Bound, TypeOK
    <3>3. d \in crossed
      BY <1>0, <3>2 DEF Binds
    <3> QED  BY <1>3, <2>3, <3>3 DEF Steady
  <2> QED  BY <2>1, <2>2, <2>3
<1> QED  BY <1>3, <1>5, <1>7, <1>8, <1>9, LoudKept

LEMMA RegisterCommitKept ==
  ASSUME Inv, NEW p \in Procs, RegisterCommit(p)
  PROVE  Inv'
<1> DEFINE d == proc[p].device
<1>0. TypeOK /\ proc[p].op = "register" /\ d \in Devices /\ Registers(p)
  BY DEF Inv, TypeOK, RegisterCommit, Sound, Named
<1>1. /\ profile' \in [Devices -> Status] /\ app' = app
      /\ profile' = [profile EXCEPT ![d] = "on"]
  BY <1>0 DEF RegisterCommit, TypeOK, Status
<1>2. TypeOK' /\ Steady(p) /\ proc'[p] = Idle /\ lock = p
  BY <1>0, <1>1, Releases DEF RegisterCommit, Locking, TypeOK
<1>3. Loud(p)
  BY <1>0, <1>1 DEF Loud, Registers, Saving, TypeOK
<1>4. AppLimit'
  BY <1>1 DEF Inv, AppLimit, On
<1>5. OneActivePerInstall'
  BY <1>0, <1>1 DEF Inv, OneActivePerInstall, On, Registers, OfInstall, TypeOK
<1>6. Matched(p)
  BY <1>0, <1>1 DEF Matched, PendingBy, Registers, TypeOK
<1> QED  BY <1>2, <1>3, <1>4, <1>5, <1>6, LoudKept

LEMMA ResetCommitKept ==
  ASSUME Inv, NEW p \in Procs, ResetCommit(p)
  PROVE  Inv'
<1>0. TypeOK /\ proc[p].op = "reset"
  BY DEF Inv, TypeOK, ResetCommit
<1>1. /\ profile' \in [Devices -> Status] /\ app' \in [Devices -> Status]
      /\ profile' = TurnedOff(profile, proc[p].todo) /\ app' = Deleted(app, Devices)
  BY <1>0, TablesTyped DEF ResetCommit
<1>2. TypeOK' /\ Steady(p) /\ proc'[p] = Idle /\ lock = p
  BY <1>0, <1>1, Releases DEF ResetCommit, Locking, TypeOK
<1>3. \A d \in Devices : app'[d] = "none" /\ (profile'[d] = "on" => profile[d] = "on")
  BY <1>0, <1>1 DEF Deleted, TurnedOff, TypeOK
<1>4. Loud(p) /\ Matched(p)
  BY <1>3 DEF Loud, Matched
<1>5. On(app) \in SUBSET Devices /\ On(app') \in SUBSET On(app)
  BY <1>3 DEF On
<1>6. AppLimit'
  BY <1>5, Fewer, DevicesAssumption DEF Inv, AppLimit
<1>7. OneActivePerInstall'
  BY <1>3 DEF Inv, OneActivePerInstall, On
<1> QED  BY <1>2, <1>4, <1>6, <1>7, LoudKept

LEMMA DieKept ==
  ASSUME Inv, NEW p \in Procs, Die(p)
  PROVE  Inv'
<1>0. TypeOK /\ Become(p, Idle) /\ UNCHANGED <<app, profile>> /\ Sound(p)
  BY DEF Inv, Die
<1>1. failures' \in 0..MaxFailures
  BY <1>0, DevicesAssumption DEF Die, TypeOK
<1>2. crossed \subseteq crossed' /\ crossed' \subseteq Devices
  BY <1>0 DEF Die, TypeOK, Sound, Named
<1>3. Matched(p)
  BY <1>0 DEF Matched, PendingBy, Die
<1>4. CASE proc[p].op \in Locking
  <2>1. TypeOK' /\ Steady(p) /\ proc'[p] = Idle /\ lock = p
    BY <1>0, <1>1, <1>2, <1>4, Releases DEF Die, TypeOK, Locking
  <2>2. Loud(p) /\ AppLimit' /\ OneActivePerInstall'
    BY <1>0 DEF Loud, Inv, AppLimit, OneActivePerInstall, On
  <2> QED  BY <1>3, <2>1, <2>2, LoudKept
<1>5. CASE proc[p].op \notin Locking
  <2>1. lock' = lock
    BY <1>0, <1>5 DEF Die, TypeOK, Locking
  <2>2. /\ proc' \in [Procs -> Process]
        /\ proc'[p] = Idle /\ \A q \in Procs \ {p} : proc'[q] = proc[q]
        /\ lock' \in Procs \cup {Nobody}
        /\ \A q \in Procs : lock' = q <=> proc'[q].op \in {"bind", "register", "reset"}
    BY <1>0, <1>5, <2>1, Ends
  <2>3. TypeOK'
    BY <1>0, <1>1, <1>2, <2>2 DEF TypeOK
  <2>4. Steady(p) /\ Quiet
    BY <1>0, <1>2, <2>2 DEF Steady, Quiet
  <2>5. Apart(p) /\ Sound(p)'
    BY <2>2, IdleTyped, IdleSound DEF Apart
  <2> QED  BY <1>3, <2>3, <2>4, <2>5, QuietKept
<1> QED  BY <1>4, <1>5

-----------------------------------------------------------------------------
(* The theorems *)

LEMMA InitInv == ASSUME Init, FirstRows PROVE Inv
<1>1. TypeOK
  BY DevicesAssumption, IdleTyped DEF Init, TypeOK
<1>2. AppLimit /\ OneActivePerInstall
  BY DEF Init, FirstRows, AppLimit, OneActivePerInstall, On
<1>3. Matching
  BY DEF Init, FirstRows, Matching
<1>4. \A p \in Procs : Sound(p)
  BY IdleTyped DEF Init, Sound, Named, Binds, Registers, Saves, Saving, Purges
<1> QED  BY <1>1, <1>2, <1>3, <1>4 DEF Inv

LEMMA ScopesAreSets == \A scope \in Scopes : scope \in SUBSET Devices
  BY DEF Scopes

LEMMA NextInv == ASSUME Inv, [Next]_vars PROVE Inv'
<1>1. CASE UNCHANGED vars
  <2>1. UNCHANGED <<app, profile, lock, proc, failures, crossed>>
    BY <1>1 DEF vars
  <2>2. TypeOK' /\ AppLimit' /\ OneActivePerInstall' /\ Matching'
    BY <2>1 DEF Inv, TypeOK, AppLimit, OneActivePerInstall, On, Matching, Pending, PendingBy
  <2>3. \A p \in Procs : Sound(p)'
    <3> SUFFICES ASSUME NEW p \in Procs PROVE Sound(p)'
      OBVIOUS
    <3>1. Named(p)' /\ Saves(p)' /\ Purges(p)'
      BY <2>1 DEF Inv, Sound, Named, Saves, Purges
    <3>2. Binds(p)'
      BY <2>1 DEF Inv, Sound, Binds, On
    <3>3. Registers(p)'
      BY <2>1 DEF Inv, Sound, Registers, On, OfInstall
    <3> QED  BY <3>1, <3>2, <3>3 DEF Sound
  <2> QED  BY <2>2, <2>3 DEF Inv
<1>2. ASSUME NEW p \in Procs,
             \/ \E d \in Devices, i \in Installs \cup {Nobody}, confirmed \in BOOLEAN :
                  Login(p, d, i, confirmed)
             \/ \E d \in Devices, i \in Installs : Sync(p, d, i)
             \/ \E d \in Devices : RegisterBegin(p, d) \/ UnbindRow(p, d) \/ AdminRead(p, d)
             \/ BindBegin(p) \/ BindCommit(p) \/ RegisterCommit(p)
             \/ \E S \in SUBSET Devices : UnbindStart(p, S)
             \/ InvalidateRead(p) \/ InvalidateSave(p) \/ AdminCommit(p)
             \/ ResetBegin(p) \/ ResetCommit(p)
             \/ \E scope \in Scopes : PurgeRead(p, scope)
             \/ PurgeCommit(p) \/ Die(p)
      PROVE  Inv'
  BY <1>2, ScopesAreSets, LoginKept, SyncKept, RegisterBeginKept, UnbindRowKept, AdminReadKept,
     BindBeginKept, BindCommitKept, RegisterCommitKept, UnbindStartKept, InvalidateReadKept,
     InvalidateSaveKept, AdminCommitKept, ResetBeginKept, ResetCommitKept, PurgeReadKept,
     PurgeCommitKept, DieKept
<1> QED  BY <1>1, <1>2 DEF Next

\* The invariant of the two tables, the lock and what requests have read.
THEOREM Invariance == ASSUME FirstRows PROVE Spec => []Inv
<1>1. Init => Inv
  BY InitInv
<1>2. Inv /\ [Next]_vars => Inv'
  BY NextInv
<1> QED  BY <1>1, <1>2, PTL DEF Spec

\* The tables keep their types, and the lock of the account is held exactly by
\* the log-in, registration or reset that is between its snapshot and commit.
THEOREM TypeCorrect == ASSUME FirstRows PROVE Spec => []TypeOK
<1>1. Inv => TypeOK
  BY DEF Inv
<1> QED  BY <1>1, Invariance, PTL

\* handleDeviceBind() never exceeds the device limit, whatever it overlaps.
THEOREM WithinLimit == ASSUME FirstRows PROVE Spec => []AppLimit
<1>1. Inv => AppLimit
  BY DEF Inv
<1> QED  BY <1>1, Invariance, PTL

\* Reconciliation and registration leave one active profile per installation.
THEOREM OneActive == ASSUME FirstRows PROVE Spec => []OneActivePerInstall
<1>1. Inv => OneActivePerInstall
  BY DEF Inv
<1> QED  BY <1>1, Invariance, PTL

\* Once all is quiet, an unbound device is unbound in both tables, but for the
\* noted cases.
THEOREM Unbound == ASSUME FirstRows PROVE Spec => []UnboundInBoth
<1>1. Inv => UnboundInBoth
  BY DEF Inv, Matching, Pending, PendingBy, UnboundInBoth
<1> QED  BY <1>1, Invariance, PTL

-----------------------------------------------------------------------------
(* What a step may do *)

\* But for two commits, a request leaves a table as it is, turns rows off or
\* deletes them; the purge alone deletes profiles.
LEMMA TablesFade ==
  ASSUME NEW p \in Procs,
         \/ \E d \in Devices, i \in Installs \cup {Nobody}, confirmed \in BOOLEAN :
              Login(p, d, i, confirmed)
         \/ \E d \in Devices, i \in Installs : Sync(p, d, i)
         \/ \E d \in Devices : RegisterBegin(p, d) \/ UnbindRow(p, d) \/ AdminRead(p, d)
         \/ BindBegin(p)
         \/ \E S \in SUBSET Devices : UnbindStart(p, S)
         \/ InvalidateRead(p) \/ InvalidateSave(p) \/ AdminCommit(p)
         \/ ResetBegin(p) \/ ResetCommit(p)
         \/ \E scope \in Scopes : PurgeRead(p, scope)
         \/ PurgeCommit(p) \/ Die(p)
  PROVE  /\ app' = app \/ \E S : app' = TurnedOff(app, S) \/ app' = Deleted(app, S)
         /\ \/ profile' = profile \/ \E S : profile' = TurnedOff(profile, S)
            \/ PurgeCommit(p) /\ \E S : profile' = Deleted(profile, S)
<1>1. CASE \/ \E d \in Devices, i \in Installs \cup {Nobody}, confirmed \in BOOLEAN :
                Login(p, d, i, confirmed)
           \/ \E d \in Devices, i \in Installs : Sync(p, d, i)
           \/ \E d \in Devices : RegisterBegin(p, d) \/ AdminRead(p, d)
           \/ BindBegin(p)
           \/ \E S \in SUBSET Devices : UnbindStart(p, S)
           \/ InvalidateRead(p) \/ ResetBegin(p)
           \/ \E scope \in Scopes : PurgeRead(p, scope)
           \/ Die(p)
  <2>1. app' = app /\ profile' = profile
    BY <1>1 DEF Login, Sync, RegisterBegin, AdminRead, BindBegin, UnbindStart, InvalidateRead,
       ResetBegin, PurgeRead, Die
  <2> QED  BY <2>1
<1>2. ASSUME NEW d \in Devices, UnbindRow(p, d)
      PROVE  (\E S : app' = TurnedOff(app, S)) /\ profile' = profile
  BY <1>2 DEF UnbindRow
<1>3. CASE InvalidateSave(p) \/ AdminCommit(p)
  <2>1. app' = app \/ \E S : app' = TurnedOff(app, S)
    BY <1>3 DEF InvalidateSave, AdminCommit
  <2>2. profile' = profile \/ \E S : profile' = TurnedOff(profile, S)
    BY <1>3 DEF InvalidateSave, AdminCommit
  <2> QED  BY <2>1, <2>2
<1>4. CASE ResetCommit(p)
  BY <1>4 DEF ResetCommit
<1>5. CASE PurgeCommit(p)
  BY <1>5 DEF PurgeCommit
<1> QED  BY <1>1, <1>2, <1>3, <1>4, <1>5

\* What that does to the rows.
LEMMA FadedRows ==
  \A table, S : \A d \in Devices :
    /\ TurnedOff(table, S)[d] = "on" => table[d] = "on"
    /\ TurnedOff(table, S)[d] = "none" => table[d] = "none"
    /\ Deleted(table, S)[d] = "on" => table[d] = "on"
  BY DEF TurnedOff, Deleted

\* The rows a step turns on, by the actions that turn rows on at all.
LEMMA TurnsOn ==
  ASSUME Next
  PROVE  \/ \E p \in Procs : BindCommit(p) \/ RegisterCommit(p)
         \/ \A d \in Devices : /\ app'[d] = "on" => app[d] = "on"
                               /\ profile'[d] = "on" => profile[d] = "on"
<1> SUFFICES ASSUME ~\E p \in Procs : BindCommit(p) \/ RegisterCommit(p),
                    NEW d \in Devices
             PROVE  /\ app'[d] = "on" => app[d] = "on"
                    /\ profile'[d] = "on" => profile[d] = "on"
  OBVIOUS
<1>1. /\ app' = app \/ \E S : app' = TurnedOff(app, S) \/ app' = Deleted(app, S)
      /\ profile' = profile \/ \E S : profile' = TurnedOff(profile, S) \/ profile' = Deleted(profile, S)
  BY TablesFade DEF Next
<1> QED  BY <1>1, FadedRows

LEMMA BindTurnsOn ==
  ASSUME Inv, NEW p \in Procs, BindCommit(p), NEW d \in Devices
  PROVE  /\ app'[d] = "on" /\ app[d] # "on" => d = proc[p].device /\ proc[p].seen # "on"
         /\ profile'[d] = "on" /\ profile[d] # "on" =>
              /\ d = proc[p].device /\ proc[p].password /\ profile[d] # "none"
              /\ proc[p].install = Install[d]
<1>1. TypeOK /\ proc[p].device \in Devices
  BY DEF Inv, Sound, Named, BindCommit
<1>2. Bound(p) \in [Devices -> Status]
  BY <1>1, BoundTyped
<1>3. app'[d] = "on" => Bound(p)[d] = "on"
  BY <1>2 DEF BindCommit, TurnedOff
<1>4. Bound(p)[d] = "on" /\ app[d] # "on" => d = proc[p].device /\ proc[p].seen # "on"
  BY <1>1 DEF Bound, TypeOK
<1>5. profile'[d] = "on" /\ profile[d] # "on" =>
        /\ d = proc[p].device /\ proc[p].password /\ profile[d] # "none"
        /\ proc[p].install = Install[d]
  BY <1>1 DEF BindCommit, Reconciled, Reconciles, TurnedOff, TypeOK
<1> QED  BY <1>3, <1>4, <1>5

\* RegisterDeviceAction counts under the lock of the account, and what it
\* counted holds until the profile is there.
THEOREM RegistersWithin == ASSUME FirstRows PROVE Spec => RegisteredWithinLimit
<1> DEFINE Within == Limit > 0 =>
             \A d \in Devices : profile[d] = "none" /\ profile'[d] = "on"
                                => Cardinality(On(profile')) <= Limit
<1>1. ASSUME Inv, Next
      PROVE  Within
  <2> SUFFICES ASSUME Limit > 0, NEW d \in Devices, profile[d] = "none", profile'[d] = "on"
               PROVE  Cardinality(On(profile')) <= Limit
    OBVIOUS
  <2>1. PICK p \in Procs : RegisterCommit(p)
    BY <1>1, TurnsOn, BindTurnsOn
  <2>2. Registers(p) /\ TypeOK /\ proc[p].op = "register" /\ proc[p].device \in Devices
    BY <1>1, <2>1 DEF Inv, Sound, Named, RegisterCommit
  <2>3. On(profile) \in SUBSET Devices /\ On(profile') \in SUBSET (On(profile) \cup {proc[p].device})
    BY <2>1, <2>2 DEF RegisterCommit, On, TypeOK
  <2>4. Cardinality(On(profile)) < Limit
    BY <2>2 DEF Registers
  <2> QED  BY <2>2, <2>3, <2>4, OneMore, DevicesAssumption
<1>2. Inv /\ [Next]_vars => [Within]_vars
  BY <1>1
<1> QED  BY <1>2, Invariance, PTL DEF Spec, RegisteredWithinLimit

\* Nothing but a confirmed log-in takes back what was unbound, but for a log-in
\* that found the profile active and was overtaken.
THEOREM Restores == ASSUME FirstRows PROVE Spec => RestoredOnPurpose
<1> DEFINE Purpose == \A d \in Devices :
       /\ app[d] = "off" /\ app'[d] = "on" => \E p \in Procs : proc[p].device = d /\ proc[p].confirmed
       /\ profile[d] = "off" /\ profile'[d] = "on" =>
            \E p \in Procs : proc[p].device = d /\ proc[p].password
                             /\ (proc[p].confirmed \/ d \in crossed')
<1>1. ASSUME Inv, Next, NEW d \in Devices, app[d] = "off", app'[d] = "on"
      PROVE  \E p \in Procs : proc[p].device = d /\ proc[p].confirmed
  <2>1. PICK p \in Procs : BindCommit(p)
    BY <1>1, TurnsOn DEF RegisterCommit
  <2>2. d = proc[p].device /\ proc[p].seen # "on"
    BY <1>1, <2>1, BindTurnsOn
  <2>3. Binds(p) /\ proc[p].op = "bind" /\ proc[p] \in Process
    BY <1>1, <2>1 DEF Inv, TypeOK, Sound, BindCommit
  <2>4. proc[p].seen = "off"
    BY <1>1, <2>2, <2>3 DEF Binds, Process, Status
  <2> QED  BY <2>2, <2>3, <2>4 DEF Binds
<1>2. ASSUME Inv, Next, NEW d \in Devices, profile[d] = "off", profile'[d] = "on"
      PROVE  \E p \in Procs : /\ proc[p].device = d /\ proc[p].password
                              /\ (proc[p].confirmed \/ d \in crossed')
  <2>1. PICK p \in Procs : BindCommit(p) \/ RegisterCommit(p)
    BY <1>2, TurnsOn
  <2>2. CASE RegisterCommit(p)
    <3>1. TypeOK /\ Registers(p) /\ proc[p].op = "register"
      BY <1>2, <2>2 DEF Inv, Sound, RegisterCommit
    <3>2. d = proc[p].device
      BY <1>2, <2>2, <3>1 DEF RegisterCommit, TypeOK
    <3> QED  BY <1>2, <3>1, <3>2 DEF Registers, OfInstall
  <2>3. CASE BindCommit(p)
    <3>1. d = proc[p].device /\ proc[p].password /\ proc[p].install = Install[d]
      BY <1>2, <2>3, BindTurnsOn
    <3>2. Binds(p) /\ proc[p].op = "bind"
      BY <1>2, <2>3 DEF Inv, Sound, BindCommit
    <3>3. proc[p].confirmed \/ d \in crossed'
      BY <1>2, <2>3, <3>1, <3>2 DEF Binds, BindCommit
    <3> QED  BY <3>1, <3>3
  <2> QED  BY <2>1, <2>2, <2>3
<1>3. Inv /\ [Next]_vars => [Purpose]_vars
  BY <1>1, <1>2
<1> QED  BY <1>3, Invariance, PTL DEF Spec, RestoredOnPurpose

\* purgeUnbound() deletes what it listed, and of that only what no log-in took
\* back since.
THEOREM Purged == ASSUME FirstRows PROVE Spec => PurgeSparesActive
<1> DEFINE Spares == \A d \in Devices : profile[d] = "on" /\ profile'[d] = "none" => d \in crossed'
<1>1. ASSUME Inv, Next, NEW d \in Devices, profile[d] = "on", profile'[d] = "none"
      PROVE  d \in crossed'
  <2>1. TypeOK
    BY <1>1 DEF Inv
  <2>2. PICK p \in Procs : PurgeCommit(p)
    <3> SUFFICES ASSUME ~\E p \in Procs : PurgeCommit(p) PROVE FALSE
      OBVIOUS
    <3>1. ASSUME NEW p \in Procs, BindCommit(p) \/ RegisterCommit(p) PROVE profile'[d] # "none"
      BY <1>1, <2>1, <3>1 DEF TypeOK, RegisterCommit, BindCommit, Reconciled, TurnedOff
    <3>2. profile' = profile \/ \E S : profile' = TurnedOff(profile, S)
      BY <1>1, <3>1, TablesFade DEF Next
    <3> QED  BY <1>1, <3>2, FadedRows
  <2>3. Purges(p) /\ proc[p].op = "purge" /\ d \in proc[p].todo
    BY <1>1, <2>1, <2>2 DEF Inv, Sound, PurgeCommit, Deleted
  <2> QED  BY <1>1, <2>2, <2>3 DEF Purges, PurgeCommit
<1>2. Inv /\ [Next]_vars => [Spares]_vars
  BY <1>1
<1> QED  BY <1>2, Invariance, PTL DEF Spec, PurgeSparesActive
=============================================================================
