---------------------------- MODULE LockoutProofs ----------------------------
(***************************************************************************)
(* What is proved of the locks, for every set of keys, forms and handlers  *)
(* and every maximum, window and list of waits.                            *)
(***************************************************************************)
EXTENDS LockoutProperties, TLAPS

(* What holds when no handler dies half way.                               *)
IInv == TypeOK /\ CountersFade /\ FullCounterIsBeingLocked /\ SecondLockClosesSession

-----------------------------------------------------------------------------
(* Types.                                                                  *)

\* A form has one or two locks, each an attempt key, and a wait for each level.
LEMMA FormLocks ==
    ASSUME NEW f \in Form
    PROVE  /\ Len(Locks[f]) \in 1 .. 2
           /\ \A i \in 1 .. Len(Locks[f]) : Locks[f][i] \in Key
  BY LockoutAssumption

\* The wait of a level is at least a second.
LEMMA Waits ==
    ASSUME NEW k \in Key, NEW l \in Nat, l > 0
    PROVE  WaitOf(k, l) \in Nat \ {0}
<1>1. Wait[k] \in Seq(Nat \ {0}) /\ Len(Wait[k]) \in Nat \ {0}
  BY LockoutAssumption
<1>2. Lower(l, Len(Wait[k])) \in 1 .. Len(Wait[k])
  BY <1>1 DEF Lower
<1> QED
  BY <1>1, <1>2 DEF WaitOf

\* The locks a busy handler is at are attempt keys.
LEMMA Places ==
    ASSUME TypeOK, NEW r \in Request, ~At(r, "idle")
    PROVE  /\ req[r].form \in Form
           /\ Own(r) \in Key /\ Here(r) \in Key
           /\ req[r].i \in 1 .. Len(Locks[req[r].form])
<1>1. req[r].form \in Form /\ req[r].i \in 1 .. Len(Locks[req[r].form])
  BY DEF TypeOK, HandlersOK, HandlerOK, At, Idle, Handler
<1> QED
  BY <1>1, FormLocks DEF Own, Here

\* A step that moves one handler to a well typed place keeps the others.
LEMMA OneMoves ==
    ASSUME TypeOK, NEW r \in Request, NEW h \in HandlerType, HandlerOK(h),
           req' = [req EXCEPT ![r] = h]
    PROVE  HandlersOK'
  BY DEF TypeOK, HandlersOK

LEMMA IdleType == Idle \in HandlerType /\ HandlerOK(Idle)
  BY DEF Idle, Handler, HandlerType, HandlerOK, Phases

\* Where registrar_fallo leaves a handler.
LEMMA CountedType ==
    ASSUME TypeOK, NEW r \in Request, ~At(r, "idle"), NEW locked \in BOOLEAN, Counted(r, locked)
    PROVE  \E h \in HandlerType : HandlerOK(h) /\ req' = [req EXCEPT ![r] = h]
<1> DEFINE shut == IF req[r].i = 1 THEN locked ELSE req[r].shut
           h == IF ~Last(r) THEN Handler("incr", req[r].form, 2, 0, shut)
                ELSE IF shut /\ req[r].form \in Closing
                     THEN Handler("nivel", req[r].form, 1, 0, TRUE)
                     ELSE Idle
<1>1. req[r] \in HandlerType /\ req[r].form \in Form
      /\ req[r].i \in 1 .. Len(Locks[req[r].form]) /\ Len(Locks[req[r].form]) \in 1 .. 2
  BY Places, FormLocks DEF TypeOK, HandlersOK, HandlerType
<1>2. shut \in BOOLEAN
  BY <1>1 DEF HandlerType
<1>3. req' = [req EXCEPT ![r] = h]
  BY DEF Counted, TypeOK, HandlersOK
<1>4. h \in HandlerType /\ HandlerOK(h)
  <2>1. CASE ~Last(r)
    BY <2>1, <1>1, <1>2 DEF Handler, HandlerType, HandlerOK, Busy, Phases, Last
  <2>2. CASE Last(r) /\ shut /\ req[r].form \in Closing
    BY <2>2, <1>1, <1>2 DEF Handler, HandlerType, HandlerOK, Busy, Phases, Last
  <2>3. CASE Last(r) /\ ~(shut /\ req[r].form \in Closing)
    BY <2>3, IdleType
  <2> QED
    BY <2>1, <2>2, <2>3
<1> QED
  BY <1>3, <1>4

LEMMA DecideType ==
    ASSUME TypeOK, NEW r \in Request, ~At(r, "idle"), NEW n \in Nat, Decide(r, n)
    PROVE  \E h \in HandlerType : HandlerOK(h) /\ req' = [req EXCEPT ![r] = h]
<1>1. CASE n < MaxFailures[Here(r)]
  BY <1>1, CountedType DEF Decide
<1>2. CASE ~(n < MaxFailures[Here(r)])
  <2> DEFINE at == IF n = MaxFailures[Here(r)] THEN "level" ELSE "left"
             h == [req[r] EXCEPT !.at = at, !.n = n]
  <2>1. req[r] \in HandlerType /\ req[r].form \in Form /\ req[r].i \in 1 .. Len(Locks[req[r].form])
    BY Places DEF TypeOK, HandlersOK, HandlerType
  <2>2. h \in HandlerType /\ HandlerOK(h)
    BY <2>1 DEF HandlerType, HandlerOK, Busy, Phases
  <2>3. req' = [req EXCEPT ![r] = h]
    BY <1>2, <2>1 DEF Decide, HandlerType, TypeOK, HandlersOK
  <2> QED
    BY <2>2, <2>3
<1> QED
  BY <1>1, <1>2

\* Both counters are cut above 1, and counting goes on up to there.
LEMMA Tops ==
    ASSUME NEW k \in Key
    PROVE  /\ FailsTop(k) \in Nat /\ FailsTop(k) = MaxFailures[k] + 1
           /\ MaxFailures[k] \in Nat \ {0}
           /\ LevelTop(k) \in Nat /\ LevelTop(k) >= CloseLevel
           /\ Window[k] \in Nat \ {0}
<1>1. MaxFailures[k] \in Nat \ {0} /\ Window[k] \in Nat \ {0}
  BY LockoutAssumption
<1>2. Len(Wait[k]) \in Nat
  BY LockoutAssumption
<1> QED
  BY <1>1, <1>2 DEF FailsTop, LevelTop, CloseLevel

LEMMA Cut ==
    ASSUME NEW a \in Nat, NEW b \in Nat, b > 1
    PROVE  /\ Lower(a + 1, b) \in Nat \ {0} /\ Lower(a + 1, b) <= b
           /\ a = 0 <=> Lower(a + 1, b) = 1
  BY DEF Lower

LEMMA TimeConstants == Never \notin Nat /\ ResetAfter \in Nat \ {0}
  BY LockoutAssumption

\* The Redis keys stay well typed when those of an attempt key are deleted.
LEMMA DeleteType ==
    ASSUME TypeOK, NEW k \in Key, DeleteAll(k)
    PROVE  KeysOK'
  BY Tops, TimeConstants DEF TypeOK, KeysOK, DeleteAll, TimeLeft, CloseLevel, FailsTop, LevelTop

\* A step that leaves the Redis keys alone.
LEMMA SameKeys ==
    ASSUME TypeOK, UNCHANGED <<fails, failsLeft, level, levelLeft, until>>
    PROVE  KeysOK'
  BY DEF TypeOK, KeysOK, FailsTop, LevelTop

LEMMA StartType == ASSUME TypeOK, NEW r \in Request, NEW f \in Form, Start(r, f) PROVE TypeOK'
<1> DEFINE h == Handler("ask", f, 1, 0, FALSE)
<1>1. h \in HandlerType /\ 1 \in 1 .. Len(Locks[f])
  BY FormLocks DEF Handler, HandlerType, Phases
<1>2. HandlerOK(h)
  BY <1>1 DEF Handler, HandlerOK, Busy, Phases
<1>3. HandlersOK'
  BY <1>1, <1>2, OneMoves DEF Start
<1> QED
  BY <1>3, SameKeys DEF TypeOK, Start

LEMMA AskLockType == ASSUME TypeOK, NEW r \in Request, AskLock(r) PROVE TypeOK'
<1> DEFINE h == IF until[Here(r)] > 0 THEN Idle
                ELSE IF Last(r) THEN Handler("verify", req[r].form, 1, 0, FALSE)
                ELSE Handler("ask", req[r].form, 2, 0, FALSE)
<1>1. req[r] \in HandlerType /\ req[r].form \in Form /\ req[r].at = "ask"
      /\ req[r].i \in 1 .. Len(Locks[req[r].form]) /\ Len(Locks[req[r].form]) \in 1 .. 2
  BY Places, FormLocks DEF TypeOK, HandlersOK, AskLock, At
<1>2. h \in HandlerType /\ HandlerOK(h)
  <2>1. CASE until[Here(r)] > 0
    BY <2>1, IdleType
  <2>2. CASE ~(until[Here(r)] > 0) /\ Last(r)
    BY <2>2, <1>1 DEF Handler, HandlerType, HandlerOK, Busy, Phases
  <2>3. CASE ~(until[Here(r)] > 0) /\ ~Last(r)
    BY <2>3, <1>1 DEF Handler, HandlerType, HandlerOK, Busy, Phases, Last
  <2> QED
    BY <2>1, <2>2, <2>3
<1>3. HandlersOK'
  BY <1>2, OneMoves DEF AskLock
<1> QED
  BY <1>3, SameKeys DEF TypeOK, AskLock

\* A handler that only goes to another phase.
LEMMA GoType ==
    ASSUME TypeOK, NEW r \in Request, NEW at \in Busy \ {"expire_level", "clear"}, ~At(r, "idle"),
           at = "set" => req[r].n > 0, GoTo(r, at)
    PROVE  HandlersOK'
<1> DEFINE h == [req[r] EXCEPT !.at = at]
<1>1. req[r] \in HandlerType /\ req[r].form \in Form /\ req[r].i \in 1 .. Len(Locks[req[r].form])
  BY Places DEF TypeOK, HandlersOK
<1>2. h \in HandlerType /\ HandlerOK(h)
  BY <1>1 DEF HandlerType, HandlerOK, Busy
<1>3. req' = [req EXCEPT ![r] = h]
  BY DEF GoTo, TypeOK, HandlersOK
<1> QED
  BY <1>2, <1>3, OneMoves

LEMMA VerifyType == ASSUME TypeOK, NEW r \in Request, Verify(r) PROVE TypeOK'
<1>1. HandlersOK'
  BY GoType DEF Verify, At, Busy, Phases
<1> QED
  BY <1>1, SameKeys DEF TypeOK, Verify

LEMMA RefuseType == ASSUME TypeOK, NEW r \in Request, Refuse(r) PROVE TypeOK'
<1>1. HandlersOK'
  BY IdleType, OneMoves DEF Refuse
<1> QED
  BY <1>1, SameKeys DEF TypeOK, Refuse

LEMMA ForgetType == ASSUME TypeOK, NEW r \in Request, Forget(r) PROVE TypeOK'
<1> DEFINE h == IF Clears[req[r].form] = None THEN Idle ELSE [req[r] EXCEPT !.at = "clear"]
<1>1. req[r] \in HandlerType /\ req[r].form \in Form /\ Own(r) \in Key
      /\ req[r].i \in 1 .. Len(Locks[req[r].form])
  BY Places DEF TypeOK, HandlersOK, Forget, At
<1>2. h \in HandlerType /\ HandlerOK(h)
  BY <1>1, IdleType DEF HandlerType, HandlerOK, Busy, Phases
<1>3. HandlersOK' /\ KeysOK'
  BY <1>1, <1>2, OneMoves, DeleteType DEF Forget
<1> QED
  BY <1>3 DEF TypeOK, Forget

LEMMA ClearType == ASSUME TypeOK, NEW r \in Request, Clear(r) PROVE TypeOK'
<1>1. Clears[req[r].form] \in Key
  BY LockoutAssumption DEF TypeOK, HandlersOK, HandlerOK, Clear, At, Idle, Handler
<1>2. HandlersOK' /\ KeysOK'
  BY <1>1, IdleType, OneMoves, DeleteType DEF Clear
<1> QED
  BY <1>2 DEF TypeOK, Clear

\* The counters and the times they have left.
LEMMA CountType == ASSUME TypeOK, NEW r \in Request, Count(r) PROVE TypeOK'
<1> DEFINE k == Here(r)
           n == Lower(fails[k] + 1, FailsTop(k))
           h == [req[r] EXCEPT !.at = "expire", !.n = n]
<1>1. req[r] \in HandlerType /\ req[r].form \in Form /\ k \in Key
      /\ req[r].i \in 1 .. Len(Locks[req[r].form]) /\ ~At(r, "idle")
  BY Places DEF TypeOK, HandlersOK, Count, At
<1>2. n \in Nat \ {0} /\ n <= FailsTop(k)
  <2>1. k \in Key
    BY <1>1
  <2>2. FailsTop(k) \in Nat /\ FailsTop(k) > 1
    BY <2>1, Tops
  <2>3. fails[k] \in Nat
    BY <2>1 DEF TypeOK, KeysOK
  <2> QED
    BY <2>2, <2>3, Cut
<1>3. KeysOK'
  BY <1>1, <1>2, TimeConstants DEF Count, TypeOK, KeysOK, TimeLeft, FailsTop, LevelTop
<1>4. HandlersOK'
  <2>1. CASE n = 1
    <3>1. h \in HandlerType /\ HandlerOK(h)
      BY <1>1, <1>2 DEF HandlerType, HandlerOK, Busy, Phases
    <3>2. req' = [req EXCEPT ![r] = h]
      BY <2>1 DEF Count, TypeOK, HandlersOK
    <3> QED
      BY <3>1, <3>2, OneMoves
  <2>2. CASE n # 1
    <3>1. Decide(r, n)
      BY <2>2 DEF Count
    <3> QED
      BY <3>1, <1>1, <1>2, DecideType, OneMoves
  <2> QED
    BY <2>1, <2>2
<1> QED
  BY <1>3, <1>4 DEF TypeOK, Count

LEMMA ExpireFailsType == ASSUME TypeOK, NEW r \in Request, ExpireFails(r) PROVE TypeOK'
<1>1. Here(r) \in Key /\ ~At(r, "idle") /\ req[r].n \in Nat
  BY Places DEF ExpireFails, At, TypeOK, HandlersOK, HandlerType
<1>2. HandlersOK'
  BY <1>1, DecideType, OneMoves DEF ExpireFails
<1>3. KeysOK'
  BY <1>1, Tops DEF ExpireFails, TypeOK, KeysOK, TimeLeft, FailsTop, LevelTop
<1> QED
  BY <1>2, <1>3 DEF TypeOK, ExpireFails

LEMMA AskLeftType == ASSUME TypeOK, NEW r \in Request, AskLeft(r) PROVE TypeOK'
<1>1. ~At(r, "idle") /\ Counted(r, until[Here(r)] > 0)
  BY DEF AskLeft, At
<1>2. (until[Here(r)] > 0) \in BOOLEAN
  OBVIOUS
<1>3. HandlersOK'
  BY <1>1, <1>2, CountedType, OneMoves
<1> QED
  BY <1>3, SameKeys DEF TypeOK, AskLeft

LEMMA RaiseLevelType == ASSUME TypeOK, NEW r \in Request, RaiseLevel(r) PROVE TypeOK'
<1> DEFINE k == Here(r)
           l == Lower(level[k] + 1, LevelTop(k))
           h == [req[r] EXCEPT !.at = "expire_level", !.n = l]
<1>1. req[r] \in HandlerType /\ req[r].form \in Form /\ k \in Key
      /\ req[r].i \in 1 .. Len(Locks[req[r].form])
  BY Places DEF TypeOK, HandlersOK, RaiseLevel, At
<1>2. l \in Nat \ {0} /\ l <= LevelTop(k)
  <2>1. level[k] \in Nat /\ LevelTop(k) \in Nat /\ LevelTop(k) > 1
    BY <1>1, Tops DEF TypeOK, KeysOK, CloseLevel
  <2> QED
    BY <2>1, Cut
<1>3. KeysOK'
  BY <1>1, <1>2, TimeConstants DEF RaiseLevel, TypeOK, KeysOK, TimeLeft, FailsTop, LevelTop
<1>4. h \in HandlerType /\ HandlerOK(h)
  <2>1. l \in Nat /\ l > 0
    BY <1>2
  <2> HIDE DEF l
  <2> QED
    BY <2>1, <1>1 DEF HandlerType, HandlerOK, Busy, Phases
<1>5. req' = [req EXCEPT ![r] = h]
  BY DEF RaiseLevel, TypeOK, HandlersOK
<1> QED
  BY <1>3, <1>4, <1>5, OneMoves DEF TypeOK, RaiseLevel

LEMMA ExpireLevelType == ASSUME TypeOK, NEW r \in Request, ExpireLevel(r) PROVE TypeOK'
<1>1. Here(r) \in Key /\ ~At(r, "idle") /\ req[r].n > 0
  BY Places DEF ExpireLevel, At, TypeOK, HandlersOK, HandlerOK, Idle, Handler
<1>2. HandlersOK'
  BY <1>1, GoType DEF ExpireLevel, Busy, Phases
<1>3. KeysOK'
  BY <1>1, TimeConstants DEF ExpireLevel, TypeOK, KeysOK, TimeLeft, FailsTop, LevelTop
<1> QED
  BY <1>2, <1>3 DEF TypeOK, ExpireLevel

LEMMA SetLockType == ASSUME TypeOK, NEW r \in Request, SetLock(r) PROVE TypeOK'
<1>1. Here(r) \in Key /\ ~At(r, "idle") /\ req[r].n > 0 /\ req[r].n \in Nat
  BY Places DEF SetLock, At, TypeOK, HandlersOK, HandlerOK, HandlerType, Idle, Handler
<1>2. HandlersOK'
  BY <1>1, GoType DEF SetLock, Busy, Phases
<1>3. KeysOK'
  BY <1>1, Waits DEF SetLock, TypeOK, KeysOK, FailsTop, LevelTop
<1> QED
  BY <1>2, <1>3 DEF TypeOK, SetLock

LEMMA DeleteFailsType == ASSUME TypeOK, NEW r \in Request, DeleteFails(r) PROVE TypeOK'
<1>1. Here(r) \in Key /\ ~At(r, "idle")
  BY Places DEF DeleteFails, At
<1>2. HandlersOK'
  BY <1>1, CountedType, OneMoves DEF DeleteFails
<1>3. KeysOK'
  BY <1>1, Tops DEF DeleteFails, TypeOK, KeysOK, TimeLeft, FailsTop, LevelTop
<1> QED
  BY <1>2, <1>3 DEF TypeOK, DeleteFails

LEMMA AskLevelType == ASSUME TypeOK, NEW r \in Request, AskLevel(r) PROVE TypeOK'
<1> DEFINE h == IF level[Own(r)] >= CloseLevel THEN [req[r] EXCEPT !.at = "revoke"] ELSE Idle
<1>1. req[r] \in HandlerType /\ req[r].form \in Form /\ req[r].i \in 1 .. Len(Locks[req[r].form])
  BY Places DEF TypeOK, HandlersOK, AskLevel, At
<1>2. h \in HandlerType /\ HandlerOK(h)
  BY <1>1, IdleType DEF HandlerType, HandlerOK, Busy, Phases
<1>3. HandlersOK'
  BY <1>2, OneMoves DEF AskLevel
<1> QED
  BY <1>3, SameKeys DEF TypeOK, AskLevel

LEMMA RevokeSessionType == ASSUME TypeOK, NEW r \in Request, RevokeSession(r) PROVE TypeOK'
<1>1. req[r].form \in Form
  BY Places DEF RevokeSession, At
<1>2. HandlersOK'
  BY IdleType, OneMoves DEF RevokeSession
<1> QED
  BY <1>1, <1>2, SameKeys DEF TypeOK, RevokeSession

LEMMA TickType == ASSUME TypeOK, Tick PROVE TypeOK'
<1>1. \A left \in TimeLeft : Older(left) \in TimeLeft
  BY TimeConstants DEF TimeLeft, Older
<1>2. \A left \in TimeLeft : Older(left) = 0 <=> left \in {0, 1}
  BY TimeConstants DEF TimeLeft, Older
<1>3. \A left \in Nat : Older(left) \in Nat
  BY TimeConstants DEF Older
<1>4. KeysOK'
  <2>1. /\ fails' \in [Key -> Nat] /\ failsLeft' \in [Key -> TimeLeft]
        /\ level' \in [Key -> Nat] /\ levelLeft' \in [Key -> TimeLeft]
        /\ until' \in [Key -> Nat]
    BY <1>1, <1>3 DEF Tick, TypeOK, KeysOK
  <2>2. ASSUME NEW k \in Key
        PROVE  /\ fails'[k] <= FailsTop(k) /\ (fails'[k] = 0 <=> failsLeft'[k] = 0)
               /\ level'[k] <= LevelTop(k) /\ (level'[k] = 0 <=> levelLeft'[k] = 0)
    BY <1>2, Tops DEF Tick, TypeOK, KeysOK
  <2> QED
    BY <2>1, <2>2 DEF KeysOK, FailsTop, LevelTop
<1> QED
  BY <1>4 DEF TypeOK, HandlersOK, Tick

LEMMA DieType == ASSUME TypeOK, NEW r \in Request, Die(r) PROVE TypeOK'
<1>1. HandlersOK'
  BY IdleType, OneMoves DEF Die
<1> QED
  BY <1>1, SameKeys DEF TypeOK, Die

LEMMA InitType == ASSUME Init PROVE TypeOK
<1>1. HandlersOK
  BY IdleType DEF Init, HandlersOK
<1>2. KeysOK
  BY Tops DEF Init, KeysOK, TimeLeft, CloseLevel
<1> QED
  BY <1>1, <1>2 DEF Init, TypeOK

LEMMA NextType == ASSUME TypeOK, [Next]_vars PROVE TypeOK'
<1>1. CASE UNCHANGED vars
  BY <1>1 DEF vars, TypeOK, KeysOK, HandlersOK, FailsTop, LevelTop
<1>2. CASE Tick
  BY <1>2, TickType
<1>3. ASSUME NEW r \in Request, Step(r) PROVE TypeOK'
  BY <1>3, AskLockType, VerifyType, RefuseType, ForgetType, ClearType, CountType, ExpireFailsType,
     AskLeftType, RaiseLevelType, ExpireLevelType, SetLockType, DeleteFailsType, AskLevelType, RevokeSessionType
     DEF Step
<1>4. ASSUME NEW r \in Request, NEW f \in Form, Start(r, f) PROVE TypeOK'
  BY <1>4, StartType
<1>5. ASSUME NEW r \in Request, Die(r) PROVE TypeOK'
  BY <1>5, DieType
<1> QED
  BY <1>1, <1>2, <1>3, <1>4, <1>5 DEF Next, Healthy

\* Every Redis key has a value exactly as long as it has time left, no counter
\* passes its top and no handler is at a lock its form has not, wherever the
\* handlers die.
THEOREM TypeCorrect == Spec => []TypeOK
<1>1. Init => TypeOK
  BY InitType
<1>2. TypeOK /\ [Next]_vars => TypeOK'
  BY NextType
<1> QED
  BY <1>1, <1>2, PTL DEF Spec

-----------------------------------------------------------------------------
(* Nothing but time takes failures off a shared key.                       *)

Forgives ==
    \A k \in Shared :
        /\ fails'[k] < fails[k] =>
              failsLeft[k] = 1 \/ \E r \in Request : At(r, "delete") /\ Here(r) = k
        /\ until'[k] < until[k] =>
              until'[k] = until[k] - 1 \/ \E r \in Request : At(r, "set") /\ Here(r) = k

\* What a success deletes is not shared.
LEMMA DeleteForgives ==
    ASSUME TypeOK, NEW k \in Key, k \notin Shared, DeleteAll(k)
    PROVE  Forgives
<1>1. \A j \in Shared : fails'[j] = fails[j] /\ until'[j] = until[j] /\ fails[j] \in Nat /\ until[j] \in Nat
  BY DEF DeleteAll, TypeOK, KeysOK, Shared
<1> QED
  BY <1>1 DEF Forgives

LEMMA NextForgives == ASSUME TypeOK, [Next]_vars PROVE Forgives
<1>0. \A k \in Shared : fails[k] \in Nat /\ until[k] \in Nat /\ failsLeft[k] \in TimeLeft
                       /\ FailsTop(k) \in Nat /\ fails[k] <= FailsTop(k)
  BY Tops DEF Shared, TypeOK, KeysOK
<1>1. ASSUME UNCHANGED <<fails, until>> PROVE Forgives
  BY <1>0, <1>1 DEF Forgives
<1>2. CASE Tick
  <2>1. ASSUME NEW k \in Shared, fails'[k] < fails[k] PROVE failsLeft[k] = 1
    BY <2>1, <1>2, <1>0 DEF Tick, Shared
  <2>2. ASSUME NEW k \in Shared, until'[k] < until[k] PROVE until'[k] = until[k] - 1
    BY <2>2, <1>2, <1>0 DEF Tick, Shared, Older
  <2> QED
    BY <2>1, <2>2 DEF Forgives
<1>3. ASSUME NEW r \in Request, Step(r) PROVE Forgives
  <2>1. CASE Forget(r)
    <3>1. Own(r) \in Key /\ Own(r) \notin Shared
      BY <2>1, Places DEF Forget, At, Shared, Own
    <3> QED
      BY <3>1, <2>1, DeleteForgives DEF Forget
  <2>2. CASE Clear(r)
    <3>1. Clears[req[r].form] \in Key /\ req[r].form \in Form
      BY <2>2, LockoutAssumption DEF Clear, At, TypeOK, HandlersOK, HandlerOK, Idle, Handler
    <3>2. Clears[req[r].form] \notin Shared
      BY <3>1 DEF Shared
    <3> QED
      BY <3>1, <3>2, <2>2, DeleteForgives DEF Clear
  <2>3. CASE Count(r)
    <3>1. \A k \in Shared : fails[k] <= fails'[k] /\ until'[k] = until[k]
      <4>1. Here(r) \in Key /\ fails[Here(r)] \in Nat /\ FailsTop(Here(r)) \in Nat /\ fails[Here(r)] <= FailsTop(Here(r))
        BY <2>3, Places, Tops DEF Count, At, TypeOK, KeysOK
      <4>2. fails[Here(r)] <= Lower(fails[Here(r)] + 1, FailsTop(Here(r)))
        BY <4>1 DEF Lower
      <4> QED
        BY <4>1, <4>2, <1>0, <2>3 DEF Count, TypeOK, KeysOK, Shared
    <3>2. \A k \in Shared : fails'[k] \in Nat
      BY <2>3, CountType DEF TypeOK, KeysOK, Shared
    <3> QED
      BY <3>1, <3>2, <1>0 DEF Forgives
  <2>4. CASE SetLock(r)
    BY <2>4, <1>0, Places DEF SetLock, Forgives, Shared, At, TypeOK, KeysOK
  <2>5. CASE DeleteFails(r)
    BY <2>5, <1>0, Places DEF DeleteFails, Forgives, Shared, At, TypeOK, KeysOK
  <2>6. CASE UNCHANGED <<fails, until>>
    BY <2>6, <1>1
  <2> QED
    BY <1>3, <2>1, <2>2, <2>3, <2>4, <2>5, <2>6
       DEF Step, AskLock, Verify, Refuse, ExpireFails, AskLeft, RaiseLevel, ExpireLevel, AskLevel,
           RevokeSession
<1>4. ASSUME NEW r \in Request, NEW f \in Form, Start(r, f) PROVE Forgives
  BY <1>4, <1>1 DEF Start
<1>5. ASSUME NEW r \in Request, Die(r) PROVE Forgives
  BY <1>5, <1>1 DEF Die
<1>6. CASE UNCHANGED vars
  BY <1>6, <1>1 DEF vars
<1> QED
  BY <1>2, <1>3, <1>4, <1>5, <1>6 DEF Next, Healthy

\* A success gives nobody back the guesses on a shared key, and nothing lifts
\* its lock early.
THEOREM GuessesAreNotGivenBack == Spec => OnlyTimeForgives
<1>1. TypeOK /\ [Next]_vars => [Forgives]_vars
  BY NextForgives
<1>2. Spec => [][Forgives]_vars
  BY <1>1, TypeCorrect, PTL DEF Spec
<1> QED
  BY <1>2 DEF OnlyTimeForgives, Forgives

-----------------------------------------------------------------------------
(* When no handler dies half way: who is about to do what is left to do.   *)

\* A step of one handler leaves the others where they are.
LEMMA OthersStay ==
    ASSUME TypeOK, NEW r \in Request, Step(r) \/ (\E f \in Form : Start(r, f)),
           NEW q \in Request, q # r
    PROVE  req'[q] = req[q]
<1>1. req \in [Request -> HandlerType]
  BY DEF TypeOK, HandlersOK
<1>2. \A h : req' = [req EXCEPT ![r] = h] => req'[q] = req[q]
  BY <1>1
<1>3. \A locked : Counted(r, locked) => req'[q] = req[q]
  BY <1>1 DEF Counted
<1>4. \A n : Decide(r, n) => req'[q] = req[q]
  BY <1>1, <1>3 DEF Decide
<1>5. \A at : GoTo(r, at) => req'[q] = req[q]
  BY <1>1 DEF GoTo
<1>6. CASE Step(r)
  <2>1. CASE AskLock(r) \/ Verify(r) \/ Refuse(r) \/ Forget(r) \/ Clear(r)
    BY <2>1, <1>1, <1>5 DEF AskLock, Verify, Refuse, Forget, Clear
  <2>2. CASE Count(r)
    BY <2>2, <1>1, <1>4 DEF Count
  <2>3. CASE ExpireFails(r) \/ AskLeft(r) \/ DeleteFails(r)
    BY <2>3, <1>3, <1>4 DEF ExpireFails, AskLeft, DeleteFails
  <2>4. CASE RaiseLevel(r) \/ ExpireLevel(r) \/ SetLock(r)
    BY <2>4, <1>1, <1>5 DEF RaiseLevel, ExpireLevel, SetLock
  <2>5. CASE AskLevel(r) \/ RevokeSession(r)
    BY <2>5, <1>1 DEF AskLevel, RevokeSession
  <2> QED
    BY <1>6, <2>1, <2>2, <2>3, <2>4, <2>5 DEF Step
<1>7. CASE \E f \in Form : Start(r, f)
  BY <1>7, <1>1 DEF Start
<1> QED
  BY <1>6, <1>7

\* A step that takes no expiry away and is not the one that gives it.
LEMMA FadeQuiet ==
    ASSUME CountersFade, NEW r \in Request,
           ~At(r, "expire"), ~At(r, "expire_level"),
           \A q \in Request \ {r} : req'[q] = req[q],
           \A k \in Key : failsLeft'[k] = Never => failsLeft[k] = Never,
           \A k \in Key : levelLeft'[k] = Never => levelLeft[k] = Never
    PROVE  CountersFade'
  BY DEF CountersFade, At, Here

LEMMA StepFades ==
    ASSUME TypeOK, CountersFade, NEW r \in Request, Step(r) \/ (\E f \in Form : Start(r, f))
    PROVE  CountersFade'
<1>0. \A q \in Request \ {r} : req'[q] = req[q]
  BY OthersStay
<1>1. CASE (\E f \in Form : Start(r, f)) \/ AskLock(r) \/ Verify(r) \/ Refuse(r) \/ AskLeft(r)
           \/ SetLock(r) \/ AskLevel(r) \/ RevokeSession(r)
  <2>1. UNCHANGED <<failsLeft, levelLeft>> /\ ~At(r, "expire") /\ ~At(r, "expire_level")
    BY <1>1 DEF Start, AskLock, Verify, Refuse, AskLeft, SetLock, AskLevel, RevokeSession, At
  <2> QED
    BY <2>1, <1>0, FadeQuiet
<1>2. CASE Forget(r) \/ Clear(r) \/ DeleteFails(r)
  <2>1. /\ \A k \in Key : failsLeft'[k] \in {failsLeft[k], 0}
        /\ \A k \in Key : levelLeft'[k] \in {levelLeft[k], 0}
    BY <1>2 DEF Forget, Clear, DeleteFails, DeleteAll, TypeOK, KeysOK
  <2>2. ~At(r, "expire") /\ ~At(r, "expire_level")
    BY <1>2 DEF Forget, Clear, DeleteFails, At
  <2> QED
    BY <2>1, <2>2, <1>0, FadeQuiet, TimeConstants
<1>3. CASE Count(r)
  <2> DEFINE h == Here(r)
             n == Lower(fails[h] + 1, FailsTop(h))
  <2>1. h \in Key
    BY <1>3, Places DEF Count, At
  <2>2. fails[h] = 0 <=> n = 1
    <3>1. FailsTop(h) \in Nat /\ FailsTop(h) > 1 /\ fails[h] \in Nat
      BY <2>1, Tops DEF TypeOK, KeysOK
    <3> QED
      BY <3>1, Cut
  <2>3. CASE fails[h] = 0
    <3>1. req'[r].at = "expire" /\ Here(r)' = h
      BY <1>3, <2>2, <2>3 DEF Count, TypeOK, HandlersOK, HandlerType, Here
    <3>2. \A k \in Key \ {h} : failsLeft'[k] = failsLeft[k]
      BY <1>3 DEF Count, TypeOK, KeysOK
    <3>3. levelLeft' = levelLeft /\ ~At(r, "expire") /\ ~At(r, "expire_level")
      BY <1>3 DEF Count, At
    <3> QED
      BY <3>1, <3>2, <3>3, <1>0 DEF CountersFade, At, Here
  <2>4. CASE fails[h] # 0
    <3>1. UNCHANGED <<failsLeft, levelLeft>> /\ ~At(r, "expire") /\ ~At(r, "expire_level")
      BY <1>3, <2>4 DEF Count, At
    <3> QED
      BY <3>1, <1>0, FadeQuiet
  <2> QED
    BY <2>3, <2>4
<1>4. CASE ExpireFails(r)
  <2>1. Here(r) \in Key
    BY <1>4, Places DEF ExpireFails, At
  <2>2. failsLeft'[Here(r)] # Never
    BY <1>4, <2>1, Tops, TimeConstants DEF ExpireFails, TypeOK, KeysOK
  <2>3. \A k \in Key \ {Here(r)} : failsLeft'[k] = failsLeft[k]
    BY <1>4 DEF ExpireFails, TypeOK, KeysOK
  <2>4. levelLeft' = levelLeft /\ ~At(r, "expire_level")
    BY <1>4 DEF ExpireFails, At
  <2> QED
    BY <2>1, <2>2, <2>3, <2>4, <1>0 DEF CountersFade, At, Here
<1>5. CASE RaiseLevel(r)
  <2> DEFINE h == Here(r)
  <2>1. h \in Key
    BY <1>5, Places DEF RaiseLevel, At
  <2>2. req'[r].at = "expire_level" /\ Here(r)' = h
    BY <1>5 DEF RaiseLevel, TypeOK, HandlersOK, HandlerType, Here
  <2>3. \A k \in Key \ {h} : levelLeft'[k] = levelLeft[k]
    BY <1>5 DEF RaiseLevel, TypeOK, KeysOK
  <2>4. failsLeft' = failsLeft /\ ~At(r, "expire") /\ ~At(r, "expire_level")
    BY <1>5 DEF RaiseLevel, At
  <2> QED
    BY <2>1, <2>2, <2>3, <2>4, <1>0 DEF CountersFade, At, Here
<1>6. CASE ExpireLevel(r)
  <2>1. Here(r) \in Key
    BY <1>6, Places DEF ExpireLevel, At
  <2>2. levelLeft'[Here(r)] # Never
    BY <1>6, <2>1, TimeConstants DEF ExpireLevel, TypeOK, KeysOK
  <2>3. \A k \in Key \ {Here(r)} : levelLeft'[k] = levelLeft[k]
    BY <1>6 DEF ExpireLevel, TypeOK, KeysOK
  <2>4. failsLeft' = failsLeft /\ ~At(r, "expire")
    BY <1>6 DEF ExpireLevel, At
  <2> QED
    BY <2>1, <2>2, <2>3, <2>4, <1>0 DEF CountersFade, At, Here
<1> QED
  BY <1>1, <1>2, <1>3, <1>4, <1>5, <1>6 DEF Step

LEMMA TickFades == ASSUME TypeOK, CountersFade, Tick PROVE CountersFade'
<1>1. \A left \in TimeLeft : Older(left) = Never => left = Never
  BY TimeConstants DEF TimeLeft, Older
<1>2. \A k \in Key : /\ failsLeft'[k] = Never => failsLeft[k] = Never
                     /\ levelLeft'[k] = Never => levelLeft[k] = Never
  BY <1>1 DEF Tick, TypeOK, KeysOK
<1> QED
  BY <1>2 DEF Tick, CountersFade, At, Here

-----------------------------------------------------------------------------
(* A full counter has a handler that locks.                                *)

\* A step that fills no counter and does not stop a handler that locks.
LEMMA FullQuiet ==
    ASSUME FullCounterIsBeingLocked, NEW r \in Request,
           \A q \in Request \ {r} : req'[q] = req[q],
           \A k \in Key : fails'[k] >= MaxFailures[k] => fails[k] >= MaxFailures[k],
           \A k \in Key : Locking(r, k) /\ fails'[k] >= MaxFailures[k] => Locking(r, k)'
    PROVE  FullCounterIsBeingLocked'
  BY DEF FullCounterIsBeingLocked, Locking, At, Here

LEMMA CountFills ==
    ASSUME TypeOK, FullCounterIsBeingLocked, NEW r \in Request, Count(r),
           \A q \in Request \ {r} : req'[q] = req[q]
    PROVE  FullCounterIsBeingLocked'
<1> DEFINE h == Here(r)
           n == Lower(fails[h] + 1, FailsTop(h))
<1>1. h \in Key /\ At(r, "incr")
  BY Places DEF Count, At
<1>2. \A k \in Key : ~Locking(r, k)
  BY <1>1 DEF Locking, At
<1>3. ASSUME NEW k \in Key, fails[k] >= MaxFailures[k]
      PROVE  \E q \in Request : Locking(q, k)'
  <2>1. PICK q \in Request : Locking(q, k)
    BY <1>3 DEF FullCounterIsBeingLocked
  <2>2. q # r
    BY <2>1, <1>2
  <2> QED
    BY <2>1, <2>2 DEF Locking, At, Here
<1>4. ASSUME NEW k \in Key, k = h, fails'[k] >= MaxFailures[k], ~(fails[k] >= MaxFailures[k])
      PROVE  Locking(r, k)'
  <2>1. MaxFailures[h] \in Nat \ {0} /\ FailsTop(h) = MaxFailures[h] + 1 /\ fails[h] \in Nat
    BY <1>1, Tops DEF TypeOK, KeysOK
  <2>2. fails'[h] = n
    BY <1>1 DEF Count, TypeOK, KeysOK
  <2>3. n = MaxFailures[h]
    BY <2>1, <2>2, <1>4 DEF Lower
  <2>4. CASE n = 1
    <3>1. req'[r].at = "expire" /\ req'[r].n = n /\ Here(r)' = h
      BY <2>4 DEF Count, TypeOK, HandlersOK, HandlerType, Here
    <3> QED
      BY <3>1, <2>3, <1>4 DEF Locking, At
  <2>5. CASE n # 1
    <3>1. Decide(r, n)
      BY <2>5 DEF Count
    <3>2. ~(n < MaxFailures[h])
      BY <2>1, <2>3
    <3>3. req'[r].at = "level" /\ Here(r)' = h
      BY <3>1, <3>2, <2>3 DEF Decide, TypeOK, HandlersOK, HandlerType, Here
    <3> QED
      BY <3>3, <1>4 DEF Locking, At
  <2> QED
    BY <2>4, <2>5
<1>5. \A k \in Key \ {h} : fails'[k] = fails[k]
  BY DEF Count, TypeOK, KeysOK
<1>6. ASSUME NEW k \in Key, fails'[k] >= MaxFailures[k]
      PROVE  \E q \in Request : Locking(q, k)'
  <2>1. CASE fails[k] >= MaxFailures[k]
    BY <2>1, <1>3
  <2>2. CASE ~(fails[k] >= MaxFailures[k])
    <3>1. k = h
      BY <2>2, <1>5, <1>6
    <3> QED
      BY <2>2, <3>1, <1>4, <1>6
  <2> QED
    BY <2>1, <2>2
<1> QED
  BY <1>6 DEF FullCounterIsBeingLocked

LEMMA StepFills ==
    ASSUME TypeOK, FullCounterIsBeingLocked, NEW r \in Request,
           Step(r) \/ (\E f \in Form : Start(r, f))
    PROVE  FullCounterIsBeingLocked'
<1>0. \A q \in Request \ {r} : req'[q] = req[q]
  BY OthersStay
<1>1. CASE (\E f \in Form : Start(r, f)) \/ AskLock(r) \/ Verify(r) \/ Refuse(r) \/ AskLeft(r)
           \/ AskLevel(r) \/ RevokeSession(r)
  <2>1. fails' = fails /\ \A k \in Key : ~Locking(r, k)
    BY <1>1 DEF Start, AskLock, Verify, Refuse, AskLeft, AskLevel, RevokeSession, At, Locking
  <2> QED
    BY <2>1, <1>0, FullQuiet
<1>2. CASE Forget(r) \/ Clear(r)
  <2>1. \A k \in Key : fails'[k] \in {fails[k], 0}
    BY <1>2 DEF Forget, Clear, DeleteAll, TypeOK, KeysOK
  <2>2. \A k \in Key : ~Locking(r, k)
    BY <1>2 DEF Forget, Clear, At, Locking
  <2>3. ASSUME NEW k \in Key PROVE ~(0 >= MaxFailures[k])
    <3>1. MaxFailures[k] \in Nat \ {0}
      BY Tops
    <3> QED
      BY <3>1
  <2> QED
    BY <2>1, <2>2, <2>3, <1>0, FullQuiet
<1>3. CASE Count(r)
  BY <1>3, <1>0, CountFills
<1>4. CASE ExpireFails(r)
  <2>1. ASSUME NEW k \in Key, Locking(r, k) PROVE Locking(r, k)'
    <3>1. Here(r) = k /\ req[r].n = MaxFailures[k] /\ MaxFailures[k] \in Nat
      BY <2>1, <1>4, Tops DEF Locking, ExpireFails, At
    <3>2. ~(req[r].n < MaxFailures[k])
      BY <3>1
    <3>3. req'[r].at = "level" /\ Here(r)' = k
      BY <3>1, <3>2, <1>4 DEF ExpireFails, Decide, TypeOK, HandlersOK, HandlerType, Here
    <3> QED
      BY <3>3 DEF Locking, At
  <2> QED
    BY <2>1, <1>4, <1>0, FullQuiet DEF ExpireFails
<1>5. CASE RaiseLevel(r) \/ ExpireLevel(r) \/ SetLock(r)
  <2>1. fails' = fails
    BY <1>5 DEF RaiseLevel, ExpireLevel, SetLock
  <2>2. req'[r].at \in {"expire_level", "set", "delete"} /\ Here(r)' = Here(r)
    <3>1. CASE RaiseLevel(r)
      BY <3>1 DEF RaiseLevel, TypeOK, HandlersOK, HandlerType, Here
    <3>2. CASE ExpireLevel(r)
      BY <3>2 DEF ExpireLevel, GoTo, TypeOK, HandlersOK, HandlerType, Here
    <3>3. CASE SetLock(r)
      BY <3>3 DEF SetLock, GoTo, TypeOK, HandlersOK, HandlerType, Here
    <3> QED
      BY <1>5, <3>1, <3>2, <3>3
  <2>3. \A k \in Key : Locking(r, k) => Locking(r, k)'
    BY <2>2 DEF Locking, At
  <2> QED
    BY <2>1, <2>3, <1>0, FullQuiet
<1>6. CASE DeleteFails(r)
  <2>1. Here(r) \in Key
    BY <1>6, Places DEF DeleteFails, At
  <2>2. fails'[Here(r)] = 0 /\ \A k \in Key \ {Here(r)} : fails'[k] = fails[k]
    BY <1>6, <2>1 DEF DeleteFails, TypeOK, KeysOK
  <2>3. ~(0 >= MaxFailures[Here(r)])
    BY <2>1, Tops
  <2>4. \A k \in Key : Locking(r, k) => k = Here(r)
    BY DEF Locking
  <2> QED
    BY <2>2, <2>3, <2>4, <1>0, FullQuiet
<1> QED
  BY <1>1, <1>2, <1>3, <1>4, <1>5, <1>6 DEF Step

LEMMA TickFills == ASSUME TypeOK, FullCounterIsBeingLocked, Tick PROVE FullCounterIsBeingLocked'
<1>1. \A k \in Key : fails'[k] \in {fails[k], 0} /\ ~(0 >= MaxFailures[k])
  BY Tops DEF Tick, TypeOK, KeysOK
<1>2. \A k \in Key : fails'[k] >= MaxFailures[k] => fails[k] >= MaxFailures[k]
  BY <1>1
<1> QED
  BY <1>2 DEF Tick, FullCounterIsBeingLocked, Locking, At, Here

-----------------------------------------------------------------------------
(* A session locked twice is being closed.                                 *)

\* A step that raises no level and does not stop a handler that closes.
LEMMA CloseQuiet ==
    ASSUME SecondLockClosesSession, NEW r \in Request, closed \subseteq closed',
           \A q \in Request \ {r} : req'[q] = req[q],
           \A f \in Closing : level'[Locks[f][1]] >= CloseLevel => level[Locks[f][1]] >= CloseLevel,
           \A f \in Closing : ClosingHandler(r, f) /\ level'[Locks[f][1]] >= CloseLevel
                                 => ClosingHandler(r, f)' \/ f \in closed'
    PROVE  SecondLockClosesSession'
  BY DEF SecondLockClosesSession, ClosingHandler

\* A handler that closes goes on to the level when registrar_fallo is done.
LEMMA CountedCloses ==
    ASSUME TypeOK, NEW r \in Request, NEW f \in Closing, NEW locked \in BOOLEAN,
           req[r].form = f, ~At(r, "idle"), Counted(r, locked),
           \/ req[r].i = 2 /\ req[r].shut
           \/ req[r].i = 1 /\ locked
    PROVE  ClosingHandler(r, f)'
<1>1. req[r].i \in 1 .. Len(Locks[f]) /\ Len(Locks[f]) \in 1 .. 2 /\ req \in [Request -> HandlerType]
  BY Places, FormLocks DEF TypeOK, HandlersOK
<1>2. CASE Last(r)
  <2>1. (IF req[r].i = 1 THEN locked ELSE req[r].shut) = TRUE
    BY <1>1 DEF HandlerType
  <2>2. req'[r] = IF (IF req[r].i = 1 THEN locked ELSE req[r].shut) /\ f \in Closing
                  THEN Handler("nivel", f, 1, 0, TRUE) ELSE Idle
    BY <1>1, <1>2 DEF Counted
  <2>3. req'[r] = Handler("nivel", f, 1, 0, TRUE)
    BY <2>1, <2>2
  <2> QED
    BY <2>3 DEF ClosingHandler, Handler
<1>3. CASE ~Last(r)
  <2>1. req[r].i = 1
    <3>1. req[r].i # Len(Locks[f])
      BY <1>3 DEF Last
    <3>2. \A i, len \in Nat : i \in 1 .. len /\ len \in 1 .. 2 /\ i # len => i = 1
      OBVIOUS
    <3>3. Len(Locks[f]) \in Nat /\ req[r].i \in Nat
      BY <1>1
    <3> QED
      BY <1>1, <3>1, <3>2, <3>3
  <2>2. req'[r] = Handler("incr", f, 2, 0, TRUE)
    BY <1>1, <1>3, <2>1 DEF Counted
  <2> QED
    BY <2>2 DEF ClosingHandler, Handler, Counting
<1> QED
  BY <1>2, <1>3

LEMMA DecideCloses ==
    ASSUME TypeOK, NEW r \in Request, NEW f \in Closing, NEW n \in Nat,
           req[r].form = f, ~At(r, "idle"), Decide(r, n), req[r].i = 2, req[r].shut
    PROVE  ClosingHandler(r, f)'
<1>1. CASE n < MaxFailures[Here(r)]
  BY <1>1, CountedCloses DEF Decide
<1>2. CASE ~(n < MaxFailures[Here(r)])
  <2>1. /\ req'[r].at \in {"level", "left"} /\ req'[r].form = f
        /\ req'[r].i = 2 /\ req'[r].shut
    BY <1>2 DEF Decide, TypeOK, HandlersOK, HandlerType
  <2> QED
    BY <2>1 DEF ClosingHandler, Counting
<1> QED
  BY <1>1, <1>2

\* The first lock of a portal session is its own.
LEMMA ClosingKeys ==
    ASSUME NEW f \in Closing
    PROVE  f \in Form /\ Locks[f][1] \in Key
<1>1. f \in Form
  BY LockoutAssumption
<1>2. Len(Locks[f]) \in 1 .. 2
  BY <1>1, LockoutAssumption
<1>3. 1 \in 1 .. Len(Locks[f])
  BY <1>2
<1> QED
  BY <1>1, <1>3, FormLocks

\* No lock but its own raises the level of a portal session.
LEMMA RaiseCloses ==
    ASSUME TypeOK, SecondLockClosesSession, NEW r \in Request, RaiseLevel(r),
           \A q \in Request \ {r} : req'[q] = req[q]
    PROVE  SecondLockClosesSession'
<1>1. Here(r) \in Key /\ req[r].form \in Form /\ req[r].i \in 1 .. Len(Locks[req[r].form])
  BY Places DEF RaiseLevel, At
<1>2. /\ req'[r].at = "expire_level" /\ req'[r].form = req[r].form
      /\ req'[r].i = req[r].i /\ req'[r].shut = req[r].shut
  BY DEF RaiseLevel, TypeOK, HandlersOK, HandlerType
<1>3. closed' = closed /\ \A k \in Key \ {Here(r)} : level'[k] = level[k]
  BY DEF RaiseLevel, TypeOK, KeysOK
<1>4. ASSUME NEW f \in Closing, level'[Locks[f][1]] >= CloseLevel
      PROVE  f \in closed' \/ \E q \in Request : ClosingHandler(q, f)'
  <2>1. f \in Form /\ Locks[f][1] \in Key
    BY ClosingKeys
  <2>2. CASE Locks[f][1] = Here(r)
    <3>1. req[r].form = f /\ req[r].i = 1
      BY <1>1, <2>2, LockoutAssumption DEF Here
    <3> QED
      BY <3>1, <1>2 DEF ClosingHandler
  <2>3. CASE Locks[f][1] # Here(r)
    <3>1. level[Locks[f][1]] >= CloseLevel
      BY <1>3, <1>4, <2>1, <2>3
    <3>2. CASE f \in closed
      BY <3>2, <1>3
    <3>3. CASE f \notin closed
      <4>1. PICK q \in Request : ClosingHandler(q, f)
        BY <3>1, <3>3 DEF SecondLockClosesSession
      <4>2. CASE q = r
        BY <4>1, <4>2, <1>2 DEF ClosingHandler, RaiseLevel, At, Counting
      <4>3. CASE q # r
        BY <4>1, <4>3 DEF ClosingHandler
      <4> QED
        BY <4>2, <4>3
    <3> QED
      BY <3>2, <3>3
  <2> QED
    BY <2>2, <2>3
<1> QED
  BY <1>4 DEF SecondLockClosesSession

LEMMA StepCloses ==
    ASSUME TypeOK, SecondLockClosesSession, NEW r \in Request,
           Step(r) \/ (\E f \in Form : Start(r, f))
    PROVE  SecondLockClosesSession'
<1>0. \A q \in Request \ {r} : req'[q] = req[q]
  BY OthersStay
<1>1. CASE (\E f \in Form : Start(r, f)) \/ AskLock(r) \/ Verify(r) \/ Refuse(r)
  <2>1. UNCHANGED <<level, closed>> /\ \A f \in Closing : ~ClosingHandler(r, f)
    BY <1>1 DEF Start, AskLock, Verify, Refuse, At, ClosingHandler, Counting
  <2> QED
    BY <2>1, <1>0, CloseQuiet
<1>2. CASE Forget(r) \/ Clear(r)
  <2>1. closed' = closed /\ \A f \in Closing : ~ClosingHandler(r, f)
    BY <1>2 DEF Forget, Clear, DeleteAll, At, ClosingHandler, Counting
  <2>2. \A k \in Key : level'[k] \in {level[k], 0}
    BY <1>2 DEF Forget, Clear, DeleteAll, TypeOK, KeysOK
  <2>3. \A f \in Closing : Locks[f][1] \in Key
    BY ClosingKeys
  <2>4. ~(0 >= CloseLevel)
    BY DEF CloseLevel
  <2>5. \A f \in Closing : level'[Locks[f][1]] >= CloseLevel => level[Locks[f][1]] >= CloseLevel
    BY <2>2, <2>3, <2>4
  <2> QED
    BY <2>1, <2>5, <1>0, CloseQuiet
<1>3. CASE Count(r) \/ ExpireFails(r)
  <2>1. UNCHANGED <<level, closed>>
    BY <1>3 DEF Count, ExpireFails
  <2>2. ASSUME NEW f \in Closing, ClosingHandler(r, f) PROVE ClosingHandler(r, f)'
    <3>1. req[r].form = f /\ req[r].i = 2 /\ req[r].shut /\ ~At(r, "idle")
      BY <1>3, <2>2 DEF Count, ExpireFails, At, ClosingHandler
    <3>2. CASE \E n \in Nat : Decide(r, n)
      BY <3>1, <3>2, DecideCloses
    <3>3. CASE ~\E n \in Nat : Decide(r, n)
      <4>1. Here(r) \in Key /\ req[r].n \in Nat
        BY <3>1, Places DEF TypeOK, HandlersOK, HandlerType
      <4>2. Lower(fails[Here(r)] + 1, FailsTop(Here(r))) \in Nat
        BY <4>1, Tops DEF Lower, TypeOK, KeysOK
      <4>3. /\ Count(r)
            /\ req' = [req EXCEPT ![r].at = "expire",
                                  ![r].n = Lower(fails[Here(r)] + 1, FailsTop(Here(r)))]
        BY <1>3, <3>3, <4>1, <4>2 DEF Count, ExpireFails
      <4>4. req'[r].at = "expire" /\ req'[r].form = f /\ req'[r].i = 2 /\ req'[r].shut
        BY <3>1, <4>3 DEF TypeOK, HandlersOK, HandlerType
      <4> QED
        BY <4>4 DEF ClosingHandler, Counting
    <3> QED
      BY <3>2, <3>3
  <2> QED
    BY <2>1, <2>2, <1>0, CloseQuiet
<1>4. CASE AskLeft(r) \/ DeleteFails(r)
  <2>1. UNCHANGED <<level, closed>>
    BY <1>4 DEF AskLeft, DeleteFails
  <2>2. ASSUME NEW f \in Closing, ClosingHandler(r, f) PROVE ClosingHandler(r, f)'
    <3>1. req[r].form = f /\ ~At(r, "idle")
      BY <1>4, <2>2 DEF AskLeft, DeleteFails, At, ClosingHandler
    <3>2. CASE AskLeft(r)
      <4>1. req[r].i = 2 /\ req[r].shut
        BY <2>2, <3>2 DEF AskLeft, At, ClosingHandler
      <4>2. Counted(r, until[Here(r)] > 0) /\ (until[Here(r)] > 0) \in BOOLEAN
        BY <3>2 DEF AskLeft
      <4> QED
        BY <3>1, <4>1, <4>2, CountedCloses
    <3>3. CASE DeleteFails(r)
      <4>1. (req[r].i = 2 /\ req[r].shut) \/ req[r].i = 1
        BY <2>2, <3>3 DEF DeleteFails, At, ClosingHandler
      <4>2. Counted(r, TRUE)
        BY <3>3 DEF DeleteFails
      <4> QED
        BY <3>1, <4>1, <4>2, CountedCloses
    <3> QED
      BY <1>4, <3>2, <3>3
  <2> QED
    BY <2>1, <2>2, <1>0, CloseQuiet
<1>5. CASE RaiseLevel(r)
  BY <1>5, <1>0, RaiseCloses
<1>6. CASE ExpireLevel(r) \/ SetLock(r)
  <2>1. UNCHANGED <<level, closed>>
    BY <1>6 DEF ExpireLevel, SetLock
  <2>2. PICK at \in {"set", "delete"} : GoTo(r, at) /\ req[r].at \in {"expire_level", "set"}
    BY <1>6 DEF ExpireLevel, SetLock, At
  <2>3. /\ req'[r].at \in {"set", "delete"} /\ req'[r].form = req[r].form
        /\ req'[r].i = req[r].i /\ req'[r].shut = req[r].shut
    BY <2>2 DEF GoTo, TypeOK, HandlersOK, HandlerType
  <2>4. \A f \in Closing : ClosingHandler(r, f) => ClosingHandler(r, f)'
    BY <2>2, <2>3 DEF ClosingHandler, Counting
  <2> QED
    BY <2>1, <2>4, <1>0, CloseQuiet
<1>7. CASE AskLevel(r)
  <2>1. UNCHANGED <<level, closed>>
    BY <1>7 DEF AskLevel
  <2>2. ASSUME NEW f \in Closing, ClosingHandler(r, f), level'[Locks[f][1]] >= CloseLevel
        PROVE  ClosingHandler(r, f)'
    <3>1. req[r].form = f
      BY <2>2 DEF ClosingHandler
    <3>2. req' = [req EXCEPT ![r].at = "revoke"]
      BY <1>7, <2>1, <2>2, <3>1 DEF AskLevel, Own
    <3>3. req'[r].at = "revoke" /\ req'[r].form = f
      BY <3>1, <3>2 DEF TypeOK, HandlersOK, HandlerType
    <3> QED
      BY <3>3 DEF ClosingHandler
  <2> QED
    BY <2>1, <2>2, <1>0, CloseQuiet
<1>8. CASE RevokeSession(r)
  <2>1. level' = level /\ closed \subseteq closed'
    BY <1>8 DEF RevokeSession
  <2>2. \A f \in Closing : ClosingHandler(r, f) => f \in closed'
    BY <1>8 DEF RevokeSession, ClosingHandler
  <2> QED
    BY <2>1, <2>2, <1>0, CloseQuiet
<1> QED
  BY <1>1, <1>2, <1>3, <1>4, <1>5, <1>6, <1>7, <1>8 DEF Step

LEMMA TickCloses == ASSUME TypeOK, SecondLockClosesSession, Tick PROVE SecondLockClosesSession'
<1>1. \A f \in Closing : Locks[f][1] \in Key
  BY ClosingKeys
<1>2. \A k \in Key : level'[k] \in {level[k], 0}
  BY DEF Tick, TypeOK, KeysOK
<1>3. \A f \in Closing : level'[Locks[f][1]] >= CloseLevel => level[Locks[f][1]] >= CloseLevel
  BY <1>1, <1>2 DEF CloseLevel
<1> QED
  BY <1>3 DEF Tick, SecondLockClosesSession, ClosingHandler

-----------------------------------------------------------------------------
(* The three together.                                                     *)

LEMMA InitIInv == ASSUME Init PROVE IInv
<1>1. TypeOK
  BY InitType
<1>2. CountersFade
  <2>1. \A k \in Key : failsLeft[k] \in Nat /\ levelLeft[k] \in Nat
    BY DEF Init
  <2>2. Never \notin Nat
    BY TimeConstants
  <2>3. \A k \in Key : failsLeft[k] # Never /\ levelLeft[k] # Never
    BY <2>1, <2>2, Zenon
  <2> QED
    BY <2>3, Zenon DEF CountersFade
<1>3. FullCounterIsBeingLocked
  <2>1. ASSUME NEW k \in Key PROVE ~(fails[k] >= MaxFailures[k])
    <3>1. MaxFailures[k] \in Nat \ {0} /\ fails[k] = 0
      BY Tops DEF Init
    <3> QED
      BY <3>1
  <2> QED
    BY <2>1 DEF FullCounterIsBeingLocked
<1>4. SecondLockClosesSession
  <2>1. \A f \in Closing : level[Locks[f][1]] = 0
    BY ClosingKeys DEF Init
  <2> QED
    BY <2>1 DEF SecondLockClosesSession, CloseLevel
<1> QED
  BY <1>1, <1>2, <1>3, <1>4 DEF IInv

LEMMA NextIInv == ASSUME IInv, [Healthy]_vars PROVE IInv'
<1>1. TypeOK /\ CountersFade /\ FullCounterIsBeingLocked /\ SecondLockClosesSession
  BY DEF IInv
<1>2. TypeOK'
  BY <1>1, NextType DEF Next
<1>3. CASE UNCHANGED vars
  <2>1. CountersFade'
    BY <1>1, <1>3 DEF CountersFade, vars, At, Here
  <2>2. FullCounterIsBeingLocked'
    BY <1>1, <1>3 DEF FullCounterIsBeingLocked, Locking, vars, At, Here
  <2>3. SecondLockClosesSession'
    BY <1>1, <1>3 DEF SecondLockClosesSession, ClosingHandler, vars
  <2> QED
    BY <1>2, <2>1, <2>2, <2>3 DEF IInv
<1>4. CASE Tick
  BY <1>1, <1>2, <1>4, TickFades, TickFills, TickCloses DEF IInv
<1>5. CASE \E r \in Request : Step(r) \/ \E f \in Form : Start(r, f)
  <2>1. PICK r \in Request : Step(r) \/ \E f \in Form : Start(r, f)
    BY <1>5
  <2> QED
    BY <1>1, <1>2, <2>1, StepFades, StepFills, StepCloses DEF IInv
<1> QED
  BY <1>3, <1>4, <1>5 DEF Healthy

\* The inductive invariant: besides the types, who is about to give a key its
\* end, to lock a full one, and to close a session that was locked twice.
THEOREM Invariance == HealthySpec => []IInv
<1>1. Init => IInv
  BY InitIInv
<1>2. IInv /\ [Healthy]_vars => IInv'
  BY NextIInv
<1> QED
  BY <1>1, <1>2, PTL DEF HealthySpec

\* INCR makes a key without expiry, and EXPIRE is a command of its own: when no
\* handler dies between the two (registrar_fallo), no key is left without one.
THEOREM CountersGetTheirEnd == HealthySpec => []CountersFade
<1>1. IInv => CountersFade
  BY DEF IInv
<1> QED
  BY <1>1, Invariance, PTL

\* The comparison with == in registrar_fallo is enough: the failure that fills a
\* counter sets the lock, also when others delete and refill it meanwhile.
THEOREM FullCountersLock == HealthySpec => []FullCounterIsBeingLocked
<1>1. IInv => FullCounterIsBeingLocked
  BY DEF IInv
<1> QED
  BY <1>1, Invariance, PTL

\* A session of the portal that was locked twice does not stay open: _check_code
\* reads the level again after the lock was set, and still finds it.
THEOREM SecondLockCloses == HealthySpec => []SecondLockClosesSession
<1>1. IInv => SecondLockClosesSession
  BY DEF IInv
<1> QED
  BY <1>1, Invariance, PTL
=============================================================================
