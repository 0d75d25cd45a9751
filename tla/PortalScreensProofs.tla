----------------------- MODULE PortalScreensProofs ------------------------
(***************************************************************************)
(* What the screens of the portals promise, one part for each: choosing    *)
(* with the gaze, the units of a class, the messages, the profile, the     *)
(* registration, the tray of the adults, the picture of a class, the       *)
(* classes, the notifications of the kid and the deletion of an account.   *)
(* Each theorem is of the specification of that part, for any sizes of it. *)
(***************************************************************************)
EXTENDS PortalScreens, Sequences, FiniteSetTheorems, SequenceTheorems, TLAPS

(***************************************************************************)
(* The inductive invariant: after a choice the gaze either went far from   *)
(* it or its spot is held still.                                           *)
(***************************************************************************)
Held ==
    /\ gaze \in Spot \cup {0} /\ heldAt \in Spot \cup {0}
    /\ moved \in BOOLEAN
    /\ heldAt = 0 => moved
    /\ \A t \in Target : elapsed[t] \in -1..Duration

\* What a sample lets go of is nothing, or was far.
LEMMA Released ==
    ASSUME NEW p, NEW inside
    PROVE  /\ released(p, inside) \in {heldAt, 0}
           /\ released(p, inside) = 0 => heldAt = 0 \/ Far(p, heldAt)
  BY DEF released

\* The time a target has been filling keeps within its bounds.
LEMMA Filled ==
    ASSUME Held, NEW p, NEW t \in Target
    PROVE  filled(p, t) \in -1..Duration
<1>1. Duration \in Nat /\ elapsed[t] \in -1..Duration
  BY DwellAssumption DEF Held
<1> QED
  BY <1>1 DEF filled, ticks, Least

\* A target that is full is not on the held spot.
LEMMA FullIsFar ==
    ASSUME NEW p, NEW t \in Complete(p)
    PROVE  heldAt = 0 \/ Far(p, heldAt)
<1>1. Duration \in Nat \ {0}
  BY DwellAssumption
<1>2. t \in Inside(p) /\ t \notin chosen /\ filled(p, t) = Duration
  BY DEF Complete
<1>3. released(p, Inside(p) \ chosen) = 0
  BY <1>1, <1>2 DEF filled
<1> QED
  BY <1>3, Released

LEMMA HeldInit == Init => Held
  BY DwellAssumption DEF Init, Held, None

LEMMA HeldNext == Held /\ [Next]_vars => Held'
<1> SUFFICES ASSUME Held, [Next]_vars PROVE Held'
  OBVIOUS
<1>0. Duration \in Nat \ {0} /\ Spot \subseteq Nat \ {0}
  BY DwellAssumption
\* Whatever cleanup keeps was within its bounds.
<1>1. ASSUME NEW filling, NEW s, NEW o, NEW taken, NEW full, NEW looked,
             cleanup(filling, s, o, taken, full, looked),
             \A t \in Target : filling[t] \in -1..Duration
      PROVE  \A t \in Target : elapsed'[t] \in -1..Duration
  BY <1>0, <1>1 DEF cleanup
<1>2. ASSUME NEW p \in Spot, subscribe(p) PROVE Held'
  <2>1. \A t \in Target : elapsed'[t] \in -1..Duration
    <3> DEFINE fill == [t \in Target |-> filled(p, t)]
    <3>1. \A t \in Target : fill[t] \in -1..Duration
      BY Filled
    <3>2. cleanup(fill, screen, off, chosen \cap Inside(p), Full(p, fill), Looked(p))
      BY <1>2 DEF subscribe
    <3> HIDE DEF fill
    <3> QED
      BY <1>1, <3>1, <3>2
  <2>2. /\ gaze' = p /\ heldAt' = released(p, Inside(p) \ chosen)
        /\ moved' = (moved \/ (heldAt # 0 /\ Far(p, heldAt)))
    BY <1>2 DEF subscribe
  <2>3. heldAt' \in {heldAt, 0} /\ (heldAt' = 0 => heldAt = 0 \/ Far(p, heldAt))
    BY <2>2, Released
  <2>4. moved' \in BOOLEAN
    BY <2>2
  <2>5. heldAt' = 0 => moved'
    BY <2>2, <2>3, Zenon DEF Held
  <2>6. gaze' \in Spot \cup {0} /\ heldAt' \in Spot \cup {0}
    BY <2>2, <2>3 DEF Held
  <2> QED
    BY <2>1, <2>4, <2>5, <2>6 DEF Held
<1>3. ASSUME NEW p \in Spot, NEW t \in Target, NEW s \in Screen, onSelect(p, t, s) PROVE Held'
  <2>1. \A x \in Target : elapsed'[x] \in -1..Duration
    <3>1. PICK late \in {Inside(p) \ {t}, Complete(p) \ {t}} :
             LET fill == [x \in Target |-> IF x \in late \ chosen THEN -1 ELSE filled(p, x)]
             IN  cleanup(fill, s, off, (chosen \cap Inside(p)) \cup {t}, Full(p, fill), Looked(p))
      BY <1>3 DEF onSelect
    <3> DEFINE fill == [x \in Target |-> IF x \in late \ chosen THEN -1 ELSE filled(p, x)]
    <3>2. \A x \in Target : fill[x] \in -1..Duration
      BY <1>0, Filled
    <3>3. cleanup(fill, s, off, (chosen \cap Inside(p)) \cup {t}, Full(p, fill), Looked(p))
      BY <3>1
    <3> HIDE DEF fill
    <3> QED
      BY <1>1, <3>2, <3>3
  <2>2. gaze' = p /\ heldAt' = p /\ moved' = FALSE
    BY <1>3 DEF onSelect, holdAfterSelection
  <2> QED
    BY <1>0, <2>1, <2>2 DEF Held
<1>4. CASE handleLeave
  BY <1>0, <1>4 DEF handleLeave, Held
<1>5. ASSUME NEW p \in Spot, NEW s \in Screen, handleClick(p, s) PROVE Held'
  <2>1. \A x \in Target : elapsed'[x] \in -1..Duration
    BY <1>1, <1>5 DEF handleClick, Held
  <2> QED
    BY <1>0, <1>5, <2>1 DEF handleClick, Held
<1>6. ASSUME NEW t \in Target, setActive(t) PROVE Held'
  <2>1. \A x \in Target : elapsed'[x] \in -1..Duration
    BY <1>1, <1>6 DEF setActive, Held
  <2> QED
    BY <1>6, <2>1 DEF setActive, Held
<1>7. CASE UNCHANGED vars
  BY <1>7 DEF vars, Held
<1> QED
  BY <1>2, <1>3, <1>4, <1>5, <1>6, <1>7 DEF Next

(***************************************************************************)
(* After a choice, whatever comes next in the same place is not chosen     *)
(* until the gaze has been somewhere else (dwellProgress.ts:31), whatever  *)
(* the screens are and however long a target takes to fill.                *)
(***************************************************************************)
THEOREM NothingChoosesItself == Spec => NothingByItself
<1>1. ASSUME Held, [Next]_vars PROVE [choice' \in Target => moved \/ Far(gaze', heldAt)]_vars
  <2>1. ASSUME NEW p \in Spot, NEW t \in Target, NEW s \in Screen, onSelect(p, t, s)
        PROVE  moved \/ Far(gaze', heldAt)
    <3>1. gaze' = p /\ t \in Complete(p)
      BY <2>1 DEF onSelect
    <3>2. heldAt = 0 \/ Far(p, heldAt)
      BY <3>1, FullIsFar
    <3> QED
      BY <1>1, <3>1, <3>2, Zenon DEF Held
  <2>2. CASE choice' = "none"
    BY <2>2, DwellAssumption
  <2>3. CASE UNCHANGED vars
    BY <2>3
  <2> QED
    BY <1>1, <2>1, <2>2, <2>3 DEF Next, subscribe, handleLeave, handleClick, setActive
<1> QED
  BY <1>1, HeldInit, HeldNext, PTL DEF Spec, NothingByItself

-----------------------------------------------------------------------------
(* The units of a class.                                                   *)

\* A DBA as it is written: one of the catalog, an own one or none yet, with
\* evidences that are of it.
Dba == [dba : DOMAIN catalog \cup {"own", "none"}, own : BOOLEAN, evidences : SUBSET ClassUnits!Evidence, points : BOOLEAN]
OfItsDba(d) == IF d.dba \in DOMAIN catalog THEN d.evidences \subseteq catalog[d.dba] ELSE d.evidences = {}
Draft == {d \in Dba : OfItsDba(d)}

UnitWindow == [kind : {"none", "unit", "lesson", "delete"}, unit : Unit \cup {0}, title : BOOLEAN, draft : Draft,
               leaving : {"no", "cancelled", "accepted", "saved", "told"}]
UnitSave == [kind : {"none", "unit", "lesson", "delete"}, unit : Unit \cup {0}, dba : Draft,
             at : {"no", "asked", "done", "refused"}, here : BOOLEAN]

(***************************************************************************)
(* The inductive invariant: the evidences are of their DBA wherever a DBA  *)
(* is: in content-service, in the cache, in the window and on its way.     *)
(***************************************************************************)
UnitsInv ==
    /\ unitServer = [order |-> unitServer.order, dba |-> unitServer.dba] /\ unitServer.dba \in [Unit -> Draft]
    /\ unitCache = [order |-> unitCache.order, dba |-> unitCache.dba, stale |-> unitCache.stale]
    /\ unitCache.dba \in [Unit -> Draft]
    /\ unitWindow \in UnitWindow
    /\ saving \in UnitSave

LEMMA NoDbaYet == ClassUnits!NoDba \in Draft
  BY PortalAssumption DEF ClassUnits!NoDba, ClassUnits!UnitsAssumption, Draft, Dba, OfItsDba

LEMMA UnitsInit == ClassUnits!Init => UnitsInv
<1> SUFFICES ASSUME ClassUnits!Init PROVE UnitsInv
  OBVIOUS
<1>1. PICK us : unitServer = [order |-> us, dba |-> [u \in Unit |-> ClassUnits!NoDba]]
  BY DEF ClassUnits!Init
<1>2. unitServer = [order |-> unitServer.order, dba |-> unitServer.dba] /\ unitServer.dba \in [Unit -> Draft]
  BY <1>1, NoDbaYet
<1>3. unitCache = [order |-> unitServer.order, dba |-> unitServer.dba, stale |-> FALSE]
  BY DEF ClassUnits!Init
<1>4. unitWindow \in UnitWindow /\ saving \in UnitSave
  BY NoDbaYet DEF ClassUnits!Init, ClassUnits!Closed, ClassUnits!NothingSent, UnitWindow, UnitSave
<1> QED
  BY <1>2, <1>3, <1>4 DEF UnitsInv

\* What a window keeps of a draft that is typed well.
LEMMA DraftKeeps ==
    ASSUME UnitsInv, NEW d \in Draft, ClassUnits!Draft(d) PROVE UnitsInv'
<1>1. unitWindow' = [unitWindow EXCEPT !.draft = d]
  BY DEF ClassUnits!Draft, ClassUnits!Written
<1>2. unitWindow' \in UnitWindow
  BY <1>1 DEF UnitsInv, UnitWindow
<1> QED
  BY <1>2 DEF UnitsInv, ClassUnits!Draft, ClassUnits!Written

\* What content-service stores is what the window sent.
LEMMA UnitStored ==
    ASSUME UnitsInv, ClassUnits!ServerSaves PROVE UnitsInv'
<1>1. UNCHANGED <<unitCache, unitWindow>>
  BY DEF ClassUnits!ServerSaves
<1>2. saving' \in UnitSave
  <2>1. saving' = [saving EXCEPT !.at = "done"] \/ saving' = [saving EXCEPT !.at = "refused"]
    BY Zenon DEF ClassUnits!ServerSaves
  <2> QED
    BY <2>1 DEF UnitsInv, UnitSave
<1>3. saving.dba \in Draft
  BY DEF UnitsInv, UnitSave
<1>4. /\ unitServer = [order |-> unitServer.order, dba |-> unitServer.dba]
      /\ unitServer.dba \in [Unit -> Draft]
  BY DEF UnitsInv
<1>5. \/ unitServer' = [unitServer EXCEPT !.dba[saving.unit] = saving.dba]
      \/ \E u, v : unitServer' = [unitServer EXCEPT !.order["units"] = v, !.dba[u] = saving.dba]
      \/ \E u, v : unitServer' = [unitServer EXCEPT !.order["units"] = v, !.dba[u] = ClassUnits!NoDba]
      \/ \E v : unitServer' = [unitServer EXCEPT !.order["lessons"] = v]
      \/ unitServer' = unitServer
  <2>1. CASE saving.kind = "unit" /\ saving.unit # 0
    BY <2>1 DEF ClassUnits!ServerSaves
  <2>2. CASE saving.kind = "unit" /\ saving.unit = 0
    BY <2>2 DEF ClassUnits!ServerSaves
  <2>3. CASE saving.kind = "lesson"
    BY <2>3 DEF ClassUnits!ServerSaves
  <2>4. CASE saving.kind = "delete"
    <3> DEFINE left == SelectSeq(unitServer.order["units"], LAMBDA u : u # saving.unit)
    <3>1. \/ unitServer' = [unitServer EXCEPT !.order["units"] = left, !.dba[saving.unit] = ClassUnits!NoDba]
          \/ unitServer' = unitServer
      BY <2>4 DEF ClassUnits!ServerSaves
    <3> HIDE DEF left
    <3> QED
      BY <3>1
  <2>5. CASE saving.kind = "none"
    BY <2>5 DEF ClassUnits!ServerSaves
  <2> QED
    BY <2>1, <2>2, <2>3, <2>4, <2>5 DEF UnitsInv, UnitSave
<1>6. unitServer' = [order |-> unitServer'.order, dba |-> unitServer'.dba] /\ unitServer'.dba \in [Unit -> Draft]
  <2>1. CASE unitServer' = [unitServer EXCEPT !.dba[saving.unit] = saving.dba]
    BY <1>3, <1>4, <2>1
  <2>2. CASE \E u, v : unitServer' = [unitServer EXCEPT !.order["units"] = v, !.dba[u] = saving.dba]
    <3>1. PICK u, v : unitServer' = [unitServer EXCEPT !.order["units"] = v, !.dba[u] = saving.dba]
      BY <2>2
    <3>2. unitServer' = [order |-> [unitServer.order EXCEPT !["units"] = v], dba |-> [unitServer.dba EXCEPT ![u] = saving.dba]]
      BY <1>4, <3>1
    <3> QED
      BY <1>3, <1>4, <3>2
  <2>3. CASE \E u, v : unitServer' = [unitServer EXCEPT !.order["units"] = v, !.dba[u] = ClassUnits!NoDba]
    <3>1. PICK u, v : unitServer' = [unitServer EXCEPT !.order["units"] = v, !.dba[u] = ClassUnits!NoDba]
      BY <2>3
    <3>2. unitServer' = [order |-> [unitServer.order EXCEPT !["units"] = v], dba |-> [unitServer.dba EXCEPT ![u] = ClassUnits!NoDba]]
      BY <1>4, <3>1
    <3> QED
      BY <1>4, NoDbaYet, <3>2
  <2>4. CASE \E v : unitServer' = [unitServer EXCEPT !.order["lessons"] = v]
    BY <1>4, <2>4
  <2>5. CASE unitServer' = unitServer
    BY <1>4, <2>5
  <2> QED
    BY <1>5, <2>1, <2>2, <2>3, <2>4, <2>5
<1> QED
  BY <1>1, <1>2, <1>6 DEF UnitsInv

LEMMA UnitsNext == ASSUME UnitsInv, [ClassUnits!Next]_ClassUnits!vars PROVE UnitsInv'
<1>0. /\ unitWindow \in UnitWindow /\ saving \in UnitSave
      /\ unitServer.dba \in [Unit -> Draft] /\ unitCache.dba \in [Unit -> Draft]
      /\ unitWindow.draft \in Draft
  BY DEF UnitsInv, UnitWindow
\* What is neither the window, nor on its way, nor the stored stays.
<1>1. ASSUME UNCHANGED <<unitServer, unitCache, unitWindow, saving>> PROVE UnitsInv'
  BY <1>1 DEF UnitsInv
<1>2. ASSUME NEW l, NEW i, NEW step, ClassUnits!moveItem(l, i, step) PROVE UnitsInv'
  BY <1>1, <1>2 DEF ClassUnits!moveItem
<1>3. CASE ClassUnits!ServerReorders
  <2>1. unitServer' = unitServer \/ \E l, v : unitServer' = [unitServer EXCEPT !.order[l] = v]
    BY <1>3 DEF ClassUnits!ServerReorders
  <2>2. unitServer' = [order |-> unitServer'.order, dba |-> unitServer.dba]
    BY <2>1 DEF UnitsInv
  <2> QED
    BY <1>0, <1>3, <2>2 DEF UnitsInv, ClassUnits!ServerReorders
<1>4. CASE ClassUnits!ReorderAnswer
  <2>1. unitCache' = [order |-> unitCache.order, dba |-> unitCache.dba, stale |-> unitCache'.stale]
    BY <1>4 DEF ClassUnits!ReorderAnswer, UnitsInv
  <2> QED
    BY <1>0, <1>4, <2>1 DEF UnitsInv, ClassUnits!ReorderAnswer
<1>5. CASE ClassUnits!useClassroomUnits
  BY <1>0, <1>5 DEF UnitsInv, ClassUnits!useClassroomUnits
\* A window that opens has the saved DBA or none.
<1>6. ASSUME UNCHANGED <<unitServer, unitCache, saving>>, unitWindow' \in UnitWindow PROVE UnitsInv'
  BY <1>6 DEF UnitsInv
<1>7. ASSUME NEW u \in Unit \cup {0}, ClassUnits!openUnitDialog(u) PROVE UnitsInv'
  <2>1. (IF u = 0 THEN ClassUnits!NoDba ELSE unitCache.dba[u]) \in Draft
    BY <1>0, NoDbaYet
  <2>2. unitWindow' \in UnitWindow
    BY <1>7, <2>1 DEF ClassUnits!openUnitDialog, ClassUnits!toUnitDbaDraft, UnitWindow
  <2> QED
    BY <1>6, <1>7, <2>2 DEF ClassUnits!openUnitDialog
<1>8. CASE ClassUnits!openLessonDialog
  <2>1. unitWindow' \in UnitWindow
    BY <1>8, NoDbaYet DEF ClassUnits!openLessonDialog, ClassUnits!Closed, UnitWindow
  <2> QED
    BY <1>6, <1>8, <2>1 DEF ClassUnits!openLessonDialog
<1>9. ASSUME NEW u \in Unit, ClassUnits!openDelete(u) PROVE UnitsInv'
  <2>1. unitWindow' \in UnitWindow
    BY <1>9, NoDbaYet DEF ClassUnits!openDelete, ClassUnits!Closed, UnitWindow
  <2> QED
    BY <1>6, <1>9, <2>1 DEF ClassUnits!openDelete
<1>10. CASE ClassUnits!setTitle
  <2>1. unitWindow' \in UnitWindow
    BY <1>0, <1>10 DEF ClassUnits!setTitle, ClassUnits!Written, UnitWindow
  <2> QED
    BY <1>6, <1>10, <2>1 DEF ClassUnits!setTitle, ClassUnits!Written
\* What the picker writes: another DBA comes without evidences, a tick is of the DBA.
<1>11. ASSUME NEW d \in DOMAIN catalog \cup {"own"}, ClassUnits!pick(d) PROVE UnitsInv'
  <2> DEFINE new == [unitWindow.draft EXCEPT !.dba = d, !.own = d = "own" /\ @, !.evidences = {}]
  <2>1. new \in Draft
    BY <1>0 DEF Draft, Dba, OfItsDba
  <2>2. ClassUnits!Draft(new)
    BY <1>11 DEF ClassUnits!pick
  <2> HIDE DEF new
  <2> QED
    BY <2>1, <2>2, DraftKeeps
<1>12. CASE ClassUnits!setOwnName
  <2> DEFINE new == [unitWindow.draft EXCEPT !.own = ~@]
  <2>1. new \in Draft
    BY <1>0 DEF Draft, Dba, OfItsDba
  <2>2. ClassUnits!Draft(new)
    BY <1>12 DEF ClassUnits!setOwnName
  <2> HIDE DEF new
  <2> QED
    BY <2>1, <2>2, DraftKeeps
<1>13. ASSUME NEW e \in ClassUnits!Evidence, ClassUnits!toggle(e) PROVE UnitsInv'
  <2> DEFINE new == [unitWindow.draft EXCEPT !.evidences = IF e \in @ THEN @ \ {e} ELSE @ \cup {e}]
  <2>1. new \in Draft
    BY <1>0, <1>13 DEF ClassUnits!toggle, Draft, Dba, OfItsDba
  <2>2. ClassUnits!Draft(new)
    BY <1>13 DEF ClassUnits!toggle
  <2> HIDE DEF new
  <2> QED
    BY <2>1, <2>2, DraftKeeps
<1>14. CASE ClassUnits!setOwnPoint
  <2> DEFINE new == [unitWindow.draft EXCEPT !.points = ~@]
  <2>1. new \in Draft
    BY <1>0 DEF Draft, Dba, OfItsDba
  <2>2. ClassUnits!Draft(new)
    BY <1>14 DEF ClassUnits!setOwnPoint
  <2> HIDE DEF new
  <2> QED
    BY <2>1, <2>2, DraftKeeps
\* What is sent is what the window has.
<1>15. ASSUME UNCHANGED <<unitServer, unitCache>>, unitWindow' \in UnitWindow, saving' \in UnitSave PROVE UnitsInv'
  BY <1>15 DEF UnitsInv
<1>16. CASE ClassUnits!submitUnit
  <2>1. ClassUnits!toUnitDbaBody(unitWindow.draft) \in Draft
    BY <1>0, PortalAssumption DEF ClassUnits!UnitsAssumption, ClassUnits!toUnitDbaBody, Draft, Dba, OfItsDba
  <2>2. saving' \in UnitSave
    BY <1>0, <1>16, <2>1 DEF ClassUnits!submitUnit, UnitWindow, UnitSave
  <2> QED
    BY <1>0, <1>15, <1>16, <2>2 DEF ClassUnits!submitUnit
<1>17. CASE ClassUnits!submitLesson
  <2>1. saving' \in UnitSave
    BY <1>17, NoDbaYet DEF ClassUnits!submitLesson, ClassUnits!NothingSent, UnitSave
  <2> QED
    BY <1>0, <1>15, <1>17, <2>1 DEF ClassUnits!submitLesson
<1>18. CASE ClassUnits!ServerSaves
  BY <1>18, UnitStored
<1>19. ClassUnits!Closed \in UnitWindow /\ ClassUnits!NothingSent \in UnitSave /\ ClassUnits!Deletes \in UnitSave
  BY <1>0, NoDbaYet DEF ClassUnits!Closed, ClassUnits!NothingSent, ClassUnits!Deletes, UnitWindow, UnitSave
<1>20. \A how \in {"cancelled", "accepted", "saved", "told"} : [unitWindow EXCEPT !.leaving = how] \in UnitWindow
  BY <1>0 DEF UnitWindow
<1>21. CASE ClassUnits!SaveAnswer
  <2>1. unitCache' = [order |-> unitCache.order, dba |-> unitCache.dba, stale |-> unitCache'.stale]
    BY <1>21 DEF ClassUnits!SaveAnswer, UnitsInv
  <2>2. unitWindow' \in UnitWindow /\ saving' \in UnitSave
    BY <1>0, <1>19, <1>20, <1>21 DEF ClassUnits!SaveAnswer
  <2> QED
    BY <1>0, <1>21, <2>1, <2>2 DEF UnitsInv, ClassUnits!SaveAnswer
<1>22. CASE ClassUnits!cancel
  <2>1. unitWindow' \in UnitWindow
    BY <1>19, <1>20, <1>22 DEF ClassUnits!cancel, ClassUnits!close
  <2> QED
    BY <1>6, <1>22, <2>1 DEF ClassUnits!cancel
<1>23. CASE ClassUnits!acceptDelete
  <2>1. unitWindow' \in UnitWindow /\ saving' \in UnitSave
    BY <1>0, <1>19, <1>20, <1>23 DEF ClassUnits!acceptDelete, ClassUnits!close
  <2> QED
    BY <1>15, <1>23, <2>1 DEF ClassUnits!acceptDelete
<1>24. CASE ClassUnits!afterClose
  <2>1. unitWindow' \in UnitWindow
    BY <1>19, <1>20, <1>24 DEF ClassUnits!afterClose
  <2>2. saving' \in UnitSave
    <3>1. [saving EXCEPT !.here = FALSE] \in UnitSave
      BY <1>0 DEF UnitSave
    <3> QED
      BY <1>0, <1>19, <1>24, <3>1 DEF ClassUnits!afterClose
  <2> QED
    BY <1>15, <1>24, <2>1, <2>2 DEF ClassUnits!afterClose
<1>25. CASE UNCHANGED ClassUnits!vars
  BY <1>1, <1>25 DEF ClassUnits!vars
<1> QED
  BY <1>2, <1>3, <1>4, <1>5, <1>7, <1>8, <1>9, <1>10, <1>11, <1>12, <1>13, <1>14, <1>16, <1>17, <1>18,
     <1>21, <1>22, <1>23, <1>24, <1>25 DEF ClassUnits!Next

(***************************************************************************)
(* The evidences of a stored unit are of its DBA (unitDbaDraft.ts:36), for *)
(* any units and any catalog, whatever was picked and ticked before, and   *)
(* whatever was sent from a window that was reopened or left meanwhile.    *)
(***************************************************************************)
THEOREM EvidencesStayOfTheDba == ClassUnits!Spec => []EvidencesOfTheDba
<1>1. UnitsInv => EvidencesOfTheDba
  BY DEF UnitsInv, EvidencesOfTheDba, ClassUnits!EvidencesOfTheDba, Draft, OfItsDba
<1>2. ClassUnits!Init => UnitsInv
  BY UnitsInit
<1>3. UnitsInv /\ [ClassUnits!Next]_ClassUnits!vars => UnitsInv'
  BY UnitsNext
<1> QED
  BY <1>1, <1>2, <1>3, PTL DEF ClassUnits!Spec

-----------------------------------------------------------------------------
(* The messages.                                                           *)

Addressee == Inbox!Letter \cup Member \cup {0}
Post == [from : {"reply", "compose"}, text : Inbox!Text, to : Addressee, live : BOOLEAN, at : {"asked", "done"}]
ReplyBox == [composing : BOOLEAN, body : 0..MaxTexts, sent : BOOLEAN]
ComposeBox == [on : BOOLEAN, to : Addressee, body : 0..MaxTexts, asking : BOOLEAN]

\* A text is written in one box, and only if it was begun.
InboxTyped ==
    /\ letter \in Inbox!Letter \cup {0} /\ members \subseteq Member
    /\ reply \in ReplyBox /\ compose \in ComposeBox
    /\ wire \subseteq Post
    /\ texts \in 0..MaxTexts /\ lost \in Nat
    /\ delivered \in [Inbox!Text -> [to : Addressee, times : Nat]]
OneBox ==
    /\ reply.body <= texts /\ compose.body <= texts
    /\ reply.body # 0 => reply.body # compose.body
    /\ ~compose.on => compose.body = 0
    /\ \A t \in Inbox!Text : t > texts => delivered[t].times = 0

\* A text is on its way once; while its box has it, the box knows.
OnceOnItsWay ==
    /\ \A w, v \in wire : w.text = v.text => w = v
    /\ \A w \in wire : w.text <= texts
    /\ \A w \in wire : w.from = "reply" => (reply.body = w.text => w.live) /\ compose.body # w.text
    /\ \A w \in wire : w.from = "compose" => (compose.body = w.text => w.live) /\ reply.body # w.text

\* How often a text arrived: a text that may still be delivered has one
\* arrival less.
MayArrive(t) ==
    \/ \E w \in wire : w.text = t /\ w.at = "asked"
    \/ t \in {reply.body, compose.body} /\ \A w \in wire : w.text # t
Arrivals ==
    /\ \A t \in Inbox!Text : delivered[t].times <= 1 + lost
    /\ \A t \in Inbox!Text : MayArrive(t) => delivered[t].times <= lost

InboxInv == InboxTyped /\ OneBox /\ OnceOnItsWay /\ Arrivals

LEMMA InboxInit == Inbox!Init => InboxInv
<1> SUFFICES ASSUME Inbox!Init PROVE InboxInv
  OBVIOUS
<1>0. MaxTexts \in Nat
  BY PortalAssumption DEF Inbox!MessagesAssumption
<1>1. /\ letter = 0 /\ members = Member /\ wire = {} /\ texts = 0 /\ lost = 0
      /\ reply = [composing |-> FALSE, body |-> 0, sent |-> FALSE]
      /\ compose = [on |-> FALSE, to |-> 0, body |-> 0, asking |-> FALSE]
      /\ delivered = [t \in Inbox!Text |-> [to |-> 0, times |-> 0]]
  BY DEF Inbox!Init, Inbox!NoReply, Inbox!NoCompose
<1>2. InboxTyped
  BY <1>0, <1>1 DEF InboxTyped, Addressee, ReplyBox, ComposeBox
<1>3. OneBox /\ OnceOnItsWay
  BY <1>0, <1>1 DEF OneBox, OnceOnItsWay
<1>4. Arrivals
  BY <1>0, <1>1 DEF Arrivals, Inbox!Text
<1> QED
  BY <1>2, <1>3, <1>4 DEF InboxInv

LEMMA InboxTypes ==
    ASSUME InboxInv
    PROVE  /\ MaxTexts \in Nat /\ Inbox!Text = 1..MaxTexts /\ texts \in 0..MaxTexts /\ lost \in Nat
           /\ reply \in ReplyBox /\ compose \in ComposeBox
           /\ reply.body \in 0..MaxTexts /\ compose.body \in 0..MaxTexts
           /\ wire \subseteq Post /\ \A w \in wire : w \in Post /\ w.text \in 1..MaxTexts
           /\ delivered \in [Inbox!Text -> [to : Addressee, times : Nat]]
           /\ \A t \in Inbox!Text : delivered[t].times \in Nat
  BY PortalAssumption DEF InboxInv, InboxTyped, ReplyBox, ComposeBox, Post, Inbox!Text, Inbox!MessagesAssumption

\* Steps of the screen: what is on its way goes on, perhaps without its box;
\* a box keeps its text or is emptied, and one that leaves what it sent is.
LEMMA ScreenStep ==
    ASSUME InboxInv, InboxTyped', UNCHANGED <<texts, lost, delivered>>,
           reply'.body \in {0, reply.body}, compose'.body \in {0, compose.body}, ~compose'.on => compose'.body = 0,
           NEW kept, wire' = {[w EXCEPT !.live = @ /\ w \in kept] : w \in wire},
           \A w \in wire : \/ w \in kept
                           \/ w.from = "reply" /\ reply'.body = 0
                           \/ w.from = "compose" /\ compose'.body = 0
    PROVE  InboxInv'
<1> DEFINE now(w) == [w EXCEPT !.live = @ /\ w \in kept]
<1>0. /\ texts \in Nat /\ reply.body \in Nat /\ compose.body \in Nat /\ lost \in Nat
      /\ \A t \in Inbox!Text : t \in Nat \ {0}
  BY InboxTypes
<1>1. \A w \in wire : /\ now(w).text = w.text /\ now(w).from = w.from /\ now(w).at = w.at
                      /\ (w.live /\ w \in kept => now(w).live) /\ w.text \in Inbox!Text
  BY InboxTypes DEF Post
<1>2. wire' = {now(w) : w \in wire}
  OBVIOUS
<1> HIDE DEF now
<1>3. OneBox'
  BY <1>0 DEF InboxInv, OneBox
<1>4. OnceOnItsWay'
  <2>1. \A x, y \in wire' : x.text = y.text => x = y
    BY <1>1, <1>2 DEF InboxInv, OnceOnItsWay
  <2>2. \A x \in wire' : x.text <= texts'
    BY <1>1, <1>2 DEF InboxInv, OnceOnItsWay
  <2>3. ASSUME NEW w \in wire
        PROVE  /\ w.from = "reply" => (reply'.body = w.text => w.live /\ w \in kept) /\ compose'.body # w.text
               /\ w.from = "compose" => (compose'.body = w.text => w.live /\ w \in kept) /\ reply'.body # w.text
    BY <1>0, <1>1, <2>3 DEF InboxInv, OnceOnItsWay
  <2>4. ASSUME NEW x \in wire'
        PROVE  /\ x.from = "reply" => (reply'.body = x.text => x.live) /\ compose'.body # x.text
               /\ x.from = "compose" => (compose'.body = x.text => x.live) /\ reply'.body # x.text
    <3>1. PICK w \in wire : x = now(w)
      BY <1>2
    <3> QED
      BY <1>1, <2>3, <3>1
  <2> QED
    BY <2>1, <2>2, <2>4 DEF OnceOnItsWay
<1>5. Arrivals'
  <2>1. ASSUME NEW t \in Inbox!Text, MayArrive(t)' PROVE MayArrive(t)
    <3>1. CASE \E x \in wire' : x.text = t /\ x.at = "asked"
      BY <1>1, <1>2, <3>1 DEF MayArrive
    <3>2. CASE t \in {reply'.body, compose'.body} /\ \A x \in wire' : x.text # t
      BY <1>0, <1>1, <1>2, <3>2 DEF MayArrive
    <3> QED
      BY <2>1, <3>1, <3>2 DEF MayArrive
  <2> QED
    BY <2>1 DEF InboxInv, Arrivals
<1> QED
  BY <1>3, <1>4, <1>5 DEF InboxInv

LEMMA PostStays ==
    ASSUME InboxInv, InboxTyped', UNCHANGED <<wire, texts, lost, delivered>>,
           reply'.body \in {0, reply.body}, compose'.body \in {0, compose.body}, ~compose'.on => compose'.body = 0
    PROVE  InboxInv'
<1>1. \A w \in wire : [w EXCEPT !.live = @ /\ w \in wire] = w
  BY InboxTypes DEF Post
<1>2. wire' = {[w EXCEPT !.live = @ /\ w \in wire] : w \in wire}
  BY <1>1
<1> QED
  BY <1>2, ScreenStep

\* A text begun is in one box and nowhere else.
LEMMA TextBegun ==
    ASSUME InboxInv, InboxTyped', UNCHANGED <<wire, lost, delivered>>, texts < MaxTexts, texts' = texts + 1,
           \/ reply.body = 0 /\ reply'.body = texts + 1 /\ compose' = compose
           \/ compose.body = 0 /\ compose'.body = texts + 1 /\ compose'.on /\ reply' = reply
    PROVE  InboxInv'
<1>0. /\ texts \in Nat /\ reply.body \in Nat /\ compose.body \in Nat /\ lost \in Nat
      /\ \A t \in Inbox!Text : t \in Nat \ {0} /\ delivered[t].times \in Nat
      /\ \A w \in wire : w.text \in Nat \ {0}
      /\ texts + 1 \in Inbox!Text
  BY InboxTypes
<1>1. OneBox'
  BY <1>0 DEF InboxInv, OneBox
<1>2. OnceOnItsWay'
  <2>1. \A w \in wire : w.text <= texts /\ w.text # texts + 1
    BY <1>0 DEF InboxInv, OnceOnItsWay
  <2> QED
    BY <1>0, <2>1 DEF InboxInv, OnceOnItsWay
<1>3. Arrivals'
  <2>1. ASSUME NEW t \in Inbox!Text, MayArrive(t)', t # texts + 1 PROVE MayArrive(t)
    BY <1>0, <2>1 DEF MayArrive
  <2>2. delivered[texts + 1].times = 0
    BY <1>0 DEF InboxInv, OneBox
  <2> QED
    BY <1>0, <2>1, <2>2 DEF InboxInv, Arrivals
<1> QED
  BY <1>1, <1>2, <1>3 DEF InboxInv

\* A box sends its text when nothing of it is on its way.
LEMMA TextSent ==
    ASSUME InboxInv, InboxTyped', UNCHANGED <<reply, compose, texts, lost, delivered>>,
           NEW new \in Post, new.live, new.at = "asked", wire' = wire \cup {new},
           \/ new.from = "reply" /\ reply.body = new.text /\ ~Inbox!Sending("reply")
           \/ new.from = "compose" /\ compose.body = new.text /\ ~Inbox!Sending("compose")
    PROVE  InboxInv'
<1>0. /\ texts \in Nat /\ reply.body \in Nat /\ compose.body \in Nat /\ lost \in Nat
      /\ \A t \in Inbox!Text : t \in Nat \ {0} /\ delivered[t].times \in Nat
      /\ new.text \in Inbox!Text /\ new.text # 0
  BY InboxTypes DEF Post
<1>1. \A w \in wire : w.from \in {"reply", "compose"}
  BY InboxTypes DEF Post
<1>2. \A w \in wire : w.text # new.text
  BY <1>1 DEF InboxInv, OnceOnItsWay, Inbox!Sending
<1>3. OneBox'
  BY DEF InboxInv, OneBox
<1>4. reply.body # compose.body /\ new.text <= texts
  BY <1>0 DEF InboxInv, OneBox
<1>5. OnceOnItsWay'
  BY <1>2, <1>4 DEF InboxInv, OnceOnItsWay
<1>6. Arrivals'
  <2>1. MayArrive(new.text)
    BY <1>2 DEF MayArrive
  <2>2. ASSUME NEW t \in Inbox!Text, MayArrive(t)' PROVE MayArrive(t)
    BY <2>1, <2>2 DEF MayArrive
  <2> QED
    BY <2>2 DEF InboxInv, Arrivals
<1> QED
  BY <1>3, <1>5, <1>6 DEF InboxInv

\* content-service has a text once more.
LEMMA TextDelivered ==
    ASSUME InboxInv, NEW w \in wire, Inbox!ServerDelivers(w) PROVE InboxInv'
<1> DEFINE new == [w EXCEPT !.at = "done"]
<1>0. /\ w \in Post /\ w.text \in Inbox!Text /\ lost \in Nat /\ w.to \in Addressee
      /\ \A t \in Inbox!Text : t \in Nat \ {0} /\ delivered[t].times \in Nat
  BY InboxTypes DEF Post
<1>1. /\ new \in Post /\ new.from = w.from /\ new.text = w.text /\ new.live = w.live /\ new.at = "done"
  BY <1>0 DEF Post
<1>2. /\ wire' = (wire \ {w}) \cup {new} /\ w.at = "asked"
      /\ UNCHANGED <<letter, reply, compose, members, texts, lost>>
  BY DEF Inbox!ServerDelivers
<1> HIDE DEF new
<1>3. /\ delivered' \in [Inbox!Text -> [to : Addressee, times : Nat]]
      /\ delivered'[w.text].times = delivered[w.text].times + 1
      /\ \A t \in Inbox!Text : t # w.text => delivered'[t] = delivered[t]
  BY <1>0, InboxTypes DEF Inbox!ServerDelivers
<1>4. InboxTyped'
  BY <1>0, <1>1, <1>2, <1>3 DEF InboxInv, InboxTyped
<1>5. w.text <= texts /\ \A v \in wire : v.text = w.text => v = w
  BY DEF InboxInv, OnceOnItsWay
<1>6. OneBox'
  <2>1. \A t \in Inbox!Text : t > texts => t # w.text
    BY <1>0, <1>5, InboxTypes
  <2> QED
    BY <1>0, <1>2, <1>3, <2>1 DEF InboxInv, OneBox
<1>7. OnceOnItsWay'
  BY <1>1, <1>2, <1>5 DEF InboxInv, OnceOnItsWay
<1>8. Arrivals'
  <2>1. delivered[w.text].times <= lost
    BY <1>0, <1>2 DEF InboxInv, Arrivals, MayArrive
  <2>2. ASSUME NEW t \in Inbox!Text, MayArrive(t)' PROVE MayArrive(t) /\ t # w.text
    <3>1. \A v \in wire' : (v \in wire /\ v # w) \/ (v.text = w.text /\ v.at = "done")
      BY <1>1, <1>2
    <3>2. new \in wire' /\ \A v \in wire : v # w => v \in wire'
      BY <1>2
    <3> QED
      BY <1>1, <1>2, <1>5, <2>2, <3>1, <3>2 DEF MayArrive
  <2> QED
    BY <1>0, <1>2, <1>3, <2>1, <2>2 DEF InboxInv, Arrivals
<1> QED
  BY <1>4, <1>6, <1>7, <1>8 DEF InboxInv

\* An answer empties the box that sent it, and the new message in any case.
LEMMA AnswerCame ==
    ASSUME InboxInv, NEW w \in wire, Inbox!onSent(w) PROVE InboxInv'
<1>0. /\ w \in Post /\ w.text \in Inbox!Text /\ lost \in Nat /\ w.from \in {"reply", "compose"}
      /\ \A t \in Inbox!Text : t \in Nat \ {0} /\ delivered[t].times \in Nat
      /\ reply \in ReplyBox /\ compose \in ComposeBox
  BY InboxTypes DEF Post
<1>1. w.at = "done" /\ wire' = wire \ {w} /\ UNCHANGED <<letter, members, texts, lost, delivered>>
  BY DEF Inbox!onSent
<1>2. /\ reply' \in ReplyBox /\ compose' \in ComposeBox
      /\ reply'.body \in {0, reply.body} /\ compose'.body \in {0, compose.body} /\ (~compose'.on => compose'.body = 0)
      /\ w.from = "reply" => compose' = compose /\ (w.live => reply'.body = 0)
      /\ w.from = "compose" => reply' = reply /\ compose'.body = 0
  <2>1. MaxTexts \in Nat /\ 0 \in Addressee
    BY InboxTypes DEF Addressee
  <2>2. CASE w.from = "reply"
    <3>1. compose' = compose /\ reply' = (IF w.live THEN [reply EXCEPT !.composing = FALSE, !.body = 0, !.sent = TRUE] ELSE reply)
      BY <1>0, <2>2 DEF Inbox!onSent, Inbox!replySent, Inbox!discard, ReplyBox
    <3>2. (~compose'.on => compose'.body = 0)
      BY <3>1 DEF InboxInv, OneBox
    <3>3. reply' \in ReplyBox /\ reply'.body \in {0, reply.body} /\ (w.live => reply'.body = 0)
      <4>1. CASE w.live
        <5>1. reply' = [composing |-> FALSE, body |-> 0, sent |-> TRUE]
          BY <1>0, <3>1, <4>1 DEF ReplyBox
        <5> QED
          BY <2>1, <5>1 DEF ReplyBox
      <4>2. CASE ~w.live
        BY <1>0, <3>1, <4>2
      <4> QED
        BY <4>1, <4>2
    <3> QED
      BY <1>0, <2>2, <3>1, <3>2, <3>3
  <2>3. CASE w.from = "compose"
    <3>1. reply' = reply /\ compose' = [on |-> FALSE, to |-> 0, body |-> 0, asking |-> FALSE]
      BY <2>3 DEF Inbox!onSent, Inbox!NoCompose
    <3> QED
      BY <1>0, <2>1, <2>3, <3>1 DEF ComposeBox
  <2> QED
    BY <1>0, <2>2, <2>3
<1>3. InboxTyped'
  BY <1>1, <1>2 DEF InboxInv, InboxTyped
<1>4. OneBox'
  BY <1>0, <1>1, <1>2, InboxTypes DEF InboxInv, OneBox
<1>5. OnceOnItsWay'
  <2>1. \A v \in wire : v.text # 0 /\ v.from \in {"reply", "compose"}
    BY InboxTypes DEF Post
  <2>2. ASSUME NEW v \in wire'
        PROVE  /\ v.text <= texts'
               /\ v.from = "reply" => (reply'.body = v.text => v.live) /\ compose'.body # v.text
               /\ v.from = "compose" => (compose'.body = v.text => v.live) /\ reply'.body # v.text
    BY <1>1, <1>2, <2>1 DEF InboxInv, OnceOnItsWay
  <2> QED
    BY <1>1, <2>2 DEF InboxInv, OnceOnItsWay
<1>6. Arrivals'
  <2>1. w.text \notin {reply'.body, compose'.body}
    BY <1>0, <1>2 DEF InboxInv, OnceOnItsWay
  <2>2. ASSUME NEW t \in Inbox!Text, MayArrive(t)' PROVE MayArrive(t)
    BY <1>0, <1>1, <1>2, <2>1, <2>2 DEF MayArrive
  <2> QED
    BY <1>1, <2>2 DEF InboxInv, Arrivals
<1> QED
  BY <1>3, <1>4, <1>5, <1>6 DEF InboxInv

\* A lost answer leaves the text where it is, to be sent once more.
LEMMA AnswerLost ==
    ASSUME InboxInv, NEW w \in wire, Inbox!setError(w) PROVE InboxInv'
<1>0. /\ w \in Post /\ w.text \in Inbox!Text /\ lost \in Nat /\ w.at \in {"asked", "done"}
      /\ \A t \in Inbox!Text : t \in Nat \ {0} /\ delivered[t].times \in Nat
  BY InboxTypes DEF Post
<1>1. /\ wire' = wire \ {w} /\ UNCHANGED <<letter, reply, compose, members, texts, delivered>>
      /\ lost' = IF w.at = "done" THEN lost + 1 ELSE lost
  BY DEF Inbox!setError
<1>2. lost' \in Nat /\ lost <= lost'
  BY <1>0, <1>1
<1>3. InboxTyped'
  BY <1>1, <1>2 DEF InboxInv, InboxTyped
<1>4. OneBox' /\ OnceOnItsWay'
  BY <1>1 DEF InboxInv, OneBox, OnceOnItsWay
<1>5. Arrivals'
  <2>1. ASSUME NEW t \in Inbox!Text, MayArrive(t)', t # w.text PROVE MayArrive(t)
    BY <1>1, <2>1 DEF MayArrive
  <2>2. delivered[w.text].times <= lost'
    BY <1>0, <1>1 DEF InboxInv, Arrivals, MayArrive
  <2> QED
    BY <1>0, <1>1, <1>2, <2>1, <2>2 DEF InboxInv, Arrivals
<1> QED
  BY <1>3, <1>4, <1>5 DEF InboxInv

\* Another letter on screen: the box stays only from one message to another.
LEMMA LetterOpened == ASSUME InboxInv, NEW l \in Inbox!Letter \cup {0}, Inbox!setOpened(l) PROVE InboxInv'
<1> DEFINE same == Inbox!isMessage(letter) /\ Inbox!isMessage(l)
           kept == IF same THEN wire ELSE {}
<1>1. /\ ~compose.on /\ letter' = l /\ UNCHANGED <<compose, members, texts, delivered, lost>>
      /\ reply' = (IF same THEN reply ELSE Inbox!NoReply)
      /\ wire' = {[w EXCEPT !.live = @ /\ same] : w \in wire}
  BY DEF Inbox!setOpened, Inbox!NotificationDetail, Inbox!StillHere
<1>2. wire' = {[w EXCEPT !.live = @ /\ w \in kept] : w \in wire}
  BY <1>1
<1>3. Inbox!NoReply \in ReplyBox /\ Inbox!NoReply.body = 0 /\ reply \in ReplyBox
  BY InboxTypes DEF Inbox!NoReply, ReplyBox
<1>4. reply' \in ReplyBox /\ reply'.body \in {0, reply.body} /\ (same \/ reply'.body = 0)
  BY <1>1, <1>3
<1>5. compose.body = 0
  BY <1>1 DEF InboxInv, OneBox
<1>6. \A w \in wire : w \in kept \/ (w.from = "reply" /\ reply'.body = 0) \/ (w.from = "compose" /\ compose'.body = 0)
  BY <1>1, <1>4, <1>5, InboxTypes DEF Post
<1>7. wire' \subseteq Post
  <2>1. \A w \in wire : [w EXCEPT !.live = @ /\ same] \in Post
    BY InboxTypes DEF Post
  <2> QED
    BY <1>1, <2>1
<1>8. InboxTyped'
  BY <1>1, <1>4, <1>7 DEF InboxInv, InboxTyped
<1> HIDE DEF same, kept
<1> QED
  BY <1>1, <1>2, <1>4, <1>5, <1>6, <1>8, ScreenStep

\* The new message goes away, and with it what was written.
LEMMA ComposeClosed ==
    ASSUME InboxInv, Inbox!onClose, UNCHANGED <<letter, reply, members, delivered, lost, texts>> PROVE InboxInv'
<1> DEFINE kept == {w \in wire : w.from # "compose"}
<1>1. /\ compose' = [on |-> FALSE, to |-> 0, body |-> 0, asking |-> FALSE]
      /\ wire' = {[w EXCEPT !.live = @ /\ w.from # "compose"] : w \in wire}
  BY DEF Inbox!onClose, Inbox!NoCompose
<1>2. wire' = {[w EXCEPT !.live = @ /\ w \in kept] : w \in wire}
  BY <1>1
<1>3. compose' \in ComposeBox
  BY <1>1, InboxTypes DEF ComposeBox, Addressee
<1>4. \A w \in wire : w \in kept \/ (w.from = "reply" /\ reply'.body = 0) \/ (w.from = "compose" /\ compose'.body = 0)
  BY <1>1
<1>5. wire' \subseteq Post
  <2>1. \A w \in wire : [w EXCEPT !.live = @ /\ w.from # "compose"] \in Post
    BY InboxTypes DEF Post
  <2> QED
    BY <1>1, <2>1
<1>6. InboxTyped'
  BY <1>3, <1>5 DEF InboxInv, InboxTyped
<1> HIDE DEF kept
<1> QED
  BY <1>1, <1>2, <1>4, <1>6, ScreenStep

LEMMA InboxNext == ASSUME InboxInv, [Inbox!Next]_Inbox!vars PROVE InboxInv'
<1>0. /\ MaxTexts \in Nat /\ texts \in 0..MaxTexts /\ letter \in Inbox!Letter \cup {0}
      /\ reply \in ReplyBox /\ compose \in ComposeBox /\ members \subseteq Member
      /\ ~compose.on => compose.body = 0
  BY InboxTypes DEF InboxInv, InboxTyped, OneBox
\* Steps of the inbox and of the requests, and those that keep the texts of the boxes.
<1>1. ASSUME UNCHANGED <<letter, wire, texts, lost, delivered>>, members' \subseteq Member,
             reply' \in ReplyBox, compose' \in ComposeBox,
             reply'.body \in {0, reply.body}, compose'.body \in {0, compose.body}, ~compose'.on => compose'.body = 0
      PROVE  InboxInv'
  <2>1. InboxTyped'
    BY <1>1 DEF InboxInv, InboxTyped
  <2> QED
    BY <1>1, <2>1, PostStays
<1>2. ASSUME UNCHANGED <<letter, reply, compose, members, wire, texts, lost, delivered>> PROVE InboxInv'
  BY <1>0, <1>1, <1>2
<1>3. ASSUME NEW l \in Inbox!Letter \cup {0}, Inbox!setOpened(l) PROVE InboxInv'
  BY <1>3, LetterOpened
<1>4. CASE Inbox!startReply
  <2>1. reply' \in ReplyBox /\ reply'.body = reply.body
    BY <1>0, <1>4 DEF Inbox!startReply, ReplyBox
  <2> QED
    BY <1>0, <1>1, <1>4, <2>1 DEF Inbox!startReply, Inbox!post
<1>5. CASE Inbox!setBody
  <2>1. texts < MaxTexts /\ texts' = texts + 1 /\ reply.body = 0 /\ UNCHANGED <<letter, compose, members, wire, delivered, lost>>
    BY <1>5 DEF Inbox!setBody, Inbox!Begin, Inbox!post
  <2>2. reply' \in ReplyBox /\ reply'.body = texts + 1
    BY <1>0, <1>5, <2>1 DEF Inbox!setBody, ReplyBox
  <2>3. InboxTyped'
    BY <1>0, <2>1, <2>2 DEF InboxInv, InboxTyped
  <2> QED
    BY <2>1, <2>2, <2>3, TextBegun
<1>6. CASE Inbox!discardReply
  <2>1. reply' = [composing |-> FALSE, body |-> 0, sent |-> reply.sent]
    BY <1>0, <1>6 DEF Inbox!discardReply, Inbox!discard, ReplyBox
  <2>2. reply' \in ReplyBox /\ reply'.body = 0
    BY <1>0, <2>1 DEF ReplyBox
  <2> QED
    BY <1>0, <1>1, <1>6, <2>2 DEF Inbox!discardReply, Inbox!post
<1>7. CASE Inbox!submitReply
  <2> DEFINE new == [from |-> "reply", text |-> reply.body, to |-> letter, live |-> TRUE, at |-> "asked"]
  <2>1. /\ wire' = wire \cup {new} /\ reply.body # 0 /\ ~Inbox!Sending("reply")
        /\ UNCHANGED <<letter, reply, compose, members, texts, lost, delivered>>
    BY <1>7 DEF Inbox!submitReply
  <2>2. reply.body \in Inbox!Text
    BY <1>0, <2>1, InboxTypes
  <2>3. new \in Post /\ new.live /\ new.at = "asked" /\ new.from = "reply" /\ new.text = reply.body
    BY <1>0, <2>2 DEF Post, Addressee
  <2> HIDE DEF new
  <2>4. InboxTyped'
    BY <2>1, <2>3 DEF InboxInv, InboxTyped
  <2> QED
    BY <2>1, <2>3, <2>4, TextSent
<1>8. ASSUME NEW m \in Member \cup {0}, Inbox!openCompose(m) PROVE InboxInv'
  <2>1. compose' = [on |-> TRUE, to |-> m, body |-> 0, asking |-> FALSE]
    BY <1>8 DEF Inbox!openCompose, Inbox!NoCompose
  <2>2. compose' \in ComposeBox /\ compose'.body = 0
    BY <1>0, <2>1 DEF ComposeBox, Addressee
  <2> QED
    BY <1>0, <1>1, <1>8, <2>2 DEF Inbox!openCompose, Inbox!post
<1>9. ASSUME NEW m \in Member, Inbox!setTo(m) PROVE InboxInv'
  <2>1. compose' \in ComposeBox /\ compose'.body = compose.body /\ compose'.on = compose.on
    BY <1>0, <1>9 DEF Inbox!setTo, ComposeBox, Addressee
  <2> QED
    BY <1>0, <1>1, <1>9, <2>1 DEF Inbox!setTo, Inbox!post
<1>10. CASE Inbox!setComposeBody
  <2>1. /\ texts < MaxTexts /\ texts' = texts + 1 /\ compose.body = 0 /\ compose.on
        /\ UNCHANGED <<letter, reply, members, wire, delivered, lost>>
    BY <1>10 DEF Inbox!setComposeBody, Inbox!Begin, Inbox!post, Inbox!Writing, Inbox!AtCompose
  <2>2. compose' \in ComposeBox /\ compose'.body = texts + 1 /\ compose'.on
    BY <1>0, <1>10, <2>1 DEF Inbox!setComposeBody, ComposeBox
  <2>3. InboxTyped'
    BY <1>0, <2>1, <2>2 DEF InboxInv, InboxTyped
  <2> QED
    BY <2>1, <2>2, <2>3, TextBegun
<1>11. ASSUME NEW on \in BOOLEAN, compose' = [compose EXCEPT !.asking = on],
              UNCHANGED <<letter, reply, members, wire, texts, lost, delivered>>
       PROVE  InboxInv'
  <2>1. compose' \in ComposeBox /\ compose'.body = compose.body /\ compose'.on = compose.on
    BY <1>0, <1>11 DEF ComposeBox
  <2> QED
    BY <1>0, <1>1, <1>11, <2>1
<1>12. CASE Inbox!leave
  BY <1>11, <1>12, ComposeClosed DEF Inbox!leave
<1>13. ASSUME NEW yes \in BOOLEAN, Inbox!confirmDiscard(yes) PROVE InboxInv'
  BY <1>11, <1>13, ComposeClosed DEF Inbox!confirmDiscard
<1>14. CASE Inbox!submitCompose
  <2> DEFINE new == [from |-> "compose", text |-> compose.body, to |-> compose.to, live |-> TRUE, at |-> "asked"]
  <2>1. /\ wire' = wire \cup {new} /\ compose.body # 0 /\ ~Inbox!Sending("compose")
        /\ UNCHANGED <<letter, reply, compose, members, texts, lost, delivered>>
    BY <1>14 DEF Inbox!submitCompose, Inbox!Writing
  <2>2. compose.body \in Inbox!Text /\ compose.to \in Addressee
    BY <1>0, <2>1, InboxTypes DEF ComposeBox
  <2>3. new \in Post /\ new.live /\ new.at = "asked" /\ new.from = "compose" /\ new.text = compose.body
    BY <1>0, <2>2 DEF Post
  <2> HIDE DEF new
  <2>4. InboxTyped'
    BY <2>1, <2>3 DEF InboxInv, InboxTyped
  <2> QED
    BY <2>1, <2>3, <2>4, TextSent
<1>15. ASSUME NEW w \in wire, Inbox!ServerDelivers(w) PROVE InboxInv'
  BY <1>15, TextDelivered
<1>16. ASSUME NEW w \in wire, Inbox!onSent(w) PROVE InboxInv'
  BY <1>16, AnswerCame
<1>17. ASSUME NEW w \in wire, Inbox!setError(w) PROVE InboxInv'
  BY <1>17, AnswerLost
<1>18. ASSUME NEW m \in Member, Inbox!MemberLeaves(m) PROVE InboxInv'
  BY <1>0, <1>1, <1>18 DEF Inbox!MemberLeaves, Inbox!post
<1>19. CASE Inbox!useClassroomRequests
  BY <1>2, <1>19 DEF Inbox!useClassroomRequests, Inbox!post
<1>20. ASSUME NEW on \in BOOLEAN, Inbox!confirmingReject(on) PROVE InboxInv'
  BY <1>2, <1>20 DEF Inbox!confirmingReject, Inbox!post
<1>21. ASSUME NEW r \in resolving, Inbox!ServerResolves(r) PROVE InboxInv'
  BY <1>2, <1>21 DEF Inbox!ServerResolves, Inbox!post
<1>22. ASSUME NEW r \in resolving, Inbox!useResolveRequest(r) PROVE InboxInv'
  BY <1>2, <1>22 DEF Inbox!useResolveRequest, Inbox!post
<1>23. ASSUME NEW say, Inbox!answer(say) PROVE InboxInv'
  BY <1>2, <1>23 DEF Inbox!answer, Inbox!post
<1>24. ASSUME NEW l, Inbox!ResolvedElsewhere(l) PROVE InboxInv'
  BY <1>2, <1>24 DEF Inbox!ResolvedElsewhere, Inbox!post
<1>25. CASE UNCHANGED Inbox!vars
  BY <1>2, <1>25 DEF Inbox!vars
<1> QED
  BY <1>3, <1>4, <1>5, <1>6, <1>7, <1>8, <1>9, <1>10, <1>12, <1>13, <1>14, <1>15, <1>16, <1>17, <1>18,
     <1>19, <1>20, <1>21, <1>22, <1>23, <1>24, <1>25 DEF Inbox!Next

(***************************************************************************)
(* A text arrives once, and once more for each answer that was lost, for   *)
(* any letters, kids, texts and losses, and whatever letter or window is   *)
(* on screen when the answers come (MessageThread's submit and discard).   *)
(***************************************************************************)
THEOREM TextsArriveOnce == Inbox!Spec => []ArrivesOnce
<1>1. InboxInv => ArrivesOnce
  BY DEF InboxInv, Arrivals, ArrivesOnce, Inbox!ArrivesOnce
<1>2. Inbox!Init => InboxInv
  BY InboxInit
<1>3. InboxInv /\ [Inbox!Next]_Inbox!vars => InboxInv'
  BY InboxNext
<1> QED
  BY <1>1, <1>2, <1>3, PTL DEF Inbox!Spec

-----------------------------------------------------------------------------
(* Mi perfil.                                                              *)

\* What a save has sent of the part it is at, and the saves that identity-
\* service has done and nobody was told of.
SentBy(s) == IF s.at = "account" THEN s.values ELSE s.profile
DoneOf(p) == {s \in saves : s.done /\ s.at = p}

\* What is a record of which fields: all that is left to know of a value.
ProfileShapes ==
    /\ stored = [p \in MyProfile!Part |-> stored[p]] /\ profileCache = [p \in MyProfile!Part |-> profileCache[p]]
    /\ DOMAIN reads = MyProfile!Part
    /\ DOMAIN portal = {"who", "section", "dirty", "ask", "sure", "closing", "animated"}
    /\ DOMAIN fields = {"values", "original", "editing", "confirmed"}
    /\ unsure \in BOOLEAN
    /\ \A s \in saves : /\ DOMAIN s = {"here", "at", "values", "more", "profile", "done"}
                        /\ s.at \in MyProfile!Part /\ s.done \in BOOLEAN

(***************************************************************************)
(* The inductive invariant: a part of which an answer is on its way has    *)
(* what one of those saves sent; with none on its way, the cache, the form *)
(* and the query under way have what identity-service has.                 *)
(***************************************************************************)
Settled(p) ==
    /\ DoneOf(p) # {} => \E s \in DoneOf(p) : stored[p] = SentBy(s)
    /\ DoneOf(p) = {} => /\ profileCache[p] = stored[p] /\ reads[p] \subseteq {stored[p]}
                         /\ (p = "account" /\ MyProfile!Mounted) => fields.original = stored[p]
ProfileInv == ProfileShapes /\ (~unsure => \A p \in MyProfile!Part : Settled(p))

LEMMA ProfileInit == MyProfile!Init => ProfileInv
<1> SUFFICES ASSUME MyProfile!Init PROVE ProfileInv
  OBVIOUS
<1>1. /\ saves = {} /\ profileCache = stored /\ reads = [p \in MyProfile!Part |-> {}] /\ unsure = FALSE
      /\ stored = [account |-> MyProfile!InitialAccount, profile |-> MyProfile!InitialProfile]
      /\ fields = MyProfile!Fresh(MyProfile!InitialAccount)
      /\ portal.section = "inicio"
      /\ DOMAIN portal = {"who", "section", "dirty", "ask", "sure", "closing", "animated"}
  BY DEF MyProfile!Init
<1>2. stored = [p \in MyProfile!Part |-> stored[p]]
  BY <1>1 DEF MyProfile!Part
<1>3. DOMAIN fields = {"values", "original", "editing", "confirmed"}
  BY <1>1 DEF MyProfile!Fresh
<1>4. ProfileShapes
  BY <1>1, <1>2, <1>3 DEF ProfileShapes
<1>5. \A p \in MyProfile!Part : Settled(p)
  BY <1>1 DEF Settled, DoneOf, MyProfile!Mounted
<1> QED
  BY <1>4, <1>5 DEF ProfileInv

\* What changes neither the saves nor what is known of the server keeps it,
\* whatever is on screen, as long as the form has the same saved values.
LEMMA ProfileStays ==
    ASSUME ProfileInv, UNCHANGED <<saves, stored, profileCache, reads, unsure>>,
           DOMAIN portal' = DOMAIN portal, MyProfile!Mounted' => MyProfile!Mounted,
           DOMAIN fields' = DOMAIN fields, fields'.original = fields.original
    PROVE  ProfileInv'
<1>1. ProfileShapes'
  BY DEF ProfileInv, ProfileShapes
<1>2. \A p \in MyProfile!Part : Settled(p) => Settled(p)'
  BY DEF Settled, DoneOf, SentBy
<1> QED
  BY <1>1, <1>2 DEF ProfileInv

\* A section is left: its form is new, and a save goes on.
LEMMA SectionLeft ==
    ASSUME ProfileInv, NEW section, MyProfile!Leave(section), UNCHANGED <<reads, unsure>> PROVE ProfileInv'
<1> DEFINE left(s) == [s EXCEPT !.here = FALSE]
<1>1. /\ fields' = MyProfile!Fresh(profileCache.account) /\ UNCHANGED <<stored, profileCache>>
      /\ saves' = {left(s) : s \in saves}
      /\ DOMAIN portal' = DOMAIN portal
  BY DEF MyProfile!Leave
<1>2. \A s \in saves : /\ DOMAIN left(s) = DOMAIN s /\ left(s).at = s.at /\ left(s).done = s.done
                       /\ left(s).values = s.values /\ left(s).profile = s.profile
  BY DEF ProfileInv, ProfileShapes
<1>3. DOMAIN fields' = {"values", "original", "editing", "confirmed"} /\ fields'.original = profileCache.account
  BY <1>1 DEF MyProfile!Fresh
<1>4. ProfileShapes'
  BY <1>1, <1>2, <1>3 DEF ProfileInv, ProfileShapes
<1>5. ASSUME NEW p \in MyProfile!Part, Settled(p) PROVE Settled(p)'
  <2>1. CASE DoneOf(p) # {}
    <3>1. PICK s \in saves : s.done /\ s.at = p /\ stored[p] = SentBy(s)
      BY <1>5, <2>1 DEF Settled, DoneOf
    <3>2. left(s) \in saves' /\ left(s).done /\ left(s).at = p /\ SentBy(left(s)) = SentBy(s)
      BY <1>1, <1>2, <3>1 DEF SentBy
    <3> HIDE DEF left
    <3>3. left(s) \in DoneOf(p)' /\ stored'[p] = SentBy(left(s))
      BY <1>1, <3>1, <3>2 DEF DoneOf
    <3> QED
      BY <3>3 DEF Settled, SentBy
  <2>2. CASE DoneOf(p) = {}
    <3> HIDE DEF left
    <3>1. ASSUME NEW x \in saves', x.done, x.at = p PROVE FALSE
      <4>1. PICK s \in saves : x = left(s)
        BY <1>1, <3>1
      <4> QED
        BY <1>2, <2>2, <3>1, <4>1 DEF DoneOf
    <3>2. DoneOf(p)' = {}
      BY <3>1 DEF DoneOf
    <3> QED
      BY <1>1, <1>3, <1>5, <2>2, <3>2 DEF Settled
  <2> QED
    BY <2>1, <2>2
<1> QED
  BY <1>4, <1>5 DEF ProfileInv

\* A question comes or goes, on the same section.
LEMMA QuestionOnly ==
    ASSUME ProfileInv, NEW question, MyProfile!Asks(question), UNCHANGED <<reads, unsure>>,
           DOMAIN question = DOMAIN portal, question.section = portal.section
    PROVE  ProfileInv'
  BY ProfileStays DEF MyProfile!Asks, MyProfile!Mounted

LEMMA WayOut ==
    ASSUME ProfileInv, NEW shell, NEW dialog, MyProfile!Way(shell, dialog), UNCHANGED <<reads, unsure>>,
           DOMAIN shell = DOMAIN portal, shell.section = portal.section
    PROVE  ProfileInv'
<1>1. CASE dialog = "section"
  BY <1>1, SectionLeft DEF MyProfile!Way
<1>2. CASE dialog = "account"
  BY <1>2, SectionLeft DEF MyProfile!Way
<1>3. CASE dialog # "section" /\ dialog # "account"
  <2> DEFINE question == [shell EXCEPT !.ask = "none", !.sure = dialog]
  <2>1. MyProfile!Asks(question)
    BY <1>3 DEF MyProfile!Way
  <2>2. DOMAIN question = DOMAIN portal /\ question.section = portal.section
    BY DEF ProfileInv, ProfileShapes
  <2> QED
    BY <2>1, <2>2, QuestionOnly
<1> QED
  BY <1>1, <1>2, <1>3

LEMMA QuestionAnswered ==
    ASSUME ProfileInv, MyProfile!Accepted \/ MyProfile!Cancelled, UNCHANGED <<reads, unsure>> PROVE ProfileInv'
<1> DEFINE shell == [portal EXCEPT !.dirty = FALSE, !.closing = MyProfile!Closed(portal.ask)]
           none == [portal EXCEPT !.ask = "none", !.sure = "none", !.closing = "no"]
<1>1. /\ DOMAIN shell = DOMAIN portal /\ shell.section = portal.section
      /\ DOMAIN none = DOMAIN portal /\ none.section = portal.section
  BY DEF ProfileInv, ProfileShapes
<1>2. CASE MyProfile!Accepted
  <2>1. MyProfile!Way(shell, portal.ask) \/ MyProfile!Leave("out")
    BY <1>2 DEF MyProfile!Accepted
  <2> HIDE DEF shell
  <2> QED
    BY <1>1, <2>1, WayOut, SectionLeft
<1>3. CASE MyProfile!Cancelled
  BY <1>1, <1>3, QuestionOnly DEF MyProfile!Cancelled
<1> QED
  BY <1>2, <1>3

\* The portal is told of the changes on screen, and stays where it is.
LEMMA Told ==
    ASSUME ProfileInv, NEW f, NEW t, NEW held
    PROVE  /\ DOMAIN MyProfile!report(f, t, held) = DOMAIN portal
           /\ MyProfile!report(f, t, held).section = portal.section
  BY DEF ProfileInv, ProfileShapes, MyProfile!report

\* A save begins: nothing is done of it yet.
LEMMA SaveBegun ==
    ASSUME ProfileInv, NEW new, new.done = FALSE, new.at \in MyProfile!Part,
           DOMAIN new = {"here", "at", "values", "more", "profile", "done"},
           saves' = saves \cup {new}, UNCHANGED <<portal, fields, stored, profileCache, reads, unsure>>
    PROVE  ProfileInv'
<1>1. ProfileShapes'
  BY DEF ProfileInv, ProfileShapes
<1>2. \A p \in MyProfile!Part : DoneOf(p)' = DoneOf(p)
  BY DEF DoneOf
<1>3. \A p \in MyProfile!Part : Settled(p) => Settled(p)'
  BY <1>2 DEF Settled, SentBy, MyProfile!Mounted
<1> QED
  BY <1>1, <1>3 DEF ProfileInv

LEMMA BothSave ==
    ASSUME ProfileInv, MyProfile!handleConfirm \/ MyProfile!handleConfirmProfile, UNCHANGED <<reads, unsure>>
    PROVE  ProfileInv'
<1> DEFINE dirty == MyProfile!FieldsDirty(fields)
           teachers == [here |-> TRUE, at |-> IF dirty THEN "account" ELSE "profile",
                        values |-> fields.values, more |-> MyProfile!TeachingDirty(teaching, profileCache),
                        profile |-> teaching.card, done |-> FALSE]
           guardians == [here |-> TRUE, at |-> "account", values |-> fields.values, more |-> FALSE,
                         profile |-> 0, done |-> FALSE]
<1>1. UNCHANGED <<portal, fields, stored, profileCache>>
  BY DEF MyProfile!handleConfirm, MyProfile!handleConfirmProfile
<1>2. CASE MyProfile!handleConfirm
  <2>1. saves' = saves \cup {teachers}
    BY <1>2 DEF MyProfile!handleConfirm
  <2> HIDE DEF dirty
  <2>2. /\ teachers.done = FALSE /\ teachers.at \in MyProfile!Part
        /\ DOMAIN teachers = {"here", "at", "values", "more", "profile", "done"}
    BY DEF MyProfile!Part
  <2> HIDE DEF teachers
  <2> QED
    BY <1>1, <2>1, <2>2, SaveBegun
<1>3. CASE MyProfile!handleConfirmProfile
  <2>1. saves' = saves \cup {guardians}
    BY <1>3 DEF MyProfile!handleConfirmProfile
  <2>2. /\ guardians.done = FALSE /\ guardians.at \in MyProfile!Part
        /\ DOMAIN guardians = {"here", "at", "values", "more", "profile", "done"}
    BY DEF MyProfile!Part
  <2> HIDE DEF guardians
  <2> QED
    BY <1>1, <2>1, <2>2, SaveBegun
<1> QED
  BY <1>2, <1>3

\* identity-service stores a part: its answer is on its way from then on.
LEMMA PartStored == ASSUME ProfileInv, NEW s \in saves, MyProfile!ServerStores(s), UNCHANGED reads PROVE ProfileInv'
<1> DEFINE d == [s EXCEPT !.done = TRUE]
<1>1. /\ ~s.done /\ saves' = (saves \ {s}) \cup {d} /\ UNCHANGED <<portal, fields, profileCache, unsure>>
      /\ stored' = IF s.at = "account" THEN [stored EXCEPT !.account = s.values]
                   ELSE [stored EXCEPT !.profile = s.profile]
  BY DEF MyProfile!ServerStores
<1>2. /\ DOMAIN s = {"here", "at", "values", "more", "profile", "done"} /\ s.at \in MyProfile!Part
      /\ stored = [p \in MyProfile!Part |-> stored[p]]
  BY DEF ProfileInv, ProfileShapes
<1>3. DOMAIN d = DOMAIN s /\ d.at = s.at /\ d.done = TRUE /\ d.values = s.values /\ d.profile = s.profile
  BY <1>2
<1> HIDE DEF d
<1>4. /\ stored' = [p \in MyProfile!Part |-> IF p = s.at THEN SentBy(s) ELSE stored[p]]
  BY <1>1, <1>2 DEF SentBy, MyProfile!Part
<1>5. stored' = [p \in MyProfile!Part |-> stored'[p]]
  BY <1>4
<1>6. ProfileShapes'
  BY <1>1, <1>2, <1>3, <1>5 DEF ProfileInv, ProfileShapes
<1>7. Settled(s.at)'
  <2>1. d \in DoneOf(s.at)' /\ SentBy(d) = SentBy(s)
    BY <1>1, <1>3 DEF DoneOf, SentBy
  <2>2. stored'[s.at] = SentBy(d)
    BY <1>2, <1>4, <2>1
  <2> QED
    BY <2>1, <2>2 DEF Settled, SentBy
<1>8. ASSUME NEW p \in MyProfile!Part, p # s.at, Settled(p) PROVE Settled(p)'
  <2>1. DoneOf(p)' = DoneOf(p)
    BY <1>1, <1>3, <1>8 DEF DoneOf
  <2>2. stored'[p] = stored[p]
    BY <1>4, <1>8
  <2> QED
    BY <1>1, <1>8, <2>1, <2>2 DEF Settled, SentBy, MyProfile!Mounted
<1> QED
  BY <1>1, <1>2, <1>6, <1>7, <1>8 DEF ProfileInv

\* A part is answered, and no other answer nor query of it is on its way:
\* the cache has what was sent, which is what is stored.
LEMMA PartAnswered ==
    ASSUME ProfileInv, NEW s \in saves, s.done, NEW more, \A x \in more : ~x.done,
           saves' = (saves \ {s}) \cup more,
           profileCache' = [p \in MyProfile!Part |-> IF p = s.at THEN SentBy(s) ELSE profileCache[p]],
           ProfileShapes', UNCHANGED <<stored, reads>>, unsure' = (unsure \/ MyProfile!Crosses(s)),
           MyProfile!Mounted' = MyProfile!Mounted,
           fields'.original = IF s.at = "account" /\ s.here THEN SentBy(s) ELSE fields.original
    PROVE  ProfileInv'
<1>0. s.at \in MyProfile!Part
  BY DEF ProfileInv, ProfileShapes
<1> SUFFICES ASSUME ~unsure, ~MyProfile!Crosses(s), NEW p \in MyProfile!Part, Settled(p) PROVE Settled(p)'
  BY DEF ProfileInv
<1>1. CASE p = s.at
  <2>1. /\ reads[p] = {} /\ DoneOf(p) = {s}
        /\ (p = "account" /\ MyProfile!Mounted) => s.here
    BY <1>1 DEF MyProfile!Crosses, DoneOf
  <2>2. DoneOf(p)' = {}
    BY <2>1 DEF DoneOf
  <2>3. stored[p] = SentBy(s) /\ profileCache'[p] = SentBy(s)
    BY <1>1, <2>1 DEF Settled
  <2> QED
    BY <1>1, <2>1, <2>2, <2>3 DEF Settled
<1>2. CASE p # s.at
  <2>1. DoneOf(p)' = DoneOf(p)
    BY <1>2 DEF DoneOf
  <2>2. profileCache'[p] = profileCache[p]
    BY <1>2
  <2>3. (p = "account") => fields'.original = fields.original
    BY <1>2
  <2> QED
    BY <2>1, <2>2, <2>3 DEF Settled, SentBy
<1> QED
  BY <1>1, <1>2

LEMMA SaveAnswered ==
    ASSUME ProfileInv, NEW s \in saves, MyProfile!AccountSaved(s) \/ MyProfile!ProfileSaved(s) \/ MyProfile!SaveFails(s),
           UNCHANGED reads
    PROVE  ProfileInv'
<1>0. /\ DOMAIN s = {"here", "at", "values", "more", "profile", "done"} /\ s.at \in MyProfile!Part /\ s.done \in BOOLEAN
      /\ profileCache = [p \in MyProfile!Part |-> profileCache[p]]
      /\ DOMAIN fields = {"values", "original", "editing", "confirmed"}
      /\ unsure \in BOOLEAN /\ MyProfile!Crosses(s) \in BOOLEAN
  BY DEF ProfileInv, ProfileShapes, MyProfile!Crosses
<1>1. CASE MyProfile!AccountSaved(s)
  <2> DEFINE next == [s EXCEPT !.at = "profile", !.done = FALSE]
             more == IF s.more THEN {next} ELSE {}
  <2>1. /\ s.at = "account" /\ s.done
        /\ profileCache' = [profileCache EXCEPT !.account = s.values]
        /\ saves' = (saves \ {s}) \cup more
        /\ fields' = IF s.here THEN MyProfile!Fresh(s.values) ELSE fields
        /\ portal' = IF s.here THEN MyProfile!report(fields', teaching, profileCache') ELSE portal
        /\ unsure' = (unsure \/ MyProfile!Crosses(s)) /\ UNCHANGED stored
    BY <1>1 DEF MyProfile!AccountSaved, MyProfile!markSaved
  <2>2. DOMAIN next = DOMAIN s /\ next.at = "profile" /\ next.done = FALSE
    BY <1>0
  <2> HIDE DEF next
  <2>3. profileCache' = [p \in MyProfile!Part |-> IF p = s.at THEN SentBy(s) ELSE profileCache[p]]
    BY <1>0, <2>1 DEF SentBy, MyProfile!Part
  <2>4. /\ DOMAIN fields' = {"values", "original", "editing", "confirmed"}
        /\ fields'.original = IF s.at = "account" /\ s.here THEN SentBy(s) ELSE fields.original
    BY <1>0, <2>1 DEF MyProfile!Fresh, SentBy
  <2>5. DOMAIN portal' = DOMAIN portal /\ MyProfile!Mounted' = MyProfile!Mounted
    BY <2>1, Told DEF MyProfile!Mounted
  <2>6. \A x \in more : ~x.done /\ x.at \in MyProfile!Part /\ DOMAIN x = DOMAIN s /\ x.done \in BOOLEAN
    BY <2>2 DEF MyProfile!Part
  <2> HIDE DEF more
  <2>7. profileCache' = [p \in MyProfile!Part |-> profileCache'[p]]
    BY <2>3
  <2>8. ProfileShapes'
    BY <1>0, <2>1, <2>4, <2>5, <2>6, <2>7 DEF ProfileInv, ProfileShapes
  <2> QED
    BY <2>1, <2>3, <2>4, <2>5, <2>6, <2>8, PartAnswered
<1>2. CASE MyProfile!ProfileSaved(s)
  <2> DEFINE more == {}
  <2>1. /\ s.at = "profile" /\ s.done
        /\ profileCache' = [profileCache EXCEPT !.profile = s.profile]
        /\ saves' = (saves \ {s}) \cup more /\ \A x \in more : ~x.done
        /\ fields' = IF s.here THEN [fields EXCEPT !.confirmed = FALSE] ELSE fields
        /\ portal' = IF MyProfile!Mounted THEN MyProfile!report(fields', teaching', profileCache') ELSE portal
        /\ unsure' = (unsure \/ MyProfile!Crosses(s)) /\ UNCHANGED stored
    BY <1>2 DEF MyProfile!ProfileSaved
  <2>2. profileCache' = [p \in MyProfile!Part |-> IF p = s.at THEN SentBy(s) ELSE profileCache[p]]
    BY <1>0, <2>1 DEF SentBy, MyProfile!Part
  <2>3. /\ DOMAIN fields' = {"values", "original", "editing", "confirmed"}
        /\ fields'.original = IF s.at = "account" /\ s.here THEN SentBy(s) ELSE fields.original
    BY <1>0, <2>1
  <2>4. DOMAIN portal' = DOMAIN portal /\ MyProfile!Mounted' = MyProfile!Mounted
    BY <2>1, Told DEF MyProfile!Mounted
  <2>5. profileCache' = [p \in MyProfile!Part |-> profileCache'[p]]
    BY <2>2
  <2>6. ProfileShapes'
    BY <1>0, <2>1, <2>3, <2>4, <2>5 DEF ProfileInv, ProfileShapes
  <2> HIDE DEF more
  <2> QED
    BY <2>1, <2>2, <2>3, <2>4, <2>6, PartAnswered
<1>3. CASE MyProfile!SaveFails(s)
  <2>1. /\ saves' = saves \ {s} /\ unsure' = (unsure \/ s.done)
        /\ UNCHANGED <<portal, fields, stored, profileCache>>
    BY <1>3 DEF MyProfile!SaveFails
  <2>2. ProfileShapes'
    BY <1>0, <2>1 DEF ProfileInv, ProfileShapes
  <2>3. ASSUME ~s.done, NEW p \in MyProfile!Part, Settled(p) PROVE Settled(p)'
    <3>1. DoneOf(p)' = DoneOf(p)
      BY <2>1, <2>3 DEF DoneOf
    <3> QED
      BY <2>1, <2>3, <3>1 DEF Settled, SentBy, MyProfile!Mounted
  <2> QED
    BY <2>1, <2>2, <2>3 DEF ProfileInv
<1> QED
  BY <1>1, <1>2, <1>3

\* A query reads what is stored, and brings what it read.
LEMMA PartRead == ASSUME ProfileInv, NEW part \in MyProfile!Part, MyProfile!Refetch(part) PROVE ProfileInv'
<1>1. /\ reads' = [reads EXCEPT ![part] = {stored[part]}]
      /\ UNCHANGED <<portal, fields, saves, stored, profileCache, unsure>>
  BY DEF MyProfile!Refetch
<1>2. /\ DOMAIN reads = MyProfile!Part
      /\ DOMAIN reads' = DOMAIN reads /\ reads'[part] = {stored[part]}
      /\ \A p \in MyProfile!Part \ {part} : reads'[p] = reads[p]
  BY <1>1 DEF ProfileInv, ProfileShapes
<1>3. ProfileShapes'
  BY <1>1, <1>2 DEF ProfileInv, ProfileShapes
<1>4. \A p \in MyProfile!Part : Settled(p) => Settled(p)'
  BY <1>1, <1>2 DEF Settled, DoneOf, SentBy, MyProfile!Mounted
<1> QED
  BY <1>1, <1>3, <1>4 DEF ProfileInv

LEMMA ReadCame ==
    ASSUME ProfileInv, NEW part \in MyProfile!Part, NEW had \in reads[part], MyProfile!Refetched(part, had)
    PROVE  ProfileInv'
<1>1. /\ reads' = [reads EXCEPT ![part] = {}] /\ UNCHANGED <<fields, saves, stored, unsure>>
      /\ profileCache' \in {profileCache, [profileCache EXCEPT ![part] = had]}
      /\ portal' = IF MyProfile!Mounted THEN MyProfile!report(fields, teaching, profileCache') ELSE portal
  BY DEF MyProfile!Refetched
<1>2. DOMAIN portal' = DOMAIN portal /\ MyProfile!Mounted' = MyProfile!Mounted
  BY <1>1, Told DEF MyProfile!Mounted
<1>3. /\ DOMAIN reads = MyProfile!Part /\ profileCache = [p \in MyProfile!Part |-> profileCache[p]]
      /\ DOMAIN reads' = DOMAIN reads /\ reads'[part] = {}
      /\ \A p \in MyProfile!Part \ {part} : reads'[p] = reads[p]
  BY <1>1 DEF ProfileInv, ProfileShapes
<1>4. /\ profileCache' = [p \in MyProfile!Part |-> profileCache'[p]]
      /\ profileCache'[part] \in {profileCache[part], had}
      /\ \A p \in MyProfile!Part \ {part} : profileCache'[p] = profileCache[p]
  BY <1>1, <1>3
<1>5. ProfileShapes'
  BY <1>1, <1>2, <1>3, <1>4 DEF ProfileInv, ProfileShapes
<1>6. ASSUME NEW p \in MyProfile!Part, Settled(p) PROVE Settled(p)'
  <2>1. DoneOf(p)' = DoneOf(p)
    BY <1>1 DEF DoneOf
  <2>2. DoneOf(p) = {} => profileCache'[p] = stored[p] /\ reads'[p] \subseteq {stored[p]}
    BY <1>3, <1>4, <1>6 DEF Settled
  <2> QED
    BY <1>1, <1>2, <1>6, <2>1, <2>2 DEF Settled, SentBy
<1> QED
  BY <1>1, <1>5, <1>6 DEF ProfileInv

LEMMA PersonDoes == ASSUME ProfileInv, MyProfile!PersonStep, UNCHANGED <<reads, unsure>> PROVE ProfileInv'
<1>0. /\ DOMAIN fields = {"values", "original", "editing", "confirmed"}
      /\ DOMAIN portal = {"who", "section", "dirty", "ask", "sure", "closing", "animated"}
  BY DEF ProfileInv, ProfileShapes
\* The form, whose saved values stay.
<1>1. ASSUME DOMAIN fields' = DOMAIN fields, fields'.original = fields.original,
             portal' = portal \/ portal' = MyProfile!report(fields', teaching', profileCache),
             UNCHANGED <<saves, stored, profileCache>>
      PROVE  ProfileInv'
  BY <1>1, Told, ProfileStays DEF MyProfile!Mounted
<1>2. ASSUME NEW f \in MyProfile!Field, MyProfile!startEditing(f) PROVE ProfileInv'
  BY <1>0, <1>1, <1>2 DEF MyProfile!startEditing
<1>3. ASSUME NEW f \in MyProfile!Field, NEW v \in ProfileTyped[f], MyProfile!setField(f, v) PROVE ProfileInv'
  <2>1. DOMAIN fields' = DOMAIN fields /\ fields'.original = fields.original
    BY <1>0, <1>3 DEF MyProfile!setField
  <2> QED
    BY <1>1, <1>3, <2>1 DEF MyProfile!setField
<1>4. CASE MyProfile!finishEditing
  BY <1>0, <1>1, <1>4 DEF MyProfile!finishEditing
<1>5. CASE MyProfile!cancelEditing
  <2>1. DOMAIN fields' = DOMAIN fields /\ fields'.original = fields.original
    BY <1>0, <1>5 DEF MyProfile!cancelEditing
  <2> QED
    BY <1>1, <1>5, <2>1 DEF MyProfile!cancelEditing
<1>6. CASE MyProfile!SaveBar
  BY <1>0, <1>1, <1>6 DEF MyProfile!SaveBar
<1>7. CASE MyProfile!discardChanges
  BY <1>0, <1>1, <1>7 DEF MyProfile!discardChanges, MyProfile!Fresh
<1>8. CASE MyProfile!handleConfirm \/ MyProfile!handleConfirmProfile
  BY <1>8, BothSave
\* The teacher profile, which is only on the screen until it is saved.
<1>9. CASE MyProfile!openTeaching \/ MyProfile!closeTeaching
  BY <1>1, <1>9 DEF MyProfile!openTeaching, MyProfile!closeTeaching
<1>10. ASSUME NEW new, MyProfile!TeachingChange(new) PROVE ProfileInv'
  BY <1>1, <1>10 DEF MyProfile!TeachingChange
<1>11. CASE MyProfile!EntryHeader
  BY <1>10, <1>11 DEF MyProfile!EntryHeader
<1>12. ASSUME NEW c, MyProfile!addEntry(c) \/ MyProfile!ExperienceCard(c) PROVE ProfileInv'
  BY <1>10, <1>12 DEF MyProfile!addEntry, MyProfile!ExperienceCard
\* The portal.
<1>13. \A v : LET question == [portal EXCEPT !.ask = v]
              IN  DOMAIN question = DOMAIN portal /\ question.section = portal.section
  BY <1>0
<1>14. ASSUME NEW v, MyProfile!Asks([portal EXCEPT !.ask = v]) PROVE ProfileInv'
  BY <1>13, <1>14, QuestionOnly
<1>15. ASSUME NEW v, MyProfile!Way(portal, v) PROVE ProfileInv'
  BY <1>15, WayOut
<1>16. CASE MyProfile!select
  BY <1>14, <1>15, <1>16 DEF MyProfile!select
<1>17. CASE MyProfile!selectSection
  BY <1>14, <1>15, <1>17 DEF MyProfile!selectSection
<1>18. CASE MyProfile!requestBack \/ MyProfile!requestLogout
  BY <1>14, <1>15, <1>18 DEF MyProfile!requestBack, MyProfile!requestLogout
<1>19. CASE MyProfile!ConfirmDialog
  <2>1. \A v : LET question == [portal EXCEPT !.closing = v]
               IN  DOMAIN question = DOMAIN portal /\ question.section = portal.section
    BY <1>0
  <2> QED
    BY <1>19, <2>1, QuestionAnswered, QuestionOnly DEF MyProfile!ConfirmDialog
<1>20. CASE MyProfile!closeThen
  BY <1>20, QuestionAnswered DEF MyProfile!closeThen
\* The cards that end the session.
<1>21. ASSUME NEW new, MyProfile!DangerOnly(new) PROVE ProfileInv'
  BY <1>1, <1>21 DEF MyProfile!DangerOnly
<1>22. CASE MyProfile!OpenDanger \/ MyProfile!FillDanger \/ MyProfile!CancelDanger \/ MyProfile!handleSubmit
            \/ MyProfile!submit \/ MyProfile!showFormError
  BY <1>21, <1>22 DEF MyProfile!OpenDanger, MyProfile!FillDanger, MyProfile!CancelDanger, MyProfile!handleSubmit,
                      MyProfile!submit, MyProfile!showFormError
<1>23. CASE MyProfile!changeWithCode \/ MyProfile!deleteWithCode \/ MyProfile!closeEverywhere
  BY <1>23, SectionLeft DEF MyProfile!changeWithCode, MyProfile!deleteWithCode, MyProfile!closeEverywhere
<1> QED
  BY <1>2, <1>3, <1>4, <1>5, <1>6, <1>7, <1>8, <1>9, <1>11, <1>12, <1>16, <1>17, <1>18, <1>19, <1>20, <1>22, <1>23
  DEF MyProfile!PersonStep

LEMMA ProfileNext == ASSUME ProfileInv, [MyProfile!Next]_MyProfile!vars PROVE ProfileInv'
<1>1. CASE MyProfile!PersonStep /\ UNCHANGED <<reads, unsure>>
  BY <1>1, PersonDoes
<1>2. ASSUME NEW s \in saves, MyProfile!SaveStep(s), UNCHANGED reads PROVE ProfileInv'
  BY <1>2, PartStored, SaveAnswered DEF MyProfile!SaveStep
<1>3. ASSUME NEW part \in MyProfile!Part, MyProfile!Refetch(part) PROVE ProfileInv'
  BY <1>3, PartRead
<1>4. ASSUME NEW part \in MyProfile!Part, NEW had \in reads[part], MyProfile!Refetched(part, had) PROVE ProfileInv'
  BY <1>4, ReadCame
<1>5. CASE UNCHANGED MyProfile!vars
  BY <1>5, ProfileStays DEF MyProfile!vars, MyProfile!Mounted
<1> QED
  BY <1>1, <1>2, <1>3, <1>4, <1>5 DEF MyProfile!Next

(***************************************************************************)
(* What Mi perfil shows as saved is what identity-service has, for any     *)
(* fields, rules and cards, and however many saves are under way, fail or  *)
(* are answered in any order (TeacherProfileSection's handleConfirm and    *)
(* MiPerfilSection's handleConfirmProfile), except for what ShownAsSaved   *)
(* leaves out.                                                             *)
(***************************************************************************)
THEOREM ShownIsSaved == MyProfile!Spec => []ShownAsSaved
<1>1. ProfileInv => ShownAsSaved
  <2> SUFFICES ASSUME ProfileInv, saves = {}, ~unsure
               PROVE  profileCache = stored /\ (MyProfile!Mounted => fields.original = stored.account)
    BY DEF ShownAsSaved, MyProfile!ShownAsSaved
  <2>1. \A p \in MyProfile!Part : DoneOf(p) = {} /\ Settled(p)
    BY DEF ProfileInv, DoneOf
  <2>2. profileCache = stored
    BY <2>1 DEF ProfileInv, ProfileShapes, Settled
  <2> QED
    BY <2>1, <2>2 DEF Settled, MyProfile!Part
<1>2. MyProfile!Init => ProfileInv
  BY ProfileInit
<1>3. ProfileInv /\ [MyProfile!Next]_MyProfile!vars => ProfileInv'
  BY ProfileNext
<1> QED
  BY <1>1, <1>2, <1>3, PTL DEF MyProfile!Spec

-----------------------------------------------------------------------------
(* The registration.                                                       *)

WizardInv ==
    /\ form \in [WizardField -> Nat]
    /\ status \in [WizardField -> {"quiet", "valid", "invalid"}]
    /\ CrossesTellTruth

\* What a field looks at besides itself.
LooksAt(g) == {g} \cup (CASE g = "number" -> {"type"} [] g = "issued" -> {"birth"}
                          [] g = "confirmation" -> {"password"} [] OTHER -> {})

LEMMA ProblemOf ==
    ASSUME NEW g \in WizardField, g # "email", NEW old, NEW new, \A x \in LooksAt(g) : new[x] = old[x]
    PROVE  Wizard!Verdict(g, new) = Wizard!Verdict(g, old)
<1>1. /\ new[g] = old[g]
      /\ g = "number" => new.type = old.type
      /\ g = "issued" => new.birth = old.birth
      /\ g = "confirmation" => new.password = old.password
  BY DEF LooksAt
<1>2. Wizard!GuardianProblem(g, new) <=> Wizard!GuardianProblem(g, old)
  BY <1>1 DEF Wizard!GuardianProblem
<1>3. Wizard!Problem(g, new) <=> Wizard!Problem(g, old)
  BY <1>2 DEF Wizard!Problem, Wizard!TeacherProblem
<1> QED
  BY <1>3 DEF Wizard!Verdict

\* Both wizards check again every field that looks at the one typed.
LEMMA RechecksAll ==
    ASSUME NEW f \in WizardField, NEW g \in WizardField, f \in LooksAt(g), g # f
    PROVE  g \in Wizard!Rechecks(f)
<1>1. \/ g = "number" /\ f = "type"
      \/ g = "issued" /\ f = "birth"
      \/ g = "confirmation" /\ f = "password"
  BY DEF LooksAt
<1> QED
  BY <1>1 DEF Wizard!Rechecks, Wizard!GuardianRechecks, Wizard!TeacherRechecks

LEMMA LooksAtFields == ASSUME NEW g \in WizardField PROVE LooksAt(g) \subseteq WizardField
  BY PortalAssumption DEF LooksAt, Wizard!RegistrationAssumption

LEMMA VerdictTyped == ASSUME NEW g, NEW new PROVE Wizard!Verdict(g, new) \in {"quiet", "valid", "invalid"}
  BY DEF Wizard!Verdict

LEMMA FieldTyped ==
    ASSUME WizardInv, NEW f \in WizardField, NEW v \in WizardTyped[f], Wizard!Type(f, v) PROVE WizardInv'
<1> DEFINE typed == IF f = "number" THEN Wizard!filterDocumentNumberInput(form.type, v) ELSE v
           new == [form EXCEPT ![f] = typed]
<1>1. /\ form' = new /\ who' = who
      /\ status' = [g \in WizardField |-> IF g \in {f} \cup Wizard!Rechecks(f) /\ status[g] # "quiet"
                                          THEN Wizard!Verdict(g, new) ELSE status[g]]
  BY DEF Wizard!Type, Wizard!checkedFieldChange
<1>2. typed \in Nat
  BY PortalAssumption DEF Wizard!RegistrationAssumption, Wizard!filterDocumentNumberInput
<1>3. new \in [WizardField -> Nat] /\ \A x \in WizardField : x # f => new[x] = form[x]
  BY <1>2 DEF WizardInv
<1> HIDE DEF new
<1>4. \A g \in WizardField : status'[g] \in {"quiet", "valid", "invalid"}
  BY <1>1, VerdictTyped DEF WizardInv
<1>5. ASSUME NEW g \in WizardField, g # "email", status'[g] # "quiet"
      PROVE  status'[g] = Wizard!Verdict(g, new)
  <2>1. CASE g \in {f} \cup Wizard!Rechecks(f)
    BY <1>1, <1>5, <2>1
  <2>2. CASE g \notin {f} \cup Wizard!Rechecks(f)
    <3>1. f \notin LooksAt(g)
      BY <2>2, RechecksAll
    <3>2. \A x \in LooksAt(g) : new[x] = form[x]
      BY <1>3, <3>1, LooksAtFields
    <3>3. Wizard!Verdict(g, new) = Wizard!Verdict(g, form)
      BY <1>5, <3>2, ProblemOf
    <3>4. status'[g] = status[g] /\ status[g] = Wizard!Verdict(g, form)
      BY <1>1, <1>5, <2>2 DEF WizardInv, CrossesTellTruth, Wizard!CrossesTellTruth
    <3> QED
      BY <3>3, <3>4
  <2> QED
    BY <2>1, <2>2
<1>6. \A g \in WizardField \ {"email"} : Wizard!Verdict(g, form)' = Wizard!Verdict(g, new)
  <2>1. ASSUME NEW g \in WizardField \ {"email"} PROVE Wizard!Verdict(g, form)' = Wizard!Verdict(g, new)
    BY <1>1 DEF Wizard!Verdict, Wizard!Problem, Wizard!TeacherProblem, Wizard!GuardianProblem
  <2> QED
    BY <2>1
<1> QED
  BY <1>1, <1>3, <1>4, <1>5, <1>6 DEF WizardInv, CrossesTellTruth, Wizard!CrossesTellTruth

\* Steps that leave what is written and put at the end of a field nothing
\* but what the rules say, or a cross at the end of the email.
LEMMA WizardStep ==
    ASSUME WizardInv, UNCHANGED <<who, form>>, status' \in [WizardField -> {"quiet", "valid", "invalid"}],
           \A g \in WizardField \ {"email"} : status'[g] \in {status[g], Wizard!Verdict(g, form)}
    PROVE  WizardInv'
<1>1. ASSUME NEW g \in WizardField \ {"email"} PROVE Wizard!Verdict(g, form)' = Wizard!Verdict(g, form)
  BY DEF Wizard!Verdict, Wizard!Problem, Wizard!TeacherProblem, Wizard!GuardianProblem
<1> QED
  BY <1>1 DEF WizardInv, CrossesTellTruth, Wizard!CrossesTellTruth

LEMMA WizardStays == ASSUME WizardInv, UNCHANGED <<who, form, status>> PROVE WizardInv'
  BY WizardStep DEF WizardInv

LEMMA FieldsChecked == ASSUME WizardInv, NEW step, Wizard!checkFields(step), UNCHANGED <<who, form>> PROVE WizardInv'
<1>1. status' = [f \in WizardField |-> IF f \in Wizard!Upto(step) THEN Wizard!Verdict(f, form) ELSE status[f]]
  BY DEF Wizard!checkFields
<1>2. status' \in [WizardField -> {"quiet", "valid", "invalid"}]
  BY <1>1, VerdictTyped DEF WizardInv
<1> QED
  BY <1>1, <1>2, WizardStep

LEMMA WizardNext == ASSUME WizardInv, [Wizard!Next]_Wizard!vars PROVE WizardInv'
<1>0. status \in [WizardField -> {"quiet", "valid", "invalid"}]
  BY DEF WizardInv
<1>1. ASSUME NEW f \in WizardField, NEW v \in WizardTyped[f], Wizard!Type(f, v) PROVE WizardInv'
  BY <1>1, FieldTyped
<1>2. ASSUME NEW f \in WizardField, Wizard!LeaveField(f) PROVE WizardInv'
  <2>1. status' = [status EXCEPT ![f] = Wizard!Verdict(f, form)] /\ UNCHANGED <<who, form>>
    BY <1>2 DEF Wizard!LeaveField
  <2>2. /\ status' \in [WizardField -> {"quiet", "valid", "invalid"}]
        /\ \A g \in WizardField : status'[g] \in {status[g], Wizard!Verdict(g, form)}
    BY <1>0, <2>1, VerdictTyped
  <2> QED
    BY <2>1, <2>2, WizardStep
<1>3. CASE Wizard!GuardianSubmitStep1
  BY <1>3, FieldsChecked DEF Wizard!GuardianSubmitStep1
<1>4. CASE Wizard!TeacherSubmitStep1
  BY <1>4, FieldsChecked DEF Wizard!TeacherSubmitStep1
<1>5. CASE Wizard!isTaken
  <2>1. UNCHANGED <<who, form>> /\ (status' = status \/ status' = [status EXCEPT !.email = "invalid"])
    BY <1>5 DEF Wizard!isTaken
  <2>2. /\ status' \in [WizardField -> {"quiet", "valid", "invalid"}]
        /\ \A g \in WizardField \ {"email"} : status'[g] = status[g]
    BY <1>0, <2>1
  <2> QED
    BY <2>1, <2>2, WizardStep
<1>6. CASE Wizard!GuardianSubmitStep2
  BY <1>6, FieldsChecked DEF Wizard!GuardianSubmitStep2
<1>7. CASE Wizard!GuardianStep2Form \/ Wizard!TeacherProfileForm
  BY <1>7, WizardStays DEF Wizard!GuardianStep2Form, Wizard!TeacherProfileForm
<1>8. ASSUME NEW p, Wizard!PinKeys(p) PROVE WizardInv'
  BY <1>8, WizardStays DEF Wizard!PinKeys
<1>9. ASSUME NEW new, Wizard!CardOnly(new) PROVE WizardInv'
  BY <1>9, WizardStays DEF Wizard!CardOnly
<1>10. CASE Wizard!addStudy \/ Wizard!confirmEntry \/ Wizard!editEntry \/ Wizard!removeEntry
  BY <1>9, <1>10 DEF Wizard!addStudy, Wizard!confirmEntry, Wizard!editEntry, Wizard!removeEntry
<1>11. ASSUME NEW c, Wizard!StudyCard(c) PROVE WizardInv'
  BY <1>9, <1>11 DEF Wizard!StudyCard
<1>12. CASE Wizard!GuardianBack \/ Wizard!TeacherBack \/ Wizard!TeacherSubmitProfile
  BY <1>12, WizardStays DEF Wizard!GuardianBack, Wizard!TeacherBack, Wizard!TeacherSubmitProfile, Wizard!wizard
<1>13. CASE Wizard!GuardianConfirmation1 \/ Wizard!GuardianConfirmation2 \/ Wizard!TeacherConfirmation
  BY <1>13, WizardStays
     DEF Wizard!GuardianConfirmation1, Wizard!GuardianConfirmation2, Wizard!TeacherConfirmation, Wizard!wizard
<1>14. CASE Wizard!confirmAndCreateAccount \/ Wizard!createAccount \/ Wizard!AccountAnswered
  BY <1>14, WizardStays DEF Wizard!confirmAndCreateAccount, Wizard!createAccount, Wizard!AccountAnswered, Wizard!wizard
<1>15. CASE Wizard!GuardianSuccess \/ Wizard!TeacherSuccess
  BY <1>15, WizardStays DEF Wizard!GuardianSuccess, Wizard!TeacherSuccess, Wizard!wizard
<1>16. CASE Wizard!SetupAnswered \/ Wizard!TotpCards \/ Wizard!submitCode \/ Wizard!CodeAnswered
  BY <1>16, WizardStays
     DEF Wizard!SetupAnswered, Wizard!TotpCards, Wizard!submitCode, Wizard!CodeAnswered, Wizard!wizard
<1>17. CASE UNCHANGED Wizard!vars
  BY <1>17, WizardStays DEF Wizard!vars
<1> QED
  BY <1>1, <1>2, <1>3, <1>4, <1>5, <1>6, <1>7, <1>8, <1>10, <1>11, <1>12, <1>13, <1>14, <1>15, <1>16, <1>17
     DEF Wizard!Next

LEMMA WizardInit == Wizard!Init => WizardInv
<1> SUFFICES ASSUME Wizard!Init PROVE WizardInv
  OBVIOUS
<1>1. form = Wizard!EmptyForm /\ status = [f \in WizardField |-> "quiet"]
  BY DEF Wizard!Init
<1>2. form \in [WizardField -> Nat]
  BY <1>1 DEF Wizard!EmptyForm, Wizard!firstOptionId
<1> QED
  BY <1>1, <1>2 DEF WizardInv, CrossesTellTruth, Wizard!CrossesTellTruth

(***************************************************************************)
(* The checks and crosses tell the truth, in both wizards, for any fields, *)
(* values and rules: every field that looks at the one typed is checked    *)
(* again with it (useFieldChecks and the wizards' onBlur and onChange).    *)
(***************************************************************************)
THEOREM CrossesStayTrue == Wizard!Spec => []CrossesTellTruth
<1>1. WizardInv => CrossesTellTruth
  BY DEF WizardInv
<1> QED
  BY <1>1, WizardInit, WizardNext, PTL DEF Wizard!Spec

-----------------------------------------------------------------------------
(* A list cut in screens, or in pages.                                     *)

LEMMA Divided ==
    ASSUME NEW many \in Nat \ {0}, NEW s \in Nat
    PROVE  /\ (s * many) \div many = s
           /\ \A x \in Nat : x \div many = s => s * many <= x
  OBVIOUS

\* A tray is listed with the newest first, so many to a screen or a page.
Before(S, n) == {x \in S : x > n}
Place(S) == [n \in S |-> Cardinality(Before(S, n))]
Screenful(S, many, s) == {n \in S : Cardinality(Before(S, n)) \div many = s}

LEMMA PlaceOfItsOwn ==
    ASSUME NEW S \in SUBSET Nat, IsFiniteSet(S)
    PROVE  Place(S) \in Injection(S, 0 .. Cardinality(S) - 1)
<1>0. Cardinality(S) \in Nat
  BY FS_CardinalityType
<1>1. ASSUME NEW n \in S PROVE IsFiniteSet(Before(S, n)) /\ Cardinality(Before(S, n)) \in 0 .. Cardinality(S) - 1
  <2>1. Before(S, n) \in SUBSET (S \ {n})
    BY DEF Before
  <2>2. IsFiniteSet(S \ {n}) /\ Cardinality(S \ {n}) = Cardinality(S) - 1
    BY FS_RemoveElement
  <2>3. IsFiniteSet(Before(S, n)) /\ Cardinality(Before(S, n)) <= Cardinality(S) - 1
    BY <2>1, <2>2, FS_Subset
  <2>4. Cardinality(Before(S, n)) \in Nat
    BY <2>3, FS_CardinalityType
  <2> QED
    BY <1>0, <2>3, <2>4
<1>2. ASSUME NEW n \in S, NEW m \in S, m < n PROVE Cardinality(Before(S, n)) # Cardinality(Before(S, m))
  <2>0. n \in Nat /\ m \in Nat /\ \A x \in S : x \in Nat
    OBVIOUS
  <2>1. Before(S, n) \in SUBSET Before(S, m)
    <3> SUFFICES ASSUME NEW x \in S, x > n PROVE x > m
      BY DEF Before
    <3>1. x \in Nat
      BY <2>0
    <3> QED
      BY <1>2, <2>0, <3>1
  <2>3. n \in Before(S, m) /\ n \notin Before(S, n)
    BY <1>2, <2>0 DEF Before
  <2>2. Before(S, n) # Before(S, m)
    BY <2>3
  <2> QED
    BY <1>1, <2>1, <2>2, FS_Subset
<1>3. \A n, m \in S : Cardinality(Before(S, n)) = Cardinality(Before(S, m)) => n = m
  <2> SUFFICES ASSUME NEW n \in S, NEW m \in S, n # m
               PROVE  Cardinality(Before(S, n)) # Cardinality(Before(S, m))
    OBVIOUS
  <2>1. m < n \/ n < m
    OBVIOUS
  <2> QED
    BY <1>2, <2>1
<1> QED
  BY <1>1, <1>3 DEF Place, Injection, IsInjective

\* A screen with something on it has all the screens before it full.
LEMMA ScreensBefore ==
    ASSUME NEW S \in SUBSET Nat, IsFiniteSet(S), NEW many \in Nat \ {0}, NEW s \in Nat, Screenful(S, many, s) # {}
    PROVE  Cardinality(S) >= s * many + Cardinality(Screenful(S, many, s)) /\ Cardinality(Screenful(S, many, s)) \in Nat \ {0}
<1> DEFINE first == s * many
           here == Screenful(S, many, s)
           f == [n \in here |-> Cardinality(Before(S, n))]
<1>1. first \in Nat /\ Cardinality(S) \in Nat
  BY FS_CardinalityType
<1>2. \A x \in Nat : x \div many = s => first <= x
  BY Divided
<1> HIDE DEF first
<1>3. here \subseteq S
  BY DEF Screenful
<1>4. \A n \in here : f[n] \in first .. Cardinality(S) - 1
  <2> SUFFICES ASSUME NEW n \in here PROVE Cardinality(Before(S, n)) \in first .. Cardinality(S) - 1
    OBVIOUS
  <2>1. Place(S) \in [S -> 0 .. Cardinality(S) - 1] /\ n \in S
    BY <1>3, PlaceOfItsOwn DEF Injection
  <2>2. Cardinality(Before(S, n)) \in 0 .. Cardinality(S) - 1
    BY <2>1 DEF Place
  <2>3. Cardinality(Before(S, n)) \div many = s
    BY DEF Screenful
  <2> QED
    BY <1>1, <1>2, <2>2, <2>3
<1>5. f \in Injection(here, first .. Cardinality(S) - 1)
  BY <1>3, <1>4, PlaceOfItsOwn DEF Place, Injection, IsInjective
<1>6. IsFiniteSet(first .. Cardinality(S) - 1) /\ Cardinality(first .. Cardinality(S) - 1) = Cardinality(S) - first
  <2>1. first <= Cardinality(S) - 1
    BY <1>1, <1>4
  <2> QED
    BY <1>1, <2>1, FS_Interval
<1>7. IsFiniteSet(here) /\ Cardinality(here) <= Cardinality(S) - first
  BY <1>5, <1>6, FS_Injection
<1>8. Cardinality(here) \in Nat /\ Cardinality(here) # 0
  BY <1>7, FS_CardinalityType, FS_EmptySet
<1> QED
  BY <1>1, <1>7, <1>8 DEF first

\* And where there are enough there is something on it.
LEMMA ScreenHasSome ==
    ASSUME NEW S \in SUBSET Nat, IsFiniteSet(S), NEW many \in Nat \ {0}, NEW s \in Nat, Cardinality(S) > s * many
    PROVE  Screenful(S, many, s) # {}
<1> DEFINE first == s * many
           T == 0 .. Cardinality(S) - 1
<1>1. first \in Nat /\ Cardinality(S) \in Nat /\ first \div many = s
  BY FS_CardinalityType, Divided
<1>2. first < Cardinality(S)
  BY <1>1
<1> HIDE DEF first
<1>3. IsFiniteSet(T) /\ Cardinality(T) = Cardinality(S)
  <2>1. 0 \in Int /\ Cardinality(S) - 1 \in Int /\ ~(0 > Cardinality(S) - 1) /\ Cardinality(S) - 1 - 0 + 1 = Cardinality(S)
    BY <1>1, <1>2
  <2>2. IsFiniteSet(0 .. Cardinality(S) - 1)
    BY <2>1, FS_Interval
  <2>3. Cardinality(0 .. Cardinality(S) - 1) = Cardinality(S) - 1 - 0 + 1
    BY <2>1, FS_Interval
  <2> QED
    BY <2>1, <2>2, <2>3
<1>4. Place(S) \in Surjection(S, T)
  BY <1>3, PlaceOfItsOwn, FS_Injection
<1>5. PICK n \in S : Place(S)[n] = first
  BY <1>1, <1>2, <1>4 DEF Surjection
<1> QED
  BY <1>1, <1>5 DEF Place, Screenful

-----------------------------------------------------------------------------
(* The tray of the adults.                                                 *)

TraySize ==
    /\ \A S : Notifications!IsFiniteSet(S) <=> IsFiniteSet(S)
    /\ \A S : Notifications!Cardinality(S) = Cardinality(S)
LEMMA TraySizes ==
    /\ TraySize
    /\ PAGE_SIZE \in Nat \ {0} /\ IsFiniteSet(Notifications!Number) /\ Notifications!Number \subseteq Nat
    /\ "received" \in Notifications!Box /\ \A b \in Notifications!Box : trayAtFirst[b] \subseteq Notifications!Number
<1>1. TraySize
  BY DEF TraySize, Notifications!IsFiniteSet, IsFiniteSet, Notifications!Cardinality, Cardinality
<1>2. MaxNumber \in Nat /\ IsFiniteSet(1..MaxNumber)
  BY PortalAssumption, FS_Interval DEF Notifications!TrayAssumption
<1> QED
  BY <1>1, <1>2, PortalAssumption DEF Notifications!TrayAssumption, Notifications!Number

Listing == trays[at[1]]
TrayTyped ==
    /\ DOMAIN trays = Notifications!Box
    /\ \A b \in Notifications!Box : trays[b] \subseteq Notifications!Number
    /\ at \in Notifications!Box \X (Nat \ {0}) /\ unmoved \in BOOLEAN
    /\ \A r \in requests : /\ DOMAIN r = {"ids", "many", "closes", "back", "done", "again"}
                           /\ r.done \in BOOLEAN /\ r.back \in Nat

(***************************************************************************)
(* The inductive invariant: while the person waits for the only deletion,  *)
(* what was on their page when they accepted it tells how many are left at *)
(* least: enough for that page, or for the one before if it goes back.     *)
(***************************************************************************)
LeftBy(r) == Cardinality(Listing) - (IF r.done THEN 0 ELSE Cardinality(r.ids))
Remains(r) ==
    /\ IsFiniteSet(r.ids)
    /\ r.back > 0 => r.back = at[2] - 1 /\ LeftBy(r) >= (at[2] - 1) * PAGE_SIZE
    /\ r.back = 0 => at[2] = 1 \/ LeftBy(r) > (at[2] - 1) * PAGE_SIZE
TrayInv ==
    /\ TrayTyped
    /\ unmoved => \A r \in requests : Remains(r)
    /\ unmoved => \A r, q \in requests : r = q

LEMMA BoxFinite ==
    ASSUME NEW S \in SUBSET Notifications!Number
    PROVE  S \in SUBSET Nat /\ IsFiniteSet(S) /\ Cardinality(S) \in Nat
  BY TraySizes, FS_Subset, FS_CardinalityType
LEMMA ListingFinite ==
    ASSUME TrayTyped
    PROVE  Listing \in SUBSET Nat /\ IsFiniteSet(Listing) /\ Cardinality(Listing) \in Nat
<1>1. at[1] \in Notifications!Box
  BY DEF TrayTyped
<1>2. Listing \in SUBSET Notifications!Number
  BY <1>1 DEF TrayTyped, Listing
<1> QED
  BY <1>2, BoxFinite

LEMMA TrayInit == Notifications!Init => TrayInv
<1> SUFFICES ASSUME Notifications!Init PROVE TrayInv
  OBVIOUS
<1>1. trays = trayAtFirst /\ at = <<"received", 1>> /\ requests = {} /\ unmoved = FALSE
  BY DEF Notifications!Init
<1>2. DOMAIN trays = Notifications!Box
  BY <1>1 DEF Notifications!Box
<1>3. at \in Notifications!Box \X (Nat \ {0})
  BY <1>1, TraySizes
<1>4. TrayTyped
  BY <1>1, <1>2, <1>3, TraySizes DEF TrayTyped
<1> QED
  BY <1>1, <1>4 DEF TrayInv

\* Nothing is asked for, done or answered, and nothing goes away.
LEMMA TrayStays ==
    ASSUME TrayInv, requests' = requests, DOMAIN trays' = DOMAIN trays,
           \A b \in Notifications!Box : trays[b] \subseteq trays'[b] /\ trays'[b] \subseteq Notifications!Number,
           at' \in Notifications!Box \X (Nat \ {0}), unmoved' \in {FALSE, unmoved /\ at' = at}
    PROVE  TrayInv'
<1>1. TrayTyped'
  BY DEF TrayInv, TrayTyped
<1> SUFFICES ASSUME unmoved, at' = at, NEW r \in requests PROVE Remains(r)'
  BY <1>1 DEF TrayInv
<1>2. Remains(r) /\ r.done \in BOOLEAN /\ at[1] \in Notifications!Box
  BY DEF TrayInv, TrayTyped
<1>3. Listing \subseteq Listing' /\ Listing' \in SUBSET Notifications!Number
  BY <1>2 DEF Listing
<1>4. Cardinality(Listing) \in Nat /\ IsFiniteSet(Listing') /\ Cardinality(Listing') \in Nat
  BY <1>3, ListingFinite, BoxFinite DEF TrayInv
<1>5. Cardinality(Listing) <= Cardinality(Listing')
  BY <1>3, <1>4, FS_Subset
<1>6. Cardinality(r.ids) \in Nat /\ at[2] \in Nat \ {0} /\ (at[2] - 1) * PAGE_SIZE \in Nat
  BY <1>2, TraySizes, FS_CardinalityType DEF Remains, TrayInv, TrayTyped
<1> DEFINE first == (at[2] - 1) * PAGE_SIZE
<1>7. LeftBy(r)' >= LeftBy(r) /\ LeftBy(r) \in Int /\ LeftBy(r)' \in Int
  BY <1>2, <1>4, <1>5, <1>6 DEF LeftBy
<1>8. first \in Nat
  BY <1>6
<1>9. /\ IsFiniteSet(r.ids)
      /\ r.back > 0 => r.back = at[2] - 1 /\ LeftBy(r) >= first
      /\ r.back = 0 => at[2] = 1 \/ LeftBy(r) > first
  BY <1>2 DEF Remains
<1>10. first' = first
  OBVIOUS
<1> HIDE DEF first
<1>11. /\ r.back > 0 => r.back = at[2] - 1 /\ LeftBy(r)' >= first
       /\ r.back = 0 => at[2] = 1 \/ LeftBy(r)' > first
  BY <1>7, <1>8, <1>9
<1> QED
  BY <1>9, <1>11 DEF Remains, first

\* What is on the page that is up to date.
LEMMA OnThePage ==
    ASSUME TrayTyped PROVE Notifications!Fetched(at).items = Screenful(Listing, PAGE_SIZE, at[2] - 1)
  BY TraySizes DEF TraySize, Notifications!Fetched, Screenful, Before, Listing

\* What is asked for is on the page: the whole of it, or less.
LEMMA TrayDeletionAsked ==
    ASSUME TrayInv, NEW ids, NEW many, Notifications!Send(ids, many), unmoved' = (requests = {} /\ Notifications!UpToDate),
           IF many THEN ids \subseteq Notifications!items ELSE \E n : ids = {n}
    PROVE  TrayInv'
<1> DEFINE whole == Notifications!WholePage(ids, many)
<1>0. PICK new : new = [ids |-> ids, many |-> many, closes |-> opened \in ids,
                        back |-> IF whole THEN at[2] - 1 ELSE 0, done |-> FALSE, again |-> {}]
  OBVIOUS
<1>1. requests' = requests \cup {new} /\ UNCHANGED <<trays, at>>
  BY <1>0 DEF Notifications!Send, Notifications!data, Notifications!page
<1>2. at[1] \in Notifications!Box /\ at[2] \in Nat \ {0}
  BY DEF TrayInv, TrayTyped
<1>3. /\ DOMAIN new = {"ids", "many", "closes", "back", "done", "again"} /\ new.done = FALSE /\ new.ids = ids
      /\ new.back \in {0, at[2] - 1} /\ (whole => new.back = at[2] - 1) /\ (~whole => new.back = 0)
      /\ new.back \in Nat
  BY <1>0, <1>2
<1>4. TrayTyped'
  BY <1>1, <1>3, <1>2 DEF TrayInv, TrayTyped
<1> SUFFICES ASSUME requests = {}, Notifications!UpToDate PROVE Remains(new)'
  BY <1>1, <1>4 DEF TrayInv
<1> DEFINE here == Screenful(Listing, PAGE_SIZE, at[2] - 1)
           first == (at[2] - 1) * PAGE_SIZE
<1>5. Notifications!items = here /\ here # {}
  BY OnThePage DEF Notifications!UpToDate, TrayInv
<1>6. Cardinality(Listing) >= first + Cardinality(here) /\ Cardinality(here) \in Nat \ {0} /\ IsFiniteSet(here)
  <2>1. here \subseteq Listing
    BY DEF Screenful
  <2>2. at[2] - 1 \in Nat /\ Listing \in SUBSET Nat /\ IsFiniteSet(Listing) /\ PAGE_SIZE \in Nat \ {0}
    BY <1>2, ListingFinite, TraySizes DEF TrayInv
  <2>3. IsFiniteSet(here)
    BY <2>1, <2>2, FS_Subset
  <2> HIDE DEF here
  <2> QED
    BY <1>5, <2>2, <2>3, ScreensBefore DEF here
<1> HIDE DEF here
<1>7. IsFiniteSet(ids) /\ Cardinality(ids) \in Nat
      /\ Cardinality(ids) <= Cardinality(here) /\ (~whole => Cardinality(ids) < Cardinality(here))
  <2>0. /\ many /\ ~whole => Cardinality(here) # Cardinality(ids)
        /\ ~many /\ ~whole => Cardinality(here) # 1
    BY <1>5, TraySizes DEF TraySize, Notifications!WholePage
  <2>1. CASE many
    <3>1. IsFiniteSet(ids) /\ Cardinality(ids) <= Cardinality(here)
      BY <1>5, <1>6, <2>1, FS_Subset
    <3>2. Cardinality(ids) \in Nat
      BY <3>1, FS_CardinalityType
    <3>3. ASSUME ~whole PROVE Cardinality(ids) < Cardinality(here)
      <4>1. Cardinality(here) # Cardinality(ids)
        BY <2>0, <2>1, <3>3
      <4> QED
        BY <1>6, <3>1, <3>2, <4>1
    <3> QED
      BY <3>1, <3>2, <3>3
  <2>2. CASE ~many
    <3>1. IsFiniteSet(ids) /\ Cardinality(ids) = 1
      BY <2>2, FS_Singleton
    <3>2. ASSUME ~whole PROVE Cardinality(ids) < Cardinality(here)
      <4>1. Cardinality(here) # 1
        BY <2>0, <2>2, <3>2
      <4> QED
        BY <1>6, <3>1, <4>1
    <3>3. Cardinality(ids) \in Nat /\ Cardinality(ids) <= Cardinality(here)
      BY <1>6, <3>1
    <3> QED
      BY <3>1, <3>2, <3>3
  <2> QED
    BY <2>1, <2>2
<1> HIDE DEF whole
<1>8. first \in Nat /\ Cardinality(Listing) \in Nat
  BY <1>2, TraySizes, ListingFinite DEF TrayInv
<1> HIDE DEF first
<1>9. /\ LeftBy(new)' = Cardinality(Listing) - Cardinality(ids)
      /\ first' = first
  BY <1>1, <1>3 DEF LeftBy, Listing, first
<1>10. /\ new.back > 0 => new.back = at[2] - 1 /\ LeftBy(new)' >= first
       /\ new.back = 0 => at[2] = 1 \/ LeftBy(new)' > first
  BY <1>3, <1>2, <1>6, <1>7, <1>8, <1>9
<1> QED
  BY <1>1, <1>3, <1>7, <1>10 DEF Remains, first

LEMMA TrayDeletionDone ==
    ASSUME TrayInv, NEW r \in requests, Notifications!ServerDeletes(r), unmoved' = (unmoved /\ at' = at) PROVE TrayInv'
<1>0. PICK now : now = [r EXCEPT !.done = TRUE, !.again = {at}]
  OBVIOUS
<1>1. /\ ~r.done /\ at' = at /\ requests' = (requests \ {r}) \cup {now}
      /\ trays' = [b \in Notifications!Box |-> trays[b] \ r.ids]
  BY <1>0 DEF Notifications!ServerDeletes
<1>2. DOMAIN r = {"ids", "many", "closes", "back", "done", "again"} /\ r.back \in Nat
  BY DEF TrayInv, TrayTyped
<1>3. /\ DOMAIN now = {"ids", "many", "closes", "back", "done", "again"} /\ now.done = TRUE
      /\ now.ids = r.ids /\ now.back = r.back
  BY <1>0, <1>2
<1>4. TrayTyped'
  BY <1>1, <1>2, <1>3 DEF TrayInv, TrayTyped
<1> SUFFICES ASSUME unmoved PROVE requests' = {now} /\ Remains(now)'
  BY <1>1, <1>4 DEF TrayInv
<1>5. requests = {r} /\ Remains(r)
  BY DEF TrayInv
<1>6. Listing' = Listing \ r.ids /\ Listing \in SUBSET Notifications!Number
  BY <1>1 DEF TrayInv, TrayTyped, Listing
<1>7. /\ Cardinality(Listing') >= Cardinality(Listing) - Cardinality(r.ids)
      /\ Cardinality(Listing) \in Nat /\ Cardinality(Listing') \in Nat /\ Cardinality(r.ids) \in Nat
  <2>1. IsFiniteSet(r.ids) /\ IsFiniteSet(Listing) /\ IsFiniteSet(Listing')
    BY <1>5, <1>6, BoxFinite DEF Remains
  <2>2. Cardinality(Listing) \in Nat /\ Cardinality(Listing') \in Nat /\ Cardinality(r.ids) \in Nat
    BY <2>1, FS_CardinalityType
  <2>3. IsFiniteSet(Listing' \cup r.ids)
        /\ Cardinality(Listing' \cup r.ids) = Cardinality(Listing') + Cardinality(r.ids) - Cardinality(Listing' \cap r.ids)
    BY <2>1, FS_Union
  <2>4. Cardinality(Listing' \cap r.ids) \in Nat /\ Cardinality(Listing' \cup r.ids) \in Nat
    BY <2>1, <2>3, FS_Intersection, FS_CardinalityType
  <2>5. Listing \subseteq Listing' \cup r.ids
    BY <1>6
  <2>6. Cardinality(Listing) <= Cardinality(Listing' \cup r.ids)
    BY <2>3, <2>5, FS_Subset
  <2> QED
    BY <2>2, <2>3, <2>4, <2>6
<1> DEFINE first == (at[2] - 1) * PAGE_SIZE
<1>8. first \in Nat
  BY TraySizes DEF TrayInv, TrayTyped
<1>9. /\ IsFiniteSet(r.ids)
      /\ r.back > 0 => r.back = at[2] - 1 /\ LeftBy(r) >= first
      /\ r.back = 0 => at[2] = 1 \/ LeftBy(r) > first
  BY <1>5 DEF Remains
<1> HIDE DEF first
<1>10. LeftBy(now)' >= LeftBy(r) /\ LeftBy(r) \in Int /\ LeftBy(now)' \in Int
  BY <1>1, <1>3, <1>7 DEF LeftBy
<1>11. /\ r.back > 0 => r.back = at[2] - 1 /\ LeftBy(now)' >= first
       /\ r.back = 0 => at[2] = 1 \/ LeftBy(now)' > first
  BY <1>8, <1>9, <1>10
<1> QED
  BY <1>1, <1>3, <1>5, <1>9, <1>11 DEF Remains, first

\* A deletion is answered, or failed, and nobody waits any more.
LEMMA TrayDeletionOver ==
    ASSUME TrayInv, NEW r \in requests, Notifications!onDeleted(r) \/ Notifications!setActionError(r),
           unmoved' = (unmoved /\ at' = at)
    PROVE  TrayInv'
<1>1. /\ requests' = requests \ {r} /\ UNCHANGED trays
      /\ at' = at \/ (r.back > 0 /\ at' = <<at[1], r.back>>)
  BY DEF Notifications!onDeleted, Notifications!setActionError, Notifications!data, Notifications!Listed, Notifications!box
<1>2. at' \in Notifications!Box \X (Nat \ {0})
  BY <1>1 DEF TrayInv, TrayTyped
<1>3. TrayTyped'
  BY <1>1, <1>2 DEF TrayInv, TrayTyped
<1>4. unmoved => requests' = {}
  BY <1>1 DEF TrayInv
<1>5. unmoved' => unmoved
  OBVIOUS
<1> QED
  BY <1>3, <1>4, <1>5 DEF TrayInv

LEMMA TraySteps == ASSUME TrayInv, Notifications!Step, unmoved' = (unmoved /\ at' = at) PROVE TrayInv'
<1>0. /\ DOMAIN trays = Notifications!Box /\ "received" \in Notifications!Box
      /\ at \in Notifications!Box \X (Nat \ {0}) /\ at[1] \in Notifications!Box /\ at[2] \in Nat \ {0}
      /\ \A b \in Notifications!Box : trays[b] \subseteq Notifications!Number
  BY TraySizes DEF TrayInv, TrayTyped
\* What only looks, on a page or another.
<1>1. ASSUME UNCHANGED <<trays, requests>>, at' \in Notifications!Box \X (Nat \ {0}) PROVE TrayInv'
  BY <1>0, <1>1, TrayStays
<1>2. CASE Notifications!useNotificationTray
  BY <1>0, <1>1, <1>2 DEF Notifications!useNotificationTray, Notifications!Listed
<1>3. CASE Notifications!openEdge \/ Notifications!onBack
  BY <1>0, <1>1, <1>3 DEF Notifications!openEdge, Notifications!onBack, Notifications!data
<1>4. CASE Notifications!toggleAll \/ Notifications!askDeleteMany \/ Notifications!onCancel
  BY <1>0, <1>1, <1>4 DEF Notifications!toggleAll, Notifications!Ticked, Notifications!askDeleteMany, Notifications!onCancel,
                          Notifications!data
<1>5. ASSUME NEW n, Notifications!NotificationRow(n) \/ Notifications!toggle(n) \/ Notifications!askDelete(n) PROVE TrayInv'
  BY <1>0, <1>1, <1>5 DEF Notifications!NotificationRow, Notifications!toggle, Notifications!Ticked, Notifications!askDelete,
                          Notifications!data
<1>6. ASSUME NEW n \in Notifications!Number, Notifications!Arrives(n) PROVE TrayInv'
  <2>1. trays' = [trays EXCEPT !["received"] = @ \cup {n}] /\ UNCHANGED <<at, requests>>
    BY <1>6 DEF Notifications!Arrives
  <2>2. /\ DOMAIN trays' = DOMAIN trays
        /\ \A b \in Notifications!Box : trays[b] \subseteq trays'[b] /\ trays'[b] \subseteq Notifications!Number
    BY <1>0, <2>1
  <2> QED
    BY <1>0, <2>1, <2>2, TrayStays
<1>7. ASSUME NEW d, Notifications!step(d) PROVE TrayInv'
  <2> DEFINE beyond == {n \in Notifications!items : IF d = "next" THEN n < opened ELSE n > opened}
             beside == IF d = "next" THEN at[2] + 1 ELSE at[2] - 1
  <2>1. UNCHANGED <<trays, requests>> /\ (at' = at \/ (beyond = {} /\ at' = <<at[1], beside>>))
    BY <1>7 DEF Notifications!step, Notifications!Listed, Notifications!data, Notifications!box, Notifications!page
  <2>2. CASE beyond = {} /\ d # "next"
    <3>1. {n \in Notifications!items : n > opened} = {}
      BY <2>2
    <3>2. Notifications!Place = 0
      BY <3>1, TraySizes, FS_EmptySet DEF TraySize, Notifications!Place
    <3>3. at[2] > 1
      BY <1>7, <2>2, <3>2 DEF Notifications!step, Notifications!onPrev, Notifications!page
    <3> QED
      BY <1>0, <1>1, <2>1, <3>3
  <2>3. CASE d = "next"
    BY <1>0, <1>1, <2>1, <2>3
  <2> QED
    BY <1>0, <1>1, <2>1, <2>2, <2>3
<1>8. ASSUME NEW p \in 1..Notifications!LastPage, Notifications!changePage(p) PROVE TrayInv'
  <2>1. p \in Nat \ {0} /\ at' = <<at[1], p>> /\ UNCHANGED <<trays, requests>>
    BY <1>8 DEF Notifications!changePage, Notifications!Listed, Notifications!box
  <2> QED
    BY <1>0, <1>1, <2>1
<1>9. ASSUME NEW b \in Notifications!Box, Notifications!changeBox(b) PROVE TrayInv'
  BY <1>1, <1>9 DEF Notifications!changeBox, Notifications!Listed
<1> QED
  BY <1>2, <1>3, <1>4, <1>5, <1>6, <1>7, <1>8, <1>9, TrayDeletionDone, TrayDeletionOver DEF Notifications!Step

LEMMA TrayNext == ASSUME TrayInv, [Notifications!Next]_Notifications!vars PROVE TrayInv'
<1>1. CASE Notifications!Step /\ unmoved' = (unmoved /\ at' = at)
  BY <1>1, TraySteps
<1>2. CASE (Notifications!confirmDelete \/ Notifications!confirmDeleteMany)
           /\ unmoved' = (requests = {} /\ Notifications!UpToDate)
  <2>1. CASE Notifications!confirmDelete
    <3>1. PICK many : ~many /\ Notifications!Send({toDelete}, many)
      BY <2>1 DEF Notifications!confirmDelete
    <3> QED
      BY <1>2, <3>1, TrayDeletionAsked
  <2>2. CASE Notifications!confirmDeleteMany
    <3>1. PICK many : many /\ Notifications!Send(Notifications!selected, many)
      BY <2>2 DEF Notifications!confirmDeleteMany
    <3>2. Notifications!selected \subseteq Notifications!items
      BY DEF Notifications!selected
    <3> QED
      BY <1>2, <3>1, <3>2, TrayDeletionAsked
  <2> QED
    BY <1>2, <2>1, <2>2
<1>3. ASSUME NEW n, Notifications!GoesElsewhere(n), unmoved' = FALSE PROVE TrayInv'
  <2>1. trays' = [trays EXCEPT !["received"] = @ \ {n}] /\ UNCHANGED <<at, requests>>
    BY <1>3 DEF Notifications!GoesElsewhere
  <2>2. /\ DOMAIN trays' = DOMAIN trays
        /\ \A b \in Notifications!Box : trays'[b] \subseteq trays[b]
    BY <2>1 DEF TrayInv, TrayTyped
  <2>3. TrayTyped'
    BY <1>3, <2>1, <2>2 DEF TrayInv, TrayTyped
  <2> QED
    BY <1>3, <2>3 DEF TrayInv
<1>4. CASE UNCHANGED Notifications!vars
  <2>1. UNCHANGED <<trays, at, requests, unmoved>>
    BY <1>4 DEF Notifications!vars, Notifications!trayVars
  <2> QED
    BY <2>1 DEF TrayInv, TrayTyped, Remains, LeftBy, Listing
<1> QED
  BY <1>1, <1>2, <1>3, <1>4 DEF Notifications!Next

\* What the answer of a deletion leaves on screen.
SomethingListed == Notifications!Fetched(at).items # {} \/ trays[at[1]] = {}
LeavesAPage == \A r \in requests \ requests' : (r.done /\ unmoved) => SomethingListed'

LEMMA PageIsLeft ==
    ASSUME TrayInv, TrayTyped', NEW r \in requests, r.done, unmoved, Notifications!onDeleted(r) PROVE SomethingListed'
<1>1. trays' = trays /\ at' = (IF r.back > 0 THEN <<at[1], r.back>> ELSE at)
  BY DEF Notifications!onDeleted, Notifications!Listed, Notifications!box
<1>2. Remains(r) /\ r.back \in Nat /\ at \in Notifications!Box \X (Nat \ {0})
  BY DEF TrayInv, TrayTyped
<1>3. at'[1] = at[1] /\ Listing' = Listing
  BY <1>1 DEF Listing
<1>4. LeftBy(r) = Cardinality(Listing) /\ Cardinality(Listing) \in Nat /\ Listing \in SUBSET Nat /\ IsFiniteSet(Listing)
      /\ PAGE_SIZE \in Nat \ {0}
  <2>1. Cardinality(Listing) \in Nat /\ Listing \in SUBSET Nat /\ IsFiniteSet(Listing) /\ PAGE_SIZE \in Nat \ {0}
    BY TraySizes, ListingFinite DEF TrayInv
  <2> QED
    BY <2>1 DEF LeftBy
<1> DEFINE ahead == at'[2] - 1
<1>5. ahead \in Nat /\ (ahead = 0 \/ Cardinality(Listing) > ahead * PAGE_SIZE)
  <2>1. CASE r.back > 0
    <3>1. r.back = at[2] - 1 /\ Cardinality(Listing) >= (at[2] - 1) * PAGE_SIZE /\ ahead = r.back - 1
      BY <1>1, <1>4, <2>1, <1>2 DEF Remains
    <3>2. r.back * PAGE_SIZE = ahead * PAGE_SIZE + PAGE_SIZE /\ ahead * PAGE_SIZE \in Nat /\ ahead \in Nat
      BY <1>2, <1>4, <2>1, <3>1
    <3> HIDE DEF ahead
    <3> QED
      BY <1>4, <3>1, <3>2
  <2>2. CASE r.back = 0
    BY <1>1, <1>2, <1>4, <2>2 DEF Remains
  <2> QED
    BY <1>2, <2>1, <2>2
<1> HIDE DEF ahead
<1>6. (Notifications!Fetched(at).items)' = Screenful(Listing, PAGE_SIZE, ahead)
  BY <1>3, TraySizes DEF TraySize, Notifications!Fetched, Screenful, Before, Listing, ahead
<1>7. CASE ahead = 0 /\ Cardinality(Listing) = 0
  BY <1>3, <1>4, <1>7, FS_EmptySet DEF SomethingListed, Listing
<1>8. CASE Cardinality(Listing) > ahead * PAGE_SIZE
  BY <1>4, <1>5, <1>6, <1>8, ScreenHasSome DEF SomethingListed
<1> QED
  BY <1>4, <1>5, <1>7, <1>8

(***************************************************************************)
(* "It was the only one of its page, so the page before is shown": a       *)
(* deletion leaves the person on a page with something on it, or with an   *)
(* empty box, for any boxes, trays and sizes of a page, whatever arrives   *)
(* meanwhile (NotificacionesSection's and TeacherInbox's confirmDelete).   *)
(***************************************************************************)
THEOREM DeletionsLeaveAPage == Notifications!Spec => DeletionLeavesAPage
<1>1. ASSUME TrayInv, [Notifications!Next]_Notifications!vars PROVE [LeavesAPage]_Notifications!vars
  <2>0. TrayTyped'
    BY <1>1, TrayNext DEF TrayInv
  <2> SUFFICES ASSUME Notifications!Next, NEW r \in requests, r \notin requests', r.done, unmoved,
                      ~Notifications!onDeleted(r)
               PROVE  FALSE
    BY <1>1, <2>0, PageIsLeft DEF LeavesAPage
  <2>1. ASSUME NEW q \in requests, Notifications!ServerDeletes(q) \/ Notifications!onDeleted(q) \/ Notifications!setActionError(q)
        PROVE  FALSE
    <3>1. requests \ {q} \subseteq requests'
      BY <2>1 DEF Notifications!ServerDeletes, Notifications!onDeleted, Notifications!setActionError
    <3>2. q = r
      BY <3>1
    <3> QED
      BY <2>1, <3>2 DEF Notifications!ServerDeletes, Notifications!setActionError
  <2>2. ASSUME requests \subseteq requests' PROVE FALSE
    BY <2>2
  <2>3. CASE Notifications!confirmDelete \/ Notifications!confirmDeleteMany
    BY <2>2, <2>3 DEF Notifications!confirmDelete, Notifications!confirmDeleteMany, Notifications!Send
  <2>4. ASSUME NEW n, Notifications!NotificationRow(n) \/ Notifications!toggle(n) \/ Notifications!askDelete(n)
                      \/ Notifications!Arrives(n) \/ Notifications!GoesElsewhere(n)
        PROVE  FALSE
    BY <2>2, <2>4 DEF Notifications!NotificationRow, Notifications!toggle, Notifications!Ticked, Notifications!askDelete,
                      Notifications!Arrives, Notifications!GoesElsewhere
  <2>5. ASSUME NEW d, Notifications!step(d) \/ Notifications!changePage(d) \/ Notifications!changeBox(d) PROVE FALSE
    BY <2>2, <2>5 DEF Notifications!step, Notifications!changePage, Notifications!changeBox
  <2>6. CASE Notifications!toggleAll \/ Notifications!askDeleteMany \/ Notifications!onCancel
    BY <2>2, <2>6 DEF Notifications!toggleAll, Notifications!Ticked, Notifications!askDeleteMany, Notifications!onCancel
  <2>7. CASE Notifications!useNotificationTray \/ Notifications!openEdge \/ Notifications!onBack
    BY <2>2, <2>7 DEF Notifications!useNotificationTray, Notifications!openEdge, Notifications!onBack
  <2> QED
    BY <2>1, <2>3, <2>4, <2>5, <2>6, <2>7 DEF Notifications!Next, Notifications!Step
<1>2. TrayInv /\ [Notifications!Next]_Notifications!vars => TrayInv'
  BY TrayNext
<1>3. LeavesAPage <=> \A r \in requests \ requests' :
        (r.done /\ unmoved) => (Notifications!Fetched(at).items # {} \/ trays[Notifications!box] = {})'
  BY DEF LeavesAPage, SomethingListed, Notifications!box
<1> QED
  BY <1>1, <1>2, <1>3, TrayInit, PTL
     DEF Notifications!Spec, DeletionLeavesAPage, Notifications!DeletionLeavesAPage

-----------------------------------------------------------------------------
(* The picture of a class.                                                 *)

Fit == [zoom : Nat \ {0}, x : Int, y : Int, rotation : Int, flipped : BOOLEAN]
CropMade == [of : Picture!Picture \ Broken, view : Fit]
FitTyped ==
    /\ view \in Fit
    /\ gesture.view \in Fit
    /\ file \in Picture!Picture \cup {"none"}
    /\ image \in (Picture!Picture \ Broken) \cup {"none"}
    /\ loading \subseteq Picture!Picture
    /\ timer => Picture!Loaded
    /\ encoding \in Seq(CropMade) /\ passed \in 0..Len(encoding) /\ outdated \in BOOLEAN
(***************************************************************************)
(* The inductive invariant: unless one more will be made, the last crop    *)
(* begun is that of the picture on screen; it is being made while it was   *)
(* not passed, and it is the one there is once it came, or none after it.  *)
(***************************************************************************)
Shown == [of |-> image, view |-> view]
CropFollows ==
    (Picture!Loaded /\ image = file /\ file \notin loading /\ ~timer) =>
        IF passed < Len(encoding) THEN encoding[Len(encoding)] = Shown ELSE ~outdated => crop = Shown
LogoInv == FitTyped /\ Picture!FrameIsCovered /\ CropFollows

LEMMA LogoSizes ==
    /\ FRAME \in Nat /\ FRAME \div 2 \in Nat /\ FRAME = 2 * (FRAME \div 2) /\ MAX_ZOOM \in Nat \ {0} /\ STEP \in Nat
    /\ "none" \notin Picture!Picture
    /\ \A p \in Picture!Picture : \A r : /\ Picture!turnedSize(p, r).width \in Nat \ {0}
                                          /\ Picture!turnedSize(p, r).height \in Nat \ {0}
<1>1. FRAME \in Nat /\ FRAME % 2 = 0 /\ MAX_ZOOM \in Nat \ {0} /\ STEP \in Nat /\ "none" \notin Picture!Picture
  BY PortalAssumption DEF Picture!LogoAssumption
<1>2. FRAME \div 2 \in Nat /\ FRAME = 2 * (FRAME \div 2)
  BY <1>1
<1>3. \A p \in Picture!Picture : size[p].width \in Nat \ {0} /\ size[p].height \in Nat \ {0}
  BY PortalAssumption DEF Picture!LogoAssumption
<1>4. ASSUME NEW p \in Picture!Picture, NEW r
      PROVE  Picture!turnedSize(p, r).width \in Nat \ {0} /\ Picture!turnedSize(p, r).height \in Nat \ {0}
  BY <1>3 DEF Picture!turnedSize
<1> QED
  BY <1>1, <1>2, <1>4

\* Half of what a side is drawn with, at any zoom.
LEMMA HalfSide ==
    ASSUME NEW side \in Nat \ {0}, NEW zoom \in Nat \ {0}
    PROVE  \E p \in Nat : /\ p >= FRAME \div 2 /\ (side * FRAME * zoom) \div 2 = p
                          /\ (side * (FRAME * zoom) - FRAME) \div 2 = p - FRAME \div 2
<1> DEFINE h == FRAME \div 2
           n == side * zoom
<1>1. h \in Nat /\ FRAME = 2 * h
  BY LogoSizes
<1>2. n \in Nat \ {0}
  OBVIOUS
<1>3. side * FRAME * zoom = 2 * (h * n) /\ side * (FRAME * zoom) = 2 * (h * n)
  BY <1>1
<1> HIDE DEF h, n
<1>4. h * n \in Nat /\ h * n >= h
  BY <1>1, <1>2
<1> DEFINE p == h * n
<1> HIDE DEF p
<1>5. (2 * p) \div 2 = p /\ (2 * p - 2 * h) \div 2 = p - h /\ p \in Nat /\ p >= h
  BY <1>1, <1>4 DEF p
<1>6. side * FRAME * zoom = 2 * p /\ side * (FRAME * zoom) - FRAME = 2 * p - 2 * h
  BY <1>1, <1>3 DEF p
<1> QED
  BY <1>5, <1>6 DEF h

\* Held within its limits, a side covers the frame, wherever it was moved.
LEMMA WithinCovers ==
    ASSUME NEW c \in Int, NEW side \in Nat \ {0}, NEW v \in Fit
    PROVE  LET half == (side * FRAME * v.zoom) \div 2
               to == Picture!Within(c, side, v)
           IN  to \in Int /\ to - half <= -(FRAME \div 2) /\ to + half >= FRAME \div 2
<1>1. v.zoom \in Nat \ {0} /\ FRAME \div 2 \in Nat
  BY LogoSizes DEF Fit
<1>2. PICK p \in Nat : /\ p >= FRAME \div 2 /\ (side * FRAME * v.zoom) \div 2 = p
                       /\ (side * (FRAME * v.zoom) - FRAME) \div 2 = p - FRAME \div 2
  BY <1>1, HalfSide
<1> DEFINE most == p - FRAME \div 2
<1>3. most \in Nat /\ Picture!SideMax(0, most) = most
  BY <1>1, <1>2 DEF Picture!SideMax
<1>4. Picture!Within(c, side, v) = Picture!SideMin(most, Picture!SideMax(-most, c))
  BY <1>2, <1>3 DEF Picture!Within, Picture!scaleFor
<1>5. /\ Picture!Within(c, side, v) \in Int
      /\ -most <= Picture!Within(c, side, v) /\ Picture!Within(c, side, v) <= most
  BY <1>3, <1>4 DEF Picture!SideMin, Picture!SideMax
<1> QED
  BY <1>1, <1>2, <1>5

Zoomed(v, z, x, y) == [v EXCEPT !.zoom = z, !.x = x, !.y = y]
LEMMA FitZoomed ==
    ASSUME NEW v \in Fit, NEW z, NEW x, NEW y
    PROVE  Zoomed(v, z, x, y) = [zoom |-> z, x |-> x, y |-> y, rotation |-> v.rotation, flipped |-> v.flipped]
<1> DEFINE Of(c, a, b) == [zoom |-> c, x |-> a, y |-> b, rotation |-> v.rotation, flipped |-> v.flipped]
<1>1. v = Of(v.zoom, v.x, v.y)
  BY DEF Fit
<1>2. /\ \A c, a, b, new : [Of(c, a, b) EXCEPT !.x = new] = Of(c, new, b)
      /\ \A c, a, b, new : [Of(c, a, b) EXCEPT !.y = new] = Of(c, a, new)
      /\ \A c, a, b, new : [Of(c, a, b) EXCEPT !.zoom = new] = Of(new, a, b)
  OBVIOUS
<1> DEFINE zoomed == [v EXCEPT !.zoom = z]
           once == [zoomed EXCEPT !.x = x]
<1>3. Zoomed(v, z, x, y) = [once EXCEPT !.y = y]
  BY DEF Zoomed
<1> HIDE DEF Of
<1>4. zoomed = Of(z, v.x, v.y)
  BY <1>1, <1>2
<1> HIDE DEF zoomed
<1>5. once = Of(z, x, v.y)
  BY <1>2, <1>4
<1> HIDE DEF once
<1> QED
  BY <1>2, <1>3, <1>5 DEF Of

LEMMA FitMoved ==
    ASSUME NEW v \in Fit, NEW x, NEW y
    PROVE  [v EXCEPT !.x = x, !.y = y] =
             [zoom |-> v.zoom, x |-> x, y |-> y, rotation |-> v.rotation, flipped |-> v.flipped]
<1>1. [v EXCEPT !.x = x, !.y = y] = Zoomed(v, v.zoom, x, y)
  BY DEF Zoomed, Fit
<1> QED
  BY <1>1, FitZoomed

LEMMA ClampCovers ==
    ASSUME NEW v \in Fit, NEW p \in Picture!Picture
    PROVE  Picture!clamp(v, p) \in Fit /\ Picture!Covers(p, Picture!clamp(v, p))
<1> DEFINE turned == Picture!turnedSize(p, v.rotation)
           x == Picture!Within(v.x, turned.width, v)
           y == Picture!Within(v.y, turned.height, v)
<1>1. Picture!clamp(v, p) = [zoom |-> v.zoom, x |-> x, y |-> y, rotation |-> v.rotation, flipped |-> v.flipped]
  <2>1. Picture!clamp(v, p) = [v EXCEPT !.x = x, !.y = y]
    BY DEF Picture!clamp
  <2> HIDE DEF x, y
  <2> QED
    BY <2>1, FitMoved
<1>2. turned.width \in Nat \ {0} /\ turned.height \in Nat \ {0} /\ v.x \in Int /\ v.y \in Int
  BY LogoSizes DEF Fit
<1> HIDE DEF turned
<1>3. /\ x \in Int /\ x - (turned.width * FRAME * v.zoom) \div 2 <= -(FRAME \div 2)
      /\ x + (turned.width * FRAME * v.zoom) \div 2 >= FRAME \div 2
  BY <1>2, WithinCovers
<1>4. /\ y \in Int /\ y - (turned.height * FRAME * v.zoom) \div 2 <= -(FRAME \div 2)
      /\ y + (turned.height * FRAME * v.zoom) \div 2 >= FRAME \div 2
  BY <1>2, WithinCovers
<1> HIDE DEF x, y
<1>5. Picture!clamp(v, p) \in Fit
  BY <1>1, <1>3, <1>4 DEF Fit
<1>6. /\ Picture!clamp(v, p).zoom = v.zoom /\ Picture!clamp(v, p).x = x /\ Picture!clamp(v, p).y = y
      /\ Picture!turnedSize(p, Picture!clamp(v, p).rotation) = turned
  BY <1>1 DEF turned
<1> QED
  BY <1>3, <1>4, <1>5, <1>6 DEF Picture!Covers

LEMMA StartCovers ==
    ASSUME NEW p \in Picture!Picture PROVE Picture!START \in Fit /\ Picture!Covers(p, Picture!START)
<1>1. Picture!START = [zoom |-> 1, x |-> 0, y |-> 0, rotation |-> 0, flipped |-> FALSE]
  BY DEF Picture!START
<1>2. Picture!START \in Fit
  BY <1>1 DEF Fit
<1> DEFINE turned == Picture!turnedSize(p, 0)
<1>3. turned.width \in Nat \ {0} /\ turned.height \in Nat \ {0}
  BY LogoSizes
<1> HIDE DEF turned
<1>4. ASSUME NEW side \in Nat \ {0} PROVE (side * FRAME * 1) \div 2 \in Nat /\ (side * FRAME * 1) \div 2 >= FRAME \div 2
  BY HalfSide
<1>5. FRAME \div 2 \in Nat
  BY LogoSizes
<1>6. Picture!START.zoom = 1 /\ Picture!START.x = 0 /\ Picture!START.y = 0 /\ Picture!START.rotation = 0
  BY <1>1
<1>7. /\ (turned.width * FRAME * 1) \div 2 \in Nat /\ (turned.width * FRAME * 1) \div 2 >= FRAME \div 2
      /\ (turned.height * FRAME * 1) \div 2 \in Nat /\ (turned.height * FRAME * 1) \div 2 >= FRAME \div 2
  BY <1>3, <1>4
<1>8. Picture!Covers(p, Picture!START)
  BY <1>5, <1>6, <1>7 DEF Picture!Covers, turned
<1> QED
  BY <1>2, <1>8

\* Zooming around any point only says where the picture is held from.
LEMMA ZoomCovers ==
    ASSUME NEW v \in Fit, NEW zoom \in Int, NEW p \in Picture!Picture, NEW anchor \in Picture!Anchor
    PROVE  /\ Picture!zoomAround(v, zoom, p, anchor) \in Fit
           /\ Picture!Covers(p, Picture!zoomAround(v, zoom, p, anchor))
<1> DEFINE next == Picture!SideMin(MAX_ZOOM, Picture!SideMax(1, zoom))
           away(a, c) == a - ((a - c) * next) \div v.zoom
           toX == away(anchor.x, v.x)
           toY == away(anchor.y, v.y)
           held == Zoomed(v, next, toX, toY)
<1>1. next \in Nat \ {0}
  BY LogoSizes DEF Picture!SideMin, Picture!SideMax
<1>2. v.zoom \in Nat \ {0} /\ v.x \in Int /\ v.y \in Int /\ anchor.x \in Int /\ anchor.y \in Int
  BY LogoSizes DEF Fit, Picture!Anchor
<1> HIDE DEF next
<1>3. ASSUME NEW a \in Int, NEW c \in Int PROVE away(a, c) \in Int
  <2>1. (a - c) * next \in Int
    BY <1>1
  <2> QED
    BY <1>2, <2>1
<1>4. Picture!zoomAround(v, zoom, p, anchor) = Picture!clamp(held, p)
  BY DEF Picture!zoomAround, next, Zoomed
<1> HIDE DEF away
<1>5. toX \in Int /\ toY \in Int
  BY <1>2, <1>3
<1> HIDE DEF toX, toY
<1>6. held = [zoom |-> next, x |-> toX, y |-> toY, rotation |-> v.rotation, flipped |-> v.flipped]
  BY FitZoomed
<1>7. held \in Fit
  BY <1>1, <1>5, <1>6 DEF Fit
<1> QED
  BY <1>4, <1>7, ClampCovers

LEMMA LogoInit == Picture!Init => LogoInv
<1> SUFFICES ASSUME Picture!Init PROVE LogoInv
  OBVIOUS
<1>1. /\ image = "none" /\ file = "none" /\ loading = {} /\ view = Picture!START /\ gesture.view = Picture!START
      /\ timer = FALSE /\ encoding = <<>> /\ crop.of = "none" /\ passed = 0 /\ outdated = FALSE
  BY DEF Picture!Init, Picture!NoGesture, Picture!NoCrop
<1>2. Picture!START \in Fit
  BY DEF Picture!START, Fit
<1>3. encoding \in Seq(CropMade) /\ Len(encoding) = 0
  BY <1>1, EmptySeq
<1>4. passed \in 0..Len(encoding)
  BY <1>1, <1>3
<1>5. FitTyped
  BY <1>1, <1>2, <1>3, <1>4 DEF FitTyped
<1>6. CropFollows
  BY <1>1 DEF CropFollows, Picture!Loaded
<1>7. Picture!FrameIsCovered
  BY <1>1, <1>3, LogoSizes DEF Picture!FrameIsCovered, Picture!Loaded
<1> QED
  BY <1>5, <1>6, <1>7 DEF LogoInv

LEMMA LoadedPicture == ASSUME LogoInv, Picture!Loaded PROVE image \in Picture!Picture
  BY DEF LogoInv, FitTyped, Picture!Loaded

\* A change keeps the frame covered, and one more crop will be made.
LEMMA PictureChanged ==
    ASSUME LogoInv, Picture!Loaded, NEW new \in Fit, Picture!Covers(image, new), Picture!change(new),
           UNCHANGED <<gesture, passed, outdated>>
    PROVE  LogoInv'
<1>1. view' = new /\ timer' = TRUE /\ UNCHANGED <<image, file, loading, encoding, crop, gesture>>
  BY DEF Picture!change
<1>2. FitTyped' /\ CropFollows'
  BY <1>1 DEF LogoInv, FitTyped, CropFollows, Picture!Loaded
<1>3. Picture!Covers(image, view)' = Picture!Covers(image, new)
  BY <1>1 DEF Picture!Covers
<1>4. Picture!FrameIsCovered'
  BY <1>1, <1>3 DEF LogoInv, Picture!FrameIsCovered, Picture!Covers, Picture!Loaded
<1> QED
  BY <1>2, <1>4 DEF LogoInv

\* Steps that leave the picture and the crops.
LEMMA PictureStays ==
    ASSUME LogoInv, UNCHANGED <<file, image, loading, view, encoding, crop, timer, passed, outdated>>, gesture'.view \in Fit
    PROVE  LogoInv'
<1>1. FitTyped' /\ CropFollows'
  BY DEF LogoInv, FitTyped, CropFollows, Shown, Picture!Loaded
<1>2. Picture!FrameIsCovered'
  BY DEF LogoInv, Picture!FrameIsCovered, Picture!Covers, Picture!Loaded
<1> QED
  BY <1>1, <1>2 DEF LogoInv

LEMMA FilePicked ==
    ASSUME LogoInv, NEW p \in Picture!Picture, Picture!pickImage(p), UNCHANGED <<passed, outdated>> PROVE LogoInv'
<1>1. /\ file' = p /\ crop' = Picture!NoCrop /\ loading' = loading \cup {p}
      /\ UNCHANGED <<image, view, gesture, timer, encoding>>
  BY DEF Picture!pickImage
<1>2. FitTyped' /\ CropFollows'
  BY <1>1 DEF LogoInv, FitTyped, CropFollows, Picture!Loaded
<1>3. crop'.of \notin Picture!Picture
  BY <1>1, LogoSizes DEF Picture!NoCrop
<1>4. Picture!FrameIsCovered'
  BY <1>1, <1>3 DEF LogoInv, Picture!FrameIsCovered, Picture!Covers, Picture!Loaded
<1> QED
  BY <1>2, <1>4 DEF LogoInv

LEMMA PictureRead ==
    ASSUME LogoInv, NEW p \in Picture!Picture, Picture!onload(p), UNCHANGED <<passed, outdated>> PROVE LogoInv'
<1>1. p \in loading /\ loading' = loading \ {p} /\ UNCHANGED <<file, gesture, encoding, crop>>
  BY DEF Picture!onload
<1>2. CASE p \in Broken
  <2>1. UNCHANGED <<image, view, timer>>
    BY <1>2 DEF Picture!onload
  <2>2. FitTyped'
    BY <1>1, <2>1 DEF LogoInv, FitTyped, Picture!Loaded
  <2>3. CropFollows'
    <3>1. Picture!Loaded => image # p
      BY <1>2 DEF LogoInv, FitTyped, Picture!Loaded
    <3> QED
      BY <1>1, <2>1, <3>1 DEF LogoInv, CropFollows, Shown, Picture!Loaded
  <2>4. Picture!FrameIsCovered'
    BY <1>1, <2>1 DEF LogoInv, Picture!FrameIsCovered, Picture!Covers, Picture!Loaded
  <2> QED
    BY <2>2, <2>3, <2>4 DEF LogoInv
<1>3. CASE p \notin Broken
  <2>1. image' = p /\ view' = Picture!START /\ timer' = TRUE
    BY <1>3 DEF Picture!onload
  <2>2. p # "none"
    BY LogoSizes
  <2>3. FitTyped' /\ CropFollows'
    BY <1>1, <1>3, <2>1, <2>2, StartCovers DEF LogoInv, FitTyped, CropFollows, Picture!Loaded
  <2>4. Picture!Covers(image, view)'
    <3>1. Picture!Covers(p, Picture!START)
      BY StartCovers
    <3> QED
      BY <2>1, <3>1 DEF Picture!Covers
  <2>5. Picture!FrameIsCovered'
    BY <1>1, <2>4 DEF LogoInv, Picture!FrameIsCovered, Picture!Covers
  <2> QED
    BY <2>3, <2>5 DEF LogoInv
<1> QED
  BY <1>2, <1>3

LEMMA ModeChanged == ASSUME LogoInv, NEW m, Picture!setMode(m), UNCHANGED <<passed, outdated>> PROVE LogoInv'
<1>1. /\ image' = "none" /\ view' = Picture!START /\ gesture'.view = Picture!START /\ timer' = FALSE
      /\ loading' \subseteq {file} \ {"none"} /\ UNCHANGED <<encoding, crop>>
  BY DEF Picture!setMode, Picture!NoGesture
<1>0. file' = file /\ file \in Picture!Picture \cup {"none"}
  BY DEF LogoInv, FitTyped, Picture!setMode
<1>2. Picture!START \in Fit
  BY DEF Picture!START, Fit
<1>3. FitTyped' /\ CropFollows'
  BY <1>0, <1>1, <1>2 DEF LogoInv, FitTyped, CropFollows, Picture!Loaded
<1>4. Picture!FrameIsCovered'
  BY <1>1 DEF LogoInv, Picture!FrameIsCovered, Picture!Covers, Picture!Loaded
<1> QED
  BY <1>3, <1>4 DEF LogoInv

LEMMA CropRemoved ==
    ASSUME NEW S, NEW making \in Seq(S), NEW i \in DOMAIN making
    PROVE  LET rest == Picture!RemoveAt(making, i) IN
           /\ rest \in Seq(S)
           /\ Len(rest) = Len(making) - 1
           /\ DOMAIN rest = 1..(Len(making) - 1)
           /\ \A j \in DOMAIN rest : rest[j] = making[IF j < i THEN j ELSE j + 1]
<1> DEFINE before == SubSeq(making, 1, i - 1)
           after == SubSeq(making, i + 1, Len(making))
           rest == before \o after
<1>1. Len(making) \in Nat /\ DOMAIN making = 1..Len(making) /\ i \in 1..Len(making)
  BY LenProperties
<1>2. /\ before \in Seq(S) /\ Len(before) = i - 1
      /\ \A j \in 1..i - 1 : before[j] = making[j]
  <2>1. \A j \in 1..i - 1 : making[j] \in S
    BY <1>1, ElementOfSeq
  <2>2. /\ before \in Seq(S) /\ Len(before) = IF 1 <= i - 1 THEN (i - 1) - 1 + 1 ELSE 0
        /\ \A j \in 1..(i - 1) - 1 + 1 : before[j] = making[1 + j - 1]
    BY <1>1, <2>1, SubSeqProperties
  <2> QED
    BY <1>1, <2>2
<1>3. /\ after \in Seq(S) /\ Len(after) = Len(making) - i
      /\ \A j \in 1..Len(making) - i : after[j] = making[i + j]
  <2>1. \A j \in i + 1..Len(making) : making[j] \in S
    BY <1>1, ElementOfSeq
  <2>2. /\ after \in Seq(S)
        /\ Len(after) = IF i + 1 <= Len(making) THEN Len(making) - (i + 1) + 1 ELSE 0
        /\ \A j \in 1..Len(making) - (i + 1) + 1 : after[j] = making[(i + 1) + j - 1]
    BY <1>1, <2>1, SubSeqProperties
  <2> QED
    BY <1>1, <2>2
<1>4. Picture!RemoveAt(making, i) = rest
  BY DEF Picture!RemoveAt
<1> HIDE DEF before, after
<1>5. /\ rest \in Seq(S) /\ Len(rest) = Len(before) + Len(after)
      /\ \A j \in 1..Len(before) + Len(after) :
           rest[j] = IF j <= Len(before) THEN before[j] ELSE after[j - Len(before)]
  BY <1>2, <1>3, ConcatProperties
<1> HIDE DEF rest
<1>6. Len(rest) = Len(making) - 1 /\ DOMAIN rest = 1..(Len(making) - 1)
  BY <1>1, <1>2, <1>3, <1>5, LenProperties
<1>7. ASSUME NEW j \in 1..(Len(making) - 1)
      PROVE  rest[j] = making[IF j < i THEN j ELSE j + 1]
  <2>1. CASE j < i
    BY <1>1, <1>2, <1>3, <1>5, <2>1
  <2>2. CASE ~(j < i)
    <3>1. rest[j] = after[j - (i - 1)] /\ j - (i - 1) \in 1..Len(making) - i
      BY <1>1, <1>2, <1>3, <1>5, <2>2
    <3>2. after[j - (i - 1)] = making[i + (j - (i - 1))]
      BY <1>3, <3>1
    <3>3. i + (j - (i - 1)) = j + 1
      BY <1>1
    <3> QED
      BY <2>2, <3>1, <3>2, <3>3
  <2> QED
    BY <2>1, <2>2
<1> QED
  BY <1>4, <1>5, <1>6, <1>7

\* The moment after the last change: one more crop is made, the last one.
LEMMA CropBegun == ASSUME LogoInv, Picture!OutputTimer, UNCHANGED <<passed, outdated>> PROVE LogoInv'
<1>0. encoding \in Seq(CropMade) /\ Len(encoding) \in Nat /\ passed \in 0..Len(encoding)
  BY LenProperties DEF LogoInv, FitTyped
<1>1. /\ timer /\ timer' = FALSE /\ encoding' = Append(encoding, Shown)
      /\ UNCHANGED <<file, image, loading, view, gesture, crop>>
  BY DEF Picture!OutputTimer, Shown
<1>2. image # "none" /\ Shown.of = image /\ Shown.view = view /\ Shown \in CropMade /\ Shown' = Shown
  BY <1>1 DEF LogoInv, FitTyped, Picture!Loaded, Shown, CropMade
<1>3. /\ encoding' \in Seq(CropMade) /\ Len(encoding') = Len(encoding) + 1
      /\ \A i \in 1..Len(encoding) : encoding'[i] = encoding[i]
      /\ encoding'[Len(encoding) + 1] = Shown
  BY <1>0, <1>1, <1>2, AppendProperties
<1>4. FitTyped'
  BY <1>0, <1>1, <1>3 DEF LogoInv, FitTyped, Picture!Loaded
<1>5. CropFollows'
  BY <1>0, <1>2, <1>3 DEF CropFollows
<1>6. Picture!Covers(image, view)' /\ Picture!Covers(image, view)
  BY <1>1, <1>2 DEF LogoInv, Picture!FrameIsCovered, Picture!Covers, Picture!Loaded
<1>7. \A i \in 1..Len(encoding') : Picture!Covers(encoding'[i].of, encoding'[i].view)
  <2> SUFFICES ASSUME NEW i \in 1..Len(encoding) + 1 PROVE Picture!Covers(encoding'[i].of, encoding'[i].view)
    BY <1>3
  <2>1. CASE i = Len(encoding) + 1
    BY <1>2, <1>3, <1>6, <2>1
  <2>2. CASE i \in 1..Len(encoding)
    BY <1>3, <2>2 DEF LogoInv, Picture!FrameIsCovered
  <2> QED
    BY <1>0, <2>1, <2>2
<1>8. Picture!FrameIsCovered'
  BY <1>1, <1>6, <1>7 DEF LogoInv, Picture!FrameIsCovered, Picture!Covers, Picture!Loaded
<1> QED
  BY <1>4, <1>5, <1>8 DEF LogoInv

\* A crop comes, in any order: the last one begun passes all the others.
LEMMA CropTaken ==
    ASSUME LogoInv, NEW i \in 1..Len(encoding), Picture!takeCrop(i),
           outdated' = (i <= passed), passed' = Picture!SideMax(passed, i) - 1
    PROVE  LogoInv'
<1>0. encoding \in Seq(CropMade) /\ Len(encoding) \in Nat /\ passed \in 0..Len(encoding) /\ i \in DOMAIN encoding
  BY LenProperties DEF LogoInv, FitTyped
<1>1. /\ crop' = encoding[i] /\ encoding' = Picture!RemoveAt(encoding, i)
      /\ UNCHANGED <<file, image, loading, view, gesture, timer>>
  BY DEF Picture!takeCrop
<1>2. /\ encoding' \in Seq(CropMade) /\ Len(encoding') = Len(encoding) - 1
      /\ \A j \in 1..Len(encoding) - 1 : encoding'[j] = encoding[IF j < i THEN j ELSE j + 1]
  <2>1. LET rest == Picture!RemoveAt(encoding, i)
        IN  /\ rest \in Seq(CropMade) /\ Len(rest) = Len(encoding) - 1
            /\ DOMAIN rest = 1..(Len(encoding) - 1)
            /\ \A j \in DOMAIN rest : rest[j] = encoding[IF j < i THEN j ELSE j + 1]
    BY <1>0, CropRemoved
  <2> QED
    BY <1>1, <2>1
<1>3. passed' \in 0..Len(encoding') /\ passed' = (IF passed < i THEN i ELSE passed) - 1
  BY <1>0, <1>2 DEF Picture!SideMax
<1>4. FitTyped'
  BY <1>1, <1>2, <1>3 DEF LogoInv, FitTyped, Picture!Loaded
<1>5. CropFollows'
  <2> SUFFICES ASSUME Picture!Loaded, image = file, file \notin loading, ~timer
               PROVE  IF passed' < Len(encoding') THEN encoding'[Len(encoding')] = Shown ELSE ~outdated' => crop' = Shown
    BY <1>1 DEF CropFollows, Picture!Loaded, Shown
  <2>1. IF passed < Len(encoding) THEN encoding[Len(encoding)] = Shown ELSE ~outdated => crop = Shown
    BY DEF LogoInv, CropFollows
  <2>2. CASE passed < Len(encoding) /\ i = Len(encoding)
    <3>1. passed' = Len(encoding') /\ crop' = Shown
      BY <1>0, <1>1, <1>2, <1>3, <2>1, <2>2
    <3> QED
      BY <1>0, <1>2, <3>1
  <2>3. CASE passed < Len(encoding) /\ i < Len(encoding)
    <3>1. Len(encoding) - 1 \in 1..Len(encoding) - 1 /\ ~(Len(encoding) - 1 < i) /\ Len(encoding) - 1 + 1 = Len(encoding)
      BY <1>0, <2>3
    <3>2. encoding'[Len(encoding')] = encoding[Len(encoding)]
      BY <1>2, <3>1
    <3>3. passed' < Len(encoding')
      BY <1>0, <1>2, <1>3, <2>3
    <3> QED
      BY <2>1, <2>3, <3>2, <3>3
  <2>4. CASE passed = Len(encoding)
    <3>1. i <= passed /\ passed' = Len(encoding')
      BY <1>0, <1>2, <1>3, <2>4
    <3>2. outdated' = TRUE
      BY <3>1
    <3> QED
      BY <1>0, <1>2, <3>1, <3>2
  <2> QED
    BY <1>0, <2>2, <2>3, <2>4
<1>6. \A j \in 1..Len(encoding') : Picture!Covers(encoding'[j].of, encoding'[j].view)
  <2> SUFFICES ASSUME NEW j \in 1..Len(encoding) - 1 PROVE Picture!Covers(encoding'[j].of, encoding'[j].view)
    BY <1>2
  <2>1. (IF j < i THEN j ELSE j + 1) \in 1..Len(encoding)
    BY <1>0
  <2> QED
    BY <1>2, <2>1 DEF LogoInv, Picture!FrameIsCovered
<1>7. Picture!FrameIsCovered'
  BY <1>1, <1>6 DEF LogoInv, Picture!FrameIsCovered, Picture!Covers, Picture!Loaded
<1> QED
  BY <1>4, <1>5, <1>7 DEF LogoInv

LEMMA LogoSteps == ASSUME LogoInv, Picture!Step, UNCHANGED <<passed, outdated>> PROVE LogoInv'
<1>0. view \in Fit /\ gesture.view \in Fit /\ STEP \in Nat
  BY LogoSizes DEF LogoInv, FitTyped
<1>1. ASSUME NEW v \in Fit, Picture!Loaded, Picture!change(Picture!clamp(v, image)), UNCHANGED gesture PROVE LogoInv'
  <2>1. Picture!clamp(v, image) \in Fit /\ Picture!Covers(image, Picture!clamp(v, image))
    BY <1>1, LoadedPicture, ClampCovers
  <2> QED
    BY <1>1, <2>1, PictureChanged
<1>2. ASSUME NEW v \in Fit, NEW zoom \in Int, NEW anchor \in Picture!Anchor, Picture!Loaded,
             Picture!change(Picture!zoomAround(v, zoom, image, anchor)), UNCHANGED gesture
      PROVE  LogoInv'
  <2>1. /\ Picture!zoomAround(v, zoom, image, anchor) \in Fit
        /\ Picture!Covers(image, Picture!zoomAround(v, zoom, image, anchor))
    BY <1>2, LoadedPicture, ZoomCovers
  <2> QED
    BY <1>2, <2>1, PictureChanged
<1>3. ASSUME NEW v \in Fit, NEW dx \in Picture!Way, NEW dy \in Picture!Way
      PROVE  [v EXCEPT !.x = @ + dx, !.y = @ + dy] \in Fit
  <2>1. v.x + dx \in Int /\ v.y + dy \in Int
    BY <1>0 DEF Fit, Picture!Way
  <2>2. [v EXCEPT !.x = @ + dx, !.y = @ + dy] =
          [zoom |-> v.zoom, x |-> v.x + dx, y |-> v.y + dy, rotation |-> v.rotation, flipped |-> v.flipped]
    BY FitMoved
  <2> QED
    BY <2>1, <2>2 DEF Fit
<1>4. ASSUME NEW p \in Picture!Picture, Picture!pickImage(p) PROVE LogoInv'
  BY <1>4, FilePicked
<1>5. ASSUME NEW p \in Picture!Picture, Picture!onload(p) PROVE LogoInv'
  BY <1>5, PictureRead
<1>6. ASSUME NEW m \in {"initials", "image"}, Picture!setMode(m) PROVE LogoInv'
  BY <1>6, ModeChanged
<1>7. ASSUME NEW dx \in Picture!Way, NEW dy \in Picture!Way, Picture!drag(dx, dy) PROVE LogoInv'
  BY <1>0, <1>1, <1>3, <1>7 DEF Picture!drag
<1>8. ASSUME NEW dx \in Picture!Way, NEW dy \in Picture!Way, Picture!moveWithKeys(dx, dy) PROVE LogoInv'
  BY <1>0, <1>1, <1>3, <1>8 DEF Picture!moveWithKeys
<1>9. ASSUME NEW zoom \in 1..MAX_ZOOM, NEW anchor \in Picture!Anchor, Picture!pinch(zoom, anchor) PROVE LogoInv'
  BY <1>0, <1>2, <1>9 DEF Picture!pinch
<1>10. ASSUME NEW by \in {-1, 1}, NEW anchor \in Picture!Anchor, Picture!zoomWithWheel(by, anchor) PROVE LogoInv'
  <2>1. view.zoom + by \in Int
    BY <1>0 DEF Fit
  <2> QED
    BY <1>0, <1>2, <1>10, <2>1 DEF Picture!zoomWithWheel
<1>11. ASSUME NEW by \in {-90, 90}, Picture!turn(by) PROVE LogoInv'
  <2>1. [view EXCEPT !.rotation = (@ + by + 360) % 360] \in Fit
    BY <1>0 DEF Fit
  <2> QED
    BY <1>1, <1>11, <2>1 DEF Picture!turn
<1>12. CASE Picture!flip
  <2> DEFINE new == [view EXCEPT !.flipped = ~@]
  <2>1. Picture!Loaded /\ Picture!change(new) /\ UNCHANGED gesture
    BY <1>12 DEF Picture!flip
  <2>2. /\ new \in Fit /\ new.zoom = view.zoom /\ new.x = view.x /\ new.y = view.y /\ new.rotation = view.rotation
    BY <1>0 DEF Fit
  <2> HIDE DEF new
  <2>3. Picture!Covers(image, new)
    BY <2>1, <2>2 DEF LogoInv, Picture!FrameIsCovered, Picture!Covers
  <2> QED
    BY <2>1, <2>2, <2>3, PictureChanged
<1>13. CASE Picture!reset
  BY <1>13, LoadedPicture, StartCovers, PictureChanged DEF Picture!reset
<1>14. CASE Picture!startPointer
  BY <1>0, <1>14, PictureStays DEF Picture!startPointer
<1>15. CASE Picture!endPointer
  <2>1. Picture!START \in Fit
    BY DEF Picture!START, Fit
  <2>2. gesture'.view \in Fit
    BY <1>0, <1>15, <2>1 DEF Picture!endPointer, Picture!NoGesture
  <2> QED
    BY <1>15, <2>2, PictureStays DEF Picture!endPointer
<1>16. CASE Picture!OutputTimer
  BY <1>16, CropBegun
<1>17. CASE Picture!sendImage
  BY <1>0, <1>17, PictureStays DEF Picture!sendImage
<1> QED
  BY <1>4, <1>5, <1>6, <1>7, <1>8, <1>9, <1>10, <1>11, <1>12, <1>13, <1>14, <1>15, <1>16, <1>17 DEF Picture!Step

LEMMA LogoNext == ASSUME LogoInv, [Picture!Next]_Picture!vars PROVE LogoInv'
<1>1. CASE Picture!Step /\ UNCHANGED <<passed, outdated>>
  BY <1>1, LogoSteps
<1>2. ASSUME NEW i \in 1..Len(encoding), Picture!takeCrop(i),
             outdated' = (i <= passed), passed' = Picture!SideMax(passed, i) - 1
      PROVE  LogoInv'
  BY <1>2, CropTaken
<1>3. CASE UNCHANGED Picture!vars
  <2>1. gesture'.view \in Fit
    BY <1>3 DEF LogoInv, FitTyped, Picture!vars
  <2> QED
    BY <1>3, <2>1, PictureStays DEF Picture!vars
<1> QED
  BY <1>1, <1>2, <1>3 DEF Picture!Next

(***************************************************************************)
(* The frame is always covered, on screen and in every crop, and with      *)
(* nothing waiting the crop is of what is on screen: for pictures, frames, *)
(* zooms and steps of any size, any number of files, changes and crops     *)
(* being made, and whichever picture or crop is ready first, unless an     *)
(* older crop came last (ImageCropper, cropMath.ts).                       *)
(***************************************************************************)
THEOREM LogoStaysAsShown == Picture!Spec => []LogoIsWhatIsShown
<1>1. LogoInv => LogoIsWhatIsShown
  <2> SUFFICES ASSUME LogoInv PROVE Picture!CropIsWhatIsShown
    BY DEF LogoInv, LogoIsWhatIsShown
  <2>1. encoding = <<>> => ~(passed < Len(encoding))
    BY DEF LogoInv, FitTyped
  <2> QED
    BY <2>1 DEF LogoInv, CropFollows, Shown, Picture!CropIsWhatIsShown
<1> QED
  BY <1>1, LogoInit, LogoNext, PTL DEF Picture!Spec

-----------------------------------------------------------------------------
(* The classes of a teacher.                                               *)

NoKid == "none"
ChangeKind == {"create", "update", "image", "archive", "restore", "delete", "remove", "reject", "accept"}
ChangeAsked == [kind : ChangeKind, class : Class \cup {0}, kid : Kid \cup {NoKid}, at : {"asked", "done"}, live : BOOLEAN]
ClassesTyped ==
    /\ DOMAIN classServer = Class
    /\ enrolled \in [Kid -> {"waiting", "in", "out"}]
    /\ DOMAIN detail = Class /\ \A c \in Class : DOMAIN detail[c] = {"value", "stale"}
    /\ openId \in Class \cup {0}
    /\ DOMAIN classWindow = {"kind", "kid", "ready", "leaving", "made"} /\ classWindow.made \in Class \cup {0}
    /\ ops \subseteq ChangeAsked
    /\ lostAnswers \in Nat
\* Only the first class has kids: what is asked about one is asked of it.
KidsOfTheFirst ==
    /\ \A c \in Class \ {1} : detail[c].value.kids = MyClasses!NoClass.kids
    /\ classWindow.kind \in {"remove", "reject"} => openId = 1 /\ classWindow.kid \in Kid
    /\ \A o \in ops : o.kid # NoKid => o.class = 1 /\ o.kind \in {"remove", "reject", "accept"}
\* What the cache has of a class that changed will be read again: it is to
\* be, or the answer is on its way, or one was lost.
Answering(c) == \E o \in ops : o.at = "done" /\ o.class = c
UpToDate(c) == detail[c].stale \/ detail[c].value = MyClasses!Shown(c) \/ Answering(c) \/ lostAnswers > 0

ClassesInv == ClassesTyped /\ KidsOfTheFirst /\ \A c \in Class : UpToDate(c)

LEMMA ClassConstants == Class \subseteq Nat \ {0} /\ 1 \in Class /\ NoKid \notin Kid
  BY PortalAssumption DEF MyClasses!ClassroomsAssumption, NoKid

LEMMA ClassesInit == MyClasses!Init => ClassesInv
<1> SUFFICES ASSUME MyClasses!Init PROVE ClassesInv
  OBVIOUS
<1>1. /\ classServer = [c \in Class |-> [state |-> IF c = 1 THEN "active" ELSE "none", rev |-> 0]]
      /\ enrolled \in {[k \in Kid |-> s] : s \in {"waiting", "in"}}
      /\ detail = [c \in Class |-> [value |-> MyClasses!NoClass, stale |-> TRUE]]
      /\ openId \in {0, 1} /\ ops = {} /\ lostAnswers = 0
  BY DEF MyClasses!Init, MyClasses!NotRead
<1>2. /\ DOMAIN classWindow = {"kind", "kid", "ready", "leaving", "made"} /\ classWindow.made = 0
      /\ classWindow.kind \notin {"remove", "reject"}
  <2>1. classWindow \in {MyClasses!NoWindow, [MyClasses!NoWindow EXCEPT !.kind = "create"]}
    BY DEF MyClasses!Init
  <2> QED
    BY <2>1 DEF MyClasses!NoWindow
<1>3. ClassesTyped
  BY <1>1, <1>2, ClassConstants DEF ClassesTyped
<1>4. KidsOfTheFirst /\ \A c \in Class : UpToDate(c)
  BY <1>1, <1>2 DEF KidsOfTheFirst, UpToDate
<1> QED
  BY <1>3, <1>4 DEF ClassesInv

\* Steps that leave the classes as they are stored, and take no answer away.
LEMMA PlaceStep ==
    ASSUME ClassesInv, UNCHANGED <<classServer, enrolled, lostAnswers>>, ClassesTyped', KidsOfTheFirst',
           \A c \in Class : detail'[c] = detail[c] \/ detail'[c].stale \/ detail'[c].value = MyClasses!Shown(c),
           \A c \in Class : Answering(c) => Answering(c)' \/ detail'[c].stale
    PROVE  ClassesInv'
<1>1. \A c \in Class : MyClasses!Shown(c)' = MyClasses!Shown(c)
  BY DEF MyClasses!Shown
<1>2. \A c \in Class : UpToDate(c)'
  BY <1>1 DEF ClassesInv, UpToDate
<1> QED
  BY <1>2 DEF ClassesInv

\* Steps of the screens.
LEMMA WindowStep ==
    ASSUME ClassesInv, UNCHANGED <<classServer, enrolled, detail, lostAnswers, ops>>,
           openId' \in Class \cup {0},
           DOMAIN classWindow' = {"kind", "kid", "ready", "leaving", "made"}, classWindow'.made \in Class \cup {0},
           classWindow'.kind \in {"remove", "reject"} => openId' = 1 /\ classWindow'.kid \in Kid
    PROVE  ClassesInv'
<1>1. ClassesTyped'
  BY DEF ClassesInv, ClassesTyped
<1>2. KidsOfTheFirst'
  BY DEF ClassesInv, KidsOfTheFirst
<1>3. \A c \in Class : Answering(c) => Answering(c)'
  BY DEF Answering
<1> QED
  BY <1>1, <1>2, <1>3, PlaceStep

LEMMA ClassesStay ==
    ASSUME ClassesInv, UNCHANGED <<classServer, enrolled, detail, lostAnswers, ops, openId, classWindow>> PROVE ClassesInv'
  BY WindowStep DEF ClassesInv, ClassesTyped, KidsOfTheFirst

\* A change is asked for; nothing is known of it yet.
LEMMA ChangeIsAsked ==
    ASSUME ClassesInv, NEW kind \in ChangeKind, NEW kid \in Kid \cup {NoKid}, MyClasses!Ask(kind, kid),
           kid # NoKid => openId = 1 /\ kind \in {"remove", "reject", "accept"},
           UNCHANGED <<classServer, enrolled, detail, lostAnswers, openId>>,
           \/ classWindow' = classWindow
           \/ classWindow' = MyClasses!NoWindow
    PROVE  ClassesInv'
<1> DEFINE new == [kind |-> kind, class |-> openId, kid |-> kid, at |-> "asked", live |-> TRUE]
<1>1. ops' = ops \cup {new}
  BY DEF MyClasses!Ask
<1>2. new \in ChangeAsked /\ new.kid = kid /\ new.class = openId /\ new.kind = kind
  BY DEF ClassesInv, ClassesTyped, ChangeAsked
<1> HIDE DEF new
<1>3. /\ DOMAIN classWindow' = {"kind", "kid", "ready", "leaving", "made"} /\ classWindow'.made \in Class \cup {0}
      /\ classWindow'.kind \in {"remove", "reject"} => openId' = 1 /\ classWindow'.kid \in Kid
  BY DEF ClassesInv, ClassesTyped, KidsOfTheFirst, MyClasses!NoWindow
<1>4. ClassesTyped'
  BY <1>1, <1>2, <1>3 DEF ClassesInv, ClassesTyped
<1>5. KidsOfTheFirst'
  BY <1>1, <1>2, <1>3 DEF ClassesInv, KidsOfTheFirst
<1>6. \A c \in Class : Answering(c) => Answering(c)'
  BY <1>1 DEF Answering
<1> QED
  BY <1>4, <1>5, <1>6, PlaceStep

LEMMA ChangeFields ==
    ASSUME NEW o \in ChangeAsked
    PROVE  \A stage \in {"asked", "done"}, c \in Class \cup {0} :
               LET new == [o EXCEPT !.at = stage, !.class = c]
               IN  new \in ChangeAsked /\ new.at = stage /\ new.class = c /\ new.kid = o.kid /\ new.kind = o.kind
<1>1. ASSUME NEW stage \in {"asked", "done"}, NEW c \in Class \cup {0}
      PROVE  LET new == [o EXCEPT !.at = stage, !.class = c]
             IN  new \in ChangeAsked /\ new.at = stage /\ new.class = c /\ new.kid = o.kid /\ new.kind = o.kind
  <2> DEFINE once == [o EXCEPT !.at = stage]
  <2>1. once \in ChangeAsked /\ once.at = stage /\ once.kid = o.kid /\ once.kind = o.kind
    BY DEF ChangeAsked
  <2>2. [o EXCEPT !.at = stage, !.class = c] = [once EXCEPT !.class = c]
    OBVIOUS
  <2> HIDE DEF once
  <2>3. LET new == [once EXCEPT !.class = c]
        IN  new \in ChangeAsked /\ new.at = once.at /\ new.class = c /\ new.kid = once.kid /\ new.kind = once.kind
    BY <2>1 DEF ChangeAsked
  <2> QED
    BY <2>1, <2>2, <2>3
<1> QED
  BY <1>1

\* classroom-service makes a change: the answer of its class is on its way.
LEMMA ChangeIsMade == ASSUME ClassesInv, NEW o \in ops, MyClasses!ServerDoes(o) PROVE ClassesInv'
<1> DEFINE it == IF o.kind = "create" THEN CHOOSE c \in MyClasses!Unused : TRUE ELSE o.class
           new == [o EXCEPT !.at = "done", !.class = it]
<1>1. o \in ChangeAsked /\ o.at = "asked" /\ MyClasses!Can(o)
  BY DEF ClassesInv, ClassesTyped, MyClasses!ServerDoes
<1>2. \E value : classServer' = [classServer EXCEPT ![it] = value]
  BY DEF MyClasses!ServerDoes
<1>3. ops' = (ops \ {o}) \cup {new} /\ UNCHANGED <<detail, openId, classWindow, lostAnswers>>
  BY DEF MyClasses!ServerDoes, MyClasses!cached, MyClasses!place
<1>4. o.kind = "create" => MyClasses!Unused # {}
  BY <1>1 DEF MyClasses!Can
<1>5. it \in Class \cup {0}
  BY <1>1, <1>4 DEF ChangeAsked, MyClasses!Unused
<1>6. o.kid # NoKid => o.class = 1 /\ o.kind \in {"remove", "reject", "accept"}
  BY DEF ClassesInv, KidsOfTheFirst
<1>7. it # 1 => enrolled' = enrolled
  <2>1. enrolled' = [k \in Kid |-> IF o.kind = "archive" /\ o.class = 1 /\ enrolled[k] = "waiting" THEN "out"
                                   ELSE IF k # o.kid THEN enrolled[k]
                                   ELSE IF o.kind = "accept" THEN "in" ELSE "out"]
    BY DEF MyClasses!ServerDoes
  <2>2. enrolled = [k \in Kid |-> enrolled[k]]
    BY DEF ClassesInv, ClassesTyped
  <2>3. it # 1 => (o.kid = NoKid /\ ~(o.kind = "archive" /\ o.class = 1))
    BY <1>6
  <2> QED
    BY <2>1, <2>2, <2>3, ClassConstants
<1>8. enrolled' \in [Kid -> {"waiting", "in", "out"}]
  BY DEF ClassesInv, ClassesTyped, MyClasses!ServerDoes
<1> HIDE DEF it
<1>9. new \in ChangeAsked /\ new.at = "done" /\ new.class = it /\ new.kid = o.kid /\ new.kind = o.kind
  BY <1>1, <1>5, ChangeFields
<1>10. o.kid # NoKid => it = 1
  BY <1>6 DEF it
<1> HIDE DEF new
<1>11. ClassesTyped'
  BY <1>2, <1>3, <1>8, <1>9 DEF ClassesInv, ClassesTyped
<1>12. KidsOfTheFirst'
  BY <1>3, <1>6, <1>9, <1>10 DEF ClassesInv, KidsOfTheFirst
<1>13. ASSUME NEW d \in Class PROVE UpToDate(d)'
  <2>1. CASE d = it
    BY <1>3, <1>9, <2>1 DEF UpToDate, Answering
  <2>2. CASE d # it
    <3>1. classServer'[d] = classServer[d] /\ (d = 1 => enrolled' = enrolled)
      BY <1>2, <1>7, <2>2 DEF ClassesInv, ClassesTyped
    <3>2. MyClasses!Shown(d)' = MyClasses!Shown(d)
      BY <3>1 DEF MyClasses!Shown
    <3>3. Answering(d) => Answering(d)'
      BY <1>1, <1>3 DEF Answering
    <3> QED
      BY <1>3, <3>2, <3>3 DEF ClassesInv, UpToDate
  <2> QED
    BY <2>1, <2>2
<1> QED
  BY <1>11, <1>12, <1>13 DEF ClassesInv

\* An answer comes: what the cache has of its class is to be read again.
LEMMA Invalidated ==
    ASSUME ClassesInv, NEW o \in ops, MyClasses!invalidate(o)
    PROVE  /\ DOMAIN detail' = Class /\ \A c \in Class : DOMAIN detail'[c] = {"value", "stale"}
           /\ \A c \in Class : detail'[c] = detail[c] \/ detail'[c].stale
           /\ o.class \in Class => detail'[o.class].stale
           /\ \A c \in Class \ {1} : detail'[c].value.kids = MyClasses!NoClass.kids
<1>1. DOMAIN detail = Class /\ \A c \in Class : DOMAIN detail[c] = {"value", "stale"}
  BY DEF ClassesInv, ClassesTyped
<1>2. \A c \in Class \ {1} : detail[c].value.kids = MyClasses!NoClass.kids
  BY DEF ClassesInv, KidsOfTheFirst
<1>3. MyClasses!NotRead = [value |-> MyClasses!NoClass, stale |-> TRUE]
  BY DEF MyClasses!NotRead
<1>4. CASE detail' = [detail EXCEPT ![o.class] = MyClasses!NotRead]
  BY <1>1, <1>2, <1>3, <1>4
<1>5. CASE detail' = [detail EXCEPT ![o.class].stale = TRUE]
  <2>1. \A c \in Class : detail'[c] = IF c = o.class THEN [detail[c] EXCEPT !.stale = TRUE] ELSE detail[c]
    BY <1>1, <1>5
  <2>2. \A c \in Class : LET now == [detail[c] EXCEPT !.stale = TRUE]
                         IN  DOMAIN now = {"value", "stale"} /\ now.stale /\ now.value = detail[c].value
    BY <1>1
  <2> QED
    BY <1>1, <1>2, <1>5, <2>1, <2>2
<1> QED
  BY <1>4, <1>5 DEF MyClasses!invalidate

\* The changes left are the others, perhaps without their space, or with the
\* picture that goes after the class.
LEMMA AnswerTaken ==
    ASSUME ClassesInv, NEW o \in ops, MyClasses!invalidate(o), UNCHANGED <<classServer, enrolled, lostAnswers>>,
           ops' \subseteq ChangeAsked, openId' \in Class \cup {0},
           DOMAIN classWindow' = {"kind", "kid", "ready", "leaving", "made"}, classWindow'.made \in Class \cup {0},
           classWindow'.kind \in {"remove", "reject"} => openId' = 1 /\ classWindow'.kid \in Kid,
           \A x \in ops' : \E y \in ops : /\ x.class = y.class /\ x.kid = y.kid
                                          /\ (x.kind = y.kind \/ y.kid = NoKid),
           \A y \in ops \ {o} : \E x \in ops' : x.class = y.class /\ x.at = y.at
    PROVE  ClassesInv'
<1>1. /\ DOMAIN detail' = Class /\ \A c \in Class : DOMAIN detail'[c] = {"value", "stale"}
      /\ \A c \in Class : detail'[c] = detail[c] \/ detail'[c].stale
      /\ o.class \in Class => detail'[o.class].stale
      /\ \A c \in Class \ {1} : detail'[c].value.kids = MyClasses!NoClass.kids
  BY Invalidated
<1>2. ClassesTyped'
  BY <1>1 DEF ClassesInv, ClassesTyped
<1>3. KidsOfTheFirst'
  BY <1>1 DEF ClassesInv, KidsOfTheFirst
<1>4. \A c \in Class : Answering(c) => Answering(c)' \/ detail'[c].stale
  BY <1>1 DEF Answering
<1> QED
  BY <1>1, <1>2, <1>3, <1>4, PlaceStep

\* The same changes, perhaps without the space they were asked from.
SameChanges(left, these) ==
    /\ left \subseteq ChangeAsked
    /\ \A x \in left : \E y \in these : x.class = y.class /\ x.kid = y.kid /\ x.kind = y.kind
    /\ \A y \in these : \E x \in left : x.class = y.class /\ x.at = y.at

LEMMA SpaceGone ==
    ASSUME ClassesInv, NEW these \in SUBSET ops PROVE SameChanges({[x EXCEPT !.live = FALSE] : x \in these}, these)
<1> DEFINE now(x) == [x EXCEPT !.live = FALSE]
<1>1. ASSUME NEW x \in these
      PROVE  /\ now(x) \in ChangeAsked
             /\ now(x).class = x.class /\ now(x).kid = x.kid /\ now(x).kind = x.kind /\ now(x).at = x.at
  <2>1. x \in ChangeAsked
    BY DEF ClassesInv, ClassesTyped
  <2> QED
    BY <2>1 DEF ChangeAsked
<1> HIDE DEF now
<1>2. SameChanges({now(x) : x \in these}, these)
  BY <1>1 DEF SameChanges
<1> QED
  BY <1>2 DEF now

LEMMA FormGone ==
    ASSUME ClassesInv PROVE SameChanges({[o EXCEPT !.live = @ /\ ~MyClasses!OfForm(o)] : o \in ops}, ops)
<1> DEFINE now(x) == [x EXCEPT !.live = @ /\ ~MyClasses!OfForm(x)]
<1>1. ASSUME NEW x \in ops
      PROVE  /\ now(x) \in ChangeAsked
             /\ now(x).class = x.class /\ now(x).kid = x.kid /\ now(x).kind = x.kind /\ now(x).at = x.at
  <2>1. x \in ChangeAsked
    BY DEF ClassesInv, ClassesTyped
  <2>2. now(x) \in ChangeAsked
    BY <2>1 DEF ChangeAsked
  <2> QED
    BY <2>1, <2>2 DEF ChangeAsked
<1> HIDE DEF now
<1>2. SameChanges({now(x) : x \in ops}, ops)
  BY <1>1 DEF SameChanges
<1> QED
  BY <1>2 DEF now

LEMMA SpaceStep ==
    ASSUME ClassesInv, UNCHANGED <<classServer, enrolled, detail, lostAnswers>>, SameChanges(ops', ops),
           openId' \in Class \cup {0},
           DOMAIN classWindow' = {"kind", "kid", "ready", "leaving", "made"}, classWindow'.made \in Class \cup {0},
           classWindow'.kind \notin {"remove", "reject"}
    PROVE  ClassesInv'
<1>1. ClassesTyped'
  BY DEF ClassesInv, ClassesTyped, SameChanges
<1>2. KidsOfTheFirst'
  BY DEF ClassesInv, KidsOfTheFirst, SameChanges
<1>3. \A c \in Class : Answering(c) => Answering(c)'
  BY DEF Answering, SameChanges
<1> QED
  BY <1>1, <1>2, <1>3, PlaceStep

LEMMA WindowTyped ==
    ASSUME ClassesInv
    PROVE  /\ DOMAIN classWindow = {"kind", "kid", "ready", "leaving", "made"} /\ classWindow.made \in Class \cup {0}
           /\ classWindow.kind \in {"remove", "reject"} => openId = 1 /\ classWindow.kid \in Kid
           /\ openId \in Class \cup {0} /\ ops \subseteq ChangeAsked /\ lostAnswers \in Nat
           /\ MyClasses!NoWindow = [kind |-> "none", kid |-> "none", ready |-> FALSE, leaving |-> FALSE, made |-> 0]
  BY DEF ClassesInv, ClassesTyped, KidsOfTheFirst, MyClasses!NoWindow

\* A window closes with what it made.
LEMMA WindowCloses ==
    ASSUME ClassesInv, NEW o \in ops, NEW new, new = MyClasses!Closing(o)
    PROVE  /\ DOMAIN new = {"kind", "kid", "ready", "leaving", "made"} /\ new.made \in Class \cup {0}
           /\ new.kind = classWindow.kind /\ new.kid = classWindow.kid
<1>1. o.class \in Class \cup {0}
  BY WindowTyped DEF ChangeAsked
<1>2. CASE o.live /\ ~classWindow.leaving
  <2> DEFINE once == [classWindow EXCEPT !.leaving = TRUE]
  <2>1. new = [once EXCEPT !.made = o.class]
    BY <1>2 DEF MyClasses!Closing
  <2>2. DOMAIN once = DOMAIN classWindow /\ once.kind = classWindow.kind /\ once.kid = classWindow.kid
    BY WindowTyped
  <2> HIDE DEF once
  <2> QED
    BY <1>1, <2>1, <2>2, WindowTyped
<1>3. CASE ~(o.live /\ ~classWindow.leaving)
  BY <1>3, WindowTyped DEF MyClasses!Closing
<1> QED
  BY <1>2, <1>3

\* A class made or changed; its picture goes after it.
LEMMA FormSaved == ASSUME ClassesInv, NEW o \in ops, MyClasses!Saved(o) PROVE ClassesInv'
<1>0. o \in ChangeAsked
  BY WindowTyped
<1>1. /\ MyClasses!OfForm(o) /\ MyClasses!invalidate(o) /\ UNCHANGED <<classServer, enrolled, lostAnswers, openId>>
      /\ \E more \in BOOLEAN :
           /\ ops' = (ops \ {o}) \cup (IF more THEN {[o EXCEPT !.kind = "image", !.at = "asked"]} ELSE {})
           /\ classWindow' = IF more THEN classWindow ELSE MyClasses!Closing(o)
  BY DEF MyClasses!Saved, MyClasses!stored, MyClasses!place
<1>2. o.kid = NoKid
  BY <1>1 DEF ClassesInv, KidsOfTheFirst, MyClasses!OfForm
<1>3. /\ DOMAIN classWindow' = {"kind", "kid", "ready", "leaving", "made"} /\ classWindow'.made \in Class \cup {0}
      /\ classWindow'.kind \in {"remove", "reject"} => openId' = 1 /\ classWindow'.kid \in Kid
  <2>1. classWindow' = classWindow \/ classWindow' = MyClasses!Closing(o)
    BY <1>1
  <2> QED
    BY <1>1, <2>1, WindowTyped, WindowCloses
<1> DEFINE added == [o EXCEPT !.kind = "image", !.at = "asked"]
<1>4. added \in ChangeAsked /\ added.class = o.class /\ added.kid = o.kid
  <2> DEFINE once == [o EXCEPT !.kind = "image"]
  <2>1. once \in ChangeAsked /\ once.class = o.class /\ once.kid = o.kid
    BY <1>0 DEF ChangeAsked, ChangeKind
  <2>2. added = [once EXCEPT !.at = "asked"]
    OBVIOUS
  <2> HIDE DEF once
  <2> QED
    BY <2>1, <2>2 DEF ChangeAsked
<1>5. ops \ {o} \subseteq ops' /\ ops' \subseteq (ops \ {o}) \cup {added}
  BY <1>1
<1> HIDE DEF added
<1>6. ops' \subseteq ChangeAsked /\ openId' \in Class \cup {0}
  BY <1>1, <1>4, <1>5, WindowTyped
<1>7. \A x \in ops' : \E y \in ops : x.class = y.class /\ x.kid = y.kid /\ (x.kind = y.kind \/ y.kid = NoKid)
  BY <1>2, <1>4, <1>5
<1>8. \A y \in ops \ {o} : \E x \in ops' : x.class = y.class /\ x.at = y.at
  BY <1>5
<1> QED
  BY <1>1, <1>3, <1>6, <1>7, <1>8, AnswerTaken

\* A class archived, restored or deleted, with the space that was open.
LEMMA OptionRan == ASSUME ClassesInv, NEW o \in ops, MyClasses!Ran(o) PROVE ClassesInv'
<1>1. MyClasses!invalidate(o) /\ UNCHANGED <<classServer, enrolled, lostAnswers>>
  BY DEF MyClasses!Ran, MyClasses!stored
<1>2. CASE o.kind = "delete" /\ openId # 0
  <2>1. /\ openId' = 0 /\ classWindow' = MyClasses!NoWindow
        /\ ops' = {[x EXCEPT !.live = FALSE] : x \in ops \ {o}}
    BY <1>2 DEF MyClasses!Ran
  <2>2. ops \ {o} \in SUBSET ops
    OBVIOUS
  <2>3. SameChanges(ops', ops \ {o})
    BY <2>1, <2>2, SpaceGone
  <2>4. ops' \subseteq ChangeAsked
    BY <2>3 DEF SameChanges
  <2>5. \A x \in ops' : \E y \in ops : x.class = y.class /\ x.kid = y.kid /\ (x.kind = y.kind \/ y.kid = NoKid)
    BY <2>3 DEF SameChanges
  <2>6. \A y \in ops \ {o} : \E x \in ops' : x.class = y.class /\ x.at = y.at
    BY <2>3 DEF SameChanges
  <2>7. /\ DOMAIN classWindow' = {"kind", "kid", "ready", "leaving", "made"}
        /\ classWindow'.made = 0 /\ classWindow'.kind = "none"
    BY <2>1, WindowTyped
  <2> QED
    BY <1>1, <2>1, <2>4, <2>5, <2>6, <2>7, AnswerTaken
<1>3. CASE ~(o.kind = "delete" /\ openId # 0)
  <2>1. ops' = ops \ {o} /\ UNCHANGED <<openId, classWindow>>
    BY <1>3 DEF MyClasses!Ran
  <2> QED
    BY <1>1, <2>1, WindowTyped, AnswerTaken
<1> QED
  BY <1>2, <1>3

LEMMA KidAnswered == ASSUME ClassesInv, NEW o \in ops, MyClasses!Answered(o) PROVE ClassesInv'
<1>1. /\ MyClasses!invalidate(o) /\ ops' = ops \ {o}
      /\ UNCHANGED <<classServer, enrolled, lostAnswers, openId, classWindow>>
  BY DEF MyClasses!Answered, MyClasses!Told, MyClasses!stored, MyClasses!place
<1> QED
  BY <1>1, WindowTyped, AnswerTaken

\* A change refused was not made; and of an answer that was lost, one knows.
LEMMA ChangeFailed == ASSUME ClassesInv, NEW o \in ops, MyClasses!setError(o) PROVE ClassesInv'
<1>1. /\ ops' = ops \ {o} /\ UNCHANGED <<classServer, enrolled, detail, openId>>
      /\ lostAnswers' = IF o.at = "asked" THEN lostAnswers ELSE lostAnswers + 1
  BY DEF MyClasses!setError, MyClasses!stored, MyClasses!cached, MyClasses!place
<1>2. /\ DOMAIN classWindow' = {"kind", "kid", "ready", "leaving", "made"} /\ classWindow'.made \in Class \cup {0}
      /\ classWindow'.kind \in {"remove", "reject"} => openId' = 1 /\ classWindow'.kid \in Kid
  <2>1. classWindow' = classWindow \/ classWindow' = MyClasses!Closing(o)
    BY DEF MyClasses!setError
  <2> QED
    BY <1>1, <2>1, WindowTyped, WindowCloses
<1>3. ClassesTyped' /\ KidsOfTheFirst'
  BY <1>1, <1>2 DEF ClassesInv, ClassesTyped, KidsOfTheFirst
<1>4. ASSUME NEW c \in Class PROVE UpToDate(c)'
  <2>1. MyClasses!Shown(c)' = MyClasses!Shown(c)
    BY <1>1 DEF MyClasses!Shown
  <2>2. lostAnswers' > 0 \/ (lostAnswers' = lostAnswers /\ (Answering(c) => Answering(c)'))
    BY <1>1, WindowTyped DEF Answering
  <2> QED
    BY <1>1, <2>1, <2>2 DEF ClassesInv, UpToDate
<1> QED
  BY <1>3, <1>4 DEF ClassesInv

\* A window opens, over the class of its kid if it is about one.
LEMMA WindowOpens ==
    ASSUME ClassesInv, NEW kind, NEW kid, MyClasses!Opened(kind, kid),
           kind \in {"remove", "reject"} => openId = 1 /\ kid \in Kid
    PROVE  ClassesInv'
<1> DEFINE once == [MyClasses!NoWindow EXCEPT !.kind = kind]
<1>1. /\ classWindow' = [once EXCEPT !.kid = kid]
      /\ UNCHANGED <<classServer, enrolled, detail, lostAnswers, ops, openId>>
  BY DEF MyClasses!Opened, MyClasses!setWindow, MyClasses!stored, MyClasses!cached, MyClasses!place
<1>2. DOMAIN once = {"kind", "kid", "ready", "leaving", "made"} /\ once.kind = kind /\ once.made = 0
  BY WindowTyped
<1> HIDE DEF once
<1>3. /\ DOMAIN classWindow' = {"kind", "kid", "ready", "leaving", "made"} /\ classWindow'.made = 0
      /\ classWindow'.kind = kind /\ classWindow'.kid = kid
  BY <1>1, <1>2
<1> QED
  BY <1>1, <1>3, WindowTyped, WindowStep

\* The kids on screen are those of the first class.
LEMMA KidOnScreen ==
    ASSUME ClassesInv, MyClasses!InSpace, NEW k \in Kid, MyClasses!classroom.kids[k] # "out" PROVE openId = 1
  BY WindowTyped DEF ClassesInv, KidsOfTheFirst, MyClasses!InSpace, MyClasses!classroom, MyClasses!NoClass

LEMMA ClassesNext == ASSUME ClassesInv, [MyClasses!Next]_MyClasses!vars PROVE ClassesInv'
<1> USE DEF MyClasses!stored, MyClasses!cached, MyClasses!place
<1>1. CASE MyClasses!useTeacherClassrooms
  BY <1>1, ClassesStay DEF MyClasses!useTeacherClassrooms
<1>2. CASE MyClasses!useClassroomDetail
  <2> DEFINE new == [value |-> MyClasses!Shown(openId), stale |-> FALSE]
  <2>1. /\ detail' = [detail EXCEPT ![openId] = new]
        /\ UNCHANGED <<classServer, enrolled, lostAnswers, openId, classWindow, ops>>
    BY <1>2 DEF MyClasses!useClassroomDetail
  <2>2. DOMAIN new = {"value", "stale"} /\ new.value = MyClasses!Shown(openId)
    OBVIOUS
  <2> HIDE DEF new
  <2>3. ClassesTyped'
    BY <2>1, <2>2 DEF ClassesInv, ClassesTyped
  <2>4. openId # 1 => MyClasses!Shown(openId).kids = MyClasses!NoClass.kids
    BY DEF MyClasses!Shown
  <2>5. KidsOfTheFirst'
    BY <2>1, <2>2, <2>4 DEF ClassesInv, ClassesTyped, KidsOfTheFirst
  <2>6. \A c \in Class : detail'[c] = detail[c] \/ detail'[c].value = MyClasses!Shown(c)
    BY <2>1, <2>2 DEF ClassesInv, ClassesTyped
  <2>7. \A c \in Class : Answering(c) => Answering(c)'
    BY <2>1 DEF Answering
  <2> QED
    BY <2>1, <2>3, <2>5, <2>6, <2>7, PlaceStep
<1>3. ASSUME NEW c \in Class, MyClasses!onOpen(c) PROVE ClassesInv'
  <2>1. PICK again \in BOOLEAN : detail' = [detail EXCEPT ![c].stale = @ \/ again]
    BY <1>3 DEF MyClasses!onOpen
  <2>2. /\ openId' = c /\ UNCHANGED <<classServer, enrolled, lostAnswers, classWindow, ops>>
        /\ openId = 0
    BY <1>3 DEF MyClasses!onOpen
  <2> DEFINE new == [detail[c] EXCEPT !.stale = @ \/ again]
  <2>3. DOMAIN detail[c] = {"value", "stale"}
    BY DEF ClassesInv, ClassesTyped
  <2>4. DOMAIN new = {"value", "stale"} /\ new.value = detail[c].value /\ (detail[c].stale => new.stale)
    BY <2>3
  <2>5. detail' = [detail EXCEPT ![c] = new]
    BY <2>1
  <2> HIDE DEF new
  <2>6. ClassesTyped'
    BY <2>2, <2>4, <2>5 DEF ClassesInv, ClassesTyped
  <2>7. KidsOfTheFirst'
    BY <2>2, <2>4, <2>5, ClassConstants DEF ClassesInv, ClassesTyped, KidsOfTheFirst
  <2>8. \A d \in Class : MyClasses!Shown(d)' = MyClasses!Shown(d)
    BY <2>2 DEF MyClasses!Shown
  <2>9. \A d \in Class : UpToDate(d)'
    BY <2>2, <2>4, <2>5, <2>8 DEF ClassesInv, ClassesTyped, UpToDate, Answering
  <2> QED
    BY <2>6, <2>7, <2>9 DEF ClassesInv
<1>4. ASSUME NEW v, MyClasses!openView(v) PROVE ClassesInv'
  BY <1>4, ClassesStay DEF MyClasses!openView
<1>5. CASE MyClasses!onBack
  <2>1. /\ openId' = 0 /\ ops' = {[o EXCEPT !.live = FALSE] : o \in ops} /\ classWindow.kind = "none"
        /\ UNCHANGED <<classServer, enrolled, detail, lostAnswers, classWindow>>
    BY <1>5 DEF MyClasses!onBack, MyClasses!Gone, MyClasses!Free
  <2>2. SameChanges(ops', ops)
    BY <2>1, SpaceGone
  <2> QED
    BY <2>1, <2>2, WindowTyped, SpaceStep
<1>6. CASE MyClasses!setCreating \/ MyClasses!setEditing
  BY <1>6, WindowOpens DEF MyClasses!setCreating, MyClasses!setEditing
<1>7. CASE MyClasses!setConfirming
  BY <1>7, WindowOpens DEF MyClasses!setConfirming
<1>8. ASSUME NEW k \in Kid, MyClasses!setToRemove(k) \/ MyClasses!setToReject(k) PROVE ClassesInv'
  <2>1. MyClasses!InSpace /\ MyClasses!classroom.kids[k] # "out"
    BY <1>8 DEF MyClasses!setToRemove, MyClasses!setToReject
  <2>2. openId = 1
    BY <2>1, KidOnScreen
  <2> QED
    BY <1>8, <2>2, WindowOpens DEF MyClasses!setToRemove, MyClasses!setToReject
<1>9. CASE MyClasses!setFields
  <2>1. /\ classWindow' = [classWindow EXCEPT !.ready = ~@]
        /\ UNCHANGED <<classServer, enrolled, detail, lostAnswers, ops, openId>>
    BY <1>9 DEF MyClasses!setFields, MyClasses!setWindow
  <2>2. /\ DOMAIN classWindow' = DOMAIN classWindow /\ classWindow'.made = classWindow.made
        /\ classWindow'.kind = classWindow.kind /\ classWindow'.kid = classWindow.kid
    BY <2>1, WindowTyped
  <2> QED
    BY <2>1, <2>2, WindowTyped, WindowStep
<1>10. CASE MyClasses!close
  BY <1>10, WindowTyped, WindowStep DEF MyClasses!close, MyClasses!setWindow
<1>11. CASE MyClasses!submit
  <2>1. \E kind \in {"create", "update"} : MyClasses!Ask(kind, NoKid)
    BY <1>11 DEF MyClasses!submit, NoKid
  <2>2. UNCHANGED <<classServer, enrolled, detail, lostAnswers, openId, classWindow>>
    BY <1>11 DEF MyClasses!submit
  <2> QED
    BY <2>1, <2>2, ChangeIsAsked DEF ChangeKind
<1>12. CASE MyClasses!run
  <2>1. /\ classWindow' = MyClasses!NoWindow /\ UNCHANGED <<classServer, enrolled, detail, lostAnswers, openId>>
        /\ classWindow.kind \in ChangeKind /\ MyClasses!Ask(classWindow.kind, NoKid)
    BY <1>12 DEF MyClasses!run, NoKid, ChangeKind
  <2> QED
    BY <2>1, ChangeIsAsked
<1>13. CASE MyClasses!restore
  <2>1. /\ UNCHANGED <<classServer, enrolled, detail, lostAnswers, openId, classWindow>>
        /\ "restore" \in ChangeKind /\ MyClasses!Ask("restore", NoKid)
    BY <1>13 DEF MyClasses!restore, NoKid, ChangeKind
  <2> QED
    BY <2>1, ChangeIsAsked
<1>14. CASE MyClasses!confirmRemove
  <2>1. /\ classWindow' = MyClasses!NoWindow /\ UNCHANGED <<classServer, enrolled, detail, lostAnswers, openId>>
        /\ classWindow.kind \in {"remove", "reject"} /\ MyClasses!Ask(classWindow.kind, classWindow.kid)
    BY <1>14 DEF MyClasses!confirmRemove
  <2>2. openId = 1 /\ classWindow.kid \in Kid /\ classWindow.kind \in ChangeKind
    BY <2>1, WindowTyped DEF ChangeKind
  <2> QED
    BY <2>1, <2>2, ChangeIsAsked
<1>15. ASSUME NEW k \in Kid, MyClasses!answer(k) PROVE ClassesInv'
  <2>1. MyClasses!InSpace /\ MyClasses!classroom.kids[k] # "out"
    BY <1>15 DEF MyClasses!answer
  <2>2. openId = 1
    BY <2>1, KidOnScreen
  <2>3. /\ UNCHANGED <<classServer, enrolled, detail, lostAnswers, openId, classWindow>>
        /\ "accept" \in ChangeKind /\ MyClasses!Ask("accept", k)
    BY <1>15 DEF MyClasses!answer, ChangeKind
  <2> QED
    BY <2>2, <2>3, ChangeIsAsked
<1>16. CASE MyClasses!onSaved
  <2>1. /\ classWindow' = MyClasses!NoWindow /\ openId' \in {classWindow.made, openId}
        /\ ops' = {[o EXCEPT !.live = @ /\ ~MyClasses!OfForm(o)] : o \in ops}
        /\ UNCHANGED <<classServer, enrolled, detail, lostAnswers>>
    BY <1>16 DEF MyClasses!onSaved
  <2>2. SameChanges(ops', ops)
    BY <2>1, FormGone
  <2> QED
    BY <2>1, <2>2, WindowTyped, SpaceStep
<1>17. ASSUME NEW o \in ops, MyClasses!ServerDoes(o) PROVE ClassesInv'
  BY <1>17, ChangeIsMade
<1>18. ASSUME NEW o \in ops, MyClasses!Saved(o) PROVE ClassesInv'
  BY <1>18, FormSaved
<1>19. ASSUME NEW o \in ops, MyClasses!Ran(o) PROVE ClassesInv'
  BY <1>19, OptionRan
<1>20. ASSUME NEW o \in ops, MyClasses!Answered(o) PROVE ClassesInv'
  BY <1>20, KidAnswered
<1>21. ASSUME NEW o \in ops, MyClasses!setError(o) PROVE ClassesInv'
  BY <1>21, ChangeFailed
<1>22. CASE UNCHANGED MyClasses!vars
  BY <1>22, ClassesStay DEF MyClasses!vars
<1> QED
  BY <1>1, <1>2, <1>3, <1>4, <1>5, <1>6, <1>7, <1>8, <1>9, <1>10, <1>11, <1>12, <1>13, <1>14, <1>15, <1>16, <1>17, <1>18,
     <1>19, <1>20, <1>21, <1>22 DEF MyClasses!Next

(***************************************************************************)
(* What the teacher changed is what they see, for any classes, kids and    *)
(* changes under way, whichever class or window is on screen when their    *)
(* answers come, and in whatever order (the invalidations of               *)
(* useClassroomsApi.ts).                                                   *)
(***************************************************************************)
THEOREM OwnChangesAreShown == MyClasses!Spec => []OwnChangesShow
<1>1. ClassesInv => OwnChangesShow
  <2> SUFFICES ASSUME ClassesInv, MyClasses!InSpace, ops = {}, lostAnswers = 0
               PROVE  detail[openId].stale \/ MyClasses!classroom = MyClasses!Shown(openId)
    BY DEF OwnChangesShow, MyClasses!OwnChangesShow
  <2>1. openId \in Class
    BY WindowTyped DEF MyClasses!InSpace
  <2> QED
    BY <2>1 DEF ClassesInv, UpToDate, Answering, MyClasses!classroom
<1> QED
  BY <1>1, ClassesInit, ClassesNext, PTL DEF MyClasses!Spec

-----------------------------------------------------------------------------
(* The notifications of the kid.                                           *)

LEMMA Counting ==
    /\ \A S : KidNotifications!IsFiniteSet(S) <=> IsFiniteSet(S)
    /\ \A S : KidNotifications!Cardinality(S) = Cardinality(S)
  BY DEF KidNotifications!IsFiniteSet, IsFiniteSet, KidNotifications!Cardinality, Cardinality

LEMMA KidSizes ==
    /\ KID_PER_SCREEN \in Nat \ {0} /\ IsFiniteSet(KidNotifications!Number)
    /\ KidNotifications!Number \subseteq Nat \ {0} /\ kidTrayAtFirst \subseteq KidNotifications!Number
  BY PortalAssumption, Counting DEF KidNotifications!KidTrayAssumption

(***************************************************************************)
(* The inductive invariant: while the kid waits for a deletion asked for   *)
(* from the list as it is, nothing else is deleted and the screen stays;   *)
(* what was on it when it was asked for tells how many there are at least. *)
(***************************************************************************)
KidTyped ==
    /\ kidTray \subseteq KidNotifications!Number /\ listed \in Nat
    /\ hasty \in BOOLEAN /\ elsewhere \in Nat
    /\ confirming => notification # 0
    /\ \A r \in kidRequests : DOMAIN r = {"kind", "id", "by", "screen", "items", "done"}
                             /\ r.done \in BOOLEAN /\ r.screen \in Nat
StillThere(r) == Cardinality(kidTray) >= listed * KID_PER_SCREEN + r.items - (IF r.done THEN 1 ELSE 0)
Waits(r) ==
    /\ r.by = "reader" /\ notification # 0
    /\ r.screen = listed /\ r.items \in Nat \ {0}
    /\ elsewhere = 0 => StillThere(r)
KidInv ==
    /\ KidTyped
    /\ ~hasty => \A r \in KidNotifications!Deletions : Waits(r)
    /\ ~hasty => \A r, q \in KidNotifications!Deletions : r = q

LEMMA KidTrayFinite == ASSUME KidInv PROVE kidTray \in SUBSET Nat /\ IsFiniteSet(kidTray) /\ Cardinality(kidTray) \in Nat
<1>1. kidTray \in SUBSET KidNotifications!Number
  BY DEF KidInv, KidTyped
<1>2. IsFiniteSet(kidTray)
  BY <1>1, KidSizes, FS_Subset
<1> QED
  BY <1>1, <1>2, KidSizes, FS_CardinalityType

LEMMA KidInit == KidNotifications!Init => KidInv
<1> SUFFICES ASSUME KidNotifications!Init PROVE KidInv
  OBVIOUS
<1>1. /\ kidTray = kidTrayAtFirst /\ listed = 0 /\ ~confirming
      /\ kidRequests = {} /\ hasty = FALSE /\ elsewhere = 0
  BY DEF KidNotifications!Init
<1>2. KidTyped
  BY <1>1, KidSizes DEF KidTyped
<1>3. KidNotifications!Deletions = {}
  BY <1>1 DEF KidNotifications!Deletions
<1> QED
  BY <1>2, <1>3 DEF KidInv

\* What is on the screen that is listed.
LEMMA OnTheScreen ==
    ASSUME NEW s
    PROVE  KidNotifications!Fetched(s).items = Screenful(kidTray, KID_PER_SCREEN, s)
  BY Counting DEF KidNotifications!Fetched, KidNotifications!Newer, Screenful, Before

\* A step that asks for, does and answers no deletion and leaves the screen.
LEMMA DeletionsWait ==
    ASSUME KidInv, KidTyped', hasty' = hasty, elsewhere' = elsewhere, listed' = listed,
           Cardinality(kidTray') >= Cardinality(kidTray), Cardinality(kidTray') \in Nat,
           notification # 0 => notification' # 0,
           KidNotifications!Deletions' \subseteq KidNotifications!Deletions
    PROVE  KidInv'
<1> SUFFICES ASSUME ~hasty' PROVE (\A r \in KidNotifications!Deletions : Waits(r))' /\ (\A r, q \in KidNotifications!Deletions : r = q)'
  BY DEF KidInv
<1>1. \A r \in KidNotifications!Deletions : Waits(r) /\ DOMAIN r = {"kind", "id", "by", "screen", "items", "done"} /\ r.done \in BOOLEAN
  BY DEF KidInv, KidTyped, KidNotifications!Deletions
<1>2. \A r, q \in KidNotifications!Deletions : r = q
  BY DEF KidInv
<1>3. listed * KID_PER_SCREEN \in Int /\ Cardinality(kidTray) \in Nat
  BY KidSizes, KidTrayFinite DEF KidInv, KidTyped
<1>4. ASSUME NEW r \in KidNotifications!Deletions' PROVE Waits(r)'
  <2>1. Waits(r)
    BY <1>1
  <2>2. r.done \in BOOLEAN
    BY <1>1
  <2>3. elsewhere = 0 => StillThere(r)'
    <3>1. SUFFICES ASSUME elsewhere = 0 PROVE StillThere(r)'
      OBVIOUS
    <3>2. StillThere(r) /\ r.items \in Nat
      BY <2>1, <3>1 DEF Waits
    <3> QED
      BY <1>3, <3>2 DEF StillThere
  <2> QED
    BY <2>1, <2>3 DEF Waits
<1> QED
  BY <1>2, <1>4

\* Nobody waits: a step that leaves no deletion to wait for.
LEMMA NothingWaits ==
    ASSUME KidTyped', ~hasty' => KidNotifications!Deletions' = {} PROVE KidInv'
  BY DEF KidInv

\* Who leaves with a deletion on its way is hasty.
LEMMA NobodyLeaves ==
    ASSUME KidInv, ~hasty, \A r \in kidRequests : r.by # "reader" PROVE KidNotifications!Deletions = {}
  BY DEF KidInv, Waits, KidNotifications!Deletions

LEMMA LeftTyped ==
    ASSUME KidInv, NEW r \in KidNotifications!Left
    PROVE  /\ DOMAIN r = {"kind", "id", "by", "screen", "items", "done"}
           /\ r.done \in BOOLEAN /\ r.screen \in Nat /\ r.by # "reader"
           /\ \E q \in kidRequests : r = (IF q.by = "reader" THEN [q EXCEPT !.by = "gone"] ELSE q) /\ r.kind = q.kind
<1>1. PICK q \in kidRequests : r = (IF q.by = "reader" THEN [q EXCEPT !.by = "gone"] ELSE q)
  BY DEF KidNotifications!Left
<1>2. DOMAIN q = {"kind", "id", "by", "screen", "items", "done"} /\ q.done \in BOOLEAN /\ q.screen \in Nat
  BY DEF KidInv, KidTyped
<1>3. DOMAIN r = {"kind", "id", "by", "screen", "items", "done"}
      /\ r.done \in BOOLEAN /\ r.screen \in Nat /\ r.kind = q.kind /\ r.by # "reader"
  BY <1>1, <1>2
<1> QED
  BY <1>1, <1>3

LEMMA KidGoesBack == ASSUME KidInv, KidNotifications!onBack PROVE KidInv'
<1>1. /\ UNCHANGED <<kidTray, listed, elsewhere>> /\ confirming' = FALSE
      /\ kidRequests' = KidNotifications!Left
      /\ hasty' = (hasty \/ KidNotifications!Left # kidRequests)
  BY DEF KidNotifications!onBack, KidNotifications!tray, KidNotifications!list
<1>2. KidTyped'
  BY <1>1, LeftTyped DEF KidInv, KidTyped
<1>3. ASSUME ~hasty' PROVE KidNotifications!Deletions' = {}
  <2>1. kidRequests' = kidRequests /\ \A r \in kidRequests : r.by # "reader"
    BY <1>1, <1>3, LeftTyped
  <2>2. KidNotifications!Deletions = {}
    BY <1>1, <1>3, <2>1, NobodyLeaves
  <2> QED
    BY <2>1, <2>2 DEF KidNotifications!Deletions
<1> QED
  BY <1>2, <1>3, NothingWaits

LEMMA DeletionAskedByKid == ASSUME KidInv, KidNotifications!confirmDelete PROVE KidInv'
<1>0. PICK new : new = [KidNotifications!Asked("delete", notification) EXCEPT !.by = "reader"]
  OBVIOUS
<1>1. /\ UNCHANGED <<kidTray, listed, elsewhere, notification, confirming>> /\ confirming
      /\ \A r \in kidRequests : r.by # "reader"
      /\ hasty' = (hasty \/ KidNotifications!shown.items # KidNotifications!Fetched(listed).items
                         \/ notification \notin KidNotifications!shown.items)
      /\ kidRequests' = kidRequests \cup {new}
  BY <1>0 DEF KidNotifications!confirmDelete, KidNotifications!tray, KidNotifications!list, KidNotifications!reader
<1>2. /\ DOMAIN new = {"kind", "id", "by", "screen", "items", "done"}
      /\ new.kind = "delete" /\ new.by = "reader" /\ new.screen = listed /\ new.done = FALSE
      /\ new.items = Cardinality(KidNotifications!shown.items)
  BY <1>0, Counting DEF KidNotifications!Asked
<1>3. KidTyped'
  BY <1>1, <1>2 DEF KidInv, KidTyped
<1>4. ASSUME ~hasty' PROVE KidNotifications!Deletions' = {new} /\ Waits(new)'
  <2>1. KidNotifications!Deletions = {} /\ ~hasty
    BY <1>1, <1>4, NobodyLeaves
  <2>2. KidNotifications!Deletions' = {new}
    BY <1>1, <1>2, <2>1 DEF KidNotifications!Deletions
  <2>3. KidNotifications!shown.items = Screenful(kidTray, KID_PER_SCREEN, listed) /\ notification \in Screenful(kidTray, KID_PER_SCREEN, listed)
    BY <1>1, <1>4, OnTheScreen
  <2>4. listed \in Nat /\ notification # 0
    BY <1>1 DEF KidInv, KidTyped
  <2>5. Cardinality(kidTray) >= listed * KID_PER_SCREEN + new.items /\ new.items \in Nat \ {0}
    BY <1>2, <2>3, <2>4, KidSizes, KidTrayFinite, ScreensBefore
  <2>6. StillThere(new)'
    BY <1>1, <1>2, <2>4, <2>5, KidSizes DEF StillThere
  <2> QED
    BY <1>1, <1>2, <2>2, <2>4, <2>5, <2>6 DEF Waits
<1> QED
  BY <1>3, <1>4 DEF KidInv

LEMMA DeletionDone == ASSUME KidInv, NEW r \in kidRequests, KidNotifications!ServerDeletes(r) PROVE KidInv'
<1> DEFINE now == [r EXCEPT !.done = TRUE]
<1>1. /\ UNCHANGED <<listed, hasty, elsewhere, notification, confirming>>
      /\ r.kind = "delete" /\ ~r.done
      /\ kidTray' = kidTray \ {r.id} /\ kidRequests' = (kidRequests \ {r}) \cup {now}
  BY DEF KidNotifications!ServerDeletes, KidNotifications!list, KidNotifications!reader, KidNotifications!counts
<1>2. DOMAIN r = {"kind", "id", "by", "screen", "items", "done"} /\ r.done \in BOOLEAN /\ r.screen \in Nat
  BY DEF KidInv, KidTyped
<1>3. /\ DOMAIN now = {"kind", "id", "by", "screen", "items", "done"} /\ now.done = TRUE
      /\ now.kind = "delete" /\ now.by = r.by /\ now.screen = r.screen /\ now.items = r.items
  BY <1>1, <1>2
<1> HIDE DEF now
<1>4. KidTyped'
  BY <1>1, <1>3 DEF KidInv, KidTyped
<1>5. ASSUME ~hasty' PROVE KidNotifications!Deletions' = {now} /\ Waits(now)'
  <2>1. Waits(r) /\ KidNotifications!Deletions = {r}
    BY <1>1, <1>5 DEF KidInv, KidNotifications!Deletions
  <2>2. KidNotifications!Deletions' = {now}
    BY <1>1, <1>3, <2>1 DEF KidNotifications!Deletions
  <2>3. Cardinality(kidTray') >= Cardinality(kidTray) - 1 /\ Cardinality(kidTray') \in Nat /\ Cardinality(kidTray) \in Nat
    <3>1. Cardinality(kidTray') = IF r.id \in kidTray THEN Cardinality(kidTray) - 1 ELSE Cardinality(kidTray)
      BY <1>1, KidTrayFinite, FS_RemoveElement
    <3>2. IsFiniteSet(kidTray') /\ Cardinality(kidTray') \in Nat
      BY <1>1, KidTrayFinite, FS_RemoveElement, FS_CardinalityType
    <3> QED
      BY <3>1, <3>2, KidTrayFinite
  <2>4. listed * KID_PER_SCREEN \in Int
    BY KidSizes DEF KidInv, KidTyped
  <2>5. elsewhere = 0 => StillThere(now)'
    <3>1. SUFFICES ASSUME elsewhere = 0 PROVE StillThere(now)'
      OBVIOUS
    <3>2. Cardinality(kidTray) >= listed * KID_PER_SCREEN + r.items /\ r.items \in Nat
      BY <1>1, <2>1, <2>4, <3>1 DEF Waits, StillThere
    <3> QED
      BY <1>1, <1>3, <2>3, <2>4, <3>2 DEF StillThere
  <2> QED
    BY <1>1, <1>3, <2>1, <2>2, <2>5 DEF Waits
<1> QED
  BY <1>4, <1>5 DEF KidInv

LEMMA DeletionAnswered == ASSUME KidInv, NEW r \in kidRequests, KidNotifications!onDeleted(r) PROVE KidInv'
<1>1. /\ UNCHANGED <<kidTray, hasty, elsewhere>> /\ confirming' = FALSE
      /\ r.kind = "delete" /\ r.done
      /\ kidRequests' = KidNotifications!Left \ {r, [r EXCEPT !.by = "gone"]}
      /\ listed' = KidNotifications!BackFrom(r)
  BY DEF KidNotifications!onDeleted, KidNotifications!OnScreen, KidNotifications!tray, KidNotifications!counts
<1>2. DOMAIN r = {"kind", "id", "by", "screen", "items", "done"} /\ r.screen \in Nat /\ listed \in Nat
  BY DEF KidInv, KidTyped
<1>3. listed' \in Nat
  BY <1>1, <1>2 DEF KidNotifications!BackFrom
<1>4. KidTyped'
  BY <1>1, <1>3, LeftTyped DEF KidInv, KidTyped
<1>5. ASSUME ~hasty' PROVE KidNotifications!Deletions' = {}
  <2>1. \A q \in kidRequests : q.kind = "delete" => q = r
    BY <1>1, <1>5 DEF KidInv, KidNotifications!Deletions
  <2>2. r.by = "reader"
    BY <1>1, <1>5 DEF KidInv, KidNotifications!Deletions, Waits
  <2>3. ASSUME NEW q \in KidNotifications!Left, q.kind = "delete" PROVE q = [r EXCEPT !.by = "gone"]
    BY <2>1, <2>2, <2>3, LeftTyped
  <2> QED
    BY <1>1, <2>3 DEF KidNotifications!Deletions
<1> QED
  BY <1>4, <1>5, NothingWaits

LEMMA KidNext == ASSUME KidInv, [KidNotifications!Next]_KidNotifications!vars PROVE KidInv'
<1> USE DEF KidNotifications!tray, KidNotifications!list, KidNotifications!reader, KidNotifications!counts
<1>0. Cardinality(kidTray) \in Nat
  BY KidTrayFinite
\* A step that leaves the tray, the list and the deletions.
<1>1. ASSUME KidTyped', UNCHANGED <<kidTray, listed, hasty, elsewhere>>, notification # 0 => notification' # 0,
             KidNotifications!Deletions' \subseteq KidNotifications!Deletions
      PROVE  KidInv'
  BY <1>0, <1>1, DeletionsWait
<1>2. CASE KidNotifications!useKidClassNotifications
  <2>1. UNCHANGED <<kidTray, listed, hasty, elsewhere, notification, confirming, kidRequests>>
    BY <1>2 DEF KidNotifications!useKidClassNotifications, KidNotifications!OnScreen
  <2> QED
    BY <1>1, <2>1 DEF KidInv, KidTyped, KidNotifications!Deletions
<1>3. ASSUME NEW s \in KidNotifications!ListPage, KidNotifications!onScreen(s) PROVE KidInv'
  <2>1. /\ UNCHANGED <<kidTray, hasty, elsewhere, notification, confirming, kidRequests>>
        /\ notification = 0 /\ listed' = s
    BY <1>3 DEF KidNotifications!onScreen, KidNotifications!OnScreen, KidNotifications!AtTheList
  <2>2. s \in Nat
    BY DEF KidNotifications!ListPage
  <2>3. ~hasty => KidNotifications!Deletions = {}
    BY <2>1 DEF KidInv, Waits
  <2> QED
    BY <2>1, <2>2, <2>3, NothingWaits DEF KidInv, KidTyped, KidNotifications!Deletions
<1>4. ASSUME NEW n \in KidNotifications!Number, KidNotifications!read(n) PROVE KidInv'
  <2>1. /\ UNCHANGED <<kidTray, listed, hasty, elsewhere>> /\ confirming' = FALSE /\ notification = 0
        /\ kidRequests' \subseteq kidRequests \cup {KidNotifications!Mark(n)}
    BY <1>4 DEF KidNotifications!read, KidNotifications!AtTheList
  <2>2. PICK mark : mark = KidNotifications!Mark(n)
    OBVIOUS
  <2>3. PICK once : once = [KidNotifications!Asked("mark", n) EXCEPT !.screen = 0]
    OBVIOUS
  <2>4. mark = [once EXCEPT !.items = 0]
    BY <2>2, <2>3 DEF KidNotifications!Mark
  <2>5. /\ DOMAIN once = {"kind", "id", "by", "screen", "items", "done"}
        /\ once.kind = "mark" /\ once.done = FALSE /\ once.screen = 0
    BY <2>3 DEF KidNotifications!Asked
  <2>6. /\ DOMAIN mark = {"kind", "id", "by", "screen", "items", "done"}
        /\ mark.kind = "mark" /\ mark.done = FALSE /\ mark.screen = 0
    BY <2>4, <2>5
  <2>7. KidTyped'
    <3>1. \A r \in kidRequests' : /\ DOMAIN r = {"kind", "id", "by", "screen", "items", "done"}
                                   /\ r.done \in BOOLEAN /\ r.screen \in Nat
      <4>1. \A r \in kidRequests : /\ DOMAIN r = {"kind", "id", "by", "screen", "items", "done"}
                                    /\ r.done \in BOOLEAN /\ r.screen \in Nat
        BY DEF KidInv, KidTyped
      <4>2. mark.done \in BOOLEAN
        BY <2>6, Zenon
      <4>3. \A r \in kidRequests' : r \in kidRequests \/ r = mark
        BY <2>1, <2>2
      <4> QED
        BY <2>6, <4>1, <4>2, <4>3
    <3> QED
      BY <2>1, <3>1 DEF KidInv, KidTyped
  <2>8. KidNotifications!Deletions' \subseteq KidNotifications!Deletions
    BY <2>1, <2>2, <2>6 DEF KidNotifications!Deletions
  <2> QED
    BY <1>1, <2>1, <2>7, <2>8
<1>5. ASSUME NEW p, KidNotifications!setPage(p) PROVE KidInv'
  <2>1. UNCHANGED <<kidTray, listed, hasty, elsewhere, notification, confirming, kidRequests>>
    BY <1>5 DEF KidNotifications!setPage
  <2> QED
    BY <1>1, <2>1 DEF KidInv, KidTyped, KidNotifications!Deletions
<1>6. ASSUME NEW on \in BOOLEAN, KidNotifications!setConfirming(on) PROVE KidInv'
  <2>1. UNCHANGED <<kidTray, listed, hasty, elsewhere, notification, kidRequests>> /\ notification # 0
    BY <1>6 DEF KidNotifications!setConfirming
  <2> QED
    BY <1>1, <2>1 DEF KidInv, KidTyped, KidNotifications!Deletions
<1>7. ASSUME NEW r \in kidRequests, KidNotifications!ServerMarks(r) PROVE KidInv'
  <2>1. UNCHANGED <<kidTray, listed, hasty, elsewhere, notification, confirming>> /\ kidRequests' = kidRequests \ {r}
    BY <1>7 DEF KidNotifications!ServerMarks
  <2> QED
    BY <1>1, <2>1 DEF KidInv, KidTyped, KidNotifications!Deletions
<1>8. ASSUME NEW r \in kidRequests, KidNotifications!setFailed(r) PROVE KidInv'
  <2>1. /\ UNCHANGED <<kidTray, listed, hasty, elsewhere, notification>> /\ kidRequests' = kidRequests \ {r}
        /\ confirming' => confirming
    BY <1>8 DEF KidNotifications!setFailed
  <2> QED
    BY <1>1, <2>1 DEF KidInv, KidTyped, KidNotifications!Deletions
<1>9. ASSUME NEW n \in KidNotifications!Number, KidNotifications!Arrives(n) PROVE KidInv'
  <2>1. /\ UNCHANGED <<listed, hasty, elsewhere, notification, confirming, kidRequests>>
        /\ kidTray' = kidTray \cup {n}
    BY <1>9 DEF KidNotifications!Arrives
  <2>2. Cardinality(kidTray') = IF n \in kidTray THEN Cardinality(kidTray) ELSE Cardinality(kidTray) + 1
    BY <2>1, KidTrayFinite, FS_AddElement
  <2>3. Cardinality(kidTray') >= Cardinality(kidTray) /\ Cardinality(kidTray') \in Nat
    BY <1>0, <2>2
  <2>4. KidTyped'
    BY <2>1 DEF KidInv, KidTyped
  <2>5. KidNotifications!Deletions' = KidNotifications!Deletions
    BY <2>1 DEF KidNotifications!Deletions
  <2> QED
    BY <2>1, <2>3, <2>4, <2>5, DeletionsWait
<1>10. ASSUME NEW n \in KidNotifications!Number, KidNotifications!GoesElsewhere(n) PROVE KidInv'
  <2>1. /\ UNCHANGED <<listed, hasty, notification, confirming, kidRequests>>
        /\ kidTray' \subseteq kidTray /\ elsewhere' = elsewhere + 1
    BY <1>10 DEF KidNotifications!GoesElsewhere
  <2>2. KidTyped' /\ elsewhere' # 0
    BY <2>1 DEF KidInv, KidTyped
  <2>3. \A r : Waits(r) => Waits(r)'
    BY <2>1, <2>2 DEF Waits
  <2> QED
    BY <2>1, <2>2, <2>3 DEF KidInv, KidNotifications!Deletions
<1>11. CASE UNCHANGED KidNotifications!vars
  <2>1. UNCHANGED <<kidTray, listed, hasty, elsewhere, notification, confirming, kidRequests>>
    BY <1>11 DEF KidNotifications!vars
  <2> QED
    BY <1>1, <2>1 DEF KidInv, KidTyped, KidNotifications!Deletions
<1> QED
  BY <1>2, <1>3, <1>4, <1>5, <1>6, <1>7, <1>8, <1>9, <1>10, <1>11, KidGoesBack, DeletionAskedByKid, DeletionDone, DeletionAnswered
     DEF KidNotifications!Next

\* What a deletion leaves on screen when it was asked for from the list as it
\* is, and waited for.
LandsSomewhere ==
    \A r \in KidNotifications!Deletions \ kidRequests' :
      (r.done /\ ~hasty' /\ elsewhere = 0) => KidNotifications!SomethingToRead'

LEMMA AnsweredLands == ASSUME KidInv, NEW q \in kidRequests, KidNotifications!onDeleted(q) PROVE LandsSomewhere
<1> SUFFICES ASSUME NEW r \in KidNotifications!Deletions, r.done, ~hasty', elsewhere = 0, kidTray # {}
             PROVE  KidNotifications!SomethingToRead'
  <2>1. kidTray' = kidTray
    BY DEF KidNotifications!onDeleted, KidNotifications!tray
  <2> QED
    BY <2>1 DEF LandsSomewhere, KidNotifications!SomethingToRead
<1>1. /\ UNCHANGED <<kidTray, hasty, elsewhere>> /\ q.kind = "delete" /\ listed' = KidNotifications!BackFrom(q)
  BY DEF KidNotifications!onDeleted, KidNotifications!OnScreen, KidNotifications!tray, KidNotifications!counts
<1>2. r = q /\ Waits(r) /\ listed \in Nat
  BY <1>1 DEF KidInv, KidTyped, KidNotifications!Deletions
<1>3. r.screen = listed /\ r.items \in Nat \ {0} /\ Cardinality(kidTray) >= listed * KID_PER_SCREEN + r.items - 1
  BY <1>2 DEF Waits, StillThere
<1>4. Cardinality(kidTray) \in Nat \ {0} /\ KID_PER_SCREEN \in Nat \ {0}
  BY KidTrayFinite, FS_EmptySet, KidSizes
<1>5. listed' \in Nat /\ Cardinality(kidTray) > listed' * KID_PER_SCREEN
  <2>1. CASE r.items <= 1 /\ listed > 0
    <3>1. listed' = listed - 1
      BY <1>1, <1>2, <1>3, <2>1 DEF KidNotifications!BackFrom
    <3>2. listed * KID_PER_SCREEN = listed' * KID_PER_SCREEN + KID_PER_SCREEN /\ listed' * KID_PER_SCREEN \in Nat
      BY <1>2, <1>4, <2>1, <3>1
    <3> QED
      BY <1>2, <1>3, <1>4, <2>1, <3>1, <3>2
  <2>2. CASE ~(r.items <= 1 /\ listed > 0)
    <3>1. listed' = listed
      BY <1>1, <1>2, <1>3, <2>2 DEF KidNotifications!BackFrom
    <3>2. CASE listed = 0
      BY <1>4, <3>1, <3>2
    <3>3. CASE listed > 0
      <4>1. r.items > 1 /\ listed * KID_PER_SCREEN \in Nat
        BY <1>2, <1>3, <1>4, <2>2, <3>3
      <4> QED
        BY <1>2, <1>3, <1>4, <3>1, <4>1
    <3> QED
      BY <1>2, <3>2, <3>3
  <2> QED
    BY <2>1, <2>2
<1>6. Screenful(kidTray, KID_PER_SCREEN, listed') # {}
  BY <1>4, <1>5, KidTrayFinite, ScreenHasSome
<1>7. (KidNotifications!Fetched(listed).items = Screenful(kidTray, KID_PER_SCREEN, listed))'
  BY Counting DEF KidNotifications!Fetched, KidNotifications!Newer, Screenful, Before
<1> QED
  BY <1>1, <1>6, <1>7 DEF KidNotifications!SomethingToRead

(***************************************************************************)
(* "The last one of a screen: back to the one before it" (KidTray.tsx): a  *)
(* deletion asked for from the list as it is leaves the kid on a screen    *)
(* with something on it, for any screens, trays and arrivals meanwhile.    *)
(***************************************************************************)
THEOREM DeletionsLandSomewhere == KidNotifications!Spec => DeletionLandsSomewhere
<1>1. ASSUME KidInv, [KidNotifications!Next]_KidNotifications!vars PROVE [LandsSomewhere]_KidNotifications!vars
  <2> SUFFICES ASSUME KidNotifications!Next, NEW r \in KidNotifications!Deletions, r \notin kidRequests', r.done, ~hasty',
                      \A q \in kidRequests : ~KidNotifications!onDeleted(q)
               PROVE  FALSE
    BY <1>1, AnsweredLands DEF LandsSomewhere
  <2>1. r \in kidRequests /\ r.kind = "delete"
    BY DEF KidNotifications!Deletions
  <2>2. kidRequests \subseteq kidRequests' => FALSE
    BY <2>1
  <2>3. CASE KidNotifications!onBack
    BY <1>1, <2>1, <2>3 DEF KidNotifications!onBack
  <2>4. ASSUME NEW q \in kidRequests, KidNotifications!ServerMarks(q) PROVE FALSE
    BY <2>1, <2>4 DEF KidNotifications!ServerMarks
  <2>5. ASSUME NEW q \in kidRequests, KidNotifications!ServerDeletes(q) PROVE FALSE
    BY <2>1, <2>5 DEF KidNotifications!ServerDeletes
  <2>6. ASSUME NEW q \in kidRequests, KidNotifications!setFailed(q) PROVE FALSE
    BY <2>1, <2>6 DEF KidNotifications!setFailed
  <2>7. ASSUME NEW n, KidNotifications!read(n) PROVE FALSE
    BY <2>2, <2>7 DEF KidNotifications!read
  <2> QED
    BY <2>2, <2>3, <2>4, <2>5, <2>6, <2>7
       DEF KidNotifications!Next, KidNotifications!useKidClassNotifications, KidNotifications!confirmDelete, KidNotifications!onScreen,
           KidNotifications!setPage, KidNotifications!setConfirming, KidNotifications!Arrives, KidNotifications!GoesElsewhere
<1>2. KidInv /\ [KidNotifications!Next]_KidNotifications!vars => KidInv'
  BY KidNext
<1> QED
  BY <1>1, <1>2, KidInit, PTL
     DEF KidNotifications!Spec, DeletionLandsSomewhere, KidNotifications!DeletionLandsSomewhere, LandsSomewhere

-----------------------------------------------------------------------------
(* Deleting an account.                                                    *)

ErasurePlace == {"classroom", "content", "notification", "sessions"}

\* The services a deletion has still to go to.
ToDo(place) ==
    IF place = "classroom" THEN ErasurePlace
    ELSE IF place = "content" THEN {"content", "notification", "sessions"}
    ELSE IF place = "notification" THEN {"notification", "sessions"}
    ELSE IF place = "sessions" THEN {"sessions"}
    ELSE {}

ErasureAsked == [at : ErasurePlace \cup {"idle", "account"}, kids : SUBSET Child, since : Nat]

ErasureTyped ==
    /\ leaver \in {"guardian", "teacher"} /\ accountRow \in {"here", "gone"} /\ rowsWritten \in Nat
    /\ kidRows \in [Child -> {"unborn", "here", "gone"}]
    /\ accountRow = "here" => \A k \in Child : kidRows[k] # "gone"
    /\ erasures \in [DeletionForm -> ErasureAsked] /\ took \in ErasureAsked
    /\ \A f \in DeletionForm : erasures[f].since <= rowsWritten
    /\ took.since <= rowsWritten

\* What is kept is kept by someone of someone; a teacher has nothing of theirs at
\* content-service.
RowsRight ==
    \A row \in rowsLeft :
        /\ row.n \in Nat /\ row.n <= rowsWritten /\ row.at \in ErasurePlace
        /\ leaver = "teacher" => row.at # "content"
        /\ row.of \in Deletion!Concerned(row.at, Deletion!Known)

\* Whatever is older than a deletion under way is of those it names, at a service it
\* has still to go to.
OlderToDo(d) ==
    \A row \in rowsLeft : row.n <= d.since => row.at \in ToDo(d.at) /\ row.of \in Deletion!Concerned(row.at, d.kids)

ErasureInv ==
    /\ ErasureTyped /\ RowsRight
    /\ \A f \in DeletionForm : erasures[f].at # "idle" => OlderToDo(erasures[f])
    /\ \A f \in DeletionForm : leaver = "teacher" => erasures[f].at # "content"
    /\ NothingOlderIsLeft

LEMMA ErasureInit == Deletion!Init => ErasureInv
<1> SUFFICES ASSUME Deletion!Init PROVE ErasureInv
  OBVIOUS
<1>1. Deletion!Idle \in ErasureAsked /\ Deletion!Idle.at = "idle" /\ Deletion!Idle.since = 0
  BY DEF Deletion!Idle, ErasureAsked
<1> QED
  BY <1>1 DEF Deletion!Init, ErasureInv, ErasureTyped, RowsRight, NothingOlderIsLeft, Deletion!NothingOlderIsLeft

\* A step that writes nothing and asks nothing anew.
LEMMA OnlyLess ==
    ASSUME ErasureInv, rowsLeft' \subseteq rowsLeft, rowsWritten' = rowsWritten, leaver' = leaver,
           \A k \in Child : kidRows[k] # "unborn" => kidRows'[k] # "unborn"
    PROVE  /\ RowsRight'
           /\ \A f \in DeletionForm : erasures[f].at # "idle" /\ erasures'[f] = erasures[f] => OlderToDo(erasures[f])'
           /\ accountRow = "gone" /\ took' = took => NothingOlderIsLeft'
<1>1. Deletion!Known \subseteq Deletion!Known'
  BY DEF Deletion!Known
<1>2. RowsRight'
  BY <1>1 DEF ErasureInv, RowsRight, Deletion!Concerned
<1>3. ASSUME NEW f \in DeletionForm, erasures[f].at # "idle", erasures'[f] = erasures[f]
      PROVE  OlderToDo(erasures[f])'
  BY <1>3 DEF ErasureInv, OlderToDo, Deletion!Concerned
<1>4. ASSUME accountRow = "gone", took' = took PROVE NothingOlderIsLeft'
  BY <1>4 DEF ErasureInv, NothingOlderIsLeft, Deletion!NothingOlderIsLeft
<1> QED
  BY <1>2, <1>3, <1>4

LEMMA ErasureMeanwhile ==
    ASSUME ErasureInv
    PROVE  /\ \A k \in Child : Deletion!createStudent(k) => ErasureInv'
           /\ \A place \in ErasurePlace, of \in {Deletion!Person} \cup Child : Deletion!Write(place, of) => ErasureInv'
           /\ \A c \in lateCalls : Deletion!ComesLate(c) => ErasureInv'
<1>1. ASSUME NEW k \in Child, Deletion!createStudent(k) PROVE ErasureInv'
  <2>1. /\ rowsLeft' \subseteq rowsLeft /\ rowsWritten' = rowsWritten /\ leaver' = leaver
        /\ \A j \in Child : kidRows[j] # "unborn" => kidRows'[j] # "unborn"
        /\ erasures' = erasures /\ took' = took /\ accountRow = "here" /\ accountRow' = accountRow
    BY <1>1 DEF Deletion!createStudent, ErasureInv, ErasureTyped
  <2>2. ErasureTyped'
    BY <1>1 DEF Deletion!createStudent, ErasureInv, ErasureTyped
  <2>3. RowsRight' /\ \A f \in DeletionForm : erasures[f].at # "idle" /\ erasures'[f] = erasures[f] => OlderToDo(erasures[f])'
    BY <2>1, OnlyLess
  <2>4. NothingOlderIsLeft'
    BY <2>1 DEF NothingOlderIsLeft, Deletion!NothingOlderIsLeft
  <2> QED
    BY <2>1, <2>2, <2>3, <2>4 DEF ErasureInv, OlderToDo
<1>2. ASSUME NEW place \in ErasurePlace, NEW of \in {Deletion!Person} \cup Child, Deletion!Write(place, of) PROVE ErasureInv'
  <2> DEFINE new == [at |-> place, of |-> of, n |-> rowsWritten + 1]
  <2>1. /\ rowsLeft' = rowsLeft \cup {new} /\ rowsWritten' = rowsWritten + 1 /\ leaver' = leaver /\ kidRows' = kidRows
        /\ erasures' = erasures /\ took' = took /\ accountRow' = accountRow
        /\ leaver = "teacher" => place # "content"
        /\ of \in Deletion!Concerned(place, Deletion!Known)
    BY <1>2 DEF Deletion!Write
  <2>2. rowsWritten \in Nat /\ took.since \in Nat /\ took.since <= rowsWritten /\ \A f \in DeletionForm : erasures[f].since \in Nat /\ erasures[f].since <= rowsWritten
    BY DEF ErasureInv, ErasureTyped, ErasureAsked
  <2>3. new.at = place /\ new.of = of /\ new.n = rowsWritten + 1
    OBVIOUS
  <2> HIDE DEF new
  <2>4. ErasureTyped' /\ RowsRight'
    <3>1. ErasureTyped'
      BY <2>1, <2>2 DEF ErasureInv, ErasureTyped
    <3>2. \A row \in rowsLeft : row.n \in Nat /\ row.n <= rowsWritten + 1
      BY <2>2 DEF ErasureInv, RowsRight
    <3>3. new.n \in Nat /\ new.n <= rowsWritten + 1
      BY <2>2, <2>3
    <3>4. Deletion!Known' = Deletion!Known
      BY <2>1 DEF Deletion!Known
    <3>5. ASSUME NEW row \in rowsLeft'
          PROVE  /\ row.n \in Nat /\ row.n <= rowsWritten' /\ row.at \in ErasurePlace
                 /\ leaver' = "teacher" => row.at # "content"
                 /\ row.of \in Deletion!Concerned(row.at, Deletion!Known)
      BY <2>1, <2>3, <3>2, <3>3 DEF ErasureInv, RowsRight
    <3>6. RowsRight'
      BY <2>1, <3>4, <3>5 DEF RowsRight, Deletion!Concerned
    <3> QED
      BY <3>1, <3>6
  <2>5. ASSUME NEW f \in DeletionForm, erasures[f].at # "idle" PROVE OlderToDo(erasures[f])'
    <3>1. ~ new.n <= erasures[f].since
      BY <2>2, <2>3
    <3>2. OlderToDo(erasures[f])
      BY <2>5 DEF ErasureInv
    <3> QED
      BY <2>1, <3>1, <3>2 DEF OlderToDo, Deletion!Concerned
  <2>6. NothingOlderIsLeft'
    BY <2>1, <2>2, <2>3 DEF ErasureInv, NothingOlderIsLeft, Deletion!NothingOlderIsLeft
  <2> QED
    BY <2>1, <2>4, <2>5, <2>6 DEF ErasureInv, OlderToDo
<1>3. ASSUME NEW c \in lateCalls, Deletion!ComesLate(c) PROVE ErasureInv'
  <2>1. /\ rowsLeft' \subseteq rowsLeft /\ rowsWritten' = rowsWritten /\ leaver' = leaver /\ kidRows' = kidRows
        /\ erasures' = erasures /\ took' = took /\ accountRow' = accountRow
    BY <1>3 DEF Deletion!ComesLate
  <2>2. ErasureTyped'
    BY <2>1 DEF ErasureInv, ErasureTyped
  <2>3. RowsRight' /\ \A f \in DeletionForm : erasures[f].at # "idle" /\ erasures'[f] = erasures[f] => OlderToDo(erasures[f])'
    BY <2>1, OnlyLess
  <2>4. NothingOlderIsLeft'
    BY <2>1 DEF ErasureInv, NothingOlderIsLeft, Deletion!NothingOlderIsLeft
  <2> QED
    BY <2>1, <2>2, <2>3, <2>4 DEF ErasureInv, OlderToDo
<1> QED
  BY <1>1, <1>2, <1>3

\* One deletion asks, goes on, or ends.
LEMMA ErasureSteps ==
    ASSUME ErasureInv, NEW f \in DeletionForm,
           Deletion!deleteMyAccount(f) \/ Deletion!Answers(f) \/ Deletion!Fails(f) \/ Deletion!deleteAccount(f)
    PROVE  ErasureInv'
<1>1. ErasureTyped'
  <2>1. Deletion!Idle \in ErasureAsked /\ Deletion!Idle.since = 0 /\ Deletion!students \subseteq Child
    BY DEF Deletion!Idle, ErasureAsked, Deletion!students
  <2>2. CASE Deletion!deleteMyAccount(f)
    BY <2>1, <2>2 DEF Deletion!deleteMyAccount, Deletion!First, ErasureInv, ErasureTyped, ErasureAsked, ErasurePlace
  <2>3. CASE Deletion!Answers(f)
    <3>1. \A place : Deletion!Then(place) \in ErasurePlace \cup {"idle", "account"}
      BY DEF Deletion!Then, ErasurePlace
    <3> QED
      BY <2>3, <3>1 DEF Deletion!Answers, Deletion!Goes, ErasureInv, ErasureTyped, ErasureAsked
  <2>4. CASE Deletion!Fails(f)
    BY <2>1, <2>4 DEF Deletion!Fails, ErasureInv, ErasureTyped
  <2>5. CASE Deletion!deleteAccount(f)
    BY <2>1, <2>5 DEF Deletion!deleteAccount, ErasureInv, ErasureTyped
  <2> QED
    BY <2>2, <2>3, <2>4, <2>5
<1>2. /\ rowsLeft' \subseteq rowsLeft /\ rowsWritten' = rowsWritten /\ leaver' = leaver
      /\ \A k \in Child : kidRows[k] # "unborn" => kidRows'[k] # "unborn"
      /\ \A g \in DeletionForm : g # f => erasures'[g] = erasures[g]
  BY DEF Deletion!deleteMyAccount, Deletion!Answers, Deletion!Goes, Deletion!Fails, Deletion!deleteAccount,
         Deletion!students, ErasureInv, ErasureTyped
<1>3. /\ RowsRight'
      /\ \A g \in DeletionForm : erasures[g].at # "idle" /\ erasures'[g] = erasures[g] => OlderToDo(erasures[g])'
      /\ accountRow = "gone" /\ took' = took => NothingOlderIsLeft'
  BY <1>2, OnlyLess
<1>4. (erasures'[f].at # "idle" => OlderToDo(erasures[f])') /\ (leaver' = "teacher" => erasures'[f].at # "content")
  <2>1. CASE Deletion!deleteMyAccount(f)
    <3>1. accountRow = "here" /\ Deletion!Known = Deletion!students
      BY <2>1 DEF Deletion!deleteMyAccount, Deletion!Known, Deletion!students, ErasureInv, ErasureTyped
    <3>2. /\ erasures'[f] = [at |-> Deletion!First(Deletion!students), kids |-> Deletion!students, since |-> rowsWritten]
          /\ rowsLeft' = rowsLeft /\ leaver' = leaver
      BY <2>1 DEF Deletion!deleteMyAccount, ErasureInv, ErasureTyped
    <3>3. ASSUME NEW row \in rowsLeft
          PROVE row.at \in ToDo(Deletion!First(Deletion!students)) /\ row.of \in Deletion!Concerned(row.at, Deletion!students)
      BY <3>1 DEF ErasureInv, RowsRight, Deletion!First, Deletion!Concerned, ToDo, ErasurePlace
    <3> QED
      BY <3>2, <3>3 DEF OlderToDo, Deletion!Concerned, Deletion!First
  <2>2. CASE Deletion!Answers(f)
    <3> DEFINE here == erasures[f].at
    <3>1. /\ here \in ErasurePlace /\ erasures'[f].at = Deletion!Then(here)
          /\ erasures'[f].kids = erasures[f].kids /\ erasures'[f].since = erasures[f].since
          /\ rowsLeft' = rowsLeft \ Deletion!Erased(here, erasures[f].kids)
      BY <2>2 DEF Deletion!Answers, Deletion!Goes, ErasureInv, ErasureTyped, ErasureAsked, ErasurePlace
    <3>2. OlderToDo(erasures[f]) /\ (leaver = "teacher" => here # "content")
      BY <3>1 DEF ErasureInv, ErasurePlace
    <3>3. ASSUME NEW row \in rowsLeft', row.n <= erasures[f].since
          PROVE row.at \in ToDo(Deletion!Then(here)) /\ row.of \in Deletion!Concerned(row.at, erasures[f].kids)
      <4>1. row \in rowsLeft /\ row.at \in ToDo(here) /\ row.of \in Deletion!Concerned(row.at, erasures[f].kids) /\ row.at # here
        BY <3>1, <3>2, <3>3 DEF OlderToDo, Deletion!Erased
      <4>2. leaver = "teacher" => row.at # "content"
        BY <4>1 DEF ErasureInv, RowsRight
      <4>3. leaver \in {"guardian", "teacher"}
        BY DEF ErasureInv, ErasureTyped
      <4> QED
        BY <3>1, <4>1, <4>2, <4>3 DEF ToDo, Deletion!Then, ErasurePlace
    <3> HIDE DEF here
    <3> QED
      BY <1>2, <3>1, <3>2, <3>3 DEF OlderToDo, Deletion!Concerned, Deletion!Then, ErasurePlace
  <2>3. CASE Deletion!Fails(f) \/ Deletion!deleteAccount(f)
    BY <2>3 DEF Deletion!Fails, Deletion!deleteAccount, Deletion!Idle, ErasureInv, ErasureTyped
  <2> QED
    BY <2>1, <2>2, <2>3
<1>5. NothingOlderIsLeft'
  <2>1. CASE accountRow = "gone"
    <3>1. took' = took
      BY <2>1 DEF Deletion!deleteMyAccount, Deletion!Answers, Deletion!Fails, Deletion!deleteAccount
    <3> QED
      BY <1>3, <2>1, <3>1
  <2>2. CASE accountRow # "gone" /\ Deletion!deleteAccount(f)
    <3>1. /\ erasures[f].at = "account" /\ took' = erasures[f] /\ rowsLeft' = rowsLeft
      BY <2>2 DEF Deletion!deleteAccount, ErasureInv, ErasureTyped
    <3>2. \A row \in rowsLeft : ~ row.n <= erasures[f].since
      BY <3>1 DEF ErasureInv, OlderToDo, ToDo
    <3>3. erasures[f].since \in Nat /\ \A row \in rowsLeft : row.n \in Nat
      BY DEF ErasureInv, ErasureTyped, ErasureAsked, RowsRight
    <3> QED
      BY <3>1, <3>2, <3>3 DEF NothingOlderIsLeft, Deletion!NothingOlderIsLeft
  <2>3. CASE accountRow # "gone" /\ ~Deletion!deleteAccount(f)
    BY <2>3 DEF Deletion!deleteMyAccount, Deletion!Answers, Deletion!Fails, NothingOlderIsLeft, Deletion!NothingOlderIsLeft
  <2> QED
    BY <2>1, <2>2, <2>3
<1>6. ASSUME NEW g \in DeletionForm
      PROVE (erasures'[g].at # "idle" => OlderToDo(erasures[g])') /\ (leaver' = "teacher" => erasures'[g].at # "content")
  <2>1. CASE g = f
    BY <1>4, <2>1
  <2>2. CASE g # f
    BY <1>2, <1>3, <2>2 DEF ErasureInv
  <2> QED
    BY <2>1, <2>2
<1> QED
  BY <1>1, <1>3, <1>5, <1>6 DEF ErasureInv

\* "The other services erase their part first and the account goes last, so if one
\* of them fails nothing is lost here and trying again is safe"
\* (account_erasure.py:2): however often the deletion fails, at whatever step, and is asked
\* again or from another tab, once the account is gone nothing is left anywhere that was
\* written before that deletion was asked for.
THEOREM NothingIsLeftBehind == Deletion!Spec => []NothingOlderIsLeft
<1>1. Deletion!Init => ErasureInv
  BY ErasureInit
<1>2. ErasureInv /\ [Deletion!Next]_Deletion!vars => ErasureInv'
  <2> SUFFICES ASSUME ErasureInv, [Deletion!Next]_Deletion!vars PROVE ErasureInv'
    OBVIOUS
  <2>1. CASE Deletion!Next
    BY <2>1, ErasureMeanwhile, ErasureSteps DEF Deletion!Next, ErasurePlace
  <2>2. CASE UNCHANGED Deletion!vars
    BY <2>2 DEF Deletion!vars, ErasureInv, ErasureTyped, RowsRight, OlderToDo, Deletion!Concerned, Deletion!Known,
                NothingOlderIsLeft, Deletion!NothingOlderIsLeft
  <2> QED
    BY <2>1, <2>2
<1>3. ErasureInv => NothingOlderIsLeft
  BY DEF ErasureInv
<1> QED
  BY <1>1, <1>2, <1>3, PTL DEF Deletion!Spec
=============================================================================
