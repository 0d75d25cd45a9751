-------------------------------- MODULE Dwell --------------------------------
(***************************************************************************)
(* Choosing with the gaze: every target on screen listens to where the     *)
(* gaze is (useDwellSelect), fills up while it stays inside and is chosen  *)
(* when full; the spot where something was chosen is held until the gaze   *)
(* moves away from it, and the cursor fills with the target (dwellProgress).*)
(*                                                                         *)
(* The screen is a line of spots.  A tick is the time between two samples; *)
(* what choosing does is any screen there is.                              *)
(***************************************************************************)
EXTENDS Integers, FiniteSets

CONSTANTS
    Spot,      \* where the gaze may be, numbers
    Target,    \* everything that can be chosen
    Screen,    \* the screens: [targets -> their spots, the ones under an open window]
    MOVE_AWAY, \* how far a spot holds (MOVE_AWAY_PX)
    Duration   \* the ticks a target takes to fill

ASSUME DwellAssumption ==
    /\ Spot \subseteq Nat \ {0} /\ MOVE_AWAY \in Nat /\ Duration \in Nat \ {0}
    /\ Screen \subseteq [area : [Target -> SUBSET Spot], under : SUBSET Target]
    /\ "none" \notin Target

VARIABLES
    screen,  \* what is on screen
    off,     \* the targets turned off (disabled)
    gaze,    \* where the last sample was, 0 before the first
    elapsed, \* [target -> ticks since it started to fill, -1 when it has not]
    chosen,  \* the targets chosen and not left yet
    shown,   \* [target -> how full it says it is]
    heldAt,  \* the held spot, 0 when there is none
    moved,   \* the gaze was far from the last choice since
    steady,  \* [target -> samples in a row inside it]
    silence, \* the source said nothing since the last sample
    choice   \* what the gaze has just chosen

vars == <<screen, off, gaze, elapsed, chosen, shown, heldAt, moved, steady, silence, choice>>

Active(s, o) == {t \in Target : s.area[t] # {} /\ t \notin o}
Far(p, q) == p - q > MOVE_AWAY \/ q - p > MOVE_AWAY
Least(a, b) == IF a < b THEN a ELSE b
None == [t \in Target |-> -1]

Init ==
    /\ screen \in Screen
    /\ off = {}
    /\ gaze = 0
    /\ elapsed = None /\ chosen = {} /\ shown = [t \in Target |-> 0]
    /\ heldAt = 0 /\ moved = TRUE
    /\ steady = [t \in Target |-> 0] /\ silence = FALSE /\ choice = "none"

\* What the targets keep when some of them go, or are turned off.
cleanup(filling, s, o, picked, full, looked) ==
    /\ elapsed' = [t \in Target |-> IF t \in Active(s, o) THEN filling[t] ELSE -1]
    /\ chosen' = picked \cap Active(s, o)
    /\ shown' = [t \in Target |-> IF t \in Active(s, o) THEN full[t] ELSE 0]
    /\ steady' = [t \in Target |-> IF t \in Active(s, o) THEN looked[t] ELSE 0]

holdAfterSelectionMutant(p) == heldAt' = 0
holdAfterSelection(p) == heldAt' = p
\* The held spot is let go by a target with the gaze inside and far from it.
released(p, inside) == IF inside # {} /\ heldAt # 0 /\ Far(p, heldAt) THEN 0 ELSE heldAt

Inside(p) == {t \in Active(screen, off) : p \in screen.area[t]}
ticks(t) == IF elapsed[t] = -1 THEN 0 ELSE Least(elapsed[t] + 1, Duration)

\* One sample for every target: outside it empties, inside it fills, unless
\* it was chosen already or the spot is held.
filled(p, t) ==
    IF t \notin Inside(p) THEN -1
    ELSE IF t \in chosen THEN elapsed[t]
    ELSE IF released(p, Inside(p) \ chosen) # 0 THEN -1 ELSE ticks(t)
Looked(p) == [t \in Target |-> IF t \in Inside(p) THEN Least(steady[t] + 1, Duration + 1) ELSE 0]
Full(p, fill) == [t \in Target |-> IF t \in chosen /\ t \in Inside(p) THEN shown[t]
                                   ELSE IF fill[t] = -1 \/ t \notin Inside(p) THEN 0 ELSE fill[t]]
Complete(p) == {t \in Inside(p) \ chosen : filled(p, t) = Duration}

subscribe(p) ==
    /\ gaze' = p /\ silence' = FALSE
    /\ UNCHANGED off
    /\ LET fill == [t \in Target |-> filled(p, t)] IN
       /\ Complete(p) = {}
       /\ cleanup(fill, screen, off, chosen \cap Inside(p), Full(p, fill), Looked(p))
       /\ heldAt' = released(p, Inside(p) \ chosen)
       /\ moved' = (moved \/ (heldAt # 0 /\ Far(p, heldAt)))
       /\ choice' = "none" /\ UNCHANGED screen
\* The first full one is chosen, and the spot is held for the ones after it.
onSelect(p, t, s) ==
    /\ gaze' = p /\ silence' = FALSE
    /\ UNCHANGED off
    /\ t \in Complete(p)
    /\ \E late \in {Inside(p) \ {t}, Complete(p) \ {t}} :
         LET fill == [x \in Target |-> IF x \in late \ chosen THEN -1 ELSE filled(p, x)] IN
         cleanup(fill, s, off, (chosen \cap Inside(p)) \cup {t}, Full(p, fill), Looked(p))
    /\ holdAfterSelection(p)
    /\ moved' = FALSE /\ choice' = t
    /\ screen' = s

\* Nobody says where the gaze is: the mouse is out of the window, or there
\* is no face on the camera.  Time goes on.
handleLeave ==
    /\ ~silence /\ gaze # 0
    /\ silence' = TRUE /\ choice' = "none"
    /\ elapsed' = [t \in Target |-> IF elapsed[t] = -1 THEN -1 ELSE Duration]
    /\ UNCHANGED <<screen, off, gaze, chosen, shown, heldAt, moved, steady>>
\* A click chooses too, and holds its spot.
handleClick(p, s) ==
    /\ p = gaze
    /\ heldAt' = p /\ moved' = FALSE /\ choice' = "none"
    /\ screen' = s
    /\ cleanup(elapsed, s, off, chosen, shown, steady)
    /\ UNCHANGED <<off, gaze, silence>>
\* A target is turned off or on again.
setActive(t) ==
    /\ off' = IF t \in off THEN off \ {t} ELSE off \cup {t}
    /\ cleanup(elapsed, screen, off', chosen, shown, steady)
    /\ choice' = "none"
    /\ UNCHANGED <<screen, gaze, heldAt, moved, silence>>

Next ==
    \/ \E p \in Spot : subscribe(p)
    \/ \E p \in Spot, t \in Target, s \in Screen : onSelect(p, t, s)
    \/ handleLeave
    \/ \E p \in Spot, s \in Screen : handleClick(p, s)
    \/ \E t \in Target : setActive(t)

Spec == Init /\ [][Next]_vars

-----------------------------------------------------------------------------
(* Properties.                                                             *)

\* dwellProgress.ts:31: after a choice what comes next in the same place is
\* not chosen by itself: between two choices the gaze was somewhere else.
NothingByItself == [][choice' \in Target => moved \/ Far(gaze', heldAt)]_vars

\* What is chosen was looked at: every sample was inside it, as many as it
\* takes, with nothing looked at in between and without being turned off.
ChosenWasLookedAt ==
    [][\A t \in Target : choice' = t => steady[t] > 0 /\ gaze \in screen.area[t]]_vars

\* The circle of the gaze fills with the target under it: what went away or
\* was turned off leaves nothing in it.
CursorTellsTheTarget == \A t \in Target : shown[t] > 0 => t \in Inside(gaze)

\* Sustained gaze (useDwellSelect.ts:21): without a word of where the gaze is
\* the time doesn't count.  The code does not hold it: the timer runs from the
\* last sample, whenever it was.
TimeAwayDoesNotCount == [][\A t \in Target : choice' = t => steady[t] >= Duration]_vars

\* dwellProgress.ts:32: it waits "until the gaze moves away from that spot".
\* The code does not hold it: only a sample inside a target lets the spot go.
HeldUntilMoved == moved => heldAt = 0

\* useModalDialog.ts:13: "While open, the rest of <body> is inert": what is
\* under an open window is not chosen.  The code does not hold it for the gaze,
\* which looks at rectangles and not at what is inert.
UnderAWindowNothingIsChosen == [][\A t \in Target : choice' = t => t \notin screen.under]_vars
=============================================================================
