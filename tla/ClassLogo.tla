----------------------------- MODULE ClassLogo -----------------------------
(***************************************************************************)
(* The picture of a class, in the window that makes or changes it: the     *)
(* file picked, the picture read from it, the frame it is fitted in (moved,*)
(* zoomed, turned and mirrored with the pointer, the wheel or the keys),   *)
(* and the crop made of it a moment after the last change, which is what   *)
(* is sent when the class is saved.                                        *)
(*                                                                         *)
(* Zooms are whole numbers, and the sides of a picture are those of the    *)
(* smallest picture of its shape.                                          *)
(***************************************************************************)
EXTENDS Integers, SequencesExt

CONSTANTS
    size,      \* [picture -> its natural width and height]
    Broken,    \* the pictures that cannot be read
    FRAME,     \* the side of the frame
    MAX_ZOOM,
    STEP,      \* how far a key or the pointer moves
    MaxMaking, \* the bound on the crops made at once
    MaxTouches \* the bound on the files picked, the changes of how they are fitted and of the mode

Picture == DOMAIN size
SideMin(a, b) == IF a < b THEN a ELSE b
SideMax(a, b) == IF a < b THEN b ELSE a

LogoAssumption ==
    /\ FRAME \in Nat \ {0} /\ FRAME % 2 = 0 /\ MAX_ZOOM \in Nat \ {0} /\ STEP \in Nat
    /\ MaxMaking \in Nat /\ MaxTouches \in Nat
    /\ "none" \notin Picture /\ Broken \subseteq Picture
    /\ \A p \in Picture :
         /\ size[p].width \in Nat \ {0} /\ size[p].height \in Nat \ {0}
         /\ 1 \in {size[p].width, size[p].height}

VARIABLES
    mode,     \* "initials" or "image"
    file,     \* the file picked
    image,    \* the picture in the cropper
    loading,  \* the pictures being read
    view,     \* how it is fitted
    gesture,  \* what a drag or a pinch began from
    timer,    \* whether the crop waits for the teacher to stop
    encoding, \* the crops being made, in the order they were begun
    crop,     \* the crop that will be sent
    logo,     \* the picture of the class in classroom-service: none, an old one or a crop
    touches,
    passed,   \* history: how many of the crops being made are older than one that came
    outdated  \* history: whether the last crop to come was one of them; no step reads these

vars == <<mode, file, image, loading, view, gesture, timer, encoding, crop, logo, touches, passed, outdated>>

-----------------------------------------------------------------------------
(* How big the picture is drawn, how far it can move and how it zooms.     *)

START == [zoom |-> 1, x |-> 0, y |-> 0, rotation |-> 0, flipped |-> FALSE]
\* Once it is turned.
turnedSize(p, rotation) ==
    IF rotation % 180 # 0 THEN [width |-> size[p].height, height |-> size[p].width] ELSE size[p]
\* At zoom 1 the picture just covers the frame: its shorter side is the frame's.
scaleFor(v) == FRAME * v.zoom
\* Keeps the frame always covered.
Within(c, side, v) ==
    LET most == SideMax(0, (side * scaleFor(v) - FRAME) \div 2) IN SideMin(most, SideMax(-most, c))
clamp(v, p) ==
    [v EXCEPT !.x = Within(@, turnedSize(p, v.rotation).width, v),
              !.y = Within(@, turnedSize(p, v.rotation).height, v)]
\* The point under the anchor stays still.
zoomAround(v, zoom, p, anchor) ==
    LET next == SideMin(MAX_ZOOM, SideMax(1, zoom))
        away(a, c) == a - ((a - c) * next) \div v.zoom
    IN  clamp([v EXCEPT !.zoom = next, !.x = away(anchor.x, @), !.y = away(anchor.y, @)], p)

NoCrop == [of |-> "none", view |-> START]
NoGesture == [fingers |-> 0, view |-> START]
Init ==
    /\ mode \in {"initials", "image"}
    /\ logo = IF mode = "image" THEN "old" ELSE "none"
    /\ file = "none" /\ image = "none" /\ loading = {}
    /\ view = START /\ gesture = NoGesture
    /\ timer = FALSE /\ encoding = <<>> /\ crop = NoCrop
    /\ touches = 0 /\ passed = 0 /\ outdated = FALSE

-----------------------------------------------------------------------------
(* The file.                                                               *)

\* The cropper is there while a file is picked and the avatar is a picture.
pickImage(p) ==
    /\ mode = "image" /\ touches < MaxTouches /\ p # file
    /\ touches' = touches + 1
    /\ file' = p /\ crop' = NoCrop
    /\ loading' = loading \cup {p}
    /\ UNCHANGED <<mode, image, view, gesture, timer, encoding, logo>>
\* A new picture starts centered, straight and without zoom. The one before is
\* not given up: it may come after the new one.
onload(p) ==
    /\ p \in loading
    /\ loading' = loading \ {p}
    /\ IF p \in Broken
       THEN UNCHANGED <<image, view, timer>>
       ELSE image' = p /\ view' = START /\ timer' = TRUE
    /\ UNCHANGED <<mode, file, gesture, encoding, crop, logo, touches>>
\* Going to the initials takes the cropper away, and coming back starts it again.
setMode(m) ==
    /\ touches < MaxTouches /\ m # mode
    /\ touches' = touches + 1
    /\ mode' = m
    /\ image' = "none" /\ view' = START /\ gesture' = NoGesture /\ timer' = FALSE
    /\ loading' = IF m = "image" /\ file # "none" THEN {file} ELSE {}
    /\ UNCHANGED <<file, encoding, crop, logo>>

-----------------------------------------------------------------------------
(* Fitting it in the frame.                                                *)

\* The crop waits again after every change.
changeMutant(v) ==
    /\ touches < MaxTouches /\ v # view
    /\ touches' = touches + 1
    /\ view' = v
    /\ timer' = (timer \/ v.zoom # view.zoom \/ v.x # view.x \/ v.y # view.y \/ v.rotation # view.rotation)
    /\ UNCHANGED <<mode, file, image, loading, encoding, crop, logo>>
change(v) ==
    /\ touches < MaxTouches /\ v # view
    /\ touches' = touches + 1
    /\ view' = v
    /\ timer' = TRUE
    /\ UNCHANGED <<mode, file, image, loading, encoding, crop, logo>>
Loaded == image # "none"
Way == {-STEP, 0, STEP}
Anchor == [x : {0, STEP}, y : {0}]

startPointer ==
    /\ Loaded /\ gesture.fingers < 2
    /\ gesture' = [fingers |-> gesture.fingers + 1, view |-> view]
    /\ UNCHANGED <<mode, file, image, loading, view, timer, encoding, crop, logo, touches>>
\* Dragged from where the gesture began.
drag(dx, dy) ==
    /\ Loaded /\ gesture.fingers = 1
    /\ change(clamp([gesture.view EXCEPT !.x = @ + dx, !.y = @ + dy], image))
    /\ UNCHANGED gesture
pinch(zoom, anchor) ==
    /\ Loaded /\ gesture.fingers = 2
    /\ change(zoomAround(gesture.view, zoom, image, anchor))
    /\ UNCHANGED gesture
\* From two fingers to one it goes on dragging from here.
endPointer ==
    /\ gesture.fingers > 0
    /\ gesture' = IF gesture.fingers = 1 THEN NoGesture ELSE [fingers |-> 1, view |-> view]
    /\ UNCHANGED <<mode, file, image, loading, view, timer, encoding, crop, logo, touches>>
moveWithKeys(dx, dy) ==
    /\ Loaded
    /\ change(clamp([view EXCEPT !.x = @ + dx, !.y = @ + dy], image))
    /\ UNCHANGED gesture
zoomWithWheel(by, anchor) ==
    /\ Loaded
    /\ change(zoomAround(view, view.zoom + by, image, anchor))
    /\ UNCHANGED gesture
turn(by) ==
    /\ Loaded
    /\ change(clamp([view EXCEPT !.rotation = (@ + by + 360) % 360], image))
    /\ UNCHANGED gesture
flip ==
    /\ Loaded
    /\ change([view EXCEPT !.flipped = ~@])
    /\ UNCHANGED gesture
reset ==
    /\ Loaded /\ view # START
    /\ change(START)
    /\ UNCHANGED gesture

-----------------------------------------------------------------------------
(* The crop.                                                               *)

\* It is painted as the picture is now, and encoded in its own time, however
\* many are being encoded already.
OutputTimer ==
    /\ timer /\ Len(encoding) < MaxMaking
    /\ timer' = FALSE
    /\ encoding' = Append(encoding, [of |-> image, view |-> view])
    /\ UNCHANGED <<mode, file, image, loading, view, gesture, crop, logo, touches>>
\* Any of them may be ready first, also once its picture was changed, or the
\* cropper taken away.
takeCrop(i) ==
    /\ crop' = encoding[i] /\ encoding' = RemoveAt(encoding, i)
    /\ UNCHANGED <<mode, file, image, loading, view, gesture, timer, logo, touches>>
\* The class saved, its picture goes after it: the crop there is, or none.
sendImage ==
    /\ mode = "image" => (crop # NoCrop \/ logo # "none")
    /\ logo' = IF mode = "initials" THEN "none" ELSE IF crop # NoCrop THEN "crop" ELSE logo
    /\ logo' # logo
    /\ UNCHANGED <<mode, file, image, loading, view, gesture, timer, encoding, crop, touches>>

\* What the teacher, the browser's picture and the timer do.
Step ==
    \/ \E p \in Picture : pickImage(p)
    \/ \E p \in Picture : onload(p)
    \/ \E m \in {"initials", "image"} : setMode(m)
    \/ \E dx \in Way : \E dy \in Way : drag(dx, dy)
    \/ \E dx \in Way : \E dy \in Way : moveWithKeys(dx, dy)
    \/ \E zoom \in 1..MAX_ZOOM : \E anchor \in Anchor : pinch(zoom, anchor)
    \/ \E by \in {-1, 1} : \E anchor \in Anchor : zoomWithWheel(by, anchor)
    \/ \E by \in {-90, 90} : turn(by)
    \/ startPointer
    \/ endPointer
    \/ flip
    \/ reset
    \/ OutputTimer
    \/ sendImage

Next ==
    \/ Step /\ UNCHANGED <<passed, outdated>>
    \/ \E i \in 1..Len(encoding) :
         /\ takeCrop(i)
         /\ outdated' = (i <= passed) /\ passed' = SideMax(passed, i) - 1

Spec == Init /\ [][Next]_vars

-----------------------------------------------------------------------------
(* Properties.                                                             *)

\* The picture p, fitted as v, leaves no side of the frame uncovered.
Covers(p, v) ==
    LET half(side) == (side * FRAME * v.zoom) \div 2
        turned == turnedSize(p, v.rotation)
    IN  /\ v.x - half(turned.width) <= -(FRAME \div 2) /\ v.x + half(turned.width) >= FRAME \div 2
        /\ v.y - half(turned.height) <= -(FRAME \div 2) /\ v.y + half(turned.height) >= FRAME \div 2

\* "The picture always covers the frame", through any mix of drags, pinches,
\* keys, zooms and turns, also when a gesture goes on over a turned picture or
\* a new one; and so does every crop that is made (ImageCropper, cropMath).
FrameIsCovered ==
    /\ Loaded => Covers(image, view)
    /\ \A i \in 1..Len(encoding) : Covers(encoding[i].of, encoding[i].view)
    /\ crop.of \in Picture => Covers(crop.of, crop.view)

\* "Gets the square crop every time it changes": with nothing waiting, the crop
\* that would be sent is the picture of the file as it is fitted on screen,
\* also when it was picked over another one whose crop was being made, unless
\* the last crop to come was older than one that had come before it.
CropIsWhatIsShown ==
    (Loaded /\ image = file /\ file \notin loading /\ ~timer /\ encoding = <<>> /\ ~outdated) =>
        crop = [of |-> image, view |-> view]
=============================================================================
