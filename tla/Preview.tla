------------------------------- MODULE Preview -------------------------------
(***************************************************************************)
(* The outputs of a session: the preview window (PygamePreview or          *)
(* OpenCVPreview) and the virtual camera of receiver/preview.py, and the   *)
(* image settings of receiver/filters.py, which the control panel changes  *)
(* from its own thread at any time.                                        *)
(*                                                                         *)
(* show treats one frame on the receiver thread.  It takes a snapshot of   *)
(* the settings, feeds the camera (Prepare), and then draws the window     *)
(* (Show).  The rotation stands for all that apply_filters does to a       *)
(* picture; it alone changes its size.                                     *)
(***************************************************************************)
EXTENDS FrameGeometry

CONSTANTS Backends,       \* previews that are installed: "pygame", "opencv"
          Rotations,      \* rotations the panel offers
          Coded,          \* sizes HELLO may announce
          Canvas,         \* size of the virtual camera
          Screens         \* sizes the user may give the window

ASSUME PreviewAssumption ==
    /\ "none" \notin Backends
    /\ 90 \in Rotations /\ Rotations \subseteq Nat
    /\ Coded \subseteq Sizes /\ Screens \subseteq Sizes /\ Canvas \in Sizes

VARIABLES
    filters,       \* _settings of FilterState
    sink,          \* the virtual camera is open
    preview,       \* the backend of the open preview, or "none"
    expected,      \* its expected_width, expected_height
    flag,          \* its _fullscreen
    full,          \* the window really is fullscreen
    disturbed,     \* the window changed, or did not, behind the flag
    used,          \* the snapshot of the frame being shown
    fed, shown     \* the picture the camera and the window have of the frame

previewVars == <<filters, sink, preview, expected, flag, full, disturbed,
                 used, fed, shown>>
windowVars == <<preview, expected, flag, full, disturbed>>

Settings == [rotation : Rotations, fullscreen : BOOLEAN]
NoSettings == [rotation |-> -1, fullscreen |-> FALSE]
NoSize == [w |-> 0, h |-> 0]
NoPicture == [rotation |-> -1, size |-> NoSize, corner |-> [x |-> 0, y |-> 0],
              target |-> NoSize]

(* A picture of the size at the centre of the target.                      *)
Picture(rotation, size, target) ==
    [rotation |-> rotation, size |-> size, corner |-> Corner(size, target),
     target |-> target]

Closed == /\ preview' = "none" /\ expected' = NoSize
          /\ flag' = FALSE /\ full' = FALSE /\ disturbed' = FALSE
          /\ used' = NoSettings /\ fed' = NoPicture /\ shown' = NoPicture

PreviewInit == /\ filters = [rotation |-> 90, fullscreen |-> FALSE]
        /\ sink = FALSE /\ preview = "none" /\ expected = NoSize
        /\ flag = FALSE /\ full = FALSE /\ disturbed = FALSE
        /\ used = NoSettings /\ fed = NoPicture /\ shown = NoPicture

-----------------------------------------------------------------------------
(* The panel.                                                              *)

(* A widget is used: update replaces the settings by those of all widgets. *)
Change == /\ \/ \E r \in Rotations : filters' = [filters EXCEPT !.rotation = r]
             \/ filters' = [filters EXCEPT !.fullscreen = ~@]
          /\ UNCHANGED <<windowVars, sink, used, fed, shown>>

(* RESET IMAGE leaves the window as it is.                                 *)
ResetImage == /\ filters' = [filters EXCEPT !.rotation = 90]
              /\ UNCHANGED <<windowVars, sink, used, fed, shown>>

-----------------------------------------------------------------------------
(* The receiver thread.                                                    *)

(* Mutant: the flag starts as the panel has it, the window does not.       *)
OpenAsSet ==
    /\ preview = "none"
    /\ sink' = TRUE
    /\ preview' \in Backends /\ expected' \in Coded
    /\ flag' = filters.fullscreen /\ full' = FALSE
    /\ UNCHANGED <<filters, disturbed, used, fed, shown>>
(* The virtual camera is opened first, then a preview in a plain window.   *)
Open ==
    /\ preview = "none"
    /\ sink' = TRUE
    /\ preview' \in Backends /\ expected' \in Coded
    /\ flag' = FALSE /\ full' = FALSE
    /\ UNCHANGED <<filters, disturbed, used, fed, shown>>

(* The camera, or the preview after it, is not to be had.                  *)
OpenFails ==
    /\ preview = "none"
    /\ sink' \in BOOLEAN
    /\ UNCHANGED <<filters, windowVars, used, fed, shown>>

Idle == preview # "none" /\ used = NoSettings
Busy == used # NoSettings

(* The raster of the decoder is cropped or scaled to the announced size,   *)
(* whatever its own is, turned, and fitted into the canvas of the camera.  *)
(* What raises here ends the session (ReceiverLoop!EndsItself).            *)
Prepare ==
    /\ Idle
    /\ used' = filters
    /\ fed' \in {Picture(filters.rotation, size, Canvas) :
                     size \in Fitted(Turned(expected, filters.rotation), Canvas)}
    /\ shown' = NoPicture
    /\ UNCHANGED <<filters, windowVars, sink>>

(* OpenCV sets the mode; pygame toggles it, and takes a failure to do so   *)
(* for a success.                                                          *)
ApplyFullscreen ==
    /\ flag' = used.fullscreen
    /\ IF used.fullscreen = flag THEN UNCHANGED <<full, disturbed>>
       ELSE \/ /\ full' = IF preview = "pygame" THEN ~full ELSE used.fullscreen
               /\ UNCHANGED disturbed
            \/ preview = "pygame" /\ UNCHANGED full /\ disturbed' = TRUE

(* pygame scales the picture to the window; OpenCV's window has its size.  *)
Drawn(rotation) ==
    LET size == Turned(expected, rotation)
    IN IF preview = "pygame"
       THEN UNION {{Picture(rotation, s, screen) : s \in WindowFitted(size, screen)}
                   : screen \in Screens}
       ELSE {Picture(rotation, size, size)}

(* Mutant: the window is drawn with the settings of the moment.            *)
ShowAsSet ==
    /\ Busy
    /\ ApplyFullscreen
    /\ shown' \in Drawn(filters.rotation)
    /\ used' = NoSettings
    /\ UNCHANGED <<filters, sink, preview, expected, fed>>
Show ==
    /\ Busy
    /\ ApplyFullscreen
    /\ shown' \in Drawn(used.rotation)
    /\ used' = NoSettings
    /\ UNCHANGED <<filters, sink, preview, expected, fed>>

(* The user closes the window of OpenCV: the next imshow makes a new one.  *)
CloseWindow ==
    /\ Idle /\ preview = "opencv"
    /\ full' = FALSE /\ disturbed' = TRUE
    /\ UNCHANGED <<filters, sink, preview, expected, flag, used, fed, shown>>

(* Mutant: the teardown leaves the camera to the next session.             *)
CloseKeepsSink == preview # "none" /\ UNCHANGED <<filters, sink>> /\ Closed
(* The teardown of a session: the preview is closed, then the camera.      *)
Close == preview # "none" /\ sink' = FALSE /\ UNCHANGED filters /\ Closed

(* Closing the preview raises: its window is there or not, and nobody      *)
(* closes the camera.  Or closing the camera raises, after the preview.    *)
CloseFails ==
    /\ preview # "none" /\ UNCHANGED filters
    /\ \/ /\ UNCHANGED sink
          /\ \/ Closed
             \/ used' = NoSettings /\ UNCHANGED <<windowVars, fed, shown>>
       \/ sink' \in BOOLEAN /\ Closed

Panel == Change \/ ResetImage

PreviewNext == \/ Panel \/ CloseWindow \/ Open \/ OpenFails \/ Prepare \/ Show
        \/ Close \/ CloseFails

PreviewSpec == PreviewInit /\ [][PreviewNext]_previewVars

-----------------------------------------------------------------------------
(* Every variable has its type.                                            *)
PreviewTypeOK ==
    /\ filters \in Settings /\ used \in Settings \cup {NoSettings}
    /\ sink \in BOOLEAN /\ preview \in Backends \cup {"none"}
    /\ expected \in Coded \cup {NoSize}
    /\ flag \in BOOLEAN /\ full \in BOOLEAN /\ disturbed \in BOOLEAN
    /\ fed.rotation \in Rotations \cup {-1}
    /\ shown.rotation \in Rotations \cup {-1}

(* The camera has a picture inside its canvas, centred, and of the shape   *)
(* the phone sends, turned as it was asked for; so has the window of       *)
(* pygame, whose sizes nothing limits to the window.                       *)
Fits(p, slack) ==
    /\ Inside(p.size, p.corner, p.target)
    /\ Centred(p.size, p.corner, p.target)
    /\ KeepsShape(p.size, Turned(expected, p.rotation), p.target, slack)
PicturesFit == /\ fed # NoPicture => Fits(fed, 1)
               /\ shown # NoPicture => Fits(shown, 2)

(* The camera and the window show a frame with the same settings, whatever *)
(* the panel changes while it is shown.                                    *)
SameSettings == [][Show => shown'.rotation = fed.rotation]_previewVars

(* The window is as the settings of the frame ask for, in every session,   *)
(* unless it was changed behind the back of the preview.                   *)
WindowFollowsPanel ==
    [][Show => full' = used.fullscreen \/ disturbed']_previewVars
=============================================================================
