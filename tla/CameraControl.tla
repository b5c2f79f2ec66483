--------------------------- MODULE CameraControl ---------------------------
(***************************************************************************)
(* The settings of the camera on their way from the control panel of the   *)
(* PC to the device: ControlChannel, the control loop of every session, the*)
(* lines on the wire, and CameraCapture on its serial queue.               *)
(*                                                                         *)
(* zoom stands for all that applyDeviceControls clamps and sets (zoom,     *)
(* exposure and focus, which share their control flow).  AVFoundation is   *)
(* external: a capture session takes one camera input at a time.           *)
(***************************************************************************)
EXTENDS Integers, Sequences, FiniteSets

CONSTANTS Lenses,         \* CAMERAS of control.py
          Available,      \* the lenses of this phone that do 1080p60
          Plain,          \* the lenses without zoom
          MaxZoom,        \* largest zoom of the others
          MaxVersion,     \* bound on the changes in the panel
          MaxSessions,    \* bound on the sessions
          MaxJobs         \* bound on the starts and stops of the camera

ASSUME LensAssumption == /\ "rearWide" \in Lenses /\ "none" \notin Lenses
                         /\ Available \subseteq Lenses /\ Plain \subseteq Lenses
                         /\ MaxZoom \in Nat \ {0} /\ MaxVersion \in Nat
                         /\ MaxSessions \in Nat /\ MaxJobs \in Nat

VARIABLES
    settings, version,   \* ControlChannel
    connected, sessions, \* a session runs; number of sessions so far
    written,             \* last_version of its control loop
    wire,                \* settings written and not read
    capture,             \* the serial queue dev.local.IPhoneCam.capture
    appJobs,             \* number of starts and stops so far
    configured, running, \* configured; AVCaptureSession.isRunning
    inputs,              \* the camera inputs of the session
    activeInput,         \* activeInput and activeDevice, "none" for nil
    activeKind, currentControl,
    applied,             \* zoom set on each device, 0 when none was
    stripped,            \* a refused lens has cost the session its input
    commanded,           \* the last command of apply, and whether it was
    rejected             \* refused or a configuration has undone it since

panelVars == <<settings, version>>
linkVars == <<connected, sessions, written, wire>>
cameraVars == <<configured, running, inputs, activeInput, activeKind,
                currentControl, applied, stripped>>
vars == <<panelVars, linkVars, capture, appJobs, cameraVars, commanded, rejected>>

Settings == [camera : Lenses, zoom : 1 .. MaxZoom]
Default == [camera |-> "rearWide", zoom |-> 1]

Init == /\ settings = Default /\ version = 0
        /\ connected = FALSE /\ sessions = 0 /\ written = -1 /\ wire = <<>>
        /\ capture = <<>> /\ appJobs = 0
        /\ configured = FALSE /\ running = FALSE /\ inputs = {}
        /\ activeInput = "none" /\ activeKind = "rearWide"
        /\ currentControl = Default /\ applied = [l \in Lenses |-> 0]
        /\ stripped = FALSE
        /\ commanded = Default /\ rejected = FALSE

-----------------------------------------------------------------------------
(* The panel, the session and the connection.                              *)

(* The panel writes all its values at every change.                        *)
Update(s) == /\ version < MaxVersion
             /\ settings' = s
             /\ version' = version + 1
             /\ UNCHANGED <<linkVars, capture, appJobs, cameraVars, commanded, rejected>>

(* Mutant: the version that was written last outlives its session.         *)
ConnectRemembers == /\ ~connected /\ sessions < MaxSessions
                    /\ connected' = TRUE
                    /\ sessions' = sessions + 1
                    /\ UNCHANGED <<panelVars, written, wire, capture, appJobs,
                                   cameraVars, commanded, rejected>>
(* Every session has a control loop of its own, which has written nothing. *)
Connect == /\ ~connected /\ sessions < MaxSessions
           /\ connected' = TRUE
           /\ sessions' = sessions + 1
           /\ written' = -1
           /\ UNCHANGED <<panelVars, wire, capture, appJobs, cameraVars,
                          commanded, rejected>>

(* What is on the wire is lost.                                            *)
Disconnect == /\ connected
              /\ connected' = FALSE
              /\ wire' = <<>>
              /\ UNCHANGED <<panelVars, sessions, written, capture, appJobs,
                             cameraVars, commanded, rejected>>

(* One round of _control_loop.                                             *)
Write == /\ connected /\ version # written
         /\ wire' = Append(wire, settings)
         /\ written' = version
         /\ UNCHANGED <<panelVars, connected, sessions, capture, appJobs,
                        cameraVars, commanded, rejected>>

(* A line is complete: consumeControlLinesLocked hands it to apply.        *)
Read == /\ wire # <<>>
        /\ wire' = Tail(wire)
        /\ capture' = Append(capture, [op |-> "apply", control |-> Head(wire)])
        /\ UNCHANGED <<panelVars, connected, sessions, written, appJobs,
                       cameraVars, commanded, rejected>>

(* CameraCapture.start and stop, called by the app.                        *)
AppCalls == /\ appJobs < MaxJobs
            /\ appJobs' = appJobs + 1
            /\ \E op \in {"start", "stop"} :
                  capture' = Append(capture, [op |-> op, control |-> Default])
            /\ UNCHANGED <<panelVars, linkVars, cameraVars, commanded, rejected>>

-----------------------------------------------------------------------------
(* The jobs of the capture queue.                                          *)

Clamp(lens, zoom) == IF lens \in Plain THEN 1 ELSE zoom

(* Mutant: the zoom of the device is set without its limits.               *)
ApplyUnclamped(control, granted) ==
    IF activeInput' = "none" THEN granted /\ UNCHANGED applied
    ELSE applied' = IF granted THEN [applied EXCEPT ![activeInput'] = control.zoom]
                    ELSE applied
(* applyDeviceControls: nothing without a device; the device may refuse the*)
(* lock.                                                                   *)
ApplyDevice(control, granted) ==
    IF activeInput' = "none" THEN granted /\ UNCHANGED applied
    ELSE applied' = IF granted
                    THEN [applied EXCEPT ![activeInput'] = Clamp(activeInput', control.zoom)]
                    ELSE applied

(* A configuration that throws before it has added the input, because the  *)
(* lens is missing, cannot be configured, or the session has an input.     *)
ConfigureFails == UNCHANGED <<configured, running, inputs, activeInput,
                              activeKind, applied, stripped, rejected>>

(* configureSession: the input, the output, the controls.  When one of the *)
(* last two throws, the input stays.  It takes the rear lens, whatever was *)
(* commanded before it.                                                    *)
Configure ==
    /\ "rearWide" \in Available /\ inputs = {}
    /\ inputs' = {"rearWide"}
    /\ activeInput' = "rearWide" /\ activeKind' = "rearWide"
    /\ stripped' = FALSE
    /\ \E done \in BOOLEAN :
          /\ ApplyDevice(currentControl, done)
          /\ configured' = done /\ running' = done
          /\ rejected' = (rejected \/ ~done \/ activeKind # "rearWide")

StartJob ==
    /\ \/ ~configured /\ (ConfigureFails \/ Configure)
       \/ /\ configured
          /\ running' = TRUE
          /\ UNCHANGED <<configured, inputs, activeInput, activeKind, applied,
                         stripped, rejected>>
    /\ UNCHANGED <<currentControl, commanded>>

StopJob == /\ running' = FALSE
           /\ UNCHANGED <<configured, inputs, activeInput, activeKind,
                          currentControl, applied, stripped, commanded, rejected>>

(* Mutant: the input of the old lens is left in the session.               *)
SwitchAdds(lens) == /\ inputs' = inputs \cup {lens}
                    /\ stripped' = FALSE
                    /\ activeInput' = lens
                    /\ activeKind' = lens
(* switchCamera to a lens that is there: its input replaces the old one.   *)
Switch(lens) == /\ inputs' = (inputs \ {activeInput}) \cup {lens}
                /\ stripped' = FALSE
                /\ activeInput' = lens
                /\ activeKind' = lens

(* switchCamera throws: the lens is missing or its input cannot be made; or*)
(* that input is refused, and the session takes the old one back or refuses*)
(* it, too.                                                                *)
RejectLens(lens) ==
    /\ \/ UNCHANGED <<inputs, stripped>>
       \/ /\ lens \in Available
          /\ \E takesBack \in BOOLEAN :
                /\ inputs' = IF takesBack THEN {activeInput} \ {"none"} ELSE {}
                /\ stripped' = (~takesBack /\ activeInput # "none")
    /\ rejected' = TRUE
    /\ UNCHANGED <<activeInput, activeKind, currentControl, applied>>

(* The command names the lens that is active, or one that can be switched  *)
(* to.                                                                     *)
TakeLens(lens) ==
    \/ lens = activeKind /\ UNCHANGED <<inputs, activeInput, activeKind, stripped>>
    \/ lens # activeKind /\ lens \in Available /\ Switch(lens)

(* Mutant: the controls of a command with another lens are left for later. *)
ApplyJobSwitchesOnly(control) ==
    /\ commanded' = control
    /\ \/ control.camera # activeKind /\ RejectLens(control.camera)
       \/ /\ TakeLens(control.camera)
          /\ currentControl' = control
          /\ \E granted \in BOOLEAN :
                /\ IF control.camera # activeKind
                   THEN granted /\ UNCHANGED applied ELSE ApplyDevice(control, granted)
                /\ rejected' = ~granted
    /\ UNCHANGED <<configured, running>>
(* apply(control:)                                                         *)
ApplyJob(control) ==
    /\ commanded' = control
    /\ \/ control.camera # activeKind /\ RejectLens(control.camera)
       \/ /\ TakeLens(control.camera)
          /\ currentControl' = control
          /\ \E granted \in BOOLEAN : /\ ApplyDevice(control, granted)
                                      /\ rejected' = ~granted
    /\ UNCHANGED <<configured, running>>

CaptureJob ==
    /\ capture # <<>>
    /\ capture' = Tail(capture)
    /\ LET job == Head(capture)
       IN  \/ job.op = "start" /\ StartJob
           \/ job.op = "stop" /\ StopJob
           \/ job.op = "apply" /\ ApplyJob(job.control)
    /\ UNCHANGED <<panelVars, linkVars, appJobs>>

Next == \/ \E s \in Settings : Update(s)
        \/ Connect \/ Disconnect \/ Write \/ Read
        \/ AppCalls \/ CaptureJob

Spec == Init /\ [][Next]_vars

-----------------------------------------------------------------------------
(* Every variable has its type, and a zoom that is set is one the device   *)
(* has: videoZoomFactor would raise for another.                           *)
TypeOK == /\ settings \in Settings /\ version \in 0 .. MaxVersion
          /\ connected \in BOOLEAN /\ sessions \in 0 .. MaxSessions
          /\ written \in -1 .. MaxVersion /\ wire \in Seq(Settings)
          /\ capture \in Seq([op : {"start", "stop", "apply"}, control : Settings])
          /\ appJobs \in 0 .. MaxJobs
          /\ configured \in BOOLEAN /\ running \in BOOLEAN
          /\ inputs \subseteq Lenses /\ activeInput \in Lenses \cup {"none"}
          /\ activeKind \in Lenses /\ currentControl \in Settings
          /\ applied \in [Lenses -> 0 .. MaxZoom]
          /\ \A lens \in Lenses : applied[lens] <= Clamp(lens, MaxZoom)
          /\ commanded \in Settings
          /\ stripped \in BOOLEAN /\ rejected \in BOOLEAN

(* The session of the camera has exactly the input it knows of, that of the*)
(* lens in activeKind, however switches, starts and their failures follow  *)
(* each other: no input is left that later ones cannot replace, and the    *)
(* only way to lose it is that AVFoundation refuses the new input and then *)
(* the old one, until a switch or a configuration adds one again.          *)
OneInput == /\ inputs = IF stripped THEN {} ELSE {activeInput} \ {"none"}
            /\ activeInput # "none" => activeInput = activeKind
            /\ running => activeInput # "none"

(* All that was written is read and treated.                               *)
Settled == /\ connected /\ written = version /\ wire = <<>>
           /\ \A i \in 1 .. Len(capture) : capture[i].op # "apply"

(* "Sending complete state instead of deltas makes reconnect behavior      *)
(* deterministic": the last command the camera got is what the panel shows,*)
(* whatever was written, lost and changed in earlier sessions.             *)
PanelReachesCamera == Settled => commanded = settings

(* Unless the last command was refused or undone by a configuration, and if*)
(* the session has an input at all, that is the lens of the panel, and its *)
(* zoom, as far as the lens has it, is set, also when the command came     *)
(* before the camera was configured.                                       *)
CameraFollowsPanel ==
    Settled /\ ~rejected /\ inputs # {} =>
        /\ inputs = {settings.camera}
        /\ applied[settings.camera] = Clamp(settings.camera, settings.zoom)

-----------------------------------------------------------------------------
(* The inductive invariant behind the theorems of CameraControl_proofs.    *)

(* A camera that is configured keeps an input; one that has none still     *)
(* starts with the rear lens.                                              *)
InputKept == /\ running => configured
             /\ configured => activeInput # "none"
             /\ activeInput = "none" => activeKind = "rearWide"

(* What was written last is the last on the wire, or the last in the queue *)
(* of the camera, or the last command it got.                              *)
LastApply(i) == /\ capture[i].op = "apply"
                /\ \A j \in i + 1 .. Len(capture) : capture[j].op # "apply"
OnItsWay ==
    /\ written <= version
    /\ connected /\ written = version =>
          /\ wire # <<>> => wire[Len(wire)] = settings
          /\ wire = <<>> => \A i \in 1 .. Len(capture) :
                               LastApply(i) => capture[i].control = settings
          /\ wire = <<>> /\ (\A i \in 1 .. Len(capture) : capture[i].op # "apply")
                => commanded = settings

(* A command that was not refused is what the camera does and remembers.   *)
Obeyed ==
    ~rejected =>
        /\ currentControl = commanded /\ activeKind = commanded.camera
        /\ activeInput # "none" =>
              applied[activeInput] = Clamp(activeInput, commanded.zoom)

CameraInv == TypeOK /\ OneInput /\ InputKept /\ OnItsWay /\ Obeyed
=============================================================================
