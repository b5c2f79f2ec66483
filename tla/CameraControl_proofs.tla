------------------------ MODULE CameraControl_proofs ------------------------
(***************************************************************************)
(* CameraInv is an invariant of CameraControl for all lenses, changes,     *)
(* sessions and starts, and with it what the camera does with a command.   *)
(***************************************************************************)
EXTENDS CameraControl, SequenceTheorems, TLAPS

Jobs == [op : {"start", "stop", "apply"}, control : Settings]

(* The settings the receiver starts with are settings of the panel.        *)
LEMMA DefaultSettings == Default \in Settings
  BY LensAssumption DEF Default, Settings

(* A sequence whose tail is empty holds one element.                       *)
LEMMA OneLeft ==
  ASSUME NEW S, NEW s \in Seq(S), s # <<>>, Tail(s) = <<>> PROVE Len(s) = 1
<1>1. Len(Tail(s)) = Len(s) - 1 /\ Len(s) \in Nat \ {0}
  OBVIOUS
<1>2. Len(Tail(s)) = 0
  BY EmptySeq
<1> QED
  BY <1>1, <1>2

(* Before the first session the camera has no input and the panel shows    *)
(* what the camera remembers.                                              *)
LEMMA InitCameraInv == Init => CameraInv
<1> SUFFICES ASSUME Init PROVE CameraInv
  OBVIOUS
<1> USE LensAssumption, DefaultSettings
<1>1. TypeOK
  <2>1. wire \in Seq(Settings) /\ capture \in Seq(Jobs)
    BY EmptySeq DEF Init
  <2>2. /\ applied \in [Lenses -> 0 .. MaxZoom]
        /\ \A lens \in Lenses : applied[lens] <= Clamp(lens, MaxZoom)
    BY DEF Init, Clamp
  <2>3. /\ version \in 0 .. MaxVersion /\ sessions \in 0 .. MaxSessions
        /\ written \in -1 .. MaxVersion /\ appJobs \in 0 .. MaxJobs
    BY DEF Init
  <2>4. /\ settings \in Settings /\ currentControl \in Settings
        /\ commanded \in Settings
        /\ connected \in BOOLEAN /\ configured \in BOOLEAN
        /\ running \in BOOLEAN /\ rejected \in BOOLEAN /\ stripped \in BOOLEAN
        /\ inputs \subseteq Lenses /\ activeInput \in Lenses \cup {"none"}
        /\ activeKind \in Lenses
    BY DEF Init
  <2> QED
    BY <2>1, <2>2, <2>3, <2>4 DEF TypeOK, Jobs
<1>2. OneInput /\ InputKept
  BY DEF Init, OneInput, InputKept
<1>3. OnItsWay
  BY DEF Init, OnItsWay
<1>4. Obeyed
  BY DEF Init, Obeyed, Default
<1> QED
  BY <1>1, <1>2, <1>3, <1>4 DEF CameraInv

-----------------------------------------------------------------------------
(* What leaves the camera alone disturbs neither its inputs nor what it    *)
(* obeys.                                                                  *)
LEMMA CameraUntouched ==
  ASSUME OneInput, InputKept, Obeyed, UNCHANGED <<cameraVars, commanded, rejected>>
  PROVE  OneInput' /\ InputKept' /\ Obeyed'
  BY DEF OneInput, InputKept, Obeyed, cameraVars, Clamp

(* A change in the panel: the version that was written is not the newest.  *)
LEMMA UpdateStep ==
  ASSUME CameraInv, NEW s \in Settings, Update(s)
  PROVE  CameraInv'
<1> USE LensAssumption DEF CameraInv, Update
<1>1. TypeOK'
  BY DEF TypeOK, linkVars, cameraVars
<1>2. OneInput' /\ InputKept' /\ Obeyed'
  BY CameraUntouched
<1>3. OnItsWay'
  BY DEF OnItsWay, TypeOK, linkVars
<1> QED
  BY <1>1, <1>2, <1>3

(* A session begins: its control loop has written nothing.                 *)
LEMMA ConnectStep == CameraInv /\ Connect => CameraInv'
<1> SUFFICES ASSUME CameraInv, Connect PROVE CameraInv'
  OBVIOUS
<1> USE LensAssumption DEF CameraInv, Connect
<1>1. TypeOK'
  BY DEF TypeOK, panelVars, cameraVars
<1>2. OneInput' /\ InputKept' /\ Obeyed'
  BY CameraUntouched
<1>3. OnItsWay'
  BY DEF OnItsWay, TypeOK, panelVars
<1> QED
  BY <1>1, <1>2, <1>3

(* A session ends: nothing is said of what was lost with it.               *)
LEMMA DisconnectStep == CameraInv /\ Disconnect => CameraInv'
<1> SUFFICES ASSUME CameraInv, Disconnect PROVE CameraInv'
  OBVIOUS
<1> USE LensAssumption DEF CameraInv, Disconnect
<1>1. TypeOK'
  BY EmptySeq DEF TypeOK, panelVars, cameraVars
<1>2. OneInput' /\ InputKept' /\ Obeyed'
  BY CameraUntouched
<1>3. OnItsWay'
  BY DEF OnItsWay, panelVars
<1> QED
  BY <1>1, <1>2, <1>3

(* The control loop writes: the newest settings are the last on the wire.  *)
LEMMA WriteStep == CameraInv /\ Write => CameraInv'
<1> SUFFICES ASSUME CameraInv, Write PROVE CameraInv'
  OBVIOUS
<1> USE LensAssumption DEF CameraInv, Write
<1>1. TypeOK'
  BY DEF TypeOK, panelVars, cameraVars
<1>2. OneInput' /\ InputKept' /\ Obeyed'
  BY CameraUntouched
<1>3. wire' # <<>> /\ wire'[Len(wire')] = settings
  <2>1. wire \in Seq(Settings) /\ settings \in Settings /\ wire' = Append(wire, settings)
    BY DEF TypeOK
  <2>2. Len(wire') = Len(wire) + 1 /\ wire'[Len(wire) + 1] = settings
    BY <2>1
  <2>3. Len(wire) \in Nat
    BY <2>1
  <2> QED
    BY <2>2, <2>3
<1>4. OnItsWay'
  BY <1>3 DEF OnItsWay, TypeOK, panelVars
<1> QED
  BY <1>1, <1>2, <1>4

(* The server reads a line: what leaves the wire is the last command of    *)
(* the queue.                                                              *)
LEMMA ReadStep == CameraInv /\ Read => CameraInv'
<1> SUFFICES ASSUME CameraInv, Read PROVE CameraInv'
  OBVIOUS
<1> USE LensAssumption DEF CameraInv, Read
<1> DEFINE n == Len(capture) + 1
<1>1. /\ Len(capture) \in Nat /\ Len(capture') = n
      /\ capture'[n].op = "apply" /\ capture'[n].control = wire[1]
  BY DEF TypeOK
<1>2. TypeOK'
  <2>1. wire' \in Seq(Settings) /\ Head(wire) \in Settings
    BY DEF TypeOK
  <2>2. capture' \in Seq(Jobs)
    BY <2>1 DEF TypeOK, Jobs
  <2> QED
    BY <2>1, <2>2 DEF TypeOK, Jobs, panelVars, cameraVars
<1>3. OneInput' /\ InputKept' /\ Obeyed'
  BY CameraUntouched
<1>4. OnItsWay'
  <2>1. written' <= version'
    BY DEF OnItsWay, panelVars
  <2> SUFFICES ASSUME connected', written' = version'
               PROVE  /\ wire' # <<>> => wire'[Len(wire')] = settings'
                      /\ wire' = <<>> => \A i \in 1 .. Len(capture') :
                            LastApply(i)' => capture'[i].control = settings'
                      /\ wire' = <<>> /\ (\A i \in 1 .. Len(capture') :
                                             capture'[i].op # "apply")
                            => commanded' = settings'
    BY <2>1 DEF OnItsWay
  <2>2. wire[Len(wire)] = settings /\ settings' = settings
    BY DEF OnItsWay, panelVars
  <2>3. wire' # <<>> => wire'[Len(wire')] = settings'
    BY <2>2 DEF TypeOK
  <2>4. ASSUME wire' = <<>>, NEW i \in 1 .. Len(capture'), LastApply(i)'
        PROVE  capture'[i].control = settings'
    <3>1. Len(wire) = 1
      <4>1. wire \in Seq(Settings) /\ wire # <<>> /\ Tail(wire) = <<>>
        BY <2>4 DEF TypeOK
      <4> HIDE DEF CameraInv, Read
      <4> QED
        BY <4>1, OneLeft
    <3>2. i = n
      BY <1>1, <2>4 DEF LastApply
    <3> QED
      BY <1>1, <2>2, <3>1, <3>2
  <2>5. ~(\A i \in 1 .. Len(capture') : capture'[i].op # "apply")
    BY <1>1
  <2> QED
    BY <2>3, <2>4, <2>5
<1> QED
  BY <1>2, <1>3, <1>4

(* The app starts or stops the camera: the commands keep their order.      *)
LEMMA AppCallsStep == CameraInv /\ AppCalls => CameraInv'
<1> SUFFICES ASSUME CameraInv, AppCalls PROVE CameraInv'
  OBVIOUS
<1> USE LensAssumption, DefaultSettings DEF CameraInv, AppCalls
<1>1. PICK op \in {"start", "stop"} :
         capture' = Append(capture, [op |-> op, control |-> Default])
  OBVIOUS
<1> DEFINE n == Len(capture) + 1
<1>2. /\ Len(capture) \in Nat /\ Len(capture') = n
      /\ \A i \in 1 .. Len(capture) : capture'[i] = capture[i]
      /\ capture'[n].op # "apply"
  BY <1>1 DEF TypeOK
<1>3. TypeOK'
  <2>1. capture' \in Seq(Jobs)
    BY <1>1 DEF TypeOK, Jobs
  <2> QED
    BY <2>1 DEF TypeOK, Jobs, panelVars, linkVars, cameraVars
<1>4. OneInput' /\ InputKept' /\ Obeyed'
  BY CameraUntouched
<1>5. ASSUME NEW i \in 1 .. Len(capture'), LastApply(i)'
      PROVE  i \in 1 .. Len(capture) /\ LastApply(i)
  <2>1. i \in 1 .. Len(capture)
    BY <1>2, <1>5 DEF LastApply
  <2> QED
    BY <1>2, <1>5, <2>1 DEF LastApply
<1>6. OnItsWay'
  BY <1>2, <1>5 DEF OnItsWay, panelVars, linkVars
<1> QED
  BY <1>3, <1>4, <1>6

-----------------------------------------------------------------------------
(* A job leaves the queue: the commands behind it stay in order, and one   *)
(* that is the last of them is what the camera was commanded.              *)
LEMMA CaptureQueue ==
  ASSUME TypeOK, OnItsWay, capture # <<>>, capture' = Tail(capture),
         UNCHANGED <<panelVars, linkVars, appJobs>>,
         commanded' = IF Head(capture).op = "apply"
                      THEN Head(capture).control ELSE commanded
  PROVE  capture' \in Seq(Jobs) /\ OnItsWay'
<1>1. /\ Len(capture) \in Nat \ {0} /\ Len(capture') = Len(capture) - 1
      /\ \A i \in 1 .. Len(capture') : capture'[i] = capture[i + 1]
      /\ Head(capture) = capture[1] /\ capture' \in Seq(Jobs)
  BY DEF TypeOK, Jobs
<1>2. ASSUME NEW i \in 1 .. Len(capture'), LastApply(i)'
      PROVE  i + 1 \in 1 .. Len(capture) /\ LastApply(i + 1)
  <2>1. capture[i + 1].op = "apply" /\ i + 1 \in 1 .. Len(capture)
    BY <1>1, <1>2 DEF LastApply
  <2>2. ASSUME NEW j \in i + 2 .. Len(capture) PROVE capture[j].op # "apply"
    <3>1. j - 1 \in i + 1 .. Len(capture')
      BY <1>1
    <3>2. j - 1 \in 1 .. Len(capture') /\ (j - 1) + 1 = j
      BY <1>1
    <3> QED
      BY <1>1, <1>2, <3>1, <3>2 DEF LastApply
  <2> QED
    BY <2>1, <2>2 DEF LastApply
<1>3. ASSUME \A i \in 1 .. Len(capture') : capture'[i].op # "apply"
      PROVE  \A j \in 2 .. Len(capture) : capture[j].op # "apply"
  <2> TAKE j \in 2 .. Len(capture)
  <2>1. j - 1 \in 1 .. Len(capture') /\ (j - 1) + 1 = j
    BY <1>1
  <2> QED
    BY <1>1, <1>3, <2>1
<1>4. ASSUME connected, written = version, wire = <<>>,
             \A i \in 1 .. Len(capture') : capture'[i].op # "apply"
      PROVE  commanded' = settings
  <2>1. CASE capture[1].op = "apply"
    <3>1. LastApply(1)
      BY <1>3, <1>4, <2>1 DEF LastApply
    <3> QED
      BY <1>1, <1>4, <2>1, <3>1 DEF OnItsWay
  <2>2. CASE capture[1].op # "apply"
    <3>1. \A i \in 1 .. Len(capture) : capture[i].op # "apply"
      BY <1>1, <1>3, <1>4, <2>2
    <3> QED
      BY <1>1, <1>4, <2>2, <3>1 DEF OnItsWay
  <2> QED
    BY <2>1, <2>2
<1>5. OnItsWay'
  BY <1>1, <1>2, <1>4 DEF OnItsWay, panelVars, linkVars
<1> QED
  BY <1>1, <1>5

(* The controls are set within the limits of the device that is active.    *)
LEMMA ControlsInLimits ==
  ASSUME TypeOK, NEW control \in Settings, NEW granted \in BOOLEAN,
         activeInput' \in Lenses \cup {"none"}, ApplyDevice(control, granted)
  PROVE  /\ applied' \in [Lenses -> 0 .. MaxZoom]
         /\ \A lens \in Lenses : applied'[lens] <= Clamp(lens, MaxZoom)
         /\ granted /\ activeInput' # "none" =>
               applied'[activeInput'] = Clamp(activeInput', control.zoom)
<1>1. control.zoom \in 1 .. MaxZoom /\ MaxZoom \in Nat \ {0}
  BY LensAssumption DEF Settings
<1>2. \A lens \in Lenses : /\ Clamp(lens, control.zoom) \in 0 .. MaxZoom
                           /\ Clamp(lens, control.zoom) <= Clamp(lens, MaxZoom)
  BY <1>1 DEF Clamp
<1>3. CASE activeInput' = "none" \/ ~granted
  BY <1>3 DEF ApplyDevice, TypeOK
<1>4. CASE activeInput' # "none" /\ granted
  BY <1>2, <1>4 DEF ApplyDevice, TypeOK
<1> QED
  BY <1>3, <1>4

(* start() on the capture queue: a configuration adds the rear lens to a   *)
(* session without input, later starts and failures change none.           *)
LEMMA StartStep ==
  ASSUME TypeOK, OneInput, InputKept, Obeyed, StartJob
  PROVE  /\ OneInput' /\ InputKept' /\ Obeyed'
         /\ configured' \in BOOLEAN /\ running' \in BOOLEAN /\ rejected' \in BOOLEAN
         /\ stripped' \in BOOLEAN
         /\ inputs' \subseteq Lenses /\ activeInput' \in Lenses \cup {"none"}
         /\ activeKind' \in Lenses /\ applied' \in [Lenses -> 0 .. MaxZoom]
         /\ \A lens \in Lenses : applied'[lens] <= Clamp(lens, MaxZoom)
<1> USE LensAssumption
<1>1. CASE ~configured /\ ConfigureFails
  BY <1>1 DEF StartJob, ConfigureFails, TypeOK, OneInput, InputKept, Obeyed, Clamp
<1>2. CASE ~configured /\ Configure
  <2>1. PICK done \in BOOLEAN : /\ ApplyDevice(currentControl, done)
                                /\ configured' = done /\ running' = done
                                /\ rejected' = \/ rejected \/ ~done
                                               \/ activeKind # "rearWide"
    BY <1>2 DEF Configure
  <2>2. /\ inputs' = {"rearWide"} /\ stripped' = FALSE
        /\ activeInput' = "rearWide" /\ activeKind' = "rearWide"
        /\ currentControl' = currentControl /\ commanded' = commanded
    BY <1>2 DEF Configure, StartJob
  <2>4. /\ applied' \in [Lenses -> 0 .. MaxZoom]
        /\ \A lens \in Lenses : applied'[lens] <= Clamp(lens, MaxZoom)
        /\ done => applied'[activeInput'] = Clamp(activeInput', currentControl.zoom)
    BY <2>1, <2>2, ControlsInLimits DEF TypeOK
  <2>5. rejected' \in BOOLEAN
    BY <2>1 DEF TypeOK
  <2>6. OneInput' /\ InputKept'
    BY <2>1, <2>2 DEF OneInput, InputKept
  <2>7. Obeyed'
    BY <2>1, <2>2, <2>4 DEF Obeyed
  <2> QED
    BY <2>1, <2>2, <2>4, <2>5, <2>6, <2>7
<1>3. CASE configured
  BY <1>3 DEF StartJob, TypeOK, OneInput, InputKept, Obeyed, Clamp
<1> QED
  BY <1>1, <1>2, <1>3 DEF StartJob

(* apply(control:) on the capture queue: the new input replaces the old    *)
(* one, or the command is refused and nothing changes.                     *)
LEMMA ApplyStep ==
  ASSUME TypeOK, OneInput, InputKept, Obeyed,
         NEW control \in Settings, ApplyJob(control)
  PROVE  /\ OneInput' /\ InputKept' /\ Obeyed'
         /\ rejected' \in BOOLEAN /\ currentControl' \in Settings
         /\ stripped' \in BOOLEAN
         /\ inputs' \subseteq Lenses /\ activeInput' \in Lenses \cup {"none"}
         /\ activeKind' \in Lenses /\ applied' \in [Lenses -> 0 .. MaxZoom]
         /\ \A lens \in Lenses : applied'[lens] <= Clamp(lens, MaxZoom)
<1> USE LensAssumption
<1>1. /\ control.camera \in Lenses /\ commanded' = control
      /\ configured' = configured /\ running' = running
  BY DEF Settings, ApplyJob
<1>2. CASE control.camera # activeKind /\ RejectLens(control.camera)
  <2>1. /\ rejected' = TRUE /\ activeInput' = activeInput
        /\ activeKind' = activeKind /\ currentControl' = currentControl
        /\ applied' = applied
        /\ \/ inputs' = inputs /\ stripped' = stripped
           \/ \E takesBack \in BOOLEAN :
                 /\ inputs' = IF takesBack THEN {activeInput} \ {"none"} ELSE {}
                 /\ stripped' = (~takesBack /\ activeInput # "none")
    BY <1>2 DEF RejectLens
  <2>2. inputs' \subseteq Lenses /\ stripped' \in BOOLEAN
    BY <2>1 DEF TypeOK
  <2>3. inputs' = IF stripped' THEN {} ELSE {activeInput'} \ {"none"}
    <3>1. CASE inputs' = inputs /\ stripped' = stripped
      BY <2>1, <3>1 DEF OneInput
    <3>2. ASSUME NEW takesBack \in BOOLEAN,
                 inputs' = IF takesBack THEN {activeInput} \ {"none"} ELSE {},
                 stripped' = (~takesBack /\ activeInput # "none")
          PROVE  inputs' = IF stripped' THEN {} ELSE {activeInput'} \ {"none"}
      BY <2>1, <3>2
    <3> QED
      BY <2>1, <3>1, <3>2
  <2>4. OneInput' /\ InputKept' /\ Obeyed'
    BY <1>1, <2>1, <2>3 DEF OneInput, InputKept, Obeyed
  <2> QED
    BY <2>1, <2>2, <2>4 DEF TypeOK
<1>3. ASSUME currentControl' = control, NEW granted \in BOOLEAN,
             ApplyDevice(control, granted), rejected' = ~granted,
             activeKind' = control.camera, OneInput', InputKept',
             inputs' \subseteq Lenses, activeInput' \in Lenses \cup {"none"}
      PROVE  /\ Obeyed' /\ rejected' \in BOOLEAN
             /\ applied' \in [Lenses -> 0 .. MaxZoom]
             /\ \A lens \in Lenses : applied'[lens] <= Clamp(lens, MaxZoom)
  <2>1. /\ applied' \in [Lenses -> 0 .. MaxZoom]
        /\ \A lens \in Lenses : applied'[lens] <= Clamp(lens, MaxZoom)
        /\ granted /\ activeInput' # "none" =>
              applied'[activeInput'] = Clamp(activeInput', control.zoom)
    BY <1>3, ControlsInLimits
  <2> QED
    BY <1>1, <1>3, <2>1 DEF Obeyed
<1>4. CASE /\ TakeLens(control.camera)
           /\ currentControl' = control
           /\ \E granted \in BOOLEAN : /\ ApplyDevice(control, granted)
                                       /\ rejected' = ~granted
  <2>1. PICK granted \in BOOLEAN : ApplyDevice(control, granted) /\ rejected' = ~granted
    BY <1>4
  <2>2. /\ OneInput' /\ InputKept' /\ activeKind' = control.camera
        /\ inputs' \subseteq Lenses /\ activeInput' \in Lenses \cup {"none"}
        /\ stripped' \in BOOLEAN
    <3>1. CASE control.camera = activeKind /\ UNCHANGED <<inputs, activeInput, activeKind, stripped>>
      BY <1>1, <3>1 DEF OneInput, InputKept, TypeOK
    <3>2. CASE Switch(control.camera)
      <4>1. /\ inputs' = {control.camera} /\ activeInput' = control.camera
            /\ activeKind' = control.camera /\ stripped' = FALSE
            /\ control.camera # "none"
        BY <1>1, <3>2 DEF Switch, OneInput
      <4> QED
        BY <1>1, <4>1 DEF OneInput, InputKept, TypeOK
    <3> QED
      BY <1>4, <3>1, <3>2 DEF TakeLens
  <2> QED
    BY <1>1, <1>3, <1>4, <2>1, <2>2
<1> QED
  BY <1>2, <1>4 DEF ApplyJob

(* Every job of the capture queue keeps the invariant.                     *)
LEMMA CaptureStep == CameraInv /\ CaptureJob => CameraInv'
<1> SUFFICES ASSUME CameraInv, CaptureJob PROVE CameraInv'
  OBVIOUS
<1> USE DEF CameraInv, CaptureJob
<1> DEFINE job == Head(capture)
<1>1. job \in Jobs
  <2>1. capture \in Seq(Jobs) /\ capture # <<>>
    BY DEF TypeOK, Jobs
  <2> QED
    BY <2>1
<1>2. commanded' = IF job.op = "apply" THEN job.control ELSE commanded
  BY DEF StartJob, StopJob, ApplyJob
<1>3. capture' \in Seq(Jobs) /\ OnItsWay'
  BY <1>2, CaptureQueue
<1>4. CASE job.op = "start" /\ StartJob
  <2>1. TypeOK'
    BY <1>3, <1>4, StartStep DEF TypeOK, Jobs, StartJob, panelVars, linkVars
  <2> QED
    BY <1>3, <1>4, <2>1, StartStep
<1>5. CASE job.op = "stop" /\ StopJob
  <2>1. TypeOK'
    BY <1>3, <1>5 DEF TypeOK, Jobs, StopJob, panelVars, linkVars
  <2>2. OneInput' /\ InputKept' /\ Obeyed'
    BY <1>5 DEF StopJob, OneInput, InputKept, Obeyed, Clamp
  <2> QED
    BY <1>3, <2>1, <2>2
<1>6. CASE job.op = "apply" /\ ApplyJob(job.control)
  <2>1. job.control \in Settings
    BY <1>1 DEF Jobs
  <2>2. /\ OneInput' /\ InputKept' /\ Obeyed'
        /\ rejected' \in BOOLEAN /\ currentControl' \in Settings
        /\ stripped' \in BOOLEAN
        /\ inputs' \subseteq Lenses /\ activeInput' \in Lenses \cup {"none"}
        /\ activeKind' \in Lenses /\ applied' \in [Lenses -> 0 .. MaxZoom]
        /\ \A lens \in Lenses : applied'[lens] <= Clamp(lens, MaxZoom)
    BY <1>6, <2>1, ApplyStep
  <2>3. TypeOK'
    BY <1>3, <1>6, <2>1, <2>2 DEF TypeOK, Jobs, ApplyJob, panelVars, linkVars
  <2> QED
    BY <1>3, <2>2, <2>3
<1> QED
  BY <1>4, <1>5, <1>6

-----------------------------------------------------------------------------
(* CameraInv holds in every state, for all values of the constants.        *)
THEOREM CameraInvariant == Spec => []CameraInv
<1>1. CameraInv /\ [Next]_vars => CameraInv'
  <2> SUFFICES ASSUME CameraInv, [Next]_vars PROVE CameraInv'
    OBVIOUS
  <2>1. ASSUME NEW s \in Settings, Update(s) PROVE CameraInv'
    BY <2>1, UpdateStep
  <2>2. CASE UNCHANGED vars
    BY <2>2 DEF vars, CameraInv, TypeOK, OneInput, InputKept, OnItsWay, LastApply,
                Obeyed, Clamp, panelVars, linkVars, cameraVars
  <2> QED
    BY <2>1, <2>2, ConnectStep, DisconnectStep, WriteStep, ReadStep,
       AppCallsStep, CaptureStep DEF Next
<1> QED
  BY InitCameraInv, <1>1, PTL DEF Spec

(* Every variable has its type, and no device is given a zoom beyond its   *)
(* limits.                                                                 *)
THEOREM CameraTypeOK == Spec => []TypeOK
<1>1. CameraInv => TypeOK
  BY DEF CameraInv
<1> QED
  BY <1>1, CameraInvariant, PTL

(* The capture session has exactly the input of the active lens, whatever  *)
(* switches, starts and failures there were, or none where AVFoundation has*)
(* refused both the new one and the old one.                               *)
THEOREM CameraOneInput == Spec => []OneInput
<1>1. CameraInv => OneInput
  BY DEF CameraInv
<1> QED
  BY <1>1, CameraInvariant, PTL

(* The last command of the camera is what the panel shows once all that    *)
(* was written is treated, over any number of sessions.                    *)
THEOREM PanelReaches == Spec => []PanelReachesCamera
<1>1. CameraInv => PanelReachesCamera
  BY DEF CameraInv, OnItsWay, PanelReachesCamera, Settled
<1> QED
  BY <1>1, CameraInvariant, PTL

(* The input of the session is then the lens of the panel, with its zoom,  *)
(* unless the last command was refused or undone, or there is no input.    *)
THEOREM CameraFollows == Spec => []CameraFollowsPanel
<1>1. CameraInv => CameraFollowsPanel
  BY DEF CameraInv, OnItsWay, Obeyed, OneInput, CameraFollowsPanel, Settled
<1> QED
  BY <1>1, CameraInvariant, PTL
=============================================================================
