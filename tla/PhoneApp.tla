------------------------------ MODULE PhoneApp ------------------------------
(***************************************************************************)
(* App/CameraStreamerModel.swift with the server, the encoder and the      *)
(* camera it starts and stops.                                             *)
(*                                                                         *)
(* The model is @MainActor: its start() jobs and the Tasks of the server's *)
(* state changes run one at a time in mainJobs, in the order they were     *)
(* made.  A tap on the button runs between two of them, stop() within it.  *)
(* start() leaves the main actor at "await camera.start()": other jobs run *)
(* until it resumes.  The camera has a serial queue of its own, the server *)
(* is StreamServer (without frames).                                       *)
(***************************************************************************)
EXTENDS Integers, Sequences

CONSTANTS MaxTaps,        \* bound on the taps of the Start/Stop button
          MaxConns, MaxListeners, MaxFrames, MaxJobs     \* of StreamServer

ASSUME TapsAssumption == MaxTaps \in Nat

VARIABLES jobs, listener, connection, connectionReady, sendInFlight, pending,
          controlBuffer, keyRequested, frames, listeners, phase, unsent,
          receiving, wire                                \* of StreamServer

VARIABLES
    isRunning, status,   \* the published state
    mainJobs,            \* the jobs of the main actor
    encoderOn,           \* compressionSession # nil
    asking,              \* start() calls that await the permission
    capture,             \* the serial queue dev.local.IPhoneCam.capture
    configured,          \* configured of CameraCapture
    capturing,           \* AVCaptureSession.isRunning
    resuming,            \* finished camera.start() calls not yet resumed
    taps

serverVars == <<jobs, listener, connection, connectionReady, sendInFlight,
                pending, controlBuffer, keyRequested, frames, listeners, phase,
                unsent, receiving, wire>>
modelVars == <<isRunning, status, mainJobs>>
cameraVars == <<asking, capture, configured, capturing, resuming>>
vars == <<serverVars, modelVars, cameraVars, encoderOn, taps>>

S == INSTANCE StreamServer

Reports == {"stopped", "waiting", "connected", "error"}    \* StreamServerState
Outcomes == {"ok", "error"}

Init == /\ S!Init
        /\ isRunning = FALSE /\ status = "stopped" /\ mainJobs = <<>>
        /\ encoderOn = FALSE
        /\ asking = 0 /\ capture = <<>> /\ configured = FALSE /\ capturing = FALSE
        /\ resuming = [how \in Outcomes |-> 0]
        /\ taps = 0

-----------------------------------------------------------------------------
(* The main actor.                                                         *)

(* camera.stop(), encoder.stop(), server.stop(): of the camera and the     *)
(* server only the jobs are enqueued.                                      *)
StopAll == /\ capture' = Append(capture, "stop")
           /\ encoderOn' = FALSE
           /\ jobs' = Append(jobs, S!Job("stop", 0))
           /\ UNCHANGED <<listener, connection, connectionReady, sendInFlight,
                          pending, controlBuffer, keyRequested, frames,
                          listeners, phase, unsent, receiving, wire>>

(* toggle: stop() at once, start() as a job.                               *)
Toggle ==
    /\ taps < MaxTaps
    /\ taps' = taps + 1
    /\ \/ /\ isRunning
          /\ StopAll
          /\ isRunning' = FALSE
          /\ status' = "stopped"
          /\ UNCHANGED mainJobs
       \/ /\ ~isRunning
          /\ mainJobs' = Append(mainJobs, "start")
          /\ UNCHANGED <<serverVars, encoderOn, capture, isRunning, status>>
    /\ UNCHANGED <<asking, configured, capturing, resuming>>

(* The catch of start(): whatever was started is stopped.                  *)
Fail == StopAll /\ isRunning' = FALSE /\ status' = "error"

(* start() up to its await.  encoder.start() may throw, and so may the     *)
(* listener of server.start(), which does nothing when there is one.       *)
Start ==
    \/ /\ isRunning
       /\ UNCHANGED <<serverVars, encoderOn, capture, asking, isRunning, status>>
    \/ /\ ~isRunning
       /\ S!Start \/ (listener # 0 /\ UNCHANGED serverVars)
       /\ encoderOn' = TRUE
       /\ status' = "starting"
       /\ asking' = asking + 1
       /\ UNCHANGED <<isRunning, capture>>
    \/ /\ ~isRunning
       /\ ~encoderOn \/ listener = 0
       /\ Fail
       /\ UNCHANGED asking

(* Mutant: the report is shown as it is.                                   *)
HandlePlainly(report) ==
    /\ status' = IF report = "waiting" THEN "waitingForPC" ELSE report
    /\ UNCHANGED <<serverVars, encoderOn, capture, asking, isRunning>>
(* The handler of onStateChange.                                           *)
Handle(report) ==
    /\ status' = CASE report = "stopped" -> IF isRunning THEN "waitingForPC"
                                            ELSE status
                   [] report = "waiting" -> "waitingForPC"
                   [] OTHER -> report
    /\ UNCHANGED <<serverVars, encoderOn, capture, asking, isRunning>>

MainJob ==
    /\ mainJobs # <<>>
    /\ mainJobs' = Tail(mainJobs)
    /\ \/ Head(mainJobs) = "start" /\ Start
       \/ Head(mainJobs) # "start" /\ Handle(Head(mainJobs))
    /\ UNCHANGED <<configured, capturing, resuming, taps>>

(* Mutant: a start() that fails after its await leaves all as it is.       *)
ResumeIgnoresFailure ==
    \E how \in Outcomes :
        /\ resuming[how] > 0
        /\ resuming' = [resuming EXCEPT ![how] = @ - 1]
        /\ isRunning' = (how = "ok")
        /\ status' = IF how = "ok" THEN "waitingForPC" ELSE "error"
        /\ UNCHANGED <<serverVars, encoderOn, mainJobs, asking, capture,
                       configured, capturing, taps>>
(* start() resumes after its await.                                        *)
Resume ==
    \E how \in Outcomes :
        /\ resuming[how] > 0
        /\ resuming' = [resuming EXCEPT ![how] = @ - 1]
        /\ \/ /\ how = "ok"
              /\ isRunning' = TRUE
              /\ status' = "waitingForPC"
              /\ UNCHANGED <<serverVars, encoderOn, capture>>
           \/ how = "error" /\ Fail
        /\ UNCHANGED <<mainJobs, asking, configured, capturing, taps>>

-----------------------------------------------------------------------------
(* CameraCapture.start, stop.                                              *)

Finish(how) == resuming' = [resuming EXCEPT ![how] = @ + 1]

(* The permission is there, or the user answers.                           *)
Permission ==
    /\ asking > 0
    /\ asking' = asking - 1
    /\ \/ capture' = Append(capture, "start") /\ UNCHANGED resuming
       \/ Finish("error") /\ UNCHANGED capture
    /\ UNCHANGED <<serverVars, modelVars, encoderOn, configured, capturing, taps>>

(* The session is configured once; until then configureSession may throw.  *)
CaptureJob ==
    /\ capture # <<>>
    /\ capture' = Tail(capture)
    /\ \/ /\ Head(capture) = "start"
          /\ configured' = TRUE /\ capturing' = TRUE
          /\ Finish("ok")
       \/ /\ Head(capture) = "start" /\ ~configured
          /\ Finish("error")
          /\ UNCHANGED <<configured, capturing>>
       \/ /\ Head(capture) = "stop"
          /\ capturing' = FALSE
          /\ UNCHANGED <<configured, resuming>>
    /\ UNCHANGED <<serverVars, modelVars, encoderOn, asking, taps>>

-----------------------------------------------------------------------------
(* The server: its reports become jobs of the main actor.                  *)

ServerJob == /\ S!RunJob
             /\ mainJobs' = mainJobs \o S!Emitted(Head(jobs))
             /\ UNCHANGED <<isRunning, status, cameraVars, encoderOn, taps>>

Network == /\ S!Framework \/ \E l \in 1 .. MaxListeners : S!ListenerReports(l)
           /\ UNCHANGED <<modelVars, cameraVars, encoderOn, taps>>

Next == Toggle \/ MainJob \/ Resume \/ Permission \/ CaptureJob \/ ServerJob
        \/ Network

Spec == Init /\ [][Next]_vars

-----------------------------------------------------------------------------
(* Nothing the app has asked for is still under way.                       *)
Quiet == /\ jobs = <<>> /\ mainJobs = <<>> /\ capture = <<>>
         /\ asking = 0 /\ resuming = [how \in Outcomes |-> 0]

(* The app that shows START CAMERA is off: the camera takes no pictures,   *)
(* the encoder has no session and the port is closed, in whatever order    *)
(* overlapping starts, a stop and their failures took effect.              *)
StoppedIsDark ==
    Quiet /\ ~isRunning => ~capturing /\ ~encoderOn /\ listener = 0

(* No listener is lost: what listens is what stop() will cancel.           *)
NoLostListener == listeners.live \subseteq {listener}

(* The status agrees with the button: a running app never shows Stopped,   *)
(* and Starting camera gives way to the outcome, also of a start() that was*)
(* overtaken by another.                                                   *)
StatusFollowsButton == /\ isRunning => status # "stopped"
                       /\ Quiet => status # "starting"

(* "iPhone listens continuously on port 2345 while streaming mode is       *)
(* active."                                                                *)
RunningListens == Quiet /\ isRunning => listener # 0
=============================================================================
