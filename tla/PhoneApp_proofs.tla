--------------------------- MODULE PhoneApp_proofs ---------------------------
(***************************************************************************)
(* For any number of taps, clients, listeners and queued jobs: whatever    *)
(* overlapping starts, a stop and their failures do to each other, the app *)
(* that has come to rest and shows START CAMERA is off, its listener is the*)
(* one it knows, and its status agrees with the button.                    *)
(***************************************************************************)
EXTENDS PhoneApp, SequenceTheorems, TLAPS

-----------------------------------------------------------------------------
(* The inductive invariant.                                                *)

Has(s, x) == \E i \in 1 .. Len(s) : s[i] = x
StopQueued(s) == \E i \in 1 .. Len(s) : s[i].op = "stop"

Ops == S!ConnOps \cup {"stop", "listenerFailed", "listenerReady", "listenerCancelled"}
JobRecords == [op : Ops, arg : Int]
CaptureOps == {"start", "stop"}
MainOps == Reports \cup {"start"}

(* A call of camera.start() has not resumed yet.                           *)
InFlight == \/ asking > 0
            \/ Has(capture, "start")
            \/ \E how \in Outcomes : resuming[how] > 0

AppTypes ==
    /\ jobs \in Seq(JobRecords)
    /\ mainJobs \in Seq(MainOps)
    /\ capture \in Seq(CaptureOps)
    /\ isRunning \in BOOLEAN /\ encoderOn \in BOOLEAN /\ capturing \in BOOLEAN
    /\ asking \in Nat /\ resuming \in [Outcomes -> Nat]

ListenerTypes ==
    /\ listener \in Nat
    /\ listeners \in [created : Nat, starting : SUBSET Nat,
                      live : SUBSET (Nat \ {0}), cancelled : SUBSET Nat]

(* What is on belongs to an app that runs or starts, or is about to stop.  *)
EncoderInv == encoderOn => isRunning \/ InFlight
CameraInv == capturing => isRunning \/ Has(capture, "stop") \/ resuming["ok"] > 0
ListenerInv == listener # 0 => isRunning \/ InFlight \/ StopQueued(jobs)
StatusInv == /\ isRunning => status # "stopped"
             /\ status = "starting" => InFlight

AppInv == /\ AppTypes /\ ListenerTypes /\ NoLostListener
          /\ EncoderInv /\ CameraInv /\ ListenerInv /\ StatusInv

-----------------------------------------------------------------------------
(* The serial queues.                                                      *)

(* What a new element adds to a queue, and ...                             *)
LEMMA AppendHas ==
  ASSUME NEW T, NEW s \in Seq(T), NEW x \in T
  PROVE  /\ Append(s, x) \in Seq(T)
         /\ \A y : Has(Append(s, x), y) <=> Has(s, y) \/ x = y
<1>1. /\ Append(s, x) \in Seq(T) /\ Len(Append(s, x)) = Len(s) + 1
      /\ Append(s, x)[Len(s) + 1] = x /\ Len(s) \in Nat
      /\ \A i \in 1 .. Len(s) : Append(s, x)[i] = s[i]
  BY AppendProperties, LenProperties
<1>2. \A y : Has(Append(s, x), y) => Has(s, y) \/ x = y
  BY <1>1 DEF Has
<1>3. \A y : Has(s, y) => Has(Append(s, x), y)
  <2> SUFFICES ASSUME NEW y, Has(s, y) PROVE Has(Append(s, x), y)
    OBVIOUS
  <2>1. PICK i \in 1 .. Len(s) : s[i] = y
    BY DEF Has
  <2> QED
    BY <1>1, <2>1 DEF Has
<1>4. Has(Append(s, x), x)
  BY <1>1 DEF Has
<1> QED
  BY <1>1, <1>2, <1>3, <1>4

(* ... what its oldest element takes from it.                              *)
LEMMA TailHas ==
  ASSUME NEW T, NEW s \in Seq(T), s # <<>>
  PROVE  /\ Tail(s) \in Seq(T) /\ Head(s) \in T
         /\ \A y : Has(s, y) <=> Head(s) = y \/ Has(Tail(s), y)
<1>1. /\ Tail(s) \in Seq(T) /\ Head(s) \in T /\ Head(s) = s[1]
      /\ Len(s) \in Nat \ {0} /\ Len(Tail(s)) = Len(s) - 1
      /\ \A i \in 1 .. Len(s) - 1 : Tail(s)[i] = s[i + 1]
  BY HeadTailProperties, LenProperties
<1>2. \A y : Has(s, y) => Head(s) = y \/ Has(Tail(s), y)
  <2> SUFFICES ASSUME NEW y, NEW i \in 1 .. Len(s), s[i] = y, i # 1
               PROVE  Has(Tail(s), y)
    BY <1>1 DEF Has
  <2>1. i - 1 \in 1 .. Len(Tail(s)) /\ Tail(s)[i - 1] = y
    BY <1>1
  <2> QED
    BY <2>1 DEF Has
<1>3. \A y : Has(Tail(s), y) => Has(s, y)
  <2> SUFFICES ASSUME NEW y, NEW i \in 1 .. Len(Tail(s)), Tail(s)[i] = y
               PROVE  Has(s, y)
    BY DEF Has
  <2>1. i + 1 \in 1 .. Len(s) /\ s[i + 1] = y
    BY <1>1
  <2> QED
    BY <2>1 DEF Has
<1>4. Has(s, Head(s))
  BY <1>1 DEF Has
<1> QED
  BY <1>1, <1>2, <1>3, <1>4

(* A stop that is queued stays so until it runs.                           *)
LEMMA AppendStop ==
  ASSUME NEW s \in Seq(JobRecords), NEW job \in JobRecords
  PROVE  /\ Append(s, job) \in Seq(JobRecords)
         /\ StopQueued(Append(s, job)) <=> StopQueued(s) \/ job.op = "stop"
<1>1. /\ Append(s, job) \in Seq(JobRecords) /\ Len(Append(s, job)) = Len(s) + 1
      /\ Append(s, job)[Len(s) + 1] = job /\ Len(s) \in Nat
      /\ \A i \in 1 .. Len(s) : Append(s, job)[i] = s[i]
  BY AppendProperties, LenProperties
<1> QED
  BY <1>1 DEF StopQueued

LEMMA TailStop ==
  ASSUME NEW s \in Seq(JobRecords), s # <<>>
  PROVE  /\ Tail(s) \in Seq(JobRecords) /\ Head(s) \in JobRecords
         /\ StopQueued(s) => Head(s).op = "stop" \/ StopQueued(Tail(s))
<1>1. /\ Tail(s) \in Seq(JobRecords) /\ Head(s) \in JobRecords
      /\ Head(s) = s[1]
      /\ Len(s) \in Nat \ {0} /\ Len(Tail(s)) = Len(s) - 1
      /\ \A i \in 1 .. Len(s) - 1 : Tail(s)[i] = s[i + 1]
  BY HeadTailProperties, LenProperties
<1>2. ASSUME NEW i \in 1 .. Len(s), s[i].op = "stop", i # 1
      PROVE  StopQueued(Tail(s))
  <2>1. i - 1 \in 1 .. Len(Tail(s)) /\ Tail(s)[i - 1].op = "stop"
    BY <1>1, <1>2
  <2> QED
    BY <2>1 DEF StopQueued
<1> QED
  BY <1>1, <1>2 DEF StopQueued

-----------------------------------------------------------------------------
(* Every step keeps the invariant.                                         *)

LEMMA InitAppInv == Init => AppInv
<1> SUFFICES ASSUME Init PROVE AppInv
  OBVIOUS
<1>1. /\ jobs = <<>> /\ mainJobs = <<>> /\ capture = <<>> /\ listener = 0
      /\ listeners = [created |-> 0, starting |-> {}, live |-> {},
                      cancelled |-> {}]
      /\ isRunning = FALSE /\ encoderOn = FALSE /\ capturing = FALSE
      /\ asking = 0 /\ resuming = [how \in Outcomes |-> 0]
      /\ status = "stopped"
  BY DEF Init, S!Init
<1>2. /\ <<>> \in Seq(JobRecords) /\ <<>> \in Seq(MainOps)
      /\ <<>> \in Seq(CaptureOps)
  BY EmptySeq
<1>3. AppTypes
  BY <1>1, <1>2 DEF AppTypes
<1>4. ListenerTypes /\ NoLostListener
  BY <1>1 DEF ListenerTypes, NoLostListener
<1> QED
  BY <1>1, <1>3, <1>4 DEF AppInv, EncoderInv, CameraInv, ListenerInv, StatusInv

(* What stop(), or the catch of start(), leaves to the queues.             *)
LEMMA StopAllEffect ==
  ASSUME AppTypes, StopAll
  PROVE  /\ jobs' \in Seq(JobRecords) /\ capture' \in Seq(CaptureOps)
         /\ StopQueued(jobs') /\ Has(capture', "stop")
         /\ Has(capture, "start") => Has(capture', "start")
         /\ encoderOn' = FALSE
         /\ listener' = listener /\ listeners' = listeners
<1>1. /\ jobs' = Append(jobs, S!Job("stop", 0))
      /\ capture' = Append(capture, "stop") /\ encoderOn' = FALSE
      /\ listener' = listener /\ listeners' = listeners
      /\ jobs \in Seq(JobRecords) /\ capture \in Seq(CaptureOps)
  BY DEF StopAll, AppTypes
<1>2. S!Job("stop", 0) \in JobRecords /\ S!Job("stop", 0).op = "stop"
  BY DEF S!Job, JobRecords, Ops
<1>3. "stop" \in CaptureOps
  BY DEF CaptureOps
<1> QED
  BY <1>1, <1>2, <1>3, AppendHas, AppendStop

(* The app that is stopped, by its button or by a failure.                 *)
LEMMA StoppedStep ==
  ASSUME AppInv, StopAll, isRunning' = FALSE, status' # "starting",
         mainJobs' \in Seq(MainOps), asking' = asking, capturing' = capturing,
         resuming' \in [Outcomes -> Nat]
  PROVE  AppInv'
<1>1. AppTypes' /\ ListenerTypes' /\ NoLostListener'
  BY StopAllEffect
     DEF AppInv, AppTypes, ListenerTypes, NoLostListener
<1>2. StopQueued(jobs') /\ Has(capture', "stop") /\ encoderOn' = FALSE
  BY StopAllEffect DEF AppInv
<1>3. EncoderInv' /\ CameraInv' /\ ListenerInv' /\ StatusInv'
  BY <1>2 DEF EncoderInv, CameraInv, ListenerInv, StatusInv
<1> QED
  BY <1>1, <1>3 DEF AppInv

LEMMA ToggleStep == AppInv /\ Toggle => AppInv'
<1> SUFFICES ASSUME AppInv, Toggle PROVE AppInv'
  OBVIOUS
<1>1. CASE isRunning
  BY <1>1, StoppedStep DEF Toggle, AppInv, AppTypes
<1>2. CASE ~isRunning
  <2>1. /\ mainJobs' = Append(mainJobs, "start") /\ "start" \in MainOps
        /\ jobs' = jobs /\ listener' = listener /\ listeners' = listeners
        /\ encoderOn' = encoderOn /\ capture' = capture /\ status' = status
        /\ isRunning' = isRunning /\ asking' = asking
        /\ capturing' = capturing /\ resuming' = resuming
        /\ mainJobs \in Seq(MainOps)
    BY <1>2 DEF Toggle, serverVars, MainOps, AppInv, AppTypes
  <2>2. mainJobs' \in Seq(MainOps)
    BY <2>1, AppendHas
  <2> QED
    BY <2>1, <2>2 DEF AppInv, AppTypes, ListenerTypes, NoLostListener, EncoderInv,
       CameraInv, ListenerInv, StatusInv, InFlight
<1> QED
  BY <1>1, <1>2

(* A call of start() that goes as far as its await.                        *)
LEMMA AwaitStep ==
  ASSUME AppInv, ~isRunning, S!Start \/ (listener # 0 /\ UNCHANGED serverVars),
         encoderOn' = TRUE, status' = "starting", asking' = asking + 1,
         mainJobs' \in Seq(MainOps),
         UNCHANGED <<isRunning, capture, capturing, resuming>>
  PROVE  AppInv'
<1>1. /\ jobs' = jobs /\ asking' \in Nat /\ asking' > 0 /\ capture' = capture
      /\ isRunning' = isRunning /\ capturing' = capturing /\ resuming' = resuming
  BY DEF S!Start, serverVars, AppInv, AppTypes
<1>2. ListenerTypes' /\ NoLostListener'
  <2>1. CASE S!Start
    <3>1. /\ listener = 0 /\ listener' = listeners.created + 1
          /\ listeners' = [listeners EXCEPT !.created = listener',
                                            !.starting = @ \cup {listener'},
                                            !.live = @ \cup {listener'}]
      BY <2>1 DEF S!Start
    <3>2. listeners.live = {}
      BY <3>1 DEF AppInv, ListenerTypes, NoLostListener
    <3>3. /\ listeners.created \in Nat /\ listener' \in Nat \ {0}
          /\ listeners'.live = {listener'}
      BY <3>1, <3>2 DEF AppInv, ListenerTypes
    <3>4. ListenerTypes'
      BY <3>1, <3>3 DEF AppInv, ListenerTypes
    <3> QED
      BY <3>3, <3>4 DEF NoLostListener
  <2>2. CASE UNCHANGED serverVars
    BY <2>2 DEF serverVars, AppInv, ListenerTypes, NoLostListener
  <2> QED
    BY <2>1, <2>2
<1>3. AppTypes'
  BY <1>1 DEF AppInv, AppTypes
<1>4. InFlight'
  BY <1>1 DEF InFlight
<1>5. CameraInv'
  BY <1>1 DEF AppInv, CameraInv
<1>6. EncoderInv' /\ ListenerInv' /\ StatusInv'
  BY <1>1, <1>4 DEF EncoderInv, ListenerInv, StatusInv
<1> QED
  BY <1>2, <1>3, <1>5, <1>6 DEF AppInv

LEMMA MainJobStep == AppInv /\ MainJob => AppInv'
<1> SUFFICES ASSUME AppInv, MainJob PROVE AppInv'
  OBVIOUS
<1>1. /\ mainJobs' \in Seq(MainOps) /\ Head(mainJobs) \in MainOps
      /\ capturing' = capturing /\ resuming' = resuming
  <2>1. mainJobs \in Seq(MainOps) /\ mainJobs # <<>> /\ mainJobs' = Tail(mainJobs)
    BY DEF MainJob, AppInv, AppTypes
  <2> QED
    BY <2>1, TailHas DEF MainJob
<1>2. ASSUME Handle(Head(mainJobs)), Head(mainJobs) # "start" PROVE AppInv'
  <2>1. /\ jobs' = jobs /\ listener' = listener /\ listeners' = listeners
        /\ encoderOn' = encoderOn /\ capture' = capture /\ asking' = asking
        /\ isRunning' = isRunning
    BY <1>2 DEF Handle, serverVars
  <2>2. Head(mainJobs) # "starting"
    BY <1>1 DEF MainOps, Reports
  <2>3. StatusInv'
    <3>1. status' = "stopped" => ~isRunning
      BY <1>2, <2>2 DEF Handle, AppInv, StatusInv
    <3>2. status' = "starting" => status = "starting"
      BY <1>2, <2>2 DEF Handle
    <3> QED
      BY <1>1, <2>1, <3>1, <3>2 DEF AppInv, StatusInv, InFlight
  <2> QED
    BY <1>1, <2>1, <2>3 DEF AppInv, AppTypes, ListenerTypes, NoLostListener,
       EncoderInv, CameraInv, ListenerInv, InFlight
<1>3. ASSUME Start PROVE AppInv'
  <2>1. CASE isRunning
    <3>1. /\ jobs' = jobs /\ listener' = listener /\ listeners' = listeners
          /\ encoderOn' = encoderOn /\ capture' = capture /\ asking' = asking
          /\ isRunning' = isRunning /\ status' = status
      BY <1>3, <2>1 DEF Start, serverVars
    <3> QED
      BY <1>1, <3>1 DEF AppInv, AppTypes, ListenerTypes, NoLostListener,
         EncoderInv, CameraInv, ListenerInv, StatusInv, InFlight
  <2>2. CASE ~isRunning /\ Fail /\ asking' = asking
    <3>1. StopAll /\ isRunning' = FALSE /\ status' = "error"
      BY <2>2 DEF Fail
    <3> QED
      BY <1>1, <2>2, <3>1, StoppedStep DEF AppInv, AppTypes
  <2> QED
    BY <1>1, <1>3, <2>1, <2>2, AwaitStep DEF Start
<1> QED
  BY <1>2, <1>3 DEF MainJob

LEMMA ResumeStep == AppInv /\ Resume => AppInv'
<1> SUFFICES ASSUME AppInv, NEW how \in Outcomes,
                    resuming[how] > 0,
                    resuming' = [resuming EXCEPT ![how] = @ - 1],
                    \/ /\ how = "ok"
                       /\ isRunning' = TRUE
                       /\ status' = "waitingForPC"
                       /\ UNCHANGED <<serverVars, encoderOn, capture>>
                    \/ how = "error" /\ Fail,
                    UNCHANGED <<mainJobs, asking, configured, capturing, taps>>
             PROVE  AppInv'
  BY Zenon DEF Resume
<1>1. resuming' \in [Outcomes -> Nat]
  BY DEF AppInv, AppTypes
<1>2. mainJobs' = mainJobs /\ asking' = asking /\ capturing' = capturing
  OBVIOUS
<1>3. CASE how = "error" /\ Fail
  BY <1>1, <1>2, <1>3, StoppedStep DEF Fail, AppInv, AppTypes
<1>4. CASE /\ how = "ok" /\ isRunning' = TRUE /\ status' = "waitingForPC"
           /\ UNCHANGED <<serverVars, encoderOn, capture>>
  <2>1. /\ jobs' = jobs /\ listener' = listener /\ listeners' = listeners
        /\ encoderOn' = encoderOn /\ capture' = capture
    BY <1>4 DEF serverVars
  <2> QED
    BY <1>1, <1>2, <1>4, <2>1 DEF AppInv, AppTypes, ListenerTypes, NoLostListener,
       EncoderInv, CameraInv, ListenerInv, StatusInv
<1> QED
  BY <1>3, <1>4

(* Nothing but the camera moves, and what is in flight stays so.           *)
LEMMA CameraKept ==
  ASSUME AppInv,
         UNCHANGED <<jobs, listener, listeners, modelVars, encoderOn>>,
         AppTypes', CameraInv', InFlight => InFlight'
  PROVE  AppInv'
<1>1. /\ jobs' = jobs /\ listener' = listener /\ listeners' = listeners
      /\ encoderOn' = encoderOn /\ isRunning' = isRunning /\ status' = status
  BY DEF modelVars
<1> QED
  BY <1>1 DEF AppInv, ListenerTypes, NoLostListener, EncoderInv, ListenerInv, StatusInv

LEMMA PermissionStep == AppInv /\ Permission => AppInv'
<1> SUFFICES ASSUME AppInv, Permission PROVE AppInv'
  OBVIOUS
<1>1. /\ UNCHANGED <<jobs, listener, listeners, modelVars, encoderOn>>
      /\ mainJobs' = mainJobs /\ isRunning' = isRunning
      /\ capturing' = capturing /\ jobs' = jobs /\ encoderOn' = encoderOn
      /\ asking' \in Nat
  BY DEF Permission, serverVars, modelVars, AppInv, AppTypes
<1>2. capture \in Seq(CaptureOps) /\ resuming \in [Outcomes -> Nat]
  BY DEF AppInv, AppTypes
<1>3. CASE capture' = Append(capture, "start") /\ resuming' = resuming
  <2>1. /\ capture' \in Seq(CaptureOps) /\ Has(capture', "start")
        /\ Has(capture, "stop") => Has(capture', "stop")
    BY <1>2, <1>3, AppendHas DEF CaptureOps
  <2>2. AppTypes' /\ CameraInv' /\ InFlight'
    BY <1>1, <1>3, <2>1 DEF AppInv, AppTypes, CameraInv, InFlight
  <2> QED
    BY <1>1, <2>2, CameraKept
<1>4. CASE resuming' = [resuming EXCEPT !["error"] = @ + 1] /\ capture' = capture
  <2>1. /\ resuming' \in [Outcomes -> Nat] /\ resuming'["error"] > 0
        /\ resuming'["ok"] = resuming["ok"] /\ "error" \in Outcomes
    BY <1>2, <1>4 DEF Outcomes
  <2>2. AppTypes' /\ CameraInv' /\ InFlight'
    BY <1>1, <1>4, <2>1 DEF AppInv, AppTypes, CameraInv, InFlight
  <2> QED
    BY <1>1, <2>2, CameraKept
<1> QED
  BY <1>3, <1>4 DEF Permission, Finish

LEMMA CaptureStep == AppInv /\ CaptureJob => AppInv'
<1> SUFFICES ASSUME AppInv, CaptureJob PROVE AppInv'
  OBVIOUS
<1>1. /\ UNCHANGED <<jobs, listener, listeners, modelVars, encoderOn>>
      /\ mainJobs' = mainJobs /\ isRunning' = isRunning
      /\ jobs' = jobs /\ encoderOn' = encoderOn /\ asking' = asking
  BY DEF CaptureJob, serverVars, modelVars
<1>2. capture \in Seq(CaptureOps) /\ resuming \in [Outcomes -> Nat]
  BY DEF AppInv, AppTypes
<1>3. /\ capture' \in Seq(CaptureOps)
      /\ \A y : Has(capture, y) <=> Head(capture) = y \/ Has(capture', y)
  BY <1>2, TailHas DEF CaptureJob
<1>4. CASE /\ Head(capture) = "start" /\ capturing' = TRUE
           /\ resuming' = [resuming EXCEPT !["ok"] = @ + 1]
  <2>1. /\ resuming' \in [Outcomes -> Nat] /\ resuming'["ok"] > 0
        /\ "ok" \in Outcomes
    BY <1>2, <1>4 DEF Outcomes
  <2>2. AppTypes' /\ CameraInv' /\ InFlight'
    BY <1>1, <1>3, <1>4, <2>1 DEF AppInv, AppTypes, CameraInv, InFlight
  <2> QED
    BY <1>1, <2>2, CameraKept
<1>5. CASE /\ Head(capture) = "start" /\ capturing' = capturing
           /\ resuming' = [resuming EXCEPT !["error"] = @ + 1]
  <2>1. /\ resuming' \in [Outcomes -> Nat] /\ resuming'["error"] > 0
        /\ resuming'["ok"] = resuming["ok"] /\ "error" \in Outcomes
    BY <1>2, <1>5 DEF Outcomes
  <2>2. Has(capture, "stop") => Has(capture', "stop")
    BY <1>3, <1>5
  <2>3. AppTypes' /\ CameraInv' /\ InFlight'
    BY <1>1, <1>3, <1>5, <2>1, <2>2 DEF AppInv, AppTypes, CameraInv, InFlight
  <2> QED
    BY <1>1, <2>3, CameraKept
<1>6. CASE /\ Head(capture) = "stop" /\ capturing' = FALSE
           /\ resuming' = resuming
  <2>1. Has(capture, "start") => Has(capture', "start")
    BY <1>3, <1>6
  <2>2. AppTypes' /\ CameraInv' /\ (InFlight => InFlight')
    BY <1>1, <1>3, <1>6, <2>1 DEF AppInv, AppTypes, CameraInv, InFlight
  <2> QED
    BY <1>1, <2>2, CameraKept
<1> QED
  BY <1>4, <1>5, <1>6 DEF CaptureJob, Finish

(* The reports of a job of the server are jobs of the main actor.          *)
LEMMA EmittedTypes ==
  ASSUME NEW job
  PROVE  S!Emitted(job) \in Seq(MainOps)
<1>1. /\ <<>> \in Seq(MainOps) /\ <<"stopped">> \in Seq(MainOps)
      /\ <<"waiting">> \in Seq(MainOps) /\ <<"connected">> \in Seq(MainOps)
      /\ <<"error">> \in Seq(MainOps) /\ <<"error", "stopped">> \in Seq(MainOps)
  BY EmptySeq DEF MainOps, Reports
<1>2. S!Waiting \in Seq(MainOps)
  BY <1>1 DEF S!Waiting
<1>3. <<"error">> \o S!Waiting \in Seq(MainOps)
  BY <1>1, <1>2, ConcatProperties
<1> QED
  BY <1>1, <1>2, <1>3, Zenon DEF S!Emitted

(* Of the jobs only a stop, or the failure of the listener, touches it.    *)
LEMMA JobEffect ==
  ASSUME S!RunJob
  PROVE  /\ jobs # <<>> /\ jobs' = Tail(jobs)
         /\ \/ Head(jobs).op # "stop" /\ listener' = listener /\ listeners' = listeners
            \/ S!StopLocked
<1>1. jobs # <<>> /\ jobs' = Tail(jobs)
  BY DEF S!RunJob
<1>2. CASE Head(jobs).op = "video" /\ S!Enqueue(Head(jobs).arg)
  BY <1>1, <1>2 DEF S!Enqueue
<1>3. CASE Head(jobs).op \in S!ConnOps /\ S!ConnJob(Head(jobs).op, Head(jobs).arg)
  <2>1. Head(jobs).op # "stop"
    BY <1>3 DEF S!ConnOps
  <2>2. listener' = listener /\ listeners' = listeners
    BY <1>3 DEF S!ConnJob, S!Accept, S!Disconnect
  <2> QED
    BY <1>1, <2>1, <2>2
<1>4. CASE S!ListenerJob(Head(jobs).op)
  BY <1>1, <1>4 DEF S!ListenerJob
<1> QED
  BY <1>1, <1>2, <1>3, <1>4 DEF S!RunJob

LEMMA ServerJobStep == AppInv /\ ServerJob => AppInv'
<1> SUFFICES ASSUME AppInv, ServerJob PROVE AppInv'
  OBVIOUS
<1>1. /\ isRunning' = isRunning /\ status' = status /\ capture' = capture
      /\ encoderOn' = encoderOn /\ asking' = asking
      /\ capturing' = capturing /\ resuming' = resuming
  BY DEF ServerJob, cameraVars
<1>2. mainJobs' \in Seq(MainOps)
  BY EmittedTypes, ConcatProperties DEF ServerJob, AppInv, AppTypes
<1>3. /\ jobs' \in Seq(JobRecords)
      /\ StopQueued(jobs) => Head(jobs).op = "stop" \/ StopQueued(jobs')
  BY JobEffect, TailStop DEF ServerJob, AppInv, AppTypes
<1>4. AppTypes' /\ EncoderInv' /\ CameraInv' /\ StatusInv'
  BY <1>1, <1>2, <1>3
     DEF AppInv, AppTypes, EncoderInv, CameraInv, StatusInv, InFlight
<1>5. CASE Head(jobs).op # "stop" /\ listener' = listener /\ listeners' = listeners
  BY <1>1, <1>3, <1>4, <1>5
     DEF AppInv, ListenerTypes, NoLostListener, ListenerInv, InFlight
<1>6. CASE S!StopLocked
  <2>1. /\ listener' = 0
        /\ listeners' = IF listener = 0 THEN listeners
                        ELSE [listeners EXCEPT !.starting = @ \ {listener},
                                               !.live = @ \ {listener},
                                               !.cancelled = @ \cup {listener}]
    BY <1>6 DEF S!StopLocked
  <2>2. ListenerTypes' /\ NoLostListener'
    BY <2>1 DEF AppInv, ListenerTypes, NoLostListener
  <2>3. ListenerInv'
    BY <2>1 DEF ListenerInv
  <2> QED
    BY <1>4, <2>2, <2>3 DEF AppInv
<1> QED
  BY <1>5, <1>6, JobEffect DEF ServerJob

(* The framework queues an event, and a listener may be over.              *)
LEMMA EventStep ==
  ASSUME AppInv, NEW op \in Ops, op # "stop", NEW arg \in Int, S!Event(op, arg),
         ListenerTypes', listeners'.live \subseteq listeners.live,
         UNCHANGED <<modelVars, cameraVars, encoderOn>>
  PROVE  AppInv'
<1>1. /\ jobs' = Append(jobs, S!Job(op, arg)) /\ listener' = listener
      /\ S!Job(op, arg) \in JobRecords
      /\ jobs \in Seq(JobRecords)
      /\ isRunning' = isRunning /\ status' = status /\ capture' = capture
      /\ mainJobs' = mainJobs /\ encoderOn' = encoderOn /\ asking' = asking
      /\ capturing' = capturing /\ resuming' = resuming
  BY DEF S!Event, S!Async, S!Job, JobRecords, modelVars, cameraVars, AppInv, AppTypes
<1>2. jobs' \in Seq(JobRecords) /\ (StopQueued(jobs) => StopQueued(jobs'))
  BY <1>1, AppendStop
<1> QED
  BY <1>1, <1>2 DEF AppInv, AppTypes, NoLostListener, EncoderInv, CameraInv,
     ListenerInv, StatusInv, InFlight

LEMMA NetworkStep == AppInv /\ Network => AppInv'
<1> SUFFICES ASSUME AppInv, Network PROVE AppInv'
  OBVIOUS
<1>1. UNCHANGED <<modelVars, cameraVars, encoderOn>>
  BY DEF Network
<1>2. ASSUME NEW c \in S!Conns,
             \/ S!Connects(c) \/ S!GetsReady(c) \/ S!Fails(c)
             \/ S!Completes(c) \/ S!Receives(c),
             listeners' = listeners
      PROVE  AppInv'
  <2>1. PICK op \in Ops : op # "stop" /\ S!Event(op, c)
    BY <1>2 DEF S!Connects, S!GetsReady, S!Fails, S!Completes, S!Receives, Ops, S!ConnOps
  <2>2. c \in Int /\ listener' = listener
    BY <2>1 DEF S!Conns, S!Event
  <2>3. ListenerTypes' /\ listeners'.live \subseteq listeners.live
    BY <1>2, <2>2 DEF AppInv, ListenerTypes
  <2> QED
    BY <1>1, <2>1, <2>2, <2>3, EventStep
<1>3. ASSUME NEW l \in 1 .. MaxListeners, S!ListenerFails(l) PROVE AppInv'
  <2>1. /\ listeners' = [listeners EXCEPT !.live = @ \ {l}, !.starting = @ \ {l}]
        /\ S!Event("listenerFailed", l) /\ "listenerFailed" \in Ops /\ l \in Int
        /\ listener' = listener
    BY <1>3 DEF S!ListenerFails, S!Event, Ops
  <2>2. ListenerTypes' /\ listeners'.live \subseteq listeners.live
    BY <2>1 DEF AppInv, ListenerTypes
  <2> QED
    BY <1>1, <2>1, <2>2, EventStep
<1>4. ASSUME NEW l \in 1 .. MaxListeners, S!ListenerReports(l) PROVE AppInv'
  <2>1. PICK op \in {"listenerReady", "listenerCancelled"} : S!Event(op, l)
    BY <1>4 DEF S!ListenerReports
  <2>2. op \in Ops /\ op # "stop" /\ l \in Int /\ listener' = listener
    BY <2>1 DEF S!Event, Ops
  <2>3. ListenerTypes' /\ listeners'.live \subseteq listeners.live
    BY <1>4, <2>2 DEF S!ListenerReports, AppInv, ListenerTypes
  <2> QED
    BY <1>1, <2>1, <2>2, <2>3, EventStep
<1> QED
  BY <1>2, <1>3, <1>4 DEF Network, S!Framework

LEMMA AppStutter == AppInv /\ UNCHANGED vars => AppInv'
  BY DEF vars, serverVars, modelVars, cameraVars, AppInv, AppTypes, ListenerTypes,
     NoLostListener, EncoderInv, CameraInv, ListenerInv, StatusInv, InFlight

-----------------------------------------------------------------------------
(* The theorems.                                                           *)

(* AppInv is an invariant: whatever is on belongs to an app that runs or   *)
(* starts, or is about to be stopped.                                      *)
THEOREM AppInvariant == Spec => []AppInv
<1>1. AppInv /\ [Next]_vars => AppInv'
  BY ToggleStep, MainJobStep, ResumeStep, PermissionStep, CaptureStep,
     ServerJobStep, NetworkStep, AppStutter, Zenon DEF Next
<1> QED
  BY <1>1, InitAppInv, PTL DEF Spec

(* An app that shows START CAMERA and has come to rest is off: no start    *)
(* that was overtaken leaves the camera, the encoder or the port open.     *)
THEOREM AppStoppedIsDark == Spec => []StoppedIsDark
<1>1. AppInv => StoppedIsDark
  <2> SUFFICES ASSUME AppInv, Quiet, ~isRunning PROVE ~capturing /\ ~encoderOn /\ listener = 0
    BY DEF StoppedIsDark
  <2>1. /\ jobs = <<>> /\ capture = <<>> /\ asking = 0
        /\ resuming = [how \in Outcomes |-> 0]
    BY DEF Quiet
  <2>2. ~InFlight /\ ~Has(capture, "stop") /\ ~StopQueued(jobs) /\ ~(resuming["ok"] > 0)
    BY <2>1 DEF InFlight, Has, StopQueued, Outcomes
  <2> QED
    BY <2>2 DEF AppInv, EncoderInv, CameraInv, ListenerInv
<1> QED
  BY <1>1, AppInvariant, PTL

(* No listener is lost: what listens is what stop() will cancel.           *)
THEOREM AppNoLostListener == Spec => []NoLostListener
<1>1. AppInv => NoLostListener
  BY DEF AppInv
<1> QED
  BY <1>1, AppInvariant, PTL

(* The status agrees with the button, also after a start() that was        *)
(* overtaken by another.                                                   *)
THEOREM AppStatusFollowsButton == Spec => []StatusFollowsButton
<1>1. AppInv => StatusFollowsButton
  <2>1. Quiet => ~InFlight
    BY DEF Quiet, InFlight, Has, Outcomes
  <2> QED
    BY <2>1 DEF AppInv, StatusInv, StatusFollowsButton
<1> QED
  BY <1>1, AppInvariant, PTL
=============================================================================
