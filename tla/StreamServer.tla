---------------------------- MODULE StreamServer ----------------------------
(***************************************************************************)
(* Network/StreamServer.swift: the TCP server of the phone.                *)
(*                                                                         *)
(* All its state but the listener belongs to one serial dispatch queue.    *)
(* The callers and the handlers of the Network framework only append a job *)
(* to that queue (queue.async): between an event and the job that treats   *)
(* it, other jobs run.  RunJob runs the oldest.  The framework's side of a *)
(* connection (phase, unsent, receiving) is external; its events come in   *)
(* any order it allows.                                                    *)
(***************************************************************************)
EXTENDS Integers, Sequences

CONSTANTS MaxConns,       \* bound on the connections a PC opens
          MaxListeners,   \* bound on the calls of start that listen
          MaxFrames,      \* bound on the frames the encoder puts out
          MaxJobs         \* bound on the queue when new work comes in

ASSUME ServerAssumption == /\ MaxConns \in Nat /\ MaxListeners \in Nat
                           /\ MaxFrames \in Nat /\ MaxJobs \in Nat

VARIABLES
    jobs,             \* the serial queue dev.local.IPhoneCam.network
    listener,         \* the current listener, 0 for nil
    connection,       \* the current connection, 0 for nil
    connectionReady, sendInFlight,
    pending,          \* pendingVideoPacket: a frame number, 0 for nil
    controlBuffer,    \* the connection the buffered bytes are from, 0 if none
    keyRequested,     \* forceKeyframePending of the encoder
    frames,           \* kind of every frame the encoder put out
    listeners,        \* number created; which start, are live, are cancelled
    phase,            \* per connection: how far the framework has it
    unsent,           \* per connection: sends not yet completed
    receiving,        \* per connection: a receive is outstanding
    wire              \* per connection: what was handed to send

stateVars == <<connection, connectionReady, sendInFlight, pending, controlBuffer>>
encoderVars == <<keyRequested, frames>>
frameworkVars == <<phase, unsent, receiving, wire>>
vars == <<jobs, listener, stateVars, encoderVars, listeners,
          frameworkVars>>

Conns == 1 .. MaxConns
Kinds == {"key", "delta"}
IsKey(n) == n # 0 /\ frames[n] = "key"
Hello == 0                       \* on the wire, beside the frame numbers

Job(op, arg) == [op |-> op, arg |-> arg]
ConnOps == {"accept", "ready", "failed", "sent", "sendError", "half", "line",
            "badLine", "closed"}

Init ==
    /\ jobs = <<>>
    /\ listener = 0 /\ connection = 0
    /\ connectionReady = FALSE /\ sendInFlight = FALSE
    /\ pending = 0 /\ controlBuffer = 0
    /\ keyRequested = FALSE /\ frames = <<>>
    /\ listeners = [created |-> 0, starting |-> {}, live |-> {},
                     cancelled |-> {}]
    /\ phase = [c \in Conns |-> "new"]
    /\ unsent = [c \in Conns |-> 0]
    /\ receiving = [c \in Conns |-> FALSE]
    /\ wire = [c \in Conns |-> <<>>]

Room == Len(jobs) < MaxJobs
Async(job) == jobs' = Append(jobs, job)

-----------------------------------------------------------------------------
(* Calls of the app: start on the main thread, stop, the encoder's output. *)

(* Mutant: start listens again although it listens already.                *)
StartAgain ==
    /\ listeners.created < MaxListeners
    /\ listener' = listeners.created + 1
    /\ listeners' = [listeners EXCEPT !.created = listener',
                                      !.starting = @ \cup {listener'},
                                      !.live = @ \cup {listener'}]
    /\ UNCHANGED <<jobs, stateVars, encoderVars, frameworkVars>>
(* start listens unless it does already.                                   *)
Start ==
    /\ listener = 0
    /\ listeners.created < MaxListeners
    /\ listener' = listeners.created + 1
    /\ listeners' = [listeners EXCEPT !.created = listener',
                                      !.starting = @ \cup {listener'},
                                      !.live = @ \cup {listener'}]
    /\ UNCHANGED <<jobs, stateVars, encoderVars, frameworkVars>>

Stop ==
    /\ Room
    /\ Async(Job("stop", 0))
    /\ UNCHANGED <<listener, stateVars, encoderVars, listeners, frameworkVars>>

(* A frame leaves the encoder.  A requested keyframe comes once the frames *)
(* already in the encoder are out, and is lost when its encode fails.      *)
Output(kind) ==
    /\ Len(frames) < MaxFrames /\ Room
    /\ frames' = Append(frames, kind)
    /\ keyRequested' = (keyRequested /\ kind = "delta")
    /\ Async(Job("video", Len(frames')))
    /\ UNCHANGED <<listener, stateVars, listeners, frameworkVars>>

EncodeFails ==
    /\ keyRequested
    /\ keyRequested' = FALSE
    /\ UNCHANGED <<jobs, listener, stateVars, frames, listeners, frameworkVars>>

-----------------------------------------------------------------------------
(* Events of the Network framework (external).                             *)

Event(op, arg) ==
    /\ Async(Job(op, arg))
    /\ UNCHANGED <<listener, stateVars, encoderVars, wire>>

Connects(c) == /\ Room
               /\ phase[c] = "new" /\ listeners.live # {}
               /\ \A d \in Conns : d < c => phase[d] # "new"
               /\ phase' = [phase EXCEPT ![c] = "offered"]
               /\ Event("accept", c)
               /\ UNCHANGED <<unsent, receiving>>
GetsReady(c) == /\ Room
                /\ phase[c] = "started"
                /\ phase' = [phase EXCEPT ![c] = "ready"]
                /\ Event("ready", c)
                /\ UNCHANGED <<unsent, receiving>>
Fails(c) == /\ Room
            /\ phase[c] \in {"started", "ready"}
            /\ phase' = [phase EXCEPT ![c] = "over"]
            /\ Event("failed", c)
            /\ UNCHANGED <<unsent, receiving>>
(* A completion is never held back by MaxJobs: the fairness of Spec is its. *)
Completes(c) == /\ unsent[c] > 0
                /\ unsent' = [unsent EXCEPT ![c] = @ - 1]
                /\ Event(IF phase[c] = "ready" THEN "sent" ELSE "sendError", c)
                /\ UNCHANGED <<phase, receiving>>
Receives(c) == /\ Room
               /\ receiving[c]
               /\ receiving' = [receiving EXCEPT ![c] = FALSE]
               /\ \E op \in {"half", "line", "badLine", "closed", "failed"} :
                     (phase[c] = "ready" \/ op = "failed") /\ Event(op, c)
               /\ UNCHANGED <<phase, unsent>>

ListenerFails(l) ==
    /\ Room
    /\ l \in listeners.live
    /\ listeners' = [listeners EXCEPT !.live = @ \ {l}, !.starting = @ \ {l}]
    /\ Event("listenerFailed", l)

(* These two events change no state of the server; they are reported.      *)
ListenerReports(l) ==
    /\ Room
    /\ \/ /\ l \in listeners.starting
          /\ listeners' = [listeners EXCEPT !.starting = @ \ {l}]
          /\ Event("listenerReady", l)
       \/ /\ l \in listeners.cancelled
          /\ listeners' = [listeners EXCEPT !.cancelled = @ \ {l}]
          /\ Event("listenerCancelled", l)
    /\ UNCHANGED <<phase, unsent, receiving>>

Framework ==
    \/ /\ \E c \in Conns : \/ Connects(c) \/ GetsReady(c) \/ Fails(c)
                           \/ Completes(c) \/ Receives(c)
       /\ UNCHANGED listeners
    \/ /\ \E l \in 1 .. MaxListeners : ListenerFails(l)
       /\ UNCHANGED <<phase, unsent, receiving>>

-----------------------------------------------------------------------------
(* The jobs.                                                               *)

Cancel(p) == IF connection = 0 THEN p ELSE [p EXCEPT ![connection] = "over"]

(* Mutant: whether the connection is ready survives it.                    *)
ForgetKeepsReady(c) == /\ connection' = c
                       /\ sendInFlight' = FALSE
                       /\ pending' = 0
                       /\ controlBuffer' = 0
                       /\ UNCHANGED connectionReady
(* Mutant: unfinished control lines survive their connection.              *)
ForgetKeepsControl(c) == /\ connection' = c
                         /\ connectionReady' = FALSE
                         /\ sendInFlight' = FALSE
                         /\ pending' = 0
                         /\ UNCHANGED controlBuffer
(* The state of a connection, once it is c: nothing ready, sent or held.   *)
Forget(c) == /\ connection' = c
             /\ connectionReady' = FALSE
             /\ sendInFlight' = FALSE
             /\ pending' = 0
             /\ controlBuffer' = 0

(* sendLocked on a connection that is ready.                               *)
Send(packet) == /\ sendInFlight' = TRUE
                /\ unsent' = [unsent EXCEPT ![connection] = @ + 1]
                /\ wire' = [wire EXCEPT ![connection] = Append(@, packet)]

(* handleDisconnectLocked                                                  *)
Disconnect ==
    /\ Forget(0)
    /\ phase' = Cancel(phase)
    /\ UNCHANGED <<listener, keyRequested, listeners, unsent, receiving, wire>>

(* stopLocked                                                              *)
StopLocked ==
    /\ Forget(0)
    /\ phase' = Cancel(phase)
    /\ listener' = 0
    /\ listeners' = IF listener = 0 THEN listeners
                    ELSE [listeners EXCEPT !.starting = @ \ {listener},
                                           !.live = @ \ {listener},
                                           !.cancelled = @ \cup {listener}]
    /\ UNCHANGED <<keyRequested, unsent, receiving, wire>>

(* Mutant: the old client is left to itself.                               *)
AcceptBeside(c) ==
    /\ Forget(c)
    /\ phase' = [phase EXCEPT ![c] = "started"]
    /\ UNCHANGED <<listener, keyRequested, listeners, unsent, receiving, wire>>
(* A new client replaces the old one.                                      *)
Accept(c) ==
    /\ Forget(c)
    /\ phase' = [Cancel(phase) EXCEPT ![c] = "started"]
    /\ UNCHANGED <<listener, keyRequested, listeners, unsent, receiving, wire>>

(* Mutant: events of every connection are taken for the current one's.     *)
AnyConnection(c) == connection # 0
(* "guard self.connection === connection": an event of a connection that   *)
(* has been replaced or dropped is void.                                   *)
Current(c) == connection = c

(* Mutant: a connection is ready without the HELLO.                        *)
ReadyWithoutHello == /\ connectionReady' = TRUE
                     /\ keyRequested' = TRUE
                     /\ receiving' = [receiving EXCEPT ![connection] = TRUE]
                     /\ UNCHANGED <<sendInFlight, unsent, wire>>
(* .ready: HELLO first, a fresh keyframe, and the control lines.           *)
Ready == /\ connectionReady' = TRUE
         /\ Send(Hello)
         /\ keyRequested' = TRUE
         /\ receiving' = [receiving EXCEPT ![connection] = TRUE]

(* Mutant: the live edge replaces whatever is pending.                     *)
HoldNewest(n) == pending' = n
(* One frame waits for the send in flight, and no delta replaces a keyframe*)
Hold(n) == pending' = IF IsKey(n) \/ ~IsKey(pending) THEN n ELSE pending

(* enqueueVideoPacketLocked                                                *)
Enqueue(n) ==
    /\ IF ~connectionReady THEN UNCHANGED <<pending, sendInFlight, unsent, wire>>
       ELSE IF sendInFlight THEN Hold(n) /\ UNCHANGED <<sendInFlight, unsent, wire>>
       ELSE Send(n) /\ UNCHANGED pending
    /\ UNCHANGED <<listener, connection, connectionReady, controlBuffer,
                   keyRequested, listeners, phase, receiving>>

(* Mutant: a completed send leaves the pending frame where it is.          *)
SentForgetsPending == /\ sendInFlight' = FALSE
                      /\ UNCHANGED <<pending, unsent, wire>>
(* Mutant: the pending frame is sent and stays pending.                    *)
SentKeepsPending == IF pending = 0
                    THEN /\ sendInFlight' = FALSE
                         /\ UNCHANGED <<pending, unsent, wire>>
                    ELSE Send(pending) /\ UNCHANGED pending
(* The completion of a send sends the pending frame.                       *)
Sent == IF pending = 0
        THEN /\ sendInFlight' = FALSE
             /\ UNCHANGED <<pending, unsent, wire>>
        ELSE pending' = 0 /\ Send(pending)

(* The job of an event of connection c.                                    *)
ConnJob(op, c) ==
    \/ op = "accept" /\ Accept(c)
    \/ /\ op # "accept" /\ ~Current(c)
       /\ UNCHANGED <<listener, stateVars, keyRequested, listeners, frameworkVars>>
    \/ /\ op = "ready" /\ Current(c)
       /\ Ready
       /\ UNCHANGED <<listener, connection, pending, controlBuffer, listeners, phase>>
    \/ op \in {"failed", "sendError", "closed"} /\ Current(c) /\ Disconnect
    \/ /\ op = "sent" /\ Current(c)
       /\ Sent
       /\ UNCHANGED <<listener, connection, connectionReady, controlBuffer,
                      keyRequested, listeners, phase, receiving>>
    \/ /\ op \in {"half", "line", "badLine"} /\ Current(c)
       /\ controlBuffer' = IF op = "half" THEN c ELSE 0
       /\ receiving' = [receiving EXCEPT ![c] = TRUE]
       /\ UNCHANGED <<listener, connection, connectionReady, sendInFlight,
                      pending, keyRequested, listeners, phase, unsent, wire>>

(* The jobs of listener events do not look which listener they are from.   *)
ListenerJob(op) ==
    \/ op \in {"stop", "listenerFailed"} /\ StopLocked
    \/ /\ op \in {"listenerReady", "listenerCancelled"}
       /\ UNCHANGED <<listener, stateVars, keyRequested, listeners, frameworkVars>>

(* What the job passes to onStateChange, in this order.                    *)
Waiting == IF listener = 0 THEN <<>> ELSE <<"waiting">>
Emitted(job) ==
    LET current == job.op \in ConnOps /\ Current(job.arg)
    IN  CASE job.op = "stop" -> <<"stopped">>
          [] job.op = "listenerFailed" -> <<"error", "stopped">>
          [] job.op = "listenerReady" -> <<"waiting">>
          [] job.op = "listenerCancelled" -> <<"stopped">>
          [] current /\ job.op = "ready" -> <<"connected">>
          [] current /\ job.op \in {"failed", "sendError"} -> <<"error">> \o Waiting
          [] current /\ job.op = "closed" -> Waiting
          [] current /\ job.op = "badLine" -> <<"error">>
          [] OTHER -> <<>>

RunJob ==
    /\ jobs # <<>>
    /\ jobs' = Tail(jobs)
    /\ \/ Head(jobs).op = "video" /\ Enqueue(Head(jobs).arg)
       \/ Head(jobs).op \in ConnOps /\ ConnJob(Head(jobs).op, Head(jobs).arg)
       \/ ListenerJob(Head(jobs).op)
    /\ UNCHANGED frames

Next == \/ Start \/ Stop
        \/ \E kind \in Kinds : Output(kind)
        \/ EncodeFails
        \/ Framework
        \/ RunJob

(* The serial queue runs its jobs, and the framework completes every send. *)
Spec == /\ Init /\ [][Next]_vars
        /\ WF_vars(RunJob)
        /\ \A c \in Conns : WF_vars(Completes(c) /\ UNCHANGED listeners)

-----------------------------------------------------------------------------
(* Every variable has its type, and only a connection is ready.            *)
TypeOK ==
    /\ \A i \in 1 .. Len(jobs) : jobs[i].arg \in Nat
    /\ listener \in 0 .. MaxListeners /\ connection \in 0 .. MaxConns
    /\ connectionReady \in BOOLEAN /\ sendInFlight \in BOOLEAN
    /\ connectionReady => connection # 0
    /\ pending \in 0 .. Len(frames) /\ controlBuffer \in 0 .. MaxConns
    /\ keyRequested \in BOOLEAN /\ frames \in Seq(Kinds)
    /\ listeners \in [created : 0 .. MaxListeners,
                     starting : SUBSET (1 .. MaxListeners),
                     live : SUBSET (1 .. MaxListeners),
                     cancelled : SUBSET (1 .. MaxListeners)]
    /\ phase \in [Conns -> {"new", "offered", "started", "ready", "over"}]
    /\ unsent \in [Conns -> Nat] /\ receiving \in [Conns -> BOOLEAN]
    /\ wire \in [Conns -> Seq(0 .. MaxFrames)]

(* HELLO "must be the first packet after a connection becomes ready": on   *)
(* every connection, replaced ones too, it is the first packet and the only*)
(* one, however the jobs of frames and connections interleave.             *)
HelloFirst ==
    \A c \in Conns : \A i \in 1 .. Len(wire[c]) : wire[c][i] = Hello <=> i = 1

(* At most one send of the current connection is with the framework, and   *)
(* the flag says so: a stale completion of an earlier connection frees     *)
(* nothing.                                                                *)
Completions(c) == {i \in 1 .. Len(jobs) : jobs[i].op \in {"sent", "sendError"}
                                            /\ jobs[i].arg = c}
OneSendInFlight ==
    connection # 0 =>
        /\ sendInFlight <=> unsent[connection] = 1 \/ Completions(connection) # {}
        /\ unsent[connection] + (IF Completions(connection) = {} THEN 0 ELSE 1) <= 1

(* A frame is pending only behind a send in flight: otherwise nothing would*)
(* ever send it.                                                           *)
PendingHasSend == pending # 0 => sendInFlight /\ connectionReady

(* No connection runs that the server has forgotten: one that is accepted  *)
(* late, after stop, is still the one that the next stop, or the next      *)
(* client, closes.                                                         *)
ClientIsOwned == \A c \in Conns : phase[c] \in {"started", "ready"} => connection = c

(* Bytes of an unfinished control line are from the current connection: no *)
(* command is put together from two clients.                               *)
ControlNotMixed == controlBuffer \in {0, connection}

(* Frames go out in the order they were encoded, none of them twice.       *)
WireInOrder ==
    \A c \in Conns : \A i, j \in 1 .. Len(wire[c]) : i < j => wire[c][i] < wire[c][j]

(* A keyframe that waits is sent, or replaced by a newer keyframe, or its  *)
(* connection ends ("Losing the first forced IDR would make a fresh PC     *)
(* decoder wait another GOP").                                             *)
PendingKeyframeSent ==
    \A n \in 1 .. MaxFrames : \A c \in Conns :
        (connection = c /\ pending = n /\ IsKey(n))
            ~> \/ connection # c
               \/ \E i \in 1 .. Len(wire[c]) : wire[c][i] >= n /\ IsKey(wire[c][i])
=============================================================================
